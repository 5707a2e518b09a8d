# TLA+ models of the Steward Cluster API control-plane provider

This directory holds TLA+ models of the controllers in `src/controllers`.
TLC checks them. The models cover how an SCP (StewardControlPlane) passes
through its reconcile pipeline, how its finalizer protects the remote
TenantControlPlane (TCP), and how the ExternalClusterReference router
keeps one connection per kubeconfig key. They also cover the string
conversions that tie the parts together: the endpoint and certSANs, the
Store key, and the remote TCP name.

## The system

| Part | Code | State it owns | Operations |
|---|---|---|---|
| SCP reconcile pipeline | `stewardcontrolplane_controller.go` `Reconcile` | SCP status (conditions, initialized, ready), `spec.controlPlaneEndpoint` | one pass per request: get SCP, owner gate, get Cluster, deletion branch, remote client, finalizer, create/update TCP, endpoint wait, endpoint patch, infrastructure patch, gates, initialize, replicate secrets, ready |
| Finalizer handling | `stewardcontrolplane_finalizer.go` | `metadata.finalizers` | `handleFinalizer` (get-modify-update), `handleDeletion` (remote delete, remove finalizer) |
| TCP translation | `..._controller_tcp.go` | the TCP object (local or remote) | `createOrUpdateTenantControlPlane`, certSAN validation (`TenantControlPlaneSpec`) |
| Infra patch dispatcher | `..._cluster_patch.go` | the infrastructure cluster's endpoint and ready flag | `patchCluster` switch: generic patch, patch with status, OpenStack, check, check-or-patch |
| Resource replicator | `..._controller_resources.go` | `<cluster>-kubeconfig` and `<cluster>-ca` Secrets | `createRequiredResources`: kubeconfig, then CA |
| Remote client resolution | `..._controller_externalreference.go` | none | `extractRemoteClient`: gates, Secret, `Store.Get(key, resourceVersion)`, CRD check |
| Secret change router | `externalclusterreference_controller.go` | the Store of managers (`pkg/externalclusterreference`, not in this repository) | `Reconcile` per kubeconfig Secret: sweep unused keys, restart stale ones, `go startManager`, `Store.Add`; `startManager` stops its key on failure |
| PushStewardChange | same file | none | sends a generic event for every SCP whose remote TCP changed |
| Names and indexers | `pkg/externalclusterreference`, `pkg/indexers` | none | key strings, field indexes |

How the parts interact:

- The SCP controller reads the Store that the router fills. A Store miss
  ends its pass with an error, which the work queue retries.
- Remote TCP changes come back to the SCP controller through
  PushStewardChange's channel. Local TCP and Secret changes come through
  `Owns`.
- The Cluster and the infrastructure cluster are not watched. The
  pipeline polls them with `RequeueAfter`.
- SCP events without an owner reference are filtered out, and so is
  every event whose object carries the paused annotation
  (`ResourceNotPaused`).
- The controller's own writes come back as events. These writes are SCP
  status updates and patches, the owned `<cluster>-kubeconfig` and
  `<cluster>-ca` Secrets, and the TCP. A pass that ends without a
  requeue after changing something is therefore followed by another
  pass. A write that changes nothing sends no event.
- The pause gate (`annotations.IsPaused`) and the Cluster NotFound
  return end a pass with no requeue. Nothing watches the Cluster.

Behaviours that make the code hard to test:

- Passes for one SCP interleave with the Steward operator, the Cluster
  API controllers, the user and other controllers editing finalizers.
- The TCP snapshot taken at creation is used by every later stage.
- Writes are get-modify-update with conflict retries.
- Manager goroutines fail and clean up concurrently with the router.
- Store entries are gated on the Secret's version.
- The Store key and the remote TCP name are strings built in one place and
  parsed or rebuilt in another.

## Modules

### `ExternalClusterReference.tla`: the router and the Store

The model covers one Secret with a set of data keys, `Keys`. Each key is
one store key. The state is:

- `secret`: existence, a version counter standing for resourceVersion, and
  data keys.
- `referenced`: the keys some SCP references, which the SCP index returns.
- `queued`: the work-queue request.
- `ecr`: the pass's pc and locals.
- `store`: key → `[mgr, version]` or `NoEntry`.
- `mgrs`: every manager ever built, with its key, goroutine status and
  cancelled flag.

The pass is split where the code hands control to a goroutine or a
loop iteration:

- `EcrBegin` is lines 39-75: the Get, NotFound, and the sweep of
  unreferenced keys with `Store.Stop`.
- `EcrRestart(k)` is one iteration of lines 77-119:
  - a version-gated hit is skipped;
  - otherwise the Stop runs, then either a build error (return an error,
    which requeues) or a new manager whose goroutine is launched.
- `EcrAdd` is the `Store.Add` at line 120.

The goroutine (`startManager`) is `MgrStarted`, `MgrStartFails`,
`MgrCleanup` (the `Store.Stop(name)` after an error) and
`MgrCancelled`. The Store operations are modelled from the spec (4.3):
`StoreGet`, and `StoreWithout`/`MgrsAfterStop` for Stop. `EditReference`
is the SCP watch's map function, which enqueues the Secret only if it
exists.

`ScpPass(k)` composes the SCP side into the router model. It is a pass
of an SCP referencing `k` up to `extractRemoteClient`'s `Store.Get`
(`..._externalreference.go` lines 44-68). `found[k]` is the
`FoundExternalReferenceClient` condition it writes. Only a change of
that condition is an SCP event, and the router's SCP watch has no
predicate, so only then is the Secret enqueued. `MgrStartFails` is
bounded by `MaxStartFailures`.

The Store's contract is `ConnectionStore.tla`. It is abstract: per key,
the registered version or `NoEntry`, and the number of live connections.
Its actions are:

- `Stop` cancels exactly what it deregisters.
- `Launch` starts a connection only when none stays live after a stop.
- `Register` is `Add`, allowed only after the key's entry is stopped.
- `ConnectionEnds` is a failed start.

`ExternalClusterReference` refines it: `StoreContract` is
`INSTANCE ConnectionStore WITH entries <- StoreEntries, live <-
LiveConnections` as a `PROPERTY`. The concrete `pc`, goroutines and
cleanups all map onto these steps or onto stuttering.

Fairness: weak fairness on the reconciler's actions and on the
goroutines' non-failing steps. The work queue always runs a queued
request, and a started manager is scheduled. Secret edits, reference
edits and failures are not fair. `ScpPass` is weakly fair while
`found[k]` is not `True`. The SCP controller requeues a failing
`extractRemoteClient` with backoff for ever, but once the condition is
`True` no pass is due.

### `StewardControlPlane.tla`: the SCP pipeline, finalizers and environment

The model covers one SCP, its Cluster, infrastructure cluster and TCP.
Data is abstracted to what the stages test:

- an endpoint is set or not;
- the infrastructure endpoint is `none`, `ours` or `other`;
- a secret name is published or not;
- the version status is one of the five values;
- finalizers are ours and one other controller's.

`remoteReady` stands for "`Store.Get` hits for the Secret's current
version". That is the part of `ExternalClusterReference` the SCP sees.
`pass` holds the stage of the pass in progress and its locals: the
conditions copied at its start, the finalizers it read, and the TCP
snapshot.

Each stage that calls the API server is one action:

| Action | Code lines |
|---|---|
| `Begin` | 54-110 |
| `Resolve` | 124-147 |
| `Create` | 148-182 |
| `PatchEndpoint` (with `PatchControlPlaneEndpoint`, cluster_patch.go 76-94) | 183-196 |
| `ClusterStage` | 198-249 |
| `Initialize` | 251-300 |
| `Replicate` | 302-320 |
| `ReadyStage` | 322-351 |
| `Delete` (`handleDeletion`) | finalizer.go |

`Initialize` draws two faults: one on the first status update, which
ends the pass, and one on the second (`status.initialized`) update.
The code overwrites the second one's error at line 304, so that fault
only leaves the condition false and the pass goes on.

`Begin` returns, with no requeue, when:

- the SCP is gone;
- it has no owner reference;
- the Cluster is gone (line 87);
- either object is paused (`IsPaused`, line 99).

`ClusterStage` re-reads the Cluster, and a NotFound there also returns
nil.

Every return goes through `EndPass`. It requeues on an error or a
`RequeueAfter`. Once the deferred update is registered (line 112),
`EndPass` moves the pass to the `deferred` stage. The `DeferredUpdate`
step (`updateStewardControlPlaneStatus`, lines 352-369) then writes
the pass's conditions onto the re-read SCP. That write can fail, and
its error is only logged.

A step that changes the SCP enqueues it again (`ScpWrite`), provided
the `For` predicate and `ResourceNotPaused` let the event through
(`ScpEventPasses`). Creating the TCP or a Secret copy also enqueues it.
`Replicate` uses `CreateRequiredResources`, an operator over the
outcomes of `createRequiredResources`.

Transient API errors are drawn from a budget, `MaxFailures`. The
environment actions are:

- `CapiSetOwner`, `CapiSyncCluster`, `InfraReport`. They skip a paused
  or removed Cluster, as Cluster API controllers and providers do.
- `TcpProgress`, an event through `Owns` or PushStewardChange.
- `TcpLeavesReady`, `TcpCollected` (owner garbage collection).
- `UserDelete`.
- `OtherAddsFinalizer` / `OtherRemovesFinalizer`.
- `RouterServes`.
- `Pause`: the Cluster or the SCP, bounded by `MaxPauses`. It sends no
  event.
- `ClusterUnpauses`, which sends no event.
- `ScpUnpauses`, an SCP event.
- `ClusterRemoved`: only when `ClusterCanVanish`, and only after the
  Cluster has adopted the SCP.
- `ScpCollected`: the garbage collector deletes the SCP of a removed
  Cluster.

A rotation of the kubeconfig Secret is not a separate action. For the
SCP it is a Store miss until the router restarts the manager. Init
already covers that miss with `remoteReady = FALSE`, before
`RouterServes`. The version-keyed Store is checked in
`ExternalClusterReference`.

Fairness: weak fairness on the pipeline, because the work queue runs
every request. It is also weak on the cooperating controllers:

- the Cluster API;
- the infrastructure provider;
- the Steward operator's progress;
- garbage collection of TCPs and of an orphaned SCP;
- the other finalizer's owner;
- the router;
- the lifting of a pause.

The user, upgrades, pauses, the Cluster's removal and faults are not
fair.

### `EndpointParsing.tla`, `NameGenerator.tla`, `SecretKeyIndex.tla`, `RemoteNameIndex.tla`: the conversions

These are pure functions written as operators. Each module's state is
one input, and `Next` leaves it unchanged, so TLC checks the operators
over every input of a bounded domain.

- `EndpointParsing`: `controlPlaneEndpoint`, `parseHostnameWithDefault`
  and the certSAN list of `createOrUpdateTenantControlPlane`.
  - A host:port text is abstracted to what `net.SplitHostPort` tells
    apart: a DNS or IPv6 host, brackets or not, and the text after the
    last colon.
  - That text is a numeral, empty, non-numeric or absent.
  - `ParseInt16` and `ParseInt64` are `strconv.ParseInt` at 16 and 64
    bits.
  - A numeral denotes `hi * 2^32 + n`, with `n` in the int32 range. This
    represents the 64-bit ports `ParseInt` accepts beyond TLC's
    integers. `Int32` is Go's `int32(port)`: it keeps `n`.
    `APIEndpoint` is the value `patchControlPlaneEndpoint` writes.
- `NameGenerator`: every function of `name_generator.go`, and the two
  index `ExtractValue` functions, on TLA+ strings (`\o`, `SubSeq`).
- `SecretKeyIndex`: one SCP and one Secret. It puts together the key
  `extractRemoteClient` reads (namespace defaulting included) and the
  router's index lookup over `GenerateKeyNameFromSecret`.
- `RemoteNameIndex`: one TCP name from every string of up to 5
  characters over `{k, c, p, -, a}`, and one SCP. It checks
  `PushStewardChange`'s prefix parse and UID lookup.
- `TenantControlPlaneSpec`: the mutate function that
  `createOrUpdateTenantControlPlane` passes to `CreateOrUpdate`
  (tcp.go 45-215). It is applied to a claim (the SCP and the Cluster's
  network) and to the TCP as read. `Fresh` is the object a create
  starts from.
  - Each field keeps the code's control. Some are always copied
    (labels, version with its `v` prefix, DNS/CoreDNS, certSANs,
    Ingress). Some are copied only when set (cluster network,
    data-store schema, load-balancer class). The annotations are merged,
    skipping last-applied, and the kubeconfig-key annotation is set or
    deleted.
  - Certain errors mean nothing is written: a certSAN with a port, or
    `SetControllerReference` finding another controller.
  - The deployment, resources, args and image copies have the same
    control as the labels copy, which stands for them.
- `MCConversions`: instantiates the four modules over one tagged input
  variable, so one run checks all four.
  - TCP inputs vary one group of fields at a time, over all of that
    group's values for the claim and the TCP as read.
  - This is exhaustive because each TCP field is written from its own
    claim fields only, and every error ends the mutate function.

## Runs

| Run | Checks | Result |
|---|---|---|
| `ECRSafety.cfg` | `TypeOK`, `OneLiveManagerPerKey`, `StoreContract` (refinement of `ConnectionStore`); 2 keys, 1 version change, 2 reference edits, 3 managers, 1 start failure, build failures, key symmetry | passes |
| `ECRStartFailure.cfg` | `ReferencedKeysServed` with one start failure allowed | **violated**: the SCP pass finds no manager and writes `found` False; the router starts one; its start fails and it stops its key; nothing requeues the Secret, and the SCP's condition is already False, so no event follows |
| `ECRDeadEntry.cfg` | `NoDeadEntry` | **violated**: the goroutine fails and runs `Store.Stop` before the router's `Store.Add`, so the store keeps a dead manager |
| `ECRConverge.cfg` | `ReferencedKeysServed` (liveness), no failures, 6 managers (never reached, so the bound does not cut behaviours) | passes |
| `ECROrphan.cfg` | `NoOrphanManager` (liveness) | **violated**: a deleted Secret (early return on NotFound), or a removed data key, leaves its manager running |
| `SCPSafety.cfg` | `TypeOK`, `NoOrphanRemoteTcp`, `ReadyAfterPipeline` | passes, about 3.6M states, in about 1.5-2.5 minutes |
| `SCPReady.cfg` | `EventuallyReady`, `ConditionsSettle` (liveness) | passes, about 685k states, in about 1-2 minutes |
| `SCPDeleteStuck.cfg` | `DeletionCompletes` (liveness) | **violated**: see below |
| `SCPPauseStuck.cfg` | `EventuallyReady` (liveness), one pause, no faults | **violated**: the Cluster is paused after the owner reference is set; the pass returns at the pause gate with no requeue; the Cluster is unpaused, and since no Cluster is watched nothing enqueues the SCP again |
| `Conversions.cfg` | `OverrideEndpointPatched` (well-formed Gateway, else Ingress, hostname and default port are what is patched), `IngressEndpointCovered`, `KeyRoutedToReader`, `EventReachesOwner`, `TranslationIdempotent` (spec 4.3: a second application writes nothing new), `UpdateMatchesCreate` (an existing TCP gets the claim-derived fields a fresh one would) | passes, about 296k inputs |
| `EPPortRange.cfg` | `AdvertisedPortResolved` | **violated**: the advertised address `lb.example:32768` (no Ingress or Gateway) fails `ParseInt(strPort, 10, 16)`, so no endpoint is patched |
| `SCPFinalizerLost.cfg` | `OtherFinalizerKept` | **violated**: the other controller adds its finalizer during the pass, then `handleFinalizer` writes the set it read at pass start |

SCPSafety bounds:

- Strategy checkOrPatch. The infrastructure cluster starts with no
  endpoint (patched: the path to ready) or with another one (a mismatch
  error). The strategies check and unsupported end in the same `Error`
  as the mismatch and are left out to keep the run short.
- Valid and invalid SANs; local and external TCPs.
- One transient error and one pause of the Cluster or the SCP.
- A Cluster that may be removed before its SCP.

SCPReady bounds:

- Strategies patch, patchStatus and skip.
- External TCP, valid SANs.
- One transient error and one TCP leaving Ready.
- With the controller's own writes as events, `ConditionsSettle` holds.
  A failed second `status.initialized` update (line 294) is repaired:
  the `initialized` write enqueues the SCP again. So is a failed
  deferred update, because the pass's status or endpoint writes
  enqueue it.

A sequence of deferred-update failures can leave the conditions stale
until another event arrives. The spec (4.2) makes that update
best-effort, so no run claims a violation.

SCPDeleteStuck trace: a transient error on createOrUpdate means the
remote TCP was never created. The user then deletes the SCP, the remote
delete answers NotFound, and `handleDeletion` returns nil with the
finalizer still in place. An invalid certSAN, or a failed finalizer
update after a successful delete, reaches the same state.

The Cluster NotFound return at line 87 blocks deletion in the same way.
With `ClusterCanVanish = TRUE` in this configuration,
`DeletionCompletes` is violated through that return as well: the
Cluster is removed, the SCP is deleted, and every pass returns before
`handleDeletion`. The run keeps the Cluster, so that its trace shows
the `finalizer.go:62` path. Cluster API only removes a Cluster after
its control plane, so that path needs a forced removal.

Each passing property has a mutant: an operator defined just before the
action it replaces, modelling a plausible bug (a dropped Stop, an
off-by-one manager index, a version-blind store lookup, no finalizer, a
misspelled finalizer, a CA made optional, a gate that does not requeue,
a generation-changed predicate on the SCP watch that drops status events,
the Ingress hostname put into the certSANs with its port, the Store key
built in the SCP's own namespace, the remote TCP prefix trimmed without
being checked, the Ingress host appended to the certSAN list as read, a
dropped Ingress left on the TCP).
TLC finds the property violated under the run's own configuration.

Why these bounds are enough:

- One transient error is enough to reach every error return, since a
  second error only repeats the same requeue.
- One Ready flip exercises the non-latched ready flag.
- Two keys are enough to interleave a sweep with a restart.
- A version counter of 1 covers rotation.
- The manager bound is checked not to be reached in the liveness run.
- The status ports are 443, 6443 and both sides of the int16 limit
  (32767, 32768) up to 65535. An `ASSUME` confines them to the TCP
  ports the operator can advertise. The hostname ports are -1, 443 and
  70000, each also 2^32 higher (`Wraps = {0, 1}`), so the hostnames
  include ports outside 1-65535 and ports the int32 conversion would cut.
  Hosts are three DNS names and one IPv6 literal, in every bracket and
  port form.
- The names are every string of up to 2 letters over `{a, b}`, so the
  SCP's namespace, the secret namespace and the names can be equal or
  not. The remote TCP names are all strings of up to 5 characters over
  the letters of `kcp-`, which covers the prefix, its truncations and
  UIDs that themselves start with `kcp-`.

## Not modelled (yet)

- Hostname ports outside 1-65535 (`cluster_patch.go:86`). They are
  patched rather than rejected, and `int32(port)` turns 4294967739 into
  443. `Int32` models the conversion, and `OverrideEndpointPatched`
  checks well-formed ports only. Showing the out-of-range case needs a
  violation run of its own, and none is left in the run budget, so it
  is a hazard without a property.
- The Gateway's certificate. The Gateway configuration never reaches
  the TCP. Whether the Steward operator covers the Gateway host is
  decided outside this repository, so no run claims a violation.
- Condition generations and transition times.
- Errors of the initial Gets in `Begin` (SCP and Cluster). They return
  the error and requeue, which is the same as a later error.
- The informer's periodic resync. A liveness violation here means no
  progress before the next resync (`SyncPeriod`), not "never".
- ExternalClusterReference spec edits on a live SCP.
- The CA ownership skip (`resources.go:82`). It checks only the Kind of
  the first owner reference. Owner references of the copied Secrets are
  not state of the SCP model, so this is listed as a hazard without a
  property.
- Fields the TCP translation copies only when the claim sets them keep
  an old value after the SCP drops them. These are the load-balancer
  class and ranges, the data-store schema and username, and the
  network port and CIDRs. The code does this on purpose where the
  Steward operator defaults the field. Spec 4.3 does not say whether a
  dropped load-balancer class should be cleared, so this is a hazard
  without a property.

## Plan for the next sittings

1. Compose `ConnectionStore` into `StewardControlPlane` in place of the
   free `remoteReady`.
2. Reference edits on a live SCP, which can orphan the old remote TCP.
3. Condition generations.
