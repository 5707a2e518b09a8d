------------------------- MODULE StewardControlPlane -------------------------
(***************************************************************************)
(* One StewardControlPlane (SCP) and the reconcile passes of               *)
(* StewardControlPlaneReconciler (src/controllers/stewardcontrolplane_*.go):*)
(* the staged pipeline of Reconcile, handleFinalizer, handleDeletion and   *)
(* the dispatch of patchCluster, against the actors that move the objects  *)
(* it reads: the Steward operator (TenantControlPlane status), the Cluster *)
(* API controllers (owner reference, Cluster endpoint and readiness), the  *)
(* infrastructure provider, another controller holding a finalizer, the    *)
(* user deleting the SCP, and the remote-manager store (availability of a  *)
(* client for the external cluster, refined in ExternalClusterReference).  *)
(*                                                                         *)
(* Passes for one SCP are serialized by the work queue; each stage that    *)
(* reads or writes the API server is one step, so the other actors move    *)
(* between stages. Data is abstracted to what the stages test: endpoints   *)
(* are "set or not", secret names "known or not".                          *)
(***************************************************************************)
EXTENDS Naturals, FiniteSets

CONSTANTS
  Strategies,     \* infrastructure patch strategies the Cluster may use
  InfraEndpoints, \* initial endpoint of the infrastructure cluster
  SanValidInit,   \* whether spec.network.certSANs may be valid / invalid
  ExternalInit,   \* whether spec.deployment.externalClusterReference is set
  MaxFailures,    \* bound on transient API errors
  MaxFlips,       \* bound on TenantControlPlane leaving the Ready state
  MaxPauses,      \* bound on paused annotations put on the Cluster or the SCP
  ClusterCanVanish \* whether the Cluster may be removed before the SCP

\* patchCluster's switch (cluster_patch.go lines 107-138) maps every kind to
\* one of these; "skip" is the SkipInfraClusterPatch feature gate.
\* patchOpenStackCluster sets the same endpoint through other fields, so
\* it is the "patch" strategy here.
AllStrategies == {"patch", "patchStatus", "check", "checkOrPatch", "unsupported", "skip"}

ASSUME Strategies \subseteq AllStrategies /\ Strategies # {}
ASSUME InfraEndpoints \subseteq {"none", "ours", "other"} /\ InfraEndpoints # {}
ASSUME SanValidInit \subseteq BOOLEAN /\ ExternalInit \subseteq BOOLEAN
ASSUME MaxFailures \in Nat /\ MaxFlips \in Nat
ASSUME MaxPauses \in Nat /\ ClusterCanVanish \in BOOLEAN

VARIABLES
  scp,         \* the SCP in the API server
  cluster,     \* the owning Cluster: existence, paused, endpoint, infrastructureReady
  infra,       \* the infrastructure cluster: strategy, endpoint, status.ready
  tcp,         \* the TenantControlPlane (remote when externally referenced)
  copied,      \* the <cluster>-kubeconfig and <cluster>-ca Secrets exist
  remoteReady, \* Store.Get hits for the kubeconfig Secret's current version
  pass,        \* the reconcile pass in progress: stage and locals
  queued,      \* a request for the SCP waits in the work queue
  env,         \* counters bounding the environment and the faults
  otherHeld    \* history: the other controller holds its finalizer

vars == <<scp, cluster, infra, tcp, copied, remoteReady, pass, queued, env, otherHeld>>

\* Finalizer literals: ExternalClusterReferenceFinalizer (finalizer.go l.20
\* of stewardcontrolplane_controller_externalreference.go) and another one.
EcrFinalizer   == "ecr.steward.butlerlabs.dev/finalizer"
OtherFinalizer == "other.example/finalizer"
Finalizers     == {EcrFinalizer, OtherFinalizer}

\* The eight condition types (api/v1alpha1/stewardcontrolplane_conditions.go).
CondTypes == {"FoundExternalReferenceClient", "TenantControlPlaneCreated",
              "TenantControlPlaneAddressReady", "ControlPlaneEndpointPatched",
              "InfrastructureClusterPatched", "StewardControlPlaneIsInitialized",
              "StewardControlPlaneIsReady", "KubeadmResourcesCreated"}

\* TenantControlPlane status.kubernetes.version.status; "unset" is nil.
Versions == {"unset", "Provisioning", "Ready", "Upgrading", "NotReady"}

TcpStatus == [endpoint : BOOLEAN, version : Versions, kubeconfig : BOOLEAN, ca : BOOLEAN]
NoTcp == [exists |-> FALSE, endpoint |-> FALSE, version |-> "unset",
          kubeconfig |-> FALSE, ca |-> FALSE]

Stages == {"idle", "resolve", "create", "patch", "cluster", "init", "replicate",
           "ready", "delete", "deferred"}

TypeOK ==
  /\ scp \in [exists : BOOLEAN, owner : BOOLEAN, deleting : BOOLEAN,
              fins : SUBSET Finalizers, external : BOOLEAN, sanValid : BOOLEAN,
              endpoint : BOOLEAN, initialized : BOOLEAN, ready : BOOLEAN,
              conds : SUBSET CondTypes, paused : BOOLEAN]
  /\ cluster \in [exists : BOOLEAN, paused : BOOLEAN, endpoint : BOOLEAN,
                  infraReady : BOOLEAN]
  /\ infra \in [strategy : AllStrategies, endpoint : {"none", "ours", "other"},
                ready : BOOLEAN]
  /\ tcp \in [exists : BOOLEAN, endpoint : BOOLEAN, version : Versions,
              kubeconfig : BOOLEAN, ca : BOOLEAN]
  /\ copied \in [kubeconfig : BOOLEAN, ca : BOOLEAN]
  /\ remoteReady \in BOOLEAN
  /\ pass \in [stage : Stages, conds : SUBSET CondTypes, fins : SUBSET Finalizers,
               snap : TcpStatus]
  /\ queued \in BOOLEAN
  /\ env \in [failures : 0..MaxFailures,
              flips : 0..MaxFlips, otherAdded : BOOLEAN, pauses : 0..MaxPauses]
  /\ otherHeld \in BOOLEAN

(***************************************************************************)
(* Helpers.                                                                *)
(***************************************************************************)

\* TrackConditionType (not in the repository; spec 4.1): the named condition
\* is True after the step succeeds and False after it fails. The list is a
\* local copy, persisted by the deferred status update.
Track(c, type, ok) == IF ok THEN c \cup {type} ELSE c \ {type}

\* A transient API error (conflict retries exhausted, timeout) may hit this
\* call; each costs one unit of the failure budget.
Faults == IF env.failures < MaxFailures THEN BOOLEAN ELSE {FALSE}
Failed(f) == env' = IF f THEN [env EXCEPT !.failures = @ + 1] ELSE env

IdlePass == [stage |-> "idle", conds |-> {}, fins |-> {},
             snap |-> [endpoint |-> FALSE, version |-> "unset",
                       kubeconfig |-> FALSE, ca |-> FALSE]]

\* SetupWithManager (controller.go l.372-394): For(SCP) with a predicate
\* requiring an owner reference, Owns(Secret), the channel of
\* PushStewardChange and, when served locally, Owns(TCP). An update event
\* carries the SCP as written.
\* WithEventFilter(ResourceNotPaused) drops an event whose object carries
\* the paused annotation. The Cluster is not watched.
ScpEventPasses(s) == s.owner /\ ~s.paused

\* annotations.IsPaused (controller.go l.99): the Cluster's spec.paused or
\* the paused annotation on the SCP.
IsPaused == cluster.paused \/ scp.paused

\* Mutant: a generation-changed predicate on the SCP watch; only a change
\* of spec (the endpoint) or the deletion timestamp sends an event.
ScpWriteSpecOnly ==
  /\ scp'.endpoint # scp.endpoint \/ scp'.deleting # scp.deleting
  /\ ScpEventPasses(scp')

\* A step that changes the SCP is an update event for it: the controller's
\* own status updates and patches enqueue the SCP again. An update that
\* changes nothing bumps no resourceVersion and sends no event.
ScpWrite == scp' # scp /\ ScpEventPasses(scp')

\* The pass returns. Once the deferred status update is registered
\* (controller.go l.115-123) it runs after the return (DeferredUpdate);
\* `requeue` is RequeueAfter or a returned error.
EndPass(s, c, persist, requeue) ==
  /\ scp' = s
  /\ pass' = IF persist THEN [IdlePass EXCEPT !.stage = "deferred", !.conds = c]
             ELSE IdlePass
  /\ queued' = (queued \/ requeue \/ ScpWrite)

\* extractRemoteClient (externalreference.go l.33-77): the feature gates are
\* on and the Secret holds the key; the client is found when Store.Get
\* hits for the Secret's resourceVersion and the CRD is served.
ExtractRemoteClient == remoteReady

\* handleFinalizer (finalizer.go l.20-40): the set is computed once from the
\* SCP read at the start of the pass, then written over the re-read object.
HandleFinalizer(fins) == fins \cup {EcrFinalizer}

\* The Kubernetes API rejects a new finalizer on an object being deleted.
CanAddFinalizer(s) == s.exists /\ ~s.deleting

\* createOrUpdateTenantControlPlane (tcp.go l.151-157): a certSAN that
\* carries a port (net.SplitHostPort succeeds) is rejected.
CertSANsValid(s) == s.sanValid

\* createOrUpdateTenantControlPlane (tcp.go l.30-224): CreateOrUpdate of
\* the TCP, locally or under the remote name; its status is untouched.
CreateOrUpdateTenantControlPlane(t) == [t EXCEPT !.exists = TRUE]

\* createOrUpdateKubeconfig (resources.go l.135-191) and
\* createOrUpdateCertificateAuthority (l.67-129): copy the Steward secret
\* into <cluster>-kubeconfig / <cluster>-ca.
CreateOrUpdateKubeconfig(c) == [c EXCEPT !.kubeconfig = TRUE]
CreateOrUpdateCertificateAuthority(c) == [c EXCEPT !.ca = TRUE]

Init ==
  /\ scp \in [exists : {TRUE}, owner : {FALSE}, deleting : {FALSE}, fins : {{}},
              external : ExternalInit, sanValid : SanValidInit, endpoint : {FALSE},
              initialized : {FALSE}, ready : {FALSE}, conds : {{}}, paused : {FALSE}]
  /\ cluster = [exists |-> TRUE, paused |-> FALSE, endpoint |-> FALSE, infraReady |-> FALSE]
  /\ infra \in [strategy : Strategies, endpoint : InfraEndpoints, ready : {FALSE}]
  /\ tcp = NoTcp
  /\ copied = [kubeconfig |-> FALSE, ca |-> FALSE]
  /\ remoteReady \in BOOLEAN
  /\ pass = IdlePass
  /\ queued = FALSE
  /\ env = [failures |-> 0, flips |-> 0, otherAdded |-> FALSE,
            pauses |-> 0]
  /\ otherHeld = FALSE

(***************************************************************************)
(* Reconcile (controller.go l.54-352), one action per stage.               *)
(***************************************************************************)

\* Lines 61-110: get the SCP (NotFound: return), wait for the owner
\* reference, get the Cluster (NotFound: return), return while paused,
\* branch to deletion, capture the conditions. Every early return is nil:
\* no requeue.
Begin ==
  /\ pass.stage = "idle"
  /\ queued
  /\ queued' = FALSE
  /\ pass' = CASE ~scp.exists \/ ~scp.owner \/ ~cluster.exists \/ IsPaused -> pass
               [] scp.deleting -> [pass EXCEPT !.stage = "delete", !.fins = scp.fins]
               [] OTHER -> [pass EXCEPT !.stage = IF scp.external THEN "resolve" ELSE "create",
                                        !.conds = scp.conds, !.fins = scp.fins]
  /\ UNCHANGED <<scp, cluster, infra, tcp, copied, remoteReady, env, otherHeld>>

\* Mutant: handleFinalizer is not called before the remote TCP is created.
ResolveNoFinalizer ==
  /\ pass.stage = "resolve"
  /\ LET c == Track(pass.conds, "FoundExternalReferenceClient", ExtractRemoteClient)
     IN IF ~ExtractRemoteClient THEN EndPass(scp, c, TRUE, TRUE)
        ELSE /\ pass' = [pass EXCEPT !.stage = "create", !.conds = c]
             /\ UNCHANGED <<scp, queued>>
  /\ UNCHANGED <<cluster, infra, tcp, copied, remoteReady, env, otherHeld>>

\* Mutant: the finalizer literal is misspelled where it is inserted.
ResolveTypo ==
  /\ pass.stage = "resolve"
  /\ LET c == Track(pass.conds, "FoundExternalReferenceClient", ExtractRemoteClient)
     IN IF ~ExtractRemoteClient THEN EndPass(scp, c, TRUE, TRUE) /\ UNCHANGED env
        ELSE IF EcrFinalizer \in pass.fins
          THEN /\ pass' = [pass EXCEPT !.stage = "create", !.conds = c]
               /\ UNCHANGED <<scp, queued, env>>
          ELSE /\ CanAddFinalizer(scp)
               /\ scp' = [scp EXCEPT !.fins = pass.fins \cup {"ecr.steward.butlerlabs.dev/finalizers"}]
               /\ pass' = [pass EXCEPT !.stage = "create", !.conds = c]
               /\ queued' = (queued \/ ScpWrite)
               /\ UNCHANGED env
  /\ UNCHANGED <<cluster, infra, tcp, copied, remoteReady, otherHeld>>

\* Lines 127-147: resolve the remote client (condition
\* FoundExternalReferenceClient), then register the finalizer with a
\* get-modify-update; either failing ends the pass with an error.
Resolve ==
  /\ pass.stage = "resolve"
  /\ LET c == Track(pass.conds, "FoundExternalReferenceClient", ExtractRemoteClient)
     IN IF ~ExtractRemoteClient THEN EndPass(scp, c, TRUE, TRUE) /\ UNCHANGED env
        ELSE IF EcrFinalizer \in pass.fins
          THEN /\ pass' = [pass EXCEPT !.stage = "create", !.conds = c]
               /\ UNCHANGED <<scp, queued, env>>
          ELSE \E f \in Faults :
                 /\ Failed(f)
                 /\ IF f \/ ~CanAddFinalizer(scp)
                      THEN EndPass(scp, c, TRUE, TRUE)
                      ELSE /\ scp' = [scp EXCEPT !.fins = HandleFinalizer(pass.fins)]
                           /\ pass' = [pass EXCEPT !.stage = "create", !.conds = c]
                           /\ queued' = (queued \/ ScpWrite)
  /\ UNCHANGED <<cluster, infra, tcp, copied, remoteReady, otherHeld>>

\* Lines 148-182: createOrUpdateTenantControlPlane (tcp.go l.30-224) under
\* RetryOnConflict; a certSAN with a port fails validation before any
\* write. The returned object is the snapshot every later stage reads.
\* Without an advertised endpoint the pass requeues after a second.
Create ==
  /\ pass.stage = "create"
  /\ \E f \in Faults :
       /\ Failed(f)
       /\ IF f \/ ~CertSANsValid(scp)
            THEN /\ EndPass(scp, Track(pass.conds, "TenantControlPlaneCreated", FALSE), TRUE, TRUE)
                 /\ UNCHANGED tcp
            ELSE LET snap == [endpoint |-> tcp.endpoint, version |-> tcp.version,
                              kubeconfig |-> tcp.kubeconfig, ca |-> tcp.ca]
                     c    == Track(Track(pass.conds, "TenantControlPlaneCreated", TRUE),
                                   "TenantControlPlaneAddressReady", snap.endpoint)
                 IN /\ tcp' = CreateOrUpdateTenantControlPlane(tcp)
                    /\ IF ~snap.endpoint
                         THEN EndPass(scp, c, TRUE, TRUE)
                         ELSE /\ pass' = [pass EXCEPT !.stage = "patch", !.conds = c, !.snap = snap]
                              /\ queued' = (queued \/ tcp' # tcp)
                              /\ UNCHANGED scp
  /\ UNCHANGED <<cluster, infra, copied, remoteReady, otherHeld>>

\* patchControlPlaneEndpoint (cluster_patch.go l.76-94): f is an error of
\* controlPlaneEndpoint or of the merge patch; the patch of an SCP that is
\* gone is NotFound. On success only spec.controlPlaneEndpoint changes.
PatchControlPlaneEndpoint(s, f) ==
  IF f \/ ~s.exists THEN [ok |-> FALSE, scp |-> s]
  ELSE [ok |-> TRUE, scp |-> [s EXCEPT !.endpoint = TRUE]]

\* Lines 183-196: TrackConditionType around patchControlPlaneEndpoint.
PatchEndpoint ==
  /\ pass.stage = "patch"
  /\ \E f \in Faults :
       /\ Failed(f)
       /\ LET r  == PatchControlPlaneEndpoint(scp, f)
              ok == r.ok
              c  == Track(pass.conds, "ControlPlaneEndpointPatched", ok)
          IN IF ~ok THEN EndPass(scp, c, TRUE, TRUE)
             ELSE /\ scp' = r.scp
                  /\ pass' = [pass EXCEPT !.stage = "cluster", !.conds = c]
                  /\ queued' = (queued \/ ScpWrite)
  /\ UNCHANGED <<cluster, infra, tcp, copied, remoteReady, otherHeld>>

(***************************************************************************)
(* patchCluster (cluster_patch.go l.97-268): the result of each strategy   *)
(* on the infrastructure cluster, or "error".                              *)
(***************************************************************************)

\* patchGenericCluster (l.159-193): merge {host, port} into
\* spec.controlPlaneEndpoint, and status.ready when patchStatus;
\* patchOpenStackCluster (l.239-268) sets apiServerFixedIP/apiServerPort.
PatchGeneric(i, patchStatus) ==
  [i EXCEPT !.endpoint = "ours", !.ready = @ \/ patchStatus]

\* checkGenericCluster (l.197-235): an empty host is an
\* UnmanagedControlPlaneAddressError, a different host or port a mismatch.
CheckGeneric(i) ==
  CASE i.endpoint = "none"  -> "unmanaged"
    [] i.endpoint = "other" -> "mismatch"
    [] OTHER                -> "ok"

Ok(i)  == [ok |-> TRUE, infra |-> i]
Error(i) == [ok |-> FALSE, infra |-> i]

\* checkOrPatchGenericCluster (l.144-154): patch only when the check finds
\* no address at all.
CheckOrPatchGeneric(i) ==
  CASE CheckGeneric(i) = "ok"        -> Ok(i)
    [] CheckGeneric(i) = "unmanaged" -> Ok(PatchGeneric(i, FALSE))
    [] OTHER                         -> Error(i)

PatchClusterResult(i) ==
  CASE i.strategy = "patch"          -> Ok(PatchGeneric(i, FALSE))
    [] i.strategy = "patchStatus"    -> Ok(PatchGeneric(i, TRUE))
    [] i.strategy = "check"          -> IF CheckGeneric(i) = "ok" THEN Ok(i) ELSE Error(i)
    [] i.strategy = "checkOrPatch"   -> CheckOrPatchGeneric(i)
    [] OTHER                          -> Error(i)

\* Mutant: the cluster gates return without RequeueAfter.
ClusterNoRequeue ==
  /\ pass.stage = "cluster"
  /\ LET res == IF infra.strategy = "skip" THEN Ok(infra) ELSE PatchClusterResult(infra)
         c   == IF infra.strategy = "skip" THEN pass.conds
                ELSE Track(pass.conds, "InfrastructureClusterPatched", res.ok)
     IN CASE ~cluster.exists -> EndPass(scp, pass.conds, TRUE, FALSE) /\ UNCHANGED infra
          [] ~res.ok -> EndPass(scp, c, TRUE, TRUE) /\ UNCHANGED infra
          [] OTHER ->
             /\ infra' = res.infra
             /\ IF ~cluster.endpoint \/ ~cluster.infraReady \/ pass.snap.version = "unset"
                  THEN EndPass(scp, c, TRUE, FALSE)
                  ELSE /\ pass' = [pass EXCEPT !.stage = "init", !.conds = c]
                       /\ UNCHANGED <<scp, queued>>
  /\ UNCHANGED <<env, cluster, tcp, copied, remoteReady, otherHeld>>

\* Lines 198-249: re-read the Cluster (NotFound: return nil), patch the
\* infrastructure cluster unless SkipInfraClusterPatch (condition InfrastructureClusterPatched),
\* then requeue until the Cluster has an endpoint and a ready
\* infrastructure and the TCP snapshot has a version status.
ClusterStage ==
  /\ pass.stage = "cluster"
  /\ \E f \in Faults :
       /\ Failed(f)
       /\ LET res == IF infra.strategy = "skip" THEN Ok(infra) ELSE PatchClusterResult(infra)
              c   == IF infra.strategy = "skip" THEN pass.conds
                     ELSE Track(pass.conds, "InfrastructureClusterPatched", res.ok)
          IN CASE f                -> EndPass(scp, pass.conds, TRUE, TRUE) /\ UNCHANGED infra
               [] ~cluster.exists -> EndPass(scp, pass.conds, TRUE, FALSE) /\ UNCHANGED infra
               [] ~res.ok -> EndPass(scp, c, TRUE, TRUE) /\ UNCHANGED infra
               [] OTHER ->
                  /\ infra' = res.infra
                  /\ IF ~cluster.endpoint \/ ~cluster.infraReady \/ pass.snap.version = "unset"
                       THEN EndPass(scp, c, TRUE, TRUE)
                       ELSE /\ pass' = [pass EXCEPT !.stage = "init", !.conds = c]
                            /\ UNCHANGED <<scp, queued>>
  /\ UNCHANGED <<cluster, tcp, copied, remoteReady, otherHeld>>

\* Lines 251-300: latch status.initialized once the snapshot is Ready,
\* requeue while not initialized, then project the replica counters and
\* version (condition StewardControlPlaneIsInitialized), then update
\* initialized again: f is a failure of the projection (returned), g one of
\* the second update, whose error only sets the condition False and is
\* overwritten by the next stage's (l.294-304). Each status update fails
\* on an SCP that is gone.
Initialize ==
  /\ pass.stage = "init"
  /\ LET latch   == pass.snap.version = "Ready" /\ ~scp.initialized
         cond    == "StewardControlPlaneIsInitialized"
         failure == Track(pass.conds, cond, FALSE)
     IN \/ /\ ~latch /\ ~scp.initialized
           /\ EndPass(scp, pass.conds, TRUE, TRUE)
           /\ UNCHANGED env
        \/ /\ latch \/ scp.initialized
           /\ ~scp.exists
           /\ EndPass(scp, failure, TRUE, TRUE)
           /\ UNCHANGED env
        \/ /\ latch /\ scp.exists
           /\ env.failures < MaxFailures /\ Failed(TRUE)
           /\ EndPass(scp, failure, TRUE, TRUE)
        \/ /\ latch \/ scp.initialized
           /\ scp.exists
           /\ \E f, g \in Faults :
                /\ ~(f /\ g)
                /\ Failed(f \/ g)
                /\ IF f THEN EndPass([scp EXCEPT !.initialized = TRUE], failure, TRUE, TRUE)
                   ELSE /\ scp' = [scp EXCEPT !.initialized = TRUE]
                        /\ pass' = [pass EXCEPT !.stage = "replicate",
                                                !.conds = Track(@, cond, ~g)]
                        /\ queued' = (queued \/ ScpWrite)
  /\ UNCHANGED <<cluster, infra, tcp, copied, remoteReady, otherHeld>>

\* Mutant: a missing CA secret name does not stop createRequiredResources.
CreateRequiredResourcesCaOptional(cp, snap, f) ==
  CASE ~snap.kubeconfig -> {[ok |-> FALSE, copied |-> cp]}
    [] f                -> {[ok |-> FALSE, copied |-> c] : c \in {cp, CreateOrUpdateKubeconfig(cp)}}
    [] OTHER            -> {[ok |-> TRUE, copied |-> IF snap.ca
                                 THEN CreateOrUpdateCertificateAuthority(CreateOrUpdateKubeconfig(cp))
                                 ELSE CreateOrUpdateKubeconfig(cp)]}

\* createRequiredResources (resources.go l.27-61): the outcomes, with the
\* Secrets copied so far. A secret name the Steward operator has not yet
\* published is the ErrEnqueueBack sentinel; the kubeconfig copy is made
\* before the CA name is checked; `f` fails one of the two copies.
CreateRequiredResources(cp, snap, f) ==
  CASE ~snap.kubeconfig -> {[ok |-> FALSE, copied |-> cp]}
    [] f                -> {[ok |-> FALSE, copied |-> c] : c \in {cp, CreateOrUpdateKubeconfig(cp)}}
    [] ~snap.ca         -> {[ok |-> FALSE, copied |-> CreateOrUpdateKubeconfig(cp)]}
    [] OTHER            -> {[ok |-> TRUE, copied |->
                                 CreateOrUpdateCertificateAuthority(CreateOrUpdateKubeconfig(cp))]}

\* Lines 302-320: createRequiredResources under KubeadmResourcesCreated;
\* the sentinel requeues after a second, another error is returned. The
\* copies are owned Secrets, so creating one is an event for the SCP.
Replicate ==
  /\ pass.stage = "replicate"
  /\ \E f \in Faults :
       /\ Failed(f)
       /\ \E r \in CreateRequiredResources(copied, pass.snap, f) :
            /\ copied' = r.copied
            /\ IF ~r.ok
                 THEN EndPass(scp, Track(pass.conds, "KubeadmResourcesCreated", FALSE), TRUE, TRUE)
                 ELSE /\ pass' = [pass EXCEPT !.stage = "ready",
                                          !.conds = Track(@, "KubeadmResourcesCreated", TRUE)]
                      /\ queued' = (queued \/ copied' # copied)
                      /\ UNCHANGED scp
  /\ UNCHANGED <<cluster, infra, tcp, remoteReady, otherHeld>>

\* Lines 322-351: status.ready is whether the snapshot is Ready or
\* Upgrading; otherwise the sentinel requeues. The pass then returns.
ReadyStage ==
  /\ pass.stage = "ready"
  /\ \E f \in Faults :
       /\ Failed(f)
       /\ LET ok    == ~f /\ scp.exists
              ready == pass.snap.version \in {"Ready", "Upgrading"}
              c     == Track(pass.conds, "StewardControlPlaneIsReady", ok /\ ready)
          IN IF ~ok THEN EndPass(scp, c, TRUE, TRUE)
             ELSE EndPass([scp EXCEPT !.ready = ready], c, TRUE, ~ready)
  /\ UNCHANGED <<cluster, infra, tcp, copied, remoteReady, otherHeld>>

\* handleDeletion (finalizer.go l.42-102), whose error Reconcile returns
\* (controller.go l.108-110): nothing to do without the finalizer or the
\* external reference; otherwise resolve the remote client and delete the
\* remote TCP (NotFound: return nil), then remove the finalizer with a
\* get-modify-update on the re-read SCP. A transient error on the delete
\* or on the update requeues. The object is gone once its last finalizer
\* is removed. No condition is persisted.
Delete ==
  /\ pass.stage = "delete"
  /\ CASE EcrFinalizer \notin pass.fins \/ ~scp.external ->
            EndPass(scp, {}, FALSE, FALSE) /\ UNCHANGED <<tcp, env>>
       [] ~ExtractRemoteClient ->
            EndPass(scp, {}, FALSE, TRUE) /\ UNCHANGED <<tcp, env>>
       [] OTHER ->
            \E f \in Faults :
              /\ Failed(f)
              /\ \/ f /\ EndPass(scp, {}, FALSE, TRUE) /\ UNCHANGED tcp
                 \/ ~f /\ ~tcp.exists /\ EndPass(scp, {}, FALSE, FALSE) /\ UNCHANGED tcp
                 \/ tcp.exists /\ tcp' = NoTcp
                    /\ LET fins == scp.fins \ {EcrFinalizer}
                       IN IF f THEN EndPass(scp, {}, FALSE, TRUE)
                          ELSE EndPass([scp EXCEPT !.fins = fins, !.exists = fins # {}],
                                       {}, FALSE, FALSE)
  /\ UNCHANGED <<cluster, infra, copied, remoteReady, otherHeld>>

\* updateStewardControlPlaneStatus (controller.go l.352-369): get the SCP
\* (NotFound is an error), apply the modifier, update the status; a
\* conflict retries the whole get-modify-update. `f` is an error that
\* outlasts the retries.
UpdateStewardControlPlaneStatus(s, c, f) ==
  IF f \/ ~s.exists THEN s ELSE [s EXCEPT !.conds = c]

\* The deferred status update (l.112-123): the conditions captured by the
\* pass are written over the re-read SCP. Its error is only logged: a
\* failed update changes neither result nor requeue.
DeferredUpdate ==
  /\ pass.stage = "deferred"
  /\ \E f \in Faults :
       /\ Failed(f)
       /\ scp' = UpdateStewardControlPlaneStatus(scp, pass.conds, f)
  /\ pass' = IdlePass
  /\ queued' = (queued \/ ScpWrite)
  /\ UNCHANGED <<cluster, infra, tcp, copied, remoteReady, otherHeld>>

(***************************************************************************)
(* The environment.                                                        *)
(***************************************************************************)

\* An event on the SCP written by another actor, as the watch filters it.
ScpEvent == queued' = (queued \/ ScpEventPasses(scp'))

\* The Cluster controller sets the owner reference (an SCP update event);
\* like every Cluster API controller it skips a paused Cluster.
CapiSetOwner ==
  /\ cluster.exists /\ ~cluster.paused
  /\ scp.exists /\ ~scp.owner
  /\ scp' = [scp EXCEPT !.owner = TRUE]
  /\ ScpEvent
  /\ UNCHANGED <<cluster, infra, tcp, copied, remoteReady, pass, env, otherHeld>>

\* The Cluster controller copies the SCP's endpoint and the infrastructure
\* readiness into the Cluster. The SCP controller does not watch Clusters.
CapiSyncCluster ==
  /\ cluster.exists /\ ~cluster.paused
  /\ cluster' = [cluster EXCEPT !.endpoint = @ \/ scp.endpoint, !.infraReady = infra.ready]
  /\ cluster' # cluster
  /\ UNCHANGED <<scp, infra, tcp, copied, remoteReady, pass, queued, env, otherHeld>>

\* The infrastructure provider reports ready once it has an endpoint; the
\* patchStatus kinds never do (the pipeline sets status.ready for them).
\* Providers skip the infrastructure of a paused or removed Cluster.
InfraReport ==
  /\ cluster.exists /\ ~cluster.paused
  /\ infra.strategy # "patchStatus"
  /\ infra.endpoint # "none" \/ infra.strategy = "skip"
  /\ ~infra.ready
  /\ infra' = [infra EXCEPT !.ready = TRUE]
  /\ UNCHANGED <<scp, cluster, tcp, copied, remoteReady, pass, queued, env, otherHeld>>

\* The Steward operator publishes the TCP's endpoint, secret names and
\* version status; every change is a watch event for the SCP (Owns, or
\* PushStewardChange through the channel for a remote TCP).
TcpProgress ==
  /\ tcp.exists
  /\ \/ ~tcp.endpoint /\ tcp' = [tcp EXCEPT !.endpoint = TRUE]
     \/ ~tcp.kubeconfig /\ tcp' = [tcp EXCEPT !.kubeconfig = TRUE]
     \/ ~tcp.ca /\ tcp' = [tcp EXCEPT !.ca = TRUE]
     \/ tcp.version = "unset" /\ tcp' = [tcp EXCEPT !.version = "Provisioning"]
     \/ tcp.version \in {"Provisioning", "Upgrading", "NotReady"}
        /\ tcp' = [tcp EXCEPT !.version = "Ready"]
  /\ queued' = TRUE
  /\ UNCHANGED <<scp, cluster, infra, copied, remoteReady, pass, env, otherHeld>>

\* The TCP leaves Ready: an upgrade or an unhealthy deployment.
TcpLeavesReady ==
  /\ tcp.exists /\ tcp.version = "Ready"
  /\ env.flips < MaxFlips
  /\ \E v \in {"Upgrading", "NotReady"} : tcp' = [tcp EXCEPT !.version = v]
  /\ env' = [env EXCEPT !.flips = @ + 1]
  /\ queued' = TRUE
  /\ UNCHANGED <<scp, cluster, infra, copied, remoteReady, pass, otherHeld>>

\* Garbage collection of a local TCP owned by a deleted SCP.
TcpCollected ==
  /\ ~scp.exists /\ ~scp.external /\ tcp.exists
  /\ tcp' = NoTcp
  /\ UNCHANGED <<scp, cluster, infra, copied, remoteReady, pass, queued, env, otherHeld>>

\* The user deletes the SCP: gone at once when it has no finalizer.
UserDelete ==
  /\ scp.exists /\ ~scp.deleting
  /\ scp' = [scp EXCEPT !.deleting = TRUE, !.exists = scp.fins # {}]
  /\ ScpEvent
  /\ UNCHANGED <<cluster, infra, tcp, copied, remoteReady, pass, env, otherHeld>>

\* Another controller adds its own finalizer, once.
OtherAddsFinalizer ==
  /\ CanAddFinalizer(scp) /\ ~env.otherAdded
  /\ scp' = [scp EXCEPT !.fins = @ \cup {OtherFinalizer}]
  /\ env' = [env EXCEPT !.otherAdded = TRUE]
  /\ otherHeld' = TRUE
  /\ ScpEvent
  /\ UNCHANGED <<cluster, infra, tcp, copied, remoteReady, pass>>

\* ... and removes it once the SCP is being deleted.
OtherRemovesFinalizer ==
  /\ otherHeld /\ scp.exists /\ scp.deleting
  /\ LET fins == scp.fins \ {OtherFinalizer}
     IN scp' = [scp EXCEPT !.fins = fins, !.exists = fins # {}]
  /\ otherHeld' = FALSE
  /\ ScpEvent
  /\ UNCHANGED <<cluster, infra, tcp, copied, remoteReady, pass, env>>

\* The router starts the manager for the Secret's current version; until
\* then Store.Get misses. A rotation of the Secret returns the SCP to a
\* miss like the one before the first start, which Init covers; the
\* version-keyed Store is checked in ExternalClusterReference.
RouterServes ==
  /\ ~remoteReady
  /\ remoteReady' = TRUE
  /\ UNCHANGED <<scp, cluster, infra, tcp, copied, pass, queued, env, otherHeld>>

\* A user or clusterctl move pauses the Cluster (spec.paused) or annotates
\* the SCP as paused. Neither reaches the work queue: the Cluster is not
\* watched and ResourceNotPaused drops the SCP's event.
Pause ==
  /\ env.pauses < MaxPauses
  /\ \/ cluster.exists /\ ~cluster.paused /\ cluster' = [cluster EXCEPT !.paused = TRUE]
        /\ UNCHANGED scp
     \/ scp.exists /\ ~scp.paused /\ scp' = [scp EXCEPT !.paused = TRUE]
        /\ UNCHANGED cluster
  /\ env' = [env EXCEPT !.pauses = @ + 1]
  /\ UNCHANGED <<infra, tcp, copied, remoteReady, pass, queued, otherHeld>>

\* Unpausing the Cluster sends the SCP controller nothing.
ClusterUnpauses ==
  /\ cluster.paused
  /\ cluster' = [cluster EXCEPT !.paused = FALSE]
  /\ UNCHANGED <<scp, infra, tcp, copied, remoteReady, pass, queued, env, otherHeld>>

\* Removing the SCP's annotation is an SCP update event that passes.
ScpUnpauses ==
  /\ scp.exists /\ scp.paused
  /\ scp' = [scp EXCEPT !.paused = FALSE]
  /\ ScpEvent
  /\ UNCHANGED <<cluster, infra, tcp, copied, remoteReady, pass, env, otherHeld>>

\* The Cluster is removed, after adopting its control plane, while the
\* control plane still exists (its own finalizer forced off): only when
\* ClusterCanVanish.
ClusterRemoved ==
  /\ ClusterCanVanish /\ cluster.exists /\ scp.owner
  /\ cluster' = [cluster EXCEPT !.exists = FALSE]
  /\ UNCHANGED <<scp, infra, tcp, copied, remoteReady, pass, queued, env, otherHeld>>

\* The garbage collector deletes an SCP whose owning Cluster is gone.
ScpCollected ==
  /\ ~cluster.exists /\ scp.exists /\ scp.owner /\ ~scp.deleting
  /\ scp' = [scp EXCEPT !.deleting = TRUE, !.exists = scp.fins # {}]
  /\ ScpEvent
  /\ UNCHANGED <<cluster, infra, tcp, copied, remoteReady, pass, env, otherHeld>>

Pipeline == Begin \/ Resolve \/ Create \/ PatchEndpoint \/ ClusterStage
            \/ Initialize \/ Replicate \/ ReadyStage \/ Delete \/ DeferredUpdate

Environment ==
  \/ CapiSetOwner \/ CapiSyncCluster \/ InfraReport \/ TcpProgress
  \/ TcpLeavesReady \/ TcpCollected \/ UserDelete \/ OtherAddsFinalizer
  \/ OtherRemovesFinalizer \/ RouterServes
  \/ Pause \/ ClusterUnpauses \/ ScpUnpauses \/ ClusterRemoved \/ ScpCollected

Next == Pipeline \/ Environment

\* The work queue runs every queued request and the operators, the Cluster
\* API controllers, the router and the finalizer's owner keep working; the
\* user, upgrades and faults need not happen. A pause is lifted
\* eventually; the garbage collector removes what a gone Cluster owned.
Fairness ==
  /\ WF_vars(Pipeline)
  /\ WF_vars(CapiSetOwner) /\ WF_vars(CapiSyncCluster) /\ WF_vars(InfraReport)
  /\ WF_vars(TcpProgress) /\ WF_vars(TcpCollected) /\ WF_vars(OtherRemovesFinalizer)
  /\ WF_vars(RouterServes) /\ WF_vars(ClusterUnpauses) /\ WF_vars(ScpUnpauses)
  /\ WF_vars(ScpCollected)

Spec == Init /\ [][Next]_vars /\ Fairness

(***************************************************************************)
(* Properties.                                                             *)
(***************************************************************************)

\* Finalizer safety (spec 4.2a): the SCP cannot disappear while the
\* TenantControlPlane it deployed on the external cluster still exists,
\* whatever the order of deletion, finalizer registration, creation and
\* transient errors.
NoOrphanRemoteTcp == (scp.external /\ ~scp.exists) => ~tcp.exists

\* The pipeline's stages are gated on each other across passes: the SCP is
\* reported ready only once it is initialized, its endpoint is patched and
\* both the kubeconfig and the CA secrets have been replicated.
ReadyAfterPipeline ==
  scp.ready => scp.initialized /\ scp.endpoint /\ copied.kubeconfig /\ copied.ca

\* Once the environment settles, a valid SCP that is not being deleted is
\* reported ready: every wait is a requeue, never a dropped request.
EventuallyReady == <>[]((scp.exists /\ ~scp.deleting) => scp.ready)

\* A deleted SCP goes away: the external TCP is removed and the finalizer
\* with it, even after a transient error (spec 4.2a: NotFound on the
\* delete is "already done").
DeletionCompletes == scp.deleting ~> ~scp.exists

\* handleFinalizer only adds its own finalizer: a finalizer another
\* controller holds stays on the SCP until that controller removes it.
OtherFinalizerKept == (otherHeld /\ scp.exists) => OtherFinalizer \in scp.fins

\* Condition types that a pass reaching status.ready has set True.
ReadyPathConds == {"TenantControlPlaneCreated", "ControlPlaneEndpointPatched",
                   "StewardControlPlaneIsInitialized", "KubeadmResourcesCreated",
                   "StewardControlPlaneIsReady"}

\* The conditions on the SCP do not contradict its status once the
\* environment settles: a ready SCP eventually carries every condition of
\* the path to ready as True (spec 7: a hard error is never silently
\* downgraded; conditions carry each stage's last outcome).
ConditionsSettle ==
  <>[]((scp.exists /\ ~scp.deleting /\ scp.ready) => ReadyPathConds \subseteq scp.conds)

=============================================================================
