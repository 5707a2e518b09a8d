---------------------- MODULE ExternalClusterReference ----------------------
(***************************************************************************)
(* The Secret change router and the store of remote-cluster managers.      *)
(*                                                                         *)
(*  - ExternalClusterReferenceReconciler.Reconcile and startManager        *)
(*    (src/controllers/externalclusterreference_controller.go): one pass   *)
(*    per request for the kubeconfig Secret;                               *)
(*  - the Store (Get/Add/Stop) of pkg/externalclusterreference, whose      *)
(*    source is not in the repository: modelled from the spec (4.3);       *)
(*  - one goroutine per manager, started by `go r.startManager(...)`.      *)
(*                                                                         *)
(* One Secret is modelled: store keys are "<ns>/<name>/<dataKey>", so two  *)
(* Secrets never share a key and their passes never touch the same entry.  *)
(* The controller has the default MaxConcurrentReconciles of 1, so passes  *)
(* for the Secret are serialized; the manager goroutines run concurrently  *)
(* with them and with each other.                                          *)
(***************************************************************************)
EXTENDS Naturals, Sequences, FiniteSets

CONSTANTS
  Keys,           \* data keys of the Secret; each is a store key
  MaxVersion,     \* bound on Secret resourceVersion changes
  MaxEdits,       \* bound on StewardControlPlane reference edits
  MaxManagers,    \* bound on managers created
  NoEntry,        \* model value: no store entry under a key
  MaxStartFailures, \* bound on mgr.Start returning an error
  BuildCanFail    \* RESTConfigFromKubeConfig / NewManager / SetupWithManager may fail

ASSUME MaxVersion \in Nat /\ MaxEdits \in Nat /\ MaxManagers \in Nat \ {0}
ASSUME MaxStartFailures \in Nat /\ BuildCanFail \in BOOLEAN

VARIABLES
  secret,     \* the Secret as the informer cache returns it
  referenced, \* keys some StewardControlPlane references (the SCP index)
  edits,      \* reference edits so far
  queued,     \* a request for the Secret waits in the work queue
  ecr,        \* the reconciler's pass: program counter and locals
  store,      \* Store entries: key -> [mgr, version] or NoEntry
  mgrs,       \* every manager created, indexed by creation order
  failures,   \* mgr.Start errors so far
  found       \* key -> condition FoundExternalReferenceClient of the SCP
              \* referencing it: "absent", "True" or "False"

vars == <<secret, referenced, edits, queued, ecr, store, mgrs, failures, found>>

MgrStatus == {"starting", "running", "failing", "exited"}

Entry == [mgr : 1..MaxManagers, version : 0..MaxVersion]

TypeOK ==
  /\ secret \in [exists : BOOLEAN, version : 0..MaxVersion, data : SUBSET Keys]
  /\ referenced \subseteq Keys
  /\ edits \in 0..MaxEdits
  /\ queued \in BOOLEAN
  /\ ecr \in [pc : {"idle", "restart", "add"}, rv : 0..MaxVersion,
              toVisit : SUBSET Keys, pending : Keys, mgr : 0..MaxManagers]
  /\ store \in [Keys -> Entry \cup {NoEntry}]
  /\ Len(mgrs) <= MaxManagers
  /\ \A i \in DOMAIN mgrs :
        mgrs[i] \in [key : Keys, status : MgrStatus, cancelled : BOOLEAN]
  /\ failures \in 0..MaxStartFailures
  /\ found \in [Keys -> {"absent", "True", "False"}]

(***************************************************************************)
(* Store operations (spec 4.3).                                            *)
(***************************************************************************)

\* Get(key, version): a hit only when the stored version token matches.
StoreGet(k, v) == store[k] # NoEntry /\ store[k].version = v

\* The store after Stop(k) for every k in S: entries are deregistered ...
StoreWithout(S) == [k \in Keys |-> IF k \in S THEN NoEntry ELSE store[k]]

\* ... and the context of each deregistered entry's manager is cancelled.
MgrsAfterStop(S) ==
  LET stopped == {store[k].mgr : k \in {j \in S : store[j] # NoEntry}}
  IN [i \in DOMAIN mgrs |->
        IF i \in stopped THEN [mgrs[i] EXCEPT !.cancelled = TRUE] ELSE mgrs[i]]

Idle == [pc |-> "idle", rv |-> 0, toVisit |-> {}, pending |-> CHOOSE k \in Keys : TRUE, mgr |-> 0]

Init ==
  /\ secret = [exists |-> TRUE, version |-> 0, data |-> Keys]
  /\ referenced \in SUBSET Keys
  /\ edits = 0
  /\ queued = TRUE
  /\ ecr = Idle
  /\ store = [k \in Keys |-> NoEntry]
  /\ mgrs = <<>>
  /\ failures = 0
  /\ found = [k \in Keys |-> "absent"]

(***************************************************************************)
(* Environment: the Secret and the StewardControlPlanes referencing it.    *)
(***************************************************************************)

\* The Secret is updated (kubeconfig rotated, data keys added or removed).
SecretUpdate ==
  /\ secret.exists
  /\ secret.version < MaxVersion
  /\ \E d \in SUBSET Keys :
        secret' = [secret EXCEPT !.version = @ + 1, !.data = d]
  /\ queued' = TRUE
  /\ UNCHANGED <<referenced, edits, ecr, store, mgrs, failures, found>>

\* The Secret is deleted.
SecretDelete ==
  /\ secret.exists
  /\ secret' = [secret EXCEPT !.exists = FALSE]
  /\ queued' = TRUE
  /\ UNCHANGED <<referenced, edits, ecr, store, mgrs, failures, found>>

\* A StewardControlPlane starts or stops referencing key k. The watch on
\* StewardControlPlanes maps old and new objects to the Secrets found by
\* the Secret index (lines 138-156): a request only if the Secret exists.
EditReference(k) ==
  /\ edits < MaxEdits
  /\ referenced' = IF k \in referenced THEN referenced \ {k} ELSE referenced \cup {k}
  /\ edits' = edits + 1
  /\ queued' = (queued \/ secret.exists)
  /\ UNCHANGED <<secret, ecr, store, mgrs, failures, found>>

\* A pass of the SCP controller for the SCP referencing k whose
\* extractRemoteClient (stewardcontrolplane_controller_externalreference.go
\* l.44-68) reads the Secret and gets the key's entry for the Secret's
\* resourceVersion: the condition FoundExternalReferenceClient it tracks is
\* True on a hit and False otherwise. Only a pass that changes the
\* condition changes the SCP (the deferred status update, controller.go
\* l.115-123), and only that update is an event for the router's watch on
\* SCPs, which enqueues the Secret (lines 138-156).
ScpPass(k) ==
  /\ k \in referenced
  /\ LET hit  == secret.exists /\ k \in secret.data /\ StoreGet(k, secret.version)
         cond == IF hit THEN "True" ELSE "False"
     IN /\ found[k] # cond
        /\ found' = [found EXCEPT ![k] = cond]
        /\ queued' = (queued \/ secret.exists)
  /\ UNCHANGED <<secret, referenced, edits, ecr, store, mgrs, failures>>

(***************************************************************************)
(* The reconciler (Reconcile, lines 39-124).                               *)
(***************************************************************************)

\* Dequeue the request, get the Secret (NotFound: return), then stop the
\* managers of the Secret's data keys no StewardControlPlane references.
EcrBegin ==
  /\ ecr.pc = "idle"
  /\ queued
  /\ queued' = FALSE
  /\ IF ~secret.exists
       THEN UNCHANGED <<ecr, store, mgrs>>
       ELSE LET unused == secret.data \ referenced
                keys   == secret.data \cap referenced
            IN /\ store' = StoreWithout(unused)
               /\ mgrs' = MgrsAfterStop(unused)
               /\ ecr' = IF keys = {} THEN ecr
                         ELSE [ecr EXCEPT !.pc = "restart", !.rv = secret.version,
                                          !.toVisit = keys]
  /\ UNCHANGED <<secret, referenced, edits, failures, found>>

\* Mutant: the old manager is not stopped before the new one is launched.
EcrRestartNoStop(k) ==
  /\ ecr.pc = "restart"
  /\ k \in ecr.toVisit
  /\ ~StoreGet(k, ecr.rv)
  /\ Len(mgrs) < MaxManagers
  /\ mgrs' = Append(mgrs, [key |-> k, status |-> "starting", cancelled |-> FALSE])
  /\ ecr' = [ecr EXCEPT !.pc = "add", !.pending = k, !.mgr = Len(mgrs) + 1]
  /\ UNCHANGED <<secret, referenced, edits, queued, store, failures, found>>

\* Mutant: the new manager is recorded under the previous manager's index.
EcrRestartOffByOne(k) ==
  /\ ecr.pc = "restart"
  /\ k \in ecr.toVisit
  /\ ~StoreGet(k, ecr.rv)
  /\ store' = StoreWithout({k})
  /\ Len(mgrs) < MaxManagers
  /\ mgrs' = Append(MgrsAfterStop({k}),
                    [key |-> k, status |-> "starting", cancelled |-> FALSE])
  /\ ecr' = [ecr EXCEPT !.pc = "add", !.pending = k, !.mgr = Len(mgrs)]
  /\ UNCHANGED <<secret, referenced, edits, queued, failures, found>>

\* Mutant: the lookup at line 78 is not gated on the Secret's version.
EcrRestartAnyVersion(k) ==
  /\ ecr.pc = "restart"
  /\ k \in ecr.toVisit
  /\ \/ /\ store[k] # NoEntry
        /\ ecr' = IF ecr.toVisit = {k} THEN Idle
                  ELSE [ecr EXCEPT !.toVisit = @ \ {k}]
        /\ UNCHANGED <<queued, store, mgrs>>
     \/ /\ store[k] = NoEntry
        /\ Len(mgrs) < MaxManagers
        /\ mgrs' = Append(mgrs, [key |-> k, status |-> "starting", cancelled |-> FALSE])
        /\ ecr' = [ecr EXCEPT !.pc = "add", !.pending = k, !.mgr = Len(mgrs) + 1]
        /\ UNCHANGED <<queued, store>>
  /\ UNCHANGED <<secret, referenced, edits, failures, found>>

\* One referenced key: a hit for the Secret's version is kept; otherwise the
\* old manager is stopped, a new one is built and its goroutine launched.
\* A build error ends the pass with an error (requeued with backoff).
EcrRestart(k) ==
  /\ ecr.pc = "restart"
  /\ k \in ecr.toVisit
  /\ \/ /\ StoreGet(k, ecr.rv)
        /\ ecr' = IF ecr.toVisit = {k} THEN Idle
                  ELSE [ecr EXCEPT !.toVisit = @ \ {k}]
        /\ UNCHANGED <<queued, store, mgrs>>
     \/ /\ ~StoreGet(k, ecr.rv)
        /\ store' = StoreWithout({k})
        /\ \/ /\ BuildCanFail
              /\ mgrs' = MgrsAfterStop({k})
              /\ ecr' = Idle
              /\ queued' = TRUE
           \/ /\ Len(mgrs) < MaxManagers
              /\ mgrs' = Append(MgrsAfterStop({k}),
                                [key |-> k, status |-> "starting", cancelled |-> FALSE])
              /\ ecr' = [ecr EXCEPT !.pc = "add", !.pending = k, !.mgr = Len(mgrs) + 1]
              /\ UNCHANGED queued
  /\ UNCHANGED <<secret, referenced, edits, failures, found>>

\* r.Store.Add(key, secret.ResourceVersion, mgr, cancelFn), after the go.
EcrAdd ==
  /\ ecr.pc = "add"
  /\ store' = [store EXCEPT ![ecr.pending] = [mgr |-> ecr.mgr, version |-> ecr.rv]]
  /\ ecr' = IF ecr.toVisit = {ecr.pending} THEN Idle
            ELSE [ecr EXCEPT !.pc = "restart", !.toVisit = @ \ {ecr.pending}]
  /\ UNCHANGED <<secret, referenced, edits, queued, mgrs, failures, found>>

(***************************************************************************)
(* Manager goroutines (startManager, lines 126-132).                       *)
(***************************************************************************)

\* mgr.Start has synced its caches and blocks until its context is done.
MgrStarted(i) ==
  /\ mgrs[i].status = "starting"
  /\ ~mgrs[i].cancelled
  /\ mgrs' = [mgrs EXCEPT ![i].status = "running"]
  /\ UNCHANGED <<secret, referenced, edits, queued, ecr, store, failures, found>>

\* mgr.Start returns an error while starting; a cancellation during the
\* cache sync may also surface as an error, so cancelled or not.
MgrStartFails(i) ==
  /\ failures < MaxStartFailures
  /\ mgrs[i].status = "starting"
  /\ mgrs' = [mgrs EXCEPT ![i].status = "failing"]
  /\ failures' = failures + 1
  /\ UNCHANGED <<secret, referenced, edits, queued, ecr, store, found>>

\* After the error the goroutine calls r.Store.Stop(name) on its key.
MgrCleanup(i) ==
  /\ mgrs[i].status = "failing"
  /\ store' = StoreWithout({mgrs[i].key})
  /\ mgrs' = [MgrsAfterStop({mgrs[i].key}) EXCEPT ![i].status = "exited"]
  /\ UNCHANGED <<secret, referenced, edits, queued, ecr, failures, found>>

\* A cancelled manager's Start returns nil: the goroutine ends.
MgrCancelled(i) ==
  /\ mgrs[i].cancelled
  /\ mgrs[i].status \in {"starting", "running"}
  /\ mgrs' = [mgrs EXCEPT ![i].status = "exited"]
  /\ UNCHANGED <<secret, referenced, edits, queued, ecr, store, failures, found>>

Next ==
  \/ SecretUpdate \/ SecretDelete
  \/ \E k \in Keys : EditReference(k) \/ ScpPass(k)
  \/ EcrBegin \/ EcrAdd
  \/ \E k \in Keys : EcrRestart(k)
  \/ \E i \in DOMAIN mgrs :
        MgrStarted(i) \/ MgrStartFails(i) \/ MgrCleanup(i) \/ MgrCancelled(i)

\* The work queue eventually hands a request to the reconciler and the
\* goroutines are scheduled; the Secret, the users and failures are not fair.
\* An SCP whose condition is absent has a pass queued by its creation, and
\* one whose lookup misses returns an error, which requeues it with
\* backoff; a ready SCP whose entry is lost has no pass due.
Fairness ==
  /\ WF_vars(EcrBegin) /\ WF_vars(EcrAdd)
  /\ \A k \in Keys : WF_vars(found[k] # "True" /\ ScpPass(k))
  /\ \A k \in Keys : WF_vars(EcrRestart(k))
  /\ \A i \in 1..MaxManagers :
        WF_vars(i \in DOMAIN mgrs /\ (MgrStarted(i) \/ MgrCleanup(i) \/ MgrCancelled(i)))

Spec == Init /\ [][Next]_vars /\ Fairness

(***************************************************************************)
(* Properties.                                                             *)
(***************************************************************************)

\* Manager i neither finished nor had its context cancelled.
Live(i) == ~mgrs[i].cancelled /\ mgrs[i].status \in {"starting", "running"}

\* At most one connection per key (spec 8): however the reconciler's
\* restarts interleave with manager goroutines failing and cleaning up,
\* no two uncancelled, unfinished managers ever serve the same key.
OneLiveManagerPerKey ==
  \A k \in Keys : Cardinality({i \in DOMAIN mgrs : mgrs[i].key = k /\ Live(i)}) <= 1

(***************************************************************************)
(* Refinement: the router and the manager goroutines use the Store as its  *)
(* contract (ConnectionStore) allows. A key's entry is its version token;  *)
(* its live connections are its managers neither cancelled nor finished.   *)
(***************************************************************************)

StoreEntries ==
  [k \in Keys |-> IF store[k] = NoEntry THEN NoEntry ELSE store[k].version]

LiveConnections ==
  [k \in Keys |-> Cardinality({i \in DOMAIN mgrs : mgrs[i].key = k /\ Live(i)})]

Contract == INSTANCE ConnectionStore WITH entries <- StoreEntries, live <- LiveConnections

\* Every step of the router and of the goroutines is a step the Store
\* contract allows: Add only on a stopped key with a version the Secret
\* has had, a new manager only once the key has no live one, and a
\* cleanup that only stops.
StoreContract == Contract!Spec

\* A connection that fails to start cleans itself up (spec 4.3): no store
\* entry ever refers to a manager whose goroutine has ended or been
\* cancelled, so Get never hands a dead manager to a StewardControlPlane.
NoDeadEntry ==
  \A k \in Keys : store[k] # NoEntry =>
     /\ mgrs[store[k].mgr].status # "exited"
     /\ ~mgrs[store[k].mgr].cancelled

\* A key the Secret holds and a StewardControlPlane references is served.
Served(k) ==
  /\ store[k] # NoEntry
  /\ store[k].version = secret.version
  /\ mgrs[store[k].mgr].status = "running"

\* Once the Secret and the references stop changing, every referenced key
\* of the Secret ends up served by a running manager started from the
\* Secret's current version (rotation restarts it; version-gated Get).
ReferencedKeysServed ==
  <>[](secret.exists => \A k \in secret.data \cap referenced : Served(k))

\* The router reacts to Secret mutation and deletion by stopping the
\* connections no longer needed (spec 2, 4.3): eventually every live
\* manager serves a key the existing Secret holds and someone references.
NoOrphanManager ==
  <>[](\A i \in DOMAIN mgrs :
          Live(i) => secret.exists /\ mgrs[i].key \in secret.data \cap referenced)

=============================================================================
