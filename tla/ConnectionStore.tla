--------------------------- MODULE ConnectionStore ---------------------------
(***************************************************************************)
(* What the ExternalClusterReference Store promises its users (spec 4.3),  *)
(* abstracted from who calls it: per store key, the registered version     *)
(* token or NoEntry, and the number of live connections. The Secret and    *)
(* the set of referenced keys change freely.                               *)
(*                                                                         *)
(*  - Stop deregisters entries and cancels the registered connections;     *)
(*  - a connection is launched for a key only when no connection of the    *)
(*    key is live once the key's entry is stopped, so at most one is live; *)
(*  - Add registers a key whose prior entry has been stopped, with the     *)
(*    version token of a Secret version that has existed;                 *)
(*  - a live connection may end on its own (its start fails).              *)
(***************************************************************************)
EXTENDS Naturals

CONSTANTS Keys, MaxVersion, NoEntry

VARIABLES
  secret,     \* the kubeconfig Secret: existence, version, data keys
  referenced, \* keys some StewardControlPlane references
  entries,    \* key -> registered version token, or NoEntry
  live        \* key -> number of live connections

vars == <<secret, referenced, entries, live>>

Secrets == [exists : BOOLEAN, version : 0..MaxVersion, data : SUBSET Keys]

TypeOK ==
  /\ secret \in Secrets
  /\ referenced \subseteq Keys
  /\ entries \in [Keys -> 0..MaxVersion \cup {NoEntry}]
  /\ live \in [Keys -> 0..1]

Init ==
  /\ secret = [exists |-> TRUE, version |-> 0, data |-> Keys]
  /\ referenced \in SUBSET Keys
  /\ entries = [k \in Keys |-> NoEntry]
  /\ live = [k \in Keys |-> 0]

\* The Secret is rotated or deleted: versions only grow, and a deleted
\* Secret does not come back.
SecretChanges ==
  /\ secret' \in {s \in Secrets : s.version >= secret.version
                                  /\ (s.exists => secret.exists)}
  /\ UNCHANGED <<referenced, entries, live>>

ReferencesChange ==
  /\ referenced' \in SUBSET Keys
  /\ UNCHANGED <<secret, entries, live>>

\* Live connections of k once its entry is stopped.
LiveAfterStop(k) == IF entries[k] # NoEntry THEN 0 ELSE live[k]

Stop(S) ==
  /\ entries' = [k \in Keys |-> IF k \in S THEN NoEntry ELSE entries[k]]
  /\ live' = [k \in Keys |-> IF k \in S THEN LiveAfterStop(k) ELSE live[k]]
  /\ UNCHANGED <<secret, referenced>>

\* Stop(k), then a new connection for k.
Launch(k) ==
  /\ LiveAfterStop(k) = 0
  /\ entries' = [entries EXCEPT ![k] = NoEntry]
  /\ live' = [live EXCEPT ![k] = 1]
  /\ UNCHANGED <<secret, referenced>>

Register(k, v) ==
  /\ entries[k] = NoEntry
  /\ v <= secret.version
  /\ entries' = [entries EXCEPT ![k] = v]
  /\ UNCHANGED <<secret, referenced, live>>

ConnectionEnds(k) ==
  /\ live[k] = 1
  /\ live' = [live EXCEPT ![k] = 0]
  /\ UNCHANGED <<secret, referenced, entries>>

Next ==
  \/ SecretChanges \/ ReferencesChange
  \/ \E S \in SUBSET Keys : Stop(S)
  \/ \E k \in Keys : Launch(k) \/ ConnectionEnds(k)
  \/ \E k \in Keys, v \in 0..MaxVersion : Register(k, v)

Spec == Init /\ [][Next]_vars

=============================================================================
