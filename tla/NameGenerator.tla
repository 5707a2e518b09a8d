--------------------------- MODULE NameGenerator ---------------------------
(***************************************************************************)
(* The string functions that tie the controllers' objects together         *)
(* (pkg/externalclusterreference/name_generator.go) and the field indexers *)
(* built on them (pkg/indexers). Names are TLA+ strings; the operators     *)
(* concatenate and cut them as the Go code does, so checking them over all *)
(* short strings of a small alphabet checks the conversions themselves.    *)
(***************************************************************************)
EXTENDS Sequences, Naturals

\* Every string over the one-letter strings of alphabet of length n at most.
RECURSIVE StringsUpTo(_, _)
StringsUpTo(alphabet, n) ==
    IF n = 0 THEN {""}
    ELSE LET shorter == StringsUpTo(alphabet, n - 1)
         IN shorter \cup {s \o c : s \in shorter, c \in alphabet}

HasPrefix(s, p) == Len(s) >= Len(p) /\ SubSeq(s, 1, Len(p)) = p

TrimPrefix(s, p) == IF HasPrefix(s, p) THEN SubSeq(s, Len(p) + 1, Len(s)) ELSE s

RemoteTCPPrefix == "kcp-"

\* An SCP as these functions read it: namespace, UID and, when set,
\* spec.deployment.externalClusterReference (ecr), else NoReference.
NoReference == [set |-> FALSE]

\* Mutant: the prefix is trimmed without checking it is there.
ParseStewardControlPlaneUIDNoPrefixCheck(tcpName) ==
    TrimPrefix(tcpName, RemoteTCPPrefix)

ParseStewardControlPlaneUIDFromTenantControlPlane(tcpName) ==
    IF ~HasPrefix(tcpName, RemoteTCPPrefix) THEN ""
    ELSE TrimPrefix(tcpName, RemoteTCPPrefix)

GenerateRemoteTenantControlPlaneNames(scp) ==
    [name |-> RemoteTCPPrefix \o scp.uid,
     namespace |-> scp.ecr.deploymentNamespace]

\* One key per data key of the Secret (the slice's order is irrelevant:
\* every caller ranges over all of it).
GenerateKeyNameFromSecret(secret) ==
    {secret.namespace \o "/" \o secret.name \o "/" \o k : k \in secret.data}

\* Mutant: the key always takes the SCP's own namespace.
GenerateKeyNameFromStewardOwnNamespace(scp) ==
    scp.namespace \o "/" \o scp.ecr.kubeconfigSecretName
                  \o "/" \o scp.ecr.kubeconfigSecretKey

GenerateKeyNameFromSteward(scp) ==
    LET namespace == IF scp.ecr.kubeconfigSecretNamespace # ""
                     THEN scp.ecr.kubeconfigSecretNamespace
                     ELSE scp.namespace
    IN namespace \o "/" \o scp.ecr.kubeconfigSecretName
                 \o "/" \o scp.ecr.kubeconfigSecretKey

\* The index values of an SCP (ecr_scp.go and steward_uid.go ExtractValue).
ExternalClusterReferenceStewardControlPlane(scp) ==
    IF scp.ecr.set THEN {GenerateKeyNameFromSteward(scp)} ELSE {}

StewardControlPlaneUID(scp) == {scp.uid}

=============================================================================
