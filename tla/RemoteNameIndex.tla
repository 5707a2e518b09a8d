--------------------------- MODULE RemoteNameIndex ---------------------------
(***************************************************************************)
(* A remote TCP is named from its SCP's UID (GenerateRemoteTenant-         *)
(* ControlPlaneNames, used by createOrUpdateTenantControlPlane and         *)
(* handleDeletion). Events on remote TCPs come back through                *)
(* PushStewardChange, which parses the UID out of the TCP's name and asks  *)
(* the UID index for the SCPs to signal. The state is one TCP name and one *)
(* SCP; Next leaves them unchanged.                                        *)
(***************************************************************************)
EXTENDS NameGenerator

CONSTANTS
    Alphabet,   \* one-letter strings names are made of
    MaxLen,     \* longest TCP name considered
    UIDs        \* SCP UIDs (non-empty, as the API server assigns them)

SCPs == [namespace: {"default"}, uid: UIDs,
         ecr: [set: {TRUE}, kubeconfigSecretNamespace: {""},
               kubeconfigSecretName: {"kubeconfig"},
               kubeconfigSecretKey: {"value"}, deploymentNamespace: {"remote"}]]

\* The SCPs PushStewardChange.Reconcile sends a GenericEvent for, out of
\* scps, on an event of the TCP named tcpName
\* (externalclusterreference_controller.go:189-209).
PushStewardChange(tcpName, scps) ==
    LET value == ParseStewardControlPlaneUIDFromTenantControlPlane(tcpName)
    IN IF value = "" THEN {}
       ELSE {s \in scps : value \in StewardControlPlaneUID(s)}

TCPNames == StringsUpTo(Alphabet, MaxLen)

VARIABLES tcpName, scp
vars == <<tcpName, scp>>

Init == tcpName \in TCPNames /\ scp \in SCPs

Next == UNCHANGED vars

Spec == Init /\ [][Next]_vars

\* An event on a remote TCP reaches the SCP exactly when that SCP created
\* the TCP: the UID PushStewardChange parses out of the name is the one
\* GenerateRemoteTenantControlPlaneNames put in, and a TCP of another name
\* (no "kcp-" prefix, or another UID) wakes no SCP.
EventReachesOwner ==
    (scp \in PushStewardChange(tcpName, {scp}))
        <=> tcpName = GenerateRemoteTenantControlPlaneNames(scp).name

=============================================================================
