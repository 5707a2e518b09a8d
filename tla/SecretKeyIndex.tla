--------------------------- MODULE SecretKeyIndex ---------------------------
(***************************************************************************)
(* The Store key the SCP controller looks up and the keys the Secret       *)
(* router registers are computed by different code: extractRemoteClient    *)
(* reads the Secret (namespace defaulted to the SCP's) and asks the Store  *)
(* for GenerateKeyNameFromSteward; the router ranges over                  *)
(* GenerateKeyNameFromSecret of that Secret and asks the SCP index         *)
(* (ExternalClusterReferenceStewardControlPlane) which keys are used. The  *)
(* state is one SCP and one Secret; Next leaves them unchanged.            *)
(***************************************************************************)
EXTENDS NameGenerator

CONSTANTS
    Names,      \* namespaces and object names
    DataKeys    \* keys of a Secret's data

SCPs == [namespace: Names, uid: {"uid"}, ecr: {NoReference}]
        \cup [namespace: Names, uid: {"uid"},
              ecr: [set: {TRUE}, kubeconfigSecretNamespace: Names \cup {""},
                    kubeconfigSecretName: Names, kubeconfigSecretKey: DataKeys,
                    deploymentNamespace: {"remote"}]]

Secrets == [namespace: Names, name: Names, data: SUBSET DataKeys]

\* The Secret and data key extractRemoteClient reads
\* (stewardcontrolplane_controller_externalreference.go:44-63).
ExternalClusterReferenceSecret(s) ==
    [namespace |-> IF s.ecr.kubeconfigSecretNamespace # ""
                   THEN s.ecr.kubeconfigSecretNamespace ELSE s.namespace,
     name |-> s.ecr.kubeconfigSecretName,
     key |-> s.ecr.kubeconfigSecretKey]

\* extractRemoteClient gets past the Secret reads to its Store.Get.
ReadsKubeconfig(s, sec) ==
    LET ref == ExternalClusterReferenceSecret(s)
    IN /\ s.ecr.set
       /\ sec.namespace = ref.namespace /\ sec.name = ref.name
       /\ ref.key \in sec.data

\* The router's index lookup for this Secret returns the SCP
\* (externalclusterreference_controller.go:55-73).
IndexedBy(sec, s) ==
    ExternalClusterReferenceStewardControlPlane(s)
        \cap GenerateKeyNameFromSecret(sec) # {}

VARIABLES scp, secret
vars == <<scp, secret>>

Init == scp \in SCPs /\ secret \in Secrets

Next == UNCHANGED vars

Spec == Init /\ [][Next]_vars

\* The router keeps a manager for a key of this Secret exactly when an SCP
\* whose extractRemoteClient reads this Secret and data key exists: the
\* Store key the SCP controller asks for is one the router registers for
\* that Secret, and no other Secret's reconcile claims it.
KeyRoutedToReader == IndexedBy(secret, scp) <=> ReadsKubeconfig(scp, secret)

=============================================================================
