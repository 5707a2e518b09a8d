---------------------- MODULE MCStewardControlPlane ----------------------
(* Model-checking instance of StewardControlPlane; the constants are set  *)
(* in the .cfg files.                                                      *)
EXTENDS StewardControlPlane

\* Kinds whose patch path lets the SCP become ready without a user fixing
\* the infrastructure cluster (the others end in a hard error).
ProgressStrategies == {"patch", "patchStatus", "skip"}
=============================================================================
