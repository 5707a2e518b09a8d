-------------------- MODULE MCExternalClusterReference --------------------
(* Model-checking instance of ExternalClusterReference: two data keys of  *)
(* one kubeconfig Secret, given as model values in the .cfg files.         *)
EXTENDS ExternalClusterReference, TLC

CONSTANTS k1, k2

MCKeys == {k1, k2}

\* Keys are interchangeable model values (safety runs only).
KeySymmetry == Permutations(MCKeys)
=============================================================================
