\* The checkOrPatch strategy against an infrastructure cluster without an
\* endpoint (patched, the path to ready) or with another one (a mismatch
\* error); valid and invalid SANs, local and external TCPs, one transient
\* API error, one pause of the Cluster or the SCP,
\* and a Cluster that may be removed before its control plane.
CONSTANTS
  Strategies = {"checkOrPatch"}
  InfraEndpoints = {"none", "other"}
  SanValidInit = {TRUE, FALSE}
  ExternalInit = {TRUE, FALSE}
  MaxFailures = 1
  MaxFlips = 0
  MaxPauses = 1
  ClusterCanVanish = TRUE
SPECIFICATION Spec
INVARIANT TypeOK
INVARIANT NoOrphanRemoteTcp
INVARIANT ReadyAfterPipeline
\* A deleted SCP and an idle controller with no pending event stop.
CHECK_DEADLOCK FALSE
