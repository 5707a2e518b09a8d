\* The SCP waits at the pause gate: one pause of the Cluster or of the SCP,
\* no transient error, a strategy that always patches, an external TCP.
CONSTANTS
  Strategies = {"patch"}
  InfraEndpoints = {"none"}
  SanValidInit = {TRUE}
  ExternalInit = {TRUE}
  MaxFailures = 0
  MaxFlips = 0
  MaxPauses = 1
  ClusterCanVanish = FALSE
SPECIFICATION Spec
PROPERTY EventuallyReady
CHECK_DEADLOCK FALSE
