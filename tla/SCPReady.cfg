\* Strategies that patch or skip the infrastructure cluster, which starts
\* without an endpoint; valid SANs, an external TCP (the local pipeline is
\* the same without the resolve stage), one transient API error, one
\* TCP leaving Ready (the store may miss at first).
CONSTANTS
  Strategies <- ProgressStrategies
  InfraEndpoints = {"none"}
  SanValidInit = {TRUE}
  ExternalInit = {TRUE}
  MaxFailures = 1
  MaxFlips = 1
  MaxPauses = 0
  ClusterCanVanish = FALSE
SPECIFICATION Spec
PROPERTY EventuallyReady ConditionsSettle
\* A deleted SCP and an idle controller with no pending event stop.
CHECK_DEADLOCK FALSE
