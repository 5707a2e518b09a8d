\* Deletion of an externally referenced SCP with valid SANs and one
\* transient API error: handleDeletion treats a missing remote
\* TenantControlPlane as done but leaves the finalizer in place.
CONSTANTS
  Strategies = {"skip"}
  InfraEndpoints = {"none"}
  SanValidInit = {TRUE}
  ExternalInit = {TRUE}
  MaxFailures = 1
  MaxFlips = 0
  MaxPauses = 0
  ClusterCanVanish = FALSE
SPECIFICATION Spec
PROPERTY DeletionCompletes
CHECK_DEADLOCK FALSE
