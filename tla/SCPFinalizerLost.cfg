\* An externally referenced SCP whose finalizers another controller also
\* edits: handleFinalizer writes the set it read at the start of the pass.
CONSTANTS
  Strategies = {"skip"}
  InfraEndpoints = {"none"}
  SanValidInit = {TRUE}
  ExternalInit = {TRUE}
  MaxFailures = 0
  MaxFlips = 0
  MaxPauses = 0
  ClusterCanVanish = FALSE
SPECIFICATION Spec
INVARIANT OtherFinalizerKept
CHECK_DEADLOCK FALSE
