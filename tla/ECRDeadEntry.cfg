\* Restarts of the router racing manager start-up failures and cleanups.
CONSTANTS
  k1 = k1
  k2 = k2
  Keys <- MCKeys
  NoEntry = NoEntry
  MaxVersion = 1
  MaxEdits = 2
  MaxManagers = 3
  MaxStartFailures = 2
  BuildCanFail = TRUE
SPECIFICATION Spec
SYMMETRY KeySymmetry
INVARIANT NoDeadEntry
\* The controller waits for events: with the edits spent it idles for ever.
CHECK_DEADLOCK FALSE
