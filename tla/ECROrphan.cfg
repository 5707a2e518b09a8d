\* Secret deletion or a removed data key leaves its manager running.
CONSTANTS
  k1 = k1
  k2 = k2
  Keys <- MCKeys
  NoEntry = NoEntry
  MaxVersion = 1
  MaxEdits = 2
  MaxManagers = 6
  MaxStartFailures = 0
  BuildCanFail = FALSE
SPECIFICATION Spec
PROPERTY NoOrphanManager
\* The controller waits for events: with the edits spent it idles for ever.
CHECK_DEADLOCK FALSE
