\* One mgr.Start error: its cleanup Stop leaves the key unserved, and the
\* router is only enqueued again if an SCP condition changes.
CONSTANTS
  k1 = k1
  k2 = k2
  Keys <- MCKeys
  NoEntry = NoEntry
  MaxVersion = 1
  MaxEdits = 2
  MaxManagers = 6
  MaxStartFailures = 1
  BuildCanFail = FALSE
SPECIFICATION Spec
PROPERTY ReferencedKeysServed
\* The controller waits for events: with the edits spent it idles for ever.
CHECK_DEADLOCK FALSE
