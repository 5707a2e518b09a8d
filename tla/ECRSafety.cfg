\* Restarts of the router racing manager start-up failures and cleanups,
\* and the Store contract they implement.
CONSTANTS
  k1 = k1
  k2 = k2
  Keys <- MCKeys
  NoEntry = NoEntry
  MaxVersion = 1
  MaxEdits = 2
  MaxManagers = 3
  MaxStartFailures = 1
  BuildCanFail = TRUE
SPECIFICATION Spec
SYMMETRY KeySymmetry
INVARIANT TypeOK
INVARIANT OneLiveManagerPerKey
PROPERTY StoreContract
\* The controller waits for events: with the edits spent it idles for ever.
CHECK_DEADLOCK FALSE
