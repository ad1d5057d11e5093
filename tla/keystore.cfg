SPECIFICATION FairSpec
CONSTANTS
  Daemons = {d1, d2}
  Generated = {k1, k2, k3, k4}
  Foreign = {f1}
  Platforms = {"unix", "windows"}
  Settings <- SomeSettings
  Inherited <- SomeInherited
  MaxIOErrors = 1
  MaxCrashes = 1
  MaxEdits = 1
  None = None
INVARIANTS
  CreatedKeyStays
  ExposedKeyIsNotUsed
PROPERTIES
  OneCreation
  EveryDaemonGetsAKey
CHECK_DEADLOCK FALSE
