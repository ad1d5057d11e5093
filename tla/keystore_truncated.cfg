SPECIFICATION FairSpec
CONSTANTS
  Daemons = {d1, d2}
  Generated = {k1, k2, k3, k4}
  Foreign = {}
  Platforms = {"windows"}
  Settings <- SomeSettings
  Inherited <- OnlyPrivate
  MaxIOErrors = 1
  MaxCrashes = 0
  MaxEdits = 0
  None = None
PROPERTIES
  NextStartEnrols
CHECK_DEADLOCK FALSE
