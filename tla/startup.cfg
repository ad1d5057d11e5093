SPECIFICATION FairSpec
CONSTANTS
  s1 = s1
  s2 = s2
  s3 = s3
  Servers = {s1, s2, s3}
  Build <- MixedBuilds
  Edited <- SecondEdited
  MigrateOnly = {s3}
  Ids = {i1, i2, i3}
  MaxFaults = 2
  MaxStops = 1
  None = None
INVARIANTS
  LedgerIsSchema
  ServesWhatItEmbeds
  OneIdentity
  HealthyMeansCurrent
PROPERTIES
  EveryServerStarts
CHECK_DEADLOCK FALSE
