SPECIFICATION FairSpec
CONSTANTS
  Slots = {1, 2}
  Sessions = {i1, i2}
  MaxActs = 5
  MaxFaults = 2
  None = None
INVARIANTS
  SignedOutShellStays
  OwnChangesAreListed
PROPERTIES
  BusyEnds
CHECK_DEADLOCK FALSE
