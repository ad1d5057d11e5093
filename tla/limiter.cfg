SPECIFICATION Spec
CONSTANTS
  Clients = {c1, c2}
  Cost = 5
  Cap = 15
  SweepEvery = 3
  IdleTTL = 9
  Second = 2
  MaxTime = 16
  None = None
SYMMETRY ClientSymmetry
INVARIANTS
  RateBound
PROPERTIES
  IsTokenBucket
  IdleBucketsGo
  ComeBackAdmitted
CHECK_DEADLOCK FALSE
