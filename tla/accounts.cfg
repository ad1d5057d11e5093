SPECIFICATION Spec
CONSTANTS
  Workers = {w1, w2}
  Browsers = {b1}
  Users = {u1, u2}
  Sids = {s1, s2}
  Lifetime = 3
  IdleTimeout = 2
  TouchInterval = 0
  MaxTime = 3
  None = None
SYMMETRY IdSymmetry
INVARIANTS
  OneAdministrator
  SignedOutMeansEnded
PROPERTIES
  EndedStaysEnded
  UnusedIsRefused
CHECK_DEADLOCK FALSE
