SPECIFICATION Spec
CONSTANTS
  Workers = {w1, w2}
  Browsers = {b1}
  Users = {u1}
  Sids = {s1, s2}
  Lifetime = 3
  IdleTimeout = 2
  TouchInterval = 0
  MaxTime = 2
  None = None
SYMMETRY IdSymmetry
PROPERTIES
  ClearedTokenIsUseless
CHECK_DEADLOCK FALSE
