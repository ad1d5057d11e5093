SPECIFICATION FairSpec
CONSTANTS
  Keys = {}
  DeviceIds = {d1, d2}
  PublicKeys = {p1, p2}
  Users = {u1, u2}
  Admins = {u1}
  V4First = 0
  V4Last = 4
  V6First = 10
  V6Last = 11
  IPv6Enabled = FALSE
  DefaultExpiry = 1
  Lifetimes = {0}
  UseLimits = {1}
  None = None
  Workers = {w1, w2}
  MaxConns = 2
  MaxAttempts = 2
  ScatterWindow = 2
  MaxTime = 0
  Served = {"register", "revoke"}
PROPERTIES
  NoAddressHandover
  ForeignDeviceLooksMissing
  RequestsFinish
CHECK_DEADLOCK FALSE
