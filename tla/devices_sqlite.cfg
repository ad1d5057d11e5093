SPECIFICATION FairSpec
CONSTANTS
  Keys = {k1}
  DeviceIds = {d1, d2}
  PublicKeys = {p1}
  Users = {u1}
  Admins = {u1}
  V4First = 0
  V4Last = 3
  V6First = 10
  V6Last = 11
  IPv6Enabled = FALSE
  DefaultExpiry = 1
  Lifetimes = {0}
  UseLimits = {1}
  None = None
  Workers = {w1, w2}
  MaxConns = 1
  MaxAttempts = 2
  ScatterWindow = 2
  MaxTime = 0
  Served = {"register", "enroll", "revoke", "heartbeat", "createKey", "revokeKey"}
PROPERTIES
  RequestsFinish
CHECK_DEADLOCK FALSE
