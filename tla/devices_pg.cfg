SPECIFICATION Spec
CONSTANTS
  Keys = {k1}
  DeviceIds = {d1, d2}
  PublicKeys = {p1, p2}
  Users = {u1}
  Admins = {u1}
  V4First = 0
  V4Last = 3
  V6First = 10
  V6Last = 11
  IPv6Enabled = TRUE
  DefaultExpiry = 1
  Lifetimes = {0}
  UseLimits = {1}
  None = None
  Workers = {w1, w2}
  MaxConns = 2
  MaxAttempts = 1
  ScatterWindow = 2
  MaxTime = 1
  Served = {"register", "enroll", "revoke", "heartbeat", "createKey", "revokeKey"}
SYMMETRY IdSymmetry
INVARIANTS
  OpenTransactionsSound
  AddressIntegrity
  UsesAreDevices
  PublicKeyUnique
  CredentialIffEnrolled
  EnrolledInTime
PROPERTIES
  RevokedKeyIsDead
  RevokedDeviceIsFrozen
  RegSpec
CHECK_DEADLOCK FALSE
