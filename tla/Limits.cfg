SPECIFICATION MCSpec
CONSTANTS
  r1 = r1
  r2 = r2
  k1 = k1
  c1 = c1
  c2 = c2
  Req = {r1, r2}
  IPs = {i1}
  Users = {u1}
  Clients = {c1}
  NilUser = NilUser
  Confidential = {c1}
  Kinds = {"ip", "auth", "both", "client"}
  Configured = {"auth", "read"}
  Requested = {"auth", "read", "admin"}
  IPLimit = 1
  UserLimit = 2
  PublicLimit = 1
  ConfidentialLimit = 2
  FailureThreshold = 2
  SuccessThreshold = 2
  Fallback = TRUE
  FailClosed = TRUE
  Memory = TRUE
  AdminOps = {"add", "remove", "reset"}
  Expiries = {1}
  Cleanup = TRUE
  MaxTime = 2
  MaxOutages = 1
INVARIANTS LimitsKept WindowKept
PROPERTIES CircuitsClose
CHECK_DEADLOCK FALSE
