SPECIFICATION MCSpec
CONSTANTS
  p1 = p1  p2 = p2  v1 = v1  v2 = v2  u1 = u1  u2 = u2  None = None
  Session = {s1, s2}
  Tok = {t1, t2, t3}
  User = {u1, u2}
  EmailOf <- OneEmail
  Proc = {p1, p2}
  Server = {v1, v2}
  ServerOf <- TwoServers
  SessionTTL = 2  CodeTTL = 1  RefreshTTL = 2  TokenTTL = 1
  TRLFailureMode = "fail"
  Ops = {"authorize", "exchange", "refresh", "revokeSession", "revokeToken", "logoutAll", "deleteUser"}
  MaxTime = 2
SYMMETRY Symmetry
INVARIANTS SingleUse OneCredential ListedTokenRefused RevokeSessionListsLatest
PROPERTIES RevokedIsFinal
CHECK_DEADLOCK FALSE
