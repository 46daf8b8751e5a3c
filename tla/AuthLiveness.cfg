SPECIFICATION PlainSpec
CONSTANTS
  p1 = p1  p2 = p2  v1 = v1  v2 = v2  u1 = u1  u2 = u2  None = None
  Session = {s1}
  Tok = {t1}
  User = {u1}
  EmailOf <- OneEmail
  Proc = {p1, p2}
  Server = {v1}
  ServerOf <- OneServer
  SessionTTL = 1  CodeTTL = 1  RefreshTTL = 3  TokenTTL = 1
  TRLFailureMode = "warn"
  Ops = {"authorize", "exchange", "cleanup"}
  MaxTime = 2
PROPERTIES RequestsReturn ExpiredSwept
CHECK_DEADLOCK FALSE
