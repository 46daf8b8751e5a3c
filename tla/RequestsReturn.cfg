SPECIFICATION MCSpec
CONSTANTS
  t1 = t1
  c1 = c1
  NoSecret = NoSecret
  acme = acme
  plain = plain
  upper = upper
  e1 = e1
  u1 = u1
  NoUser = NoUser
  NoCall = NoCall
  p1 = p1
  p2 = p2
  p4 = p4
  ghost = ghost
  Purpose = {login, registry}
  Req = {r1, r2}
  NoReq = NoReq
  Backend = "postgres"
  ConsentTTL = 1
  GrantWindow = 1
  ReGrantCooldown = 2
  Timeout = 1
  AuditFails = TRUE
  Ops = {"grant", "revoke", "revokeall", "delete"}
  MaxTime = 3
PROPERTIES AllReturn
CHECK_DEADLOCK FALSE
