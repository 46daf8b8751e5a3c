SPECIFICATION MCSpec
CONSTANTS
  login = login
  r4 = r4
  registry = registry
  Purpose = {login, registry}
  Req = {r1, r2, r3, r4}
  NoReq = NoReq
  Backend = "postgres"
  ConsentTTL = 1
  GrantWindow = 1
  ReGrantCooldown = 2
  Timeout = 1
  AuditFails = TRUE
  Ops = {"grant", "revoke", "revokeall", "delete", "require"}
  MaxTime = 3
SYMMETRY ReqSymmetry
INVARIANTS AllOrNothingInSQL AuditTruthful
PROPERTIES RegrantSpacedInSQL GrantedAdvances
CHECK_DEADLOCK FALSE
