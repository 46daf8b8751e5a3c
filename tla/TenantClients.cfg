SPECIFICATION MCSpec
CONSTANTS
  t1 = t1
  c1 = c1
  acme = acme
  umbra = umbra
  plain = plain
  upper = upper
  SeedTenant = {t1}
  SeedClient = {c1}
  Req = {r1, r2, r3}
  NoReq = NoReq
  NoSecret = NoSecret
  Base = {acme, umbra}
  Letters = {plain, upper}
  Backend = "postgres"
  Ops = {"create_client", "deactivate_tenant", "update_client", "rotate_secret", "verify"}
  GrantSets = {{"authorization_code"}, {"client_credentials"}}
  Scoped = TRUE
  Faults = FALSE
SYMMETRY ReqSymmetry
INVARIANTS RowsKept EventsMatchChanges ResolveSound
CHECK_DEADLOCK FALSE
