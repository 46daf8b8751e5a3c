SPECIFICATION MCSpec
CONSTANTS
  s1 = s1
  s2 = s2
  ann = ann
  c1 = c1
  c2 = c2
  j1 = j1
  j2 = j2
  j3 = j3
  j4 = j4
  n1 = n1
  n2 = n2
  n3 = n3
  r1 = r1
  r2 = r2
  p1 = p1
  p2 = p2
  p3 = p3
  p4 = p4
  ghost = ghost
  Session = {s1, s2}
  User = {ann}
  Client = {c1, c2}
  Ops = {"create", "execute", "list", "delete"}
  Faults = {"connection"}
  Second = 1
  SessionTTL = 2
  DefaultTTL = 3
  Slack = 1
  maxSessionsPerUser = 1
  Latency = 0
  MaxTime = 3
SYMMETRY Symmetry
INVARIANTS UnlistsOnlyGone ListsForget RecordsKept StalenessBounded
PROPERTIES StoreSpec EvidenceSound ContractKept
CHECK_DEADLOCK FALSE
