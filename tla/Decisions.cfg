SPECIFICATION MCSpec
CONSTANTS
  c1 = c1
  c2 = c2
  NoUser = NoUser
  NoCall = NoCall
  VCCalls = {c1, c2}
  Users = {u1, u2}
  Evals = {e1}
  MaxTime = 2
  Micro = 2
  EvidenceTimeout = 1
  Backends = {"memory", "postgres"}
  Modes = {TRUE, FALSE}
  Faults = {"consent", "registry", "store"}
  Outages = {"consent", "registry", "credential", "audit"}
SYMMETRY Symmetry
INVARIANTS CredentialsKept PassOnEvidence AnswersAudited EvaluationsSound
CHECK_DEADLOCK FALSE
