SPECIFICATION MCSpec
CONSTANTS
  r1 = r1
  r2 = r2
  k1 = k1
  k2 = k2
  k3 = k3
  Req = {r1, r2, r3}
  NoReq = NoReq
  SecondLimit = 1
  HourLimit = 2
  HourLen = 2
  CountCap = 9
  Backend = "memory"
  MaxLag = 0
  MaxTime = 6
  Faults = TRUE
SYMMETRY Symmetry
INVARIANTS ThrottleBounded AdmissionsBounded CountsKept
PROPERTIES LockNotShortened
CHECK_DEADLOCK FALSE
