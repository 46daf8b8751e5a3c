SPECIFICATION MCSpec
CONSTANTS
  e1 = e1
  e2 = e2
  e3 = e3
  e4 = e4
  login = login
  r1 = r1
  r2 = r2
  Events = {e1, e2, e3, e4}
  Actions = {login}
  Threshold = 2
  Cooldown = 1
  MaxTime = 2
  Operated = TRUE
  StoreSick = TRUE
INVARIANTS NothingLost
PROPERTIES CooldownHolds QueueSpec PublishingEnds
CHECK_DEADLOCK FALSE
