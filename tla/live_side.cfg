SPECIFICATION LiveSideSpec
CONSTANTS
  Requests = {1, 2}
  MaxTurns = 1
  MaxPerUser = 1
  Policies <- LivePolicies
  People = {p1}
  Tabs = {t1}
  MaxSessions = 3
  MaxEvents = 2
  NoUser = NoUser
  Owners = {o1}
  MaxSha = 1
  IndexWorkers = {w1}
  Builds = {b1, b2}
  MaxExpiries = 1
  MaxCrashes = 1
  Nobody = Nobody
PROPERTIES RunSettles SlotsAreReleased PageLoads IndexingGoesOn
CHECK_DEADLOCK FALSE
