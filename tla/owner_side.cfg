SPECIFICATION OwnerSideSpec
CONSTANTS
  Users = {u1, u2}
  Repos = {r1, r2}
  Calls = {c1, c2}
  None = None
  MaxAccountChanges = 1
  People = {p1}
  Tabs = {c1, c2}
  MaxSessions = 3
  MaxEvents = 1
  NoUser = NoUser
  Values = {1, 2}
  Readers = {c1, c2}
  NoSecret = NoSecret
  MaxWrites = 3
  Owners = {o1}
  MaxSha = 2
  IndexWorkers = {w1}
  Builds = {c1, c2}
  MaxExpiries = 1
  MaxCrashes = 1
  Nobody = Nobody
  Repositories = {"a", "b"}
  Commits = {"c1", "c2"}
  Symbols = {"s", "u"}
  Nil = Nil
  Graph <- MCGraph
  ToolCalls <- MCToolCalls
  MaxTurns = 2
  CallsPerTurn = 2
  MaxRepeated = 2
  MaxCited = 2
  MaxContext = 3
  Sizes = {1, 2}
  MaxWorkspaces = 1
  MaxMoves = 1
INVARIANTS
  EnabledByItsOwner LoneSyncMirrorsGithub
  OneLiveTokenPerFamily
  LastFourTellsKey
  AnswersAreGrounded
PROPERTIES
  OwnerNeverPasses OnlyALinkRevives
  EndedFamilyStaysEnded
  OnlyItsRebuildDamages
SYMMETRY Symmetry
CHECK_DEADLOCK FALSE
