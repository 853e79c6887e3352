SPECIFICATION PullSideSpec
CONSTANTS
  Findings = {"f1"}
  Reviewers = {"tests"}
  ReviewerOf <- MCReviewerOf
  MaxAnalyses = 3
  MaxReports = 2
  MaxChanges = 1
  Paths = {1, 2, 3}
  TestPaths = {3}
  DirOf <- MCDirOf
  Contents <- MCContents
  Limits = {2, 3}
  MaxNodes = 3
  Befores <- MCEndpoints
  Afters <- MCEndpoints
  Externals <- MCExternals
  MaxEndpoints = 2
  EvidenceLimit = 1
  Repos = {a}
  Shas = {s1}
  Threads = {t1}
  Requests = {q1, q2}
  None = None
  Ttl = 2
  HistoryWindow = 1
  MaxClock = 2
  MaxOutside = 1
  Places = {p1, p2}
  Talks = {k1, k2}
  MaxActs = 3
  NoTalk = NoTalk
  MaxReviews = 2
  MaxClicks = 3
  MaxElsewhere = 1
  Cases = {1, 2, 3}
  Times = {1, 2}
  FirstItems <- MCFirstItems
  PageLimits = {1, 2}
  MaxMoves = 1
  Symbols = {1, 2, 3, 4}
  PathOf <- MCPathOf
  NameOf <- MCNameOf
  KindOf <- MCKindOf
  LinesOf <- MCLinesOf
  Entrypoints = {}
  TestFiles = {"a.test"}
  Graphs <- MCGraphs
  Diffs <- MCDiffs
  Prices <- MCPrices
  TokenBudget = 10
  FullShare = 3
  TailShare = 1
  MaxFull = 2
  MaxTail = 1
  MaxCallees = 1
  MaxTestRefs = 1
INVARIANTS
  CasesFollowReports
  GraphTellsFiles ContextIsSound
  ChangesAreExact
  ChatReadsAllowed
  PageShowsItsSubject PageAnswersWhatItShows
  EveryFindingIsListedOnce
PROPERTIES
  AcknowledgedIsNotPosted
SYMMETRY Symmetry
CHECK_DEADLOCK FALSE
