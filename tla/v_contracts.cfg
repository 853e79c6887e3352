SPECIFICATION PullSideSpec
CONSTANTS
  Findings = {"f1"}
  Reviewers = {"tests"}
  ReviewerOf <- MCReviewerOf
  MaxAnalyses = 3
  MaxReports = 1
  MaxChanges = 1
  Paths = {1, 2, 3}
  TestPaths = {3}
  DirOf <- MCDirOf
  Contents <- MCContents
  Limits = {2}
  MaxNodes = 3
  Befores <- MCEndpoints
  Afters <- MCEndpoints
  Externals <- MCExternals
  MaxEndpoints = 2
  EvidenceLimit = 1
  Repos = {a}
  Shas = {s1}
  Threads = {t1}
  Requests = {q1}
  None = None
  Ttl = 1
  HistoryWindow = 1
  MaxClock = 1
  MaxOutside = 0
  Places = {p1, p2}
  Talks = {k1}
  MaxActs = 1
  NoTalk = NoTalk
  MaxReviews = 1
  MaxClicks = 0
  MaxElsewhere = 0
  Cases = {1}
  Times = {1}
  FirstItems <- MCFirstItems
  PageLimits = {1}
  MaxMoves = 0
  Symbols = {1, 2, 3, 4}
  PathOf <- MCPathOf
  NameOf <- MCNameOf
  KindOf <- MCKindOf
  LinesOf <- MCLinesOf
  Entrypoints = {}
  TestFiles = {"a.test"}
  Graphs <- MCGraphs
  Diffs <- MCDiffs
  Prices <- MCPrices
  TokenBudget = 10
  FullShare = 3
  TailShare = 1
  MaxFull = 2
  MaxTail = 1
  MaxCallees = 1
  MaxTestRefs = 1
INVARIANT LostContractsBreak
CHECK_DEADLOCK FALSE
