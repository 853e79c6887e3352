SPECIFICATION MCSpec
CONSTANTS
  r1 = r1  r2 = r2  r3 = r3
  Requests = {r1, r2, r3}
  MaxTurns = 3
  MaxPerUser = 2
  Policies <- MCPolicies
INVARIANTS GatesNeedDecisions ReportTellsPublication OneReviewPerLogin
PROPERTY ReportNeverForgets
SYMMETRY Symmetry
CHECK_DEADLOCK FALSE
