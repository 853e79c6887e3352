SPECIFICATION TroubleSpec
CONSTANTS
  Repos = {r1}
  Numbers = {n1}
  MaxSha = 1
  Configs = {c1, c2}
  Handlers = {h1, h2}
  Workers = {w1}
  Attempts = 2
  Runs = {h1, h2}
  Months = 2
  Amount = 2
  Limit = 3
  Costs = {1}
INVARIANTS
  TypeOK CommittedWithinLimit
PROPERTIES
  VerdictOnlyWorsens
SYMMETRY Symmetry
CHECK_DEADLOCK FALSE
