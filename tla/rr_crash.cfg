SPECIFICATION CoreCrashSpec
CONSTANTS
  Repos = {r1}
  Numbers = {n1}
  MaxSha = 1
  Configs = {c1}
  Handlers = {h1}
  Workers = {w1, w2}
  Attempts = 2
PROPERTIES
  ImplementsLifecycle
SYMMETRY Symmetry
CHECK_DEADLOCK FALSE
