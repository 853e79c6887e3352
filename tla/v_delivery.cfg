SPECIFICATION LiveSpec
CONSTANTS
  Repos = {r1}
  Numbers = {n1}
  MaxSha = 2
  Configs = {c1}
  Handlers = {h1}
  Workers = {w1}
  Attempts = 2
PROPERTY DeliveryIsProcessed
CHECK_DEADLOCK FALSE
