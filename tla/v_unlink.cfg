SPECIFICATION InstallSpec
CONSTANTS
  Users = {u1, u2}
  Repos = {r1, r2}
  Calls = {c1, c2}
  None = None
  MaxAccountChanges = 1
PROPERTY UnlinkRevokesTheLink
CHECK_DEADLOCK FALSE
