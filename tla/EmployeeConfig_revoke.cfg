SPECIFICATION LocalSpec
CONSTANTS
  Managers = {m1, m2}
  Callers = {c1}
  Workspaces = {w1, w2}
  Dirs = {d1}
  None = None
  Unsettled = Unsettled
  MaxChanges = 2
  MaxCalls = 1
  MaxCrashes = 0
PROPERTY RevocationNeedsNoNetwork
