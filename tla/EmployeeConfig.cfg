SPECIFICATION FairSpec
CONSTANTS
  Managers = {m1, m2}
  Callers = {c1}
  Workspaces = {w1}
  Dirs = {d1, d2}
  None = None
  Unsettled = Unsettled
  MaxChanges = 2
  MaxCalls = 1
  MaxCrashes = 1
INVARIANTS TypeOK ConfirmedChangeLasts RunsOnOneConfiguration
PROPERTIES NoCallAfterRevocation GrantedOnlyWhenListed ChangeEnds
