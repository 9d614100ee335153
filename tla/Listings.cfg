SPECIFICATION Spec
CONSTANTS
  a = a
  b = b
  p = p
  q = q
  Ids = {a, b}
  Projects = {p, q}
  NoProject = none
  Paths = {1, 2, 3}
  NoId = NoId
  Worlds <- MCWorlds
  Limits = {0, 1, 2}
  PageSize = 2
  MaxAt = 5
  MaxListPages = 3
  MaxProjectPages = 2
INVARIANTS TypeOK NothingSkipped AnswerIsMerged IndexIsRight
PROPERTIES CallEnds
