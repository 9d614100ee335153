SPECIFICATION Spec
CONSTANTS
  c1 = c1
  c2 = c2
  Commands = {c1, c2}
  DefaultPort = 8765
  Ports = {8765, 8766}
  MaxPid = 3
  MaxOps = 3
  MaxDeaths = 1
INVARIANTS TypeOK TokenKept PidFileFollows
SYMMETRY MCSymmetry
CHECK_DEADLOCK FALSE
