SPECIFICATION Spec
CONSTANTS
  t1 = t1
  t2 = t2
  c1 = c1
  c2 = c2
  Threads = {t1, t2}
  Clients = {c1, c2}
  Reader = reader
  MaxVersion = 3
  MaxOps = 1
INVARIANT PersistedMarkKept
SYMMETRY MCSymmetry
