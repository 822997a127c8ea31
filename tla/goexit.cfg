CONSTANTS
  t1 = t1
  t2 = t2
  t3 = t3
  w1 = w1
  c1 = c1
  Tasks = {t1, t2, t3}
  Workers = {w1}
  Closers = {c1}
  None = None
  Parent <- NoParents
  QueueCapacity = 1
  Block = TRUE
  MaxExits = 1
SPECIFICATION Spec
SYMMETRY Symmetry
INVARIANTS ShutdownDrains
