CONSTANTS
  t1 = t1
  t2 = t2
  t3 = t3
  w1 = w1
  w2 = w2
  c1 = c1
  c2 = c2
  Tasks = {t1, t2, t3}
  Workers = {w1, w2}
  Closers = {c1, c2}
  None = None
  Parent <- NoParents
  QueueCapacity = 1
  Block = TRUE
  MaxExits = 1
SPECIFICATION Spec
SYMMETRY Symmetry
INVARIANTS TypeOK NoSendOnClosed DepthExact ShutdownDrains
PROPERTIES ImplementsTasks
