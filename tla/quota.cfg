CONSTANTS
  t1 = t1
  t2 = t2
  t3 = t3
  c1 = c1
  c2 = c2
  Timeouts = {t1, t2, t3}
  Closers = {c1, c2}
  None = None
  CommandCapacity = 1
  MaxPending = 1
  Block = FALSE
  Retry = FALSE
  MaxRejects = 1
SPECIFICATION Spec
SYMMETRY Symmetry
INVARIANTS TypeOK PendingExact QuotaRespected ShutdownComplete
