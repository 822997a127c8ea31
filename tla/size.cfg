CONSTANTS
  t1 = t1
  t2 = t2
  c1 = c1
  c2 = c2
  Timeouts = {t1, t2}
  Closers = {c1, c2}
  None = None
  CommandCapacity = 1
  MaxPending = 1
  Block = TRUE
  Retry = TRUE
  MaxRejects = 1
SPECIFICATION Spec
SYMMETRY Symmetry
INVARIANTS SizeWithinQuota
