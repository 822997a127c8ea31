CONSTANTS
  t1 = t1
  t2 = t2
  c1 = c1
  Timeouts = {t1, t2}
  Closers = {c1}
  None = None
  CommandCapacity = 1
  MaxPending = 2
  Block = TRUE
  Retry = TRUE
  MaxRejects = 1
SPECIFICATION FairSpec
INVARIANTS PermitsConserved InOnePlace CancelIsFinal
PROPERTIES ImplementsService SchedulesReturn ShutdownsReturn TimeoutsEnd
