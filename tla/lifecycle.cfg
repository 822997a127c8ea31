CONSTANTS
  m1 = m1
  m2 = m2
  s1 = s1
  c1 = c1
  x1 = x1
  Timers = {m1, m2}
  Shared = {s1}
  Callers = {c1}
  Tasks = {x1}
  Nil = Nil
  Invalid = Invalid
  Processors = 1
  OptionLists <- MCOptionLists
  Specs <- MCSpecs
SPECIFICATION FairSpec
INVARIANTS TypeOK OptionsHonoured FailedNewLeavesNothing OwnBossAccepts ShutdownComplete PoolsClosedAnyway
PROPERTIES ImplementsTasks NewReturns JobsRun ShutdownsReturn
CHECK_DEADLOCK FALSE
