CONSTANTS
  e1 = e1
  e2 = e2
  Entries = {e1, e2}
  None = None
  Tick = 2
  BucketCount = 1
  MaxLevels = 3
  MaxDeadline = 15
  Deadlines <- MCDeadlines
  StartTimes <- MCStartTimes
SPECIFICATION Spec
SYMMETRY Symmetry
INVARIANTS OverflowIsCoarser
