CONSTANTS
  e1 = e1
  e2 = e2
  e3 = e3
  Entries = {e1, e2, e3}
  None = None
  Tick = 2
  BucketCount = 2
  MaxLevels = 3
  MaxDeadline = 15
  Deadlines <- MCDeadlines
  StartTimes <- MCStartTimes
SPECIFICATION Spec
SYMMETRY Symmetry
INVARIANTS TypeOK SlotOnTime QueueIsExact ClocksNested NeverEarly
PROPERTIES CascadeDescends ImplementsLine
