CONSTANTS
  e1 = e1
  e2 = e2
  Entries = {e1, e2}
  None = None
  Delays <- MCDelays
  Starts <- MCStarts
  Jumps <- MCJumps
  Tick = 2
  BucketCount = 2
  RetryDelay = 1
  Hour = 3
  MaxJumps = 1
  MaxLag = 1
  MaxRejects = 1
  MaxTime = 4
  EndTime = 13
  MaxLevels = 3
SPECIFICATION FairSpec
INVARIANTS TypeOK NeverOversleeps RefusedWaits
PROPERTIES TimeoutsEnd Stops
