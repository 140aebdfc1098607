\* The warm-up and two conversions; six threads are enough to resize the pool of
\* three or to run three threads beside it.  One part throws or one thread dies.
SPECIFICATION FairSpec
CONSTANTS
  Key <- Keys
  BatchSize = 2
  MaxConcurrency = 3
  r1 = r1
  r2 = r2
  Request = {r1, r2}
  Warm = Warm
  Input <- Inputs
  Sample <- Sampled
  MinRefs = 3
  MaxThreads = 6
  MaxFaults = 1
INVARIANTS Converted ScheduleSound PoolHeld NoThreadLeaks
PROPERTIES OwnFailures RequestsEnd
CHECK_DEADLOCK FALSE
