\* Five callers for two slots and a queue of one, around a breaker that opens,
\* cools and probes.
SPECIFICATION FairSpec
CONSTANTS
  Caller = {p1, p2, p3, p4, s1}
  Primary = {p1, p2, p3, p4}
  MaxActive = 2
  MaxQueue = 1
  Threshold = 2
  MaxCalls = 8
INVARIANTS SlotsExact QueueExact NoIdleSlot ProbeIsAlive
PROPERTIES CallsEnd
CHECK_DEADLOCK FALSE
