\* Two servers, two jobs, a crash; every step ends within the lease.
SPECIFICATION FairSpec
CONSTANTS
  Job = {j1, j2}
  Server = {s1, s2}
  Pages = 2
  Term = 1
  Retention = 1
  ResumeLimit = 25
  Prompt = TRUE
  MaxClock = 3
  MaxCrashes = 1
  MaxFaults = 0
INVARIANTS OneWorker CountsExact HistoryBounded
PROPERTIES EndsOnce PruneSparesLive JobsEnd
CHECK_DEADLOCK FALSE
