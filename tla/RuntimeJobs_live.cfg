\* Two jobs on one server that may crash; the client of one polls, and admins
\* look at it.
SPECIFICATION FairSpec
CONSTANTS
  Job = {j1, j2}
  Server = {s1}
  StaleAfter = 1
  ResumeLimit = 25
  Cancellable = {}
  Editable = {}
  Watched = {j1}
  Viewed = {j1}
  View = {v1}
  MaxJobs = 2
  MaxClock = 1
  MaxEvents = 0
  MaxCrashes = 1
  MaxFaults = 0
INVARIANTS ToldCompletedIsKept
PROPERTIES PendingRecovers JobsSettle
CHECK_DEADLOCK FALSE
