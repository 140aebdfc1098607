\* A server crashes while a job is processing, and starts again at once.
SPECIFICATION FairSpec
CONSTANTS
  Job = {j1}
  Server = {s1}
  StaleAfter = 1
  ResumeLimit = 25
  Cancellable = {}
  Editable = {}
  Watched = {}
  Viewed = {}
  View = {}
  MaxJobs = 1
  MaxClock = 3
  MaxEvents = 3
  MaxCrashes = 1
  MaxFaults = 0
PROPERTIES JobsRecover
CHECK_DEADLOCK FALSE
