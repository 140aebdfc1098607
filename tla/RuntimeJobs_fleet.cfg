\* Two overlapping servers and one job; a server crashes once.
SPECIFICATION Spec
CONSTANTS
  Job = {j1}
  Server = {s1, s2}
  StaleAfter = 1
  ResumeLimit = 25
  Cancellable = {}
  Editable = {}
  Watched = {}
  Viewed = {}
  View = {}
  MaxJobs = 1
  MaxClock = 4
  MaxEvents = 0
  MaxCrashes = 1
  MaxFaults = 0
SYMMETRY ServerSymmetry
INVARIANTS ClaimsSpaced
PROPERTIES ClaimIsLease
CHECK_DEADLOCK FALSE
