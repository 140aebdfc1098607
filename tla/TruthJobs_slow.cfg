\* Two servers whose pages may outlast the lease, a crash and two faults; a prune
\* keeps nothing, so that a worker can find its row gone.
SPECIFICATION Spec
CONSTANTS
  Job = {j1}
  Server = {s1, s2}
  Pages = 2
  Term = 1
  Retention = 0
  ResumeLimit = 25
  Prompt = FALSE
  MaxClock = 4
  MaxCrashes = 1
  MaxFaults = 2
INVARIANTS PagesApplied
CHECK_DEADLOCK FALSE
