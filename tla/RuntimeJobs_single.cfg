\* One server process that crashes and meets a fault.  One of the two jobs is
\* submitted: one that its client may cancel and export, or one that admins look
\* at and its client may export.
SPECIFICATION Spec
CONSTANTS
  Job = {j1, j2}
  Server = {s1}
  StaleAfter = 1
  ResumeLimit = 25
  Cancellable = {j1}
  Editable = {j1, j2}
  Watched = {}
  Viewed = {j2}
  View = {v1}
  MaxJobs = 1
  MaxClock = 3
  MaxEvents = 4
  MaxCrashes = 1
  MaxFaults = 1
INVARIANTS OutcomeIsWhole UnclaimedCancelHolds
PROPERTIES EventLogGrows OutcomeSticks
CHECK_DEADLOCK FALSE
