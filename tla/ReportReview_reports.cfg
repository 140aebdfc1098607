\* One report, two requests, an administrator who asks for the queue, and a
\* failure or a crash.
SPECIFICATION MCSpec
CONSTANTS
  Reports = {r1}
  q1 = q1
  q2 = q2
  Requests = {q1, q2}
  None = None
  MaxNow = 2
  MaxFaults = 1
INVARIANTS ToldIsKept DecisionsInTurn SummaryExplained
PROPERTY SummarySettles
CHECK_DEADLOCK FALSE
