\* One identity with two requests in flight, and an administrator, on two days.
SPECIFICATION Spec
CONSTANTS
  r1 = r1
  r2 = r2
  r3 = r3
  ann = ann
  org1 = org1
  org2 = org2
  root = root
  Request = {r1, r2, r3}
  Identity = {ann, root}
  By <- TwoOfAnn
  Tier <- AllFree
  Nobody = {}
  Admin = {root}
  DailyLimit <- TwoEach
  JobLimit <- OneEach
  GlobalLimit = 1
  Trial = 2
  SyncMax = 1
  LiveEnrich = TRUE
  MaxRefs = 2
  MaxDay = 2
  MaxCancels = 0
  MaxAdminJobs = 1
SYMMETRY SameSender
INVARIANTS DailyBounded TrialBounded
CHECK_DEADLOCK FALSE
