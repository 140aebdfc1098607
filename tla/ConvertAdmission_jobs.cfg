\* An organisation with two requests in flight and one with one, and
\* cancellations.
SPECIFICATION Spec
CONSTANTS
  r1 = r1
  r2 = r2
  r3 = r3
  ann = ann
  org1 = org1
  org2 = org2
  root = root
  Request = {r1, r2, r3}
  Identity = {org1, org2}
  By <- TwoOrgs
  Tier <- AllB2b
  Nobody = {}
  Admin = {}
  DailyLimit <- TwoEach
  JobLimit <- OneForOrg1
  GlobalLimit = 2
  Trial = 2
  SyncMax = 0
  LiveEnrich = TRUE
  MaxRefs = 1
  MaxDay = 1
  MaxCancels = 2
  MaxAdminJobs = 1
SYMMETRY SameSender
INVARIANTS JobsBounded GlobalBounded
CHECK_DEADLOCK FALSE
