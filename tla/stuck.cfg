\* Fair scheduling with deadlocks broken and one crash: drained campaigns end.
CONSTANTS
  Campaigns = {c1}
  Jobs = {j1, j2}
  CampaignOf <- Spread
  MaxTries = 2
  None = None
  Tasks = {w1, w2}
  Requests = {r1, r2}
  Outcomes = {"exhausted", "accepted"}
  Faults = {"deadlock", "crash"}
  MaxDelays = 0
  ApiOps = {"create", "pause", "resume", "cancel"}
  Crons = {"stuck_sweep"}
  MaxResumes = 0
  MaxCrashes = 1
SPECIFICATION FairSpec
CHECK_DEADLOCK FALSE
PROPERTIES StuckCampaignEnds
