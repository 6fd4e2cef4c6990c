\* Fair scheduling, no faults, no exhausted senders, no resume: campaigns are sent to the end.
CONSTANTS
  Campaigns = {c1}
  Jobs = {j1, j2}
  CampaignOf <- Spread
  MaxTries = 2
  None = None
  Tasks = {w1, w2}
  Requests = {r1, r2}
  Outcomes = {"rejected", "postponed", "accepted", "refused"}
  Faults = {}
  MaxDelays = 1
  ApiOps = {"create", "pause"}
  Crons = {"stuck_sweep"}
  MaxResumes = 0
  MaxCrashes = 0
SPECIFICATION FairSpec
CHECK_DEADLOCK FALSE
INVARIANTS NoStranded
PROPERTIES EverySendFinishes
