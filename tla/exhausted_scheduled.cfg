\* The first job of a campaign finds all senders exhausted.
CONSTANTS
  Campaigns = {c1}
  Jobs = {j1}
  CampaignOf <- Spread
  MaxTries = 2
  None = None
  Tasks = {w1}
  Requests = {r1}
  Outcomes = {"exhausted"}
  Faults = {}
  MaxDelays = 0
  ApiOps = {"create"}
  Crons = {}
  MaxResumes = 0
  MaxCrashes = 0
SPECIFICATION Spec
SYMMETRY Interchangeable
CHECK_DEADLOCK FALSE
PROPERTIES ExhaustedPausesCampaign
