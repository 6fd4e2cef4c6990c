\* A resume against a send in flight.
CONSTANTS
  Campaigns = {c1}
  Jobs = {j1}
  CampaignOf <- Spread
  MaxTries = 2
  None = None
  Tasks = {w1, w2}
  Requests = {r1, r2, r3}
  Outcomes = {"accepted"}
  Faults = {}
  MaxDelays = 0
  ApiOps = {"create", "pause", "resume"}
  Crons = {}
  MaxResumes = 0
  MaxCrashes = 0
SPECIFICATION Spec
SYMMETRY Interchangeable
CHECK_DEADLOCK FALSE
INVARIANTS NoDoubleSend
