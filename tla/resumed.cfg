\* Senders run out and auto-resume queues every pending job again; no resume by a user.
CONSTANTS
  Campaigns = {c1}
  Jobs = {j1, j2}
  CampaignOf <- Spread
  MaxTries = 2
  None = None
  Tasks = {w1, w2}
  Requests = {r1, r2, r3}
  Outcomes = {"exhausted", "postponed", "accepted"}
  Faults = {}
  MaxDelays = 1
  ApiOps = {"create", "pause", "cancel"}
  Crons = {"auto_resume", "stuck_sweep"}
  MaxResumes = 1
  MaxCrashes = 0
SPECIFICATION Spec
SYMMETRY Interchangeable
CHECK_DEADLOCK FALSE
INVARIANTS NoDoubleSend
PROPERTIES FollowsLifecycle AutoResumeLeavesUserPauses
