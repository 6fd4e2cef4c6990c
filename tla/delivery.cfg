\* Three requests of any kind against two tasks, with crashes, failing statements and failing records.
CONSTANTS
  Campaigns = {c1}
  Jobs = {j1, j2}
  CampaignOf <- Spread
  MaxTries = 2
  None = None
  Tasks = {w1, w2}
  Requests = {r1, r2, r3}
  Outcomes = {"exhausted", "accepted"}
  Faults = {"crash", "lock", "record"}
  MaxDelays = 0
  ApiOps = {"create", "pause", "resume", "cancel", "star"}
  Crons = {"stuck_sweep"}
  MaxResumes = 0
  MaxCrashes = 1
SPECIFICATION Spec
SYMMETRY Interchangeable
CHECK_DEADLOCK FALSE
INVARIANTS TypeOK SendingNeverCommitted ClaimInvariant EverySendAccounted EndedDrained
PROPERTIES CancelStopsSending
