\* Every pool, every limit and number of recipients, slow and fast schedules.
CONSTANTS
  Senders = {a, b, c}
  MaxPool = 3
  MaxEmails = 6
  MaxLimit = 2
  NoLimit = NoLimit
  Delays = {0, 1, 6}
  HourlyLimits = {0, 1, 2}
  HourLength = 4
  None = None
SPECIFICATION PlanSpec
SYMMETRY Renamed
CHECK_DEADLOCK FALSE
INVARIANTS TypeOK LimitsRespected Balanced NobodyLeftOut ShortCutAgrees PlannedPace SenderPace DelayKept PoolUsedUp
