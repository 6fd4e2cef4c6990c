\* One request against the scheduler, fair scheduling: every sequence comes to its end, in order.
CONSTANTS
  Recipients = {r1, r2}
  LastStep = 1
  MaxCopies = 2
  Schedulers = {s1}
  Sweepers = {}
  Tasks = {t1}
  Requests = {q1}
  SequenceOps = {"pause_all", "replied", "pause", "stop", "pause_campaign"}
  Outcomes = {"accepted", "refused"}
  Faults = {}
  MaxCrashes = 0
  None = None
SPECIFICATION FairSpec
CHECK_DEADLOCK FALSE
PROPERTIES SequenceEnds StepsInOrder
