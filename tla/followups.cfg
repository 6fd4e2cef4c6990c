\* Two scheduler runs, the sweep and two tasks; two requests about the campaign;
\* one crash.
CONSTANTS
  Recipients = {r1}
  LastStep = 1
  MaxCopies = 2
  Schedulers = {s1, s2}
  Sweepers = {sw}
  Tasks = {t1, t2}
  Requests = {q1, q2}
  SequenceOps = {"pause_campaign", "resume_campaign", "cancel_campaign"}
  Outcomes = {"accepted"}
  Faults = {"early", "lock"}
  MaxCrashes = 1
  None = None
SPECIFICATION Spec
SYMMETRY Interchangeable
CHECK_DEADLOCK FALSE
INVARIANTS TypeOK CompletedIsOver CancelledIsOver RowFollowsJobs
PROPERTIES StepsInOrder CancelStopsSequence
