\* Logins, new senders and verifications at the same time; overlapping refreshes of one user.
CONSTANTS
  a = a
  good = good
  Users = {google, dev}
  Addresses = {a, b}
  Own <- SameAddress
  Passwords = {good, bad}
  Accepted <- OnlyGood
  Requests = {q1, q2, q3, q4}
  None = None
  Calls = {r1, r2, r3}
  Ttl = 2
  Retention = 0
  LastDay = 3
SPECIFICATION AuthSpec
CHECK_DEADLOCK FALSE
INVARIANTS TypeOK VerifiedIsReady WarmupInsertSafe UserHasSender RowsInvariant
PROPERTIES EveryRequestEnds SessionSurvives
