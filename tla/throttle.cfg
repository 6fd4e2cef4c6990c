\* Two tasks, two senders, all limits in play: a day of two hours of two minutes, and
\* the first minute of the next one.
CONSTANTS
  a = a
  b = b
  None = None
  Senders = {a, b}
  FirstSender = a
  Order <- InOrder
  PerMinute <- One
  PerHour <- Three
  PerDay <- Two
  WarmupLimits <- OneAtFirst
  CampaignHourly = 1
  Mails = {m1, m2, m3}
  Assigned <- AllToA
  Tasks = {w1, w2}
  Outcomes = {"accepted", "refused"}
  HourLength = 2
  DayLength = 4
  CooldownLength = 2
  MaxMinute = 4
SPECIFICATION Spec
SYMMETRY Interchangeable
CHECK_DEADLOCK FALSE
INVARIANTS TypeOK CounterOvershoot DayOvershoot WokenCanSend
