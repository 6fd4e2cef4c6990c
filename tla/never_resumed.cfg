\* Auto-resume compares a later clock reading with an earlier one.
CONSTANTS
  a = a
  b = b
  None = None
  Senders = {a}
  FirstSender = a
  Order <- InOrder
  PerMinute <- Two
  PerHour <- Many
  PerDay <- One
  WarmupLimits <- NoWarmup
  CampaignHourly = 9
  Mails = {m1, m2}
  Assigned <- AllToA
  Tasks = {w1}
  Outcomes = {"accepted"}
  HourLength = 1
  DayLength = 1
  CooldownLength = 2
  MaxMinute = 3
SPECIFICATION Spec
SYMMETRY Interchangeable
CHECK_DEADLOCK FALSE
PROPERTIES ResumesWhenPossible
