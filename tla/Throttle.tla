------------------------------ MODULE Throttle ------------------------------
(***************************************************************************)
(* The limits of the senders of one campaign (application/throttling.py)   *)
(* as the send tasks use them: checked before the mail is handed over,     *)
(* counted after it, by read-modify-write of the sender's counter and      *)
(* cooldown rows, in the task's own transaction.  Pausing the campaign     *)
(* when no sender is left, and auto-resume's decision to wake it, are here *)
(* too; what they do to the jobs is Delivery's.                            *)
(*                                                                         *)
(* Time is in minutes; an hour and a day are a few of them.  A mail whose  *)
(* check fails is looked at again later: the retry is Delivery's.          *)
(***************************************************************************)
EXTENDS Integers, Sequences, FiniteSets, FiniteSetsExt, ReadCommitted

CONSTANTS
  Senders,         \* the campaign's pool
  Order,           \* Order[s]: rotation_order
  PerMinute, PerHour, PerDay,  \* what provider and sender settings allow
  WarmupLimits,    \* WarmupLimits[s]: daily limits since minute 0, <<>> if none
  CampaignHourly,  \* the campaign's hourly limit; 0 if int() made it of a fraction
  Mails,           \* its jobs
  Assigned,        \* Assigned[m]: the job's sender_id, or None
  FirstSender,     \* the campaign's own sender_id
  Tasks,
  Outcomes,        \* "accepted", "refused"
  HourLength, DayLength, CooldownLength,  \* in minutes
  MaxMinute,       \* bound: the last minute
  None

ASSUME PoolAssumption ==
  /\ None \notin Senders
  /\ FirstSender \in Senders /\ Assigned \in [Mails -> Senders \cup {None}]
  /\ Order \in [Senders -> Nat]
ASSUME LimitsAssumption ==
  /\ {PerMinute, PerHour, PerDay} \subseteq [Senders -> Nat \ {0}]
  /\ WarmupLimits \in [Senders -> Seq(Nat)]
  /\ CampaignHourly \in Nat
ASSUME TimeAssumption ==
  /\ {HourLength, DayLength, CooldownLength} \subseteq Nat \ {0}
  /\ MaxMinute \in Nat
ASSUME TaskAssumption == Tasks # {} /\ Free \notin Tasks
ASSUME FiniteAssumption == IsFiniteSet(Mails) /\ IsFiniteSet(Tasks)

VARIABLES
  now,       \* the minute
  counters,  \* table of rate_limit_counters: <<sender, minute>> -> count, 0 if no row
  set_back,  \* history: the counters a commit has taken back to a lower count
  cooldown,  \* table of sender_cooldowns, NoRow if there is none
  mail,      \* mail[m]: the job's committed status, when it ended, its sender_id
  paused,    \* the campaign is paused for exhausted senders
  work,      \* work[w]: a send task
  wake       \* the auto-resume run: the clock reading it started with

records == <<counters, cooldown, set_back>>
vars == <<now, records, mail, paused, work, wake>>

CONSECUTIVE_ERROR_LIMIT == 3
Minutes == 0..MaxMinute
HourOf(t) == t \div HourLength
DayOf(t) == t \div DayLength
Cooldowns == [errors : Nat, until : Nat \cup {None}, exists : BOOLEAN]
NoRow == [errors |-> 0, until |-> None, exists |-> FALSE]
Row(errors, until) == [errors |-> errors, until |-> until, exists |-> TRUE]

Idle == [pc |-> "idle", mail |-> None, ok |-> FALSE, at |-> None,
         window |-> None, base |-> None, new |-> None]

Init ==
  /\ now = 0
  /\ counters = Committed([k \in Senders \X Minutes |-> 0])
  /\ cooldown = Committed([s \in Senders |-> NoRow])
  /\ set_back = {}
  /\ mail = [m \in Mails |-> [status |-> "PENDING", at |-> None, sender |-> Assigned[m]]]
  /\ paused = FALSE
  /\ work = [w \in Tasks |-> Idle]
  /\ wake = None
-----------------------------------------------------------------------------
(***************************************************************************)
(* The limits, as a session w computes them at minute t.                   *)
(***************************************************************************)
SenderOf(m) == IF mail[m].sender = None THEN FirstSender ELSE mail[m].sender

\* Every job is created with the campaign, at minute 0: recent_outcomes looks
\* at the jobs created during the last hour.
Recent(s, t, S) ==
  IF t <= HourLength THEN {m \in Mails : mail[m].sender = s /\ mail[m].status \in S} ELSE {}

\* error_rate > 0.1, or the bounce rate among so few mails, halves the limits.
is_throttled(s, t) ==
  10 * Cardinality(Recent(s, t, {"FAILED"})) > Cardinality(Recent(s, t, {"SENT", "FAILED"}))

\* effective_limits never goes below one a minute, an hour or a day.
Slowed(limit, s, t) == Max({1, IF is_throttled(s, t) THEN limit \div 2 ELSE limit})

per_minute(s, t) == Slowed(PerMinute[s], s, t)
per_hour(s, t) == Slowed(PerHour[s], s, t)

warmup_limits(s, t) ==
  IF DayOf(t) < Len(WarmupLimits[s]) THEN {WarmupLimits[s][DayOf(t) + 1]} ELSE {}

per_day_warm(s, t) == Slowed(PerDay[s], s, t)  \* mutant: warm-up is not looked at

per_day(s, t) == Slowed(Min({PerDay[s]} \cup warmup_limits(s, t)), s, t)

minute_count(w, s, t) == View(counters, w, <<s, t>>)
hour_count(w, s, t) ==
  MapThenSumSet(LAMBDA u : View(counters, w, <<s, u>>),
                {u \in Minutes : HourOf(u) = HourOf(t)})

sent_count_today(s, t) ==
  Cardinality({m \in Mails : /\ mail[m].sender = s /\ mail[m].status = "SENT"
                             /\ DayOf(mail[m].at) = DayOf(t)})

has_daily_capacity(s, t) == sent_count_today(s, t) < per_day(s, t)

InCooldown(w, s, t) ==
  View(cooldown, w, s).until # None /\ View(cooldown, w, s).until > t

Hourly_unset(limit) == limit  \* mutant: the campaign's limit is not passed on

\* min(limit, campaign_hourly_limit or limit): a campaign's 0 is no limit.
Hourly(limit) == IF CampaignHourly = 0 THEN limit ELSE Min({limit, CampaignHourly})

can_send(w, s, t) ==
  /\ ~InCooldown(w, s, t)
  /\ minute_count(w, s, t) < per_minute(s, t)
  /\ hour_count(w, s, t) < Hourly(per_hour(s, t))
  /\ sent_count_today(s, t) < per_day(s, t)

\* find_available_sender: the first of the pool with capacity left today.
Available(t) ==
  {s \in Senders : /\ has_daily_capacity(s, t)
                   /\ \A u \in Senders : Order[u] < Order[s] => ~has_daily_capacity(u, t)}

next_midnight(t) == (DayOf(t) + 1) * DayLength

\* When sender s can be used again, as earliest_resume_time sees it.
resume_time_hourly(w, s, t) ==  \* mutant: the day's limit is not looked at
  CASE InCooldown(w, s, t) -> View(cooldown, w, s).until
    [] OTHER ->
         IF hour_count(w, s, t) >= per_hour(s, t) THEN (HourOf(t) + 1) * HourLength
         ELSE IF minute_count(w, s, t) >= per_minute(s, t) THEN t + 1 ELSE t

resume_time(w, s, t) ==
  CASE InCooldown(w, s, t) -> View(cooldown, w, s).until
    [] ~InCooldown(w, s, t) /\ ~has_daily_capacity(s, t) -> next_midnight(t)
    [] OTHER ->
         IF hour_count(w, s, t) >= per_hour(s, t) THEN (HourOf(t) + 1) * HourLength
         ELSE IF minute_count(w, s, t) >= per_minute(s, t) THEN t + 1 ELSE t

earliest_resume_time(w, t) ==
  Min({t + DayLength} \cup {resume_time(w, s, t) : s \in Senders})
-----------------------------------------------------------------------------
(***************************************************************************)
(* One send task.                                                          *)
(***************************************************************************)
Step(w, pc) == work' = [work EXCEPT ![w].pc = pc]

Untaken(m) == mail[m].status = "PENDING" /\ \A w \in Tasks : work[w].mail # m

Check(w, m) ==
  /\ work[w].pc = "idle" /\ Untaken(m) /\ ~paused
  /\ has_daily_capacity(SenderOf(m), now) /\ can_send(w, SenderOf(m), now)
  /\ work' = [work EXCEPT ![w] = [Idle EXCEPT !.pc = "smtp", !.mail = m]]
  /\ UNCHANGED <<now, records, mail, paused, wake>>

\* The sender is exhausted: the job goes to another one of the pool ...
Reassign(w, m, s) ==
  /\ work[w].pc = "idle" /\ Untaken(m) /\ ~paused
  /\ ~has_daily_capacity(SenderOf(m), now) /\ s \in Available(now)
  /\ mail' = [mail EXCEPT ![m].sender = s]
  /\ UNCHANGED <<now, records, paused, work, wake>>

\* ... or, when all of them are, the campaign is paused.
PauseExhausted(w, m) ==
  /\ work[w].pc = "idle" /\ Untaken(m) /\ ~paused
  /\ ~has_daily_capacity(SenderOf(m), now) /\ Available(now) = {}
  /\ paused' = TRUE
  /\ UNCHANGED <<now, records, mail, work, wake>>

HandOver(w, outcome) ==
  /\ work[w].pc = "smtp" /\ outcome \in Outcomes
  /\ work' = [work EXCEPT ![w] =
       [@ EXCEPT !.pc = "count", !.ok = (outcome = "accepted"), !.at = now]]
  /\ UNCHANGED <<now, records, mail, paused, wake>>
-----------------------------------------------------------------------------
(***************************************************************************)
(* record_send_result: increment reads the counter of the current minute,  *)
(* and writes the count it read plus one, or inserts the row.              *)
(***************************************************************************)
Counter(w) == <<SenderOf(work[w].mail), work[w].window>>

ReadCounter(w) ==
  /\ work[w].pc = "count"
  /\ work' = [work EXCEPT ![w] =
       [@ EXCEPT !.pc = "increment", !.window = now,
                 !.base = View(counters, w, <<SenderOf(work[w].mail), now>>)]]
  /\ UNCHANGED <<now, records, mail, paused, wake>>

\* A row somebody else inserted in the meantime.
Duplicate(w) ==
  \/ /\ work[w].pc = "increment" /\ work[w].base = 0
     /\ counters.lock[Counter(w)] = Free /\ counters.live[Counter(w)] # 0
  \/ /\ work[w].pc = "upsert" /\ ~work[w].base.exists
     /\ cooldown.lock[SenderOf(work[w].mail)] = Free
     /\ cooldown.live[SenderOf(work[w].mail)].exists

WriteCounter(w) ==
  /\ work[w].pc = "increment" /\ ~Duplicate(w)
  /\ ~Locked(counters, w, Counter(w))
  /\ counters' = Put(counters, w, Counter(w), work[w].base + 1)
  /\ Step(w, "result")
  /\ UNCHANGED <<now, cooldown, set_back, mail, paused, wake>>

(***************************************************************************)
(* record_error adds one to the errors it read, and starts a cooldown at   *)
(* the third; reset_errors forgets both.  upsert reads the row once more.  *)
(***************************************************************************)
ReadErrors_forgiving(w) ==  \* mutant: a success takes one error back
  /\ work[w].pc = "result"
  /\ LET row == View(cooldown, w, SenderOf(work[w].mail))
         count == IF work[w].ok THEN row.errors - 1 ELSE row.errors + 1
     IN work' = [work EXCEPT ![w] = [@ EXCEPT !.pc = "select", !.new = Row(count, row.until)]]
  /\ UNCHANGED <<now, records, mail, paused, wake>>

ReadErrors(w) ==
  /\ work[w].pc = "result"
  /\ LET row == View(cooldown, w, SenderOf(work[w].mail))
         count == row.errors + 1
         until == IF count >= CONSECUTIVE_ERROR_LIMIT THEN now + CooldownLength ELSE row.until
     IN work' = [work EXCEPT ![w] =
          [@ EXCEPT !.pc = "select",
                    !.new = IF work[w].ok THEN Row(0, None) ELSE Row(count, until)]]
  /\ UNCHANGED <<now, records, mail, paused, wake>>

SelectCooldown(w) ==
  /\ work[w].pc = "select"
  /\ work' = [work EXCEPT ![w] =
       [@ EXCEPT !.pc = "upsert", !.base = View(cooldown, w, SenderOf(work[w].mail))]]
  /\ UNCHANGED <<now, records, mail, paused, wake>>

WriteCooldown(w) ==
  /\ work[w].pc = "upsert" /\ ~Duplicate(w)
  /\ LET s == SenderOf(work[w].mail) IN
     /\ ~Locked(cooldown, w, s)
     /\ cooldown' = Put(cooldown, w, s,
          Changed(View(cooldown, w, s), work[w].base, work[w].new))
  /\ Step(w, "commit")
  /\ UNCHANGED <<now, counters, set_back, mail, paused, wake>>

End(w, status) ==
  /\ mail' = [mail EXCEPT ![work[w].mail] =
       [@ EXCEPT !.status = status, !.at = work[w].at]]
  /\ work' = [work EXCEPT ![w] = Idle]
  /\ UNCHANGED <<now, paused, wake>>

\* The count a task read may be an old one by now: others have counted further.
CommitWork(w) ==
  /\ work[w].pc = "commit"
  /\ counters' = Publish(counters, w) /\ cooldown' = Publish(cooldown, w)
  /\ set_back' = set_back \cup
       {k \in Senders \X Minutes : counters.lock[k] = w /\ counters.next[k] < counters.live[k]}
  /\ End(w, IF work[w].ok THEN "SENT" ELSE "FAILED")

\* The unique constraint refuses the row: the task ends without a commit, its
\* mail without a result, and nobody will look at the job again.
RecordFails(w) ==
  /\ Duplicate(w)
  /\ counters' = Discard(counters, {w}) /\ cooldown' = Discard(cooldown, {w})
  /\ End(w, "LOST") /\ UNCHANGED set_back
-----------------------------------------------------------------------------
(***************************************************************************)
(* AutoResumeUseCase.run reads the clock when it starts; it skips the      *)
(* campaign if its earliest resume time, computed from a later reading, is *)
(* still ahead of the first one.                                           *)
(***************************************************************************)
StartWake ==
  /\ wake = None /\ paused
  /\ wake' = now
  /\ UNCHANGED <<now, records, mail, paused, work>>

Wake ==
  /\ wake # None
  /\ paused' = (earliest_resume_time("auto_resume", now) > wake)
  /\ wake' = None
  /\ UNCHANGED <<now, records, mail, work>>

Tick ==
  /\ now < MaxMinute
  /\ now' = now + 1
  /\ UNCHANGED <<records, mail, paused, work, wake>>

WorkStep(w) ==
  \/ \E m \in Mails : Check(w, m) \/ PauseExhausted(w, m) \/ \E s \in Senders : Reassign(w, m, s)
  \/ \E outcome \in Outcomes : HandOver(w, outcome)
  \/ ReadCounter(w) \/ WriteCounter(w)
  \/ ReadErrors(w) \/ SelectCooldown(w) \/ WriteCooldown(w)
  \/ CommitWork(w) \/ RecordFails(w)

Next == StartWake \/ Wake \/ Tick \/ \E w \in Tasks : WorkStep(w)

Spec == Init /\ [][Next]_vars
-----------------------------------------------------------------------------
TypeOK ==
  /\ now \in Minutes
  /\ counters \in Tables(Senders \X Minutes, Nat, Tasks)
  /\ cooldown \in Tables(Senders, Cooldowns, Tasks)
  /\ \A m \in Mails : /\ mail[m].status \in {"PENDING", "SENT", "FAILED", "LOST"}
                      /\ mail[m].at \in Minutes \cup {None}
                      /\ mail[m].sender \in Senders \cup {None}
  /\ paused \in BOOLEAN
  /\ \A w \in Tasks : work[w].mail \in Mails \cup {None}
  /\ wake \in Minutes \cup {None}

\* Tasks that passed the check together can take the counter of a minute past its
\* limit by one less than there are tasks and no further: as long as no commit has
\* taken the counter back, for then its checks pass again.
MinuteOvershoot(s, t) ==
  <<s, t>> \notin set_back => counters.live[<<s, t>>] < PerMinute[s] + Cardinality(Tasks)

\* The counters of an hour stay as near to its limits, the campaign's included.
HourOvershoot(s, t) ==
  LET hour == {u \in Minutes : HourOf(u) = HourOf(t)}
  IN ({s} \X hour) \cap set_back = {} =>
       \A limit \in {PerHour[s], CampaignHourly} \ {0} :
         MapThenSumSet(LAMBDA u : counters.live[<<s, u>>], hour) < limit + Cardinality(Tasks)

\* Both, for every sender and every minute.
CounterOvershoot ==
  \A s \in Senders, t \in Minutes : MinuteOvershoot(s, t) /\ HourOvershoot(s, t)

\* What sender s may send on the day of minute t: its limit, or its warm-up's limit
\* for that day, but at least one mail.
DayLimit(s, t) == Max({1, Min({PerDay[s]} \cup warmup_limits(s, t))})

\* The same for the day, in a warm-up as well: what the SENT rows of a sender show,
\* mails included whose task passed the check before midnight.
DayOvershoot ==
  \A s \in Senders, t \in Minutes : sent_count_today(s, t) < DayLimit(s, t) + Cardinality(Tasks)

\* Auto-resume never wakes a campaign whose next job would only pause it again:
\* when the earliest resume time has come, some sender has capacity today.
WokenCanSend ==
  wake # None /\ earliest_resume_time("auto_resume", now) <= now => Available(now) # {}

\* A run of auto-resume that finds a sender with capacity resumes the campaign
\* (docs/architecture.md: paused campaigns "resume when limits reset").
ResumesWhenPossible ==
  [][wake # None /\ wake' = None /\ (\E s \in Senders : can_send("auto_resume", s, now))
       => ~paused']_vars
=============================================================================
