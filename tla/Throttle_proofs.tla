--------------------------- MODULE Throttle_proofs ---------------------------
(***************************************************************************)
(* Theorems about the limits of application/throttling.py, for every pool, *)
(* every limit and any number of tasks: how far the limit of a minute, an  *)
(* hour or a day can be passed, and that a campaign is woken only when it  *)
(* can send.                                                               *)
(***************************************************************************)
EXTENDS Throttle, ReadCommitted_proofs, SumTheorems

(***************************************************************************)
(* The inductive invariants behind CounterOvershoot and DayOvershoot: what *)
(* is counted already and what the tasks under way may still count do not  *)
(* exceed the limit by as much as there are tasks.                         *)
(***************************************************************************)

\* From the write of the counter to the commit a task holds the counter's row.
Counted == {"result", "select", "upsert", "commit"}

\* What a task keeps at each of its statements.
WorkFits(w) ==
  /\ work[w].pc # "idle" => work[w].mail \in Mails
  /\ work[w].pc \notin {"idle", "smtp"} => work[w].at \in 0..now
  /\ work[w].pc \in {"increment"} \cup Counted => work[w].window \in 0..now
  /\ work[w].pc = "increment" => work[w].base \in Nat
  /\ work[w].pc \in {"select", "upsert"} => work[w].new \in Cooldowns
  /\ work[w].pc = "upsert" => work[w].base \in Cooldowns

\* A task holds one counter at most, and adds one to it at most, as long as nobody
\* takes it back.
CountHeld(w) ==
  /\ work[w].pc = "increment" /\ Counter(w) \notin set_back =>
       work[w].base <= counters.live[Counter(w)]
  /\ \A k \in Senders \X Minutes : counters.lock[k] = w =>
       /\ work[w].pc \in Counted /\ k = Counter(w)
       /\ k \notin set_back => counters.next[k] <= counters.live[k] + 1

\* The tasks that may still count a mail of sender s in minute t ...
MayCount(s, t) ==
  {w \in Tasks :
     /\ work[w].pc # "idle" /\ SenderOf(work[w].mail) = s
     /\ IF work[w].pc \in {"smtp", "count"} THEN now <= t ELSE work[w].window = t}

\* ... and those that may still add one to the mails sent on the day of minute t.
MaySend(s, t) ==
  {w \in Tasks :
     /\ work[w].pc # "idle" /\ SenderOf(work[w].mail) = s
     /\ IF work[w].pc = "smtp" THEN DayOf(now) <= DayOf(t) ELSE DayOf(work[w].at) = DayOf(t)}

\* Nothing is counted ahead of time.
NotAhead ==
  /\ \A s \in Senders, t \in Minutes : counters.live[<<s, t>>] # 0 => t <= now
  /\ \A m \in Mails : mail[m].status = "SENT" => mail[m].at \in 0..now

\* What a minute's counter has, and what may still be added to it, stays below its
\* limit and the number of tasks, unless somebody has taken the counter back.
MinuteBound(s, t) ==
  <<s, t>> \notin set_back =>
    counters.live[<<s, t>>] + Cardinality(MayCount(s, t)) < PerMinute[s] + Cardinality(Tasks)

\* The same of the mails sent on a day; SENT rows are never taken back.
DayBound(s, t) ==
  sent_count_today(s, t) + Cardinality(MaySend(s, t)) < DayLimit(s, t) + Cardinality(Tasks)

\* The minutes of the hour of minute t, and what is counted in them.
Hour(t) == {u \in Minutes : HourOf(u) = HourOf(t)}
HourCount(s, t) == SumOver([u \in Minutes |-> counters.live[<<s, u>>]], Hour(t))

\* The tasks that may still count a mail of sender s in the hour of minute t.
MayCountHour(s, t) ==
  {w \in Tasks :
     /\ work[w].pc # "idle" /\ SenderOf(work[w].mail) = s
     /\ IF work[w].pc \in {"smtp", "count"} THEN HourOf(now) <= HourOf(t)
        ELSE HourOf(work[w].window) = HourOf(t)}

\* No counter of the hour has been taken back.
HourIntact(s, t) == ({s} \X Hour(t)) \cap set_back = {}

\* The limits of an hour: the sender's, and the campaign's if it has one.
HourLimits(s) == {PerHour[s], CampaignHourly} \ {0}

\* The same of the sum over the counters of an hour, for either limit.
HourBound(s, t) ==
  HourIntact(s, t) =>
    \A limit \in HourLimits(s) :
      HourCount(s, t) + Cardinality(MayCountHour(s, t)) < limit + Cardinality(Tasks)

\* The bound of every hour: with ThrottleInvariant the inductive invariant behind
\* CounterOvershoot.
HourInvariant == \A s \in Senders, t \in Minutes : HourBound(s, t)

\* What the tasks keep and hold, and the bounds of minutes and days.
ThrottleInvariant ==
  /\ \A w \in Tasks : WorkFits(w) /\ CountHeld(w)
  /\ NotAhead
  /\ \A s \in Senders, t \in Minutes : MinuteBound(s, t) /\ DayBound(s, t)
-----------------------------------------------------------------------------
\* The rows of mails, and what a task keeps between its statements.
MailRows ==
  [status : {"PENDING", "SENT", "FAILED", "LOST"}, at : Minutes \cup {None},
   sender : Senders \cup {None}]

WorkRecords ==
  [pc : {"idle", "smtp", "count", "increment"} \cup Counted, mail : Mails \cup {None},
   ok : BOOLEAN, at : Minutes \cup {None}, window : Minutes \cup {None},
   base : Nat \cup Cooldowns \cup {None}, new : Cooldowns \cup {None}]

\* The types of all variables.
Types ==
  /\ TypeOK
  /\ mail \in [Mails -> MailRows]
  /\ work \in [Tasks -> WorkRecords]
  /\ set_back \subseteq Senders \X Minutes

\* The invariant of this module: types, and the claim on every counter.
Inv == Types /\ ThrottleInvariant

\* The mails sent today.
SentSet(s, t) ==
  {m \in Mails : mail[m].sender = s /\ mail[m].status = "SENT" /\ DayOf(mail[m].at) = DayOf(t)}
-----------------------------------------------------------------------------
\* The clock counts in natural numbers from 0.
LEMMA MinuteIsNat == MaxMinute \in Nat /\ Minutes \subseteq Nat /\ 0 \in Minutes
  BY TimeAssumption DEF Minutes

\* A number is what its quotient and its remainder make of it.
LEMMA Quotient ==
  ASSUME NEW n \in Nat \ {0}, NEW x \in Nat
  PROVE  x = n * (x \div n) + (x % n) /\ x \div n \in Nat /\ x % n \in 0..(n - 1)
  OBVIOUS

\* A larger number has no smaller quotient.
LEMMA QuotientsGrow ==
  ASSUME NEW n \in Nat \ {0}, NEW t \in Nat, NEW u \in Nat, t <= u
  PROVE  t \div n \in Nat /\ u \div n \in Nat /\ t \div n <= u \div n
<1>2. PICK a \in Nat, b \in Nat : a = t \div n /\ b = u \div n
  BY Quotient
<1>3. PICK m \in 0..(n - 1), k \in 0..(n - 1) : t = n * a + m /\ u = n * b + k
  BY <1>2, Quotient
<1>4. a <= b
  <2>0. SUFFICES ASSUME a > b PROVE FALSE
    BY <1>2
  <2>1. n * a >= n * (b + 1)
    BY <2>0
  <2>2. PICK p \in Nat, q \in Nat : p = n * a /\ q = n * b
    OBVIOUS
  <2>3. n * (b + 1) = q + n
    BY <2>2
  <2>4. t = p + m /\ u = q + k
    BY <1>3, <2>2
  <2> QED
    BY <2>1, <2>2, <2>3, <2>4
<1> QED
  BY <1>2, <1>4

\* A later minute is neither on an earlier day nor in an earlier hour.
LEMMA DaysPass ==
  ASSUME NEW t \in Nat, NEW u \in Nat, t <= u
  PROVE  DayOf(t) \in Nat /\ DayOf(u) \in Nat /\ DayOf(t) <= DayOf(u)
  BY QuotientsGrow, TimeAssumption DEF DayOf

LEMMA HoursPass ==
  ASSUME NEW t \in Nat, NEW u \in Nat, t <= u
  PROVE  HourOf(t) \in Nat /\ HourOf(u) \in Nat /\ HourOf(t) <= HourOf(u)
  BY QuotientsGrow, TimeAssumption DEF HourOf

\* The larger of two numbers is one of them, and below neither.
LEMMA MaxOf ==
  ASSUME NEW m \in Int, NEW n \in Int
  PROVE  Max({m, n}) \in {m, n} /\ Max({m, n}) >= m /\ Max({m, n}) >= n
  BY DEF Max

\* The smaller of two numbers is one of them, and above neither.
LEMMA MinOf ==
  ASSUME NEW m \in Int, NEW n \in Int
  PROVE  /\ Min({m, n}) \in {m, n} /\ Min({m, n}) <= m /\ Min({m, n}) <= n
         /\ Min({m}) = m
  BY DEF Min

\* A slowed limit is one, or not above the limit.
LEMMA SlowedLimit ==
  ASSUME NEW limit \in Nat, NEW s, NEW t
  PROVE  Slowed(limit, s, t) \in Nat /\ (Slowed(limit, s, t) <= limit \/ Slowed(limit, s, t) = 1)
<1>1. PICK half \in Nat : half = limit \div 2 /\ half <= limit
  OBVIOUS
<1>2. Max({1, half}) \in {1, half} /\ Max({1, limit}) \in {1, limit}
  BY MaxOf
<1> QED
  BY <1>1, <1>2 DEF Slowed

\* What a check compares with is never more than the limits that were set, or than
\* what a sender in its warm-up may send on the day.
LEMMA LimitsHold ==
  ASSUME NEW s \in Senders, NEW t \in Minutes
  PROVE  /\ PerMinute[s] \in Nat \ {0} /\ PerDay[s] \in Nat \ {0}
         /\ per_minute(s, t) \in Nat /\ per_minute(s, t) <= PerMinute[s]
         /\ DayLimit(s, t) \in Nat \ {0}
         /\ per_day(s, t) \in Nat /\ per_day(s, t) <= DayLimit(s, t)
<1>1. PerMinute[s] \in Nat \ {0} /\ PerDay[s] \in Nat \ {0} /\ WarmupLimits[s] \in Seq(Nat)
  BY LimitsAssumption
<1>2. per_minute(s, t) \in Nat /\ per_minute(s, t) <= PerMinute[s]
  <2>1. PICK limit \in Nat \ {0} : limit = PerMinute[s]
    BY <1>1
  <2>2. Slowed(limit, s, t) \in Nat /\ (Slowed(limit, s, t) <= limit \/ Slowed(limit, s, t) = 1)
    BY SlowedLimit
  <2> QED
    BY <2>1, <2>2 DEF per_minute
<1>3. PICK day \in Nat : day = DayOf(t)
  BY MinuteIsNat, DaysPass
<1>4. warmup_limits(s, t) = {} \/ \E w \in Nat : warmup_limits(s, t) = {w}
  BY <1>1, <1>3 DEF warmup_limits
<1>5. PICK limit \in Nat : limit = Min({PerDay[s]} \cup warmup_limits(s, t)) /\ limit <= PerDay[s]
  <2>1. CASE warmup_limits(s, t) = {}
    <3>1. {PerDay[s]} \cup warmup_limits(s, t) = {PerDay[s]}
      BY <2>1
    <3> QED
      BY <1>1, <3>1, MinOf
  <2>2. ASSUME NEW w \in Nat, warmup_limits(s, t) = {w}
        PROVE  /\ Min({PerDay[s]} \cup warmup_limits(s, t)) \in Nat
               /\ Min({PerDay[s]} \cup warmup_limits(s, t)) <= PerDay[s]
    <3>1. {PerDay[s]} \cup warmup_limits(s, t) = {PerDay[s], w}
      BY <2>2
    <3>2. /\ Min({PerDay[s], w}) \in {PerDay[s], w}
          /\ Min({PerDay[s], w}) <= PerDay[s]
      <4>1. PICK p \in Nat : p = PerDay[s]
        BY <1>1
      <4>2. p \in Int /\ w \in Int
        BY <4>1
      <4>3. Min({p, w}) \in {p, w} /\ Min({p, w}) <= p
        BY <4>2, MinOf
      <4> QED
        BY <4>1, <4>3
    <3> QED
      BY <1>1, <3>1, <3>2
  <2> QED
    BY <1>4, <2>1, <2>2
<1>6. Slowed(limit, s, t) \in Nat /\ (Slowed(limit, s, t) <= limit \/ Slowed(limit, s, t) = 1)
  BY SlowedLimit
<1>7. DayLimit(s, t) = Max({1, limit}) /\ Max({1, limit}) \in {1, limit}
      /\ Max({1, limit}) >= 1 /\ Max({1, limit}) >= limit
  BY <1>5, MaxOf DEF DayLimit
<1> QED
  BY <1>1, <1>2, <1>5, <1>6, <1>7 DEF per_day

\* The limit is the same all day.
LEMMA DayLimitOfDay ==
  ASSUME NEW s \in Senders, NEW t \in Minutes, NEW u \in Minutes, DayOf(t) = DayOf(u)
  PROVE  DayLimit(s, t) = DayLimit(s, u)
BY DEF DayLimit, warmup_limits

\* The sets that are counted are finite.
LEMMA Countable ==
  ASSUME NEW s, NEW t
  PROVE  /\ IsFiniteSet(Tasks) /\ Cardinality(Tasks) \in Nat
         /\ IsFiniteSet(MayCount(s, t)) /\ Cardinality(MayCount(s, t)) \in Nat
         /\ IsFiniteSet(MaySend(s, t)) /\ Cardinality(MaySend(s, t)) \in Nat
         /\ Cardinality(MayCount(s, t)) <= Cardinality(Tasks)
         /\ Cardinality(MaySend(s, t)) <= Cardinality(Tasks)
         /\ IsFiniteSet(SentSet(s, t)) /\ sent_count_today(s, t) = Cardinality(SentSet(s, t))
         /\ sent_count_today(s, t) \in Nat
<1>1. IsFiniteSet(Tasks) /\ IsFiniteSet(Mails)
  BY FiniteAssumption
<1>2. /\ MayCount(s, t) \in SUBSET Tasks /\ MaySend(s, t) \in SUBSET Tasks
      /\ SentSet(s, t) \in SUBSET Mails
  BY DEF MayCount, MaySend, SentSet
<1>3. sent_count_today(s, t) = Cardinality(SentSet(s, t))
  BY DEF sent_count_today, SentSet
<1>4. /\ IsFiniteSet(MayCount(s, t)) /\ Cardinality(MayCount(s, t)) <= Cardinality(Tasks)
      /\ IsFiniteSet(MaySend(s, t)) /\ Cardinality(MaySend(s, t)) <= Cardinality(Tasks)
      /\ IsFiniteSet(SentSet(s, t))
  BY <1>1, <1>2, FS_Subset
<1> QED
  BY <1>1, <1>3, <1>4, FS_CardinalityType
-----------------------------------------------------------------------------
\* A cooldown stays a cooldown when the columns that changed are written to it.
LEMMA RowTypes ==
  /\ NoRow \in Cooldowns
  /\ \A errors \in Nat, until \in Nat \cup {None} : Row(errors, until) \in Cooldowns
  /\ \A row, base, new \in Cooldowns : Changed(row, base, new) \in Cooldowns
<1>1. NoRow \in Cooldowns
  BY DEF NoRow, Cooldowns
<1>2. \A errors \in Nat, until \in Nat \cup {None} : Row(errors, until) \in Cooldowns
  BY DEF Row, Cooldowns
<1>3. ASSUME NEW row \in Cooldowns, NEW base \in Cooldowns, NEW new \in Cooldowns
      PROVE  Changed(row, base, new) \in Cooldowns
  <2>1. Changed(row, base, new) =
          [errors |-> IF new.errors # base.errors THEN new.errors ELSE row.errors,
           until |-> IF new.until # base.until THEN new.until ELSE row.until,
           exists |-> IF new.exists # base.exists THEN new.exists ELSE row.exists]
    BY DEF Changed, Cooldowns
  <2> QED
    BY <2>1 DEF Cooldowns
<1> QED
  BY <1>1, <1>2, <1>3

\* What the statements rely on.
LEMMA TypeFacts ==
  ASSUME Types
  PROVE  /\ now \in Minutes /\ now \in Nat
         /\ counters \in Tables(Senders \X Minutes, Nat, Tasks)
         /\ counters.live \in [Senders \X Minutes -> Nat]
         /\ counters.next \in [Senders \X Minutes -> Nat]
         /\ counters.lock \in [Senders \X Minutes -> Tasks \cup {Free}]
         /\ cooldown \in Tables(Senders, Cooldowns, Tasks)
         /\ mail \in [Mails -> MailRows] /\ work \in [Tasks -> WorkRecords]
         /\ \A m \in Mails : SenderOf(m) \in Senders
  BY MinuteIsNat, PoolAssumption DEF Types, TypeOK, Tables, SenderOf, MailRows

\* Types of all variables at once.
LEMMA TypesOf ==
  ASSUME now \in Minutes, counters \in Tables(Senders \X Minutes, Nat, Tasks),
         cooldown \in Tables(Senders, Cooldowns, Tasks), mail \in [Mails -> MailRows],
         paused \in BOOLEAN, work \in [Tasks -> WorkRecords], wake \in Minutes \cup {None},
         set_back \subseteq Senders \X Minutes
  PROVE  Types
<1>1. \A m \in Mails : /\ mail[m].status \in {"PENDING", "SENT", "FAILED", "LOST"}
                       /\ mail[m].at \in Minutes \cup {None}
                       /\ mail[m].sender \in Senders \cup {None}
  BY DEF MailRows
<1>2. \A w \in Tasks : work[w].mail \in Mails \cup {None}
  BY DEF WorkRecords
<1> QED
  BY <1>1, <1>2 DEF Types, TypeOK

\* In the beginning nothing is counted and nobody works.
LEMMA InitInv == Init => Inv
<1> SUFFICES ASSUME Init PROVE Inv
  OBVIOUS
<1>1. /\ counters \in Tables(Senders \X Minutes, Nat, Tasks)
      /\ counters.live = [k \in Senders \X Minutes |-> 0]
      /\ counters.lock = [k \in Senders \X Minutes |-> Free]
  BY DEF Init, Committed, Tables
<1>2. cooldown \in Tables(Senders, Cooldowns, Tasks)
  BY RowTypes DEF Init, Committed, Tables
<1>3. mail \in [Mails -> MailRows] /\ \A m \in Mails : mail[m].status = "PENDING"
  BY PoolAssumption DEF Init, MailRows
<1>4. work \in [Tasks -> WorkRecords] /\ \A w \in Tasks : work[w].pc = "idle"
  BY DEF Init, Idle, WorkRecords
<1>5. Types
  BY <1>1, <1>2, <1>3, <1>4, MinuteIsNat, TypesOf DEF Init
<1>6. \A w \in Tasks : WorkFits(w)
  BY <1>4 DEF WorkFits, Counted
<1>7. \A w \in Tasks : CountHeld(w)
  BY <1>1, <1>4, TaskAssumption DEF CountHeld
<1>8. NotAhead
  BY <1>1, <1>3 DEF NotAhead
<1>9. ASSUME NEW s \in Senders, NEW t \in Minutes PROVE MinuteBound(s, t) /\ DayBound(s, t)
  <2>1. MayCount(s, t) = {} /\ MaySend(s, t) = {} /\ SentSet(s, t) = {}
    BY <1>3, <1>4 DEF MayCount, MaySend, SentSet
  <2>2. /\ Cardinality(MayCount(s, t)) = 0 /\ Cardinality(MaySend(s, t)) = 0
        /\ sent_count_today(s, t) = 0
    BY <2>1, Countable, FS_EmptySet
  <2>3. counters.live[<<s, t>>] = 0
    BY <1>1
  <2>4. PerMinute[s] \in Nat \ {0} /\ DayLimit(s, t) \in Nat \ {0} /\ Cardinality(Tasks) \in Nat
    BY LimitsHold, Countable
  <2> QED
    BY <2>2, <2>3, <2>4 DEF MinuteBound, DayBound
<1> QED
  BY <1>5, <1>6, <1>7, <1>8, <1>9 DEF Inv, ThrottleInvariant

\* A minute's bound holds on when the counter stays and no task is added to those that
\* may still count.
LEMMA MinuteKept ==
  ASSUME Inv, Types', NEW s \in Senders, NEW t \in Minutes, set_back \subseteq set_back',
         counters'.live[<<s, t>>] = counters.live[<<s, t>>],
         MayCount(s, t)' \subseteq MayCount(s, t)
  PROVE  MinuteBound(s, t)'
<1>1. MinuteBound(s, t)
  BY DEF Inv, ThrottleInvariant
<1>2. /\ IsFiniteSet(MayCount(s, t)) /\ Cardinality(MayCount(s, t)) \in Nat
      /\ Cardinality(Tasks) \in Nat
  BY Countable
<1>3. /\ Cardinality(MayCount(s, t)') \in Nat
      /\ Cardinality(MayCount(s, t)') <= Cardinality(MayCount(s, t))
  BY <1>2, FS_Subset, FS_CardinalityType
<1>4. PerMinute[s] \in Nat /\ counters.live[<<s, t>>] \in Nat
  BY LimitsHold, TypeFacts DEF Inv
<1> QED
  BY <1>1, <1>2, <1>3, <1>4 DEF MinuteBound

\* It holds in any case while the counter has not reached the limit.
LEMMA MinuteBelow ==
  ASSUME Types', NEW s \in Senders, NEW t \in Minutes, counters'.live[<<s, t>>] < PerMinute[s]
  PROVE  MinuteBound(s, t)'
<1>1. IsFiniteSet(Tasks) /\ Cardinality(Tasks) \in Nat
  BY Countable
<1>2. MayCount(s, t)' \in SUBSET Tasks
  BY DEF MayCount
<1>3. Cardinality(MayCount(s, t)') \in Nat /\ Cardinality(MayCount(s, t)') <= Cardinality(Tasks)
  BY <1>1, <1>2, FS_Subset, FS_CardinalityType
<1>4. PerMinute[s] \in Nat /\ counters'.live[<<s, t>>] \in Nat
  BY LimitsHold DEF Types, TypeOK, Tables
<1> QED
  BY <1>1, <1>3, <1>4 DEF MinuteBound

\* The same for a day: no mail more is sent, no task more may send.
LEMMA DayKept ==
  ASSUME Inv, NEW s \in Senders, NEW t \in Minutes,
         MaySend(s, t)' \subseteq MaySend(s, t), SentSet(s, t)' \subseteq SentSet(s, t)
  PROVE  DayBound(s, t)'
<1>1. DayBound(s, t)
  BY DEF Inv, ThrottleInvariant
<1>2. /\ IsFiniteSet(MaySend(s, t)) /\ IsFiniteSet(SentSet(s, t))
      /\ Cardinality(MaySend(s, t)) \in Nat /\ Cardinality(Tasks) \in Nat
      /\ sent_count_today(s, t) \in Nat /\ sent_count_today(s, t) = Cardinality(SentSet(s, t))
  BY Countable
<1>3. /\ Cardinality(MaySend(s, t)') \in Nat /\ Cardinality(SentSet(s, t)') \in Nat
      /\ Cardinality(MaySend(s, t)') <= Cardinality(MaySend(s, t))
      /\ Cardinality(SentSet(s, t)') <= Cardinality(SentSet(s, t))
  BY <1>2, FS_Subset, FS_CardinalityType
<1>4. sent_count_today(s, t)' = Cardinality(SentSet(s, t)')
  BY DEF sent_count_today, SentSet
<1>5. DayLimit(s, t) \in Nat
  BY LimitsHold
<1> QED
  BY <1>1, <1>2, <1>3, <1>4, <1>5 DEF DayBound

\* And while fewer were sent than the day allows.
LEMMA DayBelow ==
  ASSUME NEW s \in Senders, NEW t \in Minutes, sent_count_today(s, t)' < DayLimit(s, t)
  PROVE  DayBound(s, t)'
<1>1. IsFiniteSet(Tasks) /\ Cardinality(Tasks) \in Nat /\ IsFiniteSet(Mails)
  BY Countable, FiniteAssumption
<1>2. MaySend(s, t)' \in SUBSET Tasks /\ SentSet(s, t)' \in SUBSET Mails
  BY DEF MaySend, SentSet
<1>3. /\ Cardinality(MaySend(s, t)') \in Nat /\ Cardinality(SentSet(s, t)') \in Nat
      /\ Cardinality(MaySend(s, t)') <= Cardinality(Tasks)
  BY <1>1, <1>2, FS_Subset, FS_CardinalityType
<1>4. sent_count_today(s, t)' = Cardinality(SentSet(s, t)')
  BY DEF sent_count_today, SentSet
<1>5. DayLimit(s, t) \in Nat
  BY LimitsHold
<1> QED
  BY <1>1, <1>3, <1>4, <1>5 DEF DayBound

\* What a task relies on stays while others work.
LEMMA OtherTasks ==
  ASSUME Inv, NEW v \in Tasks, work'[v] = work[v], now' \in Minutes, now' >= now,
         set_back \subseteq set_back',
         counters' \in Tables(Senders \X Minutes, Nat, Tasks),
         work[v].pc # "idle" => mail'[work[v].mail].sender = mail[work[v].mail].sender,
         \A k \in Senders \X Minutes :
           /\ counters'.lock[k] = v => /\ counters.lock[k] = v
                                       /\ counters'.next[k] = counters.next[k]
           /\ k \notin set_back' => counters'.live[k] >= counters.live[k]
  PROVE  WorkFits(v)' /\ CountHeld(v)'
<1>1. WorkFits(v) /\ CountHeld(v) /\ now \in Nat /\ now' \in Nat
  BY TypeFacts, MinuteIsNat DEF Inv, ThrottleInvariant
<1>2. WorkFits(v)'
  <2>1. \A t : t \in 0..now => t \in 0..now'
    BY <1>1
  <2> QED
    BY <1>1, <2>1 DEF WorkFits
<1>3. CountHeld(v)'
  <2>1. CASE work[v].pc = "idle"
    BY <1>1, <2>1 DEF CountHeld, Counted
  <2>2. CASE work[v].pc # "idle"
    <3>1. PICK k : k = Counter(v)
      OBVIOUS
    <3>2. Counter(v)' = k
      BY <2>2, <3>1 DEF Counter, SenderOf
    <3>3. work[v].pc = "increment" /\ k \notin set_back' => work[v].base <= counters'.live[k]
      <4> SUFFICES ASSUME work[v].pc = "increment", k \notin set_back'
                   PROVE  work[v].base <= counters'.live[k]
        OBVIOUS
      <4>1. k \in Senders \X Minutes
        <5>1. work[v].mail \in Mails /\ work[v].window \in Minutes
          <6>1. work[v].window \in 0..now
            BY <1>1 DEF WorkFits
          <6>2. now \in 0..MaxMinute
            BY TypeFacts DEF Inv, Minutes
          <6> QED
            BY <1>1, <6>1, <6>2, TimeAssumption DEF WorkFits, Minutes
        <5> QED
          BY <3>1, <5>1, TypeFacts DEF Counter, Inv
      <4>2. /\ work[v].base \in Nat /\ work[v].base <= counters.live[k]
            /\ counters.live[k] \in Nat /\ counters'.live[k] >= counters.live[k]
        BY <1>1, <3>1, <4>1, TypeFacts DEF WorkFits, CountHeld, Inv
      <4>3. counters'.live[k] \in Nat
        BY <4>1 DEF Tables
      <4> QED
        BY <4>2, <4>3
    <3>4. ASSUME NEW x \in Senders \X Minutes, counters'.lock[x] = v
          PROVE  /\ work'[v].pc \in Counted /\ x = k
                 /\ x \notin set_back' => counters'.next[x] <= counters'.live[x] + 1
      <4>1. counters.lock[x] = v /\ counters'.next[x] = counters.next[x]
        BY <3>4
      <4>2. /\ work[v].pc \in Counted /\ x = k
            /\ x \notin set_back => counters.next[x] <= counters.live[x] + 1
        BY <1>1, <3>1, <4>1 DEF CountHeld
      <4>3. counters.next[x] \in Nat /\ counters.live[x] \in Nat /\ counters'.live[x] \in Nat
        BY TypeFacts DEF Inv, Tables
      <4>4. x \notin set_back' => counters'.live[x] >= counters.live[x]
        OBVIOUS
      <4> QED
        BY <4>1, <4>2, <4>3, <4>4
    <3> QED
      BY <3>2, <3>3, <3>4 DEF CountHeld
  <2> QED
    BY <2>1, <2>2
<1> QED
  BY <1>2, <1>3

\* A task goes on with its mail: no mail is counted, and it may count no more than before.
LEMMA TaskMoves ==
  ASSUME Inv, NEW w \in Tasks, UNCHANGED <<now, set_back, mail, paused, wake>>,
         counters' \in Tables(Senders \X Minutes, Nat, Tasks), counters'.live = counters.live,
         cooldown' \in Tables(Senders, Cooldowns, Tasks),
         \A k \in Senders \X Minutes, v \in Tasks : v # w /\ counters'.lock[k] = v =>
           counters.lock[k] = v /\ counters'.next[k] = counters.next[k],
         work' \in [Tasks -> WorkRecords], \A v \in Tasks : v # w => work'[v] = work[v],
         work[w].pc # "idle", work'[w].mail = work[w].mail,
         WorkFits(w)', CountHeld(w)',
         \A t \in Minutes :
           /\ (IF work'[w].pc \in {"smtp", "count"} THEN now <= t ELSE work'[w].window = t)
                => (IF work[w].pc \in {"smtp", "count"} THEN now <= t ELSE work[w].window = t)
           /\ (IF work'[w].pc = "smtp" THEN DayOf(now) <= DayOf(t) ELSE DayOf(work'[w].at) = DayOf(t))
                => (IF work[w].pc = "smtp" THEN DayOf(now) <= DayOf(t) ELSE DayOf(work[w].at) = DayOf(t))
  PROVE  Inv'
<1>1. Types'
  BY TypeFacts, TypesOf DEF Inv, Types, TypeOK
<1>2. now \in Nat /\ counters.live \in [Senders \X Minutes -> Nat]
  BY TypeFacts DEF Inv
<1>3. ASSUME NEW v \in Tasks PROVE WorkFits(v)' /\ CountHeld(v)'
  <2>1. CASE v = w
    BY <2>1
  <2>2. CASE v # w
    <3>1. work'[v] = work[v]
      BY <2>2
    <3>2. now' \in Minutes /\ now' >= now /\ set_back \subseteq set_back'
      BY <1>2, TypeFacts DEF Inv
    <3>3. \A k \in Senders \X Minutes :
            /\ counters'.lock[k] = v => /\ counters.lock[k] = v
                                        /\ counters'.next[k] = counters.next[k]
            /\ k \notin set_back' => counters'.live[k] >= counters.live[k]
      BY <1>2, <2>2
    <3> QED
      BY <3>1, <3>2, <3>3, OtherTasks
  <2> QED
    BY <2>1, <2>2
<1>4. NotAhead'
  BY DEF Inv, ThrottleInvariant, NotAhead
<1>5. ASSUME NEW s \in Senders, NEW t \in Minutes PROVE MinuteBound(s, t)' /\ DayBound(s, t)'
  <2>1. MayCount(s, t)' \subseteq MayCount(s, t)
    <3> SUFFICES ASSUME NEW v \in Tasks, v \in MayCount(s, t)' PROVE v \in MayCount(s, t)
      BY DEF MayCount
    <3>1. CASE v = w
      BY <3>1 DEF MayCount, SenderOf
    <3>2. CASE v # w
      BY <3>2 DEF MayCount, SenderOf
    <3> QED
      BY <3>1, <3>2
  <2>2. MaySend(s, t)' \subseteq MaySend(s, t)
    <3> SUFFICES ASSUME NEW v \in Tasks, v \in MaySend(s, t)' PROVE v \in MaySend(s, t)
      BY DEF MaySend
    <3>1. CASE v = w
      BY <3>1 DEF MaySend, SenderOf
    <3>2. CASE v # w
      BY <3>2 DEF MaySend, SenderOf
    <3> QED
      BY <3>1, <3>2
  <2>3. SentSet(s, t)' \subseteq SentSet(s, t)
    BY DEF SentSet
  <2> QED
    BY <1>1, <2>1, <2>2, <2>3, MinuteKept, DayKept
<1> QED
  BY <1>1, <1>3, <1>4, <1>5 DEF Inv, ThrottleInvariant

\* The record of a task that moves on.
LEMMA Steps ==
  ASSUME Types, NEW w \in Tasks, NEW pc \in {"smtp", "count", "increment"} \cup Counted, Step(w, pc)
  PROVE  /\ work' \in [Tasks -> WorkRecords]
         /\ \A v \in Tasks : v # w => work'[v] = work[v]
         /\ work'[w].pc = pc /\ work'[w].mail = work[w].mail /\ work'[w].ok = work[w].ok
         /\ work'[w].at = work[w].at /\ work'[w].window = work[w].window
         /\ work'[w].base = work[w].base /\ work'[w].new = work[w].new
<1>1. work \in [Tasks -> WorkRecords] /\ work' = [work EXCEPT ![w].pc = pc]
  BY DEF Types, Step
<1> QED
  BY <1>1 DEF WorkRecords

\* The server's answer fixes the time that will be the job's sent_at.
LEMMA HandedOver ==
  ASSUME Inv, NEW w \in Tasks, NEW outcome \in Outcomes, HandOver(w, outcome)
  PROVE  Inv'
<1>1. Types /\ WorkFits(w) /\ CountHeld(w) /\ now \in Minutes /\ now \in Nat
  BY TypeFacts DEF Inv, ThrottleInvariant
<1>2. /\ work[w].pc = "smtp" /\ UNCHANGED <<now, counters, cooldown, set_back, mail, paused, wake>>
      /\ work[w] \in WorkRecords /\ work \in [Tasks -> WorkRecords]
  BY <1>1, TypeFacts DEF HandOver, records
<1>o. PICK ok \in BOOLEAN : ok = (outcome = "accepted")
  OBVIOUS
<1>3. work' = [work EXCEPT ![w] = [work[w] EXCEPT !.pc = "count", !.ok = ok, !.at = now]]
  BY <1>o DEF HandOver
<1>4. /\ work' \in [Tasks -> WorkRecords] /\ \A v \in Tasks : v # w => work'[v] = work[v]
      /\ work'[w].pc = "count" /\ work'[w].mail = work[w].mail /\ work'[w].at = now
  BY <1>1, <1>2, <1>3 DEF WorkRecords
<1>5. WorkFits(w)'
  BY <1>1, <1>2, <1>4 DEF WorkFits, Counted
<1>6. CountHeld(w)'
  BY <1>1, <1>2, <1>4 DEF CountHeld, Counted
<1>7. \A t \in Minutes : DayOf(now) = DayOf(t) => DayOf(now) <= DayOf(t)
  <2> SUFFICES ASSUME NEW t \in Minutes PROVE DayOf(now) \in Nat
    BY <1>1
  <2> QED
    BY <1>1, DaysPass
<1>8. counters \in Tables(Senders \X Minutes, Nat, Tasks) /\ cooldown \in Tables(Senders, Cooldowns, Tasks)
  BY <1>1, TypeFacts
<1> QED
  BY <1>2, <1>4, <1>5, <1>6, <1>7, <1>8, TaskMoves

\* A task that has not written its counter yet holds none.
LEMMA HoldsNoCounter ==
  ASSUME Inv, NEW w \in Tasks, work[w].pc \notin Counted
  PROVE  \A k \in Senders \X Minutes : counters.lock[k] # w /\ View(counters, w, k) = counters.live[k]
  BY DEF Inv, ThrottleInvariant, CountHeld, View

\* The count that is read is the committed one of this minute.
LEMMA CounterRead ==
  ASSUME Inv, NEW w \in Tasks, ReadCounter(w)
  PROVE  Inv'
<1>1. Types /\ WorkFits(w) /\ CountHeld(w) /\ now \in Minutes /\ now \in Nat
  BY TypeFacts DEF Inv, ThrottleInvariant
<1>2. /\ work[w].pc = "count" /\ UNCHANGED <<now, counters, cooldown, set_back, mail, paused, wake>>
      /\ work[w] \in WorkRecords /\ work \in [Tasks -> WorkRecords] /\ work[w].mail \in Mails
  BY <1>1, TypeFacts DEF ReadCounter, records, WorkFits
<1>k. PICK k \in Senders \X Minutes : k = <<SenderOf(work[w].mail), now>>
  BY <1>1, <1>2, TypeFacts
<1>b. PICK base \in Nat : base = View(counters, w, k) /\ base = counters.live[k]
  BY <1>1, <1>2, HoldsNoCounter, TypeFacts DEF Counted
<1>3. work' = [work EXCEPT ![w] =
        [work[w] EXCEPT !.pc = "increment", !.window = now, !.base = base]]
  BY <1>k, <1>b DEF ReadCounter
<1>4. /\ work' \in [Tasks -> WorkRecords] /\ \A v \in Tasks : v # w => work'[v] = work[v]
      /\ work'[w].pc = "increment" /\ work'[w].mail = work[w].mail /\ work'[w].at = work[w].at
      /\ work'[w].window = now /\ work'[w].base = base
  BY <1>1, <1>2, <1>3 DEF WorkRecords
<1>5. WorkFits(w)'
  BY <1>1, <1>2, <1>4 DEF WorkFits, Counted
<1>6. CountHeld(w)'
  <2>1. \A x \in Senders \X Minutes : counters.lock[x] # w
    BY <1>2, HoldsNoCounter DEF Counted
  <2>2. Counter(w)' = k
    BY <1>2, <1>4, <1>k DEF Counter, SenderOf
  <2>3. base <= counters.live[k]
    BY <1>b
  <2> QED
    BY <1>2, <1>4, <1>b, <2>1, <2>2, <2>3 DEF CountHeld
<1>7. \A t \in Minutes : now = t => now <= t
  BY <1>1
<1>8. counters \in Tables(Senders \X Minutes, Nat, Tasks) /\ cooldown \in Tables(Senders, Cooldowns, Tasks)
  BY <1>1, TypeFacts
<1> QED
  BY <1>2, <1>4, <1>5, <1>6, <1>7, <1>8, TaskMoves

\* A task writes the counter it read, one higher: nobody else holds the row.
LEMMA CounterWritten ==
  ASSUME Inv, NEW w \in Tasks, WriteCounter(w)
  PROVE  Inv'
<1>1. Types /\ WorkFits(w) /\ CountHeld(w) /\ now \in Minutes /\ now \in Nat
  BY TypeFacts DEF Inv, ThrottleInvariant
<1>2. /\ work[w].pc = "increment" /\ UNCHANGED <<now, cooldown, set_back, mail, paused, wake>>
      /\ work[w] \in WorkRecords /\ work[w].mail \in Mails /\ Step(w, "result")
      /\ work[w].window \in 0..now /\ work[w].at \in 0..now /\ work[w].base \in Nat
  BY <1>1, TypeFacts DEF WriteCounter, WorkFits
<1>k. PICK k \in Senders \X Minutes : k = Counter(w)
  <2>1. work[w].window \in Minutes
    BY <1>1, <1>2, TimeAssumption DEF Minutes
  <2> QED
    BY <1>1, <1>2, <2>1, TypeFacts DEF Counter
<1>b. PICK next \in Nat : next = work[w].base + 1
  BY <1>2
<1>c. counters \in Tables(Senders \X Minutes, Nat, Tasks) /\ cooldown \in Tables(Senders, Cooldowns, Tasks)
  BY <1>1, TypeFacts
<1>3. counters' = Put(counters, w, k, next)
  BY <1>k, <1>b DEF WriteCounter
<1>4. /\ counters' \in Tables(Senders \X Minutes, Nat, Tasks) /\ counters'.live = counters.live
      /\ counters'.next = [counters.next EXCEPT ![k] = next]
      /\ counters'.lock = [counters.lock EXCEPT ![k] = w]
  BY <1>3, <1>c, PutRow
<1>5. \A x \in Senders \X Minutes :
        /\ counters'.lock[x] = IF x = k THEN w ELSE counters.lock[x]
        /\ counters'.next[x] = IF x = k THEN next ELSE counters.next[x]
  BY <1>c, <1>4 DEF Tables
<1>6. /\ work' \in [Tasks -> WorkRecords] /\ \A v \in Tasks : v # w => work'[v] = work[v]
      /\ work'[w].pc = "result" /\ work'[w].mail = work[w].mail /\ work'[w].at = work[w].at
      /\ work'[w].window = work[w].window
  BY <1>1, <1>2, Steps DEF Counted
<1>7. WorkFits(w)'
  BY <1>1, <1>2, <1>6 DEF WorkFits, Counted
<1>8. CountHeld(w)'
  <2>1. \A x \in Senders \X Minutes : counters.lock[x] # w
    BY <1>2, HoldsNoCounter DEF Counted
  <2>2. Counter(w)' = k
    BY <1>2, <1>6, <1>k DEF Counter, SenderOf
  <2>3. k \notin set_back => next <= counters'.live[k] + 1
    <3>1. counters.live[k] \in Nat
      BY <1>c DEF Tables
    <3>2. k \notin set_back => work[w].base <= counters.live[k]
      BY <1>1, <1>2, <1>k DEF CountHeld
    <3> QED
      BY <1>2, <1>4, <1>b, <3>1, <3>2
  <2>4. ASSUME NEW x \in Senders \X Minutes, counters'.lock[x] = w
        PROVE  x = k /\ counters'.next[x] = next
    BY <1>5, <2>1, <2>4
  <2> QED
    BY <1>2, <1>6, <2>2, <2>3, <2>4 DEF CountHeld, Counted
<1>9. \A x \in Senders \X Minutes, v \in Tasks : v # w /\ counters'.lock[x] = v =>
        counters.lock[x] = v /\ counters'.next[x] = counters.next[x]
  BY <1>5
<1> QED
  BY <1>2, <1>4, <1>6, <1>7, <1>8, <1>9, <1>c, TaskMoves

\* What a task computes from the cooldown row, and what it reads again.
LEMMA CooldownRead ==
  ASSUME Inv, NEW w \in Tasks, ReadErrors(w) \/ SelectCooldown(w)
  PROVE  Inv'
<1>1. Types /\ WorkFits(w) /\ CountHeld(w) /\ now \in Minutes /\ now \in Nat
  BY TypeFacts DEF Inv, ThrottleInvariant
<1>2. /\ work[w].pc \in {"result", "select"}
      /\ UNCHANGED <<now, counters, cooldown, set_back, mail, paused, wake>>
      /\ work[w] \in WorkRecords /\ work \in [Tasks -> WorkRecords] /\ work[w].mail \in Mails
  BY <1>1, TypeFacts DEF ReadErrors, SelectCooldown, records, WorkFits
<1>c. counters \in Tables(Senders \X Minutes, Nat, Tasks) /\ cooldown \in Tables(Senders, Cooldowns, Tasks)
  BY <1>1, TypeFacts
<1>r. PICK row \in Cooldowns : row = View(cooldown, w, SenderOf(work[w].mail))
  BY <1>1, <1>2, <1>c, TypeFacts, ViewRow
<1>3. /\ work' \in [Tasks -> WorkRecords] /\ \A v \in Tasks : v # w => work'[v] = work[v]
      /\ work'[w].pc \in {"select", "upsert"} /\ work'[w].mail = work[w].mail
      /\ work'[w].at = work[w].at /\ work'[w].window = work[w].window
      /\ work'[w].new \in Cooldowns
      /\ work'[w].pc = "upsert" => work'[w].base \in Cooldowns
  <2>1. CASE ReadErrors(w)
    <3>1. PICK new \in Cooldowns : work' = [work EXCEPT ![w] =
            [work[w] EXCEPT !.pc = "select", !.new = new]]
      <4>1. PICK until \in Nat \cup {None} :
              until = IF row.errors + 1 >= CONSECUTIVE_ERROR_LIMIT THEN now + CooldownLength
                      ELSE row.until
        <5>1. row.until \in Nat \cup {None} /\ now + CooldownLength \in Nat
          BY <1>1, TimeAssumption DEF Cooldowns
        <5> QED
          BY <5>1
      <4>2. PICK count \in Nat : count = row.errors + 1
        BY DEF Cooldowns
      <4>3. Row(count, until) \in Cooldowns /\ Row(0, None) \in Cooldowns
        BY RowTypes
      <4>4. work' = [work EXCEPT ![w] = [work[w] EXCEPT !.pc = "select",
              !.new = IF work[w].ok THEN Row(0, None) ELSE Row(count, until)]]
        BY <1>r, <2>1, <4>1, <4>2 DEF ReadErrors
      <4>5. CASE work[w].ok
        BY <4>3, <4>4, <4>5
      <4>6. CASE ~work[w].ok
        BY <4>3, <4>4, <4>6
      <4> QED
        BY <4>5, <4>6
    <3> QED
      BY <1>2, <3>1 DEF WorkRecords, Counted
  <2>2. CASE SelectCooldown(w)
    <3>1. work' = [work EXCEPT ![w] = [work[w] EXCEPT !.pc = "upsert", !.base = row]]
      BY <1>r, <2>2 DEF SelectCooldown
    <3>2. work[w].new \in Cooldowns
      BY <1>1, <2>2 DEF WorkFits, SelectCooldown
    <3> QED
      BY <1>2, <3>1, <3>2 DEF WorkRecords, Counted
  <2> QED
    BY <2>1, <2>2
<1>4. work[w].at \in 0..now /\ work[w].window \in 0..now
  BY <1>1, <1>2 DEF WorkFits, Counted
<1>5. WorkFits(w)'
  <2>1. /\ work'[w].mail \in Mails /\ work'[w].at \in 0..now' /\ work'[w].window \in 0..now'
        /\ work'[w].pc # "increment" /\ work'[w].new \in Cooldowns
    BY <1>2, <1>3, <1>4
  <2> QED
    BY <1>3, <2>1 DEF WorkFits
<1>6. CountHeld(w)'
  <2>1. Counter(w)' = Counter(w)
    BY <1>2, <1>3 DEF Counter, SenderOf
  <2> QED
    BY <1>1, <1>2, <1>3, <2>1 DEF CountHeld, Counted
<1> QED
  BY <1>2, <1>3, <1>5, <1>6, <1>c, TaskMoves

\* The cooldown row is written: the counters stay as they are.
LEMMA CooldownWritten ==
  ASSUME Inv, NEW w \in Tasks, WriteCooldown(w)
  PROVE  Inv'
<1>1. Types /\ WorkFits(w) /\ CountHeld(w) /\ now \in Minutes /\ now \in Nat
  BY TypeFacts DEF Inv, ThrottleInvariant
<1>2. /\ work[w].pc = "upsert" /\ UNCHANGED <<now, counters, set_back, mail, paused, wake>>
      /\ work[w] \in WorkRecords /\ work[w].mail \in Mails /\ Step(w, "commit")
      /\ work[w].base \in Cooldowns /\ work[w].new \in Cooldowns
  BY <1>1, TypeFacts DEF WriteCooldown, WorkFits
<1>c. counters \in Tables(Senders \X Minutes, Nat, Tasks) /\ cooldown \in Tables(Senders, Cooldowns, Tasks)
  BY <1>1, TypeFacts
<1>s. PICK s \in Senders : s = SenderOf(work[w].mail)
  BY <1>1, <1>2, TypeFacts
<1>r. PICK row \in Cooldowns : row = Changed(View(cooldown, w, s), work[w].base, work[w].new)
  <2>1. View(cooldown, w, s) \in Cooldowns
    BY <1>c, ViewRow
  <2> QED
    BY <1>2, <2>1, RowTypes
<1>3. cooldown' = Put(cooldown, w, s, row)
  BY <1>s, <1>r DEF WriteCooldown
<1>4. cooldown' \in Tables(Senders, Cooldowns, Tasks)
  BY <1>3, <1>c, PutRow
<1>6. /\ work' \in [Tasks -> WorkRecords] /\ \A v \in Tasks : v # w => work'[v] = work[v]
      /\ work'[w].pc = "commit" /\ work'[w].mail = work[w].mail /\ work'[w].at = work[w].at
      /\ work'[w].window = work[w].window
  BY <1>1, <1>2, Steps DEF Counted
<1>7. WorkFits(w)'
  BY <1>1, <1>2, <1>6 DEF WorkFits, Counted
<1>8. CountHeld(w)'
  <2>1. Counter(w)' = Counter(w)
    BY <1>2, <1>6 DEF Counter, SenderOf
  <2> QED
    BY <1>1, <1>2, <1>6, <2>1 DEF CountHeld, Counted
<1> QED
  BY <1>2, <1>4, <1>6, <1>7, <1>8, <1>c, TaskMoves

\* A check passes only while minute and day are below their limits.
LEMMA CheckPassed ==
  ASSUME Inv, NEW w \in Tasks, NEW m \in Mails, Check(w, m)
  PROVE  Inv'
<1>1. Types /\ now \in Minutes /\ now \in Nat /\ NotAhead
  BY TypeFacts DEF Inv, ThrottleInvariant
<1>2. /\ work[w].pc = "idle" /\ UNCHANGED <<now, counters, cooldown, set_back, mail, paused, wake>>
      /\ work' = [work EXCEPT ![w] = [Idle EXCEPT !.pc = "smtp", !.mail = m]]
  BY DEF Check, records
<1>3. /\ work' \in [Tasks -> WorkRecords] /\ \A v \in Tasks : v # w => work'[v] = work[v]
      /\ work'[w].pc = "smtp" /\ work'[w].mail = m
  <2>1. work \in [Tasks -> WorkRecords]
    BY <1>1, TypeFacts
  <2>2. [Idle EXCEPT !.pc = "smtp", !.mail = m] \in WorkRecords
    BY DEF Idle, WorkRecords
  <2>3. [Idle EXCEPT !.pc = "smtp", !.mail = m].pc = "smtp"
        /\ [Idle EXCEPT !.pc = "smtp", !.mail = m].mail = m
    BY DEF Idle
  <2> QED
    BY <1>2, <2>1, <2>2, <2>3
<1>4. Types'
  BY <1>1, <1>2, <1>3, TypeFacts, TypesOf DEF Types, TypeOK
<1>5. ASSUME NEW v \in Tasks PROVE WorkFits(v)' /\ CountHeld(v)'
  <2>1. CASE v = w
    <3>1. WorkFits(w)'
      BY <1>3 DEF WorkFits, Counted
    <3>2. \A k \in Senders \X Minutes : counters.lock[k] # w
      BY <1>2, HoldsNoCounter DEF Counted
    <3>3. CountHeld(w)'
      BY <1>2, <1>3, <3>2 DEF CountHeld
    <3> QED
      BY <2>1, <3>1, <3>3
  <2>2. CASE v # w
    <3>1. work'[v] = work[v] /\ now' \in Minutes /\ now' >= now /\ set_back \subseteq set_back'
      BY <1>1, <1>2, <1>3, <2>2
    <3>2. /\ counters \in Tables(Senders \X Minutes, Nat, Tasks)
          /\ \A k \in Senders \X Minutes : counters.live[k] \in Nat
      BY <1>1, TypeFacts
    <3>3. \A k \in Senders \X Minutes :
            /\ counters'.lock[k] = v => /\ counters.lock[k] = v
                                        /\ counters'.next[k] = counters.next[k]
            /\ k \notin set_back' => counters'.live[k] >= counters.live[k]
      BY <1>2, <3>2
    <3> QED
      BY <1>2, <3>1, <3>2, <3>3, OtherTasks
  <2> QED
    BY <2>1, <2>2
<1>6. NotAhead'
  BY <1>1, <1>2 DEF NotAhead
<1>7. ASSUME NEW s \in Senders, NEW t \in Minutes PROVE MinuteBound(s, t)' /\ DayBound(s, t)'
  <2>0. t \in Nat /\ <<s, t>> \in Senders \X Minutes /\ DayOf(now) \in Nat /\ DayOf(t) \in Nat
    <3>1. t \in Nat
      BY MinuteIsNat
    <3> QED
      BY <1>1, <3>1, DaysPass
  <2>1. SentSet(s, t)' = SentSet(s, t)
    BY <1>2 DEF SentSet
  <2>2. \A v \in Tasks : v # w =>
          /\ v \in MayCount(s, t)' => v \in MayCount(s, t)
          /\ v \in MaySend(s, t)' => v \in MaySend(s, t)
    BY <1>2, <1>3 DEF MayCount, MaySend, SenderOf
  <2>3. /\ w \in MayCount(s, t)' => s = SenderOf(m) /\ now <= t
        /\ w \in MaySend(s, t)' => s = SenderOf(m) /\ DayOf(now) <= DayOf(t)
    BY <1>2, <1>3 DEF MayCount, MaySend, SenderOf
  <2>4. MinuteBound(s, t)'
    <3>1. CASE w \notin MayCount(s, t)'
      <4>1. MayCount(s, t)' \subseteq MayCount(s, t)
        <5> SUFFICES ASSUME NEW v \in Tasks, v \in MayCount(s, t)' PROVE v \in MayCount(s, t)
          BY DEF MayCount
        <5> QED
          BY <2>2, <3>1
      <4> QED
        BY <1>2, <1>4, <4>1, MinuteKept
    <3>2. CASE w \in MayCount(s, t)'
      <4>1. s = SenderOf(m) /\ now <= t /\ PerMinute[s] \in Nat \ {0}
        BY <2>3, <3>2, LimitsHold
      <4>2. CASE now = t
        <5>1. View(counters, w, <<s, t>>) < per_minute(s, t)
          BY <4>1, <4>2 DEF Check, can_send, minute_count
        <5>2. View(counters, w, <<s, t>>) = counters.live[<<s, t>>]
          BY <1>2, <2>0, HoldsNoCounter DEF Counted
        <5>3. per_minute(s, t) \in Nat /\ per_minute(s, t) <= PerMinute[s]
          BY LimitsHold
        <5>4. counters.live[<<s, t>>] \in Nat
          BY <1>1, <2>0, TypeFacts
        <5> QED
          BY <1>2, <1>4, <4>1, <5>1, <5>2, <5>3, <5>4, MinuteBelow
      <4>3. CASE now # t
        <5>1. counters.live[<<s, t>>] = 0
          <6>1. ~(t <= now)
            BY <1>1, <2>0, <4>1, <4>3
          <6> QED
            BY <1>1, <6>1 DEF NotAhead
        <5> QED
          BY <1>2, <1>4, <4>1, <5>1, MinuteBelow
      <4> QED
        BY <4>2, <4>3
    <3> QED
      BY <3>1, <3>2
  <2>5. DayBound(s, t)'
    <3>1. CASE w \notin MaySend(s, t)'
      <4>1. MaySend(s, t)' \subseteq MaySend(s, t)
        <5> SUFFICES ASSUME NEW v \in Tasks, v \in MaySend(s, t)' PROVE v \in MaySend(s, t)
          BY DEF MaySend
        <5> QED
          BY <2>2, <3>1
      <4> QED
        BY <2>1, <4>1, DayKept
    <3>2. CASE w \in MaySend(s, t)'
      <4>1. s = SenderOf(m) /\ DayOf(now) <= DayOf(t) /\ DayLimit(s, t) \in Nat \ {0}
        BY <2>3, <3>2, LimitsHold
      <4>2. sent_count_today(s, t)' = sent_count_today(s, t)
        BY <1>2 DEF sent_count_today
      <4>3. CASE DayOf(now) = DayOf(t)
        <5>1. sent_count_today(s, now) < per_day(s, now)
          BY <4>1 DEF Check, can_send
        <5>2. sent_count_today(s, now) = sent_count_today(s, t)
          BY <4>3 DEF sent_count_today
        <5>3. per_day(s, now) \in Nat /\ per_day(s, now) <= DayLimit(s, t)
          BY <1>1, <2>0, <4>3, LimitsHold, DayLimitOfDay
        <5>4. sent_count_today(s, t) \in Nat
          BY Countable
        <5> QED
          BY <4>1, <4>2, <5>1, <5>2, <5>3, <5>4, DayBelow
      <4>4. CASE DayOf(now) # DayOf(t)
        <5>1. SentSet(s, t) = {}
          <6> SUFFICES ASSUME NEW x \in Mails, mail[x].status = "SENT", DayOf(mail[x].at) = DayOf(t)
                       PROVE  FALSE
            BY DEF SentSet
          <6>1. PICK u \in Nat : u = mail[x].at /\ u <= now
            BY <1>1 DEF NotAhead
          <6>2. DayOf(u) <= DayOf(now)
            BY <1>1, <6>1, DaysPass
          <6> QED
            BY <2>0, <4>1, <4>4, <6>1, <6>2
        <5>2. sent_count_today(s, t) = 0
          BY <5>1, Countable, FS_EmptySet
        <5> QED
          BY <4>1, <4>2, <5>2, DayBelow
      <4> QED
        BY <4>3, <4>4
    <3> QED
      BY <3>1, <3>2
  <2> QED
    BY <2>4, <2>5
<1> QED
  BY <1>4, <1>5, <1>6, <1>7 DEF Inv, ThrottleInvariant

\* The end of a task's transaction, whatever becomes of its counters.
LEMMA WorkEnds ==
  ASSUME Inv, NEW w \in Tasks, NEW status \in {"SENT", "FAILED", "LOST"}, End(w, status),
         work[w].pc \in {"increment"} \cup Counted,
         set_back \subseteq set_back', set_back' \subseteq Senders \X Minutes,
         counters' \in Tables(Senders \X Minutes, Nat, Tasks),
         cooldown' \in Tables(Senders, Cooldowns, Tasks),
         \A k \in Senders \X Minutes :
           /\ counters'.lock[k] # w
           /\ \A v \in Tasks : counters'.lock[k] = v =>
                /\ counters.lock[k] = v /\ counters'.next[k] = counters.next[k]
           /\ k \notin set_back' => counters'.live[k] >= counters.live[k]
  PROVE  /\ Types' /\ \A v \in Tasks : WorkFits(v)' /\ CountHeld(v)'
         /\ \A m \in Mails : mail'[m].status = "SENT" => mail'[m].at \in 0..now'
         /\ \A s \in Senders, t \in Minutes :
              /\ MayCount(s, t)' = MayCount(s, t) \ {w}
              /\ MaySend(s, t)' = MaySend(s, t) \ {w}
              /\ \A m \in SentSet(s, t)' :
                   \/ m \in SentSet(s, t)
                   \/ status = "SENT" /\ m = work[w].mail /\ w \in MaySend(s, t)
<1>1. Types /\ WorkFits(w) /\ now \in Minutes /\ now \in Nat /\ NotAhead
  BY TypeFacts DEF Inv, ThrottleInvariant
<1>2. PICK m \in Mails : m = work[w].mail
  BY <1>1 DEF WorkFits, Counted
<1>3. PICK at \in Minutes : at = work[w].at /\ at \in 0..now
  <2>1. work[w].at \in 0..now
    BY <1>1 DEF WorkFits, Counted
  <2>2. 0..now \subseteq Minutes
    BY <1>1, TimeAssumption DEF Minutes
  <2> QED
    BY <2>1, <2>2
<1>4. /\ UNCHANGED <<now, paused, wake>>
      /\ mail' = [mail EXCEPT ![m] = [mail[m] EXCEPT !.status = status, !.at = at]]
      /\ work' = [work EXCEPT ![w] = Idle]
  BY <1>2, <1>3 DEF End
<1>5. /\ mail' \in [Mails -> MailRows] /\ \A x \in Mails : x # m => mail'[x] = mail[x]
      /\ mail'[m].status = status /\ mail'[m].at = at /\ mail'[m].sender = mail[m].sender
  <2>1. mail \in [Mails -> MailRows] /\ mail[m] \in MailRows
    BY <1>1, TypeFacts
  <2>2. PICK row \in MailRows :
          /\ row = [mail[m] EXCEPT !.status = status, !.at = at]
          /\ row.status = status /\ row.at = at /\ row.sender = mail[m].sender
    <3>1. status \in {"PENDING", "SENT", "FAILED", "LOST"} /\ at \in Minutes \cup {None}
      OBVIOUS
    <3>2. PICK old \in MailRows : old = mail[m]
      BY <2>1
    <3>3. [old EXCEPT !.status = status, !.at = at] \in MailRows
      BY <3>1 DEF MailRows
    <3>4. [old EXCEPT !.status = status, !.at = at].status = status
      BY DEF MailRows
    <3>5. [old EXCEPT !.status = status, !.at = at].at = at
      BY DEF MailRows
    <3>6. [old EXCEPT !.status = status, !.at = at].sender = old.sender
      BY DEF MailRows
    <3> QED
      BY <3>2, <3>3, <3>4, <3>5, <3>6
  <2>3. mail' = [mail EXCEPT ![m] = row]
    BY <1>4, <2>2
  <2> QED
    BY <2>1, <2>2, <2>3
<1>6. /\ work' \in [Tasks -> WorkRecords] /\ \A v \in Tasks : v # w => work'[v] = work[v]
      /\ work'[w].pc = "idle"
  <2>1. Idle \in WorkRecords /\ Idle.pc = "idle"
    BY DEF Idle, WorkRecords
  <2> QED
    BY <1>1, <1>4, <2>1, TypeFacts
<1>7. Types'
  <2>1. now' \in Minutes /\ paused' \in BOOLEAN /\ wake' \in Minutes \cup {None}
    BY <1>1, <1>4 DEF Types, TypeOK
  <2>2. \A x \in Mails : /\ mail'[x].status \in {"PENDING", "SENT", "FAILED", "LOST"}
                          /\ mail'[x].at \in Minutes \cup {None}
                          /\ mail'[x].sender \in Senders \cup {None}
    BY <1>5 DEF MailRows
  <2>3. \A v \in Tasks : work'[v].mail \in Mails \cup {None}
    BY <1>6 DEF WorkRecords
  <2> QED
    BY <1>5, <1>6, <2>1, <2>2, <2>3 DEF Types, TypeOK
<1>8. \A x \in Mails : mail'[x].sender = mail[x].sender
  BY <1>5
<1>9. ASSUME NEW v \in Tasks PROVE WorkFits(v)' /\ CountHeld(v)'
  <2>1. CASE v = w
    <3>1. WorkFits(w)'
      BY <1>6 DEF WorkFits, Counted
    <3>2. CountHeld(w)'
      BY <1>6 DEF CountHeld
    <3> QED
      BY <2>1, <3>1, <3>2
  <2>2. CASE v # w
    <3>1. work'[v] = work[v] /\ now' \in Minutes /\ now' >= now
      BY <1>1, <1>4, <1>6, <2>2
    <3>2. work[v].pc # "idle" => work[v].mail \in Mails
      BY DEF Inv, ThrottleInvariant, WorkFits
    <3>3. work[v].pc # "idle" => mail'[work[v].mail].sender = mail[work[v].mail].sender
      BY <1>8, <3>2
    <3> QED
      BY <3>1, <3>3, OtherTasks
  <2> QED
    BY <2>1, <2>2
<1>10. ASSUME NEW x \in Mails, mail'[x].status = "SENT" PROVE mail'[x].at \in 0..now'
  BY <1>1, <1>3, <1>4, <1>5, <1>10 DEF NotAhead
<1>11. ASSUME NEW s \in Senders, NEW t \in Minutes
       PROVE  /\ MayCount(s, t)' = MayCount(s, t) \ {w}
              /\ MaySend(s, t)' = MaySend(s, t) \ {w}
              /\ \A x \in SentSet(s, t)' :
                   \/ x \in SentSet(s, t)
                   \/ status = "SENT" /\ x = work[w].mail /\ w \in MaySend(s, t)
  <2>1. ASSUME NEW v \in Tasks
        PROVE  /\ v \in MayCount(s, t)' <=> v \in MayCount(s, t) /\ v # w
               /\ v \in MaySend(s, t)' <=> v \in MaySend(s, t) /\ v # w
    <3>1. CASE v = w
      BY <1>6, <3>1 DEF MayCount, MaySend
    <3>2. CASE v # w
      <4>1. work'[v] = work[v] /\ (work[v].pc # "idle" => work[v].mail \in Mails)
        BY <1>6, <3>2 DEF Inv, ThrottleInvariant, WorkFits
      <4>2. CASE work[v].pc = "idle"
        BY <4>1, <4>2 DEF MayCount, MaySend
      <4>3. CASE work[v].pc # "idle"
        <5>1. PICK y \in Mails : y = work[v].mail
          BY <4>1, <4>3
        <5>2. SenderOf(work[v].mail)' = SenderOf(work[v].mail)
          BY <1>8, <4>1, <5>1 DEF SenderOf
        <5> QED
          BY <1>4, <3>2, <4>1, <5>2 DEF MayCount, MaySend
      <4> QED
        BY <4>2, <4>3
    <3> QED
      BY <3>1, <3>2
  <2>2. MayCount(s, t)' = MayCount(s, t) \ {w} /\ MaySend(s, t)' = MaySend(s, t) \ {w}
    BY <2>1 DEF MayCount, MaySend
  <2>3. ASSUME NEW x \in SentSet(s, t)', x \notin SentSet(s, t)
        PROVE  status = "SENT" /\ x = work[w].mail /\ w \in MaySend(s, t)
    <3>1. x \in Mails /\ mail'[x].sender = s /\ mail'[x].status = "SENT" /\ DayOf(mail'[x].at) = DayOf(t)
      BY DEF SentSet
    <3>2. x = m
      BY <1>5, <2>3, <3>1 DEF SentSet
    <3>3. SenderOf(m) = s
      BY <1>5, <3>1, <3>2, PoolAssumption DEF SenderOf
    <3>4. DayOf(work[w].at) = DayOf(t)
      BY <1>3, <1>5, <3>1, <3>2
    <3> QED
      BY <1>2, <1>5, <3>1, <3>2, <3>3, <3>4 DEF MaySend, Counted
  <2> QED
    BY <2>2, <2>3
<1> QED
  BY <1>7, <1>9, <1>10, <1>11

\* A commit adds one to the counter and to the mails sent, and takes its task from
\* those that may still do so.
LEMMA WorkCommitted ==
  ASSUME Inv, NEW w \in Tasks, CommitWork(w)
  PROVE  Inv'
<1>1. Types /\ WorkFits(w) /\ CountHeld(w) /\ now \in Minutes /\ now \in Nat /\ NotAhead
  BY TypeFacts DEF Inv, ThrottleInvariant
<1>2. /\ work[w].pc = "commit" /\ counters' = Publish(counters, w)
      /\ cooldown' = Publish(cooldown, w)
      /\ set_back' = set_back \cup
           {k \in Senders \X Minutes : counters.lock[k] = w /\ counters.next[k] < counters.live[k]}
  BY DEF CommitWork
<1>3. PICK status \in {"SENT", "FAILED"} : End(w, status)
  BY DEF CommitWork
<1>c. counters \in Tables(Senders \X Minutes, Nat, Tasks) /\ cooldown \in Tables(Senders, Cooldowns, Tasks)
  BY <1>1, TypeFacts
<1>4. /\ counters' \in Tables(Senders \X Minutes, Nat, Tasks) /\ counters'.next = counters.next
      /\ \A k \in Senders \X Minutes :
           /\ counters'.live[k] = IF counters.lock[k] = w THEN counters.next[k] ELSE counters.live[k]
           /\ counters'.lock[k] = IF counters.lock[k] = w THEN Free ELSE counters.lock[k]
  BY <1>2, <1>c, PublishRow
<1>5. cooldown' \in Tables(Senders, Cooldowns, Tasks)
  BY <1>2, <1>c, PublishRow
<1>6. set_back \subseteq set_back' /\ set_back' \subseteq Senders \X Minutes
  BY <1>1, <1>2 DEF Types
<1>7. ASSUME NEW k \in Senders \X Minutes
      PROVE  /\ counters'.lock[k] # w
             /\ \A v \in Tasks : counters'.lock[k] = v =>
                  /\ counters.lock[k] = v /\ counters'.next[k] = counters.next[k]
             /\ k \notin set_back' => counters'.live[k] >= counters.live[k]
  <2>1. counters.live[k] \in Nat /\ counters.next[k] \in Nat /\ Free \notin Tasks
    BY <1>c, TaskAssumption DEF Tables
  <2>2. k \notin set_back' => counters'.live[k] >= counters.live[k]
    BY <1>2, <1>4, <2>1
  <2> QED
    BY <1>4, <2>1, <2>2
<1>8. /\ Types' /\ \A v \in Tasks : WorkFits(v)' /\ CountHeld(v)'
      /\ \A m \in Mails : mail'[m].status = "SENT" => mail'[m].at \in 0..now'
      /\ \A s \in Senders, t \in Minutes :
           /\ MayCount(s, t)' = MayCount(s, t) \ {w}
           /\ MaySend(s, t)' = MaySend(s, t) \ {w}
           /\ \A m \in SentSet(s, t)' :
                \/ m \in SentSet(s, t)
                \/ status = "SENT" /\ m = work[w].mail /\ w \in MaySend(s, t)
  <2>1. status \in {"SENT", "FAILED", "LOST"} /\ work[w].pc \in {"increment"} \cup Counted
    BY <1>2 DEF Counted
  <2> QED
    BY <1>3, <1>4, <1>5, <1>6, <1>7, <2>1, WorkEnds
<1>9. now' = now
  BY <1>3 DEF End
<1>10. \A k \in Senders \X Minutes : counters.lock[k] = w =>
         k = Counter(w) /\ (k \notin set_back => counters.next[k] <= counters.live[k] + 1)
  BY <1>1 DEF CountHeld
<1>11. NotAhead'
  <2>1. ASSUME NEW s \in Senders, NEW t \in Minutes, counters'.live[<<s, t>>] # 0
        PROVE  t <= now
    <3>1. CASE counters.lock[<<s, t>>] = w
      <4>1. t = work[w].window
        BY <1>10, <3>1 DEF Counter
      <4>2. work[w].window \in 0..now
        BY <1>1, <1>2 DEF WorkFits, Counted
      <4> QED
        BY <1>1, <4>1, <4>2
    <3>2. CASE counters.lock[<<s, t>>] # w
      BY <1>1, <1>4, <2>1, <3>2 DEF NotAhead
    <3> QED
      BY <3>1, <3>2
  <2> QED
    BY <1>8, <1>9, <2>1 DEF NotAhead
<1>12. ASSUME NEW s \in Senders, NEW t \in Minutes PROVE MinuteBound(s, t)' /\ DayBound(s, t)'
  <2>0. /\ MinuteBound(s, t) /\ DayBound(s, t)
        /\ MayCount(s, t)' = MayCount(s, t) \ {w} /\ MaySend(s, t)' = MaySend(s, t) \ {w}
        /\ PerMinute[s] \in Nat /\ DayLimit(s, t) \in Nat /\ <<s, t>> \in Senders \X Minutes
    BY <1>8, LimitsHold DEF Inv, ThrottleInvariant
  <2>1. MinuteBound(s, t)'
    <3>1. CASE counters.lock[<<s, t>>] = w
      <4> SUFFICES ASSUME <<s, t>> \notin set_back'
                   PROVE  counters'.live[<<s, t>>] + Cardinality(MayCount(s, t)') <
                            PerMinute[s] + Cardinality(Tasks)
        BY DEF MinuteBound
      <4>1. w \in MayCount(s, t)
        <5>1. <<s, t>> = Counter(w)
          BY <1>10, <3>1
        <5>2. s = SenderOf(work[w].mail) /\ t = work[w].window
          BY <5>1 DEF Counter
        <5> QED
          BY <1>2, <5>2 DEF MayCount
      <4>2. PICK n \in Nat, p \in Nat :
              /\ n = Cardinality(MayCount(s, t)) /\ p = Cardinality(MayCount(s, t)')
              /\ p = n - 1
        <5>1. PICK tasks : tasks = MayCount(s, t) /\ IsFiniteSet(tasks) /\ w \in tasks
          BY <4>1, Countable
        <5>2. /\ IsFiniteSet(tasks \ {w}) /\ Cardinality(tasks \ {w}) = Cardinality(tasks) - 1
              /\ Cardinality(tasks) \in Nat /\ Cardinality(tasks \ {w}) \in Nat
          BY <5>1, FS_RemoveElement, FS_CardinalityType
        <5> QED
          BY <2>0, <5>1, <5>2
      <4>3. /\ counters'.live[<<s, t>>] \in Nat /\ counters.live[<<s, t>>] \in Nat
            /\ counters'.live[<<s, t>>] <= counters.live[<<s, t>>] + 1
        BY <1>4, <1>6, <1>10, <1>c, <2>0, <3>1 DEF Tables
      <4>4. counters.live[<<s, t>>] + n < PerMinute[s] + Cardinality(Tasks)
        BY <1>6, <2>0, <4>2 DEF MinuteBound
      <4>5. Cardinality(Tasks) \in Nat
        BY Countable
      <4> QED
        BY <2>0, <4>2, <4>3, <4>4, <4>5
    <3>2. CASE counters.lock[<<s, t>>] # w
      <4>1. counters'.live[<<s, t>>] = counters.live[<<s, t>>]
        BY <1>4, <3>2
      <4> QED
        BY <1>6, <1>8, <2>0, <4>1, MinuteKept
    <3> QED
      BY <3>1, <3>2
  <2>2. DayBound(s, t)'
    <3>1. CASE status = "SENT" /\ w \in MaySend(s, t)
      <4>1. PICK n \in Nat, p \in Nat :
              /\ n = Cardinality(MaySend(s, t)) /\ p = Cardinality(MaySend(s, t)')
              /\ p = n - 1
        <5>1. PICK tasks : tasks = MaySend(s, t) /\ IsFiniteSet(tasks) /\ w \in tasks
          BY <3>1, Countable
        <5>2. /\ IsFiniteSet(tasks \ {w}) /\ Cardinality(tasks \ {w}) = Cardinality(tasks) - 1
              /\ Cardinality(tasks) \in Nat /\ Cardinality(tasks \ {w}) \in Nat
          BY <5>1, FS_RemoveElement, FS_CardinalityType
        <5> QED
          BY <2>0, <5>1, <5>2
      <4>2. SentSet(s, t)' \in SUBSET (SentSet(s, t) \cup {work[w].mail})
        BY <1>8
      <4>3. IsFiniteSet(SentSet(s, t)) /\ sent_count_today(s, t) = Cardinality(SentSet(s, t))
        BY Countable
      <4>4. PICK c \in Nat : c = Cardinality(SentSet(s, t))
        BY <4>3, FS_CardinalityType
      <4>5. /\ IsFiniteSet(SentSet(s, t) \cup {work[w].mail})
            /\ Cardinality(SentSet(s, t) \cup {work[w].mail}) \in {c, c + 1}
        BY <4>3, <4>4, FS_AddElement
      <4>6. PICK d \in Nat : d = Cardinality(SentSet(s, t)') /\ d <= c + 1
        BY <4>2, <4>4, <4>5, FS_Subset, FS_CardinalityType
      <4>7. sent_count_today(s, t)' = d
        BY <4>6 DEF sent_count_today, SentSet
      <4>8. c + n < DayLimit(s, t) + Cardinality(Tasks) /\ Cardinality(Tasks) \in Nat
        BY <2>0, <4>1, <4>3, <4>4, Countable DEF DayBound
      <4>9. d + p < DayLimit(s, t) + Cardinality(Tasks)
        BY <2>0, <4>1, <4>6, <4>8
      <4> QED
        BY <4>1, <4>7, <4>9 DEF DayBound
    <3>2. CASE ~(status = "SENT" /\ w \in MaySend(s, t))
      <4>1. SentSet(s, t)' \subseteq SentSet(s, t)
        BY <1>8, <3>2
      <4> QED
        BY <2>0, <4>1, DayKept
    <3> QED
      BY <3>1, <3>2
  <2> QED
    BY <2>1, <2>2
<1> QED
  BY <1>8, <1>11, <1>12 DEF Inv, ThrottleInvariant

\* A task that ends without a commit counts nothing.
LEMMA RecordFailed ==
  ASSUME Inv, NEW w \in Tasks, RecordFails(w)
  PROVE  Inv'
<1>1. Types /\ NotAhead
  BY DEF Inv, ThrottleInvariant
<1>2. /\ work[w].pc \in {"increment", "upsert"} /\ counters' = Discard(counters, {w})
      /\ cooldown' = Discard(cooldown, {w}) /\ End(w, "LOST") /\ set_back' = set_back
  BY DEF RecordFails, Duplicate
<1>c. counters \in Tables(Senders \X Minutes, Nat, Tasks) /\ cooldown \in Tables(Senders, Cooldowns, Tasks)
  BY <1>1, TypeFacts
<1>4. /\ counters' \in Tables(Senders \X Minutes, Nat, Tasks) /\ counters'.live = counters.live
      /\ \A k \in Senders \X Minutes :
           /\ counters'.next[k] = IF counters.lock[k] \in {w} THEN counters.live[k] ELSE counters.next[k]
           /\ counters'.lock[k] = IF counters.lock[k] \in {w} THEN Free ELSE counters.lock[k]
  BY <1>2, <1>c, DiscardRow
<1>5. cooldown' \in Tables(Senders, Cooldowns, Tasks)
  BY <1>2, <1>c, DiscardRow
<1>6. set_back' \subseteq Senders \X Minutes
  BY <1>1, <1>2 DEF Types
<1>7. ASSUME NEW k \in Senders \X Minutes
      PROVE  /\ counters'.lock[k] # w
             /\ \A v \in Tasks : counters'.lock[k] = v =>
                  /\ counters.lock[k] = v /\ counters'.next[k] = counters.next[k]
             /\ k \notin set_back' => counters'.live[k] >= counters.live[k]
  <2>1. counters.live[k] \in Nat /\ Free \notin Tasks
    BY <1>c, TaskAssumption DEF Tables
  <2> QED
    BY <1>4, <2>1
<1>8. /\ Types' /\ \A v \in Tasks : WorkFits(v)' /\ CountHeld(v)'
      /\ \A m \in Mails : mail'[m].status = "SENT" => mail'[m].at \in 0..now'
      /\ \A s \in Senders, t \in Minutes :
           /\ MayCount(s, t)' = MayCount(s, t) \ {w}
           /\ MaySend(s, t)' = MaySend(s, t) \ {w}
           /\ \A m \in SentSet(s, t)' :
                \/ m \in SentSet(s, t)
                \/ "LOST" = "SENT" /\ m = work[w].mail /\ w \in MaySend(s, t)
  BY <1>2, <1>4, <1>5, <1>6, <1>7, WorkEnds DEF Counted
<1>9. NotAhead'
  BY <1>1, <1>2, <1>4, <1>8 DEF NotAhead, End
<1>10. ASSUME NEW s \in Senders, NEW t \in Minutes PROVE MinuteBound(s, t)' /\ DayBound(s, t)'
  <2>1. /\ MayCount(s, t)' \subseteq MayCount(s, t) /\ MaySend(s, t)' \subseteq MaySend(s, t)
        /\ SentSet(s, t)' \subseteq SentSet(s, t)
    BY <1>8
  <2>2. counters'.live[<<s, t>>] = counters.live[<<s, t>>]
    BY <1>4
  <2> QED
    BY <1>2, <1>8, <2>1, <2>2, MinuteKept, DayKept
<1> QED
  BY <1>8, <1>9, <1>10 DEF Inv, ThrottleInvariant

\* A job nobody works on goes to another sender: nothing is counted.
LEMMA Reassigned ==
  ASSUME Inv, NEW w \in Tasks, NEW m \in Mails, NEW s \in Senders, Reassign(w, m, s)
  PROVE  Inv'
<1>1. Types /\ now \in Minutes /\ now \in Nat /\ NotAhead
  BY TypeFacts DEF Inv, ThrottleInvariant
<1>2. /\ mail[m].status = "PENDING" /\ \A v \in Tasks : work[v].mail # m
      /\ UNCHANGED <<now, counters, cooldown, set_back, paused, work, wake>>
      /\ mail' = [mail EXCEPT ![m].sender = s]
  BY DEF Reassign, Untaken, records
<1>3. /\ mail' \in [Mails -> MailRows] /\ \A x \in Mails : x # m => mail'[x] = mail[x]
      /\ mail'[m].status = mail[m].status
  <2>1. mail \in [Mails -> MailRows]
    BY <1>1, TypeFacts
  <2>2. PICK old \in MailRows : old = mail[m]
    BY <2>1
  <2>3. [old EXCEPT !.sender = s] \in MailRows /\ [old EXCEPT !.sender = s].status = old.status
    BY DEF MailRows
  <2> QED
    BY <1>2, <2>1, <2>2, <2>3
<1>4. Types'
  <2>1. \A x \in Mails : /\ mail'[x].status \in {"PENDING", "SENT", "FAILED", "LOST"}
                          /\ mail'[x].at \in Minutes \cup {None}
                          /\ mail'[x].sender \in Senders \cup {None}
    BY <1>3 DEF MailRows
  <2> QED
    BY <1>1, <1>2, <1>3, <2>1 DEF Types, TypeOK
<1>5. ASSUME NEW v \in Tasks
      PROVE  work[v].pc # "idle" => work[v].mail \in Mails /\ mail'[work[v].mail] = mail[work[v].mail]
  BY <1>2, <1>3 DEF Inv, ThrottleInvariant, WorkFits
<1>6. ASSUME NEW v \in Tasks PROVE WorkFits(v)' /\ CountHeld(v)'
  <2>1. /\ counters \in Tables(Senders \X Minutes, Nat, Tasks)
        /\ \A k \in Senders \X Minutes : counters.live[k] \in Nat
    BY <1>1, TypeFacts
  <2>2. \A k \in Senders \X Minutes :
          /\ counters'.lock[k] = v => /\ counters.lock[k] = v
                                      /\ counters'.next[k] = counters.next[k]
          /\ k \notin set_back' => counters'.live[k] >= counters.live[k]
    BY <1>2, <2>1
  <2>3. work'[v] = work[v] /\ now' \in Minutes /\ now' >= now /\ set_back \subseteq set_back'
    BY <1>1, <1>2
  <2> QED
    BY <1>2, <1>5, <2>1, <2>2, <2>3, OtherTasks
<1>7. NotAhead'
  BY <1>1, <1>2, <1>3 DEF NotAhead
<1>8. ASSUME NEW x \in Senders, NEW t \in Minutes PROVE MinuteBound(x, t)' /\ DayBound(x, t)'
  <2>1. \A v \in Tasks : /\ v \in MayCount(x, t)' => v \in MayCount(x, t)
                         /\ v \in MaySend(x, t)' => v \in MaySend(x, t)
    BY <1>2, <1>5 DEF MayCount, MaySend, SenderOf
  <2>2. MayCount(x, t)' \subseteq MayCount(x, t)
    <3> SUFFICES ASSUME NEW v \in Tasks, v \in MayCount(x, t)' PROVE v \in MayCount(x, t)
      BY DEF MayCount
    <3> QED
      BY <2>1
  <2>4. MaySend(x, t)' \subseteq MaySend(x, t)
    <3> SUFFICES ASSUME NEW v \in Tasks, v \in MaySend(x, t)' PROVE v \in MaySend(x, t)
      BY DEF MaySend
    <3> QED
      BY <2>1
  <2>3. SentSet(x, t)' \subseteq SentSet(x, t)
    <3> SUFFICES ASSUME NEW y \in Mails, y \in SentSet(x, t)' PROVE y \in SentSet(x, t)
      BY DEF SentSet
    <3>1. mail'[y].status = "SENT"
      BY DEF SentSet
    <3>2. y # m
      BY <1>2, <1>3, <3>1
    <3> QED
      BY <1>3, <3>2 DEF SentSet
  <2> QED
    BY <1>2, <1>4, <2>2, <2>3, <2>4, MinuteKept, DayKept
<1> QED
  BY <1>4, <1>6, <1>7, <1>8 DEF Inv, ThrottleInvariant

\* Pausing and waking the campaign touch no counter and no task, and so does time.
LEMMA TimePasses ==
  ASSUME Inv, UNCHANGED <<records, mail, work>>, now' \in Minutes, now' >= now,
         paused' \in BOOLEAN, wake' \in Minutes \cup {None}
  PROVE  Inv'
<1>1. Types /\ now \in Minutes /\ now \in Nat /\ now' \in Nat /\ NotAhead
  BY TypeFacts, MinuteIsNat DEF Inv, ThrottleInvariant
<1>2. UNCHANGED <<counters, cooldown, set_back, mail, work>>
  BY DEF records
<1>3. Types'
  BY <1>1, <1>2 DEF Types, TypeOK
<1>4. ASSUME NEW v \in Tasks PROVE WorkFits(v)' /\ CountHeld(v)'
  <2>1. /\ counters \in Tables(Senders \X Minutes, Nat, Tasks)
        /\ \A k \in Senders \X Minutes : counters.live[k] \in Nat
    BY <1>1, TypeFacts
  <2>2. \A k \in Senders \X Minutes :
          /\ counters'.lock[k] = v => /\ counters.lock[k] = v
                                      /\ counters'.next[k] = counters.next[k]
          /\ k \notin set_back' => counters'.live[k] >= counters.live[k]
    BY <1>2, <2>1
  <2> QED
    BY <1>2, <2>1, <2>2, OtherTasks
<1>5. NotAhead'
  <2>1. ASSUME NEW x \in Senders, NEW t \in Minutes, counters'.live[<<x, t>>] # 0 PROVE t <= now'
    <3>1. t \in Nat /\ t <= now
      BY <1>1, <1>2, <2>1, MinuteIsNat DEF NotAhead
    <3> QED
      BY <1>1, <3>1
  <2>2. ASSUME NEW m \in Mails, mail'[m].status = "SENT" PROVE mail'[m].at \in 0..now'
    <3>1. mail[m].at \in 0..now
      BY <1>1, <1>2, <2>2 DEF NotAhead
    <3> QED
      BY <1>1, <1>2, <3>1
  <2> QED
    BY <2>1, <2>2 DEF NotAhead
<1>6. ASSUME NEW x \in Senders, NEW t \in Minutes PROVE MinuteBound(x, t)' /\ DayBound(x, t)'
  <2>0. /\ t \in Nat /\ DayOf(now) \in Nat /\ DayOf(now') \in Nat /\ DayOf(t) \in Nat
        /\ DayOf(now) <= DayOf(now')
    <3>1. t \in Nat
      BY MinuteIsNat
    <3> QED
      BY <1>1, <3>1, DaysPass
  <2>1. now' <= t => now <= t
    BY <1>1, <2>0
  <2>2. DayOf(now') <= DayOf(t) => DayOf(now) <= DayOf(t)
    BY <2>0
  <2>3. MayCount(x, t)' \subseteq MayCount(x, t)
    <3> SUFFICES ASSUME NEW v \in Tasks, v \in MayCount(x, t)' PROVE v \in MayCount(x, t)
      BY DEF MayCount
    <3> QED
      BY <1>2, <2>1 DEF MayCount, SenderOf
  <2>4. MaySend(x, t)' \subseteq MaySend(x, t)
    <3> SUFFICES ASSUME NEW v \in Tasks, v \in MaySend(x, t)' PROVE v \in MaySend(x, t)
      BY DEF MaySend
    <3>1. CASE work[v].pc = "smtp"
      <4>1. DayOf(now') <= DayOf(t)
        BY <1>2, <3>1 DEF MaySend
      <4> QED
        BY <1>2, <2>2, <3>1, <4>1 DEF MaySend, SenderOf
    <3>2. CASE work[v].pc # "smtp"
      BY <1>2, <3>2 DEF MaySend, SenderOf
    <3> QED
      BY <3>1, <3>2
  <2>5. SentSet(x, t)' \subseteq SentSet(x, t)
    BY <1>2 DEF SentSet
  <2> QED
    BY <1>2, <1>3, <2>3, <2>4, <2>5, MinuteKept, DayKept
<1> QED
  BY <1>3, <1>4, <1>5, <1>6 DEF Inv, ThrottleInvariant

\* A sender is ready again now or later: later, if it has no capacity left today.
LEMMA ResumeTimes ==
  ASSUME Types, NEW s \in Senders, NEW w
  PROVE  /\ resume_time(w, s, now) \in Nat
         /\ resume_time(w, s, now) <= now => has_daily_capacity(s, now)
<1>1. now \in Nat /\ HourLength \in Nat \ {0} /\ DayLength \in Nat \ {0}
  BY TypeFacts, TimeAssumption
<1>2. CASE InCooldown(w, s, now)
  <2>1. View(cooldown, w, s) \in Cooldowns
    BY TypeFacts, ViewRow
  <2>2. /\ View(cooldown, w, s).until # None /\ View(cooldown, w, s).until > now
        /\ View(cooldown, w, s).until \in Nat
    BY <1>2, <2>1 DEF InCooldown, Cooldowns
  <2>3. resume_time(w, s, now) = View(cooldown, w, s).until
    BY <1>2 DEF resume_time
  <2> QED
    BY <1>1, <2>2, <2>3
<1>3. CASE ~InCooldown(w, s, now) /\ ~has_daily_capacity(s, now)
  <2>1. PICK d \in Nat : d = DayOf(now)
    BY <1>1, Quotient DEF DayOf
  <2>2. PICK r \in 0..(DayLength - 1) : now = DayLength * d + r
    BY <1>1, <2>1, Quotient DEF DayOf
  <2>3. PICK p \in Nat : p = DayLength * d
    BY <1>1
  <2>4. (d + 1) * DayLength = p + DayLength
    BY <1>1, <2>3
  <2>5. resume_time(w, s, now) = p + DayLength
    BY <1>3, <2>1, <2>4 DEF resume_time, next_midnight
  <2> QED
    BY <1>1, <2>2, <2>3, <2>5
<1>4. CASE ~InCooldown(w, s, now) /\ has_daily_capacity(s, now)
  <2>1. PICK h \in Nat : h = (HourOf(now) + 1) * HourLength
    <3>1. PICK q \in Nat : q = HourOf(now)
      BY <1>1, Quotient DEF HourOf
    <3>2. (q + 1) * HourLength \in Nat
      BY <1>1
    <3> QED
      BY <3>1, <3>2
  <2>2. resume_time(w, s, now) \in {h, now + 1, now}
    BY <1>4, <2>1 DEF resume_time
  <2> QED
    BY <1>1, <1>4, <2>1, <2>2
<1> QED
  BY <1>2, <1>3, <1>4

\* The earliest of these times is one of them, or tomorrow.
LEMMA EarliestTime ==
  ASSUME Types, NEW w
  PROVE  /\ earliest_resume_time(w, now) \in Nat
         /\ earliest_resume_time(w, now) <= now => \E s \in Senders : has_daily_capacity(s, now)
<1>1. now \in Nat /\ DayLength \in Nat \ {0}
  BY TypeFacts, TimeAssumption
<1>2. PICK times : times = {now + DayLength} \cup {resume_time(w, s, now) : s \in Senders}
  OBVIOUS
<1>3. times \subseteq Nat /\ times # {}
  BY <1>1, <1>2, ResumeTimes
<1>4. PICK least \in times : \A x \in times : least <= x
  BY <1>3, LeastOf
<1>5. Min(times) \in times
  BY <1>4 DEF Min
<1>6. earliest_resume_time(w, now) = Min(times)
  BY <1>2 DEF earliest_resume_time
<1>7. ~(now + DayLength <= now)
  BY <1>1
<1> QED
  BY <1>2, <1>3, <1>5, <1>6, <1>7, ResumeTimes

\* Every step keeps the invariant.
LEMMA NextInv == Inv /\ [Next]_vars => Inv'
<1> SUFFICES ASSUME Inv, [Next]_vars PROVE Inv'
  OBVIOUS
<1>1. /\ now \in Minutes /\ now \in Nat /\ now >= now
      /\ paused \in BOOLEAN /\ wake \in Minutes \cup {None}
  BY MinuteIsNat DEF Inv, Types, TypeOK
<1>2. CASE UNCHANGED vars
  BY <1>1, <1>2, TimePasses DEF vars
<1>3. CASE StartWake
  BY <1>1, <1>3, TimePasses DEF StartWake
<1>4. CASE Wake
  <2>1. paused' \in BOOLEAN
    <3>1. PICK earliest \in Nat : earliest = earliest_resume_time("auto_resume", now)
      BY EarliestTime DEF Inv
    <3>2. wake \in Nat
      BY <1>1, <1>4, MinuteIsNat DEF Wake
    <3>3. CASE earliest > wake
      BY <1>4, <3>1, <3>3, Zenon DEF Wake
    <3>4. CASE ~(earliest > wake)
      <4>1. (earliest > wake) = FALSE
        BY <3>1, <3>2, <3>4
      <4> QED
        BY <1>4, <3>1, <4>1, Zenon DEF Wake
    <3> QED
      BY <3>3, <3>4
  <2> QED
    BY <1>1, <1>4, <2>1, TimePasses DEF Wake
<1>5. CASE Tick
  <2>1. now' \in Minutes /\ now' >= now
    BY <1>1, <1>5, TimeAssumption DEF Tick, Minutes
  <2> QED
    BY <1>1, <1>5, <2>1, TimePasses DEF Tick
<1>6. ASSUME NEW w \in Tasks, WorkStep(w) PROVE Inv'
  <2>1. ASSUME NEW m \in Mails, Check(w, m) PROVE Inv'
    BY <2>1, CheckPassed
  <2>2. ASSUME NEW m \in Mails, PauseExhausted(w, m) PROVE Inv'
    BY <1>1, <2>2, TimePasses DEF PauseExhausted
  <2>3. ASSUME NEW m \in Mails, NEW s \in Senders, Reassign(w, m, s) PROVE Inv'
    BY <2>3, Reassigned
  <2>4. ASSUME NEW outcome \in Outcomes, HandOver(w, outcome) PROVE Inv'
    BY <2>4, HandedOver
  <2>5. CASE ReadCounter(w)
    BY <2>5, CounterRead
  <2>6. CASE WriteCounter(w)
    BY <2>6, CounterWritten
  <2>7. CASE ReadErrors(w) \/ SelectCooldown(w)
    BY <2>7, CooldownRead
  <2>8. CASE WriteCooldown(w)
    BY <2>8, CooldownWritten
  <2>9. CASE CommitWork(w)
    BY <2>9, WorkCommitted
  <2>10. CASE RecordFails(w)
    BY <2>10, RecordFailed
  <2> QED
    BY <1>6, <2>1, <2>2, <2>3, <2>4, <2>5, <2>6, <2>7, <2>8, <2>9, <2>10 DEF WorkStep
<1> QED
  BY <1>2, <1>3, <1>4, <1>5, <1>6 DEF Next

\* The inductive invariant holds.
THEOREM ThrottleInvariantHolds == Spec => []Inv
<1>1. Init => Inv
  BY InitInv
<1>2. Inv /\ [Next]_vars => Inv'
  BY NextInv
<1> QED
  BY <1>1, <1>2, PTL DEF Spec
-----------------------------------------------------------------------------
\* What the tables, the jobs and the clock hold is always of its type.
THEOREM ThrottleTyped == Spec => []TypeOK
<1>1. Inv => TypeOK
  BY DEF Inv, Types
<1> QED
  BY <1>1, ThrottleInvariantHolds, PTL

\* What may still be counted in a minute is part of its bound.
LEMMA MinuteNotPassed ==
  ASSUME Inv, NEW s \in Senders, NEW t \in Minutes
  PROVE  MinuteOvershoot(s, t)
<1>1. MinuteBound(s, t)
  BY DEF Inv, ThrottleInvariant
<1>2. /\ counters.live[<<s, t>>] \in Nat /\ PerMinute[s] \in Nat
      /\ Cardinality(MayCount(s, t)) \in Nat /\ Cardinality(Tasks) \in Nat
  BY Countable, LimitsHold, TypeFacts DEF Inv
<1> QED
  BY <1>1, <1>2 DEF MinuteBound, MinuteOvershoot

\* The mails a sender sends on a day pass its limit for that day, which may be its
\* warm-up's, by less than there are tasks.
THEOREM DayOvershootHolds == Spec => []DayOvershoot
<1>1. ASSUME Inv, NEW s \in Senders, NEW t \in Minutes
      PROVE  sent_count_today(s, t) < DayLimit(s, t) + Cardinality(Tasks)
  <2>1. DayBound(s, t)
    BY <1>1 DEF Inv, ThrottleInvariant
  <2>2. /\ sent_count_today(s, t) \in Nat /\ DayLimit(s, t) \in Nat
        /\ Cardinality(MaySend(s, t)) \in Nat /\ Cardinality(Tasks) \in Nat
    BY Countable, LimitsHold
  <2> QED
    BY <2>1, <2>2 DEF DayBound
<1>2. Inv => DayOvershoot
  BY <1>1 DEF DayOvershoot
<1> QED
  BY <1>2, ThrottleInvariantHolds, PTL
-----------------------------------------------------------------------------
(***************************************************************************)
(* The hour.  Its count is a sum of counters; a commit changes one of them *)
(* by one, so it goes with the tasks that may still count as the counter   *)
(* of a minute does.                                                       *)
(***************************************************************************)

\* What the sums of an hour are made of.
LEMMA HourFinite ==
  ASSUME Types, NEW s \in Senders, NEW t \in Minutes
  PROVE  /\ IsFiniteSet(Hour(t)) /\ Hour(t) \subseteq Minutes /\ t \in Hour(t)
         /\ \A u \in Minutes : <<s, u>> \in Senders \X Minutes /\ counters.live[<<s, u>>] \in Nat
<1>1. IsFiniteSet(Minutes)
  BY TimeAssumption, FS_Interval DEF Minutes
<1>2. Hour(t) \in SUBSET Minutes /\ t \in Hour(t)
  BY DEF Hour
<1>3. \A u \in Minutes : <<s, u>> \in Senders \X Minutes /\ counters.live[<<s, u>>] \in Nat
  BY TypeFacts
<1> QED
  BY <1>1, <1>2, <1>3, FS_Subset

\* The hour's count as the invariant sums it up ...
LEMMA HourSum ==
  ASSUME Types, NEW s \in Senders, NEW t \in Minutes
  PROVE  MapThenSumSet(LAMBDA u : counters.live[<<s, u>>], Hour(t)) = HourCount(s, t)
<1> DEFINE c == [u \in Minutes |-> counters.live[<<s, u>>]]
           H == Hour(t)
           Sums(G) == G = [T \in SUBSET H |->
                             IF T = {} THEN 0 ELSE counters.live[<<s, Pick(T)>>] + G[T \ {Pick(T)}]]
           F == CHOOSE G : Sums(G)
<1>1. IsFiniteSet(H) /\ H \subseteq Minutes /\ \A u \in H : c[u] = counters.live[<<s, u>>] /\ c[u] \in Nat
  BY HourFinite
<1>2. MapThenSumSet(LAMBDA u : counters.live[<<s, u>>], H) = F[H]
  BY DEF MapThenSumSet, MapThenFoldSet, Pick
<1>3. ASSUME NEW G PROVE Adds(G, c, H) <=> Sums(G)
  <2> HIDE DEF c, H
  <2>1. \A T \in SUBSET H : T # {} => Pick(T) \in H
    BY DEF Pick
  <2>2. \A T \in SUBSET H : T # {} => c[Pick(T)] = counters.live[<<s, Pick(T)>>]
    BY <1>1, <2>1
  <2>3. [T \in SUBSET H |-> IF T = {} THEN 0 ELSE c[Pick(T)] + G[T \ {Pick(T)}]]
          = [T \in SUBSET H |->
               IF T = {} THEN 0 ELSE counters.live[<<s, Pick(T)>>] + G[T \ {Pick(T)}]]
    BY <2>2
  <2> QED
    BY <2>3 DEF Adds
<1>4. Adds(F, c, H)
  <2> HIDE DEF Sums, c, H
  <2>1. \E G : Adds(G, c, H)
    BY <1>1, SumsExist
  <2>2. \E G : Sums(G)
    BY <1>3, <2>1
  <2> QED
    BY <1>3, <2>2
<1>5. F[H] = SumOver(c, H)
  <2> HIDE DEF F, c, H
  <2> QED
    BY <1>1, <1>4, SumUnique
<1> QED
  BY <1>2, <1>5 DEF HourCount

\* ... and as a task that holds no counter reads it.
LEMMA HourSeen ==
  ASSUME Inv, NEW w \in Tasks, work[w].pc \notin Counted, NEW s \in Senders, NEW t \in Minutes
  PROVE  hour_count(w, s, t) = HourCount(s, t)
<1> DEFINE c == [u \in Minutes |-> counters.live[<<s, u>>]]
           H == Hour(t)
           Sums(G) == G = [T \in SUBSET H |->
                             IF T = {} THEN 0
                             ELSE View(counters, w, <<s, Pick(T)>>) + G[T \ {Pick(T)}]]
           F == CHOOSE G : Sums(G)
<1>1. IsFiniteSet(H) /\ H \subseteq Minutes /\ \A u \in H : c[u] = counters.live[<<s, u>>] /\ c[u] \in Nat
  BY HourFinite DEF Inv
<1>2. hour_count(w, s, t) = F[H]
  BY DEF hour_count, MapThenSumSet, MapThenFoldSet, Pick, Hour
<1>3. ASSUME NEW G PROVE Adds(G, c, H) <=> Sums(G)
  <2> HIDE DEF c, H
  <2>1. \A T \in SUBSET H : T # {} => Pick(T) \in H
    BY DEF Pick
  <2>2. \A u \in H : View(counters, w, <<s, u>>) = counters.live[<<s, u>>]
    BY <1>1, HoldsNoCounter
  <2>3. \A T \in SUBSET H : T # {} => c[Pick(T)] = View(counters, w, <<s, Pick(T)>>)
    BY <1>1, <2>1, <2>2
  <2>4. [T \in SUBSET H |-> IF T = {} THEN 0 ELSE c[Pick(T)] + G[T \ {Pick(T)}]]
          = [T \in SUBSET H |->
               IF T = {} THEN 0 ELSE View(counters, w, <<s, Pick(T)>>) + G[T \ {Pick(T)}]]
    BY <2>3
  <2> QED
    BY <2>4 DEF Adds
<1>4. Adds(F, c, H)
  <2> HIDE DEF Sums, c, H
  <2>1. \E G : Adds(G, c, H)
    BY <1>1, SumsExist
  <2>2. \E G : Sums(G)
    BY <1>3, <2>1
  <2> QED
    BY <1>3, <2>2
<1>5. F[H] = SumOver(c, H)
  <2> HIDE DEF F, c, H
  <2> QED
    BY <1>1, <1>4, SumUnique
<1> QED
  BY <1>2, <1>5 DEF HourCount

\* An hour's check compares with no more than the limits that were set.
LEMMA HourlyHolds ==
  ASSUME NEW s \in Senders, NEW t \in Minutes, NEW n \in Nat, n < Hourly(per_hour(s, t))
  PROVE  \A limit \in HourLimits(s) : limit \in Nat \ {0} /\ n < limit
<1>1. PICK hour \in Nat \ {0} : hour = PerHour[s]
  BY LimitsAssumption
<1>2. PICK slowed \in Nat : slowed = per_hour(s, t) /\ slowed <= hour
  BY <1>1, SlowedLimit DEF per_hour
<1>3. CampaignHourly \in Nat
  BY LimitsAssumption
<1>4. CASE CampaignHourly = 0
  BY <1>1, <1>2, <1>4 DEF Hourly, HourLimits
<1>5. CASE CampaignHourly # 0
  <2>1. n < Min({slowed, CampaignHourly})
    BY <1>2, <1>5 DEF Hourly
  <2>2. /\ Min({slowed, CampaignHourly}) \in {slowed, CampaignHourly}
        /\ Min({slowed, CampaignHourly}) <= slowed
        /\ Min({slowed, CampaignHourly}) <= CampaignHourly
    <3>1. slowed \in Int /\ CampaignHourly \in Int
      BY <1>3
    <3> QED
      BY <3>1, MinOf
  <2>3. n < slowed /\ n < CampaignHourly
    BY <1>3, <2>1, <2>2
  <2> QED
    BY <1>1, <1>2, <1>3, <1>5, <2>3 DEF HourLimits
<1> QED
  BY <1>4, <1>5

\* The limits, the tasks and the counts are numbers.
LEMMA HourNumbers ==
  ASSUME NEW s \in Senders, NEW t \in Minutes
  PROVE  /\ HourLimits(s) \subseteq Nat \ {0}
         /\ Cardinality(Tasks) \in Nat /\ IsFiniteSet(MayCountHour(s, t))
         /\ Cardinality(MayCountHour(s, t)) \in Nat
         /\ Cardinality(MayCountHour(s, t)) <= Cardinality(Tasks)
         /\ Types => HourCount(s, t) \in Nat
<1>1. HourLimits(s) \subseteq Nat \ {0}
  BY LimitsAssumption DEF HourLimits
<1>2. MayCountHour(s, t) \in SUBSET Tasks
  BY DEF MayCountHour
<1>3. ASSUME Types PROVE HourCount(s, t) \in Nat
  <2> DEFINE c == [u \in Minutes |-> counters.live[<<s, u>>]]
  <2>1. IsFiniteSet(Hour(t)) /\ \A u \in Hour(t) : c[u] \in Nat /\ c[u] = c[u]
    BY <1>3, HourFinite
  <2> HIDE DEF c
  <2>2. SumOver(c, Hour(t)) \in Nat
    BY <2>1, SumSame
  <2> QED
    BY <2>2 DEF HourCount, c
<1> QED
  BY <1>1, <1>2, <1>3, FiniteAssumption, FS_Subset, FS_CardinalityType

\* The hour's bound holds on when its counters stay and no task is added to those that
\* may still count.
LEMMA HourKept ==
  ASSUME Types, Types', NEW s \in Senders, NEW t \in Minutes, HourBound(s, t),
         set_back \subseteq set_back', counters'.live = counters.live,
         MayCountHour(s, t)' \subseteq MayCountHour(s, t)
  PROVE  HourBound(s, t)'
<1>1. HourCount(s, t)' = HourCount(s, t)
  BY DEF HourCount, Hour
<1>2. /\ HourLimits(s) \subseteq Nat \ {0} /\ Cardinality(Tasks) \in Nat
      /\ IsFiniteSet(MayCountHour(s, t)) /\ Cardinality(MayCountHour(s, t)) \in Nat
      /\ HourCount(s, t) \in Nat
  BY HourNumbers
<1>3. /\ Cardinality(MayCountHour(s, t)') \in Nat
      /\ Cardinality(MayCountHour(s, t)') <= Cardinality(MayCountHour(s, t))
  BY <1>2, FS_Subset, FS_CardinalityType
<1>4. HourIntact(s, t)' => HourIntact(s, t)
  BY DEF HourIntact, Hour
<1>5. HourLimits(s)' = HourLimits(s)
  BY DEF HourLimits
<1> QED
  BY <1>1, <1>2, <1>3, <1>4, <1>5 DEF HourBound

\* It holds in any case while the hour's count has not reached the limits.
LEMMA HourBelow ==
  ASSUME NEW s \in Senders, NEW t \in Minutes, HourCount(s, t)' \in Nat,
         \A limit \in HourLimits(s) : HourCount(s, t)' < limit
  PROVE  HourBound(s, t)'
<1>1. HourLimits(s) \subseteq Nat \ {0} /\ HourLimits(s)' = HourLimits(s)
  BY HourNumbers DEF HourLimits
<1>2. IsFiniteSet(Tasks) /\ MayCountHour(s, t)' \in SUBSET Tasks
  BY FiniteAssumption DEF MayCountHour
<1>3. /\ Cardinality(Tasks) \in Nat /\ Cardinality(MayCountHour(s, t)') \in Nat
      /\ Cardinality(MayCountHour(s, t)') <= Cardinality(Tasks)
  BY <1>2, FS_Subset, FS_CardinalityType
<1> QED
  BY <1>1, <1>3 DEF HourBound

\* Nothing is counted in an hour that has not come.
LEMMA HourAhead ==
  ASSUME Types, NotAhead, NEW s \in Senders, NEW t \in Minutes, HourOf(now) < HourOf(t)
  PROVE  HourCount(s, t) = 0
<1>1. ASSUME NEW u \in Hour(t) PROVE counters.live[<<s, u>>] = 0
  <2>1. u \in Minutes /\ u \in Nat /\ now \in Nat /\ HourOf(u) = HourOf(t)
    BY MinuteIsNat, TypeFacts DEF Hour
  <2>2. ~(u <= now)
    <3>1. HourOf(now) \in Nat /\ HourOf(u) \in Nat
      BY <2>1, QuotientsGrow, TimeAssumption DEF HourOf
    <3> QED
      BY <2>1, <3>1, HoursPass
  <2> QED
    BY <2>1, <2>2 DEF NotAhead
<1> DEFINE c == [u \in Minutes |-> counters.live[<<s, u>>]]
<1>2. IsFiniteSet(Hour(t)) /\ \A u \in Hour(t) : c[u] = 0
  BY <1>1, HourFinite
<1> HIDE DEF c
<1>3. SumOver(c, Hour(t)) = 0
  BY <1>2, SumZero
<1> QED
  BY <1>3 DEF HourCount, c

\* A check passes only while the hour is below its limits.
LEMMA HourChecked ==
  ASSUME Inv, Inv', HourInvariant, NEW w \in Tasks, NEW m \in Mails, Check(w, m),
         NEW s \in Senders, NEW t \in Minutes
  PROVE  HourBound(s, t)'
<1>1. /\ Types /\ Types' /\ NotAhead /\ now \in Minutes /\ now \in Nat /\ t \in Nat
      /\ HourBound(s, t)
  BY TypeFacts, MinuteIsNat DEF Inv, ThrottleInvariant, HourInvariant
<1>2. /\ work[w].pc = "idle" /\ UNCHANGED <<now, counters, set_back, mail>>
      /\ work' = [work EXCEPT ![w] = [Idle EXCEPT !.pc = "smtp", !.mail = m]]
      /\ can_send(w, SenderOf(m), now)
  BY DEF Check, records
<1>3. /\ \A v \in Tasks : v # w => work'[v] = work[v]
      /\ work'[w].pc = "smtp" /\ work'[w].mail = m
  <2>1. work \in [Tasks -> WorkRecords]
    BY <1>1, TypeFacts
  <2> QED
    BY <1>2, <2>1 DEF Idle
<1>4. HourOf(now) \in Nat /\ HourOf(t) \in Nat
  BY <1>1, QuotientsGrow, TimeAssumption DEF HourOf
<1>5. CASE w \notin MayCountHour(s, t)'
  <2>1. MayCountHour(s, t)' \subseteq MayCountHour(s, t)
    <3> SUFFICES ASSUME NEW v \in Tasks, v \in MayCountHour(s, t)' PROVE v \in MayCountHour(s, t)
      BY DEF MayCountHour
    <3> QED
      BY <1>2, <1>3, <1>5 DEF MayCountHour, SenderOf
  <2> QED
    BY <1>1, <1>2, <2>1, HourKept
<1>6. CASE w \in MayCountHour(s, t)'
  <2>1. s = SenderOf(m) /\ HourOf(now) <= HourOf(t)
    BY <1>2, <1>3, <1>6 DEF MayCountHour, SenderOf
  <2>2. HourCount(s, t)' = HourCount(s, t) /\ HourCount(s, t) \in Nat
    BY <1>1, <1>2, HourNumbers DEF HourCount, Hour
  <2>3. \A limit \in HourLimits(s) : HourCount(s, t) < limit
    <3>1. CASE HourOf(now) = HourOf(t)
      <4>1. Hour(now) = Hour(t)
        BY <3>1 DEF Hour
      <4>2. hour_count(w, s, now) < Hourly(per_hour(s, now))
        BY <1>2, <2>1 DEF can_send
      <4>3. hour_count(w, s, now) = HourCount(s, t)
        <5>1. hour_count(w, s, now) = HourCount(s, now)
          BY <1>1, <1>2, HourSeen DEF Counted
        <5> QED
          BY <4>1, <5>1 DEF HourCount
      <4> QED
        BY <1>1, <2>2, <4>2, <4>3, HourlyHolds
    <3>2. CASE HourOf(now) < HourOf(t)
      BY <1>1, <3>2, HourAhead, HourNumbers
    <3> QED
      BY <1>4, <2>1, <3>1, <3>2
  <2> QED
    BY <2>2, <2>3, HourBelow
<1> QED
  BY <1>5, <1>6

\* A task goes on with its mail and may count no more than before.
LEMMA HourMoves ==
  ASSUME Inv, Inv', HourInvariant, NEW w \in Tasks, UNCHANGED <<now, set_back, mail>>,
         counters'.live = counters.live,
         \A v \in Tasks : v # w => work'[v] = work[v],
         work[w].pc # "idle", work'[w].mail = work[w].mail,
         \A t \in Minutes :
           (IF work'[w].pc \in {"smtp", "count"} THEN HourOf(now) <= HourOf(t)
            ELSE HourOf(work'[w].window) = HourOf(t))
             => (IF work[w].pc \in {"smtp", "count"} THEN HourOf(now) <= HourOf(t)
                 ELSE HourOf(work[w].window) = HourOf(t))
  PROVE  HourInvariant'
<1> SUFFICES ASSUME NEW s \in Senders, NEW t \in Minutes PROVE HourBound(s, t)'
  BY DEF HourInvariant
<1>1. Types /\ Types' /\ HourBound(s, t)
  BY DEF Inv, HourInvariant
<1>2. MayCountHour(s, t)' \subseteq MayCountHour(s, t)
  <2> SUFFICES ASSUME NEW v \in Tasks, v \in MayCountHour(s, t)' PROVE v \in MayCountHour(s, t)
    BY DEF MayCountHour
  <2>1. CASE v = w
    BY <2>1 DEF MayCountHour, SenderOf
  <2>2. CASE v # w
    BY <2>2 DEF MayCountHour, SenderOf
  <2> QED
    BY <2>1, <2>2
<1> QED
  BY <1>1, <1>2, HourKept

\* A task ends: it counts nothing any more.
LEMMA HourTaskEnds ==
  ASSUME Inv, NEW w \in Tasks, NEW status, End(w, status), NEW s \in Senders, NEW t \in Minutes
  PROVE  MayCountHour(s, t)' = MayCountHour(s, t) \ {w}
<1>1. /\ mail \in [Mails -> MailRows] /\ work \in [Tasks -> WorkRecords] /\ now' = now
      /\ mail' = [mail EXCEPT ![work[w].mail] = [@ EXCEPT !.status = status, !.at = work[w].at]]
      /\ work' = [work EXCEPT ![w] = Idle]
  BY TypeFacts DEF End, Inv
<1>2. work'[w].pc = "idle" /\ \A v \in Tasks : v # w => work'[v] = work[v]
  BY <1>1 DEF Idle
<1>3. \A m \in Mails : mail'[m].sender = mail[m].sender
  BY <1>1 DEF MailRows
<1>4. ASSUME NEW v \in Tasks
      PROVE  v \in MayCountHour(s, t)' <=> v \in MayCountHour(s, t) /\ v # w
  <2>1. CASE v = w
    BY <1>2, <2>1 DEF MayCountHour
  <2>2. CASE v # w /\ work[v].pc = "idle"
    BY <1>2, <2>2 DEF MayCountHour
  <2>3. CASE v # w /\ work[v].pc # "idle"
    <3>1. work'[v] = work[v] /\ work[v].mail \in Mails
      BY <1>2, <2>3 DEF Inv, ThrottleInvariant, WorkFits
    <3>2. SenderOf(work[v].mail)' = SenderOf(work[v].mail)
      BY <1>3, <3>1 DEF SenderOf
    <3> QED
      BY <1>1, <2>3, <3>1, <3>2 DEF MayCountHour
  <2> QED
    BY <2>1, <2>2, <2>3
<1> QED
  BY <1>4 DEF MayCountHour

\* A commit adds one to one counter of the hour, and takes its task from those that
\* may still count.
LEMMA HourCommitted ==
  ASSUME Inv, Inv', HourInvariant, NEW w \in Tasks, CommitWork(w),
         NEW s \in Senders, NEW t \in Minutes
  PROVE  HourBound(s, t)'
<1>1. Types /\ Types' /\ HourBound(s, t) /\ CountHeld(w)
  BY DEF Inv, ThrottleInvariant, HourInvariant
<1>2. /\ work[w].pc = "commit" /\ counters' = Publish(counters, w)
      /\ set_back' = set_back \cup
           {k \in Senders \X Minutes : counters.lock[k] = w /\ counters.next[k] < counters.live[k]}
      /\ End(w, IF work[w].ok THEN "SENT" ELSE "FAILED")
  BY DEF CommitWork
<1>3. counters \in Tables(Senders \X Minutes, Nat, Tasks)
  BY <1>1, TypeFacts
<1>4. \A k \in Senders \X Minutes :
        counters'.live[k] = IF counters.lock[k] = w THEN counters.next[k] ELSE counters.live[k]
  BY <1>2, <1>3, PublishRow
<1>5. MayCountHour(s, t)' = MayCountHour(s, t) \ {w}
  BY <1>2, HourTaskEnds
<1> DEFINE c == [u \in Minutes |-> counters.live[<<s, u>>]]
           d == [u \in Minutes |-> counters'.live[<<s, u>>]]
           H == Hour(t)
<1>6. /\ IsFiniteSet(H) /\ H \subseteq Minutes
      /\ \A u \in H : /\ <<s, u>> \in Senders \X Minutes
                      /\ c[u] = counters.live[<<s, u>>] /\ c[u] \in Nat
                      /\ d[u] = counters'.live[<<s, u>>] /\ d[u] \in Nat
  <2>1. counters'.live \in [Senders \X Minutes -> Nat]
    <3>1. counters' \in Tables(Senders \X Minutes, Nat, Tasks)
      BY <1>1 DEF Types, TypeOK
    <3> QED
      BY <3>1 DEF Tables
  <2>2. ASSUME NEW u \in H PROVE counters'.live[<<s, u>>] \in Nat
    <3>1. u \in Minutes
      BY <1>1, HourFinite
    <3> HIDE DEF H
    <3> QED
      BY <2>1, <3>1
  <2> QED
    BY <1>1, <2>2, HourFinite, TypeFacts
<1>7. /\ HourCount(s, t) = SumOver(c, H) /\ HourCount(s, t)' = SumOver(d, H)
      /\ SumOver(c, H) \in Nat /\ SumOver(d, H) \in Nat
  <2>1. HourCount(s, t) = SumOver(c, H) /\ HourCount(s, t)' = SumOver(d, H)
    BY DEF HourCount, Hour
  <2> HIDE DEF c, d, H
  <2>2. SumOver(c, H) \in Nat /\ SumOver(d, H) \in Nat
    BY <1>6, SumSame
  <2> QED
    BY <2>1, <2>2
<1>8. /\ HourLimits(s) \subseteq Nat \ {0} /\ HourLimits(s)' = HourLimits(s)
      /\ Cardinality(Tasks) \in Nat
      /\ IsFiniteSet(MayCountHour(s, t)) /\ Cardinality(MayCountHour(s, t)) \in Nat
  BY HourNumbers DEF HourLimits
<1>9. HourIntact(s, t)' => HourIntact(s, t)
  BY <1>2 DEF HourIntact, Hour
<1>10. CASE \E u \in H : counters.lock[<<s, u>>] = w
  <2>1. PICK u \in H : counters.lock[<<s, u>>] = w
    BY <1>10
  <2> HIDE DEF c, d
  <2>2. /\ <<s, u>> \in Senders \X Minutes /\ <<s, u>> = Counter(w)
        /\ <<s, u>> \notin set_back => counters.next[<<s, u>>] <= counters.live[<<s, u>>] + 1
    BY <1>1, <1>6, <2>1 DEF CountHeld
  <2>3. w \in MayCountHour(s, t)
    <3>1. s = SenderOf(work[w].mail) /\ u = work[w].window
      BY <2>2 DEF Counter
    <3>2. HourOf(u) = HourOf(t)
      BY DEF Hour
    <3> QED
      BY <1>2, <3>1, <3>2 DEF MayCountHour
  <2>4. PICK n \in Nat, p \in Nat :
          /\ n = Cardinality(MayCountHour(s, t)) /\ p = Cardinality(MayCountHour(s, t)')
          /\ p = n - 1
    <3>1. PICK tasks : tasks = MayCountHour(s, t) /\ IsFiniteSet(tasks) /\ w \in tasks
      BY <1>8, <2>3
    <3>2. /\ IsFiniteSet(tasks \ {w}) /\ Cardinality(tasks \ {w}) = Cardinality(tasks) - 1
          /\ Cardinality(tasks) \in Nat /\ Cardinality(tasks \ {w}) \in Nat
      BY <3>1, FS_RemoveElement, FS_CardinalityType
    <3> QED
      BY <1>5, <3>1, <3>2
  <2> SUFFICES ASSUME HourIntact(s, t)', NEW limit \in HourLimits(s)
               PROVE  HourCount(s, t)' + p < limit + Cardinality(Tasks)
    BY <1>8, <2>4 DEF HourBound
  <2>5. <<s, u>> \notin set_back
    <3>1. <<s, u>> \in {s} \X Hour(t)
      OBVIOUS
    <3> QED
      BY <1>9, <3>1 DEF HourIntact
  <2>6. d[u] <= c[u] + 1 /\ d[u] \in Nat /\ c[u] \in Nat
    BY <1>4, <1>6, <2>1, <2>2, <2>5
  <2>7. \A v \in H \ {u} : c[v] = d[v]
    <3> SUFFICES ASSUME NEW v \in H \ {u} PROVE c[v] = d[v]
      OBVIOUS
    <3>1. <<s, v>> \in Senders \X Minutes /\ <<s, v>> # <<s, u>>
      BY <1>6
    <3>2. counters.lock[<<s, v>>] # w
      BY <1>1, <2>2, <3>1 DEF CountHeld
    <3> QED
      BY <1>4, <1>6, <3>1, <3>2
  <2>8. SumOver(c, H) + d[u] = SumOver(d, H) + c[u]
    <3>1. \A y \in H : c[y] \in Nat /\ d[y] \in Nat
      BY <1>6
    <3> QED
      BY <1>6, <2>7, <3>1, SumChanges
  <2>9. SumOver(d, H) <= SumOver(c, H) + 1
    BY <1>7, <2>6, <2>8
  <2>10. SumOver(c, H) + n < limit + Cardinality(Tasks) /\ limit \in Nat
    BY <1>1, <1>7, <1>8, <1>9, <2>4 DEF HourBound
  <2> QED
    BY <1>7, <1>8, <2>4, <2>9, <2>10
<1>11. CASE ~(\E u \in H : counters.lock[<<s, u>>] = w)
  <2>1. \A u \in H : c[u] \in Nat /\ d[u] = c[u]
    BY <1>4, <1>6, <1>11
  <2>2. HourCount(s, t)' = HourCount(s, t)
    <3> HIDE DEF c, d, H
    <3> QED
      BY <1>6, <1>7, <2>1, SumSame
  <2>3. /\ Cardinality(MayCountHour(s, t)') \in Nat
        /\ Cardinality(MayCountHour(s, t)') <= Cardinality(MayCountHour(s, t))
    <3>1. MayCountHour(s, t)' \in SUBSET MayCountHour(s, t)
      BY <1>5
    <3> QED
      BY <1>8, <3>1, FS_Subset, FS_CardinalityType
  <2>4. HourCount(s, t) \in Nat
    BY <1>7
  <2> QED
    BY <1>1, <1>8, <1>9, <2>2, <2>3, <2>4 DEF HourBound
<1> QED
  BY <1>10, <1>11

\* Time may pass, and the campaign may be paused or woken: nothing more may be counted.
LEMMA HourPasses ==
  ASSUME Inv, Inv', HourInvariant, UNCHANGED <<records, mail, work>>, now' >= now
  PROVE  HourInvariant'
<1> SUFFICES ASSUME NEW s \in Senders, NEW t \in Minutes PROVE HourBound(s, t)'
  BY DEF HourInvariant
<1>1. /\ Types /\ Types' /\ HourBound(s, t) /\ now \in Nat /\ now' \in Nat /\ t \in Nat
      /\ UNCHANGED <<counters, set_back, mail, work>>
  <2>1. now' \in Minutes
    BY DEF Inv, Types, TypeOK
  <2> QED
    BY <2>1, TypeFacts, MinuteIsNat DEF Inv, HourInvariant, records
<1>2. /\ HourOf(now) \in Nat /\ HourOf(now') \in Nat /\ HourOf(t) \in Nat
      /\ HourOf(now) <= HourOf(now')
  <2>1. HourOf(t) \in Nat
    BY <1>1, QuotientsGrow, TimeAssumption DEF HourOf
  <2> QED
    BY <1>1, <2>1, HoursPass
<1>3. HourOf(now') <= HourOf(t) => HourOf(now) <= HourOf(t)
  BY <1>2
<1>4. MayCountHour(s, t)' \subseteq MayCountHour(s, t)
  <2> SUFFICES ASSUME NEW v \in Tasks, v \in MayCountHour(s, t)' PROVE v \in MayCountHour(s, t)
    BY DEF MayCountHour
  <2> QED
    BY <1>1, <1>3 DEF MayCountHour, SenderOf
<1> QED
  BY <1>1, <1>4, HourKept

\* The steps of a task keep the bound of every hour.
LEMMA HourWorkStep ==
  ASSUME Inv, Inv', HourInvariant, NEW w \in Tasks, WorkStep(w)
  PROVE  HourInvariant'
<1>1. /\ Types /\ Types' /\ WorkFits(w) /\ work \in [Tasks -> WorkRecords] /\ now \in Nat
      /\ counters \in Tables(Senders \X Minutes, Nat, Tasks)
  BY TypeFacts DEF Inv, ThrottleInvariant
<1>2. ASSUME NEW m \in Mails, Check(w, m) PROVE HourInvariant'
  BY <1>2, HourChecked DEF HourInvariant
<1>3. ASSUME NEW m \in Mails, PauseExhausted(w, m) PROVE HourInvariant'
  BY <1>1, <1>3, HourPasses DEF PauseExhausted
<1>4. ASSUME NEW m \in Mails, NEW x \in Senders, Reassign(w, m, x) PROVE HourInvariant'
  <2> SUFFICES ASSUME NEW s \in Senders, NEW t \in Minutes PROVE HourBound(s, t)'
    BY DEF HourInvariant
  <2>1. /\ \A v \in Tasks : work[v].mail # m
        /\ UNCHANGED <<now, counters, set_back, work>>
        /\ mail' = [mail EXCEPT ![m].sender = x] /\ mail \in [Mails -> MailRows]
    BY <1>1, <1>4, TypeFacts DEF Reassign, Untaken, records
  <2>2. ASSUME NEW v \in Tasks, work[v].pc # "idle"
        PROVE  SenderOf(work[v].mail)' = SenderOf(work[v].mail)
    <3>1. work[v].mail \in Mails /\ work[v].mail # m
      BY <2>1, <2>2 DEF Inv, ThrottleInvariant, WorkFits
    <3>2. mail'[work[v].mail] = mail[work[v].mail]
      BY <2>1, <3>1
    <3> QED
      BY <2>1, <3>2 DEF SenderOf
  <2>3. MayCountHour(s, t)' \subseteq MayCountHour(s, t)
    <3> SUFFICES ASSUME NEW v \in Tasks, v \in MayCountHour(s, t)' PROVE v \in MayCountHour(s, t)
      BY DEF MayCountHour
    <3> QED
      BY <2>1, <2>2 DEF MayCountHour
  <2> QED
    BY <1>1, <2>1, <2>3, HourKept DEF HourInvariant
<1>5. ASSUME NEW outcome \in Outcomes, HandOver(w, outcome) PROVE HourInvariant'
  <2>1. /\ work[w].pc = "smtp" /\ UNCHANGED <<now, counters, set_back, mail>>
        /\ work' = [work EXCEPT ![w] =
             [work[w] EXCEPT !.pc = "count", !.ok = (outcome = "accepted"), !.at = now]]
    BY <1>5 DEF HandOver, records
  <2>2. /\ \A v \in Tasks : v # w => work'[v] = work[v]
        /\ work'[w].pc = "count" /\ work'[w].mail = work[w].mail
    BY <1>1, <2>1 DEF WorkRecords
  <2> QED
    BY <2>1, <2>2, HourMoves
<1>6. CASE ReadCounter(w)
  <2>1. /\ work[w].pc = "count" /\ UNCHANGED <<now, counters, set_back, mail>>
        /\ work' = [work EXCEPT ![w] =
             [work[w] EXCEPT !.pc = "increment", !.window = now,
                             !.base = View(counters, w, <<SenderOf(work[w].mail), now>>)]]
    BY <1>6 DEF ReadCounter, records
  <2>2. /\ \A v \in Tasks : v # w => work'[v] = work[v]
        /\ work'[w].pc = "increment" /\ work'[w].mail = work[w].mail /\ work'[w].window = now
    BY <1>1, <2>1 DEF WorkRecords
  <2>3. \A t \in Minutes : HourOf(now) = HourOf(t) => HourOf(now) <= HourOf(t)
    <3> SUFFICES ASSUME NEW t \in Minutes PROVE HourOf(now) \in Nat
      OBVIOUS
    <3> QED
      BY <1>1, QuotientsGrow, TimeAssumption DEF HourOf
  <2> QED
    BY <2>1, <2>2, <2>3, HourMoves
<1>7. CASE WriteCounter(w)
  <2>1. /\ work[w].pc = "increment" /\ UNCHANGED <<now, set_back, mail>> /\ Step(w, "result")
        /\ counters' = Put(counters, w, Counter(w), work[w].base + 1)
    BY <1>7 DEF WriteCounter
  <2>2. counters'.live = counters.live
    BY <2>1 DEF Put
  <2> QED
    BY <1>1, <2>1, <2>2, Steps, HourMoves DEF Counted
<1>8. CASE ReadErrors(w) \/ SelectCooldown(w)
  <2>1. /\ work[w].pc \in {"result", "select"} /\ UNCHANGED <<now, counters, set_back, mail>>
        /\ \A v \in Tasks : v # w => work'[v] = work[v]
        /\ work'[w].pc \in {"select", "upsert"}
        /\ work'[w].mail = work[w].mail /\ work'[w].window = work[w].window
    <3>1. CASE ReadErrors(w)
      BY <1>1, <3>1 DEF ReadErrors, records, WorkRecords
    <3>2. CASE SelectCooldown(w)
      BY <1>1, <3>2 DEF SelectCooldown, records, WorkRecords
    <3> QED
      BY <1>8, <3>1, <3>2
  <2> QED
    BY <2>1, HourMoves
<1>9. CASE WriteCooldown(w)
  <2>1. work[w].pc = "upsert" /\ UNCHANGED <<now, counters, set_back, mail>> /\ Step(w, "commit")
    BY <1>9 DEF WriteCooldown
  <2> QED
    BY <1>1, <2>1, Steps, HourMoves DEF Counted
<1>10. CASE CommitWork(w)
  BY <1>10, HourCommitted DEF HourInvariant
<1>11. CASE RecordFails(w)
  <2> SUFFICES ASSUME NEW s \in Senders, NEW t \in Minutes PROVE HourBound(s, t)'
    BY DEF HourInvariant
  <2>1. counters'.live = counters.live /\ set_back' = set_back /\ End(w, "LOST")
    BY <1>11 DEF RecordFails, Discard
  <2>2. MayCountHour(s, t)' = MayCountHour(s, t) \ {w}
    BY <2>1, HourTaskEnds
  <2> QED
    BY <1>1, <2>1, <2>2, HourKept DEF HourInvariant
<1> QED
  BY <1>2, <1>3, <1>4, <1>5, <1>6, <1>7, <1>8, <1>9, <1>10, <1>11 DEF WorkStep

\* In the beginning nothing is counted.
LEMMA HourInit == Init => HourInvariant
<1> SUFFICES ASSUME Init, NEW s \in Senders, NEW t \in Minutes PROVE HourBound(s, t)
  BY DEF HourInvariant
<1>1. Types /\ Inv
  BY InitInv DEF Inv
<1>2. MayCountHour(s, t) = {}
  BY DEF Init, Idle, MayCountHour
<1>3. HourCount(s, t) = 0
  <2> DEFINE c == [u \in Minutes |-> counters.live[<<s, u>>]]
  <2>1. IsFiniteSet(Hour(t)) /\ \A u \in Hour(t) : c[u] = 0
    <3>1. counters.live = [k \in Senders \X Minutes |-> 0]
      BY DEF Init, Committed
    <3> QED
      BY <1>1, <3>1, HourFinite
  <2> HIDE DEF c
  <2>2. SumOver(c, Hour(t)) = 0
    BY <2>1, SumZero
  <2> QED
    BY <2>2 DEF HourCount, c
<1>4. Cardinality(MayCountHour(s, t)) = 0
  BY <1>2, FS_EmptySet
<1>5. HourLimits(s) \subseteq Nat \ {0} /\ Cardinality(Tasks) \in Nat
  BY HourNumbers
<1> QED
  BY <1>3, <1>4, <1>5 DEF HourBound

\* The bound of every hour holds.
THEOREM HourInvariantHolds == Spec => []HourInvariant
<1>1. Init => HourInvariant
  BY HourInit
<1>2. Inv /\ Inv' /\ HourInvariant /\ [Next]_vars => HourInvariant'
  <2> SUFFICES ASSUME Inv, Inv', HourInvariant, [Next]_vars PROVE HourInvariant'
    OBVIOUS
  <2>1. now \in Nat
    BY TypeFacts DEF Inv
  <2>2. CASE UNCHANGED vars
    BY <2>1, <2>2, HourPasses DEF vars
  <2>3. CASE StartWake \/ Wake
    BY <2>1, <2>3, HourPasses DEF StartWake, Wake
  <2>4. CASE Tick
    BY <2>1, <2>4, HourPasses DEF Tick
  <2>5. ASSUME NEW w \in Tasks, WorkStep(w) PROVE HourInvariant'
    BY <2>5, HourWorkStep
  <2> QED
    BY <2>2, <2>3, <2>4, <2>5 DEF Next
<1> QED
  BY <1>1, <1>2, ThrottleInvariantHolds, PTL DEF Spec

\* Neither the counter of a minute nor those of an hour pass their limits by as much as
\* there are tasks, as long as no commit has taken one of them back.
THEOREM CounterOvershootHolds == Spec => []CounterOvershoot
<1>1. ASSUME Inv, HourInvariant, NEW s \in Senders, NEW t \in Minutes PROVE HourOvershoot(s, t)
  <2>1. Types /\ HourBound(s, t)
    BY <1>1 DEF Inv, HourInvariant
  <2>2. /\ HourCount(s, t) \in Nat /\ Cardinality(MayCountHour(s, t)) \in Nat
        /\ Cardinality(Tasks) \in Nat /\ HourLimits(s) \subseteq Nat \ {0}
    BY <2>1, HourNumbers
  <2>3. MapThenSumSet(LAMBDA u : counters.live[<<s, u>>], Hour(t)) = HourCount(s, t)
    BY <2>1, HourSum
  <2>4. HourIntact(s, t) => \A limit \in HourLimits(s) : HourCount(s, t) < limit + Cardinality(Tasks)
    BY <2>1, <2>2 DEF HourBound
  <2> QED
    BY <2>3, <2>4 DEF HourOvershoot, HourIntact, HourLimits, Hour
<1>2. ASSUME Inv, NEW s \in Senders, NEW t \in Minutes PROVE MinuteOvershoot(s, t)
  BY <1>2, MinuteNotPassed
<1>3. Inv /\ HourInvariant => CounterOvershoot
  BY <1>1, <1>2 DEF CounterOvershoot
<1> QED
  BY <1>3, ThrottleInvariantHolds, HourInvariantHolds, PTL
-----------------------------------------------------------------------------
\* A campaign is woken only when a sender of its pool has capacity left today.
THEOREM WokenCanSendHolds == Spec => []WokenCanSend
<1>1. ASSUME Types, earliest_resume_time("auto_resume", now) <= now
      PROVE  Available(now) # {}
  <2>1. PICK s \in Senders : has_daily_capacity(s, now)
    BY <1>1, EarliestTime
  <2>2. PICK ranks : ranks = {Order[u] : u \in {v \in Senders : has_daily_capacity(v, now)}}
    OBVIOUS
  <2>3. ranks \subseteq Nat /\ ranks # {}
    BY <2>1, <2>2, PoolAssumption
  <2>4. PICK rank \in ranks : \A x \in ranks : rank <= x
    BY <2>3, LeastOf
  <2>5. PICK u \in Senders : has_daily_capacity(u, now) /\ rank = Order[u]
    BY <2>2
  <2>6. ASSUME NEW v \in Senders, Order[v] < Order[u] PROVE ~has_daily_capacity(v, now)
    <3> SUFFICES ASSUME has_daily_capacity(v, now) PROVE FALSE
      OBVIOUS
    <3>1. rank <= Order[v]
      BY <2>2, <2>4
    <3> QED
      BY <2>5, <2>6, <3>1, PoolAssumption
  <2>7. u \in Available(now)
    BY <2>5, <2>6 DEF Available
  <2> QED
    BY <2>7
<1>2. Inv => WokenCanSend
  BY <1>1 DEF Inv, WokenCanSend
<1> QED
  BY <1>2, ThrottleInvariantHolds, PTL
=============================================================================
