---------------------------- MODULE CampaignPlan ----------------------------
(***************************************************************************)
(* What CampaignService.create (application/campaigns.py) makes of a valid *)
(* request: Rotation gives the recipients their senders, then              *)
(* compute_send_offsets (domain/scheduling.py) their times, with random    *)
(* gaps, and then the job rows are inserted.                               *)
(*                                                                         *)
(* Times count from start_time, in units in which every gap is a whole     *)
(* number: a second has 5 * combined_hourly of them.  random.uniform is    *)
(* its two ends and the middle.                                            *)
(***************************************************************************)
EXTENDS Rotation, FiniteSets, FiniteSetsExt

CONSTANTS
  Delays,        \* delaySeconds of a request, after int()
  HourlyLimits,  \* hourlyLimit of a request, after int(): 0 for a fraction
  HourLength,    \* bound: the seconds of an hour
  None           \* a job without a sender of its own

ASSUME DelaysAssumption == Delays \subseteq Nat
ASSUME HourlyLimitsAssumption == HourlyLimits \subseteq Nat
ASSUME HourLengthAssumption == HourLength \in Nat \ {0}
ASSUME NoneAssumption == None \notin Senders

VARIABLES
  delay_seconds, hourly_limit,
  offsets,  \* the offsets computed so far
  rows      \* the inserted job rows, <<>> before

request == <<delay_seconds, hourly_limit>>
planVars == <<vars, request, offsets, rows>>

PlanInit ==
  /\ Init /\ email_count > 0
  /\ delay_seconds \in Delays
  /\ hourly_limit \in HourlyLimits
  /\ offsets = <<>>
  /\ rows = <<>>

\* The pool is never empty: create refuses a request without senders.
combined_hourly == Max({1, hourly_limit * N})

Hour == 5 * combined_hourly * HourLength
avg_gap == 5 * HourLength
delay == 5 * combined_hourly * delay_seconds

Gaps_wide ==  \* mutant: the wide range for both
  {(Max({delay, avg_gap}) * k) \div 5 : k \in {3, 5, 7}}

Gaps_bare ==  \* mutant: no lower end
  IF delay > avg_gap THEN {(delay * k) \div 5 : k \in {4, 5, 6}}
  ELSE {Max({delay, (avg_gap * k) \div 5}) : k \in {0, 5, 7}}

\* 20 percent around the delay asked for, or 40 percent around the average gap
\* that the hourly limits leave, but never less than the delay.
Gaps ==
  IF delay > avg_gap THEN {(delay * k) \div 5 : k \in {4, 5, 6}}
  ELSE {Max({delay, (avg_gap * k) \div 5}) : k \in {3, 5, 7}}

Scheduled == Len(offsets) = email_count

compute_send_offsets ==
  /\ done /\ ~Scheduled
  /\ \/ /\ offsets = <<>> /\ offsets' = <<0>>
     \/ /\ offsets # <<>>
        /\ \E gap \in Gaps : offsets' = Append(offsets, offsets[Len(offsets)] + gap)
  /\ UNCHANGED <<vars, request, rows>>

InsertJobs_last ==  \* mutant: the last sender of the pool takes the rest
  /\ Scheduled /\ rows = <<>>
  /\ rows' = [i \in 1..email_count |->
       [sender_id |-> IF i <= Len(result) THEN result[i] ELSE ordered[N], at |-> offsets[i]]]
  /\ UNCHANGED <<vars, request, offsets>>

\* A recipient for whom the rotation has nobody gets a job without a sender.
InsertJobs ==
  /\ Scheduled /\ rows = <<>>
  /\ rows' = [i \in 1..email_count |->
       [sender_id |-> IF i <= Len(result) THEN result[i] ELSE None, at |-> offsets[i]]]
  /\ UNCHANGED <<vars, request, offsets>>

PlanNext ==
  \/ Next /\ UNCHANGED <<request, offsets, rows>>
  \/ compute_send_offsets
  \/ InsertJobs

PlanSpec == PlanInit /\ [][PlanNext]_planVars
-----------------------------------------------------------------------------
\* ceil(5 n / 3): what the shortest gaps make of n gaps of average length.
Squeezed(n) == (5 * n + 2) \div 3

\* The rows planned for the hour that begins with row i.
InHourFrom(i) == {k \in DOMAIN rows : rows[k].at >= rows[i].at /\ rows[k].at < rows[i].at + Hour}

\* Whatever the random gaps, no hour has more mails than the hourly limits of
\* the pool allow, squeezed by the 40 percent of domain/scheduling.py.
PlannedPace ==
  \A i \in DOMAIN rows : Cardinality(InHourFrom(i)) <= Squeezed(combined_hourly)

\* Rotation and schedule together: in a pool without daily limits no sender has
\* more than its own hourly limit, squeezed, to send in an hour; a limit below
\* one counts as one mail an hour for the pool.
SenderPace ==
  (\A s \in InPool : limit[s] = NoLimit) =>
    \A i \in DOMAIN rows, s \in InPool :
      Cardinality({k \in InHourFrom(i) : rows[k].sender_id = s})
        <= Squeezed(Max({1, hourly_limit}))

\* Two mails are at least four fifths of the delay apart, and the whole delay
\* where the hourly limits set the pace.
DelayKept ==
  \A i, k \in DOMAIN rows : i < k =>
    IF delay > avg_gap
    THEN 5 * (rows[k].at - rows[i].at) >= 4 * delay * (k - i)
    ELSE rows[k].at - rows[i].at >= delay * (k - i)

\* The pool is used up before a recipient is left without a sender: as many
\* rows have one as the daily limits together allow.
PoolUsedUp ==
  rows # <<>> /\ (\A s \in InPool : limit[s] # NoLimit) =>
    Cardinality({i \in DOMAIN rows : rows[i].sender_id # None})
      = Min({email_count, MapThenSumSet(LAMBDA s : limit[s], InPool)})
=============================================================================
