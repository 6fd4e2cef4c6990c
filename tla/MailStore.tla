----------------------------- MODULE MailStore -----------------------------
(***************************************************************************)
(* What the API process and the worker process share: the campaign and     *)
(* e-mail-job tables, the arq queue in Redis, and the clock.               *)
(***************************************************************************)
EXTENDS Naturals, CampaignStates, ReadCommitted

CONSTANTS
  Campaigns,
  Jobs,         \* the EmailJob rows, one per recipient of a campaign
  CampaignOf,   \* CampaignOf[j]: the campaign job j belongs to
  MaxTries,     \* WorkerSettings.max_tries
  None          \* no value

ASSUME CampaignOfAssumption == CampaignOf \in [Jobs -> Campaigns]
ASSUME MaxTriesAssumption == MaxTries \in Nat \ {0}
ASSUME NoneAssumption == None \notin Jobs \cup Campaigns

VARIABLES
  camps,     \* table of campaigns: status and pause_reason
  jobs,      \* table of e-mail jobs: status
  queue,     \* bag of queued send_email calls
  due,       \* due[j]: scheduled_at of job j has passed
  sends,     \* history: sends[j] mails of job j left the server
  orphaned,  \* history: orphaned[j] of them have no SENT row to show for it
  reverted   \* history: jobs a stale write brought back to PENDING

store == <<camps, jobs, queue, due, sends, orphaned, reverted>>

ALL_SENDERS_EXHAUSTED == "ALL_SENDERS_EXHAUSTED"

JobsOf(c) == {j \in Jobs : CampaignOf[j] = c}

CampaignRows ==
  [status : CampaignStatus \cup {Absent}, reason : {None, ALL_SENDERS_EXHAUSTED}]

JobRows == EmailStatus \cup {Absent}

(***************************************************************************)
(* One queued call: its job, whether it may run before the job is due      *)
(* (auto-resume defers by about a second only), and which try it is.  A    *)
(* call that waits for any other delay may run from the moment the job is  *)
(* due: the model does not order delays.                                   *)
(***************************************************************************)
Entries == [job : Jobs, soon : BOOLEAN, try : 1..MaxTries]

Ripe(e) == e.soon \/ due[e.job]

\* The queue after enqueue_send of every job in J with the delay of a retry.
EnqueueSoon(J) ==
  [e \in Entries |->
     IF e.job \in J /\ e.try = 1 /\ e.soon = ~due[e.job]
     THEN queue[e] + 1 ELSE queue[e]]

\* The queue after enqueue_send of job j with the delay to its scheduled_at.
EnqueueAt(j) ==
  [e \in Entries |->
     IF e = [job |-> j, soon |-> FALSE, try |-> 1] THEN queue[e] + 1 ELSE queue[e]]
-----------------------------------------------------------------------------
StoreInit ==
  /\ camps = Committed([c \in Campaigns |-> [status |-> Absent, reason |-> None]])
  /\ jobs = Committed([j \in Jobs |-> Absent])
  /\ queue = [e \in Entries |-> 0]
  /\ due \in [Jobs -> BOOLEAN]
  /\ sends = [j \in Jobs |-> 0]
  /\ orphaned = [j \in Jobs |-> 0]
  /\ reverted = {}

\* The status of campaign c as session s reads it.
StatusOf(s, c) == View(camps, s, c).status

\* UPDATE email_campaigns ... WHERE id = c AND status = expected
update_status_if(s, c, expected, target, reason) ==
  IF StatusOf(s, c) = expected
  THEN /\ ~Locked(camps, s, c)
       /\ camps' = Put(camps, s, c, [status |-> target, reason |-> reason])
  ELSE UNCHANGED camps

\* UPDATE email_jobs ... WHERE id = j AND status = expected
set_status_if(s, j, expected, target) ==
  IF View(jobs, s, j) = expected
  THEN /\ ~Locked(jobs, s, j)
       /\ jobs' = Put(jobs, s, j, target)
  ELSE UNCHANGED jobs

\* The jobs of campaign c that session s sees in one of the statuses S.
JobsIn(s, c, S) == {j \in JobsOf(c) : View(jobs, s, j) \in S}

\* The jobs of campaign c that session s sees as not terminal.
non_terminal(s, c) == JobsIn(s, c, EmailStatus \ TERMINAL_EMAIL_STATUSES)

(***************************************************************************)
(* The end of a session: commit publishes its rows; leaving the session    *)
(* without a commit discards them.  The histories record a SENT row that a *)
(* commit overwrites, and a mail whose SENT row is discarded.              *)
(***************************************************************************)
Overwritten(s) ==
  {j \in Jobs : /\ jobs.lock[j] = s
                /\ jobs.live[j] \in TERMINAL_EMAIL_STATUSES
                /\ jobs.next[j] = "PENDING"}

CommitSession(s) ==
  /\ camps' = Publish(camps, s)
  /\ jobs' = Publish(jobs, s)
  /\ reverted' = reverted \cup Overwritten(s)
  /\ orphaned' = [j \in Jobs |->
       IF j \in Overwritten(s) /\ jobs.live[j] = "SENT"
       THEN orphaned[j] + 1 ELSE orphaned[j]]
  /\ UNCHANGED <<due, sends>>

CloseSessions(S) ==
  /\ camps' = Discard(camps, S)
  /\ jobs' = Discard(jobs, S)
  /\ orphaned' = [j \in Jobs |->
       IF jobs.lock[j] \in S /\ jobs.next[j] = "SENT" /\ jobs.live[j] # "SENT"
       THEN orphaned[j] + 1 ELSE orphaned[j]]
  /\ UNCHANGED <<due, sends, reverted>>

\* The clock reaches scheduled_at of job j.
BecomeDue(j) ==
  /\ ~due[j]
  /\ due' = [due EXCEPT ![j] = TRUE]
  /\ UNCHANGED <<camps, jobs, queue, sends, orphaned, reverted>>

StoreTypeOK(Sessions) ==
  /\ camps \in Tables(Campaigns, CampaignRows, Sessions)
  /\ jobs \in Tables(Jobs, JobRows, Sessions)
  /\ queue \in [Entries -> Nat]
  /\ due \in [Jobs -> BOOLEAN]
  /\ sends \in [Jobs -> Nat]
  /\ orphaned \in [Jobs -> Nat]
  /\ reverted \in SUBSET Jobs
=============================================================================
