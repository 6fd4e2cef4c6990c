------------------------------ MODULE Delivery ------------------------------
(***************************************************************************)
(* The delivery pipeline: send_email tasks, API requests and cron jobs on  *)
(* one database and one queue, with crashes of the worker and of the API.  *)
(***************************************************************************)
EXTENDS SendTask, CampaignRequests, Maintenance

CONSTANT MaxCrashes  \* how often a process may die

ASSUME MaxCrashesAssumption == MaxCrashes \in Nat
ASSUME SessionsAssumption ==
  /\ Tasks \cap Requests = {}
  /\ (Tasks \cup Requests) \cap {"auto_resume", "stuck_sweep"} = {}
ASSUME FaultsAssumption == Faults \subseteq {"crash", "lock", "deadlock", "record"}

VARIABLES
  up,       \* the worker process runs
  crashes   \* how often a process has died

vars == <<store, task, delays, req, cron, resumes, up, crashes>>

Sessions == Tasks \cup Requests \cup Crons

Init ==
  /\ StoreInit /\ TaskInit /\ RequestInit /\ MaintenanceInit
  /\ up = TRUE /\ crashes = 0

MayCrash == "crash" \in Faults /\ crashes < MaxCrashes /\ crashes' = crashes + 1

\* The worker process dies: its sessions close, arq will redeliver.
WorkerCrash ==
  /\ up /\ MayCrash
  /\ up' = FALSE
  /\ CloseSessions(Tasks \cup Crons)
  /\ queue' = Redelivered
  /\ task' = [w \in Tasks |-> IdleTask]
  /\ cron' = [k \in Crons |-> IdleCron]
  /\ UNCHANGED <<delays, req, resumes>>

\* startup(): recover the orphaned jobs and sweep the stuck campaigns, before
\* the first task.  It waits until no request holds a row it writes.
Stuck == {c \in Campaigns : camps.live[c].status = "SENDING" /\ non_terminal("stuck_sweep", c) = {}}

WorkerStartup ==
  /\ ~up
  /\ up' = TRUE
  /\ \A c \in Stuck : camps.lock[c] = Free
  /\ RecoverSending
  /\ LET Done(f) == [c \in Campaigns |->
           IF c \in Stuck THEN [status |-> "COMPLETED", reason |-> None] ELSE f[c]] IN
     camps' = [camps EXCEPT !.live = Done(@), !.next = Done(@)]
  /\ UNCHANGED <<due, sends, orphaned, reverted, task, delays, req, cron, resumes, crashes>>

(***************************************************************************)
(* A statement that waits may fail: "deadlock" when the database picks     *)
(* this session as the victim of two sessions waiting for each other,      *)
(* "lock" when it has waited too long (SQLite's busy timeout).             *)
(***************************************************************************)
WaitsFor(s) ==
  CASE s \in Tasks -> TaskWaitsFor(s)
    [] s \in Requests -> RequestWaitsFor(s)
    [] OTHER -> UNION {CronWaitsFor(s, c) : c \in Campaigns}

Deadlocked(s) == \E t \in WaitsFor(s) : s \in WaitsFor(t)

MayFail(s) ==
  \/ "lock" \in Faults /\ WaitsFor(s) # {}
  \/ "deadlock" \in Faults /\ Deadlocked(s)

TaskFails(w) ==
  /\ MayFail(w)
  /\ StatementFails(w) \/ CompletionFails(w)
  /\ UNCHANGED <<req, cron, resumes, up, crashes>>

RequestFails(r) ==
  /\ MayFail(r)
  /\ RequestDies(r)
  /\ UNCHANGED <<task, delays, cron, resumes, up, crashes>>

CronFails(k, c) ==
  /\ CronWaitsFor(k, c) # {} /\ MayFail(k)
  /\ CronStatementFails(k, c)
  /\ UNCHANGED <<task, delays, req, up, crashes>>

StatementFault ==
  \/ \E w \in Tasks : TaskFails(w)
  \/ \E r \in Requests : RequestFails(r)
  \/ \E k \in Crons, c \in Campaigns : CronFails(k, c)

\* The API process dies in the middle of a request.
ApiCrash(r) ==
  /\ ~ReqAt(r, "new") /\ ~ReqAt(r, "done")
  /\ MayCrash
  /\ RequestDies(r)
  /\ UNCHANGED <<task, delays, cron, resumes, up>>

TaskAct == up /\ TaskNext /\ UNCHANGED <<req, cron, resumes, up, crashes>>
CronAct == up /\ CronStep /\ UNCHANGED <<task, delays, req, up, crashes>>
RequestAct(r) ==
  /\ RequestStep(r) \/ RequestArrives(r)
  /\ UNCHANGED <<task, delays, cron, resumes, up, crashes>>
Clock == \E j \in Jobs :
  BecomeDue(j) /\ UNCHANGED <<task, delays, req, cron, resumes, up, crashes>>

Next ==
  \/ TaskAct
  \/ CronAct
  \/ \E r \in Requests : RequestAct(r) \/ ApiCrash(r)
  \/ StatementFault
  \/ Clock
  \/ WorkerCrash
  \/ WorkerStartup

Spec == Init /\ [][Next]_vars

(***************************************************************************)
(* Fairness: the worker runs every task to its end and takes what is in    *)
(* the queue, requests that have arrived are served, the cron schedule     *)
(* comes round, the clock moves, a dead worker is started again and the    *)
(* database breaks a deadlock.  Nothing makes a request arrive or another  *)
(* fault happen.                                                           *)
(***************************************************************************)
Fairness ==
  /\ \A w \in Tasks : WF_vars(TaskStep(w) /\ TaskAct)
  /\ WF_vars(\E w \in Tasks, e \in Entries : Start(w, e) /\ TaskAct)
  /\ \A r \in Requests : WF_vars(RequestStep(r) /\ RequestAct(r))
  /\ WF_vars(CronAct)
  /\ WF_vars(Clock)
  /\ WF_vars(WorkerStartup)
  /\ WF_vars(StatementFault /\ \E s \in Sessions : Deadlocked(s))

FairSpec == Spec /\ Fairness
-----------------------------------------------------------------------------
TypeOK ==
  /\ StoreTypeOK(Sessions)
  /\ TaskTypeOK
  /\ RequestTypeOK
  /\ MaintenanceTypeOK
  /\ up \in BOOLEAN
  /\ crashes \in 0..MaxCrashes

\* The claim of a job (delivery.py: claim_pending ... the single commit of
\* send_email) is never visible to anybody else: SENDING is not a status a
\* committed job ever has, so the sweeps of SENDING jobs find nothing.
SendingNeverCommitted == \A j \in Jobs : jobs.live[j] # "SENDING"

\* Every mail that left is accounted for: by a SENT row, by the open
\* transaction that is about to record it, or by a record that was lost.
Recorded(j) ==
  IF \/ jobs.live[j] = "SENT"
     \/ jobs.lock[j] \in Tasks /\ jobs.next[j] = "SENT"
  THEN 1 ELSE 0

EverySendAccounted == \A j \in Jobs : sends[j] = Recorded(j) + orphaned[j]

\* At most one mail per recipient: the claim is UPDATE ... WHERE status =
\* 'PENDING' and two workers can never double-send (docs/overview.md).
NoDoubleSend == \A j \in Jobs : sends[j] <= 1

\* A completed or cancelled campaign has no job left to send: the completion check
\* counts them, cancel_pending takes them in the transaction that cancels.  A
\* resume or a star that had listed the job before may have written it back.
EndedDrained ==
  \A c \in Campaigns : camps.live[c].status \in {"COMPLETED", "CANCELLED"} =>
    \A j \in JobsOf(c) : jobs.live[j] \in TERMINAL_EMAIL_STATUSES \/ j \in reverted

\* After a cancel has been committed no mail of the campaign leaves any more,
\* although cancel neither stops tasks nor clears the queue.
CancelStopsSending ==
  [][\A j \in Jobs : sends'[j] # sends[j] =>
       camps.live[CampaignOf[j]].status # "CANCELLED" \/ j \in reverted]_vars

\* Who will still look at job j: a queued call, a running one, or a request or
\* cron run that is about to enqueue it.
Attended(j) ==
  \/ \E e \in Entries : e.job = j /\ queue[e] > 0
  \/ \E w \in Tasks : ~At(w, "idle") /\ JobAt(w) = j
  \/ \E r \in Requests : j \in req[r].plan
  \/ \E k \in Crons : cron[k].pc = "enqueue" /\ cron[k].cur = CampaignOf[j]

\* A job left to send in a campaign that is being sent is never forgotten.
NoStranded ==
  \A j \in Jobs :
    /\ jobs.live[j] = "PENDING"
    /\ camps.live[CampaignOf[j]].status \in {"SCHEDULED", "SENDING"}
    => Attended(j)

\* When a task finds every sender exhausted it pauses the campaign
\* (docs/architecture.md, "pause campaign (ALL_SENDERS_EXHAUSTED)").
ExhaustedPausesCampaign ==
  [][\A w \in Tasks :
       task[w].pc = "pausing" /\ task'[w].pc = "commit"
         => View(camps', w, CampAt(w)).status # "SENDING"]_vars

\* Auto-resume wakes campaigns paused for exhausted senders; a pause the user
\* asked for is left to the user (docs/architecture.md, "Auto-resume").
AutoResumeLeavesUserPauses ==
  [][\A c \in Campaigns :
       /\ camps.lock[c] # "auto_resume"
       /\ camps'.lock[c] = "auto_resume"
       => camps.live[c].reason = ALL_SENDERS_EXHAUSTED]_vars

\* The campaign rows follow the state machine, write by write.
Lifecycle == INSTANCE CampaignLifecycle WITH
  shown <- [c \in Campaigns |-> camps.live[c].status],
  written <- [c \in Campaigns |-> camps.next[c].status]

FollowsLifecycle == Lifecycle!Spec

\* A campaign with nothing left to send does not stay SENDING.
StuckCampaignEnds ==
  \A c \in Campaigns :
    (camps.live[c].status = "SENDING" /\ non_terminal("stuck_sweep", c) = {})
      ~> camps.live[c].status # "SENDING"

\* A campaign somebody started or scheduled is sent to the end, or paused or
\* cancelled on the way.
EverySendFinishes ==
  \A c \in Campaigns :
    (camps.live[c].status \in {"SCHEDULED", "SENDING"})
      ~> camps.live[c].status \in {"PAUSED", "CANCELLED", "COMPLETED"}
=============================================================================
