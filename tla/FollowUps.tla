----------------------------- MODULE FollowUps -----------------------------
(***************************************************************************)
(* One campaign with follow-up steps: the sequence scheduler and the       *)
(* stuck-campaign sweep (application/maintenance.py), the step bookkeeping *)
(* of the send task (delivery.py), and the requests that pause, resume and *)
(* stop recipients (sequences.py) or mark them as replied (emails.py).     *)
(*                                                                         *)
(* All of them change rows of recipient_sequence_states, most by reading   *)
(* the row, changing the entity and writing it back: that is the module's  *)
(* subject.  The pause, resume and cancel of the whole campaign            *)
(* (campaigns.py) meet them in the campaign's row and in its jobs.  The    *)
(* limits of a send are SendTask's; here a claimed job reaches its outcome *)
(* in one step, under the lock of its row.                                 *)
(***************************************************************************)
EXTENDS Naturals, Sequences, FiniteSets, CampaignStates, ReadCommitted

CONSTANTS
  Recipients,
  LastStep,     \* the steps are 0..LastStep; step 0 is the campaign's own mail
  MaxCopies,    \* bound: jobs of one recipient and step
  Schedulers,   \* runs of the sequence scheduler that may overlap
  Sweepers,     \* runs of the stuck-campaign sweep
  Tasks,        \* the worker's send_email tasks
  Requests,     \* the requests that will be made
  SequenceOps,  \* the operations they may ask for
  Outcomes,     \* how a send may end
  Faults,       \* "early": a call runs before its job is committed; "lock"
  MaxCrashes,   \* bound: how often the worker may die
  None

ASSUME StepsAssumption == LastStep \in Nat /\ MaxCopies \in Nat \ {0}
ASSUME SessionsAssumption ==
  /\ Free \notin Schedulers \cup Sweepers \cup Tasks \cup Requests
  /\ Schedulers \cap Sweepers = {} /\ (Schedulers \cup Sweepers) \cap Tasks = {}
  /\ (Schedulers \cup Sweepers \cup Tasks) \cap Requests = {}
  /\ IsFiniteSet(Tasks)
ASSUME OutcomesAssumption == Outcomes \subseteq {"accepted", "refused", "rejected"}
ASSUME CrashesAssumption == MaxCrashes \in Nat

CampaignOps == {"pause_campaign", "resume_campaign", "cancel_campaign"}

ASSUME NoneAssumption == None \notin CampaignStatus \cup CampaignOps

ASSUME SequenceOpsAssumption ==
  SequenceOps \subseteq CampaignOps \cup
    {"pause_all", "resume_all", "stop_all", "pause", "resume", "stop", "replied", "unreplied"}

VARIABLES
  rows,    \* table of recipient states
  mail,    \* table of the campaign's e-mail jobs
  camp,    \* table with the campaign's status
  queue,   \* bag of the queued send_email calls
  waited,  \* the steps whose successor's wait is over
  edit,    \* edit[s]: the update(entity) session s is in the middle of
  run,     \* run[s]: a scheduler or sweep run
  task,    \* task[t]: a send task
  req,     \* req[q]: a request
  crashes, \* how often the worker has died
  mailed,  \* history: the steps mailed to each recipient
  late,    \* history: the jobs a run committed after cancel_pending had looked
  reverted \* history: the jobs a resume brought back to PENDING when they were over

tables == <<rows, mail, camp>>
actors == <<run, task, req>>
counted == <<crashes, late, reverted>>
vars == <<tables, queue, waited, edit, actors, mailed, counted>>

Steps == 0..LastStep
StepStatus == {"PENDING", "SCHEDULED", "SENT", "FAILED", "SKIPPED"}

RecipientRow ==
  [step : Steps, statuses : [Steps -> StepStatus],
   paused : BOOLEAN, replied : BOOLEAN, completed : BOOLEAN]

MailJobs == [to : Recipients, step : Steps, copy : 1..MaxCopies]
Campaign == "campaign"

Runs == Schedulers \cup Sweepers
Sessions == Runs \cup Tasks \cup Requests

\* _active_filter
IsActive(row) == ~row.completed /\ ~row.paused /\ ~row.replied

ActiveFor(s) == {r \in Recipients : IsActive(View(rows, s, r))}
LiveMail(s) == {j \in MailJobs : View(mail, s, j) = "PENDING"}
-----------------------------------------------------------------------------
(***************************************************************************)
(* The campaign has just been created: the first step's jobs are queued.   *)
(***************************************************************************)
FirstRow ==
  [step |-> 0, statuses |-> [n \in Steps |-> IF n = 0 THEN "SCHEDULED" ELSE "PENDING"],
   paused |-> FALSE, replied |-> FALSE, completed |-> FALSE]

FirstJobs == {j \in MailJobs : j.step = 0 /\ j.copy = 1}

NoEdit == [at |-> "none", who |-> None, new |-> None, base |-> None]
IdleRun == [pc |-> "idle", listed |-> <<>>, seen |-> None]
IdleTask == [pc |-> "idle", job |-> None, result |-> None]
Request(pc) ==
  [pc |-> pc, op |-> None, listed |-> <<>>, seen |-> None, target |-> None,
   plan |-> {}, todo |-> {}, cur |-> None, row |-> None]

Init ==
  /\ rows = Committed([r \in Recipients |-> FirstRow])
  /\ mail = Committed([j \in MailJobs |-> IF j \in FirstJobs THEN "PENDING" ELSE Absent])
  /\ camp = Committed([c \in {Campaign} |-> "SCHEDULED"])
  /\ queue = [j \in MailJobs |-> IF j \in FirstJobs THEN 1 ELSE 0]
  /\ waited = {}
  /\ edit = [s \in Sessions |-> NoEdit]
  /\ run = [s \in Runs |-> IdleRun]
  /\ task = [t \in Tasks |-> IdleTask]
  /\ req = [q \in Requests |-> Request("new")]
  /\ crashes = 0
  /\ mailed = [r \in Recipients |-> <<>>]
  /\ late = {}
  /\ reverted = {}
-----------------------------------------------------------------------------
(***************************************************************************)
(* RecipientStateRepository.update(entity): the row is read again, and the *)
(* columns in which the entity differs from it are written.  The statuses  *)
(* of all steps are one column.                                            *)
(***************************************************************************)
Editing(s) == edit[s].at # "none"

Edit(s, r, entity) ==
  edit' = [edit EXCEPT ![s] = [at |-> "select", who |-> r, new |-> entity, base |-> None]]

SelectRow(s) ==
  /\ edit[s].at = "select"
  /\ edit' = [edit EXCEPT ![s] =
       [@ EXCEPT !.at = "write", !.base = View(rows, s, edit[s].who)]]
  /\ UNCHANGED <<tables, queue, waited, actors, mailed, counted>>

\* A task that records a mail as sent puts the time into the statuses, so they differ
\* from what it has read whatever that was.
Stamped(s) == s \in Tasks /\ task[s].result = "SENT"

WriteRow_committed(s) ==  \* mutant: update(entity) commits
  /\ edit[s].at = "write"
  /\ LET r == edit[s].who
         row == Changed(View(rows, s, r), edit[s].base, edit[s].new)
     IN /\ ~Locked(rows, s, r)
        /\ rows' = Publish(Put(rows, s, r,
             IF Stamped(s) THEN [row EXCEPT !.statuses = edit[s].new.statuses] ELSE row), s)
  /\ edit' = [edit EXCEPT ![s] = NoEdit]
  /\ UNCHANGED <<mail, camp, queue, waited, actors, mailed, counted>>

WriteRow(s) ==
  /\ edit[s].at = "write"
  /\ LET r == edit[s].who
         row == Changed(View(rows, s, r), edit[s].base, edit[s].new)
     IN /\ ~Locked(rows, s, r)
        /\ rows' = Put(rows, s, r,
             IF Stamped(s) THEN [row EXCEPT !.statuses = edit[s].new.statuses] ELSE row)
  /\ edit' = [edit EXCEPT ![s] = NoEdit]
  /\ UNCHANGED <<mail, camp, queue, waited, actors, mailed, counted>>

CommitTables(s) ==
  /\ rows' = Publish(rows, s)
  /\ mail' = Publish(mail, s)
  /\ camp' = Publish(camp, s)

Discarded(S) ==
  /\ rows' = Discard(rows, S) /\ mail' = Discard(mail, S) /\ camp' = Discard(camp, S)

Enqueued(J) == [j \in MailJobs |-> IF j \in J THEN queue[j] + 1 ELSE queue[j]]

\* UPDATE email_campaigns ... WHERE status = expected
update_status_if(s, expected, target) ==
  IF View(camp, s, Campaign) = expected
  THEN ~Locked(camp, s, Campaign) /\ camp' = Put(camp, s, Campaign, target)
  ELSE UNCHANGED camp
-----------------------------------------------------------------------------
(***************************************************************************)
(* SequenceSchedulerUseCase.run: the active recipients are listed once and *)
(* visited one after the other, in one transaction.                        *)
(***************************************************************************)
Without(listed, r) == [x \in DOMAIN listed \ {r} |-> listed[x]]

StartRun(s) ==
  /\ run[s].pc = "idle"
  /\ View(camp, s, Campaign) \in {"SCHEDULED", "SENDING"}
  /\ run' = [run EXCEPT ![s] =
       [pc |-> "visit", listed |-> [r \in ActiveFor(s) |-> View(rows, s, r)],
        seen |-> View(camp, s, Campaign)]]
  /\ UNCHANGED <<tables, queue, waited, edit, task, req, mailed, counted>>

\* Recipient r is the next one run s looks at, as it was when it was listed.
Visiting(s, r) == run[s].pc = "visit" /\ ~Editing(s) /\ r \in DOMAIN run[s].listed

Listed(s, r) == run[s].listed[r]
StepSent(e) == e.statuses[e.step] = "SENT"

Visited(s, r) == run' = [run EXCEPT ![s].listed = Without(run[s].listed, r)]

\* The current step is not sent, its wait is not over, or another run was first.
PassOver(s, r) ==
  /\ Visiting(s, r)
  /\ LET e == Listed(s, r) IN
     \/ ~StepSent(e)
     \/ e.step < LastStep /\ <<r, e.step>> \notin waited
     \/ e.step < LastStep /\ View(rows, s, r).step # e.step
  /\ Visited(s, r)
  /\ UNCHANGED <<tables, queue, waited, edit, task, req, mailed, counted>>

FinishRecipient_counts(s, r) ==  \* mutant: the step counter moves on as well
  /\ Visiting(s, r)
  /\ LET e == Listed(s, r) IN
     /\ StepSent(e) /\ e.step = LastStep
     /\ Edit(s, r, [e EXCEPT !.completed = TRUE, !.step = LastStep + 1])
  /\ Visited(s, r)
  /\ UNCHANGED <<tables, queue, waited, task, req, mailed, counted>>

FinishRecipient_late(s, r) ==  \* mutant: waits for one step more than there are
  /\ Visiting(s, r)
  /\ LET e == Listed(s, r) IN
     /\ e.step = LastStep + 1
     /\ Edit(s, r, [e EXCEPT !.completed = TRUE])
  /\ Visited(s, r)
  /\ UNCHANGED <<tables, queue, waited, task, req, mailed, counted>>

FinishRecipient(s, r) ==
  /\ Visiting(s, r)
  /\ LET e == Listed(s, r) IN
     /\ StepSent(e) /\ e.step = LastStep
     /\ Edit(s, r, [e EXCEPT !.completed = TRUE])
  /\ Visited(s, r)
  /\ UNCHANGED <<tables, queue, waited, task, req, mailed, counted>>

(***************************************************************************)
(* advance_step takes the row's lock if the row is still at the listed     *)
(* step; the entity is written over it, the job inserted and queued, all   *)
(* before the run's commit.                                                *)
(***************************************************************************)
NewCopy(r, n) ==
  {j \in MailJobs : /\ j.to = r /\ j.step = n /\ mail.next[j] = Absent
                    /\ \A k \in 1..(j.copy - 1) : mail.next[[j EXCEPT !.copy = k]] # Absent}

Advance_unchecked(s, r) ==  \* mutant: advance_step does not compare the step
  /\ Visiting(s, r)
  /\ LET e == Listed(s, r)
         next == e.step + 1
     IN /\ StepSent(e) /\ e.step < LastStep /\ <<r, e.step>> \in waited
        /\ ~Locked(rows, s, r)
        /\ rows' = Put(rows, s, r, [e EXCEPT !.step = next, !.statuses[next] = "SCHEDULED"])
        /\ \E job \in NewCopy(r, next) :
             mail' = Put(mail, s, job, "PENDING") /\ queue' = Enqueued({job})
  /\ Visited(s, r)
  /\ UNCHANGED <<camp, waited, edit, task, req, mailed, counted>>

Advance(s, r) ==
  /\ Visiting(s, r)
  /\ LET e == Listed(s, r)
         next == e.step + 1
     IN /\ StepSent(e) /\ e.step < LastStep /\ <<r, e.step>> \in waited
        /\ View(rows, s, r).step = e.step /\ ~Locked(rows, s, r)
        /\ rows' = Put(rows, s, r, [e EXCEPT !.step = next, !.statuses[next] = "SCHEDULED"])
        /\ \E job \in NewCopy(r, next) :
             mail' = Put(mail, s, job, "PENDING") /\ queue' = Enqueued({job})
  /\ Visited(s, r)
  /\ UNCHANGED <<camp, waited, edit, task, req, mailed, counted>>
-----------------------------------------------------------------------------
\* The scheduler's completion check: active recipients, then live jobs, then
\* the status the campaign was listed with.
CountActive(s) ==
  /\ s \in Schedulers
  /\ run[s].pc = "visit" /\ ~Editing(s) /\ DOMAIN run[s].listed = {}
  /\ run' = [run EXCEPT ![s].pc = IF ActiveFor(s) = {} THEN "complete" ELSE "commit"]
  /\ UNCHANGED <<tables, queue, waited, edit, task, req, mailed, counted>>

CompleteSequence(s) ==
  /\ s \in Schedulers /\ run[s].pc = "complete"
  /\ IF LiveMail(s) = {} THEN update_status_if(s, run[s].seen, "COMPLETED") ELSE UNCHANGED camp
  /\ run' = [run EXCEPT ![s].pc = "commit"]
  /\ UNCHANGED <<rows, mail, queue, waited, edit, task, req, mailed, counted>>

\* sweep_stuck_campaigns asks in the other order, and only about SENDING ones.
SweepCountsLive(s) ==
  /\ s \in Sweepers /\ run[s].pc = "idle"
  /\ View(camp, s, Campaign) = "SENDING" /\ LiveMail(s) = {}
  /\ run' = [run EXCEPT ![s].pc = "complete"]
  /\ UNCHANGED <<tables, queue, waited, edit, task, req, mailed, counted>>

SweepCompletes_uncounted(s) ==  \* mutant: active recipients are not counted
  /\ s \in Sweepers /\ run[s].pc = "complete"
  /\ update_status_if(s, "SENDING", "COMPLETED")
  /\ run' = [run EXCEPT ![s].pc = "commit"]
  /\ UNCHANGED <<rows, mail, queue, waited, edit, task, req, mailed, counted>>

SweepCompletes(s) ==
  /\ s \in Sweepers /\ run[s].pc = "complete"
  /\ IF ActiveFor(s) = {} THEN update_status_if(s, "SENDING", "COMPLETED") ELSE UNCHANGED camp
  /\ run' = [run EXCEPT ![s].pc = "commit"]
  /\ UNCHANGED <<rows, mail, queue, waited, edit, task, req, mailed, counted>>

\* A cancel has looked for the jobs it has to cancel.
CancelLooked ==
  \/ camp.live[Campaign] = "CANCELLED"
  \/ \E q \in Requests : req[q].op = "cancel_campaign" /\ req[q].pc \in {"cancelling", "commit"}

CommitRun(s) ==
  /\ run[s].pc = "commit"
  /\ CommitTables(s)
  /\ run' = [run EXCEPT ![s] = IdleRun]
  /\ late' = IF CancelLooked THEN late \cup {j \in MailJobs : mail.lock[j] = s} ELSE late
  /\ UNCHANGED <<queue, waited, edit, task, req, mailed, crashes, reverted>>
-----------------------------------------------------------------------------
(***************************************************************************)
(* The send task takes a call and reads the job and the campaign.  A call  *)
(* whose job is not committed yet, whose job is no longer PENDING or whose *)
(* campaign is paused or cancelled is over.                                *)
(***************************************************************************)
TakeCall(t, j) ==
  /\ task[t].pc = "idle" /\ queue[j] > 0
  /\ View(mail, t, j) # Absent \/ "early" \in Faults
  /\ queue' = [queue EXCEPT ![j] = @ - 1]
  /\ IF View(mail, t, j) = "PENDING" /\ View(camp, t, Campaign) \notin {"PAUSED", "CANCELLED"}
     THEN task' = [task EXCEPT ![t] = [pc |-> "claim", job |-> j, result |-> None]]
     ELSE UNCHANGED task
  /\ UNCHANGED <<tables, waited, edit, run, req, mailed, counted>>

\* claim_pending finds the job taken or cancelled.
ClaimFails(t) ==
  /\ task[t].pc = "claim"
  /\ View(mail, t, task[t].job) # "PENDING"
  /\ task' = [task EXCEPT ![t] = IdleTask]
  /\ UNCHANGED <<tables, queue, waited, edit, run, req, mailed, counted>>

Deliver(t, outcome) ==
  /\ task[t].pc = "claim" /\ outcome \in Outcomes
  /\ LET j == task[t].job IN
     /\ View(mail, t, j) = "PENDING" /\ ~Locked(mail, t, j)
     /\ update_status_if(t, "SCHEDULED", "SENDING")
     /\ mail' = Put(mail, t, j, IF outcome = "accepted" THEN "SENT" ELSE "FAILED")
     /\ mailed' = IF outcome = "accepted"
                  THEN [mailed EXCEPT ![j.to] = Append(@, j.step)] ELSE mailed
     /\ task' = [task EXCEPT ![t] =
          [pc |-> IF outcome = "rejected" THEN "commit" ELSE "state", job |-> j,
           result |-> IF outcome = "accepted" THEN "SENT" ELSE "FAILED"]]
  /\ UNCHANGED <<rows, queue, waited, edit, run, req, counted>>

\* _update_step_status: get_by_recipient, then update(entity).
ReadState(t) ==
  /\ task[t].pc = "state"
  /\ LET j == task[t].job IN
     Edit(t, j.to, [View(rows, t, j.to) EXCEPT !.statuses[j.step] = task[t].result])
  /\ task' = [task EXCEPT ![t].pc = "commit"]
  /\ UNCHANGED <<tables, queue, waited, run, req, mailed, counted>>

\* The wait for the next step is counted from the new sentAt.
CommitTask(t) ==
  /\ task[t].pc = "commit" /\ ~Editing(t)
  /\ CommitTables(t)
  /\ waited' = IF Stamped(t) THEN waited \ {<<task[t].job.to, task[t].job.step>>} ELSE waited
  /\ task' = [task EXCEPT ![t] = IdleTask]
  /\ UNCHANGED <<queue, edit, run, req, mailed, counted>>
-----------------------------------------------------------------------------
(***************************************************************************)
(* The requests about recipients.  pause_all, resume_all and set_replied   *)
(* are one UPDATE; it and the commit that follows are one step, taken when *)
(* the rows are free.                                                      *)
(***************************************************************************)
Answered == Request("done")

Apply(q, R, Set(_)) ==
  /\ req[q].pc = "new"
  /\ \A r \in R : ~Locked(rows, q, r)
  /\ LET Update(f) == [r \in Recipients |-> IF r \in R THEN Set(f[r]) ELSE f[r]] IN
     rows' = [rows EXCEPT !.live = Update(@), !.next = Update(@)]
  /\ req' = [req EXCEPT ![q] = Answered]
  /\ UNCHANGED <<mail, camp, queue, waited, edit, run, task, mailed, counted>>

set_paused_all(q, paused) ==
  /\ (IF paused THEN "pause_all" ELSE "resume_all") \in SequenceOps
  /\ LET Set(row) == [row EXCEPT !.paused = paused] IN Apply(q, Recipients, Set)

\* toggle_replied asks for a mail that was sent.
set_replied(q, r, replied) ==
  /\ (IF replied THEN "replied" ELSE "unreplied") \in SequenceOps
  /\ \E j \in MailJobs : j.to = r /\ mail.live[j] = "SENT"
  /\ LET Set(row) == [row EXCEPT !.replied = replied] IN Apply(q, {r}, Set)

\* _skip_unfinished_steps
SkipUnfinished(statuses) ==
  [n \in Steps |-> IF statuses[n] \in {"SENT", "FAILED"} THEN statuses[n] ELSE "SKIPPED"]

Wanted_skipping(op, row) ==  \* mutant: stop skips the steps, and no more
  CASE op = "pause" -> [row EXCEPT !.paused = TRUE]
    [] op = "resume" -> [row EXCEPT !.paused = FALSE]
    [] op \in {"stop", "stop_all"} -> [row EXCEPT !.statuses = SkipUnfinished(@)]

Wanted(op, row) ==
  CASE op = "pause" -> [row EXCEPT !.paused = TRUE]
    [] op = "resume" -> [row EXCEPT !.paused = FALSE]
    [] op \in {"stop", "stop_all"} ->
         [row EXCEPT !.statuses = SkipUnfinished(@), !.completed = TRUE]

\* pause, resume and stop read one recipient, stop_all reads them all ...
ReadRecipients(q, op, R) ==
  /\ req[q].pc = "new" /\ op \in SequenceOps
  /\ IF op = "stop_all" THEN R = Recipients
     ELSE op \in {"pause", "resume", "stop"} /\ Cardinality(R) = 1
  /\ req' = [req EXCEPT ![q] =
       [Request("write") EXCEPT !.listed = [r \in R |-> Wanted(op, View(rows, q, r))]]]
  /\ UNCHANGED <<tables, queue, waited, edit, run, task, mailed, counted>>

\* ... and write the entities back one by one, in one transaction.
UpdateRecipient(q, r) ==
  /\ req[q].pc = "write" /\ ~Editing(q) /\ r \in DOMAIN req[q].listed
  /\ Edit(q, r, req[q].listed[r])
  /\ req' = [req EXCEPT ![q].listed = Without(req[q].listed, r)]
  /\ UNCHANGED <<tables, queue, waited, run, task, mailed, counted>>

CommitRecipients(q) ==
  /\ req[q].pc = "write" /\ ~Editing(q) /\ DOMAIN req[q].listed = {}
  /\ CommitTables(q)
  /\ req' = [req EXCEPT ![q] = Answered]
  /\ UNCHANGED <<queue, waited, edit, run, task, mailed, counted>>
-----------------------------------------------------------------------------
(***************************************************************************)
(* The requests about the campaign, statement by statement.  The UPDATE of *)
(* cancel_pending takes its rows when all of them are free.                *)
(***************************************************************************)
TargetOf(op) == IF op = "pause_campaign" THEN "PAUSED" ELSE "CANCELLED"

ReadCampaign(q, op) ==
  /\ req[q].pc = "new" /\ op \in SequenceOps \cap CampaignOps
  /\ LET status == View(camp, q, Campaign) IN
     req' = [req EXCEPT ![q] =
       CASE op = "resume_campaign" /\ status = "PAUSED" ->
              [Request("list") EXCEPT !.op = op, !.seen = status]
         [] op # "resume_campaign" /\ is_valid_transition(status, TargetOf(op)) ->
              [Request("status") EXCEPT !.op = op, !.seen = status, !.target = TargetOf(op)]
         [] OTHER -> Answered]
  /\ UNCHANGED <<tables, queue, waited, edit, run, task, mailed, counted>>

\* resume lists the jobs: none to send completes the campaign, and the overdue ones
\* are rescheduled and will be enqueued.  A job nobody has a call for is overdue.
ListMail(q) ==
  /\ req[q].pc = "list"
  /\ \E overdue \in SUBSET LiveMail(q) :
       /\ {j \in LiveMail(q) : queue[j] = 0} \subseteq overdue
       /\ req' = [req EXCEPT ![q] =
            [@ EXCEPT !.target = IF LiveMail(q) = {} THEN "COMPLETED" ELSE "SENDING",
                      !.pc = IF overdue = {} THEN "status" ELSE "select",
                      !.todo = overdue, !.plan = overdue]]
  /\ UNCHANGED <<tables, queue, waited, edit, run, task, mailed, counted>>

\* update(job) reads the row of a listed job again ...
SelectMail(q, j) ==
  /\ req[q].pc = "select" /\ j \in req[q].todo
  /\ req' = [req EXCEPT ![q] =
       [@ EXCEPT !.pc = "update", !.cur = j, !.row = View(mail, q, j)]]
  /\ UNCHANGED <<tables, queue, waited, edit, run, task, mailed, counted>>

\* ... and writes the listed PENDING over whatever else it has read.
UpdateMail(q) ==
  /\ req[q].pc = "update"
  /\ LET j == req[q].cur
         rest == req[q].todo \ {j}
     IN /\ ~Locked(mail, q, j)
        /\ mail' = Put(mail, q, j,
             IF req[q].row # "PENDING" THEN "PENDING" ELSE View(mail, q, j))
        /\ req' = [req EXCEPT ![q] =
             [@ EXCEPT !.pc = IF rest = {} THEN "status" ELSE "select",
                       !.todo = rest, !.cur = None, !.row = None]]
  /\ UNCHANGED <<rows, camp, queue, waited, edit, run, task, mailed, counted>>

WriteCampaign(q) ==
  /\ req[q].pc = "status"
  /\ IF View(camp, q, Campaign) = req[q].seen
     THEN /\ update_status_if(q, req[q].seen, req[q].target)
          /\ req' = [req EXCEPT ![q].pc =
               IF req[q].op = "cancel_campaign" THEN "snapshot" ELSE "commit"]
          /\ UNCHANGED <<rows, mail>>
     ELSE Discarded({q}) /\ req' = [req EXCEPT ![q] = Answered]
  /\ UNCHANGED <<queue, waited, edit, run, task, mailed, counted>>

SnapshotMail_none(q) ==  \* mutant: cancel leaves the jobs alone
  /\ req[q].pc = "snapshot"
  /\ req' = [req EXCEPT ![q].pc = "commit"]
  /\ UNCHANGED <<tables, queue, waited, edit, run, task, mailed, counted>>

\* cancel_pending finds its rows, and takes those that are still PENDING.
SnapshotMail(q) ==
  /\ req[q].pc = "snapshot"
  /\ req' = [req EXCEPT ![q] = [@ EXCEPT !.pc = "cancelling", !.plan = LiveMail(q)]]
  /\ UNCHANGED <<tables, queue, waited, edit, run, task, mailed, counted>>

CancelMail(q) ==
  /\ req[q].pc = "cancelling"
  /\ \A j \in req[q].plan : ~Locked(mail, q, j)
  /\ mail' = PutAll(mail, q, req[q].plan \cap LiveMail(q), "CANCELLED")
  /\ req' = [req EXCEPT ![q] = [@ EXCEPT !.pc = "commit", !.plan = {}]]
  /\ UNCHANGED <<rows, camp, queue, waited, edit, run, task, mailed, counted>>

\* The jobs session s has brought back to PENDING that are over for everybody else.
Overwritten(s) ==
  {j \in MailJobs : /\ mail.lock[j] = s /\ mail.next[j] = "PENDING"
                    /\ mail.live[j] \in {"SENT", "FAILED", "CANCELLED"}}

\* The commit, and then the route's loop over enqueue_plan.
CommitCampaign(q) ==
  /\ req[q].pc = "commit"
  /\ CommitTables(q)
  /\ reverted' = reverted \cup Overwritten(q)
  /\ req' = [req EXCEPT ![q] = [@ EXCEPT !.pc = "enqueue"]]
  /\ UNCHANGED <<queue, waited, edit, run, task, mailed, crashes, late>>

EnqueuePlan(q) ==
  /\ req[q].pc = "enqueue"
  /\ queue' = Enqueued(req[q].plan)
  /\ req' = [req EXCEPT ![q] =
       [Answered EXCEPT !.op = req[q].op, !.target = req[q].target]]
  /\ UNCHANGED <<tables, waited, edit, run, task, mailed, counted>>
-----------------------------------------------------------------------------
\* wait_days have passed since a step was sent.
WaitOver(r, n) ==
  /\ rows.live[r].statuses[n] = "SENT" /\ <<r, n>> \notin waited
  /\ waited' = waited \cup {<<r, n>>}
  /\ UNCHANGED <<tables, queue, edit, actors, mailed, counted>>

\* A statement of request q waits for a row of another session.
RequestWaits(q) ==
  \/ req[q].pc = "update" /\ Locked(mail, q, req[q].cur)
  \/ /\ req[q].pc = "status" /\ View(camp, q, Campaign) = req[q].seen
     /\ Locked(camp, q, Campaign)
  \/ req[q].pc = "cancelling" /\ \E j \in req[q].plan : Locked(mail, q, j)

\* A write that waits for another session's row fails (deadlock victim, lock
\* timeout): the session closes without a commit.
WriteFails(s) ==
  /\ "lock" \in Faults
  /\ \/ edit[s].at = "write" /\ Locked(rows, s, edit[s].who)
     \/ s \in Requests /\ RequestWaits(s)
  /\ Discarded({s})
  /\ edit' = [edit EXCEPT ![s] = NoEdit]
  /\ run' = IF s \in Runs THEN [run EXCEPT ![s] = IdleRun] ELSE run
  /\ task' = IF s \in Tasks THEN [task EXCEPT ![s] = IdleTask] ELSE task
  /\ req' = IF s \in Requests THEN [req EXCEPT ![s] = Answered] ELSE req
  /\ UNCHANGED <<queue, waited, mailed, counted>>

\* The worker dies and is started again: its sessions close, and arq delivers
\* the calls once more whose tasks were running.
WorkerCrash ==
  /\ crashes < MaxCrashes
  /\ crashes' = crashes + 1
  /\ Discarded(Runs \cup Tasks)
  /\ queue' = [j \in MailJobs |->
       queue[j] + Cardinality({t \in Tasks : task[t].pc # "idle" /\ task[t].job = j})]
  /\ edit' = [s \in Sessions |-> IF s \in Requests THEN edit[s] ELSE NoEdit]
  /\ run' = [s \in Runs |-> IdleRun]
  /\ task' = [t \in Tasks |-> IdleTask]
  /\ UNCHANGED <<waited, req, mailed, late, reverted>>

SchedulerStep(s) ==
  \/ StartRun(s) \/ CountActive(s) \/ CompleteSequence(s)
  \/ \E r \in Recipients : PassOver(s, r) \/ FinishRecipient(s, r) \/ Advance(s, r)

RunStep(s) ==
  \/ s \in Schedulers /\ SchedulerStep(s)
  \/ SweepCountsLive(s) \/ SweepCompletes(s)
  \/ CommitRun(s)

TaskStep(t) ==
  \/ \E j \in MailJobs : TakeCall(t, j)
  \/ ClaimFails(t)
  \/ \E o \in Outcomes : Deliver(t, o)
  \/ ReadState(t) \/ CommitTask(t)

RequestArrives(q) ==
  \/ \E b \in BOOLEAN : set_paused_all(q, b) \/ \E r \in Recipients : set_replied(q, r, b)
  \/ \E op \in SequenceOps, R \in SUBSET Recipients : ReadRecipients(q, op, R)
  \/ \E op \in SequenceOps : ReadCampaign(q, op)

RequestStep(q) ==
  \/ CommitRecipients(q) \/ \E r \in Recipients : UpdateRecipient(q, r)
  \/ ListMail(q) \/ UpdateMail(q) \/ \E j \in MailJobs : SelectMail(q, j)
  \/ WriteCampaign(q) \/ SnapshotMail(q) \/ CancelMail(q)
  \/ CommitCampaign(q) \/ EnqueuePlan(q)

EditStep(s) == SelectRow(s) \/ WriteRow(s)

Next ==
  \/ \E s \in Runs : RunStep(s)
  \/ \E t \in Tasks : TaskStep(t)
  \/ \E q \in Requests : RequestArrives(q) \/ RequestStep(q)
  \/ \E s \in Sessions : EditStep(s) \/ WriteFails(s)
  \/ \E r \in Recipients, n \in Steps : WaitOver(r, n)
  \/ WorkerCrash

Spec == Init /\ [][Next]_vars

(***************************************************************************)
(* Fairness: the cron schedule starts a run again and again and every run, *)
(* task and request is carried on; calls are taken; time passes.           *)
(***************************************************************************)
Fairness ==
  /\ \A s \in Runs : WF_vars(RunStep(s))
  /\ \A t \in Tasks : WF_vars(TaskStep(t))
  /\ \A q \in Requests : WF_vars(RequestStep(q))
  /\ \A s \in Sessions : WF_vars(EditStep(s))
  /\ \A r \in Recipients, n \in Steps : WF_vars(WaitOver(r, n))

FairSpec == Spec /\ Fairness
-----------------------------------------------------------------------------
TypeOK ==
  /\ rows \in Tables(Recipients, RecipientRow, Sessions)
  /\ mail \in Tables(MailJobs, {Absent, "PENDING", "SENT", "FAILED", "CANCELLED"}, Sessions)
  /\ camp \in Tables({Campaign}, CampaignStatus, Sessions)
  /\ queue \in [MailJobs -> Nat]
  /\ waited \subseteq Recipients \X Steps
  /\ \A s \in Sessions : edit[s].at \in {"none", "select", "write"}
  /\ \A s \in Runs : run[s].pc \in {"idle", "visit", "complete", "commit"}
  /\ \A t \in Tasks : task[t].job \in MailJobs \cup {None}
  /\ \A q \in Requests : req[q].plan \subseteq MailJobs
  /\ crashes \in 0..MaxCrashes
  /\ \A r \in Recipients : mailed[r] \in Seq(Steps)
  /\ late \subseteq MailJobs
  /\ reverted \subseteq MailJobs

\* The recipients one of whose mails a resume has written back to PENDING when it was
\* over: it had listed the job before the task was done with it.
Rewritten == {j.to : j \in reverted}

\* Two scheduler runs and any number of tasks mail every step of a sequence
\* once and in order (docs/overview.md: sequence-step advancement uses UPDATE
\* ... WHERE, "so two workers can never double-send"), whatever is done to the
\* campaign meanwhile, but for the mails a resume writes back.  A worker that dies
\* between the mail and its record sends the mail again, and never an earlier one.
\* And nobody is ever sent a step without the one before it.
Promise == INSTANCE InOrder WITH lossy <- crashes > 0, rewritten <- Rewritten
StepsInOrder == Promise!Spec

\* A sequence is completed only when there is nobody left to write to and nothing
\* left to send (run and sweep_stuck_campaigns count both), unless a resume of the
\* campaign has found no live job and completed it, or has written a mail back
\* between the count and the UPDATE: that recipient has a mail to come.
CompletedIsOver ==
  camp.live[Campaign] = "COMPLETED" =>
    \/ \A r \in Recipients \ Rewritten :
         /\ ~IsActive(rows.live[r])
         /\ \A j \in MailJobs : j.to = r => mail.live[j] # "PENDING"
    \/ \E q \in Requests : req[q].op = "resume_campaign" /\ req[q].target = "COMPLETED"

\* A cancelled campaign has no job left to send but those a scheduler run
\* committed after cancel_pending had looked for them.
CancelledIsOver ==
  camp.live[Campaign] = "CANCELLED" => \A j \in MailJobs \ late : mail.live[j] # "PENDING"

\* After a cancel has been committed no mail leaves, those late jobs again
\* excepted: their task may have read the campaign before.
CancelStopsSequence ==
  [][\A t \in Tasks :
       mailed' # mailed /\ task[t].pc = "claim" /\ task'[t].pc = "state"
         => camp.live[Campaign] # "CANCELLED" \/ task[t].job \in late]_vars

\* The recipient's row and the jobs tell the same story: a job is waiting only
\* for the step the row is at, and every earlier step was sent, until a resume
\* writes back what has been sent.
RowFollowsJobs ==
  \A r \in Recipients \ Rewritten, j \in MailJobs :
    j.to = r /\ mail.live[j] # Absent =>
      /\ j.step <= rows.live[r].step
      /\ j.step < rows.live[r].step => mail.live[j] = "SENT"

\* A recipient whose current step failed is neither advanced nor completed.
HeldByFailure(r) ==
  \E j \in MailJobs : j.to = r /\ j.step = rows.live[r].step /\ mail.live[j] = "FAILED"

\* Every sequence comes to its end, or the user has stopped the campaign, or
\* everybody left to write to is one whose mail failed: a failure holds up no
\* other recipient.
SequenceEnds ==
  <>(\/ camp.live[Campaign] \in {"COMPLETED", "PAUSED", "CANCELLED"}
     \/ \A r \in Recipients : IsActive(rows.live[r]) => HeldByFailure(r))
=============================================================================
