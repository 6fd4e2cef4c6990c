------------------------------ MODULE SendTask ------------------------------
(***************************************************************************)
(* The worker's send_email tasks (worker/main.py): one session each, in    *)
(* which SendEmailUseCase.execute and CampaignCompletionChecker.check      *)
(* (application/delivery.py) run, and one commit at the end.  A task is a  *)
(* slot of the worker's max_jobs; every statement it sends to the database *)
(* is a step.                                                              *)
(*                                                                         *)
(* Campaigns with follow-up steps never complete here                      *)
(* (has_sequence_steps); this module's campaigns have none.                *)
(***************************************************************************)
EXTENDS MailStore, FiniteSets

CONSTANTS
  Tasks,      \* the worker's concurrent send_email tasks
  Outcomes,   \* what the checks and the SMTP server may answer
  Faults,     \* the faults that may happen
  MaxDelays   \* how often a send may be put off by throttling

ASSUME TasksAssumption == IsFiniteSet(Tasks) /\ Free \notin Tasks
ASSUME OutcomesAssumption ==
  Outcomes \subseteq {"rejected", "exhausted", "postponed", "accepted", "refused"}
ASSUME MaxDelaysAssumption == MaxDelays \in Nat

VARIABLES
  task,   \* task[w]: where the task is, its queue entry, and the statuses it read
  delays  \* how many sends throttling has put off

Unread == "UNREAD"

IdleTask == [pc |-> "idle", entry |-> None, job |-> Unread, camp |-> Unread]

TaskPcs == {"idle", "campaign", "claim", "start", "limits", "pausing",
            "check", "complete", "commit"}

TaskRecords ==
  [pc : TaskPcs, entry : Entries \cup {None},
   job : JobRows \cup {Unread}, camp : CampaignStatus \cup {Absent, Unread}]

TaskInit == task = [w \in Tasks |-> IdleTask] /\ delays = 0

JobAt(w) == task[w].entry.job
CampAt(w) == CampaignOf[JobAt(w)]

Goto(w, pc) == task' = [task EXCEPT ![w] = [@ EXCEPT !.pc = pc]]

At(w, pc) == task[w].pc = pc

(***************************************************************************)
(* execute reads the job, then its campaign, and claims the job with       *)
(* UPDATE ... WHERE status = 'PENDING'.                                    *)
(***************************************************************************)
Start_unchecked(w, e) ==  \* mutant: a call is run although it is not queued
  /\ At(w, "idle")
  /\ Ripe(e)
  /\ queue' = [queue EXCEPT ![e] = @ - 1]
  /\ task' = [task EXCEPT ![w] =
       [pc |-> "campaign", entry |-> e, job |-> View(jobs, w, e.job), camp |-> Unread]]
  /\ UNCHANGED <<camps, jobs, due, sends, orphaned, reverted, delays>>

Start(w, e) ==
  /\ At(w, "idle")
  /\ queue[e] > 0
  /\ Ripe(e)
  /\ queue' = [queue EXCEPT ![e] = @ - 1]
  /\ task' = [task EXCEPT ![w] =
       [pc |-> "campaign", entry |-> e, job |-> View(jobs, w, e.job), camp |-> Unread]]
  /\ UNCHANGED <<camps, jobs, due, sends, orphaned, reverted, delays>>

ReadCampaign(w) ==
  /\ At(w, "campaign")
  /\ LET status == StatusOf(w, CampAt(w))
         next == CASE status \in {"PAUSED", "CANCELLED"} -> "commit"
                   [] status \notin {"PAUSED", "CANCELLED"} /\ task[w].job = "SENT" -> "check"
                   [] status \notin {"PAUSED", "CANCELLED"} /\ task[w].job = "PENDING" -> "claim"
                   [] OTHER -> "commit"
     IN task' = [task EXCEPT ![w] = [@ EXCEPT !.pc = next, !.camp = status]]
  /\ UNCHANGED <<store, delays>>

claim_unconditional(w) ==  \* mutant: the claim does not ask for PENDING
  /\ At(w, "claim")
  /\ ~Locked(jobs, w, JobAt(w))
  /\ jobs' = Put(jobs, w, JobAt(w), "SENDING")
  /\ Goto(w, "start")
  /\ UNCHANGED <<camps, queue, due, sends, orphaned, reverted, delays>>

claim_committed(w) ==  \* mutant: the claim is committed on its own
  /\ At(w, "claim")
  /\ View(jobs, w, JobAt(w)) = "PENDING" /\ ~Locked(jobs, w, JobAt(w))
  /\ jobs' = Publish(Put(jobs, w, JobAt(w), "SENDING"), w)
  /\ Goto(w, "start")
  /\ UNCHANGED <<camps, queue, due, sends, orphaned, reverted, delays>>

claim_pending(w) ==
  /\ At(w, "claim")
  /\ set_status_if(w, JobAt(w), "PENDING", "SENDING")
  /\ Goto(w, IF View(jobs, w, JobAt(w)) = "PENDING" THEN "start" ELSE "commit")
  /\ UNCHANGED <<camps, queue, due, sends, orphaned, reverted, delays>>

\* The first send of a campaign read as SCHEDULED moves it to SENDING.
StartCampaign(w) ==
  /\ At(w, "start")
  /\ IF task[w].camp = "SCHEDULED"
     THEN update_status_if(w, CampAt(w), "SCHEDULED", "SENDING", None)
     ELSE UNCHANGED camps
  /\ Goto(w, "limits")
  /\ UNCHANGED <<jobs, queue, due, sends, orphaned, reverted, delays>>
-----------------------------------------------------------------------------
(***************************************************************************)
(* What happens to the claimed job.  The job's row is written under the    *)
(* task's own lock, so none of these steps waits.                          *)
(***************************************************************************)
SetJob(w, status) == jobs' = Put(jobs, w, JobAt(w), status)

\* Sender missing or unverified, password or attachment unreadable.
Reject(w) ==
  /\ At(w, "limits") /\ "rejected" \in Outcomes
  /\ SetJob(w, "FAILED")
  /\ Goto(w, "commit")
  /\ UNCHANGED <<camps, queue, due, sends, orphaned, reverted, delays>>

Postpone_unqueued(w) ==  \* mutant: released, but not queued again
  /\ At(w, "limits") /\ "postponed" \in Outcomes
  /\ delays < MaxDelays
  /\ delays' = delays + 1
  /\ set_status_if(w, JobAt(w), "SENDING", "PENDING")
  /\ Goto(w, "commit")
  /\ UNCHANGED <<camps, queue, due, sends, orphaned, reverted>>

\* Throttled, or handed to another sender of the pool: released and queued
\* again, before the commit.
Postpone(w) ==
  /\ At(w, "limits") /\ "postponed" \in Outcomes
  /\ delays < MaxDelays
  /\ delays' = delays + 1
  /\ set_status_if(w, JobAt(w), "SENDING", "PENDING")
  /\ queue' = EnqueueSoon({JobAt(w)})
  /\ Goto(w, "commit")
  /\ UNCHANGED <<camps, due, sends, orphaned, reverted>>

\* No sender of the pool has capacity left today: released, not queued.
Exhaust(w) ==
  /\ At(w, "limits") /\ "exhausted" \in Outcomes
  /\ set_status_if(w, JobAt(w), "SENDING", "PENDING")
  /\ Goto(w, "pausing")
  /\ UNCHANGED <<camps, queue, due, sends, orphaned, reverted, delays>>

\* The expected status is the one the task read before it claimed the job.
PauseExhausted(w) ==
  /\ At(w, "pausing")
  /\ update_status_if(w, CampAt(w), task[w].camp, "PAUSED", ALL_SENDERS_EXHAUSTED)
  /\ Goto(w, "commit")
  /\ UNCHANGED <<jobs, queue, due, sends, orphaned, reverted, delays>>

\* The SMTP server takes the mail: it has left, whatever happens to the row.
SmtpAccepts(w) ==
  /\ At(w, "limits") /\ "accepted" \in Outcomes
  /\ sends' = [sends EXCEPT ![JobAt(w)] = @ + 1]
  /\ IF View(jobs, w, JobAt(w)) # "CANCELLED" THEN SetJob(w, "SENT") ELSE UNCHANGED jobs
  /\ Goto(w, "check")
  /\ UNCHANGED <<camps, queue, due, orphaned, reverted, delays>>

SmtpRefuses(w) ==
  /\ At(w, "limits") /\ "refused" \in Outcomes
  /\ SetJob(w, "FAILED")
  /\ Goto(w, "check")
  /\ UNCHANGED <<camps, queue, due, sends, orphaned, reverted, delays>>
-----------------------------------------------------------------------------
(***************************************************************************)
(* CampaignCompletionChecker.check: the campaign and the number of live    *)
(* jobs are read, then the campaign is completed.                          *)
(***************************************************************************)
CheckCompletion_sending(w) ==  \* mutant: only SENDING jobs count as left to send
  /\ At(w, "check")
  /\ LET status == StatusOf(w, CampAt(w))
         done == /\ status \notin {"PAUSED", "CANCELLED", "COMPLETED"}
                 /\ JobsIn(w, CampAt(w), {"SENDING"}) = {}
                 /\ is_valid_transition(status, "COMPLETED")
     IN task' = [task EXCEPT ![w] =
          [@ EXCEPT !.pc = IF done THEN "complete" ELSE "commit", !.camp = status]]
  /\ UNCHANGED <<store, delays>>

CheckCompletion(w) ==
  /\ At(w, "check")
  /\ LET status == StatusOf(w, CampAt(w))
         done == /\ status \notin {"PAUSED", "CANCELLED", "COMPLETED"}
                 /\ non_terminal(w, CampAt(w)) = {}
                 /\ is_valid_transition(status, "COMPLETED")
     IN task' = [task EXCEPT ![w] =
          [@ EXCEPT !.pc = IF done THEN "complete" ELSE "commit", !.camp = status]]
  /\ UNCHANGED <<store, delays>>

CompleteCampaign(w) ==
  /\ At(w, "complete")
  /\ update_status_if(w, CampAt(w), task[w].camp, "COMPLETED", None)
  /\ Goto(w, "commit")
  /\ UNCHANGED <<jobs, queue, due, sends, orphaned, reverted, delays>>

Finish(w) == task' = [task EXCEPT ![w] = IdleTask]

CommitTask(w) ==
  /\ At(w, "commit")
  /\ CommitSession(w)
  /\ Finish(w)
  /\ UNCHANGED <<queue, delays>>
-----------------------------------------------------------------------------
\* The campaign status an UPDATE of task w is about to ask for, if any.
Expects(w) ==
  CASE At(w, "start") /\ task[w].camp = "SCHEDULED" -> {"SCHEDULED"}
    [] At(w, "pausing") \/ At(w, "complete") -> {task[w].camp}
    [] OTHER -> {}

\* The sessions that hold the row an UPDATE of task w needs.
TaskWaitsFor(w) ==
  CASE At(w, "claim") /\ View(jobs, w, JobAt(w)) = "PENDING" ->
         Holder(jobs, w, JobAt(w))
    [] Expects(w) # {} /\ StatusOf(w, CampAt(w)) \in Expects(w) ->
         Holder(camps, w, CampAt(w))
    [] OTHER -> {}

(***************************************************************************)
(* A waiting statement fails.  The exception leaves the session without a  *)
(* commit and arq drops the call (an ordinary exception is not retried);   *)
(* check() logs what it catches, so that a session whose completion failed *)
(* may still go on to its commit.                                          *)
(***************************************************************************)
StatementFails(w) ==
  /\ CloseSessions({w})
  /\ Finish(w)
  /\ UNCHANGED <<queue, delays>>

CompletionFails(w) ==
  /\ At(w, "complete")
  /\ Goto(w, "commit")
  /\ UNCHANGED <<store, delays>>

\* record_send_result fails, after the mail was handed over or refused: two
\* tasks insert the same counter or cooldown row (unique constraint).
RecordFails(w) ==
  /\ "record" \in Faults
  /\ At(w, "check")
  /\ jobs.lock[JobAt(w)] = w
  /\ CloseSessions({w})
  /\ Finish(w)
  /\ UNCHANGED <<queue, delays>>

\* The queue after the worker is killed: arq delivers the running calls
\* again, until their tries are used up.
Redelivered ==
  [e \in Entries |-> queue[e] + Cardinality({w \in Tasks :
     /\ ~At(w, "idle")
     /\ e = [task[w].entry EXCEPT !.try = @ + 1]})]

TaskStep(w) ==
  \/ ReadCampaign(w)
  \/ claim_pending(w)
  \/ StartCampaign(w)
  \/ Reject(w)
  \/ Postpone(w)
  \/ Exhaust(w)
  \/ PauseExhausted(w)
  \/ SmtpAccepts(w)
  \/ SmtpRefuses(w)
  \/ CheckCompletion(w)
  \/ CompleteCampaign(w)
  \/ CommitTask(w)
  \/ RecordFails(w)

TaskNext == \E w \in Tasks : TaskStep(w) \/ \E e \in Entries : Start(w, e)

TaskTypeOK == task \in [Tasks -> TaskRecords] /\ delays \in 0..MaxDelays
=============================================================================
