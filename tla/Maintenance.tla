----------------------------- MODULE Maintenance -----------------------------
(***************************************************************************)
(* The worker's cron jobs on campaigns (application/maintenance.py, run by *)
(* worker/main.py): auto-resume of campaigns paused for exhausted senders, *)
(* and the sweep that completes campaigns with no live job.  Each runs in  *)
(* one session with one commit at the end, and never overlaps with itself. *)
(*                                                                         *)
(* The sweeps of SENDING jobs are RecoverSending; they are one statement   *)
(* here, because no other session can see a row they would change.         *)
(***************************************************************************)
EXTENDS MailStore

CONSTANTS
  Crons,      \* the cron jobs that run: "auto_resume", "stuck_sweep"
  MaxResumes  \* how often auto-resume may find something to do

ASSUME CronsAssumption == Crons \subseteq {"auto_resume", "stuck_sweep"}
ASSUME MaxResumesAssumption == MaxResumes \in Nat

VARIABLES
  cron,    \* cron[k]: where the run is, and the campaigns it listed
  resumes  \* how many times auto-resume has started

CronRecords ==
  [pc : {"idle", "visit", "update", "enqueue"}, todo : SUBSET Campaigns,
   cur : Campaigns \cup {None}]

IdleCron == [pc |-> "idle", todo |-> {}, cur |-> None]

MaintenanceInit == cron = [k \in Crons |-> IdleCron] /\ resumes = 0

CronAt(k, pc) == k \in Crons /\ cron[k].pc = pc

Visit(k, c, pc) ==
  cron' = [cron EXCEPT ![k] =
    [pc |-> pc, todo |-> @.todo \ {c}, cur |-> IF pc = "visit" THEN None ELSE c]]

Listed_paused(k) ==  \* mutant: auto-resume lists every paused campaign
  IF k = "auto_resume"
  THEN {c \in Campaigns : StatusOf(k, c) = "PAUSED"}
  ELSE {c \in Campaigns : StatusOf(k, c) = "SENDING"}

\* The campaigns a run of cron job k lists.
Listed(k) ==
  IF k = "auto_resume"
  THEN {c \in Campaigns :
          View(camps, k, c) = [status |-> "PAUSED", reason |-> ALL_SENDERS_EXHAUSTED]}
  ELSE {c \in Campaigns : StatusOf(k, c) = "SENDING"}

StartCron(k) ==
  /\ CronAt(k, "idle")
  /\ Listed(k) # {}
  /\ IF k = "auto_resume"
     THEN resumes < MaxResumes /\ resumes' = resumes + 1
     ELSE UNCHANGED resumes
  /\ cron' = [cron EXCEPT ![k] = [pc |-> "visit", todo |-> Listed(k), cur |-> None]]
  /\ UNCHANGED store

(***************************************************************************)
(* Auto-resume: a campaign whose earliest resume time is still ahead is    *)
(* skipped; the others go back to SENDING, whatever their reason is by     *)
(* then, and every PENDING job is enqueued, before the commit.             *)
(***************************************************************************)
NotYet(c) ==
  /\ CronAt("auto_resume", "visit") /\ c \in cron["auto_resume"].todo
  /\ Visit("auto_resume", c, "visit")
  /\ UNCHANGED <<store, resumes>>

AutoResume_blind(c) ==  \* mutant: resumes whatever the status is by now
  /\ CronAt("auto_resume", "visit") /\ c \in cron["auto_resume"].todo
  /\ update_status_if("auto_resume", c, StatusOf("auto_resume", c), "SENDING", None)
  /\ Visit("auto_resume", c, "enqueue")
  /\ UNCHANGED <<jobs, queue, due, sends, orphaned, reverted, resumes>>

AutoResume(c) ==
  /\ CronAt("auto_resume", "visit") /\ c \in cron["auto_resume"].todo
  /\ update_status_if("auto_resume", c, "PAUSED", "SENDING", None)
  /\ Visit("auto_resume", c,
           IF StatusOf("auto_resume", c) = "PAUSED" THEN "enqueue" ELSE "visit")
  /\ UNCHANGED <<jobs, queue, due, sends, orphaned, reverted, resumes>>

EnqueuePending ==
  /\ CronAt("auto_resume", "enqueue")
  /\ LET c == cron["auto_resume"].cur IN
     /\ queue' = EnqueueSoon(JobsIn("auto_resume", c, {"PENDING"}))
     /\ Visit("auto_resume", c, "visit")
  /\ UNCHANGED <<camps, jobs, due, sends, orphaned, reverted, resumes>>

(***************************************************************************)
(* sweep_stuck_campaigns: count the live jobs, then complete.              *)
(***************************************************************************)
CountLive_all(c) ==  \* mutant: finished jobs are counted as live
  /\ CronAt("stuck_sweep", "visit") /\ c \in cron["stuck_sweep"].todo
  /\ Visit("stuck_sweep", c, IF JobsOf(c) = {} THEN "update" ELSE "visit")
  /\ UNCHANGED <<store, resumes>>

CountLive(c) ==
  /\ CronAt("stuck_sweep", "visit") /\ c \in cron["stuck_sweep"].todo
  /\ Visit("stuck_sweep", c,
           IF non_terminal("stuck_sweep", c) = {} THEN "update" ELSE "visit")
  /\ UNCHANGED <<store, resumes>>

CompleteStuck ==
  /\ CronAt("stuck_sweep", "update")
  /\ LET c == cron["stuck_sweep"].cur IN
     /\ update_status_if("stuck_sweep", c, "SENDING", "COMPLETED", None)
     /\ Visit("stuck_sweep", c, "visit")
  /\ UNCHANGED <<jobs, queue, due, sends, orphaned, reverted, resumes>>

CommitCron(k) ==
  /\ CronAt(k, "visit") /\ cron[k].todo = {}
  /\ CommitSession(k)
  /\ cron' = [cron EXCEPT ![k] = IdleCron]
  /\ UNCHANGED <<queue, resumes>>

\* The sessions that hold a row the UPDATE of cron job k on campaign c needs.
CronWaitsFor(k, c) ==
  IF \/ k = "auto_resume" /\ CronAt(k, "visit") /\ c \in cron[k].todo
          /\ StatusOf(k, c) = "PAUSED"
     \/ k = "stuck_sweep" /\ CronAt(k, "update") /\ c = cron[k].cur
          /\ StatusOf(k, c) = "SENDING"
  THEN Holder(camps, k, c) ELSE {}

\* A waiting statement of a cron job fails.  The loop logs it and goes on; in
\* PostgreSQL the transaction is lost, and the rest of the run with it.
CronStatementFails(k, c) ==
  \/ /\ Visit(k, c, "visit")
     /\ UNCHANGED <<store, resumes>>
  \/ /\ CloseSessions({k})
     /\ cron' = [cron EXCEPT ![k] = IdleCron]
     /\ UNCHANGED <<queue, resumes>>

\* recover_orphaned_jobs and sweep_stale_sending_jobs: the SENDING jobs whose
\* row is free go back to PENDING and are enqueued.
SendingRows == {j \in Jobs : jobs.live[j] = "SENDING" /\ jobs.lock[j] = Free}

RecoverSending ==
  LET Reset(f) == [j \in Jobs |-> IF j \in SendingRows THEN "PENDING" ELSE f[j]] IN
  /\ jobs' = [jobs EXCEPT !.live = Reset(@), !.next = Reset(@)]
  /\ queue' = EnqueueSoon(SendingRows)

CronStep ==
  \/ \E k \in Crons : StartCron(k) \/ CommitCron(k)
  \/ \E c \in Campaigns : NotYet(c) \/ AutoResume(c) \/ CountLive(c)
  \/ EnqueuePending
  \/ CompleteStuck

MaintenanceTypeOK == cron \in [Crons -> CronRecords] /\ resumes \in 0..MaxResumes
=============================================================================
