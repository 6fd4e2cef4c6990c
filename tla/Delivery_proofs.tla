-------------------------- MODULE Delivery_proofs --------------------------
(***************************************************************************)
(* Theorems about the delivery pipeline, for every number of campaigns,    *)
(* jobs, tasks and requests, and for every fault and outcome: its types,   *)
(* the claim of a job, and the account of what was sent.                   *)
(***************************************************************************)
EXTENDS DeliveryInvariant, ReadCommitted_proofs, FiniteSetTheorems

(***************************************************************************)
(* What the operations of the store keep, for any set of sessions: the     *)
(* type of the tables and histories.                                       *)
(***************************************************************************)

\* UPDATE email_campaigns leaves a table of campaigns.
LEMMA UpdateStatusType ==
  ASSUME NEW S, camps \in Tables(Campaigns, CampaignRows, S), NEW s \in S,
         NEW c \in Campaigns, NEW expected, NEW target \in CampaignStatus,
         NEW reason \in {None, ALL_SENDERS_EXHAUSTED},
         update_status_if(s, c, expected, target, reason)
  PROVE  camps' \in Tables(Campaigns, CampaignRows, S)
<1> DEFINE row == [status |-> target, reason |-> reason]
<1>1. row \in CampaignRows
  BY DEF CampaignRows
<1>2. camps' = Put(camps, s, c, row) \/ camps' = camps
  BY DEF update_status_if
<1> HIDE DEF row
<1>3. Put(camps, s, c, row) \in Tables(Campaigns, CampaignRows, S)
  BY <1>1, PutRow
<1> QED
  BY <1>2, <1>3

\* UPDATE email_jobs leaves a table of jobs.
LEMMA SetStatusType ==
  ASSUME NEW S, jobs \in Tables(Jobs, JobRows, S), NEW s \in S, NEW j \in Jobs,
         NEW expected, NEW target \in EmailStatus,
         set_status_if(s, j, expected, target)
  PROVE  jobs' \in Tables(Jobs, JobRows, S)
<1>1. target \in JobRows
  BY DEF JobRows
<1>2. Put(jobs, s, j, target) \in Tables(Jobs, JobRows, S)
  BY <1>1, PutRow
<1> QED
  BY <1>2 DEF set_status_if

\* A commit keeps the type of everything but the queue, which it leaves alone.
LEMMA CommitType ==
  ASSUME NEW S, StoreTypeOK(S), NEW s, CommitSession(s), queue' \in [Entries -> Nat]
  PROVE  StoreTypeOK(S)'
<1>1. camps' \in Tables(Campaigns, CampaignRows, S)
  BY PublishRow DEF StoreTypeOK, CommitSession
<1>2. jobs' \in Tables(Jobs, JobRows, S)
  BY PublishRow DEF StoreTypeOK, CommitSession
<1>3. orphaned' \in [Jobs -> Nat] /\ reverted' \in SUBSET Jobs
  BY DEF StoreTypeOK, CommitSession, Overwritten
<1> QED
  BY <1>1, <1>2, <1>3 DEF StoreTypeOK, CommitSession

\* So does the end of sessions without a commit.
LEMMA CloseType ==
  ASSUME NEW S, StoreTypeOK(S), NEW E, CloseSessions(E), queue' \in [Entries -> Nat]
  PROVE  StoreTypeOK(S)'
<1>1. camps' \in Tables(Campaigns, CampaignRows, S)
  BY DiscardRow DEF StoreTypeOK, CloseSessions
<1>2. jobs' \in Tables(Jobs, JobRows, S)
  BY DiscardRow DEF StoreTypeOK, CloseSessions
<1>3. orphaned' \in [Jobs -> Nat]
  BY DEF StoreTypeOK, CloseSessions
<1> QED
  BY <1>1, <1>2, <1>3 DEF StoreTypeOK, CloseSessions

\* Enqueueing leaves a bag of calls.
LEMMA EnqueueType ==
  ASSUME queue \in [Entries -> Nat]
  PROVE  /\ \A J : EnqueueSoon(J) \in [Entries -> Nat]
         /\ \A j : EnqueueAt(j) \in [Entries -> Nat]
  BY DEF EnqueueSoon, EnqueueAt

\* What a session reads of a campaign or a job is a row of the table.
LEMMA ReadType ==
  ASSUME NEW S, StoreTypeOK(S), NEW s
  PROVE  /\ \A c \in Campaigns : StatusOf(s, c) \in CampaignStatus \cup {Absent}
         /\ \A j \in Jobs : View(jobs, s, j) \in JobRows
<1>1. \A c \in Campaigns : View(camps, s, c) \in CampaignRows
  BY ViewRow DEF StoreTypeOK
<1>2. \A j \in Jobs : View(jobs, s, j) \in JobRows
  BY ViewRow DEF StoreTypeOK
<1> QED
  BY <1>1, <1>2 DEF StatusOf, CampaignRows
-----------------------------------------------------------------------------

(***************************************************************************)
(* TypeOK alone is not inductive: a running task holds a queue entry, and  *)
(* a request or cron run in the middle of its work knows the campaign, the *)
(* job and the statuses that its next statements name.                     *)
(***************************************************************************)
TaskShape == \A w \in Tasks : ~At(w, "idle") => task[w].entry \in Entries

RequestShape ==
  \A r \in Requests :
    /\ req[r].pc \in {"list", "select", "update", "write", "snapshot", "cancelling", "commit"}
         => req[r].camp \in Campaigns /\ req[r].op \in ApiOps
    /\ req[r].pc = "write" => req[r].target \in CampaignStatus
    /\ req[r].pc \in {"select", "update"} /\ req[r].op # "star"
         => req[r].target \in CampaignStatus
    /\ req[r].pc = "update" => req[r].cur \in Jobs

CronShape ==
  \A k \in Crons : cron[k].pc \in {"update", "enqueue"} => cron[k].cur \in Campaigns

\* The inductive type invariant, and the parts of it that one kind of session keeps.
TypeInv == TypeOK /\ TaskShape /\ RequestShape /\ CronShape

TaskTypeInv == TaskTypeOK /\ TaskShape
RequestTypeInv == RequestTypeOK /\ RequestShape
CronTypeInv == MaintenanceTypeOK /\ CronShape
-----------------------------------------------------------------------------
\* The initial state is well formed.
LEMMA InitType == Init => TypeInv
<1> SUFFICES ASSUME Init PROVE TypeInv
  OBVIOUS
<1>1. [c \in Campaigns |-> [status |-> Absent, reason |-> None]] \in [Campaigns -> CampaignRows]
  BY DEF CampaignRows
<1>2. [j \in Jobs |-> Absent] \in [Jobs -> JobRows]
  BY DEF JobRows
<1>3. camps \in Tables(Campaigns, CampaignRows, Sessions)
  BY <1>1 DEF Init, StoreInit, Committed, Tables
<1>4. jobs \in Tables(Jobs, JobRows, Sessions)
  BY <1>2 DEF Init, StoreInit, Committed, Tables
<1>5. StoreTypeOK(Sessions)
  BY <1>3, <1>4 DEF Init, StoreInit, StoreTypeOK
<1>6. TaskTypeInv
  BY MaxDelaysAssumption
  DEF Init, TaskInit, TaskTypeInv, TaskTypeOK, TaskShape, TaskRecords, IdleTask, TaskPcs, At
<1>7. RequestTypeInv
  BY DEF Init, RequestInit, RequestTypeInv, RequestTypeOK, RequestShape,
         RequestRecords, RequestPcs, Request
<1>8. CronTypeInv
  BY MaxResumesAssumption
  DEF Init, MaintenanceInit, CronTypeInv, MaintenanceTypeOK, CronShape, CronRecords, IdleCron
<1> QED
  BY <1>5, <1>6, <1>7, <1>8, MaxCrashesAssumption
  DEF Init, TypeInv, TypeOK, TaskTypeInv, RequestTypeInv, CronTypeInv

\* A running task works on a job of the table, in a campaign of the table.
LEMMA TaskJob ==
  ASSUME TypeInv, NEW w \in Tasks, ~At(w, "idle")
  PROVE  JobAt(w) \in Jobs /\ CampAt(w) \in Campaigns /\ w \in Sessions
  BY CampaignOfAssumption DEF TypeInv, TaskShape, JobAt, CampAt, Entries, Sessions

\* Moving a running task to another place keeps its record well formed.
LEMMA GotoType ==
  ASSUME TaskTypeInv, NEW w \in Tasks, ~At(w, "idle"), NEW pc \in TaskPcs,
         Goto(w, pc), delays' \in 0..MaxDelays
  PROVE  TaskTypeInv'
  BY DEF TaskTypeInv, TaskTypeOK, TaskShape, Goto, At, TaskRecords

\* So does the end of a task.
LEMMA FinishType ==
  ASSUME TaskTypeInv, NEW w \in Tasks, Finish(w), delays' \in 0..MaxDelays
  PROVE  TaskTypeInv'
  BY DEF TaskTypeInv, TaskTypeOK, TaskShape, Finish, At, TaskRecords, IdleTask, TaskPcs
-----------------------------------------------------------------------------
\* What a task does to its own record, and to the store.
LEMMA TaskStepType ==
  ASSUME TypeInv, NEW w \in Tasks, TaskStep(w)
  PROVE  StoreTypeOK(Sessions)' /\ TaskTypeInv'
<1> USE DEF TaskStep
<1>a. StoreTypeOK(Sessions) /\ TaskTypeInv /\ delays \in 0..MaxDelays
  BY DEF TypeInv, TypeOK, TaskTypeInv, TaskTypeOK
<1>b. ~At(w, "idle")
  BY DEF ReadCampaign, claim_pending, StartCampaign, Reject, Postpone, Exhaust,
         PauseExhausted, SmtpAccepts, SmtpRefuses, CheckCompletion, CompleteCampaign,
         CommitTask, RecordFails, At
<1>c. JobAt(w) \in Jobs /\ CampAt(w) \in Campaigns /\ w \in Sessions
  BY <1>b, TaskJob
<1>d. \A pc \in TaskPcs : Goto(w, pc) /\ delays' = delays => TaskTypeInv'
  BY <1>a, <1>b, GotoType
<1>e. Finish(w) /\ delays' = delays => TaskTypeInv'
  BY <1>a, FinishType
<1>f. ASSUME NEW status \in EmailStatus, SetJob(w, status)
      PROVE  jobs' \in Tables(Jobs, JobRows, Sessions)
  BY <1>a, <1>c, <1>f, PutRow DEF SetJob, StoreTypeOK, JobRows
<1>g. ASSUME NEW status \in EmailStatus, NEW expected,
             set_status_if(w, JobAt(w), expected, status)
      PROVE  jobs' \in Tables(Jobs, JobRows, Sessions)
  BY <1>a, <1>c, <1>g, SetStatusType DEF StoreTypeOK
<1>h. ASSUME NEW status \in CampaignStatus, NEW expected,
             NEW reason \in {None, ALL_SENDERS_EXHAUSTED},
             update_status_if(w, CampAt(w), expected, status, reason)
      PROVE  camps' \in Tables(Campaigns, CampaignRows, Sessions)
  BY <1>a, <1>c, <1>h, UpdateStatusType DEF StoreTypeOK
<1>i. ASSUME NEW pc \in TaskPcs,
             task' = [task EXCEPT ![w] = [@ EXCEPT !.pc = pc, !.camp = StatusOf(w, CampAt(w))]],
             delays' = delays
      PROVE  TaskTypeInv'
  <2>1. StatusOf(w, CampAt(w)) \in CampaignStatus \cup {Absent}
    BY <1>a, <1>c, ReadType
  <2> QED
    BY <1>a, <1>b, <1>i, <2>1 DEF TaskTypeInv, TaskTypeOK, TaskShape, At, TaskRecords
<1>1. CASE ReadCampaign(w)
  <2>1. PICK pc \in TaskPcs :
          task' = [task EXCEPT ![w] = [@ EXCEPT !.pc = pc, !.camp = StatusOf(w, CampAt(w))]]
    BY <1>1 DEF ReadCampaign, TaskPcs
  <2> QED
    BY <1>a, <1>i, <1>1, <2>1 DEF ReadCampaign, store, StoreTypeOK
<1>2. CASE claim_pending(w)
  BY <1>a, <1>d, <1>g, <1>2 DEF claim_pending, StoreTypeOK, EmailStatus, TaskPcs
<1>3. CASE StartCampaign(w)
  BY <1>a, <1>d, <1>h, <1>3 DEF StartCampaign, StoreTypeOK, CampaignStatus, TaskPcs
<1>4. CASE Reject(w)
  BY <1>a, <1>d, <1>f, <1>4 DEF Reject, StoreTypeOK, EmailStatus, TaskPcs
<1>5. CASE Postpone(w)
  <2>1. delays' \in 0..MaxDelays
    BY <1>a, <1>5, MaxDelaysAssumption DEF Postpone
  <2>2. TaskTypeInv'
    BY <1>a, <1>b, <1>5, <2>1, GotoType DEF Postpone, TaskPcs
  <2>3. queue' \in [Entries -> Nat]
    BY <1>a, <1>5, EnqueueType DEF Postpone, StoreTypeOK
  <2> QED
    BY <1>a, <1>g, <1>5, <2>2, <2>3 DEF Postpone, StoreTypeOK, EmailStatus
<1>6. CASE Exhaust(w)
  BY <1>a, <1>d, <1>g, <1>6 DEF Exhaust, StoreTypeOK, EmailStatus, TaskPcs
<1>7. CASE PauseExhausted(w)
  BY <1>a, <1>d, <1>h, <1>7 DEF PauseExhausted, StoreTypeOK, CampaignStatus, TaskPcs
<1>8. CASE SmtpAccepts(w)
  <2>1. sends' \in [Jobs -> Nat]
    BY <1>a, <1>c, <1>8 DEF SmtpAccepts, StoreTypeOK
  <2>2. jobs' \in Tables(Jobs, JobRows, Sessions)
    BY <1>a, <1>f, <1>8 DEF SmtpAccepts, StoreTypeOK, EmailStatus
  <2> QED
    BY <1>a, <1>d, <1>8, <2>1, <2>2 DEF SmtpAccepts, StoreTypeOK, TaskPcs
<1>9. CASE SmtpRefuses(w)
  BY <1>a, <1>d, <1>f, <1>9 DEF SmtpRefuses, StoreTypeOK, EmailStatus, TaskPcs
<1>10. CASE CheckCompletion(w)
  <2>1. PICK pc \in TaskPcs :
          task' = [task EXCEPT ![w] = [@ EXCEPT !.pc = pc, !.camp = StatusOf(w, CampAt(w))]]
    BY <1>10 DEF CheckCompletion, TaskPcs
  <2> QED
    BY <1>a, <1>i, <1>10, <2>1 DEF CheckCompletion, store, StoreTypeOK
<1>11. CASE CompleteCampaign(w)
  BY <1>a, <1>d, <1>h, <1>11 DEF CompleteCampaign, StoreTypeOK, CampaignStatus, TaskPcs
<1>12. CASE CommitTask(w)
  BY <1>a, <1>e, <1>12, CommitType DEF CommitTask, StoreTypeOK
<1>13. CASE RecordFails(w)
  BY <1>a, <1>e, <1>13, CloseType DEF RecordFails, StoreTypeOK
<1> QED
  BY <1>1, <1>2, <1>3, <1>4, <1>5, <1>6, <1>7, <1>8, <1>9, <1>10, <1>11, <1>12, <1>13

\* Taking a call from the queue: the entry is in the queue, so the count stays
\* a number, and the task now holds it.
LEMMA StartType ==
  ASSUME TypeInv, NEW w \in Tasks, NEW e \in Entries, Start(w, e)
  PROVE  StoreTypeOK(Sessions)' /\ TaskTypeInv'
<1>a. StoreTypeOK(Sessions) /\ TaskTypeInv /\ e.job \in Jobs
  BY DEF TypeInv, TypeOK, TaskTypeInv, Entries
<1>1. queue' \in [Entries -> Nat]
  BY <1>a DEF Start, StoreTypeOK
<1>2. View(jobs, w, e.job) \in JobRows
  BY <1>a, ReadType
<1>3. TaskTypeInv'
  BY <1>a, <1>2 DEF Start, TaskTypeInv, TaskTypeOK, TaskShape, At, TaskRecords, TaskPcs
<1> QED
  BY <1>a, <1>1, <1>3 DEF Start, StoreTypeOK
-----------------------------------------------------------------------------
\* A request that is over keeps its record well formed.
LEMMA AnsweredType ==
  ASSUME RequestTypeInv, NEW r \in Requests,
         req' = [req EXCEPT ![r] = Answered]
  PROVE  RequestTypeInv'
  BY DEF RequestTypeInv, RequestTypeOK, RequestShape, Answered, Request,
         RequestRecords, RequestPcs

\* A step of a request keeps the store and its own record well formed.
LEMMA RequestStepType ==
  ASSUME TypeInv, NEW r \in Requests, RequestStep(r) \/ RequestArrives(r) \/ RequestDies(r)
  PROVE  StoreTypeOK(Sessions)' /\ RequestTypeInv'
<1>a. StoreTypeOK(Sessions) /\ RequestTypeInv /\ r \in Sessions
  BY DEF TypeInv, TypeOK, RequestTypeInv, Sessions
<1>b. req[r] \in RequestRecords
  BY <1>a DEF RequestTypeInv, RequestTypeOK
<1>c. ASSUME UNCHANGED store PROVE StoreTypeOK(Sessions)'
  BY <1>a, <1>c DEF store, StoreTypeOK
<1>d. ASSUME NEW rec \in RequestRecords, req' = [req EXCEPT ![r] = rec],
             rec.pc \in {"list", "select", "update", "write", "snapshot", "cancelling", "commit"}
               => rec.camp \in Campaigns /\ rec.op \in ApiOps,
             rec.pc = "write" => rec.target \in CampaignStatus,
             rec.pc \in {"select", "update"} /\ rec.op # "star"
               => rec.target \in CampaignStatus,
             rec.pc = "update" => rec.cur \in Jobs
      PROVE  RequestTypeInv'
  BY <1>a, <1>d DEF RequestTypeInv, RequestTypeOK, RequestShape
<1>e. req[r].pc \in {"list", "select", "update", "write", "snapshot", "cancelling", "commit"}
        => req[r].camp \in Campaigns /\ req[r].op \in ApiOps
  BY <1>a DEF RequestTypeInv, RequestShape
<1>f. /\ req[r].pc = "write" => req[r].target \in CampaignStatus
      /\ req[r].pc \in {"select", "update"} /\ req[r].op # "star"
           => req[r].target \in CampaignStatus
      /\ req[r].pc = "update" => req[r].cur \in Jobs
  BY <1>a DEF RequestTypeInv, RequestShape
<1>1. ASSUME NEW c \in Campaigns, create(r, c)
      PROVE  StoreTypeOK(Sessions)' /\ RequestTypeInv'
  <2> DEFINE row == [status |-> "SCHEDULED", reason |-> None]
  <2>1. row \in CampaignRows
    BY DEF CampaignRows, CampaignStatus
  <2>2. camps' = [camps EXCEPT !.live = [@ EXCEPT ![c] = row], !.next = [@ EXCEPT ![c] = row]]
    BY <1>1 DEF create
  <2> HIDE DEF row
  <2>3. camps' \in Tables(Campaigns, CampaignRows, Sessions)
    BY <1>a, <2>1, <2>2 DEF StoreTypeOK, Tables
  <2>4. jobs' \in Tables(Jobs, JobRows, Sessions)
    BY <1>a, <1>1 DEF create, StoreTypeOK, Tables, JobRows, EmailStatus
  <2>5. RequestTypeInv'
    BY <1>1, <1>d DEF create, Request, RequestRecords, RequestPcs, JobsOf
  <2> QED
    BY <1>a, <1>1, <2>3, <2>4, <2>5 DEF create, StoreTypeOK
<1>2. ASSUME NEW c \in Campaigns, NEW op \in ApiOps, ReadForChange(r, op, c)
      PROVE  StoreTypeOK(Sessions)' /\ RequestTypeInv'
  <2>1. CASE is_valid_transition(StatusOf(r, c), TargetOf(op))
    <3> DEFINE rec == [Request("write") EXCEPT
                         !.op = op, !.camp = c, !.seen = StatusOf(r, c), !.target = TargetOf(op)]
    <3>1. TargetOf(op) \in CampaignStatus /\ StatusOf(r, c) \in CampaignStatus
      BY <2>1 DEF TargetOf, CampaignStatus, is_valid_transition
    <3>2. rec \in RequestRecords /\ rec.camp = c /\ rec.op = op /\ rec.target = TargetOf(op)
            /\ rec.pc = "write"
      BY <3>1 DEF Request, RequestRecords, RequestPcs
    <3>3. req' = [req EXCEPT ![r] = rec]
      BY <1>2, <2>1 DEF ReadForChange
    <3> HIDE DEF rec
    <3>4. RequestTypeInv'
      BY <1>d, <3>1, <3>2, <3>3
    <3> QED
      BY <1>2, <1>c, <3>4 DEF ReadForChange
  <2>2. CASE ~is_valid_transition(StatusOf(r, c), TargetOf(op))
    BY <1>2, <1>a, <1>c, <2>2, AnsweredType DEF ReadForChange
  <2> QED
    BY <2>1, <2>2
<1>3. ASSUME NEW c \in Campaigns, ReadForResume(r, c)
      PROVE  StoreTypeOK(Sessions)' /\ RequestTypeInv'
  <2>1. CASE StatusOf(r, c) = "PAUSED"
    <3> DEFINE rec == [Request("list") EXCEPT !.op = "resume", !.camp = c, !.seen = "PAUSED"]
    <3>1. "resume" \in ApiOps
      BY <1>3 DEF ReadForResume
    <3>2. rec \in RequestRecords /\ rec.camp = c /\ rec.op = "resume" /\ rec.pc = "list"
      BY <3>1 DEF Request, RequestRecords, RequestPcs, CampaignStatus
    <3>3. req' = [req EXCEPT ![r] = rec]
      BY <1>3, <2>1 DEF ReadForResume
    <3> HIDE DEF rec
    <3>4. RequestTypeInv'
      BY <1>d, <3>1, <3>2, <3>3
    <3> QED
      BY <1>3, <1>c, <3>4 DEF ReadForResume
  <2>2. CASE StatusOf(r, c) # "PAUSED"
    BY <1>3, <1>a, <1>c, <2>2, AnsweredType DEF ReadForResume
  <2> QED
    BY <2>1, <2>2
<1>4. CASE ListJobs(r)
  <2>1. PICK target \in {"COMPLETED", "SENDING"}, pc \in {"write", "select"}, J \in SUBSET Jobs :
          req' = [req EXCEPT ![r] =
            [@ EXCEPT !.target = target, !.pc = pc, !.todo = J, !.plan = J]]
    <3> DEFINE overdue == {j \in JobsIn(r, req[r].camp, {"PENDING"}) : due[j]}
    <3>1. overdue \in SUBSET Jobs
      BY DEF JobsIn, JobsOf
    <3>2. PICK target \in {"COMPLETED", "SENDING"}, pc \in {"write", "select"} :
            req' = [req EXCEPT ![r] =
              [@ EXCEPT !.target = target, !.pc = pc, !.todo = overdue, !.plan = overdue]]
      BY <1>4 DEF ListJobs
    <3> QED
      BY <3>1, <3>2
  <2>2. RequestTypeInv'
    <3> DEFINE rec == [req[r] EXCEPT !.target = target, !.pc = pc, !.todo = J, !.plan = J]
    <3>1. /\ rec \in RequestRecords /\ rec.pc = pc /\ rec.target = target
          /\ rec.camp = req[r].camp /\ rec.op = req[r].op
      BY <1>b, ZenonT(40) DEF RequestRecords, RequestPcs, CampaignStatus
    <3>2. req' = [req EXCEPT ![r] = rec]
      BY <2>1
    <3>3. req[r].camp \in Campaigns /\ req[r].op \in ApiOps /\ target \in CampaignStatus
      BY <1>4, <1>e DEF ListJobs, ReqAt, CampaignStatus
    <3> HIDE DEF rec
    <3> QED
      BY <1>d, <3>1, <3>2, <3>3
  <2> QED
    BY <1>4, <1>c, <2>2 DEF ListJobs
<1>5. ASSUME NEW j \in Jobs, SelectRow(r, j)
      PROVE  StoreTypeOK(Sessions)' /\ RequestTypeInv'
  <2>1. View(jobs, r, j) \in JobRows
    BY <1>a, ReadType
  <2>2. RequestTypeInv'
    <3> DEFINE rec == [req[r] EXCEPT !.pc = "update", !.cur = j, !.row = View(jobs, r, j)]
    <3>1. /\ rec \in RequestRecords /\ rec.pc = "update" /\ rec.cur = j
          /\ rec.camp = req[r].camp /\ rec.op = req[r].op /\ rec.target = req[r].target
      BY <1>b, <2>1 DEF RequestRecords, RequestPcs
    <3>2. req' = [req EXCEPT ![r] = rec]
      BY <1>5 DEF SelectRow
    <3>3. /\ req[r].camp \in Campaigns /\ req[r].op \in ApiOps
          /\ req[r].op # "star" => req[r].target \in CampaignStatus
      BY <1>5, <1>e, <1>f DEF SelectRow, ReqAt
    <3> HIDE DEF rec
    <3> QED
      BY <1>d, <3>1, <3>2, <3>3
  <2> QED
    BY <1>5, <1>c, <2>2 DEF SelectRow
<1>6. CASE UpdateRow(r)
  <2>1. req[r].cur \in Jobs
    BY <1>6, <1>f DEF UpdateRow, ReqAt
  <2>2. View(jobs, r, req[r].cur) \in JobRows /\ "PENDING" \in JobRows
    BY <1>a, <2>1, ReadType DEF JobRows, EmailStatus
  <2>3. jobs' \in Tables(Jobs, JobRows, Sessions)
    BY <1>6, <1>a, <2>1, <2>2, PutRow DEF UpdateRow, StoreTypeOK
  <2>4. RequestTypeInv'
    <3> DEFINE rest == req[r].todo \ {req[r].cur}
               pc == IF rest # {} THEN "select"
                     ELSE IF req[r].op = "star" THEN "commit" ELSE "write"
               rec == [req[r] EXCEPT !.pc = pc, !.todo = rest, !.cur = None, !.row = None]
    <3>0. /\ pc \in {"write", "select", "commit"}
          /\ pc = "write" => req[r].op # "star"
      OBVIOUS
    <3>2. req' = [req EXCEPT ![r] = rec]
      BY <1>6 DEF UpdateRow
    <3> HIDE DEF pc
    <3>1. /\ rec \in RequestRecords /\ rec.pc = pc
          /\ rec.camp = req[r].camp /\ rec.op = req[r].op /\ rec.target = req[r].target
      BY <1>b, <3>0 DEF RequestRecords, RequestPcs
    <3>3. /\ req[r].camp \in Campaigns /\ req[r].op \in ApiOps
          /\ req[r].op # "star" => req[r].target \in CampaignStatus
      BY <1>6, <1>e, <1>f DEF UpdateRow, ReqAt
    <3> HIDE DEF rec
    <3> QED
      BY <1>d, <3>0, <3>1, <3>2, <3>3
  <2> QED
    BY <1>6, <1>a, <2>3, <2>4 DEF UpdateRow, StoreTypeOK
<1>7. CASE WriteStatus(r)
  <2>1. req[r].camp \in Campaigns /\ req[r].target \in CampaignStatus
    BY <1>7, <1>e, <1>f DEF WriteStatus, ReqAt
  <2>2. CASE StatusOf(r, req[r].camp) = req[r].seen
    <3>1. camps' \in Tables(Campaigns, CampaignRows, Sessions)
      BY <1>7, <1>a, <2>1, <2>2, UpdateStatusType DEF WriteStatus, StoreTypeOK
    <3>2. PICK pc \in {"snapshot", "commit"} : req' = [req EXCEPT ![r] = [@ EXCEPT !.pc = pc]]
      BY <1>7, <2>2 DEF WriteStatus
    <3>3. RequestTypeInv'
      BY <1>7, <1>a, <1>e, <3>2
      DEF WriteStatus, ReqAt, RequestTypeInv, RequestTypeOK, RequestShape, RequestRecords, RequestPcs
    <3> QED
      BY <1>7, <1>a, <2>2, <3>1, <3>3 DEF WriteStatus, StoreTypeOK
  <2>3. CASE StatusOf(r, req[r].camp) # req[r].seen
    <3>1. CloseSessions({r}) /\ req' = [req EXCEPT ![r] = Answered] /\ queue' = queue
      BY <1>7, <2>3 DEF WriteStatus
    <3> QED
      BY <3>1, <1>a, CloseType, AnsweredType DEF StoreTypeOK
  <2> QED
    BY <2>2, <2>3
<1>8. CASE SnapshotPending(r)
  <2>1. PICK pc \in {"cancelling", "commit"}, J \in SUBSET Jobs :
          req' = [req EXCEPT ![r] = [@ EXCEPT !.todo = J, !.pc = pc]]
    <3>1. JobsIn(r, req[r].camp, {"PENDING"}) \in SUBSET Jobs
      BY DEF JobsIn, JobsOf
    <3> QED
      BY <1>8, <3>1 DEF SnapshotPending
  <2>2. RequestTypeInv'
    <3> DEFINE rec == [req[r] EXCEPT !.todo = J, !.pc = pc]
    <3>1. /\ rec \in RequestRecords /\ rec.pc = pc
          /\ rec.camp = req[r].camp /\ rec.op = req[r].op
      BY <1>b DEF RequestRecords, RequestPcs
    <3>2. req' = [req EXCEPT ![r] = rec]
      BY <2>1
    <3>3. req[r].camp \in Campaigns /\ req[r].op \in ApiOps
      BY <1>8, <1>e DEF SnapshotPending, ReqAt
    <3> HIDE DEF rec
    <3> QED
      BY <1>d, <3>1, <3>2, <3>3
  <2> QED
    BY <1>8, <1>c, <2>2 DEF SnapshotPending
<1>9. ASSUME NEW j \in Jobs, CancelRow(r, j)
      PROVE  StoreTypeOK(Sessions)' /\ RequestTypeInv'
  <2>1. jobs' \in Tables(Jobs, JobRows, Sessions)
    BY <1>9, <1>a, SetStatusType DEF CancelRow, StoreTypeOK, EmailStatus
  <2>2. RequestTypeInv'
    <3> DEFINE rest == req[r].todo \ {j}
               rec == [req[r] EXCEPT !.todo = rest,
                                     !.pc = IF rest = {} THEN "commit" ELSE "cancelling"]
    <3>1. /\ rec \in RequestRecords /\ rec.pc \in {"commit", "cancelling"}
          /\ rec.camp = req[r].camp /\ rec.op = req[r].op
      BY <1>b, ZenonT(40) DEF RequestRecords, RequestPcs
    <3>2. req' = [req EXCEPT ![r] = rec]
      BY <1>9 DEF CancelRow
    <3>3. req[r].camp \in Campaigns /\ req[r].op \in ApiOps
      BY <1>9, <1>e DEF CancelRow, ReqAt
    <3> HIDE DEF rec
    <3> QED
      BY <1>d, <3>1, <3>2, <3>3
  <2> QED
    BY <1>9, <1>a, <2>1, <2>2 DEF CancelRow, StoreTypeOK
<1>10. CASE CommitRequest(r)
  <2>1. StoreTypeOK(Sessions)'
    BY <1>10, <1>a, CommitType DEF CommitRequest, StoreTypeOK
  <2>2. CASE req' = [req EXCEPT ![r] = Answered]
    BY <1>a, <2>1, <2>2, AnsweredType
  <2>3. CASE req' = [req EXCEPT ![r] =
               [@ EXCEPT !.pc = "enqueue", !.seen = None, !.target = None]]
    <3> DEFINE rec == [req[r] EXCEPT !.pc = "enqueue", !.seen = None, !.target = None]
    <3>1. rec \in RequestRecords /\ rec.pc = "enqueue"
      BY <1>b DEF RequestRecords, RequestPcs
    <3>2. req' = [req EXCEPT ![r] = rec]
      BY <2>3
    <3> HIDE DEF rec
    <3> QED
      BY <1>d, <2>1, <3>1, <3>2
  <2> QED
    BY <1>10, <2>2, <2>3 DEF CommitRequest
<1>11. ASSUME NEW j \in Jobs, EnqueuePlanned(r, j)
       PROVE  StoreTypeOK(Sessions)' /\ RequestTypeInv'
  <2>1. queue' \in [Entries -> Nat]
    BY <1>11, <1>a, EnqueueType DEF EnqueuePlanned, StoreTypeOK
  <2>2. StoreTypeOK(Sessions)'
    BY <1>11, <1>a, <2>1 DEF EnqueuePlanned, StoreTypeOK
  <2>3. CASE req' = [req EXCEPT ![r] = Answered]
    BY <1>a, <2>2, <2>3, AnsweredType
  <2>4. CASE req' = [req EXCEPT ![r] = [@ EXCEPT !.plan = req[r].plan \ {j}]]
    <3> DEFINE rec == [req[r] EXCEPT !.plan = req[r].plan \ {j}]
    <3>1. rec \in RequestRecords /\ rec.pc = "enqueue"
      BY <1>11, <1>b DEF EnqueuePlanned, ReqAt, RequestRecords, RequestPcs
    <3>2. req' = [req EXCEPT ![r] = rec]
      BY <2>4
    <3> HIDE DEF rec
    <3> QED
      BY <1>d, <2>2, <3>1, <3>2
  <2> QED
    BY <1>11, <2>3, <2>4 DEF EnqueuePlanned
<1>12. CASE RequestDies(r)
  BY <1>12, <1>a, CloseType, AnsweredType DEF RequestDies, StoreTypeOK
<1>13. ASSUME NEW j \in Jobs, ReadForStar(r, j)
       PROVE  StoreTypeOK(Sessions)' /\ RequestTypeInv'
  <2> DEFINE rec == [Request("select") EXCEPT !.op = "star", !.camp = CampaignOf[j], !.todo = {j}]
  <2>1. "star" \in ApiOps /\ CampaignOf[j] \in Campaigns
    BY <1>13, CampaignOfAssumption DEF ReadForStar
  <2>2. /\ rec \in RequestRecords /\ rec.pc = "select"
        /\ rec.camp = CampaignOf[j] /\ rec.op = "star"
    BY <2>1 DEF Request, RequestRecords, RequestPcs
  <2>3. req' = [req EXCEPT ![r] = rec]
    BY <1>13 DEF ReadForStar
  <2> HIDE DEF rec
  <2>4. RequestTypeInv'
    BY <1>d, <2>1, <2>2, <2>3
  <2> QED
    BY <1>13, <1>c, <2>4 DEF ReadForStar
<1> QED
  BY <1>1, <1>2, <1>3, <1>4, <1>5, <1>6, <1>7, <1>8, <1>9, <1>10, <1>11, <1>12, <1>13
  DEF RequestStep, RequestArrives
-----------------------------------------------------------------------------
\* Visiting a campaign of its list keeps a cron run's record well formed.
LEMMA VisitType ==
  ASSUME CronTypeInv, NEW k \in Crons, NEW c \in Campaigns,
         NEW pc \in {"visit", "update", "enqueue"}, Visit(k, c, pc),
         resumes' = resumes
  PROVE  CronTypeInv'
  BY DEF CronTypeInv, MaintenanceTypeOK, CronShape, CronRecords, Visit

\* So does the end of runs.
LEMMA CronIdleType ==
  ASSUME CronTypeInv, NEW K, resumes' = resumes,
         \/ cron' = [k \in Crons |-> IdleCron]
         \/ cron' = [cron EXCEPT ![K] = IdleCron]
  PROVE  CronTypeInv'
  BY DEF CronTypeInv, MaintenanceTypeOK, CronShape, CronRecords, IdleCron

\* A step of a cron run keeps the store and the run's record well formed.
LEMMA CronStepType ==
  ASSUME TypeInv, CronStep
  PROVE  StoreTypeOK(Sessions)' /\ CronTypeInv'
<1>a. StoreTypeOK(Sessions) /\ CronTypeInv
  BY DEF TypeInv, TypeOK, CronTypeInv
<1>b. \A k \in Crons : k \in Sessions /\ cron[k] \in CronRecords
  BY <1>a DEF Sessions, CronTypeInv, MaintenanceTypeOK
<1>c. ASSUME UNCHANGED store PROVE StoreTypeOK(Sessions)'
  BY <1>a, <1>c DEF store, StoreTypeOK
<1>1. ASSUME NEW k \in Crons, StartCron(k)
      PROVE  StoreTypeOK(Sessions)' /\ CronTypeInv'
  <2>1. Listed(k) \in SUBSET Campaigns
    BY DEF Listed
  <2>2. resumes' \in 0..MaxResumes
    BY <1>1, <1>a, MaxResumesAssumption DEF StartCron, CronTypeInv, MaintenanceTypeOK
  <2>3. [pc |-> "visit", todo |-> Listed(k), cur |-> None] \in CronRecords
    BY <2>1 DEF CronRecords
  <2>4. CronTypeInv'
    BY <1>1, <1>a, <2>2, <2>3 DEF StartCron, CronTypeInv, MaintenanceTypeOK, CronShape
  <2> QED
    BY <1>1, <1>c, <2>4 DEF StartCron
<1>2. ASSUME NEW k \in Crons, CommitCron(k)
      PROVE  StoreTypeOK(Sessions)' /\ CronTypeInv'
  BY <1>2, <1>a, CommitType, CronIdleType DEF CommitCron, StoreTypeOK
<1>3. ASSUME NEW c \in Campaigns, NotYet(c)
      PROVE  StoreTypeOK(Sessions)' /\ CronTypeInv'
  <2>1. UNCHANGED store
    BY <1>3 DEF NotYet
  <2>2. CronTypeInv'
    BY <1>3, <1>a, VisitType DEF NotYet, CronAt
  <2> QED
    BY <2>1, <2>2, <1>c
<1>4. ASSUME NEW c \in Campaigns, AutoResume(c)
      PROVE  StoreTypeOK(Sessions)' /\ CronTypeInv'
  <2>1. "auto_resume" \in Crons
    BY <1>4 DEF AutoResume, CronAt
  <2>2. camps' \in Tables(Campaigns, CampaignRows, Sessions)
    BY <1>4, <1>a, <1>b, <2>1, UpdateStatusType DEF AutoResume, StoreTypeOK, CampaignStatus
  <2>3. PICK pc \in {"visit", "enqueue"} : Visit("auto_resume", c, pc)
    BY <1>4 DEF AutoResume
  <2>4. CronTypeInv'
    BY <1>4, <1>a, <2>1, <2>3, VisitType DEF AutoResume
  <2> QED
    BY <1>4, <1>a, <2>2, <2>4 DEF AutoResume, StoreTypeOK
<1>5. CASE EnqueuePending
  <2>1. "auto_resume" \in Crons /\ cron["auto_resume"].cur \in Campaigns
    BY <1>5, <1>a DEF EnqueuePending, CronAt, CronTypeInv, CronShape
  <2>2. queue' \in [Entries -> Nat]
    BY <1>5, <1>a, EnqueueType DEF EnqueuePending, StoreTypeOK
  <2>3. CronTypeInv'
    BY <1>5, <1>a, <2>1, VisitType DEF EnqueuePending
  <2> QED
    BY <1>5, <1>a, <2>2, <2>3 DEF EnqueuePending, StoreTypeOK
<1>6. ASSUME NEW c \in Campaigns, CountLive(c)
      PROVE  StoreTypeOK(Sessions)' /\ CronTypeInv'
  <2>1. UNCHANGED store
    BY <1>6 DEF CountLive
  <2>2. PICK pc \in {"visit", "update"} : Visit("stuck_sweep", c, pc)
    BY <1>6 DEF CountLive
  <2>3. CronTypeInv'
    BY <1>6, <1>a, <2>2, VisitType DEF CountLive, CronAt
  <2> QED
    BY <2>1, <2>3, <1>c
<1>7. CASE CompleteStuck
  <2>1. "stuck_sweep" \in Crons /\ cron["stuck_sweep"].cur \in Campaigns
    BY <1>7, <1>a DEF CompleteStuck, CronAt, CronTypeInv, CronShape
  <2>2. camps' \in Tables(Campaigns, CampaignRows, Sessions)
    BY <1>7, <1>a, <1>b, <2>1, UpdateStatusType DEF CompleteStuck, StoreTypeOK, CampaignStatus
  <2>3. CronTypeInv'
    BY <1>7, <1>a, <2>1, VisitType DEF CompleteStuck
  <2> QED
    BY <1>7, <1>a, <2>2, <2>3 DEF CompleteStuck, StoreTypeOK
<1> QED
  BY <1>1, <1>2, <1>3, <1>4, <1>5, <1>6, <1>7 DEF CronStep

\* Recovering SENDING rows leaves a table of jobs and a bag of calls.
LEMMA RecoverType ==
  ASSUME StoreTypeOK(Sessions), RecoverSending
  PROVE  jobs' \in Tables(Jobs, JobRows, Sessions) /\ queue' \in [Entries -> Nat]
<1>1. queue' \in [Entries -> Nat]
  BY EnqueueType DEF RecoverSending, StoreTypeOK
<1>2. jobs' \in Tables(Jobs, JobRows, Sessions)
  BY DEF RecoverSending, StoreTypeOK, Tables, JobRows, EmailStatus
<1> QED
  BY <1>1, <1>2
-----------------------------------------------------------------------------
\* Every step keeps every part of the state well formed.
LEMMA NextType == TypeInv /\ [Next]_vars => TypeInv'
<1> SUFFICES ASSUME TypeInv, [Next]_vars PROVE TypeInv'
  OBVIOUS
<1>a. /\ StoreTypeOK(Sessions) /\ TaskTypeInv /\ RequestTypeInv /\ CronTypeInv
      /\ up \in BOOLEAN /\ crashes \in 0..MaxCrashes
  BY DEF TypeInv, TypeOK, TaskTypeInv, RequestTypeInv, CronTypeInv
<1>b. ASSUME StoreTypeOK(Sessions)', TaskTypeInv', RequestTypeInv', CronTypeInv',
             up' \in BOOLEAN, crashes' \in 0..MaxCrashes
      PROVE  TypeInv'
  BY <1>b DEF TypeInv, TypeOK, TaskTypeInv, RequestTypeInv, CronTypeInv
<1>c. ASSUME UNCHANGED <<task, delays>> PROVE TaskTypeInv'
  BY <1>a, <1>c DEF TaskTypeInv, TaskTypeOK, TaskShape, At
<1>d. ASSUME UNCHANGED req PROVE RequestTypeInv'
  BY <1>a, <1>d DEF RequestTypeInv, RequestTypeOK, RequestShape
<1>e. ASSUME UNCHANGED <<cron, resumes>> PROVE CronTypeInv'
  BY <1>a, <1>e DEF CronTypeInv, MaintenanceTypeOK, CronShape
<1>f. ASSUME UNCHANGED store PROVE StoreTypeOK(Sessions)'
  BY <1>a, <1>f DEF store, StoreTypeOK
<1>1. CASE TaskAct
  <2>1. StoreTypeOK(Sessions)' /\ TaskTypeInv'
    BY <1>1, TaskStepType, StartType DEF TaskAct, TaskNext
  <2> QED
    BY <1>1, <1>a, <1>b, <1>d, <1>e, <2>1 DEF TaskAct
<1>2. CASE CronAct
  BY <1>2, <1>a, <1>b, <1>c, <1>d, CronStepType DEF CronAct
<1>3. ASSUME NEW r \in Requests, RequestAct(r) PROVE TypeInv'
  BY <1>3, <1>a, <1>b, <1>c, <1>e, RequestStepType DEF RequestAct
<1>4. ASSUME NEW r \in Requests, ApiCrash(r) PROVE TypeInv'
  <2>1. crashes' \in 0..MaxCrashes
    BY <1>4, <1>a, MaxCrashesAssumption DEF ApiCrash, MayCrash
  <2> QED
    BY <1>4, <1>a, <1>b, <1>c, <1>e, <2>1, RequestStepType DEF ApiCrash
<1>5. ASSUME NEW w \in Tasks, TaskFails(w) PROVE TypeInv'
  <2>1. CASE StatementFails(w)
    <3>1. StoreTypeOK(Sessions)'
      BY <2>1, <1>a, CloseType DEF StatementFails, StoreTypeOK
    <3>2. TaskTypeInv'
      BY <2>1, <1>a, FinishType DEF StatementFails, TaskTypeInv, TaskTypeOK
    <3> QED
      BY <1>5, <1>a, <1>b, <1>d, <1>e, <3>1, <3>2 DEF TaskFails
  <2>2. CASE CompletionFails(w)
    <3>1. TaskTypeInv'
      BY <2>2, <1>a, GotoType
      DEF CompletionFails, At, TaskPcs, TaskTypeInv, TaskTypeOK
    <3> QED
      BY <1>5, <2>2, <1>a, <1>b, <1>d, <1>e, <1>f, <3>1 DEF TaskFails, CompletionFails
  <2> QED
    BY <1>5, <2>1, <2>2 DEF TaskFails
<1>6. ASSUME NEW r \in Requests, RequestFails(r) PROVE TypeInv'
  BY <1>6, <1>a, <1>b, <1>c, <1>e, RequestStepType DEF RequestFails
<1>7. ASSUME NEW k \in Crons, NEW c \in Campaigns, CronFails(k, c) PROVE TypeInv'
  <2>1. CASE Visit(k, c, "visit") /\ UNCHANGED <<store, resumes>>
    BY <1>7, <2>1, <1>a, <1>b, <1>c, <1>d, <1>f, VisitType DEF CronFails
  <2>2. CASE /\ CloseSessions({k})
             /\ cron' = [cron EXCEPT ![k] = IdleCron]
             /\ UNCHANGED <<queue, resumes>>
    <3>1. StoreTypeOK(Sessions)'
      BY <2>2, <1>a, CloseType DEF StoreTypeOK
    <3>2. CronTypeInv'
      BY <2>2, <1>a, CronIdleType
    <3> QED
      BY <1>7, <1>a, <1>b, <1>c, <1>d, <3>1, <3>2 DEF CronFails
  <2> QED
    BY <1>7, <2>1, <2>2 DEF CronFails, CronStatementFails
<1>8. CASE Clock
  <2>1. StoreTypeOK(Sessions)'
    BY <1>8, <1>a DEF Clock, BecomeDue, StoreTypeOK
  <2> QED
    BY <1>8, <1>a, <1>b, <1>c, <1>d, <1>e, <2>1 DEF Clock
<1>9. CASE WorkerCrash
  <2>1. crashes' \in 0..MaxCrashes
    BY <1>9, <1>a, MaxCrashesAssumption DEF WorkerCrash, MayCrash
  <2>2. ASSUME NEW e \in Entries
        PROVE  Cardinality({w \in Tasks : /\ ~At(w, "idle")
                                          /\ e = [task[w].entry EXCEPT !.try = @ + 1]}) \in Nat
    BY TasksAssumption, FS_Subset, FS_CardinalityType
  <2>3. queue' \in [Entries -> Nat]
    BY <1>9, <1>a, <2>2 DEF WorkerCrash, Redelivered, StoreTypeOK
  <2>4. StoreTypeOK(Sessions)'
    BY <1>9, <1>a, <2>3, CloseType DEF WorkerCrash
  <2>5. TaskTypeInv'
    BY <1>9, <1>a
    DEF WorkerCrash, TaskTypeInv, TaskTypeOK, TaskShape, TaskRecords, IdleTask, TaskPcs, At
  <2>6. CronTypeInv'
    BY <1>9, <1>a, CronIdleType DEF WorkerCrash
  <2> QED
    BY <1>9, <1>b, <1>d, <2>1, <2>4, <2>5, <2>6 DEF WorkerCrash
<1>10. CASE WorkerStartup
  <2> DEFINE done == [status |-> "COMPLETED", reason |-> None]
  <2>1. done \in CampaignRows
    BY DEF CampaignRows, CampaignStatus
  <2>2. camps' = [camps EXCEPT
                    !.live = [c \in Campaigns |-> IF c \in Stuck THEN done ELSE @[c]],
                    !.next = [c \in Campaigns |-> IF c \in Stuck THEN done ELSE @[c]]]
    BY <1>10 DEF WorkerStartup
  <2> HIDE DEF done
  <2>3. camps' \in Tables(Campaigns, CampaignRows, Sessions)
    BY <1>a, <2>1, <2>2 DEF StoreTypeOK, Tables
  <2>4. StoreTypeOK(Sessions)'
    BY <1>10, <1>a, <2>3, RecoverType DEF WorkerStartup, StoreTypeOK
  <2> QED
    BY <1>10, <1>a, <1>b, <1>c, <1>d, <1>e, <2>4 DEF WorkerStartup
<1>11. CASE UNCHANGED vars
  BY <1>11, <1>a, <1>b, <1>c, <1>d, <1>e, <1>f DEF vars
<1> QED
  BY <1>1, <1>2, <1>3, <1>4, <1>5, <1>6, <1>7, <1>8, <1>9, <1>10, <1>11
  DEF Next, StatementFault

\* The stronger invariant holds in every reachable state.
LEMMA TypeInvariant == Spec => []TypeInv
<1> QED
  BY InitType, NextType, PTL DEF Spec

\* Every variable of the pipeline has its type in every reachable state.
THEOREM TypeCorrect == Spec => []TypeOK
<1>1. TypeInv => TypeOK
  BY DEF TypeInv
<1> QED
  BY <1>1, TypeInvariant, PTL
-----------------------------------------------------------------------------
(***************************************************************************)
(* The claim of a job: DeliveryInvariant is inductive, so no job is ever   *)
(* committed as SENDING and every mail that left is accounted for.         *)
(*                                                                         *)
(* The proof goes by what a step does to the job table: nothing, one row   *)
(* written by a task, one row written by a request, a commit, a rollback,  *)
(* or the insertion of a campaign's jobs.                                  *)
(***************************************************************************)
Inv == TypeInv /\ ClaimInvariant /\ SendingNeverCommitted

\* Campaign rows exist once they are inserted, and are written as existing.
CampsKept ==
  /\ \A c \in Campaigns : CampaignWritten(c)'
  /\ \A c \in Campaigns : camps'.live[c].status = Absent => camps.live[c].status = Absent

\* The types of the two tables.
JobTable == Tables(Jobs, JobRows, Sessions)
CampTable == Tables(Campaigns, CampaignRows, Sessions)

\* What the type invariant says of the tables.
LEMMA TablesOf ==
  ASSUME TypeInv
  PROVE  /\ jobs \in JobTable /\ camps \in CampTable
         /\ Free \notin Tasks /\ Free \notin Requests /\ Tasks \cap Requests = {}
         /\ Absent \notin CampaignStatus
  BY TasksAssumption, RequestsAssumption, SessionsAssumption
  DEF TypeInv, TypeOK, StoreTypeOK, JobTable, CampTable, Absent, CampaignStatus
-----------------------------------------------------------------------------
\* No write of a campaign row makes it disappear.
LEMMA UpdateKeepsCamps ==
  ASSUME Inv, NEW s \in Sessions, NEW c \in Campaigns, NEW expected,
         NEW target \in CampaignStatus, NEW reason \in {None, ALL_SENDERS_EXHAUSTED},
         update_status_if(s, c, expected, target, reason)
  PROVE  CampsKept
<1> DEFINE row == [status |-> target, reason |-> reason]
<1>1. row \in CampaignRows /\ row.status # Absent
  BY TablesOf DEF Inv, CampaignRows
<1>2. camps' = Put(camps, s, c, row) \/ camps' = camps
  BY DEF update_status_if
<1>3. \A d \in Campaigns : CampaignWritten(d)
  BY DEF Inv, ClaimInvariant
<1>4. camps \in CampTable
  BY TablesOf DEF Inv
<1> HIDE DEF row
<1>5. CASE camps' = Put(camps, s, c, row)
  <2>1. /\ Put(camps, s, c, row).live = camps.live
        /\ Put(camps, s, c, row).next = [camps.next EXCEPT ![c] = row]
        /\ Put(camps, s, c, row).lock = [camps.lock EXCEPT ![c] = s]
    BY <1>1, <1>4, PutRow DEF CampTable
  <2>2. camps.next \in [Campaigns -> CampaignRows] /\ camps.lock \in [Campaigns -> Sessions \cup {Free}]
    BY <1>4 DEF CampTable, Tables
  <2> QED
    BY <1>1, <1>3, <1>5, <2>1, <2>2 DEF CampsKept, CampaignWritten
<1>6. CASE camps' = camps
  BY <1>3, <1>6 DEF CampsKept, CampaignWritten
<1> QED
  BY <1>2, <1>5, <1>6

\* Nor does a commit, a rollback, or leaving the table alone.
LEMMA EndKeepsCamps ==
  ASSUME Inv, NEW s, s # Free, NEW E,
         camps' \in {camps, Publish(camps, s), Discard(camps, E)}
  PROVE  CampsKept
<1>1. \A d \in Campaigns : CampaignWritten(d)
  BY DEF Inv, ClaimInvariant
<1>2. camps \in CampTable
  BY TablesOf DEF Inv
<1>3. CASE camps' = camps
  BY <1>1, <1>3 DEF CampsKept, CampaignWritten
<1>4. CASE camps' = Publish(camps, s)
  <2>1. /\ Publish(camps, s).next = camps.next
        /\ \A c \in Campaigns :
             /\ Publish(camps, s).live[c] =
                  IF camps.lock[c] = s THEN camps.next[c] ELSE camps.live[c]
             /\ Publish(camps, s).lock[c] =
                  IF camps.lock[c] = s THEN Free ELSE camps.lock[c]
    BY <1>2, PublishRow DEF CampTable
  <2> QED
    BY <1>1, <1>4, <2>1 DEF CampsKept, CampaignWritten
<1>5. CASE camps' = Discard(camps, E)
  <2>1. /\ Discard(camps, E).live = camps.live
        /\ \A c \in Campaigns :
             /\ Discard(camps, E).next[c] =
                  IF camps.lock[c] \in E THEN camps.live[c] ELSE camps.next[c]
             /\ Discard(camps, E).lock[c] =
                  IF camps.lock[c] \in E THEN Free ELSE camps.lock[c]
    BY <1>2, DiscardRow DEF CampTable
  <2> QED
    BY <1>1, <1>5, <2>1 DEF CampsKept, CampaignWritten
<1> QED
  BY <1>3, <1>4, <1>5
-----------------------------------------------------------------------------
\* Requests that do not move still know what they knew.
LEMMA RequestsStill ==
  ASSUME Inv, CampsKept,
         \A r \in Requests : req'[r] = req[r] \/ req'[r] = Answered
  PROVE  \A r \in Requests : RequestKnows(r)'
<1>1. \A r \in Requests : RequestKnows(r)
  BY DEF Inv, ClaimInvariant
<1>2. \A j \in Jobs : j # None /\ CampaignOf[j] \in Campaigns
  BY NoneAssumption, CampaignOfAssumption
<1>3. Answered.pc = "done" /\ Answered.todo = {} /\ Answered.cur = None
  BY DEF Answered, Request
<1> QED
  BY <1>1, <1>2, <1>3 DEF RequestKnows, CampsKept

\* A step of one task that writes no job row: it may not start to send, stop
\* sending or forget its rows that way.
LEMMA TaskMoves ==
  ASSUME Inv, CampsKept, jobs' = jobs, req' = req, NEW w \in Tasks,
         \A v \in Tasks : v # w => task'[v] = task[v],
         task[w].pc \in {"start", "limits"} <=> task'[w].pc \in {"start", "limits"},
         task[w].pc \notin {"idle", "campaign", "claim"} =>
           /\ task'[w].pc \notin {"idle", "campaign", "claim"}
           /\ task'[w].entry = task[w].entry
  PROVE  ClaimInvariant' /\ SendingNeverCommitted'
<1>1. /\ \A j \in Jobs : JobInv(j)
      /\ \A v \in Tasks : ClaimHeld(v)
      /\ SendingNeverCommitted
  BY DEF Inv, ClaimInvariant
<1>2. \A r \in Requests : RequestKnows(r)'
  BY RequestsStill
<1>3. \A v \in Tasks : ClaimHeld(v)'
  BY <1>1 DEF ClaimHeld, JobAt
<1>4. ASSUME NEW j \in Jobs PROVE JobInv(j)'
  <2>1. CampaignOf[j] \in Campaigns
    BY CampaignOfAssumption
  <2>2. JobExists(j)' /\ JobHolder(j)'
    BY <1>1, <2>1 DEF JobInv, JobExists, JobHolder, CampsKept
  <2>3. HeldByTask(j)'
    BY <1>1 DEF JobInv, HeldByTask, JobAt
  <2>4. HeldByRequest(j)'
    BY <1>1 DEF JobInv, HeldByRequest
  <2>5. SendingClaimed(j)'
    BY <1>1 DEF JobInv, SendingClaimed
  <2> QED
    BY <2>2, <2>3, <2>4, <2>5 DEF JobInv
<1> QED
  BY <1>1, <1>2, <1>3, <1>4 DEF ClaimInvariant, CampsKept, SendingNeverCommitted

\* A step of one task that writes its own job's row, under its lock or when the
\* row is free: SENDING if and only if it is about to send.
LEMMA TaskWrites ==
  ASSUME Inv, CampsKept, req' = req, NEW w \in Tasks, ~At(w, "idle"),
         NEW row \in JobRows, jobs' = Put(jobs, w, JobAt(w), row),
         jobs.lock[JobAt(w)] \in {w, Free}, jobs.live[JobAt(w)] = "PENDING",
         \A v \in Tasks : v # w => task'[v] = task[v],
         task'[w].entry = task[w].entry,
         task'[w].pc \notin {"idle", "campaign", "claim"},
         task'[w].pc \in {"start", "limits"} <=> row = "SENDING"
  PROVE  ClaimInvariant' /\ SendingNeverCommitted'
<1> DEFINE i == JobAt(w)
<1>a. /\ \A j \in Jobs : JobInv(j)
      /\ \A v \in Tasks : ClaimHeld(v)
      /\ SendingNeverCommitted
  BY DEF Inv, ClaimInvariant
<1>b. i \in Jobs /\ w \in Sessions /\ jobs \in JobTable /\ Free \notin Tasks
        /\ Free \notin Requests /\ Tasks \cap Requests = {}
  BY TaskJob, TablesOf DEF Inv
<1>c. JobAt(w)' = i
  BY DEF JobAt
<1>d. \A v \in Tasks : v # w => JobAt(v)' = JobAt(v)
  BY DEF JobAt
<1> HIDE DEF i
<1>e. jobs' = Put(jobs, w, i, row)
  BY DEF i
<1>f. /\ jobs.lock[i] \in {w, Free} /\ jobs.live[i] = "PENDING"
  BY DEF i
<1>g. /\ jobs'.live = jobs.live
      /\ jobs'.next = [jobs.next EXCEPT ![i] = row]
      /\ jobs'.lock = [jobs.lock EXCEPT ![i] = w]
  BY <1>b, <1>e, PutRow DEF JobTable
<1>h. /\ jobs'.next[i] = row /\ jobs'.lock[i] = w
      /\ \A j \in Jobs : j # i => jobs'.next[j] = jobs.next[j] /\ jobs'.lock[j] = jobs.lock[j]
  BY <1>b, <1>g DEF JobTable, Tables
<1>i. \A j \in Jobs : j # i => jobs.lock[j] # w
  BY <1>a DEF JobInv, HeldByTask, i
<1>1. \A r \in Requests : RequestKnows(r)'
  BY RequestsStill
<1>2. ASSUME NEW v \in Tasks PROVE ClaimHeld(v)'
  <2>1. CASE v = w
    BY <1>c, <1>h, <2>1 DEF ClaimHeld
  <2>2. CASE v # w
    <3>1. ASSUME task[v].pc \in {"start", "limits"} PROVE JobAt(v) # i /\ JobAt(v) \in Jobs
      <4>1. jobs.lock[JobAt(v)] = v
        BY <1>a, <3>1 DEF ClaimHeld
      <4>2. JobAt(v) \in Jobs
        BY <3>1, TaskJob DEF Inv, At
      <4> QED
        BY <4>1, <4>2, <2>2, <1>b, <1>f
    <3> QED
      BY <1>a, <1>d, <1>h, <2>2, <3>1 DEF ClaimHeld
  <2> QED
    BY <2>1, <2>2
<1>3. ASSUME NEW j \in Jobs PROVE JobInv(j)'
  <2>1. CampaignOf[j] \in Campaigns
    BY CampaignOfAssumption
  <2>2. CASE j = i
    <3>1. JobExists(j)' /\ JobHolder(j)'
      BY <1>a, <1>f, <1>g, <1>h, <2>1, <2>2
      DEF JobInv, JobExists, JobHolder, CampsKept, Absent
    <3>2. HeldByTask(j)'
      BY <1>c, <1>f, <1>g, <1>h, <2>2 DEF HeldByTask
    <3>3. HeldByRequest(j)'
      BY <1>b, <1>h, <2>2 DEF HeldByRequest
    <3>4. SendingClaimed(j)'
      BY <1>h, <2>2 DEF SendingClaimed
    <3> QED
      BY <3>1, <3>2, <3>3, <3>4 DEF JobInv
  <2>3. CASE j # i
    <3>1. jobs'.next[j] = jobs.next[j] /\ jobs'.lock[j] = jobs.lock[j] /\ jobs.lock[j] # w
      BY <1>h, <1>i, <2>3
    <3>2. JobExists(j)' /\ JobHolder(j)'
      BY <1>a, <1>g, <2>1, <3>1 DEF JobInv, JobExists, JobHolder, CampsKept
    <3>3. HeldByTask(j)'
      BY <1>a, <1>d, <1>g, <3>1 DEF JobInv, HeldByTask
    <3>4. HeldByRequest(j)'
      BY <1>a, <1>g, <3>1 DEF JobInv, HeldByRequest
    <3>5. SendingClaimed(j)'
      BY <1>a, <3>1 DEF JobInv, SendingClaimed
    <3> QED
      BY <3>2, <3>3, <3>4, <3>5 DEF JobInv
  <2> QED
    BY <2>2, <2>3
<1>4. SendingNeverCommitted'
  BY <1>a, <1>g DEF SendingNeverCommitted
<1> QED
  BY <1>1, <1>2, <1>3, <1>4 DEF ClaimInvariant, CampsKept
-----------------------------------------------------------------------------
\* A step of one request that writes no job row.
LEMMA RequestMoves ==
  ASSUME Inv, CampsKept, jobs' = jobs, task' = task, NEW r \in Requests,
         \A q \in Requests : q # r => req'[q] = req[q],
         RequestKnows(r)',
         \A j \in Jobs : jobs.lock[j] = r =>
           req'[r].pc \notin {"new", "list", "enqueue", "done"} /\ req'[r].op = req[r].op
  PROVE  ClaimInvariant' /\ SendingNeverCommitted'
<1>1. /\ \A j \in Jobs : JobInv(j)
      /\ \A v \in Tasks : ClaimHeld(v)
      /\ \A q \in Requests : RequestKnows(q)
      /\ SendingNeverCommitted
  BY DEF Inv, ClaimInvariant
<1>2. ASSUME NEW q \in Requests PROVE RequestKnows(q)'
  <2>1. \A j \in Jobs : CampaignOf[j] \in Campaigns
    BY CampaignOfAssumption
  <2> QED
    BY <1>1, <2>1 DEF RequestKnows, CampsKept
<1>3. \A v \in Tasks : ClaimHeld(v)'
  BY <1>1 DEF ClaimHeld, JobAt
<1>4. ASSUME NEW j \in Jobs PROVE JobInv(j)'
  <2>1. CampaignOf[j] \in Campaigns
    BY CampaignOfAssumption
  <2>2. JobExists(j)' /\ JobHolder(j)'
    BY <1>1, <2>1 DEF JobInv, JobExists, JobHolder, CampsKept
  <2>3. HeldByTask(j)' /\ SendingClaimed(j)'
    BY <1>1 DEF JobInv, HeldByTask, SendingClaimed, JobAt
  <2>4. HeldByRequest(j)'
    BY <1>1 DEF JobInv, HeldByRequest
  <2> QED
    BY <2>2, <2>3, <2>4 DEF JobInv
<1> QED
  BY <1>1, <1>2, <1>3, <1>4 DEF ClaimInvariant, CampsKept, SendingNeverCommitted

\* A step of one request that writes the row of an existing job no other
\* session holds.
LEMMA RequestWrites ==
  ASSUME Inv, camps' = camps, task' = task, NEW r \in Requests, NEW i \in Jobs,
         NEW row \in JobRows, jobs' = Put(jobs, r, i, row), ~Locked(jobs, r, i),
         camps.live[CampaignOf[i]].status # Absent,
         req[r].op \in {"cancel", "resume", "star"},
         IF req[r].op = "cancel"
         THEN row = "CANCELLED" /\ jobs.live[i] = "PENDING"
         ELSE row \in {"PENDING", jobs.live[i]},
         \A q \in Requests : q # r => req'[q] = req[q],
         RequestKnows(r)',
         req'[r].pc \notin {"new", "list", "enqueue", "done"}, req'[r].op = req[r].op
  PROVE  ClaimInvariant' /\ SendingNeverCommitted'
<1>a. /\ \A j \in Jobs : JobInv(j)
      /\ \A v \in Tasks : ClaimHeld(v)
      /\ \A q \in Requests : RequestKnows(q)
      /\ \A c \in Campaigns : CampaignWritten(c)
      /\ SendingNeverCommitted
  BY DEF Inv, ClaimInvariant
<1>b. r \in Sessions /\ jobs \in JobTable /\ Free \notin Tasks
        /\ Free \notin Requests /\ Tasks \cap Requests = {}
  BY TablesOf DEF Inv, Sessions
<1>g. /\ jobs'.live = jobs.live
      /\ jobs'.next = [jobs.next EXCEPT ![i] = row]
      /\ jobs'.lock = [jobs.lock EXCEPT ![i] = r]
  BY <1>b, PutRow DEF JobTable
<1>h. /\ jobs'.next[i] = row /\ jobs'.lock[i] = r
      /\ \A j \in Jobs : j # i => jobs'.next[j] = jobs.next[j] /\ jobs'.lock[j] = jobs.lock[j]
  BY <1>b, <1>g DEF JobTable, Tables
<1>i. jobs.lock[i] \in {r, Free} /\ row # "SENDING"
  BY <1>a DEF Locked, SendingNeverCommitted
<1>1. ASSUME NEW q \in Requests PROVE RequestKnows(q)'
  BY <1>a DEF RequestKnows
<1>2. ASSUME NEW v \in Tasks PROVE ClaimHeld(v)'
  <2>1. SUFFICES ASSUME task[v].pc \in {"start", "limits"}
                 PROVE  /\ jobs'.lock[JobAt(v)] = v /\ jobs'.next[JobAt(v)] = "SENDING"
    BY DEF ClaimHeld, JobAt
  <2>2. jobs.lock[JobAt(v)] = v /\ jobs.next[JobAt(v)] = "SENDING"
    BY <1>a, <2>1 DEF ClaimHeld
  <2>3. JobAt(v) \in Jobs
    BY <2>1, TaskJob DEF Inv, At
  <2>4. JobAt(v) # i
    BY <1>b, <1>i, <2>2
  <2> QED
    BY <1>h, <2>2, <2>3, <2>4
<1>3. ASSUME NEW j \in Jobs PROVE JobInv(j)'
  <2>1. CampaignOf[j] \in Campaigns
    BY CampaignOfAssumption
  <2>2. CASE j = i
    <3>1. JobExists(j)' /\ JobHolder(j)'
      BY <1>h, <2>1, <2>2 DEF JobExists, JobHolder
    <3>2. HeldByTask(j)' /\ SendingClaimed(j)'
      BY <1>b, <1>h, <1>i, <2>2 DEF HeldByTask, SendingClaimed
    <3>3. HeldByRequest(j)'
      BY <1>g, <1>h, <2>2 DEF HeldByRequest
    <3> QED
      BY <3>1, <3>2, <3>3 DEF JobInv
  <2>3. CASE j # i
    <3>1. jobs'.next[j] = jobs.next[j] /\ jobs'.lock[j] = jobs.lock[j]
      BY <1>h, <2>3
    <3>2. JobExists(j)' /\ JobHolder(j)'
      BY <1>a, <1>g, <3>1 DEF JobInv, JobExists, JobHolder
    <3>3. HeldByTask(j)' /\ SendingClaimed(j)'
      BY <1>a, <1>g, <3>1 DEF JobInv, HeldByTask, SendingClaimed, JobAt
    <3>4. HeldByRequest(j)'
      <4>1. HeldByRequest(j)
        BY <1>a DEF JobInv
      <4>2. ASSUME NEW q \in Requests, jobs'.lock[j] = q
            PROVE  /\ req'[q].pc \notin {"new", "list", "enqueue", "done"}
                   /\ req'[q].op = req[q].op
        BY <3>1, <4>1, <4>2 DEF HeldByRequest
      <4> QED
        BY <1>g, <3>1, <4>1, <4>2 DEF HeldByRequest
    <3> QED
      BY <3>2, <3>3, <3>4 DEF JobInv
  <2> QED
    BY <2>2, <2>3
<1>4. SendingNeverCommitted'
  BY <1>a, <1>g DEF SendingNeverCommitted
<1> QED
  BY <1>a, <1>1, <1>2, <1>3, <1>4 DEF ClaimInvariant, CampaignWritten
-----------------------------------------------------------------------------
\* What a session leaves behind when it ends: its tasks are idle, its requests
\* hold nothing any more.
EndedTasks(E) ==
  \A v \in Tasks : IF v \in E THEN task'[v] = IdleTask ELSE task'[v] = task[v]

\* A rollback of any sessions.
LEMMA SessionsClose ==
  ASSUME Inv, NEW E, CloseSessions(E), EndedTasks(E),
         \A q \in Requests : IF q \in E THEN req'[q] = Answered ELSE req'[q] = req[q]
  PROVE  ClaimInvariant' /\ SendingNeverCommitted'
<1>a. /\ \A j \in Jobs : JobInv(j)
      /\ \A v \in Tasks : ClaimHeld(v)
      /\ SendingNeverCommitted
  BY DEF Inv, ClaimInvariant
<1>b. jobs \in JobTable /\ Free \notin Tasks /\ Free \notin Requests
  BY TablesOf DEF Inv
<1>c. CampsKept
  <2>1. "auto_resume" # Free
    BY DEF Free
  <2> QED
    BY <2>1, EndKeepsCamps DEF CloseSessions
<1>d. /\ jobs'.live = jobs.live
      /\ \A j \in Jobs :
           /\ jobs'.next[j] = IF jobs.lock[j] \in E THEN jobs.live[j] ELSE jobs.next[j]
           /\ jobs'.lock[j] = IF jobs.lock[j] \in E THEN Free ELSE jobs.lock[j]
  BY <1>b, DiscardRow DEF CloseSessions, JobTable
<1>1. \A r \in Requests : RequestKnows(r)'
  BY <1>c, RequestsStill
<1>2. ASSUME NEW v \in Tasks PROVE ClaimHeld(v)'
  <2>1. CASE v \in E
    BY <2>1 DEF EndedTasks, IdleTask, ClaimHeld
  <2>2. CASE v \notin E
    <3>1. task'[v] = task[v]
      BY <2>2 DEF EndedTasks
    <3>2. SUFFICES ASSUME task[v].pc \in {"start", "limits"}
                   PROVE  jobs'.lock[JobAt(v)] = v /\ jobs'.next[JobAt(v)] = "SENDING"
      BY <3>1 DEF ClaimHeld, JobAt
    <3>3. jobs.lock[JobAt(v)] = v /\ jobs.next[JobAt(v)] = "SENDING"
      BY <1>a, <3>2 DEF ClaimHeld
    <3>4. JobAt(v) \in Jobs
      BY <3>2, TaskJob DEF Inv, At
    <3> QED
      BY <1>d, <2>2, <3>3, <3>4
  <2> QED
    BY <2>1, <2>2
<1>3. ASSUME NEW j \in Jobs PROVE JobInv(j)'
  <2>1. CampaignOf[j] \in Campaigns
    BY CampaignOfAssumption
  <2>2. JobExists(j)' /\ JobHolder(j)'
    BY <1>a, <1>c, <1>d, <2>1 DEF JobInv, JobExists, JobHolder, CampsKept
  <2>3. HeldByTask(j)'
    BY <1>a, <1>b, <1>d DEF JobInv, HeldByTask, EndedTasks, JobAt
  <2>4. HeldByRequest(j)'
    BY <1>a, <1>b, <1>d DEF JobInv, HeldByRequest
  <2>5. SendingClaimed(j)'
    BY <1>a, <1>d DEF JobInv, SendingClaimed, SendingNeverCommitted, EndedTasks
  <2> QED
    BY <2>2, <2>3, <2>4, <2>5 DEF JobInv
<1>4. SendingNeverCommitted'
  BY <1>a, <1>d DEF SendingNeverCommitted
<1> QED
  BY <1>c, <1>1, <1>2, <1>3, <1>4 DEF ClaimInvariant, CampsKept

\* A commit of one session that is not about to send.
LEMMA SessionCommits ==
  ASSUME Inv, NEW s \in Sessions, CommitSession(s), EndedTasks({s}),
         s \in Tasks => task[s].pc \notin {"start", "limits"},
         \A q \in Requests : q # s => req'[q] = req[q],
         s \in Requests => RequestKnows(s)'
  PROVE  ClaimInvariant' /\ SendingNeverCommitted'
<1>a. /\ \A j \in Jobs : JobInv(j)
      /\ \A v \in Tasks : ClaimHeld(v)
      /\ \A q \in Requests : RequestKnows(q)
      /\ SendingNeverCommitted
  BY DEF Inv, ClaimInvariant
<1>b. jobs \in JobTable /\ Free \notin Tasks /\ Free \notin Requests /\ s # Free
  BY TablesOf, CronsAssumption DEF Inv, Sessions, Free
<1>c. CampsKept
  BY <1>b, EndKeepsCamps DEF CommitSession
<1>d. /\ jobs'.next = jobs.next
      /\ \A j \in Jobs :
           /\ jobs'.live[j] = IF jobs.lock[j] = s THEN jobs.next[j] ELSE jobs.live[j]
           /\ jobs'.lock[j] = IF jobs.lock[j] = s THEN Free ELSE jobs.lock[j]
  BY <1>b, PublishRow DEF CommitSession, JobTable
<1>e. \A j \in Jobs : jobs.lock[j] = s => jobs.next[j] # "SENDING"
  BY <1>a DEF JobInv, SendingClaimed
<1>f. \A v \in Tasks : IF v = s THEN task'[v] = IdleTask ELSE task'[v] = task[v]
  BY DEF EndedTasks
<1>1. ASSUME NEW q \in Requests PROVE RequestKnows(q)'
  <2>1. \A j \in Jobs : CampaignOf[j] \in Campaigns
    BY CampaignOfAssumption
  <2> QED
    BY <1>a, <1>c, <2>1 DEF RequestKnows, CampsKept
<1>2. ASSUME NEW v \in Tasks PROVE ClaimHeld(v)'
  <2>1. CASE v = s
    BY <1>f, <2>1 DEF IdleTask, ClaimHeld
  <2>2. CASE v # s
    <3>1. task'[v] = task[v]
      BY <1>f, <2>2
    <3>2. SUFFICES ASSUME task[v].pc \in {"start", "limits"}
                   PROVE  jobs'.lock[JobAt(v)] = v /\ jobs'.next[JobAt(v)] = "SENDING"
      BY <3>1 DEF ClaimHeld, JobAt
    <3>3. jobs.lock[JobAt(v)] = v /\ jobs.next[JobAt(v)] = "SENDING"
      BY <1>a, <3>2 DEF ClaimHeld
    <3>4. JobAt(v) \in Jobs
      BY <3>2, TaskJob DEF Inv, At
    <3> QED
      BY <1>d, <2>2, <3>3, <3>4
  <2> QED
    BY <2>1, <2>2
<1>3. ASSUME NEW j \in Jobs PROVE JobInv(j)'
  <2>1. CampaignOf[j] \in Campaigns
    BY CampaignOfAssumption
  <2>2. JobExists(j)' /\ JobHolder(j)'
    BY <1>a, <1>b, <1>c, <1>d, <2>1 DEF JobInv, JobExists, JobHolder, CampsKept
  <2>3. HeldByTask(j)'
    BY <1>a, <1>b, <1>d, <1>f DEF JobInv, HeldByTask, JobAt
  <2>4. HeldByRequest(j)'
    BY <1>a, <1>b, <1>d DEF JobInv, HeldByRequest
  <2>5. SendingClaimed(j)'
    BY <1>a, <1>d, <1>e, <1>f DEF JobInv, SendingClaimed
  <2> QED
    BY <2>2, <2>3, <2>4, <2>5 DEF JobInv
<1>4. SendingNeverCommitted'
  BY <1>a, <1>d, <1>e DEF SendingNeverCommitted
<1> QED
  BY <1>c, <1>1, <1>2, <1>3, <1>4 DEF ClaimInvariant, CampsKept
-----------------------------------------------------------------------------
\* The insertion of a campaign with its jobs.
LEMMA CreateKeeps ==
  ASSUME Inv, NEW r \in Requests, NEW c \in Campaigns, create(r, c), task' = task
  PROVE  ClaimInvariant' /\ SendingNeverCommitted'
<1>a. /\ \A j \in Jobs : JobInv(j)
      /\ \A v \in Tasks : ClaimHeld(v)
      /\ \A q \in Requests : RequestKnows(q)
      /\ \A d \in Campaigns : CampaignWritten(d)
      /\ SendingNeverCommitted
  BY DEF Inv, ClaimInvariant
<1>b. /\ jobs \in JobTable /\ camps \in CampTable
      /\ Free \notin Tasks /\ Free \notin Requests /\ Absent \notin CampaignStatus
  BY TablesOf DEF Inv
<1>c. CampsKept
  <2> DEFINE row == [status |-> "SCHEDULED", reason |-> None]
  <2>1. row.status # Absent
    BY DEF Absent
  <2>2. camps' = [camps EXCEPT !.live = [@ EXCEPT ![c] = row], !.next = [@ EXCEPT ![c] = row]]
    BY DEF create
  <2> HIDE DEF row
  <2>3. /\ camps'.live = [camps.live EXCEPT ![c] = row]
        /\ camps'.next = [camps.next EXCEPT ![c] = row]
        /\ camps'.lock = camps.lock
    BY <1>b, <2>2 DEF CampTable, Tables
  <2> QED
    BY <1>a, <1>b, <2>1, <2>3 DEF CampsKept, CampaignWritten, CampTable, Tables
<1>d. \A j \in JobsOf(c) : j \in Jobs /\ jobs.live[j] = Absent /\ jobs.lock[j] = Free
  BY <1>a DEF create, JobInv, JobExists, JobsOf
<1>e. /\ jobs'.lock = jobs.lock
      /\ \A j \in Jobs : jobs'.live[j] = IF j \in JobsOf(c) THEN "PENDING" ELSE jobs.live[j]
      /\ \A j \in Jobs : jobs'.next[j] = IF j \in JobsOf(c) THEN "PENDING" ELSE jobs.next[j]
  BY <1>b DEF create, JobTable, Tables
<1>f. req[r].pc = "new"
  BY DEF create, ReqAt
<1>g. \A j \in Jobs : jobs.lock[j] # r
  BY <1>a, <1>f DEF JobInv, HeldByRequest
<1>h. /\ req'[r].pc = "enqueue" /\ req'[r].todo = {} /\ req'[r].cur = None
      /\ \A q \in Requests : q # r => req'[q] = req[q]
  <2>1. req \in [Requests -> RequestRecords]
    BY DEF Inv, TypeInv, TypeOK, RequestTypeOK
  <2> QED
    BY <2>1 DEF create, Request
<1>1. ASSUME NEW q \in Requests PROVE RequestKnows(q)'
  <2>1. \A j \in Jobs : CampaignOf[j] \in Campaigns /\ j # None
    BY CampaignOfAssumption, NoneAssumption
  <2> QED
    BY <1>a, <1>c, <1>h, <2>1 DEF RequestKnows, CampsKept
<1>2. ASSUME NEW v \in Tasks PROVE ClaimHeld(v)'
  <2>1. SUFFICES ASSUME task[v].pc \in {"start", "limits"}
                 PROVE  jobs'.lock[JobAt(v)] = v /\ jobs'.next[JobAt(v)] = "SENDING"
    BY DEF ClaimHeld, JobAt
  <2>2. jobs.lock[JobAt(v)] = v /\ jobs.next[JobAt(v)] = "SENDING"
    BY <1>a, <2>1 DEF ClaimHeld
  <2>3. JobAt(v) \in Jobs
    BY <2>1, TaskJob DEF Inv, At
  <2>4. JobAt(v) \notin JobsOf(c)
    BY <1>b, <1>d, <2>2
  <2> QED
    BY <1>e, <2>2, <2>3, <2>4
<1>3. ASSUME NEW j \in Jobs PROVE JobInv(j)'
  <2>1. CampaignOf[j] \in Campaigns
    BY CampaignOfAssumption
  <2>2. JobExists(j)'
    <3>1. j \in JobsOf(c) <=> CampaignOf[j] = c
      BY DEF JobsOf
    <3>2. camps'.live[c].status # Absent
      BY <1>b DEF create, CampTable, Tables, Absent
    <3> QED
      BY <1>a, <1>c, <1>e, <2>1, <3>1, <3>2 DEF JobInv, JobExists, CampsKept
  <2>3. JobHolder(j)'
    BY <1>a, <1>e DEF JobInv, JobHolder
  <2>4. HeldByTask(j)'
    BY <1>a, <1>b, <1>d, <1>e DEF JobInv, HeldByTask, JobAt
  <2>5. HeldByRequest(j)'
    BY <1>a, <1>b, <1>d, <1>e, <1>g, <1>h DEF JobInv, HeldByRequest
  <2>6. SendingClaimed(j)'
    BY <1>a, <1>e DEF JobInv, SendingClaimed
  <2> QED
    BY <2>2, <2>3, <2>4, <2>5, <2>6 DEF JobInv
<1>4. SendingNeverCommitted'
  BY <1>a, <1>e DEF SendingNeverCommitted
<1> QED
  BY <1>c, <1>1, <1>2, <1>3, <1>4 DEF ClaimInvariant, CampsKept

\* A step outside tasks and requests that leaves the job table alone.
LEMMA OthersKeep ==
  ASSUME Inv, CampsKept, jobs' = jobs, task' = task, req' = req
  PROVE  ClaimInvariant' /\ SendingNeverCommitted'
<1>1. /\ \A j \in Jobs : JobInv(j)
      /\ \A v \in Tasks : ClaimHeld(v)
      /\ SendingNeverCommitted
  BY DEF Inv, ClaimInvariant
<1>2. \A r \in Requests : RequestKnows(r)'
  BY RequestsStill
<1>3. \A v \in Tasks : ClaimHeld(v)'
  BY <1>1 DEF ClaimHeld, JobAt
<1>4. ASSUME NEW j \in Jobs PROVE JobInv(j)'
  <2>1. CampaignOf[j] \in Campaigns
    BY CampaignOfAssumption
  <2>2. JobExists(j)' /\ JobHolder(j)'
    BY <1>1, <2>1 DEF JobInv, JobExists, JobHolder, CampsKept
  <2>3. HeldByTask(j)' /\ SendingClaimed(j)' /\ HeldByRequest(j)'
    BY <1>1 DEF JobInv, HeldByTask, SendingClaimed, HeldByRequest, JobAt
  <2> QED
    BY <2>2, <2>3 DEF JobInv
<1> QED
  BY <1>1, <1>2, <1>3, <1>4 DEF ClaimInvariant, CampsKept, SendingNeverCommitted

\* The sweeps of SENDING jobs find no row to change.
LEMMA RecoverNothing ==
  ASSUME Inv, RecoverSending
  PROVE  SendingRows = {} /\ jobs' = jobs
<1>1. SendingRows = {}
  BY DEF Inv, SendingNeverCommitted, SendingRows
<1>2. jobs \in JobTable
  BY TablesOf DEF Inv
<1>3. /\ jobs' = [jobs EXCEPT !.live = [j \in Jobs |-> IF j \in SendingRows THEN "PENDING" ELSE @[j]],
                              !.next = [j \in Jobs |-> IF j \in SendingRows THEN "PENDING" ELSE @[j]]]
  BY DEF RecoverSending
<1>4. /\ jobs.live = [j \in Jobs |-> jobs.live[j]]
      /\ jobs.next = [j \in Jobs |-> jobs.next[j]]
  BY <1>2 DEF JobTable, Tables
<1> QED
  BY <1>1, <1>2, <1>3, <1>4 DEF JobTable, Tables
-----------------------------------------------------------------------------
\* Every step of a task keeps the claim invariant.
LEMMA TaskActKeeps ==
  ASSUME Inv, TaskAct
  PROVE  ClaimInvariant' /\ SendingNeverCommitted'
<1>a. /\ \A j \in Jobs : JobInv(j)
      /\ \A v \in Tasks : ClaimHeld(v)
      /\ \A c \in Campaigns : CampaignWritten(c)
  BY DEF Inv, ClaimInvariant
<1>b. /\ jobs \in JobTable /\ Free \notin Tasks
      /\ task \in [Tasks -> TaskRecords] /\ req' = req
  BY TablesOf DEF Inv, TypeInv, TypeOK, TaskTypeOK, TaskAct
<1>c. ASSUME camps' = camps PROVE CampsKept
  <2>1. "auto_resume" # Free
    BY DEF Free
  <2> QED
    BY <1>c, <2>1, EndKeepsCamps
<1>1. ASSUME NEW w \in Tasks, NEW e \in Entries, Start(w, e)
      PROVE  ClaimInvariant' /\ SendingNeverCommitted'
  <2>1. task[w].pc = "idle" /\ task'[w].pc = "campaign"
    BY <1>1, <1>b DEF Start, At
  <2> QED
    BY <1>1, <1>b, <1>c, <2>1, TaskMoves DEF Start
<1>2. ASSUME NEW w \in Tasks, TaskStep(w)
      PROVE  ClaimInvariant' /\ SendingNeverCommitted'
  <2>a. ~At(w, "idle")
    BY <1>2 DEF TaskStep, ReadCampaign, claim_pending, StartCampaign, Reject, Postpone,
         Exhaust, PauseExhausted, SmtpAccepts, SmtpRefuses, CheckCompletion,
         CompleteCampaign, CommitTask, RecordFails, At
  <2>b. JobAt(w) \in Jobs /\ CampAt(w) \in Campaigns /\ w \in Sessions
    BY <2>a, TaskJob DEF Inv
  <2>c. ASSUME NEW pc, Goto(w, pc)
        PROVE  /\ task'[w].pc = pc /\ task'[w].entry = task[w].entry
               /\ \A v \in Tasks : v # w => task'[v] = task[v]
    BY <1>b, <2>c DEF Goto, TaskRecords
  <2>d. ASSUME Finish(w) PROVE EndedTasks({w})
    BY <1>b, <2>d DEF Finish, EndedTasks
  \* A claimed row, before the task writes it again.
  <2>e. ASSUME At(w, "limits")
        PROVE  /\ jobs.lock[JobAt(w)] = w /\ jobs.next[JobAt(w)] = "SENDING"
               /\ jobs.live[JobAt(w)] = "PENDING" /\ View(jobs, w, JobAt(w)) = "SENDING"
    BY <1>a, <2>b, <2>e DEF At, ClaimHeld, JobInv, HeldByTask, View
  <2>f. ASSUME At(w, "limits"), NEW row \in EmailStatus, row # "SENDING",
               jobs' = Put(jobs, w, JobAt(w), row), camps' = camps,
               NEW pc \in {"commit", "pausing", "check"}, Goto(w, pc)
        PROVE  ClaimInvariant' /\ SendingNeverCommitted'
    BY <1>b, <1>c, <2>a, <2>c, <2>e, <2>f, TaskWrites DEF JobRows
  <2>1. CASE ReadCampaign(w)
    <3>1. /\ task[w].pc = "campaign" /\ task'[w].pc \in {"commit", "check", "claim"}
          /\ \A v \in Tasks : v # w => task'[v] = task[v]
      BY <2>1, <1>b DEF ReadCampaign, At, TaskRecords
    <3> QED
      BY <2>1, <3>1, <1>b, <1>c, TaskMoves DEF ReadCampaign, store
  <2>2. CASE claim_pending(w)
    <3>0. jobs.lock[JobAt(w)] # w
      BY <1>a, <2>2, <2>b DEF claim_pending, At, JobInv, HeldByTask
    <3>1. CASE View(jobs, w, JobAt(w)) = "PENDING"
      <4>1. jobs.lock[JobAt(w)] = Free /\ jobs.live[JobAt(w)] = "PENDING"
        BY <2>2, <3>0, <3>1 DEF claim_pending, set_status_if, Locked, View
      <4>2. jobs' = Put(jobs, w, JobAt(w), "SENDING") /\ Goto(w, "start") /\ camps' = camps
        BY <2>2, <3>1 DEF claim_pending, set_status_if
      <4> QED
        BY <1>b, <1>c, <2>a, <2>c, <4>1, <4>2, TaskWrites DEF JobRows, EmailStatus
    <3>2. CASE View(jobs, w, JobAt(w)) # "PENDING"
      <4>1. jobs' = jobs /\ Goto(w, "commit") /\ camps' = camps /\ task[w].pc = "claim"
        BY <2>2, <3>2 DEF claim_pending, set_status_if, At
      <4> QED
        BY <1>b, <1>c, <2>c, <4>1, TaskMoves
    <3> QED
      BY <3>1, <3>2
  <2>3. CASE StartCampaign(w)
    <3>1. CampsKept
      BY <2>3, <1>c, <2>b, UpdateKeepsCamps DEF StartCampaign, CampaignStatus
    <3>2. jobs' = jobs /\ Goto(w, "limits") /\ task[w].pc = "start"
      BY <2>3 DEF StartCampaign, At
    <3> QED
      BY <1>b, <2>c, <3>1, <3>2, TaskMoves
  <2>4. CASE Reject(w)
    BY <2>4, <2>f DEF Reject, SetJob, EmailStatus
  <2>5. CASE Postpone(w)
    BY <2>5, <2>e, <2>f DEF Postpone, set_status_if, EmailStatus
  <2>6. CASE Exhaust(w)
    BY <2>6, <2>e, <2>f DEF Exhaust, set_status_if, EmailStatus
  <2>7. CASE PauseExhausted(w)
    <3>1. CampsKept
      BY <2>7, <2>b, UpdateKeepsCamps DEF PauseExhausted, CampaignStatus
    <3>2. jobs' = jobs /\ Goto(w, "commit") /\ task[w].pc = "pausing"
      BY <2>7 DEF PauseExhausted, At
    <3> QED
      BY <1>b, <2>c, <3>1, <3>2, TaskMoves
  <2>8. CASE SmtpAccepts(w)
    BY <2>8, <2>e, <2>f DEF SmtpAccepts, SetJob, EmailStatus
  <2>9. CASE SmtpRefuses(w)
    BY <2>9, <2>f DEF SmtpRefuses, SetJob, EmailStatus
  <2>10. CASE CheckCompletion(w)
    <3>1. /\ task[w].pc = "check" /\ task'[w].pc \in {"complete", "commit"}
          /\ task'[w].entry = task[w].entry
          /\ \A v \in Tasks : v # w => task'[v] = task[v]
      BY <2>10, <1>b DEF CheckCompletion, At, TaskRecords
    <3> QED
      BY <2>10, <3>1, <1>b, <1>c, TaskMoves DEF CheckCompletion, store
  <2>11. CASE CompleteCampaign(w)
    <3>1. CampsKept
      BY <2>11, <2>b, UpdateKeepsCamps DEF CompleteCampaign, CampaignStatus
    <3>2. jobs' = jobs /\ Goto(w, "commit") /\ task[w].pc = "complete"
      BY <2>11 DEF CompleteCampaign, At
    <3> QED
      BY <1>b, <2>c, <3>1, <3>2, TaskMoves
  <2>12. CASE CommitTask(w)
    <3>1. task[w].pc = "commit" /\ CommitSession(w) /\ EndedTasks({w}) /\ w \notin Requests
      BY <2>12, <2>d, TablesOf DEF CommitTask, At, Inv
    <3> QED
      BY <1>b, <2>b, <3>1, SessionCommits
  <2>13. CASE RecordFails(w)
    <3>1. CloseSessions({w}) /\ EndedTasks({w}) /\ w \notin Requests
      BY <2>13, <2>d, TablesOf DEF RecordFails, Inv
    <3> QED
      BY <1>b, <3>1, SessionsClose
  <2> QED
    BY <1>2, <2>1, <2>2, <2>3, <2>4, <2>5, <2>6, <2>7, <2>8, <2>9, <2>10, <2>11, <2>12, <2>13
    DEF TaskStep
<1> QED
  BY <1>1, <1>2 DEF TaskAct, TaskNext

\* Every step of a request keeps the claim invariant.
LEMMA RequestActKeeps ==
  ASSUME Inv, NEW r \in Requests,
         RequestStep(r) \/ RequestArrives(r) \/ RequestDies(r), task' = task
  PROVE  ClaimInvariant' /\ SendingNeverCommitted'
<1>a. /\ \A j \in Jobs : JobInv(j)
      /\ RequestKnows(r)
  BY DEF Inv, ClaimInvariant
<1>b. /\ jobs \in JobTable /\ Free \notin Tasks /\ Free \notin Requests /\ Tasks \cap Requests = {}
      /\ req \in [Requests -> RequestRecords] /\ r \in Sessions
      /\ \A j \in Jobs : j # None /\ CampaignOf[j] \in Campaigns
  BY TablesOf, NoneAssumption, CampaignOfAssumption
  DEF Inv, TypeInv, TypeOK, RequestTypeOK, Sessions
<1>c. ASSUME camps' = camps PROVE CampsKept
  <2>1. "auto_resume" # Free
    BY DEF Free
  <2> QED
    BY <1>c, <2>1, EndKeepsCamps
<1>e. /\ Answered.pc = "done" /\ Answered.todo = {} /\ Answered.cur = None
  BY DEF Answered, Request
<1>f. \A j \in Jobs : jobs.lock[j] = r => req[r].pc \notin {"new", "list", "enqueue", "done"}
  BY <1>a DEF JobInv, HeldByRequest
<1>g. ASSUME NEW rec, req' = [req EXCEPT ![r] = rec]
      PROVE  req'[r] = rec /\ \A q \in Requests : q # r => req'[q] = req[q]
  BY <1>b, <1>g
<1>h. ASSUME req'[r] = Answered PROVE RequestKnows(r)'
  BY <1>b, <1>e, <1>h DEF RequestKnows
<1>i. EndedTasks({r})
  <2>1. r \notin Tasks
    BY <1>b
  <2> QED
    BY <2>1 DEF EndedTasks
\* What a request sees as a row of an existing job is one.
<1>k. \A j \in Jobs : jobs.live[j] # Absent \/ jobs.lock[j] # Free =>
        camps.live[CampaignOf[j]].status # Absent
  BY <1>a DEF JobInv, JobExists
<1>l. \A j \in Jobs : View(jobs, r, j) # Absent => camps.live[CampaignOf[j]].status # Absent
  BY <1>b, <1>k DEF View
<1>1. ASSUME NEW c \in Campaigns, create(r, c)
      PROVE  ClaimInvariant' /\ SendingNeverCommitted'
  BY <1>1, CreateKeeps
<1>2. ASSUME NEW c \in Campaigns, ReadForResume(r, c)
      PROVE  ClaimInvariant' /\ SendingNeverCommitted'
  <2>1. /\ req[r].pc = "new" /\ jobs' = jobs /\ camps' = camps
        /\ \A q \in Requests : q # r => req'[q] = req[q]
    BY <1>2, <1>b DEF ReadForResume, ReqAt, store
  <2>2. req'[r] = Answered \/ req'[r] = [Request("list") EXCEPT !.op = "resume", !.camp = c, !.seen = "PAUSED"]
    BY <1>2, <1>b DEF ReadForResume
  <2>3. RequestKnows(r)'
    BY <1>b, <1>h, <2>2 DEF RequestKnows, Request
  <2> QED
    BY <1>c, <1>f, <2>1, <2>3, RequestMoves
<1>3. ASSUME NEW c \in Campaigns, NEW op \in ApiOps, ReadForChange(r, op, c)
      PROVE  ClaimInvariant' /\ SendingNeverCommitted'
  <2>1. /\ req[r].pc = "new" /\ jobs' = jobs /\ camps' = camps
        /\ \A q \in Requests : q # r => req'[q] = req[q]
    BY <1>3, <1>b DEF ReadForChange, ReqAt, store
  <2>2. \/ req'[r] = Answered
        \/ req'[r] = [Request("write") EXCEPT
             !.op = op, !.camp = c, !.seen = StatusOf(r, c), !.target = TargetOf(op)]
    BY <1>3, <1>b DEF ReadForChange
  <2>3. RequestKnows(r)'
    BY <1>b, <1>h, <2>2 DEF RequestKnows, Request
  <2> QED
    BY <1>c, <1>f, <2>1, <2>3, RequestMoves
<1>4. CASE ListJobs(r)
  <2> DEFINE overdue == {j \in JobsIn(r, req[r].camp, {"PENDING"}) : due[j]}
  <2>1. /\ req[r].pc = "list" /\ jobs' = jobs /\ camps' = camps
        /\ \A q \in Requests : q # r => req'[q] = req[q]
    BY <1>4, <1>b DEF ListJobs, ReqAt, store
  <2>2. /\ req'[r].pc \in {"write", "select"} /\ req'[r].op = req[r].op
        /\ req'[r].todo = overdue /\ req'[r].cur = req[r].cur
    BY <1>4, <1>b DEF ListJobs, RequestRecords
  <2>3. \A j \in Jobs : j \in overdue => camps.live[CampaignOf[j]].status # Absent
    BY <1>l DEF JobsIn, Absent
  <2> HIDE DEF overdue
  <2>4. RequestKnows(r)'
    BY <1>a, <2>1, <2>2, <2>3 DEF RequestKnows
  <2> QED
    BY <1>c, <1>f, <2>1, <2>4, RequestMoves
<1>5. ASSUME NEW j \in Jobs, SelectRow(r, j)
      PROVE  ClaimInvariant' /\ SendingNeverCommitted'
  <2>1. /\ req[r].pc = "select" /\ jobs' = jobs /\ camps' = camps /\ j \in req[r].todo
        /\ \A q \in Requests : q # r => req'[q] = req[q]
    BY <1>5, <1>b DEF SelectRow, ReqAt, store
  <2>2. /\ req'[r].pc = "update" /\ req'[r].op = req[r].op
        /\ req'[r].todo = req[r].todo /\ req'[r].cur = j
    BY <1>5, <1>b DEF SelectRow, RequestRecords
  <2>3. RequestKnows(r)'
    BY <1>a, <2>1, <2>2 DEF RequestKnows
  <2> QED
    BY <1>c, <1>f, <2>1, <2>2, <2>3, RequestMoves
<1>6. CASE UpdateRow(r)
  <2> DEFINE i == req[r].cur
             row == IF req[r].row # "PENDING" THEN "PENDING" ELSE View(jobs, r, i)
  <2>1. /\ req[r].pc = "update" /\ i \in Jobs /\ camps' = camps /\ req[r].op \in {"resume", "star"}
        /\ ~Locked(jobs, r, i) /\ jobs' = Put(jobs, r, i, row)
        /\ camps.live[CampaignOf[i]].status # Absent
    BY <1>6, <1>a DEF UpdateRow, ReqAt, Inv, TypeInv, RequestShape, RequestKnows
  <2>2. View(jobs, r, i) \in JobRows
    BY <2>1, ViewRow, <1>b DEF JobTable
  <2>3. row \in JobRows /\ row \in {"PENDING", jobs.live[i]}
    BY <1>a, <2>1, <2>2 DEF JobInv, HeldByRequest, View, JobRows, EmailStatus, Locked
  <2>4. /\ req'[r].pc \in {"write", "select", "commit"} /\ req'[r].op = req[r].op
        /\ req'[r].todo \subseteq req[r].todo /\ req'[r].cur = None
        /\ \A q \in Requests : q # r => req'[q] = req[q]
    BY <1>6, <1>b DEF UpdateRow, RequestRecords
  <2> HIDE DEF i, row
  <2>5. RequestKnows(r)'
    BY <1>a, <1>b, <2>1, <2>4 DEF RequestKnows
  <2> QED
    BY <2>1, <2>3, <2>4, <2>5, RequestWrites
<1>7. CASE WriteStatus(r)
  <2>1. CASE StatusOf(r, req[r].camp) = req[r].seen
    <3>1. /\ req[r].pc = "write" /\ jobs' = jobs
          /\ req[r].camp \in Campaigns /\ req[r].target \in CampaignStatus
      BY <1>7, <2>1 DEF WriteStatus, ReqAt, Inv, TypeInv, RequestShape
    <3>2. CampsKept
      BY <1>7, <1>b, <2>1, <3>1, UpdateKeepsCamps DEF WriteStatus
    <3>3. /\ req'[r].pc \in {"snapshot", "commit"} /\ req'[r].op = req[r].op
          /\ req'[r].pc = "snapshot" => req[r].op = "cancel"
          /\ req'[r].todo = req[r].todo /\ req'[r].cur = req[r].cur
          /\ \A q \in Requests : q # r => req'[q] = req[q]
      BY <1>7, <1>b, <2>1 DEF WriteStatus, RequestRecords
    <3>4. RequestKnows(r)'
      BY <1>a, <1>b, <3>2, <3>3 DEF RequestKnows, CampsKept
    <3> QED
      BY <1>f, <3>1, <3>2, <3>3, <3>4, RequestMoves
  <2>2. CASE StatusOf(r, req[r].camp) # req[r].seen
    <3>1. CloseSessions({r}) /\ req' = [req EXCEPT ![r] = Answered]
      BY <1>7, <2>2 DEF WriteStatus
    <3> QED
      BY <1>b, <1>i, <3>1, SessionsClose
  <2> QED
    BY <2>1, <2>2
<1>8. CASE SnapshotPending(r)
  <2> DEFINE pending == JobsIn(r, req[r].camp, {"PENDING"})
  <2>1. /\ req[r].pc = "snapshot" /\ jobs' = jobs /\ camps' = camps
        /\ \A q \in Requests : q # r => req'[q] = req[q]
    BY <1>8, <1>b DEF SnapshotPending, ReqAt, store
  <2>2. /\ req'[r].pc \in {"cancelling", "commit"} /\ req'[r].op = req[r].op
        /\ req'[r].todo = pending /\ req'[r].cur = req[r].cur
    BY <1>8, <1>b DEF SnapshotPending, RequestRecords
  <2>3. \A j \in Jobs : j \in pending => camps.live[CampaignOf[j]].status # Absent
    BY <1>l DEF JobsIn, Absent
  <2> HIDE DEF pending
  <2>4. RequestKnows(r)'
    BY <1>a, <2>1, <2>2, <2>3 DEF RequestKnows
  <2> QED
    BY <1>c, <1>f, <2>1, <2>2, <2>4, RequestMoves
<1>9. ASSUME NEW j \in Jobs, CancelRow(r, j)
      PROVE  ClaimInvariant' /\ SendingNeverCommitted'
  <2>1. /\ req[r].pc = "cancelling" /\ req[r].op = "cancel" /\ camps' = camps
        /\ set_status_if(r, j, "PENDING", "CANCELLED") /\ j \in req[r].todo
    BY <1>9, <1>a DEF CancelRow, ReqAt, RequestKnows
  <2>2. /\ req'[r].pc \in {"cancelling", "commit"} /\ req'[r].op = req[r].op
        /\ req'[r].todo \subseteq req[r].todo /\ req'[r].cur = req[r].cur
        /\ \A q \in Requests : q # r => req'[q] = req[q]
    BY <1>9, <1>b DEF CancelRow, RequestRecords
  <2>3. RequestKnows(r)'
    BY <1>a, <2>1, <2>2 DEF RequestKnows
  <2>4. CASE View(jobs, r, j) = "PENDING"
    <3>1. jobs' = Put(jobs, r, j, "CANCELLED") /\ ~Locked(jobs, r, j)
      BY <2>1, <2>4 DEF set_status_if
    <3>2. jobs.live[j] = "PENDING"
      BY <1>a, <2>1, <2>4, <3>1 DEF View, Locked, JobInv, HeldByRequest
    <3>3. camps.live[CampaignOf[j]].status # Absent /\ "CANCELLED" \in JobRows
      BY <1>a, <2>1 DEF RequestKnows, JobRows, EmailStatus
    <3> QED
      BY <2>1, <2>2, <2>3, <3>1, <3>2, <3>3, RequestWrites
  <2>5. CASE View(jobs, r, j) # "PENDING"
    <3>1. jobs' = jobs
      BY <2>1, <2>5 DEF set_status_if
    <3> QED
      BY <1>c, <2>1, <2>2, <2>3, <3>1, RequestMoves
  <2> QED
    BY <2>4, <2>5
<1>10. CASE CommitRequest(r)
  <2>1. /\ CommitSession(r) /\ \A q \in Requests : q # r => req'[q] = req[q]
        /\ r \notin Tasks
    BY <1>10, <1>b DEF CommitRequest
  <2>2. CampsKept
    BY <1>b, <2>1, EndKeepsCamps DEF CommitSession
  <2>3. \/ req'[r] = Answered
        \/ /\ req'[r].pc = "enqueue" /\ req'[r].todo = req[r].todo /\ req'[r].cur = req[r].cur
    BY <1>10, <1>b DEF CommitRequest, RequestRecords
  <2>4. RequestKnows(r)'
    BY <1>a, <1>b, <1>h, <2>2, <2>3 DEF RequestKnows, CampsKept
  <2> QED
    BY <1>b, <1>i, <2>1, <2>4, SessionCommits
<1>11. ASSUME NEW j \in Jobs, EnqueuePlanned(r, j)
       PROVE  ClaimInvariant' /\ SendingNeverCommitted'
  <2>1. /\ req[r].pc = "enqueue" /\ jobs' = jobs /\ camps' = camps
        /\ \A q \in Requests : q # r => req'[q] = req[q]
    BY <1>11, <1>b DEF EnqueuePlanned, ReqAt
  <2>2. \/ req'[r] = Answered
        \/ /\ req'[r].pc = "enqueue" /\ req'[r].todo = req[r].todo /\ req'[r].cur = req[r].cur
    BY <1>11, <1>b DEF EnqueuePlanned, ReqAt, RequestRecords
  <2>3. RequestKnows(r)'
    BY <1>a, <1>h, <2>1, <2>2 DEF RequestKnows
  <2> QED
    BY <1>c, <1>f, <2>1, <2>3, RequestMoves
<1>12. CASE RequestDies(r)
  BY <1>12, <1>b, <1>i, SessionsClose DEF RequestDies
<1>13. ASSUME NEW j \in Jobs, ReadForStar(r, j)
       PROVE  ClaimInvariant' /\ SendingNeverCommitted'
  <2>1. /\ req[r].pc = "new" /\ jobs' = jobs /\ camps' = camps
        /\ \A q \in Requests : q # r => req'[q] = req[q]
    BY <1>13, <1>b DEF ReadForStar, ReqAt, store
  <2>2. /\ req'[r].pc = "select" /\ req'[r].op = "star"
        /\ req'[r].todo = {j} /\ req'[r].cur = None
    BY <1>13, <1>b DEF ReadForStar, Request
  <2>3. camps.live[CampaignOf[j]].status # Absent
    BY <1>13, <1>l DEF ReadForStar, Absent
  <2>4. RequestKnows(r)'
    BY <1>b, <2>1, <2>2, <2>3 DEF RequestKnows
  <2> QED
    BY <1>c, <1>f, <2>1, <2>4, RequestMoves
<1> QED
  BY <1>1, <1>2, <1>3, <1>4, <1>5, <1>6, <1>7, <1>8, <1>9, <1>10, <1>11, <1>12, <1>13
  DEF RequestStep, RequestArrives
-----------------------------------------------------------------------------
\* Cron runs write campaigns only.
LEMMA CronActKeeps ==
  ASSUME Inv, CronAct
  PROVE  ClaimInvariant' /\ SendingNeverCommitted'
<1>a. task' = task /\ req' = req
  BY DEF CronAct
<1>b. ASSUME camps' = camps PROVE CampsKept
  <2>1. "auto_resume" # Free
    BY DEF Free
  <2> QED
    BY <1>b, <2>1, EndKeepsCamps
<1>c. \A k \in Crons : k \in Sessions
  BY DEF Sessions
<1>1. ASSUME NEW k \in Crons, CommitCron(k)
      PROVE  ClaimInvariant' /\ SendingNeverCommitted'
  <2>1. k \notin Tasks /\ k \notin Requests
    BY CronsAssumption, SessionsAssumption
  <2>2. EndedTasks({k}) /\ CommitSession(k)
    BY <1>1, <1>a, <2>1 DEF EndedTasks, CommitCron
  <2> QED
    BY <1>a, <1>c, <2>1, <2>2, SessionCommits
<1>2. ASSUME NEW c \in Campaigns, AutoResume(c)
      PROVE  ClaimInvariant' /\ SendingNeverCommitted'
  <2>1. CampsKept
    BY <1>2, <1>c, UpdateKeepsCamps DEF AutoResume, CronAt, CampaignStatus
  <2> QED
    BY <1>2, <1>a, <2>1, OthersKeep DEF AutoResume
<1>3. CASE CompleteStuck
  <2>1. "stuck_sweep" \in Crons /\ cron["stuck_sweep"].cur \in Campaigns
    BY <1>3 DEF CompleteStuck, CronAt, Inv, TypeInv, CronShape
  <2>2. CampsKept
    BY <1>3, <1>c, <2>1, UpdateKeepsCamps DEF CompleteStuck, CampaignStatus
  <2> QED
    BY <1>3, <1>a, <2>2, OthersKeep DEF CompleteStuck
<1>4. ASSUME camps' = camps, jobs' = jobs
      PROVE  ClaimInvariant' /\ SendingNeverCommitted'
  BY <1>4, <1>a, <1>b, OthersKeep
<1>5. CASE \/ EnqueuePending
           \/ \E k \in Crons : StartCron(k)
           \/ \E c \in Campaigns : NotYet(c) \/ CountLive(c)
  BY <1>5, <1>4 DEF EnqueuePending, StartCron, NotYet, CountLive, store
<1> QED
  BY <1>1, <1>2, <1>3, <1>5 DEF CronAct, CronStep

\* The startup of the worker completes campaigns; it finds no SENDING job.
LEMMA StartupKeeps ==
  ASSUME Inv, WorkerStartup
  PROVE  ClaimInvariant' /\ SendingNeverCommitted'
<1> DEFINE done == [status |-> "COMPLETED", reason |-> None]
<1>1. done.status # Absent
  BY DEF Absent
<1>2. camps' = [camps EXCEPT
                  !.live = [c \in Campaigns |-> IF c \in Stuck THEN done ELSE @[c]],
                  !.next = [c \in Campaigns |-> IF c \in Stuck THEN done ELSE @[c]]]
  BY DEF WorkerStartup
<1> HIDE DEF done
<1>3. camps \in CampTable /\ \A c \in Campaigns : CampaignWritten(c)
  BY TablesOf DEF Inv, ClaimInvariant
<1>4. /\ camps'.lock = camps.lock
      /\ \A c \in Campaigns :
           /\ camps'.live[c] = IF c \in Stuck THEN done ELSE camps.live[c]
           /\ camps'.next[c] = IF c \in Stuck THEN done ELSE camps.next[c]
  BY <1>2, <1>3 DEF CampTable, Tables
<1>5. CampsKept
  BY <1>1, <1>3, <1>4 DEF CampsKept, CampaignWritten
<1>6. jobs' = jobs
  BY RecoverNothing DEF WorkerStartup
<1> QED
  BY <1>5, <1>6, OthersKeep DEF WorkerStartup

\* Before the first step no row exists and nobody holds one.
LEMMA InitClaims == Init => ClaimInvariant /\ SendingNeverCommitted
<1> SUFFICES ASSUME Init PROVE ClaimInvariant /\ SendingNeverCommitted
  OBVIOUS
<1>1. /\ \A c \in Campaigns : camps.lock[c] = Free
      /\ \A j \in Jobs : jobs.live[j] = Absent /\ jobs.next[j] = Absent /\ jobs.lock[j] = Free
  BY DEF Init, StoreInit, Committed
<1>2. \A w \in Tasks : task[w].pc = "idle"
  BY DEF Init, TaskInit, IdleTask
<1>3. \A r \in Requests : req[r].pc = "new" /\ req[r].todo = {} /\ req[r].cur = None
  BY DEF Init, RequestInit, Request
<1>4. \A j \in Jobs : j # None
  BY NoneAssumption
<1>5. \A r \in Requests : RequestKnows(r)
  BY <1>3, <1>4 DEF RequestKnows
<1>6. ASSUME NEW j \in Jobs PROVE JobInv(j)
  BY <1>1, TasksAssumption, RequestsAssumption
  DEF JobInv, JobExists, JobHolder, HeldByTask, HeldByRequest, SendingClaimed, Absent
<1> QED
  BY <1>1, <1>2, <1>5, <1>6
  DEF ClaimInvariant, SendingNeverCommitted, CampaignWritten, ClaimHeld, Absent

\* Every step keeps it.
LEMMA NextClaims == Inv /\ [Next]_vars => ClaimInvariant' /\ SendingNeverCommitted'
<1> SUFFICES ASSUME Inv, [Next]_vars PROVE ClaimInvariant' /\ SendingNeverCommitted'
  OBVIOUS
<1>a. ASSUME camps' = camps PROVE CampsKept
  <2>1. "auto_resume" # Free
    BY DEF Free
  <2> QED
    BY <1>a, <2>1, EndKeepsCamps
<1>b. /\ Tasks \cap Requests = {}
      /\ task \in [Tasks -> TaskRecords] /\ req \in [Requests -> RequestRecords]
      /\ \A k \in Crons : k \notin Tasks /\ k \notin Requests
  BY TablesOf, CronsAssumption, SessionsAssumption
  DEF Inv, TypeInv, TypeOK, TaskTypeOK, RequestTypeOK
<1>1. CASE TaskAct
  BY <1>1, TaskActKeeps
<1>2. CASE CronAct
  BY <1>2, CronActKeeps
<1>3. ASSUME NEW r \in Requests, RequestAct(r) \/ ApiCrash(r) \/ RequestFails(r)
      PROVE  ClaimInvariant' /\ SendingNeverCommitted'
  BY <1>3, RequestActKeeps DEF RequestAct, ApiCrash, RequestFails
<1>4. ASSUME NEW w \in Tasks, TaskFails(w)
      PROVE  ClaimInvariant' /\ SendingNeverCommitted'
  <2>1. CASE StatementFails(w)
    <3>1. EndedTasks({w})
      BY <1>b, <2>1 DEF StatementFails, Finish, EndedTasks
    <3>2. w \notin Requests /\ req' = req
      BY <1>4, <1>b DEF TaskFails
    <3> QED
      BY <2>1, <3>1, <3>2, SessionsClose DEF StatementFails
  <2>2. CASE CompletionFails(w)
    <3>1. /\ task[w].pc = "complete" /\ task'[w].pc = "commit"
          /\ task'[w].entry = task[w].entry
          /\ \A v \in Tasks : v # w => task'[v] = task[v]
      BY <1>b, <2>2 DEF CompletionFails, At, Goto, TaskRecords
    <3>2. jobs' = jobs /\ camps' = camps /\ req' = req
      BY <1>4, <2>2 DEF CompletionFails, store, TaskFails
    <3> QED
      BY <1>a, <3>1, <3>2, TaskMoves
  <2> QED
    BY <1>4, <2>1, <2>2 DEF TaskFails
<1>5. ASSUME NEW k \in Crons, NEW c \in Campaigns, CronFails(k, c)
      PROVE  ClaimInvariant' /\ SendingNeverCommitted'
  <2>1. task' = task /\ req' = req
    BY <1>5 DEF CronFails
  <2>2. CASE UNCHANGED store
    BY <1>a, <2>1, <2>2, OthersKeep DEF store
  <2>3. CASE CloseSessions({k})
    <3>1. EndedTasks({k})
      BY <1>b, <2>1 DEF EndedTasks
    <3> QED
      BY <1>b, <2>1, <2>3, <3>1, SessionsClose
  <2> QED
    BY <1>5, <2>2, <2>3 DEF CronFails, CronStatementFails
<1>6. CASE Clock
  BY <1>6, <1>a, OthersKeep DEF Clock, BecomeDue
<1>7. CASE WorkerCrash
  <2>1. EndedTasks(Tasks \cup Crons)
    BY <1>7 DEF WorkerCrash, EndedTasks
  <2>2. /\ CloseSessions(Tasks \cup Crons) /\ req' = req
        /\ \A q \in Requests : q \notin Tasks \cup Crons
    BY <1>7, <1>b DEF WorkerCrash
  <2> QED
    BY <2>1, <2>2, SessionsClose
<1>8. CASE WorkerStartup
  BY <1>8, StartupKeeps
<1>9. CASE UNCHANGED vars
  BY <1>9, <1>a, OthersKeep DEF vars, store
<1> QED
  BY <1>1, <1>2, <1>3, <1>4, <1>5, <1>6, <1>7, <1>8, <1>9 DEF Next, StatementFault

\* The claim invariant and the type invariant together hold in every reachable
\* state.
LEMMA InvInvariant == Spec => []Inv
<1>1. Init => Inv
  BY InitType, InitClaims DEF Inv
<1>2. Inv /\ [Next]_vars => Inv'
  BY NextType, NextClaims DEF Inv
<1> QED
  BY <1>1, <1>2, PTL DEF Spec

\* Whoever holds a job's row holds it as the claim protocol says, whatever
\* crashes, requests and faults happen.
THEOREM ClaimsCorrect == Spec => []ClaimInvariant
<1>1. Inv => ClaimInvariant
  BY DEF Inv
<1> QED
  BY <1>1, InvInvariant, PTL

\* No job is ever committed as SENDING: the claim is released by the single
\* commit at the end of send_email, or rolled back with it.
THEOREM NeverCommittedSending == Spec => []SendingNeverCommitted
<1>1. Inv => SendingNeverCommitted
  BY DEF Inv
<1> QED
  BY <1>1, InvInvariant, PTL
-----------------------------------------------------------------------------
(***************************************************************************)
(* Every mail that left is accounted for: by a SENT row, by the open       *)
(* transaction of the task that sent it, or by a record that was lost.     *)
(***************************************************************************)

\* The claim protocol and the account together are inductive.
AccInv == Inv /\ EverySendAccounted

\* What the claim invariant says of one job and its holder.
LEMMA RowFacts ==
  ASSUME Inv, NEW j \in Jobs
  PROVE  /\ jobs.lock[j] \in Tasks => jobs.live[j] = "PENDING"
         /\ \A r \in Requests : jobs.lock[j] = r =>
              \/ jobs.next[j] \in {"PENDING", jobs.live[j]}
              \/ jobs.next[j] = "CANCELLED" /\ jobs.live[j] = "PENDING"
         /\ jobs.lock[j] \in Tasks \cup Requests \cup {Free}
         /\ sends[j] \in Nat /\ orphaned[j] \in Nat
         /\ Free \notin Tasks /\ Free \notin Requests /\ Tasks \cap Requests = {}
  BY TablesOf
  DEF Inv, ClaimInvariant, JobInv, HeldByTask, HeldByRequest, JobHolder,
      TypeInv, TypeOK, StoreTypeOK

\* A step that leaves jobs and histories alone keeps the account.
LEMMA AccountStill ==
  ASSUME EverySendAccounted, jobs' = jobs, sends' = sends, orphaned' = orphaned
  PROVE  EverySendAccounted'
  BY DEF EverySendAccounted, Recorded

\* So does one written row that was not, and is not, a SENT row of a task.
LEMMA AccountRow ==
  ASSUME Inv, EverySendAccounted, NEW s \in Sessions, NEW i \in Jobs, NEW row \in JobRows,
         jobs' = Put(jobs, s, i, row), sends' = sends, orphaned' = orphaned,
         jobs.lock[i] \in Tasks => jobs.next[i] # "SENT",
         s \in Tasks => row # "SENT"
  PROVE  EverySendAccounted'
<1>1. jobs \in JobTable
  BY TablesOf DEF Inv
<1>2. /\ jobs'.live = jobs.live
      /\ jobs'.next = [jobs.next EXCEPT ![i] = row]
      /\ jobs'.lock = [jobs.lock EXCEPT ![i] = s]
  BY <1>1, PutRow DEF JobTable
<1>3. /\ jobs'.next[i] = row /\ jobs'.lock[i] = s
      /\ \A j \in Jobs : j # i => jobs'.next[j] = jobs.next[j] /\ jobs'.lock[j] = jobs.lock[j]
  BY <1>1, <1>2 DEF JobTable, Tables
<1>4. ASSUME NEW j \in Jobs PROVE Recorded(j)' = Recorded(j)
  <2>1. CASE j = i
    BY <1>2, <1>3, <2>1 DEF Recorded
  <2>2. CASE j # i
    BY <1>2, <1>3, <2>2 DEF Recorded
  <2> QED
    BY <2>1, <2>2
<1> QED
  BY <1>4 DEF EverySendAccounted

\* A commit moves a mail from the task's transaction to the SENT row, and to
\* the lost records where a stale write takes a SENT row back.
LEMMA AccountCommit ==
  ASSUME Inv, EverySendAccounted, NEW s \in Sessions, CommitSession(s)
  PROVE  EverySendAccounted'
<1>1. jobs \in JobTable
  BY TablesOf DEF Inv
<1>2. /\ jobs'.next = jobs.next
      /\ \A j \in Jobs :
           /\ jobs'.live[j] = IF jobs.lock[j] = s THEN jobs.next[j] ELSE jobs.live[j]
           /\ jobs'.lock[j] = IF jobs.lock[j] = s THEN Free ELSE jobs.lock[j]
  BY <1>1, PublishRow DEF CommitSession, JobTable
<1>3. ASSUME NEW j \in Jobs PROVE sends'[j] = Recorded(j)' + orphaned'[j]
  <2>1. sends[j] = Recorded(j) + orphaned[j] /\ sends'[j] = sends[j]
    BY DEF EverySendAccounted, CommitSession
  <2>2. orphaned'[j] = IF j \in Overwritten(s) /\ jobs.live[j] = "SENT"
                       THEN orphaned[j] + 1 ELSE orphaned[j]
    BY DEF CommitSession
  <2>3. CASE jobs.lock[j] # s
    BY <1>2, <2>1, <2>2, <2>3 DEF Overwritten, Recorded
  <2>4. CASE jobs.lock[j] = s /\ s \in Tasks
    BY <1>2, <2>1, <2>2, <2>4, RowFacts DEF Overwritten, Recorded, TERMINAL_EMAIL_STATUSES
  <2>5. CASE jobs.lock[j] = s /\ s \notin Tasks
    <3>1. s \in Requests /\ s # Free
      BY <2>5, RowFacts, CronsAssumption DEF Sessions, Free
    <3>2. Recorded(j) = IF jobs.live[j] = "SENT" THEN 1 ELSE 0
      BY <2>5 DEF Recorded
    <3>3. Recorded(j)' = IF jobs.next[j] = "SENT" THEN 1 ELSE 0
      BY <1>2, <2>5, RowFacts DEF Recorded
    <3>4. \/ jobs.next[j] \in {"PENDING", jobs.live[j]}
          \/ jobs.next[j] = "CANCELLED" /\ jobs.live[j] = "PENDING"
      BY <2>5, <3>1, RowFacts
    <3> QED
      BY <2>1, <2>2, <2>5, <3>2, <3>3, <3>4, RowFacts DEF Overwritten, TERMINAL_EMAIL_STATUSES
  <2> QED
    BY <2>3, <2>4, <2>5
<1> QED
  BY <1>3 DEF EverySendAccounted

\* A rollback moves a mail from the task's transaction to the lost records.
LEMMA AccountClose ==
  ASSUME Inv, EverySendAccounted, NEW E, Free \notin E, CloseSessions(E)
  PROVE  EverySendAccounted'
<1>1. jobs \in JobTable
  BY TablesOf DEF Inv
<1>2. /\ jobs'.live = jobs.live
      /\ \A j \in Jobs :
           /\ jobs'.next[j] = IF jobs.lock[j] \in E THEN jobs.live[j] ELSE jobs.next[j]
           /\ jobs'.lock[j] = IF jobs.lock[j] \in E THEN Free ELSE jobs.lock[j]
  BY <1>1, DiscardRow DEF CloseSessions, JobTable
<1>3. ASSUME NEW j \in Jobs PROVE sends'[j] = Recorded(j)' + orphaned'[j]
  <2>1. sends[j] = Recorded(j) + orphaned[j] /\ sends'[j] = sends[j]
    BY DEF EverySendAccounted, CloseSessions
  <2>2. orphaned'[j] = IF jobs.lock[j] \in E /\ jobs.next[j] = "SENT" /\ jobs.live[j] # "SENT"
                       THEN orphaned[j] + 1 ELSE orphaned[j]
    BY DEF CloseSessions
  <2>3. CASE jobs.lock[j] \notin E
    BY <1>2, <2>1, <2>2, <2>3 DEF Recorded
  <2>4. CASE jobs.lock[j] \in E /\ jobs.lock[j] \in Tasks
    BY <1>2, <2>1, <2>2, <2>4, RowFacts DEF Recorded
  <2>5. CASE jobs.lock[j] \in E /\ jobs.lock[j] \notin Tasks
    <3>1. Recorded(j) = Recorded(j)'
      BY <1>2, <2>5, RowFacts DEF Recorded
    <3>2. jobs.lock[j] \in Requests
      BY <2>5, RowFacts
    <3> QED
      BY <2>1, <2>2, <3>1, <3>2, RowFacts
  <2> QED
    BY <2>3, <2>4, <2>5
<1> QED
  BY <1>3 DEF EverySendAccounted
-----------------------------------------------------------------------------
\* A task hands a mail over only under its claim, and writes SENT with it.
LEMMA AccountTask ==
  ASSUME Inv, EverySendAccounted, NEW w \in Tasks, TaskStep(w)
  PROVE  EverySendAccounted'
<1>a. /\ \A j \in Jobs : JobInv(j)
      /\ ClaimHeld(w)
  BY DEF Inv, ClaimInvariant
<1>b. ~At(w, "idle")
  BY DEF TaskStep, ReadCampaign, claim_pending, StartCampaign, Reject, Postpone,
       Exhaust, PauseExhausted, SmtpAccepts, SmtpRefuses, CheckCompletion,
       CompleteCampaign, CommitTask, RecordFails, At
<1>c. JobAt(w) \in Jobs /\ w \in Sessions
  BY <1>b, TaskJob DEF Inv
<1>d. ASSUME At(w, "limits")
      PROVE  /\ jobs.lock[JobAt(w)] = w /\ jobs.next[JobAt(w)] = "SENDING"
             /\ jobs.live[JobAt(w)] = "PENDING" /\ View(jobs, w, JobAt(w)) = "SENDING"
  BY <1>a, <1>c, <1>d DEF At, ClaimHeld, JobInv, HeldByTask, View
<1>e. ASSUME NEW row \in EmailStatus, row # "SENT", jobs' = Put(jobs, w, JobAt(w), row),
             jobs.lock[JobAt(w)] \in Tasks => jobs.next[JobAt(w)] # "SENT",
             sends' = sends, orphaned' = orphaned
      PROVE  EverySendAccounted'
  BY <1>c, <1>e, AccountRow DEF JobRows
<1>1. CASE claim_pending(w)
  <2>1. CASE View(jobs, w, JobAt(w)) = "PENDING"
    <3>1. jobs.lock[JobAt(w)] \notin Tasks
      BY <1>a, <1>c, <1>1, <2>1, RowFacts
      DEF claim_pending, set_status_if, Locked, At, JobInv, HeldByTask
    <3> QED
      BY <1>1, <1>e, <2>1, <3>1 DEF claim_pending, set_status_if, EmailStatus
  <2>2. CASE View(jobs, w, JobAt(w)) # "PENDING"
    BY <1>1, <2>2, AccountStill DEF claim_pending, set_status_if
  <2> QED
    BY <2>1, <2>2
<1>2. CASE Reject(w)
  BY <1>2, <1>d, <1>e DEF Reject, SetJob, EmailStatus
<1>3. CASE Postpone(w)
  BY <1>3, <1>d, <1>e DEF Postpone, set_status_if, EmailStatus
<1>4. CASE Exhaust(w)
  BY <1>4, <1>d, <1>e DEF Exhaust, set_status_if, EmailStatus
<1>5. CASE SmtpRefuses(w)
  BY <1>5, <1>d, <1>e DEF SmtpRefuses, SetJob, EmailStatus
<1>6. CASE SmtpAccepts(w)
  <2>1. PICK i \in Jobs : i = JobAt(w)
    BY <1>c
  <2>2. jobs.lock[i] = w /\ jobs.next[i] = "SENDING" /\ jobs.live[i] = "PENDING"
    BY <1>6, <1>d, <2>1 DEF SmtpAccepts
  <2>3. jobs' = Put(jobs, w, i, "SENT") /\ orphaned' = orphaned
        /\ sends' = [sends EXCEPT ![i] = @ + 1]
    BY <1>6, <1>d, <2>1 DEF SmtpAccepts, SetJob
  <2>4. jobs \in JobTable /\ sends \in [Jobs -> Nat] /\ orphaned \in [Jobs -> Nat]
    BY TablesOf DEF Inv, TypeInv, TypeOK, StoreTypeOK
  <2>5. /\ jobs'.live = jobs.live
        /\ jobs'.next = [jobs.next EXCEPT ![i] = "SENT"]
        /\ jobs'.lock = [jobs.lock EXCEPT ![i] = w]
    BY <2>3 DEF Put
  <2>6. /\ jobs'.next[i] = "SENT" /\ jobs'.lock[i] = w
        /\ \A j \in Jobs : j # i => jobs'.next[j] = jobs.next[j] /\ jobs'.lock[j] = jobs.lock[j]
    BY <2>4, <2>5 DEF JobTable, Tables
  <2>7. Recorded(i) = 0 /\ Recorded(i)' = 1
    BY <2>2, <2>5, <2>6 DEF Recorded
  <2>8. \A j \in Jobs : j # i => Recorded(j)' = Recorded(j)
    BY <2>5, <2>6 DEF Recorded
  <2> QED
    BY <2>3, <2>4, <2>7, <2>8 DEF EverySendAccounted
<1>7. CASE CommitTask(w)
  BY <1>7, <1>c, AccountCommit DEF CommitTask
<1>8. CASE RecordFails(w)
  <2>1. Free \notin {w}
    BY TablesOf DEF Inv
  <2> QED
    BY <1>8, <2>1, AccountClose DEF RecordFails
<1>9. CASE \/ ReadCampaign(w) \/ StartCampaign(w) \/ PauseExhausted(w)
           \/ CheckCompletion(w) \/ CompleteCampaign(w)
  BY <1>9, AccountStill
  DEF ReadCampaign, StartCampaign, PauseExhausted, CheckCompletion, CompleteCampaign, store
<1> QED
  BY <1>1, <1>2, <1>3, <1>4, <1>5, <1>6, <1>7, <1>8, <1>9 DEF TaskStep

\* A request never touches a row a task holds, and never writes SENT of its own.
LEMMA AccountRequest ==
  ASSUME Inv, EverySendAccounted, NEW r \in Requests,
         RequestStep(r) \/ RequestArrives(r) \/ RequestDies(r)
  PROVE  EverySendAccounted'
<1>a. /\ \A j \in Jobs : JobInv(j)
      /\ r \in Sessions /\ r \notin Tasks /\ Free \notin Tasks /\ Free \notin {r}
      /\ jobs \in JobTable
  BY TablesOf DEF Inv, ClaimInvariant, Sessions
<1>b. ASSUME NEW j \in Jobs, ~Locked(jobs, r, j) PROVE jobs.lock[j] \notin Tasks
  BY <1>a, <1>b DEF Locked
<1>1. ASSUME NEW c \in Campaigns, create(r, c) PROVE EverySendAccounted'
  <2>1. \A j \in JobsOf(c) : j \in Jobs /\ jobs.live[j] = Absent /\ jobs.lock[j] = Free
    BY <1>1, <1>a DEF create, JobInv, JobExists, JobsOf
  <2>2. /\ jobs'.lock = jobs.lock
        /\ \A j \in Jobs : jobs'.live[j] = IF j \in JobsOf(c) THEN "PENDING" ELSE jobs.live[j]
        /\ \A j \in Jobs : jobs'.next[j] = IF j \in JobsOf(c) THEN "PENDING" ELSE jobs.next[j]
    BY <1>1, <1>a DEF create, JobTable, Tables
  <2>3. \A j \in Jobs : Recorded(j)' = Recorded(j)
    BY <1>a, <2>1, <2>2 DEF Recorded, Absent
  <2> QED
    BY <1>1, <2>3 DEF EverySendAccounted, create
<1>2. CASE UpdateRow(r)
  <2> DEFINE i == req[r].cur
             row == IF req[r].row # "PENDING" THEN "PENDING" ELSE View(jobs, r, i)
  <2>1. i \in Jobs /\ ~Locked(jobs, r, i) /\ jobs' = Put(jobs, r, i, row)
        /\ sends' = sends /\ orphaned' = orphaned
    BY <1>2 DEF UpdateRow, ReqAt, Inv, TypeInv, RequestShape
  <2>2. row \in JobRows
    BY <1>a, <2>1, ViewRow DEF JobTable, JobRows, EmailStatus
  <2> HIDE DEF i, row
  <2> QED
    BY <1>a, <1>b, <2>1, <2>2, AccountRow
<1>3. ASSUME NEW j \in Jobs, CancelRow(r, j) PROVE EverySendAccounted'
  <2>1. "CANCELLED" \in JobRows
    BY DEF JobRows, EmailStatus
  <2>2. CASE View(jobs, r, j) = "PENDING"
    BY <1>3, <1>a, <1>b, <2>1, <2>2, AccountRow DEF CancelRow, set_status_if
  <2>3. CASE View(jobs, r, j) # "PENDING"
    BY <1>3, <2>3, AccountStill DEF CancelRow, set_status_if
  <2> QED
    BY <2>2, <2>3
<1>4. CASE WriteStatus(r)
  <2>1. CASE CloseSessions({r})
    BY <1>a, <2>1, AccountClose
  <2>2. CASE UNCHANGED <<jobs, orphaned, due, sends, reverted>>
    BY <2>2, AccountStill
  <2> QED
    BY <1>4, <2>1, <2>2 DEF WriteStatus
<1>5. CASE CommitRequest(r)
  BY <1>5, <1>a, AccountCommit DEF CommitRequest
<1>6. CASE RequestDies(r)
  BY <1>6, <1>a, AccountClose DEF RequestDies
<1>7. CASE \/ ListJobs(r) \/ SnapshotPending(r)
           \/ \E j \in Jobs : ReadForStar(r, j) \/ SelectRow(r, j) \/ EnqueuePlanned(r, j)
           \/ \E c \in Campaigns : ReadForResume(r, c) \/ \E op \in ApiOps : ReadForChange(r, op, c)
  BY <1>7, AccountStill
  DEF ListJobs, SnapshotPending, SelectRow, EnqueuePlanned, ReadForStar, ReadForResume,
      ReadForChange, store
<1> QED
  BY <1>1, <1>2, <1>3, <1>4, <1>5, <1>6, <1>7 DEF RequestStep, RequestArrives

\* Every step keeps the account.
LEMMA NextAccount == AccInv /\ [Next]_vars => EverySendAccounted'
<1> SUFFICES ASSUME Inv, EverySendAccounted, [Next]_vars PROVE EverySendAccounted'
  BY DEF AccInv
<1>a. /\ Free \notin Tasks /\ Free \notin Crons /\ \A w \in Tasks : Free \notin {w}
      /\ \A k \in Crons : k \in Sessions
  BY TablesOf, CronsAssumption DEF Inv, Free, Sessions
<1>1. CASE TaskAct
  BY <1>1, AccountTask, AccountStill DEF TaskAct, TaskNext, Start
<1>2. CASE CronAct
  BY <1>2, <1>a, AccountCommit, AccountStill
  DEF CronAct, CronStep, StartCron, CommitCron, NotYet, AutoResume, CountLive,
      EnqueuePending, CompleteStuck, store
<1>3. ASSUME NEW r \in Requests, RequestAct(r) \/ ApiCrash(r) \/ RequestFails(r)
      PROVE  EverySendAccounted'
  BY <1>3, AccountRequest DEF RequestAct, ApiCrash, RequestFails
<1>4. ASSUME NEW w \in Tasks, TaskFails(w) PROVE EverySendAccounted'
  BY <1>4, <1>a, AccountClose, AccountStill
  DEF TaskFails, StatementFails, CompletionFails, store
<1>5. ASSUME NEW k \in Crons, NEW c \in Campaigns, CronFails(k, c)
      PROVE  EverySendAccounted'
  BY <1>5, <1>a, AccountClose, AccountStill DEF CronFails, CronStatementFails, store
<1>6. CASE Clock
  BY <1>6, AccountStill DEF Clock, BecomeDue
<1>7. CASE WorkerCrash
  BY <1>7, <1>a, AccountClose DEF WorkerCrash
<1>8. CASE WorkerStartup
  BY <1>8, RecoverNothing, AccountStill DEF WorkerStartup
<1>9. CASE UNCHANGED vars
  BY <1>9, AccountStill DEF vars, store
<1> QED
  BY <1>1, <1>2, <1>3, <1>4, <1>5, <1>6, <1>7, <1>8, <1>9 DEF Next, StatementFault

\* For every job, the mails that left are its SENT row, or the one in its
\* task's open transaction, and those whose record was lost: nothing else ever
\* sends, and a SENT row always stands for a mail.
THEOREM SendsAccounted == Spec => []EverySendAccounted
<1>1. Init => AccInv
  <2>1. Init => EverySendAccounted
    BY TasksAssumption
    DEF Init, StoreInit, Committed, EverySendAccounted, Recorded, Absent
  <2> QED
    BY <2>1, InitType, InitClaims DEF AccInv, Inv
<1>2. AccInv /\ [Next]_vars => AccInv'
  BY NextType, NextClaims, NextAccount DEF AccInv, Inv
<1>3. AccInv => EverySendAccounted
  BY DEF AccInv
<1> QED
  BY <1>1, <1>2, <1>3, PTL DEF Spec
-----------------------------------------------------------------------------
(***************************************************************************)
(* A second mail needs a lost record.  Records are lost when a process or  *)
(* a statement fails between the hand-over and the commit, and when a      *)
(* resume or a star writes PENDING over a SENT row.  Without either,       *)
(* nothing is lost.                                                        *)
(***************************************************************************)

\* Only a resume or a star writes back a row that somebody has finished.
LEMMA NoneOverwritten ==
  ASSUME Inv, ApiOps \cap {"resume", "star"} = {}, NEW s \in Sessions
  PROVE  Overwritten(s) = {}
<1> SUFFICES ASSUME NEW j \in Jobs, jobs.lock[j] = s,
                    jobs.live[j] \in TERMINAL_EMAIL_STATUSES, jobs.next[j] = "PENDING"
             PROVE  FALSE
  BY DEF Overwritten
<1>1. JobInv(j) /\ s # Free
  BY TablesOf, CronsAssumption DEF Inv, ClaimInvariant, Sessions, Free
<1>2. s \in Requests
  BY <1>1 DEF JobInv, JobHolder, HeldByTask, TERMINAL_EMAIL_STATUSES
<1>3. req[s].pc \in {"select", "update", "write", "snapshot", "cancelling", "commit"}
  BY <1>1, <1>2
  DEF JobInv, HeldByRequest, Inv, TypeInv, TypeOK, RequestTypeOK, RequestRecords, RequestPcs
<1>4. req[s].op = "cancel"
  BY <1>1, <1>2, <1>3 DEF JobInv, HeldByRequest, Inv, TypeInv, RequestShape
<1> QED
  BY <1>1, <1>2, <1>4 DEF JobInv, HeldByRequest, TERMINAL_EMAIL_STATUSES

\* What a step adds to the histories of what was lost.
LEMMA NextLost ==
  ASSUME Inv, [Next]_vars
  PROVE  \/ reverted' = reverted /\ orphaned' = orphaned
         \/ \E s \in Sessions : CommitSession(s)
         \/ \E r \in Requests : CloseSessions({r})
         \/ WorkerCrash /\ reverted' = reverted
         \/ Faults \cap {"lock", "deadlock", "record"} # {} /\ reverted' = reverted
<1>a. \A s : s \in Tasks \/ s \in Requests \/ s \in Crons => s \in Sessions
  BY DEF Sessions
<1>1. CASE TaskAct
  BY <1>1, <1>a
  DEF TaskAct, TaskNext, TaskStep, Start, ReadCampaign, claim_pending, StartCampaign, Reject,
      Postpone, Exhaust, PauseExhausted, SmtpAccepts, SmtpRefuses, CheckCompletion,
      CompleteCampaign, CommitTask, RecordFails, CloseSessions, store
<1>2. CASE CronAct
  BY <1>2, <1>a
  DEF CronAct, CronStep, StartCron, CommitCron, NotYet, AutoResume, CountLive,
      EnqueuePending, CompleteStuck, store
<1>3. ASSUME NEW r \in Requests, RequestAct(r) \/ ApiCrash(r) \/ RequestFails(r)
      PROVE  \/ reverted' = reverted /\ orphaned' = orphaned
             \/ \E s \in Sessions : CommitSession(s)
             \/ CloseSessions({r})
  BY <1>3, <1>a
  DEF RequestAct, ApiCrash, RequestFails, RequestStep, RequestArrives, RequestDies, ListJobs,
      UpdateRow, WriteStatus, SnapshotPending, CommitRequest, SelectRow, CancelRow,
      EnqueuePlanned, ReadForStar, create, ReadForResume, ReadForChange, store
<1>4. CASE \/ \E w \in Tasks : TaskFails(w)
           \/ \E k \in Crons, c \in Campaigns : CronFails(k, c)
           \/ WorkerCrash
  BY <1>4
  DEF TaskFails, MayFail, StatementFails, CompletionFails, CronFails, CronStatementFails,
      WorkerCrash, MayCrash, CloseSessions, store
<1>5. CASE Clock \/ WorkerStartup \/ UNCHANGED vars
  BY <1>5 DEF Clock, BecomeDue, WorkerStartup, vars, store
<1> QED
  BY <1>1, <1>2, <1>3, <1>4, <1>5 DEF Next, StatementFault

\* As long as nobody resumes or stars, no finished job is written back to PENDING,
\* whatever fails.
THEOREM NothingReverted ==
  ASSUME ApiOps \cap {"resume", "star"} = {}
  PROVE  Spec => [](reverted = {})
<1> DEFINE Untouched == reverted = {}
<1>1. Init => Untouched
  BY DEF Init, StoreInit
<1>2. Inv /\ Untouched /\ [Next]_vars => Untouched'
  <2> SUFFICES ASSUME Inv, reverted = {}, [Next]_vars PROVE reverted' = {}
    OBVIOUS
  <2>1. ASSUME NEW s \in Sessions, CommitSession(s) PROVE reverted' = {}
    BY <2>1, NoneOverwritten DEF CommitSession
  <2>2. ASSUME NEW r \in Requests, CloseSessions({r}) PROVE reverted' = {}
    BY <2>2 DEF CloseSessions
  <2> QED
    BY <2>1, <2>2, NextLost
<1> QED
  BY <1>1, <1>2, InvInvariant, PTL DEF Spec

\* Every death of a process is counted.
LEMMA CrashesGrow ==
  ASSUME TypeInv, [Next]_vars
  PROVE  /\ crashes \in Nat /\ crashes' \in {crashes, crashes + 1}
         /\ WorkerCrash => crashes' = crashes + 1
<1>1. crashes \in Nat
  BY MaxCrashesAssumption DEF TypeInv, TypeOK
<1>2. crashes' \in {crashes, crashes + 1}
  BY DEF Next, TaskAct, CronAct, RequestAct, ApiCrash, MayCrash, StatementFault, TaskFails,
         RequestFails, CronFails, Clock, WorkerCrash, WorkerStartup, vars
<1>3. WorkerCrash => crashes' = crashes + 1
  BY DEF WorkerCrash, MayCrash
<1> QED
  BY <1>1, <1>2, <1>3

\* A job is mailed once, and once more at most for every time a process has died.
SentAgain == \A j \in Jobs : sends[j] <= 1 + crashes

\* What the redelivery of arq costs: where processes die, and nobody resumes or stars, a
\* job is mailed at most once more than processes have died (WorkerSettings.max_tries
\* and the commit at the end of send_email); tasks that run side by side, and calls
\* that auto-resume queues twice, cost nothing.
THEOREM SentAgainHolds ==
  ASSUME ApiOps \cap {"resume", "star"} = {}, Faults \subseteq {"crash"}
  PROVE  Spec => []SentAgain
<1> DEFINE FewLost == \A j \in Jobs : orphaned[j] \in Nat /\ orphaned[j] <= crashes
<1>1. Init => FewLost
  BY DEF Init, StoreInit
<1>2. Inv /\ FewLost /\ [Next]_vars => FewLost'
  <2> SUFFICES ASSUME Inv, FewLost, [Next]_vars PROVE FewLost'
    OBVIOUS
  <2>1. /\ crashes \in Nat /\ crashes' \in {crashes, crashes + 1}
        /\ WorkerCrash => crashes' = crashes + 1
    BY CrashesGrow DEF Inv
  <2>2. ASSUME orphaned' = orphaned PROVE FewLost'
    BY <2>1, <2>2
  <2>3. ASSUME NEW s \in Sessions, CommitSession(s) PROVE FewLost'
    <3>1. \A j \in Jobs : orphaned'[j] = orphaned[j]
      BY <2>3, NoneOverwritten DEF CommitSession
    <3> QED
      BY <2>1, <3>1
  <2>4. ASSUME NEW r \in Requests, CloseSessions({r}) PROVE FewLost'
    <3>1. \A j \in Jobs : jobs.lock[j] = r /\ jobs.next[j] = "SENT" => jobs.live[j] = "SENT"
      BY RowFacts
    <3>2. \A j \in Jobs : orphaned'[j] = orphaned[j]
      BY <2>4, <3>1 DEF CloseSessions
    <3> QED
      BY <2>1, <3>2
  <2>5. CASE WorkerCrash
    <3>1. \A j \in Jobs : orphaned'[j] \in {orphaned[j], orphaned[j] + 1}
      BY <2>5 DEF WorkerCrash, CloseSessions
    <3> QED
      BY <2>1, <2>5, <3>1
  <2> QED
    BY <2>2, <2>3, <2>4, <2>5, NextLost
<1>3. EverySendAccounted /\ FewLost /\ Inv => SentAgain
  <2> SUFFICES ASSUME EverySendAccounted, FewLost, Inv, NEW j \in Jobs
               PROVE  sends[j] <= 1 + crashes
    BY DEF SentAgain
  <2>1. crashes \in Nat
    BY MaxCrashesAssumption DEF Inv, TypeInv, TypeOK
  <2>2. Recorded(j) \in {0, 1}
    BY DEF Recorded
  <2>3. sends[j] = Recorded(j) + orphaned[j]
    BY DEF EverySendAccounted
  <2> QED
    BY <2>1, <2>2, <2>3
<1> HIDE DEF FewLost
<1> QED
  BY <1>1, <1>2, <1>3, InvInvariant, SendsAccounted, PTL DEF Spec

\* At most one mail per recipient, when nothing fails and nobody resumes or stars:
\* the claim is UPDATE ... WHERE status = 'PENDING', and its release, the hand-over
\* and the SENT row share one commit.  The run double_send shows that the resume
\* is what breaks it.
THEOREM NoDoubleSendHolds ==
  ASSUME ApiOps \cap {"resume", "star"} = {}, Faults = {}
  PROVE  Spec => []NoDoubleSend
<1> DEFINE NothingLost == orphaned = [j \in Jobs |-> 0]
<1>1. Init => NothingLost
  BY DEF Init, StoreInit
<1>2. Inv /\ NothingLost /\ [Next]_vars => NothingLost'
  <2> SUFFICES ASSUME Inv, NothingLost, [Next]_vars PROVE NothingLost'
    OBVIOUS
  <2>1. ASSUME NEW s \in Sessions, CommitSession(s) PROVE NothingLost'
    BY <2>1, NoneOverwritten DEF CommitSession
  <2>2. ASSUME NEW r \in Requests, CloseSessions({r}) PROVE NothingLost'
    <3>1. \A j \in Jobs : jobs.lock[j] = r /\ jobs.next[j] = "SENT" => jobs.live[j] = "SENT"
      BY RowFacts
    <3> QED
      BY <2>2, <3>1 DEF CloseSessions
  <2>3. ~WorkerCrash
    BY DEF WorkerCrash, MayCrash
  <2> QED
    BY <2>1, <2>2, <2>3, NextLost
<1>3. EverySendAccounted /\ NothingLost => NoDoubleSend
  BY DEF EverySendAccounted, Recorded, NoDoubleSend
<1> HIDE DEF NothingLost
<1> QED
  BY <1>1, <1>2, <1>3, InvInvariant, SendsAccounted, PTL DEF Spec
=============================================================================
