-------------------------- MODULE CampaignRequests --------------------------
(***************************************************************************)
(* The requests of the API process that change a campaign                  *)
(* (application/campaigns.py behind api/routes/campaigns.py): create,      *)
(* pause, resume and cancel, and star (toggle_star of emails.py), which is *)
(* about one mail but writes its whole row.  Each request has one session, *)
(* committed when the service returns and closed without a commit on an    *)
(* exception; create and resume enqueue their sends after the commit.      *)
(***************************************************************************)
EXTENDS MailStore

CONSTANTS
  Requests,  \* the requests that will be made
  ApiOps     \* the operations they may ask for

ASSUME RequestsAssumption == Free \notin Requests
ASSUME ApiOpsAssumption == ApiOps \subseteq {"create", "pause", "resume", "cancel", "star"}

VARIABLES
  req   \* req[r]: the operation, where it is, what it read and what it will enqueue

RequestPcs == {"new", "list", "select", "update", "write", "snapshot", "cancelling",
               "commit", "enqueue", "done"}

RequestRecords ==
  [op : ApiOps \cup {None}, pc : RequestPcs, camp : Campaigns \cup {None},
   seen : CampaignStatus \cup {None}, target : CampaignStatus \cup {None},
   todo : SUBSET Jobs, row : JobRows \cup {None}, cur : Jobs \cup {None},
   plan : SUBSET Jobs]

Request(pc) ==
  [op |-> None, pc |-> pc, camp |-> None, seen |-> None, target |-> None,
   todo |-> {}, row |-> None, cur |-> None, plan |-> {}]

RequestInit == req = [r \in Requests |-> Request("new")]

ReqAt(r, pc) == req[r].pc = pc

\* A request that is answered keeps nothing.
Answered == Request("done")

(***************************************************************************)
(* create inserts the campaign with its jobs and commits.  Nobody can see  *)
(* the rows before, so the transaction is one step; the queue is filled    *)
(* afterwards, one job at a time.                                          *)
(***************************************************************************)
create(r, c) ==
  /\ ReqAt(r, "new") /\ "create" \in ApiOps
  /\ camps.live[c].status = Absent
  /\ LET row == [status |-> "SCHEDULED", reason |-> None] IN
     camps' = [camps EXCEPT !.live = [@ EXCEPT ![c] = row], !.next = [@ EXCEPT ![c] = row]]
  /\ LET Insert(f) == [j \in Jobs |-> IF j \in JobsOf(c) THEN "PENDING" ELSE f[j]] IN
     jobs' = [jobs EXCEPT !.live = Insert(@), !.next = Insert(@)]
  /\ req' = [req EXCEPT ![r] =
       [Request("enqueue") EXCEPT !.op = "create", !.camp = c, !.plan = JobsOf(c)]]
  /\ UNCHANGED <<queue, due, sends, orphaned, reverted>>

TargetOf(op) == IF op = "pause" THEN "PAUSED" ELSE "CANCELLED"

\* pause and cancel read the campaign and check the transition.
ReadForChange(r, op, c) ==
  /\ ReqAt(r, "new") /\ op \in ApiOps \cap {"pause", "cancel"}
  /\ LET status == StatusOf(r, c) IN
     /\ status # Absent
     /\ req' = [req EXCEPT ![r] =
          IF is_valid_transition(status, TargetOf(op))
          THEN [Request("write") EXCEPT
                  !.op = op, !.camp = c, !.seen = status, !.target = TargetOf(op)]
          ELSE Answered]
  /\ UNCHANGED store

\* resume reads the campaign.
ReadForResume(r, c) ==
  /\ ReqAt(r, "new") /\ "resume" \in ApiOps
  /\ StatusOf(r, c) # Absent
  /\ req' = [req EXCEPT ![r] =
       IF StatusOf(r, c) = "PAUSED"
       THEN [Request("list") EXCEPT !.op = "resume", !.camp = c, !.seen = "PAUSED"]
       ELSE Answered]
  /\ UNCHANGED store

\* toggle_star reads a job.  It writes the status it has read; for a job that
\* is not PENDING any more that changes nothing, and is left out.
ReadForStar(r, j) ==
  /\ ReqAt(r, "new") /\ "star" \in ApiOps
  /\ View(jobs, r, j) = "PENDING"
  /\ req' = [req EXCEPT ![r] =
       [Request("select") EXCEPT !.op = "star", !.camp = CampaignOf[j], !.todo = {j}]]
  /\ UNCHANGED store

\* resume lists the campaign's jobs: none to send completes the campaign, and
\* the overdue ones are rescheduled and will be enqueued.
ListJobs(r) ==
  /\ ReqAt(r, "list")
  /\ LET c == req[r].camp
         pending == JobsIn(r, c, {"PENDING"})
         sending == JobsIn(r, c, {"SENDING"})
         overdue == {j \in pending : due[j]}
     IN req' = [req EXCEPT ![r] =
          [@ EXCEPT !.target = IF pending \cup sending = {} THEN "COMPLETED" ELSE "SENDING",
                    !.pc = IF overdue = {} THEN "write" ELSE "select",
                    !.todo = overdue, !.plan = overdue]]
  /\ UNCHANGED store

\* email_job_repo.update(job) reads the row afresh ...
SelectRow(r, j) ==
  /\ ReqAt(r, "select") /\ j \in req[r].todo
  /\ req' = [req EXCEPT ![r] =
       [@ EXCEPT !.pc = "update", !.cur = j, !.row = View(jobs, r, j)]]
  /\ UNCHANGED store

\* ... and writes the columns in which the listed entity, PENDING, differs from
\* that row: scheduled_at always, the status only if it changed in between.
UpdateRow(r) ==
  /\ ReqAt(r, "update")
  /\ LET j == req[r].cur
         rest == req[r].todo \ {j}
     IN /\ ~Locked(jobs, r, j)
        /\ jobs' = Put(jobs, r, j,
             IF req[r].row # "PENDING" THEN "PENDING" ELSE View(jobs, r, j))
        /\ req' = [req EXCEPT ![r] =
             [@ EXCEPT !.pc = IF rest # {} THEN "select"
                              ELSE IF req[r].op = "star" THEN "commit" ELSE "write",
                       !.todo = rest, !.cur = None, !.row = None]]
  /\ UNCHANGED <<camps, queue, due, sends, orphaned, reverted>>

\* update_status_if with the status the request read.  A row that has changed
\* is a Conflict; for the completion inside resume it is ignored, and nothing
\* was written.
WriteStatus(r) ==
  /\ ReqAt(r, "write")
  /\ LET c == req[r].camp
         matches == StatusOf(r, c) = req[r].seen
     IN \/ /\ matches
           /\ update_status_if(r, c, req[r].seen, req[r].target, None)
           /\ req' = [req EXCEPT ![r] =
                [@ EXCEPT !.pc = IF req[r].op = "cancel" THEN "snapshot" ELSE "commit"]]
           /\ UNCHANGED <<jobs, orphaned, due, sends, reverted>>
        \/ /\ ~matches
           /\ CloseSessions({r})
           /\ req' = [req EXCEPT ![r] = Answered]
  /\ UNCHANGED queue

SnapshotPending_unlocked(r) ==  \* mutant: skips rows another session holds
  /\ ReqAt(r, "snapshot")
  /\ LET pending == {j \in JobsIn(r, req[r].camp, {"PENDING"}) : ~Locked(jobs, r, j)} IN
     req' = [req EXCEPT ![r] =
       [@ EXCEPT !.todo = pending, !.pc = IF pending = {} THEN "commit" ELSE "cancelling"]]
  /\ UNCHANGED store

\* cancel_pending is one UPDATE: it finds its rows when it starts ...
SnapshotPending(r) ==
  /\ ReqAt(r, "snapshot")
  /\ LET pending == JobsIn(r, req[r].camp, {"PENDING"}) IN
     req' = [req EXCEPT ![r] =
       [@ EXCEPT !.todo = pending, !.pc = IF pending = {} THEN "commit" ELSE "cancelling"]]
  /\ UNCHANGED store

\* ... and takes them one by one, waiting for each and looking at it again.
CancelRow(r, j) ==
  /\ ReqAt(r, "cancelling") /\ j \in req[r].todo
  /\ set_status_if(r, j, "PENDING", "CANCELLED")
  /\ LET rest == req[r].todo \ {j} IN
     req' = [req EXCEPT ![r] =
       [@ EXCEPT !.todo = rest, !.pc = IF rest = {} THEN "commit" ELSE "cancelling"]]
  /\ UNCHANGED <<camps, queue, due, sends, orphaned, reverted>>

CommitRequest(r) ==
  /\ ReqAt(r, "commit")
  /\ CommitSession(r)
  /\ req' = [req EXCEPT ![r] =
       IF @.op = "resume" /\ @.target = "SENDING" /\ @.plan # {}
       THEN [@ EXCEPT !.pc = "enqueue", !.seen = None, !.target = None]
       ELSE Answered]
  /\ UNCHANGED queue

\* The route's loop over enqueue_plan, after the commit.
EnqueuePlanned(r, j) ==
  /\ ReqAt(r, "enqueue") /\ j \in req[r].plan
  /\ queue' = EnqueueAt(j)
  /\ req' = [req EXCEPT ![r] =
       IF req[r].plan = {j} THEN Answered ELSE [@ EXCEPT !.plan = req[r].plan \ {j}]]
  /\ UNCHANGED <<camps, jobs, due, sends, orphaned, reverted>>
-----------------------------------------------------------------------------
\* The sessions that hold a row the UPDATE of request r needs.
RequestWaitsFor(r) ==
  CASE ReqAt(r, "write") /\ StatusOf(r, req[r].camp) = req[r].seen ->
         Holder(camps, r, req[r].camp)
    [] ReqAt(r, "update") -> Holder(jobs, r, req[r].cur)
    [] ReqAt(r, "cancelling") ->
         UNION {Holder(jobs, r, j) : j \in JobsIn(r, req[r].camp, {"PENDING"}) \cap req[r].todo}
    [] OTHER -> {}

\* A waiting statement fails, or the API process dies: the session closes
\* without a commit, and what was not enqueued yet never is.
RequestDies(r) ==
  /\ CloseSessions({r})
  /\ req' = [req EXCEPT ![r] = Answered]
  /\ UNCHANGED queue

RequestStep(r) ==
  \/ ListJobs(r)
  \/ UpdateRow(r)
  \/ WriteStatus(r)
  \/ SnapshotPending(r)
  \/ CommitRequest(r)
  \/ \E j \in Jobs : SelectRow(r, j) \/ CancelRow(r, j) \/ EnqueuePlanned(r, j)

RequestArrives(r) ==
  \/ \E j \in Jobs : ReadForStar(r, j)
  \/ \E c \in Campaigns :
    \/ create(r, c)
    \/ ReadForResume(r, c)
    \/ \E op \in ApiOps : ReadForChange(r, op, c)

RequestTypeOK == req \in [Requests -> RequestRecords]
=============================================================================
