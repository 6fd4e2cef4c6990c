-------------------------- MODULE FollowUps_proofs --------------------------
(***************************************************************************)
(* Theorems about the follow-up sequences, for every number of recipients, *)
(* steps, runs, tasks and requests: what the tables hold, what a cancel    *)
(* leaves to be sent, that the recipient's row and the jobs agree, when a  *)
(* campaign is completed and what is mailed, all but the first two for a   *)
(* recipient none of whose mails a resume has written back.                *)
(***************************************************************************)
EXTENDS FollowUps, ReadCommitted_proofs, FiniteSetTheorems

(***************************************************************************)
(* The inductive invariants of FollowUps: what an open session has made    *)
(* sure of before it writes a job, a recipient's row or the campaign, and  *)
(* why this is still so when it commits.                                   *)
(***************************************************************************)

(***************************************************************************)
(* What the sessions keep between their statements.                        *)
(***************************************************************************)
Listings == UNION {[R -> RecipientRow] : R \in SUBSET Recipients}

EditRecords ==
  [at : {"none", "select", "write"}, who : Recipients \cup {None},
   new : RecipientRow \cup {None}, base : RecipientRow \cup {None}]

RunRecords ==
  [pc : {"idle", "visit", "complete", "commit"}, listed : Listings,
   seen : CampaignStatus \cup {None}]

TaskRecords ==
  [pc : {"idle", "claim", "state", "commit"}, job : MailJobs \cup {None},
   result : {"SENT", "FAILED", None}]

\* The statuses of a job of a sequence.
MailStatus == {Absent, "PENDING", "SENT", "FAILED", "CANCELLED"}

RequestRecords ==
  [pc : {"new", "write", "list", "select", "update", "status", "snapshot", "cancelling",
         "commit", "enqueue", "done"},
   op : CampaignOps \cup {None}, listed : Listings, seen : CampaignStatus \cup {None},
   target : CampaignStatus \cup {None}, plan : SUBSET MailJobs, todo : SUBSET MailJobs,
   cur : MailJobs \cup {None}, row : MailStatus \cup {None}]

SessionTypes ==
  /\ edit \in [Sessions -> EditRecords] /\ run \in [Runs -> RunRecords]
  /\ task \in [Tasks -> TaskRecords] /\ req \in [Requests -> RequestRecords]
  /\ mailed \in [Recipients -> Seq(Steps)]

\* A session is in the middle of an update only where its code has one.
EditFits(s) ==
  /\ Editing(s) => /\ edit[s].who \in Recipients /\ edit[s].new \in RecipientRow
                   /\ s \in Schedulers => run[s].pc = "visit"
                   /\ s \notin Sweepers
                   /\ s \in Tasks => task[s].pc = "commit"
                   /\ s \in Requests => req[s].pc = "write"
  /\ edit[s].at = "write" => edit[s].base \in RecipientRow

TaskFits(t) ==
  /\ task[t].pc # "idle" => task[t].job \in MailJobs
  /\ task[t].pc = "state" => task[t].result \in {"SENT", "FAILED"}

RequestFits(q) ==
  /\ req[q].pc \in {"select", "update", "status"} => req[q].target \in CampaignStatus
  /\ req[q].pc \in {"list", "select", "update"} => req[q].op = "resume_campaign"
  /\ req[q].op = "resume_campaign" /\ req[q].pc \in {"list", "select", "update", "status"} =>
       req[q].seen = "PAUSED"
  /\ req[q].pc = "update" => req[q].cur \in MailJobs /\ req[q].row \in MailStatus
  /\ req[q].pc \in {"snapshot", "cancelling"} =>
       req[q].op = "cancel_campaign" /\ req[q].target = "CANCELLED"
  /\ req[q].op = "cancel_campaign" /\ req[q].pc \in {"status", "commit"} =>
       req[q].target = "CANCELLED"
  /\ req[q].op # "cancel_campaign" => req[q].target # "CANCELLED"

SessionsFit ==
  /\ \A s \in Sessions : EditFits(s)
  /\ \A s \in Sweepers : run[s].pc # "visit"
  /\ \A t \in Tasks : TaskFits(t)
  /\ \A q \in Requests : RequestFits(q)

(***************************************************************************)
(* Who holds a job's row, and what it is for everybody else.               *)
(***************************************************************************)
TaskHoldsJob(t, j) ==
  /\ task[t].pc \in {"state", "commit"} /\ task[t].job = j
  /\ mail.live[j] = "PENDING" /\ mail.next[j] \in {"SENT", "FAILED"}

RunHoldsJob(s, j) == run[s].pc # "idle" /\ mail.live[j] = Absent /\ mail.next[j] = "PENDING"

\* A resume writes PENDING over whatever the row has become, or leaves it as it is; a
\* cancel takes what is PENDING.
RequestHoldsJob(q, j) ==
  \/ /\ req[q].op = "resume_campaign" /\ req[q].pc \in {"select", "update", "status", "commit"}
     /\ mail.live[j] # Absent /\ mail.next[j] \in {"PENDING", mail.live[j]}
  \/ /\ req[q].op = "cancel_campaign" /\ req[q].pc = "commit"
     /\ mail.live[j] = "PENDING" /\ mail.next[j] = "CANCELLED"

JobHeld(j) ==
  /\ mail.lock[j] = Free => mail.next[j] = mail.live[j]
  /\ mail.lock[j] \in Tasks => TaskHoldsJob(mail.lock[j], j)
  /\ mail.lock[j] \in Runs => RunHoldsJob(mail.lock[j], j)
  /\ mail.lock[j] \in Requests => RequestHoldsJob(mail.lock[j], j)

JobsHeld == \A j \in MailJobs : JobHeld(j)

\* The jobs a resume has still to write back are there, and not its own yet.
ListedJobs(q) ==
  /\ req[q].pc \in {"select", "update"} =>
       \A j \in req[q].todo : mail.live[j] # Absent /\ mail.lock[j] # q
  /\ req[q].pc = "update" => req[q].cur \in req[q].todo

MailHeld == JobsHeld /\ \A q \in Requests : ListedJobs(q)

(***************************************************************************)
(* A cancel: which jobs it has still to find, which it has taken.          *)
(***************************************************************************)
LeftOver(q, j) ==
  \/ j \in late
  \/ req[q].pc = "cancelling" /\ j \in req[q].plan
  \/ req[q].pc = "commit" /\ mail.lock[j] = q /\ mail.next[j] = "CANCELLED"

Cancelling(q) ==
  req[q].op = "cancel_campaign" /\ req[q].pc \in {"cancelling", "commit"} =>
    \A j \in MailJobs : mail.live[j] = "PENDING" => LeftOver(q, j)

\* Nobody but a cancel writes CANCELLED, and it holds the row until it commits.
CampHeld ==
  camp.lock[Campaign] # Free /\ camp.next[Campaign] = "CANCELLED" =>
    \E q \in Requests : /\ camp.lock[Campaign] = q /\ req[q].op = "cancel_campaign"
                        /\ req[q].pc \in {"snapshot", "cancelling", "commit"}

\* From its UPDATE to its commit a request holds the campaign's row, and a resume has
\* found it paused.
CampTaken(q) ==
  /\ camp.lock[Campaign] = q <=> req[q].pc \in {"snapshot", "cancelling", "commit"}
  /\ req[q].op = "resume_campaign" /\ req[q].pc = "commit" =>
       camp.live[Campaign] = "PAUSED" /\ camp.next[Campaign] = req[q].target

CancelInvariant ==
  CampHeld /\ CancelledIsOver /\ \A q \in Requests : Cancelling(q)

CampaignTaken == \A q \in Requests : CampTaken(q)
-----------------------------------------------------------------------------
(***************************************************************************)
(* The rest is about a campaign whose recipients are paused, resumed and   *)
(* stopped by nobody: SequenceOps \subseteq CampaignOps.                   *)
(***************************************************************************)
Job(r, n) == [to |-> r, step |-> n, copy |-> 1]

Untouched(row) == ~row.paused /\ ~row.replied

\* The recipients none of whose mails was written back.
Kept == Recipients \ Rewritten

\* The jobs up to the current step have been sent, the current one is there, and
\* it has been sent if the row says so.
RowFits(r) ==
  LET row == rows.live[r] IN
  /\ Untouched(row)
  /\ \A n \in Steps : /\ n < row.step => mail.live[Job(r, n)] = "SENT"
                      /\ n > row.step => mail.live[Job(r, n)] = Absent
  /\ mail.live[Job(r, row.step)] # Absent
  /\ row.statuses[row.step] = "SENT" => mail.live[Job(r, row.step)] = "SENT"
  /\ row.completed => row.step = LastStep /\ mail.live[Job(r, LastStep)] = "SENT"

OneCopy(j) == mail.live[j] # Absent \/ mail.next[j] # Absent => j.copy = 1

\* A run has advanced recipient r, and inserted the job, or has finished r.
RunHoldsRow(s, r) ==
  /\ run[s].pc # "idle"
  /\ mail.live[Job(r, rows.live[r].step)] = "SENT"
  /\ \/ /\ rows.next[r].step = rows.live[r].step
        /\ rows.next[r].completed => rows.live[r].step = LastStep
     \/ /\ rows.next[r].step = rows.live[r].step + 1
        /\ mail.lock[Job(r, rows.next[r].step)] = s
        /\ rows.next[r].statuses[rows.next[r].step] # "SENT"
        /\ ~rows.next[r].completed

\* A task has recorded what became of the current step's mail.
TaskHoldsRow(t, r) ==
  /\ task[t].pc = "commit" /\ task[t].job = Job(r, rows.live[r].step)
  /\ mail.lock[task[t].job] = t
  /\ rows.next[r].step = rows.live[r].step /\ ~rows.next[r].completed
  /\ rows.next[r].statuses[rows.next[r].step] = "SENT" => mail.next[task[t].job] = "SENT"

RowHeld(r) ==
  /\ rows.lock[r] \notin Requests
  /\ rows.lock[r] = Free => rows.next[r] = rows.live[r]
  /\ rows.lock[r] \in Runs => RunHoldsRow(rows.lock[r], r)
  /\ rows.lock[r] \in Tasks => TaskHoldsRow(rows.lock[r], r)
  /\ Untouched(rows.next[r])
  /\ rows.live[r].completed => rows.next[r].completed

\* A job that is not committed belongs to the row its run holds.
NewJobHeld(j) ==
  mail.lock[j] \in Runs =>
    /\ rows.lock[j.to] = mail.lock[j]
    /\ rows.next[j.to].step = j.step /\ j.step = rows.live[j.to].step + 1

\* What a run has listed may be old, but it was true and a sent step stays sent.
ListedFits(s, r) ==
  r \in DOMAIN run[s].listed =>
    LET e == run[s].listed[r] IN
    /\ run[s].pc = "visit" /\ rows.lock[r] # s /\ (Editing(s) => edit[s].who # r)
    /\ Untouched(e) /\ ~e.completed /\ e.step <= rows.live[r].step
    /\ StepSent(e) => mail.live[Job(r, e.step)] = "SENT"

\* A run edits only a recipient whose last step was sent, a task only the row of
\* its own mail, which waits for it at that step.
RunEdits(s) ==
  Editing(s) /\ edit[s].who \in Kept =>
    LET r == edit[s].who IN
    /\ rows.lock[r] # s /\ Untouched(edit[s].new)
    /\ edit[s].new.step = LastStep /\ edit[s].new.completed
    /\ rows.live[r].step = LastStep /\ mail.live[Job(r, LastStep)] = "SENT"
    /\ edit[s].at = "write" => edit[s].base.step = LastStep

TaskEdits(t) ==
  Editing(t) =>
    LET j == task[t].job IN
    /\ edit[t].who = j.to
    /\ j.to \in Kept =>
         /\ rows.lock[j.to] # t /\ Untouched(edit[t].new)
         /\ edit[t].new.step = j.step /\ ~edit[t].new.completed
         /\ edit[t].new.statuses[j.step] = "SENT" => mail.next[j] = "SENT"
         /\ edit[t].at = "write" => edit[t].base.step = j.step

TaskOwnsJob(t) ==
  task[t].pc \in {"state", "commit"} =>
    mail.lock[task[t].job] = t /\ mail.next[task[t].job] = task[t].result

RequestsAside(q) == req[q].pc # "write"

RowInvariant ==
  /\ \A r \in Kept : RowFits(r) /\ RowHeld(r)
  /\ \A j \in MailJobs : j.to \in Kept => OneCopy(j) /\ NewJobHeld(j)
  /\ \A s \in Runs : RunEdits(s) /\ \A r \in Kept : ListedFits(s, r)
  /\ \A t \in Tasks : TaskEdits(t) /\ TaskOwnsJob(t)
  /\ \A q \in Requests : RequestsAside(q)

(***************************************************************************)
(* Who completes the campaign, and what that session has counted.          *)
(***************************************************************************)
AllDone(s) == \A r \in Kept : View(rows, s, r).completed

ResumeCompletes(q) ==
  req[q].op = "resume_campaign" /\ req[q].target = "COMPLETED"

CompletionInvariant ==
  /\ \A q \in Requests : req[q].target = "COMPLETED" => req[q].op = "resume_campaign"
  /\ \A s \in Schedulers : run[s].pc = "complete" => AllDone(s)
  /\ camp.lock[Campaign] \in Runs =>
       run[camp.lock[Campaign]].pc = "commit" /\ AllDone(camp.lock[Campaign])
  /\ camp.lock[Campaign] \in Tasks => camp.next[Campaign] # "COMPLETED"
  /\ camp.lock[Campaign] \in Requests =>
       /\ req[camp.lock[Campaign]].pc \in {"snapshot", "cancelling", "commit"}
       /\ camp.next[Campaign] = "COMPLETED" => ResumeCompletes(camp.lock[Campaign])
  /\ camp.live[Campaign] = "COMPLETED" =>
       \/ \A r \in Kept : rows.live[r].completed
       \/ \E q \in Requests : ResumeCompletes(q) /\ req[q].pc \in {"enqueue", "done"}

(***************************************************************************)
(* What a recipient has been mailed: everything before the current step,   *)
(* and the current one if it is recorded, or the record may be lost.       *)
(***************************************************************************)
NextIs(r, n) ==
  IF n = 0 THEN mailed[r] = <<>> ELSE mailed[r] # <<>> /\ mailed[r][Len(mailed[r])] = n - 1

LastIs(r, n) == mailed[r] # <<>> /\ mailed[r][Len(mailed[r])] = n

Recorded(r, n) ==
  LET j == Job(r, n) IN mail.live[j] = "SENT" \/ (mail.lock[j] \in Tasks /\ mail.next[j] = "SENT")

MailedFits(r) ==
  LET n == rows.live[r].step IN
  \/ NextIs(r, n) /\ ~Recorded(r, n)
  \/ LastIs(r, n) /\ (Recorded(r, n) \/ crashes > 0)

\* What is recorded as sent was mailed, wherever the record stands, and nobody has a job
\* for a step without having been mailed the one before it.
WasMailed(r, n) == \E i \in 1..Len(mailed[r]) : mailed[r][i] = n

SentMailed(r, row) == \A n \in Steps : row.statuses[n] = "SENT" => WasMailed(r, n)

EarlierMailed ==
  /\ \A r \in Recipients : SentMailed(r, rows.live[r]) /\ SentMailed(r, rows.next[r])
  /\ \A s \in Sessions : Editing(s) => SentMailed(edit[s].who, edit[s].new)
  /\ \A s \in Runs : \A r \in DOMAIN run[s].listed : SentMailed(r, run[s].listed[r])
  /\ \A t \in Tasks : task[t].pc \in {"state", "commit"} /\ task[t].result = "SENT" =>
       WasMailed(task[t].job.to, task[t].job.step)
  /\ \A j \in MailJobs : (mail.live[j] # Absent \/ mail.next[j] # Absent) /\ j.step > 0 =>
       WasMailed(j.to, j.step - 1)

MailedInvariant == \A r \in Kept : MailedFits(r)
-----------------------------------------------------------------------------
\* The sessions are told apart by what they are.
LEMMA Apart ==
  /\ Free \notin Sessions
  /\ \A s \in Runs : s \notin Tasks /\ s \notin Requests /\ s \in Sessions
  /\ \A s \in Tasks : s \notin Runs /\ s \notin Requests /\ s \in Sessions
  /\ \A s \in Requests : s \notin Runs /\ s \notin Tasks /\ s \in Sessions
  /\ \A s \in Schedulers : s \in Runs /\ s \notin Sweepers
  /\ \A s \in Sweepers : s \in Runs /\ s \notin Schedulers
  /\ \A s \in Sessions : s \in Runs \/ s \in Tasks \/ s \in Requests
  BY SessionsAssumption DEF Sessions, Runs

\* What the tables hold.
LEMMA TypeFacts ==
  ASSUME TypeOK
  PROVE  /\ rows \in Tables(Recipients, RecipientRow, Sessions)
         /\ rows.live \in [Recipients -> RecipientRow] /\ rows.next \in [Recipients -> RecipientRow]
         /\ rows.lock \in [Recipients -> Sessions \cup {Free}]
         /\ mail \in Tables(MailJobs, MailStatus, Sessions)
         /\ mail.live \in [MailJobs -> MailStatus] /\ mail.next \in [MailJobs -> MailStatus]
         /\ mail.lock \in [MailJobs -> Sessions \cup {Free}]
         /\ camp \in Tables({Campaign}, CampaignStatus, Sessions)
         /\ camp.live \in [{Campaign} -> CampaignStatus] /\ camp.next \in [{Campaign} -> CampaignStatus]
         /\ camp.lock \in [{Campaign} -> Sessions \cup {Free}]
         /\ \A s : \A r \in Recipients : View(rows, s, r) \in RecipientRow
         /\ \A s : \A j \in MailJobs : View(mail, s, j) \in MailStatus
         /\ \A s : View(camp, s, Campaign) \in CampaignStatus
  BY DEF TypeOK, Tables, MailStatus, View

\* The parts of a job, and the steps as numbers.
LEMMA Jobs ==
  /\ \A j \in MailJobs : j.to \in Recipients /\ j.step \in Steps /\ j.copy \in Nat
  /\ \A n \in Steps : n \in Nat /\ n <= LastStep /\ (n < LastStep => n + 1 \in Steps)
  BY StepsAssumption DEF MailJobs, Steps

\* A listing is a function from some recipients to rows; it stays one when a
\* recipient leaves it.
LEMMA ListingFacts ==
  /\ \A R \in SUBSET Recipients : \A f \in [R -> RecipientRow] : f \in Listings
  /\ <<>> \in Listings
  /\ \A f \in Listings :
       /\ DOMAIN f \subseteq Recipients
       /\ \A r \in DOMAIN f : f[r] \in RecipientRow
       /\ \A r : Without(f, r) \in Listings
<1>1. \A R \in SUBSET Recipients : \A f \in [R -> RecipientRow] : f \in Listings
  BY DEF Listings
<1>2. <<>> \in Listings
  <2>1. <<>> \in [{} -> RecipientRow]
    OBVIOUS
  <2> QED
    BY <2>1, <1>1
<1>3. ASSUME NEW f \in Listings
      PROVE  /\ DOMAIN f \subseteq Recipients
             /\ \A r \in DOMAIN f : f[r] \in RecipientRow
             /\ \A r : Without(f, r) \in Listings
  <2>1. PICK R \in SUBSET Recipients : f \in [R -> RecipientRow]
    BY DEF Listings
  <2>2. ASSUME NEW r PROVE Without(f, r) \in Listings
    <3>1. Without(f, r) \in [R \ {r} -> RecipientRow]
      BY <2>1 DEF Without
    <3> QED
      BY <3>1, <1>1
  <2> QED
    BY <2>1, <2>2
<1> QED
  BY <1>1, <1>2, <1>3

\* What the statements make of a row.
LEMMA RowFacts ==
  /\ FirstRow \in RecipientRow
  /\ \A row \in RecipientRow :
       /\ row.step \in Steps /\ row.statuses \in [Steps -> StepStatus]
       /\ row.paused \in BOOLEAN /\ row.replied \in BOOLEAN /\ row.completed \in BOOLEAN
       /\ \A b \in BOOLEAN : /\ [row EXCEPT !.paused = b] \in RecipientRow
                             /\ [row EXCEPT !.replied = b] \in RecipientRow
                             /\ [row EXCEPT !.completed = b] \in RecipientRow
       /\ \A n \in Steps : \A x \in StepStatus : [row EXCEPT !.statuses[n] = x] \in RecipientRow
       /\ \A n \in Steps : \A x \in StepStatus :
            [row EXCEPT !.step = n, !.statuses[n] = x] \in RecipientRow
       /\ \A st \in [Steps -> StepStatus] :
            [row EXCEPT !.statuses = st, !.completed = TRUE] \in RecipientRow
       /\ \A base, new \in RecipientRow : Changed(row, base, new) \in RecipientRow
<1>1. FirstRow \in RecipientRow
  BY StepsAssumption DEF FirstRow, RecipientRow, Steps, StepStatus
<1>2. ASSUME NEW row \in RecipientRow, NEW base \in RecipientRow, NEW new \in RecipientRow
      PROVE  Changed(row, base, new) \in RecipientRow
  <2>1. Changed(row, base, new) =
          [step |-> IF new.step # base.step THEN new.step ELSE row.step,
           statuses |-> IF new.statuses # base.statuses THEN new.statuses ELSE row.statuses,
           paused |-> IF new.paused # base.paused THEN new.paused ELSE row.paused,
           replied |-> IF new.replied # base.replied THEN new.replied ELSE row.replied,
           completed |-> IF new.completed # base.completed THEN new.completed ELSE row.completed]
    BY DEF Changed, RecipientRow
  <2> QED
    BY <2>1 DEF RecipientRow
<1>3. ASSUME NEW row \in RecipientRow
      PROVE  /\ row.step \in Steps /\ row.statuses \in [Steps -> StepStatus]
             /\ row.paused \in BOOLEAN /\ row.replied \in BOOLEAN /\ row.completed \in BOOLEAN
  BY DEF RecipientRow
<1>4. ASSUME NEW row \in RecipientRow, NEW b \in BOOLEAN
      PROVE  /\ [row EXCEPT !.paused = b] \in RecipientRow
             /\ [row EXCEPT !.replied = b] \in RecipientRow
             /\ [row EXCEPT !.completed = b] \in RecipientRow
  BY DEF RecipientRow
<1>5. ASSUME NEW row \in RecipientRow, NEW n \in Steps, NEW x \in StepStatus
      PROVE  /\ [row EXCEPT !.statuses[n] = x] \in RecipientRow
             /\ [row EXCEPT !.step = n, !.statuses[n] = x] \in RecipientRow
  BY DEF RecipientRow
<1>6. ASSUME NEW row \in RecipientRow, NEW st \in [Steps -> StepStatus]
      PROVE  [row EXCEPT !.statuses = st, !.completed = TRUE] \in RecipientRow
  BY DEF RecipientRow
<1> QED
  BY <1>1, <1>2, <1>3, <1>4, <1>5, <1>6
-----------------------------------------------------------------------------
(***************************************************************************)
(* The records of the sessions.                                            *)
(***************************************************************************)

\* What a run's record becomes.
LEMMA RunRecordFacts ==
  /\ IdleRun \in RunRecords
  /\ \A listed \in Listings : \A x \in CampaignStatus :
       [pc |-> "visit", listed |-> listed, seen |-> x] \in RunRecords
  /\ \A old \in RunRecords :
       /\ old.listed \in Listings /\ old.seen \in CampaignStatus \cup {None}
       /\ \A listed \in Listings : [old EXCEPT !.listed = listed] \in RunRecords
       /\ \A pc \in {"complete", "commit"} : [old EXCEPT !.pc = pc] \in RunRecords
<1>1. <<>> \in Listings
  BY ListingFacts
<1> HIDE DEF Listings
<1> QED
  BY <1>1 DEF RunRecords, IdleRun

\* What a task's record becomes.
LEMMA TaskRecordFacts ==
  /\ IdleTask \in TaskRecords
  /\ \A j \in MailJobs :
       /\ [pc |-> "claim", job |-> j, result |-> None] \in TaskRecords
       /\ \A pc \in {"state", "commit"} : \A x \in {"SENT", "FAILED"} :
            [pc |-> pc, job |-> j, result |-> x] \in TaskRecords
  /\ \A old \in TaskRecords : /\ [old EXCEPT !.pc = "commit"] \in TaskRecords
                              /\ old.job \in MailJobs \cup {None}
  BY DEF TaskRecords, IdleTask

\* What a request's record becomes.
LEMMA RequestRecordFacts ==
  /\ Request("new") \in RequestRecords /\ Answered \in RequestRecords
  /\ \A op \in CampaignOps : \A x, y \in CampaignStatus :
       /\ [Request("list") EXCEPT !.op = op, !.seen = x] \in RequestRecords
       /\ [Request("status") EXCEPT !.op = op, !.seen = x, !.target = y] \in RequestRecords
  /\ \A listed \in Listings : [Request("write") EXCEPT !.listed = listed] \in RequestRecords
  /\ \A old \in RequestRecords :
       /\ old.listed \in Listings /\ old.target \in CampaignStatus \cup {None}
       /\ old.op \in CampaignOps \cup {None} /\ old.plan \subseteq MailJobs
       /\ old.seen \in CampaignStatus \cup {None} /\ old.todo \subseteq MailJobs
       /\ \A listed \in Listings : [old EXCEPT !.listed = listed] \in RequestRecords
       /\ \A pc \in {"snapshot", "commit", "enqueue"} : [old EXCEPT !.pc = pc] \in RequestRecords
       /\ \A J \in SUBSET MailJobs :
            /\ [old EXCEPT !.pc = "cancelling", !.plan = J] \in RequestRecords
            /\ [old EXCEPT !.pc = "commit", !.plan = J] \in RequestRecords
            /\ \A pc \in {"select", "status"} :
                 /\ \A y \in CampaignStatus :
                      [old EXCEPT !.target = y, !.pc = pc, !.todo = J, !.plan = J] \in RequestRecords
                 /\ [old EXCEPT !.pc = pc, !.todo = J, !.cur = None, !.row = None] \in RequestRecords
       /\ \A j \in MailJobs : \A x \in MailStatus :
            [old EXCEPT !.pc = "update", !.cur = j, !.row = x] \in RequestRecords
       /\ [Answered EXCEPT !.op = old.op, !.target = old.target] \in RequestRecords
<1>1. <<>> \in Listings
  BY ListingFacts
<1>2. {} \in SUBSET MailJobs /\ {"SENDING", "COMPLETED"} \subseteq CampaignStatus
  BY DEF CampaignStatus
<1> HIDE DEF Listings, CampaignStatus, CampaignOps, MailJobs, MailStatus
<1>3. Request("new") \in RequestRecords /\ Answered \in RequestRecords
  BY <1>1, <1>2 DEF RequestRecords, Request, Answered
<1>4. ASSUME NEW op \in CampaignOps, NEW x \in CampaignStatus, NEW y \in CampaignStatus
      PROVE  /\ [Request("list") EXCEPT !.op = op, !.seen = x] \in RequestRecords
             /\ [Request("status") EXCEPT !.op = op, !.seen = x, !.target = y] \in RequestRecords
  BY <1>1, <1>2 DEF RequestRecords, Request
<1>5. ASSUME NEW listed \in Listings
      PROVE  [Request("write") EXCEPT !.listed = listed] \in RequestRecords
  BY <1>1, <1>2 DEF RequestRecords, Request
<1>6. ASSUME NEW old \in RequestRecords
      PROVE  /\ old.listed \in Listings /\ old.target \in CampaignStatus \cup {None}
             /\ old.op \in CampaignOps \cup {None} /\ old.plan \subseteq MailJobs
             /\ old.seen \in CampaignStatus \cup {None} /\ old.todo \subseteq MailJobs
             /\ \A listed \in Listings : [old EXCEPT !.listed = listed] \in RequestRecords
             /\ \A pc \in {"snapshot", "commit", "enqueue"} :
                  [old EXCEPT !.pc = pc] \in RequestRecords
  BY DEF RequestRecords
<1>7. ASSUME NEW old \in RequestRecords, NEW J \in SUBSET MailJobs
      PROVE  /\ [old EXCEPT !.pc = "cancelling", !.plan = J] \in RequestRecords
             /\ [old EXCEPT !.pc = "commit", !.plan = J] \in RequestRecords
  BY <1>2 DEF RequestRecords
<1>8. ASSUME NEW old \in RequestRecords
      PROVE  [Answered EXCEPT !.op = old.op, !.target = old.target] \in RequestRecords
  BY <1>1, <1>2 DEF RequestRecords, Answered, Request
<1>9. ASSUME NEW old \in RequestRecords, NEW J \in SUBSET MailJobs, NEW pc \in {"select", "status"}
      PROVE  /\ \A y \in CampaignStatus :
                  [old EXCEPT !.target = y, !.pc = pc, !.todo = J, !.plan = J] \in RequestRecords
             /\ [old EXCEPT !.pc = pc, !.todo = J, !.cur = None, !.row = None] \in RequestRecords
  BY DEF RequestRecords
<1>10. ASSUME NEW old \in RequestRecords, NEW j \in MailJobs, NEW x \in MailStatus
       PROVE  [old EXCEPT !.pc = "update", !.cur = j, !.row = x] \in RequestRecords
  BY DEF RequestRecords
<1> QED
  BY <1>3, <1>4, <1>5, <1>6, <1>7, <1>8, <1>9, <1>10

\* What an update's record becomes.
LEMMA EditRecordFacts ==
  /\ NoEdit \in EditRecords /\ NoEdit.at = "none"
  /\ \A r \in Recipients : \A row \in RecipientRow :
       [at |-> "select", who |-> r, new |-> row, base |-> None] \in EditRecords
  /\ \A old \in EditRecords : \A row \in RecipientRow :
       [old EXCEPT !.at = "write", !.base = row] \in EditRecords
<1> HIDE DEF RecipientRow
<1> QED
  BY DEF EditRecords, NoEdit
-----------------------------------------------------------------------------
(***************************************************************************)
(* Types: every action writes rows of the tables and records of its kind.  *)
(***************************************************************************)
TablesTyped ==
  /\ rows \in Tables(Recipients, RecipientRow, Sessions)
  /\ mail \in Tables(MailJobs, MailStatus, Sessions)
  /\ camp \in Tables({Campaign}, CampaignStatus, Sessions)
  /\ queue \in [MailJobs -> Nat] /\ waited \subseteq Recipients \X Steps
  /\ crashes \in 0..MaxCrashes /\ late \subseteq MailJobs /\ reverted \subseteq MailJobs

\* The inductive type invariant.
Typed == TablesTyped /\ SessionTypes /\ SessionsFit

\* The type invariant follows from the types of the tables and of the records.
LEMMA TypedIsTypeOK == Typed => TypeOK
<1> SUFFICES ASSUME Typed PROVE TypeOK
  OBVIOUS
<1>1. ASSUME NEW s \in Sessions PROVE edit[s].at \in {"none", "select", "write"}
  BY DEF Typed, SessionTypes, EditRecords
<1>2. ASSUME NEW s \in Runs PROVE run[s].pc \in {"idle", "visit", "complete", "commit"}
  BY DEF Typed, SessionTypes, RunRecords
<1>3. ASSUME NEW t \in Tasks PROVE task[t].job \in MailJobs \cup {None}
  BY DEF Typed, SessionTypes, TaskRecords
<1>4. ASSUME NEW q \in Requests PROVE req[q].plan \subseteq MailJobs
  BY DEF Typed, SessionTypes, RequestRecords
<1>5. \A r \in Recipients : mailed[r] \in Seq(Steps)
  BY DEF Typed, SessionTypes
<1> QED
  BY <1>1, <1>2, <1>3, <1>4, <1>5 DEF Typed, TablesTyped, TypeOK, MailStatus

\* A step of session s leaves the others in the middle of what they were.
LEMMA FitStep ==
  ASSUME SessionsFit, NEW s \in Sessions,
         \A x \in Sessions : x # s => edit'[x] = edit[x],
         \A x \in Runs : x # s => run'[x] = run[x],
         \A x \in Tasks : x # s => task'[x] = task[x],
         \A x \in Requests : x # s => req'[x] = req[x],
         EditFits(s)', s \in Sweepers => run'[s].pc # "visit",
         s \in Tasks => TaskFits(s)', s \in Requests => RequestFits(s)'
  PROVE  SessionsFit'
<1>1. ASSUME NEW x \in Sessions PROVE EditFits(x)'
  <2>1. CASE x = s
    BY <2>1
  <2>2. CASE x # s
    <3>1. EditFits(x) /\ edit'[x] = edit[x]
      BY <2>2 DEF SessionsFit
    <3>2. x \in Schedulers => run'[x] = run[x]
      BY <2>2, Apart
    <3> QED
      BY <2>2, <3>1, <3>2 DEF EditFits, Editing
  <2> QED
    BY <2>1, <2>2
<1>2. \A x \in Sweepers : (run[x].pc # "visit")'
  BY Apart DEF SessionsFit
<1>3. ASSUME NEW x \in Tasks PROVE TaskFits(x)'
  BY DEF SessionsFit, TaskFits
<1>4. ASSUME NEW x \in Requests PROVE RequestFits(x)'
  BY DEF SessionsFit, RequestFits
<1> QED
  BY <1>1, <1>2, <1>3, <1>4 DEF SessionsFit

\* A commit keeps the tables tables.
LEMMA CommitTyped ==
  ASSUME TablesTyped, NEW s, CommitTables(s)
  PROVE  /\ rows' \in Tables(Recipients, RecipientRow, Sessions)
         /\ mail' \in Tables(MailJobs, MailStatus, Sessions)
         /\ camp' \in Tables({Campaign}, CampaignStatus, Sessions)
<1> HIDE DEF RecipientRow, CampaignStatus
<1> QED
  BY PublishRow DEF TablesTyped, CommitTables

\* So does a rollback.
LEMMA DiscardTyped ==
  ASSUME TablesTyped, NEW E, Discarded(E)
  PROVE  /\ rows' \in Tables(Recipients, RecipientRow, Sessions)
         /\ mail' \in Tables(MailJobs, MailStatus, Sessions)
         /\ camp' \in Tables({Campaign}, CampaignStatus, Sessions)
<1> HIDE DEF RecipientRow, CampaignStatus
<1> QED
  BY DiscardRow DEF TablesTyped, Discarded

\* And so does the conditional update of the campaign's status.
LEMMA StatusTyped ==
  ASSUME TablesTyped, NEW s \in Sessions, NEW x, NEW y \in CampaignStatus,
         update_status_if(s, x, y)
  PROVE  camp' \in Tables({Campaign}, CampaignStatus, Sessions)
<1>1. CASE UNCHANGED camp
  BY <1>1 DEF TablesTyped
<1>2. CASE camp' = Put(camp, s, Campaign, y)
  BY <1>2, PutRow DEF TablesTyped
<1> QED
  BY <1>1, <1>2 DEF update_status_if

\* The record of one run changes.
LEMMA RunTyped ==
  ASSUME Typed, NEW s \in Runs, NEW rec \in RunRecords, run' = [run EXCEPT ![s] = rec],
         edit' = edit, task' = task, req' = req, mailed' = mailed,
         Editing(s) => rec.pc = "visit", s \in Sweepers => rec.pc # "visit"
  PROVE  SessionTypes' /\ SessionsFit'
<1>1. SessionTypes'
  BY DEF Typed, SessionTypes
<1>2. run'[s] = rec /\ s \in Sessions /\ s \notin Tasks /\ s \notin Requests
  BY Apart DEF Typed, SessionTypes
<1>3. EditFits(s)'
  <2>1. EditFits(s)
    BY <1>2 DEF Typed, SessionsFit
  <2> QED
    BY <1>2, <2>1 DEF EditFits, Editing
<1>4. \A x \in Runs : x # s => run'[x] = run[x]
  BY DEF Typed, SessionTypes
<1> QED
  BY <1>1, <1>2, <1>3, <1>4, FitStep DEF Typed

\* A record whose pc is visit belongs to a run that is not a sweep; its listing is
\* of recipients.
LEMMA VisitFacts ==
  ASSUME Typed, NEW s \in Runs, NEW r, Visiting(s, r)
  PROVE  /\ s \in Schedulers /\ ~Editing(s) /\ run[s] \in RunRecords
         /\ r \in Recipients /\ Listed(s, r) \in RecipientRow
         /\ [run[s] EXCEPT !.listed = Without(run[s].listed, r)] \in RunRecords
         /\ [run[s] EXCEPT !.listed = Without(run[s].listed, r)].pc = "visit"
         /\ Visited(s, r) =>
              run' = [run EXCEPT ![s] = [run[s] EXCEPT !.listed = Without(run[s].listed, r)]]
<1>1. run[s] \in RunRecords /\ run[s].pc = "visit" /\ r \in DOMAIN run[s].listed
  BY DEF Typed, SessionTypes, Visiting
<1>2. run[s].listed \in Listings
  BY <1>1, RunRecordFacts
<1>3. r \in Recipients /\ Listed(s, r) \in RecipientRow /\ Without(run[s].listed, r) \in Listings
  BY <1>1, <1>2, ListingFacts DEF Listed
<1>4. [run[s] EXCEPT !.listed = Without(run[s].listed, r)] \in RunRecords
  BY <1>1, <1>3, RunRecordFacts
<1>5. [run[s] EXCEPT !.listed = Without(run[s].listed, r)].pc = "visit"
  BY <1>1 DEF RunRecords
<1>6. s \in Schedulers /\ ~Editing(s)
  BY <1>1 DEF Typed, SessionsFit, Visiting, Runs
<1> QED
  BY <1>1, <1>3, <1>4, <1>5, <1>6 DEF Visited

\* A step of a scheduler run or of the sweep keeps the types.
LEMMA RunStepTyped ==
  ASSUME Typed, NEW s \in Runs, RunStep(s)
  PROVE  Typed'
<1>0. s \in Sessions /\ s \notin Tasks /\ s \notin Requests /\ TypeOK /\ run[s] \in RunRecords
      /\ EditFits(s)
  BY Apart, TypedIsTypeOK DEF Typed, SessionTypes, SessionsFit
<1>1. CASE s \in Schedulers /\ StartRun(s)
  <2>1. [r \in ActiveFor(s) |-> View(rows, s, r)] \in [ActiveFor(s) -> RecipientRow]
    BY <1>0, TypeFacts DEF ActiveFor
  <2>2. ActiveFor(s) \in SUBSET Recipients
    BY DEF ActiveFor
  <2>3. [r \in ActiveFor(s) |-> View(rows, s, r)] \in Listings
    BY <2>1, <2>2, ListingFacts
  <2>4. PICK rec : rec = [pc |-> "visit", listed |-> [r \in ActiveFor(s) |-> View(rows, s, r)],
                          seen |-> View(camp, s, Campaign)]
    OBVIOUS
  <2>5. rec \in RunRecords /\ rec.pc = "visit" /\ run' = [run EXCEPT ![s] = rec]
    BY <1>0, <1>1, <2>3, <2>4, TypeFacts, RunRecordFacts DEF StartRun
  <2>6. s \notin Sweepers /\ ~Editing(s)
    BY <1>0, <1>1, Apart DEF StartRun, EditFits
  <2>7. SessionTypes' /\ SessionsFit'
    BY <1>1, <2>5, <2>6, RunTyped DEF StartRun
  <2> QED
    BY <1>1, <2>7 DEF StartRun, tables, counted, Typed, TablesTyped
<1>2. ASSUME NEW r \in Recipients, PassOver(s, r) PROVE Typed'
  <2>1. Visiting(s, r) /\ Visited(s, r) /\ UNCHANGED <<tables, queue, waited, edit, task, req, mailed, counted>>
    BY <1>2 DEF PassOver
  <2>2. SessionTypes' /\ SessionsFit'
    BY <2>1, VisitFacts, RunTyped, Apart
  <2> QED
    BY <2>1, <2>2 DEF tables, counted, Typed, TablesTyped
<1>3. ASSUME NEW r \in Recipients, FinishRecipient(s, r) PROVE Typed'
  <2>1. /\ Visiting(s, r) /\ Visited(s, r)
        /\ Edit(s, r, [Listed(s, r) EXCEPT !.completed = TRUE])
        /\ UNCHANGED <<tables, queue, waited, task, req, mailed, counted>>
    BY <1>3 DEF FinishRecipient
  <2>2. PICK new \in RecipientRow : new = [Listed(s, r) EXCEPT !.completed = TRUE]
    BY <2>1, VisitFacts, RowFacts
  <2>3. PICK rec \in RunRecords : rec.pc = "visit" /\ run' = [run EXCEPT ![s] = rec]
    BY <2>1, VisitFacts
  <2>4. PICK e \in EditRecords : e = [at |-> "select", who |-> r, new |-> new, base |-> None]
    BY <2>2, EditRecordFacts
  <2>5. edit' = [edit EXCEPT ![s] = e]
    BY <2>1, <2>2, <2>4 DEF Edit
  <2>6. SessionTypes'
    BY <1>0, <2>1, <2>3, <2>5 DEF Typed, SessionTypes
  <2>7. EditFits(s)' /\ (s \in Sweepers => run'[s].pc # "visit")
    <3>1. edit'[s] = e /\ run'[s].pc = "visit" /\ s \in Schedulers
      BY <1>0, <2>1, <2>3, <2>5, VisitFacts DEF Typed, SessionTypes
    <3> QED
      BY <1>0, <2>4, <3>1, Apart DEF EditFits
  <2>8. SessionsFit'
    BY <1>0, <2>1, <2>3, <2>5, <2>7, FitStep DEF Typed, SessionTypes
  <2> QED
    BY <2>1, <2>6, <2>8 DEF tables, counted, Typed, TablesTyped
<1>4. ASSUME NEW r \in Recipients, Advance(s, r) PROVE Typed'
  <2>1. /\ Visiting(s, r) /\ Visited(s, r) /\ Listed(s, r).step < LastStep
        /\ UNCHANGED <<camp, waited, edit, task, req, mailed, counted>>
    BY <1>4 DEF Advance
  <2>2. SessionTypes' /\ SessionsFit'
    BY <2>1, VisitFacts, RunTyped, Apart
  <2>3. PICK e \in RecipientRow : e = Listed(s, r)
    BY <2>1, VisitFacts
  <2>4. e.step + 1 \in Steps /\ "SCHEDULED" \in StepStatus
    BY <2>1, <2>3, RowFacts, Jobs DEF StepStatus
  <2>5. PICK row \in RecipientRow :
          row = [e EXCEPT !.step = e.step + 1, !.statuses[e.step + 1] = "SCHEDULED"]
    BY <2>4, RowFacts
  <2>6. rows' = Put(rows, s, r, row)
    BY <1>4, <2>3, <2>5 DEF Advance
  <2>7. rows' \in Tables(Recipients, RecipientRow, Sessions)
    BY <1>0, <2>6, PutRow DEF Typed, TablesTyped
  <2>8. PICK job \in MailJobs : mail' = Put(mail, s, job, "PENDING") /\ queue' = Enqueued({job})
    BY <1>4 DEF Advance, NewCopy
  <2>9. mail' \in Tables(MailJobs, MailStatus, Sessions)
    BY <1>0, <2>8, PutRow DEF Typed, TablesTyped, MailStatus
  <2>10. queue' \in [MailJobs -> Nat]
    BY <2>8 DEF Enqueued, Typed, TablesTyped
  <2> QED
    BY <2>1, <2>2, <2>7, <2>9, <2>10 DEF counted, Typed, TablesTyped
<1>5. CASE CountActive(s)
  <2>1. PICK pc \in {"complete", "commit"} : run' = [run EXCEPT ![s] = [run[s] EXCEPT !.pc = pc]]
    BY <1>5 DEF CountActive
  <2>2. PICK rec : rec = [run[s] EXCEPT !.pc = pc]
    OBVIOUS
  <2>3. rec \in RunRecords /\ rec.pc # "visit"
    BY <1>0, <2>2, RunRecordFacts DEF RunRecords
  <2>4. SessionTypes' /\ SessionsFit'
    BY <1>5, <2>1, <2>2, <2>3, RunTyped DEF CountActive
  <2> QED
    BY <1>5, <2>4 DEF CountActive, tables, counted, Typed, TablesTyped
<1>6. CASE CompleteSequence(s) \/ SweepCompletes(s)
  <2>1. PICK rec : rec = [run[s] EXCEPT !.pc = "commit"]
    OBVIOUS
  <2>2. rec \in RunRecords /\ rec.pc # "visit" /\ run' = [run EXCEPT ![s] = rec]
    BY <1>0, <1>6, <2>1, RunRecordFacts DEF RunRecords, CompleteSequence, SweepCompletes
  <2>3. ~Editing(s)
    BY <1>0, <1>6 DEF CompleteSequence, SweepCompletes, EditFits
  <2>4. SessionTypes' /\ SessionsFit'
    BY <1>6, <2>2, <2>3, RunTyped DEF CompleteSequence, SweepCompletes
  <2>5. camp' \in Tables({Campaign}, CampaignStatus, Sessions)
    <3>1. "COMPLETED" \in CampaignStatus
      BY DEF CampaignStatus
    <3>2. UNCHANGED camp \/ \E x : update_status_if(s, x, "COMPLETED")
      BY <1>6 DEF CompleteSequence, SweepCompletes
    <3> QED
      BY <1>0, <3>1, <3>2, StatusTyped DEF Typed, TablesTyped
  <2> QED
    BY <1>6, <2>4, <2>5 DEF CompleteSequence, SweepCompletes, counted, Typed, TablesTyped
<1>7. CASE SweepCountsLive(s)
  <2>1. PICK rec : rec = [run[s] EXCEPT !.pc = "complete"]
    OBVIOUS
  <2>2. rec \in RunRecords /\ rec.pc # "visit" /\ run' = [run EXCEPT ![s] = rec]
    BY <1>0, <1>7, <2>1, RunRecordFacts DEF RunRecords, SweepCountsLive
  <2>3. ~Editing(s)
    BY <1>0, <1>7 DEF SweepCountsLive, EditFits
  <2>4. SessionTypes' /\ SessionsFit'
    BY <1>7, <2>2, <2>3, RunTyped DEF SweepCountsLive
  <2> QED
    BY <1>7, <2>4 DEF SweepCountsLive, tables, counted, Typed, TablesTyped
<1>8. CASE CommitRun(s)
  <2>1. IdleRun \in RunRecords /\ IdleRun.pc # "visit"
    BY RunRecordFacts DEF IdleRun
  <2>2. ~Editing(s)
    BY <1>0, <1>8, Apart DEF CommitRun, EditFits, Runs
  <2>3. SessionTypes' /\ SessionsFit'
    BY <1>8, <2>1, <2>2, RunTyped DEF CommitRun
  <2>4. late' \subseteq MailJobs
    BY <1>8 DEF CommitRun, Typed, TablesTyped
  <2> QED
    BY <1>8, <2>3, <2>4, CommitTyped DEF CommitRun, Typed, TablesTyped
<1> QED
  BY <1>1, <1>2, <1>3, <1>4, <1>5, <1>6, <1>7, <1>8 DEF RunStep, SchedulerStep

\* The record of one task changes.
LEMMA TaskTyped ==
  ASSUME Typed, NEW t \in Tasks, NEW rec \in TaskRecords, task' = [task EXCEPT ![t] = rec],
         edit' = edit, run' = run, req' = req, mailed' \in [Recipients -> Seq(Steps)],
         Editing(t) => rec.pc = "commit",
         rec.pc # "idle" => rec.job \in MailJobs, rec.pc = "state" => rec.result \in {"SENT", "FAILED"}
  PROVE  SessionTypes' /\ SessionsFit'
<1>1. SessionTypes'
  BY DEF Typed, SessionTypes
<1>2. task'[t] = rec /\ t \in Sessions /\ t \notin Runs /\ t \notin Requests
  BY Apart DEF Typed, SessionTypes
<1>3. EditFits(t)'
  <2>1. EditFits(t)
    BY <1>2 DEF Typed, SessionsFit
  <2> QED
    BY <1>2, <2>1 DEF EditFits, Editing
<1>4. \A x \in Tasks : x # t => task'[x] = task[x]
  BY DEF Typed, SessionTypes
<1>5. TaskFits(t)'
  BY <1>2 DEF TaskFits
<1>6. t \notin Sweepers
  BY <1>2 DEF Runs
<1> QED
  BY <1>1, <1>2, <1>3, <1>4, <1>5, <1>6, FitStep DEF Typed

\* Every step of a task keeps the types.
LEMMA TaskStepTyped ==
  ASSUME Typed, NEW t \in Tasks, TaskStep(t)
  PROVE  Typed'
<1>0. t \in Sessions /\ t \notin Runs /\ t \notin Requests /\ TypeOK /\ task[t] \in TaskRecords
      /\ EditFits(t) /\ TaskFits(t)
  BY Apart, TypedIsTypeOK DEF Typed, SessionTypes, SessionsFit
<1>1. ASSUME NEW j \in MailJobs, TakeCall(t, j) PROVE Typed'
  <2>1. ~Editing(t)
    BY <1>0, <1>1 DEF TakeCall, EditFits
  <2>2. SessionTypes' /\ SessionsFit'
    <3>1. CASE UNCHANGED task
      <4>1. task' = [task EXCEPT ![t] = task[t]]
        BY <1>0, <3>1 DEF Typed, SessionTypes
      <4>2. task[t].pc = "idle"
        BY <1>1 DEF TakeCall
      <4> QED
        BY <1>0, <1>1, <2>1, <4>1, <4>2, TaskTyped DEF TakeCall, Typed, SessionTypes
    <3>2. CASE task' = [task EXCEPT ![t] = [pc |-> "claim", job |-> j, result |-> None]]
      <4>1. PICK rec \in TaskRecords : rec = [pc |-> "claim", job |-> j, result |-> None]
        BY TaskRecordFacts
      <4>2. rec.pc = "claim" /\ rec.job = j
        BY <4>1
      <4> QED
        BY <1>0, <1>1, <2>1, <3>2, <4>1, <4>2, TaskTyped DEF TakeCall, Typed, SessionTypes
    <3> QED
      BY <1>1, <3>1, <3>2 DEF TakeCall
  <2>3. queue' \in [MailJobs -> Nat]
    BY <1>1 DEF TakeCall, Typed, TablesTyped
  <2> QED
    BY <1>1, <2>2, <2>3 DEF TakeCall, tables, counted, Typed, TablesTyped
<1>2. CASE ClaimFails(t)
  <2>1. ~Editing(t)
    BY <1>0, <1>2 DEF ClaimFails, EditFits
  <2>2. IdleTask \in TaskRecords /\ IdleTask.pc = "idle"
    BY TaskRecordFacts DEF IdleTask
  <2>3. SessionTypes' /\ SessionsFit'
    BY <1>2, <2>1, <2>2, TaskTyped DEF ClaimFails, Typed, SessionTypes
  <2> QED
    BY <1>2, <2>3 DEF ClaimFails, tables, counted, Typed, TablesTyped
<1>3. ASSUME NEW o \in Outcomes, Deliver(t, o) PROVE Typed'
  <2>1. ~Editing(t)
    BY <1>0, <1>3 DEF Deliver, EditFits
  <2>2. PICK j \in MailJobs : j = task[t].job
    BY <1>0, <1>3 DEF Deliver, TaskFits
  <2>3. PICK rec : rec = [pc |-> IF o = "rejected" THEN "commit" ELSE "state", job |-> j,
                          result |-> IF o = "accepted" THEN "SENT" ELSE "FAILED"]
    OBVIOUS
  <2>4. rec \in TaskRecords /\ rec.job = j /\ rec.result \in {"SENT", "FAILED"}
    BY <2>3, TaskRecordFacts
  <2>5. task' = [task EXCEPT ![t] = rec]
    BY <1>3, <2>2, <2>3 DEF Deliver
  <2>6. mailed' \in [Recipients -> Seq(Steps)]
    <3>1. CASE mailed' = mailed
      BY <3>1 DEF Typed, SessionTypes
    <3>2. CASE mailed' = [mailed EXCEPT ![j.to] = Append(mailed[j.to], j.step)]
      <4>1. j.to \in Recipients /\ j.step \in Steps /\ mailed[j.to] \in Seq(Steps)
        BY Jobs DEF Typed, SessionTypes
      <4>2. Append(mailed[j.to], j.step) \in Seq(Steps)
        BY <4>1
      <4> QED
        BY <3>2, <4>1, <4>2 DEF Typed, SessionTypes
    <3> QED
      BY <1>3, <2>2, <3>1, <3>2 DEF Deliver
  <2>7. SessionTypes' /\ SessionsFit'
    BY <1>3, <2>1, <2>4, <2>5, <2>6, TaskTyped DEF Deliver
  <2>8. mail' \in Tables(MailJobs, MailStatus, Sessions)
    <3>1. PICK x \in {"SENT", "FAILED"} : mail' = Put(mail, t, j, x)
      BY <1>3, <2>2 DEF Deliver
    <3> QED
      BY <1>0, <3>1, PutRow DEF Typed, TablesTyped, MailStatus
  <2>9. camp' \in Tables({Campaign}, CampaignStatus, Sessions)
    <3>1. "SENDING" \in CampaignStatus
      BY DEF CampaignStatus
    <3> QED
      BY <1>0, <1>3, <3>1, StatusTyped DEF Deliver, Typed
  <2> QED
    BY <1>3, <2>7, <2>8, <2>9 DEF Deliver, counted, Typed, TablesTyped
<1>4. CASE ReadState(t)
  <2>1. PICK j \in MailJobs : j = task[t].job
    BY <1>0, <1>4 DEF ReadState, TaskFits
  <2>2. View(rows, t, j.to) \in RecipientRow /\ task[t].result \in StepStatus /\ j.step \in Steps
        /\ j.to \in Recipients
    BY <1>0, <1>4, Jobs, TypeFacts DEF ReadState, TaskFits, StepStatus
  <2>3. PICK old \in RecipientRow : old = View(rows, t, j.to)
    BY <2>2
  <2>4. PICK new \in RecipientRow : new = [old EXCEPT !.statuses[j.step] = task[t].result]
    BY <2>2, RowFacts
  <2>5. PICK e \in EditRecords : e = [at |-> "select", who |-> j.to, new |-> new, base |-> None]
    BY <2>2, EditRecordFacts
  <2>6. edit' = [edit EXCEPT ![t] = e]
    BY <1>4, <2>1, <2>3, <2>4, <2>5 DEF Edit, ReadState
  <2>7. PICK rec : rec = [task[t] EXCEPT !.pc = "commit"]
    OBVIOUS
  <2>8. rec \in TaskRecords /\ rec.pc = "commit" /\ rec.job = j /\ task' = [task EXCEPT ![t] = rec]
    BY <1>0, <1>4, <2>1, <2>7, TaskRecordFacts DEF TaskRecords, ReadState
  <2>9. SessionTypes'
    BY <1>0, <1>4, <2>6, <2>8 DEF ReadState, Typed, SessionTypes
  <2>10. EditFits(t)' /\ TaskFits(t)'
    <3>1. edit'[t] = e /\ task'[t] = rec /\ e.at = "select" /\ e.who = j.to /\ e.new = new
      BY <1>0, <2>5, <2>6, <2>8 DEF Typed, SessionTypes
    <3>2. t \notin Schedulers /\ t \notin Sweepers
      BY <1>0 DEF Runs
    <3>3. EditFits(t)'
      BY <1>0, <2>2, <2>8, <3>1, <3>2 DEF EditFits
    <3> QED
      BY <2>8, <3>1, <3>3 DEF TaskFits
  <2>11. SessionsFit'
    <3>1. t \notin Sweepers
      BY <1>0 DEF Runs
    <3> QED
      BY <1>0, <1>4, <2>6, <2>8, <2>10, <3>1, FitStep DEF ReadState, Typed, SessionTypes
  <2> QED
    BY <1>4, <2>9, <2>11 DEF ReadState, tables, counted, Typed, TablesTyped
<1>5. CASE CommitTask(t)
  <2>1. IdleTask \in TaskRecords /\ IdleTask.pc = "idle"
    BY TaskRecordFacts DEF IdleTask
  <2>2. SessionTypes' /\ SessionsFit'
    BY <1>5, <2>1, TaskTyped DEF CommitTask, Typed, SessionTypes
  <2> QED
    BY <1>5, <2>2, CommitTyped DEF CommitTask, counted, Typed, TablesTyped
<1> QED
  BY <1>1, <1>2, <1>3, <1>4, <1>5 DEF TaskStep

\* The record of one request changes.
LEMMA RequestTyped ==
  ASSUME Typed, NEW q \in Requests, NEW rec \in RequestRecords, req' = [req EXCEPT ![q] = rec],
         edit' = edit, run' = run, task' = task, mailed' = mailed,
         Editing(q) => rec.pc = "write",
         rec.pc \in {"select", "update", "status"} => rec.target \in CampaignStatus,
         rec.pc \in {"list", "select", "update"} => rec.op = "resume_campaign",
         rec.op = "resume_campaign" /\ rec.pc \in {"list", "select", "update", "status"} =>
           rec.seen = "PAUSED",
         rec.pc = "update" => rec.cur \in MailJobs /\ rec.row \in MailStatus,
         rec.pc \in {"snapshot", "cancelling"} =>
           rec.op = "cancel_campaign" /\ rec.target = "CANCELLED",
         rec.op = "cancel_campaign" /\ rec.pc \in {"status", "commit"} => rec.target = "CANCELLED",
         rec.op # "cancel_campaign" => rec.target # "CANCELLED"
  PROVE  SessionTypes' /\ SessionsFit'
<1>1. SessionTypes'
  BY DEF Typed, SessionTypes
<1>2. req'[q] = rec /\ q \in Sessions /\ q \notin Runs /\ q \notin Tasks
  BY Apart DEF Typed, SessionTypes
<1>3. q \notin Sweepers /\ q \notin Schedulers
  BY <1>2 DEF Runs
<1>4. EditFits(q)'
  <2>1. EditFits(q)
    BY <1>2 DEF Typed, SessionsFit
  <2> QED
    BY <1>2, <1>3, <2>1 DEF EditFits, Editing
<1>5. \A x \in Requests : x # q => req'[x] = req[x]
  BY DEF Typed, SessionTypes
<1>6. RequestFits(q)'
  BY <1>2 DEF RequestFits
<1> QED
  BY <1>1, <1>2, <1>3, <1>4, <1>5, <1>6, FitStep DEF Typed

\* A request that is answered has no operation, no target and no plan.
LEMMA AnsweredFacts ==
  /\ Answered \in RequestRecords /\ Answered.pc = "done" /\ Answered.op = None
  /\ Answered.target = None /\ Answered.plan = {}
  BY RequestRecordFacts DEF Answered, Request

\* The one UPDATE of pause_all, resume_all and set_replied.
LEMMA AppliedTyped ==
  ASSUME Typed, NEW q \in Requests,
         \/ \E b \in BOOLEAN : set_paused_all(q, b)
         \/ \E r \in Recipients, b \in BOOLEAN : set_replied(q, r, b)
  PROVE  /\ rows' \in Tables(Recipients, RecipientRow, Sessions)
         /\ rows'.lock = rows.lock
         /\ \A r \in Recipients : rows.lock[r] = Free /\ rows.next[r] = rows.live[r]
                                    => rows'.next[r] = rows'.live[r]
         /\ req[q].pc = "new" /\ req' = [req EXCEPT ![q] = Answered]
         /\ UNCHANGED <<mail, camp, queue, waited, edit, run, task, mailed, counted>>
<1>0. rows \in Tables(Recipients, RecipientRow, Sessions)
  BY DEF Typed, TablesTyped
<1>1. ASSUME NEW b \in BOOLEAN, set_paused_all(q, b)
      PROVE  \E f, g \in [Recipients -> RecipientRow] :
               /\ rows' = [rows EXCEPT !.live = f, !.next = g]
               /\ \A r \in Recipients : rows.next[r] = rows.live[r] => f[r] = g[r]
  <2>1. PICK f : f = [r \in Recipients |-> IF r \in Recipients THEN [rows.live[r] EXCEPT !.paused = b]
                                                       ELSE rows.live[r]]
    OBVIOUS
  <2>2. PICK g : g = [r \in Recipients |-> IF r \in Recipients THEN [rows.next[r] EXCEPT !.paused = b]
                                                       ELSE rows.next[r]]
    OBVIOUS
  <2>3. rows.live \in [Recipients -> RecipientRow] /\ rows.next \in [Recipients -> RecipientRow]
    BY <1>0 DEF Tables
  <2>4. f \in [Recipients -> RecipientRow] /\ g \in [Recipients -> RecipientRow]
    BY <2>1, <2>2, <2>3, RowFacts
  <2>5. rows' = [rows EXCEPT !.live = f, !.next = g]
    BY <1>1, <2>1, <2>2 DEF set_paused_all, Apply
  <2>6. \A r \in Recipients : rows.next[r] = rows.live[r] => f[r] = g[r]
    BY <2>1, <2>2
  <2> QED
    BY <2>4, <2>5, <2>6
<1>2. ASSUME NEW r0 \in Recipients, NEW b \in BOOLEAN, set_replied(q, r0, b)
      PROVE  \E f, g \in [Recipients -> RecipientRow] :
               /\ rows' = [rows EXCEPT !.live = f, !.next = g]
               /\ \A r \in Recipients : rows.next[r] = rows.live[r] => f[r] = g[r]
  <2>1. PICK f : f = [r \in Recipients |-> IF r \in {r0} THEN [rows.live[r] EXCEPT !.replied = b]
                                                       ELSE rows.live[r]]
    OBVIOUS
  <2>2. PICK g : g = [r \in Recipients |-> IF r \in {r0} THEN [rows.next[r] EXCEPT !.replied = b]
                                                       ELSE rows.next[r]]
    OBVIOUS
  <2>3. rows.live \in [Recipients -> RecipientRow] /\ rows.next \in [Recipients -> RecipientRow]
    BY <1>0 DEF Tables
  <2>4. f \in [Recipients -> RecipientRow] /\ g \in [Recipients -> RecipientRow]
    BY <2>1, <2>2, <2>3, RowFacts
  <2>5. rows' = [rows EXCEPT !.live = f, !.next = g]
    BY <1>2, <2>1, <2>2 DEF set_replied, Apply
  <2>6. \A r \in Recipients : rows.next[r] = rows.live[r] => f[r] = g[r]
    BY <2>1, <2>2
  <2> QED
    BY <2>4, <2>5, <2>6
<1>3. PICK f \in [Recipients -> RecipientRow], g \in [Recipients -> RecipientRow] :
               /\ rows' = [rows EXCEPT !.live = f, !.next = g]
               /\ \A r \in Recipients : rows.next[r] = rows.live[r] => f[r] = g[r]
  BY <1>1, <1>2
<1>4. /\ rows' \in Tables(Recipients, RecipientRow, Sessions) /\ rows'.lock = rows.lock
      /\ rows'.live = f /\ rows'.next = g
  BY <1>0, <1>3 DEF Tables
<1>5. /\ req[q].pc = "new" /\ req' = [req EXCEPT ![q] = Answered]
      /\ UNCHANGED <<mail, camp, queue, waited, edit, run, task, mailed, counted>>
  BY DEF set_paused_all, set_replied, Apply
<1> QED
  BY <1>3, <1>4, <1>5

\* Every request that arrives, and every step it makes, keeps the types.
LEMMA RequestArrivesTyped ==
  ASSUME Typed, NEW q \in Requests, RequestArrives(q)
  PROVE  Typed'
<1>0. q \in Sessions /\ q \notin Runs /\ q \notin Tasks /\ TypeOK /\ req[q] \in RequestRecords
      /\ EditFits(q) /\ RequestFits(q)
  BY Apart, TypedIsTypeOK DEF Typed, SessionTypes, SessionsFit
<1>a. req[q].pc = "new"
  BY AppliedTyped DEF RequestArrives, ReadRecipients, ReadCampaign
<1>b. ~Editing(q) /\ mailed \in [Recipients -> Seq(Steps)]
  BY <1>0, <1>a DEF EditFits, Typed, SessionTypes
<1>c. Answered.target # "CANCELLED"
  BY AnsweredFacts, NoneAssumption DEF CampaignStatus
<1>1. CASE \/ \E b \in BOOLEAN : set_paused_all(q, b)
           \/ \E r \in Recipients, b \in BOOLEAN : set_replied(q, r, b)
  <2>1. /\ rows' \in Tables(Recipients, RecipientRow, Sessions)
        /\ req' = [req EXCEPT ![q] = Answered]
        /\ UNCHANGED <<mail, camp, queue, waited, edit, run, task, mailed, counted>>
    BY <1>1, AppliedTyped
  <2>2. SessionTypes' /\ SessionsFit'
    BY <1>b, <1>c, <2>1, AnsweredFacts, RequestTyped
  <2> QED
    BY <2>1, <2>2 DEF counted, Typed, TablesTyped
<1>2. ASSUME NEW op \in SequenceOps, NEW R \in SUBSET Recipients, ReadRecipients(q, op, R)
      PROVE  Typed'
  <2>1. op \in {"pause", "resume", "stop", "stop_all"}
    BY <1>2 DEF ReadRecipients
  <2>2. ASSUME NEW row \in RecipientRow PROVE Wanted(op, row) \in RecipientRow
    <3>1. SkipUnfinished(row.statuses) \in [Steps -> StepStatus]
      BY RowFacts DEF SkipUnfinished, StepStatus
    <3> QED
      BY <2>1, <3>1, RowFacts DEF Wanted
  <2>3. [r \in R |-> Wanted(op, View(rows, q, r))] \in [R -> RecipientRow]
    BY <1>0, <2>2, TypeFacts
  <2>4. PICK listed \in Listings : listed = [r \in R |-> Wanted(op, View(rows, q, r))]
    BY <2>3, ListingFacts
  <2>5. PICK rec : rec = [Request("write") EXCEPT !.listed = listed]
    OBVIOUS
  <2>6. /\ rec \in RequestRecords /\ rec.pc = "write" /\ rec.target = None
        /\ req' = [req EXCEPT ![q] = rec]
    BY <1>2, <2>4, <2>5, RequestRecordFacts DEF ReadRecipients, Request
  <2>7. SessionTypes' /\ SessionsFit'
    BY <1>2, <1>b, <2>6, NoneAssumption, RequestTyped DEF ReadRecipients, CampaignStatus
  <2> QED
    BY <1>2, <2>7 DEF ReadRecipients, tables, counted, Typed, TablesTyped
<1>3. ASSUME NEW op \in SequenceOps, ReadCampaign(q, op)
      PROVE  Typed'
  <2>1. op \in CampaignOps /\ View(camp, q, Campaign) \in CampaignStatus
    BY <1>0, <1>3, TypeFacts DEF ReadCampaign
  <2>2. PICK x \in CampaignStatus : x = View(camp, q, Campaign)
    BY <2>1
  <2>3. TargetOf(op) \in CampaignStatus
    BY DEF TargetOf, CampaignStatus
  <2>4. PICK rec : /\ req' = [req EXCEPT ![q] = rec]
                   /\ \/ /\ op = "resume_campaign" /\ x = "PAUSED"
                         /\ rec = [Request("list") EXCEPT !.op = op, !.seen = x]
                      \/ /\ op # "resume_campaign"
                         /\ rec = [Request("status") EXCEPT !.op = op, !.seen = x, !.target = TargetOf(op)]
                      \/ rec = Answered
    BY <1>3, <2>2 DEF ReadCampaign
  <2>5. rec \in RequestRecords
    <3>1. TargetOf(op) \in CampaignStatus /\ x \in CampaignStatus /\ op \in CampaignOps
      BY <2>1, <2>3
    <3>2. [Request("list") EXCEPT !.op = op, !.seen = x] \in RequestRecords
      BY <3>1, RequestRecordFacts
    <3>3. [Request("status") EXCEPT !.op = op, !.seen = x, !.target = TargetOf(op)] \in RequestRecords
      BY <3>1, RequestRecordFacts
    <3> QED
      BY <2>4, <3>2, <3>3, AnsweredFacts
  <2>6. \/ rec = Answered
        \/ /\ rec.pc = "list" /\ rec.op = "resume_campaign" /\ rec.target = None
           /\ rec.seen = "PAUSED"
        \/ rec.pc = "status" /\ rec.op = op /\ op # "resume_campaign" /\ rec.target = TargetOf(op)
    BY <2>4 DEF Request
  <2>7. SessionTypes' /\ SessionsFit'
    <3>1. CASE rec = Answered
      BY <1>3, <1>b, <1>c, <2>4, <2>5, <3>1, RequestTyped, AnsweredFacts DEF ReadCampaign
    <3>2. CASE /\ rec.pc = "list" /\ rec.op = "resume_campaign" /\ rec.target = None
               /\ rec.seen = "PAUSED"
      BY <1>3, <1>b, <2>4, <2>5, <3>2, NoneAssumption, RequestTyped DEF ReadCampaign, CampaignStatus
    <3>3. CASE rec.pc = "status" /\ rec.op = op /\ op # "resume_campaign" /\ rec.target = TargetOf(op)
      <4>1. op = "cancel_campaign" <=> TargetOf(op) = "CANCELLED"
        BY <2>1, <3>3 DEF CampaignOps, TargetOf
      <4> QED
        BY <1>3, <1>b, <2>3, <2>4, <2>5, <3>3, <4>1, RequestTyped, ZenonT(40) DEF ReadCampaign
    <3> QED
      BY <2>6, <3>1, <3>2, <3>3
  <2> QED
    BY <1>3, <2>7 DEF ReadCampaign, tables, counted, Typed, TablesTyped
<1> QED
  BY <1>1, <1>2, <1>3 DEF RequestArrives

\* A statement on several jobs keeps the table a table.
LEMMA PutAllRows ==
  ASSUME NEW K, NEW R, NEW S, NEW t \in Tables(K, R, S), NEW s \in S, NEW E, NEW row \in R
  PROVE  /\ PutAll(t, s, E, row) \in Tables(K, R, S) /\ PutAll(t, s, E, row).live = t.live
         /\ \A k \in K :
              /\ PutAll(t, s, E, row).next[k] = IF k \in E THEN row ELSE t.next[k]
              /\ PutAll(t, s, E, row).lock[k] = IF k \in E THEN s ELSE t.lock[k]
<1>1. [k \in DOMAIN t.next |-> IF k \in E THEN row ELSE t.next[k]] \in [K -> R]
  BY DEF Tables
<1>2. [k \in DOMAIN t.lock |-> IF k \in E THEN s ELSE t.lock[k]] \in [K -> S \cup {Free}]
  BY DEF Tables
<1> QED
  BY <1>1, <1>2 DEF PutAll, Tables

\* A step of a request keeps the types.
LEMMA RequestStepTyped ==
  ASSUME Typed, NEW q \in Requests, RequestStep(q)
  PROVE  Typed'
<1>0. q \in Sessions /\ q \notin Runs /\ q \notin Tasks /\ TypeOK /\ req[q] \in RequestRecords
      /\ EditFits(q) /\ RequestFits(q) /\ req[q].plan \subseteq MailJobs
  BY Apart, TypedIsTypeOK, RequestRecordFacts DEF Typed, SessionTypes, SessionsFit
<1>b. mailed \in [Recipients -> Seq(Steps)]
  BY DEF Typed, SessionTypes
<1>c. Answered.target # "CANCELLED"
  BY AnsweredFacts, NoneAssumption DEF CampaignStatus
<1>d. req[q].pc # "write" => ~Editing(q)
  BY <1>0 DEF EditFits
<1>1. CASE CommitRecipients(q)
  <2>1. ~Editing(q)
    BY <1>1 DEF CommitRecipients
  <2>2. SessionTypes' /\ SessionsFit'
    BY <1>1, <1>c, <2>1, RequestTyped, AnsweredFacts DEF CommitRecipients
  <2> QED
    BY <1>1, <2>2, CommitTyped DEF CommitRecipients, counted, Typed, TablesTyped
<1>2. ASSUME NEW r \in Recipients, UpdateRecipient(q, r) PROVE Typed'
  <2>1. req[q].listed \in Listings /\ r \in DOMAIN req[q].listed /\ req[q].pc = "write"
    BY <1>0, <1>2, RequestRecordFacts DEF UpdateRecipient
  <2>2. PICK new \in RecipientRow : new = req[q].listed[r]
    BY <2>1, ListingFacts
  <2>3. PICK e \in EditRecords : e = [at |-> "select", who |-> r, new |-> new, base |-> None]
    BY <2>2, EditRecordFacts
  <2>4. edit' = [edit EXCEPT ![q] = e]
    BY <1>2, <2>2, <2>3 DEF Edit, UpdateRecipient
  <2>5. PICK rec : rec = [req[q] EXCEPT !.listed = Without(req[q].listed, r)]
    OBVIOUS
  <2>6. /\ rec \in RequestRecords /\ rec.pc = "write" /\ rec.op = req[q].op /\ rec.target = req[q].target
        /\ req' = [req EXCEPT ![q] = rec]
    <3>1. Without(req[q].listed, r) \in Listings
      BY <2>1, ListingFacts
    <3>2. rec \in RequestRecords
      BY <1>0, <2>5, <3>1, RequestRecordFacts
    <3>3. rec.pc = "write" /\ rec.op = req[q].op /\ rec.target = req[q].target
      BY <1>0, <2>1, <2>5 DEF RequestRecords
    <3> QED
      BY <1>2, <2>5, <3>2, <3>3 DEF UpdateRecipient
  <2>7. SessionTypes'
    BY <1>0, <1>2, <2>4, <2>6 DEF UpdateRecipient, Typed, SessionTypes
  <2>8. EditFits(q)' /\ RequestFits(q)'
    <3>1. edit'[q] = e /\ req'[q] = rec /\ e.at = "select" /\ e.who = r /\ e.new = new
      BY <1>0, <2>3, <2>4, <2>6 DEF Typed, SessionTypes
    <3>2. q \notin Schedulers /\ q \notin Sweepers
      BY <1>0 DEF Runs
    <3>3. EditFits(q)'
      BY <1>0, <2>6, <3>1, <3>2 DEF EditFits
    <3> QED
      BY <1>0, <2>6, <3>1, <3>3 DEF RequestFits
  <2>9. SessionsFit'
    <3>1. q \notin Sweepers
      BY <1>0 DEF Runs
    <3> QED
      BY <1>0, <1>2, <2>4, <2>6, <2>8, <3>1, FitStep DEF UpdateRecipient, Typed, SessionTypes
  <2> QED
    BY <1>2, <2>7, <2>9 DEF UpdateRecipient, tables, counted, Typed, TablesTyped
<1>3. CASE ListMail(q)
  <2>1. PICK J \in SUBSET MailJobs, pc \in {"select", "status"}, y \in {"COMPLETED", "SENDING"} :
          req' = [req EXCEPT ![q] = [@ EXCEPT !.target = y, !.pc = pc, !.todo = J, !.plan = J]]
    <3>1. LiveMail(q) \subseteq MailJobs
      BY DEF LiveMail
    <3>2. PICK J \in SUBSET LiveMail(q) :
            req' = [req EXCEPT ![q] =
              [@ EXCEPT !.target = IF LiveMail(q) = {} THEN "COMPLETED" ELSE "SENDING",
                        !.pc = IF J = {} THEN "status" ELSE "select",
                        !.todo = J, !.plan = J]]
      BY <1>3 DEF ListMail
    <3>3. J \in SUBSET MailJobs
      BY <3>1
    <3> QED
      BY <3>2, <3>3
  <2>2. PICK rec : rec = [req[q] EXCEPT !.target = y, !.pc = pc, !.todo = J, !.plan = J]
    OBVIOUS
  <2>3. req' = [req EXCEPT ![q] = rec] /\ rec \in RequestRecords
    <3>1. y \in CampaignStatus
      BY DEF CampaignStatus
    <3> QED
      BY <1>0, <2>1, <2>2, <3>1, RequestRecordFacts
  <2>4. /\ rec.pc \in {"select", "status"} /\ rec.target \in {"COMPLETED", "SENDING"}
        /\ rec.op = "resume_campaign" /\ rec.seen = "PAUSED"
    BY <1>0, <1>3, <2>2 DEF RequestRecords, RequestFits, ListMail
  <2>5. SessionTypes' /\ SessionsFit'
    BY <1>3, <1>b, <1>d, <2>3, <2>4, RequestTyped DEF ListMail, CampaignStatus
  <2> QED
    BY <1>3, <2>5 DEF ListMail, tables, counted, Typed, TablesTyped
<1>9. ASSUME NEW j \in MailJobs, SelectMail(q, j) PROVE Typed'
  <2>1. PICK x \in MailStatus : x = View(mail, q, j)
    BY <1>0, TypeFacts
  <2>2. PICK rec : rec = [req[q] EXCEPT !.pc = "update", !.cur = j, !.row = x]
    OBVIOUS
  <2>3. req' = [req EXCEPT ![q] = rec] /\ rec \in RequestRecords
    BY <1>0, <1>9, <2>1, <2>2, RequestRecordFacts DEF SelectMail
  <2>4. /\ rec.pc = "update" /\ rec.target = req[q].target /\ rec.op = req[q].op
        /\ rec.seen = req[q].seen /\ rec.cur = j /\ rec.row = x
    BY <1>0, <2>2 DEF RequestRecords
  <2>5. /\ req[q].pc = "select" /\ ~Editing(q)
        /\ rec.target \in CampaignStatus /\ rec.target # "CANCELLED"
        /\ rec.op = "resume_campaign" /\ rec.seen = "PAUSED"
    BY <1>0, <1>9, <1>d, <2>4 DEF SelectMail, RequestFits
  <2>6. edit' = edit /\ run' = run /\ task' = task /\ mailed' = mailed
    BY <1>9 DEF SelectMail
  <2>7. SessionTypes' /\ SessionsFit'
    BY <2>3, <2>4, <2>5, <2>6, RequestTyped
  <2> QED
    BY <1>9, <2>7 DEF SelectMail, tables, counted, Typed, TablesTyped
<1>10. CASE UpdateMail(q)
  <2>1. PICK J \in SUBSET MailJobs, pc \in {"select", "status"} :
          req' = [req EXCEPT ![q] = [@ EXCEPT !.pc = pc, !.todo = J, !.cur = None, !.row = None]]
    <3>1. req[q].todo \ {req[q].cur} \in SUBSET MailJobs
      BY <1>0, RequestRecordFacts
    <3> QED
      BY <1>10, <3>1 DEF UpdateMail
  <2>2. PICK rec : rec = [req[q] EXCEPT !.pc = pc, !.todo = J, !.cur = None, !.row = None]
    OBVIOUS
  <2>3. req' = [req EXCEPT ![q] = rec] /\ rec \in RequestRecords
    BY <1>0, <2>1, <2>2, RequestRecordFacts
  <2>4. /\ rec.pc \in {"select", "status"} /\ rec.target = req[q].target /\ rec.op = req[q].op
        /\ rec.seen = req[q].seen
    BY <1>0, <2>2 DEF RequestRecords
  <2>5. SessionTypes' /\ SessionsFit'
    <3>1. /\ req[q].pc = "update" /\ edit' = edit /\ run' = run /\ task' = task
          /\ mailed' = mailed
      BY <1>10 DEF UpdateMail
    <3>2. /\ rec.target \in CampaignStatus /\ rec.op = "resume_campaign" /\ rec.seen = "PAUSED"
          /\ rec.target # "CANCELLED" /\ ~Editing(q)
      BY <1>0, <1>d, <2>4, <3>1 DEF RequestFits
    <3> QED
      BY <2>3, <2>4, <3>1, <3>2, RequestTyped
  <2>6. mail' \in Tables(MailJobs, MailStatus, Sessions)
    <3>1. req[q].cur \in MailJobs
      BY <1>0, <1>10 DEF UpdateMail, RequestFits
    <3>2. PICK x \in MailStatus : mail' = Put(mail, q, req[q].cur, x)
      BY <1>0, <1>10, <3>1, TypeFacts DEF UpdateMail, MailStatus
    <3> QED
      BY <1>0, <3>1, <3>2, PutRow DEF Typed, TablesTyped
  <2> QED
    BY <1>10, <2>5, <2>6 DEF UpdateMail, counted, Typed, TablesTyped
<1>4. CASE WriteCampaign(q)
  <2>0. req[q].pc = "status" /\ req[q].target \in CampaignStatus
    BY <1>0, <1>4 DEF WriteCampaign, RequestFits
  <2>1. CASE View(camp, q, Campaign) = req[q].seen
    <3>1. PICK rec : rec = [req[q] EXCEPT !.pc = IF req[q].op = "cancel_campaign" THEN "snapshot" ELSE "commit"]
      OBVIOUS
    <3>2. /\ req' = [req EXCEPT ![q] = rec] /\ rec \in RequestRecords
          /\ rec.pc = IF req[q].op = "cancel_campaign" THEN "snapshot" ELSE "commit"
          /\ rec.op = req[q].op /\ rec.target = req[q].target
      <4>1. rec \in RequestRecords
        BY <1>0, <3>1, RequestRecordFacts
      <4>2. /\ rec.pc = IF req[q].op = "cancel_campaign" THEN "snapshot" ELSE "commit"
          /\ rec.op = req[q].op /\ rec.target = req[q].target
        BY <1>0, <3>1 DEF RequestRecords
      <4> QED
        BY <1>4, <2>1, <3>1, <4>1, <4>2 DEF WriteCampaign
    <3>3. SessionTypes' /\ SessionsFit'
      BY <1>0, <1>4, <1>b, <1>d, <2>0, <3>2, RequestTyped DEF WriteCampaign, RequestFits
    <3>4. camp' \in Tables({Campaign}, CampaignStatus, Sessions)
      BY <1>0, <1>4, <2>0, <2>1, StatusTyped DEF WriteCampaign, Typed
    <3> QED
      BY <1>4, <2>1, <3>3, <3>4 DEF WriteCampaign, counted, Typed, TablesTyped
  <2>2. CASE Discarded({q}) /\ req' = [req EXCEPT ![q] = Answered]
    <3>1. SessionTypes' /\ SessionsFit'
      BY <1>4, <1>c, <1>d, <2>0, <2>2, RequestTyped, AnsweredFacts DEF WriteCampaign
    <3> QED
      BY <1>4, <2>2, <3>1, DiscardTyped DEF WriteCampaign, counted, Typed, TablesTyped
  <2> QED
    BY <1>4, <2>1, <2>2 DEF WriteCampaign
<1>5. CASE SnapshotMail(q)
  <2>0. LiveMail(q) \in SUBSET MailJobs
    BY DEF LiveMail
  <2>1. PICK rec : rec = [req[q] EXCEPT !.pc = "cancelling", !.plan = LiveMail(q)]
    OBVIOUS
  <2>2. /\ req' = [req EXCEPT ![q] = rec] /\ rec \in RequestRecords
        /\ rec.pc = "cancelling" /\ rec.op = req[q].op /\ rec.target = req[q].target
    <3>1. rec \in RequestRecords
      BY <1>0, <2>0, <2>1, RequestRecordFacts
    <3>2. rec.pc = "cancelling" /\ rec.op = req[q].op /\ rec.target = req[q].target
      BY <1>0, <2>1 DEF RequestRecords
    <3> QED
      BY <1>5, <2>1, <3>1, <3>2 DEF SnapshotMail
  <2>3. SessionTypes' /\ SessionsFit'
    BY <1>0, <1>5, <1>b, <1>d, <2>2, RequestTyped DEF SnapshotMail, RequestFits
  <2> QED
    BY <1>5, <2>3 DEF SnapshotMail, tables, counted, Typed, TablesTyped
<1>6. CASE CancelMail(q)
  <2>1. PICK rec : rec = [req[q] EXCEPT !.pc = "commit", !.plan = {}]
    OBVIOUS
  <2>2. /\ req' = [req EXCEPT ![q] = rec] /\ rec \in RequestRecords
        /\ rec.pc = "commit" /\ rec.op = req[q].op /\ rec.target = req[q].target
    <3>1. {} \in SUBSET MailJobs
      OBVIOUS
    <3>2. rec \in RequestRecords
      BY <1>0, <2>1, <3>1, RequestRecordFacts
    <3>3. rec.pc = "commit" /\ rec.op = req[q].op /\ rec.target = req[q].target
      BY <1>0, <2>1 DEF RequestRecords
    <3> QED
      BY <1>6, <2>1, <3>2, <3>3 DEF CancelMail
  <2>3. SessionTypes' /\ SessionsFit'
    BY <1>0, <1>6, <1>b, <1>d, <2>2, RequestTyped DEF CancelMail, RequestFits
  <2>4. mail' \in Tables(MailJobs, MailStatus, Sessions)
    BY <1>0, <1>6, PutAllRows DEF CancelMail, Typed, TablesTyped, MailStatus
  <2> QED
    BY <1>6, <2>3, <2>4 DEF CancelMail, counted, Typed, TablesTyped
<1>7. CASE CommitCampaign(q)
  <2>1. PICK rec : rec = [req[q] EXCEPT !.pc = "enqueue"]
    OBVIOUS
  <2>2. /\ req' = [req EXCEPT ![q] = rec] /\ rec \in RequestRecords
        /\ rec.pc = "enqueue" /\ rec.op = req[q].op /\ rec.target = req[q].target
    <3>1. rec \in RequestRecords
      BY <1>0, <2>1, RequestRecordFacts
    <3>2. rec.pc = "enqueue" /\ rec.op = req[q].op /\ rec.target = req[q].target
      BY <1>0, <2>1 DEF RequestRecords
    <3> QED
      BY <1>7, <2>1, <3>1, <3>2 DEF CommitCampaign
  <2>3. SessionTypes' /\ SessionsFit'
    BY <1>0, <1>7, <1>b, <1>d, <2>2, RequestTyped DEF CommitCampaign, RequestFits
  <2>4. reverted' \subseteq MailJobs
    BY <1>7 DEF CommitCampaign, Overwritten, Typed, TablesTyped
  <2> QED
    BY <1>7, <2>3, <2>4, CommitTyped DEF CommitCampaign, Typed, TablesTyped
<1>8. CASE EnqueuePlan(q)
  <2>1. PICK rec : rec = [Answered EXCEPT !.op = req[q].op, !.target = req[q].target]
    OBVIOUS
  <2>2. /\ req' = [req EXCEPT ![q] = rec] /\ rec \in RequestRecords
        /\ rec.pc = "done" /\ rec.op = req[q].op /\ rec.target = req[q].target
    BY <1>0, <1>8, <2>1, RequestRecordFacts DEF EnqueuePlan, Answered, Request
  <2>3. SessionTypes' /\ SessionsFit'
    BY <1>0, <1>8, <1>b, <1>d, <2>2, RequestTyped DEF EnqueuePlan, RequestFits
  <2>4. queue' \in [MailJobs -> Nat]
    BY <1>8 DEF EnqueuePlan, Enqueued, Typed, TablesTyped
  <2> QED
    BY <1>8, <2>3, <2>4 DEF EnqueuePlan, tables, counted, Typed, TablesTyped
<1> QED
  BY <1>1, <1>2, <1>3, <1>4, <1>5, <1>6, <1>7, <1>8, <1>9, <1>10 DEF RequestStep

\* So does every step of an update of a recipient's row.
LEMMA EditStepTyped ==
  ASSUME Typed, NEW s \in Sessions, EditStep(s) \/ WriteFails(s)
  PROVE  Typed'
<1>0. TypeOK /\ edit[s] \in EditRecords /\ EditFits(s) /\ mailed \in [Recipients -> Seq(Steps)]
  BY TypedIsTypeOK DEF Typed, SessionTypes, SessionsFit
<1>a. /\ SelectRow(s) \/ WriteRow(s) =>
           /\ edit[s].who \in Recipients /\ edit[s].new \in RecipientRow
           /\ edit[s].at = "write" => edit[s].base \in RecipientRow
      /\ s \notin Sweepers
  BY <1>0, Apart DEF EditStep, SelectRow, WriteRow, WriteFails, Editing, EditFits
<1>b. /\ s \in Tasks => TaskFits(s)
      /\ s \in Requests => RequestFits(s)
  BY DEF Typed, SessionsFit
<1>1. CASE SelectRow(s)
  <2>1. PICK row \in RecipientRow : row = View(rows, s, edit[s].who)
    BY <1>0, <1>1, <1>a, TypeFacts
  <2>2. PICK e : e = [edit[s] EXCEPT !.at = "write", !.base = row]
    OBVIOUS
  <2>3. e \in EditRecords
    BY <1>0, <2>2, EditRecordFacts
  <2>4. /\ e.at = "write" /\ e.base = row /\ e.who = edit[s].who /\ e.new = edit[s].new
        /\ edit' = [edit EXCEPT ![s] = e]
    BY <1>0, <1>1, <2>1, <2>2 DEF EditRecords, SelectRow
  <2>5. SessionTypes'
    BY <1>1, <2>3, <2>4 DEF SelectRow, actors, Typed, SessionTypes
  <2>6. edit'[s] = e /\ run' = run /\ task' = task /\ req' = req
    BY <1>1, <2>4 DEF SelectRow, actors, Typed, SessionTypes
  <2>7. EditFits(s)'
    BY <1>0, <1>1, <1>a, <2>4, <2>6 DEF EditFits, Editing, SelectRow
  <2>8. \A x \in Sessions : x # s => edit'[x] = edit[x]
    BY <2>4 DEF Typed, SessionTypes
  <2>9. SessionsFit'
    BY <1>a, <1>b, <2>6, <2>7, <2>8, FitStep DEF Typed, TaskFits, RequestFits
  <2> QED
    BY <1>1, <2>5, <2>9 DEF SelectRow, tables, counted, Typed, TablesTyped
<1>2. CASE WriteRow(s)
  <2>1. PICK r \in Recipients : r = edit[s].who
    BY <1>2, <1>a
  <2>2. PICK row \in RecipientRow :
          row = LET x == Changed(View(rows, s, r), edit[s].base, edit[s].new)
                IN IF Stamped(s) THEN [x EXCEPT !.statuses = edit[s].new.statuses] ELSE x
    <3>1. /\ edit[s].base \in RecipientRow /\ View(rows, s, r) \in RecipientRow
          /\ edit[s].new \in RecipientRow
      <4>1. edit[s].at = "write"
        BY <1>2 DEF WriteRow
      <4> QED
        BY <1>0, <1>2, <1>a, <2>1, <4>1, TypeFacts
    <3>2. PICK x \in RecipientRow : x = Changed(View(rows, s, r), edit[s].base, edit[s].new)
      BY <3>1, RowFacts
    <3>3. [x EXCEPT !.statuses = edit[s].new.statuses] \in RecipientRow
      BY <3>1, RowFacts DEF RecipientRow
    <3> QED
      BY <3>2, <3>3
  <2>3. rows' = Put(rows, s, r, row) /\ edit' = [edit EXCEPT ![s] = NoEdit]
    BY <1>2, <2>1, <2>2 DEF WriteRow
  <2>4. rows' \in Tables(Recipients, RecipientRow, Sessions)
    BY <2>3, PutRow DEF Typed, TablesTyped
  <2>5. SessionTypes'
    BY <1>2, <2>3, EditRecordFacts DEF WriteRow, actors, Typed, SessionTypes
  <2>6. edit'[s] = NoEdit /\ run' = run /\ task' = task /\ req' = req
    BY <1>2, <2>3 DEF WriteRow, actors, Typed, SessionTypes
  <2>7. EditFits(s)'
    BY <2>6, EditRecordFacts DEF EditFits, Editing
  <2>8. \A x \in Sessions : x # s => edit'[x] = edit[x]
    BY <2>3 DEF Typed, SessionTypes
  <2>9. SessionsFit'
    BY <1>a, <1>b, <2>6, <2>7, <2>8, FitStep DEF Typed, TaskFits, RequestFits
  <2> QED
    BY <1>2, <2>4, <2>5, <2>9 DEF WriteRow, counted, Typed, TablesTyped
<1>3. CASE WriteFails(s)
  <2>1. /\ Discarded({s}) /\ edit' = [edit EXCEPT ![s] = NoEdit]
        /\ run' = IF s \in Runs THEN [run EXCEPT ![s] = IdleRun] ELSE run
        /\ task' = IF s \in Tasks THEN [task EXCEPT ![s] = IdleTask] ELSE task
        /\ req' = IF s \in Requests THEN [req EXCEPT ![s] = Answered] ELSE req
        /\ UNCHANGED <<queue, waited, mailed, counted>>
    BY <1>3 DEF WriteFails
  <2>2. edit' \in [Sessions -> EditRecords] /\ edit'[s] = NoEdit
        /\ \A x \in Sessions : x # s => edit'[x] = edit[x]
    BY <2>1, EditRecordFacts DEF Typed, SessionTypes
  <2>3. run' \in [Runs -> RunRecords] /\ \A x \in Runs : x # s => run'[x] = run[x]
    BY <2>1, RunRecordFacts DEF Typed, SessionTypes
  <2>4. /\ task' \in [Tasks -> TaskRecords] /\ \A x \in Tasks : x # s => task'[x] = task[x]
        /\ s \in Tasks => task'[s] = IdleTask
    BY <2>1, TaskRecordFacts DEF Typed, SessionTypes
  <2>5. /\ req' \in [Requests -> RequestRecords] /\ \A x \in Requests : x # s => req'[x] = req[x]
        /\ s \in Requests => req'[s] = Answered
    BY <2>1, RequestRecordFacts DEF Typed, SessionTypes
  <2>6. SessionTypes'
    BY <1>0, <2>1, <2>2, <2>3, <2>4, <2>5 DEF SessionTypes
  <2>7. EditFits(s)'
    BY <2>2, EditRecordFacts DEF EditFits, Editing
  <2>8. s \in Tasks => TaskFits(s)'
    BY <2>4 DEF TaskFits, IdleTask
  <2>9. s \in Requests => RequestFits(s)'
    BY <2>5, AnsweredFacts, NoneAssumption DEF RequestFits, CampaignStatus, CampaignOps
  <2>10. SessionsFit'
    BY <1>a, <2>2, <2>3, <2>4, <2>5, <2>7, <2>8, <2>9, FitStep DEF Typed
  <2> QED
    BY <2>1, <2>6, <2>10, DiscardTyped DEF counted, Typed, TablesTyped
<1> QED
  BY <1>1, <1>2, <1>3 DEF EditStep

\* So does a crash of the worker.
LEMMA CrashTyped ==
  ASSUME Typed, WorkerCrash
  PROVE  Typed'
<1>1. queue' \in [MailJobs -> Nat]
  <2>1. ASSUME NEW j \in MailJobs
        PROVE  Cardinality({t \in Tasks : task[t].pc # "idle" /\ task[t].job = j}) \in Nat
    <3>1. IsFiniteSet({t \in Tasks : task[t].pc # "idle" /\ task[t].job = j})
      BY SessionsAssumption, FS_Subset
    <3> QED
      BY <3>1, FS_CardinalityType
  <2> QED
    BY <2>1 DEF WorkerCrash, Typed, TablesTyped
<1>2. crashes' \in 0..MaxCrashes
  BY CrashesAssumption DEF WorkerCrash, Typed, TablesTyped
<1>3. SessionTypes'
  BY RunRecordFacts, TaskRecordFacts, EditRecordFacts DEF WorkerCrash, Typed, SessionTypes
<1>4. SessionsFit'
  <2>1. ASSUME NEW s \in Sessions PROVE EditFits(s)'
    <3>1. CASE s \in Requests
      <4>1. EditFits(s) /\ edit'[s] = edit[s] /\ req' = req
        BY <2>1, <3>1 DEF WorkerCrash, Typed, SessionsFit
      <4>2. s \notin Schedulers /\ s \notin Sweepers /\ s \notin Tasks
        BY <3>1, Apart DEF Runs
      <4> QED
        BY <3>1, <4>1, <4>2 DEF EditFits, Editing
    <3>2. CASE s \notin Requests
      <4>1. edit'[s] = NoEdit
        BY <2>1, <3>2 DEF WorkerCrash
      <4> QED
        BY <4>1, EditRecordFacts DEF EditFits, Editing
    <3> QED
      BY <3>1, <3>2
  <2>2. \A s \in Sweepers : (run[s].pc # "visit")'
    BY Apart DEF WorkerCrash, IdleRun
  <2>3. \A t \in Tasks : TaskFits(t)'
    BY DEF WorkerCrash, TaskFits, IdleTask
  <2>4. \A q \in Requests : RequestFits(q)'
    BY DEF WorkerCrash, RequestFits, Typed, SessionsFit
  <2> QED
    BY <2>1, <2>2, <2>3, <2>4 DEF SessionsFit
<1> QED
  BY <1>1, <1>2, <1>3, <1>4, DiscardTyped DEF WorkerCrash, Typed, TablesTyped

\* In the beginning the tables are filled and every session is to come.
LEMMA InitTyped == Init => Typed
<1> SUFFICES ASSUME Init PROVE Typed
  OBVIOUS
<1>1. rows \in Tables(Recipients, RecipientRow, Sessions)
  BY RowFacts DEF Init, Committed, Tables
<1>2. mail \in Tables(MailJobs, MailStatus, Sessions)
  BY DEF Init, Committed, Tables, MailStatus
<1>3. camp \in Tables({Campaign}, CampaignStatus, Sessions)
  BY DEF Init, Committed, Tables, CampaignStatus
<1>4. TablesTyped
  BY <1>1, <1>2, <1>3, CrashesAssumption DEF Init, TablesTyped
<1>5. SessionTypes
  <2>1. edit \in [Sessions -> EditRecords]
    BY EditRecordFacts DEF Init
  <2>2. run \in [Runs -> RunRecords]
    BY RunRecordFacts DEF Init
  <2>3. task \in [Tasks -> TaskRecords]
    BY TaskRecordFacts DEF Init
  <2>4. req \in [Requests -> RequestRecords]
    <3>1. Request("new") \in RequestRecords
      BY RequestRecordFacts
    <3> QED
      BY <3>1 DEF Init
  <2>5. mailed \in [Recipients -> Seq(Steps)]
    BY DEF Init
  <2> QED
    BY <2>1, <2>2, <2>3, <2>4, <2>5 DEF SessionTypes
<1>6. \A s \in Sessions : EditFits(s)
  BY EditRecordFacts DEF Init, EditFits, Editing
<1>7. \A s \in Sweepers : run[s].pc # "visit"
  BY Apart DEF Init, IdleRun
<1>8. \A t \in Tasks : TaskFits(t)
  BY DEF Init, TaskFits, IdleTask
<1>9. \A q \in Requests : RequestFits(q)
  BY NoneAssumption DEF Init, RequestFits, Request, CampaignStatus, CampaignOps
<1> QED
  BY <1>4, <1>5, <1>6, <1>7, <1>8, <1>9 DEF Typed, SessionsFit

\* Every step keeps the types.
LEMMA StepTyped == Typed /\ [Next]_vars => Typed'
<1> SUFFICES ASSUME Typed, [Next]_vars PROVE Typed'
  OBVIOUS
<1>1. CASE UNCHANGED vars
  <2>1. SessionTypes'
    BY <1>1 DEF vars, actors, Typed, SessionTypes
  <2>2. \A s \in Sessions : EditFits(s)'
    BY <1>1 DEF vars, actors, Typed, SessionsFit, EditFits, Editing
  <2>3. SessionsFit'
    BY <1>1, <2>2 DEF vars, actors, Typed, SessionsFit, TaskFits, RequestFits
  <2> QED
    BY <1>1, <2>1, <2>3 DEF vars, tables, counted, Typed, TablesTyped
<1>2. ASSUME NEW r \in Recipients, NEW n \in Steps, WaitOver(r, n) PROVE Typed'
  <2>0. UNCHANGED <<tables, queue, edit, actors, mailed, counted>> /\ waited' \subseteq Recipients \X Steps
    BY <1>2 DEF WaitOver, Typed, TablesTyped
  <2>1. SessionTypes'
    BY <2>0 DEF actors, Typed, SessionTypes
  <2>2. \A s \in Sessions : EditFits(s)'
    BY <2>0 DEF actors, Typed, SessionsFit, EditFits, Editing
  <2>3. SessionsFit'
    BY <2>0, <2>2 DEF actors, Typed, SessionsFit, TaskFits, RequestFits
  <2> QED
    BY <2>0, <2>1, <2>3 DEF tables, counted, Typed, TablesTyped
<1> QED
  BY <1>1, <1>2, RunStepTyped, TaskStepTyped, RequestArrivesTyped, RequestStepTyped,
     EditStepTyped, CrashTyped DEF Next

\* Every row, job and record stays of its type, whatever is asked for.
THEOREM FollowUpsTyped == Spec => []TypeOK
<1>1. Spec => []Typed
  BY InitTyped, StepTyped, PTL DEF Spec
<1> QED
  BY <1>1, TypedIsTypeOK, PTL
-----------------------------------------------------------------------------
(***************************************************************************)
(* A cancel: every waiting job is found, or was committed too late.        *)
(***************************************************************************)
Held == Typed /\ MailHeld

\* The rows of the jobs: written by nobody, or by the session that holds them.
LEMMA HeldFacts ==
  ASSUME Held, NEW j \in MailJobs
  PROVE  /\ JobHeld(j) /\ mail.lock[j] \in Sessions \cup {Free}
         /\ \A t \in Tasks : mail.lock[j] = t => TaskHoldsJob(t, j)
         /\ \A s \in Runs : mail.lock[j] = s => RunHoldsJob(s, j)
         /\ \A q \in Requests : mail.lock[j] = q => RequestHoldsJob(q, j)
<1>1. TypeOK
  BY TypedIsTypeOK DEF Held
<1> QED
  BY <1>1, TypeFacts, Apart DEF Held, MailHeld, JobsHeld, JobHeld

\* A step of session s keeps what the others hold; what it holds, or writes, is for
\* each action to show.
LEMMA HeldStep ==
  ASSUME Held, NEW s \in Sessions,
         \A x \in Runs : x # s => run'[x] = run[x],
         \A x \in Tasks : x # s => task'[x] = task[x],
         \A x \in Requests : x # s => req'[x] = req[x],
         \A j \in MailJobs :
           \/ JobHeld(j)'
           \/ /\ mail'.live[j] = mail.live[j] /\ mail'.next[j] = mail.next[j]
              /\ mail'.lock[j] = mail.lock[j] /\ mail.lock[j] # s
  PROVE  JobsHeld'
<1> SUFFICES ASSUME NEW j \in MailJobs,
                    mail'.live[j] = mail.live[j], mail'.next[j] = mail.next[j],
                    mail'.lock[j] = mail.lock[j], mail.lock[j] # s
             PROVE  JobHeld(j)'
  BY DEF JobsHeld
<1>1. JobHeld(j)
  BY DEF Held, MailHeld, JobsHeld
<1>2. mail'.lock[j] \in Tasks => TaskHoldsJob(mail.lock[j], j)'
  BY <1>1 DEF JobHeld, TaskHoldsJob
<1>3. mail'.lock[j] \in Runs => RunHoldsJob(mail.lock[j], j)'
  BY <1>1 DEF JobHeld, RunHoldsJob
<1>4. mail'.lock[j] \in Requests => RequestHoldsJob(mail.lock[j], j)'
  BY <1>1 DEF JobHeld, RequestHoldsJob
<1> QED
  BY <1>1, <1>2, <1>3, <1>4 DEF JobHeld

\* The record of session s changes and the jobs do not.
LEMMA HeldRecord ==
  ASSUME Held, NEW s \in Sessions, UNCHANGED mail,
         \A x \in Runs : x # s => run'[x] = run[x],
         \A x \in Tasks : x # s => task'[x] = task[x],
         \A x \in Requests : x # s => req'[x] = req[x],
         s \in Runs /\ run[s].pc # "idle" => run'[s].pc # "idle",
         s \in Tasks /\ task[s].pc \in {"state", "commit"} =>
           task'[s].pc \in {"state", "commit"} /\ task'[s].job = task[s].job,
         \A j \in MailJobs : s \in Requests /\ mail.lock[j] = s => RequestHoldsJob(s, j)'
  PROVE  JobsHeld'
<1>1. ASSUME NEW j \in MailJobs, mail.lock[j] = s PROVE JobHeld(j)'
  <2>1. /\ s \in Tasks => TaskHoldsJob(s, j)
        /\ s \in Runs => RunHoldsJob(s, j)
    BY <1>1, HeldFacts
  <2>2. /\ s \in Tasks => TaskHoldsJob(s, j)'
        /\ s \in Runs => RunHoldsJob(s, j)'
        /\ s \in Requests => RequestHoldsJob(s, j)'
    BY <1>1, <2>1 DEF TaskHoldsJob, RunHoldsJob
  <2> QED
    BY <1>1, <2>2, Apart DEF JobHeld
<1> QED
  BY <1>1, HeldStep

\* Session s ends: what it held is free.
LEMMA HeldEnd ==
  ASSUME Held, NEW s \in Sessions,
         mail' = Publish(mail, s) \/ mail' = Discard(mail, {s}),
         \A x \in Runs : x # s => run'[x] = run[x],
         \A x \in Tasks : x # s => task'[x] = task[x],
         \A x \in Requests : x # s => req'[x] = req[x]
  PROVE  JobsHeld'
<1>0. mail \in Tables(MailJobs, MailStatus, Sessions)
  BY DEF Held, Typed, TablesTyped
<1>1. ASSUME NEW j \in MailJobs, mail.lock[j] = s PROVE JobHeld(j)'
  <2>1. mail'.lock[j] = Free /\ mail'.next[j] = mail'.live[j]
    BY <1>0, <1>1, PublishRow, DiscardRow
  <2> QED
    BY <2>1, Apart DEF JobHeld
<1>2. ASSUME NEW j \in MailJobs, mail.lock[j] # s
      PROVE  /\ mail'.live[j] = mail.live[j] /\ mail'.next[j] = mail.next[j]
             /\ mail'.lock[j] = mail.lock[j]
  BY <1>0, <1>2, PublishRow, DiscardRow
<1> QED
  BY <1>1, <1>2, HeldStep

\* Every step of a run keeps the jobs held.
LEMMA RunStepHeld ==
  ASSUME Held, NEW s \in Runs, RunStep(s)
  PROVE  JobsHeld'
<1>0. s \in Sessions /\ s \notin Tasks /\ s \notin Requests /\ run \in [Runs -> RunRecords]
  BY Apart DEF Held, Typed, SessionTypes
<1>1. task' = task /\ req' = req /\ \A x \in Runs : x # s => run'[x] = run[x]
  BY <1>0 DEF RunStep, SchedulerStep, StartRun, CountActive, CompleteSequence, PassOver,
     FinishRecipient, Advance, SweepCountsLive, SweepCompletes, CommitRun, Visited
<1>2. CASE CommitRun(s)
  BY <1>0, <1>1, <1>2, HeldEnd DEF CommitRun, CommitTables
<1>3. ASSUME NEW r \in Recipients, Advance(s, r) PROVE JobsHeld'
  <2>1. PICK job \in NewCopy(r, Listed(s, r).step + 1) : mail' = Put(mail, s, job, "PENDING")
    BY <1>3 DEF Advance
  <2>2. job \in MailJobs /\ mail.next[job] = Absent
    BY <2>1 DEF NewCopy
  <2>3. mail.lock[job] = Free /\ mail.live[job] = Absent
    <3>1. JobHeld(job) /\ mail.lock[job] \in Sessions \cup {Free}
      BY <2>2, HeldFacts
    <3> QED
      BY <2>2, <3>1, Apart DEF JobHeld, TaskHoldsJob, RunHoldsJob, RequestHoldsJob, Absent
  <2>4. /\ mail'.live = mail.live /\ mail'.next = [mail.next EXCEPT ![job] = "PENDING"]
        /\ mail'.lock = [mail.lock EXCEPT ![job] = s]
        /\ mail.next \in [MailJobs -> MailStatus] /\ mail.lock \in [MailJobs -> Sessions \cup {Free}]
    <3>1. mail \in Tables(MailJobs, MailStatus, Sessions) /\ "PENDING" \in MailStatus
      BY DEF Held, Typed, TablesTyped, MailStatus
    <3>2. /\ mail'.live = mail.live /\ mail'.next = [mail.next EXCEPT ![job] = "PENDING"]
          /\ mail'.lock = [mail.lock EXCEPT ![job] = s]
      BY <1>0, <2>1, <2>2, <3>1, PutRow
    <3> QED
      BY <3>1, <3>2 DEF Tables
  <2>5. run'[s].pc = "visit" /\ run[s].pc = "visit"
    BY <1>0, <1>3, VisitFacts DEF Advance, Held, Visiting
  <2>6. ASSUME NEW j \in MailJobs, j = job \/ mail.lock[j] = s PROVE JobHeld(j)'
    <3>1. mail'.lock[j] = s /\ mail'.live[j] = Absent /\ mail'.next[j] = "PENDING"
      <4>1. CASE j = job
        BY <2>2, <2>3, <2>4, <4>1
      <4>2. CASE j # job
        <5>1. RunHoldsJob(s, j)
          BY <2>6, <4>2, HeldFacts
        <5> QED
          BY <2>4, <2>6, <4>2, <5>1 DEF RunHoldsJob
      <4> QED
        BY <4>1, <4>2
    <3> QED
      BY <1>0, <2>5, <3>1, Apart DEF JobHeld, RunHoldsJob
  <2>7. ASSUME NEW j \in MailJobs, j # job, mail.lock[j] # s
        PROVE  /\ mail'.live[j] = mail.live[j] /\ mail'.next[j] = mail.next[j]
               /\ mail'.lock[j] = mail.lock[j]
    BY <2>4, <2>7
  <2> QED
    BY <1>0, <1>1, <2>6, <2>7, HeldStep
<1>4. ASSUME UNCHANGED mail, run'[s].pc # "idle" PROVE JobsHeld'
  BY <1>0, <1>1, <1>4, HeldRecord
<1>5. ASSUME NEW r \in Recipients, PassOver(s, r) \/ FinishRecipient(s, r) PROVE JobsHeld'
  <2>1. run'[s].pc = "visit"
    BY <1>0, <1>5, VisitFacts DEF PassOver, FinishRecipient, Held
  <2> QED
    BY <1>4, <1>5, <2>1 DEF PassOver, FinishRecipient, tables
<1>6. CASE StartRun(s) \/ CountActive(s) \/ CompleteSequence(s) \/ SweepCountsLive(s) \/ SweepCompletes(s)
  <2>1. run'[s].pc # "idle"
    BY <1>0, <1>6 DEF StartRun, CountActive, CompleteSequence, SweepCountsLive, SweepCompletes, RunRecords
  <2>2. UNCHANGED mail
    BY <1>6 DEF StartRun, CountActive, CompleteSequence, SweepCountsLive, SweepCompletes, tables
  <2> QED
    BY <1>4, <2>1, <2>2
<1> QED
  BY <1>2, <1>3, <1>5, <1>6 DEF RunStep, SchedulerStep

\* Every step of a task keeps the jobs held: it claims a job nobody holds.
LEMMA TaskStepHeld ==
  ASSUME Held, NEW t \in Tasks, TaskStep(t)
  PROVE  JobsHeld'
<1>0. t \in Sessions /\ t \notin Runs /\ t \notin Requests /\ task \in [Tasks -> TaskRecords] /\ TaskFits(t)
  BY Apart DEF Held, Typed, SessionTypes, SessionsFit
<1>1. run' = run /\ req' = req /\ \A x \in Tasks : x # t => task'[x] = task[x]
  BY <1>0 DEF TaskStep, TakeCall, ClaimFails, Deliver, ReadState, CommitTask
<1>2. CASE CommitTask(t)
  BY <1>0, <1>1, <1>2, HeldEnd DEF CommitTask, CommitTables
<1>3. ASSUME NEW o \in Outcomes, Deliver(t, o) PROVE JobsHeld'
  <2>1. PICK job \in MailJobs : job = task[t].job
    BY <1>0, <1>3 DEF Deliver, TaskFits
  <2>2. task[t].pc = "claim" /\ View(mail, t, job) = "PENDING" /\ ~Locked(mail, t, job)
    BY <1>3, <2>1 DEF Deliver
  <2>3. mail.lock[job] = Free /\ mail.live[job] = "PENDING"
    <3>1. mail.lock[job] # t
      BY <2>2, HeldFacts DEF TaskHoldsJob
    <3> QED
      BY <2>2, <3>1 DEF View, Locked
  <2>4. PICK x \in {"SENT", "FAILED"} : mail' = Put(mail, t, job, x)
    BY <1>3, <2>1 DEF Deliver
  <2>5. /\ mail'.live = mail.live /\ mail'.next = [mail.next EXCEPT ![job] = x]
        /\ mail'.lock = [mail.lock EXCEPT ![job] = t]
        /\ mail.next \in [MailJobs -> MailStatus] /\ mail.lock \in [MailJobs -> Sessions \cup {Free}]
    <3>1. mail \in Tables(MailJobs, MailStatus, Sessions) /\ x \in MailStatus
      BY DEF Held, Typed, TablesTyped, MailStatus
    <3>2. /\ mail'.live = mail.live /\ mail'.next = [mail.next EXCEPT ![job] = x]
          /\ mail'.lock = [mail.lock EXCEPT ![job] = t]
      BY <1>0, <2>1, <2>4, <3>1, PutRow
    <3> QED
      BY <3>1, <3>2 DEF Tables
  <2>6. task'[t].pc \in {"state", "commit"} /\ task'[t].job = job
    BY <1>0, <1>3, <2>1 DEF Deliver
  <2>7. ASSUME NEW j \in MailJobs, j = job \/ mail.lock[j] = t PROVE JobHeld(j)'
    <3>1. j = job
      BY <2>2, <2>7, HeldFacts DEF TaskHoldsJob
    <3>2. mail'.lock[j] = t /\ mail'.live[j] = "PENDING" /\ mail'.next[j] = x
      BY <2>3, <2>5, <3>1
    <3> QED
      BY <1>0, <2>6, <3>1, <3>2, Apart DEF JobHeld, TaskHoldsJob
  <2>8. ASSUME NEW j \in MailJobs, j # job, mail.lock[j] # t
        PROVE  /\ mail'.live[j] = mail.live[j] /\ mail'.next[j] = mail.next[j]
               /\ mail'.lock[j] = mail.lock[j]
    BY <2>5, <2>8
  <2> QED
    BY <1>0, <1>1, <2>7, <2>8, HeldStep
<1>4. ASSUME UNCHANGED mail, task[t].pc \notin {"state", "commit"} PROVE JobsHeld'
  BY <1>0, <1>1, <1>4, HeldRecord
<1>5. ASSUME NEW j \in MailJobs, TakeCall(t, j) PROVE JobsHeld'
  BY <1>4, <1>5 DEF TakeCall, tables
<1>6. CASE ClaimFails(t)
  BY <1>4, <1>6 DEF ClaimFails, tables
<1>7. CASE ReadState(t)
  <2>1. task'[t].pc = "commit" /\ task'[t].job = task[t].job /\ UNCHANGED mail
    BY <1>0, <1>7 DEF ReadState, TaskRecords, tables
  <2> QED
    BY <1>0, <1>1, <2>1, HeldRecord
<1> QED
  BY <1>2, <1>3, <1>5, <1>6, <1>7 DEF TaskStep

\* So does every step of a request: it reschedules or cancels jobs nobody holds.
LEMMA RequestStepHeld ==
  ASSUME Held, NEW q \in Requests, RequestArrives(q) \/ RequestStep(q)
  PROVE  JobsHeld'
<1>0. q \in Sessions /\ q \notin Runs /\ q \notin Tasks /\ req \in [Requests -> RequestRecords] /\ RequestFits(q)
  BY Apart DEF Held, Typed, SessionTypes, SessionsFit
<1>a. ASSUME RequestArrives(q)
      PROVE  /\ req[q].pc = "new" /\ UNCHANGED mail /\ run' = run /\ task' = task
             /\ \A x \in Requests : x # q => req'[x] = req[x]
  <2>1. CASE \/ \E b \in BOOLEAN : set_paused_all(q, b)
             \/ \E r \in Recipients, b \in BOOLEAN : set_replied(q, r, b)
    BY <1>0, <2>1, AppliedTyped DEF Held
  <2>2. CASE \/ \E op \in SequenceOps, R \in SUBSET Recipients : ReadRecipients(q, op, R)
             \/ \E op \in SequenceOps : ReadCampaign(q, op)
    BY <1>0, <2>2 DEF ReadRecipients, ReadCampaign, tables
  <2> QED
    BY <1>a, <2>1, <2>2 DEF RequestArrives
<1>b. run' = run /\ task' = task /\ \A x \in Requests : x # q => req'[x] = req[x]
  <2>1. ASSUME RequestStep(q)
        PROVE  run' = run /\ task' = task /\ \A x \in Requests : x # q => req'[x] = req[x]
    BY <1>0, <2>1 DEF RequestStep, CommitRecipients, UpdateRecipient, ListMail, SelectMail,
       UpdateMail, WriteCampaign, SnapshotMail, CancelMail, CommitCampaign, EnqueuePlan
  <2> QED
    BY <1>a, <2>1
<1>1. ASSUME UNCHANGED mail, req[q].pc \notin {"select", "update", "status", "commit"}
      PROVE  JobsHeld'
  <2>1. \A j \in MailJobs : mail.lock[j] # q
    BY <1>1, HeldFacts DEF RequestHoldsJob
  <2> QED
    BY <1>0, <1>1, <1>b, <2>1, HeldRecord
<1>2. ASSUME mail' = Publish(mail, q) \/ mail' = Discard(mail, {q}) PROVE JobsHeld'
  BY <1>0, <1>2, <1>b, HeldEnd
<1>3. ASSUME NEW J, J \subseteq MailJobs, mail' = PutAll(mail, q, J, "CANCELLED"),
             \A j \in J : View(mail, q, j) = "PENDING" /\ ~Locked(mail, q, j),
             req[q].pc = "cancelling", req'[q].pc = "commit", req'[q].op = "cancel_campaign"
      PROVE  JobsHeld'
  <2>1. \A j \in MailJobs : mail.lock[j] # q
    BY <1>3, HeldFacts DEF RequestHoldsJob
  <2>2. \A j \in J : mail.live[j] = "PENDING"
    BY <1>3, <2>1 DEF View
  <2>3. /\ mail'.live = mail.live
        /\ \A j \in MailJobs : /\ mail'.next[j] = IF j \in J THEN "CANCELLED" ELSE mail.next[j]
                               /\ mail'.lock[j] = IF j \in J THEN q ELSE mail.lock[j]
    <3>1. mail \in Tables(MailJobs, MailStatus, Sessions) /\ "CANCELLED" \in MailStatus
      BY DEF Held, Typed, TablesTyped, MailStatus
    <3> QED
      BY <1>0, <1>3, <3>1, PutAllRows
  <2>4. ASSUME NEW j \in J PROVE JobHeld(j)'
    <3>1. /\ j \in MailJobs /\ mail'.live[j] = "PENDING" /\ mail'.next[j] = "CANCELLED"
          /\ mail'.lock[j] = q
      BY <1>3, <2>2, <2>3
    <3>2. RequestHoldsJob(q, j)'
      BY <1>3, <3>1 DEF RequestHoldsJob
    <3> QED
      BY <1>0, <3>1, <3>2, Apart DEF JobHeld
  <2> QED
    BY <1>0, <1>b, <2>1, <2>3, <2>4, HeldStep
<1>4. CASE RequestArrives(q)
  BY <1>1, <1>4, <1>a
<1>5. CASE CommitRecipients(q) \/ CommitCampaign(q)
  BY <1>2, <1>5 DEF CommitRecipients, CommitCampaign, CommitTables
<1>6. ASSUME NEW r \in Recipients, UpdateRecipient(q, r) PROVE JobsHeld'
  BY <1>1, <1>6 DEF UpdateRecipient, tables
<1>7. CASE ListMail(q)
  BY <1>1, <1>7 DEF ListMail, tables
<1>11. ASSUME NEW j \in MailJobs, SelectMail(q, j) PROVE JobsHeld'
  <2>1. req[q].pc = "select" /\ req'[q].pc = "update" /\ req'[q].op = req[q].op /\ UNCHANGED mail
    BY <1>0, <1>11 DEF SelectMail, RequestRecords, tables
  <2>2. \A k \in MailJobs : mail.lock[k] = q => RequestHoldsJob(q, k)'
    BY <2>1, HeldFacts DEF RequestHoldsJob
  <2> QED
    BY <1>0, <1>b, <2>1, <2>2, HeldRecord
<1>12. CASE UpdateMail(q)
  <2>1. /\ req[q].pc = "update" /\ req'[q].pc \in {"select", "status"} /\ req'[q].op = req[q].op
        /\ req[q].op = "resume_campaign"
    BY <1>0, <1>12 DEF UpdateMail, RequestRecords, RequestFits
  <2>2. PICK job \in MailJobs : job = req[q].cur /\ job \in req[q].todo
    BY <1>0, <2>1 DEF RequestFits, Held, MailHeld, ListedJobs
  <2>3. mail.live[job] # Absent /\ mail.lock[job] = Free
    <3>1. mail.live[job] # Absent /\ mail.lock[job] # q
      BY <2>1, <2>2 DEF Held, MailHeld, ListedJobs
    <3> QED
      BY <1>12, <2>2, <3>1 DEF UpdateMail, Locked
  <2>4. PICK x \in MailStatus : /\ mail' = Put(mail, q, job, x) /\ x \in {"PENDING", mail.live[job]}
    <3>1. /\ View(mail, q, job) = mail.live[job] /\ mail.live[job] \in MailStatus
          /\ "PENDING" \in MailStatus
      <4>1. TypeOK
        BY TypedIsTypeOK DEF Held
      <4> QED
        BY <1>0, <2>3, <4>1, TypeFacts, Apart DEF View, MailStatus
    <3> QED
      BY <1>12, <2>2, <3>1 DEF UpdateMail
  <2>5. /\ mail'.live = mail.live /\ mail'.next = [mail.next EXCEPT ![job] = x]
        /\ mail'.lock = [mail.lock EXCEPT ![job] = q]
        /\ mail.next \in [MailJobs -> MailStatus] /\ mail.lock \in [MailJobs -> Sessions \cup {Free}]
    <3>1. mail \in Tables(MailJobs, MailStatus, Sessions)
      BY DEF Held, Typed, TablesTyped
    <3>2. /\ mail'.live = mail.live /\ mail'.next = [mail.next EXCEPT ![job] = x]
          /\ mail'.lock = [mail.lock EXCEPT ![job] = q]
      BY <1>0, <2>4, <3>1, PutRow
    <3> QED
      BY <3>1, <3>2 DEF Tables
  <2>6. ASSUME NEW j \in MailJobs, j = job \/ mail.lock[j] = q PROVE JobHeld(j)'
    <3>1. RequestHoldsJob(q, j)' /\ mail'.lock[j] = q
      <4>1. CASE j = job
        BY <2>1, <2>3, <2>4, <2>5, <4>1 DEF RequestHoldsJob
      <4>2. CASE j # job
        <5>1. RequestHoldsJob(q, j)
          BY <2>6, <4>2, HeldFacts
        <5> QED
          BY <2>1, <2>5, <2>6, <4>2, <5>1 DEF RequestHoldsJob
      <4> QED
        BY <4>1, <4>2
    <3> QED
      BY <1>0, <3>1, Apart DEF JobHeld
  <2>7. ASSUME NEW j \in MailJobs, j # job, mail.lock[j] # q
        PROVE  /\ mail'.live[j] = mail.live[j] /\ mail'.next[j] = mail.next[j]
               /\ mail'.lock[j] = mail.lock[j]
    BY <2>5, <2>7
  <2> QED
    BY <1>0, <1>b, <2>6, <2>7, HeldStep
<1>8. CASE WriteCampaign(q)
  <2>1. CASE Discarded({q})
    BY <1>2, <2>1 DEF Discarded
  <2>2. CASE UNCHANGED mail /\ req' = [req EXCEPT ![q].pc = IF req[q].op = "cancel_campaign" THEN "snapshot" ELSE "commit"]
    <3>1. /\ req'[q].op = req[q].op
          /\ req'[q].pc = IF req[q].op = "cancel_campaign" THEN "snapshot" ELSE "commit"
      BY <1>0, <2>2 DEF RequestRecords
    <3>2. ASSUME NEW j \in MailJobs, mail.lock[j] = q PROVE RequestHoldsJob(q, j)'
      <4>1. RequestHoldsJob(q, j) /\ req[q].pc = "status"
        BY <1>8, <3>2, HeldFacts DEF WriteCampaign
      <4> QED
        BY <2>2, <3>1, <4>1 DEF RequestHoldsJob
    <3> QED
      BY <1>0, <1>b, <2>2, <3>1, <3>2, HeldRecord
  <2> QED
    BY <1>8, <2>1, <2>2 DEF WriteCampaign
<1>9. CASE SnapshotMail(q) \/ EnqueuePlan(q)
  BY <1>1, <1>9 DEF SnapshotMail, EnqueuePlan, tables
<1>10. CASE CancelMail(q)
  <2>1. PICK J : J = req[q].plan \cap LiveMail(q)
    OBVIOUS
  <2>2. /\ req[q].pc = "cancelling" /\ req'[q].pc = "commit"
        /\ mail' = PutAll(mail, q, J, "CANCELLED")
        /\ \A j \in J : View(mail, q, j) = "PENDING" /\ ~Locked(mail, q, j)
        /\ J \subseteq MailJobs /\ req'[q].op = "cancel_campaign"
    BY <1>0, <1>10, <2>1 DEF CancelMail, LiveMail, RequestRecords, RequestFits
  <2> QED
    BY <1>3, <2>2
<1> QED
  BY <1>4, <1>5, <1>6, <1>7, <1>8, <1>9, <1>10, <1>11, <1>12 DEF RequestStep

\* A write that fails and a crash free what their sessions held.
LEMMA FailuresHeld ==
  ASSUME Held, (\E s \in Sessions : WriteFails(s)) \/ WorkerCrash
  PROVE  JobsHeld'
<1>0. /\ mail \in Tables(MailJobs, MailStatus, Sessions)
      /\ run \in [Runs -> RunRecords] /\ task \in [Tasks -> TaskRecords] /\ req \in [Requests -> RequestRecords]
  BY DEF Held, Typed, TablesTyped, SessionTypes
<1>1. ASSUME NEW s \in Sessions, WriteFails(s) PROVE JobsHeld'
  <2>1. mail' = Discard(mail, {s})
    BY <1>1 DEF WriteFails, Discarded
  <2>2. /\ \A x \in Runs : x # s => run'[x] = run[x]
        /\ \A x \in Tasks : x # s => task'[x] = task[x]
        /\ \A x \in Requests : x # s => req'[x] = req[x]
    BY <1>0, <1>1 DEF WriteFails
  <2> QED
    BY <2>1, <2>2, HeldEnd
<1>2. CASE WorkerCrash
  <2> SUFFICES ASSUME NEW j \in MailJobs PROVE JobHeld(j)'
    BY DEF JobsHeld
  <2>1. mail' = Discard(mail, Runs \cup Tasks) /\ req' = req
    BY <1>2 DEF WorkerCrash, Discarded
  <2>2. CASE mail.lock[j] \in Runs \cup Tasks
    <3>1. mail'.lock[j] = Free /\ mail'.next[j] = mail'.live[j]
      BY <1>0, <2>1, <2>2, DiscardRow
    <3> QED
      BY <3>1, Apart DEF JobHeld
  <2>3. CASE mail.lock[j] \notin Runs \cup Tasks
    <3>1. mail'.lock[j] = mail.lock[j] /\ mail'.next[j] = mail.next[j] /\ mail'.live[j] = mail.live[j]
      BY <1>0, <2>1, <2>3, DiscardRow
    <3>2. JobHeld(j)
      BY HeldFacts
    <3> QED
      BY <2>1, <2>3, <3>1, <3>2 DEF JobHeld, RequestHoldsJob
  <2> QED
    BY <2>2, <2>3
<1> QED
  BY <1>1, <1>2

\* Whatever changes neither the jobs nor a session's record keeps them held.
LEMMA QuietHeld ==
  ASSUME Held, UNCHANGED <<mail, run, task, req>>
  PROVE  JobsHeld'
<1>1. \A j \in MailJobs : JobHeld(j)'
  BY DEF Held, MailHeld, JobsHeld, JobHeld, TaskHoldsJob, RunHoldsJob, RequestHoldsJob
<1> QED
  BY <1>1 DEF JobsHeld

\* How a step of session s may change the jobs.
MailMoves(s) ==
  \/ UNCHANGED mail
  \/ \E j \in MailJobs, x \in MailStatus : mail' = Put(mail, s, j, x)
  \/ \E J \in SUBSET MailJobs : mail' = PutAll(mail, s, J, "CANCELLED")
  \/ mail' = Publish(mail, s)
  \/ \E S : mail' = Discard(mail, S)

\* A job that is there stays there, and nobody takes a row for somebody else.
LEMMA JobsStay ==
  ASSUME Held, NEW s \in Sessions, MailMoves(s), NEW j \in MailJobs
  PROVE  /\ mail.live[j] # Absent => mail'.live[j] # Absent
         /\ mail'.lock[j] \in {mail.lock[j], s, Free}
<1>1. mail \in Tables(MailJobs, MailStatus, Sessions) /\ "CANCELLED" \in MailStatus
  BY DEF Held, Typed, TablesTyped, MailStatus
<1>2. CASE UNCHANGED mail
  BY <1>2
<1>3. ASSUME NEW k \in MailJobs, NEW x \in MailStatus, mail' = Put(mail, s, k, x)
      PROVE  mail'.live[j] = mail.live[j] /\ mail'.lock[j] \in {mail.lock[j], s}
  <2>1. /\ mail'.live = mail.live /\ mail'.next = [mail.next EXCEPT ![k] = x]
        /\ mail'.lock = [mail.lock EXCEPT ![k] = s]
    BY <1>1, <1>3, PutRow
  <2> QED
    BY <1>1, <1>3, <2>1 DEF Tables
<1>4. ASSUME NEW J \in SUBSET MailJobs, mail' = PutAll(mail, s, J, "CANCELLED")
      PROVE  mail'.live[j] = mail.live[j] /\ mail'.lock[j] \in {mail.lock[j], s}
  BY <1>1, <1>4, PutAllRows
<1>5. CASE mail' = Publish(mail, s)
  <2>1. mail.lock[j] = s /\ mail.live[j] # Absent => mail.next[j] # Absent
    <3>1. JobHeld(j)
      BY HeldFacts
    <3> QED
      BY <3>1, Apart DEF JobHeld, TaskHoldsJob, RunHoldsJob, RequestHoldsJob, Absent
  <2> QED
    BY <1>1, <1>5, <2>1, PublishRow
<1>6. ASSUME NEW S, mail' = Discard(mail, S)
      PROVE  mail'.live[j] = mail.live[j] /\ mail'.lock[j] \in {mail.lock[j], Free}
  BY <1>1, <1>6, DiscardRow
<1> QED
  BY <1>2, <1>3, <1>4, <1>5, <1>6 DEF MailMoves

\* So what the other requests have listed stays as it is.
LEMMA ListedStep ==
  ASSUME Held, NEW s \in Sessions, MailMoves(s),
         \A x \in Requests : x # s => req'[x] = req[x],
         s \in Requests => ListedJobs(s)'
  PROVE  \A q \in Requests : ListedJobs(q)'
<1> SUFFICES ASSUME NEW q \in Requests, q # s PROVE ListedJobs(q)'
  OBVIOUS
<1>1. ListedJobs(q) /\ req'[q] = req[q] /\ q # Free
  BY Apart DEF Held, MailHeld
<1>2. req[q].todo \subseteq MailJobs
  BY RequestRecordFacts DEF Held, Typed, SessionTypes
<1>3. \A j \in MailJobs : /\ mail.live[j] # Absent => mail'.live[j] # Absent
                         /\ mail'.lock[j] \in {mail.lock[j], s, Free}
  BY JobsStay
<1> QED
  BY <1>1, <1>2, <1>3 DEF ListedJobs

\* A run and a task write one job at a time.
LEMMA WorkerMoves ==
  /\ \A s \in Runs : Held /\ RunStep(s) => MailMoves(s) /\ req' = req
  /\ \A t \in Tasks : Held /\ TaskStep(t) => MailMoves(t) /\ req' = req
<1>1. {"PENDING", "SENT", "FAILED"} \subseteq MailStatus
  BY DEF MailStatus
<1>2. ASSUME NEW s \in Runs, RunStep(s) PROVE MailMoves(s) /\ req' = req
  <2>1. CASE CommitRun(s)
    BY <2>1 DEF CommitRun, CommitTables, MailMoves
  <2>2. ASSUME NEW r \in Recipients, Advance(s, r) PROVE MailMoves(s) /\ req' = req
    <3>1. PICK job \in NewCopy(r, Listed(s, r).step + 1) : mail' = Put(mail, s, job, "PENDING")
      BY <2>2 DEF Advance
    <3>2. job \in MailJobs
      BY <3>1 DEF NewCopy
    <3> QED
      BY <1>1, <2>2, <3>1, <3>2 DEF Advance, MailMoves
  <2>3. ASSUME NEW r \in Recipients, PassOver(s, r) \/ FinishRecipient(s, r)
        PROVE  MailMoves(s) /\ req' = req
    BY <2>3 DEF PassOver, FinishRecipient, tables, MailMoves
  <2>4. CASE \/ StartRun(s) \/ CountActive(s) \/ CompleteSequence(s)
             \/ SweepCountsLive(s) \/ SweepCompletes(s)
    BY <2>4 DEF StartRun, CountActive, CompleteSequence, SweepCountsLive, SweepCompletes,
       tables, MailMoves
  <2> QED
    BY <1>2, <2>1, <2>2, <2>3, <2>4 DEF RunStep, SchedulerStep
<1>3. ASSUME NEW t \in Tasks, Held, TaskStep(t) PROVE MailMoves(t) /\ req' = req
  <2>1. CASE CommitTask(t)
    BY <2>1 DEF CommitTask, CommitTables, MailMoves
  <2>2. ASSUME NEW o \in Outcomes, Deliver(t, o) PROVE MailMoves(t) /\ req' = req
    <3>1. TaskFits(t) /\ task[t].pc = "claim"
      BY <1>3, <2>2 DEF Held, Typed, SessionsFit, Deliver
    <3>2. task[t].job \in MailJobs
      BY <3>1 DEF TaskFits
    <3>3. PICK x \in {"SENT", "FAILED"} : mail' = Put(mail, t, task[t].job, x)
      BY <2>2 DEF Deliver
    <3> QED
      BY <1>1, <2>2, <3>2, <3>3 DEF Deliver, MailMoves
  <2>3. CASE ReadState(t) \/ ClaimFails(t) \/ \E j \in MailJobs : TakeCall(t, j)
    BY <2>3 DEF ReadState, ClaimFails, TakeCall, tables, MailMoves
  <2> QED
    BY <1>3, <2>1, <2>2, <2>3 DEF TaskStep
<1> QED
  BY <1>2, <1>3

\* A resume lists jobs that are there, and writes each of them once.
LEMMA RequestListed ==
  ASSUME Held, NEW q \in Requests, RequestArrives(q) \/ RequestStep(q)
  PROVE  \A x \in Requests : ListedJobs(x)'
<1>0. q \in Sessions /\ req \in [Requests -> RequestRecords] /\ RequestFits(q) /\ ListedJobs(q)
      /\ req[q] \in RequestRecords
  BY Apart DEF Held, MailHeld, Typed, SessionTypes, SessionsFit
<1>1. ASSUME MailMoves(q), \A x \in Requests : x # q => req'[x] = req[x],
             req'[q].pc \notin {"select", "update"}
      PROVE  \A x \in Requests : ListedJobs(x)'
  BY <1>0, <1>1, ListedStep DEF ListedJobs
<1>2. CASE RequestArrives(q)
  <2>1. CASE \/ \E b \in BOOLEAN : set_paused_all(q, b)
             \/ \E r \in Recipients, b \in BOOLEAN : set_replied(q, r, b)
    <3>1. /\ UNCHANGED mail /\ req'[q].pc = "done"
          /\ \A x \in Requests : x # q => req'[x] = req[x]
      BY <1>0, <2>1, AppliedTyped, AnsweredFacts DEF Held
    <3> QED
      BY <1>1, <3>1 DEF MailMoves
  <2>2. CASE \/ \E op \in SequenceOps, R \in SUBSET Recipients : ReadRecipients(q, op, R)
             \/ \E op \in SequenceOps : ReadCampaign(q, op)
    <3>1. /\ UNCHANGED mail /\ req'[q].pc \notin {"select", "update"}
          /\ \A x \in Requests : x # q => req'[x] = req[x]
      <4>1. ASSUME NEW op \in SequenceOps, NEW R \in SUBSET Recipients, ReadRecipients(q, op, R)
            PROVE  /\ UNCHANGED mail /\ req'[q].pc = "write"
                   /\ \A x \in Requests : x # q => req'[x] = req[x]
        BY <1>0, <4>1 DEF ReadRecipients, tables, Request
      <4>2. ASSUME NEW op \in SequenceOps, ReadCampaign(q, op)
            PROVE  /\ UNCHANGED mail /\ req'[q].pc \in {"list", "status", "done"}
                   /\ \A x \in Requests : x # q => req'[x] = req[x]
        <5>1. PICK x : x = View(camp, q, Campaign)
          OBVIOUS
        <5>2. PICK rec :
                /\ req' = [req EXCEPT ![q] = rec]
                /\ \/ rec = [Request("list") EXCEPT !.op = op, !.seen = x]
                   \/ rec = [Request("status") EXCEPT !.op = op, !.seen = x, !.target = TargetOf(op)]
                   \/ rec = Answered
          BY <4>2, <5>1 DEF ReadCampaign
        <5>3. rec.pc \in {"list", "status", "done"}
          BY <5>2, AnsweredFacts DEF Request
        <5> QED
          BY <1>0, <4>2, <5>2, <5>3 DEF ReadCampaign, tables
      <4> QED
        BY <2>2, <4>1, <4>2
    <3> QED
      BY <1>1, <3>1 DEF MailMoves
  <2> QED
    BY <1>2, <2>1, <2>2 DEF RequestArrives
<1>3. CASE CommitRecipients(q) \/ CommitCampaign(q)
  <2>1. /\ MailMoves(q) /\ req'[q].pc \notin {"select", "update"}
        /\ \A x \in Requests : x # q => req'[x] = req[x]
    BY <1>0, <1>3 DEF CommitRecipients, CommitCampaign, CommitTables, MailMoves, Answered, Request,
       RequestRecords
  <2> QED
    BY <1>1, <2>1
<1>4. ASSUME NEW r \in Recipients, UpdateRecipient(q, r) PROVE \A x \in Requests : ListedJobs(x)'
  <2>1. /\ MailMoves(q) /\ req'[q].pc \notin {"select", "update"}
        /\ \A x \in Requests : x # q => req'[x] = req[x]
    BY <1>0, <1>4 DEF UpdateRecipient, tables, MailMoves, RequestRecords
  <2> QED
    BY <1>1, <2>1
<1>5. CASE ListMail(q)
  <2>1. PICK J \in SUBSET LiveMail(q), pc \in {"select", "status"} :
          req'[q].pc = pc /\ req'[q].todo = J
    BY <1>0, <1>5 DEF ListMail, RequestRecords
  <2>2. UNCHANGED mail /\ req[q].pc = "list" /\ \A x \in Requests : x # q => req'[x] = req[x]
    BY <1>0, <1>5 DEF ListMail, tables
  <2>3. ASSUME NEW j \in J PROVE mail.live[j] # Absent /\ mail.lock[j] # q
    <3>1. j \in MailJobs /\ View(mail, q, j) = "PENDING"
      BY <2>1 DEF LiveMail
    <3>2. mail.lock[j] # q
      BY <2>2, <3>1, HeldFacts DEF RequestHoldsJob
    <3> QED
      BY <3>1, <3>2 DEF View, Absent
  <2>4. ListedJobs(q)'
    BY <2>1, <2>2, <2>3 DEF ListedJobs
  <2> QED
    BY <1>0, <2>2, <2>4, ListedStep DEF MailMoves
<1>6. ASSUME NEW j \in MailJobs, SelectMail(q, j) PROVE \A x \in Requests : ListedJobs(x)'
  <2>1. /\ req'[q].pc = "update" /\ req'[q].todo = req[q].todo /\ req'[q].cur = j
        /\ j \in req[q].todo /\ req[q].pc = "select"
        /\ UNCHANGED mail /\ \A x \in Requests : x # q => req'[x] = req[x]
    BY <1>0, <1>6 DEF SelectMail, tables, RequestRecords
  <2> QED
    BY <1>0, <2>1, ListedStep DEF MailMoves, ListedJobs
<1>7. CASE UpdateMail(q)
  <2>1. /\ req'[q].pc \in {"select", "status"} /\ req'[q].todo = req[q].todo \ {req[q].cur}
        /\ req[q].pc = "update" /\ \A x \in Requests : x # q => req'[x] = req[x]
    BY <1>0, <1>7 DEF UpdateMail, RequestRecords
  <2>2. PICK j \in MailJobs, y \in MailStatus : j = req[q].cur /\ mail' = Put(mail, q, j, y)
    <3>1. req[q].cur \in MailJobs /\ "PENDING" \in MailStatus
      BY <1>0, <2>1 DEF RequestFits, MailStatus
    <3>2. View(mail, q, req[q].cur) \in MailStatus
      BY <3>1, TypedIsTypeOK, TypeFacts DEF Held
    <3> QED
      BY <1>7, <3>1, <3>2 DEF UpdateMail
  <2>3. \A k \in MailJobs : mail'.live[k] = mail.live[k] /\ (k # j => mail'.lock[k] = mail.lock[k])
    <3>1. mail \in Tables(MailJobs, MailStatus, Sessions)
      BY DEF Held, Typed, TablesTyped
    <3>2. /\ mail'.live = mail.live /\ mail'.next = [mail.next EXCEPT ![j] = y]
          /\ mail'.lock = [mail.lock EXCEPT ![j] = q]
      BY <1>0, <2>2, <3>1, PutRow
    <3> QED
      BY <3>1, <3>2 DEF Tables
  <2>4. req[q].todo \subseteq MailJobs
    BY <1>0, RequestRecordFacts
  <2>5. ListedJobs(q)'
    BY <1>0, <2>1, <2>2, <2>3, <2>4 DEF ListedJobs
  <2> QED
    BY <1>0, <2>1, <2>2, <2>5, ListedStep DEF MailMoves
<1>8. CASE WriteCampaign(q)
  <2>1. MailMoves(q)
    BY <1>8 DEF WriteCampaign, Discarded, MailMoves
  <2>2. req'[q].pc \notin {"select", "update"} /\ \A x \in Requests : x # q => req'[x] = req[x]
    BY <1>0, <1>8 DEF WriteCampaign, Answered, Request, RequestRecords
  <2> QED
    BY <1>1, <2>1, <2>2
<1>9. CASE SnapshotMail(q)
  <2>1. /\ MailMoves(q) /\ req'[q].pc \notin {"select", "update"}
        /\ \A x \in Requests : x # q => req'[x] = req[x]
    BY <1>0, <1>9 DEF SnapshotMail, tables, MailMoves, RequestRecords
  <2> QED
    BY <1>1, <2>1
<1>11. CASE EnqueuePlan(q)
  <2>1. /\ MailMoves(q) /\ req'[q].pc \notin {"select", "update"}
        /\ \A x \in Requests : x # q => req'[x] = req[x]
    BY <1>0, <1>11 DEF EnqueuePlan, tables, MailMoves, Answered, Request
  <2> QED
    BY <1>1, <2>1
<1>10. CASE CancelMail(q)
  <2>1. req[q].plan \cap LiveMail(q) \in SUBSET MailJobs
    BY DEF LiveMail
  <2>2. /\ MailMoves(q) /\ req'[q].pc \notin {"select", "update"}
        /\ \A x \in Requests : x # q => req'[x] = req[x]
    BY <1>0, <1>10, <2>1 DEF CancelMail, MailMoves, RequestRecords
  <2> QED
    BY <1>1, <2>2
<1> QED
  BY <1>2, <1>3, <1>4, <1>5, <1>6, <1>7, <1>8, <1>9, <1>10, <1>11 DEF RequestStep

\* Every step keeps what the requests have listed.
LEMMA StepListed ==
  ASSUME Held, [Next]_vars
  PROVE  \A q \in Requests : ListedJobs(q)'
<1>2. ASSUME NEW s \in Runs \cup Tasks, MailMoves(s), req' = req
      PROVE  \A q \in Requests : ListedJobs(q)'
  BY <1>2, ListedStep, Apart
<1>3. ASSUME NEW s \in Sessions, WriteFails(s) PROVE \A q \in Requests : ListedJobs(q)'
  <2>1. MailMoves(s)
    BY <1>3 DEF WriteFails, Discarded, MailMoves
  <2>2. /\ \A x \in Requests : x # s => req'[x] = req[x]
        /\ s \in Requests => req'[s].pc = "done"
    BY <1>3 DEF WriteFails, Answered, Request, Held, Typed, SessionTypes
  <2> QED
    BY <2>1, <2>2, ListedStep DEF ListedJobs
<1>4. CASE WorkerCrash
  <2> SUFFICES ASSUME NEW q \in Requests PROVE ListedJobs(q)'
    OBVIOUS
  <2>1. mail' = Discard(mail, Runs \cup Tasks) /\ req' = req
    BY <1>4 DEF WorkerCrash, Discarded
  <2>2. ListedJobs(q) /\ req[q].todo \subseteq MailJobs
    BY RequestRecordFacts DEF Held, MailHeld, Typed, SessionTypes
  <2>3. \A j \in MailJobs : mail'.live[j] = mail.live[j] /\ mail'.lock[j] \in {mail.lock[j], Free}
    BY <2>1, DiscardRow DEF Held, Typed, TablesTyped
  <2> QED
    BY <2>1, <2>2, <2>3, Apart DEF ListedJobs
<1>5. ASSUME UNCHANGED <<mail, req>> PROVE \A q \in Requests : ListedJobs(q)'
  BY <1>5 DEF ListedJobs, Held, MailHeld
<1>6. ASSUME NEW s \in Sessions, EditStep(s) PROVE \A q \in Requests : ListedJobs(q)'
  BY <1>5, <1>6 DEF EditStep, SelectRow, WriteRow, tables, actors
<1>7. ASSUME NEW r \in Recipients, NEW n \in Steps, WaitOver(r, n)
      PROVE  \A q \in Requests : ListedJobs(q)'
  BY <1>5, <1>7 DEF WaitOver, tables, actors
<1>8. CASE UNCHANGED vars
  BY <1>5, <1>8 DEF vars, tables, actors
<1> QED
  BY <1>2, <1>3, <1>4, <1>6, <1>7, <1>8, WorkerMoves, RequestListed DEF Next

\* Every step keeps the types and what the holders of jobs know.
LEMMA StepHeld == Held /\ [Next]_vars => Held'
<1> SUFFICES ASSUME Held, [Next]_vars PROVE JobsHeld'
  BY StepTyped, StepListed DEF Held, MailHeld
<1>1. ASSUME NEW s \in Sessions, EditStep(s) PROVE JobsHeld'
  BY <1>1, QuietHeld DEF EditStep, SelectRow, WriteRow, tables, actors
<1>2. ASSUME NEW r \in Recipients, NEW n \in Steps, WaitOver(r, n) PROVE JobsHeld'
  BY <1>2, QuietHeld DEF WaitOver, tables, actors
<1>3. CASE UNCHANGED vars
  BY <1>3, QuietHeld DEF vars, tables, actors
<1> QED
  BY <1>1, <1>2, <1>3, RunStepHeld, TaskStepHeld, RequestStepHeld, FailuresHeld DEF Next

\* At first nobody holds a job.
LEMMA InitHeld == Init => Held
<1> SUFFICES ASSUME Init PROVE MailHeld
  BY InitTyped DEF Held
<1>1. \A j \in MailJobs : mail.lock[j] = Free /\ mail.next[j] = mail.live[j]
  BY DEF Init, Committed
<1>2. \A q \in Requests : ListedJobs(q)
  BY DEF Init, Request, ListedJobs
<1> QED
  BY <1>1, <1>2, Apart DEF MailHeld, JobsHeld, JobHeld
-----------------------------------------------------------------------------
\* A cancel that holds the campaign's row.
CancelLockKept(q) ==
  /\ camp.lock[Campaign] = q /\ req[q].op = "cancel_campaign"
  /\ req[q].pc \in {"snapshot", "cancelling", "commit"}

\* A step of session s keeps what is known of a cancel if it lets no job appear
\* unnoticed, takes no other session's job, and leaves the campaign's row alone
\* or writes something else.
LEMMA CancelStep ==
  ASSUME CancelInvariant, late \subseteq late', NEW s,
         \A q \in Requests : q # s => req'[q] = req[q],
         s \in Requests => Cancelling(s)',
         CampHeld',
         \/ camp'.live[Campaign] = "CANCELLED" => camp.live[Campaign] = "CANCELLED"
         \/ \A j \in MailJobs : mail'.live[j] = "PENDING" => j \in late',
         \A j \in MailJobs : mail'.live[j] = "PENDING" =>
           \/ mail.live[j] = "PENDING"
           \/ j \in late'
           \/ ~CancelLooked,
         \A j \in MailJobs, q \in Requests :
           q # s /\ mail.lock[j] = q => mail'.lock[j] = q /\ mail'.next[j] = mail.next[j]
  PROVE  CancelInvariant'
<1>1. ASSUME NEW q \in Requests PROVE Cancelling(q)'
  <2>1. CASE q = s
    BY <2>1
  <2>2. CASE q # s
    <3> SUFFICES ASSUME req[q].op = "cancel_campaign", req[q].pc \in {"cancelling", "commit"},
                        NEW j \in MailJobs, mail'.live[j] = "PENDING"
                 PROVE  LeftOver(q, j)'
      BY <2>2 DEF Cancelling
    <3>1. CancelLooked
      BY DEF CancelLooked
    <3>2. CASE j \in late'
      BY <3>2 DEF LeftOver
    <3>3. CASE j \notin late'
      <4>1. LeftOver(q, j)
        BY <3>1, <3>3 DEF CancelInvariant, Cancelling
      <4>2. req'[q] = req[q] /\ (mail.lock[j] = q => mail'.lock[j] = q /\ mail'.next[j] = mail.next[j])
        BY <2>2
      <4> QED
        BY <4>1, <4>2 DEF LeftOver
    <3> QED
      BY <3>2, <3>3
  <2> QED
    BY <2>1, <2>2
<1>2. CancelledIsOver'
  <2> SUFFICES ASSUME camp'.live[Campaign] = "CANCELLED", NEW j \in MailJobs,
                      mail'.live[j] = "PENDING", j \notin late'
               PROVE  FALSE
    BY DEF CancelledIsOver
  <2>1. camp.live[Campaign] = "CANCELLED"
    OBVIOUS
  <2>2. CancelLooked
    BY <2>1 DEF CancelLooked
  <2> QED
    BY <2>1, <2>2 DEF CancelInvariant, CancelledIsOver
<1> QED
  BY <1>1, <1>2 DEF CancelInvariant

\* The campaign's row says CANCELLED only while a cancel holds it.
LEMMA CampStep ==
  ASSUME CampHeld,
         \/ camp'.lock[Campaign] = Free
         \/ camp'.next[Campaign] # "CANCELLED"
         \/ /\ camp'.lock[Campaign] = camp.lock[Campaign]
            /\ camp'.next[Campaign] = camp.next[Campaign]
            /\ \A q \in Requests : CancelLockKept(q) => CancelLockKept(q)'
  PROVE  CampHeld'
  BY DEF CampHeld, CancelLockKept

\* What a conditional update of the campaign's row leaves behind.
LEMMA StatusRow ==
  ASSUME Typed, NEW s \in Sessions, NEW x, NEW y \in CampaignStatus, update_status_if(s, x, y)
  PROVE  /\ camp'.live = camp.live
         /\ \/ camp'.lock[Campaign] = camp.lock[Campaign] /\ camp'.next[Campaign] = camp.next[Campaign]
            \/ /\ camp'.lock[Campaign] = s /\ camp'.next[Campaign] = y
               /\ camp.lock[Campaign] \in {s, Free}
<1>1. camp \in Tables({Campaign}, CampaignStatus, Sessions)
  BY DEF Typed, TablesTyped
<1>2. CASE UNCHANGED camp
  BY <1>2
<1>3. CASE camp' = Put(camp, s, Campaign, y) /\ ~Locked(camp, s, Campaign)
  <2>1. /\ camp'.live = camp.live /\ camp'.next = [camp.next EXCEPT ![Campaign] = y]
        /\ camp'.lock = [camp.lock EXCEPT ![Campaign] = s]
    BY <1>1, <1>3, PutRow
  <2>2. camp.next \in [{Campaign} -> CampaignStatus] /\ camp.lock \in [{Campaign} -> Sessions \cup {Free}]
    BY <1>1 DEF Tables
  <2> QED
    BY <1>3, <2>1, <2>2 DEF Locked
<1> QED
  BY <1>2, <1>3 DEF update_status_if

\* What is known of jobs and campaign, whatever the requests are about.
Known == Held /\ CancelInvariant /\ CampaignTaken

\* When session s ends nothing else changes hands; a row it had written as
\* CANCELLED was a cancel's.
LEMMA EndFacts ==
  ASSUME Known, NEW E \in SUBSET Sessions,
         \/ \E s : E = {s} /\ CommitTables(s)
         \/ Discarded(E)
  PROVE  /\ \A j \in MailJobs : mail.lock[j] \notin E =>
              /\ mail'.lock[j] = mail.lock[j] /\ mail'.next[j] = mail.next[j]
              /\ mail'.live[j] = mail.live[j]
         /\ \A j \in MailJobs : mail.lock[j] \in E =>
              /\ mail'.live[j] = mail.next[j] \/ mail'.live[j] = mail.live[j]
         /\ camp.lock[Campaign] \notin E =>
              /\ camp'.lock[Campaign] = camp.lock[Campaign]
              /\ camp'.next[Campaign] = camp.next[Campaign] /\ camp'.live[Campaign] = camp.live[Campaign]
         /\ camp.lock[Campaign] \in E =>
              /\ camp'.lock[Campaign] = Free
              /\ \/ camp'.live[Campaign] = camp.next[Campaign]
                 \/ camp'.live[Campaign] = camp.live[Campaign]
<1>1. mail \in Tables(MailJobs, MailStatus, Sessions) /\ camp \in Tables({Campaign}, CampaignStatus, Sessions)
  BY DEF Known, Held, Typed, TablesTyped
<1>2. CASE \E s : E = {s} /\ CommitTables(s)
  <2>1. PICK s : E = {s} /\ mail' = Publish(mail, s) /\ camp' = Publish(camp, s)
    BY <1>2 DEF CommitTables
  <2> QED
    BY <1>1, <2>1, PublishRow
<1>3. CASE Discarded(E)
  <2>1. mail' = Discard(mail, E) /\ camp' = Discard(camp, E)
    BY <1>3 DEF Discarded
  <2> QED
    BY <1>1, <2>1, DiscardRow
<1> QED
  BY <1>2, <1>3

\* Runs and tasks: they never write CANCELLED, and the job a run commits after the
\* cancel has looked is recorded.
LEMMA RunStepCancel ==
  ASSUME Known, NEW s \in Runs, RunStep(s)
  PROVE  CancelInvariant'
<1>0. s \in Sessions /\ s \notin Tasks /\ s \notin Requests /\ Held /\ Typed
  BY Apart DEF Known, Held
<1>1. req' = req
  BY DEF RunStep, SchedulerStep, StartRun, CountActive, CompleteSequence, PassOver,
     FinishRecipient, Advance, SweepCountsLive, SweepCompletes, CommitRun
<1>2. CASE CommitRun(s)
  <2>1. /\ {s} \in SUBSET Sessions /\ CommitTables(s)
        /\ late' = IF CancelLooked THEN late \cup {j \in MailJobs : mail.lock[j] = s} ELSE late
    BY <1>0, <1>2 DEF CommitRun
  <2>2. ASSUME camp.lock[Campaign] = s PROVE camp.next[Campaign] # "CANCELLED"
    BY <1>0, <2>2, Apart DEF Known, CancelInvariant, CampHeld
  <2>3. camp'.live[Campaign] = "CANCELLED" => camp.live[Campaign] = "CANCELLED"
    BY <2>1, <2>2, EndFacts
  <2>4. CampHeld'
    <3>1. CASE camp.lock[Campaign] = s
      BY <2>1, <3>1, EndFacts, CampStep DEF Known, CancelInvariant
    <3>2. CASE camp.lock[Campaign] # s
      BY <1>1, <2>1, <3>2, EndFacts, CampStep DEF Known, CancelInvariant, CancelLockKept
    <3> QED
      BY <3>1, <3>2
  <2>5. ASSUME NEW j \in MailJobs, mail'.live[j] = "PENDING"
        PROVE  mail.live[j] = "PENDING" \/ j \in late' \/ ~CancelLooked
    BY <2>1, <2>5, EndFacts
  <2>6. ASSUME NEW j \in MailJobs, NEW q \in Requests, mail.lock[j] = q
        PROVE  mail'.lock[j] = q /\ mail'.next[j] = mail.next[j]
    BY <1>0, <2>1, <2>6, EndFacts
  <2>7. late \subseteq late'
    BY <2>1
  <2> QED
    BY <1>0, <1>1, <2>3, <2>4, <2>5, <2>6, <2>7, CancelStep DEF Known
<1>3. ASSUME NEW r \in Recipients, Advance(s, r) PROVE CancelInvariant'
  <2>1. PICK job \in NewCopy(r, Listed(s, r).step + 1) : mail' = Put(mail, s, job, "PENDING")
    BY <1>3 DEF Advance
  <2>2. job \in MailJobs /\ mail.next[job] = Absent
    BY <2>1 DEF NewCopy
  <2>3. ASSUME NEW q \in Requests PROVE mail.lock[job] # q
    <3>1. mail.lock[job] = q => RequestHoldsJob(q, job)
      BY <1>0, <2>2, HeldFacts
    <3> QED
      BY <2>2, <3>1 DEF RequestHoldsJob, Absent
  <2>4. /\ mail'.live = mail.live
        /\ \A j \in MailJobs : j # job => mail'.lock[j] = mail.lock[j] /\ mail'.next[j] = mail.next[j]
    <3>1. mail \in Tables(MailJobs, MailStatus, Sessions) /\ "PENDING" \in MailStatus
      BY <1>0 DEF Typed, TablesTyped, MailStatus
    <3>2. /\ mail'.live = mail.live /\ mail'.next = [mail.next EXCEPT ![job] = "PENDING"]
          /\ mail'.lock = [mail.lock EXCEPT ![job] = s]
      BY <1>0, <2>1, <2>2, <3>1, PutRow
    <3> QED
      BY <3>1, <3>2 DEF Tables
  <2>5. late' = late /\ camp' = camp
    BY <1>3 DEF Advance, counted
  <2>6. CampHeld'
    BY <1>1, <2>5 DEF Known, CancelInvariant, CampHeld
  <2> QED
    BY <1>0, <1>1, <2>3, <2>4, <2>5, <2>6, CancelStep DEF Known
<1>4. ASSUME UNCHANGED <<mail, late>>, camp' = camp \/ \E x : update_status_if(s, x, "COMPLETED")
      PROVE  CancelInvariant'
  <2>1. /\ camp'.live = camp.live
        /\ \/ camp'.next[Campaign] = "COMPLETED"
           \/ camp'.lock[Campaign] = camp.lock[Campaign] /\ camp'.next[Campaign] = camp.next[Campaign]
    BY <1>0, <1>4, StatusRow DEF CampaignStatus
  <2>2. CampHeld'
    BY <1>1, <2>1, CampStep DEF Known, CancelInvariant, CancelLockKept
  <2> QED
    BY <1>0, <1>1, <1>4, <2>1, <2>2, CancelStep DEF Known
<1>5. ASSUME NEW r \in Recipients, PassOver(s, r) \/ FinishRecipient(s, r) PROVE CancelInvariant'
  BY <1>4, <1>5 DEF PassOver, FinishRecipient, tables, counted
<1>6. CASE StartRun(s) \/ CountActive(s) \/ CompleteSequence(s) \/ SweepCountsLive(s) \/ SweepCompletes(s)
  <2>1. UNCHANGED <<mail, late>>
    BY <1>6 DEF StartRun, CountActive, CompleteSequence, SweepCountsLive, SweepCompletes, tables, counted
  <2>2. camp' = camp \/ \E x : update_status_if(s, x, "COMPLETED")
    BY <1>6 DEF StartRun, CountActive, CompleteSequence, SweepCountsLive, SweepCompletes, tables
  <2> QED
    BY <1>4, <2>1, <2>2
<1> QED
  BY <1>2, <1>3, <1>5, <1>6 DEF RunStep, SchedulerStep

\* A step of a task adds no job and does not touch a cancel.
LEMMA TaskStepCancel ==
  ASSUME Known, NEW t \in Tasks, TaskStep(t)
  PROVE  CancelInvariant'
<1>0. t \in Sessions /\ t \notin Runs /\ t \notin Requests /\ Held /\ Typed /\ TaskFits(t)
  BY Apart DEF Known, Held, Typed, SessionsFit
<1>1. req' = req /\ late' = late
  BY DEF TaskStep, TakeCall, ClaimFails, Deliver, ReadState, CommitTask, counted
<1>2. CASE CommitTask(t)
  <2>1. {t} \in SUBSET Sessions /\ CommitTables(t)
    BY <1>0, <1>2 DEF CommitTask
  <2>2. ASSUME camp.lock[Campaign] = t PROVE camp.next[Campaign] # "CANCELLED"
    BY <1>0, <2>2, Apart DEF Known, CancelInvariant, CampHeld
  <2>3. camp'.live[Campaign] = "CANCELLED" => camp.live[Campaign] = "CANCELLED"
    BY <2>1, <2>2, EndFacts
  <2>4. CampHeld'
    <3>1. CASE camp.lock[Campaign] = t
      BY <2>1, <3>1, EndFacts, CampStep DEF Known, CancelInvariant
    <3>2. CASE camp.lock[Campaign] # t
      BY <1>1, <2>1, <3>2, EndFacts, CampStep DEF Known, CancelInvariant, CancelLockKept
    <3> QED
      BY <3>1, <3>2
  <2>5. ASSUME NEW j \in MailJobs, mail'.live[j] = "PENDING" PROVE mail.live[j] = "PENDING"
    <3>1. mail.lock[j] = t => TaskHoldsJob(t, j)
      BY <1>0, HeldFacts
    <3> QED
      BY <2>1, <2>5, <3>1, EndFacts DEF TaskHoldsJob
  <2>6. ASSUME NEW j \in MailJobs, NEW q \in Requests, mail.lock[j] = q
        PROVE  mail'.lock[j] = q /\ mail'.next[j] = mail.next[j]
    BY <1>0, <2>1, <2>6, EndFacts
  <2> QED
    BY <1>0, <1>1, <2>3, <2>4, <2>5, <2>6, CancelStep DEF Known
<1>3. ASSUME NEW o \in Outcomes, Deliver(t, o) PROVE CancelInvariant'
  <2>1. PICK job \in MailJobs : job = task[t].job
    BY <1>0, <1>3 DEF Deliver, TaskFits
  <2>2. task[t].pc = "claim" /\ View(mail, t, job) = "PENDING" /\ ~Locked(mail, t, job)
    BY <1>3, <2>1 DEF Deliver
  <2>3. ASSUME NEW q \in Requests PROVE mail.lock[job] # q
    BY <1>0, <2>2, Apart DEF Locked
  <2>4. PICK x \in {"SENT", "FAILED"} : mail' = Put(mail, t, job, x)
    BY <1>3, <2>1 DEF Deliver
  <2>5. /\ mail'.live = mail.live
        /\ \A j \in MailJobs : j # job => mail'.lock[j] = mail.lock[j] /\ mail'.next[j] = mail.next[j]
    <3>1. mail \in Tables(MailJobs, MailStatus, Sessions) /\ x \in MailStatus
      BY <1>0 DEF Typed, TablesTyped, MailStatus
    <3>2. /\ mail'.live = mail.live /\ mail'.next = [mail.next EXCEPT ![job] = x]
          /\ mail'.lock = [mail.lock EXCEPT ![job] = t]
      BY <1>0, <2>1, <2>4, <3>1, PutRow
    <3> QED
      BY <3>1, <3>2 DEF Tables
  <2>6. update_status_if(t, "SCHEDULED", "SENDING") /\ "SENDING" \in CampaignStatus
    BY <1>3 DEF Deliver, CampaignStatus
  <2>7. /\ camp'.live = camp.live
        /\ \/ camp'.next[Campaign] = "SENDING"
           \/ camp'.lock[Campaign] = camp.lock[Campaign] /\ camp'.next[Campaign] = camp.next[Campaign]
    BY <1>0, <2>6, StatusRow
  <2>8. CampHeld'
    BY <1>1, <2>7, CampStep DEF Known, CancelInvariant, CancelLockKept
  <2> QED
    BY <1>0, <1>1, <2>3, <2>5, <2>7, <2>8, CancelStep DEF Known
<1>4. ASSUME UNCHANGED <<mail, camp>> PROVE CancelInvariant'
  <2>1. CampHeld'
    BY <1>1, <1>4 DEF Known, CancelInvariant, CampHeld
  <2> QED
    BY <1>0, <1>1, <1>4, <2>1, CancelStep DEF Known
<1>5. ASSUME NEW j \in MailJobs, TakeCall(t, j) PROVE CancelInvariant'
  BY <1>4, <1>5 DEF TakeCall, tables
<1>6. CASE ClaimFails(t) \/ ReadState(t)
  BY <1>4, <1>6 DEF ClaimFails, ReadState, tables
<1> QED
  BY <1>2, <1>3, <1>5, <1>6 DEF TaskStep

\* A request: a cancel lists every job that waits, and takes those it has listed.
LEMMA RequestStepCancel ==
  ASSUME Known, NEW q \in Requests, RequestArrives(q) \/ RequestStep(q)
  PROVE  CancelInvariant'
<1>0. /\ q \in Sessions /\ q \notin Runs /\ q \notin Tasks /\ Held /\ Typed /\ CampHeld
      /\ req \in [Requests -> RequestRecords] /\ RequestFits(q) /\ Cancelling(q)
  BY Apart DEF Known, Held, Typed, SessionTypes, SessionsFit, CancelInvariant
<1>a. ASSUME RequestArrives(q)
      PROVE  /\ req[q].pc = "new" /\ UNCHANGED <<mail, camp, late>>
             /\ \A x \in Requests : x # q => req'[x] = req[x]
             /\ req'[q].pc \notin {"cancelling", "commit"}
  <2>1. CASE \/ \E b \in BOOLEAN : set_paused_all(q, b)
             \/ \E r \in Recipients, b \in BOOLEAN : set_replied(q, r, b)
    <3>1. /\ req[q].pc = "new" /\ req' = [req EXCEPT ![q] = Answered]
          /\ UNCHANGED <<mail, camp, counted>>
      BY <1>0, <2>1, AppliedTyped
    <3> QED
      BY <1>0, <3>1, AnsweredFacts DEF counted
  <2>2. ASSUME NEW op \in SequenceOps, NEW R \in SUBSET Recipients, ReadRecipients(q, op, R)
        PROVE  /\ req[q].pc = "new" /\ UNCHANGED <<mail, camp, late>>
               /\ \A x \in Requests : x # q => req'[x] = req[x]
               /\ req'[q].pc \notin {"cancelling", "commit"}
    BY <1>0, <2>2 DEF ReadRecipients, tables, counted, Request
  <2>3. ASSUME NEW op \in SequenceOps, ReadCampaign(q, op)
        PROVE  /\ req[q].pc = "new" /\ UNCHANGED <<mail, camp, late>>
               /\ \A x \in Requests : x # q => req'[x] = req[x]
               /\ req'[q].pc \notin {"cancelling", "commit"}
    <3>1. PICK rec : /\ req' = [req EXCEPT ![q] = rec]
                     /\ \/ \E x : rec = [Request("list") EXCEPT !.op = op, !.seen = x]
                        \/ \E x : rec = [Request("status") EXCEPT !.op = op, !.seen = x, !.target = TargetOf(op)]
                        \/ rec = Answered
      BY <2>3 DEF ReadCampaign
    <3>2. rec.pc \in {"list", "status", "done"}
      BY <3>1, AnsweredFacts DEF Request
    <3> QED
      BY <1>0, <2>3, <3>1, <3>2 DEF ReadCampaign, tables, counted
  <2> QED
    BY <1>a, <2>1, <2>2, <2>3 DEF RequestArrives
<1>b. /\ late' = late /\ \A x \in Requests : x # q => req'[x] = req[x]
  <2>1. ASSUME RequestStep(q)
        PROVE  late' = late /\ \A x \in Requests : x # q => req'[x] = req[x]
    BY <1>0, <2>1 DEF RequestStep, CommitRecipients, UpdateRecipient, ListMail, SelectMail,
       UpdateMail, WriteCampaign, SnapshotMail, CancelMail, CommitCampaign, EnqueuePlan, counted
  <2> QED
    BY <1>a, <2>1
\* A step that neither holds nor is about to cancel anything.
<1>1. ASSUME UNCHANGED <<mail, camp>>, ~CancelLockKept(q), req'[q].pc \notin {"cancelling", "commit"}
      PROVE  CancelInvariant'
  <2>1. Cancelling(q)'
    BY <1>1 DEF Cancelling
  <2>2. CampHeld'
    BY <1>0, <1>1, <1>b, CampStep DEF CancelLockKept
  <2> QED
    BY <1>1, <1>b, <2>1, <2>2, CancelStep DEF Known
\* A step that ends the session.
<1>2. ASSUME CommitTables(q) \/ Discarded({q}), ~CancelLockKept(q),
             req'[q].pc \notin {"cancelling", "commit"},
             \/ ~CancelLooked
             \/ \A j \in MailJobs : mail.lock[j] # q \/ mail'.live[j] = mail.live[j]
      PROVE  CancelInvariant'
  <2>1. {q} \in SUBSET Sessions
    BY <1>0
  <2>2. camp.lock[Campaign] = q => camp.next[Campaign] # "CANCELLED"
    BY <1>0, <1>2, Apart DEF CampHeld, CancelLockKept
  <2>3. camp'.live[Campaign] = "CANCELLED" => camp.live[Campaign] = "CANCELLED"
    BY <1>2, <2>1, <2>2, EndFacts
  <2>4. CampHeld'
    <3>1. CASE camp.lock[Campaign] = q
      BY <1>0, <1>2, <2>1, <3>1, EndFacts, CampStep
    <3>2. CASE camp.lock[Campaign] # q
      BY <1>0, <1>2, <1>b, <2>1, <3>2, EndFacts, CampStep DEF CancelLockKept
    <3> QED
      BY <3>1, <3>2
  <2>5. ASSUME NEW j \in MailJobs, mail'.live[j] = "PENDING"
        PROVE  mail.live[j] = "PENDING" \/ ~CancelLooked
    BY <1>2, <2>1, <2>5, EndFacts
  <2>6. ASSUME NEW j \in MailJobs, NEW x \in Requests, x # q, mail.lock[j] = x
        PROVE  mail'.lock[j] = x /\ mail'.next[j] = mail.next[j]
    BY <1>2, <2>1, <2>6, EndFacts
  <2>7. Cancelling(q)'
    BY <1>2 DEF Cancelling
  <2> QED
    BY <1>b, <2>3, <2>4, <2>5, <2>6, <2>7, CancelStep DEF Known
<1>4. CASE RequestArrives(q)
  BY <1>1, <1>4, <1>a DEF CancelLockKept
<1>5. CASE CommitRecipients(q)
  <2>1. req[q].pc = "write" /\ req'[q].pc = "done"
    BY <1>0, <1>5, AnsweredFacts DEF CommitRecipients
  <2>2. \A j \in MailJobs : mail.lock[j] # q
    BY <1>0, <2>1, HeldFacts DEF RequestHoldsJob
  <2> QED
    BY <1>2, <1>5, <2>1, <2>2 DEF CommitRecipients, CancelLockKept
<1>6. ASSUME NEW r \in Recipients, UpdateRecipient(q, r) PROVE CancelInvariant'
  <2>1. req[q].pc = "write" /\ req'[q].pc = "write"
    BY <1>0, <1>6 DEF UpdateRecipient, RequestRecords
  <2> QED
    BY <1>1, <1>6, <2>1 DEF UpdateRecipient, tables, CancelLockKept
<1>7. CASE ListMail(q) \/ \E j \in MailJobs : SelectMail(q, j)
  <2>1. /\ req[q].pc \in {"list", "select"} /\ req'[q].pc \in {"select", "update", "status"}
        /\ UNCHANGED <<mail, camp>>
    <3>1. CASE ListMail(q)
      <4>1. PICK J \in SUBSET LiveMail(q), pc \in {"select", "status"} : req'[q].pc = pc
        BY <1>0, <3>1 DEF ListMail, RequestRecords
      <4> QED
        BY <3>1, <4>1 DEF ListMail, tables
    <3>2. ASSUME NEW j \in MailJobs, SelectMail(q, j)
          PROVE  req[q].pc = "select" /\ req'[q].pc = "update" /\ UNCHANGED <<mail, camp>>
      BY <1>0, <3>2 DEF SelectMail, RequestRecords, tables
    <3> QED
      BY <1>7, <3>1, <3>2
  <2> QED
    BY <1>1, <2>1 DEF CancelLockKept
<1>13. CASE UpdateMail(q)
  <2>1. req[q].pc = "update" /\ req'[q].pc \in {"select", "status"} /\ camp' = camp
    BY <1>0, <1>13 DEF UpdateMail, RequestRecords
  <2>2. PICK job \in MailJobs, x \in MailStatus :
          job = req[q].cur /\ mail' = Put(mail, q, job, x) /\ ~Locked(mail, q, job)
    <3>1. req[q].cur \in MailJobs /\ "PENDING" \in MailStatus
      BY <1>0, <2>1 DEF RequestFits, MailStatus
    <3>2. View(mail, q, req[q].cur) \in MailStatus
      BY <1>0, <3>1, TypedIsTypeOK, TypeFacts
    <3> QED
      BY <1>13, <3>1, <3>2 DEF UpdateMail
  <2>3. /\ mail'.live = mail.live
        /\ \A j \in MailJobs : j # job => mail'.lock[j] = mail.lock[j] /\ mail'.next[j] = mail.next[j]
    <3>1. mail \in Tables(MailJobs, MailStatus, Sessions)
      BY <1>0 DEF Typed, TablesTyped
    <3>2. /\ mail'.live = mail.live /\ mail'.next = [mail.next EXCEPT ![job] = x]
          /\ mail'.lock = [mail.lock EXCEPT ![job] = q]
      BY <1>0, <2>2, <3>1, PutRow
    <3> QED
      BY <3>1, <3>2 DEF Tables
  <2>4. \A j \in MailJobs, y \in Requests :
          y # q /\ mail.lock[j] = y => mail'.lock[j] = y /\ mail'.next[j] = mail.next[j]
    BY <2>2, <2>3, Apart DEF Locked
  <2>5. Cancelling(q)'
    BY <2>1 DEF Cancelling
  <2>6. CampHeld'
    BY <1>0, <1>b, <2>1, CampStep DEF CancelLockKept
  <2> QED
    BY <1>b, <2>1, <2>3, <2>4, <2>5, <2>6, CancelStep DEF Known
<1>8. CASE WriteCampaign(q)
  <2>0. req[q].pc = "status" /\ ~CancelLockKept(q)
    BY <1>8 DEF WriteCampaign, CancelLockKept
  <2>1. CASE Discarded({q}) /\ req' = [req EXCEPT ![q] = Answered]
    <3>1. mail'.live = mail.live
      BY <1>0, <2>1, DiscardRow DEF Discarded, Typed, TablesTyped
    <3> QED
      BY <1>0, <1>2, <2>0, <2>1, <3>1, AnsweredFacts
  <2>2. CASE View(camp, q, Campaign) = req[q].seen
    <3>1. /\ UNCHANGED mail
          /\ update_status_if(q, req[q].seen, req[q].target)
          /\ req' = [req EXCEPT ![q].pc = IF req[q].op = "cancel_campaign" THEN "snapshot" ELSE "commit"]
      BY <1>8, <2>2 DEF WriteCampaign
    <3>2. /\ req'[q].op = req[q].op /\ req'[q].target = req[q].target
          /\ req'[q].pc = IF req[q].op = "cancel_campaign" THEN "snapshot" ELSE "commit"
      BY <1>0, <3>1 DEF RequestRecords
    <3>3. req[q].target \in CampaignStatus
      BY <1>0, <2>0 DEF RequestFits
    <3>4. Cancelling(q)'
      BY <3>2 DEF Cancelling
    <3>5. /\ camp'.live = camp.live
          /\ \/ camp'.lock[Campaign] = camp.lock[Campaign] /\ camp'.next[Campaign] = camp.next[Campaign]
             \/ camp'.lock[Campaign] = q /\ camp'.next[Campaign] = req[q].target
      BY <1>0, <3>1, <3>3, StatusRow
    <3>6. CampHeld'
      <4>1. CASE camp'.lock[Campaign] = camp.lock[Campaign] /\ camp'.next[Campaign] = camp.next[Campaign]
        BY <1>0, <1>b, <2>0, <4>1, CampStep DEF CancelLockKept
      <4>2. CASE camp'.lock[Campaign] = q /\ camp'.next[Campaign] = req[q].target
        <5>1. CASE req[q].op = "cancel_campaign"
          BY <3>2, <4>2, <5>1 DEF CampHeld
        <5>2. CASE req[q].op # "cancel_campaign"
          BY <1>0, <4>2, <5>2, CampStep DEF RequestFits
        <5> QED
          BY <5>1, <5>2
      <4> QED
        BY <3>5, <4>1, <4>2
    <3> QED
      BY <1>b, <3>1, <3>4, <3>5, <3>6, CancelStep DEF Known
  <2> QED
    BY <1>8, <2>1, <2>2 DEF WriteCampaign
<1>9. CASE EnqueuePlan(q)
  <2>1. req[q].pc = "enqueue" /\ req'[q].pc = "done" /\ UNCHANGED <<mail, camp>>
    BY <1>0, <1>9 DEF EnqueuePlan, Answered, Request, tables
  <2> QED
    BY <1>1, <2>1 DEF CancelLockKept
<1>10. CASE SnapshotMail(q)
  <2>1. PICK rec : rec = [req[q] EXCEPT !.pc = "cancelling", !.plan = LiveMail(q)]
    OBVIOUS
  <2>2. /\ req[q].pc = "snapshot" /\ req'[q] = rec /\ rec.pc = "cancelling" /\ rec.plan = LiveMail(q)
        /\ rec.op = req[q].op /\ UNCHANGED <<mail, camp>>
    BY <1>0, <1>10, <2>1 DEF SnapshotMail, RequestRecords, tables
  <2>3. ASSUME NEW j \in MailJobs, mail.live[j] = "PENDING" PROVE j \in LiveMail(q)
    <3>1. mail.lock[j] # q
      BY <1>0, <2>2, HeldFacts DEF RequestHoldsJob
    <3> QED
      BY <2>3, <3>1 DEF LiveMail, View
  <2>4. Cancelling(q)'
    BY <2>2, <2>3 DEF Cancelling, LeftOver
  <2>5. CampHeld'
    BY <1>0, <1>b, <2>2, CampStep DEF CancelLockKept
  <2> QED
    BY <1>b, <2>2, <2>4, <2>5, CancelStep DEF Known
<1>11. CASE CancelMail(q)
  <2>1. PICK rec : rec = [req[q] EXCEPT !.pc = "commit", !.plan = {}]
    OBVIOUS
  <2>2. PICK J : J = req[q].plan \cap LiveMail(q)
    OBVIOUS
  <2>3. /\ req[q].pc = "cancelling" /\ req'[q] = rec /\ rec.pc = "commit" /\ rec.op = req[q].op
        /\ mail' = PutAll(mail, q, J, "CANCELLED") /\ UNCHANGED camp
        /\ \A j \in J : ~Locked(mail, q, j)
    BY <1>0, <1>11, <2>1, <2>2 DEF CancelMail, RequestRecords
  <2>4. /\ mail'.live = mail.live
        /\ \A j \in MailJobs : /\ mail'.next[j] = IF j \in J THEN "CANCELLED" ELSE mail.next[j]
                               /\ mail'.lock[j] = IF j \in J THEN q ELSE mail.lock[j]
    <3>1. mail \in Tables(MailJobs, MailStatus, Sessions) /\ "CANCELLED" \in MailStatus
      BY <1>0 DEF Typed, TablesTyped, MailStatus
    <3> QED
      BY <1>0, <2>3, <3>1, PutAllRows
  <2>5. ASSUME NEW j \in MailJobs, mail'.live[j] = "PENDING", req[q].op = "cancel_campaign"
        PROVE  LeftOver(q, j)'
    <3>1. mail.live[j] = "PENDING" /\ LeftOver(q, j) /\ mail.lock[j] # q
      BY <1>0, <2>3, <2>4, <2>5, HeldFacts DEF Cancelling, RequestHoldsJob
    <3>2. j \in late \/ j \in req[q].plan
      BY <3>1 DEF LeftOver
    <3>3. j \in LiveMail(q)
      BY <3>1 DEF LiveMail, View
    <3> QED
      BY <1>b, <2>2, <2>3, <2>4, <3>2, <3>3 DEF LeftOver
  <2>6. Cancelling(q)'
    BY <2>3, <2>5 DEF Cancelling
  <2>7. CampHeld'
    BY <1>0, <1>b, <2>3, CampStep DEF CancelLockKept
  <2>8. \A j \in MailJobs, x \in Requests :
          x # q /\ mail.lock[j] = x => mail'.lock[j] = x /\ mail'.next[j] = mail.next[j]
    BY <2>3, <2>4, Apart DEF Locked
  <2> QED
    BY <1>b, <2>3, <2>4, <2>6, <2>7, <2>8, CancelStep DEF Known
<1>12. CASE CommitCampaign(q)
  <2>1. req[q].pc = "commit" /\ req'[q].pc = "enqueue" /\ CommitTables(q) /\ req'[q].op = req[q].op
    BY <1>0, <1>12 DEF CommitCampaign, RequestRecords
  <2>2. CASE ~CancelLockKept(q)
    <3>1. camp.lock[Campaign] = q /\ req[q].op # "cancel_campaign"
      BY <2>1, <2>2 DEF Known, CampaignTaken, CampTaken, CancelLockKept
    <3>2. CASE req[q].op = "resume_campaign"
      <4>1. camp.live[Campaign] = "PAUSED"
        BY <2>1, <3>2 DEF Known, CampaignTaken, CampTaken
      <4>2. ~CancelLooked
        BY <3>1, <4>1 DEF Known, CampaignTaken, CampTaken, CancelLooked
      <4> QED
        BY <1>2, <2>1, <2>2, <4>2
    <3>3. CASE req[q].op # "resume_campaign"
      <4>1. \A j \in MailJobs : mail.lock[j] # q
        BY <1>0, <3>1, <3>3, HeldFacts DEF RequestHoldsJob
      <4> QED
        BY <1>2, <2>1, <2>2, <4>1
    <3> QED
      BY <3>2, <3>3
  <2>3. CASE CancelLockKept(q)
    <3>0. {q} \in SUBSET Sessions /\ req[q].op = "cancel_campaign" /\ camp.lock[Campaign] = q
      BY <1>0, <2>3 DEF CancelLockKept
    <3>1. ASSUME NEW j \in MailJobs, mail'.live[j] = "PENDING" PROVE mail.live[j] = "PENDING" /\ j \in late'
      <4>0. mail \in Tables(MailJobs, MailStatus, Sessions)
        BY <1>0 DEF Typed, TablesTyped
      <4>1. mail.lock[j] = q => RequestHoldsJob(q, j)
        BY <1>0, HeldFacts
      <4>2. mail.live[j] = "PENDING"
        BY <2>1, <3>0, <3>1, <4>1, EndFacts DEF RequestHoldsJob
      <4>3. LeftOver(q, j)
        BY <1>0, <2>1, <3>0, <4>2 DEF Cancelling
      <4>4. mail'.live[j] = IF mail.lock[j] = q THEN mail.next[j] ELSE mail.live[j]
        BY <2>1, <4>0, PublishRow DEF CommitTables
      <4> QED
        BY <1>b, <2>1, <3>1, <4>2, <4>3, <4>4 DEF LeftOver
    <3>2. CampHeld'
      BY <1>0, <2>1, <3>0, EndFacts, CampStep
    <3>3. Cancelling(q)'
      BY <2>1 DEF Cancelling
    <3>4. ASSUME NEW j \in MailJobs, NEW x \in Requests, x # q, mail.lock[j] = x
          PROVE  mail'.lock[j] = x /\ mail'.next[j] = mail.next[j]
      BY <2>1, <3>0, <3>4, EndFacts
    <3> QED
      BY <1>b, <3>1, <3>2, <3>3, <3>4, CancelStep DEF Known
  <2> QED
    BY <2>2, <2>3
<1> QED
  BY <1>4, <1>5, <1>6, <1>7, <1>8, <1>9, <1>10, <1>11, <1>12, <1>13 DEF RequestStep

\* A write that fails and a crash end sessions that hold no cancelled row.
LEMMA FailuresCancel ==
  ASSUME Known, (\E s \in Sessions : WriteFails(s)) \/ WorkerCrash
  PROVE  CancelInvariant'
<1>0. /\ Held /\ CampHeld /\ mail \in Tables(MailJobs, MailStatus, Sessions)
      /\ camp \in Tables({Campaign}, CampaignStatus, Sessions) /\ req \in [Requests -> RequestRecords]
  BY DEF Known, Held, Typed, TablesTyped, SessionTypes, CancelInvariant
<1>1. ASSUME NEW s \in Sessions, WriteFails(s) PROVE CancelInvariant'
  <2>1. {s} \in SUBSET Sessions /\ Discarded({s}) /\ late' = late
    BY <1>1 DEF WriteFails, counted
  <2>2. /\ \A x \in Requests : x # s => req'[x] = req[x]
        /\ s \in Requests => req'[s] = Answered
    BY <1>0, <1>1 DEF WriteFails
  <2>4. s \in Requests => Cancelling(s)'
    BY <2>2, AnsweredFacts DEF Cancelling
  <2>5. camp'.live[Campaign] = camp.live[Campaign] /\ mail'.live = mail.live
    BY <1>0, <2>1, DiscardRow DEF Discarded
  <2>6. CampHeld'
    <3>1. CASE camp.lock[Campaign] = s
      BY <1>0, <2>1, <3>1, EndFacts, CampStep
    <3>2. CASE camp.lock[Campaign] # s
      BY <1>0, <2>1, <2>2, <3>2, EndFacts, CampStep DEF CancelLockKept
    <3> QED
      BY <3>1, <3>2
  <2>7. ASSUME NEW j \in MailJobs, NEW x \in Requests, x # s, mail.lock[j] = x
        PROVE  mail'.lock[j] = x /\ mail'.next[j] = mail.next[j]
    BY <2>1, <2>7, EndFacts
  <2> QED
    BY <2>1, <2>2, <2>4, <2>5, <2>6, <2>7, CancelStep DEF Known
<1>2. CASE WorkerCrash
  <2>1. /\ Runs \cup Tasks \in SUBSET Sessions /\ Discarded(Runs \cup Tasks)
        /\ late' = late /\ req' = req
    BY <1>2 DEF WorkerCrash, Sessions
  <2>2. camp'.live[Campaign] = camp.live[Campaign] /\ mail'.live = mail.live
    BY <1>0, <2>1, DiscardRow DEF Discarded
  <2>3. CampHeld'
    <3>1. CASE camp.lock[Campaign] \in Runs \cup Tasks
      BY <1>0, <2>1, <3>1, EndFacts, CampStep
    <3>2. CASE camp.lock[Campaign] \notin Runs \cup Tasks
      BY <1>0, <2>1, <3>2, EndFacts, CampStep DEF CancelLockKept
    <3> QED
      BY <3>1, <3>2
  <2>4. ASSUME NEW j \in MailJobs, NEW x \in Requests, mail.lock[j] = x
        PROVE  mail'.lock[j] = x /\ mail'.next[j] = mail.next[j]
    BY <2>1, <2>4, EndFacts, Apart
  <2>5. PICK s : s \notin Requests
    <3>1. Free \notin Requests
      BY Apart
    <3> QED
      BY <3>1
  <2> QED
    BY <2>1, <2>2, <2>3, <2>4, <2>5, CancelStep DEF Known
<1> QED
  BY <1>1, <1>2

\* Whatever changes neither the jobs nor the campaign nor a request keeps it.
LEMMA QuietCancel ==
  ASSUME Known, UNCHANGED <<mail, camp, req, late>>
  PROVE  CancelInvariant'
  BY DEF Known, CancelInvariant, CampHeld, Cancelling, LeftOver, CancelledIsOver

\* A step of session s leaves the campaign's row to the request that holds it.
CampMoves(s) ==
  \/ camp' = camp \/ camp' = Publish(camp, s) \/ camp' = Discard(camp, {s})
  \/ \E x, y \in CampaignStatus : update_status_if(s, x, y)

LEMMA TakenStep ==
  ASSUME Known, NEW s \in Sessions, CampMoves(s), NEW q \in Requests, q # s, req'[q] = req[q]
  PROVE  CampTaken(q)'
<1>0. /\ CampTaken(q) /\ q # Free /\ Typed
      /\ camp \in Tables({Campaign}, CampaignStatus, Sessions)
  BY Apart DEF Known, CampaignTaken, Held, Typed, TablesTyped
<1>1. \/ /\ camp'.lock[Campaign] = camp.lock[Campaign]
         /\ camp'.live[Campaign] = camp.live[Campaign] /\ camp'.next[Campaign] = camp.next[Campaign]
      \/ camp'.lock[Campaign] \in {s, Free} /\ camp.lock[Campaign] \in {s, Free}
  <2>1. CASE camp' = Publish(camp, s) \/ camp' = Discard(camp, {s})
    BY <1>0, <2>1, PublishRow, DiscardRow
  <2>2. ASSUME NEW x \in CampaignStatus, NEW y \in CampaignStatus, update_status_if(s, x, y)
        PROVE  \/ /\ camp'.lock[Campaign] = camp.lock[Campaign]
                  /\ camp'.live[Campaign] = camp.live[Campaign]
                  /\ camp'.next[Campaign] = camp.next[Campaign]
               \/ camp'.lock[Campaign] \in {s, Free} /\ camp.lock[Campaign] \in {s, Free}
    BY <1>0, <2>2, StatusRow
  <2> QED
    BY <2>1, <2>2 DEF CampMoves
<1> QED
  BY <1>0, <1>1 DEF CampTaken

\* A run, a task and a request write the campaign's row by a conditional update.
LEMMA CampMovesWhen ==
  ASSUME Known
  PROVE  /\ \A s \in Runs : RunStep(s) => CampMoves(s) /\ req' = req
         /\ \A t \in Tasks : TaskStep(t) => CampMoves(t) /\ req' = req
<1>1. ASSUME NEW s \in Runs, RunStep(s) PROVE CampMoves(s) /\ req' = req
  <2>1. CASE CommitRun(s)
    BY <2>1 DEF CommitRun, CommitTables, CampMoves
  <2>2. ASSUME NEW r \in Recipients, Advance(s, r) \/ PassOver(s, r) \/ FinishRecipient(s, r)
        PROVE  CampMoves(s) /\ req' = req
    BY <2>2 DEF Advance, PassOver, FinishRecipient, tables, CampMoves
  <2>3. CASE StartRun(s) \/ CountActive(s) \/ SweepCountsLive(s)
    BY <2>3 DEF StartRun, CountActive, SweepCountsLive, tables, CampMoves
  <2>4. CASE CompleteSequence(s) \/ SweepCompletes(s)
    <3>1. camp' = camp \/ \E x : x \in {run[s].seen, "SENDING"} /\ update_status_if(s, x, "COMPLETED")
      BY <2>4 DEF CompleteSequence, SweepCompletes
    <3>2. View(camp, s, Campaign) \in CampaignStatus
      BY TypedIsTypeOK, TypeFacts DEF Known, Held
    <3>3. \A x : update_status_if(s, x, "COMPLETED") => camp' = camp \/ x \in CampaignStatus
      BY <3>2 DEF update_status_if
    <3> QED
      BY <2>4, <3>1, <3>3 DEF CompleteSequence, SweepCompletes, CampMoves, CampaignStatus
  <2> QED
    BY <1>1, <2>1, <2>2, <2>3, <2>4 DEF RunStep, SchedulerStep
<1>2. ASSUME NEW t \in Tasks, TaskStep(t) PROVE CampMoves(t) /\ req' = req
  <2>1. CASE CommitTask(t)
    BY <2>1 DEF CommitTask, CommitTables, CampMoves
  <2>2. ASSUME NEW o \in Outcomes, Deliver(t, o) PROVE CampMoves(t) /\ req' = req
    BY <2>2 DEF Deliver, CampMoves, CampaignStatus
  <2>3. CASE ReadState(t) \/ ClaimFails(t) \/ \E j \in MailJobs : TakeCall(t, j)
    BY <2>3 DEF ReadState, ClaimFails, TakeCall, tables, CampMoves
  <2> QED
    BY <1>2, <2>1, <2>2, <2>3 DEF TaskStep
<1> QED
  BY <1>1, <1>2

\* A request takes the campaign's row with its UPDATE and frees it when it ends.
LEMMA RequestTaken ==
  ASSUME Known, NEW q \in Requests, RequestArrives(q) \/ RequestStep(q)
  PROVE  CampaignTaken'
<1>0. /\ q \in Sessions /\ q # Free /\ Typed /\ RequestFits(q) /\ CampTaken(q)
      /\ req \in [Requests -> RequestRecords] /\ req[q] \in RequestRecords
      /\ camp \in Tables({Campaign}, CampaignStatus, Sessions)
  BY Apart DEF Known, CampaignTaken, Held, Typed, TablesTyped, SessionTypes, SessionsFit
<1>1. ASSUME CampMoves(q), \A x \in Requests : x # q => req'[x] = req[x], CampTaken(q)'
      PROVE  CampaignTaken'
  BY <1>0, <1>1, TakenStep DEF CampaignTaken
\* The campaign's row is not this request's, before or after.
<1>2. ASSUME UNCHANGED camp, \A x \in Requests : x # q => req'[x] = req[x],
             {req[q].pc, req'[q].pc} \cap {"snapshot", "cancelling", "commit"} = {}
      PROVE  CampaignTaken'
  <2>1. CampTaken(q)'
    BY <1>0, <1>2 DEF CampTaken
  <2> QED
    BY <1>1, <1>2, <2>1 DEF CampMoves
\* The session ends.
<1>3. ASSUME camp' = Publish(camp, q) \/ camp' = Discard(camp, {q}),
             \A x \in Requests : x # q => req'[x] = req[x], req'[q].pc \in {"done", "enqueue"}
      PROVE  CampaignTaken'
  <2>1. camp'.lock[Campaign] # q
    BY <1>0, <1>3, PublishRow, DiscardRow
  <2>2. CampTaken(q)'
    BY <1>3, <2>1 DEF CampTaken
  <2> QED
    BY <1>1, <1>3, <2>2 DEF CampMoves
<1>4. CASE RequestArrives(q)
  <2>1. CASE \/ \E b \in BOOLEAN : set_paused_all(q, b)
             \/ \E r \in Recipients, b \in BOOLEAN : set_replied(q, r, b)
    <3>1. /\ req[q].pc = "new" /\ req' = [req EXCEPT ![q] = Answered] /\ UNCHANGED camp
      BY <1>0, <2>1, AppliedTyped
    <3> QED
      BY <1>0, <1>2, <3>1, AnsweredFacts
  <2>2. ASSUME NEW op \in SequenceOps, NEW R \in SUBSET Recipients, ReadRecipients(q, op, R)
        PROVE  CampaignTaken'
    <3>1. /\ req[q].pc = "new" /\ UNCHANGED camp /\ \A x \in Requests : x # q => req'[x] = req[x]
          /\ req'[q].pc = "write"
      BY <1>0, <2>2 DEF ReadRecipients, tables, Request
    <3> QED
      BY <1>2, <3>1
  <2>3. ASSUME NEW op \in SequenceOps, ReadCampaign(q, op) PROVE CampaignTaken'
    <3>1. PICK rec : /\ req' = [req EXCEPT ![q] = rec]
                     /\ \/ \E x : rec = [Request("list") EXCEPT !.op = op, !.seen = x]
                        \/ \E x : rec = [Request("status") EXCEPT !.op = op, !.seen = x, !.target = TargetOf(op)]
                        \/ rec = Answered
      BY <2>3 DEF ReadCampaign
    <3>2. rec.pc \in {"list", "status", "done"}
      BY <3>1, AnsweredFacts DEF Request
    <3>3. req[q].pc = "new" /\ UNCHANGED camp
      BY <2>3 DEF ReadCampaign, tables
    <3> QED
      BY <1>0, <1>2, <3>1, <3>2, <3>3
  <2> QED
    BY <1>4, <2>1, <2>2, <2>3 DEF RequestArrives
<1>5. CASE CommitRecipients(q) \/ CommitCampaign(q)
  <2>1. /\ camp' = Publish(camp, q) /\ req'[q].pc \in {"done", "enqueue"}
        /\ \A x \in Requests : x # q => req'[x] = req[x]
    BY <1>0, <1>5 DEF CommitRecipients, CommitCampaign, CommitTables, Answered, Request, RequestRecords
  <2> QED
    BY <1>3, <2>1
<1>6. ASSUME NEW r \in Recipients, UpdateRecipient(q, r) PROVE CampaignTaken'
  <2>1. /\ req[q].pc = "write" /\ req'[q].pc = "write" /\ UNCHANGED camp
        /\ \A x \in Requests : x # q => req'[x] = req[x]
    BY <1>0, <1>6 DEF UpdateRecipient, tables, RequestRecords
  <2> QED
    BY <1>2, <2>1
<1>7. CASE ListMail(q) \/ UpdateMail(q) \/ \E j \in MailJobs : SelectMail(q, j)
  <2>1. /\ req[q].pc \in {"list", "select", "update"} /\ req'[q].pc \in {"select", "update", "status"}
        /\ UNCHANGED camp /\ \A x \in Requests : x # q => req'[x] = req[x]
    <3>1. CASE ListMail(q)
      <4>1. PICK J \in SUBSET LiveMail(q), pc \in {"select", "status"} : req'[q].pc = pc
        BY <1>0, <3>1 DEF ListMail, RequestRecords
      <4> QED
        BY <1>0, <3>1, <4>1 DEF ListMail, tables
    <3>2. CASE UpdateMail(q)
      BY <1>0, <3>2 DEF UpdateMail, RequestRecords
    <3>3. ASSUME NEW j \in MailJobs, SelectMail(q, j)
          PROVE  /\ req[q].pc = "select" /\ req'[q].pc = "update" /\ UNCHANGED camp
                 /\ \A x \in Requests : x # q => req'[x] = req[x]
      BY <1>0, <3>3 DEF SelectMail, RequestRecords, tables
    <3> QED
      BY <1>7, <3>1, <3>2, <3>3
  <2> QED
    BY <1>2, <2>1
<1>8. CASE WriteCampaign(q)
  <2>1. CASE Discarded({q}) /\ req' = [req EXCEPT ![q] = Answered]
    <3>1. /\ camp' = Discard(camp, {q}) /\ req'[q].pc = "done"
          /\ \A x \in Requests : x # q => req'[x] = req[x]
      BY <1>0, <2>1, AnsweredFacts DEF Discarded
    <3> QED
      BY <1>3, <3>1
  <2>2. CASE View(camp, q, Campaign) = req[q].seen
    <3>1. /\ update_status_if(q, req[q].seen, req[q].target) /\ req[q].pc = "status"
          /\ req' = [req EXCEPT ![q].pc = IF req[q].op = "cancel_campaign" THEN "snapshot" ELSE "commit"]
      BY <1>8, <2>2 DEF WriteCampaign
    <3>2. /\ req'[q].pc \in {"snapshot", "commit"} /\ req'[q].op = req[q].op
          /\ req'[q].target = req[q].target /\ \A x \in Requests : x # q => req'[x] = req[x]
      BY <1>0, <3>1 DEF RequestRecords
    <3>3. req[q].target \in CampaignStatus /\ (req[q].op = "resume_campaign" => req[q].seen = "PAUSED")
      BY <1>0, <3>1 DEF RequestFits
    <3>4. camp.lock[Campaign] # q /\ req[q].seen = camp.live[Campaign]
          /\ req[q].seen \in CampaignStatus
      BY <1>0, <2>2, <3>1, TypedIsTypeOK, TypeFacts DEF CampTaken, View
    <3>5. camp' = Put(camp, q, Campaign, req[q].target)
      BY <2>2, <3>1 DEF update_status_if
    <3>6. /\ camp'.live = camp.live /\ camp'.lock[Campaign] = q
          /\ camp'.next[Campaign] = req[q].target
      <4>1. /\ camp'.live = camp.live /\ camp'.next = [camp.next EXCEPT ![Campaign] = req[q].target]
            /\ camp'.lock = [camp.lock EXCEPT ![Campaign] = q]
        BY <1>0, <3>3, <3>5, PutRow
      <4> QED
        BY <1>0, <4>1 DEF Tables
    <3>7. CampTaken(q)'
      BY <3>2, <3>3, <3>4, <3>6 DEF CampTaken
    <3> QED
      BY <1>1, <3>1, <3>2, <3>3, <3>4, <3>7 DEF CampMoves
  <2> QED
    BY <1>8, <2>1, <2>2 DEF WriteCampaign
<1>9. CASE SnapshotMail(q) \/ CancelMail(q)
  <2>1. /\ req[q].pc \in {"snapshot", "cancelling"} /\ req'[q].pc \in {"cancelling", "commit"}
        /\ req'[q].op = req[q].op /\ UNCHANGED camp
        /\ \A x \in Requests : x # q => req'[x] = req[x]
    <3>1. CASE SnapshotMail(q)
      BY <1>0, <3>1 DEF SnapshotMail, tables, RequestRecords
    <3>2. CASE CancelMail(q)
      BY <1>0, <3>2 DEF CancelMail, tables, RequestRecords
    <3> QED
      BY <1>9, <3>1, <3>2
  <2>2. req[q].op = "cancel_campaign"
    BY <1>0, <2>1 DEF RequestFits
  <2>3. CampTaken(q)'
    BY <1>0, <2>1, <2>2 DEF CampTaken
  <2> QED
    BY <1>1, <2>1, <2>3 DEF CampMoves
<1>10. CASE EnqueuePlan(q)
  <2>1. /\ req[q].pc = "enqueue" /\ req'[q].pc = "done" /\ UNCHANGED camp
        /\ \A x \in Requests : x # q => req'[x] = req[x]
    BY <1>0, <1>10 DEF EnqueuePlan, tables, Answered, Request
  <2> QED
    BY <1>2, <2>1
<1> QED
  BY <1>4, <1>5, <1>6, <1>7, <1>8, <1>9, <1>10 DEF RequestStep

\* Every step leaves the campaign's row with the request that has taken it.
LEMMA StepTaken ==
  ASSUME Known, [Next]_vars
  PROVE  CampaignTaken'
<1>1. ASSUME NEW s \in Runs \cup Tasks, CampMoves(s), req' = req PROVE CampaignTaken'
  BY <1>1, TakenStep, Apart DEF CampaignTaken
<1>2. ASSUME NEW s \in Sessions, WriteFails(s) PROVE CampaignTaken'
  <2>1. camp' = Discard(camp, {s})
    BY <1>2 DEF WriteFails, Discarded
  <2>2. /\ \A x \in Requests : x # s => req'[x] = req[x]
        /\ s \in Requests => req'[s].pc = "done"
    BY <1>2 DEF WriteFails, Answered, Request, Known, Held, Typed, SessionTypes
  <2>3. camp'.lock[Campaign] # s
    BY <1>2, <2>1, DiscardRow, Apart DEF Known, Held, Typed, TablesTyped
  <2>4. s \in Requests => CampTaken(s)'
    BY <2>2, <2>3 DEF CampTaken
  <2> QED
    BY <2>1, <2>2, <2>4, TakenStep DEF CampMoves, CampaignTaken
<1>3. CASE WorkerCrash
  <2> SUFFICES ASSUME NEW q \in Requests PROVE CampTaken(q)'
    BY DEF CampaignTaken
  <2>1. camp' = Discard(camp, Runs \cup Tasks) /\ req' = req
    BY <1>3 DEF WorkerCrash, Discarded
  <2>2. CampTaken(q) /\ q \notin Runs \cup Tasks /\ q # Free
    BY Apart DEF Known, CampaignTaken
  <2>3. \/ /\ camp'.lock[Campaign] = camp.lock[Campaign]
           /\ camp'.live[Campaign] = camp.live[Campaign] /\ camp'.next[Campaign] = camp.next[Campaign]
        \/ camp'.lock[Campaign] = Free /\ camp.lock[Campaign] \in Runs \cup Tasks
    BY <2>1, DiscardRow DEF Known, Held, Typed, TablesTyped
  <2> QED
    BY <2>1, <2>2, <2>3 DEF CampTaken
<1>4. ASSUME UNCHANGED <<camp, req>> PROVE CampaignTaken'
  BY <1>4 DEF Known, CampaignTaken, CampTaken
<1>5. ASSUME NEW s \in Sessions, EditStep(s) PROVE CampaignTaken'
  BY <1>4, <1>5 DEF EditStep, SelectRow, WriteRow, tables, actors
<1>6. ASSUME NEW r \in Recipients, NEW n \in Steps, WaitOver(r, n) PROVE CampaignTaken'
  BY <1>4, <1>6 DEF WaitOver, tables, actors
<1>7. CASE UNCHANGED vars
  BY <1>4, <1>7 DEF vars, tables, actors
<1> QED
  BY <1>1, <1>2, <1>3, <1>5, <1>6, <1>7, CampMovesWhen, RequestTaken DEF Next

\* Every step keeps what is known of jobs and campaign.
LEMMA StepKnown == Known /\ [Next]_vars => Known'
<1> SUFFICES ASSUME Known, [Next]_vars PROVE CancelInvariant'
  BY StepHeld, StepTaken DEF Known
<1>1. ASSUME NEW s \in Sessions, EditStep(s) PROVE CancelInvariant'
  BY <1>1, QuietCancel DEF EditStep, SelectRow, WriteRow, tables, actors, counted
<1>2. ASSUME NEW r \in Recipients, NEW n \in Steps, WaitOver(r, n) PROVE CancelInvariant'
  BY <1>2, QuietCancel DEF WaitOver, tables, actors, counted
<1>3. CASE UNCHANGED vars
  BY <1>3, QuietCancel DEF vars, tables, actors, counted
<1> QED
  BY <1>1, <1>2, <1>3, RunStepCancel, TaskStepCancel, RequestStepCancel, FailuresCancel DEF Next

\* At first no campaign is cancelled.
LEMMA InitKnown == Init => Known
<1> SUFFICES ASSUME Init PROVE CancelInvariant /\ CampaignTaken
  BY InitHeld DEF Known
<1>1. camp.lock[Campaign] = Free /\ camp.live[Campaign] = "SCHEDULED"
  BY DEF Init, Committed
<1>2. \A q \in Requests : req[q].pc = "new"
  BY DEF Init, Request
<1> QED
  BY <1>1, <1>2, Apart DEF CancelInvariant, CampHeld, Cancelling, CancelledIsOver, CampaignTaken, CampTaken

\* A task holds a job that waits for everybody else, a run one that is new, a cancel one
\* that waits; a resume may hold any that is there, with the PENDING it has listed.  The
\* campaign's row is a request's from its UPDATE to its commit, and a cancel finds every
\* job that waits but those a run commits later.
THEOREM HeldHolds ==
  Spec => [](SessionTypes /\ SessionsFit /\ MailHeld /\ CancelInvariant /\ CampaignTaken)
<1>1. Spec => []Known
  BY InitKnown, StepKnown, PTL DEF Spec
<1>2. Known => SessionTypes /\ SessionsFit /\ MailHeld /\ CancelInvariant /\ CampaignTaken
  BY DEF Known, Held, Typed
<1> QED
  BY <1>1, <1>2, PTL

\* Once a cancel of the campaign is committed no job waits but those a scheduler
\* run committed after cancel_pending had looked.
THEOREM CancelledIsOverHolds == Spec => []CancelledIsOver
<1>1. CancelInvariant => CancelledIsOver
  BY DEF CancelInvariant
<1> QED
  BY <1>1, HeldHolds, PTL

\* After that commit no mail leaves, those late jobs again excepted: the claim
\* reads the job again.
THEOREM CancelStopsSequenceHolds == Spec => CancelStopsSequence
<1>1. Known /\ [Next]_vars =>
        [\A t \in Tasks :
           mailed' # mailed /\ task[t].pc = "claim" /\ task'[t].pc = "state"
             => camp.live[Campaign] # "CANCELLED" \/ task[t].job \in late]_vars
  <2> SUFFICES ASSUME Known, [Next]_vars, NEW t \in Tasks, mailed' # mailed,
                      task[t].pc = "claim", task'[t].pc = "state",
                      camp.live[Campaign] = "CANCELLED"
               PROVE  task[t].job \in late
    OBVIOUS
  <2>0. Held /\ Typed /\ task \in [Tasks -> TaskRecords] /\ TaskFits(t) /\ CancelledIsOver
    BY DEF Known, Held, Typed, SessionTypes, SessionsFit, CancelInvariant
  <2>1. PICK x \in Tasks : \E o \in Outcomes : Deliver(x, o)
    <3>1. ASSUME NEW q \in Requests, RequestArrives(q) PROVE mailed' = mailed
      BY <2>0, <3>1, AppliedTyped DEF RequestArrives, ReadRecipients, ReadCampaign
    <3>2. ASSUME NEW s \in Runs, RunStep(s) PROVE mailed' = mailed
      BY <3>2 DEF RunStep, SchedulerStep, StartRun, CountActive, CompleteSequence, PassOver,
         FinishRecipient, Advance, SweepCountsLive, SweepCompletes, CommitRun
    <3>3. ASSUME NEW q \in Requests, RequestStep(q) PROVE mailed' = mailed
      BY <3>3 DEF RequestStep, CommitRecipients, UpdateRecipient, ListMail, SelectMail,
         UpdateMail, WriteCampaign, SnapshotMail, CancelMail, CommitCampaign, EnqueuePlan
    <3>4. ASSUME NEW s \in Sessions, EditStep(s) \/ WriteFails(s) PROVE mailed' = mailed
      BY <3>4 DEF EditStep, SelectRow, WriteRow, WriteFails
    <3>5. UNCHANGED vars \/ WorkerCrash \/ (\E r \in Recipients, n \in Steps : WaitOver(r, n))
            => mailed' = mailed
      BY DEF vars, WorkerCrash, WaitOver
    <3> QED
      BY <3>1, <3>2, <3>3, <3>4, <3>5
      DEF Next, TaskStep, TakeCall, ClaimFails, ReadState, CommitTask
  <2>2. x = t
    <3>1. x # t => task'[t] = task[t]
      BY <2>0, <2>1 DEF Deliver
    <3> QED
      BY <3>1
  <2>3. task[t].job \in MailJobs /\ View(mail, t, task[t].job) = "PENDING"
    BY <2>0, <2>1, <2>2 DEF Deliver, TaskFits
  <2>4. mail.lock[task[t].job] # t
    BY <2>0, <2>3, HeldFacts DEF TaskHoldsJob
  <2>5. mail.live[task[t].job] = "PENDING"
    BY <2>3, <2>4 DEF View
  <2> QED
    BY <2>0, <2>3, <2>5 DEF CancelledIsOver
<1>2. Spec => []Known
  BY InitKnown, StepKnown, PTL DEF Spec
<1> QED
  BY <1>1, <1>2, PTL DEF Spec, CancelStopsSequence
-----------------------------------------------------------------------------
(***************************************************************************)
(* A campaign whose recipients are paused, resumed and stopped by nobody:  *)
(* the rows and the jobs agree.                                            *)
(***************************************************************************)
Campaigned == SequenceOps \subseteq CampaignOps

\* What is known of jobs, campaign and recipients then.
RowKnown == Known /\ RowInvariant

\* Nobody but a run or a task writes a recipient's row then.
LEMMA NoRecipientRequests ==
  ASSUME Campaigned, NEW q \in Requests
  PROVE  /\ \A b \in BOOLEAN : ~set_paused_all(q, b)
         /\ \A r \in Recipients, b \in BOOLEAN : ~set_replied(q, r, b)
         /\ \A op \in SequenceOps, R \in SUBSET Recipients : ~ReadRecipients(q, op, R)
  BY DEF Campaigned, CampaignOps, set_paused_all, set_replied, ReadRecipients

\* A recipient is kept until a request commits.
LEMMA KeptFacts ==
  /\ Kept \subseteq Recipients /\ Kept' \subseteq Recipients
  /\ reverted' = reverted => Kept' = Kept
  BY DEF Kept, Rewritten

\* A recipient has one job for each step, but for copies.
LEMMA JobFacts ==
  /\ \A r \in Recipients, n \in Steps :
       /\ Job(r, n) \in MailJobs /\ Job(r, n).to = r /\ Job(r, n).step = n /\ Job(r, n).copy = 1
  /\ \A j \in MailJobs : j.copy = 1 => j = Job(j.to, j.step)
  /\ \A r, n : Job(r, n).to = r /\ Job(r, n).step = n
  BY StepsAssumption DEF Job, MailJobs

\* What is known of a recipient's row and of the jobs.
LEMMA RowTypes ==
  ASSUME Known, NEW r \in Recipients
  PROVE  /\ rows.live[r] \in RecipientRow /\ rows.next[r] \in RecipientRow
         /\ rows.lock[r] \in Sessions \cup {Free}
         /\ rows.live[r].step \in Steps /\ rows.next[r].step \in Steps
         /\ \A s : View(rows, s, r) \in RecipientRow
<1>1. TypeOK
  BY TypedIsTypeOK DEF Known, Held
<1>2. /\ rows.live[r] \in RecipientRow /\ rows.next[r] \in RecipientRow
      /\ rows.lock[r] \in Sessions \cup {Free}
      /\ \A s : View(rows, s, r) \in RecipientRow
  BY <1>1, TypeFacts
<1> QED
  BY <1>2, RowFacts

\* A job that waits is the one of the step its recipient is at; the row says
\* neither that it was sent nor that the sequence is over, and no run has it.
LEMMA Waiting ==
  ASSUME RowKnown, NEW j \in MailJobs, j.to \in Kept, mail.live[j] = "PENDING"
  PROVE  /\ j.to \in Recipients /\ j.step = rows.live[j.to].step /\ j = Job(j.to, j.step)
         /\ ~rows.live[j.to].completed
         /\ rows.live[j.to].statuses[j.step] # "SENT"
         /\ rows.lock[j.to] \notin Runs
         /\ \A s \in Runs : Editing(s) => edit[s].who # j.to
<1>1. j.to \in Recipients /\ j.step \in Steps /\ RowFits(j.to) /\ RowHeld(j.to) /\ OneCopy(j)
  BY Jobs DEF RowKnown, RowInvariant
<1>2. j = Job(j.to, j.step)
  BY <1>1, JobFacts DEF OneCopy, Absent
<1>3. rows.live[j.to].step \in Steps
  BY <1>1, RowTypes DEF RowKnown
<1>4. j.step = rows.live[j.to].step
  <2>1. j.step \in Nat /\ rows.live[j.to].step \in Nat
    BY <1>1, <1>3, Jobs
  <2>2. ~(j.step < rows.live[j.to].step)
    BY <1>1, <1>2 DEF RowFits
  <2>3. ~(j.step > rows.live[j.to].step)
    BY <1>1, <1>2 DEF RowFits, Absent
  <2> QED
    BY <2>1, <2>2, <2>3
<1>5. ~rows.live[j.to].completed /\ rows.live[j.to].statuses[j.step] # "SENT"
  BY <1>1, <1>2, <1>4 DEF RowFits
<1>6. rows.lock[j.to] \notin Runs
  BY <1>1, <1>2, <1>4 DEF RowHeld, RunHoldsRow
<1>7. ASSUME NEW s \in Runs, Editing(s) PROVE edit[s].who # j.to
  <2>1. RunEdits(s)
    BY DEF RowKnown, RowInvariant
  <2> QED
    BY <1>2, <1>4, <1>7, <2>1 DEF RunEdits
<1> QED
  BY <1>1, <1>2, <1>4, <1>5, <1>6, <1>7

\* A job that was sent is nobody's but a resume's, and one that is not there a run's.
LEMMA SentFacts ==
  ASSUME Held, NEW j \in MailJobs
  PROVE  /\ mail.live[j] = "SENT" => mail.lock[j] \in Requests \cup {Free}
         /\ mail.live[j] = Absent => mail.lock[j] \in Runs \cup {Free}
         /\ mail.lock[j] = Free => mail.next[j] = mail.live[j]
<1>1. mail.lock[j] \in Sessions \cup {Free} /\ JobHeld(j)
  BY HeldFacts
<1> QED
  BY <1>1, Apart DEF JobHeld, TaskHoldsJob, RunHoldsJob, RequestHoldsJob, Absent

\* What a task is about to record, or has recorded, is its own job's fate.
LEMMA TaskOwns ==
  ASSUME RowKnown, NEW t \in Tasks, task[t].pc \in {"state", "commit"}
  PROVE  /\ task[t].job \in MailJobs /\ mail.lock[task[t].job] = t
         /\ mail.live[task[t].job] = "PENDING" /\ mail.next[task[t].job] = task[t].result
<1>1. task[t].job \in MailJobs /\ TaskOwnsJob(t) /\ Held
  BY DEF RowKnown, Known, Held, Typed, SessionsFit, TaskFits, RowInvariant
<1> QED
  BY <1>1, HeldFacts DEF TaskOwnsJob, TaskHoldsJob
-----------------------------------------------------------------------------
(***************************************************************************)
(* A step of session s leaves alone what the others hold, and moves no     *)
(* recipient back.                                                         *)
(***************************************************************************)
SameRecords(x) ==
  /\ edit'[x] = edit[x]
  /\ x \in Runs => run'[x] = run[x]
  /\ x \in Tasks => task'[x] = task[x]
  /\ x \in Requests => req'[x] = req[x]

\* A step of session s takes and frees rows for itself only and changes no other
\* session's record; of the recipients that are still kept it forgets no mail that
\* was sent and takes none back.
JobsLeft(s) ==
  \A j \in MailJobs :
    /\ mail'.lock[j] \in {mail.lock[j], s, Free}
    /\ mail.lock[j] \notin {s, Free} =>
         mail'.lock[j] = mail.lock[j] /\ mail'.next[j] = mail.next[j] /\ mail'.live[j] = mail.live[j]
    /\ j.to \in Kept' /\ mail.live[j] = "SENT" => mail'.live[j] = "SENT"

RowsLeft(s) ==
  \A r \in Kept' :
    /\ rows'.lock[r] \in {rows.lock[r], s, Free}
    /\ rows.lock[r] \notin {s, Free} =>
         rows'.lock[r] = rows.lock[r] /\ rows'.next[r] = rows.next[r] /\ rows'.live[r] = rows.live[r]
    /\ rows'.live[r].step >= rows.live[r].step

HandsOff(s) ==
  Kept' \subseteq Kept /\ JobsLeft(s) /\ RowsLeft(s) /\ \A x \in Sessions : x # s => SameRecords(x)

\* Then the others are where they were.
LEMMA OthersKept ==
  ASSUME RowKnown, Known', NEW s, HandsOff(s), NEW x \in Sessions, x # s
  PROVE  /\ x \in Runs => RunEdits(x)' /\ \A r \in Kept' : ListedFits(x, r)'
         /\ x \in Tasks => TaskEdits(x)' /\ TaskOwnsJob(x)'
         /\ x \in Requests => RequestsAside(x)'
         /\ \A r \in Kept' : rows.lock[r] = x => RowHeld(r)'
         /\ \A j \in MailJobs : j.to \in Kept' /\ mail.lock[j] = x => NewJobHeld(j)'
<1>0. SameRecords(x) /\ x # Free /\ Kept' \subseteq Kept /\ Kept \subseteq Recipients
  BY Apart, KeptFacts DEF HandsOff
<1>1. ASSUME x \in Runs PROVE RunEdits(x)'
  <2> SUFFICES ASSUME Editing(x), edit[x].who \in Kept'
               PROVE  /\ rows'.lock[edit[x].who] # x /\ Untouched(edit[x].new)
                      /\ edit[x].new.step = LastStep /\ edit[x].new.completed
                      /\ rows'.live[edit[x].who].step = LastStep
                      /\ mail'.live[Job(edit[x].who, LastStep)] = "SENT"
                      /\ edit[x].at = "write" => edit[x].base.step = LastStep
    BY <1>0 DEF RunEdits, SameRecords, Editing
  <2>1. RunEdits(x) /\ edit[x].who \in Kept /\ edit[x].who \in Recipients
    BY <1>0, <1>1 DEF RowKnown, RowInvariant, Known, Held, Typed, SessionsFit, EditFits
  <2>2. rows'.live[edit[x].who].step \in Steps /\ rows.live[edit[x].who].step \in Steps
    <3>1. rows' \in Tables(Recipients, RecipientRow, Sessions)
      BY DEF Known, Held, Typed, TablesTyped
    <3>2. rows'.live[edit[x].who] \in RecipientRow
      BY <2>1, <3>1 DEF Tables
    <3> QED
      BY <2>1, <3>2, RowFacts, RowTypes DEF RowKnown
  <2>3. rows'.live[edit[x].who].step = LastStep
    <3>1. /\ rows'.live[edit[x].who].step \in Nat /\ rows'.live[edit[x].who].step <= LastStep
          /\ LastStep \in Nat
      BY <2>2, Jobs, StepsAssumption
    <3>2. rows'.live[edit[x].who].step >= rows.live[edit[x].who].step
      BY <2>1 DEF HandsOff, RowsLeft
    <3>3. rows.live[edit[x].who].step = LastStep
      BY <1>1, <2>1 DEF RunEdits
    <3> QED
      BY <3>1, <3>2, <3>3
  <2>4. mail'.live[Job(edit[x].who, LastStep)] = "SENT"
    <3>1. Job(edit[x].who, LastStep) \in MailJobs /\ Job(edit[x].who, LastStep).to = edit[x].who
      BY <2>1, <2>2, JobFacts DEF RunEdits
    <3> QED
      BY <2>1, <3>1 DEF RunEdits, HandsOff, JobsLeft
  <2>5. rows'.lock[edit[x].who] # x
    BY <1>0, <2>1 DEF RunEdits, HandsOff, RowsLeft
  <2> QED
    BY <2>1, <2>3, <2>4, <2>5 DEF RunEdits
<1>2. ASSUME x \in Runs, NEW r \in Kept' PROVE ListedFits(x, r)'
  <2> SUFFICES ASSUME r \in DOMAIN run[x].listed
               PROVE  /\ run[x].pc = "visit" /\ rows'.lock[r] # x /\ (Editing(x) => edit[x].who # r)
                      /\ Untouched(run[x].listed[r]) /\ ~run[x].listed[r].completed
                      /\ run[x].listed[r].step <= rows'.live[r].step
                      /\ StepSent(run[x].listed[r]) => mail'.live[Job(r, run[x].listed[r].step)] = "SENT"
    BY <1>0, <1>2 DEF ListedFits, SameRecords, Editing
  <2>1. ListedFits(x, r) /\ run[x].listed \in Listings
    BY <1>0, <1>2, RunRecordFacts DEF RowKnown, RowInvariant, Known, Held, Typed, SessionTypes
  <2>2. run[x].listed[r] \in RecipientRow
    BY <2>1, ListingFacts
  <2>3. PICK n \in Steps : n = run[x].listed[r].step
    BY <2>2, RowFacts
  <2>4. n <= rows'.live[r].step
    <3>1. rows' \in Tables(Recipients, RecipientRow, Sessions)
      BY DEF Known, Held, Typed, TablesTyped
    <3>2. r \in Recipients /\ rows'.live[r] \in RecipientRow
      BY <1>0, <3>1 DEF Tables
    <3>3. rows'.live[r].step \in Nat /\ rows.live[r].step \in Nat /\ n \in Nat
      BY <3>2, RowFacts, RowTypes, Jobs DEF RowKnown
    <3>4. n <= rows.live[r].step /\ rows'.live[r].step >= rows.live[r].step
      BY <2>1, <2>3 DEF ListedFits, HandsOff, RowsLeft
    <3> QED
      BY <3>3, <3>4
  <2>5. StepSent(run[x].listed[r]) => mail'.live[Job(r, n)] = "SENT"
    BY <1>0, <2>1, <2>3, JobFacts DEF ListedFits, HandsOff, JobsLeft
  <2>6. rows'.lock[r] # x
    BY <1>0, <2>1 DEF ListedFits, HandsOff, RowsLeft
  <2> QED
    BY <2>1, <2>3, <2>4, <2>5, <2>6 DEF ListedFits
<1>3. ASSUME x \in Tasks PROVE TaskEdits(x)' /\ TaskOwnsJob(x)'
  <2>1. TaskEdits(x) /\ TaskOwnsJob(x) /\ TaskFits(x) /\ EditFits(x)
    BY <1>3 DEF RowKnown, RowInvariant, Known, Held, Typed, SessionsFit
  <2>2. TaskOwnsJob(x)'
    BY <1>0, <1>3, <2>1 DEF TaskOwnsJob, TaskFits, SameRecords, HandsOff, JobsLeft
  <2>3. TaskEdits(x)'
    <3> SUFFICES ASSUME Editing(x) PROVE TaskEdits(x)'
      BY <1>0 DEF TaskEdits, SameRecords, Editing
    <3>1. task[x].job \in MailJobs /\ mail.lock[task[x].job] = x /\ task[x].job.to \in Recipients
      BY <1>3, <2>1, Jobs DEF EditFits, TaskFits, TaskOwnsJob
    <3>2. mail'.next[task[x].job] = mail.next[task[x].job]
      BY <1>0, <3>1 DEF HandsOff, JobsLeft
    <3>3. task[x].job.to \in Kept' => rows'.lock[task[x].job.to] # x
      BY <1>0, <2>1, <3>1 DEF TaskEdits, HandsOff, RowsLeft
    <3> QED
      BY <1>0, <1>3, <2>1, <3>2, <3>3 DEF TaskEdits, SameRecords, Editing
  <2> QED
    BY <2>2, <2>3
<1>4. x \in Requests => RequestsAside(x)'
  BY <1>0 DEF SameRecords, RequestsAside, RowKnown, RowInvariant
<1>5. ASSUME NEW r \in Kept', rows.lock[r] = x PROVE RowHeld(r)'
  <2>1. rows'.lock[r] = x /\ rows'.next[r] = rows.next[r] /\ rows'.live[r] = rows.live[r]
    BY <1>0, <1>5 DEF HandsOff, RowsLeft
  <2>2. /\ RowHeld(r) /\ rows.live[r].step \in Steps /\ rows.next[r].step \in Steps
        /\ r \in Recipients
    BY <1>0, RowTypes DEF RowKnown, RowInvariant
  <2>3. ASSUME x \in Runs PROVE RunHoldsRow(x, r)'
    <3>1. RunHoldsRow(x, r) /\ run'[x] = run[x]
      BY <1>0, <1>5, <2>2, <2>3 DEF RowHeld, SameRecords
    <3>2. mail'.live[Job(r, rows.live[r].step)] = "SENT"
      BY <2>2, <3>1, JobFacts DEF RunHoldsRow, HandsOff, JobsLeft
    <3>3. mail.lock[Job(r, rows.next[r].step)] = x => mail'.lock[Job(r, rows.next[r].step)] = x
      BY <1>0, <2>2, JobFacts DEF HandsOff, JobsLeft
    <3> QED
      BY <2>1, <3>1, <3>2, <3>3 DEF RunHoldsRow
  <2>4. ASSUME x \in Tasks PROVE TaskHoldsRow(x, r)'
    <3>1. TaskHoldsRow(x, r) /\ task'[x] = task[x]
      BY <1>0, <1>5, <2>2, <2>4 DEF RowHeld, SameRecords
    <3>2. task[x].job \in MailJobs
      BY <2>2, <3>1, JobFacts DEF TaskHoldsRow
    <3>3. mail'.lock[task[x].job] = x /\ mail'.next[task[x].job] = mail.next[task[x].job]
      BY <1>0, <3>1, <3>2 DEF TaskHoldsRow, HandsOff, JobsLeft
    <3> QED
      BY <2>1, <3>1, <3>3 DEF TaskHoldsRow
  <2> QED
    BY <1>0, <1>5, <2>1, <2>2, <2>3, <2>4 DEF RowHeld
<1>6. ASSUME NEW j \in MailJobs, j.to \in Kept', mail.lock[j] = x PROVE NewJobHeld(j)'
  <2>1. NewJobHeld(j) /\ mail'.lock[j] = x
    BY <1>0, <1>6 DEF HandsOff, JobsLeft, RowKnown, RowInvariant
  <2> QED
    BY <1>0, <1>6, <2>1 DEF NewJobHeld, HandsOff, RowsLeft
<1> QED
  BY <1>1, <1>2, <1>3, <1>4, <1>5, <1>6

\* So what is left to show of a step of session s is what it does to the rows
\* and jobs it holds, or frees, and to its own record.
OwnPart(s) ==
  /\ s \in Runs => RunEdits(s) /\ \A r \in Kept : ListedFits(s, r)
  /\ s \in Tasks => TaskEdits(s) /\ TaskOwnsJob(s)
  /\ s \in Requests => RequestsAside(s)

\* Then the step keeps the invariant.
LEMMA RowStep ==
  ASSUME RowKnown, Known', NEW s \in Sessions, HandsOff(s),
         OwnPart(s)',
         \A r \in Kept' : RowFits(r)',
         \A r \in Kept' : rows'.lock[r] \in {s, Free} => RowHeld(r)',
         \A j \in MailJobs : j.to \in Kept' => OneCopy(j)',
         \A j \in MailJobs : j.to \in Kept' /\ mail'.lock[j] = s => NewJobHeld(j)'
  PROVE  RowInvariant'
<1>1. ASSUME NEW r \in Kept' PROVE RowHeld(r)'
  <2>1. CASE rows'.lock[r] \in {s, Free}
    BY <2>1
  <2>2. CASE rows'.lock[r] \notin {s, Free}
    <3>1. rows'.lock[r] = rows.lock[r] /\ rows.lock[r] \in Sessions
      BY <2>2, RowTypes, KeptFacts DEF RowKnown, HandsOff, RowsLeft
    <3>2. PICK x \in Sessions : x = rows.lock[r]
      BY <3>1
    <3> QED
      BY <2>2, <3>1, <3>2, OthersKept
  <2> QED
    BY <2>1, <2>2
<1>2. ASSUME NEW j \in MailJobs, j.to \in Kept' PROVE NewJobHeld(j)'
  <2>1. CASE mail'.lock[j] = s
    BY <1>2, <2>1
  <2>2. CASE mail'.lock[j] = Free
    BY <2>2, Apart DEF NewJobHeld
  <2>3. CASE mail'.lock[j] \notin {s, Free}
    <3>1. mail'.lock[j] = mail.lock[j] /\ mail.lock[j] \in Sessions
      BY <2>3, HeldFacts DEF RowKnown, Known, HandsOff, JobsLeft
    <3>2. PICK x \in Sessions : x = mail.lock[j]
      BY <3>1
    <3> QED
      BY <1>2, <2>3, <3>1, <3>2, OthersKept
  <2> QED
    BY <2>1, <2>2, <2>3
<1>3. ASSUME NEW x \in Runs PROVE RunEdits(x)' /\ \A r \in Kept' : ListedFits(x, r)'
  BY <1>3, OthersKept, Apart DEF OwnPart
<1>4. ASSUME NEW x \in Tasks PROVE TaskEdits(x)' /\ TaskOwnsJob(x)'
  BY <1>4, OthersKept, Apart DEF OwnPart
<1>5. ASSUME NEW x \in Requests PROVE RequestsAside(x)'
  BY <1>5, OthersKept, Apart DEF OwnPart
<1> QED
  BY <1>1, <1>2, <1>3, <1>4, <1>5 DEF RowInvariant

\* A recipient's row keeps fitting its jobs when only a waiting job changes.
LEMMA FitsKept ==
  ASSUME RowKnown, NEW r \in Kept, rows'.live[r] = rows.live[r],
         \A j \in MailJobs : j.to = r =>
           \/ mail'.live[j] = mail.live[j]
           \/ mail.live[j] = "PENDING" /\ mail'.live[j] # Absent
  PROVE  RowFits(r)'
<1>1. /\ RowFits(r) /\ rows.live[r].step \in Steps /\ (rows.live[r].completed => LastStep \in Steps)
      /\ r \in Recipients
  BY RowTypes, KeptFacts DEF RowKnown, RowInvariant, RowFits
<1>2. ASSUME NEW n \in Steps
      PROVE  /\ mail.live[Job(r, n)] = "SENT" => mail'.live[Job(r, n)] = "SENT"
             /\ mail.live[Job(r, n)] = Absent => mail'.live[Job(r, n)] = Absent
             /\ mail.live[Job(r, n)] # Absent => mail'.live[Job(r, n)] # Absent
  BY <1>1, JobFacts DEF Absent
<1> QED
  BY <1>1, <1>2 DEF RowFits

\* A step that leaves the tables alone.
LEMMA RecordStep ==
  ASSUME RowKnown, Known', NEW s \in Sessions, UNCHANGED <<rows, mail, reverted>>,
         \A x \in Sessions : x # s => SameRecords(x),
         s \in Runs /\ run[s].pc # "idle" => run'[s].pc # "idle",
         s \in Tasks /\ task[s].pc = "commit" => task'[s].pc = "commit" /\ task'[s].job = task[s].job,
         OwnPart(s)'
  PROVE  RowInvariant'
<1>0. Kept' = Kept /\ Kept \subseteq Recipients
  BY KeptFacts
<1>1. HandsOff(s)
  <2>1. JobsLeft(s)
    BY DEF JobsLeft
  <2>2. ASSUME NEW r \in Kept' PROVE rows'.live[r].step >= rows.live[r].step
    <3>1. rows.live[r].step \in Nat
      BY <1>0, RowTypes, Jobs DEF RowKnown
    <3> QED
      BY <3>1
  <2>3. RowsLeft(s)
    BY <2>2 DEF RowsLeft
  <2> QED
    BY <1>0, <2>1, <2>3 DEF HandsOff
<1>2. \A r \in Kept : RowFits(r)'
  BY FitsKept
<1>3. ASSUME NEW r \in Kept, rows'.lock[r] \in {s, Free} PROVE RowHeld(r)'
  <2>1. RowHeld(r)
    BY DEF RowKnown, RowInvariant
  <2>2. CASE rows.lock[r] = Free
    BY <2>1, <2>2, Apart DEF RowHeld
  <2>3. CASE rows.lock[r] = s
    <3>1. s \in Runs => RunHoldsRow(s, r)'
      BY <2>1, <2>3 DEF RowHeld, RunHoldsRow
    <3>2. s \in Tasks => TaskHoldsRow(s, r)'
      BY <2>1, <2>3 DEF RowHeld, TaskHoldsRow
    <3> QED
      BY <2>1, <2>3, <3>1, <3>2 DEF RowHeld
  <2> QED
    BY <1>3, <2>2, <2>3
<1>4. \A j \in MailJobs : j.to \in Kept => OneCopy(j)' /\ NewJobHeld(j)'
  BY DEF RowKnown, RowInvariant, OneCopy, NewJobHeld
<1> QED
  BY <1>0, <1>1, <1>2, <1>3, <1>4, RowStep

\* A run whose record says nothing of recipients, or whose recipients it has just
\* listed, has its own part in order.
LEMMA RunOwnPart ==
  ASSUME NEW s \in Runs, ~Editing(s)', \A r \in Kept' : ListedFits(s, r)'
  PROVE  OwnPart(s)'
  BY Apart DEF OwnPart, RunEdits

\* The steps of a run that only look, or note what to write.
LEMMA LookingRows ==
  ASSUME RowKnown, Known', NEW s \in Runs,
         \/ StartRun(s) /\ s \in Schedulers
         \/ CountActive(s) \/ CompleteSequence(s) \/ SweepCountsLive(s) \/ SweepCompletes(s)
         \/ \E r \in Recipients : PassOver(s, r) \/ FinishRecipient(s, r)
  PROVE  RowInvariant'
<1>0. /\ s \in Sessions /\ s \notin Tasks /\ s \notin Requests /\ run \in [Runs -> RunRecords]
      /\ Held /\ Typed /\ TypeOK /\ EditFits(s) /\ edit \in [Sessions -> EditRecords]
      /\ \A r \in Kept : ListedFits(s, r) /\ RowFits(r) /\ RowHeld(r)
  BY Apart, TypedIsTypeOK DEF RowKnown, Known, Held, Typed, SessionTypes, SessionsFit, RowInvariant
<1>1. /\ UNCHANGED <<rows, mail, task, req, reverted>> /\ \A x \in Runs : x # s => run'[x] = run[x]
      /\ \A x \in Sessions : x # s => edit'[x] = edit[x]
  BY <1>0 DEF StartRun, CountActive, CompleteSequence, PassOver, FinishRecipient, SweepCountsLive,
     SweepCompletes, Visited, Edit, tables, counted
<1>k. Kept' = Kept /\ Kept \subseteq Recipients
  BY <1>1, KeptFacts
<1>2. \A x \in Sessions : x # s => SameRecords(x)
  BY <1>1 DEF SameRecords
<1>3. ASSUME run'[s].pc # "idle", OwnPart(s)' PROVE RowInvariant'
  BY <1>0, <1>1, <1>2, <1>3, RecordStep
<1>4. CASE StartRun(s) /\ s \in Schedulers
  <2>1. PICK rec : rec = [pc |-> "visit", listed |-> [r \in ActiveFor(s) |-> View(rows, s, r)],
                          seen |-> View(camp, s, Campaign)]
    OBVIOUS
  <2>2. run'[s] = rec /\ rec.pc = "visit" /\ rec.listed = [r \in ActiveFor(s) |-> View(rows, s, r)]
        /\ edit' = edit /\ run[s].pc = "idle"
    BY <1>0, <1>4, <2>1 DEF StartRun
  <2>3. ~Editing(s) /\ ~Editing(s)'
    BY <1>0, <1>4, <2>2 DEF EditFits, Editing
  <2>4. ASSUME NEW r \in Kept, r \in ActiveFor(s) PROVE ListedFits(s, r)'
    <3>1. rows.lock[r] # s
      BY <1>0, <2>2 DEF RowHeld, RunHoldsRow
    <3>2. View(rows, s, r) = rows.live[r] /\ IsActive(rows.live[r]) /\ rows.live[r].step \in Nat
      BY <1>k, <2>4, <3>1, RowTypes, Jobs DEF View, ActiveFor, RowKnown
    <3>3. StepSent(rows.live[r]) => mail.live[Job(r, rows.live[r].step)] = "SENT"
      BY <1>0 DEF RowFits, StepSent
    <3> QED
      BY <1>0, <1>1, <2>2, <2>3, <2>4, <3>1, <3>2, <3>3 DEF ListedFits, IsActive, RowFits
  <2>5. \A r \in Kept : ListedFits(s, r)'
    BY <2>2, <2>4 DEF ListedFits
  <2> QED
    BY <1>3, <1>k, <2>2, <2>3, <2>5, RunOwnPart
<1>5. CASE CountActive(s) \/ CompleteSequence(s) \/ SweepCountsLive(s) \/ SweepCompletes(s)
  <2>1. PICK pc \in {"complete", "commit"} : run' = [run EXCEPT ![s] = [run[s] EXCEPT !.pc = pc]]
    BY <1>5 DEF CountActive, CompleteSequence, SweepCountsLive, SweepCompletes
  <2>2. run'[s].pc = pc /\ run'[s].listed = run[s].listed
    BY <1>0, <2>1 DEF RunRecords
  <2>3. ~Editing(s) /\ edit' = edit
    BY <1>0, <1>5 DEF CountActive, CompleteSequence, SweepCountsLive, SweepCompletes, EditFits
  <2>4. \A r \in Kept : r \notin DOMAIN run[s].listed
    BY <1>0, <1>5 DEF CountActive, CompleteSequence, SweepCountsLive, SweepCompletes, ListedFits
  <2>5. \A r \in Kept : ListedFits(s, r)'
    BY <2>2, <2>4 DEF ListedFits
  <2> QED
    BY <1>3, <1>k, <2>2, <2>3, <2>5, RunOwnPart DEF Editing
<1>6. ASSUME NEW r \in Recipients, PassOver(s, r) \/ FinishRecipient(s, r) PROVE RowInvariant'
  <2>1. Visiting(s, r) /\ Visited(s, r)
    BY <1>6 DEF PassOver, FinishRecipient
  <2>2. PICK rec \in RunRecords : rec = [run[s] EXCEPT !.listed = Without(run[s].listed, r)]
                                  /\ run' = [run EXCEPT ![s] = rec] /\ rec.pc = "visit"
    BY <1>0, <2>1, VisitFacts
  <2>3. run'[s] = rec /\ rec.listed = Without(run[s].listed, r) /\ ~Editing(s) /\ run[s].pc = "visit"
    BY <1>0, <2>1, <2>2 DEF RunRecords, Visiting
  <2>4. DOMAIN rec.listed = DOMAIN run[s].listed \ {r}
        /\ \A x \in DOMAIN rec.listed : rec.listed[x] = run[s].listed[x]
    BY <2>3 DEF Without
  <2>5. ASSUME NEW x \in Kept, edit'[s].at = "none" \/ edit'[s].who = r PROVE ListedFits(s, x)'
    <3> SUFFICES ASSUME x \in DOMAIN rec.listed PROVE ListedFits(s, x)'
      BY <2>3 DEF ListedFits
    <3>1. x # r /\ rec.listed[x] = run[s].listed[x] /\ ListedFits(s, x)
      BY <1>0, <2>4
    <3> QED
      BY <1>1, <2>2, <2>3, <2>4, <2>5, <3>1 DEF ListedFits, Editing
  <2>6. CASE PassOver(s, r)
    <3>1. edit' = edit /\ edit'[s].at = "none"
      BY <2>3, <2>6 DEF PassOver, Editing
    <3>2. ~Editing(s)'
      BY <3>1 DEF Editing
    <3> QED
      BY <1>3, <1>k, <2>2, <2>3, <2>5, <3>1, <3>2, RunOwnPart
  <2>7. CASE FinishRecipient(s, r)
    <3>1. PICK e \in RecipientRow : e = run[s].listed[r]
      BY <1>0, <2>1, VisitFacts DEF Listed
    <3>2. PICK new \in RecipientRow : new = [e EXCEPT !.completed = TRUE]
      BY RowFacts
    <3>3. PICK d : d = [at |-> "select", who |-> r, new |-> new, base |-> None]
      OBVIOUS
    <3>4. edit'[s] = d /\ d.at = "select" /\ d.who = r /\ d.new = new
      BY <1>0, <2>7, <3>1, <3>2, <3>3 DEF FinishRecipient, Edit, Listed
    <3>5. /\ new.completed = TRUE /\ new.step = e.step /\ new.paused = e.paused /\ new.replied = e.replied
          /\ StepSent(e) /\ e.step = LastStep
      BY <2>7, <3>1, <3>2 DEF RecipientRow, FinishRecipient, Listed
    <3>6. r \in Kept => ListedFits(s, r) /\ r \in DOMAIN run[s].listed
      BY <1>0, <2>1 DEF Visiting
    <3>7. r \in Kept => rows.live[r].step = LastStep
      <4>1. rows.live[r].step \in Nat /\ rows.live[r].step <= LastStep /\ LastStep \in Nat
        BY RowTypes, Jobs, StepsAssumption DEF RowKnown
      <4>2. r \in Kept => LastStep <= rows.live[r].step
        BY <3>1, <3>5, <3>6 DEF ListedFits
      <4> QED
        BY <4>1, <4>2
    <3>8. r \in Kept => rows.lock[r] # s /\ Untouched(new) /\ mail.live[Job(r, LastStep)] = "SENT"
      BY <3>1, <3>5, <3>6 DEF ListedFits, Untouched
    <3>9. RunEdits(s)'
      BY <1>1, <1>k, <3>4, <3>5, <3>7, <3>8 DEF RunEdits, Editing
    <3>10. OwnPart(s)'
      BY <1>0, <1>k, <2>5, <3>4, <3>9 DEF OwnPart
    <3> QED
      BY <1>3, <2>2, <2>3, <3>10
  <2> QED
    BY <1>6, <2>6, <2>7
<1> QED
  BY <1>4, <1>5, <1>6

\* One row and one job written by session s, the job free before, and the row if the
\* recipient is kept: nothing else moves.
LEMMA PutHandsOff ==
  ASSUME RowKnown, NEW s \in Sessions, \A x \in Sessions : x # s => SameRecords(x),
         reverted' = reverted,
         \/ UNCHANGED rows
         \/ \E r \in Recipients, row \in RecipientRow :
              (r \in Kept => rows.lock[r] = Free) /\ rows' = Put(rows, s, r, row),
         \/ UNCHANGED mail
         \/ \E j \in MailJobs, m \in MailStatus :
              mail.lock[j] = Free /\ mail' = Put(mail, s, j, m)
  PROVE  HandsOff(s) /\ Kept' = Kept /\ rows'.live = rows.live /\ mail'.live = mail.live
<1>0. /\ rows \in Tables(Recipients, RecipientRow, Sessions)
      /\ mail \in Tables(MailJobs, MailStatus, Sessions)
  BY DEF RowKnown, Known, Held, Typed, TablesTyped
<1>k. Kept' = Kept /\ Kept \subseteq Recipients
  BY KeptFacts
<1>1. mail'.live = mail.live /\ JobsLeft(s)
  <2>1. CASE UNCHANGED mail
    BY <2>1 DEF JobsLeft
  <2>2. ASSUME NEW j \in MailJobs, NEW m \in MailStatus, mail.lock[j] = Free,
               mail' = Put(mail, s, j, m)
        PROVE  mail'.live = mail.live /\ JobsLeft(s)
    <3>1. /\ mail'.live = mail.live /\ mail'.next = [mail.next EXCEPT ![j] = m]
          /\ mail'.lock = [mail.lock EXCEPT ![j] = s]
          /\ mail.next \in [MailJobs -> MailStatus] /\ mail.lock \in [MailJobs -> Sessions \cup {Free}]
      <4>1. /\ mail'.live = mail.live /\ mail'.next = [mail.next EXCEPT ![j] = m]
            /\ mail'.lock = [mail.lock EXCEPT ![j] = s]
        BY <1>0, <2>2, PutRow
      <4> QED
        BY <1>0, <4>1 DEF Tables
    <3> QED
      BY <2>2, <3>1 DEF JobsLeft
  <2> QED
    BY <2>1, <2>2
<1>2. rows'.live = rows.live /\ RowsLeft(s)
  <2>0. ASSUME NEW r \in Recipients PROVE rows.live[r].step >= rows.live[r].step
    <3>1. rows.live[r].step \in Nat
      BY RowTypes, Jobs DEF RowKnown
    <3> QED
      BY <3>1
  <2>1. CASE UNCHANGED rows
    BY <1>k, <2>0, <2>1 DEF RowsLeft
  <2>2. ASSUME NEW r \in Recipients, NEW row \in RecipientRow, r \in Kept => rows.lock[r] = Free,
               rows' = Put(rows, s, r, row)
        PROVE  rows'.live = rows.live /\ RowsLeft(s)
    <3>1. /\ rows'.live = rows.live /\ rows'.next = [rows.next EXCEPT ![r] = row]
          /\ rows'.lock = [rows.lock EXCEPT ![r] = s]
          /\ rows.next \in [Recipients -> RecipientRow] /\ rows.lock \in [Recipients -> Sessions \cup {Free}]
      <4>1. /\ rows'.live = rows.live /\ rows'.next = [rows.next EXCEPT ![r] = row]
            /\ rows'.lock = [rows.lock EXCEPT ![r] = s]
        BY <1>0, <2>2, PutRow
      <4> QED
        BY <1>0, <4>1 DEF Tables
    <3> QED
      BY <1>k, <2>0, <2>2, <3>1 DEF RowsLeft
  <2> QED
    BY <2>1, <2>2
<1> QED
  BY <1>k, <1>1, <1>2 DEF HandsOff

\* A row or a job after a write.
LEMMA PutFields ==
  ASSUME RowKnown, NEW s \in Sessions
  PROVE  /\ \A r \in Recipients, row \in RecipientRow : rows' = Put(rows, s, r, row) =>
              /\ rows'.next[r] = row /\ rows'.lock[r] = s
              /\ \A x \in Recipients : x # r =>
                   rows'.next[x] = rows.next[x] /\ rows'.lock[x] = rows.lock[x]
         /\ \A j \in MailJobs, m \in MailStatus : mail' = Put(mail, s, j, m) =>
              /\ mail'.next[j] = m /\ mail'.lock[j] = s
              /\ \A x \in MailJobs : x # j =>
                   mail'.next[x] = mail.next[x] /\ mail'.lock[x] = mail.lock[x]
<1>0. /\ rows \in Tables(Recipients, RecipientRow, Sessions)
      /\ mail \in Tables(MailJobs, MailStatus, Sessions)
  BY DEF RowKnown, Known, Held, Typed, TablesTyped
<1> QED
  BY <1>0 DEF Put, Tables

\* The run that finds the row at the step it listed is the only one to advance it,
\* and the job it inserts is the first of its step.
LEMMA AdvanceRows ==
  ASSUME RowKnown, Known', NEW s \in Runs, NEW r \in Kept, Advance(s, r)
  PROVE  RowInvariant'
<1>0. /\ s \in Sessions /\ s \notin Tasks /\ s \notin Requests /\ run \in [Runs -> RunRecords]
      /\ Held /\ Typed /\ RowFits(r) /\ RowHeld(r)
      /\ \A x \in Kept : ListedFits(s, x)
  BY Apart DEF RowKnown, Known, Held, Typed, SessionTypes, RowInvariant
<1>k. Kept' = Kept /\ Kept \subseteq Recipients /\ r \in Recipients /\ reverted' = reverted
  BY KeptFacts DEF Advance, counted
<1>1. Visiting(s, r) /\ Visited(s, r) /\ edit' = edit /\ task' = task /\ req' = req
  BY DEF Advance
<1>2. PICK e \in RecipientRow : e = run[s].listed[r] /\ e = Listed(s, r)
  BY <1>0, <1>k, <1>1, VisitFacts DEF Listed
<1>3. PICK n \in Steps : n = e.step
  BY RowFacts
<1>4. /\ StepSent(e) /\ n < LastStep /\ View(rows, s, r).step = n /\ ~Locked(rows, s, r)
      /\ rows' = Put(rows, s, r, [e EXCEPT !.step = n + 1, !.statuses[n + 1] = "SCHEDULED"])
      /\ \E job \in NewCopy(r, n + 1) : mail' = Put(mail, s, job, "PENDING")
  BY <1>2, <1>3 DEF Advance
<1>5. n + 1 \in Steps /\ n \in Nat /\ n + 1 # n
  BY <1>4, Jobs
<1>6. PICK row \in RecipientRow : row = [e EXCEPT !.step = n + 1, !.statuses[n + 1] = "SCHEDULED"]
  BY <1>5, RowFacts DEF StepStatus
<1>7. ListedFits(s, r) /\ r \in DOMAIN run[s].listed /\ run[s].pc = "visit" /\ ~Editing(s)
  BY <1>0, <1>1 DEF Visiting
<1>8. rows.lock[r] = Free /\ rows.live[r].step = n
  BY <1>4, <1>7 DEF ListedFits, View, Locked
<1>9. /\ row.step = n + 1 /\ row.statuses[n + 1] = "SCHEDULED"
      /\ row.paused = e.paused /\ row.replied = e.replied /\ row.completed = e.completed
  BY <1>5, <1>6 DEF RecipientRow
<1>10. Untouched(row) /\ ~row.completed /\ mail.live[Job(r, n)] = "SENT"
  BY <1>2, <1>3, <1>4, <1>7, <1>9 DEF ListedFits, Untouched
\* The first job of the step is not there yet.
<1>11. mail.next[Job(r, n + 1)] = Absent
  <2>1. Job(r, n + 1) \in MailJobs /\ mail.live[Job(r, n + 1)] = Absent
    BY <1>0, <1>k, <1>5, <1>8, JobFacts DEF RowFits
  <2>2. mail.lock[Job(r, n + 1)] \notin Runs
    <3>1. NewJobHeld(Job(r, n + 1)) /\ Job(r, n + 1).to = r
      BY <1>k, <1>5, <2>1, JobFacts DEF RowKnown, RowInvariant
    <3> QED
      BY <1>8, <3>1, Apart DEF NewJobHeld
  <2> QED
    BY <1>0, <2>1, <2>2, SentFacts
<1>12. PICK job \in MailJobs : /\ job \in NewCopy(r, n + 1) /\ mail' = Put(mail, s, job, "PENDING")
  BY <1>4 DEF NewCopy
<1>13. job = Job(r, n + 1)
  <2>1. job.to = r /\ job.step = n + 1 /\ job.copy \in 1..MaxCopies
        /\ \A k \in 1..(job.copy - 1) : mail.next[[job EXCEPT !.copy = k]] # Absent
    BY <1>12 DEF NewCopy, MailJobs
  <2>2. [job EXCEPT !.copy = 1] = Job(r, n + 1)
    BY <1>12, <2>1 DEF Job, MailJobs
  <2>3. job.copy = 1
    <3>1. ~(1 \in 1..(job.copy - 1))
      BY <1>11, <2>1, <2>2
    <3> QED
      BY <2>1, <3>1, StepsAssumption
  <2> QED
    BY <1>12, <2>1, <2>3 DEF Job, MailJobs
<1>14. mail.lock[job] = Free
  <2>1. NewJobHeld(job) /\ mail.live[job] = Absent
    BY <1>0, <1>k, <1>5, <1>8, <1>12, <1>13, JobFacts DEF RowFits, RowKnown, RowInvariant
  <2>2. mail.lock[job] \notin Runs
    BY <1>8, <1>13, <2>1, JobFacts, Apart DEF NewJobHeld
  <2> QED
    BY <1>0, <1>12, <2>1, <2>2, SentFacts
<1>15. HandsOff(s) /\ rows'.live = rows.live /\ mail'.live = mail.live
  <2>1. \A x \in Sessions : x # s => SameRecords(x)
    BY <1>0, <1>1 DEF SameRecords, Visited
  <2>2. "PENDING" \in MailStatus
    BY DEF MailStatus
  <2> QED
    BY <1>0, <1>k, <1>4, <1>6, <1>8, <1>12, <1>14, <2>1, <2>2, PutHandsOff
<1>16. /\ rows'.next[r] = row /\ rows'.lock[r] = s
       /\ \A x \in Recipients : x # r => rows'.next[x] = rows.next[x] /\ rows'.lock[x] = rows.lock[x]
       /\ mail'.next[job] = "PENDING" /\ mail'.lock[job] = s
       /\ \A x \in MailJobs : x # job => mail'.next[x] = mail.next[x] /\ mail'.lock[x] = mail.lock[x]
  BY <1>0, <1>k, <1>4, <1>6, <1>12, PutFields DEF MailStatus
<1>17. run'[s].pc = "visit" /\ run'[s].listed = Without(run[s].listed, r)
  BY <1>0, <1>1, <1>7 DEF Visited, RunRecords
<1>18. ASSUME NEW x \in Kept PROVE ListedFits(s, x)'
  <2>1. CASE x = r
    BY <1>17, <2>1 DEF ListedFits, Without
  <2>2. CASE x # r
    BY <1>0, <1>k, <1>1, <1>15, <1>16, <1>17, <2>2 DEF ListedFits, Without, Editing
  <2> QED
    BY <2>1, <2>2
<1>19. OwnPart(s)'
  BY <1>k, <1>1, <1>7, <1>18, RunOwnPart DEF Editing
<1>20. \A x \in Kept : RowFits(x)'
  BY <1>k, <1>15, FitsKept
<1>21. ASSUME NEW x \in Kept, rows'.lock[x] \in {s, Free} PROVE RowHeld(x)'
  <2>1. CASE x = r
    <3>1. RunHoldsRow(s, r)'
      BY <1>8, <1>9, <1>10, <1>13, <1>15, <1>16, <1>17 DEF RunHoldsRow
    <3>2. ~rows.live[r].completed
      BY <1>0, <1>k, <1>4, <1>5, <1>8, StepsAssumption DEF RowFits
    <3> QED
      BY <1>0, <1>10, <1>15, <1>16, <2>1, <3>1, <3>2, Apart DEF RowHeld
  <2>2. CASE x # r
    <3>1. RowHeld(x) /\ rows.next[x].step \in Steps /\ x \in Recipients
      BY <1>k, RowTypes DEF RowKnown, RowInvariant
    <3>2. rows.lock[x] = s => RunHoldsRow(s, x)'
      <4>1. Job(x, rows.next[x].step) \in MailJobs /\ Job(x, rows.next[x].step) # job
        BY <1>13, <2>2, <3>1, JobFacts
      <4> QED
        BY <1>0, <1>15, <1>16, <1>17, <2>2, <3>1, <4>1 DEF RowHeld, RunHoldsRow
    <3> QED
      BY <1>0, <1>15, <1>16, <1>21, <2>2, <3>1, <3>2, Apart DEF RowHeld
  <2> QED
    BY <2>1, <2>2
<1>22. ASSUME NEW j \in MailJobs, j.to \in Kept PROVE OneCopy(j)'
  <2>1. OneCopy(j)
    BY <1>22 DEF RowKnown, RowInvariant
  <2>2. job.copy = 1
    BY <1>k, <1>5, <1>13, JobFacts
  <2> QED
    BY <1>15, <1>16, <2>1, <2>2 DEF OneCopy
<1>23. ASSUME NEW j \in MailJobs, j.to \in Kept, mail'.lock[j] = s PROVE NewJobHeld(j)'
  <2>1. CASE j = job
    BY <1>5, <1>8, <1>9, <1>13, <1>15, <1>16, <2>1, JobFacts DEF NewJobHeld
  <2>2. CASE j # job
    <3>1. NewJobHeld(j) /\ mail.lock[j] = s /\ j.to \in Recipients
      BY <1>16, <1>23, <2>2, Jobs DEF RowKnown, RowInvariant
    <3>2. j.to # r
      BY <1>0, <1>8, <3>1, Apart DEF NewJobHeld
    <3> QED
      BY <1>15, <1>16, <2>2, <3>1, <3>2 DEF NewJobHeld
  <2> QED
    BY <2>1, <2>2
<1> QED
  BY <1>0, <1>k, <1>15, <1>19, <1>20, <1>21, <1>22, <1>23, RowStep

\* The job a run inserts for anybody else is nobody's, and the kept are left alone.
LEMMA AdvanceOther ==
  ASSUME RowKnown, Known', NEW s \in Runs, NEW r \in Recipients \ Kept, Advance(s, r)
  PROVE  RowInvariant'
<1>0. /\ s \in Sessions /\ s \notin Tasks /\ s \notin Requests /\ run \in [Runs -> RunRecords]
      /\ Held /\ Typed /\ \A x \in Kept : ListedFits(s, x)
  BY Apart DEF RowKnown, Known, Held, Typed, SessionTypes, RowInvariant
<1>k. Kept' = Kept /\ Kept \subseteq Recipients /\ reverted' = reverted
  BY KeptFacts DEF Advance, counted
<1>1. Visiting(s, r) /\ Visited(s, r) /\ edit' = edit /\ task' = task /\ req' = req
  BY DEF Advance
<1>2. PICK e \in RecipientRow, n \in Steps : e = Listed(s, r) /\ n = e.step
  <2>1. Listed(s, r) \in RecipientRow
    BY <1>0, <1>1, VisitFacts
  <2> QED
    BY <2>1, RowFacts
<1>3. /\ n < LastStep
      /\ rows' = Put(rows, s, r, [e EXCEPT !.step = n + 1, !.statuses[n + 1] = "SCHEDULED"])
      /\ \E job \in NewCopy(r, n + 1) : mail' = Put(mail, s, job, "PENDING")
  BY <1>2 DEF Advance
<1>4. PICK row \in RecipientRow : row = [e EXCEPT !.step = n + 1, !.statuses[n + 1] = "SCHEDULED"]
  <2>1. n + 1 \in Steps
    BY <1>3, Jobs
  <2> QED
    BY <2>1, RowFacts DEF StepStatus
<1>5. PICK job \in MailJobs : /\ mail' = Put(mail, s, job, "PENDING") /\ job.to = r
                              /\ mail.next[job] = Absent
  BY <1>3 DEF NewCopy
<1>6. mail.lock[job] = Free
  <2>1. mail.lock[job] \in Sessions \cup {Free} /\ JobHeld(job)
    BY <1>0, HeldFacts
  <2> QED
    BY <1>5, <2>1, Apart DEF JobHeld, TaskHoldsJob, RunHoldsJob, RequestHoldsJob, Absent
<1>7. HandsOff(s) /\ rows'.live = rows.live /\ mail'.live = mail.live
  <2>1. \A x \in Sessions : x # s => SameRecords(x)
    BY <1>0, <1>1 DEF SameRecords, Visited
  <2>2. "PENDING" \in MailStatus
    BY DEF MailStatus
  <2> QED
    BY <1>0, <1>k, <1>3, <1>4, <1>5, <1>6, <2>1, <2>2, PutHandsOff
<1>8. /\ \A x \in Kept : rows'.next[x] = rows.next[x] /\ rows'.lock[x] = rows.lock[x]
      /\ \A x \in MailJobs : x.to \in Kept =>
           mail'.next[x] = mail.next[x] /\ mail'.lock[x] = mail.lock[x]
  <2>1. /\ \A x \in Recipients : x # r => rows'.next[x] = rows.next[x] /\ rows'.lock[x] = rows.lock[x]
        /\ \A x \in MailJobs : x # job => mail'.next[x] = mail.next[x] /\ mail'.lock[x] = mail.lock[x]
    BY <1>0, <1>3, <1>4, <1>5, PutFields DEF MailStatus
  <2> QED
    BY <1>k, <1>5, <2>1
<1>9. run'[s].pc = "visit" /\ run'[s].listed = Without(run[s].listed, r) /\ run[s].pc = "visit"
  BY <1>0, <1>1 DEF Visited, Visiting, RunRecords
<1>10. \A x \in Kept : ListedFits(s, x)'
  BY <1>0, <1>k, <1>1, <1>7, <1>8, <1>9 DEF ListedFits, Without, Editing
<1>11. OwnPart(s)'
  BY <1>k, <1>1, <1>10, RunOwnPart DEF Editing, Visiting
<1>12. \A x \in Kept : RowFits(x)'
  BY <1>k, <1>7, FitsKept
<1>13. ASSUME NEW x \in Kept, rows'.lock[x] \in {s, Free} PROVE RowHeld(x)'
  <2>1. RowHeld(x) /\ rows.next[x].step \in Steps /\ x \in Recipients
    BY <1>k, RowTypes DEF RowKnown, RowInvariant
  <2>2. rows.lock[x] = s => RunHoldsRow(s, x)'
    <3>1. Job(x, rows.next[x].step) \in MailJobs /\ Job(x, rows.next[x].step).to \in Kept
      BY <2>1, JobFacts
    <3> QED
      BY <1>0, <1>7, <1>8, <1>9, <2>1, <3>1 DEF RowHeld, RunHoldsRow
  <2> QED
    BY <1>0, <1>7, <1>8, <1>13, <2>1, <2>2, Apart DEF RowHeld
<1>14. ASSUME NEW j \in MailJobs, j.to \in Kept PROVE OneCopy(j)' /\ NewJobHeld(j)'
  <2>1. OneCopy(j) /\ NewJobHeld(j)
    BY <1>14 DEF RowKnown, RowInvariant
  <2> QED
    BY <1>7, <1>8, <1>14, <2>1 DEF OneCopy, NewJobHeld
<1> QED
  BY <1>0, <1>k, <1>7, <1>11, <1>12, <1>13, <1>14, RowStep

\* What is left when the rows and jobs of session s are published or forgotten.
LEMMA EndHandsOff ==
  ASSUME RowKnown, NEW s \in Sessions, \A x \in Sessions : x # s => SameRecords(x),
         CommitTables(s) \/ Discarded({s}), reverted' = reverted,
         s \in Requests => mail'.live = mail.live,
         \A r \in Kept : rows'.live[r].step >= rows.live[r].step
  PROVE  /\ HandsOff(s) /\ Kept' = Kept
         /\ \A j \in MailJobs : mail'.lock[j] # s
         /\ \A r \in Recipients : rows'.lock[r] # s
         /\ \A j \in MailJobs : mail.lock[j] # s =>
              mail'.live[j] = mail.live[j] /\ mail'.next[j] = mail.next[j] /\ mail'.lock[j] = mail.lock[j]
         /\ \A r \in Recipients : rows.lock[r] # s =>
              rows'.live[r] = rows.live[r] /\ rows'.next[r] = rows.next[r] /\ rows'.lock[r] = rows.lock[r]
         /\ \A j \in MailJobs : mail.lock[j] = s =>
              /\ mail'.lock[j] = Free /\ mail'.next[j] = mail'.live[j]
              /\ CommitTables(s) => mail'.live[j] = mail.next[j]
              /\ ~CommitTables(s) => mail'.live[j] = mail.live[j]
         /\ \A r \in Recipients : rows.lock[r] = s =>
              /\ rows'.lock[r] = Free /\ rows'.next[r] = rows'.live[r]
              /\ CommitTables(s) => rows'.live[r] = rows.next[r]
              /\ ~CommitTables(s) => rows'.live[r] = rows.live[r]
<1>0. /\ rows \in Tables(Recipients, RecipientRow, Sessions)
      /\ mail \in Tables(MailJobs, MailStatus, Sessions) /\ s # Free
  BY Apart DEF RowKnown, Known, Held, Typed, TablesTyped
<1>k. Kept' = Kept /\ Kept \subseteq Recipients
  BY KeptFacts
<1>1. /\ \A j \in MailJobs : mail.lock[j] # s =>
           mail'.live[j] = mail.live[j] /\ mail'.next[j] = mail.next[j] /\ mail'.lock[j] = mail.lock[j]
      /\ \A j \in MailJobs : mail.lock[j] = s =>
           /\ mail'.lock[j] = Free /\ mail'.next[j] = mail'.live[j]
           /\ CommitTables(s) => mail'.live[j] = mail.next[j]
           /\ ~CommitTables(s) => mail'.live[j] = mail.live[j]
  <2>1. CASE CommitTables(s)
    <3>1. mail' = Publish(mail, s)
      BY <2>1 DEF CommitTables
    <3> QED
      BY <1>0, <2>1, <3>1, PublishRow
  <2>2. CASE ~CommitTables(s)
    <3>1. mail' = Discard(mail, {s})
      BY <2>2 DEF Discarded
    <3> QED
      BY <1>0, <2>2, <3>1, DiscardRow
  <2> QED
    BY <2>1, <2>2
<1>2. /\ \A r \in Recipients : rows.lock[r] # s =>
           rows'.live[r] = rows.live[r] /\ rows'.next[r] = rows.next[r] /\ rows'.lock[r] = rows.lock[r]
      /\ \A r \in Recipients : rows.lock[r] = s =>
           /\ rows'.lock[r] = Free /\ rows'.next[r] = rows'.live[r]
           /\ CommitTables(s) => rows'.live[r] = rows.next[r]
           /\ ~CommitTables(s) => rows'.live[r] = rows.live[r]
  <2>1. CASE CommitTables(s)
    <3>1. rows' = Publish(rows, s)
      BY <2>1 DEF CommitTables
    <3> QED
      BY <1>0, <2>1, <3>1, PublishRow
  <2>2. CASE ~CommitTables(s)
    <3>1. rows' = Discard(rows, {s})
      BY <2>2 DEF Discarded
    <3> QED
      BY <1>0, <2>2, <3>1, DiscardRow
  <2> QED
    BY <2>1, <2>2
<1>3. JobsLeft(s)
  <2>1. s \notin Requests => \A j \in MailJobs : mail.live[j] = "SENT" => mail.lock[j] # s
    BY <1>0, SentFacts DEF RowKnown, Known
  <2> QED
    BY <1>0, <1>1, <2>1 DEF JobsLeft
<1>4. RowsLeft(s)
  BY <1>0, <1>k, <1>2 DEF RowsLeft
<1> QED
  BY <1>0, <1>k, <1>1, <1>2, <1>3, <1>4 DEF HandsOff

\* A run commits: the recipients it has advanced get their next job.
LEMMA CommitRunRows ==
  ASSUME RowKnown, Known', NEW s \in Runs, CommitRun(s)
  PROVE  RowInvariant'
<1>0. /\ s \in Sessions /\ s \notin Tasks /\ s \notin Requests /\ run \in [Runs -> RunRecords]
      /\ Held /\ Typed /\ EditFits(s) /\ s # Free
  BY Apart DEF RowKnown, Known, Held, Typed, SessionTypes, SessionsFit
<1>k. Kept' = Kept /\ Kept \subseteq Recipients /\ reverted' = reverted
  BY KeptFacts DEF CommitRun
<1>1. /\ CommitTables(s) /\ edit' = edit /\ task' = task /\ req' = req /\ run[s].pc = "commit"
      /\ run'[s] = IdleRun /\ \A x \in Runs : x # s => run'[x] = run[x]
  BY <1>0 DEF CommitRun
<1>2. \A x \in Sessions : x # s => SameRecords(x)
  BY <1>1 DEF SameRecords
<1>3. ASSUME NEW r \in Kept, rows.lock[r] = s
      PROVE  RunHoldsRow(s, r) /\ RowHeld(r) /\ RowFits(r)
  BY <1>0, <1>3 DEF RowKnown, RowInvariant, RowHeld
<1>4. ASSUME NEW r \in Kept PROVE rows'.live[r].step >= rows.live[r].step
  <2>0. rows.live[r].step \in Nat /\ rows.next[r].step \in Nat
    BY <1>k, RowTypes, Jobs DEF RowKnown
  <2>1. rows \in Tables(Recipients, RecipientRow, Sessions) /\ rows' = Publish(rows, s)
    BY <1>0, <1>1 DEF CommitTables, Typed, TablesTyped
  <2>2. rows'.live[r] = IF rows.lock[r] = s THEN rows.next[r] ELSE rows.live[r]
    BY <1>k, <2>1, PublishRow
  <2> QED
    BY <1>3, <2>0, <2>2 DEF RunHoldsRow
<1>5. /\ HandsOff(s)
      /\ \A j \in MailJobs : mail'.lock[j] # s
      /\ \A r \in Recipients : rows'.lock[r] # s
      /\ \A j \in MailJobs : mail.lock[j] # s =>
           mail'.live[j] = mail.live[j] /\ mail'.next[j] = mail.next[j] /\ mail'.lock[j] = mail.lock[j]
      /\ \A r \in Recipients : rows.lock[r] # s =>
           rows'.live[r] = rows.live[r] /\ rows'.next[r] = rows.next[r] /\ rows'.lock[r] = rows.lock[r]
      /\ \A j \in MailJobs : mail.lock[j] = s =>
           mail'.lock[j] = Free /\ mail'.next[j] = mail'.live[j] /\ mail'.live[j] = mail.next[j]
      /\ \A r \in Recipients : rows.lock[r] = s =>
           rows'.lock[r] = Free /\ rows'.next[r] = rows'.live[r] /\ rows'.live[r] = rows.next[r]
  <2>1. (CommitTables(s) \/ Discarded({s})) /\ s \notin Requests /\ reverted' = reverted
    BY <1>0, <1>k, <1>1
  <2>2. HandsOff(s)
    BY <1>0, <1>2, <1>4, <2>1, EndHandsOff
  <2>3. /\ \A j \in MailJobs : mail'.lock[j] # s
        /\ \A r \in Recipients : rows'.lock[r] # s
        /\ \A j \in MailJobs : mail.lock[j] # s =>
             mail'.live[j] = mail.live[j] /\ mail'.next[j] = mail.next[j] /\ mail'.lock[j] = mail.lock[j]
        /\ \A r \in Recipients : rows.lock[r] # s =>
             rows'.live[r] = rows.live[r] /\ rows'.next[r] = rows.next[r] /\ rows'.lock[r] = rows.lock[r]
    BY <1>0, <1>2, <1>4, <2>1, EndHandsOff
  <2>4. \A j \in MailJobs : mail.lock[j] = s =>
          mail'.lock[j] = Free /\ mail'.next[j] = mail'.live[j] /\ mail'.live[j] = mail.next[j]
    BY <1>0, <1>1, <1>2, <1>4, <2>1, EndHandsOff, ZenonT(40)
  <2>5. \A r \in Recipients : rows.lock[r] = s =>
          rows'.lock[r] = Free /\ rows'.next[r] = rows'.live[r] /\ rows'.live[r] = rows.next[r]
    <3> SUFFICES ASSUME NEW r \in Recipients, rows.lock[r] = s
                 PROVE  /\ rows'.lock[r] = Free /\ rows'.next[r] = rows'.live[r]
                        /\ rows'.live[r] = rows.next[r]
      OBVIOUS
    <3>1. CommitTables(s) => rows'.live[r] = rows.next[r]
      BY <1>0, <1>2, <1>4, <2>1, EndHandsOff
    <3> QED
      BY <1>0, <1>1, <1>2, <1>4, <2>1, <3>1, EndHandsOff
  <2> QED
    BY <2>2, <2>3, <2>4, <2>5
\* The jobs it has inserted are for the rows it holds.
<1>6. ASSUME NEW j \in MailJobs, j.to \in Kept, mail.lock[j] = s
      PROVE  /\ j.to \in Recipients /\ rows.lock[j.to] = s /\ rows.next[j.to].step = j.step
             /\ j.step = rows.live[j.to].step + 1 /\ mail'.live[j] = "PENDING" /\ mail.live[j] = Absent
             /\ j.copy = 1
  <2>1. NewJobHeld(j) /\ RunHoldsJob(s, j) /\ OneCopy(j) /\ j.to \in Recipients
    BY <1>0, <1>6, HeldFacts, Jobs DEF RowKnown, RowInvariant
  <2> QED
    BY <1>5, <1>6, <2>1 DEF NewJobHeld, RunHoldsJob, OneCopy, Absent
<1>7. ASSUME NEW r \in Kept PROVE RowFits(r)'
  <2>0. /\ RowFits(r) /\ RowHeld(r) /\ rows.live[r].step \in Steps /\ rows.next[r].step \in Steps
        /\ rows.live[r].step \in Nat /\ rows.next[r].step \in Nat /\ LastStep \in Steps
        /\ r \in Recipients
    BY <1>k, RowTypes, Jobs, StepsAssumption DEF RowKnown, RowInvariant, Steps
  <2>1. CASE rows.lock[r] # s
    <3>1. ASSUME NEW n \in Steps PROVE mail'.live[Job(r, n)] = mail.live[Job(r, n)]
      <4>1. Job(r, n) \in MailJobs /\ Job(r, n).to = r
        BY <2>0, JobFacts
      <4> QED
        BY <1>5, <1>6, <2>1, <4>1
    <3> QED
      BY <1>5, <2>0, <2>1, <3>1 DEF RowFits
  <2>2. CASE rows.lock[r] = s
    <3>1. rows'.live[r] = rows.next[r] /\ RunHoldsRow(s, r)
      BY <1>3, <1>5, <2>0, <2>2
    <3>2. ASSUME NEW n \in Steps
          PROVE  /\ n # rows.next[r].step => mail'.live[Job(r, n)] = mail.live[Job(r, n)]
                 /\ mail.live[Job(r, n)] # Absent => mail'.live[Job(r, n)] = mail.live[Job(r, n)]
      <4>1. Job(r, n) \in MailJobs /\ Job(r, n).to = r /\ Job(r, n).step = n
        BY <2>0, JobFacts
      <4> QED
        BY <1>5, <1>6, <4>1
    <3>3. CASE rows.next[r].step = rows.live[r].step
      <4>1. mail'.live[Job(r, rows.next[r].step)] = "SENT"
        BY <2>0, <3>1, <3>2, <3>3 DEF RunHoldsRow, Absent
      <4>2. ASSUME NEW n \in Steps
            PROVE  /\ n < rows.next[r].step => mail'.live[Job(r, n)] = "SENT"
                   /\ n > rows.next[r].step => mail'.live[Job(r, n)] = Absent
        BY <2>0, <3>2, <3>3, Jobs DEF RowFits
      <4>3. rows.next[r].completed => rows.next[r].step = LastStep
        BY <3>1, <3>3 DEF RunHoldsRow
      <4> QED
        BY <2>0, <3>1, <4>1, <4>2, <4>3 DEF RowFits, RowHeld, Absent
    <3>4. CASE rows.next[r].step = rows.live[r].step + 1
      <4>1. PICK j \in MailJobs : /\ j = Job(r, rows.next[r].step) /\ j.step = rows.next[r].step
                                  /\ j.to \in Kept
        BY <2>0, JobFacts
      <4>2. /\ mail.lock[j] = s /\ rows.next[r].statuses[rows.next[r].step] # "SENT"
            /\ ~rows.next[r].completed
        BY <2>0, <3>1, <3>4, <4>1 DEF RunHoldsRow
      <4>3. mail'.live[j] = "PENDING"
        BY <1>6, <4>1, <4>2
      <4>4. ASSUME NEW n \in Steps
            PROVE  /\ n < rows.next[r].step => mail'.live[Job(r, n)] = "SENT"
                   /\ n > rows.next[r].step => mail'.live[Job(r, n)] = Absent
        <5>1. n \in Nat
          BY Jobs
        <5>2. ASSUME n < rows.next[r].step PROVE mail.live[Job(r, n)] = "SENT"
          <6>1. CASE n < rows.live[r].step
            BY <2>0, <6>1 DEF RowFits
          <6>2. CASE n = rows.live[r].step
            BY <3>1, <6>2 DEF RunHoldsRow
          <6> QED
            BY <2>0, <3>4, <5>1, <5>2, <6>1, <6>2
        <5>3. ASSUME n > rows.next[r].step PROVE mail.live[Job(r, n)] = Absent
          BY <2>0, <3>4, <5>1, <5>3 DEF RowFits
        <5> QED
          BY <2>0, <3>2, <5>1, <5>2, <5>3
      <4> QED
        BY <2>0, <3>1, <4>1, <4>2, <4>3, <4>4 DEF RowFits, RowHeld, Absent
    <3> QED
      BY <3>1, <3>3, <3>4 DEF RunHoldsRow
  <2> QED
    BY <2>1, <2>2
<1>8. ASSUME NEW r \in Kept, rows'.lock[r] \in {s, Free} PROVE RowHeld(r)'
  <2>1. RowHeld(r) /\ r \in Recipients
    BY <1>k DEF RowKnown, RowInvariant
  <2>2. rows'.lock[r] = Free /\ rows'.next[r] = rows'.live[r]
    <3>1. CASE rows.lock[r] = s
      BY <1>5, <2>1, <3>1
    <3>2. CASE rows.lock[r] # s
      BY <1>5, <1>8, <2>1, <3>2 DEF RowHeld
    <3> QED
      BY <3>1, <3>2
  <2>3. Untouched(rows'.next[r])
    BY <1>7, <2>2 DEF RowFits
  <2> QED
    BY <2>2, <2>3, Apart DEF RowHeld
<1>9. ASSUME NEW j \in MailJobs, j.to \in Kept PROVE OneCopy(j)'
  <2>1. OneCopy(j)
    BY <1>9 DEF RowKnown, RowInvariant
  <2> QED
    BY <1>5, <1>6, <1>9, <2>1 DEF OneCopy
<1>10. OwnPart(s)'
  <2>1. ~Editing(s)'
    BY <1>0, <1>1, Apart DEF EditFits, Editing, Runs
  <2>2. \A r \in Kept' : ListedFits(s, r)'
    BY <1>1 DEF ListedFits, IdleRun
  <2> QED
    BY <2>1, <2>2, RunOwnPart
<1> QED
  BY <1>0, <1>k, <1>5, <1>7, <1>8, <1>9, <1>10, RowStep

\* A task takes a call, finds the job gone, or notes what became of the mail.
LEMMA TaskLookingRows ==
  ASSUME RowKnown, Known', NEW t \in Tasks,
         \/ \E j \in MailJobs : TakeCall(t, j)
         \/ ClaimFails(t) \/ ReadState(t)
  PROVE  RowInvariant'
<1>0. /\ t \in Sessions /\ t \notin Runs /\ t \notin Requests /\ task \in [Tasks -> TaskRecords]
      /\ Held /\ Typed /\ TypeOK /\ EditFits(t) /\ TaskFits(t) /\ edit \in [Sessions -> EditRecords]
      /\ \A r \in Kept : RowFits(r) /\ RowHeld(r)
  BY Apart, TypedIsTypeOK DEF RowKnown, Known, Held, Typed, SessionTypes, SessionsFit, RowInvariant
<1>1. /\ UNCHANGED <<rows, mail, run, req, reverted>> /\ \A x \in Tasks : x # t => task'[x] = task[x]
      /\ \A x \in Sessions : x # t => edit'[x] = edit[x]
  BY <1>0 DEF TakeCall, ClaimFails, ReadState, Edit, tables, counted
<1>k. Kept' = Kept
  BY <1>1, KeptFacts
<1>2. \A x \in Sessions : x # t => SameRecords(x)
  BY <1>1 DEF SameRecords
<1>3. task[t].pc # "commit"
  BY DEF TakeCall, ClaimFails, ReadState
<1>4. ASSUME TaskEdits(t)', TaskOwnsJob(t)' PROVE RowInvariant'
  <2>1. OwnPart(t)'
    BY <1>0, <1>4 DEF OwnPart
  <2> QED
    BY <1>0, <1>1, <1>2, <1>3, <2>1, RecordStep
<1>5. CASE (\E j \in MailJobs : TakeCall(t, j)) \/ ClaimFails(t)
  <2>1. ~Editing(t) /\ edit' = edit /\ task'[t].pc \in {"idle", "claim"}
    BY <1>0, <1>5 DEF TakeCall, ClaimFails, EditFits, IdleTask
  <2>2. TaskEdits(t)' /\ TaskOwnsJob(t)'
    BY <2>1 DEF TaskEdits, TaskOwnsJob, Editing
  <2> QED
    BY <1>4, <2>2
<1>6. CASE ReadState(t)
  <2>1. PICK j \in MailJobs : j = task[t].job
    BY <1>0, <1>6 DEF ReadState, TaskFits
  <2>2. task[t].pc = "state" /\ mail.lock[j] = t /\ mail.live[j] = "PENDING" /\ mail.next[j] = task[t].result
    BY <1>6, <2>1, TaskOwns DEF ReadState
  <2>3. /\ j.to \in Recipients /\ j.step \in Steps
        /\ j.to \in Kept => j.step = rows.live[j.to].step /\ ~rows.live[j.to].completed
    BY <2>2, Waiting, Jobs
  <2>4. j.to \in Kept => rows.lock[j.to] # t
    BY <1>0, <2>2, <2>3 DEF RowHeld, TaskHoldsRow
  <2>5. PICK old \in RecipientRow : /\ old = View(rows, t, j.to)
                                    /\ j.to \in Kept => old = rows.live[j.to]
    BY <2>3, <2>4, RowTypes DEF RowKnown, View
  <2>6. PICK new : new = [old EXCEPT !.statuses[j.step] = task[t].result]
    OBVIOUS
  <2>7. /\ new.step = old.step /\ new.completed = old.completed /\ new.paused = old.paused
        /\ new.replied = old.replied /\ new.statuses[j.step] = task[t].result
    BY <2>3, <2>6 DEF RecipientRow
  <2>8. PICK d : d = [at |-> "select", who |-> j.to, new |-> new, base |-> None]
    OBVIOUS
  <2>9. edit'[t] = d /\ d.at = "select" /\ d.who = j.to /\ d.new = new
    BY <1>0, <1>6, <2>1, <2>5, <2>6, <2>8 DEF ReadState, Edit
  <2>10. task'[t].pc = "commit" /\ task'[t].job = j /\ task'[t].result = task[t].result
    BY <1>0, <1>6, <2>1 DEF ReadState, TaskRecords
  <2>11. j.to \in Kept => Untouched(new)
    BY <1>0, <2>3, <2>5, <2>7 DEF Untouched, RowFits
  <2>12. TaskEdits(t)'
    BY <1>1, <1>k, <2>2, <2>3, <2>4, <2>5, <2>7, <2>9, <2>10, <2>11 DEF TaskEdits, Editing
  <2>13. TaskOwnsJob(t)'
    BY <1>1, <2>2, <2>10 DEF TaskOwnsJob
  <2> QED
    BY <1>4, <2>12, <2>13
<1> QED
  BY <1>5, <1>6

\* A task claims a job and sends the mail.
LEMMA DeliverRows ==
  ASSUME RowKnown, Known', NEW t \in Tasks, NEW o \in Outcomes, Deliver(t, o)
  PROVE  RowInvariant'
<1>0. /\ t \in Sessions /\ t \notin Runs /\ t \notin Requests /\ task \in [Tasks -> TaskRecords]
      /\ Held /\ Typed /\ EditFits(t) /\ TaskFits(t)
  BY Apart DEF RowKnown, Known, Held, Typed, SessionTypes, SessionsFit
<1>k. Kept' = Kept /\ Kept \subseteq Recipients /\ reverted' = reverted
  BY KeptFacts DEF Deliver, counted
<1>1. PICK job \in MailJobs : job = task[t].job
  BY <1>0 DEF Deliver, TaskFits
<1>2. task[t].pc = "claim" /\ View(mail, t, job) = "PENDING" /\ ~Locked(mail, t, job)
  BY <1>1 DEF Deliver
<1>3. mail.lock[job] = Free /\ mail.live[job] = "PENDING"
  <2>1. mail.lock[job] # t
    BY <1>0, <1>2, HeldFacts DEF TaskHoldsJob
  <2> QED
    BY <1>2, <2>1 DEF View, Locked
<1>4. PICK m \in {"SENT", "FAILED"} :
        mail' = Put(mail, t, job, m) /\ m = IF o = "accepted" THEN "SENT" ELSE "FAILED"
  BY <1>1 DEF Deliver
<1>5. task'[t].pc \in {"state", "commit"} /\ task'[t].job = job /\ task'[t].result = m
  BY <1>0, <1>1, <1>4 DEF Deliver
<1>6. \A x \in Sessions : x # t => SameRecords(x)
  BY <1>0 DEF Deliver, SameRecords
<1>7. m \in MailStatus /\ UNCHANGED rows
  BY <1>4 DEF MailStatus, Deliver
<1>8. HandsOff(t) /\ mail'.live = mail.live
  BY <1>0, <1>k, <1>3, <1>4, <1>6, <1>7, PutHandsOff
<1>9. /\ mail'.next[job] = m /\ mail'.lock[job] = t
      /\ \A x \in MailJobs : x # job => mail'.next[x] = mail.next[x] /\ mail'.lock[x] = mail.lock[x]
  BY <1>0, <1>4, <1>7, PutFields
<1>10. \A r \in Kept : RowFits(r)'
  BY <1>k, <1>7, <1>8, FitsKept
<1>11. ASSUME NEW r \in Kept, rows'.lock[r] \in {t, Free} PROVE RowHeld(r)'
  <2>1. RowHeld(r)
    BY DEF RowKnown, RowInvariant
  <2>2. rows.lock[r] = Free
    BY <1>0, <1>2, <1>7, <1>11, <2>1 DEF RowHeld, TaskHoldsRow
  <2> QED
    BY <1>7, <2>1, <2>2, Apart DEF RowHeld
<1>12. ASSUME NEW j \in MailJobs, j.to \in Kept PROVE OneCopy(j)'
  <2>1. OneCopy(j)
    BY <1>12 DEF RowKnown, RowInvariant
  <2> QED
    BY <1>3, <1>8, <1>9, <2>1 DEF OneCopy, Absent
<1>13. ASSUME NEW j \in MailJobs, mail'.lock[j] = t PROVE NewJobHeld(j)'
  BY <1>0, <1>13 DEF NewJobHeld
<1>14. OwnPart(t)'
  <2>1. ~Editing(t) /\ edit' = edit
    BY <1>0, <1>2 DEF EditFits, Deliver
  <2>2. TaskEdits(t)'
    BY <2>1 DEF TaskEdits, Editing
  <2>3. TaskOwnsJob(t)'
    BY <1>5, <1>9 DEF TaskOwnsJob
  <2> QED
    BY <1>0, <2>2, <2>3 DEF OwnPart
<1> QED
  BY <1>0, <1>k, <1>8, <1>10, <1>11, <1>12, <1>13, <1>14, RowStep

\* A task commits what became of its mail, and the recipient's row with it.
LEMMA CommitTaskRows ==
  ASSUME RowKnown, Known', NEW t \in Tasks, CommitTask(t)
  PROVE  RowInvariant'
<1>0. /\ t \in Sessions /\ t \notin Runs /\ t \notin Requests /\ task \in [Tasks -> TaskRecords]
      /\ Held /\ Typed /\ EditFits(t) /\ TaskFits(t) /\ t # Free
  BY Apart DEF RowKnown, Known, Held, Typed, SessionTypes, SessionsFit
<1>k. Kept' = Kept /\ Kept \subseteq Recipients /\ reverted' = reverted
  BY KeptFacts DEF CommitTask, counted
<1>1. /\ CommitTables(t) /\ ~Editing(t) /\ edit' = edit /\ run' = run /\ req' = req
      /\ task[t].pc = "commit" /\ task'[t] = IdleTask /\ \A x \in Tasks : x # t => task'[x] = task[x]
  BY <1>0 DEF CommitTask
<1>2. \A x \in Sessions : x # t => SameRecords(x)
  BY <1>1 DEF SameRecords
<1>3. PICK j \in MailJobs : /\ j = task[t].job /\ mail.lock[j] = t /\ mail.live[j] = "PENDING"
                            /\ mail.next[j] = task[t].result
  BY <1>1, TaskOwns
<1>5. ASSUME NEW r \in Kept, rows.lock[r] = t
      PROVE  /\ RowHeld(r) /\ TaskHoldsRow(t, r) /\ rows.next[r].step = rows.live[r].step
             /\ r = j.to /\ j = Job(r, rows.live[r].step) /\ r \in Recipients
  <2>1. RowHeld(r) /\ TaskHoldsRow(t, r)
    BY <1>5 DEF RowKnown, RowInvariant, RowHeld
  <2>2. j = Job(r, rows.live[r].step)
    BY <1>3, <2>1 DEF TaskHoldsRow
  <2> QED
    BY <1>k, <2>1, <2>2, JobFacts DEF TaskHoldsRow
<1>6. ASSUME NEW i \in MailJobs, mail.lock[i] = t PROVE i = j
  BY <1>0, <1>3, <1>6, HeldFacts DEF TaskHoldsJob
<1>7. ASSUME NEW r \in Kept PROVE rows'.live[r].step >= rows.live[r].step
  <2>0. rows.live[r].step \in Nat /\ rows.next[r].step \in Nat
    BY <1>k, RowTypes, Jobs DEF RowKnown
  <2>1. rows \in Tables(Recipients, RecipientRow, Sessions) /\ rows' = Publish(rows, t)
    BY <1>0, <1>1 DEF CommitTables, Typed, TablesTyped
  <2>2. rows'.live[r] = IF rows.lock[r] = t THEN rows.next[r] ELSE rows.live[r]
    BY <1>k, <2>1, PublishRow
  <2> QED
    BY <1>5, <2>0, <2>2
<1>8. (CommitTables(t) \/ Discarded({t})) /\ t \notin Requests /\ reverted' = reverted
  BY <1>0, <1>k, <1>1
<1>9. HandsOff(t)
  BY <1>0, <1>2, <1>7, <1>8, EndHandsOff
<1>10. /\ \A i \in MailJobs : mail'.lock[i] # t
       /\ \A r \in Recipients : rows'.lock[r] # t
       /\ \A i \in MailJobs : mail.lock[i] # t =>
            mail'.live[i] = mail.live[i] /\ mail'.next[i] = mail.next[i] /\ mail'.lock[i] = mail.lock[i]
       /\ \A r \in Recipients : rows.lock[r] # t =>
            rows'.live[r] = rows.live[r] /\ rows'.next[r] = rows.next[r] /\ rows'.lock[r] = rows.lock[r]
  BY <1>0, <1>2, <1>7, <1>8, EndHandsOff
<1>11. mail'.live[j] = mail.next[j] /\ mail'.next[j] = mail.next[j]
  <2>1. CommitTables(t) => mail'.live[j] = mail.next[j]
    BY <1>0, <1>2, <1>3, <1>7, <1>8, EndHandsOff
  <2>2. mail'.next[j] = mail'.live[j]
    BY <1>0, <1>2, <1>3, <1>7, <1>8, EndHandsOff, ZenonT(40)
  <2> QED
    BY <1>1, <2>1, <2>2
<1>12. ASSUME NEW r \in Recipients, rows.lock[r] = t
       PROVE  rows'.lock[r] = Free /\ rows'.next[r] = rows.next[r] /\ rows'.live[r] = rows.next[r]
  <2>1. CommitTables(t) => rows'.live[r] = rows.next[r]
    BY <1>0, <1>2, <1>7, <1>8, <1>12, EndHandsOff
  <2>2. rows'.lock[r] = Free /\ rows'.next[r] = rows'.live[r]
    BY <1>0, <1>2, <1>7, <1>8, <1>12, EndHandsOff
  <2> QED
    BY <1>1, <2>1, <2>2
<1>13. mail.next[j] # Absent /\ \A i \in MailJobs : i # j => mail'.live[i] = mail.live[i]
  <2>1. TaskHoldsJob(t, j)
    BY <1>0, <1>3, HeldFacts
  <2> QED
    BY <1>6, <1>10, <2>1 DEF TaskHoldsJob, Absent
<1>14. ASSUME NEW r \in Kept PROVE RowFits(r)'
  <2>1. CASE rows.lock[r] # t
    <3>1. rows'.live[r] = rows.live[r]
      BY <1>k, <1>10, <2>1
    <3>2. \A i \in MailJobs : \/ mail'.live[i] = mail.live[i]
                              \/ mail.live[i] = "PENDING" /\ mail'.live[i] # Absent
      BY <1>3, <1>11, <1>13
    <3> QED
      BY <3>1, <3>2, FitsKept
  <2>2. CASE rows.lock[r] = t
    <3>1. /\ RowFits(r) /\ RowHeld(r) /\ TaskHoldsRow(t, r) /\ rows.next[r].step = rows.live[r].step
          /\ rows'.live[r] = rows.next[r] /\ rows.live[r].step \in Steps /\ r \in Recipients
      BY <1>k, <1>5, <1>12, <2>2, RowTypes DEF RowKnown, RowInvariant
    <3>2. j = Job(r, rows.live[r].step)
      BY <1>5, <2>2
    <3>3. ASSUME NEW n \in Steps, n # rows.live[r].step
          PROVE  mail'.live[Job(r, n)] = mail.live[Job(r, n)]
      <4>1. Job(r, n) \in MailJobs /\ Job(r, n) # j
        BY <3>1, <3>2, <3>3, JobFacts
      <4> QED
        BY <1>13, <4>1
    <3>4. ASSUME NEW n \in Steps
          PROVE  /\ n < rows.next[r].step => mail'.live[Job(r, n)] = "SENT"
                 /\ n > rows.next[r].step => mail'.live[Job(r, n)] = Absent
      <4>1. n \in Nat /\ rows.live[r].step \in Nat
        BY <3>1, Jobs
      <4> QED
        BY <3>1, <3>3, <4>1 DEF RowFits
    <3>5. rows.next[r].statuses[rows.next[r].step] = "SENT" => mail'.live[j] = "SENT"
      BY <1>3, <1>11, <3>1 DEF TaskHoldsRow
    <3>6. ~rows.next[r].completed /\ Untouched(rows.next[r])
      BY <3>1 DEF TaskHoldsRow, RowHeld
    <3> QED
      BY <1>11, <1>13, <3>1, <3>2, <3>4, <3>5, <3>6 DEF RowFits
  <2> QED
    BY <2>1, <2>2
<1>15. ASSUME NEW r \in Kept, rows'.lock[r] \in {t, Free} PROVE RowHeld(r)'
  <2>1. RowHeld(r) /\ r \in Recipients
    BY <1>k DEF RowKnown, RowInvariant
  <2>2. rows'.lock[r] = Free /\ rows'.next[r] = rows'.live[r]
    <3>1. CASE rows.lock[r] = t
      BY <1>12, <2>1, <3>1
    <3>2. CASE rows.lock[r] # t
      BY <1>10, <1>15, <2>1, <3>2 DEF RowHeld
    <3> QED
      BY <3>1, <3>2
  <2>3. Untouched(rows'.next[r])
    BY <1>14, <2>2 DEF RowFits
  <2> QED
    BY <2>2, <2>3, Apart DEF RowHeld
<1>16. ASSUME NEW i \in MailJobs, i.to \in Kept PROVE OneCopy(i)'
  <2>1. OneCopy(i)
    BY <1>16 DEF RowKnown, RowInvariant
  <2>2. CASE i = j
    <3>1. j.copy = 1
      BY <1>3, <2>1, <2>2 DEF OneCopy, Absent
    <3> QED
      BY <2>2, <3>1 DEF OneCopy
  <2>3. CASE i # j
    <3>1. mail'.live[i] = mail.live[i] /\ mail'.next[i] = mail.next[i]
      BY <1>6, <1>10, <2>3
    <3> QED
      BY <2>1, <3>1 DEF OneCopy
  <2> QED
    BY <2>2, <2>3
<1>17. OwnPart(t)'
  <2>1. TaskEdits(t)' /\ TaskOwnsJob(t)'
    BY <1>1 DEF TaskEdits, TaskOwnsJob, Editing, IdleTask
  <2> QED
    BY <1>0, <2>1 DEF OwnPart
<1> QED
  BY <1>0, <1>k, <1>9, <1>10, <1>14, <1>15, <1>16, <1>17, RowStep

\* What a session in the middle of an update is about to write, and over what.
LEMMA EditKnown ==
  ASSUME RowKnown, NEW s \in Sessions, Editing(s)
  PROVE  /\ s \notin Requests /\ (s \in Runs => s \in Schedulers /\ run[s].pc = "visit")
         /\ s \in Tasks => task[s].pc = "commit" /\ TaskEdits(s) /\ TaskOwnsJob(s) /\ TaskFits(s)
         /\ s \in Runs => RunEdits(s) /\ \A r \in Kept : ListedFits(s, r)
         /\ edit[s].who \in Recipients /\ edit[s].new \in RecipientRow
         /\ edit[s].who \in Kept =>
              /\ rows.lock[edit[s].who] # s /\ Untouched(edit[s].new)
              /\ edit[s].new.step = rows.live[edit[s].who].step
<1>1. EditFits(s) /\ (s \in Requests => RequestsAside(s))
  BY DEF RowKnown, RowInvariant, Known, Held, Typed, SessionsFit
<1>2. /\ s \notin Requests /\ edit[s].who \in Recipients /\ edit[s].new \in RecipientRow
      /\ s \in Runs => s \in Schedulers /\ run[s].pc = "visit"
      /\ s \in Tasks => task[s].pc = "commit"
  BY <1>1 DEF EditFits, RequestsAside, Runs
<1>3. s \in Runs => RunEdits(s) /\ \A r \in Kept : ListedFits(s, r)
  BY DEF RowKnown, RowInvariant
<1>4. s \in Tasks => TaskEdits(s) /\ TaskOwnsJob(s) /\ TaskFits(s)
  BY DEF RowKnown, RowInvariant, Known, Held, Typed, SessionsFit
<1>5. CASE s \in Runs
  BY <1>2, <1>3, <1>5, Apart DEF RunEdits
<1>6. CASE s \in Tasks
  <2>1. PICK j \in MailJobs : j = task[s].job /\ mail.live[j] = "PENDING"
    BY <1>2, <1>6, TaskOwns
  <2>2. j.to \in Kept => j.step = rows.live[j.to].step
    BY <2>1, Waiting
  <2> QED
    BY <1>2, <1>4, <1>6, <2>1, <2>2, Apart DEF TaskEdits
<1> QED
  BY <1>2, <1>5, <1>6, Apart

\* The update reads the row: no write of its own stands in it.
LEMMA SelectRows ==
  ASSUME RowKnown, Known', NEW s \in Sessions, SelectRow(s)
  PROVE  RowInvariant'
<1>0. /\ Editing(s) /\ edit \in [Sessions -> EditRecords]
      /\ UNCHANGED <<rows, mail, run, task, req, reverted>>
  BY DEF SelectRow, Editing, RowKnown, Known, Held, Typed, SessionTypes, tables, actors, counted
<1>k. Kept' = Kept
  BY <1>0, KeptFacts
<1>1. PICK r \in Recipients : r = edit[s].who /\ (r \in Kept => rows.lock[r] # s)
  BY <1>0, EditKnown
<1>2. PICK base : base = View(rows, s, r) /\ (r \in Kept => base = rows.live[r])
  BY <1>1 DEF View
<1>3. PICK rec : rec = [edit[s] EXCEPT !.at = "write", !.base = base]
  OBVIOUS
<1>4. edit' = [edit EXCEPT ![s] = rec]
  BY <1>1, <1>2, <1>3 DEF SelectRow
<1>5. /\ edit'[s] = rec /\ rec.at = "write" /\ rec.who = r /\ rec.new = edit[s].new /\ rec.base = base
      /\ \A x \in Sessions : x # s => edit'[x] = edit[x]
  BY <1>0, <1>1, <1>3, <1>4 DEF EditRecords
<1>6. \A x \in Sessions : x # s => SameRecords(x)
  BY <1>0, <1>5 DEF SameRecords
<1>7. ASSUME s \in Runs PROVE RunEdits(s)' /\ \A x \in Kept : ListedFits(s, x)'
  <2>1. RunEdits(s) /\ \A x \in Kept : ListedFits(s, x)
    BY <1>0, <1>7, EditKnown
  <2>2. RunEdits(s)'
    BY <1>0, <1>k, <1>1, <1>2, <1>5, <2>1 DEF RunEdits, Editing
  <2>3. ASSUME NEW x \in Kept PROVE ListedFits(s, x)'
    BY <1>0, <1>1, <1>5, <2>1 DEF ListedFits, Editing
  <2> QED
    BY <2>2, <2>3
<1>8. ASSUME s \in Tasks PROVE TaskEdits(s)' /\ TaskOwnsJob(s)'
  <2>1. TaskEdits(s) /\ TaskOwnsJob(s) /\ (r \in Kept => edit[s].new.step = rows.live[r].step)
    BY <1>0, <1>1, <1>8, EditKnown
  <2>2. TaskEdits(s)'
    BY <1>0, <1>k, <1>1, <1>2, <1>5, <2>1 DEF TaskEdits, Editing
  <2>3. TaskOwnsJob(s)'
    BY <1>0, <2>1 DEF TaskOwnsJob
  <2> QED
    BY <2>2, <2>3
<1>9. OwnPart(s)'
  BY <1>0, <1>k, <1>7, <1>8, EditKnown DEF OwnPart
<1> QED
  BY <1>0, <1>6, <1>9, RecordStep

\* What an update writes is a row.
LEMMA WrittenRow ==
  ASSUME NEW live \in RecipientRow, NEW base \in RecipientRow, NEW new \in RecipientRow
  PROVE  /\ Changed(live, base, new) \in RecipientRow
         /\ [Changed(live, base, new) EXCEPT !.statuses = new.statuses] \in RecipientRow
<1>1. Changed(live, base, new) \in RecipientRow /\ new.statuses \in [Steps -> StepStatus]
  BY RowFacts
<1> QED
  BY <1>1 DEF RecipientRow

\* The update writes what differs from what it read, and a task its statuses in any
\* case; a kept recipient's row is nobody's, and still at the step it was read at.
LEMMA WriteRows ==
  ASSUME RowKnown, Known', NEW s \in Sessions, WriteRow(s)
  PROVE  RowInvariant'
<1>0. /\ Editing(s) /\ edit[s].at = "write" /\ edit \in [Sessions -> EditRecords] /\ EditFits(s)
      /\ UNCHANGED <<mail, run, task, req, reverted>> /\ edit' = [edit EXCEPT ![s] = NoEdit]
  BY DEF WriteRow, Editing, RowKnown, Known, Held, Typed, SessionTypes, SessionsFit, actors,
     counted
<1>k. Kept' = Kept /\ Kept \subseteq Recipients
  BY <1>0, KeptFacts
<1>1. PICK r \in Recipients : r = edit[s].who
  BY <1>0, EditKnown
<1>2. PICK new \in RecipientRow : new = edit[s].new
  BY <1>0, EditKnown
<1>3. PICK base \in RecipientRow : base = edit[s].base
  BY <1>0 DEF EditFits
<1>4. r \in Kept => rows.lock[r] = Free /\ Untouched(new) /\ new.step = rows.live[r].step
  <2>1. r \in Kept => rows.lock[r] # s
    BY <1>0, <1>1, EditKnown
  <2>2. ~Locked(rows, s, r)
    BY <1>1 DEF WriteRow
  <2> QED
    BY <1>0, <1>1, <1>2, <2>1, <2>2, EditKnown DEF Locked
<1>5. PICK live \in RecipientRow : live = View(rows, s, r) /\ (r \in Kept => live = rows.live[r])
  BY <1>4, RowTypes, Apart DEF RowKnown, View
<1>6. PICK row \in RecipientRow :
        row = IF Stamped(s) THEN [Changed(live, base, new) EXCEPT !.statuses = new.statuses]
              ELSE Changed(live, base, new)
  BY WrittenRow
<1>7. rows' = Put(rows, s, r, row)
  BY <1>1, <1>2, <1>3, <1>5, <1>6 DEF WriteRow
<1>8. /\ row.step = IF new.step # base.step THEN new.step ELSE live.step
      /\ row.statuses \in {new.statuses, live.statuses}
      /\ row.paused = IF new.paused # base.paused THEN new.paused ELSE live.paused
      /\ row.replied = IF new.replied # base.replied THEN new.replied ELSE live.replied
      /\ row.completed = IF new.completed # base.completed THEN new.completed ELSE live.completed
  BY <1>6 DEF Changed, RecipientRow
<1>9. r \in Kept => RowFits(r) /\ RowHeld(r)
  BY DEF RowKnown, RowInvariant
<1>10. r \in Kept => row.step = live.step /\ Untouched(row)
  BY <1>4, <1>5, <1>8, <1>9 DEF Untouched, RowFits
<1>11. \A x \in Sessions : x # s => SameRecords(x)
  BY <1>0 DEF SameRecords
<1>12. HandsOff(s) /\ rows'.live = rows.live
  BY <1>0, <1>k, <1>4, <1>7, <1>11, PutHandsOff
<1>13. /\ rows'.next[r] = row /\ rows'.lock[r] = s
       /\ \A x \in Recipients : x # r => rows'.next[x] = rows.next[x] /\ rows'.lock[x] = rows.lock[x]
  BY <1>7, PutFields
<1>14. edit'[s] = NoEdit /\ ~Editing(s)'
  BY <1>0 DEF Editing, NoEdit
<1>15. ASSUME s \in Runs, r \in Kept
       PROVE  RunHoldsRow(s, r)' /\ (rows.live[r].completed => row.completed)
  <2>1. RunEdits(s) /\ run[s].pc = "visit"
    BY <1>0, <1>15, EditKnown
  <2>2. /\ new.completed /\ live.step = LastStep /\ mail.live[Job(r, LastStep)] = "SENT"
    BY <1>0, <1>1, <1>2, <1>5, <1>15, <2>1 DEF RunEdits
  <2>3. new.completed = TRUE
    BY <2>2, RowFacts
  <2>4. rows.live[r].completed => row.completed
    BY <1>5, <1>8, <1>15, <2>3
  <2>5. RunHoldsRow(s, r)'
    BY <1>0, <1>5, <1>10, <1>12, <1>13, <1>15, <2>1, <2>2 DEF RunHoldsRow
  <2> QED
    BY <2>4, <2>5
<1>16. ASSUME s \in Tasks, r \in Kept
       PROVE  TaskHoldsRow(s, r)' /\ (rows.live[r].completed => row.completed)
  <2>1. task[s].pc = "commit" /\ TaskEdits(s) /\ TaskOwnsJob(s)
    BY <1>0, <1>16, EditKnown
  <2>2. PICK j \in MailJobs : j = task[s].job /\ mail.live[j] = "PENDING" /\ mail.lock[j] = s
    BY <1>16, <2>1, TaskOwns
  <2>3. /\ r = j.to /\ new.step = j.step /\ ~new.completed
        /\ new.statuses[j.step] = "SENT" => mail.next[j] = "SENT"
    BY <1>0, <1>1, <1>2, <1>16, <2>1, <2>2 DEF TaskEdits
  <2>4. /\ j = Job(r, j.step) /\ j.step = live.step /\ ~live.completed /\ live.statuses[j.step] # "SENT"
    BY <1>5, <1>16, <2>2, <2>3, Waiting
  <2>5. ~row.completed
    BY <1>8, <2>3, <2>4
  <2>6. row.statuses[row.step] = "SENT" => mail.next[j] = "SENT"
    BY <1>8, <1>10, <1>16, <2>3, <2>4
  <2>7. TaskHoldsRow(s, r)'
    <3>1. task' = task /\ mail' = mail /\ rows'.live[r] = live /\ rows'.next[r] = row
      BY <1>0, <1>5, <1>12, <1>13, <1>16
    <3>2. task'[s].pc = "commit" /\ task'[s].job = Job(r, rows'.live[r].step)
      BY <2>1, <2>2, <2>4, <3>1
    <3>3. mail'.lock[task'[s].job] = s
      BY <2>2, <3>1
    <3>4. rows'.next[r].step = rows'.live[r].step /\ ~rows'.next[r].completed
      BY <1>10, <1>16, <2>5, <3>1
    <3>5. rows'.next[r].statuses[rows'.next[r].step] = "SENT" => mail'.next[task'[s].job] = "SENT"
      BY <2>2, <2>6, <3>1
    <3> QED
      BY <3>2, <3>3, <3>4, <3>5 DEF TaskHoldsRow
  <2> QED
    BY <1>5, <1>16, <2>4, <2>7
<1>17. s \notin Requests /\ s # Free
  BY <1>0, EditKnown, Apart
<1>18. ASSUME NEW x \in Kept, rows'.lock[x] \in {s, Free} PROVE RowHeld(x)'
  <2>1. CASE x = r
    <3>1. rows'.lock[r] = s /\ rows'.next[r] = row /\ rows'.live[r] = rows.live[r]
      BY <1>k, <1>12, <1>13
    <3>2. rows.live[r].completed => row.completed
      BY <1>15, <1>16, <1>17, <2>1, Apart
    <3> QED
      BY <1>10, <1>15, <1>16, <1>17, <2>1, <3>1, <3>2 DEF RowHeld
  <2>2. CASE x # r
    <3>1. RowHeld(x)
      BY DEF RowKnown, RowInvariant
    <3>2. rows'.lock[x] = rows.lock[x] /\ rows'.next[x] = rows.next[x] /\ rows'.live[x] = rows.live[x]
      BY <1>k, <1>12, <1>13, <2>2
    <3>3. s \in Runs /\ rows.lock[x] = s => RunHoldsRow(s, x)'
      BY <1>0, <3>1, <3>2 DEF RowHeld, RunHoldsRow
    <3>4. s \in Tasks /\ rows.lock[x] = s => TaskHoldsRow(s, x)'
      BY <1>0, <3>1, <3>2 DEF RowHeld, TaskHoldsRow
    <3> QED
      BY <1>18, <3>1, <3>2, <3>3, <3>4, Apart DEF RowHeld
  <2> QED
    BY <2>1, <2>2
<1>19. \A x \in Kept : RowFits(x)'
  BY <1>0, <1>k, <1>12, FitsKept
<1>20. ASSUME NEW j \in MailJobs, j.to \in Kept PROVE OneCopy(j)'
  BY <1>0, <1>20 DEF OneCopy, RowKnown, RowInvariant
<1>21. ASSUME NEW j \in MailJobs, j.to \in Kept, mail'.lock[j] = s PROVE NewJobHeld(j)'
  <2>1. NewJobHeld(j) /\ j.to \in Recipients /\ mail.lock[j] = s
    BY <1>0, <1>21, Jobs DEF RowKnown, RowInvariant
  <2>2. s \in Runs => j.to # r
    BY <1>4, <1>17, <1>21, <2>1 DEF NewJobHeld
  <2> QED
    BY <1>0, <1>12, <1>13, <2>1, <2>2 DEF NewJobHeld
<1>22. OwnPart(s)'
  <2>1. ASSUME s \in Runs, NEW x \in Kept PROVE ListedFits(s, x)'
    <3>1. ListedFits(s, x) /\ (x \in DOMAIN run[s].listed => x # r)
      BY <1>0, <1>1, <2>1, EditKnown DEF ListedFits
    <3> QED
      BY <1>0, <1>k, <1>12, <1>13, <1>14, <3>1 DEF ListedFits
  <2>2. s \in Runs => RunEdits(s)'
    BY <1>14 DEF RunEdits
  <2>3. s \in Tasks => TaskEdits(s)'
    BY <1>14 DEF TaskEdits
  <2>4. s \in Tasks => TaskOwnsJob(s)'
    BY <1>0, EditKnown DEF TaskOwnsJob
  <2> QED
    BY <1>k, <1>17, <2>1, <2>2, <2>3, <2>4 DEF OwnPart
<1> QED
  BY <1>k, <1>12, <1>18, <1>19, <1>20, <1>21, <1>22, RowStep

\* A request about the campaign writes no recipient's row, and of the jobs of those
\* who are still kept only those that wait.
LEMMA RequestRow ==
  ASSUME RowKnown, Known', NEW q \in Requests, \A x \in Sessions : x # q => SameRecords(x),
         RequestsAside(q)', JobsLeft(q), Kept' \subseteq Kept,
         \A r \in Kept : /\ rows'.live[r] = rows.live[r] /\ rows'.next[r] = rows.next[r]
                         /\ rows'.lock[r] = rows.lock[r],
         \A j \in MailJobs : j.to \in Kept' =>
           /\ \/ mail'.live[j] = mail.live[j]
              \/ mail.live[j] = "PENDING" /\ mail'.live[j] # Absent
           /\ mail'.next[j] = mail.next[j] \/ mail.live[j] # Absent
  PROVE  RowInvariant'
<1>0. q \in Sessions /\ q \notin Runs /\ q \notin Tasks /\ Kept \subseteq Recipients
  BY Apart, KeptFacts
<1>1. HandsOff(q)
  <2>1. ASSUME NEW r \in Kept PROVE rows'.live[r].step >= rows.live[r].step
    <3>1. rows.live[r].step \in Nat
      BY <1>0, RowTypes, Jobs DEF RowKnown
    <3> QED
      BY <3>1
  <2>2. RowsLeft(q)
    BY <1>0, <2>1 DEF RowsLeft
  <2> QED
    BY <2>2 DEF HandsOff
<1>2. \A r \in Kept' : RowFits(r)'
  BY <1>0, FitsKept
<1>3. ASSUME NEW r \in Kept', rows'.lock[r] \in {q, Free} PROVE RowHeld(r)'
  <2>1. RowHeld(r)
    BY DEF RowKnown, RowInvariant
  <2> QED
    BY <1>0, <1>3, <2>1, Apart DEF RowHeld
<1>4. ASSUME NEW j \in MailJobs, j.to \in Kept' PROVE OneCopy(j)'
  <2>1. OneCopy(j)
    BY <1>4 DEF RowKnown, RowInvariant
  <2>2. mail.live[j] = "PENDING" => mail.live[j] # Absent
    BY DEF Absent
  <2> QED
    BY <1>4, <2>1, <2>2 DEF OneCopy
<1>5. ASSUME NEW j \in MailJobs, mail'.lock[j] = q PROVE NewJobHeld(j)'
  BY <1>0, <1>5 DEF NewJobHeld
<1>6. OwnPart(q)'
  BY <1>0 DEF OwnPart
<1> QED
  BY <1>0, <1>1, <1>2, <1>3, <1>4, <1>5, <1>6, RowStep

\* A request ends: the jobs it has written wait, are cancelled, or are written back,
\* and then their recipient is no longer kept.
LEMMA RequestEndRow ==
  ASSUME RowKnown, Known', NEW q \in Requests, \A x \in Sessions : x # q => SameRecords(x),
         RequestsAside(q)',
         \/ CommitTables(q) /\ reverted' = reverted \cup Overwritten(q)
         \/ Discarded({q}) /\ reverted' = reverted
  PROVE  RowInvariant'
<1>0. /\ rows \in Tables(Recipients, RecipientRow, Sessions) /\ Held
      /\ mail \in Tables(MailJobs, MailStatus, Sessions) /\ q \in Sessions /\ q # Free
  BY Apart DEF RowKnown, Known, Held, Typed, TablesTyped
<1>1. Kept' \subseteq Kept /\ Kept \subseteq Recipients
  <2>1. reverted \subseteq reverted'
    OBVIOUS
  <2> QED
    BY <2>1 DEF Kept, Rewritten
<1>2. ASSUME NEW r \in Kept
      PROVE  /\ rows'.live[r] = rows.live[r] /\ rows'.next[r] = rows.next[r]
             /\ rows'.lock[r] = rows.lock[r]
  <2>1. rows.lock[r] # q /\ r \in Recipients
    BY <1>1 DEF RowKnown, RowInvariant, RowHeld
  <2>2. rows' = Publish(rows, q) \/ rows' = Discard(rows, {q})
    BY DEF CommitTables, Discarded
  <2> QED
    BY <1>0, <2>1, <2>2, PublishRow, DiscardRow
<1>3. ASSUME NEW j \in MailJobs
      PROVE  /\ mail.lock[j] # q => mail'.live[j] = mail.live[j] /\ mail'.next[j] = mail.next[j]
                                     /\ mail'.lock[j] = mail.lock[j]
             /\ mail.lock[j] = q => mail'.lock[j] = Free
             /\ mail.lock[j] = q => \/ mail'.live[j] = mail.live[j]
                                    \/ CommitTables(q) /\ mail'.live[j] = mail.next[j]
  <2>1. CASE CommitTables(q)
    <3>1. mail' = Publish(mail, q)
      BY <2>1 DEF CommitTables
    <3> QED
      BY <1>0, <2>1, <3>1, PublishRow
  <2>2. CASE Discarded({q})
    <3>1. mail' = Discard(mail, {q})
      BY <2>2 DEF Discarded
    <3> QED
      BY <1>0, <3>1, DiscardRow
  <2> QED
    BY <2>1, <2>2
\* A job it brings back to PENDING is one it has overwritten.
<1>4. ASSUME NEW j \in MailJobs, j.to \in Kept', mail.lock[j] = q
      PROVE  /\ mail.live[j] # Absent
             /\ \/ mail'.live[j] = mail.live[j]
                \/ mail.live[j] = "PENDING" /\ mail'.live[j] # Absent
  <2>1. RequestHoldsJob(q, j) /\ mail.live[j] \in MailStatus
    BY <1>0, <1>4, HeldFacts DEF Tables
  <2>2. mail.live[j] # Absent
    BY <2>1 DEF RequestHoldsJob, Absent
  <2>3. ASSUME mail'.live[j] # mail.live[j]
        PROVE  mail.live[j] = "PENDING" /\ mail'.live[j] # Absent
    <3>1. CommitTables(q) /\ mail'.live[j] = mail.next[j]
      BY <1>3, <1>4, <2>3
    <3>2. CASE mail.next[j] = "CANCELLED"
      <4>1. mail.live[j] \in {"PENDING", "CANCELLED"}
        BY <2>1, <3>2 DEF RequestHoldsJob
      <4> QED
        BY <2>3, <3>1, <3>2, <4>1 DEF Absent
    <3>3. CASE mail.next[j] = "PENDING"
      <4>1. mail.live[j] \in {"SENT", "FAILED", "CANCELLED"}
        BY <2>1, <2>2, <2>3, <3>1, <3>3 DEF MailStatus
      <4>2. j \in Overwritten(q) /\ Overwritten(q) # {}
        BY <1>4, <3>3, <4>1 DEF Overwritten
      <4>3. j \in reverted'
        <5>1. CASE reverted' = reverted \cup Overwritten(q)
          BY <4>2, <5>1
        <5>2. CASE Discarded({q})
          <6>1. mail' = Discard(mail, {q})
            BY <5>2 DEF Discarded
          <6> QED
            BY <1>0, <2>3, <6>1, DiscardRow
        <5> QED
          BY <5>1, <5>2
      <4>4. j.to \in Rewritten'
        BY <4>3 DEF Rewritten
      <4> QED
        BY <1>4, <4>4 DEF Kept
    <3> QED
      BY <2>1, <2>3, <3>1, <3>2, <3>3 DEF RequestHoldsJob
  <2> QED
    BY <2>2, <2>3
<1>5. ASSUME NEW j \in MailJobs
      PROVE  /\ j.to \in Kept' =>
                  /\ \/ mail'.live[j] = mail.live[j]
                     \/ mail.live[j] = "PENDING" /\ mail'.live[j] # Absent
                  /\ mail'.next[j] = mail.next[j] \/ mail.live[j] # Absent
                  /\ mail.live[j] = "SENT" => mail'.live[j] = "SENT"
             /\ mail'.lock[j] \in {mail.lock[j], q, Free}
             /\ mail.lock[j] \notin {q, Free} =>
                  mail'.lock[j] = mail.lock[j] /\ mail'.next[j] = mail.next[j] /\ mail'.live[j] = mail.live[j]
  <2>1. CASE mail.lock[j] = q
    BY <1>3, <1>4, <2>1
  <2>2. CASE mail.lock[j] # q
    BY <1>3, <2>2
  <2> QED
    BY <2>1, <2>2
<1>6. JobsLeft(q)
  BY <1>5 DEF JobsLeft
<1> QED
  BY <1>1, <1>2, <1>5, <1>6, RequestRow

\* A cancel takes some of the jobs that wait, and holds none before that.
LEMMA RequestPutRow ==
  ASSUME RowKnown, Known', NEW q \in Requests, \A x \in Sessions : x # q => SameRecords(x),
         RequestsAside(q)', UNCHANGED <<rows, reverted>>, req[q].pc = "cancelling",
         NEW J \in SUBSET LiveMail(q), \A j \in J : ~Locked(mail, q, j),
         mail' = PutAll(mail, q, J, "CANCELLED")
  PROVE  RowInvariant'
<1>0. /\ mail \in Tables(MailJobs, MailStatus, Sessions) /\ q \in Sessions /\ Held
      /\ "CANCELLED" \in MailStatus
  BY Apart DEF RowKnown, Known, Held, Typed, TablesTyped, MailStatus
<1>1. /\ mail'.live = mail.live
      /\ \A j \in MailJobs : /\ mail'.next[j] = IF j \in J THEN "CANCELLED" ELSE mail.next[j]
                             /\ mail'.lock[j] = IF j \in J THEN q ELSE mail.lock[j]
  BY <1>0, PutAllRows
<1>2. ASSUME NEW j \in J
      PROVE  j \in MailJobs /\ mail.lock[j] = Free /\ mail.live[j] = "PENDING"
  <2>1. j \in MailJobs /\ View(mail, q, j) = "PENDING" /\ mail.lock[j] \in {q, Free}
    BY <1>2 DEF LiveMail, Locked
  <2>2. mail.lock[j] # q
    BY <1>0, <2>1, HeldFacts DEF RequestHoldsJob
  <2> QED
    BY <1>0, <2>1, <2>2, Apart DEF View
<1>3. JobsLeft(q)
  BY <1>1, <1>2 DEF JobsLeft
<1>4. ASSUME NEW j \in MailJobs PROVE mail'.next[j] = mail.next[j] \/ mail.live[j] # Absent
  BY <1>1, <1>2 DEF Absent
<1>5. Kept' = Kept /\ Kept \subseteq Recipients
  BY KeptFacts
<1> QED
  BY <1>1, <1>3, <1>4, <1>5, RequestRow

\* A resume writes a job that is there, and is nobody's.
LEMMA UpdateMailRow ==
  ASSUME RowKnown, Known', NEW q \in Requests, \A x \in Sessions : x # q => SameRecords(x),
         RequestsAside(q)', UpdateMail(q)
  PROVE  RowInvariant'
<1>0. /\ q \in Sessions /\ Held /\ Typed /\ TypeOK /\ ListedJobs(q) /\ RequestFits(q)
      /\ req[q].todo \subseteq MailJobs
  BY Apart, TypedIsTypeOK, RequestRecordFacts
     DEF RowKnown, Known, Held, MailHeld, Typed, SessionTypes, SessionsFit
<1>1. req[q].pc = "update" /\ UNCHANGED <<rows, reverted>>
  BY DEF UpdateMail, counted
<1>2. PICK j \in MailJobs : /\ j = req[q].cur /\ mail.live[j] # Absent /\ mail.lock[j] # q
                            /\ ~Locked(mail, q, j)
  BY <1>0, <1>1 DEF ListedJobs, UpdateMail
<1>3. PICK m \in MailStatus : mail' = Put(mail, q, j, m)
  <2>1. "PENDING" \in MailStatus /\ View(mail, q, j) \in MailStatus
    BY <1>0, TypeFacts DEF MailStatus
  <2> QED
    BY <1>2, <2>1 DEF UpdateMail
<1>4. mail.lock[j] = Free
  BY <1>2 DEF Locked
<1>5. HandsOff(q) /\ Kept' = Kept /\ mail'.live = mail.live
  BY <1>0, <1>1, <1>3, <1>4, PutHandsOff
<1>6. \A i \in MailJobs : mail'.next[i] = mail.next[i] \/ mail.live[i] # Absent
  <2>1. \A i \in MailJobs : i # j => mail'.next[i] = mail.next[i]
    BY <1>0, <1>3, PutFields
  <2> QED
    BY <1>2, <2>1
<1> QED
  BY <1>1, <1>5, <1>6, RequestRow DEF HandsOff

\* The requests.
LEMMA RequestRows ==
  ASSUME Campaigned, RowKnown, Known', NEW q \in Requests, RequestArrives(q) \/ RequestStep(q)
  PROVE  RowInvariant'
<1>0. /\ q \in Sessions /\ q \notin Runs /\ q \notin Tasks
      /\ req \in [Requests -> RequestRecords] /\ RequestsAside(q)
  BY Apart DEF RowKnown, Known, Held, Typed, SessionTypes, RowInvariant
\* None of them goes on to write a recipient.
<1>1. (\E op \in SequenceOps : ReadCampaign(q, op)) \/ RequestStep(q)
  <2>1. CASE RequestArrives(q)
    BY <2>1, NoRecipientRequests DEF RequestArrives
  <2> QED
    BY <2>1
<1>2. \/ \E op \in SequenceOps : ReadCampaign(q, op)
      \/ ListMail(q) \/ UpdateMail(q) \/ (\E j \in MailJobs : SelectMail(q, j)) \/ WriteCampaign(q) \/ SnapshotMail(q) \/ CancelMail(q)
      \/ CommitCampaign(q) \/ EnqueuePlan(q)
  BY <1>0, <1>1 DEF RequestStep, CommitRecipients, UpdateRecipient, RequestsAside
<1>3. /\ UNCHANGED <<edit, run, task>> /\ \A x \in Requests : x # q => req'[x] = req[x]
  BY <1>0, <1>2 DEF ReadCampaign, ListMail, SelectMail, UpdateMail, WriteCampaign, SnapshotMail, CancelMail, CommitCampaign,
     EnqueuePlan
<1>4. \A x \in Sessions : x # q => SameRecords(x)
  BY <1>3 DEF SameRecords
<1>5. RequestsAside(q)'
  <2>1. ASSUME NEW op \in SequenceOps, ReadCampaign(q, op) PROVE req'[q].pc # "write"
    <3>1. PICK rec : /\ req' = [req EXCEPT ![q] = rec]
                     /\ \/ \E x : rec = [Request("list") EXCEPT !.op = op, !.seen = x]
                        \/ \E x : rec = [Request("status") EXCEPT !.op = op, !.seen = x, !.target = TargetOf(op)]
                        \/ rec = Answered
      BY <2>1 DEF ReadCampaign
    <3>2. rec.pc \in {"list", "status", "done"}
      BY <3>1, AnsweredFacts DEF Request
    <3> QED
      BY <1>0, <3>1, <3>2
  <2>2. CASE ListMail(q)
    <3>1. PICK pc \in {"select", "status"} : req'[q].pc = pc
      BY <1>0, <2>2 DEF ListMail, RequestRecords
    <3> QED
      BY <3>1 DEF RequestsAside
  <2>7. CASE UpdateMail(q)
    <3>1. PICK pc \in {"select", "status"} : req'[q].pc = pc
      BY <1>0, <2>7 DEF UpdateMail, RequestRecords
    <3> QED
      BY <3>1 DEF RequestsAside
  <2>8. ASSUME NEW j \in MailJobs, SelectMail(q, j) PROVE req'[q].pc # "write"
    BY <1>0, <2>8 DEF SelectMail, RequestRecords
  <2>3. CASE WriteCampaign(q)
    BY <1>0, <2>3, AnsweredFacts DEF WriteCampaign, RequestRecords, RequestsAside
  <2>4. CASE SnapshotMail(q) \/ CancelMail(q)
    BY <1>0, <2>4 DEF SnapshotMail, CancelMail, RequestRecords, RequestsAside
  <2>5. CASE CommitCampaign(q)
    BY <1>0, <2>5 DEF CommitCampaign, RequestRecords, RequestsAside
  <2>6. CASE EnqueuePlan(q)
    BY <1>0, <2>6 DEF EnqueuePlan, Answered, Request, RequestsAside
  <2> QED
    BY <1>2, <2>1, <2>2, <2>3, <2>4, <2>5, <2>6, <2>7, <2>8 DEF RequestsAside
<1>6. ASSUME UNCHANGED <<rows, mail, reverted>> PROVE RowInvariant'
  <2>1. JobsLeft(q) /\ Kept' = Kept
    BY <1>6, KeptFacts DEF JobsLeft
  <2> QED
    BY <1>4, <1>5, <1>6, <2>1, RequestRow
<1>7. CASE CancelMail(q)
  <2>1. /\ UNCHANGED <<rows, reverted>> /\ req[q].pc = "cancelling"
        /\ mail' = PutAll(mail, q, req[q].plan \cap LiveMail(q), "CANCELLED")
        /\ \A j \in req[q].plan \cap LiveMail(q) : ~Locked(mail, q, j)
    BY <1>7 DEF CancelMail, counted
  <2>2. PICK J \in SUBSET LiveMail(q) : J = req[q].plan \cap LiveMail(q)
    OBVIOUS
  <2> QED
    BY <1>4, <1>5, <2>1, <2>2, RequestPutRow
<1>8. CASE UpdateMail(q)
  BY <1>4, <1>5, <1>8, UpdateMailRow
<1>9. CASE WriteCampaign(q)
  <2>1. UNCHANGED <<rows, mail, reverted>> \/ (Discarded({q}) /\ reverted' = reverted)
    BY <1>9 DEF WriteCampaign, counted
  <2> QED
    BY <1>4, <1>5, <1>6, <2>1, RequestEndRow
<1>10. CASE CommitCampaign(q)
  <2>1. CommitTables(q) /\ reverted' = reverted \cup Overwritten(q)
    BY <1>10 DEF CommitCampaign
  <2> QED
    BY <1>4, <1>5, <2>1, RequestEndRow
<1>11. CASE \/ \E op \in SequenceOps : ReadCampaign(q, op)
            \/ ListMail(q) \/ SnapshotMail(q) \/ EnqueuePlan(q)
            \/ \E j \in MailJobs : SelectMail(q, j)
  <2>1. UNCHANGED <<rows, mail, reverted>>
    BY <1>11 DEF ReadCampaign, ListMail, SelectMail, SnapshotMail, EnqueuePlan, tables, counted
  <2> QED
    BY <1>6, <2>1
<1> QED
  BY <1>2, <1>7, <1>8, <1>9, <1>10, <1>11

\* A write that fails: the session's rows and jobs are what they were before it.
LEMMA FailsRows ==
  ASSUME RowKnown, Known', NEW s \in Sessions, WriteFails(s)
  PROVE  RowInvariant'
<1>0. /\ edit \in [Sessions -> EditRecords] /\ run \in [Runs -> RunRecords]
      /\ task \in [Tasks -> TaskRecords] /\ req \in [Requests -> RequestRecords] /\ Held
      /\ rows \in Tables(Recipients, RecipientRow, Sessions)
      /\ mail \in Tables(MailJobs, MailStatus, Sessions) /\ s # Free
  BY Apart DEF WriteFails, Editing, RowKnown, Known, Held, Typed, TablesTyped, SessionTypes
<1>k. Kept' = Kept /\ Kept \subseteq Recipients /\ reverted' = reverted
  BY KeptFacts DEF WriteFails, counted
<1>1. /\ Discarded({s}) /\ rows' = Discard(rows, {s}) /\ mail' = Discard(mail, {s})
      /\ edit'[s] = NoEdit /\ (s \in Runs => run'[s] = IdleRun) /\ (s \in Tasks => task'[s] = IdleTask)
      /\ s \in Requests => req'[s] = Answered
  BY <1>0 DEF WriteFails, Discarded
<1>2. \A x \in Sessions : x # s => SameRecords(x)
  BY <1>0 DEF WriteFails, SameRecords
<1>3. rows'.live = rows.live /\ mail'.live = mail.live
  BY <1>0, <1>1, DiscardRow
<1>4. ASSUME NEW r \in Kept PROVE rows'.live[r].step >= rows.live[r].step
  <2>1. rows.live[r].step \in Nat
    BY <1>k, RowTypes, Jobs DEF RowKnown
  <2> QED
    BY <1>3, <2>1
<1>5. HandsOff(s)
  BY <1>k, <1>1, <1>2, <1>3, <1>4, EndHandsOff
<1>6. ASSUME NEW j \in MailJobs
      PROVE  mail'.lock[j] # s /\ mail'.next[j] \in {mail.next[j], mail.live[j]}
  BY <1>0, <1>1, DiscardRow
<1>7. \A r \in Kept : RowFits(r)'
  BY <1>k, <1>3, FitsKept
<1>8. ASSUME NEW r \in Kept, rows'.lock[r] \in {s, Free} PROVE RowHeld(r)'
  <2>1. RowHeld(r) /\ RowFits(r) /\ r \in Recipients
    BY <1>k DEF RowKnown, RowInvariant
  <2>2. rows'.lock[r] = Free /\ rows'.next[r] = rows'.live[r]
    <3>1. CASE rows.lock[r] = s
      BY <1>0, <1>1, <1>3, <2>1, <3>1, DiscardRow
    <3>2. CASE rows.lock[r] # s
      <4>1. rows'.lock[r] = rows.lock[r] /\ rows'.next[r] = rows.next[r]
        BY <1>0, <1>1, <2>1, <3>2, DiscardRow
      <4> QED
        BY <1>3, <1>8, <2>1, <3>2, <4>1 DEF RowHeld
    <3> QED
      BY <3>1, <3>2
  <2> QED
    BY <1>3, <2>1, <2>2, Apart DEF RowHeld, RowFits
<1>9. ASSUME NEW j \in MailJobs, j.to \in Kept PROVE OneCopy(j)'
  <2>1. OneCopy(j)
    BY <1>9 DEF RowKnown, RowInvariant
  <2> QED
    BY <1>3, <1>6, <2>1 DEF OneCopy
<1>10. OwnPart(s)'
  <2>1. s \in Runs => RunEdits(s)' /\ \A r \in Kept : ListedFits(s, r)'
    BY <1>1 DEF RunEdits, ListedFits, Editing, NoEdit, IdleRun
  <2>2. s \in Tasks => TaskEdits(s)' /\ TaskOwnsJob(s)'
    BY <1>1 DEF TaskEdits, TaskOwnsJob, Editing, NoEdit, IdleTask
  <2>3. s \in Requests => RequestsAside(s)'
    BY <1>1 DEF RequestsAside, Answered, Request
  <2> QED
    BY <1>k, <2>1, <2>2, <2>3 DEF OwnPart
<1> QED
  BY <1>k, <1>5, <1>6, <1>7, <1>8, <1>9, <1>10, RowStep

\* The worker dies: no session of its own is left to hold a recipient's row.
LEMMA CrashRows ==
  ASSUME RowKnown, Known', WorkerCrash
  PROVE  RowInvariant'
<1>0. /\ rows \in Tables(Recipients, RecipientRow, Sessions)
      /\ mail \in Tables(MailJobs, MailStatus, Sessions)
      /\ rows' = Discard(rows, Runs \cup Tasks) /\ mail' = Discard(mail, Runs \cup Tasks)
      /\ req' = req
  BY DEF WorkerCrash, Discarded, RowKnown, Known, Held, Typed, TablesTyped
<1>k. Kept' = Kept /\ Kept \subseteq Recipients
  BY KeptFacts DEF WorkerCrash
<1>1. rows'.live = rows.live /\ mail'.live = mail.live
  BY <1>0, DiscardRow
<1>2. /\ \A s \in Runs : run'[s] = IdleRun /\ edit'[s] = NoEdit
      /\ \A t \in Tasks : task'[t] = IdleTask /\ edit'[t] = NoEdit
  BY Apart DEF WorkerCrash
<1>3. ASSUME NEW r \in Kept PROVE RowFits(r)' /\ RowHeld(r)'
  <2>1. RowFits(r)' /\ RowHeld(r) /\ r \in Recipients
    BY <1>k, <1>1, FitsKept DEF RowKnown, RowInvariant
  <2>2. rows.lock[r] \in Runs \cup Tasks \cup {Free}
    BY <2>1, RowTypes, Apart DEF RowKnown, RowHeld
  <2>3. rows'.lock[r] = Free /\ rows'.next[r] = rows'.live[r]
    <3>1. CASE rows.lock[r] = Free
      <4>1. rows.lock[r] \notin Runs \cup Tasks
        BY <3>1, Apart
      <4> QED
        BY <1>0, <1>1, <2>1, <3>1, <4>1, DiscardRow DEF RowHeld
    <3>2. CASE rows.lock[r] \in Runs \cup Tasks
      BY <1>0, <1>1, <2>1, <3>2, DiscardRow
    <3> QED
      BY <2>2, <3>1, <3>2
  <2> QED
    BY <2>1, <2>3, Apart DEF RowHeld, RowFits
<1>4. ASSUME NEW j \in MailJobs, j.to \in Kept PROVE OneCopy(j)'
  <2>1. OneCopy(j) /\ mail'.next[j] \in {mail.next[j], mail.live[j]}
    BY <1>0, <1>4, DiscardRow DEF RowKnown, RowInvariant
  <2> QED
    BY <1>1, <2>1 DEF OneCopy
<1>5. ASSUME NEW j \in MailJobs PROVE NewJobHeld(j)'
  <2>1. mail'.lock[j] \notin Runs
    BY <1>0, DiscardRow, Apart
  <2> QED
    BY <2>1 DEF NewJobHeld
<1>6. ASSUME NEW s \in Runs PROVE RunEdits(s)' /\ \A r \in Kept : ListedFits(s, r)'
  BY <1>2 DEF RunEdits, ListedFits, Editing, NoEdit, IdleRun
<1>7. ASSUME NEW t \in Tasks PROVE TaskEdits(t)' /\ TaskOwnsJob(t)'
  BY <1>2 DEF TaskEdits, TaskOwnsJob, Editing, NoEdit, IdleTask
<1>8. \A q \in Requests : RequestsAside(q)'
  BY <1>0 DEF RequestsAside, RowKnown, RowInvariant
<1> QED
  BY <1>k, <1>3, <1>4, <1>5, <1>6, <1>7, <1>8 DEF RowInvariant

\* What reads no table and no record of a session keeps it.
LEMMA QuietRows ==
  ASSUME RowKnown, UNCHANGED <<rows, mail, edit, run, task, req, reverted>>
  PROVE  RowInvariant'
<1>k. Kept' = Kept
  BY KeptFacts
<1>1. \A r \in Kept : RowFits(r)' /\ RowHeld(r)'
  BY DEF RowKnown, RowInvariant, RowFits, RowHeld, RunHoldsRow, TaskHoldsRow
<1>2. \A j \in MailJobs : j.to \in Kept => OneCopy(j)' /\ NewJobHeld(j)'
  BY DEF RowKnown, RowInvariant, OneCopy, NewJobHeld
<1>3. \A s \in Runs : RunEdits(s)' /\ \A r \in Kept : ListedFits(s, r)'
  BY <1>k DEF RowKnown, RowInvariant, RunEdits, ListedFits, Editing
<1>4. \A t \in Tasks : TaskEdits(t)' /\ TaskOwnsJob(t)'
  BY <1>k DEF RowKnown, RowInvariant, TaskEdits, TaskOwnsJob, Editing
<1>5. \A q \in Requests : RequestsAside(q)'
  BY DEF RowKnown, RowInvariant, RequestsAside
<1> QED
  BY <1>k, <1>1, <1>2, <1>3, <1>4, <1>5 DEF RowInvariant

\* Every step of the campaign keeps the rows and the jobs in agreement.
LEMMA StepRows == Campaigned /\ RowKnown /\ [Next]_vars => RowKnown'
<1> SUFFICES ASSUME Campaigned, RowKnown, [Next]_vars PROVE RowInvariant'
  BY StepKnown DEF RowKnown
<1>0. Known' /\ Known
  BY StepKnown DEF RowKnown
<1>1. ASSUME NEW s \in Runs, RunStep(s) PROVE RowInvariant'
  <2>1. ASSUME NEW r \in Recipients, Advance(s, r) PROVE RowInvariant'
    BY <1>0, <2>1, AdvanceRows, AdvanceOther
  <2>2. CASE CommitRun(s)
    BY <1>0, <2>2, CommitRunRows
  <2> QED
    BY <1>0, <1>1, <2>1, <2>2, LookingRows DEF RunStep, SchedulerStep
<1>2. ASSUME NEW t \in Tasks, TaskStep(t) PROVE RowInvariant'
  BY <1>0, <1>2, TaskLookingRows, DeliverRows, CommitTaskRows DEF TaskStep
<1>3. ASSUME NEW s \in Sessions, EditStep(s) \/ WriteFails(s) PROVE RowInvariant'
  BY <1>0, <1>3, SelectRows, WriteRows, FailsRows DEF EditStep
<1>4. ASSUME NEW r \in Recipients, NEW n \in Steps, WaitOver(r, n) PROVE RowInvariant'
  BY <1>4, QuietRows DEF WaitOver, tables, actors, counted
<1>5. CASE UNCHANGED vars
  <2>1. UNCHANGED <<rows, mail, edit, run, task, req, reverted>>
    BY <1>5 DEF vars, tables, actors, counted
  <2> QED
    BY <2>1, QuietRows
<1>6. ASSUME NEW q \in Requests, RequestArrives(q) \/ RequestStep(q) PROVE RowInvariant'
  BY <1>0, <1>6, RequestRows
<1>7. CASE WorkerCrash
  BY <1>0, <1>7, CrashRows
<1>8. CASE Next
  BY <1>1, <1>2, <1>3, <1>4, <1>6, <1>7, <1>8 DEF Next
<1> QED
  BY <1>5, <1>8

\* It holds of the campaign as it is created.
LEMMA InitRows == Init => RowKnown
<1> SUFFICES ASSUME Init PROVE RowInvariant
  BY InitKnown DEF RowKnown
<1>0. 0 \in Steps /\ LastStep \in Nat /\ \A n \in Steps : n \in Nat
  BY StepsAssumption, Jobs DEF Steps
<1>1. /\ \A r \in Recipients : rows.live[r] = FirstRow /\ rows.next[r] = FirstRow /\ rows.lock[r] = Free
      /\ \A j \in MailJobs : /\ mail.live[j] = IF j \in FirstJobs THEN "PENDING" ELSE Absent
                             /\ mail.next[j] = mail.live[j] /\ mail.lock[j] = Free
      /\ \A s \in Sessions : edit[s] = NoEdit
      /\ \A s \in Runs : run[s] = IdleRun
      /\ \A t \in Tasks : task[t] = IdleTask
      /\ \A q \in Requests : req[q] = Request("new")
  BY DEF Init, Committed
<1>2. /\ FirstRow.step = 0 /\ Untouched(FirstRow) /\ ~FirstRow.completed
      /\ FirstRow.statuses[0] # "SENT"
  BY <1>0 DEF FirstRow, Untouched
<1>3. ASSUME NEW r \in Recipients PROVE RowFits(r)
  <2>1. ASSUME NEW n \in Steps PROVE Job(r, n) \in FirstJobs <=> n = 0
    BY JobFacts DEF FirstJobs
  <2>2. ASSUME NEW n \in Steps
        PROVE  ~(n < 0) /\ (n > 0 => mail.live[Job(r, n)] = Absent)
    BY <1>0, <1>1, <2>1, JobFacts
  <2>3. mail.live[Job(r, 0)] # Absent
    BY <1>0, <1>1, <2>1, JobFacts DEF Absent
  <2> QED
    BY <1>1, <1>2, <2>2, <2>3 DEF RowFits
<1>4. ASSUME NEW r \in Recipients PROVE RowHeld(r)
  BY <1>1, <1>2, Apart DEF RowHeld
<1>5. ASSUME NEW j \in MailJobs PROVE OneCopy(j) /\ NewJobHeld(j)
  BY <1>1, Apart DEF OneCopy, NewJobHeld, FirstJobs
<1>6. ASSUME NEW s \in Runs PROVE RunEdits(s) /\ \A r \in Recipients : ListedFits(s, r)
  BY <1>1, Apart DEF RunEdits, ListedFits, Editing, NoEdit, IdleRun
<1>7. ASSUME NEW t \in Tasks PROVE TaskEdits(t) /\ TaskOwnsJob(t)
  BY <1>1, Apart DEF TaskEdits, TaskOwnsJob, Editing, NoEdit, IdleTask
<1>8. \A q \in Requests : RequestsAside(q)
  BY <1>1 DEF RequestsAside, Request
<1>k. Kept \subseteq Recipients
  BY KeptFacts
<1> QED
  BY <1>k, <1>3, <1>4, <1>5, <1>6, <1>7, <1>8 DEF RowInvariant

\* While nobody pauses, resumes or stops recipients, the row and the jobs of everybody
\* no mail of whom a resume of the campaign has written back agree: a job waits only for
\* the current step, every earlier one was sent.
THEOREM RowFollowsJobsHolds == Campaigned => (Spec => []RowFollowsJobs)
<1> SUFFICES ASSUME Campaigned PROVE Spec => []RowFollowsJobs
  OBVIOUS
<1>1. RowKnown /\ [Next]_vars => RowKnown'
  BY StepRows
<1>2. RowKnown => RowFollowsJobs
  <2> SUFFICES ASSUME RowKnown, NEW r \in Kept, NEW j \in MailJobs, j.to = r,
                      mail.live[j] # Absent
               PROVE  /\ j.step <= rows.live[r].step
                      /\ j.step < rows.live[r].step => mail.live[j] = "SENT"
    BY DEF RowFollowsJobs, Kept
  <2>1. RowFits(r) /\ OneCopy(j) /\ rows.live[r].step \in Nat /\ j.step \in Steps /\ j.step \in Nat
    BY RowTypes, Jobs, KeptFacts DEF RowKnown, RowInvariant
  <2>2. j = Job(r, j.step)
    BY <2>1, JobFacts DEF OneCopy
  <2> QED
    BY <2>1, <2>2 DEF RowFits
<1>3. Spec => []RowKnown
  BY <1>1, InitRows, PTL DEF Spec
<1> QED
  BY <1>2, <1>3, PTL
-----------------------------------------------------------------------------
(***************************************************************************)
(* Who completes the campaign has seen every recipient done, and a         *)
(* recipient who is done stays so, until a mail of theirs is written back. *)
(***************************************************************************)
CompletionKnown == RowKnown /\ CompletionInvariant

\* What the session that has written the campaign's status knows.
OwnStatus(s) ==
  /\ s \in Runs => run[s].pc = "commit" /\ AllDone(s)
  /\ s \in Tasks => camp.next[Campaign] # "COMPLETED"
  /\ s \in Requests => /\ req[s].pc \in {"snapshot", "cancelling", "commit"}
                       /\ camp.next[Campaign] = "COMPLETED" => ResumeCompletes(s)

\* Who accounts for a completed campaign.
Completers ==
  \/ \A r \in Kept : rows.live[r].completed
  \/ \E q \in Requests : ResumeCompletes(q) /\ req[q].pc \in {"enqueue", "done"}

\* Nobody is kept again.
LEMMA KeptStep == [Next]_vars => Kept' \subseteq Kept /\ Kept \subseteq Recipients
<1> SUFFICES ASSUME [Next]_vars PROVE reverted \subseteq reverted'
  BY DEF Kept, Rewritten
<1>1. ASSUME NEW s \in Runs, RunStep(s) PROVE reverted' = reverted
  BY <1>1 DEF RunStep, SchedulerStep, StartRun, CountActive, CompleteSequence, PassOver, FinishRecipient,
     Advance, SweepCountsLive, SweepCompletes, CommitRun, counted
<1>2. ASSUME NEW t \in Tasks, TaskStep(t) PROVE reverted' = reverted
  BY <1>2 DEF TaskStep, TakeCall, ClaimFails, Deliver, ReadState, CommitTask, counted
<1>3. ASSUME NEW q \in Requests, RequestArrives(q) PROVE reverted' = reverted
  BY <1>3 DEF RequestArrives, set_paused_all, set_replied, Apply, ReadRecipients, ReadCampaign, counted
<1>4. ASSUME NEW q \in Requests, RequestStep(q) PROVE reverted \subseteq reverted'
  BY <1>4 DEF RequestStep, CommitRecipients, UpdateRecipient, ListMail, SelectMail, UpdateMail,
     WriteCampaign, SnapshotMail, CancelMail, CommitCampaign, EnqueuePlan, counted
<1>5. ASSUME NEW s \in Sessions, EditStep(s) \/ WriteFails(s) PROVE reverted' = reverted
  BY <1>5 DEF EditStep, SelectRow, WriteRow, WriteFails, counted
<1>6. ASSUME NEW r \in Recipients, NEW n \in Steps, WaitOver(r, n) PROVE reverted' = reverted
  BY <1>6 DEF WaitOver, counted
<1>7. CASE WorkerCrash
  BY <1>7 DEF WorkerCrash
<1>8. CASE UNCHANGED vars
  BY <1>8 DEF vars, counted
<1> QED
  BY <1>1, <1>2, <1>3, <1>4, <1>5, <1>6, <1>7, <1>8 DEF Next

\* The parts of the invariant.
LEMMA CompletionFacts ==
  ASSUME CompletionKnown
  PROVE  /\ \A q \in Requests : req[q].target = "COMPLETED" => req[q].op = "resume_campaign"
         /\ \A s \in Schedulers : run[s].pc = "complete" => AllDone(s)
         /\ \A s \in Sessions : camp.lock[Campaign] = s => OwnStatus(s)
         /\ camp.live[Campaign] = "COMPLETED" => Completers
  BY DEF CompletionKnown, CompletionInvariant, OwnStatus, Completers

\* Nobody is active only if everybody is done: no recipient is paused or replied.
LEMMA NobodyActive ==
  ASSUME RowKnown, NEW s, ActiveFor(s) = {}
  PROVE  AllDone(s)
<1> SUFFICES ASSUME NEW r \in Kept PROVE View(rows, s, r).completed
  BY DEF AllDone
<1>1. ~IsActive(View(rows, s, r))
  BY KeptFacts DEF ActiveFor
<1>2. Untouched(View(rows, s, r))
  BY DEF View, RowKnown, RowInvariant, RowFits, RowHeld
<1> QED
  BY <1>1, <1>2 DEF IsActive, Untouched

\* What the steps of others do to the rows leaves the recipients done that session
\* x has seen done, those that are kept.
LEMMA DoneKept ==
  ASSUME RowKnown, Kept' \subseteq Kept, NEW x,
         \/ UNCHANGED rows
         \/ \E s \in Sessions, r \in Recipients, row \in RecipientRow :
              s # x /\ (r \in Kept => rows.lock[r] = Free) /\ rows' = Put(rows, s, r, row)
         \/ \E s \in Sessions : s # x /\ rows' = Publish(rows, s)
         \/ \E E \in SUBSET Sessions : x \notin E /\ rows' = Discard(rows, E)
  PROVE  /\ \A r \in Kept : rows.live[r].completed => rows'.live[r].completed
         /\ x # Free /\ AllDone(x) => AllDone(x)'
<1>0. rows \in Tables(Recipients, RecipientRow, Sessions)
  BY DEF RowKnown, Known, Held, Typed, TablesTyped
<1>k. Kept \subseteq Recipients
  BY KeptFacts
<1> SUFFICES ASSUME NEW r \in Kept
             PROVE  /\ rows.live[r].completed => rows'.live[r].completed
                    /\ x # Free /\ View(rows, x, r).completed => View(rows', x, r).completed
  BY DEF AllDone
<1>1. CASE UNCHANGED rows
  BY <1>1
<1>2. ASSUME NEW s \in Sessions, NEW k \in Recipients, NEW row \in RecipientRow, s # x,
             k \in Kept => rows.lock[k] = Free, rows' = Put(rows, s, k, row)
      PROVE  /\ rows.live[r].completed => rows'.live[r].completed
             /\ x # Free /\ View(rows, x, r).completed => View(rows', x, r).completed
  <2>1. /\ rows'.live = rows.live /\ rows'.next = [rows.next EXCEPT ![k] = row]
        /\ rows'.lock = [rows.lock EXCEPT ![k] = s]
    BY <1>0, <1>2, PutRow
  <2> QED
    BY <1>0, <1>k, <1>2, <2>1 DEF Tables, View
<1>3. ASSUME NEW s \in Sessions, s # x, rows' = Publish(rows, s)
      PROVE  /\ rows.live[r].completed => rows'.live[r].completed
             /\ x # Free /\ View(rows, x, r).completed => View(rows', x, r).completed
  <2>1. /\ rows'.live[r] = IF rows.lock[r] = s THEN rows.next[r] ELSE rows.live[r]
        /\ rows'.lock[r] = IF rows.lock[r] = s THEN Free ELSE rows.lock[r]
        /\ rows'.next = rows.next
    BY <1>0, <1>k, <1>3, PublishRow
  <2>2. rows.live[r].completed => rows.next[r].completed
    BY DEF RowKnown, RowInvariant, RowHeld
  <2> QED
    BY <1>3, <2>1, <2>2 DEF View
<1>4. ASSUME NEW E \in SUBSET Sessions, x \notin E, rows' = Discard(rows, E)
      PROVE  /\ rows.live[r].completed => rows'.live[r].completed
             /\ x # Free /\ View(rows, x, r).completed => View(rows', x, r).completed
  <2>1. /\ rows'.live = rows.live
        /\ rows'.next[r] = IF rows.lock[r] \in E THEN rows.live[r] ELSE rows.next[r]
        /\ rows'.lock[r] = IF rows.lock[r] \in E THEN Free ELSE rows.lock[r]
    BY <1>0, <1>k, <1>4, DiscardRow
  <2> QED
    BY <1>4, <2>1 DEF View
<1> QED
  BY <1>1, <1>2, <1>3, <1>4

\* A step of session s: what is left to show is what it does to the campaign's
\* status and to its own record.
LEMMA CompletionStep ==
  ASSUME CompletionKnown, NEW s \in Sessions, \A x \in Sessions : x # s => SameRecords(x),
         Kept' \subseteq Kept,
         \A x \in Runs : x # s /\ AllDone(x) => AllDone(x)',
         \A r \in Kept : rows.live[r].completed => rows'.live[r].completed,
         s \in Schedulers /\ run'[s].pc = "complete" => AllDone(s)',
         \/ camp'.lock[Campaign] = camp.lock[Campaign] /\ camp'.next[Campaign] = camp.next[Campaign]
         \/ camp'.lock[Campaign] \in {s, Free},
         camp'.lock[Campaign] = s => OwnStatus(s)',
         camp'.live[Campaign] = "COMPLETED" => camp.live[Campaign] = "COMPLETED" \/ Completers',
         s \in Requests =>
           /\ ResumeCompletes(s) /\ req[s].pc \in {"enqueue", "done"} =>
                ResumeCompletes(s)' /\ req'[s].pc \in {"enqueue", "done"}
           /\ req'[s].target = "COMPLETED" => req'[s].op = "resume_campaign"
  PROVE  CompletionInvariant'
<1>1. ASSUME NEW q \in Requests PROVE req'[q].target = "COMPLETED" => req'[q].op = "resume_campaign"
  BY CompletionFacts, Apart DEF SameRecords
<1>2. ASSUME NEW x \in Schedulers, run'[x].pc = "complete" PROVE AllDone(x)'
  BY <1>2, CompletionFacts, Apart DEF SameRecords
<1>3. ASSUME NEW x \in Sessions, camp'.lock[Campaign] = x PROVE OwnStatus(x)'
  <2>1. CASE x = s
    BY <1>3, <2>1
  <2>2. CASE x # s
    <3>1. /\ camp.lock[Campaign] = x /\ camp'.next[Campaign] = camp.next[Campaign] /\ OwnStatus(x)
          /\ SameRecords(x)
      BY <1>3, <2>2, CompletionFacts, Apart
    <3> QED
      BY <2>2, <3>1 DEF OwnStatus, SameRecords, ResumeCompletes
  <2> QED
    BY <2>1, <2>2
<1>4. camp'.live[Campaign] = "COMPLETED" => Completers'
  <2> SUFFICES ASSUME camp.live[Campaign] = "COMPLETED" PROVE Completers'
    OBVIOUS
  <2>1. Completers
    BY CompletionFacts
  <2>2. ASSUME NEW q \in Requests, ResumeCompletes(q), req[q].pc \in {"enqueue", "done"}
        PROVE  Completers'
    <3>1. ResumeCompletes(q)' /\ req'[q].pc \in {"enqueue", "done"}
      BY <2>2, Apart DEF SameRecords, ResumeCompletes
    <3> QED
      BY <3>1 DEF Completers
  <2>3. (\A r \in Kept : rows.live[r].completed) => Completers'
    BY DEF Completers
  <2> QED
    BY <2>1, <2>2, <2>3 DEF Completers
<1> QED
  BY <1>1, <1>2, <1>3, <1>4, Apart DEF CompletionInvariant, OwnStatus, Completers

\* When session s ends, by a commit or without one.
LEMMA CompletionEnd ==
  ASSUME CompletionKnown, NEW s \in Sessions, \A x \in Sessions : x # s => SameRecords(x),
         CommitTables(s) \/ Discarded({s}), Kept' \subseteq Kept,
         s \in Schedulers => run'[s].pc # "complete",
         camp.lock[Campaign] = s /\ camp'.live[Campaign] = "COMPLETED" =>
           camp.live[Campaign] = "COMPLETED" \/ Completers',
         s \in Requests =>
           /\ ResumeCompletes(s) /\ req[s].pc \in {"enqueue", "done"} =>
                ResumeCompletes(s)' /\ req'[s].pc \in {"enqueue", "done"}
           /\ req'[s].target = "COMPLETED" => req'[s].op = "resume_campaign"
  PROVE  CompletionInvariant'
<1>0. /\ {s} \in SUBSET Sessions /\ s # Free /\ Known
      /\ camp \in Tables({Campaign}, CampaignStatus, Sessions)
  BY Apart DEF CompletionKnown, RowKnown, Known, Held, Typed, TablesTyped
<1>1. /\ camp.lock[Campaign] # s =>
           /\ camp'.lock[Campaign] = camp.lock[Campaign]
           /\ camp'.next[Campaign] = camp.next[Campaign] /\ camp'.live[Campaign] = camp.live[Campaign]
      /\ camp.lock[Campaign] = s => camp'.lock[Campaign] = Free
  BY <1>0, EndFacts
<1>2. rows' = Publish(rows, s) \/ rows' = Discard(rows, {s})
  BY DEF CommitTables, Discarded
<1>3. ASSUME NEW x \in Sessions, x # s, AllDone(x) PROVE AllDone(x)'
  BY <1>0, <1>2, <1>3, DoneKept, Apart DEF CompletionKnown
<1>4. ASSUME NEW r \in Kept, rows.live[r].completed PROVE rows'.live[r].completed
  <2>1. PICK x : x \notin Sessions /\ x # s
    BY Apart
  <2> QED
    BY <1>0, <1>2, <1>4, <2>1, DoneKept DEF CompletionKnown
<1>5. camp'.live[Campaign] = "COMPLETED" => camp.live[Campaign] = "COMPLETED" \/ Completers'
  BY <1>1
<1>6. camp'.lock[Campaign] # s
  BY <1>0, <1>1
<1>7. \/ camp'.lock[Campaign] = camp.lock[Campaign] /\ camp'.next[Campaign] = camp.next[Campaign]
      \/ camp'.lock[Campaign] \in {s, Free}
  BY <1>1
<1>8. \A x \in Runs : x # s /\ AllDone(x) => AllDone(x)'
  BY <1>3, Apart
<1> QED
  BY <1>4, <1>5, <1>6, <1>7, <1>8, CompletionStep

\* A run counts, and completes the campaign in the row.
LEMMA RunCompletion ==
  ASSUME CompletionKnown, NEW s \in Runs, RunStep(s), Kept' \subseteq Kept
  PROVE  CompletionInvariant'
<1>0. /\ s \in Sessions /\ s \notin Tasks /\ s \notin Requests /\ s # Free
      /\ run \in [Runs -> RunRecords] /\ RowKnown /\ Typed /\ edit \in [Sessions -> EditRecords]
      /\ (camp.lock[Campaign] = s => OwnStatus(s)) /\ (s \in Schedulers => (run[s].pc = "complete" => AllDone(s)))
  BY Apart, CompletionFacts DEF CompletionKnown, RowKnown, Known, Held, Typed, SessionTypes
<1>1. \A x \in Sessions : x # s => SameRecords(x)
  BY <1>0 DEF RunStep, SchedulerStep, StartRun, CountActive, CompleteSequence, PassOver, FinishRecipient,
     Advance, SweepCountsLive, SweepCompletes, CommitRun, Visited, Edit, SameRecords
\* A step that leaves the campaign alone.
<1>2. ASSUME run[s].pc # "commit", UNCHANGED camp,
             \/ UNCHANGED rows
             \/ \E r \in Recipients, row \in RecipientRow :
                  (r \in Kept => rows.lock[r] = Free) /\ rows' = Put(rows, s, r, row),
             s \in Schedulers /\ run'[s].pc = "complete" => AllDone(s)'
      PROVE  CompletionInvariant'
  <2>1. ASSUME NEW x \in Sessions, x # s, AllDone(x) PROVE AllDone(x)'
    BY <1>0, <1>2, <2>1, DoneKept, Apart
  <2>2. ASSUME NEW r \in Kept, rows.live[r].completed PROVE rows'.live[r].completed
    <3>1. PICK x : x \notin Sessions /\ x # s
      BY <1>0, Apart
    <3> QED
      BY <1>0, <1>2, <2>2, <3>1, DoneKept
  <2>3. camp.lock[Campaign] # s
    BY <1>0, <1>2 DEF OwnStatus
  <2>4. \A x \in Runs : x # s /\ AllDone(x) => AllDone(x)'
    BY <2>1, Apart
  <2> QED
    BY <1>0, <1>1, <1>2, <2>2, <2>3, <2>4, CompletionStep
\* A step that completes it.
<1>3. ASSUME run[s].pc = "complete", run'[s].pc = "commit", UNCHANGED rows,
             \/ UNCHANGED camp
             \/ AllDone(s) /\ \E x : update_status_if(s, x, "COMPLETED")
      PROVE  CompletionInvariant'
  <2>1. AllDone(s) => AllDone(s)'
    BY <1>3 DEF AllDone
  <2>2. /\ camp'.live = camp.live
        /\ \/ camp'.lock[Campaign] = camp.lock[Campaign] /\ camp'.next[Campaign] = camp.next[Campaign]
           \/ camp'.lock[Campaign] = s /\ AllDone(s)'
    BY <1>0, <1>3, <2>1, StatusRow DEF CampaignStatus
  <2>3. camp.lock[Campaign] # s
    BY <1>0, <1>3 DEF OwnStatus
  <2>4. camp'.lock[Campaign] = s => OwnStatus(s)'
    BY <1>0, <1>3, <2>2, <2>3 DEF OwnStatus
  <2>5. /\ \A x \in Runs : x # s /\ AllDone(x) => AllDone(x)'
        /\ \A r \in Kept : rows.live[r].completed => rows'.live[r].completed
    BY <1>3 DEF AllDone
  <2> QED
    BY <1>0, <1>1, <1>3, <2>2, <2>4, <2>5, CompletionStep
<1>4. CASE StartRun(s) /\ s \in Schedulers
  <2>1. PICK rec : /\ run' = [run EXCEPT ![s] = rec]
                   /\ rec = [pc |-> "visit", listed |-> [r \in ActiveFor(s) |-> View(rows, s, r)],
                             seen |-> View(camp, s, Campaign)]
    BY <1>4 DEF StartRun
  <2>2. run'[s].pc = "visit"
    BY <1>0, <2>1
  <2> QED
    BY <1>2, <1>4, <2>2 DEF StartRun, tables
<1>5. CASE CountActive(s)
  <2>1. /\ run[s].pc = "visit" /\ UNCHANGED <<rows, camp>>
        /\ run'[s].pc = IF ActiveFor(s) = {} THEN "complete" ELSE "commit"
    BY <1>0, <1>5 DEF CountActive, tables, RunRecords
  <2>2. run'[s].pc = "complete" => AllDone(s)
    BY <1>0, <2>1, NobodyActive
  <2>3. AllDone(s) => AllDone(s)'
    BY <2>1 DEF AllDone
  <2> QED
    BY <1>2, <2>1, <2>2, <2>3
<1>6. CASE CompleteSequence(s)
  <2>1. run[s].pc = "complete" /\ run'[s].pc = "commit" /\ UNCHANGED rows /\ s \in Schedulers
    BY <1>0, <1>6 DEF CompleteSequence, RunRecords
  <2>2. UNCHANGED camp \/ \E x : update_status_if(s, x, "COMPLETED")
    BY <1>6 DEF CompleteSequence
  <2> QED
    BY <1>0, <1>3, <2>1, <2>2
<1>7. CASE SweepCountsLive(s)
  <2>1. run[s].pc = "idle" /\ UNCHANGED <<rows, camp>> /\ s \notin Schedulers
    BY <1>7, Apart DEF SweepCountsLive, tables
  <2> QED
    BY <1>2, <2>1
<1>8. CASE SweepCompletes(s)
  <2>1. run[s].pc = "complete" /\ run'[s].pc = "commit" /\ UNCHANGED rows
    BY <1>0, <1>8 DEF SweepCompletes, RunRecords
  <2>2. UNCHANGED camp \/ (ActiveFor(s) = {} /\ \E x : update_status_if(s, x, "COMPLETED"))
    BY <1>8 DEF SweepCompletes
  <2> QED
    BY <1>0, <1>3, <2>1, <2>2, NobodyActive
<1>9. ASSUME NEW r \in Recipients, PassOver(s, r) \/ FinishRecipient(s, r) \/ Advance(s, r)
      PROVE  CompletionInvariant'
  <2>1. Visiting(s, r) /\ Visited(s, r) /\ UNCHANGED camp
    BY <1>9 DEF PassOver, FinishRecipient, Advance, tables
  <2>2. run[s].pc = "visit" /\ run'[s].pc = "visit"
    BY <1>0, <2>1 DEF Visiting, Visited, RunRecords
  <2>3. \/ UNCHANGED rows
        \/ \E row \in RecipientRow : (r \in Kept => rows.lock[r] = Free) /\ rows' = Put(rows, s, r, row)
    <3>1. CASE PassOver(s, r) \/ FinishRecipient(s, r)
      BY <3>1 DEF PassOver, FinishRecipient, tables
    <3>2. CASE Advance(s, r)
      <4>1. PICK e \in RecipientRow : e = run[s].listed[r] /\ e = Listed(s, r)
        BY <1>0, <2>1, VisitFacts DEF Listed
      <4>2. PICK n \in Steps : n = e.step /\ n \in Nat
        BY RowFacts, Jobs
      <4>3. /\ n < LastStep /\ ~Locked(rows, s, r)
            /\ rows' = Put(rows, s, r, [e EXCEPT !.step = n + 1, !.statuses[n + 1] = "SCHEDULED"])
        BY <3>2, <4>1, <4>2 DEF Advance
      <4>4. n + 1 \in Steps
        BY <4>2, <4>3, Jobs
      <4>5. PICK row \in RecipientRow : row = [e EXCEPT !.step = n + 1, !.statuses[n + 1] = "SCHEDULED"]
        BY <4>4, RowFacts DEF StepStatus
      <4>6. r \in Kept => rows.lock[r] = Free
        <5>1. r \in Kept => ListedFits(s, r) /\ r \in DOMAIN run[s].listed
          BY <1>0, <2>1 DEF Visiting, RowKnown, RowInvariant
        <5> QED
          BY <4>3, <5>1 DEF ListedFits, Locked
      <4> QED
        BY <4>3, <4>5, <4>6
    <3> QED
      BY <1>9, <3>1, <3>2
  <2> QED
    BY <1>2, <2>1, <2>2, <2>3
<1>10. CASE CommitRun(s)
  <2>1. run[s].pc = "commit" /\ run'[s] = IdleRun /\ CommitTables(s)
    BY <1>0, <1>10 DEF CommitRun
  <2>2. ASSUME camp.lock[Campaign] = s PROVE Completers'
    <3>1. ASSUME NEW r \in Kept PROVE rows'.live[r].completed
      <4>1. rows \in Tables(Recipients, RecipientRow, Sessions) /\ rows' = Publish(rows, s)
        BY <1>0, <2>1 DEF CommitTables, Typed, TablesTyped
      <4>2. View(rows, s, r).completed
        BY <1>0, <2>2 DEF OwnStatus, AllDone
      <4> QED
        BY <4>1, <4>2, PublishRow, KeptFacts DEF View
    <3> QED
      BY <3>1 DEF Completers
  <2>3. run'[s].pc # "complete"
    BY <2>1 DEF IdleRun
  <2> QED
    BY <1>0, <1>1, <2>1, <2>2, <2>3, CompletionEnd
<1> QED
  BY <1>4, <1>5, <1>6, <1>7, <1>8, <1>9, <1>10 DEF RunStep, SchedulerStep

\* A task writes SENDING at most.
LEMMA TaskCompletion ==
  ASSUME CompletionKnown, NEW t \in Tasks, TaskStep(t), Kept' \subseteq Kept
  PROVE  CompletionInvariant'
<1>0. /\ t \in Sessions /\ t \notin Runs /\ t \notin Requests /\ t # Free
      /\ task \in [Tasks -> TaskRecords] /\ RowKnown /\ Typed /\ edit \in [Sessions -> EditRecords]
      /\ (camp.lock[Campaign] = t => OwnStatus(t)) /\ t \notin Schedulers
  BY Apart, CompletionFacts DEF CompletionKnown, RowKnown, Known, Held, Typed, SessionTypes
<1>1. \A x \in Sessions : x # t => SameRecords(x)
  BY <1>0 DEF TaskStep, TakeCall, ClaimFails, Deliver, ReadState, CommitTask, Edit, SameRecords
<1>2. ASSUME UNCHANGED rows,
             UNCHANGED camp \/ update_status_if(t, "SCHEDULED", "SENDING")
      PROVE  CompletionInvariant'
  <2>1. /\ camp'.live = camp.live
        /\ \/ camp'.lock[Campaign] = camp.lock[Campaign] /\ camp'.next[Campaign] = camp.next[Campaign]
           \/ camp'.lock[Campaign] = t /\ camp'.next[Campaign] = "SENDING"
    BY <1>0, <1>2, StatusRow DEF CampaignStatus
  <2>2. camp'.lock[Campaign] = t => OwnStatus(t)'
    BY <1>0, <2>1 DEF OwnStatus
  <2>3. /\ \A x \in Runs : x # t /\ AllDone(x) => AllDone(x)'
        /\ \A r \in Kept : rows.live[r].completed => rows'.live[r].completed
    BY <1>2 DEF AllDone
  <2> QED
    BY <1>0, <1>1, <2>1, <2>2, <2>3, CompletionStep
<1>3. CASE CommitTask(t)
  <2>1. camp.lock[Campaign] = t /\ camp'.live[Campaign] = "COMPLETED" => camp.live[Campaign] = "COMPLETED"
    <3>1. {t} \in SUBSET Sessions /\ CommitTables(t) /\ Known
      BY <1>0, <1>3 DEF CommitTask, RowKnown
    <3> QED
      BY <1>0, <3>1, EndFacts DEF OwnStatus
  <2> QED
    BY <1>0, <1>1, <1>3, <2>1, CompletionEnd DEF CommitTask
<1>4. ASSUME NEW o \in Outcomes, Deliver(t, o) PROVE CompletionInvariant'
  BY <1>2, <1>4 DEF Deliver
<1>5. ASSUME NEW j \in MailJobs, TakeCall(t, j) PROVE CompletionInvariant'
  BY <1>2, <1>5 DEF TakeCall, tables
<1>6. CASE ClaimFails(t) \/ ReadState(t)
  BY <1>2, <1>6 DEF ClaimFails, ReadState, tables
<1> QED
  BY <1>3, <1>4, <1>5, <1>6 DEF TaskStep

\* An update of a recipient's row, and one that fails.
LEMMA EditCompletion ==
  ASSUME CompletionKnown, NEW s \in Sessions, EditStep(s) \/ WriteFails(s), Kept' \subseteq Kept
  PROVE  CompletionInvariant'
<1>0. /\ RowKnown /\ edit \in [Sessions -> EditRecords] /\ run \in [Runs -> RunRecords]
      /\ task \in [Tasks -> TaskRecords] /\ req \in [Requests -> RequestRecords]
      /\ (camp.lock[Campaign] = s => OwnStatus(s))
  BY CompletionFacts DEF CompletionKnown, RowKnown, Known, Held, Typed, SessionTypes
<1>1. ASSUME Editing(s)
      PROVE  /\ s \notin Requests /\ s # Free /\ (s \in Runs => run[s].pc = "visit")
             /\ edit[s].who \in Recipients /\ edit[s].new \in RecipientRow
             /\ edit[s].who \in Kept => rows.lock[edit[s].who] # s
             /\ s \in Runs => camp.lock[Campaign] # s
  BY <1>0, <1>1, EditKnown, Apart DEF OwnStatus
<1>3. CASE WriteFails(s)
  <2>1. \A x \in Sessions : x # s => SameRecords(x)
    BY <1>0, <1>3 DEF WriteFails, SameRecords
  <2>2. Discarded({s}) /\ (s \in Schedulers => run'[s].pc # "complete")
    BY <1>0, <1>3, Apart DEF WriteFails, IdleRun
  <2>3. camp'.live[Campaign] = camp.live[Campaign]
    <3>1. camp \in Tables({Campaign}, CampaignStatus, Sessions) /\ camp' = Discard(camp, {s})
      BY <2>2 DEF Discarded, CompletionKnown, RowKnown, Known, Held, Typed, TablesTyped
    <3> QED
      BY <3>1, DiscardRow
  <2>4. s \in Requests => req[s].pc \in {"update", "status", "cancelling"}
    BY <1>1, <1>3 DEF WriteFails, RequestWaits, Editing
  <2>5. s \in Requests => req'[s].target # "COMPLETED"
    BY <1>0, <1>3, NoneAssumption DEF WriteFails, Answered, Request, CampaignStatus
  <2> QED
    BY <2>1, <2>2, <2>3, <2>4, <2>5, CompletionEnd
<1>4. CASE EditStep(s)
  <2>0. Editing(s)
    BY <1>4 DEF EditStep, SelectRow, WriteRow, Editing
  <2>1. UNCHANGED <<camp, run, task, req>> /\ \A x \in Sessions : x # s => SameRecords(x)
    BY <1>0, <1>4 DEF EditStep, SelectRow, WriteRow, tables, actors, SameRecords
  <2>2. \/ UNCHANGED rows
        \/ \E r \in Recipients, row \in RecipientRow :
             (r \in Kept => rows.lock[r] = Free) /\ rows' = Put(rows, s, r, row)
    <3>1. CASE SelectRow(s)
      BY <3>1 DEF SelectRow, tables
    <3>2. CASE WriteRow(s)
      <4>1. PICK r \in Recipients : r = edit[s].who
        BY <1>1, <2>0
      <4>2. PICK base \in RecipientRow : base = edit[s].base
        BY <3>2 DEF WriteRow, CompletionKnown, RowKnown, Known, Held, Typed, SessionsFit, EditFits
      <4>3. PICK live \in RecipientRow, new \in RecipientRow : live = View(rows, s, r) /\ new = edit[s].new
        BY <1>0, <1>1, <2>0, RowTypes DEF RowKnown
      <4>4. PICK row \in RecipientRow :
              row = IF Stamped(s) THEN [Changed(live, base, new) EXCEPT !.statuses = new.statuses]
                    ELSE Changed(live, base, new)
        BY WrittenRow
      <4>5. rows' = Put(rows, s, r, row) /\ (r \in Kept => rows.lock[r] = Free)
        BY <1>1, <2>0, <3>2, <4>1, <4>2, <4>3, <4>4 DEF WriteRow, Locked
      <4> QED
        BY <4>5
    <3> QED
      BY <1>4, <3>1, <3>2 DEF EditStep
  <2>3. ASSUME NEW x \in Sessions, x # s, AllDone(x) PROVE AllDone(x)'
    BY <1>0, <2>2, <2>3, DoneKept, Apart
  <2>4. ASSUME NEW r \in Kept, rows.live[r].completed PROVE rows'.live[r].completed
    <3>1. CASE UNCHANGED rows
      BY <2>4, <3>1
    <3>2. ASSUME NEW k \in Recipients, NEW row \in RecipientRow,
                 rows' = Put(rows, s, k, row)
          PROVE  rows'.live[r].completed
      <4>1. rows'.live = rows.live
        BY <3>2 DEF Put
      <4> QED
        BY <2>4, <4>1
    <3> QED
      BY <2>2, <3>1, <3>2
  <2>5. camp'.lock[Campaign] = s => OwnStatus(s)'
    BY <1>0, <1>1, <2>0, <2>1 DEF OwnStatus
  <2>6. \A x \in Runs : x # s /\ AllDone(x) => AllDone(x)'
    BY <2>3, Apart
  <2>7. s \in Schedulers /\ run'[s].pc = "complete" => AllDone(s)'
    BY <1>1, <2>0, <2>1, Apart
  <2> QED
    BY <1>1, <2>0, <2>1, <2>4, <2>5, <2>6, <2>7, CompletionStep
<1> QED
  BY <1>3, <1>4

\* A request: resume writes COMPLETED, pause and cancel do not.
LEMMA RequestCompletion ==
  ASSUME Campaigned, CompletionKnown, NEW q \in Requests, RequestArrives(q) \/ RequestStep(q),
         Kept' \subseteq Kept
  PROVE  CompletionInvariant'
<1>0. /\ q \in Sessions /\ q \notin Runs /\ q \notin Tasks /\ q # Free
      /\ req \in [Requests -> RequestRecords] /\ RequestsAside(q) /\ RequestFits(q)
      /\ RowKnown /\ Typed /\ q \notin Schedulers
      /\ (camp.lock[Campaign] = q => OwnStatus(q))
      /\ (req[q].target = "COMPLETED" => req[q].op = "resume_campaign")
  BY Apart, CompletionFacts DEF CompletionKnown, RowKnown, Known, Held, Typed, SessionTypes, RowInvariant, SessionsFit
<1>1. \/ \E op \in SequenceOps : ReadCampaign(q, op)
      \/ ListMail(q) \/ UpdateMail(q) \/ (\E j \in MailJobs : SelectMail(q, j)) \/ WriteCampaign(q) \/ SnapshotMail(q) \/ CancelMail(q)
      \/ CommitCampaign(q) \/ EnqueuePlan(q)
  <2>1. (\E op \in SequenceOps : ReadCampaign(q, op)) \/ RequestStep(q)
    <3>1. CASE RequestArrives(q)
      BY <3>1, NoRecipientRequests DEF RequestArrives
    <3> QED
      BY <3>1
  <2> QED
    BY <1>0, <2>1 DEF RequestStep, CommitRecipients, UpdateRecipient, RequestsAside
<1>2. \A x \in Sessions : x # q => SameRecords(x)
  BY <1>0, <1>1 DEF ReadCampaign, ListMail, SelectMail, UpdateMail, WriteCampaign, SnapshotMail, CancelMail,
     CommitCampaign, EnqueuePlan, SameRecords
\* A step that leaves the campaign alone, or writes the target.
<1>3. ASSUME UNCHANGED rows, req[q].pc \notin {"enqueue", "done"},
             \/ UNCHANGED camp
                /\ (OwnStatus(q) /\ camp.lock[Campaign] = q =>
                      /\ req'[q].pc \in {"snapshot", "cancelling", "commit"}
                      /\ req'[q].op = req[q].op /\ req'[q].target = req[q].target)
             \/ /\ \E x : update_status_if(q, x, req[q].target) /\ req[q].target \in CampaignStatus
                /\ req'[q].pc \in {"snapshot", "commit"}
                /\ req'[q].op = req[q].op /\ req'[q].target = req[q].target,
             req'[q].target = "COMPLETED" => req'[q].op = "resume_campaign"
      PROVE  CompletionInvariant'
  <2>1. /\ camp'.live = camp.live
        /\ \/ camp'.lock[Campaign] = camp.lock[Campaign] /\ camp'.next[Campaign] = camp.next[Campaign]
           \/ camp'.lock[Campaign] = q /\ camp'.next[Campaign] = req[q].target
    BY <1>0, <1>3, StatusRow
  <2>2. camp'.lock[Campaign] = q => OwnStatus(q)'
    <3>1. CASE camp'.lock[Campaign] = camp.lock[Campaign] /\ camp'.next[Campaign] = camp.next[Campaign]
      BY <1>0, <1>3, <3>1 DEF OwnStatus, ResumeCompletes
    <3>2. CASE ~UNCHANGED camp /\ camp'.lock[Campaign] = q /\ camp'.next[Campaign] = req[q].target
      BY <1>0, <1>3, <3>2 DEF OwnStatus, ResumeCompletes
    <3> QED
      BY <2>1, <3>1, <3>2
  <2>3. /\ \A x \in Runs : x # q /\ AllDone(x) => AllDone(x)'
        /\ \A r \in Kept : rows.live[r].completed => rows'.live[r].completed
    BY <1>3 DEF AllDone
  <2>4. q \in Requests /\ (ResumeCompletes(q) /\ req[q].pc \in {"enqueue", "done"} =>
          ResumeCompletes(q)' /\ req'[q].pc \in {"enqueue", "done"})
    BY <1>3
  <2> QED
    BY <1>0, <1>2, <1>3, <2>1, <2>2, <2>3, <2>4, CompletionStep
<1>4. ASSUME NEW op \in SequenceOps, ReadCampaign(q, op) PROVE CompletionInvariant'
  <2>1. PICK rec : /\ req' = [req EXCEPT ![q] = rec]
                   /\ \/ \E x : rec = [Request("list") EXCEPT !.op = op, !.seen = x]
                      \/ \E x : rec = [Request("status") EXCEPT !.op = op, !.seen = x, !.target = TargetOf(op)]
                      \/ rec = Answered
    BY <1>4 DEF ReadCampaign
  <2>2. rec.target \in {None, "PAUSED", "CANCELLED"}
    BY <2>1, AnsweredFacts DEF Request, TargetOf, Answered
  <2>3. req'[q].target # "COMPLETED"
    BY <1>0, <2>1, <2>2, NoneAssumption DEF CampaignStatus
  <2>4. req[q].pc = "new" /\ UNCHANGED <<rows, camp>>
    BY <1>4 DEF ReadCampaign, tables
  <2>5. ~OwnStatus(q)
    BY <2>4 DEF OwnStatus
  <2> QED
    BY <1>3, <2>3, <2>4, <2>5
<1>5. CASE ListMail(q)
  <2>1. /\ req[q].pc = "list" /\ UNCHANGED <<rows, camp>> /\ req[q].op = "resume_campaign"
        /\ req'[q].op = req[q].op
    BY <1>0, <1>5 DEF ListMail, RequestRecords, RequestFits, tables
  <2>2. ~OwnStatus(q)
    BY <2>1 DEF OwnStatus
  <2> QED
    BY <1>3, <2>1, <2>2
<1>10. CASE UpdateMail(q) \/ \E j \in MailJobs : SelectMail(q, j)
  <2>1. /\ req[q].pc \in {"select", "update"} /\ UNCHANGED <<rows, camp>>
        /\ req[q].op = "resume_campaign" /\ req'[q].op = req[q].op
    <3>1. CASE UpdateMail(q)
      BY <1>0, <3>1 DEF UpdateMail, RequestRecords, RequestFits, tables
    <3>2. ASSUME NEW j \in MailJobs, SelectMail(q, j)
          PROVE  /\ req[q].pc = "select" /\ UNCHANGED <<rows, camp>>
                 /\ req[q].op = "resume_campaign" /\ req'[q].op = req[q].op
      BY <1>0, <3>2 DEF SelectMail, RequestRecords, RequestFits, tables
    <3> QED
      BY <1>10, <3>1, <3>2
  <2>2. ~OwnStatus(q)
    BY <2>1 DEF OwnStatus
  <2> QED
    BY <1>3, <2>1, <2>2
<1>6. CASE WriteCampaign(q)
  <2>1. req[q].pc = "status" /\ req[q].target \in CampaignStatus /\ ~OwnStatus(q)
    BY <1>0, <1>6 DEF WriteCampaign, RequestFits, OwnStatus
  <2>2. CASE View(camp, q, Campaign) = req[q].seen
    <3>1. /\ UNCHANGED rows /\ update_status_if(q, req[q].seen, req[q].target)
          /\ req' = [req EXCEPT ![q].pc = IF req[q].op = "cancel_campaign" THEN "snapshot" ELSE "commit"]
      BY <1>6, <2>2 DEF WriteCampaign
    <3>2. /\ req'[q].op = req[q].op /\ req'[q].target = req[q].target
          /\ req'[q].pc \in {"snapshot", "commit"}
      BY <1>0, <3>1 DEF RequestRecords
    <3> QED
      BY <1>0, <1>3, <2>1, <3>1, <3>2
  <2>3. CASE View(camp, q, Campaign) # req[q].seen
    <3>1. Discarded({q}) /\ req'[q] = Answered
      BY <1>0, <1>6, <2>3 DEF WriteCampaign
    <3>2. req'[q].target = None /\ None # "COMPLETED"
      BY <3>1, NoneAssumption DEF Answered, Request, CampaignStatus
    <3>3. camp.lock[Campaign] # q
      BY <1>0, <2>1
    <3> QED
      BY <1>0, <1>2, <2>1, <3>1, <3>2, <3>3, CompletionEnd
  <2> QED
    BY <2>2, <2>3
<1>7. CASE SnapshotMail(q) \/ CancelMail(q)
  <2>1. /\ req[q].pc \in {"snapshot", "cancelling"} /\ UNCHANGED <<rows, camp>>
        /\ req'[q].pc \in {"cancelling", "commit"}
        /\ req'[q].op = req[q].op /\ req'[q].target = req[q].target
    BY <1>0, <1>7, ZenonT(40) DEF SnapshotMail, CancelMail, RequestRecords, tables
  <2> QED
    BY <1>0, <1>3, <2>1
<1>8. CASE CommitCampaign(q)
  <2>1. /\ req[q].pc = "commit" /\ CommitTables(q) /\ req'[q].pc = "enqueue"
        /\ req'[q].op = req[q].op /\ req'[q].target = req[q].target
    BY <1>0, <1>8 DEF CommitCampaign, RequestRecords
  <2>2. ASSUME camp.lock[Campaign] = q, camp'.live[Campaign] = "COMPLETED"
        PROVE  camp.live[Campaign] = "COMPLETED" \/ Completers'
    <3>1. {q} \in SUBSET Sessions /\ Known
      BY <1>0 DEF RowKnown
    <3>2. camp'.live[Campaign] = camp.live[Campaign] \/ camp'.live[Campaign] = camp.next[Campaign]
      BY <2>1, <2>2, <3>1, EndFacts
    <3>3. CASE camp.next[Campaign] = "COMPLETED"
      BY <1>0, <2>1, <2>2, <3>3 DEF OwnStatus, Completers, ResumeCompletes
    <3> QED
      BY <2>2, <3>2, <3>3
  <2> QED
    BY <1>0, <1>2, <2>1, <2>2, CompletionEnd
<1>9. CASE EnqueuePlan(q)
  <2>1. /\ req[q].pc = "enqueue" /\ UNCHANGED <<rows, camp>> /\ req'[q].pc = "done"
        /\ req'[q].op = req[q].op /\ req'[q].target = req[q].target
    BY <1>0, <1>9 DEF EnqueuePlan, Answered, Request, tables
  <2>2. camp.lock[Campaign] # q
    BY <1>0, <2>1 DEF OwnStatus
  <2>3. /\ \A x \in Runs : x # q /\ AllDone(x) => AllDone(x)'
        /\ \A r \in Kept : rows.live[r].completed => rows'.live[r].completed
    BY <2>1 DEF AllDone
  <2> QED
    BY <1>0, <1>2, <2>1, <2>2, <2>3, CompletionStep DEF ResumeCompletes
<1> QED
  BY <1>1, <1>4, <1>5, <1>6, <1>7, <1>8, <1>9, <1>10

\* The worker dies: what its sessions had written of the campaign is forgotten.
LEMMA CrashCompletion ==
  ASSUME CompletionKnown, WorkerCrash, Kept' \subseteq Kept
  PROVE  CompletionInvariant'
<1>0. /\ Runs \cup Tasks \in SUBSET Sessions /\ Discarded(Runs \cup Tasks) /\ Known /\ req' = req
      /\ camp \in Tables({Campaign}, CampaignStatus, Sessions)
      /\ \A s \in Runs : run'[s] = IdleRun
  BY DEF WorkerCrash, Sessions, CompletionKnown, RowKnown, Known, Held, Typed, TablesTyped
<1>1. /\ camp'.live = camp.live
      /\ camp.lock[Campaign] \in Runs \cup Tasks => camp'.lock[Campaign] = Free
      /\ camp.lock[Campaign] \notin Runs \cup Tasks =>
           camp'.lock[Campaign] = camp.lock[Campaign] /\ camp'.next[Campaign] = camp.next[Campaign]
  BY <1>0, DiscardRow, EndFacts DEF Discarded
<1>2. rows'.live = rows.live
  BY <1>0, DiscardRow DEF Discarded, CompletionKnown, RowKnown, Known, Held, Typed, TablesTyped
<1>3. ASSUME NEW s \in Schedulers PROVE run'[s].pc # "complete"
  BY <1>0, Apart DEF IdleRun
<1>4. camp'.lock[Campaign] \notin Runs \cup Tasks
  BY <1>1, Apart
<1>5. camp'.lock[Campaign] \in Requests =>
        camp.lock[Campaign] = camp'.lock[Campaign] /\ camp'.next[Campaign] = camp.next[Campaign]
  BY <1>1, Apart
<1>6. camp'.live[Campaign] = "COMPLETED" => Completers'
  BY <1>0, <1>1, <1>2, CompletionFacts DEF Completers, ResumeCompletes
<1>7. ASSUME NEW q \in Requests, camp'.lock[Campaign] = q
      PROVE  /\ req'[q].pc \in {"snapshot", "cancelling", "commit"}
             /\ camp'.next[Campaign] = "COMPLETED" => ResumeCompletes(q)'
  <2>1. OwnStatus(q) /\ camp'.next[Campaign] = camp.next[Campaign]
    BY <1>5, <1>7, CompletionFacts, Apart
  <2> QED
    BY <1>0, <2>1 DEF OwnStatus, ResumeCompletes
<1>8. \A q \in Requests : req'[q].target = "COMPLETED" => req'[q].op = "resume_campaign"
  BY <1>0, CompletionFacts
<1> QED
  BY <1>3, <1>4, <1>6, <1>7, <1>8 DEF CompletionInvariant, Completers

\* What touches neither the rows nor the campaign nor a session keeps it.
LEMMA QuietCompletion ==
  ASSUME CompletionKnown, UNCHANGED <<rows, camp, run, req>>, Kept' \subseteq Kept
  PROVE  CompletionInvariant'
  BY DEF CompletionKnown, CompletionInvariant, AllDone, ResumeCompletes

\* Every step keeps what the completing session knows.
LEMMA StepCompletion == Campaigned /\ CompletionKnown /\ [Next]_vars => CompletionKnown'
<1> SUFFICES ASSUME Campaigned, CompletionKnown, [Next]_vars PROVE CompletionInvariant'
  BY StepRows DEF CompletionKnown
<1>k. Kept' \subseteq Kept
  BY KeptStep
<1>1. ASSUME NEW r \in Recipients, NEW n \in Steps, WaitOver(r, n) PROVE CompletionInvariant'
  BY <1>k, <1>1, QuietCompletion DEF WaitOver, tables, actors
<1>2. CASE UNCHANGED vars
  <2>1. UNCHANGED <<rows, camp, run, req>>
    BY <1>2 DEF vars, tables, actors
  <2> QED
    BY <1>k, <2>1, QuietCompletion
<1>3. CASE Next
  BY <1>k, <1>1, <1>3, RunCompletion, TaskCompletion, RequestCompletion, EditCompletion, CrashCompletion DEF Next
<1> QED
  BY <1>2, <1>3

\* At first nobody has completed anything.
LEMMA InitCompletion == Init => CompletionKnown
<1> SUFFICES ASSUME Init PROVE CompletionInvariant
  BY InitRows DEF CompletionKnown
<1>1. camp.lock[Campaign] = Free /\ camp.live[Campaign] = "SCHEDULED"
  BY DEF Init, Committed
<1>2. \A q \in Requests : req[q].target = None
  BY DEF Init, Request
<1>3. \A s \in Schedulers : run[s].pc = "idle"
  BY Apart DEF Init, IdleRun
<1>4. None # "COMPLETED"
  BY NoneAssumption DEF CampaignStatus
<1> QED
  BY <1>1, <1>2, <1>3, <1>4, Apart DEF CompletionInvariant

\* While nobody pauses, resumes or stops recipients, a sequence is completed only
\* when every recipient is done and no job waits, those apart whose mail a resume has
\* written back, unless a resume that found no live job has completed it.
THEOREM CompletedIsOverHolds == Campaigned => (Spec => []CompletedIsOver)
<1> SUFFICES ASSUME Campaigned PROVE Spec => []CompletedIsOver
  OBVIOUS
<1>1. CompletionKnown /\ [Next]_vars => CompletionKnown'
  BY StepCompletion
<1>2. CompletionKnown => CompletedIsOver
  <2> SUFFICES ASSUME CompletionKnown, camp.live[Campaign] = "COMPLETED"
               PROVE  \/ \A r \in Kept :
                           /\ ~IsActive(rows.live[r])
                           /\ \A j \in MailJobs : j.to = r => mail.live[j] # "PENDING"
                      \/ \E q \in Requests : ResumeCompletes(q)
    BY DEF CompletedIsOver, ResumeCompletes, Kept
  <2>1. Completers
    BY CompletionFacts
  <2>2. ASSUME \A r \in Kept : rows.live[r].completed, NEW r \in Kept
        PROVE  /\ ~IsActive(rows.live[r])
               /\ \A j \in MailJobs : j.to = r => mail.live[j] # "PENDING"
    BY <2>2, Waiting DEF CompletionKnown, IsActive
  <2> QED
    BY <2>1, <2>2 DEF Completers
<1>3. Spec => []CompletionKnown
  BY <1>1, InitCompletion, PTL DEF Spec
<1> QED
  BY <1>2, <1>3, PTL
-----------------------------------------------------------------------------
(***************************************************************************)
(* What a recipient is mailed: a task sends only the step whose turn it is,*)
(* and to a recipient a mail of whom was written back none that the        *)
(* recipient has not been mailed the step before.                          *)
(***************************************************************************)
MailKnown == RowKnown /\ MailedInvariant /\ EarlierMailed

\* The mail of job j has left, and the database, or the task that sent it, says so.
Written(j) == mail.live[j] = "SENT" \/ (mail.lock[j] \in Tasks /\ mail.next[j] = "SENT")

\* Nothing is mailed, no row advances, and what is on record stays on record.
LEMMA MailedKept ==
  ASSUME MailKnown, UNCHANGED <<mailed, crashes>>, Kept' \subseteq Kept,
         \A r \in Kept' : rows'.live[r].step = rows.live[r].step,
         \A j \in MailJobs : j.to \in Kept' => (Written(j)' <=> Written(j))
  PROVE  MailedInvariant'
<1> SUFFICES ASSUME NEW r \in Kept' PROVE MailedFits(r)'
  BY DEF MailedInvariant
<1>0. r \in Kept /\ r \in Recipients
  BY KeptFacts
<1>1. PICK n \in Steps : n = rows.live[r].step
  BY <1>0, RowTypes DEF MailKnown, RowKnown
<1>2. MailedFits(r) /\ rows'.live[r].step = n
  BY <1>0, <1>1 DEF MailKnown, MailedInvariant
<1>3. Recorded(r, n)' <=> Recorded(r, n)
  BY <1>0, JobFacts DEF Recorded, Written
<1> QED
  BY <1>1, <1>2, <1>3 DEF MailedFits, NextIs, LastIs, Recorded

\* The record of what was mailed belongs to tasks: no other session's end changes it,
\* unless a resume has brought the job back.
LEMMA EndWritten ==
  ASSUME RowKnown, NEW s \in Runs \cup Requests, CommitTables(s) \/ Discarded({s}),
         NEW j \in MailJobs, s \in Requests /\ CommitTables(s) => j \notin Overwritten(s)
  PROVE  Written(j)' <=> Written(j)
<1>0. /\ {s} \in SUBSET Sessions /\ s \in Sessions /\ s \notin Tasks /\ Free \notin Tasks /\ Known /\ Held
      /\ mail \in Tables(MailJobs, MailStatus, Sessions)
  BY Apart DEF RowKnown, Known, Held, Typed, TablesTyped
<1>1. mail.lock[j] # s =>
        mail'.lock[j] = mail.lock[j] /\ mail'.next[j] = mail.next[j] /\ mail'.live[j] = mail.live[j]
  BY <1>0, EndFacts
<1>2. CASE mail.lock[j] = s
  <2>1. s \in Runs => mail.live[j] # "SENT" /\ mail.next[j] # "SENT"
    BY <1>0, <1>2, HeldFacts DEF RunHoldsJob, Absent
  <2>2. s \in Requests => mail.next[j] \in {"PENDING", "CANCELLED", mail.live[j]}
    BY <1>0, <1>2, HeldFacts DEF RequestHoldsJob
  <2>3. s \in Requests /\ mail.next[j] = "CANCELLED" => mail.live[j] # "SENT"
    BY <1>0, <1>2, HeldFacts DEF RequestHoldsJob
  <2>4. s \in Requests /\ CommitTables(s) /\ mail.next[j] = "PENDING" => mail.live[j] # "SENT"
    BY <1>2 DEF Overwritten
  <2>5. CASE CommitTables(s)
    <3>1. mail'.lock[j] = Free /\ mail'.live[j] = mail.next[j]
      BY <1>0, <1>2, <2>5, PublishRow DEF CommitTables
    <3> QED
      BY <1>0, <1>2, <2>1, <2>2, <2>3, <2>4, <2>5, <3>1 DEF Written
  <2>6. CASE Discarded({s})
    <3>1. mail'.lock[j] = Free /\ mail'.live[j] = mail.live[j]
      BY <1>0, <1>2, <2>6, DiscardRow DEF Discarded
    <3> QED
      BY <1>0, <1>2, <3>1 DEF Written
  <2> QED
    BY <2>5, <2>6
<1> QED
  BY <1>1, <1>2 DEF Written

\* A run advances a recipient whose step is on record: then the next one's turn
\* has come.
LEMMA RunMailed ==
  ASSUME MailKnown, NEW s \in Runs, RunStep(s)
  PROVE  MailedInvariant'
<1>0. /\ s \in Sessions /\ s \notin Tasks /\ RowKnown /\ Known /\ Held
      /\ rows \in Tables(Recipients, RecipientRow, Sessions)
      /\ mail \in Tables(MailJobs, MailStatus, Sessions)
  BY Apart DEF MailKnown, RowKnown, Known, Held, Typed, TablesTyped
<1>1. UNCHANGED <<mailed, crashes>> /\ Kept' = Kept
  <2>1. UNCHANGED <<mailed, crashes, reverted>>
    BY DEF RunStep, SchedulerStep, StartRun, CountActive, CompleteSequence, PassOver, FinishRecipient,
       Advance, SweepCountsLive, SweepCompletes, CommitRun, counted
  <2> QED
    BY <2>1, KeptFacts
<1>k. Kept \subseteq Recipients
  BY KeptFacts
<1>2. ASSUME UNCHANGED <<rows, mail>> PROVE MailedInvariant'
  BY <1>1, <1>2, MailedKept DEF Written
<1>3. ASSUME NEW r \in Recipients, Advance(s, r) PROVE MailedInvariant'
  <2>1. rows'.live = rows.live
    BY <1>3 DEF Advance, Put
  <2>2. PICK job \in MailJobs : mail.next[job] = Absent /\ mail' = Put(mail, s, job, "PENDING")
    BY <1>3 DEF Advance, NewCopy
  <2>3. /\ mail'.live = mail.live /\ mail'.next = [mail.next EXCEPT ![job] = "PENDING"]
        /\ mail'.lock = [mail.lock EXCEPT ![job] = s]
    BY <2>2 DEF Put
  <2>4. mail.live[job] # "SENT"
    BY <1>0, <2>2, SentFacts, HeldFacts DEF RequestHoldsJob, Absent
  <2>5. ASSUME NEW j \in MailJobs PROVE Written(j)' <=> Written(j)
    BY <1>0, <2>2, <2>3, <2>4 DEF Written, Tables, Absent
  <2> QED
    BY <1>1, <1>k, <2>1, <2>5, MailedKept
<1>4. CASE CommitRun(s)
  <2>1. CommitTables(s) /\ rows' = Publish(rows, s)
    BY <1>4 DEF CommitRun, CommitTables
  <2>2. \A j \in MailJobs : Written(j)' <=> Written(j)
    BY <1>0, <2>1, Apart, EndWritten
  <2> SUFFICES ASSUME NEW r \in Kept PROVE MailedFits(r)'
    BY <1>1 DEF MailedInvariant
  <2>3. PICK n \in Steps : n = rows.live[r].step
    BY <1>0, <1>k, RowTypes
  <2>4. MailedFits(r) /\ RowHeld(r) /\ RowFits(r) /\ n \in Nat
    BY <2>3, Jobs DEF MailKnown, MailedInvariant, RowKnown, RowInvariant
  <2>5. rows'.live[r] = IF rows.lock[r] = s THEN rows.next[r] ELSE rows.live[r]
    BY <1>0, <1>k, <2>1, PublishRow
  <2>6. ASSUME rows'.live[r].step = n PROVE MailedFits(r)'
    <3>1. Recorded(r, n)' <=> Recorded(r, n)
      BY <1>k, <2>2, JobFacts DEF Recorded, Written
    <3> QED
      BY <1>1, <2>3, <2>4, <2>6, <3>1 DEF MailedFits, NextIs, LastIs, Recorded
  <2>7. ASSUME rows'.live[r].step # n PROVE MailedFits(r)'
    <3>1. rows.lock[r] = s /\ RunHoldsRow(s, r)
      BY <2>3, <2>4, <2>5, <2>7 DEF RowHeld
    <3>2. PICK m \in Steps : m = rows.next[r].step /\ rows'.live[r].step = m /\ m = n + 1
      BY <1>0, <1>k, <2>3, <2>5, <2>7, <3>1, RowTypes DEF RunHoldsRow
    <3>3. mail.live[Job(r, n)] = "SENT"
      BY <2>3, <3>1 DEF RunHoldsRow
    <3>4. LastIs(r, n)
      BY <2>3, <2>4, <3>3 DEF MailedFits, Recorded
    <3>5. NextIs(r, m)'
      BY <1>1, <2>4, <3>2, <3>4 DEF NextIs, LastIs
    <3>6. mail.live[Job(r, m)] = Absent /\ mail.lock[Job(r, m)] = s
      BY <2>3, <2>4, <2>7, <3>1, <3>2 DEF RowFits, RunHoldsRow
    <3>7. ~Recorded(r, m)'
      BY <1>0, <1>k, <2>2, <3>6, JobFacts DEF Recorded, Written, Absent
    <3> QED
      BY <3>2, <3>5, <3>7 DEF MailedFits, NextIs, Recorded
  <2> QED
    BY <2>6, <2>7
<1>5. ASSUME NEW r \in Recipients, PassOver(s, r) \/ FinishRecipient(s, r) PROVE MailedInvariant'
  BY <1>2, <1>5 DEF PassOver, FinishRecipient, tables
<1>6. CASE StartRun(s) \/ CountActive(s) \/ CompleteSequence(s) \/ SweepCountsLive(s) \/ SweepCompletes(s)
  BY <1>2, <1>6 DEF StartRun, CountActive, CompleteSequence, SweepCountsLive, SweepCompletes, tables
<1> QED
  BY <1>3, <1>4, <1>5, <1>6 DEF RunStep, SchedulerStep

\* The step a task mails is the one whose turn it is.
LEMMA MailTurn ==
  ASSUME MailKnown, NEW t \in Tasks, NEW o \in Outcomes, Deliver(t, o)
  PROVE  \E j \in MailJobs :
           /\ j = task[t].job /\ j.to \in Recipients /\ j.step \in Steps
           /\ mail.lock[j] = Free /\ mail.live[j] = "PENDING" /\ ~Written(j)
           /\ j.step > 0 => WasMailed(j.to, j.step - 1)
           /\ j.to \in Kept =>
                /\ j = Job(j.to, j.step) /\ j.step = rows.live[j.to].step
                /\ NextIs(j.to, j.step) \/ (LastIs(j.to, j.step) /\ crashes > 0)
<1>0. /\ RowKnown /\ Known /\ Held /\ TaskFits(t)
  BY DEF MailKnown, RowKnown, Known, Held, Typed, SessionsFit
<1>1. PICK j \in MailJobs : j = task[t].job
  BY <1>0 DEF Deliver, TaskFits
<1>2. task[t].pc = "claim" /\ View(mail, t, j) = "PENDING" /\ ~Locked(mail, t, j)
  BY <1>1 DEF Deliver
<1>3. mail.lock[j] = Free /\ mail.live[j] = "PENDING"
  <2>1. mail.lock[j] # t
    BY <1>0, <1>2, HeldFacts DEF TaskHoldsJob
  <2> QED
    BY <1>2, <2>1 DEF View, Locked
<1>4. ~Written(j)
  BY <1>3, Apart DEF Written
<1>5. j.step > 0 => WasMailed(j.to, j.step - 1)
  BY <1>3 DEF MailKnown, EarlierMailed, Absent
<1>6. ASSUME j.to \in Kept
      PROVE  /\ j = Job(j.to, j.step) /\ j.step = rows.live[j.to].step
             /\ NextIs(j.to, j.step) \/ (LastIs(j.to, j.step) /\ crashes > 0)
  <2>1. j = Job(j.to, j.step) /\ j.step = rows.live[j.to].step
    BY <1>0, <1>3, <1>6, Waiting
  <2>2. MailedFits(j.to) /\ ~Recorded(j.to, j.step)
    BY <1>4, <1>6, <2>1 DEF MailKnown, MailedInvariant, Recorded, Written
  <2> QED
    BY <2>1, <2>2 DEF MailedFits
<1> QED
  BY <1>1, <1>3, <1>4, <1>5, <1>6, Jobs

\* What is appended to a sequence is its last element.
LEMMA LastAppended ==
  ASSUME NEW S, NEW q \in Seq(S), NEW e \in S
  PROVE  Append(q, e) # <<>> /\ Append(q, e)[Len(Append(q, e))] = e
<1>1. Len(Append(q, e)) = Len(q) + 1 /\ Append(q, e)[Len(q) + 1] = e
  OBVIOUS
<1> QED
  BY <1>1

\* A task records what it mails in the transaction that claims the job.
LEMMA TaskMailed ==
  ASSUME MailKnown, NEW t \in Tasks, TaskStep(t)
  PROVE  MailedInvariant'
<1>0. /\ t \in Sessions /\ t # Free /\ t \notin Runs /\ RowKnown /\ Known /\ Held
      /\ rows \in Tables(Recipients, RecipientRow, Sessions)
      /\ mail \in Tables(MailJobs, MailStatus, Sessions) /\ mailed \in [Recipients -> Seq(Steps)]
  BY Apart DEF MailKnown, RowKnown, Known, Held, Typed, TablesTyped, SessionTypes
<1>k. Kept' = Kept /\ Kept \subseteq Recipients
  <2>1. reverted' = reverted
    BY DEF TaskStep, TakeCall, ClaimFails, Deliver, ReadState, CommitTask, counted
  <2> QED
    BY <2>1, KeptFacts
<1>1. ASSUME UNCHANGED <<rows, mail, mailed, crashes>> PROVE MailedInvariant'
  BY <1>1, <1>k, MailedKept DEF Written
<1>2. ASSUME NEW o \in Outcomes, Deliver(t, o) PROVE MailedInvariant'
  <2>1. PICK j \in MailJobs :
          /\ j = task[t].job /\ j.to \in Recipients /\ j.step \in Steps
          /\ mail.lock[j] = Free /\ mail.live[j] = "PENDING" /\ ~Written(j)
          /\ j.to \in Kept => j = Job(j.to, j.step) /\ j.step = rows.live[j.to].step
    BY <1>2, MailTurn
  <2>2. UNCHANGED <<rows, crashes>>
    BY <1>2 DEF Deliver, counted
  <2>3. PICK m \in {"SENT", "FAILED"} :
          mail' = Put(mail, t, j, m) /\ (m = "SENT" <=> o = "accepted")
    BY <1>2, <2>1 DEF Deliver
  <2>4. /\ mail'.live = mail.live /\ mail'.next[j] = m /\ mail'.lock[j] = t
        /\ \A x \in MailJobs : x # j => mail'.next[x] = mail.next[x] /\ mail'.lock[x] = mail.lock[x]
    BY <1>0, <2>3 DEF Put, Tables
  <2>5. \A x \in MailJobs : x # j => (Written(x)' <=> Written(x))
    BY <2>4 DEF Written
  <2>6. CASE m = "FAILED"
    <3>1. mailed' = mailed
      BY <1>2, <2>3, <2>6 DEF Deliver
    <3>2. ~Written(j)'
      BY <2>1, <2>4, <2>6 DEF Written
    <3> QED
      BY <1>k, <2>1, <2>2, <2>5, <3>1, <3>2, MailedKept
  <2>7. CASE m = "SENT"
    <3>1. mailed' = [mailed EXCEPT ![j.to] = Append(@, j.step)]
      BY <1>2, <2>1, <2>3, <2>7 DEF Deliver
    <3>2. mailed'[j.to] = Append(mailed[j.to], j.step) /\ mailed[j.to] \in Seq(Steps)
      BY <1>0, <2>1, <3>1
    <3>3. LastIs(j.to, j.step)'
      <4>0. mailed[j.to] \in Seq(Steps) /\ j.step \in Steps
        BY <2>1, <3>2
      <4>1. /\ Append(mailed[j.to], j.step) # <<>>
            /\ Append(mailed[j.to], j.step)[Len(Append(mailed[j.to], j.step))] = j.step
        BY <4>0, LastAppended
      <4>2. mailed'[j.to] # <<>> /\ mailed'[j.to][Len(mailed'[j.to])] = j.step
        BY <3>2, <4>1
      <4> QED
        BY <4>2 DEF LastIs
    <3>4. j.to \in Kept => Recorded(j.to, j.step)'
      BY <2>1, <2>4, <2>7 DEF Recorded
    <3>5. j.to \in Kept => MailedFits(j.to)'
      BY <2>1, <2>2, <3>3, <3>4 DEF MailedFits, LastIs, Recorded
    <3>6. ASSUME NEW r \in Kept, r # j.to PROVE MailedFits(r)'
      <4>1. PICK n \in Steps : n = rows.live[r].step
        BY <1>0, <1>k, RowTypes
      <4>2. MailedFits(r) /\ mailed'[r] = mailed[r]
        BY <1>0, <1>k, <3>1, <3>6 DEF MailKnown, MailedInvariant
      <4>3. Job(r, n) \in MailJobs /\ Job(r, n) # j
        BY <1>k, <3>6, JobFacts
      <4>4. Recorded(r, n)' <=> Recorded(r, n)
        BY <2>5, <4>3 DEF Recorded, Written
      <4> QED
        BY <2>2, <4>1, <4>2, <4>4 DEF MailedFits, NextIs, LastIs, Recorded
    <3> QED
      BY <1>k, <3>5, <3>6 DEF MailedInvariant
  <2> QED
    BY <2>6, <2>7
<1>3. CASE CommitTask(t)
  <2>1. /\ task[t].pc = "commit" /\ mail' = Publish(mail, t) /\ rows' = Publish(rows, t)
        /\ UNCHANGED <<mailed, crashes>>
    BY <1>3 DEF CommitTask, CommitTables, counted
  <2>2. ASSUME NEW j \in MailJobs PROVE Written(j)' <=> Written(j)
    <3>1. /\ mail'.live[j] = IF mail.lock[j] = t THEN mail.next[j] ELSE mail.live[j]
          /\ mail'.lock[j] = IF mail.lock[j] = t THEN Free ELSE mail.lock[j]
          /\ mail'.next = mail.next
      BY <1>0, <2>1, PublishRow
    <3>2. mail.lock[j] = t => mail.live[j] = "PENDING"
      BY <1>0, HeldFacts DEF TaskHoldsJob
    <3> QED
      BY <1>0, <3>1, <3>2, Apart DEF Written
  <2>3. ASSUME NEW r \in Kept PROVE rows'.live[r].step = rows.live[r].step
    <3>1. rows'.live[r] = IF rows.lock[r] = t THEN rows.next[r] ELSE rows.live[r]
      BY <1>0, <1>k, <2>1, PublishRow
    <3>2. rows.lock[r] = t => rows.next[r].step = rows.live[r].step
      BY <1>0 DEF RowKnown, RowInvariant, RowHeld, TaskHoldsRow
    <3> QED
      BY <3>1, <3>2
  <2> QED
    BY <1>k, <2>1, <2>2, <2>3, MailedKept
<1>4. ASSUME NEW j \in MailJobs, TakeCall(t, j) PROVE MailedInvariant'
  BY <1>1, <1>4 DEF TakeCall, tables, counted
<1>5. CASE ClaimFails(t) \/ ReadState(t)
  BY <1>1, <1>5 DEF ClaimFails, ReadState, tables, counted
<1> QED
  BY <1>2, <1>3, <1>4, <1>5 DEF TaskStep

\* The update of a task does not wait for another session's row while the recipient
\* is kept, so its record is not lost to a write that fails.
LEMMA TaskWriteFree ==
  ASSUME RowKnown, NEW t \in Tasks, Editing(t), edit[t].who \in Kept
  PROVE  ~Locked(rows, t, edit[t].who)
<1>1. task[t].pc = "commit" /\ TaskEdits(t)
  BY EditKnown, Apart
<1>2. PICK j \in MailJobs : j = task[t].job /\ mail.lock[j] = t /\ mail.live[j] = "PENDING"
  BY <1>1, TaskOwns
<1>3. /\ edit[t].who = j.to /\ j.to \in Recipients /\ rows.lock[j.to] \notin Runs
      /\ j = Job(j.to, rows.live[j.to].step) /\ j.to \in Kept
  BY <1>1, <1>2, Waiting DEF TaskEdits
<1>4. RowHeld(j.to) /\ rows.lock[j.to] \in Sessions \cup {Free}
  BY <1>3, RowTypes DEF RowKnown, RowInvariant
<1>5. rows.lock[j.to] \in Tasks => rows.lock[j.to] = t
  BY <1>2, <1>3, <1>4 DEF RowHeld, TaskHoldsRow
<1> QED
  BY <1>3, <1>4, <1>5, Apart DEF RowHeld, Locked

\* Updates of rows mail nothing and leave the current step; the record a task loses
\* with an update that fails is a rewritten recipient's.
LEMMA EditMailed ==
  ASSUME MailKnown, NEW s \in Sessions, EditStep(s) \/ WriteFails(s)
  PROVE  MailedInvariant'
<1>0. RowKnown /\ Known /\ Held /\ rows'.live = rows.live /\ UNCHANGED <<mailed, crashes, reverted>>
  <2>1. CASE EditStep(s)
    BY <2>1 DEF EditStep, SelectRow, WriteRow, Put, tables, counted, MailKnown, RowKnown, Known
  <2>2. CASE WriteFails(s)
    <3>1. Discarded({s}) /\ UNCHANGED <<mailed, crashes, reverted>>
      BY <2>2 DEF WriteFails, counted
    <3>2. rows'.live = rows.live
      BY <3>1 DEF Discarded, Discard
    <3> QED
      BY <3>1, <3>2 DEF MailKnown, RowKnown, Known
  <2> QED
    BY <2>1, <2>2
<1>k. Kept' = Kept
  BY <1>0, KeptFacts
<1>1. CASE EditStep(s)
  <2>1. UNCHANGED mail
    BY <1>1 DEF EditStep, SelectRow, WriteRow, tables
  <2> QED
    BY <1>0, <1>k, <2>1, MailedKept DEF Written
<1>2. CASE WriteFails(s)
  <2>1. Discarded({s}) /\ (s \in Requests \/ (Editing(s) /\ Locked(rows, s, edit[s].who)))
    BY <1>2 DEF WriteFails, Editing
  <2>2. CASE s \in Runs \cup Requests
    <3>1. \A j \in MailJobs : Written(j)' <=> Written(j)
      <4>1. ASSUME CommitTables(s), NEW j \in MailJobs PROVE s \in Requests => j \notin Overwritten(s)
        <5>1. mail.lock[j] = s /\ s # Free => mail.next[j] = mail.live[j]
          <6>1. /\ mail \in Tables(MailJobs, MailStatus, Sessions) /\ s # Free
            BY <1>0, Apart DEF Held, Typed, TablesTyped
          <6>2. /\ Publish(mail, s).live[j] = IF mail.lock[j] = s THEN mail.next[j] ELSE mail.live[j]
                /\ Discard(mail, {s}).live[j] = mail.live[j]
            BY <6>1, PublishRow, DiscardRow
          <6> QED
            BY <2>1, <4>1, <6>2 DEF CommitTables, Discarded
        <5> QED
          BY <5>1, Apart DEF Overwritten
      <4> QED
        BY <1>0, <2>1, <2>2, <4>1, EndWritten
    <3> QED
      BY <1>0, <1>k, <3>1, MailedKept
  <2>3. CASE s \in Tasks
    <3>1. Editing(s) /\ Locked(rows, s, edit[s].who)
      BY <2>1, <2>3, Apart
    <3>2. task[s].pc = "commit" /\ TaskEdits(s)
      BY <1>0, <2>3, <3>1, EditKnown
    <3>3. task[s].job.to \notin Kept
      BY <1>0, <2>3, <3>1, <3>2, TaskWriteFree DEF TaskEdits
    <3>4. ASSUME NEW j \in MailJobs, j.to \in Kept PROVE Written(j)' <=> Written(j)
      <4>1. mail.lock[j] # s
        BY <1>0, <2>3, <3>3, <3>4, HeldFacts DEF TaskHoldsJob
      <4>2. mail'.lock[j] = mail.lock[j] /\ mail'.next[j] = mail.next[j] /\ mail'.live[j] = mail.live[j]
        BY <1>0, <2>1, <4>1, EndFacts
      <4> QED
        BY <4>2 DEF Written
    <3> QED
      BY <1>0, <1>k, <3>4, MailedKept
  <2> QED
    BY <2>2, <2>3, Apart
<1> QED
  BY <1>1, <1>2

\* Requests bring jobs back and cancel those that wait: the record of a kept recipient
\* stays what it was.
LEMMA RequestMailed ==
  ASSUME Campaigned, MailKnown, NEW q \in Requests, RequestArrives(q) \/ RequestStep(q),
         Kept' \subseteq Kept
  PROVE  MailedInvariant'
<1>0. /\ q \in Sessions /\ q \notin Tasks /\ Free \notin Tasks /\ RequestsAside(q)
      /\ RowKnown /\ Known /\ Held /\ ListedJobs(q)
      /\ rows \in Tables(Recipients, RecipientRow, Sessions)
      /\ mail \in Tables(MailJobs, MailStatus, Sessions)
  BY Apart DEF MailKnown, RowKnown, Known, Held, MailHeld, Typed, TablesTyped, RowInvariant
<1>1. \/ \E op \in SequenceOps : ReadCampaign(q, op)
      \/ ListMail(q) \/ (\E j \in MailJobs : SelectMail(q, j)) \/ UpdateMail(q)
      \/ WriteCampaign(q) \/ SnapshotMail(q) \/ CancelMail(q)
      \/ CommitCampaign(q) \/ EnqueuePlan(q)
  <2>1. (\E op \in SequenceOps : ReadCampaign(q, op)) \/ RequestStep(q)
    <3>1. CASE RequestArrives(q)
      BY <3>1, NoRecipientRequests DEF RequestArrives
    <3> QED
      BY <3>1
  <2> QED
    BY <1>0, <2>1 DEF RequestStep, CommitRecipients, UpdateRecipient, RequestsAside
<1>2. UNCHANGED <<mailed, crashes>>
  BY <1>1 DEF ReadCampaign, ListMail, SelectMail, UpdateMail, WriteCampaign, SnapshotMail, CancelMail,
     CommitCampaign, EnqueuePlan, counted
<1>3. ASSUME UNCHANGED <<rows, mail>> PROVE MailedInvariant'
  BY <1>2, <1>3, MailedKept DEF Written
<1>4. ASSUME UNCHANGED rows, mail'.live = mail.live,
             \A j \in MailJobs :
               \/ mail'.lock[j] = mail.lock[j] /\ mail'.next[j] = mail.next[j]
               \/ mail.lock[j] \in {q, Free} /\ mail'.lock[j] = q
      PROVE  MailedInvariant'
  <2>1. \A j \in MailJobs : Written(j)' <=> Written(j)
    BY <1>0, <1>4 DEF Written
  <2> QED
    BY <1>2, <1>4, <2>1, MailedKept
<1>5. ASSUME \/ CommitTables(q) /\ reverted' = reverted \cup Overwritten(q)
             \/ Discarded({q})
      PROVE  MailedInvariant'
  <2>0. Overwritten(q) \subseteq reverted' \/ Discarded({q})
    BY <1>5
  <2>1. ASSUME NEW j \in MailJobs, j.to \in Kept' PROVE Written(j)' <=> Written(j)
    <3>1. CASE Overwritten(q) \subseteq reverted'
      <4>1. j \notin Overwritten(q)
        BY <2>1, <3>1 DEF Kept, Rewritten
      <4> QED
        BY <1>0, <1>5, <4>1, EndWritten
    <3>2. CASE Discarded({q})
      <4>1. mail' = Discard(mail, {q})
        BY <3>2 DEF Discarded
      <4>2. /\ mail'.live[j] = mail.live[j]
            /\ mail'.lock[j] = IF mail.lock[j] \in {q} THEN Free ELSE mail.lock[j]
            /\ mail'.next[j] = IF mail.lock[j] \in {q} THEN mail.live[j] ELSE mail.next[j]
        BY <1>0, <4>1, DiscardRow
      <4> QED
        BY <1>0, <4>2 DEF Written
    <3> QED
      BY <2>0, <3>1, <3>2
  <2>2. ASSUME NEW r \in Kept' PROVE rows'.live[r] = rows.live[r]
    <3>1. rows' = Publish(rows, q) \/ rows' = Discard(rows, {q})
      BY <1>5 DEF CommitTables, Discarded
    <3>2. rows.lock[r] # q /\ r \in Recipients
      BY <1>0, KeptFacts DEF RowKnown, RowInvariant, RowHeld
    <3> QED
      BY <1>0, <3>1, <3>2, PublishRow, DiscardRow
  <2> QED
    BY <1>2, <2>1, <2>2, MailedKept
<1>6. CASE UpdateMail(q)
  <2>1. /\ req[q].pc = "update" /\ UNCHANGED rows
        /\ mail' = Put(mail, q, req[q].cur,
                       IF req[q].row # "PENDING" THEN "PENDING" ELSE View(mail, q, req[q].cur))
    BY <1>6 DEF UpdateMail
  <2>2. ~Locked(mail, q, req[q].cur)
    BY <1>6 DEF UpdateMail
  <2> QED
    BY <1>0, <1>4, <2>1, <2>2 DEF Put, Locked, Tables
<1>7. CASE CancelMail(q)
  <2>1. PICK J \in SUBSET LiveMail(q) : J = req[q].plan \cap LiveMail(q)
    OBVIOUS
  <2>2. /\ UNCHANGED rows /\ mail' = PutAll(mail, q, J, "CANCELLED") /\ \A j \in J : ~Locked(mail, q, j)
    BY <1>7, <2>1 DEF CancelMail
  <2>3. /\ mail'.live = mail.live
        /\ \A j \in MailJobs :
             /\ j \notin J => mail'.next[j] = mail.next[j] /\ mail'.lock[j] = mail.lock[j]
             /\ j \in J => mail'.lock[j] = q
    BY <1>0, <2>2, PutAllRows DEF MailStatus
  <2>4. \A j \in J : mail.lock[j] \in {q, Free}
    BY <2>2 DEF Locked
  <2> QED
    BY <1>4, <2>2, <2>3, <2>4
<1>8. CASE WriteCampaign(q)
  BY <1>3, <1>5, <1>8 DEF WriteCampaign
<1>9. CASE CommitCampaign(q)
  BY <1>5, <1>9 DEF CommitCampaign
<1>10. CASE \/ \E op \in SequenceOps : ReadCampaign(q, op)
            \/ ListMail(q) \/ (\E j \in MailJobs : SelectMail(q, j))
            \/ SnapshotMail(q) \/ EnqueuePlan(q)
  BY <1>3, <1>10 DEF ReadCampaign, ListMail, SelectMail, SnapshotMail, EnqueuePlan, tables
<1> QED
  BY <1>1, <1>6, <1>7, <1>8, <1>9, <1>10

\* A crash loses records, and what was mailed may be mailed again.
LEMMA CrashMailed ==
  ASSUME MailKnown, WorkerCrash
  PROVE  MailedInvariant'
<1>0. /\ rows'.live = rows.live /\ mail'.live = mail.live /\ mailed' = mailed /\ crashes' > 0
      /\ mail' = Discard(mail, Runs \cup Tasks) /\ mail \in Tables(MailJobs, MailStatus, Sessions)
  BY CrashesAssumption DEF WorkerCrash, Discarded, Discard, MailKnown, RowKnown, Known, Held, Typed, TablesTyped
<1> SUFFICES ASSUME NEW r \in Kept PROVE MailedFits(r)'
  <2>1. Kept' = Kept
    BY KeptFacts DEF WorkerCrash
  <2> QED
    BY <2>1 DEF MailedInvariant
<1>1. PICK n \in Steps : n = rows.live[r].step
  BY RowTypes, KeptFacts DEF MailKnown, RowKnown
<1>2. MailedFits(r)
  BY DEF MailKnown, MailedInvariant
<1>3. Recorded(r, n)' => Recorded(r, n)
  <2>1. PICK j \in MailJobs : j = Job(r, n)
    BY JobFacts, KeptFacts
  <2>2. mail'.lock[j] \notin Tasks
    BY <1>0, DiscardRow, Apart
  <2> QED
    BY <1>0, <2>1, <2>2 DEF Recorded
<1> QED
  BY <1>0, <1>1, <1>2, <1>3 DEF MailedFits, NextIs, LastIs, Recorded

(***************************************************************************)
(* Nobody is mailed a step without the one before it: what a session keeps *)
(* of a row it has read is no more than has been mailed.                   *)
(***************************************************************************)
MailGrows ==
  \/ mailed' = mailed
  \/ \E r \in Recipients, n \in Steps : mailed' = [mailed EXCEPT ![r] = Append(@, n)]

\* What a step leaves in a place was there before it, or tells of mails that have left.
RowTold(r) ==
  /\ rows'.live[r] \in {rows.live[r], rows.next[r]}
  /\ rows'.next[r] \in {rows.live[r], rows.next[r]} \/ SentMailed(r, rows.next[r])'

EditTold(s) ==
  Editing(s)' =>
    \/ Editing(s) /\ edit'[s].who = edit[s].who /\ edit'[s].new = edit[s].new
    \/ SentMailed(edit[s].who, edit[s].new)'

RunTold(s) ==
  \A r \in DOMAIN run'[s].listed :
    \/ r \in DOMAIN run[s].listed /\ run'[s].listed[r] = run[s].listed[r]
    \/ SentMailed(r, run[s].listed[r])'

TaskDone(t) == task[t].pc \in {"state", "commit"} /\ task[t].result = "SENT"

TaskTold(t) ==
  TaskDone(t)' =>
    \/ TaskDone(t) /\ task'[t].job = task[t].job
    \/ WasMailed(task[t].job.to, task[t].job.step)'

JobTold(j) ==
  /\ mail'.live[j] \in {mail.live[j], mail.next[j]}
  /\ \/ mail'.next[j] = Absent \/ mail.next[j] # Absent \/ mail.live[j] # Absent
     \/ j.step > 0 => WasMailed(j.to, j.step - 1)'

SessionsTold == (\A s \in Sessions : EditTold(s)) /\ (\A s \in Runs : RunTold(s)) /\ \A t \in Tasks : TaskTold(t)
TablesTold == (\A r \in Recipients : RowTold(r)) /\ \A j \in MailJobs : JobTold(j)

\* What was mailed stays mailed.
LEMMA StillMailed ==
  ASSUME Typed, MailGrows, NEW r \in Recipients, NEW n, WasMailed(r, n)
  PROVE  WasMailed(r, n)'
<1>0. mailed \in [Recipients -> Seq(Steps)]
  BY DEF Typed, SessionTypes
<1>1. PICK i \in 1..Len(mailed[r]) : mailed[r][i] = n
  BY DEF WasMailed
<1>2. CASE mailed' = mailed
  BY <1>2 DEF WasMailed
<1>3. ASSUME NEW x \in Recipients, NEW k \in Steps, mailed' = [mailed EXCEPT ![x] = Append(@, k)]
      PROVE  WasMailed(r, n)'
  <2>1. CASE x # r
    <3>1. mailed'[r] = mailed[r]
      BY <1>0, <1>3, <2>1
    <3> QED
      BY <3>1 DEF WasMailed
  <2>2. CASE x = r
    <3>1. PICK m \in Seq(Steps) : m = mailed[r] /\ mailed'[r] = Append(m, k)
      BY <1>0, <1>3, <2>2
    <3>2. i \in 1..Len(Append(m, k)) /\ Append(m, k)[i] = n
      BY <1>1, <3>1
    <3> QED
      BY <3>1, <3>2 DEF WasMailed
  <2> QED
    BY <2>1, <2>2
<1> QED
  BY <1>2, <1>3 DEF MailGrows

\* A row that tells of mails that have left does so still.
LEMMA StillTold ==
  ASSUME Typed, MailGrows, NEW r \in Recipients
  PROVE  /\ \A row : SentMailed(r, row) => \A n \in Steps : row.statuses[n] = "SENT" => WasMailed(r, n)'
         /\ \A n : WasMailed(r, n) => WasMailed(r, n)'
  BY StillMailed DEF SentMailed

\* A step that puts nothing else anywhere keeps what is known of earlier mails.
LEMMA EarlierStep ==
  ASSUME MailKnown, MailGrows, SessionsTold, TablesTold
  PROVE  EarlierMailed'
<1>0. Typed /\ EarlierMailed
  BY DEF MailKnown, RowKnown, Known, Held
<1>1. ASSUME NEW r \in Recipients PROVE SentMailed(r, rows.live[r])' /\ SentMailed(r, rows.next[r])'
  <2>1. RowTold(r) /\ SentMailed(r, rows.live[r]) /\ SentMailed(r, rows.next[r])
    BY <1>0 DEF TablesTold, EarlierMailed
  <2> QED
    BY <1>0, <2>1, StillTold DEF RowTold, SentMailed
<1>2. ASSUME NEW s \in Sessions, Editing(s)' PROVE SentMailed(edit[s].who, edit[s].new)'
  <2>1. EditTold(s) /\ (Editing(s) => SentMailed(edit[s].who, edit[s].new) /\ edit[s].who \in Recipients)
    BY <1>0 DEF SessionsTold, EarlierMailed, Typed, SessionsFit, EditFits
  <2> QED
    BY <1>0, <1>2, <2>1, StillTold DEF EditTold, SentMailed
<1>3. ASSUME NEW s \in Runs, NEW r \in DOMAIN run'[s].listed PROVE SentMailed(r, run[s].listed[r])'
  <2>1. RunTold(s) /\ \A x \in DOMAIN run[s].listed : SentMailed(x, run[s].listed[x]) /\ x \in Recipients
    <3>1. run[s].listed \in Listings
      BY <1>0 DEF Typed, SessionTypes, RunRecords
    <3> QED
      BY <1>0, <3>1, ListingFacts DEF SessionsTold, EarlierMailed
  <2> QED
    BY <1>0, <2>1, StillTold DEF RunTold, SentMailed
<1>4. ASSUME NEW t \in Tasks, TaskDone(t)' PROVE WasMailed(task[t].job.to, task[t].job.step)'
  <2>1. /\ TaskTold(t)
        /\ TaskDone(t) => WasMailed(task[t].job.to, task[t].job.step) /\ task[t].job.to \in Recipients
    <3>1. TaskDone(t) => task[t].job \in MailJobs
      BY <1>0 DEF TaskDone, Typed, SessionsFit, TaskFits
    <3> QED
      BY <1>0, <3>1, Jobs DEF SessionsTold, EarlierMailed, TaskDone
  <2> QED
    BY <1>0, <1>4, <2>1, StillTold DEF TaskTold
<1>5. ASSUME NEW j \in MailJobs, mail'.live[j] # Absent \/ mail'.next[j] # Absent, j.step > 0
      PROVE  WasMailed(j.to, j.step - 1)'
  <2>1. JobTold(j) /\ j.to \in Recipients
    BY Jobs DEF TablesTold
  <2>2. mail.live[j] # Absent \/ mail.next[j] # Absent => WasMailed(j.to, j.step - 1)
    BY <1>0, <1>5 DEF EarlierMailed
  <2> QED
    BY <1>0, <1>5, <2>1, <2>2, StillTold DEF JobTold
<1> QED
  BY <1>1, <1>2, <1>3, <1>4, <1>5 DEF EarlierMailed, TaskDone

\* What stays, ends or is forgotten tells nothing new.
LEMMA ToldFacts ==
  ASSUME MailKnown
  PROVE  /\ UNCHANGED rows => \A r \in Recipients : RowTold(r)
         /\ UNCHANGED mail => \A j \in MailJobs : JobTold(j)
         /\ \A s : edit'[s] \in {edit[s], NoEdit} => EditTold(s)
         /\ \A s : run'[s] \in {run[s], IdleRun} => RunTold(s)
         /\ \A t : task'[t] \in {task[t], IdleTask} => TaskTold(t)
         /\ \A s : CommitTables(s) => TablesTold
         /\ \A E : Discarded(E) => TablesTold
<1>0. /\ rows \in Tables(Recipients, RecipientRow, Sessions)
      /\ mail \in Tables(MailJobs, MailStatus, Sessions)
  BY DEF MailKnown, RowKnown, Known, Held, Typed, TablesTyped
<1>1. UNCHANGED rows => \A r \in Recipients : RowTold(r)
  BY DEF RowTold
<1>2. UNCHANGED mail => \A j \in MailJobs : JobTold(j)
  BY DEF JobTold
<1>3. ASSUME NEW s, edit'[s] \in {edit[s], NoEdit} PROVE EditTold(s)
  BY <1>3, EditRecordFacts DEF EditTold, Editing
<1>4. ASSUME NEW s, run'[s] \in {run[s], IdleRun} PROVE RunTold(s)
  <2>1. DOMAIN IdleRun.listed = {}
    BY DEF IdleRun
  <2> QED
    BY <1>4, <2>1 DEF RunTold
<1>5. ASSUME NEW t, task'[t] \in {task[t], IdleTask} PROVE TaskTold(t)
  <2>1. IdleTask.pc = "idle"
    BY DEF IdleTask
  <2> QED
    BY <1>5, <2>1 DEF TaskTold, TaskDone
<1>6. ASSUME NEW s, CommitTables(s) PROVE TablesTold
  BY <1>0, <1>6, PublishRow DEF CommitTables, TablesTold, RowTold, JobTold
<1>7. ASSUME NEW E, Discarded(E) PROVE TablesTold
  BY <1>0, <1>7, DiscardRow DEF Discarded, TablesTold, RowTold, JobTold
<1> QED
  BY <1>1, <1>2, <1>3, <1>4, <1>5, <1>6, <1>7

\* A run lists the rows as they are, and inserts a job only after a step that was sent.
LEMMA RunEarlier ==
  ASSUME MailKnown, NEW s \in Runs, RunStep(s)
  PROVE  EarlierMailed'
<1>0. /\ s \in Sessions /\ Typed /\ EarlierMailed /\ run[s] \in RunRecords /\ run[s].listed \in Listings
      /\ run \in [Runs -> RunRecords] /\ edit \in [Sessions -> EditRecords]
      /\ rows \in Tables(Recipients, RecipientRow, Sessions)
      /\ mail \in Tables(MailJobs, MailStatus, Sessions)
  BY Apart DEF MailKnown, RowKnown, Known, Held, Typed, SessionTypes, TablesTyped, RunRecords
<1>1. UNCHANGED <<mailed, task>> /\ MailGrows
  BY DEF RunStep, SchedulerStep, StartRun, CountActive, CompleteSequence, PassOver, FinishRecipient,
     Advance, SweepCountsLive, SweepCompletes, CommitRun, counted, MailGrows
<1>2. \A r, n : WasMailed(r, n)' <=> WasMailed(r, n)
  BY <1>1 DEF WasMailed
<1>3. \A t \in Tasks : TaskTold(t)
  BY <1>1, ToldFacts
<1>4. ASSUME UNCHANGED edit, RunTold(s), \A x \in Runs : x # s => run'[x] = run[x], TablesTold
      PROVE  EarlierMailed'
  <2>1. \A x \in Sessions : EditTold(x)
    BY <1>4, ToldFacts
  <2>2. \A x \in Runs : RunTold(x)
    BY <1>4, ToldFacts
  <2> QED
    BY <1>1, <1>3, <1>4, <2>1, <2>2, EarlierStep DEF SessionsTold
<1>5. CASE StartRun(s)
  <2>1. /\ UNCHANGED <<rows, mail, edit>> /\ \A x \in Runs : x # s => run'[x] = run[x]
        /\ run'[s].listed = [r \in ActiveFor(s) |-> View(rows, s, r)]
    BY <1>0, <1>5 DEF StartRun, tables
  <2>2. ASSUME NEW r \in Recipients PROVE SentMailed(r, View(rows, s, r))
    BY <1>0 DEF EarlierMailed, View
  <2>3. RunTold(s)
    <3>1. ASSUME NEW r \in DOMAIN run'[s].listed PROVE SentMailed(r, run[s].listed[r])'
      <4>1. r \in Recipients /\ run'[s].listed[r] = View(rows, s, r)
        BY <2>1, <3>1 DEF ActiveFor
      <4> QED
        BY <1>2, <2>2, <4>1 DEF SentMailed
    <3> QED
      BY <3>1 DEF RunTold
  <2> QED
    BY <1>4, <2>1, <2>3, ToldFacts DEF TablesTold
<1>6. CASE CountActive(s) \/ CompleteSequence(s) \/ SweepCountsLive(s) \/ SweepCompletes(s)
  <2>1. /\ UNCHANGED <<rows, mail, edit>> /\ \A x \in Runs : x # s => run'[x] = run[x]
        /\ run'[s].listed = run[s].listed
    BY <1>0, <1>6 DEF CountActive, CompleteSequence, SweepCountsLive, SweepCompletes, tables, RunRecords
  <2> QED
    BY <1>4, <2>1, ToldFacts DEF TablesTold, RunTold
<1>7. ASSUME NEW r \in Recipients, PassOver(s, r) \/ FinishRecipient(s, r) \/ Advance(s, r)
      PROVE  /\ \A x \in Runs : x # s => run'[x] = run[x]
             /\ RunTold(s) /\ SentMailed(r, Listed(s, r)) /\ Listed(s, r) \in RecipientRow
  <2>1. Visiting(s, r) /\ Visited(s, r)
    BY <1>7 DEF PassOver, FinishRecipient, Advance
  <2>2. run'[s].listed = Without(run[s].listed, r) /\ \A x \in Runs : x # s => run'[x] = run[x]
    BY <1>0, <2>1 DEF Visited, RunRecords
  <2> QED
    BY <1>0, <2>1, <2>2, VisitFacts DEF RunTold, Without, Visiting, Listed, EarlierMailed
<1>8. ASSUME NEW r \in Recipients, PassOver(s, r) PROVE EarlierMailed'
  BY <1>4, <1>7, <1>8, ToldFacts DEF PassOver, tables, TablesTold
<1>9. ASSUME NEW r \in Recipients, FinishRecipient(s, r) PROVE EarlierMailed'
  <2>1. /\ UNCHANGED <<rows, mail>>
        /\ edit' = [edit EXCEPT ![s] = [at |-> "select", who |-> r,
                      new |-> [Listed(s, r) EXCEPT !.completed = TRUE], base |-> None]]
    BY <1>9 DEF FinishRecipient, Edit, tables
  <2>2. edit'[s].who = r /\ edit'[s].new.statuses = Listed(s, r).statuses
    BY <1>0, <1>7, <1>9, <2>1 DEF RecipientRow
  <2>3. EditTold(s)
    BY <1>2, <1>7, <1>9, <2>2 DEF EditTold, SentMailed
  <2>4. \A x \in Sessions : EditTold(x)
    <3>1. \A x \in Sessions : x # s => edit'[x] = edit[x]
      BY <1>0, <2>1
    <3> QED
      BY <2>3, <3>1, ToldFacts
  <2>5. \A x \in Runs : RunTold(x)
    BY <1>7, <1>9, ToldFacts
  <2> QED
    BY <1>1, <1>3, <2>1, <2>4, <2>5, ToldFacts, EarlierStep DEF SessionsTold, TablesTold
<1>10. ASSUME NEW r \in Recipients, Advance(s, r) PROVE EarlierMailed'
  <2>1. PICK e \in RecipientRow : e = Listed(s, r) /\ SentMailed(r, e)
    BY <1>7, <1>10
  <2>2. PICK n \in Steps, next \in Steps :
          n = e.step /\ next = n + 1 /\ e.statuses[n] = "SENT" /\ next - 1 = n
    <3>1. e.step \in Steps /\ e.step < LastStep /\ e.statuses[e.step] = "SENT"
      BY <1>10, <2>1, RowFacts DEF Advance, StepSent
    <3> QED
      BY <3>1, Jobs
  <2>3. /\ UNCHANGED edit
        /\ rows' = Put(rows, s, r, [e EXCEPT !.step = next, !.statuses[next] = "SCHEDULED"])
        /\ \E job \in NewCopy(r, next) : mail' = Put(mail, s, job, "PENDING")
    BY <1>10, <2>1, <2>2 DEF Advance
  <2>4. PICK job \in MailJobs : job.to = r /\ job.step = next /\ mail' = Put(mail, s, job, "PENDING")
    BY <2>3 DEF NewCopy
  <2>5. WasMailed(r, n)'
    BY <1>2, <2>1, <2>2 DEF SentMailed
  <2>6. ASSUME NEW j \in MailJobs PROVE JobTold(j)
    <3>1. mail'.live = mail.live /\ (j # job => mail'.next[j] = mail.next[j])
      BY <1>0, <2>4 DEF Put, Tables
    <3> QED
      BY <2>2, <2>4, <2>5, <3>1 DEF JobTold
  <2>7. ASSUME NEW x \in Recipients PROVE RowTold(x)
    <3>1. /\ rows'.live = rows.live /\ (x # r => rows'.next[x] = rows.next[x])
          /\ rows'.next[r] = [e EXCEPT !.step = next, !.statuses[next] = "SCHEDULED"]
      BY <1>0, <2>3 DEF Put, Tables
    <3>2. \A m \in Steps : rows'.next[r].statuses[m] = "SENT" => e.statuses[m] = "SENT"
      <4>1. PICK row : row = [e EXCEPT !.step = next, !.statuses[next] = "SCHEDULED"]
        OBVIOUS
      <4>2. row.statuses = [e.statuses EXCEPT ![next] = "SCHEDULED"] /\ e.statuses \in [Steps -> StepStatus]
        BY <4>1 DEF RecipientRow
      <4> QED
        BY <3>1, <4>1, <4>2
    <3>3. SentMailed(r, rows.next[r])'
      BY <1>2, <2>1, <3>2 DEF SentMailed
    <3> QED
      BY <3>1, <3>3 DEF RowTold
  <2> QED
    BY <1>4, <1>7, <1>10, <2>3, <2>6, <2>7 DEF TablesTold
<1>11. CASE CommitRun(s)
  <2>1. CommitTables(s) /\ run' = [run EXCEPT ![s] = IdleRun] /\ UNCHANGED edit
    BY <1>11 DEF CommitRun
  <2> QED
    BY <1>0, <1>4, <2>1, ToldFacts
<1> QED
  BY <1>5, <1>6, <1>8, <1>9, <1>10, <1>11 DEF RunStep, SchedulerStep

\* A task records as sent what it has mailed.
LEMMA TaskEarlier ==
  ASSUME MailKnown, NEW t \in Tasks, TaskStep(t)
  PROVE  EarlierMailed'
<1>0. /\ t \in Sessions /\ Typed /\ EarlierMailed /\ task[t] \in TaskRecords /\ TaskFits(t)
      /\ task \in [Tasks -> TaskRecords] /\ edit \in [Sessions -> EditRecords]
      /\ rows \in Tables(Recipients, RecipientRow, Sessions)
      /\ mail \in Tables(MailJobs, MailStatus, Sessions)
      /\ mailed \in [Recipients -> Seq(Steps)]
  BY Apart DEF MailKnown, RowKnown, Known, Held, Typed, SessionTypes, SessionsFit, TablesTyped
<1>1. UNCHANGED run /\ \A s \in Runs : RunTold(s)
  <2>1. UNCHANGED run
    BY DEF TaskStep, TakeCall, ClaimFails, Deliver, ReadState, CommitTask
  <2> QED
    BY <2>1, ToldFacts
<1>2. \A x \in Tasks : x # t => task'[x] = task[x]
  BY <1>0 DEF TaskStep, TakeCall, ClaimFails, Deliver, ReadState, CommitTask
<1>3. ASSUME UNCHANGED edit, MailGrows, TaskTold(t), TablesTold PROVE EarlierMailed'
  <2>1. \A x \in Tasks : TaskTold(x)
    BY <1>2, <1>3, ToldFacts
  <2>2. \A s \in Sessions : EditTold(s)
    BY <1>3, ToldFacts
  <2> QED
    BY <1>1, <1>3, <2>1, <2>2, EarlierStep DEF SessionsTold
<1>4. ASSUME NEW j \in MailJobs, TakeCall(t, j) PROVE EarlierMailed'
  <2>1. UNCHANGED <<rows, mail, edit, mailed>> /\ (task'[t] = task[t] \/ task'[t].pc = "claim")
    BY <1>0, <1>4 DEF TakeCall, tables
  <2>2. TaskTold(t)
    BY <2>1, ToldFacts DEF TaskTold, TaskDone
  <2> QED
    BY <1>3, <2>1, <2>2, ToldFacts DEF TablesTold, MailGrows
<1>5. CASE ClaimFails(t)
  <2>1. UNCHANGED <<rows, mail, edit, mailed>> /\ task'[t] = IdleTask
    BY <1>0, <1>5 DEF ClaimFails, tables
  <2> QED
    BY <1>3, <2>1, ToldFacts DEF TablesTold, MailGrows
<1>6. ASSUME NEW o \in Outcomes, Deliver(t, o) PROVE EarlierMailed'
  <2>1. PICK j \in MailJobs :
          /\ j = task[t].job /\ j.to \in Recipients /\ j.step \in Steps
          /\ mail.live[j] = "PENDING"
    BY <1>6, MailTurn
  <2>2. UNCHANGED <<rows, edit>> /\ \E m : mail' = Put(mail, t, j, m)
    BY <1>6, <2>1 DEF Deliver
  <2>3. \A x \in MailJobs : JobTold(x)
    BY <1>0, <2>1, <2>2 DEF JobTold, Put, Tables, Absent
  <2>4. CASE o = "accepted"
    <3>1. mailed' = [mailed EXCEPT ![j.to] = Append(@, j.step)] /\ task'[t].job = j
      BY <1>0, <1>6, <2>1, <2>4 DEF Deliver
    <3>2. MailGrows
      BY <2>1, <3>1 DEF MailGrows
    <3>3. WasMailed(j.to, j.step)'
      <4>1. PICK m \in Seq(Steps) : m = mailed[j.to] /\ mailed'[j.to] = Append(m, j.step)
        BY <1>0, <2>1, <3>1
      <4>2. Len(Append(m, j.step)) = Len(m) + 1 /\ Append(m, j.step)[Len(m) + 1] = j.step
        BY <2>1
      <4>3. Len(m) + 1 \in 1..Len(Append(m, j.step))
        BY <4>2
      <4> QED
        BY <4>1, <4>2, <4>3 DEF WasMailed
    <3>4. TaskTold(t)
      BY <3>1, <3>3 DEF TaskTold
    <3> QED
      BY <1>3, <2>2, <2>3, <3>2, <3>4, ToldFacts DEF TablesTold
  <2>5. CASE o # "accepted"
    <3>1. mailed' = mailed /\ task'[t].result = "FAILED"
      BY <1>0, <1>6, <2>5 DEF Deliver
    <3>2. TaskTold(t)
      BY <3>1 DEF TaskTold, TaskDone
    <3> QED
      BY <1>3, <2>2, <2>3, <3>1, <3>2, ToldFacts DEF TablesTold, MailGrows
  <2> QED
    BY <2>4, <2>5
<1>7. CASE ReadState(t)
  <2>1. PICK j \in MailJobs : j = task[t].job /\ task[t].pc = "state" /\ task[t].result \in {"SENT", "FAILED"}
    BY <1>0, <1>7 DEF ReadState, TaskFits
  <2>2. j.to \in Recipients /\ j.step \in Steps
    BY Jobs
  <2>3. PICK row \in RecipientRow : row = View(rows, t, j.to) /\ SentMailed(j.to, row)
    <3>1. View(rows, t, j.to) \in {rows.live[j.to], rows.next[j.to]}
      BY DEF View
    <3>2. \A row \in {rows.live[j.to], rows.next[j.to]} : SentMailed(j.to, row)
      BY <1>0, <2>2 DEF EarlierMailed
    <3>3. View(rows, t, j.to) \in RecipientRow
      BY <1>0, <2>2, ViewRow
    <3> QED
      BY <3>1, <3>2, <3>3
  <2>4. PICK new : new = [row EXCEPT !.statuses[j.step] = task[t].result]
    OBVIOUS
  <2>5. /\ UNCHANGED <<rows, mail, mailed>> /\ task' = [task EXCEPT ![t].pc = "commit"]
        /\ edit' = [edit EXCEPT ![t] = [at |-> "select", who |-> j.to, new |-> new, base |-> None]]
    BY <1>7, <2>1, <2>3, <2>4 DEF ReadState, Edit, tables
  <2>6. \A r, n : WasMailed(r, n)' <=> WasMailed(r, n)
    BY <2>5 DEF WasMailed
  <2>7. task'[t].result = task[t].result /\ task'[t].job = task[t].job
    BY <1>0, <2>5 DEF TaskRecords
  <2>8. task[t].result = "SENT" => WasMailed(j.to, j.step)
    BY <1>0, <2>1 DEF EarlierMailed
  <2>9. edit'[t].who = j.to /\ edit'[t].new = new
    BY <1>0, <2>5
  <2>10. SentMailed(j.to, new)'
    <3>1. \A n \in Steps : new.statuses[n] = IF n = j.step THEN task[t].result ELSE row.statuses[n]
      <4>1. /\ new.statuses = [row.statuses EXCEPT ![j.step] = task[t].result]
            /\ row.statuses \in [Steps -> StepStatus]
        BY <2>3, <2>4 DEF RecipientRow
      <4> QED
        BY <4>1
    <3> QED
      BY <2>3, <2>6, <2>8, <3>1 DEF SentMailed
  <2>11. \A s \in Sessions : EditTold(s)
    <3>1. \A s \in Sessions : s # t => edit'[s] = edit[s]
      BY <1>0, <2>5
    <3>2. EditTold(t)
      BY <2>9, <2>10 DEF EditTold, SentMailed
    <3> QED
      BY <3>1, <3>2, ToldFacts
  <2>12. \A x \in Tasks : TaskTold(x)
    <3>1. TaskTold(t)
      BY <2>1, <2>7 DEF TaskTold, TaskDone
    <3> QED
      BY <1>2, <3>1, ToldFacts
  <2> QED
    BY <1>1, <2>5, <2>11, <2>12, ToldFacts, EarlierStep DEF SessionsTold, TablesTold, MailGrows
<1>8. CASE CommitTask(t)
  <2>1. CommitTables(t) /\ UNCHANGED <<edit, mailed>> /\ task'[t] = IdleTask
    BY <1>0, <1>8 DEF CommitTask
  <2> QED
    BY <1>3, <2>1, ToldFacts DEF MailGrows
<1> QED
  BY <1>4, <1>5, <1>6, <1>7, <1>8 DEF TaskStep

\* What an update writes, it has read from the row or was given.
LEMMA EditEarlier ==
  ASSUME MailKnown, NEW s \in Sessions, EditStep(s) \/ WriteFails(s)
  PROVE  EarlierMailed'
<1>0. /\ RowKnown /\ Typed /\ EarlierMailed /\ EditFits(s)
      /\ edit \in [Sessions -> EditRecords] /\ run \in [Runs -> RunRecords] /\ task \in [Tasks -> TaskRecords]
      /\ rows \in Tables(Recipients, RecipientRow, Sessions)
  BY DEF MailKnown, RowKnown, Known, Held, Typed, SessionTypes, SessionsFit, TablesTyped
<1>1. mailed' = mailed /\ MailGrows
  BY DEF EditStep, SelectRow, WriteRow, WriteFails, MailGrows
<1>2. \A r, n : WasMailed(r, n)' <=> WasMailed(r, n)
  BY <1>1 DEF WasMailed
<1>3. CASE SelectRow(s)
  <2>1. /\ UNCHANGED <<rows, mail, run, task>> /\ Editing(s)
        /\ edit' = [edit EXCEPT ![s] = [@ EXCEPT !.at = "write", !.base = View(rows, s, edit[s].who)]]
    BY <1>3 DEF SelectRow, tables, actors, Editing
  <2>2. /\ edit'[s].who = edit[s].who /\ edit'[s].new = edit[s].new
        /\ \A x \in Sessions : x # s => edit'[x] = edit[x]
    BY <1>0, <2>1 DEF EditRecords
  <2>3. \A x \in Sessions : EditTold(x)
    BY <2>1, <2>2, ToldFacts DEF EditTold
  <2> QED
    BY <1>1, <2>1, <2>3, ToldFacts, EarlierStep DEF SessionsTold, TablesTold
<1>4. CASE WriteRow(s)
  <2>1. Editing(s) /\ edit[s].at = "write"
    BY <1>4 DEF WriteRow, Editing
  <2>2. PICK r \in Recipients, new \in RecipientRow, base \in RecipientRow :
          r = edit[s].who /\ new = edit[s].new /\ base = edit[s].base /\ SentMailed(r, new)
    BY <1>0, <2>1 DEF EditFits, EarlierMailed
  <2>3. PICK live \in RecipientRow : live = View(rows, s, r) /\ SentMailed(r, live)
    BY <1>0, <2>2, ViewRow DEF EarlierMailed, View
  <2>4. PICK row :
          row = IF Stamped(s) THEN [Changed(live, base, new) EXCEPT !.statuses = new.statuses]
                ELSE Changed(live, base, new)
    OBVIOUS
  <2>5. row.statuses = new.statuses \/ row.statuses = live.statuses
    <3>1. Changed(live, base, new).statuses \in {new.statuses, live.statuses}
      BY DEF Changed, RecipientRow
    <3>2. "statuses" \in DOMAIN Changed(live, base, new)
      BY DEF Changed, RecipientRow
    <3> QED
      BY <2>4, <3>1, <3>2
  <2>6. /\ rows' = Put(rows, s, r, row) /\ edit' = [edit EXCEPT ![s] = NoEdit]
        /\ UNCHANGED <<mail, run, task>>
    BY <1>4, <2>2, <2>3, <2>4 DEF WriteRow, actors
  <2>7. ASSUME NEW x \in Recipients PROVE RowTold(x)
    <3>1. /\ rows'.live = rows.live /\ (x # r => rows'.next[x] = rows.next[x])
          /\ rows'.next[r] = row
      BY <1>0, <2>6 DEF Put, Tables
    <3>2. SentMailed(r, rows.next[r])'
      BY <1>2, <2>2, <2>3, <2>5, <3>1 DEF SentMailed
    <3> QED
      BY <3>1, <3>2 DEF RowTold
  <2>8. \A x \in Sessions : EditTold(x)
    <3>1. \A x \in Sessions : edit'[x] \in {edit[x], NoEdit}
      BY <1>0, <2>6
    <3> QED
      BY <3>1, ToldFacts
  <2> QED
    BY <1>1, <2>6, <2>7, <2>8, ToldFacts, EarlierStep DEF SessionsTold, TablesTold
<1>5. CASE WriteFails(s)
  <2>1. /\ Discarded({s}) /\ \A x \in Sessions : edit'[x] \in {edit[x], NoEdit}
        /\ \A x \in Runs : run'[x] \in {run[x], IdleRun}
        /\ \A x \in Tasks : task'[x] \in {task[x], IdleTask}
    BY <1>0, <1>5 DEF WriteFails
  <2> QED
    BY <1>1, <2>1, ToldFacts, EarlierStep DEF SessionsTold
<1> QED
  BY <1>3, <1>4, <1>5 DEF EditStep

\* A request of the campaign writes only to jobs that are there, and to no row.
LEMMA RequestEarlier ==
  ASSUME Campaigned, MailKnown, NEW q \in Requests, RequestArrives(q) \/ RequestStep(q)
  PROVE  EarlierMailed'
<1>0. /\ q \in Sessions /\ RequestsAside(q) /\ RowKnown /\ Held /\ ListedJobs(q) /\ RequestFits(q)
      /\ mail \in Tables(MailJobs, MailStatus, Sessions)
  BY Apart DEF MailKnown, RowKnown, Known, Held, MailHeld, Typed, TablesTyped, SessionsFit, RowInvariant
<1>1. \/ \E op \in SequenceOps : ReadCampaign(q, op)
      \/ ListMail(q) \/ (\E j \in MailJobs : SelectMail(q, j)) \/ UpdateMail(q)
      \/ WriteCampaign(q) \/ SnapshotMail(q) \/ CancelMail(q)
      \/ CommitCampaign(q) \/ EnqueuePlan(q)
  <2>1. (\E op \in SequenceOps : ReadCampaign(q, op)) \/ RequestStep(q)
    <3>1. CASE RequestArrives(q)
      BY <3>1, NoRecipientRequests DEF RequestArrives
    <3> QED
      BY <3>1
  <2> QED
    BY <1>0, <2>1 DEF RequestStep, CommitRecipients, UpdateRecipient, RequestsAside
<1>2. UNCHANGED <<edit, run, task, mailed>>
  BY <1>1 DEF ReadCampaign, ListMail, SelectMail, UpdateMail, WriteCampaign, SnapshotMail, CancelMail,
     CommitCampaign, EnqueuePlan
<1>3. SessionsTold /\ MailGrows
  BY <1>2, ToldFacts DEF SessionsTold, MailGrows
<1>4. ASSUME TablesTold PROVE EarlierMailed'
  BY <1>3, <1>4, EarlierStep
<1>5. CASE UpdateMail(q)
  <2>1. PICK j \in MailJobs : j = req[q].cur /\ mail.live[j] # Absent
    BY <1>0, <1>5 DEF UpdateMail, RequestFits, ListedJobs
  <2>2. UNCHANGED rows /\ \E m : mail' = Put(mail, q, j, m)
    BY <1>5, <2>1 DEF UpdateMail
  <2>3. \A x \in MailJobs : JobTold(x)
    BY <1>0, <2>1, <2>2 DEF JobTold, Put, Tables
  <2> QED
    BY <1>4, <2>2, <2>3, ToldFacts DEF TablesTold
<1>6. CASE CancelMail(q)
  <2>1. PICK J \in SUBSET LiveMail(q) : J = req[q].plan \cap LiveMail(q)
    OBVIOUS
  <2>2. UNCHANGED rows /\ mail' = PutAll(mail, q, J, "CANCELLED")
    BY <1>6, <2>1 DEF CancelMail
  <2>3. /\ mail'.live = mail.live
        /\ \A j \in MailJobs : j \notin J => mail'.next[j] = mail.next[j]
    BY <1>0, <2>2, PutAllRows DEF MailStatus
  <2>4. \A j \in J : mail.live[j] # Absent \/ mail.next[j] # Absent
    BY DEF LiveMail, View, Absent
  <2> QED
    BY <1>4, <2>2, <2>3, <2>4, ToldFacts DEF TablesTold, JobTold
<1>7. CASE WriteCampaign(q)
  BY <1>4, <1>7, ToldFacts DEF WriteCampaign, TablesTold
<1>8. CASE CommitCampaign(q)
  BY <1>4, <1>8, ToldFacts DEF CommitCampaign
<1>9. CASE \/ \E op \in SequenceOps : ReadCampaign(q, op)
           \/ ListMail(q) \/ (\E j \in MailJobs : SelectMail(q, j))
           \/ SnapshotMail(q) \/ EnqueuePlan(q)
  <2>1. UNCHANGED <<rows, mail>>
    BY <1>9 DEF ReadCampaign, ListMail, SelectMail, SnapshotMail, EnqueuePlan, tables
  <2> QED
    BY <1>4, <2>1, ToldFacts DEF TablesTold
<1> QED
  BY <1>1, <1>5, <1>6, <1>7, <1>8, <1>9

\* So does a crash, which only forgets.
LEMMA CrashEarlier ==
  ASSUME MailKnown, WorkerCrash
  PROVE  EarlierMailed'
<1>1. /\ Discarded(Runs \cup Tasks) /\ mailed' = mailed
      /\ \A s \in Sessions : edit'[s] \in {edit[s], NoEdit}
      /\ \A s \in Runs : run'[s] = IdleRun
      /\ \A t \in Tasks : task'[t] = IdleTask
  BY DEF WorkerCrash
<1> QED
  BY <1>1, ToldFacts, EarlierStep DEF SessionsTold, MailGrows

\* Every step keeps what is known of the mails.
LEMMA StepMailed == Campaigned /\ MailKnown /\ [Next]_vars => MailKnown'
<1> SUFFICES ASSUME Campaigned, MailKnown, [Next]_vars PROVE MailedInvariant' /\ EarlierMailed'
  BY StepRows DEF MailKnown
<1>k. Kept' \subseteq Kept
  BY KeptStep
<1>1. ASSUME UNCHANGED <<rows, mail, edit, run, task, mailed, crashes>>
      PROVE  MailedInvariant' /\ EarlierMailed'
  <2>1. MailedInvariant'
    BY <1>1, <1>k, MailedKept DEF Written
  <2>2. EarlierMailed'
    BY <1>1, ToldFacts, EarlierStep DEF SessionsTold, TablesTold, MailGrows
  <2> QED
    BY <2>1, <2>2
<1>2. ASSUME NEW r \in Recipients, NEW n \in Steps, WaitOver(r, n) PROVE MailedInvariant' /\ EarlierMailed'
  BY <1>1, <1>2 DEF WaitOver, tables, counted, actors
<1>3. CASE UNCHANGED vars
  BY <1>1, <1>3 DEF vars, tables, counted, actors
<1>4. CASE Next
  <2>1. ASSUME NEW s \in Runs, RunStep(s) PROVE MailedInvariant' /\ EarlierMailed'
    BY <2>1, RunMailed, RunEarlier
  <2>2. ASSUME NEW t \in Tasks, TaskStep(t) PROVE MailedInvariant' /\ EarlierMailed'
    BY <2>2, TaskMailed, TaskEarlier
  <2>3. ASSUME NEW q \in Requests, RequestArrives(q) \/ RequestStep(q)
        PROVE  MailedInvariant' /\ EarlierMailed'
    BY <1>k, <2>3, RequestMailed, RequestEarlier
  <2>4. ASSUME NEW s \in Sessions, EditStep(s) \/ WriteFails(s) PROVE MailedInvariant' /\ EarlierMailed'
    BY <2>4, EditMailed, EditEarlier
  <2>5. CASE WorkerCrash
    BY <2>5, CrashMailed, CrashEarlier
  <2> QED
    BY <1>2, <1>4, <2>1, <2>2, <2>3, <2>4, <2>5 DEF Next
<1> QED
  BY <1>3, <1>4

\* At first nothing has been mailed, and the first job is due.
LEMMA InitMailed == Init => MailKnown
<1> SUFFICES ASSUME Init PROVE MailedInvariant /\ EarlierMailed
  BY InitRows DEF MailKnown
<1>0. 0 \in Steps /\ \A n \in Steps : n \in Nat
  BY StepsAssumption DEF Steps
<1>1. ASSUME NEW r \in Kept PROVE MailedFits(r)
  <2>1. rows.live[r].step = 0 /\ mailed[r] = <<>> /\ r \in Recipients
    BY KeptFacts DEF Init, Committed, FirstRow
  <2>2. Job(r, 0) \in MailJobs /\ Job(r, 0) \in FirstJobs
    BY <1>0, <2>1, JobFacts DEF FirstJobs
  <2>3. mail.live[Job(r, 0)] = "PENDING" /\ mail.lock[Job(r, 0)] = Free
    BY <2>2 DEF Init, Committed
  <2> QED
    BY <2>1, <2>3, Apart DEF MailedFits, NextIs, Recorded
<1>2. \A r \in Recipients : SentMailed(r, rows.live[r]) /\ SentMailed(r, rows.next[r])
  BY DEF Init, Committed, FirstRow, SentMailed
<1>3. \A s \in Sessions : ~Editing(s)
  BY EditRecordFacts DEF Init, Editing
<1>4. \A s \in Runs : DOMAIN run[s].listed = {}
  BY DEF Init, IdleRun
<1>5. \A t \in Tasks : task[t].pc = "idle"
  BY DEF Init, IdleTask
<1>6. ASSUME NEW j \in MailJobs, j.step > 0 PROVE mail.live[j] = Absent /\ mail.next[j] = Absent
  <2>1. j \notin FirstJobs
    BY <1>0, <1>6, Jobs DEF FirstJobs
  <2> QED
    BY <2>1 DEF Init, Committed
<1> QED
  BY <1>1, <1>2, <1>3, <1>4, <1>5, <1>6 DEF MailedInvariant, EarlierMailed

\* Every step mails what may follow, notes a record as lost or a recipient as rewritten,
\* or is none of the promise's business.
PromiseStep ==
  \/ Promise!LoseRecord \/ Promise!TakeBack \/ \E r \in Recipients : Promise!Mail(r)
  \/ mailed' = mailed /\ crashes' = crashes /\ Rewritten' = Rewritten

LEMMA DeliverPromised ==
  ASSUME MailKnown, NEW t \in Tasks, NEW o \in Outcomes, Deliver(t, o)
  PROVE  PromiseStep
<1>0. mailed \in [Recipients -> Seq(Steps)]
  BY DEF MailKnown, RowKnown, Known, Held, Typed, SessionTypes
<1>1. PICK j \in MailJobs :
        /\ j = task[t].job /\ j.to \in Recipients /\ j.step \in Steps
        /\ j.step > 0 => WasMailed(j.to, j.step - 1)
        /\ j.to \in Kept => NextIs(j.to, j.step) \/ (LastIs(j.to, j.step) /\ crashes > 0)
  BY MailTurn
<1>2. crashes' = crashes /\ Rewritten' = Rewritten /\ (o # "accepted" => mailed' = mailed)
  BY DEF Deliver, counted, Rewritten
<1>3. ASSUME o = "accepted" PROVE Promise!Mail(j.to)
  <2>1. mailed' = [mailed EXCEPT ![j.to] = Append(@, j.step)]
    BY <1>1, <1>3 DEF Deliver
  <2>2. PICK m \in Seq(Steps) : m = mailed[j.to]
    BY <1>0, <1>1
  <2>3. PICK n \in Nat : n = j.step /\ n \in 0..LastStep
    BY <1>1, StepsAssumption DEF Steps
  <2>4. \A i \in 1..Len(m) : m[i] \in Nat
    BY StepsAssumption DEF Steps
  <2>5. Promise!Follows(j.to, n)
    <3>1. CASE j.to \in Kept
      <4>1. NextIs(j.to, n) \/ (LastIs(j.to, n) /\ crashes > 0)
        BY <1>1, <2>3, <3>1
      <4>2. \/ n = 0 /\ m = <<>>
            \/ m # <<>> /\ (n = m[Len(m)] + 1 \/ (crashes > 0 /\ n = m[Len(m)]))
        <5>1. m # <<>> => m[Len(m)] \in Nat
          <6>1. m # <<>> => Len(m) \in 1..Len(m)
            OBVIOUS
          <6> QED
            BY <2>4, <6>1
        <5> QED
          BY <2>2, <4>1, <5>1 DEF NextIs, LastIs
      <4> QED
        BY <2>2, <4>2 DEF Promise!Follows
    <3>2. CASE j.to \notin Kept
      <4>1. j.to \in Rewritten
        BY <1>1, <3>2 DEF Kept
      <4>2. n = 0 \/ \E i \in 1..Len(m) : n = m[i] + 1
        BY <1>1, <2>2, <2>3, <2>4 DEF WasMailed
      <4> QED
        BY <2>2, <4>1, <4>2 DEF Promise!Follows
    <3> QED
      BY <3>1, <3>2
  <2> QED
    BY <1>2, <2>1, <2>3, <2>5 DEF Promise!Mail
<1> QED
  BY <1>1, <1>2, <1>3 DEF PromiseStep

LEMMA OthersPromised ==
  ASSUME MailKnown, [Next]_vars, \A t \in Tasks, o \in Outcomes : ~Deliver(t, o)
  PROVE  PromiseStep
<1>0. reverted' = reverted => Rewritten' = Rewritten
  BY DEF Rewritten
<1>1. ASSUME UNCHANGED <<mailed, crashes, reverted>> PROVE PromiseStep
  BY <1>0, <1>1 DEF PromiseStep
<1>2. CASE WorkerCrash
  <2>1. mailed' = mailed /\ reverted' = reverted /\ crashes' > 0
    BY <1>2, CrashesAssumption DEF WorkerCrash, MailKnown, RowKnown, Known, Held, Typed, TablesTyped
  <2> QED
    BY <1>0, <2>1 DEF PromiseStep, Promise!LoseRecord
<1>3. ASSUME NEW q \in Requests, CommitCampaign(q) PROVE PromiseStep
  <2>1. mailed' = mailed /\ crashes' = crashes /\ reverted' = reverted \cup Overwritten(q)
    BY <1>3 DEF CommitCampaign
  <2>2. PICK R \in SUBSET Recipients : R = {j.to : j \in Overwritten(q)}
    BY Jobs DEF Overwritten
  <2>3. Rewritten' = Rewritten \cup R
    BY <2>1, <2>2 DEF Rewritten
  <2> QED
    BY <2>1, <2>3 DEF PromiseStep, Promise!TakeBack
<1>4. ASSUME NEW q \in Requests, RequestArrives(q) PROVE PromiseStep
  BY <1>1, <1>4 DEF RequestArrives, set_paused_all, set_replied, Apply, ReadRecipients, ReadCampaign, counted
<1>5. ASSUME NEW s \in Runs, RunStep(s) PROVE PromiseStep
  BY <1>1, <1>5 DEF RunStep, SchedulerStep, StartRun, CountActive, CompleteSequence, PassOver,
     FinishRecipient, Advance, SweepCountsLive, SweepCompletes, CommitRun, counted
<1>6. ASSUME NEW q \in Requests, RequestStep(q), ~CommitCampaign(q) PROVE PromiseStep
  BY <1>1, <1>6 DEF RequestStep, CommitRecipients, UpdateRecipient, ListMail, SelectMail, UpdateMail,
     WriteCampaign, SnapshotMail, CancelMail, EnqueuePlan, counted
<1>7. ASSUME NEW s \in Sessions, EditStep(s) \/ WriteFails(s) PROVE PromiseStep
  BY <1>1, <1>7 DEF EditStep, SelectRow, WriteRow, WriteFails, counted
<1>8. ASSUME NEW r \in Recipients, NEW n \in Steps, WaitOver(r, n) PROVE PromiseStep
  BY <1>1, <1>8 DEF WaitOver, counted
<1>9. ASSUME NEW t \in Tasks, TaskStep(t) PROVE PromiseStep
  BY <1>1, <1>9 DEF TaskStep, TakeCall, ClaimFails, ReadState, CommitTask, counted
<1>10. CASE UNCHANGED vars
  BY <1>1, <1>10 DEF vars, counted
<1> QED
  BY <1>2, <1>3, <1>4, <1>5, <1>6, <1>7, <1>8, <1>9, <1>10 DEF Next

\* Any number of scheduler runs and tasks mails every recipient the steps of the
\* sequence in order, and each of them once; after a crash the step whose turn it
\* was may come again, and no other (advance_step's WHERE, claim_pending).  Pause,
\* resume and cancel of the campaign may come at any time: a recipient a resume has
\* written a mail back of may be mailed old steps again, and even then none without
\* the one before it.
THEOREM StepsInOrderHolds == Campaigned => (Spec => StepsInOrder)
<1> SUFFICES ASSUME Campaigned PROVE Spec => StepsInOrder
  OBVIOUS
<1>1. Init => Promise!Init
  BY DEF Init, Promise!Init, Rewritten
<1>2. MailKnown /\ [Next]_vars =>
        [Promise!LoseRecord \/ Promise!TakeBack \/ \E r \in Recipients : Promise!Mail(r)]_<<mailed, crashes > 0, Rewritten>>
  <2> SUFFICES ASSUME MailKnown, [Next]_vars PROVE PromiseStep
    BY DEF PromiseStep
  <2>1. CASE \E t \in Tasks, o \in Outcomes : Deliver(t, o)
    BY <2>1, DeliverPromised
  <2> QED
    BY <2>1, OthersPromised
<1>3. MailKnown /\ [Next]_vars => MailKnown'
  BY StepMailed
<1> QED
  BY <1>1, <1>2, <1>3, InitMailed, PTL DEF Spec, StepsInOrder, Promise!Spec
=============================================================================
