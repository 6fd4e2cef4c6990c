-------------------------- MODULE DeliveryInvariant --------------------------
(***************************************************************************)
(* The inductive invariant behind SendingNeverCommitted and                *)
(* EverySendAccounted: who may hold a job's row, and what the row is while *)
(* it is held.                                                             *)
(***************************************************************************)
EXTENDS Delivery

\* A campaign row that is being written exists.
CampaignWritten(c) == camps.lock[c] # Free => camps.next[c].status # Absent

\* Jobs are inserted with their campaign; before that nobody holds them.
JobExists(j) ==
  camps.live[CampaignOf[j]].status = Absent => jobs.live[j] = Absent /\ jobs.lock[j] = Free

\* Cron jobs write no job rows.
JobHolder(j) == jobs.lock[j] \in Tasks \cup Requests \cup {Free}

\* A task holds no row but its own job's, which everybody else sees as PENDING
\* until the task commits.
HeldByTask(j) ==
  \A w \in Tasks : jobs.lock[j] = w =>
    /\ task[w].pc \notin {"idle", "campaign", "claim"}
    /\ JobAt(w) = j
    /\ jobs.live[j] = "PENDING"

\* A request holds rows it has cancelled, or rows a resume or a star has written
\* back as PENDING or as they were.
HeldByRequest(j) ==
  \A r \in Requests : jobs.lock[j] = r =>
    /\ req[r].pc \notin {"new", "list", "enqueue", "done"}
    /\ req[r].op \in {"cancel", "resume", "star"}
    /\ req[r].op = "cancel" => jobs.next[j] = "CANCELLED" /\ jobs.live[j] = "PENDING"
    /\ req[r].op # "cancel" => jobs.next[j] \in {"PENDING", jobs.live[j]}

\* A row is SENDING only under the claim of a task that is about to send.
SendingClaimed(j) ==
  jobs.next[j] = "SENDING" =>
    \E w \in Tasks : jobs.lock[j] = w /\ task[w].pc \in {"start", "limits"}

\* A task that is about to send has claimed its job.
ClaimHeld(w) ==
  task[w].pc \in {"start", "limits"} =>
    jobs.lock[JobAt(w)] = w /\ jobs.next[JobAt(w)] = "SENDING"

\* A request knows what it is doing, and only touches jobs that exist.
RequestKnows(r) ==
  /\ req[r].pc \in {"snapshot", "cancelling"} => req[r].op = "cancel"
  /\ req[r].pc = "list" => req[r].op = "resume"
  /\ req[r].pc \in {"select", "update"} => req[r].op \in {"resume", "star"}
  /\ \A j \in Jobs : j \in req[r].todo \/ j = req[r].cur =>
       camps.live[CampaignOf[j]].status # Absent

JobInv(j) ==
  /\ JobExists(j) /\ JobHolder(j)
  /\ HeldByTask(j) /\ HeldByRequest(j) /\ SendingClaimed(j)

\* Whoever holds a job's row holds it for a reason: the claim protocol of
\* delivery.py and the row locks of the API requests, as one invariant.
ClaimInvariant ==
  /\ \A c \in Campaigns : CampaignWritten(c)
  /\ \A j \in Jobs : JobInv(j)
  /\ \A w \in Tasks : ClaimHeld(w)
  /\ \A r \in Requests : RequestKnows(r)
=============================================================================
