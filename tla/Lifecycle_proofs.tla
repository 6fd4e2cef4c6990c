-------------------------- MODULE Lifecycle_proofs --------------------------
(***************************************************************************)
(* How a campaign goes on and ends.  Whoever completes or cancels it has   *)
(* seen to it that no job is left to send, so no mail of it leaves         *)
(* afterwards.  As long as no job is written back to PENDING, every write  *)
(* of a status by a task, a request or a cron run is a transition of       *)
(* domain/state_machine from the status it replaces.  What rests on that   *)
(* follows: auto-resume touches no pause of a user, and no job of a        *)
(* campaign that is being sent is forgotten.                               *)
(*                                                                         *)
(* The proofs go session by session.  What a session has made sure of      *)
(* stays true whatever the others do (OthersStay), so that each step is    *)
(* about the one session that takes it.                                    *)
(***************************************************************************)
EXTENDS Delivery_proofs

(***************************************************************************)
(* The inductive invariant behind EndedDrained and CancelStopsSending: who *)
(* may end a campaign, and what that session has made sure of before.      *)
(***************************************************************************)

Ended == {"COMPLETED", "CANCELLED"}

\* Nothing is left to do about job j, for everybody and as session s reads it.
Over(j) == jobs.live[j] \in TERMINAL_EMAIL_STATUSES \/ j \in reverted
SeenOver(s, j) == View(jobs, s, j) \in TERMINAL_EMAIL_STATUSES \/ j \in reverted

CampaignExists(c) == camps.live[c].status # Absent

\* The jobs of a campaign are inserted with it and are never deleted.
JobInserted(j) ==
  CampaignExists(CampaignOf[j]) => jobs.live[j] # Absent /\ jobs.next[j] # Absent

\* Only the row of an existing campaign is ever locked; an ended campaign is drained.
CampaignOpen(c) ==
  /\ camps.lock[c] # Free => CampaignExists(c)
  /\ camps.live[c].status \in Ended => \A j \in JobsOf(c) : Over(j)

\* Session s holds the row of campaign c: if it has ended the campaign, then it
\* sees all the jobs but those of Left as over.
EndsDrained(s, c, Left) ==
  camps.next[c].status \in Ended => \A j \in JobsOf(c) \ Left : SeenOver(s, j)

\* A task that completes its campaign has seen no live job, and writes no job
\* row between the check and the commit.
TaskEnds(w) ==
  /\ task[w].pc \notin {"idle", "campaign", "commit"} => CampaignExists(CampAt(w))
  /\ task[w].pc = "campaign" /\ task[w].job # Absent => CampaignExists(CampAt(w))
  /\ task[w].pc = "complete" => \A j \in JobsOf(CampAt(w)) : SeenOver(w, j)
  /\ \A c \in Campaigns : camps.lock[c] = w =>
       /\ task[w].pc \notin {"idle", "campaign", "claim", "start"}
       /\ CampAt(w) = c
       /\ camps.next[c].status \in Ended => task[w].pc = "commit"
       /\ EndsDrained(w, c, {})

\* The jobs a cancel has not looked at yet.
LeftToCancel(r) ==
  CASE req[r].pc = "snapshot" -> JobsOf(req[r].camp)
    [] req[r].pc = "cancelling" -> req[r].todo
    [] OTHER -> {}

\* A resume completes a campaign without live jobs only, and writes no job row
\* then; a cancel takes every job it finds PENDING under the campaign's lock.
RequestEnds(r) ==
  /\ req[r].pc \in {"list", "select", "update", "write", "snapshot", "cancelling", "commit"}
       => CampaignExists(req[r].camp)
  /\ req[r].pc = "write" /\ req[r].target = "CANCELLED" => req[r].op = "cancel"
  /\ req[r].pc \in {"select", "update"} /\ req[r].op = "resume" => req[r].target = "SENDING"
  /\ req[r].pc = "write" /\ req[r].target = "COMPLETED" =>
       \A j \in JobsOf(req[r].camp) : SeenOver(r, j)
  /\ \A c \in Campaigns : camps.lock[c] = r =>
       /\ req[r].pc \in {"snapshot", "cancelling", "commit"}
       /\ req[r].camp = c
       /\ EndsDrained(r, c, LeftToCancel(r))

\* The sweep has counted the live jobs of the campaign it is about to complete.
CronEnds(k) ==
  /\ \A c \in cron[k].todo : CampaignExists(c)
  /\ k = "stuck_sweep" /\ cron[k].pc = "update" =>
       \A j \in JobsOf(cron[k].cur) : SeenOver(k, j)
  /\ \A c \in Campaigns : camps.lock[c] = k => EndsDrained(k, c, {})

\* Whoever ends a campaign has seen to it that nothing is left to send.
EndingInvariant ==
  /\ \A j \in Jobs : JobInserted(j)
  /\ \A c \in Campaigns : CampaignOpen(c)
  /\ \A w \in Tasks : TaskEnds(w)
  /\ \A r \in Requests : RequestEnds(r)
  /\ \A k \in Crons : CronEnds(k)
-----------------------------------------------------------------------------
\* The claim protocol and what sessions that end a campaign have made sure of.
EndInv == Inv /\ EndingInvariant

\* What is over stays over, for everybody and as the sessions outside E read it.
JobsStable(E) ==
  /\ \A j \in Jobs : Over(j) => Over(j)'
  /\ \A s \in Sessions \ E, j \in Jobs : SeenOver(s, j) => SeenOver(s, j)'

\* Sessions outside E hold no campaign rows but those they held before, as they
\* wrote them.
CampsStable(E) ==
  /\ \A c \in Campaigns : CampaignExists(c) => CampaignExists(c)'
  /\ \A s \in Sessions \ E, c \in Campaigns : camps'.lock[c] = s =>
       camps.lock[c] = s /\ camps'.next[c].status = camps.next[c].status

\* No campaign appears.
NoneCreated == \A c \in Campaigns : CampaignExists(c)' => CampaignExists(c)

\* Two parts of the invariant, for all jobs and all campaigns.
AllInserted == \A j \in Jobs : JobInserted(j)
AllOpen == \A c \in Campaigns : CampaignOpen(c)

\* The parts of the invariant.
LEMMA EndParts ==
  ASSUME EndInv
  PROVE  /\ Inv /\ AllInserted /\ AllOpen
         /\ \A w \in Tasks : TaskEnds(w)
         /\ \A r \in Requests : RequestEnds(r)
         /\ \A k \in Crons : CronEnds(k)
  BY DEF EndInv, EndingInvariant, AllInserted, AllOpen

\* What a session that does nothing has made sure of stays true.
LEMMA OthersStay ==
  ASSUME EndInv, NEW E, JobsStable(E), CampsStable(E)
  PROVE  /\ \A w \in Tasks \ E : task'[w] = task[w] => TaskEnds(w)'
         /\ \A r \in Requests \ E : req'[r] = req[r] => RequestEnds(r)'
         /\ \A k \in Crons \ E : cron'[k] = cron[k] => CronEnds(k)'
<1>a. \A c \in Campaigns : JobsOf(c) \subseteq Jobs
  BY DEF JobsOf
<1>1. ASSUME NEW w \in Tasks \ E, task'[w] = task[w] PROVE TaskEnds(w)'
  <2>1. TaskEnds(w) /\ w \in Sessions \ E
    BY EndParts DEF Sessions
  <2>2. JobAt(w)' = JobAt(w) /\ CampAt(w)' = CampAt(w)
    BY <1>1 DEF JobAt, CampAt
  <2>3. task[w].pc # "idle" => CampAt(w) \in Campaigns
    BY EndParts, TaskJob DEF Inv, At
  <2>4. ASSUME NEW c \in Campaigns, camps'.lock[c] = w
        PROVE  camps.lock[c] = w /\ (EndsDrained(w, c, {}) => EndsDrained(w, c, {})')
               /\ camps'.next[c].status = camps.next[c].status
    BY <1>a, <2>1, <2>4 DEF CampsStable, JobsStable, EndsDrained
  <2>5. \A j \in Jobs : SeenOver(w, j) => SeenOver(w, j)'
    BY <2>1 DEF JobsStable
  <2>6. \A c \in Campaigns : CampaignExists(c) => CampaignExists(c)'
    BY DEF CampsStable
  <2> QED
    BY <1>1, <1>a, <2>1, <2>2, <2>3, <2>4, <2>5, <2>6 DEF TaskEnds
<1>2. ASSUME NEW r \in Requests \ E, req'[r] = req[r] PROVE RequestEnds(r)'
  <2>1. RequestEnds(r) /\ r \in Sessions \ E
    BY EndParts DEF Sessions
  <2>2. LeftToCancel(r)' = LeftToCancel(r)
    BY <1>2 DEF LeftToCancel
  <2>3. req[r].pc \in {"list", "select", "update", "write", "snapshot", "cancelling", "commit"}
          => req[r].camp \in Campaigns
    BY EndParts DEF Inv, TypeInv, RequestShape
  <2>4. ASSUME NEW c \in Campaigns, camps'.lock[c] = r
        PROVE  /\ camps.lock[c] = r
               /\ EndsDrained(r, c, LeftToCancel(r)) => EndsDrained(r, c, LeftToCancel(r))'
    BY <1>a, <2>1, <2>2, <2>4 DEF CampsStable, JobsStable, EndsDrained
  <2>5. \A j \in Jobs : SeenOver(r, j) => SeenOver(r, j)'
    BY <2>1 DEF JobsStable
  <2>6. \A c \in Campaigns : CampaignExists(c) => CampaignExists(c)'
    BY DEF CampsStable
  <2> QED
    BY <1>2, <1>a, <2>1, <2>3, <2>4, <2>5, <2>6 DEF RequestEnds
<1>3. ASSUME NEW k \in Crons \ E, cron'[k] = cron[k] PROVE CronEnds(k)'
  <2>1. CronEnds(k) /\ k \in Sessions \ E
    BY EndParts DEF Sessions
  <2>2. /\ cron[k].todo \subseteq Campaigns
        /\ cron[k].pc = "update" => cron[k].cur \in Campaigns
    BY EndParts DEF Inv, TypeInv, TypeOK, MaintenanceTypeOK, CronRecords, CronShape
  <2>3. ASSUME NEW c \in Campaigns, camps'.lock[c] = k
        PROVE  camps.lock[c] = k /\ (EndsDrained(k, c, {}) => EndsDrained(k, c, {})')
    BY <1>a, <2>1, <2>3 DEF CampsStable, JobsStable, EndsDrained
  <2>4. \A j \in Jobs : SeenOver(k, j) => SeenOver(k, j)'
    BY <2>1 DEF JobsStable
  <2>5. \A c \in Campaigns : CampaignExists(c) => CampaignExists(c)'
    BY DEF CampsStable
  <2> QED
    BY <1>3, <1>a, <2>1, <2>2, <2>3, <2>4, <2>5 DEF CronEnds
<1> QED
  BY <1>1, <1>2, <1>3
-----------------------------------------------------------------------------
\* A step that leaves the job table alone changes nothing of what is over.
LEMMA JobsStill ==
  ASSUME EndInv, jobs' = jobs, reverted' = reverted, NoneCreated
  PROVE  AllInserted' /\ JobsStable({})
<1>1. AllInserted
  BY EndParts
<1>2. \A j \in Jobs : CampaignOf[j] \in Campaigns
  BY CampaignOfAssumption
<1>3. AllInserted'
  BY <1>1, <1>2 DEF AllInserted, JobInserted, NoneCreated
<1> QED
  BY <1>3 DEF JobsStable, Over, SeenOver

\* Nor does a row written under its lock, for the sessions that do not hold it.
LEMMA JobWritten ==
  ASSUME EndInv, NEW s \in Sessions, NEW i \in Jobs, NEW row \in EmailStatus,
         jobs' = Put(jobs, s, i, row), ~Locked(jobs, s, i),
         reverted' = reverted, NoneCreated
  PROVE  /\ AllInserted' /\ JobsStable({s})
         /\ jobs'.next[i] = row /\ jobs'.lock[i] = s
         /\ \A j \in Jobs : j # i =>
              jobs'.next[j] = jobs.next[j] /\ jobs'.lock[j] = jobs.lock[j]
         /\ jobs'.live = jobs.live
<1>a. jobs \in JobTable /\ row \in JobRows /\ Absent \notin EmailStatus /\ Free \notin Sessions
  BY EndParts, TablesOf, CronsAssumption
  DEF Inv, JobRows, EmailStatus, Absent, Sessions, Free
<1>b. /\ jobs'.live = jobs.live
      /\ jobs'.next = [jobs.next EXCEPT ![i] = row]
      /\ jobs'.lock = [jobs.lock EXCEPT ![i] = s]
  BY <1>a, PutRow DEF JobTable
<1>c. /\ jobs'.next[i] = row /\ jobs'.lock[i] = s
      /\ \A j \in Jobs : j # i =>
           jobs'.next[j] = jobs.next[j] /\ jobs'.lock[j] = jobs.lock[j]
  BY <1>a, <1>b DEF JobTable, Tables
<1>1. \A j \in Jobs : CampaignOf[j] \in Campaigns
  BY CampaignOfAssumption
<1>2. AllInserted'
  BY <1>a, <1>b, <1>c, <1>1, EndParts DEF AllInserted, JobInserted, NoneCreated
<1>3. \A j \in Jobs : Over(j) => Over(j)'
  BY <1>b DEF Over
<1>4. ASSUME NEW t \in Sessions, t # s, NEW j \in Jobs PROVE View(jobs', t, j) = View(jobs, t, j)
  <2>1. CASE j = i
    BY <1>a, <1>b, <1>c, <1>4, <2>1 DEF View, Locked
  <2>2. CASE j # i
    BY <1>b, <1>c, <2>2 DEF View
  <2> QED
    BY <2>1, <2>2
<1>5. JobsStable({s})
  BY <1>3, <1>4 DEF JobsStable, SeenOver
<1> QED
  BY <1>b, <1>c, <1>2, <1>5

\* Leaving the campaign table alone keeps everything about it.
LEMMA CampsStill ==
  ASSUME EndInv, camps' = camps, \A j \in Jobs : Over(j) => Over(j)'
  PROVE  AllOpen' /\ CampsStable({}) /\ NoneCreated
<1>1. AllOpen /\ \A c \in Campaigns : JobsOf(c) \subseteq Jobs
  BY EndParts DEF JobsOf
<1>2. AllOpen'
  BY <1>1 DEF AllOpen, CampaignOpen, CampaignExists
<1> QED
  BY <1>2 DEF CampsStable, NoneCreated, CampaignExists

\* UPDATE email_campaigns of an existing campaign writes its row under the lock
\* of session s, or nothing.
LEMMA CampWritten ==
  ASSUME EndInv, NEW s \in Sessions, NEW c \in Campaigns, CampaignExists(c),
         NEW target \in CampaignStatus, NEW reason \in {None, ALL_SENDERS_EXHAUSTED},
         camps' = Put(camps, s, c, [status |-> target, reason |-> reason]),
         ~Locked(camps, s, c), \A j \in Jobs : Over(j) => Over(j)'
  PROVE  /\ AllOpen' /\ CampsStable({s}) /\ NoneCreated
         /\ camps'.live = camps.live /\ camps'.lock[c] = s
         /\ camps'.next[c] = [status |-> target, reason |-> reason]
         /\ \A d \in Campaigns : d # c =>
              camps'.next[d] = camps.next[d] /\ camps'.lock[d] = camps.lock[d]
<1> DEFINE row == [status |-> target, reason |-> reason]
<1>a. camps \in CampTable /\ row \in CampaignRows /\ Free \notin Sessions
  BY EndParts, TablesOf, CronsAssumption DEF Inv, CampaignRows, Sessions, Free
<1> HIDE DEF row
<1>b. /\ camps'.live = camps.live
      /\ camps'.next = [camps.next EXCEPT ![c] = row]
      /\ camps'.lock = [camps.lock EXCEPT ![c] = s]
  BY <1>a, PutRow DEF CampTable, row
<1>c. /\ camps'.next[c] = row /\ camps'.lock[c] = s
      /\ \A d \in Campaigns : d # c =>
           camps'.next[d] = camps.next[d] /\ camps'.lock[d] = camps.lock[d]
  BY <1>a, <1>b DEF CampTable, Tables
<1>1. AllOpen /\ \A d \in Campaigns : JobsOf(d) \subseteq Jobs
  BY EndParts DEF JobsOf
<1>2. AllOpen'
  BY <1>1, <1>b, <1>c DEF AllOpen, CampaignOpen, CampaignExists
<1>3. CampsStable({s}) /\ NoneCreated
  BY <1>a, <1>b, <1>c DEF CampsStable, NoneCreated, CampaignExists
<1> QED
  BY <1>b, <1>c, <1>2, <1>3 DEF row
-----------------------------------------------------------------------------
\* A commit shows what the session saw: a campaign it has ended is drained.
LEMMA EndCommit ==
  ASSUME EndInv, NEW s \in Sessions, CommitSession(s),
         s \in Tasks => task[s].pc \notin {"start", "limits"},
         \A c \in Campaigns : camps.lock[c] = s => EndsDrained(s, c, {})
  PROVE  /\ AllInserted' /\ AllOpen' /\ JobsStable({s}) /\ CampsStable({s})
         /\ \A c \in Campaigns : camps'.lock[c] # s
<1>a. jobs \in JobTable /\ camps \in CampTable /\ Free \notin Sessions
  BY EndParts, TablesOf, CronsAssumption DEF Inv, Sessions, Free
<1>b. /\ jobs'.next = jobs.next
      /\ \A j \in Jobs :
           /\ jobs'.live[j] = IF jobs.lock[j] = s THEN jobs.next[j] ELSE jobs.live[j]
           /\ jobs'.lock[j] = IF jobs.lock[j] = s THEN Free ELSE jobs.lock[j]
  BY <1>a, PublishRow DEF CommitSession, JobTable
<1>c. /\ camps'.next = camps.next
      /\ \A c \in Campaigns :
           /\ camps'.live[c] = IF camps.lock[c] = s THEN camps.next[c] ELSE camps.live[c]
           /\ camps'.lock[c] = IF camps.lock[c] = s THEN Free ELSE camps.lock[c]
  BY <1>a, PublishRow DEF CommitSession, CampTable
<1>d. \A c \in Campaigns : CampaignWritten(c) /\ CampaignOpen(c) /\ JobsOf(c) \subseteq Jobs
  BY EndParts DEF Inv, ClaimInvariant, AllOpen, JobsOf
<1>e. \A c \in Campaigns : CampaignExists(c)' <=> CampaignExists(c)
  BY <1>a, <1>c, <1>d DEF CampaignExists, CampaignWritten, CampaignOpen
<1>f. \A j \in Jobs : CampaignOf[j] \in Campaigns /\ JobInserted(j) /\ JobInv(j)
  BY CampaignOfAssumption, EndParts DEF AllInserted, Inv, ClaimInvariant
<1>1. AllInserted'
  BY <1>b, <1>e, <1>f DEF AllInserted, JobInserted
<1>2. ASSUME NEW j \in Jobs, jobs.lock[j] = s PROVE jobs.next[j] \in EmailStatus \ {"SENDING"}
  <2>1. CampaignExists(CampaignOf[j])
    BY <1>a, <1>f, <1>2 DEF JobInv, JobExists, CampaignExists
  <2>2. jobs.next[j] # Absent /\ jobs.next[j] \in JobRows
    BY <1>a, <1>f, <2>1 DEF JobInserted, JobTable, Tables
  <2>3. CASE jobs.next[j] = "SENDING"
    <3>1. s \in Tasks /\ task[s].pc \in {"start", "limits"}
      BY <1>f, <1>2, <2>3 DEF JobInv, SendingClaimed
    <3> QED
      BY <3>1
  <2> QED
    BY <2>2, <2>3 DEF JobRows
<1>3. ASSUME NEW j \in Jobs PROVE Over(j) => Over(j)'
  BY <1>b, <1>2
  DEF Over, CommitSession, Overwritten, TERMINAL_EMAIL_STATUSES, EmailStatus
\* What the others read of a row, and what everybody reads of the session's own.
<1>4. ASSUME NEW t \in Sessions, t # s, NEW j \in Jobs, SeenOver(t, j) PROVE SeenOver(t, j)'
  <2>1. CASE jobs.lock[j] = t
    BY <1>4, <1>b, <2>1 DEF SeenOver, View, CommitSession
  <2>2. CASE jobs.lock[j] # t
    <3>1. Over(j) /\ jobs'.lock[j] # t
      BY <1>a, <1>4, <1>b, <2>2 DEF SeenOver, View, Over
    <3> QED
      BY <1>3, <3>1 DEF Over, SeenOver, View
  <2> QED
    BY <2>1, <2>2
<1>5. \A j \in Jobs : SeenOver(s, j) => Over(j)'
  BY <1>b DEF SeenOver, View, Over, CommitSession
<1>6. ASSUME NEW c \in Campaigns PROVE CampaignOpen(c)'
  <2>1. (camps.lock[c] # Free => CampaignExists(c))'
    BY <1>c, <1>d, <1>e DEF CampaignOpen
  <2>2. ASSUME camps'.live[c].status \in Ended, NEW j \in JobsOf(c) PROVE Over(j)'
    <3>1. CASE camps.lock[c] = s
      <4>1. camps.next[c].status \in Ended
        BY <1>c, <2>2, <3>1
      <4> QED
        BY <1>5, <1>d, <2>2, <3>1, <4>1 DEF EndsDrained
    <3>2. CASE camps.lock[c] # s
      BY <1>c, <1>d, <1>3, <2>2, <3>2 DEF CampaignOpen
    <3> QED
      BY <3>1, <3>2
  <2> QED
    BY <2>1, <2>2 DEF CampaignOpen
<1>7. CampsStable({s})
  BY <1>a, <1>c, <1>e DEF CampsStable
<1>8. \A c \in Campaigns : camps'.lock[c] # s
  BY <1>a, <1>c
<1> QED
  BY <1>1, <1>3, <1>4, <1>6, <1>7, <1>8 DEF JobsStable, AllOpen

\* A rollback shows nothing new.
LEMMA EndClose ==
  ASSUME EndInv, NEW E, CloseSessions(E)
  PROVE  /\ AllInserted' /\ AllOpen' /\ JobsStable(E) /\ CampsStable(E)
         /\ \A s \in E, c \in Campaigns : s # Free => camps'.lock[c] # s
<1>a. jobs \in JobTable /\ camps \in CampTable /\ Free \notin Sessions
  BY EndParts, TablesOf, CronsAssumption DEF Inv, Sessions, Free
<1>b. /\ jobs'.live = jobs.live /\ reverted' = reverted
      /\ \A j \in Jobs :
           /\ jobs'.next[j] = IF jobs.lock[j] \in E THEN jobs.live[j] ELSE jobs.next[j]
           /\ jobs'.lock[j] = IF jobs.lock[j] \in E THEN Free ELSE jobs.lock[j]
  BY <1>a, DiscardRow DEF CloseSessions, JobTable
<1>c. /\ camps'.live = camps.live
      /\ \A c \in Campaigns :
           /\ camps'.next[c] = IF camps.lock[c] \in E THEN camps.live[c] ELSE camps.next[c]
           /\ camps'.lock[c] = IF camps.lock[c] \in E THEN Free ELSE camps.lock[c]
  BY <1>a, DiscardRow DEF CloseSessions, CampTable
<1>d. AllOpen /\ AllInserted /\ \A c \in Campaigns : JobsOf(c) \subseteq Jobs
  BY EndParts DEF JobsOf
<1>1. AllInserted'
  BY <1>b, <1>c, <1>d, CampaignOfAssumption DEF AllInserted, JobInserted, CampaignExists
<1>2. \A j \in Jobs : Over(j) => Over(j)'
  BY <1>b DEF Over
<1>3. AllOpen'
  BY <1>c, <1>d, <1>2 DEF AllOpen, CampaignOpen, CampaignExists
<1>4. ASSUME NEW t \in Sessions \ E, NEW j \in Jobs PROVE SeenOver(t, j) => SeenOver(t, j)'
  BY <1>a, <1>b, <1>4 DEF SeenOver, View
<1>5. CampsStable(E)
  BY <1>a, <1>c DEF CampsStable, CampaignExists
<1>6. \A s \in E, c \in Campaigns : s # Free => camps'.lock[c] # s
  BY <1>c
<1> QED
  BY <1>1, <1>2, <1>3, <1>4, <1>5, <1>6 DEF JobsStable
-----------------------------------------------------------------------------
\* A new campaign has live jobs, and nobody has made sure of anything about it.
LEMMA EndCreate ==
  ASSUME EndInv, NEW r \in Requests, NEW c \in Campaigns, create(r, c)
  PROVE  /\ AllInserted' /\ AllOpen' /\ JobsStable({}) /\ CampsStable({})
<1> DEFINE row == [status |-> "SCHEDULED", reason |-> None]
<1>a. /\ jobs \in JobTable /\ camps \in CampTable /\ Free \notin Sessions
      /\ row \in CampaignRows /\ row.status \notin Ended /\ row.status # Absent
  BY EndParts, TablesOf, CronsAssumption
  DEF Inv, Sessions, Free, CampaignRows, CampaignStatus, Ended, Absent
<1>b. camps' = [camps EXCEPT !.live = [@ EXCEPT ![c] = row], !.next = [@ EXCEPT ![c] = row]]
  BY DEF create
<1> HIDE DEF row
<1>c. /\ camps'.live = [camps.live EXCEPT ![c] = row]
      /\ camps'.next = [camps.next EXCEPT ![c] = row]
      /\ camps'.lock = camps.lock
  BY <1>a, <1>b DEF CampTable, Tables
<1>d. /\ camps'.live[c] = row
      /\ \A d \in Campaigns : d # c =>
           camps'.live[d] = camps.live[d] /\ camps'.next[d] = camps.next[d]
  BY <1>a, <1>c DEF CampTable, Tables
<1>e. /\ jobs'.lock = jobs.lock /\ reverted' = reverted
      /\ \A j \in Jobs : jobs'.live[j] = IF j \in JobsOf(c) THEN "PENDING" ELSE jobs.live[j]
      /\ \A j \in Jobs : jobs'.next[j] = IF j \in JobsOf(c) THEN "PENDING" ELSE jobs.next[j]
  BY <1>a DEF create, JobTable, Tables
<1>f. /\ ~CampaignExists(c)
      /\ \A j \in JobsOf(c) : jobs.live[j] = Absent /\ jobs.lock[j] = Free
      /\ \A j \in Jobs : CampaignOf[j] \in Campaigns /\ (j \in JobsOf(c) <=> CampaignOf[j] = c)
      /\ \A d \in Campaigns : JobsOf(d) \subseteq Jobs
  BY EndParts, CampaignOfAssumption
  DEF create, CampaignExists, Inv, ClaimInvariant, JobInv, JobExists, JobsOf
<1>g. AllOpen /\ AllInserted
  BY EndParts
<1>1. AllInserted'
  BY <1>d, <1>e, <1>f, <1>g DEF AllInserted, JobInserted, CampaignExists, Absent
<1>2. ASSUME NEW j \in Jobs, Over(j) PROVE Over(j)'
  BY <1>e, <1>f, <1>2 DEF Over, TERMINAL_EMAIL_STATUSES, Absent
<1>3. ASSUME NEW s \in Sessions, NEW j \in Jobs, SeenOver(s, j) PROVE SeenOver(s, j)'
  BY <1>a, <1>e, <1>f, <1>3 DEF SeenOver, View, TERMINAL_EMAIL_STATUSES, Absent
<1>4. ASSUME NEW d \in Campaigns PROVE CampaignOpen(d)'
  <2>1. CASE d = c
    BY <1>a, <1>d, <2>1 DEF CampaignOpen, CampaignExists
  <2>2. CASE d # c
    BY <1>c, <1>d, <1>f, <1>g, <1>2, <2>2 DEF AllOpen, CampaignOpen, CampaignExists
  <2> QED
    BY <2>1, <2>2
<1>5. CampsStable({})
  <2>1. ASSUME NEW d \in Campaigns, camps'.lock[d] # Free
        PROVE  camps'.next[d].status = camps.next[d].status
    <3>1. d # c
      BY <1>c, <1>f, <1>g, <2>1 DEF AllOpen, CampaignOpen
    <3> QED
      BY <1>d, <3>1
  <2> QED
    BY <1>a, <1>c, <1>d, <1>f, <2>1 DEF CampsStable, CampaignExists
<1> QED
  BY <1>1, <1>2, <1>3, <1>4, <1>5 DEF JobsStable, AllOpen

\* The sweep at startup completes campaigns in which no job is live.
LEMMA EndStartup ==
  ASSUME EndInv, WorkerStartup
  PROVE  /\ AllInserted' /\ AllOpen' /\ JobsStable({}) /\ CampsStable({})
<1> DEFINE done == [status |-> "COMPLETED", reason |-> None]
<1>a. /\ jobs \in JobTable /\ camps \in CampTable /\ Free \notin Sessions
      /\ done.status # Absent
  BY EndParts, TablesOf, CronsAssumption DEF Inv, Sessions, Free, Absent
<1>b. camps' = [camps EXCEPT
                  !.live = [c \in Campaigns |-> IF c \in Stuck THEN done ELSE @[c]],
                  !.next = [c \in Campaigns |-> IF c \in Stuck THEN done ELSE @[c]]]
  BY DEF WorkerStartup
<1> HIDE DEF done
<1>c. /\ camps'.lock = camps.lock
      /\ \A c \in Campaigns :
           /\ camps'.live[c] = IF c \in Stuck THEN done ELSE camps.live[c]
           /\ camps'.next[c] = IF c \in Stuck THEN done ELSE camps.next[c]
  BY <1>a, <1>b DEF CampTable, Tables
<1>d. jobs' = jobs /\ reverted' = reverted
  BY EndParts, RecoverNothing DEF WorkerStartup
<1>e. /\ \A c \in Stuck : camps.lock[c] = Free /\ CampaignExists(c)
      /\ AllOpen /\ \A c \in Campaigns : JobsOf(c) \subseteq Jobs
      /\ \A j \in Jobs : JobInserted(j) /\ JobInv(j)
  BY EndParts
  DEF WorkerStartup, Stuck, CampaignExists, Absent, JobsOf, AllInserted, Inv, ClaimInvariant
<1>1. NoneCreated
  BY <1>c, <1>e DEF NoneCreated, CampaignExists
<1>2. AllInserted' /\ JobsStable({})
  BY <1>1, <1>d, JobsStill
\* The sweep's own session holds no job, and sees the committed rows.
<1>3. ASSUME NEW c \in Stuck, NEW j \in JobsOf(c) PROVE Over(j)
  <2>1. j \in Jobs /\ CampaignOf[j] = c
    BY <1>3 DEF JobsOf
  <2>2. jobs.live[j] \in EmailStatus
    BY <1>a, <1>e, <2>1 DEF JobInserted, JobTable, Tables, JobRows
  <2>3. jobs.lock[j] # "stuck_sweep"
    BY <1>e, <2>1, SessionsAssumption DEF JobInv, JobHolder, Free
  <2>4. jobs.live[j] \notin EmailStatus \ TERMINAL_EMAIL_STATUSES
    BY <1>3, <2>1, <2>3 DEF Stuck, non_terminal, JobsIn, View
  <2> QED
    BY <2>2, <2>4 DEF Over
<1>4. AllOpen'
  BY <1>a, <1>c, <1>d, <1>e, <1>3 DEF AllOpen, CampaignOpen, CampaignExists, Over
<1>5. CampsStable({})
  BY <1>a, <1>c, <1>e DEF CampsStable, CampaignExists
<1> QED
  BY <1>2, <1>4, <1>5
-----------------------------------------------------------------------------
\* What a step owes to the sessions that do not take it, and to the campaigns.
EndKept(E) == AllInserted' /\ AllOpen' /\ JobsStable(E) /\ CampsStable(E)

\* A step that reads at most owes nothing.
LEMMA EndQuiet ==
  ASSUME EndInv, jobs' = jobs, camps' = camps, reverted' = reverted
  PROVE  EndKept({})
<1>1. NoneCreated
  BY DEF NoneCreated, CampaignExists
<1>2. AllInserted' /\ JobsStable({})
  BY <1>1, JobsStill
<1> QED
  BY <1>2, CampsStill DEF EndKept, JobsStable

\* A task that writes its job's row, in the course of its send.
LEMMA EndTaskJob ==
  ASSUME EndInv, NEW w \in Tasks, task[w].pc \in {"claim", "limits"},
         jobs' = jobs \/ \E row \in EmailStatus :
           jobs' = Put(jobs, w, JobAt(w), row) /\ ~Locked(jobs, w, JobAt(w)),
         camps' = camps, reverted' = reverted,
         NEW pc \in {"start", "commit", "pausing", "check"}, Goto(w, pc),
         pc = "start" => task[w].pc = "claim"
  PROVE  EndKept({w}) /\ TaskEnds(w)'
<1>a. /\ task \in [Tasks -> TaskRecords] /\ TaskEnds(w) /\ w \in Sessions
      /\ JobAt(w) \in Jobs /\ CampAt(w) \in Campaigns
  BY EndParts, TaskJob DEF Inv, TypeInv, TypeOK, TaskTypeOK, Sessions, At
<1>b. task'[w].pc = pc /\ task'[w].entry = task[w].entry /\ CampAt(w)' = CampAt(w)
  BY <1>a DEF Goto, TaskRecords, CampAt, JobAt
<1>1. NoneCreated
  BY DEF NoneCreated, CampaignExists
<1>2. AllInserted' /\ JobsStable({w})
  <2>1. CASE jobs' = jobs
    BY <1>1, <2>1, JobsStill DEF JobsStable
  <2>2. ASSUME NEW row \in EmailStatus,
               jobs' = Put(jobs, w, JobAt(w), row) /\ ~Locked(jobs, w, JobAt(w))
        PROVE  AllInserted' /\ JobsStable({w})
    BY <1>a, <1>1, <2>2, JobWritten
  <2> QED
    BY <2>1, <2>2
<1>3. EndKept({w})
  BY <1>2, CampsStill DEF EndKept, JobsStable, CampsStable
\* The task has not ended its campaign yet.
<1>4. \A c \in Campaigns : camps.lock[c] = w => camps.next[c].status \notin Ended
  BY <1>a DEF TaskEnds
<1>5. TaskEnds(w)'
  BY <1>a, <1>b, <1>4 DEF TaskEnds, CampaignExists, EndsDrained
<1> QED
  BY <1>3, <1>5

\* A task that writes its campaign's row, or would have.
LEMMA EndTaskCamp ==
  ASSUME EndInv, NEW w \in Tasks, NEW expected, NEW target \in CampaignStatus,
         NEW reason \in {None, ALL_SENDERS_EXHAUSTED},
         camps' = camps \/ update_status_if(w, CampAt(w), expected, target, reason),
         jobs' = jobs, reverted' = reverted, NEW pc \in {"limits", "commit"}, Goto(w, pc),
         task[w].pc \in {"start", "pausing", "complete"},
         target \in Ended => task[w].pc = "complete" /\ pc = "commit",
         task[w].pc = "start" \/ pc = "commit"
  PROVE  EndKept({w}) /\ TaskEnds(w)'
<1>a. /\ task \in [Tasks -> TaskRecords] /\ TaskEnds(w) /\ w \in Sessions
      /\ JobAt(w) \in Jobs /\ CampAt(w) \in Campaigns
      /\ \A c \in Campaigns : JobsOf(c) \subseteq Jobs
  BY EndParts, TaskJob DEF Inv, TypeInv, TypeOK, TaskTypeOK, Sessions, At, JobsOf
<1>b. task'[w].pc = pc /\ CampAt(w)' = CampAt(w)
  BY <1>a DEF Goto, TaskRecords, CampAt, JobAt
<1>c. CampaignExists(CampAt(w))
  BY <1>a DEF TaskEnds
<1>1. CASE camps' = camps
  <2>1. EndKept({w})
    BY <1>1, EndQuiet DEF EndKept, JobsStable, CampsStable
  <2>2. TaskEnds(w)'
    BY <1>a, <1>b, <1>1 DEF TaskEnds, CampaignExists, EndsDrained, SeenOver
  <2> QED
    BY <2>1, <2>2
<1>2. CASE camps' # camps
  <2>0. /\ camps' = Put(camps, w, CampAt(w), [status |-> target, reason |-> reason])
        /\ ~Locked(camps, w, CampAt(w))
    BY <1>2 DEF update_status_if
  <2>1. PICK c \in Campaigns : c = CampAt(w)
    BY <1>a
  <2>2. \A j \in Jobs : Over(j) => Over(j)'
    BY DEF Over
  <2>3. /\ AllOpen' /\ CampsStable({w}) /\ NoneCreated
        /\ camps'.live = camps.live
        /\ camps'.next[c] = [status |-> target, reason |-> reason]
        /\ \A d \in Campaigns : d # c =>
             camps'.next[d] = camps.next[d] /\ camps'.lock[d] = camps.lock[d]
    <3>1. /\ CampaignExists(c) /\ ~Locked(camps, w, c)
          /\ camps' = Put(camps, w, c, [status |-> target, reason |-> reason])
      BY <1>c, <2>0, <2>1
    <3> QED
      BY <1>a, <2>2, <3>1, CampWritten, ZenonT(40)
  <2>4. EndKept({w})
    BY <2>3, JobsStill DEF EndKept, JobsStable
  <2>5. target \in Ended => \A j \in JobsOf(c) : SeenOver(w, j)'
    BY <1>a, <2>1 DEF TaskEnds, SeenOver
  <2>6. TaskEnds(w)'
    BY <1>a, <1>b, <1>c, <2>1, <2>3, <2>5 DEF TaskEnds, CampaignExists, EndsDrained
  <2> QED
    BY <2>4, <2>6
<1> QED
  BY <1>1, <1>2

\* What a session does not see as live is over, in a campaign that exists.
LEMMA NotLive ==
  ASSUME EndInv, NEW s \in Sessions, NEW c \in Campaigns, CampaignExists(c),
         s \in Tasks => task[s].pc \notin {"start", "limits"},
         NEW j \in JobsOf(c), View(jobs, s, j) # "PENDING"
  PROVE  SeenOver(s, j)
<1>1. j \in Jobs /\ CampaignOf[j] = c
  BY DEF JobsOf
<1>2. JobInserted(j) /\ JobInv(j) /\ SendingNeverCommitted /\ jobs \in JobTable
  BY <1>1, EndParts, TablesOf DEF AllInserted, Inv, ClaimInvariant
<1>3. View(jobs, s, j) \in JobRows /\ View(jobs, s, j) # Absent
  BY <1>1, <1>2, ViewRow DEF JobTable, JobInserted, View
<1>4. View(jobs, s, j) # "SENDING"
  <2>1. CASE jobs.lock[j] = s
    <3>1. jobs.next[j] = "SENDING" => s \in Tasks /\ task[s].pc \in {"start", "limits"}
      BY <1>2, <2>1 DEF JobInv, SendingClaimed
    <3> QED
      BY <2>1, <3>1 DEF View
  <2>2. CASE jobs.lock[j] # s
    BY <1>1, <1>2, <2>2 DEF View, SendingNeverCommitted
  <2> QED
    BY <2>1, <2>2
<1> QED
  BY <1>3, <1>4 DEF SeenOver, JobRows, EmailStatus, TERMINAL_EMAIL_STATUSES

\* Taking a call: a job that is read exists with its campaign.
LEMMA EndStart ==
  ASSUME EndInv, NEW w \in Tasks, NEW e \in Entries, Start(w, e)
  PROVE  EndKept({w}) /\ TaskEnds(w)'
<1>a. /\ task \in [Tasks -> TaskRecords] /\ TaskEnds(w)
      /\ e.job \in Jobs /\ JobInv(e.job) /\ Free \notin Tasks
  BY EndParts, TablesOf DEF Inv, TypeInv, TypeOK, TaskTypeOK, ClaimInvariant, Entries
<1>b. /\ task[w].pc = "idle" /\ task'[w].pc = "campaign" /\ task'[w].entry = e
      /\ task'[w].job = View(jobs, w, e.job)
      /\ jobs' = jobs /\ camps' = camps /\ reverted' = reverted
  BY <1>a DEF Start, At
<1>1. EndKept({w})
  BY <1>b, EndQuiet DEF EndKept, JobsStable, CampsStable
<1>2. View(jobs, w, e.job) # Absent => CampaignExists(CampaignOf[e.job])
  BY <1>a DEF JobInv, JobExists, View, CampaignExists
<1>3. CampAt(w)' = CampaignOf[e.job]
  BY <1>b DEF CampAt, JobAt
<1>4. TaskEnds(w)'
  BY <1>a, <1>b, <1>2, <1>3 DEF TaskEnds, CampaignExists
<1> QED
  BY <1>1, <1>4

\* Every other step of a task.
LEMMA EndTaskStep ==
  ASSUME EndInv, NEW w \in Tasks, TaskStep(w) \/ StatementFails(w) \/ CompletionFails(w)
  PROVE  EndKept({w}) /\ TaskEnds(w)'
<1>a. /\ task \in [Tasks -> TaskRecords] /\ TaskEnds(w) /\ w \in Sessions
      /\ Free \notin Tasks /\ Free # w
      /\ \A j \in Jobs : JobInv(j)
      /\ ClaimHeld(w)
      /\ \A c \in Campaigns : JobsOf(c) \subseteq Jobs
  BY EndParts, TablesOf
  DEF Inv, TypeInv, TypeOK, TaskTypeOK, Sessions, ClaimInvariant, JobsOf
<1>b. ASSUME task[w].pc # "idle"
      PROVE  JobAt(w) \in Jobs /\ CampAt(w) \in Campaigns
  BY <1>b, EndParts, TaskJob DEF Inv, At
\* A claimed row is the task's own.
<1>c. ASSUME task[w].pc = "limits"
      PROVE  jobs.lock[JobAt(w)] = w /\ ~Locked(jobs, w, JobAt(w))
             /\ View(jobs, w, JobAt(w)) = "SENDING"
  BY <1>a, <1>c DEF ClaimHeld, Locked, View
<1>d. ASSUME Finish(w), AllInserted', AllOpen', JobsStable({w}), CampsStable({w}),
             \A c \in Campaigns : camps'.lock[c] # w
      PROVE  EndKept({w}) /\ TaskEnds(w)'
  <2>1. task'[w].pc = "idle"
    BY <1>a, <1>d DEF Finish, IdleTask
  <2> QED
    BY <1>d, <2>1 DEF EndKept, TaskEnds
<1>e. ASSUME CloseSessions({w}), Finish(w) PROVE EndKept({w}) /\ TaskEnds(w)'
  <2>1. \A c \in Campaigns : camps'.lock[c] # w
    BY <1>a, <1>e, EndClose
  <2> QED
    BY <1>d, <1>e, <2>1, EndClose
\* A task that reads, and keeps its rows.
<1>f. ASSUME jobs' = jobs, camps' = camps, reverted' = reverted,
             task'[w].entry = task[w].entry, task'[w].job = task[w].job,
             task[w].pc # "idle", task'[w].pc \in {"claim", "check", "complete", "commit"},
             task'[w].pc = "complete" => \A j \in JobsOf(CampAt(w)) : SeenOver(w, j),
             task'[w].pc # "commit" => CampaignExists(CampAt(w)),
             \A c \in Campaigns : camps.lock[c] = w =>
               task'[w].pc # "claim" /\ camps.next[c].status \notin Ended
      PROVE  EndKept({w}) /\ TaskEnds(w)'
  <2>1. EndKept({w})
    BY <1>f, EndQuiet DEF EndKept, JobsStable, CampsStable
  <2>2. CampAt(w)' = CampAt(w)
    BY <1>f DEF CampAt, JobAt
  <2>3. TaskEnds(w)'
    BY <1>a, <1>f, <2>2 DEF TaskEnds, CampaignExists, EndsDrained, SeenOver
  <2> QED
    BY <2>1, <2>3
<1>1. CASE ReadCampaign(w)
  <2>1. /\ task[w].pc = "campaign" /\ task'[w].pc \in {"commit", "check", "claim"}
        /\ task'[w].pc # "commit" => task[w].job \in {"PENDING", "SENT"}
        /\ task'[w].entry = task[w].entry /\ task'[w].job = task[w].job
        /\ jobs' = jobs /\ camps' = camps /\ reverted' = reverted
    BY <1>1, <1>a DEF ReadCampaign, At, TaskRecords, store
  <2>2. task'[w].pc # "commit" => CampaignExists(CampAt(w))
    BY <1>a, <2>1 DEF TaskEnds, Absent
  <2>3. \A c \in Campaigns : camps.lock[c] # w
    BY <1>a, <2>1 DEF TaskEnds
  <2> QED
    BY <1>f, <2>1, <2>2, <2>3
<1>2. CASE claim_pending(w)
  <2>1. \/ jobs' = jobs /\ Goto(w, "commit")
        \/ /\ jobs' = Put(jobs, w, JobAt(w), "SENDING") /\ ~Locked(jobs, w, JobAt(w))
           /\ Goto(w, "start")
    BY <1>2 DEF claim_pending, set_status_if
  <2> QED
    BY <1>2, <2>1, EndTaskJob DEF claim_pending, At, EmailStatus
<1>3. CASE StartCampaign(w)
  <2>1. "SENDING" \in CampaignStatus /\ "SENDING" \notin Ended
    BY DEF CampaignStatus, Ended
  <2>2. camps' = camps \/ update_status_if(w, CampAt(w), "SCHEDULED", "SENDING", None)
    BY <1>3 DEF StartCampaign
  <2> QED
    BY <1>3, <2>1, <2>2, EndTaskCamp DEF StartCampaign, At
<1>4. CASE Reject(w)
  BY <1>4, <1>c, EndTaskJob DEF Reject, At, SetJob, EmailStatus
<1>5. CASE Postpone(w)
  BY <1>5, <1>c, EndTaskJob DEF Postpone, At, set_status_if, EmailStatus
<1>6. CASE Exhaust(w)
  BY <1>6, <1>c, EndTaskJob DEF Exhaust, At, set_status_if, EmailStatus
<1>7. CASE PauseExhausted(w)
  <2>1. "PAUSED" \in CampaignStatus /\ "PAUSED" \notin Ended
    BY DEF CampaignStatus, Ended
  <2> QED
    BY <1>7, <2>1, EndTaskCamp DEF PauseExhausted, At
<1>8. CASE SmtpAccepts(w)
  BY <1>8, <1>c, EndTaskJob DEF SmtpAccepts, At, SetJob, EmailStatus
<1>9. CASE SmtpRefuses(w)
  BY <1>9, <1>c, EndTaskJob DEF SmtpRefuses, At, SetJob, EmailStatus
<1>10. CASE CheckCompletion(w)
  <2>1. /\ task[w].pc = "check" /\ task'[w].pc \in {"complete", "commit"}
        /\ task'[w].pc = "complete" => non_terminal(w, CampAt(w)) = {}
        /\ task'[w].entry = task[w].entry /\ task'[w].job = task[w].job
        /\ jobs' = jobs /\ camps' = camps /\ reverted' = reverted
    BY <1>10, <1>a DEF CheckCompletion, At, TaskRecords, store
  <2>2. CampaignExists(CampAt(w)) /\ CampAt(w) \in Campaigns
    BY <1>a, <1>b, <2>1 DEF TaskEnds
  <2>3. ASSUME non_terminal(w, CampAt(w)) = {}, NEW j \in JobsOf(CampAt(w))
        PROVE  SeenOver(w, j)
    <3>1. View(jobs, w, j) # "PENDING"
      BY <2>3 DEF non_terminal, JobsIn, EmailStatus, TERMINAL_EMAIL_STATUSES
    <3> QED
      BY <1>a, <2>1, <2>2, <3>1, NotLive
  <2>4. \A c \in Campaigns : camps.lock[c] = w => camps.next[c].status \notin Ended
    BY <1>a, <2>1 DEF TaskEnds
  <2> QED
    BY <1>f, <2>1, <2>2, <2>3, <2>4
<1>11. CASE CompleteCampaign(w)
  <2>1. "COMPLETED" \in CampaignStatus
    BY DEF CampaignStatus
  <2> QED
    BY <1>11, <2>1, EndTaskCamp DEF CompleteCampaign, At
<1>12. CASE CommitTask(w)
  <2>1. \A c \in Campaigns : camps.lock[c] = w => EndsDrained(w, c, {})
    BY <1>a DEF TaskEnds
  <2>2. CommitSession(w) /\ Finish(w) /\ task[w].pc \notin {"start", "limits"}
    BY <1>12 DEF CommitTask, At
  <2> QED
    BY <1>a, <1>d, <2>1, <2>2, EndCommit
<1>13. CASE RecordFails(w) \/ StatementFails(w)
  BY <1>13, <1>e DEF RecordFails, StatementFails
<1>14. CASE CompletionFails(w)
  <2>1. /\ task[w].pc = "complete" /\ task'[w].pc = "commit"
        /\ task'[w].entry = task[w].entry /\ task'[w].job = task[w].job
        /\ jobs' = jobs /\ camps' = camps /\ reverted' = reverted
    BY <1>14, <1>a DEF CompletionFails, At, Goto, TaskRecords, store
  <2>2. \A c \in Campaigns : camps.lock[c] = w => camps.next[c].status \notin Ended
    BY <1>a, <2>1 DEF TaskEnds
  <2> QED
    BY <1>f, <2>1, <2>2
<1> QED
  BY <1>1, <1>2, <1>3, <1>4, <1>5, <1>6, <1>7, <1>8, <1>9, <1>10, <1>11, <1>12, <1>13, <1>14
  DEF TaskStep
-----------------------------------------------------------------------------
\* Every step of a request: a campaign that it ends is drained when it commits.
LEMMA EndRequest ==
  ASSUME EndInv, NEW r \in Requests, RequestStep(r) \/ RequestArrives(r) \/ RequestDies(r)
  PROVE  EndKept({r}) /\ RequestEnds(r)'
<1>a. /\ req \in [Requests -> RequestRecords] /\ RequestEnds(r) /\ r \in Sessions
      /\ RequestKnows(r) /\ r \notin Tasks /\ Free # r /\ jobs \in JobTable
      /\ \A j \in Jobs : JobInv(j)
      /\ \A c \in Campaigns : JobsOf(c) \subseteq Jobs
      /\ \A j \in Jobs : CampaignOf[j] \in Campaigns /\ JobInserted(j)
  BY EndParts, TablesOf, CampaignOfAssumption
  DEF Inv, TypeInv, TypeOK, RequestTypeOK, Sessions, ClaimInvariant, JobsOf, AllInserted
<1>b. req[r].pc \in {"list", "select", "update", "write", "snapshot", "cancelling", "commit"}
        => req[r].camp \in Campaigns /\ CampaignExists(req[r].camp)
  BY <1>a, EndParts DEF Inv, TypeInv, RequestShape, RequestEnds
<1>c. ASSUME NEW rec, req' = [req EXCEPT ![r] = rec] PROVE req'[r] = rec
  BY <1>a, <1>c
<1>d. Answered.pc = "done"
  BY DEF Answered, Request
<1>e. req[r].pc \notin {"snapshot", "cancelling", "commit"} =>
        \A c \in Campaigns : camps.lock[c] # r
  BY <1>a DEF RequestEnds
<1>f. UNCHANGED store => EndKept({r})
  BY EndQuiet DEF EndKept, JobsStable, CampsStable, store
\* A request that holds no campaign row, and is somewhere before its UPDATE.
<1>g. ASSUME camps' = camps, req[r].pc \notin {"snapshot", "cancelling", "commit"},
             req'[r].pc \in {"list", "select", "update", "write", "commit", "enqueue", "done"},
             req'[r].pc \notin {"enqueue", "done"} =>
               req'[r].camp \in Campaigns /\ CampaignExists(req'[r].camp),
             req'[r].pc \in {"select", "update"} /\ req'[r].op = "resume"
               => req'[r].target = "SENDING",
             req'[r].pc = "write" =>
               /\ req'[r].target = "CANCELLED" => req'[r].op = "cancel"
               /\ req'[r].target = "COMPLETED" =>
                    \A j \in JobsOf(req'[r].camp) : SeenOver(r, j)'
      PROVE  RequestEnds(r)'
  BY <1>e, <1>g DEF RequestEnds, CampaignExists
<1>h. ASSUME CloseSessions({r}), req'[r] = Answered PROVE EndKept({r}) /\ RequestEnds(r)'
  <2>1. \A c \in Campaigns : camps'.lock[c] # r
    BY <1>a, <1>h, EndClose
  <2> QED
    BY <1>d, <1>h, <2>1, EndClose DEF EndKept, RequestEnds
\* A job that is read exists with its campaign.
<1>i. \A j \in Jobs : View(jobs, r, j) # Absent => CampaignExists(CampaignOf[j])
  BY <1>a DEF JobInv, JobExists, View, CampaignExists
<1>1. ASSUME NEW c \in Campaigns, create(r, c) PROVE EndKept({r}) /\ RequestEnds(r)'
  <2>1. req[r].pc = "new" /\ req'[r].pc = "enqueue" /\ camps'.lock = camps.lock
    BY <1>1, <1>a DEF create, ReqAt, Request
  <2>2. RequestEnds(r)'
    BY <1>e, <2>1 DEF RequestEnds
  <2> QED
    BY <1>1, <2>2, EndCreate DEF EndKept, JobsStable, CampsStable
<1>2. ASSUME NEW c \in Campaigns, ReadForResume(r, c) PROVE EndKept({r}) /\ RequestEnds(r)'
  <2>1. /\ req[r].pc = "new" /\ camps' = camps
        /\ req'[r] = Answered \/ (req'[r].pc = "list" /\ req'[r].camp = c)
    <3>1. req[r].pc = "new" /\ camps' = camps
      BY <1>2 DEF ReadForResume, ReqAt, store
    <3>2. CASE StatusOf(r, c) = "PAUSED"
      BY <1>2, <1>a, <3>1, <3>2 DEF ReadForResume, Request
    <3>3. CASE StatusOf(r, c) # "PAUSED"
      <4>1. req' = [req EXCEPT ![r] = Answered]
        BY <1>2, <3>3 DEF ReadForResume
      <4>2. req'[r] = Answered
        BY <1>a, <4>1
      <4> QED
        BY <3>1, <4>2
    <3> QED
      BY <3>2, <3>3
  <2>2. CampaignExists(c)
    BY <1>2, <1>a, EndParts DEF ReadForResume, StatusOf, View, CampaignExists, AllOpen,
       CampaignOpen
  <2> QED
    BY <1>2, <1>d, <1>f, <1>g, <2>1, <2>2 DEF ReadForResume
<1>3. ASSUME NEW c \in Campaigns, NEW op \in ApiOps, ReadForChange(r, op, c)
      PROVE  EndKept({r}) /\ RequestEnds(r)'
  <2>1. /\ req[r].pc = "new" /\ camps' = camps /\ op \in {"pause", "cancel"}
        /\ \/ req'[r] = Answered
           \/ /\ req'[r].pc = "write" /\ req'[r].camp = c /\ req'[r].op = op
              /\ req'[r].target = TargetOf(op)
    BY <1>3, <1>a DEF ReadForChange, ReqAt, store, Request
  <2>2. CampaignExists(c)
    BY <1>3, <1>a, EndParts DEF ReadForChange, StatusOf, View, CampaignExists, AllOpen, CampaignOpen
  <2>3. TargetOf(op) # "COMPLETED" /\ (TargetOf(op) = "CANCELLED" => op = "cancel")
    BY <2>1 DEF TargetOf
  <2> QED
    BY <1>3, <1>d, <1>f, <1>g, <2>1, <2>2, <2>3 DEF ReadForChange
<1>4. CASE ListJobs(r)
  <2> DEFINE c == req[r].camp
  <2>1. /\ req[r].pc = "list" /\ camps' = camps /\ jobs' = jobs /\ reverted' = reverted
        /\ req'[r].camp = c
        /\ \/ /\ req'[r].target = "COMPLETED" /\ req'[r].pc = "write"
              /\ JobsIn(r, c, {"PENDING"}) = {}
           \/ /\ req'[r].target = "SENDING" /\ req'[r].pc \in {"write", "select"}
    BY <1>4, <1>a DEF ListJobs, ReqAt, store, RequestRecords
  <2>2. c \in Campaigns /\ CampaignExists(c)
    BY <1>b, <2>1
  <2> HIDE DEF c
  <2>3. ASSUME JobsIn(r, c, {"PENDING"}) = {}, NEW j \in JobsOf(c) PROVE SeenOver(r, j)'
    <3>1. View(jobs, r, j) # "PENDING"
      BY <2>3 DEF JobsIn
    <3>2. SeenOver(r, j)
      BY <1>a, <2>2, <3>1, NotLive
    <3> QED
      BY <2>1, <3>2 DEF SeenOver
  <2>4. EndKept({r})
    BY <1>4, <1>f DEF ListJobs
  <2> QED
    BY <1>g, <2>1, <2>2, <2>3, <2>4
<1>5. ASSUME NEW j \in Jobs, SelectRow(r, j) PROVE EndKept({r}) /\ RequestEnds(r)'
  <2>1. /\ req[r].pc = "select" /\ camps' = camps /\ req'[r].pc = "update"
        /\ req'[r].camp = req[r].camp /\ req'[r].op = req[r].op
        /\ req'[r].target = req[r].target
    BY <1>5, <1>a DEF SelectRow, ReqAt, store, RequestRecords
  <2>2. req[r].op = "resume" => req[r].target = "SENDING"
    BY <1>a, <2>1 DEF RequestEnds
  <2> QED
    BY <1>5, <1>b, <1>f, <1>g, <2>1, <2>2 DEF SelectRow
<1>6. CASE UpdateRow(r)
  <2> DEFINE i == req[r].cur
             row == IF req[r].row # "PENDING" THEN "PENDING" ELSE View(jobs, r, i)
  <2>1. /\ req[r].pc = "update" /\ i \in Jobs /\ camps' = camps /\ req[r].op \in {"resume", "star"}
        /\ ~Locked(jobs, r, i) /\ jobs' = Put(jobs, r, i, row) /\ reverted' = reverted
        /\ CampaignExists(CampaignOf[i])
    BY <1>6, <1>a, EndParts
    DEF UpdateRow, ReqAt, Inv, TypeInv, RequestShape, RequestKnows, CampaignExists
  <2>2. View(jobs, r, i) \in JobRows /\ View(jobs, r, i) # Absent
    BY <1>a, <2>1, ViewRow DEF JobTable, JobInserted, View
  <2>3. row \in EmailStatus
    BY <2>2 DEF JobRows, EmailStatus
  <2>4. /\ req'[r].pc \in {"write", "select", "commit"} /\ req'[r].op = req[r].op
        /\ req'[r].pc = "write" => req[r].op # "star"
        /\ req'[r].camp = req[r].camp /\ req'[r].target = req[r].target
    BY <1>6, <1>a DEF UpdateRow, RequestRecords
  <2> HIDE DEF i, row
  <2>5. NoneCreated
    BY <2>1 DEF NoneCreated, CampaignExists
  <2>6. AllInserted' /\ JobsStable({r})
    BY <1>a, <2>1, <2>3, <2>5, JobWritten
  <2>7. EndKept({r})
    BY <2>1, <2>6, CampsStill DEF EndKept, JobsStable, CampsStable
  <2>8. req[r].op = "resume" => req[r].target = "SENDING"
    BY <1>a, <2>1 DEF RequestEnds
  <2> QED
    BY <1>b, <1>g, <2>1, <2>4, <2>7, <2>8
<1>7. CASE WriteStatus(r)
  <2>1. PICK c \in Campaigns, target \in CampaignStatus :
          /\ req[r].pc = "write" /\ req[r].camp = c /\ req[r].target = target
          /\ CampaignExists(c)
    BY <1>7, <1>b, EndParts DEF WriteStatus, ReqAt, Inv, TypeInv, RequestShape
  <2>2. CASE StatusOf(r, c) = req[r].seen
    <3>1. /\ camps' = Put(camps, r, c, [status |-> target, reason |-> None])
          /\ ~Locked(camps, r, c) /\ jobs' = jobs /\ reverted' = reverted
          /\ req'[r].pc = IF req[r].op = "cancel" THEN "snapshot" ELSE "commit"
          /\ req'[r].camp = c
      BY <1>7, <1>a, <2>1, <2>2 DEF WriteStatus, update_status_if, RequestRecords
    <3>2. (\A j \in Jobs : Over(j) => Over(j)') /\ None \in {None, ALL_SENDERS_EXHAUSTED}
      BY <3>1 DEF Over
    <3>3. /\ AllOpen' /\ CampsStable({r}) /\ NoneCreated
          /\ camps'.live = camps.live
          /\ camps'.next[c] = [status |-> target, reason |-> None]
          /\ \A d \in Campaigns : d # c =>
               camps'.next[d] = camps.next[d] /\ camps'.lock[d] = camps.lock[d]
      BY <1>a, <2>1, <3>1, <3>2, CampWritten, ZenonT(40)
    <3>4. EndKept({r})
      BY <3>1, <3>3, JobsStill DEF EndKept, JobsStable
    <3>5. EndsDrained(r, c, LeftToCancel(r))'
      <4>1. CASE req[r].op = "cancel"
        <5>1. LeftToCancel(r)' = JobsOf(c)
          BY <3>1, <4>1 DEF LeftToCancel
        <5> QED
          BY <5>1 DEF EndsDrained
      <4>2. CASE req[r].op # "cancel"
        <5>1. target # "CANCELLED" /\ (target = "COMPLETED" => \A j \in JobsOf(c) : SeenOver(r, j))
          BY <1>a, <2>1, <4>2 DEF RequestEnds
        <5> QED
          BY <3>1, <3>3, <5>1 DEF EndsDrained, Ended, SeenOver
      <4> QED
        BY <4>1, <4>2
    <3>6. \A d \in Campaigns : camps'.lock[d] = r => d = c
      BY <1>e, <2>1, <3>3
    <3>7. RequestEnds(r)'
      BY <2>1, <3>1, <3>3, <3>5, <3>6 DEF RequestEnds, CampaignExists
    <3> QED
      BY <3>4, <3>7
  <2>3. CASE StatusOf(r, c) # req[r].seen
    BY <1>7, <1>a, <1>h, <2>1, <2>3 DEF WriteStatus
  <2> QED
    BY <2>2, <2>3
<1>8. CASE SnapshotPending(r)
  <2> DEFINE c == req[r].camp
             pending == JobsIn(r, c, {"PENDING"})
  <2>1. /\ req[r].pc = "snapshot" /\ jobs' = jobs /\ camps' = camps /\ reverted' = reverted
        /\ req'[r].camp = c /\ req'[r].todo = pending
        /\ req'[r].pc = IF pending = {} THEN "commit" ELSE "cancelling"
    BY <1>8, <1>a DEF SnapshotPending, ReqAt, store, RequestRecords
  <2>2. c \in Campaigns /\ CampaignExists(c)
    BY <1>b, <2>1
  <2>3. ASSUME NEW j \in JobsOf(c) \ pending PROVE SeenOver(r, j)'
    <3>1. View(jobs, r, j) # "PENDING"
      BY <2>3 DEF JobsIn
    <3>2. SeenOver(r, j)
      BY <1>a, <2>2, <2>3, <3>1, NotLive
    <3> QED
      BY <2>1, <3>2 DEF SeenOver
  <2> HIDE DEF c, pending
  <2>4. LeftToCancel(r)' = pending
    BY <2>1 DEF LeftToCancel
  <2>5. \A d \in Campaigns : camps.lock[d] = r => d = c
    BY <1>a DEF RequestEnds, c
  <2>6. EndKept({r})
    BY <1>8, <1>f DEF SnapshotPending
  <2>7. RequestEnds(r)'
    BY <2>1, <2>2, <2>3, <2>4, <2>5 DEF RequestEnds, EndsDrained, CampaignExists
  <2> QED
    BY <2>6, <2>7
<1>9. ASSUME NEW j \in Jobs, CancelRow(r, j) PROVE EndKept({r}) /\ RequestEnds(r)'
  <2> DEFINE c == req[r].camp
  <2>1. /\ req[r].pc = "cancelling" /\ j \in req[r].todo /\ camps' = camps /\ reverted' = reverted
        /\ set_status_if(r, j, "PENDING", "CANCELLED")
        /\ req'[r].camp = c /\ req'[r].todo = req[r].todo \ {j}
        /\ req'[r].pc = IF req'[r].todo = {} THEN "commit" ELSE "cancelling"
    BY <1>9, <1>a DEF CancelRow, ReqAt, RequestRecords
  <2>2. c \in Campaigns /\ CampaignExists(c)
    BY <1>b, <2>1
  <2>3. \A d \in Campaigns : camps.lock[d] = r =>
          d = c /\ (camps.next[d].status \in Ended =>
                      \A i \in JobsOf(c) \ req[r].todo : SeenOver(r, i))
    BY <1>a, <2>1 DEF RequestEnds, EndsDrained, LeftToCancel
  <2> HIDE DEF c
  <2>4. LeftToCancel(r)' = req[r].todo \ {j}
    BY <2>1 DEF LeftToCancel
  <2>5. NoneCreated
    BY <2>1 DEF NoneCreated, CampaignExists
  <2>6. /\ AllInserted' /\ JobsStable({r})
        /\ j \in JobsOf(c) => SeenOver(r, j)'
        /\ \A i \in Jobs : i # j /\ SeenOver(r, i) => SeenOver(r, i)'
    <3>1. CASE View(jobs, r, j) = "PENDING"
      <4>1. jobs' = Put(jobs, r, j, "CANCELLED") /\ ~Locked(jobs, r, j)
        BY <2>1, <3>1 DEF set_status_if
      <4>2. "CANCELLED" \in EmailStatus
        BY DEF EmailStatus
      <4>3. /\ AllInserted' /\ JobsStable({r})
            /\ jobs'.next[j] = "CANCELLED" /\ jobs'.lock[j] = r
            /\ \A i \in Jobs : i # j =>
                 jobs'.next[i] = jobs.next[i] /\ jobs'.lock[i] = jobs.lock[i]
            /\ jobs'.live = jobs.live
        BY <1>a, <2>1, <2>5, <4>1, <4>2, JobWritten
      <4> QED
        BY <2>1, <4>3 DEF SeenOver, View, TERMINAL_EMAIL_STATUSES
    <3>2. CASE View(jobs, r, j) # "PENDING"
      <4>1. jobs' = jobs
        BY <2>1, <3>2 DEF set_status_if
      <4>2. j \in JobsOf(c) => SeenOver(r, j)
        BY <1>a, <2>2, <3>2, NotLive
      <4>3. AllInserted' /\ JobsStable({})
        BY <2>1, <2>5, <4>1, JobsStill
      <4> QED
        BY <2>1, <4>1, <4>2, <4>3 DEF SeenOver, JobsStable
    <3> QED
      BY <3>1, <3>2
  <2>7. EndKept({r})
    BY <2>1, <2>6, CampsStill DEF EndKept, JobsStable, CampsStable
  <2>8. \A d \in Campaigns : camps'.lock[d] = r => EndsDrained(r, d, LeftToCancel(r))'
    BY <1>a, <2>1, <2>3, <2>4, <2>6 DEF EndsDrained
  <2>9. RequestEnds(r)'
    BY <2>1, <2>2, <2>3, <2>8 DEF RequestEnds, CampaignExists
  <2> QED
    BY <2>7, <2>9
<1>10. CASE CommitRequest(r)
  <2>1. req[r].pc = "commit" /\ CommitSession(r) /\ req'[r].pc \in {"enqueue", "done"}
    BY <1>10, <1>a, <1>d DEF CommitRequest, ReqAt, RequestRecords
  <2>2. \A c \in Campaigns : camps.lock[c] = r => EndsDrained(r, c, {})
    BY <1>a, <2>1 DEF RequestEnds, LeftToCancel
  <2>3. /\ AllInserted' /\ AllOpen' /\ JobsStable({r}) /\ CampsStable({r})
        /\ \A c \in Campaigns : camps'.lock[c] # r
    BY <1>a, <2>1, <2>2, EndCommit
  <2> QED
    BY <2>1, <2>3 DEF EndKept, RequestEnds
<1>11. ASSUME NEW j \in Jobs, EnqueuePlanned(r, j) PROVE EndKept({r}) /\ RequestEnds(r)'
  <2>1. /\ req[r].pc = "enqueue" /\ camps' = camps /\ jobs' = jobs /\ reverted' = reverted
        /\ req'[r].pc \in {"enqueue", "done"}
    BY <1>11, <1>a, <1>d DEF EnqueuePlanned, ReqAt, RequestRecords
  <2>2. EndKept({r})
    BY <2>1, EndQuiet DEF EndKept, JobsStable, CampsStable
  <2> QED
    BY <1>g, <2>1, <2>2
<1>12. CASE RequestDies(r)
  BY <1>12, <1>a, <1>h DEF RequestDies
<1>13. ASSUME NEW j \in Jobs, ReadForStar(r, j) PROVE EndKept({r}) /\ RequestEnds(r)'
  <2>1. /\ req[r].pc = "new" /\ camps' = camps
        /\ req'[r].pc = "select" /\ req'[r].op = "star" /\ req'[r].camp = CampaignOf[j]
    BY <1>13, <1>a DEF ReadForStar, ReqAt, store, Request
  <2>2. CampaignExists(CampaignOf[j])
    BY <1>13, <1>i DEF ReadForStar, Absent
  <2> QED
    BY <1>13, <1>a, <1>f, <1>g, <2>1, <2>2 DEF ReadForStar
<1> QED
  BY <1>1, <1>2, <1>3, <1>4, <1>5, <1>6, <1>7, <1>8, <1>9, <1>10, <1>11, <1>12, <1>13
  DEF RequestStep, RequestArrives
-----------------------------------------------------------------------------
\* A status a session reads of a row is that of an existing campaign.
LEMMA ReadExists ==
  ASSUME EndInv, NEW s \in Sessions, NEW c \in Campaigns, StatusOf(s, c) # Absent
  PROVE  CampaignExists(c)
<1>1. Free # s /\ CampaignOpen(c)
  BY EndParts, TablesOf, CronsAssumption DEF Inv, Sessions, Free, AllOpen
<1> QED
  BY <1>1 DEF StatusOf, View, CampaignOpen, CampaignExists

\* A cron run that goes to another place of its loop, and writes nothing.
LEMMA EndVisit ==
  ASSUME EndInv, NEW k \in Crons, jobs' = jobs, camps' = camps, reverted' = reverted,
         \A i \in Crons : i # k => cron'[i] = cron[i],
         \A c \in cron'[k].todo : CampaignExists(c),
         k = "stuck_sweep" /\ cron'[k].pc = "update" =>
           \A j \in JobsOf(cron'[k].cur) : SeenOver(k, j)
  PROVE  EndKept({k}) /\ CronEnds(k)'
<1>1. EndKept({k})
  BY EndQuiet DEF EndKept, JobsStable, CampsStable
<1>2. CronEnds(k)
  BY EndParts
<1> QED
  BY <1>1, <1>2 DEF CronEnds, CampaignExists, SeenOver, EndsDrained

\* A cron run that writes the row of campaign c, or finds its status changed.
LEMMA EndCronCamp ==
  ASSUME EndInv, NEW k \in Crons, NEW c \in Campaigns,
         NEW expected \in CampaignStatus, NEW target \in CampaignStatus,
         update_status_if(k, c, expected, target, None), jobs' = jobs, reverted' = reverted,
         target \in Ended => \A j \in JobsOf(c) : SeenOver(k, j),
         cron'[k].pc # "update", cron'[k].todo \subseteq cron[k].todo
  PROVE  EndKept({k}) /\ CronEnds(k)'
<1>a. CronEnds(k) /\ k \in Sessions /\ \A d \in Campaigns : JobsOf(d) \subseteq Jobs
  BY EndParts DEF Sessions, JobsOf
<1>b. (\A j \in Jobs : Over(j) => Over(j)') /\ None \in {None, ALL_SENDERS_EXHAUSTED}
  BY DEF Over
<1>1. CASE camps' = camps
  <2>1. EndKept({k})
    BY <1>1, EndQuiet DEF EndKept, JobsStable, CampsStable
  <2> QED
    BY <1>1, <1>a, <2>1 DEF CronEnds, CampaignExists, SeenOver, EndsDrained
<1>2. CASE camps' # camps
  <2>1. /\ camps' = Put(camps, k, c, [status |-> target, reason |-> None])
        /\ ~Locked(camps, k, c) /\ StatusOf(k, c) = expected /\ Absent \notin CampaignStatus
    BY <1>2, EndParts, TablesOf DEF update_status_if, Inv
  <2>2. CampaignExists(c)
    BY <1>a, <2>1, ReadExists
  <2>3. /\ AllOpen' /\ CampsStable({k}) /\ NoneCreated
        /\ camps'.live = camps.live
        /\ camps'.next[c] = [status |-> target, reason |-> None]
        /\ \A d \in Campaigns : d # c =>
             camps'.next[d] = camps.next[d] /\ camps'.lock[d] = camps.lock[d]
    BY <1>a, <1>b, <2>1, <2>2, CampWritten, ZenonT(40)
  <2>4. EndKept({k})
    BY <2>3, JobsStill DEF EndKept, JobsStable
  <2>5. CronEnds(k)'
    BY <1>a, <2>3 DEF CronEnds, CampaignExists, SeenOver, EndsDrained
  <2> QED
    BY <2>4, <2>5
<1> QED
  BY <1>1, <1>2

\* Every step of a cron run is the step of one run.
LEMMA EndCron ==
  ASSUME EndInv,
         CronStep \/ \E i \in Crons, c \in Campaigns : CronStatementFails(i, c)
  PROVE  \E k \in Crons : /\ EndKept({k}) /\ CronEnds(k)'
                          /\ \A i \in Crons : i # k => cron'[i] = cron[i]
<1>a. /\ cron \in [Crons -> CronRecords] /\ \A k \in Crons : CronEnds(k) /\ k \in Sessions
      /\ Free \notin Crons
  BY EndParts, CronsAssumption
  DEF Inv, TypeInv, TypeOK, MaintenanceTypeOK, Sessions, Free
<1>b. ASSUME NEW k \in Crons, NEW c \in Campaigns, NEW pc, Visit(k, c, pc)
      PROVE  /\ cron'[k].pc = pc /\ cron'[k].todo \subseteq cron[k].todo
             /\ pc # "visit" => cron'[k].cur = c
             /\ \A i \in Crons : i # k => cron'[i] = cron[i]
  BY <1>a, <1>b DEF Visit, CronRecords
<1>c. ASSUME NEW k \in Crons, cron' = [cron EXCEPT ![k] = IdleCron],
             EndKept({k}), \A c \in Campaigns : camps'.lock[c] # k
      PROVE  /\ EndKept({k}) /\ CronEnds(k)'
             /\ \A i \in Crons : i # k => cron'[i] = cron[i]
  BY <1>a, <1>c DEF CronEnds, IdleCron
<1>1. ASSUME NEW k \in Crons, StartCron(k) PROVE EndKept({k}) /\ CronEnds(k)'
                /\ \A i \in Crons : i # k => cron'[i] = cron[i]
  <2>1. /\ cron'[k] = [pc |-> "visit", todo |-> Listed(k), cur |-> None]
        /\ \A i \in Crons : i # k => cron'[i] = cron[i]
        /\ jobs' = jobs /\ camps' = camps /\ reverted' = reverted
    BY <1>1, <1>a DEF StartCron, store
  <2>2. \A c \in Listed(k) : CampaignExists(c)
    BY <1>a, ReadExists DEF Listed, StatusOf, Absent
  <2> QED
    BY <2>1, <2>2, EndVisit
<1>2. ASSUME NEW c \in Campaigns, NotYet(c)
      PROVE  \E k \in Crons : /\ EndKept({k}) /\ CronEnds(k)'
                              /\ \A i \in Crons : i # k => cron'[i] = cron[i]
  <2>1. PICK k \in Crons : k = "auto_resume" /\ Visit(k, c, "visit")
    BY <1>2 DEF NotYet, CronAt
  <2>2. /\ cron'[k].pc = "visit" /\ cron'[k].todo \subseteq cron[k].todo
        /\ \A i \in Crons : i # k => cron'[i] = cron[i]
    BY <1>b, <2>1
  <2> QED
    BY <1>2, <1>a, <2>2, EndVisit DEF NotYet, store, CronEnds
<1>3. ASSUME NEW c \in Campaigns, AutoResume(c)
      PROVE  \E k \in Crons : /\ EndKept({k}) /\ CronEnds(k)'
                              /\ \A i \in Crons : i # k => cron'[i] = cron[i]
  <2>1. PICK k \in Crons, pc \in {"enqueue", "visit"} :
          k = "auto_resume" /\ Visit(k, c, pc) /\ jobs' = jobs /\ reverted' = reverted
          /\ update_status_if(k, c, "PAUSED", "SENDING", None)
    BY <1>3 DEF AutoResume, CronAt
  <2>2. /\ cron'[k].pc = pc /\ cron'[k].todo \subseteq cron[k].todo
        /\ \A i \in Crons : i # k => cron'[i] = cron[i]
    BY <1>b, <2>1
  <2>3. {"PAUSED", "SENDING"} \subseteq CampaignStatus /\ "SENDING" \notin Ended
    BY DEF CampaignStatus, Ended
  <2>4. EndKept({k}) /\ CronEnds(k)'
    BY <2>1, <2>2, <2>3, EndCronCamp
  <2> QED
    BY <2>2, <2>4
<1>4. CASE EnqueuePending
  <2>1. PICK k \in Crons, c \in Campaigns :
          k = "auto_resume" /\ Visit(k, c, "visit") /\ jobs' = jobs /\ reverted' = reverted
          /\ camps' = camps
    BY <1>4, EndParts DEF EnqueuePending, CronAt, Inv, TypeInv, CronShape
  <2>2. /\ cron'[k].pc = "visit" /\ cron'[k].todo \subseteq cron[k].todo
        /\ \A i \in Crons : i # k => cron'[i] = cron[i]
    BY <1>b, <2>1
  <2> QED
    BY <1>a, <2>1, <2>2, EndVisit DEF CronEnds
<1>5. ASSUME NEW c \in Campaigns, CountLive(c)
      PROVE  \E k \in Crons : /\ EndKept({k}) /\ CronEnds(k)'
                              /\ \A i \in Crons : i # k => cron'[i] = cron[i]
  <2>1. PICK k \in Crons, pc \in {"update", "visit"} :
          /\ k = "stuck_sweep" /\ Visit(k, c, pc) /\ c \in cron[k].todo
          /\ jobs' = jobs /\ reverted' = reverted /\ camps' = camps
          /\ pc = "update" => non_terminal(k, c) = {}
    BY <1>5 DEF CountLive, CronAt, store
  <2>2. /\ cron'[k].pc = pc /\ cron'[k].todo \subseteq cron[k].todo
        /\ pc = "update" => cron'[k].cur = c
        /\ \A i \in Crons : i # k => cron'[i] = cron[i]
    BY <1>b, <2>1
  <2>3. k \notin Tasks
    BY <2>1, SessionsAssumption
  <2>4. ASSUME pc = "update", NEW j \in JobsOf(c) PROVE SeenOver(k, j)
    <3>1. View(jobs, k, j) # "PENDING"
      BY <2>1, <2>4 DEF non_terminal, JobsIn, EmailStatus, TERMINAL_EMAIL_STATUSES
    <3>2. CampaignExists(c)
      BY <1>a, <2>1 DEF CronEnds
    <3> QED
      BY <1>a, <2>3, <3>1, <3>2, NotLive
  <2>5. EndKept({k}) /\ CronEnds(k)'
    BY <1>a, <2>1, <2>2, <2>4, EndVisit DEF CronEnds
  <2> QED
    BY <2>2, <2>5
<1>6. CASE CompleteStuck
  <2>1. PICK k \in Crons, c \in Campaigns :
          /\ k = "stuck_sweep" /\ Visit(k, c, "visit") /\ jobs' = jobs /\ reverted' = reverted
          /\ cron[k].pc = "update" /\ cron[k].cur = c
          /\ update_status_if(k, c, "SENDING", "COMPLETED", None)
    BY <1>6, EndParts DEF CompleteStuck, CronAt, Inv, TypeInv, CronShape
  <2>2. /\ cron'[k].pc = "visit" /\ cron'[k].todo \subseteq cron[k].todo
        /\ \A i \in Crons : i # k => cron'[i] = cron[i]
    BY <1>b, <2>1
  <2>3. {"COMPLETED", "SENDING"} \subseteq CampaignStatus
    BY DEF CampaignStatus
  <2>4. \A j \in JobsOf(c) : SeenOver(k, j)
    BY <1>a, <2>1 DEF CronEnds
  <2>5. EndKept({k}) /\ CronEnds(k)'
    BY <2>1, <2>2, <2>3, <2>4, EndCronCamp
  <2> QED
    BY <2>2, <2>5
<1>7. ASSUME NEW k \in Crons, CommitCron(k)
      PROVE  /\ EndKept({k}) /\ CronEnds(k)'
             /\ \A i \in Crons : i # k => cron'[i] = cron[i]
  <2>1. \A c \in Campaigns : camps.lock[c] = k => EndsDrained(k, c, {})
    BY <1>a DEF CronEnds
  <2>2. CommitSession(k) /\ k \notin Tasks /\ cron' = [cron EXCEPT ![k] = IdleCron]
    BY <1>7, CronsAssumption, SessionsAssumption DEF CommitCron
  <2>3. EndKept({k}) /\ \A c \in Campaigns : camps'.lock[c] # k
    BY <1>a, <2>1, <2>2, EndCommit DEF EndKept
  <2> QED
    BY <1>c, <2>2, <2>3
<1>8. ASSUME NEW k \in Crons, NEW c \in Campaigns, CronStatementFails(k, c)
      PROVE  /\ EndKept({k}) /\ CronEnds(k)'
             /\ \A i \in Crons : i # k => cron'[i] = cron[i]
  <2>1. CASE Visit(k, c, "visit") /\ UNCHANGED store
    <3>1. /\ cron'[k].pc = "visit" /\ cron'[k].todo \subseteq cron[k].todo
          /\ \A i \in Crons : i # k => cron'[i] = cron[i]
      BY <1>b, <2>1
    <3> QED
      BY <1>a, <2>1, <3>1, EndVisit DEF CronEnds, store
  <2>2. CASE CloseSessions({k}) /\ cron' = [cron EXCEPT ![k] = IdleCron]
    <3>1. EndKept({k}) /\ \A d \in Campaigns : camps'.lock[d] # k
      BY <1>a, <2>2, EndClose DEF EndKept
    <3> QED
      BY <1>c, <2>2, <3>1
  <2> QED
    BY <1>8, <2>1, <2>2 DEF CronStatementFails
<1> QED
  BY <1>1, <1>2, <1>3, <1>4, <1>5, <1>6, <1>7, <1>8 DEF CronStep
-----------------------------------------------------------------------------
\* Before anything happens there is no campaign and nobody is at work.
LEMMA InitEnds == Init => EndingInvariant
<1> SUFFICES ASSUME Init PROVE EndingInvariant
  OBVIOUS
<1>a. \A j \in Jobs : CampaignOf[j] \in Campaigns
  BY CampaignOfAssumption
<1>b. Free \notin Tasks /\ Free \notin Requests /\ Free \notin Crons
  BY TasksAssumption, RequestsAssumption, CronsAssumption DEF Free
<1>1. /\ \A c \in Campaigns : camps.live[c].status = Absent /\ camps.lock[c] = Free
      /\ Absent \notin Ended
  BY DEF Init, StoreInit, Committed, Ended, Absent
<1>2. (\A j \in Jobs : JobInserted(j)) /\ \A c \in Campaigns : CampaignOpen(c)
  BY <1>a, <1>1 DEF JobInserted, CampaignOpen, CampaignExists
<1>3. ASSUME NEW w \in Tasks PROVE TaskEnds(w)
  <2>1. task[w].pc = "idle"
    BY DEF Init, TaskInit, IdleTask
  <2> QED
    BY <1>b, <1>1, <2>1 DEF TaskEnds
<1>4. ASSUME NEW r \in Requests PROVE RequestEnds(r)
  <2>1. req[r].pc = "new"
    BY DEF Init, RequestInit, Request
  <2> QED
    BY <1>b, <1>1, <2>1 DEF RequestEnds
<1>5. ASSUME NEW k \in Crons PROVE CronEnds(k)
  <2>1. cron[k].pc = "idle" /\ cron[k].todo = {}
    BY DEF Init, MaintenanceInit, IdleCron
  <2> QED
    BY <1>b, <1>1, <2>1 DEF CronEnds
<1> QED
  BY <1>2, <1>3, <1>4, <1>5 DEF EndingInvariant

\* Every step keeps the promise: the session that takes it by its own lemma, the
\* others because what they have made sure of stays true.
LEMMA NextEnds == EndInv /\ [Next]_vars => EndingInvariant'
<1> SUFFICES ASSUME EndInv, [Next]_vars PROVE EndingInvariant'
  OBVIOUS
<1>a. /\ Tasks \cap Requests = {} /\ (Tasks \cup Requests) \cap Crons = {}
      /\ task \in [Tasks -> TaskRecords] /\ req \in [Requests -> RequestRecords]
      /\ Free \notin Tasks /\ Free \notin Crons
  BY EndParts, TablesOf, SessionsAssumption, CronsAssumption
  DEF Inv, TypeInv, TypeOK, TaskTypeOK, RequestTypeOK, Free
<1>b. ASSUME NEW w \in Tasks, EndKept({w}), TaskEnds(w)', req' = req, cron' = cron,
             \A v \in Tasks : v # w => task'[v] = task[v]
      PROVE  EndingInvariant'
  <2>1. /\ \A v \in Tasks \ {w} : TaskEnds(v)'
        /\ \A r \in Requests : RequestEnds(r)'
        /\ \A k \in Crons : CronEnds(k)'
    BY <1>a, <1>b, OthersStay DEF EndKept
  <2> QED
    BY <1>b, <2>1 DEF EndKept, EndingInvariant, AllInserted, AllOpen
<1>c. ASSUME NEW r \in Requests, EndKept({r}), RequestEnds(r)', task' = task, cron' = cron,
             \A q \in Requests : q # r => req'[q] = req[q]
      PROVE  EndingInvariant'
  <2>1. /\ \A v \in Tasks : TaskEnds(v)'
        /\ \A q \in Requests \ {r} : RequestEnds(q)'
        /\ \A k \in Crons : CronEnds(k)'
    BY <1>a, <1>c, OthersStay DEF EndKept
  <2> QED
    BY <1>c, <2>1 DEF EndKept, EndingInvariant, AllInserted, AllOpen
<1>d. ASSUME NEW k \in Crons, EndKept({k}), CronEnds(k)', task' = task, req' = req,
             \A i \in Crons : i # k => cron'[i] = cron[i]
      PROVE  EndingInvariant'
  <2>1. /\ \A v \in Tasks : TaskEnds(v)'
        /\ \A r \in Requests : RequestEnds(r)'
        /\ \A i \in Crons \ {k} : CronEnds(i)'
    BY <1>a, <1>d, OthersStay DEF EndKept
  <2> QED
    BY <1>d, <2>1 DEF EndKept, EndingInvariant, AllInserted, AllOpen
<1>e. ASSUME EndKept({}), task' = task, req' = req, cron' = cron PROVE EndingInvariant'
  <2>1. /\ \A v \in Tasks : TaskEnds(v)'
        /\ \A r \in Requests : RequestEnds(r)'
        /\ \A k \in Crons : CronEnds(k)'
    BY <1>e, OthersStay DEF EndKept
  <2> QED
    BY <1>e, <2>1 DEF EndKept, EndingInvariant, AllInserted, AllOpen
<1>1. CASE TaskAct
  <2>1. PICK w \in Tasks : TaskStep(w) \/ \E e \in Entries : Start(w, e)
    BY <1>1 DEF TaskAct, TaskNext
  <2>2. EndKept({w}) /\ TaskEnds(w)'
    BY <2>1, EndTaskStep, EndStart
  <2>3. \A v \in Tasks : v # w => task'[v] = task[v]
    BY <1>a, <2>1
    DEF TaskStep, Start, ReadCampaign, claim_pending, StartCampaign, Reject, Postpone,
        Exhaust, PauseExhausted, SmtpAccepts, SmtpRefuses, CheckCompletion,
        CompleteCampaign, CommitTask, RecordFails, Goto, Finish
  <2> QED
    BY <1>1, <1>b, <2>2, <2>3 DEF TaskAct
<1>2. CASE CronAct
  <2>1. PICK k \in Crons : /\ EndKept({k}) /\ CronEnds(k)'
                          /\ \A i \in Crons : i # k => cron'[i] = cron[i]
    BY <1>2, EndCron DEF CronAct
  <2> QED
    BY <1>2, <1>d, <2>1 DEF CronAct
<1>3. ASSUME NEW r \in Requests, RequestAct(r) \/ ApiCrash(r) \/ RequestFails(r)
      PROVE  EndingInvariant'
  <2>1. RequestStep(r) \/ RequestArrives(r) \/ RequestDies(r)
    BY <1>3 DEF RequestAct, ApiCrash, RequestFails
  <2>2. EndKept({r}) /\ RequestEnds(r)'
    BY <2>1, EndRequest
  <2>3. \A q \in Requests : q # r => req'[q] = req[q]
    BY <1>a, <2>1
    DEF RequestStep, RequestArrives, RequestDies, ListJobs, UpdateRow, WriteStatus,
        SnapshotPending, CommitRequest, SelectRow, CancelRow, EnqueuePlanned, ReadForStar,
        create, ReadForResume, ReadForChange
  <2> QED
    BY <1>3, <1>c, <2>2, <2>3 DEF RequestAct, ApiCrash, RequestFails
<1>4. ASSUME NEW w \in Tasks, TaskFails(w) PROVE EndingInvariant'
  <2>1. EndKept({w}) /\ TaskEnds(w)'
    BY <1>4, EndTaskStep DEF TaskFails
  <2>2. \A v \in Tasks : v # w => task'[v] = task[v]
    BY <1>4, <1>a DEF TaskFails, StatementFails, CompletionFails, Goto, Finish
  <2> QED
    BY <1>4, <1>b, <2>1, <2>2 DEF TaskFails
<1>5. ASSUME NEW k \in Crons, NEW c \in Campaigns, CronFails(k, c) PROVE EndingInvariant'
  <2>1. PICK i \in Crons : /\ EndKept({i}) /\ CronEnds(i)'
                          /\ \A h \in Crons : h # i => cron'[h] = cron[h]
    BY <1>5, EndCron DEF CronFails
  <2> QED
    BY <1>5, <1>d, <2>1 DEF CronFails
<1>6. CASE Clock
  BY <1>6, <1>e, EndQuiet DEF Clock, BecomeDue
<1>7. CASE WorkerCrash
  <2>1. CloseSessions(Tasks \cup Crons) /\ req' = req
    BY <1>7 DEF WorkerCrash
  <2>2. /\ EndKept(Tasks \cup Crons)
        /\ \A s \in Tasks \cup Crons, c \in Campaigns : camps'.lock[c] # s
    BY <1>a, <2>1, EndClose DEF EndKept
  <2>3. \A r \in Requests : RequestEnds(r)'
    BY <1>a, <2>1, <2>2, OthersStay DEF EndKept
  <2>4. ASSUME NEW w \in Tasks PROVE TaskEnds(w)'
    <3>1. task'[w].pc = "idle"
      BY <1>7 DEF WorkerCrash, IdleTask
    <3> QED
      BY <2>2, <3>1 DEF TaskEnds
  <2>5. ASSUME NEW k \in Crons PROVE CronEnds(k)'
    <3>1. cron'[k].pc = "idle" /\ cron'[k].todo = {}
      BY <1>7 DEF WorkerCrash, IdleCron
    <3> QED
      BY <2>2, <3>1 DEF CronEnds
  <2> QED
    BY <2>2, <2>3, <2>4, <2>5 DEF EndKept, EndingInvariant, AllInserted, AllOpen
<1>8. CASE WorkerStartup
  BY <1>8, <1>e, EndStartup DEF WorkerStartup, EndKept
<1>9. CASE UNCHANGED vars
  BY <1>9, <1>e, EndQuiet DEF vars, store
<1> QED
  BY <1>1, <1>2, <1>3, <1>4, <1>5, <1>6, <1>7, <1>8, <1>9 DEF Next, StatementFault

\* The invariants together hold in every reachable state.
LEMMA EndInvInvariant == Spec => []EndInv
<1>1. Init => EndInv
  BY InitType, InitClaims, InitEnds DEF EndInv, Inv
<1>2. EndInv /\ [Next]_vars => EndInv'
  BY NextType, NextClaims, NextEnds DEF EndInv, Inv
<1> QED
  BY <1>1, <1>2, PTL DEF Spec

\* Whoever completes or cancels a campaign has seen to it that no job is left to
\* send, whatever crashes, requests and faults happen in between.
THEOREM EndingCorrect == Spec => []EndingInvariant
<1>1. EndInv => EndingInvariant
  BY DEF EndInv
<1> QED
  BY <1>1, EndInvInvariant, PTL

\* A completed or cancelled campaign has no job left to send, but for those that
\* a resume or a star had written back.
THEOREM EndedIsDrained == Spec => []EndedDrained
<1>1. EndInv => EndedDrained
  <2> SUFFICES ASSUME EndInv, NEW c \in Campaigns, camps.live[c].status \in Ended,
                      NEW j \in JobsOf(c)
               PROVE  Over(j)
    BY DEF EndedDrained, Over, Ended
  <2> QED
    BY EndParts DEF AllOpen, CampaignOpen
<1> QED
  BY <1>1, EndInvInvariant, PTL

\* No mail of a campaign leaves after its cancel has been committed: the task
\* that would send it has claimed a job that everybody still sees as PENDING,
\* and a cancelled campaign has none.
THEOREM CancelStops == Spec => CancelStopsSending
<1>1. EndInv /\ [Next]_vars =>
        (\A j \in Jobs : sends'[j] # sends[j] =>
           camps.live[CampaignOf[j]].status # "CANCELLED" \/ j \in reverted)
  <2> SUFFICES ASSUME EndInv, [Next]_vars, NEW j \in Jobs, sends'[j] # sends[j],
                      camps.live[CampaignOf[j]].status = "CANCELLED"
               PROVE  j \in reverted
    OBVIOUS
  <2>1. \E w \in Tasks : SmtpAccepts(w)
    <3>1. CASE TaskAct
      BY <3>1
      DEF TaskAct, TaskNext, TaskStep, Start, ReadCampaign, claim_pending, StartCampaign,
          Reject, Postpone, Exhaust, PauseExhausted, SmtpRefuses, CheckCompletion,
          CompleteCampaign, CommitTask, RecordFails, CommitSession, CloseSessions, store
    <3>2. CASE CronAct
      BY <3>2
      DEF CronAct, CronStep, StartCron, CommitCron, NotYet, AutoResume, CountLive,
          EnqueuePending, CompleteStuck, CommitSession, store
    <3>3. ASSUME NEW r \in Requests, RequestAct(r) \/ ApiCrash(r) \/ RequestFails(r)
          PROVE  sends' = sends
      BY <3>3
      DEF RequestAct, ApiCrash, RequestFails, RequestStep, RequestArrives, RequestDies,
          ListJobs, UpdateRow, WriteStatus, SnapshotPending, CommitRequest, SelectRow,
          CancelRow, EnqueuePlanned, ReadForStar, create, ReadForResume, ReadForChange,
          CommitSession, CloseSessions, store
    <3>4. CASE StatementFault
      BY <3>3, <3>4
      DEF StatementFault, TaskFails, StatementFails, CompletionFails, CronFails,
          CronStatementFails, CloseSessions, store
    <3>5. CASE Clock \/ WorkerCrash \/ WorkerStartup \/ UNCHANGED vars
      BY <3>5 DEF Clock, BecomeDue, WorkerCrash, CloseSessions, WorkerStartup, vars, store
    <3> QED
      BY <3>1, <3>2, <3>3, <3>4, <3>5 DEF Next
  <2>2. PICK w \in Tasks : task[w].pc = "limits" /\ JobAt(w) = j
    <3>1. PICK w \in Tasks : SmtpAccepts(w)
      BY <2>1
    <3>2. sends \in [Jobs -> Nat]
      BY EndParts DEF Inv, TypeInv, TypeOK, StoreTypeOK
    <3> QED
      BY <3>1, <3>2 DEF SmtpAccepts, At
  <2>3. jobs.live[j] = "PENDING"
    BY <2>2, EndParts DEF Inv, ClaimInvariant, ClaimHeld, JobInv, HeldByTask
  <2>4. CampaignOf[j] \in Campaigns /\ j \in JobsOf(CampaignOf[j])
    BY CampaignOfAssumption DEF JobsOf
  <2>5. Over(j)
    BY <2>4, EndParts DEF AllOpen, CampaignOpen, Ended
  <2> QED
    BY <2>3, <2>5 DEF Over, TERMINAL_EMAIL_STATUSES
<1> QED
  BY <1>1, EndInvInvariant, PTL DEF Spec, CancelStopsSending
-----------------------------------------------------------------------------
(***************************************************************************)
(* The inductive invariant behind FollowsLifecycle: what a session has     *)
(* checked of the campaign's status before its UPDATE, and why the row it  *)
(* then writes is still in that status.                                    *)
(***************************************************************************)

\* A row nobody holds reads the same from everywhere, and nobody holds the row
\* of a campaign that has ended.
CampSettled(c) ==
  /\ camps.lock[c] = Free => camps.next[c] = camps.live[c]
  /\ camps.lock[c] # Free => camps.live[c].status \notin Ended

\* The status a task has read allows what the task is about to write.  A task
\* that has claimed a job of an ended campaign found a job written back.
TaskAllowed(w) ==
  /\ task[w].pc = "claim" => task[w].camp \in {"SCHEDULED", "SENDING", "COMPLETED"}
  /\ task[w].pc = "claim" /\ task[w].camp = "COMPLETED" =>
       camps.live[CampAt(w)].status \in Ended
  /\ task[w].pc \in {"start", "limits", "pausing"} => task[w].camp \in {"SCHEDULED", "SENDING"}
  /\ task[w].pc = "complete" => is_valid_transition(task[w].camp, "COMPLETED")

\* So does the status a request has read.
RequestAllowed(r) ==
  /\ req[r].pc = "list" \/ (req[r].pc \in {"select", "update"} /\ req[r].op = "resume")
       => req[r].seen = "PAUSED"
  /\ req[r].pc = "write" => is_valid_transition(req[r].seen, req[r].target)

\* Every write of a campaign's status is a transition from the status it replaces.
LifecycleHeld ==
  /\ \A c \in Campaigns : CampSettled(c)
  /\ \A w \in Tasks : TaskAllowed(w)
  /\ \A r \in Requests : RequestAllowed(r)

LifecycleInvariant == reverted = {} => LifecycleHeld
-----------------------------------------------------------------------------
\* As long as no job is written back, sessions write lawful statuses only.
LifeInv == EndInv /\ reverted = {} /\ LifecycleHeld

\* What a step may do to the table of campaigns.
Write(s, c, target, reason) ==
  /\ camps' = Put(camps, s, c, [status |-> target, reason |-> reason])
  /\ ~Locked(camps, s, c)
  /\ is_valid_transition(StatusOf(s, c), target)

\* The ways in which a step may treat the table of campaigns.
Lawful ==
  \/ camps' = camps
  \/ \E s \in Sessions, c \in Campaigns, target \in CampaignStatus,
        reason \in {None, ALL_SENDERS_EXHAUSTED} : Write(s, c, target, reason)
  \/ \E s \in Sessions : CommitSession(s)
  \/ \E E : CloseSessions(E)
  \/ \E r \in Requests, c \in Campaigns : create(r, c)
  \/ WorkerStartup

\* The parts of the invariant.
LEMMA LifeParts ==
  ASSUME LifeInv
  PROVE  /\ EndInv /\ reverted = {}
         /\ \A c \in Campaigns : CampSettled(c) /\ CampaignOpen(c)
         /\ \A w \in Tasks : TaskAllowed(w) /\ TaskEnds(w)
         /\ \A r \in Requests : RequestAllowed(r) /\ RequestKnows(r)
         /\ camps \in CampTable /\ Free \notin Sessions
         /\ Free \notin Tasks /\ Free \notin Requests
         /\ Absent \notin CampaignStatus /\ Ended \subseteq CampaignStatus
  BY EndParts, TablesOf, CronsAssumption
  DEF LifeInv, LifecycleHeld, Inv, ClaimInvariant, Sessions, AllOpen, Ended,
      CampaignStatus, Free

\* The transitions of the table that the code relies on.
LEMMA Transitions ==
  /\ is_valid_transition("SCHEDULED", "SENDING") /\ is_valid_transition("SCHEDULED", "PAUSED")
  /\ is_valid_transition("SENDING", "PAUSED") /\ is_valid_transition("SENDING", "COMPLETED")
  /\ is_valid_transition("PAUSED", "SENDING") /\ is_valid_transition("PAUSED", "COMPLETED")
  /\ \A s, t : is_valid_transition(s, t) => s \in CampaignStatus \ Ended /\ t \in CampaignStatus
  BY DEF is_valid_transition, CampaignStatus, ALLOWED_TRANSITIONS, Ended
-----------------------------------------------------------------------------
\* One row of the table of campaigns: what is shown of it and what is written.
Shown(c) == camps.live[c].status
Written(c) == camps.next[c].status

\* A lawful step moves every row as the state machine allows, keeps the rows
\* settled, and never shows an ended campaign as anything else.
LEMMA LawfulSteps ==
  ASSUME LifeInv, Lawful, NEW c \in Campaigns
  PROVE  /\ CampSettled(c)'
         /\ Shown(c) \in Ended => Shown(c)' \in Ended
         /\ <<Shown(c)', Written(c)'>> \in Lifecycle!Moves(Shown(c), Written(c))
<1> USE DEF Shown, Written
<1>a. /\ CampSettled(c) /\ camps \in CampTable /\ Free \notin Sessions
      /\ Absent \notin Ended
  BY LifeParts
<1>b. ASSUME camps'.live[c] = camps.live[c], camps'.next[c] = camps.next[c],
             camps'.lock[c] = camps.lock[c]
      PROVE  /\ CampSettled(c)'
             /\ Shown(c) \in Ended => Shown(c)' \in Ended
             /\ <<Shown(c)', Written(c)'>> \in Lifecycle!Moves(Shown(c), Written(c))
  BY <1>a, <1>b DEF CampSettled, Lifecycle!Moves
<1>1. CASE camps' = camps
  BY <1>b, <1>1
<1>2. ASSUME NEW s \in Sessions, NEW d \in Campaigns, NEW target \in CampaignStatus,
             NEW reason \in {None, ALL_SENDERS_EXHAUSTED}, Write(s, d, target, reason)
      PROVE  /\ CampSettled(c)'
             /\ Shown(c) \in Ended => Shown(c)' \in Ended
             /\ <<Shown(c)', Written(c)'>> \in Lifecycle!Moves(Shown(c), Written(c))
  <2> DEFINE row == [status |-> target, reason |-> reason]
  <2>1. row \in CampaignRows /\ row.status = target
    BY DEF CampaignRows
  <2>2. /\ camps' = Put(camps, s, d, row) /\ ~Locked(camps, s, d)
        /\ is_valid_transition(StatusOf(s, d), target)
    BY <1>2 DEF Write
  <2> HIDE DEF row
  <2>3. /\ camps'.live = camps.live
        /\ camps'.next = [camps.next EXCEPT ![d] = row]
        /\ camps'.lock = [camps.lock EXCEPT ![d] = s]
    BY <1>a, <2>1, <2>2, PutRow DEF CampTable
  <2>4. CASE c = d
    <3>1. camps'.live[c] = camps.live[c] /\ camps'.next[c] = row /\ camps'.lock[c] = s
      BY <1>a, <2>3, <2>4 DEF CampTable, Tables
    <3>2. StatusOf(s, c) = Written(c) /\ (camps.lock[c] = Free => StatusOf(s, c) = Shown(c))
      BY <1>a, <2>2, <2>4 DEF StatusOf, View, Locked, CampSettled
    <3>3. camps.live[c].status \notin Ended
      BY <1>a, <2>2, <2>4, <3>2, Transitions DEF CampSettled
    <3>4. target \in {t \in CampaignStatus : Lifecycle!is_valid_transition(Written(c), t)}
      BY <2>2, <2>4, <3>2
      DEF is_valid_transition, Lifecycle!is_valid_transition, CampaignStatus,
          Lifecycle!CampaignStatus, ALLOWED_TRANSITIONS, Lifecycle!ALLOWED_TRANSITIONS
    <3> QED
      BY <1>a, <2>1, <3>1, <3>3, <3>4
      DEF CampSettled, Lifecycle!Moves, CampaignStatus, Lifecycle!CampaignStatus
  <2>5. CASE c # d
    BY <1>a, <1>b, <2>3, <2>5 DEF CampTable, Tables
  <2> QED
    BY <2>4, <2>5
<1>3. ASSUME NEW s \in Sessions, CommitSession(s)
      PROVE  /\ CampSettled(c)'
             /\ Shown(c) \in Ended => Shown(c)' \in Ended
             /\ <<Shown(c)', Written(c)'>> \in Lifecycle!Moves(Shown(c), Written(c))
  <2>1. /\ camps'.next = camps.next
        /\ camps'.live[c] = IF camps.lock[c] = s THEN camps.next[c] ELSE camps.live[c]
        /\ camps'.lock[c] = IF camps.lock[c] = s THEN Free ELSE camps.lock[c]
    BY <1>3, <1>a, PublishRow DEF CommitSession, CampTable
  <2> QED
    BY <1>a, <1>b, <2>1 DEF CampSettled, Lifecycle!Moves
<1>4. ASSUME NEW E, CloseSessions(E)
      PROVE  /\ CampSettled(c)'
             /\ Shown(c) \in Ended => Shown(c)' \in Ended
             /\ <<Shown(c)', Written(c)'>> \in Lifecycle!Moves(Shown(c), Written(c))
  <2>1. /\ camps'.live = camps.live
        /\ camps'.next[c] = IF camps.lock[c] \in E THEN camps.live[c] ELSE camps.next[c]
        /\ camps'.lock[c] = IF camps.lock[c] \in E THEN Free ELSE camps.lock[c]
    BY <1>4, <1>a, DiscardRow DEF CloseSessions, CampTable
  <2> QED
    BY <1>a, <1>b, <2>1 DEF CampSettled, Lifecycle!Moves
<1>5. ASSUME NEW r \in Requests, NEW d \in Campaigns, create(r, d)
      PROVE  /\ CampSettled(c)'
             /\ Shown(c) \in Ended => Shown(c)' \in Ended
             /\ <<Shown(c)', Written(c)'>> \in Lifecycle!Moves(Shown(c), Written(c))
  <2> DEFINE row == [status |-> "SCHEDULED", reason |-> None]
  <2>1. camps' = [camps EXCEPT !.live = [@ EXCEPT ![d] = row], !.next = [@ EXCEPT ![d] = row]]
    BY <1>5 DEF create
  <2>2. row.status = "SCHEDULED"
    OBVIOUS
  <2> HIDE DEF row
  <2>3. /\ camps'.live = [camps.live EXCEPT ![d] = row]
        /\ camps'.next = [camps.next EXCEPT ![d] = row]
        /\ camps'.lock = camps.lock
    BY <1>a, <2>1 DEF CampTable, Tables
  <2>4. CASE c = d
    <3>1. camps'.live[c] = row /\ camps'.next[c] = row /\ camps'.lock[c] = camps.lock[c]
      BY <1>a, <2>3, <2>4 DEF CampTable, Tables
    <3>2. camps.live[c].status = Absent /\ camps.lock[c] = Free
      BY <1>5, <2>4, LifeParts DEF create, CampaignOpen, CampaignExists
    <3> QED
      BY <1>a, <2>2, <3>1, <3>2 DEF CampSettled, Lifecycle!Moves, Absent, Lifecycle!Absent, Ended
  <2>5. CASE c # d
    BY <1>a, <1>b, <2>3, <2>5 DEF CampTable, Tables
  <2> QED
    BY <2>4, <2>5
<1>6. CASE WorkerStartup
  <2> DEFINE done == [status |-> "COMPLETED", reason |-> None]
  <2>1. camps' = [camps EXCEPT
                    !.live = [d \in Campaigns |-> IF d \in Stuck THEN done ELSE @[d]],
                    !.next = [d \in Campaigns |-> IF d \in Stuck THEN done ELSE @[d]]]
    BY <1>6 DEF WorkerStartup
  <2>2. done.status = "COMPLETED"
    OBVIOUS
  <2> HIDE DEF done
  <2>3. /\ camps'.lock = camps.lock
        /\ camps'.live[c] = IF c \in Stuck THEN done ELSE camps.live[c]
        /\ camps'.next[c] = IF c \in Stuck THEN done ELSE camps.next[c]
    BY <1>a, <2>1 DEF CampTable, Tables
  <2>4. CASE c \in Stuck
    <3>1. camps.live[c].status = "SENDING" /\ camps.lock[c] = Free
      BY <1>6, <2>4 DEF WorkerStartup, Stuck
    <3>2. "COMPLETED" \in {t \in Lifecycle!CampaignStatus : Lifecycle!is_valid_transition("SENDING", t)}
      BY DEF Lifecycle!is_valid_transition, Lifecycle!CampaignStatus,
             Lifecycle!ALLOWED_TRANSITIONS
    <3> QED
      BY <1>a, <2>2, <2>3, <2>4, <3>1, <3>2 DEF CampSettled, Lifecycle!Moves, Ended
  <2>5. CASE c \notin Stuck
    BY <1>b, <2>3, <2>5
  <2> QED
    BY <2>4, <2>5
<1> QED
  BY <1>1, <1>2, <1>3, <1>4, <1>5, <1>6 DEF Lawful
-----------------------------------------------------------------------------
\* UPDATE ... WHERE status = expected is lawful when the transition from the
\* expected status is.
LEMMA UpdateLawful ==
  ASSUME LifeInv, NEW s \in Sessions, NEW c \in Campaigns, NEW expected, NEW target,
         NEW reason \in {None, ALL_SENDERS_EXHAUSTED},
         update_status_if(s, c, expected, target, reason),
         is_valid_transition(expected, target)
  PROVE  Lawful
<1>1. target \in CampaignStatus
  BY Transitions
<1>2. camps' = camps \/ Write(s, c, target, reason)
  BY DEF update_status_if, Write
<1> QED
  BY <1>1, <1>2 DEF Lawful

\* A task that goes to another place with the status it has read.
LEMMA AllowedGoto ==
  ASSUME NEW w \in Tasks, task \in [Tasks -> TaskRecords], NEW pc, Goto(w, pc),
         \/ pc \in {"commit", "check"}
         \/ pc \in {"start", "limits", "pausing"} /\ task[w].camp \in {"SCHEDULED", "SENDING"}
  PROVE  TaskAllowed(w)'
<1>1. task'[w].pc = pc /\ task'[w].camp = task[w].camp
  BY DEF Goto, TaskRecords
<1> QED
  BY <1>1 DEF TaskAllowed

\* The end of a task leaves nothing to be allowed.
LEMMA AllowedFinish ==
  ASSUME NEW w \in Tasks, task \in [Tasks -> TaskRecords], Finish(w)
  PROVE  TaskAllowed(w)'
  BY DEF Finish, IdleTask, TaskAllowed

\* Every step of a task is lawful: its UPDATEs expect the status it has read, and
\* a job it has claimed does not belong to an ended campaign.
LEMMA LifeTask ==
  ASSUME LifeInv, NEW w \in Tasks,
         \/ TaskStep(w) \/ StatementFails(w) \/ CompletionFails(w)
         \/ \E e \in Entries : Start(w, e)
  PROVE  Lawful /\ TaskAllowed(w)'
<1>a. /\ task \in [Tasks -> TaskRecords] /\ TaskAllowed(w) /\ TaskEnds(w) /\ w \in Sessions
      /\ reverted = {}
      /\ \A j \in Jobs : JobInv(j)
      /\ \A c \in Campaigns : CampaignOpen(c) /\ JobsOf(c) \subseteq Jobs
      /\ w # Free /\ camps \in CampTable
  BY LifeParts, EndParts
  DEF Inv, TypeInv, TypeOK, TaskTypeOK, Sessions, ClaimInvariant, JobsOf
<1>b. ASSUME task[w].pc # "idle"
      PROVE  JobAt(w) \in Jobs /\ CampAt(w) \in Campaigns
  BY <1>b, EndParts, LifeParts, TaskJob DEF Inv, At
<1>c. None \in {None, ALL_SENDERS_EXHAUSTED} /\ ALL_SENDERS_EXHAUSTED \in {None, ALL_SENDERS_EXHAUSTED}
  OBVIOUS
<1>1. ASSUME NEW e \in Entries, Start(w, e) PROVE Lawful /\ TaskAllowed(w)'
  <2>1. task'[w].pc = "campaign" /\ camps' = camps
    BY <1>1, <1>a DEF Start
  <2> QED
    BY <2>1 DEF TaskAllowed, Lawful
<1>2. CASE ReadCampaign(w)
  <2>1. PICK c \in Campaigns : c = CampAt(w)
    BY <1>2, <1>b DEF ReadCampaign, At
  <2>2. /\ task[w].pc = "campaign" /\ camps' = camps /\ task'[w].camp = StatusOf(w, c)
        /\ task'[w].pc \in {"commit", "check", "claim"}
        /\ task'[w].pc = "claim" =>
             StatusOf(w, c) \notin {"PAUSED", "CANCELLED"} /\ task[w].job = "PENDING"
        /\ task'[w].entry = task[w].entry
    BY <1>2, <1>a, <2>1 DEF ReadCampaign, At, store, TaskRecords
  <2>3. camps.lock[c] # w /\ CampAt(w)' = c
    BY <1>a, <2>1, <2>2 DEF TaskEnds, CampAt, JobAt
  <2>4. StatusOf(w, c) = camps.live[c].status
    BY <2>3 DEF StatusOf, View
  <2>5. task'[w].pc = "claim" => StatusOf(w, c) \in CampaignStatus \ {"PAUSED", "CANCELLED"}
    BY <1>a, <2>1, <2>2, <2>4
    DEF TaskEnds, CampaignExists, CampTable, Tables, CampaignRows, Absent
  <2> QED
    BY <2>2, <2>3, <2>4, <2>5 DEF TaskAllowed, Lawful, CampaignStatus, Ended
<1>3. CASE claim_pending(w)
  <2>1. /\ task[w].pc = "claim" /\ camps' = camps
        /\ set_status_if(w, JobAt(w), "PENDING", "SENDING")
    BY <1>3 DEF claim_pending, At
  <2>2. CASE View(jobs, w, JobAt(w)) = "PENDING"
    <3>1. Goto(w, "start")
      BY <1>3, <2>2 DEF claim_pending
    <3>2. PICK j \in Jobs, c \in Campaigns : j = JobAt(w) /\ c = CampAt(w) /\ j \in JobsOf(c)
      BY <1>b, <2>1 DEF JobsOf, CampAt
    <3>3. jobs.lock[j] # w
      BY <1>a, <2>1 DEF JobInv, HeldByTask
    <3>4. jobs.live[j] = "PENDING"
      BY <2>2, <3>2, <3>3 DEF View
    <3>5. camps.live[c].status \notin Ended
      BY <1>a, <3>2, <3>4 DEF CampaignOpen, Over, TERMINAL_EMAIL_STATUSES
    <3>6. task[w].camp \in {"SCHEDULED", "SENDING"}
      BY <1>a, <2>1, <3>2, <3>5 DEF TaskAllowed
    <3>7. TaskAllowed(w)'
      BY <1>a, <3>1, <3>6, AllowedGoto
    <3> QED
      BY <2>1, <3>7 DEF Lawful
  <2>3. CASE View(jobs, w, JobAt(w)) # "PENDING"
    <3>1. Goto(w, "commit")
      BY <1>3, <2>3 DEF claim_pending
    <3> QED
      BY <1>a, <2>1, <3>1, AllowedGoto DEF Lawful
  <2> QED
    BY <2>2, <2>3
<1>4. CASE StartCampaign(w)
  <2>1. task[w].pc = "start" /\ Goto(w, "limits") /\ task[w].camp \in {"SCHEDULED", "SENDING"}
    BY <1>4, <1>a DEF StartCampaign, At, TaskAllowed
  <2>2. Lawful
    BY <1>4, <1>a, <1>b, <1>c, <2>1, UpdateLawful, Transitions DEF StartCampaign, Lawful
  <2> QED
    BY <1>a, <2>1, <2>2, AllowedGoto
<1>5. CASE Exhaust(w)
  <2>1. /\ task[w].pc = "limits" /\ Goto(w, "pausing") /\ camps' = camps
        /\ task[w].camp \in {"SCHEDULED", "SENDING"}
    BY <1>5, <1>a DEF Exhaust, At, TaskAllowed
  <2> QED
    BY <1>a, <2>1, AllowedGoto DEF Lawful
<1>6. CASE PauseExhausted(w)
  <2>1. task[w].pc = "pausing" /\ Goto(w, "commit") /\ task[w].camp \in {"SCHEDULED", "SENDING"}
    BY <1>6, <1>a DEF PauseExhausted, At, TaskAllowed
  <2>2. Lawful
    BY <1>6, <1>a, <1>b, <1>c, <2>1, UpdateLawful, Transitions DEF PauseExhausted
  <2> QED
    BY <1>a, <2>1, <2>2, AllowedGoto
<1>7. CASE CheckCompletion(w)
  <2>1. /\ camps' = camps /\ task'[w].pc \in {"complete", "commit"}
        /\ task'[w].pc = "complete" => is_valid_transition(task'[w].camp, "COMPLETED")
    BY <1>7, <1>a DEF CheckCompletion, store, TaskRecords
  <2> QED
    BY <2>1 DEF TaskAllowed, Lawful
<1>8. CASE CompleteCampaign(w)
  <2>1. /\ task[w].pc = "complete" /\ Goto(w, "commit")
        /\ is_valid_transition(task[w].camp, "COMPLETED")
    BY <1>8, <1>a DEF CompleteCampaign, At, TaskAllowed
  <2>2. Lawful
    BY <1>8, <1>a, <1>b, <1>c, <2>1, UpdateLawful DEF CompleteCampaign
  <2> QED
    BY <1>a, <2>1, <2>2, AllowedGoto
<1>9. CASE CommitTask(w) \/ RecordFails(w) \/ StatementFails(w)
  <2>1. Finish(w) /\ (CommitSession(w) \/ CloseSessions({w}))
    BY <1>9 DEF CommitTask, RecordFails, StatementFails
  <2>2. Lawful
    BY <1>a, <2>1 DEF Lawful
  <2> QED
    BY <1>a, <2>1, <2>2, AllowedFinish
<1>10. CASE \/ Reject(w) \/ Postpone(w) \/ SmtpAccepts(w) \/ SmtpRefuses(w)
            \/ CompletionFails(w)
  <2>1. camps' = camps /\ \E pc \in {"commit", "check"} : Goto(w, pc)
    BY <1>10 DEF Reject, Postpone, SmtpAccepts, SmtpRefuses, CompletionFails, store
  <2> QED
    BY <1>a, <2>1, AllowedGoto DEF Lawful
<1> QED
  BY <1>1, <1>2, <1>3, <1>4, <1>5, <1>6, <1>7, <1>8, <1>9, <1>10 DEF TaskStep

\* Every step of a request is lawful: it checks the transition from the status it
\* reads, and its UPDATE asks for that status again.
LEMMA LifeRequest ==
  ASSUME LifeInv, NEW r \in Requests, RequestStep(r) \/ RequestArrives(r) \/ RequestDies(r)
  PROVE  Lawful /\ RequestAllowed(r)'
<1>a. /\ req \in [Requests -> RequestRecords] /\ RequestAllowed(r) /\ RequestKnows(r)
      /\ r \in Sessions
      /\ req[r].pc = "write" => req[r].camp \in Campaigns
      /\ None \in {None, ALL_SENDERS_EXHAUSTED}
  BY LifeParts, EndParts
  DEF Inv, TypeInv, TypeOK, RequestTypeOK, RequestShape, Sessions
<1>b. ASSUME req' = [req EXCEPT ![r] = Answered] PROVE RequestAllowed(r)'
  BY <1>a, <1>b DEF RequestAllowed, Answered, Request
<1>c. ASSUME camps' = camps PROVE Lawful
  BY <1>c DEF Lawful
<1>1. ASSUME NEW c \in Campaigns, create(r, c) PROVE Lawful /\ RequestAllowed(r)'
  <2>1. req'[r].pc = "enqueue"
    BY <1>1, <1>a DEF create, Request
  <2> QED
    BY <1>1, <2>1 DEF Lawful, RequestAllowed
<1>2. ASSUME NEW c \in Campaigns, ReadForResume(r, c) PROVE Lawful /\ RequestAllowed(r)'
  <2>1. CASE StatusOf(r, c) = "PAUSED"
    <3>1. req'[r].pc = "list" /\ req'[r].seen = "PAUSED"
      BY <1>2, <1>a, <2>1 DEF ReadForResume, Request
    <3> QED
      BY <1>2, <1>c, <3>1 DEF RequestAllowed, ReadForResume, store
  <2>2. CASE StatusOf(r, c) # "PAUSED"
    BY <1>2, <1>b, <1>c, <2>2 DEF ReadForResume, store
  <2> QED
    BY <2>1, <2>2
<1>3. ASSUME NEW op \in ApiOps, NEW c \in Campaigns, ReadForChange(r, op, c)
      PROVE  Lawful /\ RequestAllowed(r)'
  <2>1. CASE is_valid_transition(StatusOf(r, c), TargetOf(op))
    <3>1. /\ req'[r].pc = "write" /\ req'[r].seen = StatusOf(r, c)
          /\ req'[r].target = TargetOf(op)
      BY <1>3, <1>a, <2>1 DEF ReadForChange, Request
    <3> QED
      BY <1>3, <1>c, <2>1, <3>1 DEF RequestAllowed, ReadForChange, store
  <2>2. CASE ~is_valid_transition(StatusOf(r, c), TargetOf(op))
    BY <1>3, <1>b, <1>c, <2>2 DEF ReadForChange, store
  <2> QED
    BY <2>1, <2>2
<1>4. CASE ListJobs(r)
  <2>1. /\ req[r].pc = "list" /\ camps' = camps
        /\ req'[r].pc \in {"write", "select"} /\ req'[r].seen = req[r].seen
        /\ req'[r].target \in {"COMPLETED", "SENDING"}
    BY <1>4, <1>a DEF ListJobs, ReqAt, store, RequestRecords
  <2>2. req[r].seen = "PAUSED"
    BY <1>a, <2>1 DEF RequestAllowed
  <2>3. RequestAllowed(r)'
    BY <2>1, <2>2, Transitions DEF RequestAllowed
  <2> QED
    BY <1>c, <2>1, <2>3
<1>5. ASSUME NEW j \in Jobs, SelectRow(r, j) PROVE Lawful /\ RequestAllowed(r)'
  <2>1. /\ req[r].pc = "select" /\ camps' = camps /\ req'[r].pc = "update"
        /\ req'[r].op = req[r].op /\ req'[r].seen = req[r].seen
    BY <1>5, <1>a DEF SelectRow, ReqAt, store, RequestRecords
  <2> QED
    BY <1>a, <1>c, <2>1 DEF RequestAllowed
<1>6. CASE UpdateRow(r)
  <2>1. /\ req[r].pc = "update" /\ camps' = camps /\ req'[r].pc \in {"write", "select", "commit"}
        /\ req'[r].op = req[r].op /\ req'[r].seen = req[r].seen
        /\ req'[r].target = req[r].target
        /\ req'[r].pc = "write" => req[r].op # "star"
    BY <1>6, <1>a DEF UpdateRow, ReqAt, RequestRecords
  <2>2. req[r].op \in {"resume", "star"} /\ (req[r].op = "resume" => req[r].target = "SENDING")
    BY <1>a, <2>1, EndParts, LifeParts DEF RequestKnows, RequestEnds
  <2>3. req[r].op = "resume" => req[r].seen = "PAUSED"
    BY <1>a, <2>1 DEF RequestAllowed
  <2>4. RequestAllowed(r)'
    BY <2>1, <2>2, <2>3, Transitions DEF RequestAllowed
  <2> QED
    BY <1>c, <2>1, <2>4
<1>7. CASE WriteStatus(r)
  <2>1. req[r].pc = "write" /\ is_valid_transition(req[r].seen, req[r].target)
    BY <1>7, <1>a DEF WriteStatus, ReqAt, RequestAllowed
  <2>2. CASE update_status_if(r, req[r].camp, req[r].seen, req[r].target, None)
             /\ StatusOf(r, req[r].camp) = req[r].seen
    <3>1. Lawful
      BY <1>a, <2>1, <2>2, UpdateLawful
    <3>2. req'[r].pc \in {"snapshot", "commit"}
      BY <1>7, <1>a, <2>2 DEF WriteStatus, RequestRecords
    <3> QED
      BY <3>1, <3>2 DEF RequestAllowed
  <2>3. CASE CloseSessions({r}) /\ req' = [req EXCEPT ![r] = Answered]
    BY <1>b, <2>3 DEF Lawful
  <2> QED
    BY <1>7, <2>2, <2>3 DEF WriteStatus
<1>8. CASE SnapshotPending(r)
  <2>1. camps' = camps /\ req'[r].pc \in {"cancelling", "commit", "enqueue", "done"}
    BY <1>8, <1>a DEF SnapshotPending, ReqAt, store, Request, RequestRecords
  <2> QED
    BY <1>c, <2>1 DEF RequestAllowed
<1>12. ASSUME NEW j \in Jobs, CancelRow(r, j) PROVE Lawful /\ RequestAllowed(r)'
  <2>1. camps' = camps /\ req'[r].pc \in {"cancelling", "commit", "enqueue", "done"}
    BY <1>12, <1>a DEF CancelRow, ReqAt, store, Request, RequestRecords
  <2> QED
    BY <1>c, <2>1 DEF RequestAllowed
<1>13. ASSUME NEW j \in Jobs, EnqueuePlanned(r, j) PROVE Lawful /\ RequestAllowed(r)'
  <2>1. camps' = camps /\ req'[r].pc \in {"cancelling", "commit", "enqueue", "done"}
    BY <1>13, <1>a DEF EnqueuePlanned, ReqAt, store, Answered, Request, RequestRecords
  <2> QED
    BY <1>c, <2>1 DEF RequestAllowed
<1>9. CASE CommitRequest(r)
  <2>1. CommitSession(r) /\ req'[r].pc \in {"enqueue", "done"}
    BY <1>9, <1>a DEF CommitRequest, Answered, Request, RequestRecords
  <2> QED
    BY <1>a, <2>1 DEF Lawful, RequestAllowed
<1>10. CASE RequestDies(r)
  BY <1>10, <1>b DEF RequestDies, Lawful
<1>11. ASSUME NEW j \in Jobs, ReadForStar(r, j) PROVE Lawful /\ RequestAllowed(r)'
  <2>1. camps' = camps /\ req'[r].pc = "select" /\ req'[r].op = "star"
    BY <1>11, <1>a DEF ReadForStar, store, Request
  <2> QED
    BY <1>c, <2>1 DEF RequestAllowed
<1> QED
  BY <1>1, <1>2, <1>3, <1>4, <1>5, <1>6, <1>7, <1>8, <1>9, <1>10, <1>11,
     <1>12, <1>13
  DEF RequestStep, RequestArrives

\* Every step of a cron run is lawful: its UPDATEs name the status they replace.
LEMMA LifeCron ==
  ASSUME LifeInv, CronStep \/ \E k \in Crons, c \in Campaigns : CronStatementFails(k, c)
  PROVE  Lawful
<1>a. /\ \A k \in Crons : k \in Sessions
      /\ None \in {None, ALL_SENDERS_EXHAUSTED}
  BY DEF Sessions
<1>1. ASSUME NEW c \in Campaigns, AutoResume(c) PROVE Lawful
  BY <1>1, <1>a, UpdateLawful, Transitions DEF AutoResume, CronAt
<1>2. CASE CompleteStuck
  <2>1. "stuck_sweep" \in Sessions /\ cron["stuck_sweep"].cur \in Campaigns
    BY <1>2, <1>a, LifeParts, EndParts DEF CompleteStuck, CronAt, Inv, TypeInv, CronShape
  <2> QED
    BY <1>2, <1>a, <2>1, UpdateLawful, Transitions DEF CompleteStuck
<1>3. CASE \/ \E k \in Crons : StartCron(k) \/ CommitCron(k)
           \/ \E c \in Campaigns : NotYet(c) \/ CountLive(c)
           \/ EnqueuePending
           \/ \E k \in Crons, c \in Campaigns : CronStatementFails(k, c)
  BY <1>3, <1>a
  DEF StartCron, CommitCron, NotYet, CountLive, EnqueuePending, CronStatementFails, store, Lawful
<1> QED
  BY <1>1, <1>2, <1>3 DEF CronStep
-----------------------------------------------------------------------------
\* What a session has read of a campaign stays good enough while it waits.
LEMMA LifeStill ==
  ASSUME LifeInv, \A c \in Campaigns : Shown(c) \in Ended => Shown(c)' \in Ended
  PROVE  /\ \A w \in Tasks : task'[w] = task[w] => TaskAllowed(w)'
         /\ \A r \in Requests : req'[r] = req[r] => RequestAllowed(r)'
<1>1. ASSUME NEW w \in Tasks, task'[w] = task[w] PROVE TaskAllowed(w)'
  <2>1. TaskAllowed(w) /\ CampAt(w)' = CampAt(w)
    BY <1>1, LifeParts DEF CampAt, JobAt
  <2>2. task[w].pc = "claim" => CampAt(w) \in Campaigns
    BY LifeParts, EndParts, TaskJob DEF Inv, At
  <2> QED
    BY <1>1, <2>1, <2>2 DEF TaskAllowed, Shown
<1>2. ASSUME NEW r \in Requests, req'[r] = req[r] PROVE RequestAllowed(r)'
  BY <1>2, LifeParts DEF RequestAllowed
<1> QED
  BY <1>1, <1>2

\* Every step is lawful, and leaves every session with a status that allows what
\* it is about to write.
LEMMA NextLife ==
  ASSUME LifeInv, [Next]_vars
  PROVE  /\ LifecycleHeld'
         /\ \A c \in Campaigns :
              <<Shown(c)', Written(c)'>> \in Lifecycle!Moves(Shown(c), Written(c))
<1>a. task \in [Tasks -> TaskRecords] /\ req \in [Requests -> RequestRecords]
  BY LifeParts, EndParts DEF Inv, TypeInv, TypeOK, TaskTypeOK, RequestTypeOK
<1>b. ASSUME Lawful,
             \A w \in Tasks : task'[w] = task[w] \/ TaskAllowed(w)',
             \A r \in Requests : req'[r] = req[r] \/ RequestAllowed(r)'
      PROVE  /\ LifecycleHeld'
             /\ \A c \in Campaigns :
                  <<Shown(c)', Written(c)'>> \in Lifecycle!Moves(Shown(c), Written(c))
  <2>1. \A c \in Campaigns :
          /\ CampSettled(c)'
          /\ Shown(c) \in Ended => Shown(c)' \in Ended
          /\ <<Shown(c)', Written(c)'>> \in Lifecycle!Moves(Shown(c), Written(c))
    BY <1>b, LawfulSteps
  <2> QED
    BY <1>b, <2>1, LifeStill DEF LifecycleHeld
<1>1. CASE TaskAct
  <2>1. PICK w \in Tasks : TaskStep(w) \/ \E e \in Entries : Start(w, e)
    BY <1>1 DEF TaskAct, TaskNext
  <2>2. Lawful /\ TaskAllowed(w)'
    BY <2>1, LifeTask
  <2>3. \A v \in Tasks : v # w => task'[v] = task[v]
    BY <1>a, <2>1
    DEF TaskStep, Start, ReadCampaign, claim_pending, StartCampaign, Reject, Postpone,
        Exhaust, PauseExhausted, SmtpAccepts, SmtpRefuses, CheckCompletion,
        CompleteCampaign, CommitTask, RecordFails, Goto, Finish
  <2> QED
    BY <1>1, <1>b, <2>2, <2>3 DEF TaskAct
<1>2. CASE CronAct
  BY <1>2, <1>b, LifeCron DEF CronAct
<1>3. ASSUME NEW r \in Requests, RequestAct(r) \/ ApiCrash(r) \/ RequestFails(r)
      PROVE  /\ LifecycleHeld'
             /\ \A c \in Campaigns :
                  <<Shown(c)', Written(c)'>> \in Lifecycle!Moves(Shown(c), Written(c))
  <2>1. RequestStep(r) \/ RequestArrives(r) \/ RequestDies(r)
    BY <1>3 DEF RequestAct, ApiCrash, RequestFails
  <2>2. Lawful /\ RequestAllowed(r)'
    BY <2>1, LifeRequest
  <2>3. \A q \in Requests : q # r => req'[q] = req[q]
    BY <1>a, <2>1
    DEF RequestStep, RequestArrives, RequestDies, ListJobs, UpdateRow, WriteStatus,
        SnapshotPending, CommitRequest, SelectRow, CancelRow, EnqueuePlanned, ReadForStar,
        create, ReadForResume, ReadForChange
  <2> QED
    BY <1>3, <1>b, <2>2, <2>3 DEF RequestAct, ApiCrash, RequestFails
<1>4. ASSUME NEW w \in Tasks, TaskFails(w)
      PROVE  /\ LifecycleHeld'
             /\ \A c \in Campaigns :
                  <<Shown(c)', Written(c)'>> \in Lifecycle!Moves(Shown(c), Written(c))
  <2>1. Lawful /\ TaskAllowed(w)'
    BY <1>4, LifeTask DEF TaskFails
  <2>2. \A v \in Tasks : v # w => task'[v] = task[v]
    BY <1>4, <1>a DEF TaskFails, StatementFails, CompletionFails, Goto, Finish
  <2> QED
    BY <1>4, <1>b, <2>1, <2>2 DEF TaskFails
<1>5. ASSUME NEW k \in Crons, NEW c \in Campaigns, CronFails(k, c) PROVE Lawful
  BY <1>5, LifeCron DEF CronFails
<1>6. CASE WorkerCrash
  <2>1. Lawful /\ req' = req
    BY <1>6 DEF WorkerCrash, Lawful
  <2>2. \A w \in Tasks : TaskAllowed(w)'
    BY <1>6 DEF WorkerCrash, IdleTask, TaskAllowed
  <2> QED
    BY <1>b, <2>1, <2>2
<1>7. CASE Clock \/ WorkerStartup \/ UNCHANGED vars
  BY <1>7, <1>b DEF Clock, BecomeDue, WorkerStartup, vars, store, Lawful
<1> QED
  BY <1>1, <1>2, <1>3, <1>4, <1>5, <1>6, <1>7, <1>b DEF Next, StatementFault, CronFails

\* No step takes a job from the history of those written back.
LEMMA RevertedGrows == Inv /\ [Next]_vars => reverted \subseteq reverted'
  BY NextLost DEF CommitSession, CloseSessions

\* Every session's UPDATE of a campaign's status is a transition from the status
\* it replaces, until a resume or a star writes a finished job back.
THEOREM LifecycleInvariantHolds == Spec => []LifecycleInvariant
<1>1. Init => LifecycleInvariant
  <2> SUFFICES ASSUME Init PROVE LifecycleHeld
    BY DEF LifecycleInvariant
  <2>1. \A c \in Campaigns : CampSettled(c)
    BY DEF Init, StoreInit, Committed, CampSettled
  <2>2. \A w \in Tasks : TaskAllowed(w)
    BY DEF Init, TaskInit, IdleTask, TaskAllowed
  <2>3. \A r \in Requests : RequestAllowed(r)
    BY DEF Init, RequestInit, Request, RequestAllowed
  <2> QED
    BY <2>1, <2>2, <2>3 DEF LifecycleHeld
<1>2. EndInv /\ LifecycleInvariant /\ [Next]_vars => LifecycleInvariant'
  BY NextLife, RevertedGrows DEF LifecycleInvariant, LifeInv, EndInv
<1> QED
  BY <1>1, <1>2, EndInvInvariant, PTL DEF Spec

\* The pipeline implements the campaign state machine, in every behaviour in which
\* no finished job is written back to PENDING.
THEOREM FollowsLifecycleUnlessReverted == Spec /\ [](reverted = {}) => FollowsLifecycle
<1>1. Init => Lifecycle!Init
  BY DEF Init, StoreInit, Committed, Lifecycle!Init, Absent, Lifecycle!Absent
<1>2. EndInv /\ LifecycleInvariant /\ reverted = {} /\ [Next]_vars => Lifecycle!Next
  <2> SUFFICES ASSUME LifeInv, [Next]_vars PROVE Lifecycle!Next
    BY DEF LifecycleInvariant, LifeInv
  <2> QED
    BY NextLife DEF Lifecycle!Next, Shown, Written
<1> QED
  BY <1>1, <1>2, EndInvInvariant, LifecycleInvariantHolds, PTL
  DEF Spec, FollowsLifecycle, Lifecycle!Spec

\* So it does whatever fails, when nobody resumes or stars.
THEOREM FollowsLifecycleHolds ==
  ASSUME ApiOps \cap {"resume", "star"} = {}
  PROVE  Spec => FollowsLifecycle
  BY NothingReverted, FollowsLifecycleUnlessReverted, PTL
-----------------------------------------------------------------------------
(***************************************************************************)
(* Auto-resume and the pauses of the user.  Auto-resume lists campaigns    *)
(* and later writes them one by one, asking for PAUSED and not for the     *)
(* reason.  Without a resume by a user nothing else takes a campaign out   *)
(* of PAUSED, so what is PAUSED then has been PAUSED since it was listed.  *)
(***************************************************************************)

\* As auto-resume lists a campaign.
PausedExhausted == [status |-> "PAUSED", reason |-> ALL_SENDERS_EXHAUSTED]

\* Only auto-resume takes a campaign out of PAUSED without ending it.
PauseHeld(c) ==
  camps.live[c].status = "PAUSED" /\ camps.lock[c] \notin {Free, "auto_resume"} =>
    camps.next[c].status = "CANCELLED"

\* A task writes over no pause, a request over none but to cancel.
TaskSpares(w) == task[w].pc = "complete" => task[w].camp = "SENDING"
RequestSpares(r) == req[r].pc = "write" => req[r].target \in {"PAUSED", "CANCELLED"}

\* What auto-resume has listed it has not written yet, and nobody has resumed.
ListedKept(c) ==
  /\ cron["auto_resume"].pc = "idle" => camps.lock[c] # "auto_resume"
  /\ c \in cron["auto_resume"].todo =>
       /\ camps.lock[c] # "auto_resume"
       /\ camps.live[c] = PausedExhausted \/ camps.live[c].status = "CANCELLED"

PauseInvariant ==
  /\ \A c \in Campaigns : PauseHeld(c)
  /\ \A w \in Tasks : TaskSpares(w)
  /\ \A r \in Requests : RequestSpares(r)
  /\ "auto_resume" \in Crons => \A c \in Campaigns : ListedKept(c)

\* What a step of anybody but auto-resume may do to the table of campaigns.
Spares ==
  \/ camps' = camps
  \/ \E s \in Sessions \ {"auto_resume"}, c \in Campaigns, expected \in CampaignStatus,
        target \in CampaignStatus, reason \in {None, ALL_SENDERS_EXHAUSTED} :
       /\ update_status_if(s, c, expected, target, reason)
       /\ is_valid_transition(expected, target)
       /\ expected = "PAUSED" => target = "CANCELLED"
  \/ \E s \in Sessions : CommitSession(s)
  \/ \E E : CloseSessions(E)
  \/ \E r \in Requests, c \in Campaigns : create(r, c)
  \/ WorkerStartup

\* Such a step lets no campaign out of PAUSED but into CANCELLED.
LEMMA SparedRow ==
  ASSUME LifeInv, Spares, NEW c \in Campaigns, PauseHeld(c)
  PROVE  /\ PauseHeld(c)'
         /\ camps'.lock[c] = "auto_resume" => camps.lock[c] = "auto_resume"
         /\ /\ camps.lock[c] # "auto_resume"
            /\ camps.live[c] = PausedExhausted \/ camps.live[c].status = "CANCELLED"
            => camps'.live[c] = PausedExhausted \/ camps'.live[c].status = "CANCELLED"
<1>a. /\ camps \in CampTable /\ Free \notin Sessions /\ CampSettled(c)
      /\ Free # "auto_resume" /\ "CANCELLED" \in Ended
      /\ PausedExhausted.status = "PAUSED"
  BY LifeParts DEF Free, Ended, PausedExhausted
<1> USE DEF PauseHeld
<1>1. ASSUME camps'.live[c] = camps.live[c], camps'.next[c] = camps.next[c],
             camps'.lock[c] = camps.lock[c]
      PROVE  /\ PauseHeld(c)'
             /\ camps'.lock[c] = "auto_resume" => camps.lock[c] = "auto_resume"
             /\ /\ camps.lock[c] # "auto_resume"
                /\ camps.live[c] = PausedExhausted \/ camps.live[c].status = "CANCELLED"
                => camps'.live[c] = PausedExhausted \/ camps'.live[c].status = "CANCELLED"
  BY <1>1
<1>2. ASSUME NEW s \in Sessions \ {"auto_resume"}, NEW d \in Campaigns,
             NEW expected \in CampaignStatus, NEW target \in CampaignStatus,
             NEW reason \in {None, ALL_SENDERS_EXHAUSTED},
             update_status_if(s, d, expected, target, reason),
             is_valid_transition(expected, target),
             expected = "PAUSED" => target = "CANCELLED",
             camps' # camps
      PROVE  /\ PauseHeld(c)'
             /\ camps'.lock[c] = "auto_resume" => camps.lock[c] = "auto_resume"
             /\ camps'.live = camps.live
  <2> DEFINE row == [status |-> target, reason |-> reason]
  <2>1. row \in CampaignRows /\ row.status = target
    BY DEF CampaignRows
  <2>2. /\ camps' = Put(camps, s, d, row) /\ ~Locked(camps, s, d)
        /\ StatusOf(s, d) = expected
    BY <1>2 DEF update_status_if
  <2> HIDE DEF row
  <2>3. /\ camps'.live = camps.live
        /\ camps'.next = [camps.next EXCEPT ![d] = row]
        /\ camps'.lock = [camps.lock EXCEPT ![d] = s]
    BY <1>a, <2>1, <2>2, PutRow DEF CampTable
  <2>4. CASE c = d
    <3>1. camps'.live[c] = camps.live[c] /\ camps'.next[c] = row /\ camps'.lock[c] = s
      BY <1>a, <2>3, <2>4 DEF CampTable, Tables
    <3>2. camps.live[c].status = "PAUSED" => expected \in {"PAUSED", "CANCELLED"}
      BY <1>a, <2>2, <2>4 DEF StatusOf, View, Locked
    <3>3. expected # "CANCELLED"
      BY <1>2, Transitions DEF Ended
    <3> QED
      BY <1>2, <2>1, <2>3, <3>1, <3>2, <3>3
  <2>5. CASE c # d
    BY <1>a, <1>1, <2>3, <2>5 DEF CampTable, Tables
  <2> QED
    BY <2>4, <2>5
<1>3. ASSUME NEW s \in Sessions, CommitSession(s)
      PROVE  /\ PauseHeld(c)'
             /\ camps'.lock[c] = "auto_resume" => camps.lock[c] = "auto_resume"
             /\ /\ camps.lock[c] # "auto_resume"
                /\ camps.live[c] = PausedExhausted \/ camps.live[c].status = "CANCELLED"
                => camps'.live[c] = PausedExhausted \/ camps'.live[c].status = "CANCELLED"
  <2>1. /\ camps'.next = camps.next
        /\ camps'.live[c] = IF camps.lock[c] = s THEN camps.next[c] ELSE camps.live[c]
        /\ camps'.lock[c] = IF camps.lock[c] = s THEN Free ELSE camps.lock[c]
    BY <1>3, <1>a, PublishRow DEF CommitSession, CampTable
  <2> QED
    BY <1>a, <2>1 DEF CampSettled
<1>4. ASSUME NEW E, CloseSessions(E)
      PROVE  /\ PauseHeld(c)'
             /\ camps'.lock[c] = "auto_resume" => camps.lock[c] = "auto_resume"
             /\ camps'.live = camps.live
  <2>1. /\ camps'.live = camps.live
        /\ camps'.next[c] = IF camps.lock[c] \in E THEN camps.live[c] ELSE camps.next[c]
        /\ camps'.lock[c] = IF camps.lock[c] \in E THEN Free ELSE camps.lock[c]
    BY <1>4, <1>a, DiscardRow DEF CloseSessions, CampTable
  <2> QED
    BY <1>a, <2>1
<1>5. ASSUME NEW r \in Requests, NEW d \in Campaigns, create(r, d)
      PROVE  /\ PauseHeld(c)'
             /\ camps'.lock = camps.lock
             /\ camps'.live[c] = camps.live[c] \/ camps.live[c].status = Absent
  <2> DEFINE row == [status |-> "SCHEDULED", reason |-> None]
  <2>1. camps' = [camps EXCEPT !.live = [@ EXCEPT ![d] = row], !.next = [@ EXCEPT ![d] = row]]
    BY <1>5 DEF create
  <2>2. row.status = "SCHEDULED"
    OBVIOUS
  <2> HIDE DEF row
  <2>3. /\ camps'.live = [camps.live EXCEPT ![d] = row]
        /\ camps'.next = [camps.next EXCEPT ![d] = row]
        /\ camps'.lock = camps.lock
    BY <1>a, <2>1 DEF CampTable, Tables
  <2>4. CASE c = d
    BY <1>5, <1>a, <2>2, <2>3, <2>4 DEF CampTable, Tables, create
  <2>5. CASE c # d
    BY <1>a, <2>3, <2>5 DEF CampTable, Tables
  <2> QED
    BY <2>4, <2>5
<1>6. CASE WorkerStartup
  <2> DEFINE done == [status |-> "COMPLETED", reason |-> None]
  <2>1. camps' = [camps EXCEPT
                    !.live = [d \in Campaigns |-> IF d \in Stuck THEN done ELSE @[d]],
                    !.next = [d \in Campaigns |-> IF d \in Stuck THEN done ELSE @[d]]]
    BY <1>6 DEF WorkerStartup
  <2>2. done.status = "COMPLETED"
    OBVIOUS
  <2> HIDE DEF done
  <2>3. /\ camps'.lock = camps.lock
        /\ camps'.live[c] = IF c \in Stuck THEN done ELSE camps.live[c]
        /\ camps'.next[c] = IF c \in Stuck THEN done ELSE camps.next[c]
    BY <1>a, <2>1 DEF CampTable, Tables
  <2>4. c \in Stuck => camps.live[c].status = "SENDING"
    BY DEF Stuck
  <2> QED
    BY <1>a, <1>1, <2>2, <2>3, <2>4
<1>7. Absent \notin {"PAUSED", "CANCELLED"}
  BY DEF Absent
<1> QED
  BY <1>a, <1>1, <1>2, <1>3, <1>4, <1>5, <1>6, <1>7 DEF Spares

\* UPDATE ... WHERE status = expected spares the pauses unless it expects one.
LEMMA UpdateSpares ==
  ASSUME NEW s \in Sessions, s # "auto_resume", NEW c \in Campaigns, NEW expected, NEW target,
         NEW reason \in {None, ALL_SENDERS_EXHAUSTED},
         update_status_if(s, c, expected, target, reason),
         is_valid_transition(expected, target), expected = "PAUSED" => target = "CANCELLED"
  PROVE  Spares
<1>1. expected \in CampaignStatus /\ target \in CampaignStatus
  BY Transitions
<1> QED
  BY <1>1 DEF Spares

\* Every step of a task spares the pauses: it expects SCHEDULED or SENDING.
LEMMA SpareTask ==
  ASSUME LifeInv, NEW w \in Tasks, TaskSpares(w),
         \/ TaskStep(w) \/ StatementFails(w) \/ CompletionFails(w)
         \/ \E e \in Entries : Start(w, e)
  PROVE  Spares /\ TaskSpares(w)'
<1>a. /\ task \in [Tasks -> TaskRecords] /\ TaskAllowed(w)
      /\ w \in Sessions /\ w # "auto_resume"
      /\ None \in {None, ALL_SENDERS_EXHAUSTED}
      /\ ALL_SENDERS_EXHAUSTED \in {None, ALL_SENDERS_EXHAUSTED}
  BY LifeParts, EndParts, SessionsAssumption DEF Inv, TypeInv, TypeOK, TaskTypeOK, Sessions
<1>b. ASSUME task[w].pc # "idle" PROVE CampAt(w) \in Campaigns
  BY <1>b, EndParts, LifeParts, TaskJob DEF Inv, At
<1>c. ASSUME NEW pc, Goto(w, pc), pc # "complete" PROVE TaskSpares(w)'
  BY <1>a, <1>c DEF Goto, TaskSpares, TaskRecords
<1>1. CASE StartCampaign(w)
  <2>1. /\ task[w].pc = "start" /\ Goto(w, "limits")
        /\ camps' = camps \/ update_status_if(w, CampAt(w), "SCHEDULED", "SENDING", None)
    BY <1>1 DEF StartCampaign, At
  <2>2. Spares
    BY <1>a, <1>b, <2>1, UpdateSpares, Transitions DEF Spares
  <2> QED
    BY <1>c, <2>1, <2>2
<1>2. CASE PauseExhausted(w)
  <2>1. task[w].pc = "pausing" /\ Goto(w, "commit") /\ task[w].camp \in {"SCHEDULED", "SENDING"}
    BY <1>2, <1>a DEF PauseExhausted, At, TaskAllowed
  <2>2. Spares
    BY <1>2, <1>a, <1>b, <2>1, UpdateSpares, Transitions DEF PauseExhausted
  <2> QED
    BY <1>c, <2>1, <2>2
<1>3. CASE CompleteCampaign(w)
  <2>1. task[w].pc = "complete" /\ Goto(w, "commit") /\ task[w].camp = "SENDING"
    BY <1>3 DEF CompleteCampaign, At, TaskSpares
  <2>2. Spares
    BY <1>3, <1>a, <1>b, <2>1, UpdateSpares, Transitions DEF CompleteCampaign
  <2> QED
    BY <1>c, <2>1, <2>2
<1>4. CASE CheckCompletion(w)
  <2>1. /\ camps' = camps
        /\ task'[w].pc = "complete" =>
             /\ is_valid_transition(task'[w].camp, "COMPLETED")
             /\ task'[w].camp # "PAUSED"
    BY <1>4, <1>a DEF CheckCompletion, store, TaskRecords
  <2>2. \A s : is_valid_transition(s, "COMPLETED") => s \in {"SENDING", "PAUSED"}
    BY DEF is_valid_transition, CampaignStatus, ALLOWED_TRANSITIONS
  <2> QED
    BY <2>1, <2>2 DEF TaskSpares, Spares
<1>5. CASE CommitTask(w) \/ RecordFails(w) \/ StatementFails(w)
  <2>1. Finish(w) /\ (CommitSession(w) \/ CloseSessions({w}))
    BY <1>5 DEF CommitTask, RecordFails, StatementFails
  <2> QED
    BY <1>a, <2>1 DEF Spares, Finish, IdleTask, TaskSpares
<1>6. CASE \/ Reject(w) \/ Postpone(w) \/ SmtpAccepts(w) \/ SmtpRefuses(w)
           \/ CompletionFails(w) \/ Exhaust(w) \/ claim_pending(w)
  <2>1. /\ camps' = camps
        /\ \E pc \in {"commit", "check", "pausing", "start"} : Goto(w, pc)
    BY <1>6
    DEF Reject, Postpone, SmtpAccepts, SmtpRefuses, CompletionFails, Exhaust, claim_pending, store
  <2> QED
    BY <1>c, <2>1 DEF Spares
<1>7. CASE ReadCampaign(w)
  <2>1. camps' = camps /\ task'[w].pc \in {"commit", "check", "claim"}
    BY <1>7, <1>a DEF ReadCampaign, At, store, TaskRecords
  <2> QED
    BY <2>1 DEF TaskSpares, Spares
<1>8. ASSUME NEW e \in Entries, Start(w, e) PROVE Spares /\ TaskSpares(w)'
  <2>1. camps' = camps /\ task'[w].pc = "campaign"
    BY <1>8, <1>a DEF Start
  <2> QED
    BY <2>1 DEF TaskSpares, Spares
<1> QED
  BY <1>1, <1>2, <1>3, <1>4, <1>5, <1>6, <1>7, <1>8 DEF TaskStep

\* So does every step of a request that is no resume: it cancels or pauses.
LEMMA SpareRequest ==
  ASSUME LifeInv, ApiOps \cap {"resume", "star"} = {}, NEW r \in Requests, RequestSpares(r),
         RequestStep(r) \/ RequestArrives(r) \/ RequestDies(r)
  PROVE  Spares /\ RequestSpares(r)'
<1>a. /\ req \in [Requests -> RequestRecords] /\ RequestAllowed(r) /\ r \in Sessions
      /\ r # "auto_resume" /\ None \in {None, ALL_SENDERS_EXHAUSTED}
      /\ req[r].pc = "write" => req[r].camp \in Campaigns
      /\ req[r].pc \notin {"list", "select", "update"}
  BY LifeParts, EndParts, SessionsAssumption
  DEF Inv, TypeInv, TypeOK, RequestTypeOK, RequestShape, Sessions, RequestKnows
<1>b. ASSUME req' = [req EXCEPT ![r] = Answered] PROVE RequestSpares(r)'
  BY <1>a, <1>b DEF RequestSpares, Answered, Request
<1>1. ASSUME NEW c \in Campaigns, create(r, c) PROVE Spares /\ RequestSpares(r)'
  <2>1. req'[r].pc = "enqueue"
    BY <1>1, <1>a DEF create, Request
  <2> QED
    BY <1>1, <2>1 DEF Spares, RequestSpares
<1>2. ASSUME NEW op \in ApiOps, NEW c \in Campaigns, ReadForChange(r, op, c)
      PROVE  Spares /\ RequestSpares(r)'
  <2>1. camps' = camps /\ TargetOf(op) \in {"PAUSED", "CANCELLED"}
    BY <1>2 DEF ReadForChange, store, TargetOf
  <2>2. req'[r].pc = "write" => req'[r].target = TargetOf(op)
    BY <1>2, <1>a DEF ReadForChange, Request, Answered
  <2> QED
    BY <2>1, <2>2 DEF Spares, RequestSpares
<1>3. CASE WriteStatus(r)
  <2>1. /\ req[r].pc = "write" /\ is_valid_transition(req[r].seen, req[r].target)
        /\ req[r].target \in {"PAUSED", "CANCELLED"}
    BY <1>3, <1>a DEF WriteStatus, ReqAt, RequestAllowed, RequestSpares
  <2>2. ~is_valid_transition("PAUSED", "PAUSED")
    BY DEF is_valid_transition, ALLOWED_TRANSITIONS
  <2>3. CASE /\ update_status_if(r, req[r].camp, req[r].seen, req[r].target, None)
             /\ StatusOf(r, req[r].camp) = req[r].seen
    <3>1. Spares
      BY <1>a, <2>1, <2>2, <2>3, UpdateSpares
    <3>2. req'[r].pc \in {"snapshot", "commit"}
      BY <1>3, <1>a, <2>3 DEF WriteStatus, RequestRecords
    <3> QED
      BY <3>1, <3>2 DEF RequestSpares
  <2>4. CASE CloseSessions({r}) /\ req' = [req EXCEPT ![r] = Answered]
    BY <1>b, <2>4 DEF Spares
  <2> QED
    BY <1>3, <2>3, <2>4 DEF WriteStatus
<1>4. CASE SnapshotPending(r)
  <2>1. camps' = camps /\ req'[r].pc \in {"cancelling", "commit"}
    BY <1>4, <1>a DEF SnapshotPending, store, RequestRecords
  <2> QED
    BY <2>1 DEF Spares, RequestSpares
<1>5. ASSUME NEW j \in Jobs, CancelRow(r, j) PROVE Spares /\ RequestSpares(r)'
  <2>1. camps' = camps /\ req'[r].pc \in {"cancelling", "commit"}
    BY <1>5, <1>a DEF CancelRow, RequestRecords
  <2> QED
    BY <2>1 DEF Spares, RequestSpares
<1>6. ASSUME NEW j \in Jobs, EnqueuePlanned(r, j) PROVE Spares /\ RequestSpares(r)'
  <2>1. camps' = camps /\ req'[r].pc \in {"enqueue", "done"}
    BY <1>6, <1>a DEF EnqueuePlanned, ReqAt, Answered, Request, RequestRecords
  <2> QED
    BY <2>1 DEF Spares, RequestSpares
<1>7. CASE CommitRequest(r)
  <2>1. CommitSession(r) /\ req'[r].pc \in {"enqueue", "done"}
    BY <1>7, <1>a DEF CommitRequest, Answered, Request, RequestRecords
  <2> QED
    BY <1>a, <2>1 DEF Spares, RequestSpares
<1>8. CASE RequestDies(r)
  BY <1>8, <1>b DEF RequestDies, Spares
<1>9. ~ListJobs(r) /\ ~UpdateRow(r) /\ \A j \in Jobs : ~SelectRow(r, j)
  BY <1>a DEF ListJobs, UpdateRow, SelectRow, ReqAt
<1>10. \A j \in Jobs : ~ReadForStar(r, j)
  BY DEF ReadForStar
<1>11. \A c \in Campaigns : ~ReadForResume(r, c)
  BY DEF ReadForResume
<1> QED
  BY <1>1, <1>2, <1>3, <1>4, <1>5, <1>6, <1>7, <1>8, <1>9, <1>10, <1>11
  DEF RequestStep, RequestArrives

\* What a cron run does to the campaigns and to its list.
CronHolds == "auto_resume" \in Crons => \A c \in Campaigns : ListedKept(c)

\* The step that AutoResumeLeavesUserPauses demands.
UserPauseSpared ==
  \A c \in Campaigns :
    /\ camps.lock[c] # "auto_resume"
    /\ camps'.lock[c] = "auto_resume"
    => camps.live[c].reason = ALL_SENDERS_EXHAUSTED

\* A step of anybody else, or one by which the list only shrinks.
LEMMA ListStays ==
  ASSUME LifeInv, PauseInvariant, Spares,
         cron' = cron \/ "auto_resume" \notin Crons
           \/ /\ cron'["auto_resume"].todo \subseteq cron["auto_resume"].todo
              /\ cron'["auto_resume"].pc = "idle" =>
                   \A c \in Campaigns : camps'.lock[c] # "auto_resume"
  PROVE  (\A c \in Campaigns : PauseHeld(c)') /\ CronHolds' /\ UserPauseSpared
<1>1. ASSUME NEW c \in Campaigns
      PROVE  /\ PauseHeld(c)'
             /\ camps'.lock[c] = "auto_resume" => camps.lock[c] = "auto_resume"
             /\ "auto_resume" \in Crons => ListedKept(c)'
  <2>1. PauseHeld(c) /\ ("auto_resume" \in Crons => ListedKept(c))
    BY DEF PauseInvariant
  <2> QED
    BY <2>1, SparedRow DEF ListedKept
<1> QED
  BY <1>1 DEF CronHolds, UserPauseSpared

\* Auto-resume writes what it has listed and takes it off the list.
LEMMA ResumeStep ==
  ASSUME LifeInv, PauseInvariant, NEW c \in Campaigns, AutoResume(c)
  PROVE  (\A d \in Campaigns : PauseHeld(d)') /\ CronHolds' /\ UserPauseSpared
<1>a. /\ camps \in CampTable /\ "auto_resume" \in Sessions /\ "auto_resume" \in Crons
      /\ c \in cron["auto_resume"].todo /\ cron \in [Crons -> CronRecords]
      /\ PausedExhausted.status = "PAUSED" /\ PausedExhausted.reason = ALL_SENDERS_EXHAUSTED
  BY LifeParts, EndParts
  DEF AutoResume, CronAt, Sessions, Inv, TypeInv, TypeOK, MaintenanceTypeOK, PausedExhausted
<1>b. /\ \A d \in Campaigns : PauseHeld(d) /\ ListedKept(d)
      /\ camps.lock[c] # "auto_resume"
      /\ camps.live[c] = PausedExhausted \/ camps.live[c].status = "CANCELLED"
  BY <1>a DEF PauseInvariant, ListedKept
<1>1. /\ cron'["auto_resume"].todo = cron["auto_resume"].todo \ {c}
      /\ cron'["auto_resume"].pc # "idle"
  BY <1>a DEF AutoResume, Visit
<1>2. update_status_if("auto_resume", c, "PAUSED", "SENDING", None)
  BY DEF AutoResume
<1>3. CASE StatusOf("auto_resume", c) # "PAUSED"
  <2>1. camps' = camps
    BY <1>2, <1>3 DEF update_status_if
  <2> QED
    BY <1>b, <1>1, <2>1 DEF PauseHeld, CronHolds, ListedKept, UserPauseSpared
<1>4. CASE StatusOf("auto_resume", c) = "PAUSED"
  <2> DEFINE row == [status |-> "SENDING", reason |-> None]
  <2>1. row \in CampaignRows
    BY DEF CampaignRows, CampaignStatus
  <2>2. camps' = Put(camps, "auto_resume", c, row)
    BY <1>2, <1>4 DEF update_status_if
  <2> HIDE DEF row
  <2>3. /\ camps'.live = camps.live
        /\ camps'.next = [camps.next EXCEPT ![c] = row]
        /\ camps'.lock = [camps.lock EXCEPT ![c] = "auto_resume"]
    BY <1>a, <2>1, <2>2, PutRow DEF CampTable
  <2>4. camps.live[c].reason = ALL_SENDERS_EXHAUSTED
    BY <1>4, <1>a, <1>b DEF StatusOf, View
  <2>5. camps'.lock[c] = "auto_resume" /\ c \notin cron'["auto_resume"].todo
    BY <1>a, <1>1, <2>3 DEF CampTable, Tables
  <2>6. ASSUME NEW d \in Campaigns, d # c
        PROVE  /\ camps'.live[d] = camps.live[d] /\ camps'.next[d] = camps.next[d]
               /\ camps'.lock[d] = camps.lock[d]
    BY <1>a, <2>3, <2>6 DEF CampTable, Tables
  <2>7. \A d \in Campaigns : PauseHeld(d)' /\ ListedKept(d)'
    BY <1>b, <1>1, <2>5, <2>6 DEF PauseHeld, ListedKept
  <2> QED
    BY <2>4, <2>6, <2>7 DEF CronHolds, UserPauseSpared
<1> QED
  BY <1>3, <1>4

\* When no session of auto-resume is left, it holds no row.
LEMMA NothingHeldByResume ==
  ASSUME LifeInv, NEW c \in Campaigns,
         CommitSession("auto_resume") \/ \E E : "auto_resume" \in E /\ CloseSessions(E)
  PROVE  camps'.lock[c] # "auto_resume"
<1>1. camps \in CampTable /\ Free # "auto_resume"
  BY LifeParts DEF Free
<1>2. ASSUME CommitSession("auto_resume") PROVE camps'.lock[c] # "auto_resume"
  BY <1>1, <1>2, PublishRow DEF CommitSession, CampTable
<1>3. ASSUME NEW E, "auto_resume" \in E, CloseSessions(E)
      PROVE  camps'.lock[c] # "auto_resume"
  BY <1>1, <1>3, DiscardRow DEF CloseSessions, CampTable
<1> QED
  BY <1>2, <1>3

\* A step of a cron run.
LEMMA CronSpares ==
  ASSUME LifeInv, PauseInvariant,
         CronStep \/ \E k \in Crons, c \in Campaigns : CronStatementFails(k, c)
  PROVE  (\A c \in Campaigns : PauseHeld(c)') /\ CronHolds' /\ UserPauseSpared
<1>a. /\ \A k \in Crons : k \in Sessions
      /\ cron \in [Crons -> CronRecords]
      /\ None \in {None, ALL_SENDERS_EXHAUSTED}
  BY LifeParts, EndParts DEF Sessions, Inv, TypeInv, TypeOK, MaintenanceTypeOK
<1>1. ASSUME NEW k \in Crons, k # "auto_resume", Spares,
             \E record : cron' = [cron EXCEPT ![k] = record]
      PROVE  (\A c \in Campaigns : PauseHeld(c)') /\ CronHolds' /\ UserPauseSpared
  <2>1. "auto_resume" \in Crons => cron'["auto_resume"] = cron["auto_resume"]
    BY <1>1, <1>a
  <2>2. "auto_resume" \in Crons /\ cron["auto_resume"].pc = "idle" =>
          \A c \in Campaigns : camps'.lock[c] # "auto_resume"
    BY <1>1, SparedRow DEF PauseInvariant, ListedKept
  <2> QED
    BY <1>1, <2>1, <2>2, ListStays
<1>2. ASSUME "auto_resume" \in Crons, Spares,
             cron'["auto_resume"].todo \subseteq cron["auto_resume"].todo,
             \/ cron'["auto_resume"].pc # "idle"
             \/ \A c \in Campaigns : camps'.lock[c] # "auto_resume"
      PROVE  (\A c \in Campaigns : PauseHeld(c)') /\ CronHolds' /\ UserPauseSpared
  BY <1>2, ListStays
<1>3. ASSUME NEW k \in Crons, NEW c, NEW pc, pc # "idle", Visit(k, c, pc), Spares
      PROVE  (\A d \in Campaigns : PauseHeld(d)') /\ CronHolds' /\ UserPauseSpared
  <2>1. CASE k = "auto_resume"
    <3>1. /\ cron'["auto_resume"].todo \subseteq cron["auto_resume"].todo
          /\ cron'["auto_resume"].pc # "idle"
      BY <1>3, <1>a, <2>1 DEF Visit
    <3> QED
      BY <1>2, <1>3, <2>1, <3>1
  <2>2. CASE k # "auto_resume"
    BY <1>1, <1>3, <2>2 DEF Visit
  <2> QED
    BY <2>1, <2>2
<1>4. ASSUME NEW k \in Crons, cron' = [cron EXCEPT ![k] = IdleCron],
             CommitSession(k) \/ CloseSessions({k})
      PROVE  (\A d \in Campaigns : PauseHeld(d)') /\ CronHolds' /\ UserPauseSpared
  <2>1. Spares
    BY <1>4, <1>a DEF Spares
  <2>2. CASE k = "auto_resume"
    <3>1. \A c \in Campaigns : camps'.lock[c] # "auto_resume"
      BY <1>4, <2>2, NothingHeldByResume
    <3>2. cron'["auto_resume"].todo \subseteq cron["auto_resume"].todo
      BY <1>4, <1>a, <2>2 DEF IdleCron
    <3> QED
      BY <1>2, <2>1, <2>2, <3>1, <3>2
  <2>3. CASE k # "auto_resume"
    BY <1>1, <1>4, <2>1, <2>3
  <2> QED
    BY <2>2, <2>3
<1>5. ASSUME NEW k \in Crons, StartCron(k)
      PROVE  (\A d \in Campaigns : PauseHeld(d)') /\ CronHolds' /\ UserPauseSpared
  <2>1. /\ camps' = camps /\ cron[k].pc = "idle"
        /\ cron' = [cron EXCEPT ![k] = [pc |-> "visit", todo |-> Listed(k), cur |-> None]]
    BY <1>5 DEF StartCron, CronAt, store
  <2>2. CASE k = "auto_resume"
    <3>1. cron'["auto_resume"].todo = Listed("auto_resume") /\ cron'["auto_resume"].pc = "visit"
      BY <1>a, <2>1, <2>2
    <3>2. \A c \in Campaigns : PauseHeld(c) /\ camps.lock[c] # "auto_resume"
      BY <2>1, <2>2 DEF PauseInvariant, ListedKept
    <3>3. \A c \in Listed("auto_resume") : c \in Campaigns /\ camps.live[c] = PausedExhausted
      BY <3>2 DEF Listed, View, PausedExhausted
    <3> QED
      BY <2>1, <3>1, <3>2, <3>3 DEF PauseHeld, CronHolds, ListedKept, UserPauseSpared
  <2>3. CASE k # "auto_resume"
    BY <1>1, <2>1, <2>3 DEF Spares
  <2> QED
    BY <2>2, <2>3
<1>6. ASSUME NEW c \in Campaigns, NotYet(c) \/ CountLive(c)
      PROVE  (\A d \in Campaigns : PauseHeld(d)') /\ CronHolds' /\ UserPauseSpared
  <2>1. Spares
    BY <1>6 DEF NotYet, CountLive, store, Spares
  <2>2. \E k \in Crons, pc \in {"visit", "update"} : Visit(k, c, pc)
    BY <1>6 DEF NotYet, CountLive, CronAt
  <2> QED
    BY <1>3, <2>1, <2>2
<1>7. CASE EnqueuePending
  <2>1. "auto_resume" \in Crons /\ Visit("auto_resume", cron["auto_resume"].cur, "visit")
    BY <1>7 DEF EnqueuePending, CronAt
  <2>2. Spares
    BY <1>7 DEF EnqueuePending, Spares
  <2> QED
    BY <1>3, <2>1, <2>2
<1>8. CASE CompleteStuck
  <2>1. /\ "stuck_sweep" \in Crons /\ cron["stuck_sweep"].cur \in Campaigns
        /\ Visit("stuck_sweep", cron["stuck_sweep"].cur, "visit")
        /\ update_status_if("stuck_sweep", cron["stuck_sweep"].cur, "SENDING", "COMPLETED", None)
    BY <1>8, LifeParts, EndParts DEF CompleteStuck, CronAt, Inv, TypeInv, CronShape
  <2>2. Spares
    BY <1>a, <2>1, UpdateSpares, Transitions
  <2> QED
    BY <1>3, <2>1, <2>2
<1>9. ASSUME NEW k \in Crons, NEW c \in Campaigns, CronStatementFails(k, c)
      PROVE  (\A d \in Campaigns : PauseHeld(d)') /\ CronHolds' /\ UserPauseSpared
  <2>1. ASSUME Visit(k, c, "visit"), camps' = camps
        PROVE  (\A d \in Campaigns : PauseHeld(d)') /\ CronHolds' /\ UserPauseSpared
    BY <1>3, <2>1 DEF Spares
  <2> QED
    BY <1>4, <1>9, <2>1 DEF CronStatementFails, store
<1>10. ASSUME NEW k \in Crons, CommitCron(k)
       PROVE  (\A d \in Campaigns : PauseHeld(d)') /\ CronHolds' /\ UserPauseSpared
  BY <1>4, <1>10 DEF CommitCron
<1>11. ASSUME NEW c \in Campaigns, AutoResume(c)
       PROVE  (\A d \in Campaigns : PauseHeld(d)') /\ CronHolds' /\ UserPauseSpared
  BY <1>11, ResumeStep
<1> QED
  BY <1>5, <1>6, <1>7, <1>8, <1>9, <1>10, <1>11 DEF CronStep

\* What tasks and requests are about to write stays what it is while they wait.
LEMMA NextPause ==
  ASSUME LifeInv, PauseInvariant, ApiOps \cap {"resume", "star"} = {}, [Next]_vars
  PROVE  PauseInvariant' /\ UserPauseSpared
<1>a. task \in [Tasks -> TaskRecords] /\ req \in [Requests -> RequestRecords]
  BY LifeParts, EndParts DEF Inv, TypeInv, TypeOK, TaskTypeOK, RequestTypeOK
<1>b. (\A w \in Tasks : TaskSpares(w)) /\ (\A r \in Requests : RequestSpares(r))
  BY DEF PauseInvariant
<1>c. ASSUME (\A c \in Campaigns : PauseHeld(c)') /\ CronHolds' /\ UserPauseSpared,
             \A w \in Tasks : task'[w] = task[w] \/ TaskSpares(w)',
             \A r \in Requests : req'[r] = req[r] \/ RequestSpares(r)'
      PROVE  PauseInvariant' /\ UserPauseSpared
  <2>1. \A w \in Tasks : TaskSpares(w)'
    BY <1>b, <1>c DEF TaskSpares
  <2>2. \A r \in Requests : RequestSpares(r)'
    BY <1>b, <1>c DEF RequestSpares
  <2> QED
    BY <1>c, <2>1, <2>2 DEF PauseInvariant, CronHolds
<1>d. ASSUME Spares, cron' = cron,
             \A w \in Tasks : task'[w] = task[w] \/ TaskSpares(w)',
             \A r \in Requests : req'[r] = req[r] \/ RequestSpares(r)'
      PROVE  PauseInvariant' /\ UserPauseSpared
  BY <1>c, <1>d, ListStays
<1>1. CASE TaskAct
  <2>1. PICK w \in Tasks : TaskStep(w) \/ \E e \in Entries : Start(w, e)
    BY <1>1 DEF TaskAct, TaskNext
  <2>2. Spares /\ TaskSpares(w)'
    BY <1>b, <2>1, SpareTask
  <2>3. \A v \in Tasks : v # w => task'[v] = task[v]
    BY <1>a, <2>1
    DEF TaskStep, Start, ReadCampaign, claim_pending, StartCampaign, Reject, Postpone,
        Exhaust, PauseExhausted, SmtpAccepts, SmtpRefuses, CheckCompletion,
        CompleteCampaign, CommitTask, RecordFails, Goto, Finish
  <2> QED
    BY <1>1, <1>d, <2>2, <2>3 DEF TaskAct
<1>2. CASE CronAct
  BY <1>2, <1>c, CronSpares DEF CronAct
<1>3. ASSUME NEW r \in Requests, RequestAct(r) \/ ApiCrash(r) \/ RequestFails(r)
      PROVE  PauseInvariant' /\ UserPauseSpared
  <2>1. RequestStep(r) \/ RequestArrives(r) \/ RequestDies(r)
    BY <1>3 DEF RequestAct, ApiCrash, RequestFails
  <2>2. Spares /\ RequestSpares(r)'
    BY <1>b, <2>1, SpareRequest
  <2>3. \A q \in Requests : q # r => req'[q] = req[q]
    BY <1>a, <2>1
    DEF RequestStep, RequestArrives, RequestDies, ListJobs, UpdateRow, WriteStatus,
        SnapshotPending, CommitRequest, SelectRow, CancelRow, EnqueuePlanned, ReadForStar,
        create, ReadForResume, ReadForChange
  <2> QED
    BY <1>3, <1>d, <2>2, <2>3 DEF RequestAct, ApiCrash, RequestFails
<1>4. ASSUME NEW w \in Tasks, TaskFails(w) PROVE PauseInvariant' /\ UserPauseSpared
  <2>1. Spares /\ TaskSpares(w)'
    BY <1>4, <1>b, SpareTask DEF TaskFails
  <2>2. \A v \in Tasks : v # w => task'[v] = task[v]
    BY <1>4, <1>a DEF TaskFails, StatementFails, CompletionFails, Goto, Finish
  <2> QED
    BY <1>4, <1>d, <2>1, <2>2 DEF TaskFails
<1>5. ASSUME NEW k \in Crons, NEW c \in Campaigns, CronFails(k, c)
      PROVE  PauseInvariant' /\ UserPauseSpared
  BY <1>5, <1>c, CronSpares DEF CronFails
<1>6. CASE WorkerCrash
  <2>1. Spares /\ req' = req
    BY <1>6 DEF WorkerCrash, Spares
  <2>2. \A w \in Tasks : TaskSpares(w)'
    BY <1>6 DEF WorkerCrash, IdleTask, TaskSpares
  <2>3. "auto_resume" \in Crons =>
          /\ cron'["auto_resume"].todo = {}
          /\ \A c \in Campaigns : camps'.lock[c] # "auto_resume"
    BY <1>6, NothingHeldByResume DEF WorkerCrash, IdleCron
  <2>4. (\A c \in Campaigns : PauseHeld(c)') /\ CronHolds' /\ UserPauseSpared
    BY <2>1, <2>3, ListStays
  <2> QED
    BY <1>c, <2>1, <2>2, <2>4
<1>7. CASE Clock \/ WorkerStartup \/ UNCHANGED vars
  BY <1>7, <1>d DEF Clock, BecomeDue, WorkerStartup, vars, store, Spares
<1> QED
  BY <1>1, <1>2, <1>3, <1>4, <1>5, <1>6, <1>7 DEF Next, StatementFault

\* A campaign on the list of auto-resume is still paused for exhausted senders, or
\* cancelled, when nobody resumes.
THEOREM PauseInvariantHolds ==
  ASSUME ApiOps \cap {"resume", "star"} = {}
  PROVE  Spec => []PauseInvariant
<1> DEFINE Untouched == reverted = {}
<1>1. Init => PauseInvariant
  <2> SUFFICES ASSUME Init PROVE PauseInvariant
    OBVIOUS
  <2>1. \A c \in Campaigns : camps.lock[c] = Free
    BY DEF Init, StoreInit, Committed
  <2>2. Free # "auto_resume"
    BY DEF Free
  <2> QED
    BY <2>1, <2>2
    DEF Init, TaskInit, IdleTask, RequestInit, Request, MaintenanceInit, IdleCron,
        PauseInvariant, PauseHeld, TaskSpares, RequestSpares, ListedKept
<1>2. EndInv /\ LifecycleInvariant /\ Untouched /\ PauseInvariant /\ [Next]_vars => PauseInvariant'
  BY NextPause DEF LifecycleInvariant, LifeInv
<1>3. Spec => []Untouched
  BY NothingReverted
<1> HIDE DEF Untouched
<1> QED
  BY <1>1, <1>2, <1>3, EndInvInvariant, LifecycleInvariantHolds, PTL DEF Spec

\* Auto-resume writes no campaign but those paused for exhausted senders, although
\* its UPDATE asks for the status alone and its list may be old; a pause the user
\* asked for is left to the user.
THEOREM AutoResumeLeavesUserPausesHolds ==
  ASSUME ApiOps \cap {"resume", "star"} = {}
  PROVE  Spec => AutoResumeLeavesUserPauses
<1> DEFINE Untouched == reverted = {}
<1>1. EndInv /\ LifecycleInvariant /\ Untouched /\ PauseInvariant /\ [Next]_vars => [UserPauseSpared]_vars
  BY NextPause DEF LifecycleInvariant, LifeInv
<1>2. Spec => []Untouched
  BY NothingReverted
<1> HIDE DEF Untouched
<1> QED
  BY <1>1, <1>2, EndInvInvariant, LifecycleInvariantHolds, PauseInvariantHolds, PTL
  DEF Spec, AutoResumeLeavesUserPauses, UserPauseSpared
-----------------------------------------------------------------------------
(***************************************************************************)
(* No job is forgotten.  That somebody attends to a job is not enough: a   *)
(* task may be about to drop it.  What counts is a call still in the       *)
(* queue, a request that will enqueue one, or a task that has found the    *)
(* job PENDING and will not leave it so.  What a step does to these        *)
(* decides whether the jobs that wait stay wanted; a campaign that is sent *)
(* was sent before, because nobody takes one out of a pause.               *)
(***************************************************************************)

\* A job left to send in a campaign that is being sent.
Waiting(j) ==
  /\ jobs.live[j] = "PENDING"
  /\ camps.live[CampaignOf[j]].status \in {"SCHEDULED", "SENDING"}

Queued(j) == \E e \in Entries : e.job = j /\ queue[e] > 0

Planned(j) == \E r \in Requests : req[r].pc = "enqueue" /\ j \in req[r].plan

\* Task w is about to claim job j, or holds it with an outcome to commit.
Cares(w, j) ==
  \/ task[w].pc \in {"campaign", "claim"} /\ JobAt(w) = j /\ task[w].job = "PENDING"
  \/ jobs.lock[j] = w /\ jobs.next[j] # "PENDING"

Wanted(j) == Queued(j) \/ Planned(j) \/ \E w \in Tasks : Cares(w, j)

AttentionInvariant == \A j \in Jobs : Waiting(j) => Wanted(j)

\* What the proof rests on.
AttInv == LifeInv /\ PauseInvariant

\* The conditions under which the code forgets no job: processes may die, but less
\* often than arq tries a call (WorkerSettings.max_tries).
Undisturbed ==
  /\ Faults \subseteq {"crash"} /\ MaxCrashes < MaxTries
  /\ "exhausted" \notin Outcomes /\ "auto_resume" \notin Crons
  /\ ApiOps \cap {"resume", "star"} = {}

\* The API does not die while it enqueues the calls of what it has committed.
LoopSpared == \A r \in Requests : ApiCrash(r) => req[r].pc # "enqueue"

\* A call has been tried once more than processes have died at most.
TriesLeft ==
  /\ \A e \in Entries : queue[e] > 0 => e.try <= crashes + 1
  /\ \A w \in Tasks : task[w].pc # "idle" => task[w].entry.try <= crashes + 1

\* Rows that tasks outside E hold stay as they are.
Gentle(E) ==
  \A j \in Jobs, w \in Tasks \ E : jobs.lock[j] = w =>
    jobs'.lock[j] = w /\ jobs'.next[j] = jobs.next[j]

\* No job becomes PENDING.
Unrevived == \A j \in Jobs : jobs'.live[j] = "PENDING" => jobs.live[j] = "PENDING"

\* What the claim invariant says of the rows a task holds or is about to claim.
LEMMA TaskHolds ==
  ASSUME Inv, NEW w \in Tasks, NEW j \in Jobs
  PROVE  /\ jobs.lock[j] = w => task[w].pc \notin {"idle", "campaign", "claim"} /\ JobAt(w) = j
         /\ task[w].pc \in {"start", "limits"} =>
              jobs.lock[JobAt(w)] = w /\ jobs.next[JobAt(w)] = "SENDING"
         /\ task[w].pc # "idle" => JobAt(w) \in Jobs /\ CampAt(w) \in Campaigns
         /\ jobs \in JobTable /\ Free \notin Sessions /\ w \in Sessions
  BY TaskJob, TablesOf, CronsAssumption
  DEF Inv, ClaimInvariant, JobInv, HeldByTask, ClaimHeld, At, Sessions, Free

\* One written row.
LEMMA GentleWrite ==
  ASSUME Inv, NEW s \in Sessions, NEW i \in Jobs, NEW row \in JobRows,
         jobs' = Put(jobs, s, i, row), ~Locked(jobs, s, i)
  PROVE  /\ Gentle({s}) /\ Unrevived
         /\ jobs'.lock[i] = s /\ jobs'.next[i] = row
<1>1. jobs \in JobTable /\ Free \notin Tasks
  BY TablesOf DEF Inv
<1>2. /\ jobs'.live = jobs.live
      /\ jobs'.next = [jobs.next EXCEPT ![i] = row]
      /\ jobs'.lock = [jobs.lock EXCEPT ![i] = s]
  BY <1>1, PutRow DEF JobTable
<1>3. /\ jobs'.lock[i] = s /\ jobs'.next[i] = row
      /\ \A j \in Jobs : j # i => jobs'.lock[j] = jobs.lock[j] /\ jobs'.next[j] = jobs.next[j]
  BY <1>1, <1>2 DEF JobTable, Tables
<1> QED
  BY <1>1, <1>2, <1>3 DEF Gentle, Unrevived, Locked

\* A commit publishes PENDING only where everybody else saw it, without a resume.
LEMMA GentleCommit ==
  ASSUME Inv, ApiOps \cap {"resume", "star"} = {}, NEW s \in Sessions, CommitSession(s)
  PROVE  /\ Gentle({s}) /\ Unrevived
         /\ \A j \in Jobs : jobs.lock[j] = s => jobs'.live[j] = jobs.next[j]
<1>1. jobs \in JobTable /\ Free \notin Tasks /\ Tasks \cap Requests = {}
  BY TablesOf DEF Inv
<1>2. /\ jobs'.next = jobs.next
      /\ \A j \in Jobs :
           /\ jobs'.live[j] = IF jobs.lock[j] = s THEN jobs.next[j] ELSE jobs.live[j]
           /\ jobs'.lock[j] = IF jobs.lock[j] = s THEN Free ELSE jobs.lock[j]
  BY <1>1, PublishRow DEF CommitSession, JobTable
<1>3. ASSUME NEW j \in Jobs, jobs.lock[j] = s, jobs.next[j] = "PENDING"
      PROVE  jobs.live[j] = "PENDING"
  <2>1. JobInv(j) /\ s # Free
    BY TablesOf, CronsAssumption DEF Inv, ClaimInvariant, Sessions, Free
  <2>2. CASE s \in Tasks
    BY <1>3, <2>1, <2>2 DEF JobInv, HeldByTask
  <2>3. CASE s \in Requests
    <3>1. req[s].pc \in {"select", "update", "write", "snapshot", "cancelling", "commit"}
      BY <1>3, <2>1, <2>3
      DEF JobInv, HeldByRequest, Inv, TypeInv, TypeOK, RequestTypeOK, RequestRecords, RequestPcs
    <3>2. req[s].op = "cancel"
      BY <1>3, <2>1, <2>3, <3>1 DEF JobInv, HeldByRequest, Inv, TypeInv, RequestShape
    <3> QED
      BY <1>3, <2>1, <2>3, <3>2 DEF JobInv, HeldByRequest
  <2> QED
    BY <1>3, <2>1, <2>2, <2>3 DEF JobInv, JobHolder
<1> QED
  BY <1>1, <1>2, <1>3 DEF Gentle, Unrevived

\* A rollback discards the rows of its own sessions.
LEMMA GentleClose ==
  ASSUME Inv, NEW E, CloseSessions(E)
  PROVE  Gentle(E) /\ Unrevived
<1>1. jobs \in JobTable
  BY TablesOf DEF Inv
<1>2. /\ jobs'.live = jobs.live
      /\ \A j \in Jobs :
           /\ jobs'.next[j] = IF jobs.lock[j] \in E THEN jobs.live[j] ELSE jobs.next[j]
           /\ jobs'.lock[j] = IF jobs.lock[j] \in E THEN Free ELSE jobs.lock[j]
  BY <1>1, DiscardRow DEF CloseSessions, JobTable
<1> QED
  BY <1>2 DEF Gentle, Unrevived

\* Enqueueing takes nothing from the queue, and puts in what it is asked to.
LEMMA QueueGrows ==
  ASSUME Inv, NEW J \in SUBSET Jobs
  PROVE  /\ queue' = EnqueueSoon(J) =>
              /\ \A e \in Entries : queue[e] > 0 => queue'[e] > 0
              /\ \A j \in J : \E e \in Entries : e.job = j /\ queue'[e] > 0
         /\ \A j \in Jobs : queue' = EnqueueAt(j) =>
              /\ \A e \in Entries : queue[e] > 0 => queue'[e] > 0
              /\ \E e \in Entries : e.job = j /\ queue'[e] > 0
<1>1. queue \in [Entries -> Nat] /\ due \in [Jobs -> BOOLEAN]
  BY DEF Inv, TypeInv, TypeOK, StoreTypeOK
<1>2. ASSUME queue' = EnqueueSoon(J)
      PROVE  /\ \A e \in Entries : queue[e] > 0 => queue'[e] > 0
             /\ \A j \in J : \E e \in Entries : e.job = j /\ queue'[e] > 0
  <2>1. \A e \in Entries : queue'[e] = queue[e] \/ queue'[e] = queue[e] + 1
    BY <1>2 DEF EnqueueSoon
  <2>2. ASSUME NEW j \in J PROVE \E e \in Entries : e.job = j /\ queue'[e] > 0
    <3>1. PICK e \in Entries : e.job = j /\ e.try = 1 /\ e.soon = ~due[e.job]
      <4> DEFINE x == [job |-> j, soon |-> ~due[j], try |-> 1]
      <4>1. x \in Entries
        BY <1>1, MaxTriesAssumption DEF Entries
      <4> QED
        BY <4>1
    <3>2. queue'[e] = queue[e] + 1
      BY <1>2, <3>1 DEF EnqueueSoon
    <3> QED
      BY <1>1, <3>1, <3>2
  <2> QED
    BY <1>1, <2>1, <2>2
<1>3. ASSUME NEW j \in Jobs, queue' = EnqueueAt(j)
      PROVE  /\ \A e \in Entries : queue[e] > 0 => queue'[e] > 0
             /\ \E e \in Entries : e.job = j /\ queue'[e] > 0
  <2>1. \A e \in Entries : queue'[e] = queue[e] \/ queue'[e] = queue[e] + 1
    BY <1>3 DEF EnqueueAt
  <2>2. PICK e \in Entries : e = [job |-> j, soon |-> FALSE, try |-> 1]
    <3>1. 1 \in 1..MaxTries
      BY MaxTriesAssumption
    <3>2. [job |-> j, soon |-> FALSE, try |-> 1] \in Entries
      BY <3>1, Zenon DEF Entries
    <3> QED
      BY <3>2
  <2>3. queue'[e] = queue[e] + 1 /\ e.job = j
    BY <1>3, <2>2 DEF EnqueueAt
  <2> QED
    BY <1>1, <2>1, <2>3
<1> QED
  BY <1>2, <1>3

\* A step leaves a job wanted unless it was wanted by the sessions E that take it.
LEMMA WantedStays ==
  ASSUME NEW E, Gentle(E), NEW j \in Jobs, Wanted(j),
         \A w \in Tasks \ E : task'[w] = task[w],
         \A r \in Requests \ E : req'[r] = req[r],
         \A e \in Entries : queue[e] > 0 => queue'[e] > 0
  PROVE  \/ Wanted(j)'
         \/ \E w \in Tasks \cap E : Cares(w, j)
         \/ \E r \in Requests \cap E : req[r].pc = "enqueue" /\ j \in req[r].plan
<1>1. ASSUME Queued(j) PROVE Queued(j)'
  BY <1>1 DEF Queued, Entries
<1>2. ASSUME NEW r \in Requests \ E, req[r].pc = "enqueue" /\ j \in req[r].plan
      PROVE  Planned(j)'
  BY <1>2 DEF Planned
<1>3. ASSUME NEW w \in Tasks \ E, Cares(w, j) PROVE Cares(w, j)'
  BY <1>3 DEF Cares, Gentle, JobAt
<1> QED
  BY <1>1, <1>2, <1>3 DEF Wanted, Planned

\* A task that starts on the call that was waiting for the job cares for it now.
LEMMA StartCares ==
  ASSUME AttInv, NEW w \in Tasks, NEW e \in Entries, Start(w, e), req' = req,
         NEW j \in Jobs, Waiting(j), Wanted(j)
  PROVE  Wanted(j)'
<1>a. Inv /\ task \in [Tasks -> TaskRecords] /\ queue \in [Entries -> Nat]
  BY EndParts, LifeParts DEF AttInv, Inv, TypeInv, TypeOK, TaskTypeOK, StoreTypeOK
<1>b. /\ task[w].pc = "idle" /\ jobs' = jobs /\ queue' = [queue EXCEPT ![e] = @ - 1]
      /\ task'[w].pc = "campaign" /\ task'[w].entry = e
      /\ task'[w].job = View(jobs, w, e.job)
      /\ \A v \in Tasks : v # w => task'[v] = task[v]
  BY <1>a DEF Start, At
<1>1. CASE e.job = j
  <2>1. task'[w].job = "PENDING"
    BY <1>a, <1>b, <1>1, TaskHolds DEF View, Waiting
  <2>2. Cares(w, j)'
    BY <1>b, <1>1, <2>1 DEF Cares, JobAt
  <2> QED
    BY <2>2 DEF Wanted
<1>2. CASE e.job # j
  <2>1. ASSUME Queued(j) PROVE Queued(j)'
    BY <1>a, <1>b, <1>2, <2>1 DEF Queued, Entries
  <2>2. ASSUME Planned(j) PROVE Planned(j)'
    BY <2>2 DEF Planned
  <2>3. ASSUME NEW v \in Tasks, Cares(v, j) PROVE Cares(v, j)'
    BY <1>a, <1>b, <2>3, TaskHolds DEF Cares, JobAt
  <2> QED
    BY <2>1, <2>2, <2>3 DEF Wanted
<1> QED
  BY <1>1, <1>2

\* A task that cares for a job goes on caring, queues it again, or commits an
\* outcome.
LEMMA TaskCares ==
  ASSUME AttInv, Undisturbed, NEW w \in Tasks, TaskStep(w), req' = req,
         NEW j \in Jobs, Waiting(j), Waiting(j)', Wanted(j)
  PROVE  Wanted(j)'
<1>a. Inv /\ task \in [Tasks -> TaskRecords] /\ TaskEnds(w)
  BY EndParts, LifeParts DEF AttInv, Inv, TypeInv, TypeOK, TaskTypeOK
<1>b. /\ jobs.lock[j] = w => task[w].pc \notin {"idle", "campaign", "claim"} /\ JobAt(w) = j
      /\ task[w].pc \in {"start", "limits"} =>
           jobs.lock[JobAt(w)] = w /\ jobs.next[JobAt(w)] = "SENDING"
      /\ task[w].pc # "idle" => JobAt(w) \in Jobs /\ CampAt(w) \in Campaigns
      /\ w \in Sessions
  BY <1>a, TaskHolds
<1>c. ASSUME NEW pc, Goto(w, pc)
      PROVE  /\ task'[w].pc = pc /\ task'[w].entry = task[w].entry /\ task'[w].job = task[w].job
             /\ \A v \in Tasks : v # w => task'[v] = task[v]
  BY <1>a, <1>c DEF Goto, TaskRecords
<1>d. ASSUME Gentle({w}), \A v \in Tasks : v # w => task'[v] = task[v],
             \A e \in Entries : queue[e] > 0 => queue'[e] > 0,
             Cares(w, j) => Wanted(j)'
      PROVE  Wanted(j)'
  <2>1. Tasks \cap {w} = {w} /\ Requests \cap {w} = {}
    BY SessionsAssumption
  <2> QED
    BY <1>d, <2>1, WantedStays
<1>e. ASSUME jobs' = jobs PROVE Gentle({w})
  BY <1>e DEF Gentle
\* The outcome of a claimed job is written under the claim.
<1>f. ASSUME task[w].pc = "limits", NEW i \in Jobs, i = JobAt(w), NEW row \in EmailStatus,
             jobs' = Put(jobs, w, i, row), NEW pc, Goto(w, pc),
             \A e \in Entries : queue[e] > 0 => queue'[e] > 0,
             row # "PENDING" \/ Queued(i)'
      PROVE  Wanted(j)'
  <2>1. /\ Gentle({w}) /\ jobs'.lock[i] = w /\ jobs'.next[i] = row
    BY <1>a, <1>b, <1>f, GentleWrite DEF Locked, JobRows
  <2>2. Cares(w, j) => i = j
    BY <1>b, <1>f DEF Cares
  <2>3. Cares(w, j) => Cares(w, j)' \/ Queued(j)'
    BY <1>f, <2>1, <2>2 DEF Cares
  <2>4. Cares(w, j) => Wanted(j)'
    BY <2>3 DEF Wanted
  <2> QED
    BY <1>c, <1>d, <1>f, <2>1, <2>4
\* A step that leaves the jobs alone keeps what the task holds.
<1>g. ASSUME jobs' = jobs, queue' = queue, \A v \in Tasks : v # w => task'[v] = task[v],
             task[w].pc \notin {"campaign", "claim"}
      PROVE  Wanted(j)'
  <2>1. Cares(w, j) => Cares(w, j)'
    BY <1>g DEF Cares
  <2> QED
    BY <1>d, <1>e, <1>g, <2>1 DEF Wanted
<1>1. CASE ReadCampaign(w)
  <2>1. /\ task[w].pc = "campaign" /\ jobs' = jobs /\ queue' = queue
        /\ \A v \in Tasks : v # w => task'[v] = task[v]
        /\ task'[w].entry = task[w].entry /\ task'[w].job = task[w].job
    BY <1>1, <1>a DEF ReadCampaign, At, store, TaskRecords
  <2>2. ASSUME Cares(w, j) PROVE Cares(w, j)'
    <3>1. task[w].job = "PENDING" /\ JobAt(w) = j /\ CampAt(w) = CampaignOf[j]
      BY <1>b, <2>1, <2>2 DEF Cares, CampAt
    <3>2. StatusOf(w, CampAt(w)) \in {"SCHEDULED", "SENDING"}
      BY <1>a, <1>b, <2>1, <3>1 DEF StatusOf, View, TaskEnds, Waiting
    <3>3. task'[w].pc = "claim"
      BY <1>1, <1>a, <3>1, <3>2 DEF ReadCampaign, TaskRecords
    <3> QED
      BY <2>1, <3>1, <3>3 DEF Cares, JobAt
  <2> QED
    BY <1>d, <1>e, <2>1, <2>2 DEF Wanted
<1>2. CASE claim_pending(w)
  <2>1. /\ task[w].pc = "claim" /\ queue' = queue
        /\ set_status_if(w, JobAt(w), "PENDING", "SENDING")
        /\ \E pc : Goto(w, pc)
    BY <1>2 DEF claim_pending, At
  <2>2. CASE View(jobs, w, JobAt(w)) = "PENDING"
    <3>1. jobs' = Put(jobs, w, JobAt(w), "SENDING") /\ ~Locked(jobs, w, JobAt(w))
      BY <2>1, <2>2 DEF set_status_if
    <3>2. "SENDING" \in JobRows
      BY DEF JobRows, EmailStatus
    <3>3. Gentle({w}) /\ jobs'.lock[JobAt(w)] = w /\ jobs'.next[JobAt(w)] = "SENDING"
      BY <1>a, <1>b, <2>1, <3>1, <3>2, GentleWrite
    <3>4. Cares(w, j) => Cares(w, j)'
      BY <1>b, <2>1, <3>3 DEF Cares
    <3> QED
      BY <1>c, <1>d, <2>1, <3>3, <3>4 DEF Wanted
  <2>3. CASE View(jobs, w, JobAt(w)) # "PENDING"
    <3>1. jobs' = jobs
      BY <2>1, <2>3 DEF set_status_if
    <3>2. ~Cares(w, j)
      BY <1>b, <2>1, <2>3 DEF Cares, View, Waiting
    <3> QED
      BY <1>c, <1>d, <1>e, <2>1, <3>1, <3>2
  <2> QED
    BY <2>2, <2>3
<1>3. CASE StartCampaign(w) \/ PauseExhausted(w) \/ CompleteCampaign(w)
  <2>1. /\ jobs' = jobs /\ queue' = queue /\ task[w].pc \notin {"campaign", "claim"}
        /\ \E pc : Goto(w, pc)
    BY <1>3 DEF StartCampaign, PauseExhausted, CompleteCampaign, At
  <2> QED
    BY <1>c, <1>g, <2>1
<1>4. CASE CheckCompletion(w)
  <2>1. /\ jobs' = jobs /\ queue' = queue /\ task[w].pc \notin {"campaign", "claim"}
        /\ \A v \in Tasks : v # w => task'[v] = task[v]
    BY <1>4, <1>a DEF CheckCompletion, At, store
  <2> QED
    BY <1>g, <2>1
<1>5. CASE Reject(w) \/ SmtpRefuses(w)
  <2>1. /\ task[w].pc = "limits" /\ queue' = queue /\ jobs' = Put(jobs, w, JobAt(w), "FAILED")
        /\ \E pc : Goto(w, pc)
    BY <1>5 DEF Reject, SmtpRefuses, SetJob, At
  <2> QED
    BY <1>b, <1>f, <2>1 DEF EmailStatus
<1>6. CASE SmtpAccepts(w)
  <2>1. task[w].pc = "limits" /\ queue' = queue /\ Goto(w, "check")
    BY <1>6 DEF SmtpAccepts, At
  <2>2. jobs' = Put(jobs, w, JobAt(w), "SENT")
    BY <1>6, <1>b, <2>1 DEF SmtpAccepts, SetJob, View
  <2> QED
    BY <1>b, <1>f, <2>1, <2>2 DEF EmailStatus
<1>7. CASE Postpone(w)
  <2>1. /\ task[w].pc = "limits" /\ Goto(w, "commit") /\ queue' = EnqueueSoon({JobAt(w)})
        /\ set_status_if(w, JobAt(w), "SENDING", "PENDING")
    BY <1>7 DEF Postpone, At
  <2>2. PICK i \in Jobs : i = JobAt(w)
    BY <1>b, <2>1
  <2>3. jobs' = Put(jobs, w, i, "PENDING")
    BY <1>b, <2>1, <2>2 DEF set_status_if, View
  <2>4. /\ \A e \in Entries : queue[e] > 0 => queue'[e] > 0
        /\ \A k \in {i} : \E e \in Entries : e.job = k /\ queue'[e] > 0
    BY <1>a, <2>1, <2>2, QueueGrows
  <2>5. Queued(i)'
    BY <2>4 DEF Queued, Entries
  <2> QED
    BY <1>f, <2>1, <2>2, <2>3, <2>4, <2>5 DEF EmailStatus
<1>8. CASE CommitTask(w)
  <2>1. /\ task[w].pc = "commit" /\ CommitSession(w) /\ queue' = queue
        /\ \A v \in Tasks : v # w => task'[v] = task[v]
    BY <1>8, <1>a DEF CommitTask, At, Finish
  <2>2. /\ Gentle({w}) /\ \A i \in Jobs : jobs.lock[i] = w => jobs'.live[i] = jobs.next[i]
    BY <1>a, <1>b, <2>1, GentleCommit DEF Undisturbed
  <2>3. ~Cares(w, j)
    BY <2>1, <2>2 DEF Cares, Waiting
  <2> QED
    BY <1>d, <2>1, <2>2, <2>3
<1>9. ~Exhaust(w) /\ ~RecordFails(w)
  BY DEF Exhaust, RecordFails, Undisturbed
<1> QED
  BY <1>1, <1>2, <1>3, <1>4, <1>5, <1>6, <1>7, <1>8, <1>9 DEF TaskStep
-----------------------------------------------------------------------------
\* A campaign is sent because it has been sent or scheduled before, or has just
\* been created: nobody takes it out of a pause.
LEMMA StillSending ==
  ASSUME AttInv, "auto_resume" \notin Crons, Spares, NEW c \in Campaigns,
         camps'.live[c].status \in {"SCHEDULED", "SENDING"},
         \A r \in Requests : ~create(r, c)
  PROVE  camps.live[c].status \in {"SCHEDULED", "SENDING"}
<1>a. /\ LifeInv /\ camps \in CampTable /\ Free \notin Sessions /\ CampSettled(c)
      /\ PauseHeld(c) /\ CampaignOpen(c) /\ "auto_resume" \notin Sessions
  BY LifeParts, SessionsAssumption DEF AttInv, PauseInvariant, Sessions
<1>1. CASE camps' = camps
  BY <1>1
<1>2. ASSUME NEW s \in Sessions \ {"auto_resume"}, NEW d \in Campaigns,
             NEW expected \in CampaignStatus, NEW target \in CampaignStatus,
             NEW reason \in {None, ALL_SENDERS_EXHAUSTED},
             update_status_if(s, d, expected, target, reason)
      PROVE  camps.live[c].status \in {"SCHEDULED", "SENDING"}
  <2> DEFINE row == [status |-> target, reason |-> reason]
  <2>1. row \in CampaignRows
    BY DEF CampaignRows
  <2>2. camps' = Put(camps, s, d, row) \/ camps' = camps
    BY <1>2 DEF update_status_if
  <2> HIDE DEF row
  <2>3. CASE camps' = Put(camps, s, d, row)
    BY <1>a, <2>3 DEF CampTable, Tables, Put
  <2> QED
    BY <1>1, <2>2, <2>3
<1>3. ASSUME NEW s \in Sessions, CommitSession(s)
      PROVE  camps.live[c].status \in {"SCHEDULED", "SENDING"}
  <2>1. camps'.live[c] = IF camps.lock[c] = s THEN camps.next[c] ELSE camps.live[c]
    BY <1>3, <1>a, PublishRow DEF CommitSession, CampTable
  <2>2. CASE camps.lock[c] = s
    <3>1. /\ camps.live[c].status \in CampaignStatus \cup {Absent}
          /\ camps.live[c].status # Absent /\ camps.live[c].status \notin Ended
      BY <1>a, <2>2
      DEF CampTable, Tables, CampaignRows, CampaignOpen, CampaignExists, CampSettled
    <3>2. camps.live[c].status # "PAUSED"
      BY <1>a, <2>1, <2>2 DEF PauseHeld
    <3> QED
      BY <3>1, <3>2 DEF CampaignStatus, Ended
  <2> QED
    BY <2>1, <2>2
<1>4. ASSUME NEW E, CloseSessions(E)
      PROVE  camps.live[c].status \in {"SCHEDULED", "SENDING"}
  BY <1>4, <1>a, DiscardRow DEF CloseSessions, CampTable
<1>5. ASSUME NEW r \in Requests, NEW d \in Campaigns, create(r, d)
      PROVE  camps.live[c].status \in {"SCHEDULED", "SENDING"}
  <2> DEFINE row == [status |-> "SCHEDULED", reason |-> None]
  <2>1. camps' = [camps EXCEPT !.live = [@ EXCEPT ![d] = row], !.next = [@ EXCEPT ![d] = row]]
    BY <1>5 DEF create
  <2> HIDE DEF row
  <2>2. camps'.live = [camps.live EXCEPT ![d] = row] /\ c # d
    BY <1>5, <1>a, <2>1 DEF CampTable, Tables
  <2> QED
    BY <1>a, <2>2 DEF CampTable, Tables
<1>6. CASE WorkerStartup
  <2> DEFINE done == [status |-> "COMPLETED", reason |-> None]
  <2>1. camps' = [camps EXCEPT
                    !.live = [d \in Campaigns |-> IF d \in Stuck THEN done ELSE @[d]],
                    !.next = [d \in Campaigns |-> IF d \in Stuck THEN done ELSE @[d]]]
    BY <1>6 DEF WorkerStartup
  <2> HIDE DEF done
  <2>2. camps'.live[c] = IF c \in Stuck THEN done ELSE camps.live[c]
    BY <1>a, <2>1 DEF CampTable, Tables
  <2> QED
    BY <2>2 DEF Stuck
<1> QED
  BY <1>1, <1>2, <1>3, <1>4, <1>5, <1>6 DEF Spares

\* Creating a campaign inserts rows nobody holds.
LEMMA GentleCreate ==
  ASSUME Inv, NEW r \in Requests, NEW c \in Campaigns, create(r, c)
  PROVE  /\ Gentle({}) /\ queue' = queue
         /\ \A j \in Jobs : jobs'.live[j] = "PENDING" => jobs.live[j] = "PENDING" \/ j \in JobsOf(c)
<1>1. jobs \in JobTable /\ Free \notin Tasks
  BY TablesOf DEF Inv
<1>2. \A j \in JobsOf(c) : jobs.lock[j] = Free
  BY DEF create, Inv, ClaimInvariant, JobInv, JobExists, JobsOf
<1>3. jobs' = [jobs EXCEPT
                 !.live = [j \in Jobs |-> IF j \in JobsOf(c) THEN "PENDING" ELSE @[j]],
                 !.next = [j \in Jobs |-> IF j \in JobsOf(c) THEN "PENDING" ELSE @[j]]]
  BY DEF create
<1>4. \A j \in Jobs : /\ jobs'.lock[j] = jobs.lock[j]
                      /\ j \notin JobsOf(c) => jobs'.live[j] = jobs.live[j] /\ jobs'.next[j] = jobs.next[j]
  BY <1>1, <1>3 DEF JobTable, Tables
<1> QED
  BY <1>1, <1>2, <1>4 DEF Gentle, create

\* What a step of a request does to the jobs and to the queue: it takes no row
\* from a task, no call from the queue, and enqueues what leaves its plan.
LEMMA RequestGentle ==
  ASSUME AttInv, Undisturbed, NEW r \in Requests, RequestStep(r) \/ RequestArrives(r)
  PROVE  /\ Gentle({r})
         /\ Unrevived \/ \E c \in Campaigns :
              /\ create(r, c)
              /\ \A j \in Jobs : jobs'.live[j] = "PENDING" =>
                   jobs.live[j] = "PENDING" \/ j \in JobsOf(c)
         /\ \A e \in Entries : queue[e] > 0 => queue'[e] > 0
         /\ \A j \in Jobs : req[r].pc = "enqueue" /\ j \in req[r].plan =>
              Planned(j)' \/ Queued(j)'
<1>a. /\ Inv /\ req \in [Requests -> RequestRecords] /\ r \in Sessions
      /\ req[r].pc \notin {"list", "select", "update"}
  BY EndParts, LifeParts
  DEF AttInv, Undisturbed, Inv, TypeInv, TypeOK, RequestTypeOK, RequestShape, Sessions,
      RequestKnows
<1>b. ASSUME jobs' = jobs PROVE Gentle({r}) /\ Unrevived
  BY <1>b DEF Gentle, Unrevived
<1>1. ASSUME NEW c \in Campaigns, create(r, c)
      PROVE  /\ Gentle({r}) /\ queue' = queue /\ req[r].pc # "enqueue"
             /\ \A j \in Jobs : jobs'.live[j] = "PENDING" =>
                  jobs.live[j] = "PENDING" \/ j \in JobsOf(c)
  BY <1>1, <1>a, GentleCreate DEF Gentle, create, ReqAt
<1>2. ASSUME NEW op \in ApiOps, NEW c \in Campaigns, ReadForChange(r, op, c)
      PROVE  Gentle({r}) /\ Unrevived /\ queue' = queue /\ req[r].pc # "enqueue"
  BY <1>2, <1>b DEF ReadForChange, ReqAt, store
<1>3. ASSUME SnapshotPending(r)
      PROVE  Gentle({r}) /\ Unrevived /\ queue' = queue /\ req[r].pc # "enqueue"
  BY <1>3, <1>b DEF SnapshotPending, ReqAt, store
<1>4. ASSUME WriteStatus(r)
      PROVE  Gentle({r}) /\ Unrevived /\ queue' = queue /\ req[r].pc # "enqueue"
  <2>1. queue' = queue /\ req[r].pc # "enqueue" /\ (jobs' = jobs \/ CloseSessions({r}))
    BY <1>4 DEF WriteStatus, ReqAt
  <2> QED
    BY <1>a, <1>b, <2>1, GentleClose
<1>5. ASSUME NEW j \in Jobs, CancelRow(r, j)
      PROVE  Gentle({r}) /\ Unrevived /\ queue' = queue /\ req[r].pc # "enqueue"
  <2>1. /\ queue' = queue /\ req[r].pc # "enqueue"
        /\ jobs' = jobs \/ (jobs' = Put(jobs, r, j, "CANCELLED") /\ ~Locked(jobs, r, j))
    BY <1>5 DEF CancelRow, set_status_if, ReqAt
  <2>2. "CANCELLED" \in JobRows
    BY DEF JobRows, EmailStatus
  <2> QED
    BY <1>a, <1>b, <2>1, <2>2, GentleWrite
<1>6. ASSUME CommitRequest(r)
      PROVE  Gentle({r}) /\ Unrevived /\ queue' = queue /\ req[r].pc # "enqueue"
  <2>1. queue' = queue /\ req[r].pc # "enqueue" /\ CommitSession(r)
    BY <1>6 DEF CommitRequest, ReqAt
  <2> QED
    BY <1>a, <2>1, GentleCommit DEF Undisturbed
<1>7. ASSUME NEW i \in Jobs, EnqueuePlanned(r, i)
      PROVE  /\ Gentle({r}) /\ Unrevived /\ \A e \in Entries : queue[e] > 0 => queue'[e] > 0
             /\ \A j \in Jobs : req[r].pc = "enqueue" /\ j \in req[r].plan =>
                  Planned(j)' \/ Queued(j)'
  <2>1. /\ jobs' = jobs /\ queue' = EnqueueAt(i)
        /\ req' = [req EXCEPT ![r] =
             IF req[r].plan = {i} THEN Answered ELSE [@ EXCEPT !.plan = req[r].plan \ {i}]]
        /\ req[r].pc = "enqueue"
    BY <1>7 DEF EnqueuePlanned, ReqAt
  <2>2. /\ \A e \in Entries : queue[e] > 0 => queue'[e] > 0
        /\ \E e \in Entries : e.job = i /\ queue'[e] > 0
    BY <1>a, <2>1, QueueGrows
  <2>3. Queued(i)'
    BY <2>2 DEF Queued, Entries
  <2>4. ASSUME NEW j \in req[r].plan, j # i PROVE Planned(j)'
    <3>1. req'[r].pc = "enqueue" /\ j \in req'[r].plan
      BY <1>a, <2>1, <2>4 DEF RequestRecords
    <3> QED
      BY <3>1 DEF Planned
  <2> QED
    BY <1>b, <2>1, <2>2, <2>3, <2>4
<1>8. ~ListJobs(r) /\ ~UpdateRow(r) /\ \A j \in Jobs : ~SelectRow(r, j)
  BY <1>a DEF ListJobs, UpdateRow, SelectRow, ReqAt
<1>9. (\A j \in Jobs : ~ReadForStar(r, j)) /\ \A c \in Campaigns : ~ReadForResume(r, c)
  BY DEF ReadForStar, ReadForResume, Undisturbed
<1> QED
  BY <1>1, <1>2, <1>3, <1>4, <1>5, <1>6, <1>7, <1>8, <1>9 DEF RequestStep, RequestArrives

\* Who creates a campaign is the request that moves.
LEMMA CreateMoves ==
  ASSUME AttInv, NEW r \in Requests, req'[r] = req[r]
  PROVE  \A c \in Campaigns : ~create(r, c)
<1>1. req \in [Requests -> RequestRecords]
  BY EndParts, LifeParts DEF AttInv, Inv, TypeInv, TypeOK, RequestTypeOK
<1>2. ASSUME NEW c \in Campaigns, create(r, c) PROVE FALSE
  <2>1. req[r].pc = "new" /\ req'[r].pc = "enqueue"
    BY <1>1, <1>2 DEF create, ReqAt, Request, RequestRecords
  <2> QED
    BY <2>1
<1> QED
  BY <1>2

\* A cron job that is not auto-resume touches no pause, no job and no call.
LEMMA CronGentle ==
  ASSUME AttInv, Undisturbed, CronStep
  PROVE  Spares /\ Unrevived /\ Gentle(Crons) /\ queue' = queue
<1>a. /\ LifeInv /\ Inv /\ \A k \in Crons : k \in Sessions
      /\ None \in {None, ALL_SENDERS_EXHAUSTED}
  BY EndParts, LifeParts DEF AttInv, Sessions
<1>b. ASSUME jobs' = jobs PROVE Unrevived /\ Gentle(Crons)
  BY <1>b DEF Unrevived, Gentle
<1>1. ASSUME NEW k \in Crons, StartCron(k)
      PROVE  Spares /\ Unrevived /\ Gentle(Crons) /\ queue' = queue
  BY <1>1, <1>b DEF StartCron, store, Spares
<1>2. ASSUME NEW k \in Crons, CommitCron(k)
      PROVE  Spares /\ Unrevived /\ Gentle(Crons) /\ queue' = queue
  <2>1. queue' = queue /\ CommitSession(k)
    BY <1>2 DEF CommitCron
  <2>2. Spares
    BY <1>a, <2>1 DEF Spares
  <2>3. Unrevived /\ Gentle({k})
    BY <1>a, <2>1, GentleCommit DEF Undisturbed
  <2>4. Gentle(Crons)
    BY <2>3 DEF Gentle
  <2> QED
    BY <2>1, <2>2, <2>3, <2>4
<1>3. ASSUME NEW c \in Campaigns, CountLive(c)
      PROVE  Spares /\ Unrevived /\ Gentle(Crons) /\ queue' = queue
  BY <1>3, <1>b DEF CountLive, store, Spares
<1>4. CASE CompleteStuck
  <2>1. /\ "stuck_sweep" \in Crons /\ cron["stuck_sweep"].cur \in Campaigns
        /\ jobs' = jobs /\ queue' = queue
        /\ update_status_if("stuck_sweep", cron["stuck_sweep"].cur, "SENDING", "COMPLETED", None)
    BY <1>4, <1>a DEF CompleteStuck, CronAt, Inv, TypeInv, CronShape
  <2>2. Spares
    BY <1>a, <2>1, UpdateSpares, Transitions
  <2> QED
    BY <1>b, <2>1, <2>2
<1>5. ~EnqueuePending /\ \A c \in Campaigns : ~NotYet(c) /\ ~AutoResume(c)
  BY DEF EnqueuePending, NotYet, AutoResume, CronAt, Undisturbed
<1> QED
  BY <1>1, <1>2, <1>3, <1>4, <1>5 DEF CronStep

\* The step of a task revives no job.
LEMMA TaskUnrevived ==
  ASSUME AttInv, Undisturbed, NEW w \in Tasks, TaskStep(w)
  PROVE  Unrevived
<1>a. Inv /\ Free \notin Sessions /\ w \in Sessions
  BY EndParts, LifeParts DEF AttInv, Sessions
<1>b. task[w].pc # "idle" => JobAt(w) \in Jobs
  BY <1>a, TaskJob DEF Inv, At
<1>c. ASSUME NEW i \in Jobs, NEW row \in JobRows, jobs' = Put(jobs, w, i, row)
      PROVE  Unrevived
  <2>1. jobs \in JobTable
    BY <1>a, TablesOf DEF Inv
  <2>2. jobs'.live = jobs.live
    BY <1>c, <2>1 DEF JobTable, Tables, Put
  <2> QED
    BY <2>2 DEF Unrevived
<1>1. CASE ReadCampaign(w) \/ CheckCompletion(w)
  BY <1>1 DEF ReadCampaign, CheckCompletion, store, Unrevived
<1>2. CASE StartCampaign(w) \/ PauseExhausted(w) \/ CompleteCampaign(w)
  BY <1>2 DEF StartCampaign, PauseExhausted, CompleteCampaign, Unrevived
<1>3. CASE claim_pending(w) \/ Reject(w) \/ SmtpRefuses(w) \/ SmtpAccepts(w) \/ Postpone(w)
  <2>1. PICK i \in Jobs : i = JobAt(w)
    BY <1>3, <1>b DEF claim_pending, Reject, SmtpRefuses, SmtpAccepts, Postpone, At
  <2>2. jobs' = jobs \/ \E row \in JobRows : jobs' = Put(jobs, w, i, row)
    BY <1>3, <2>1 DEF claim_pending, Reject, SmtpRefuses, SmtpAccepts, Postpone, SetJob,
       set_status_if, JobRows, EmailStatus
  <2> QED
    BY <1>c, <2>2 DEF Unrevived
<1>4. CASE CommitTask(w)
  BY <1>4, <1>a, GentleCommit DEF CommitTask, Undisturbed
<1>5. ~Exhaust(w) /\ ~RecordFails(w)
  BY DEF Exhaust, RecordFails, Undisturbed
<1> QED
  BY <1>1, <1>2, <1>3, <1>4, <1>5 DEF TaskStep
-----------------------------------------------------------------------------
\* A step that revives no job and creates no campaign leaves attended what the
\* sessions E that take it did not attend to.
LEMMA AttentionStays ==
  ASSUME AttInv, Undisturbed, AttentionInvariant, Spares, Unrevived, NEW E, Gentle(E),
         \A r \in Requests : \A c \in Campaigns : ~create(r, c),
         E \cap Tasks = {},
         \A w \in Tasks : task'[w] = task[w],
         \A r \in Requests \ E : req'[r] = req[r],
         \A e \in Entries : queue[e] > 0 => queue'[e] > 0,
         \A r \in Requests \cap E : \A j \in Jobs :
           req[r].pc = "enqueue" /\ j \in req[r].plan => Planned(j)' \/ Queued(j)'
  PROVE  AttentionInvariant'
<1> SUFFICES ASSUME NEW j \in Jobs, Waiting(j)' PROVE Wanted(j)'
  BY DEF AttentionInvariant
<1>1. CampaignOf[j] \in Campaigns
  BY CampaignOfAssumption
<1>2. Waiting(j)
  BY <1>1, StillSending DEF Waiting, Unrevived, Undisturbed
<1>3. Wanted(j)
  BY <1>2 DEF AttentionInvariant
<1>4. \/ Wanted(j)'
      \/ \E r \in Requests \cap E : req[r].pc = "enqueue" /\ j \in req[r].plan
  BY <1>3, WantedStays
<1> QED
  BY <1>4 DEF Wanted

\* Steps that put new calls into the queue only, and start no task, leave the tries.
LEMMA TriesStay ==
  ASSUME TriesLeft, TypeInv, TypeInv', crashes' \in {crashes, crashes + 1},
         \A e \in Entries : queue'[e] > 0 => queue[e] > 0 \/ e.try = 1,
         \A w \in Tasks : task'[w].pc # "idle" =>
           task[w].pc # "idle" /\ task'[w].entry = task[w].entry
  PROVE  TriesLeft'
<1>1. crashes \in Nat /\ crashes' \in Nat /\ crashes <= crashes'
  BY MaxCrashesAssumption DEF TypeInv, TypeOK
<1>2. ASSUME NEW e \in Entries, queue'[e] > 0 PROVE e.try <= crashes' + 1
  <2>1. e.try \in Nat
    BY MaxTriesAssumption DEF Entries
  <2> QED
    BY <1>1, <1>2, <2>1 DEF TriesLeft
<1>3. ASSUME NEW w \in Tasks, task'[w].pc # "idle" PROVE task'[w].entry.try <= crashes' + 1
  <2>1. task[w].entry \in Entries /\ task[w].entry.try <= crashes + 1 /\ task'[w].entry = task[w].entry
    BY <1>3 DEF TriesLeft, TypeInv, TaskShape, At
  <2>2. task[w].entry.try \in Nat
    BY <2>1, MaxTriesAssumption DEF Entries
  <2> QED
    BY <1>1, <2>1, <2>2
<1>4. Entries' = Entries
  BY DEF Entries
<1> QED
  BY <1>2, <1>3, <1>4 DEF TriesLeft

\* A task takes its tries from the queue and keeps them; whom the worker's death stops
\* is delivered with one more.
LEMMA NextTries ==
  ASSUME TypeInv, TypeInv', TriesLeft, [Next]_vars
  PROVE  TriesLeft'
<1>a. /\ task \in [Tasks -> TaskRecords] /\ queue \in [Entries -> Nat] /\ crashes \in Nat
      /\ \A w \in Tasks : task[w].pc # "idle" => task[w].entry \in Entries
  BY MaxCrashesAssumption DEF TypeInv, TypeOK, TaskTypeOK, StoreTypeOK, TaskShape, At
<1>b. ASSUME NEW w \in Tasks, NEW pc, Goto(w, pc), task[w].pc # "idle"
      PROVE  \A v \in Tasks : task'[v].pc # "idle" =>
               task[v].pc # "idle" /\ task'[v].entry = task[v].entry
  BY <1>a, <1>b DEF Goto, TaskRecords
<1>c. ASSUME NEW w \in Tasks, Finish(w)
      PROVE  \A v \in Tasks : task'[v].pc # "idle" =>
               task[v].pc # "idle" /\ task'[v].entry = task[v].entry
  BY <1>a, <1>c DEF Finish, IdleTask
<1>d. ASSUME NEW J, queue' = EnqueueSoon(J)
      PROVE  \A e \in Entries : queue'[e] > 0 => queue[e] > 0 \/ e.try = 1
  BY <1>a, <1>d DEF EnqueueSoon
<1>e. ASSUME NEW j, queue' = EnqueueAt(j)
      PROVE  \A e \in Entries : queue'[e] > 0 => queue[e] > 0 \/ e.try = 1
  BY <1>a, <1>e DEF EnqueueAt
<1>1. ASSUME NEW w \in Tasks, TaskStep(w), crashes' = crashes PROVE TriesLeft'
  <2>1. CASE ReadCampaign(w) \/ CheckCompletion(w)
    <3>1. queue' = queue /\ task[w].pc # "idle"
      BY <2>1 DEF ReadCampaign, CheckCompletion, At, store
    <3>2. \A v \in Tasks : v # w => task'[v] = task[v]
      BY <1>a, <2>1 DEF ReadCampaign, CheckCompletion
    <3>3. task'[w].entry = task[w].entry
      <4>1. \E pc, status : task' = [task EXCEPT ![w] = [@ EXCEPT !.pc = pc, !.camp = status]]
        BY <2>1 DEF ReadCampaign, CheckCompletion
      <4> QED
        BY <1>a, <4>1 DEF TaskRecords
    <3>4. \A v \in Tasks : task'[v].pc # "idle" =>
            task[v].pc # "idle" /\ task'[v].entry = task[v].entry
      BY <3>1, <3>2, <3>3
    <3> QED
      BY <1>1, <3>1, <3>4, TriesStay
  <2>2. CASE Postpone(w)
    <3>1. task[w].pc # "idle" /\ Goto(w, "commit") /\ queue' = EnqueueSoon({JobAt(w)})
      BY <2>2 DEF Postpone, At
    <3> QED
      BY <1>1, <1>b, <1>d, <3>1, TriesStay
  <2>3. CASE CommitTask(w) \/ RecordFails(w)
    <3>1. Finish(w) /\ queue' = queue
      BY <2>3 DEF CommitTask, RecordFails
    <3> QED
      BY <1>1, <1>c, <3>1, TriesStay
  <2>4. CASE \/ claim_pending(w) \/ StartCampaign(w) \/ Reject(w) \/ Exhaust(w)
             \/ PauseExhausted(w) \/ SmtpAccepts(w) \/ SmtpRefuses(w) \/ CompleteCampaign(w)
    <3>1. task[w].pc # "idle" /\ queue' = queue /\ \E pc : Goto(w, pc)
      BY <2>4 DEF claim_pending, StartCampaign, Reject, Exhaust, PauseExhausted, SmtpAccepts,
                  SmtpRefuses, CompleteCampaign, At
    <3> QED
      BY <1>1, <1>b, <3>1, TriesStay
  <2> QED
    BY <1>1, <2>1, <2>2, <2>3, <2>4 DEF TaskStep
<1>2. ASSUME NEW w \in Tasks, NEW f \in Entries, Start(w, f), crashes' = crashes PROVE TriesLeft'
  <2>1. /\ queue[f] > 0 /\ queue' = [queue EXCEPT ![f] = @ - 1]
        /\ task'[w].entry = f /\ \A v \in Tasks : v # w => task'[v] = task[v]
    BY <1>2, <1>a DEF Start
  <2>2. \A e \in Entries : queue'[e] > 0 => queue[e] > 0
    BY <1>a, <2>1
  <2>3. ASSUME NEW v \in Tasks, task'[v].pc # "idle" PROVE task'[v].entry.try <= crashes + 1
    BY <2>1, <2>3 DEF TriesLeft
  <2>4. Entries' = Entries
    BY DEF Entries
  <2> QED
    BY <1>2, <2>2, <2>3, <2>4 DEF TriesLeft
<1>3. ASSUME task' = task, crashes' \in {crashes, crashes + 1},
             \/ queue' = queue
             \/ \E J : queue' = EnqueueSoon(J)
             \/ \E j : queue' = EnqueueAt(j)
      PROVE  TriesLeft'
  BY <1>3, <1>d, <1>e, TriesStay
<1>4. CASE TaskAct
  BY <1>1, <1>2, <1>4 DEF TaskAct, TaskNext
<1>5. CASE CronAct
  <2>1. task' = task /\ crashes' = crashes /\ CronStep
    BY <1>5 DEF CronAct
  <2>2. queue' = queue \/ \E J : queue' = EnqueueSoon(J)
    BY <2>1 DEF CronStep, StartCron, CommitCron, NotYet, AutoResume, CountLive, EnqueuePending,
                CompleteStuck, store
  <2> QED
    BY <1>3, <2>1, <2>2
<1>6. ASSUME NEW r \in Requests, RequestAct(r) \/ ApiCrash(r) \/ RequestFails(r) PROVE TriesLeft'
  <2>1. task' = task /\ crashes' \in {crashes, crashes + 1}
    BY <1>6 DEF RequestAct, ApiCrash, MayCrash, RequestFails
  <2>2. queue' = queue \/ \E j : queue' = EnqueueAt(j)
    BY <1>6 DEF RequestAct, ApiCrash, RequestFails, RequestDies, RequestStep, RequestArrives,
                ListJobs, UpdateRow, WriteStatus, SnapshotPending, CommitRequest, SelectRow,
                CancelRow, EnqueuePlanned, ReadForStar, create, ReadForResume, ReadForChange, store
  <2> QED
    BY <1>3, <2>1, <2>2
<1>7. ASSUME NEW w \in Tasks, TaskFails(w) PROVE TriesLeft'
  <2>1. crashes' = crashes /\ (StatementFails(w) \/ CompletionFails(w))
    BY <1>7 DEF TaskFails
  <2>2. CASE StatementFails(w)
    <3>1. Finish(w) /\ queue' = queue
      BY <2>2 DEF StatementFails
    <3> QED
      BY <1>c, <2>1, <3>1, TriesStay
  <2>3. CASE CompletionFails(w)
    <3>1. task[w].pc # "idle" /\ Goto(w, "commit") /\ queue' = queue
      BY <2>3 DEF CompletionFails, At, store
    <3> QED
      BY <1>b, <2>1, <3>1, TriesStay
  <2> QED
    BY <2>1, <2>2, <2>3
<1>8. ASSUME NEW k \in Crons, NEW c \in Campaigns, CronFails(k, c) PROVE TriesLeft'
  <2>1. task' = task /\ crashes' = crashes /\ queue' = queue
    BY <1>8 DEF CronFails, CronStatementFails, store
  <2> QED
    BY <1>3, <2>1
<1>9. CASE Clock \/ WorkerStartup \/ UNCHANGED vars
  <2>1. /\ task' = task /\ crashes' = crashes
        /\ queue' = queue \/ \E J : queue' = EnqueueSoon(J)
    BY <1>9 DEF Clock, BecomeDue, WorkerStartup, RecoverSending, vars, store
  <2> QED
    BY <1>3, <2>1
<1>10. CASE WorkerCrash
  <2>1. /\ queue' = Redelivered /\ crashes' = crashes + 1
        /\ \A w \in Tasks : task'[w].pc = "idle"
    BY <1>10 DEF WorkerCrash, MayCrash, IdleTask
  <2>2. ASSUME NEW e \in Entries, queue'[e] > 0 PROVE e.try <= crashes' + 1
    <3> DEFINE again == {w \in Tasks : ~At(w, "idle") /\ e = [task[w].entry EXCEPT !.try = @ + 1]}
    <3>1. queue'[e] = queue[e] + Cardinality(again)
      BY <2>1 DEF Redelivered
    <3>2. e.try \in Nat
      BY MaxTriesAssumption DEF Entries
    <3>3. CASE again = {}
      <4>1. Cardinality(again) = 0
        BY <3>3, FS_EmptySet
      <4>2. queue[e] > 0
        BY <1>a, <2>2, <3>1, <4>1
      <4>3. e.try <= crashes + 1
        BY <4>2 DEF TriesLeft
      <4> QED
        BY <1>a, <2>1, <3>2, <4>3
    <3>4. CASE again # {}
      <4>1. PICK w \in Tasks : ~At(w, "idle") /\ e = [task[w].entry EXCEPT !.try = @ + 1]
        BY <3>4
      <4>2. task[w].entry \in Entries /\ task[w].entry.try <= crashes + 1
        BY <1>a, <4>1 DEF At, TriesLeft
      <4>3. task[w].entry.try \in Nat /\ e.try = task[w].entry.try + 1
        BY <4>1, <4>2, MaxTriesAssumption DEF Entries
      <4> QED
        BY <1>a, <2>1, <4>2, <4>3
    <3> QED
      BY <3>3, <3>4
  <2>3. Entries' = Entries
    BY DEF Entries
  <2> QED
    BY <2>1, <2>2, <2>3 DEF TriesLeft
<1> QED
  BY <1>4, <1>5, <1>6, <1>7, <1>8, <1>9, <1>10 DEF Next, StatementFault

\* The death of the worker: what a task was about to do is delivered again.
LEMMA CrashAttention ==
  ASSUME AttInv, Undisturbed, TriesLeft, AttentionInvariant, WorkerCrash
  PROVE  AttentionInvariant'
<1>a. /\ Inv /\ queue \in [Entries -> Nat] /\ camps \in CampTable
      /\ \A w \in Tasks : task[w].pc # "idle" => task[w].entry \in Entries
  BY EndParts, LifeParts DEF AttInv, Inv, TypeInv, TypeOK, StoreTypeOK, TaskShape, At
<1>b. crashes \in Nat /\ crashes + 1 < MaxTries /\ MaxTries \in Nat
  <2>1. crashes \in Nat /\ crashes < MaxCrashes
    BY <1>a, MaxCrashesAssumption DEF WorkerCrash, MayCrash, Inv, TypeInv, TypeOK
  <2> QED
    BY <2>1, MaxCrashesAssumption, MaxTriesAssumption DEF Undisturbed
<1>1. /\ jobs'.live = jobs.live /\ camps'.live = camps.live
      /\ queue' = Redelivered /\ req' = req
  <2>1. CloseSessions(Tasks \cup Crons) /\ jobs \in JobTable
    BY <1>a, TablesOf DEF WorkerCrash, Inv
  <2>2. jobs'.live = jobs.live
    BY <2>1, DiscardRow DEF CloseSessions, JobTable
  <2>3. camps'.live = camps.live
    BY <1>a, <2>1, DiscardRow DEF CloseSessions, CampTable
  <2> QED
    BY <2>2, <2>3 DEF WorkerCrash
<1> SUFFICES ASSUME NEW j \in Jobs, Waiting(j)' PROVE Wanted(j)'
  BY DEF AttentionInvariant
<1>2. Wanted(j)
  BY <1>1 DEF AttentionInvariant, Waiting
<1> DEFINE again(e) == {w \in Tasks : ~At(w, "idle") /\ e = [task[w].entry EXCEPT !.try = @ + 1]}
<1>3. ASSUME NEW e \in Entries
      PROVE  /\ queue'[e] = queue[e] + Cardinality(again(e)) /\ Cardinality(again(e)) \in Nat
             /\ again(e) # {} => Cardinality(again(e)) > 0
  <2>1. IsFiniteSet(again(e))
    BY TasksAssumption, FS_Subset
  <2>2. queue'[e] = queue[e] + Cardinality(again(e))
    BY <1>1 DEF Redelivered
  <2> HIDE DEF again
  <2>3. Cardinality(again(e)) \in Nat /\ (again(e) # {} => Cardinality(again(e)) # 0)
    BY <2>1, FS_CardinalityType, FS_EmptySet
  <2> QED
    BY <2>2, <2>3
<1>4. CASE Queued(j)
  <2>1. PICK e \in Entries : e.job = j /\ queue[e] > 0
    BY <1>4 DEF Queued
  <2>2. queue'[e] > 0
    <3> HIDE DEF again
    <3> QED
      BY <1>a, <1>3, <2>1
  <2> QED
    BY <2>1, <2>2 DEF Queued, Wanted, Entries
<1>5. CASE Planned(j)
  BY <1>1, <1>5 DEF Planned, Wanted
<1>6. ASSUME NEW w \in Tasks, Cares(w, j) PROVE Wanted(j)'
  <2>1. task[w].pc # "idle" /\ JobAt(w) = j
    BY <1>a, <1>6, TaskHolds DEF Cares
  <2> DEFINE f == [task[w].entry EXCEPT !.try = @ + 1]
  <2>2. task[w].entry \in Entries /\ task[w].entry.try <= crashes + 1
    BY <1>a, <2>1 DEF TriesLeft
  <2>3. f \in Entries /\ f.job = j
    BY <1>b, <2>1, <2>2 DEF Entries, JobAt
  <2>4. w \in again(f)
    BY <2>1 DEF At
  <2>5. queue'[f] > 0
    <3> HIDE DEF f, again
    <3> QED
      BY <1>a, <1>3, <2>3, <2>4
  <2> HIDE DEF f
  <2> QED
    BY <2>3, <2>5 DEF Queued, Wanted, Entries
<1> QED
  BY <1>2, <1>4, <1>5, <1>6 DEF Wanted

\* The death of the API before a request commits: what it wrote was seen by nobody.
LEMMA DeathAttention ==
  ASSUME AttInv, Undisturbed, AttentionInvariant, NEW r \in Requests, ApiCrash(r), LoopSpared
  PROVE  AttentionInvariant'
<1>a. Inv /\ req \in [Requests -> RequestRecords]
  BY EndParts, LifeParts DEF AttInv, Inv, TypeInv, TypeOK, RequestTypeOK
<1>1. /\ CloseSessions({r}) /\ queue' = queue /\ task' = task
      /\ req' = [req EXCEPT ![r] = Answered] /\ req[r].pc # "enqueue"
  BY DEF ApiCrash, RequestDies, LoopSpared
<1>2. Spares /\ Gentle({r}) /\ Unrevived
  BY <1>a, <1>1, GentleClose DEF Spares
<1>3. {r} \cap Tasks = {}
  BY SessionsAssumption
<1>4. \A q \in Requests : \A c \in Campaigns : ~create(q, c)
  <2>1. \A q \in Requests : q # r => req'[q] = req[q]
    BY <1>a, <1>1
  <2>2. \A c \in Campaigns : ~create(r, c)
    <3> SUFFICES ASSUME NEW c \in Campaigns, create(r, c) PROVE FALSE
      OBVIOUS
    <3>1. req'[r].pc = "enqueue"
      BY <1>a DEF create, Request, RequestRecords
    <3>2. req'[r] = Answered
      BY <1>a, <1>1
    <3> QED
      BY <3>1, <3>2 DEF Answered, Request
  <2> QED
    BY <2>1, <2>2, CreateMoves
<1>5. \A q \in Requests \ {r} : req'[q] = req[q]
  BY <1>a, <1>1
<1> QED
  BY <1>1, <1>2, <1>3, <1>4, <1>5, AttentionStays

\* Every step leaves every job that waits in a campaign being sent wanted.
LEMMA NextAttention ==
  ASSUME AttInv, Undisturbed, TriesLeft, AttentionInvariant, [Next]_vars, [LoopSpared]_vars
  PROVE  AttentionInvariant'
<1>a. /\ LifeInv /\ Inv /\ task \in [Tasks -> TaskRecords] /\ req \in [Requests -> RequestRecords]
      /\ CampaignOf \in [Jobs -> Campaigns]
      /\ \A w \in Tasks : TaskSpares(w)
      /\ \A r \in Requests : RequestSpares(r)
  BY EndParts, LifeParts, CampaignOfAssumption
  DEF AttInv, Inv, TypeInv, TypeOK, TaskTypeOK, RequestTypeOK, PauseInvariant
<1>b. ASSUME req' = req PROVE \A r \in Requests : \A c \in Campaigns : ~create(r, c)
  BY <1>b, CreateMoves
<1>1. CASE TaskAct
  <2>1. PICK w \in Tasks : TaskStep(w) \/ \E e \in Entries : Start(w, e)
    BY <1>1 DEF TaskAct, TaskNext
  <2>2. req' = req /\ Spares
    BY <1>1, <1>a, <2>1, SpareTask DEF TaskAct
  <2>3. Unrevived
    BY <2>1, TaskUnrevived DEF Start, Unrevived
  <2> SUFFICES ASSUME NEW j \in Jobs, Waiting(j)' PROVE Wanted(j)'
    BY DEF AttentionInvariant
  <2>4. Waiting(j)
    BY <1>a, <1>b, <2>2, <2>3, StillSending DEF Waiting, Unrevived, Undisturbed
  <2>5. Wanted(j)
    BY <2>4 DEF AttentionInvariant
  <2>6. CASE TaskStep(w)
    BY <2>2, <2>4, <2>5, <2>6, TaskCares
  <2>7. ASSUME NEW e \in Entries, Start(w, e) PROVE Wanted(j)'
    BY <2>2, <2>4, <2>5, <2>7, StartCares
  <2> QED
    BY <2>1, <2>6, <2>7
<1>2. CASE CronAct
  <2>1. /\ Spares /\ Unrevived /\ Gentle(Crons) /\ queue' = queue
        /\ task' = task /\ req' = req
    BY <1>2, CronGentle DEF CronAct
  <2>2. Crons \cap Tasks = {} /\ Crons \cap Requests = {}
    BY SessionsAssumption, CronsAssumption
  <2> QED
    BY <1>b, <2>1, <2>2, AttentionStays
<1>3. ASSUME NEW r \in Requests, RequestAct(r) PROVE AttentionInvariant'
  <2>1. /\ RequestStep(r) \/ RequestArrives(r)
        /\ task' = task
    BY <1>3 DEF RequestAct
  <2>2. \A q \in Requests : q # r => req'[q] = req[q]
    BY <1>a, <2>1
    DEF RequestStep, RequestArrives, ListJobs, UpdateRow, WriteStatus, SnapshotPending,
        CommitRequest, SelectRow, CancelRow, EnqueuePlanned, ReadForStar, create,
        ReadForResume, ReadForChange
  <2>3. Spares
    BY <1>a, <2>1, SpareRequest DEF Undisturbed
  <2>4. {r} \cap Tasks = {}
    BY SessionsAssumption
  <2>5. /\ Gentle({r})
        /\ Unrevived \/ \E c \in Campaigns :
             /\ create(r, c)
             /\ \A j \in Jobs : jobs'.live[j] = "PENDING" =>
                  jobs.live[j] = "PENDING" \/ j \in JobsOf(c)
        /\ \A e \in Entries : queue[e] > 0 => queue'[e] > 0
        /\ \A j \in Jobs : req[r].pc = "enqueue" /\ j \in req[r].plan =>
             Planned(j)' \/ Queued(j)'
    BY <2>1, RequestGentle
  <2>6. CASE \A c \in Campaigns : ~create(r, c)
    <3>1. \A q \in Requests : \A c \in Campaigns : ~create(q, c)
      BY <2>2, <2>6, CreateMoves
    <3> QED
      BY <2>1, <2>2, <2>3, <2>4, <2>5, <2>6, <3>1, AttentionStays
  <2>7. ASSUME NEW c \in Campaigns, create(r, c) PROVE AttentionInvariant'
    <3> SUFFICES ASSUME NEW j \in Jobs, Waiting(j)' PROVE Wanted(j)'
      BY DEF AttentionInvariant
    <3>1. CASE j \in JobsOf(c)
      <4>1. req'[r].pc = "enqueue" /\ j \in req'[r].plan
        BY <1>a, <2>7, <3>1 DEF create, Request, RequestRecords
      <4> QED
        BY <4>1 DEF Planned, Wanted
    <3>2. CASE j \notin JobsOf(c)
      <4>1. jobs.live[j] = "PENDING" /\ CampaignOf[j] # c /\ CampaignOf[j] \in Campaigns
        BY <1>a, <2>7, <3>2, GentleCreate DEF JobsOf, Waiting
      <4>2. camps'.live[CampaignOf[j]] = camps.live[CampaignOf[j]]
        BY <2>7, <4>1, <1>a, LifeParts DEF create, CampTable, Tables
      <4>3. Wanted(j)
        BY <4>1, <4>2 DEF AttentionInvariant, Waiting
      <4>4. req[r].pc = "new"
        BY <2>7 DEF create, ReqAt
      <4> QED
        BY <2>1, <2>2, <2>4, <2>5, <4>3, <4>4, WantedStays
    <3> QED
      BY <3>1, <3>2
  <2> QED
    BY <2>6, <2>7
<1>4. CASE WorkerStartup
  <2>1. /\ jobs' = jobs /\ task' = task /\ req' = req /\ Spares
        /\ queue' = EnqueueSoon({})
    BY <1>4, <1>a, RecoverNothing DEF WorkerStartup, RecoverSending, Spares
  <2>2. \A e \in Entries : queue[e] > 0 => queue'[e] > 0
    BY <1>a, <2>1, QueueGrows
  <2>3. Unrevived /\ Gentle({})
    BY <2>1 DEF Unrevived, Gentle
  <2> QED
    BY <1>b, <2>1, <2>2, <2>3, AttentionStays
<1>5. CASE Clock \/ UNCHANGED vars
  <2>1. jobs' = jobs /\ task' = task /\ req' = req /\ queue' = queue /\ Spares
    BY <1>5 DEF Clock, BecomeDue, vars, store, Spares
  <2>2. Unrevived /\ Gentle({})
    BY <2>1 DEF Unrevived, Gentle
  <2> QED
    BY <1>b, <2>1, <2>2, AttentionStays
<1>6. CASE WorkerCrash
  BY <1>6, CrashAttention
<1>7. ASSUME NEW r \in Requests, ApiCrash(r) PROVE AttentionInvariant'
  BY <1>5, <1>7, DeathAttention
\* No statement fails.
<1>8. ~StatementFault
  BY DEF Undisturbed, StatementFault, TaskFails, RequestFails, CronFails, MayFail
<1> QED
  BY <1>1, <1>2, <1>3, <1>4, <1>5, <1>6, <1>7, <1>8 DEF Next
-----------------------------------------------------------------------------
\* A call is given up only after as many deaths of the worker as it has tries.
THEOREM TriesLeftHolds == Spec => []TriesLeft
<1>1. Init => TriesLeft
  BY DEF Init, StoreInit, TaskInit, IdleTask, TriesLeft
<1>2. TypeInv /\ TypeInv' /\ TriesLeft /\ [Next]_vars => TriesLeft'
  BY NextTries
<1>3. EndInv => TypeInv
  BY EndParts DEF Inv
<1> QED
  BY <1>1, <1>2, <1>3, EndInvInvariant, PTL DEF Spec

\* Every job left to send in a campaign being sent is queued, planned, or cared
\* for by a task that will not drop it, when no statement fails, no pool of senders
\* is exhausted, nobody resumes or stars, the worker dies less often than a call has
\* tries, and the API not in the loop that enqueues.
THEOREM AttentionHolds ==
  ASSUME Undisturbed
  PROVE  Spec /\ [][LoopSpared]_vars => []AttentionInvariant
<1> DEFINE Untouched == reverted = {}
<1>1. Init => AttentionInvariant
  <2> SUFFICES ASSUME Init, NEW j \in Jobs PROVE ~Waiting(j)
    BY DEF AttentionInvariant
  <2>1. jobs.live[j] = Absent
    BY DEF Init, StoreInit, Committed
  <2> QED
    BY <2>1 DEF Waiting, Absent
<1>2. EndInv /\ LifecycleInvariant /\ Untouched /\ PauseInvariant /\ TriesLeft
        /\ AttentionInvariant /\ [Next]_vars /\ [LoopSpared]_vars
        => AttentionInvariant'
  BY NextAttention DEF LifecycleInvariant, LifeInv, AttInv
<1>3. ApiOps \cap {"resume", "star"} = {}
  BY DEF Undisturbed
<1>4. Spec => []Untouched
  BY <1>3, NothingReverted
<1>5. Spec => []PauseInvariant
  BY <1>3, PauseInvariantHolds
<1> HIDE DEF Untouched
<1> QED
  BY <1>1, <1>2, <1>4, <1>5, EndInvInvariant, LifecycleInvariantHolds, TriesLeftHolds, PTL DEF Spec

\* A job left to send in a campaign that is being sent is never forgotten: creating,
\* pausing, cancelling, sending, postponing and sweeping lose no call, in whatever
\* order they happen, and neither does a worker that dies less often than a call has
\* tries. Where nothing at all may die, the condition on the API holds by itself.
THEOREM NoStrandedHolds ==
  ASSUME Undisturbed
  PROVE  /\ Spec /\ [][LoopSpared]_vars => []NoStranded
         /\ Faults = {} => (Spec => []NoStranded)
<1>1. EndInv /\ AttentionInvariant => NoStranded
  <2> SUFFICES ASSUME EndInv, AttentionInvariant, NEW j \in Jobs, Waiting(j)
               PROVE  Attended(j)
    BY DEF NoStranded, Waiting
  <2>1. Inv /\ Wanted(j)
    BY EndParts DEF AttentionInvariant
  <2>2. ASSUME NEW w \in Tasks, Cares(w, j) PROVE Attended(j)
    BY <2>1, <2>2, TaskHolds DEF Cares, Attended, At
  <2> QED
    BY <2>1, <2>2 DEF Wanted, Queued, Planned, Attended
<1>2. Spec /\ [][LoopSpared]_vars => []NoStranded
  BY <1>1, AttentionHolds, EndInvInvariant, PTL DEF Spec
<1>3. ASSUME Faults = {} PROVE Spec => []NoStranded
  <2>1. [LoopSpared]_vars
    BY <1>3 DEF LoopSpared, ApiCrash, MayCrash
  <2>2. [][LoopSpared]_vars
    BY <2>1, PTL
  <2> QED
    BY <1>2, <2>2
<1> QED
  BY <1>2, <1>3
=============================================================================
