# Outly: models and proofs

TLA+ modules of the Outly e-mail campaign service (`src/src/outly`), model-checked
with TLC, with theorems proved by TLAPS. Paths below are relative to
`src/src/outly` unless they start with `src/`.

Outly lets a user upload recipients, creates one **e-mail job** per recipient and
hands the jobs to a queue. A worker (arq) takes the calls, checks limits, sends by
SMTP and records the result; cron jobs of the same worker resume, repair and
advance campaigns, while API requests pause, resume, cancel and stop them. All
coordination goes through rows of one SQL database.

## 1. Inventory

| Component | State | Operations | Interacts with | Hard part | What makes it correct |
|---|---|---|---|---|---|
| Send pipeline `application/delivery.py`, `worker/main.py` | job rows, campaign row | `send_email` task: guard, claim, start campaign, reject / postpone / reassign / exhaust, SMTP, record, completion check, **one** commit | queue, throttle, rotation, sequences | claim by conditional UPDATE, SMTP inside a transaction, crash before the commit, redelivery | one mail per job; every mail accounted for; completed or cancelled campaigns have nothing to send |
| Campaign requests `application/campaigns.py`, `api/routes/campaigns.py` | campaign row, job rows | create, pause, resume, cancel, star | queue after the commit | read, decide, write; resume writes listed entities back | no write over newer state; nothing stranded |
| Maintenance `application/maintenance.py` | campaign rows, job rows, recipient rows | auto-resume, orphan recovery, stale sweep, stuck-campaign sweep, sequence scheduler | queue before the commit | decisions on stale lists | repairs what crashes leave; leaves user decisions alone |
| State machine `domain/state_machine.py` | – | transition table | every writer of a campaign row | table and conditional update are separate | every write is a transition |
| Database `adapters/db/` | the tables | transactions, conditional updates, `update(entity)` | everybody | READ COMMITTED, lost updates | – |
| Queue `adapters/queue.py` | delayed calls | enqueue | worker | no deduplication, redelivery after a crash | – |
| Follow-ups `application/sequences.py`, `maintenance.py`, `emails.py` | `recipient_sequence_states` | advance, finish, step bookkeeping, pause / resume / stop / replied | send pipeline, scheduler | every actor rewrites the same row | steps in order, each once |
| Throttling `application/throttling.py` | counters per minute, cooldowns, warm-up | `can_send`, `record_send_result`, `find_available_sender`, `earliest_resume_time` | send pipeline, auto-resume | check-then-act, lost increments, clock readings | limits hold, cooldown starts, campaign wakes |
| Rotation `domain/rotation.py` | – | `assign_senders_round_robin` | create | wrap-around over full senders | fair, within limits, complete |
| Accounts and senders `application/auth.py`, `senders.py` | users, senders, warm-ups | login, create, verify | throttling | check-then-insert across an SMTP wait | a verified sender is ready |
| Schedule jitter `domain/scheduling.py` | – | times of the jobs | create, rotation | random gaps, fractions cut off | delay and hourly limits kept, per pool and per sender |
| Refresh tokens `application/auth.py` | refresh tokens | login, refresh, logout, clean-up | auto-resume run | revoke and issue in one transaction, overlapping refreshes | who can refresh can go on refreshing |
| Templates, tracking, attachments, search, serialization, wiring | own tables | CRUD and queries | – | none that a model would show | – |

[`PROJECT.json`](PROJECT.json) lists every component with what is and is not modelled, and under
`hazards` each place in the code that is hard to test, with the properties for it.

## 2. Modules

| Module | Models | Built on |
|---|---|---|
| `ReadCommitted` | sessions and row locks of the database | – |
| `CampaignStates` | statuses, transition table | – |
| `MailStore` | campaign and job tables, conditional updates, queue, the clock | the two above |
| `SendTask` | the `send_email` task | `MailStore` |
| `CampaignRequests` | create, pause, resume, cancel, the star toggle | `MailStore` |
| `Maintenance` | auto-resume and sweeps | `MailStore` |
| `CampaignLifecycle` | abstract specification of a campaign row | `CampaignStates` |
| `Delivery` | the composition, with crashes, deadlocks, fairness, properties | all of the above |
| `DeliveryInvariant` | inductive invariant of the claim protocol | `Delivery` |
| `InOrder` | abstract specification: a recipient's steps, in order, once unless a record is lost or taken back | – |
| `FollowUps` | sequences of one campaign, and the requests about it | `ReadCommitted`, `CampaignStates`, `InOrder` |
| `Throttle` | limits, warm-up, cooldown, slowdown, waking | `ReadCommitted` |
| `Rotation` | round robin | – |
| `CampaignPlan` | what create makes of a request: senders, times, job rows | `Rotation` |
| `Accounts` | login, senders, verification | `ReadCommitted` |
| `RefreshTokens` | login, refresh, logout, clean-up of tokens | `ReadCommitted` |
| `AccountsInvariant` | inductive invariant of its row locks | `Accounts` |
| `Authentication` | the two halves of a login, side by side | `AccountsInvariant`, `RefreshTokens` |
| `SumTheorems` | what a sum over a finite set is when one of its terms changes | – |
| `MC*` | constants and symmetry for TLC | the module named |
| `*_proofs` | theorems, and the inductive invariants they need | the module named; `Lifecycle_proofs` continues `Delivery_proofs` with the end of a campaign, its status, its pauses and what waits; `Rotation_proofs` is about `CampaignPlan` too and `Accounts_proofs` about `RefreshTokens` |

Operators that end in a suffix and say `mutant:` are slips a programmer could have
made. No specification uses them; they show that each property would notice.

### How state and actions correspond to the code

**Database.** A table is a committed row, the row as last written and the session
that wrote it, per key. `View` is what a SELECT or the WHERE of an UPDATE sees at
READ COMMITTED (PostgreSQL's default, which `adapters/db/session.py` leaves as it
is); `Locked` is where an UPDATE waits. `update(entity)` of a repository is two
statements: `session.get` reads the row again (the identity map holds rows weakly
and the earlier read has been converted to an entity), then SQLAlchemy writes the
columns that differ. `Changed` says so, and this is why a stale entity overwrites
newer columns and no others. SQLite, the development default, serialises writers:
there the waiting statement fails after the busy timeout, which is the `"lock"` fault.

**Queue.** A bag of calls with the number of the try. `arq` does not retry an
ordinary exception, so a failed task is over; only a worker that dies makes a call
come back, up to `max_tries`.

**Send task.** One action per statement that another session could observe or
block. `Postpone` stands for throttling and for reassignment: both release the job
and enqueue it again. Reject, exhaustion and SMTP refusal are separate outcomes.
A task ends with the one commit of `worker/main.py:118`, or loses its transaction.

**Requests.** Reads, writes, commit and the loop that enqueues are separate
actions; a request may die between any two of them. The star toggle
(`application/emails.py:82`) is a request as well: it lists one job and writes it
back as `resume` does, without a change of its own to the status.

**Cron jobs.** One session per run, one commit; a run of a job does not overlap
with another of the same job (they take far less than their period), except for the
sequence scheduler, of which two may overlap. The loop in which auto-resume enqueues
one campaign's jobs is one step. At startup no task runs, so orphan recovery and
the first sweep are one step there.

**Follow-ups.** Step 0 is the campaign's own mail. A send is one step to its
outcome under the lock of the job row (its claim is `SendTask`'s business), and is
followed by the two statements of `_update_step_status`. A set-based request is one
step with its commit. Pause, resume and cancel of the campaign are there statement
by statement: the conditional UPDATE of the campaign's row, the two statements of
`cancel_pending`, and of `resume` the listing of the jobs and then, for each that is
overdue, the two statements of `update(job)`, the second of which writes the listed
PENDING over whatever the row has become. `reverted` is history: it names the jobs
such a commit has brought back, and `Rewritten` their recipients. The star toggle is
not among these requests; its write-back is the same and is in `Delivery`. A worker
that dies closes the sessions of its runs and tasks, and the calls of the tasks come
back.

**Campaign plan.** Times count from `start_time` in units in which every gap is a
whole number: a second has `5 * combined_hourly` of them. `random.uniform(a, b)` is
its two ends and the middle; the gaps add up, so the ends give the extreme
schedules. `int()` of a limit below one is 0.

**Throttle.** Minutes are the unit of the clock; hours, days and cooldowns have a
length in minutes. A limit of minute, hour or day, halved or lowered by the warm-up,
is never less than one. Jobs are created at minute 0, and a warm-up starts at midnight.
Bounces are not told from other refusals. `set_back` is history: it names the
counters that a commit has taken back (section 3).

**Accounts.** Which passwords the SMTP server takes is a fixed set. The waiting for
it is a step boundary; that is what the module is about. The login of a known user
writes a name and a picture, which nothing here reads.

**Refresh tokens.** Days are the unit. A token is named after the call that signs
it, since its `jti` makes it new. The answer leaves before the commit of
`get_services`, so a client may come back with a token that is not committed yet.
`delete_stale` is the last statement of an auto-resume run and one step with its
commit. The tokens and the accounts share no table; a behaviour of `Authentication`
takes steps of one of them only, which keeps the product out of the state space.

## 3. Runs

| Run | Question | Bounds | Shows |
|---|---|---|---|
| `delivery` | do claims, completion and cancellation agree in every interleaving and through every fault? | 1 campaign, 2 jobs, 2 tasks, 3 requests of any kind, star included, sweep, 1 crash of either process, lock failures, lost records | all safety properties, and the inductive invariant of the proofs |
| `resumed` | can the duplicate calls of auto-resume send twice? is every write of a campaign row a transition? | 2 jobs, 2 tasks, 3 requests without resume, 1 auto-resume run that finds something, 1 postponement | no; `Delivery` implements `CampaignLifecycle` there |
| `finishes` | is a job ever forgotten? is every campaign sent to the end? | fair, 2 tasks, 2 requests, no resume, no exhaustion, no faults | no; yes |
| `stuck` | does the sweep complete what nobody completed? | fair, deadlocks, 1 crash, 2 requests of any kind | it does |
| `followups` | are steps mailed in order, once? do row, jobs and campaign agree when the campaign is paused, resumed and cancelled? | 1 recipient, 2 steps, 2 scheduler runs, sweep, 2 tasks, 2 requests about the campaign, 1 crash, lock failures, early calls, no refusals | yes, but for a recipient whose mail a resume has written back; a crash repeats the step it hits; `FollowUps` implements `InOrder` there |
| `followups_end` | does the sequence end, with one request in between? | fair, 2 recipients, one pause, stop or reply request or a pause of the campaign, refusals, no fault | yes, or everybody left has a failed mail |
| `throttle` | how far can limits of minute, hour and day be passed? can a woken campaign send? | 2 tasks, 2 senders, 3 mails, a day of 2 hours of 2 minutes and the first minute of the next, a campaign limit of 1 an hour, a warm-up of 1 on the first day | by one less than there are tasks; yes |
| `rotation` | is the rotation fair, complete, within limits? do the planned times keep delay and limits? | pools of 1 to 3, limits 0 to 2 or none, up to 6 recipients, 3 delays, 3 hourly limits, an hour of 4 seconds | yes, up to the 40 percent of the gaps |
| `accounts` | is a verified sender ready? do requests end? can a user go on refreshing? | 4 requests of 2 identities with one address, fair, crashes; 3 overlapping calls of one user over 4 days | yes; and the inductive invariant of the proofs |
| `double_send`, `exhausted_scheduled`, `never_resumed` | see below | | violated |

**Why the bounds are enough.** The actors meet in rows. Two tasks and two jobs give
every pair of claims, completion checks and double calls; three requests are what
it takes to create, and then to have two others meet. `MaxDelays`, `MaxResumes`,
`MaxCrashes`, `MaxCopies`, `MaxMinute`, `MaxEmails`, `MaxLimit`, `HourLength` and
`LastDay` cap what the code does not bound; each is large enough for the case it is there for (a postponed call
next to another one, a resume while its predecessor's calls are queued, a second
copy of a follow-up, a third refusal, a wrap of the cursor after one sender is
full, a day after a token has expired). One recipient is enough for `followups`:
recipients meet in the campaign's row and its completion, which the jobs of two
steps and `followups_end` with two recipients exercise. Two requests are a pause and
a resume, which is what a write-back over a sent step takes. Refused mails are in
`followups_end`; with them `followups` has 3.9 million states and holds as well, but
takes more than five minutes. In `throttle` a day has two hours, so the hourly limits
let a sender send as many mails as there are, and only the check of the day keeps them
to its limit; an instance with one sender, four mails and two days, in which no other
limit is in reach, was checked apart. Outcomes that are missing in
one run of `Delivery` are in another.
`CHECK_DEADLOCK FALSE` is set where all requests have been made and all mails
are sent: the system may rest there.

**Fairness.** Weak fairness only, and only of what the code schedules: asyncio runs
a started task on; arq takes what is queued; a request that has arrived is served;
cron comes round; the clock moves; a dead worker is restarted; the database breaks
a deadlock. Nothing makes a user ask, a fault happen or a mail succeed.
`EverySendFinishes` is checked without resume and without exhausted senders,
because the behaviours below break it.

### Where code and documents disagree

Three runs expect a violation; `PROJECT.json` `findings` has the lines on both sides.

| Run | Scenario |
|---|---|
| `double_send` | `resume` lists a PENDING job, a task sends it, `resume` writes it back to PENDING: mailed twice |
| `exhausted_scheduled` | the first task of a campaign finds all senders exhausted, and the pause is conditional on SCHEDULED, which the task itself has just changed |
| `never_resumed` | `earliest_resume_time` answers "now", and its now is later than the one `run()` compares it with: a campaign with a usable sender stays paused |

`never_resumed` concerns every run of auto-resume: it wakes a campaign only if two
readings of the clock coincide or the clock steps back. `Delivery` lets it wake
campaigns all the same, so that what waking would do is covered; `NotYet` is the
usual case.

Counterexamples met on the way that no run repeats, each the reason for a
restriction of a run above:

- The write-back of `resume` and of the star toggle can leave a job to send in a
  *completed* or cancelled campaign; its task
  may then find no sender and pause the completed campaign
  (`application/delivery.py:171` takes any status it read for the expected one).
  Hence the excuse `reverted` in `EndedDrained`.
- `resume` does the same to a sequence, without a crash: a task reads the campaign, the
  user pauses, `resume` lists step 0, the task commits SENT, `resume` writes PENDING and
  enqueues. Step 0 is mailed again. If the scheduler has moved on meanwhile, a job is
  waiting for a step that is over, and the task that mails it writes the step statuses
  as it read them over those of the scheduler. If the write-back commits between the
  scheduler's count of the live jobs and its UPDATE, a completed campaign has a job to
  send. Hence `Rewritten` in `StepsInOrder`, `RowFollowsJobs` and
  `CompletedIsOver`: what is claimed of such a recipient is that no step arrives
  without the one before it.
- A worker that dies in each of the three tries of a call leaves a PENDING job
  nobody will look at; recovery looks for SENDING. Hence `finishes` has no crash.
- An API that dies in the loop in which it enqueues what it has committed leaves
  PENDING jobs without a call, and no sweep looks for them. `delivery` has these deaths;
  `finishes` has not, and `NoStranded` is proved where the API survives its loop.
- Auto-resume, which compares the status alone, resumes a campaign that its user
  has resumed and paused again since it was listed. Hence `resumed` has no resume.
- Pausing one recipient writes back its old step while the scheduler advances it;
  after a resume the step is mailed again. Two overlapping stop requests can do the
  same. Hence `followups_end` has one request.
- The scheduler writes recipients back as they were when it listed them, and undoes
  a pause in between.
- A sequence whose recipients are all paused is completed by the sweep; resuming
  the recipients does not bring it back. Hence `followups` has no requests about
  recipients.
- `resume` of a sequence campaign that waits between two steps finds no job and
  completes the campaign; the remaining steps are never sent. Hence the excuse in
  `CompletedIsOver`.
- A scheduler run that commits a follow-up after `cancel_pending` has looked leaves
  a PENDING job in a cancelled campaign, and a task that has read the campaign
  before may send it. Hence `late` in `CancelledIsOver` and `CancelStopsSequence`.
- The scheduler enqueues a follow-up before it commits the job. A call that runs first
  finds no job and is over, and nothing enqueues it again: the sequence stays where it
  is. Early calls are in `followups`, whose properties say what does not happen;
  `followups_end` has none, since `SequenceEnds` fails with them.
- A recipient whose step failed keeps the campaign SENDING for ever. Hence
  `HeldByFailure` in `SequenceEnds`.
- Recipients beyond the combined daily limit of a pool get no sender
  (`application/campaigns.py:206`). The task sends them as the campaign's sender, but
  the row keeps no `sender_id`, and `sent_count_today` counts by it: these mails use up
  nobody's day, and a sender may send more than its daily limit. `DayOvershoot` is
  about the mails that are counted, `PoolUsedUp` says how many are not.
- The error rate looks at the jobs *created* in the last hour
  (`adapters/db/repositories.py:548`). In a campaign that is older than that no error
  is counted, and its sender is never slowed down.
- Concurrent refusals count as one, and a cooldown can be lost or erased.
- `increment` writes the sum it has computed. A task that read the counter, and
  waits while others count two mails, takes it back when it commits; then the
  check of the minute passes again, and a task that still holds a higher count may
  write that on top: no bound of this kind holds. Hence the exception `set_back` in
  `CounterOvershoot`. It takes a limit of three a minute; the run `throttle` has
  lower ones and no such commit, and the theorem speaks of every counter that nobody
  has set back and of every hour without such a counter. The limit of a day counts
  SENT rows and needs no exception.

Two disagreements are not behaviours of a model. `src/docs/architecture.md:134` says
arq retries "on transient failures", but the task lets ordinary exceptions out and
arq retries only on `Retry` and on a cancelled job. And the stale sweep of
`architecture.md:131` has nothing to find, which is proved as `NeverCommittedSending`.

## 4. Proofs

All theorems hold for every value of the constants that satisfies the named
assumptions of the modules: sets of sessions are disjoint, tasks are finitely many,
`None` is no status, faults and outcomes are those listed, bounds are natural
numbers. Those with a hypothesis of their own are marked.

| Theorem | Module | States |
|---|---|---|
| `TypeCorrect` | `Delivery_proofs` | `TypeOK` |
| `ClaimsCorrect` | `Delivery_proofs` | `ClaimInvariant` |
| `NeverCommittedSending` | `Delivery_proofs` | `SendingNeverCommitted` |
| `SendsAccounted` | `Delivery_proofs` | `EverySendAccounted` |
| `NothingReverted` (a) | `Delivery_proofs` | no job leaves a terminal status |
| `SentAgainHolds` (a, b) | `Delivery_proofs` | a job is mailed at most once more than processes have died |
| `NoDoubleSendHolds` (a, b) | `Delivery_proofs` | `NoDoubleSend` |
| `EndingCorrect` | `Lifecycle_proofs` | `EndingInvariant` |
| `EndedIsDrained` | `Lifecycle_proofs` | `EndedDrained` |
| `CancelStops` | `Lifecycle_proofs` | `CancelStopsSending` |
| `LifecycleInvariantHolds` | `Lifecycle_proofs` | `LifecycleInvariant` |
| `FollowsLifecycleUnlessReverted`, `FollowsLifecycleHolds` (a) | `Lifecycle_proofs` | `FollowsLifecycle`: `Delivery` implements `CampaignLifecycle` |
| `PauseInvariantHolds` (a), `AutoResumeLeavesUserPausesHolds` (a) | `Lifecycle_proofs` | `AutoResumeLeavesUserPauses` |
| `TriesLeftHolds`, `AttentionHolds` (c), `NoStrandedHolds` (c) | `Lifecycle_proofs` | `NoStranded` |
| `FollowUpsTyped` | `FollowUps_proofs` | `TypeOK` |
| `HeldHolds` | `FollowUps_proofs` | what the holders of jobs and of the campaign know; a resume knows no more than its listing |
| `CancelledIsOverHolds`, `CancelStopsSequenceHolds` | `FollowUps_proofs` | `CancelledIsOver`, `CancelStopsSequence` |
| `RowFollowsJobsHolds` (d) | `FollowUps_proofs` | `RowFollowsJobs` |
| `CompletedIsOverHolds` (d) | `FollowUps_proofs` | `CompletedIsOver` |
| `StepsInOrderHolds` (d) | `FollowUps_proofs` | `StepsInOrder`: `FollowUps` implements `InOrder` |
| `ThrottleInvariantHolds`, `ThrottleTyped` | `Throttle_proofs` | `ThrottleInvariant`, `TypeOK` |
| `HourInvariantHolds`, `CounterOvershootHolds` | `Throttle_proofs` | `CounterOvershoot`: minutes, hours and the campaign's own limit |
| `DayOvershootHolds`, `WokenCanSendHolds` | `Throttle_proofs` | `DayOvershoot`, `WokenCanSend` |
| `TypeCorrect`, `LimitsKept`, `NobodyIsLeftOut` | `Rotation_proofs` | `TypeOK`, `LimitsRespected`, `NobodyLeftOut` |
| `RoundsHold`, `BalancedHolds` | `Rotation_proofs` | `Balanced` |
| `InTurnHolds`, `ShortCutHolds` | `Rotation_proofs` | `ShortCutAgrees` |
| `PlanRotates` | `Rotation_proofs` | `PlanSpec => Spec`: the plan of a campaign is a behaviour of the rotation |
| `PlanApart`, `PlanKeepsDelay`, `PlanKeepsPace` | `Rotation_proofs` | `DelayKept`, `PlannedPace` |
| `RowsGivenHolds`, `PlanKeepsSenderPace` | `Rotation_proofs` | `SenderPace` |
| `RoomLeftHolds`, `PoolUsedUpHolds` | `Rotation_proofs` | `PoolUsedUp` |
| `RowsInvariantHolds`, `AccountsTyped` | `Accounts_proofs` | `RowsInvariant`, `TypeOK` |
| `VerifiedIsReadyHolds`, `WarmupInsertSafeHolds`, `UserHasSenderHolds` | `Accounts_proofs` | `VerifiedIsReady`, `WarmupInsertSafe`, `UserHasSender` |
| `TokensInvariantHolds`, `SessionSurvivesHolds` | `Accounts_proofs` | `SessionSurvives` |
| `AuthSurvives` | `Accounts_proofs` | the composition keeps the specifications of both halves |

The hypotheses are the conditions under which the code keeps the promise; the
counterexamples of section 3 are what happens without them.

- (a) `ApiOps \cap {"resume", "star"} = {}`: these two requests write listed jobs
  back (`double_send`). All faults, auto-resume and exhaustion are allowed. Run
  `resumed` has such an instance.
- (b) `Faults = {}` for `NoDoubleSend`: a fault after the SMTP call loses the record,
  and the mail is sent again by design. `SentAgainHolds` allows deaths of the worker
  and the API (`Faults \subseteq {"crash"}`) and counts what they cost.
- (c) `Undisturbed`: (a), no fault but deaths of processes, fewer of them than a call
  has tries (`MaxCrashes < MaxTries`; arq is given three), no exhausted sender and no
  auto-resume (`exhausted_scheduled`, and calls dropped before a commit); and, as a
  condition on the behaviour, `[][LoopSpared]_vars`: the API does not die in the loop
  that enqueues what it has just committed, where the calls left would be lost. Without
  deaths this holds by itself, which is the instance of run `finishes`.
- (d) `Campaigned`, `SequenceOps \subseteq CampaignOps`: the requests are about the
  campaign. Requests about recipients write back stale rows; with them the step of a
  recipient goes back and all three statements fail. Crashes, lock failures, early
  calls and the write-backs of `resume` are allowed; the statements themselves name the
  recipients these have touched. Run `followups`.

`ReadCommitted_proofs` and the first part of `Delivery_proofs` hold the lemmas:
what `Put`, `Publish` and `Discard` do to a table, and that the operations of the
store keep its type.

### The argument

**Claims.** `SendingNeverCommitted` is not inductive: a commit publishes what
a session wrote, so one has to know what sessions hold. `ClaimInvariant` says it: a
task holds only its own job's row, which everybody else sees as PENDING; a request
holds rows it cancelled, or rows it put back as PENDING or as they were; a row
reads SENDING only under the claim of a task that has not reached its outcome. A
commit therefore publishes SENT, FAILED, PENDING or CANCELLED and never SENDING.
`SendsAccounted` uses the same invariant: only the holder of the claim sends, so
when `sends` grows the job had no record yet, and the record appears in the
same transaction; a crash or a failed statement moves it to `orphaned`, and a
resume that writes a sent job back does so as well. Without faults and without
write-backs nothing is ever orphaned, and one record is one mail: `NoDoubleSend`.
The history variables `sends`, `orphaned` and `reverted` read nothing back into the
model.

**The end of a campaign.** A task counts live jobs, and writes COMPLETED a statement
later; `EndingInvariant` says what is still true then. Whoever is about to end a
campaign sees every job of it as over (a cancel: every job it has passed), and what
is over stays over for everyone (`JobsStable`), because only a write-back takes a
job out of a terminal status. Nobody creates jobs for a campaign that exists. The
proofs go session by session: what one has made sure of survives the others' steps
(`OthersStay`), so each action is about the session that takes it.

**The state machine.** The conditional UPDATE of a task names the status it read,
not one that allows the target. `LifecycleInvariant` relates the two: the status
read allows the write, and the UPDATE succeeds only if it is still there. A claimed
job of an ended campaign can only be one that was written back, hence the
condition. `PauseInvariant` adds that nobody but auto-resume takes a campaign out of
PAUSED without ending it, so what auto-resume has listed is still paused for
exhausted senders, or has been cancelled, when its turn comes.
`NoStranded` is not inductive: a call in the queue may be about to be dropped.
`AttentionInvariant` counts only those who will not drop it. A worker that dies gives
back the calls it was running with one try more; `TriesLeft` says that no call has been
tried oftener than that, so none of them is at its last.

**Sequences.** `MailHeld` says what the holder of a job row is doing with it: a task
or a cancel has taken a waiting job, a run holds what it has inserted, a resume may
hold any job there is, with a stale PENDING.
`CancelInvariant` says that a cancel has found, still lists, or has taken every waiting
job but those committed too late. Until a resume commits, nobody else sees what it has
overwritten; from then on its recipients are in `Rewritten`, so the rest is stated of
what is committed, for the others (`Kept`). Of their rows and jobs: all jobs before the
recipient's step are SENT, its own exists, none beyond it does (`RowFits`); a run
that has advanced the row holds the job it inserted with it (`RunHoldsRow`,
`NewJobHeld`); a stale listing was true when it was made, and a sent step stays sent
(`ListedFits`), so `advance_step`, whose WHERE names the step, can only be one step.
`CompletionInvariant` says what the one who completes the campaign has seen;
`MailedInvariant` relates the history `mailed` to the step, which makes each
accepted mail a step `Mail` of `InOrder`, every crash its `LoseRecord` and every commit
of a resume its `TakeBack`. `EarlierMailed` needs no exception: nobody has a job for a
step without having been mailed the one before.

**Throttling.** A limit is checked long before it is used up. `MinuteBound` therefore
counts what is written *and* the tasks that may still write it (`MayCount`): a check
that passes shows fewer than the limit, and all tasks together add fewer than there
are tasks. `DayBound` does the same with the SENT rows and
the lower of the limit and the warm-up's for that day, which stays the same all day. A
counter that was set back is excepted, as explained above. `HourBound` sums the counters of an hour for the
sender's limit and the campaign's own: a commit changes one counter of the sum by one
at most and takes its task from `MayCountHour`. A task may
look in one hour and count in the next, which is why `MayCountHour` has it in every
hour that is not over; in an hour ahead nothing is counted yet (`HourAhead`).

**Sums.** What a fold over a set is has to be proved by induction over the set, and
the induction theorems of the library take an operator. `SumTheorems` goes round that:
sets are compared by size, and among the subsets for which a claim fails one has the
least size (`LeastOf`). That the fold is defined at all (`SumsExist`) and that its
value does not depend on the order in which CHOOSE takes the members (`AddsAlike`) are
proved in this way; `SumChanges` is what the invariants use.

**Rotation and plan.** `NobodyIsLeftOut` rests on the arithmetic of the cursor: the
candidates of one round, `(cursor + attempt) % N`, are all of the pool
(`RoundReachesAll`). `PoolUsedUp` is not inductive: `RoomLeft` says that the room
left in the pool and the recipients given make up the limits of the pool at every
turn of the loop; it is all used when somebody is left out, and never negative.
`Balanced` follows from `Rounds`: senders with room have had as many turns as the
cursor has come round, but for one. `PlanRotates` carries the results over to
`CampaignPlan`. `DelayKept` is strengthened to the offsets computed so far
(`OffsetsApart`): an offset is its predecessor and a gap, and no gap is shorter than
`Least`, whichever random number was drawn (`GapsLong`). So the mails of an hour are
among the `Squeezed(...)` that follow its first, and of those the rotation gives a
sender every `N`th.

**Accounts.** `VerifiedIsReady` and `WarmupInsertSafe` are not inductive either:
`verify` writes the sender and its schedule in separate statements and decides by
what it read before it asked the SMTP server. `RowsInvariant` says why that is
harmless: a request that has written a sender holds its row until it commits, only
the holder of that row writes the schedule, a sender seen as verified stays verified,
and a row written as verified is committed only with its schedule. The lemma `Others`
reduces every step to the one request that takes it. For the tokens,
`TokensInvariant` says that the row a refresh revokes is held until its replacement
is committed with it, and that the replacement does not expire earlier; no clean-up
and no second refresh comes in between.

Every inductive invariant was model-checked before it was proved.
`ClaimInvariant` and `RowsInvariant` are invariants of the runs `delivery` and
`accounts`. The others were checked apart, on the instances of `delivery` (ending),
`resumed` (state machine and pauses, also with faults), `finishes` (attention, with
three requests and cancel, and with two deaths and three tries), `throttle` (also with
three tasks and with larger limits, where counters are set back), `rotation` (room left), `followups` (all
parts, with refusals and without crashes, and with refusals, a crash and one scheduler
run at a time) and four calls of tokens.

**Model-checked only.** Liveness and everything with ENABLED: `EverySendFinishes`,
`StuckCampaignEnds`, `SequenceEnds`, `EveryRequestEnds`. The order of steps under pause, stop or reply requests about
recipients (`followups_end`), which fall outside (d). Of a follow-up that an early call loses nothing is claimed.

## 5. Not modelled

- Token signing, OAuth verification, cookies: a signed token is taken as valid until
  its row expires (`refresh_token_expires` and `REFRESH_TOKEN_TTL` are both 30 days).
- Templates, tracking, attachments, search, serialization, validation: queries,
  append-only tables, file I/O, text. Two updates of one template overwrite each
  other as `update(entity)` does everywhere; two files of one name saved within a
  millisecond get the same stored name.
- When a job becomes due in `Delivery`: `due` only says that its time has come, and
  never goes back; the planned times are in `CampaignPlan`.
- The reply toggle writes the job back like the star toggle, but only a SENT one,
  whose status no other session changes but through a stale write.
- A request with the same sender twice: the second row of the pool violates the
  unique constraint of `campaign_senders`, and the request fails as a whole.
- The clean-up of rate counters older than any limit looks at.
- `NullEmailQueue` (an API without Redis), which drops every call.
- When the commit of a request runs relative to its answer: FastAPI's doing. Only
  `RefreshTokens` depends on it, and takes the later commit.
- The pool is never empty after `create`, so the branch of `delivery.py:177-181`
  without a pool is unreachable and left out.
- Campaigns of `Delivery` have no sequence steps; `FollowUps` has no throttling and no
  star toggle, and its API does not die. What is proved of its campaign is about
  pause, resume and cancel.

## 6. Plan

Done: the send pipeline with requests, sweeps and faults; follow-ups with the
requests about recipients and about the campaign, and with crashes; throttling;
rotation and schedule composed; accounts; refresh tokens. Every safety invariant
and action property of the passing runs is proved, in full or under the hypotheses
of section 4.

Next, in this order:

1. Weaker hypotheses: `NoStranded` with auto-resume; `StepsInOrder` with one request
   about a recipient at a time; the star toggle among the requests of `FollowUps`.
2. Bounces in `Throttle`, and throttling of sequences.
