------------------------------ MODULE Accounts ------------------------------
(***************************************************************************)
(* How a sender comes to be usable: login (application/auth.py) creates    *)
(* the user with an unverified sender, senders.py adds verified senders    *)
(* and verifies them, and each gets its warm-up schedule.  Every request   *)
(* is one transaction; uniqueness is checked by a SELECT first and         *)
(* enforced by the database last.                                          *)
(***************************************************************************)
EXTENDS ReadCommitted

CONSTANTS
  Users,      \* identities: google_id, or dev-<email>
  Addresses,
  Own,        \* Own[u]: the address identity u logs in with
  Passwords,
  Accepted,   \* the <<address, password>> pairs the SMTP server accepts
  Requests,   \* the requests that will be made
  None

ASSUME OwnAssumption == Own \in [Users -> Addresses]
ASSUME PasswordAssumption == Accepted \subseteq Addresses \X Passwords /\ None \notin Passwords
ASSUME RequestsAssumption == Free \notin Requests

VARIABLES
  users,    \* table of users: does the row exist
  senders,  \* table of senders, by user and address: NoSender if there is none
  warmups,  \* table of warm-up schedules, by the sender's key: does it exist
  req       \* req[q]: a request

tables == <<users, senders, warmups>>
vars == <<tables, req>>

Keys == Users \X Addresses
SenderRows == [exists : BOOLEAN, verified : BOOLEAN, password : Passwords \cup {None}]
NoSender == [exists |-> FALSE, verified |-> FALSE, password |-> None]
Unverified == [exists |-> TRUE, verified |-> FALSE, password |-> None]
Verified(password) == [exists |-> TRUE, verified |-> TRUE, password |-> password]

NewRequest == [pc |-> "new", key |-> None, password |-> None, was_verified |-> FALSE]

Init ==
  /\ users = Committed([u \in Users |-> FALSE])
  /\ senders = Committed([k \in Keys |-> NoSender])
  /\ warmups = Committed([k \in Keys |-> FALSE])
  /\ req = [q \in Requests |-> NewRequest]

At(q, pc) == req[q].pc = pc
Goto(q, pc) == req' = [req EXCEPT ![q].pc = pc]
-----------------------------------------------------------------------------
(***************************************************************************)
(* Login: upsert_google_user.                                              *)
(***************************************************************************)
Login(q, u) ==
  /\ At(q, "new")
  /\ req' = [req EXCEPT ![q] =
       [pc |-> IF View(users, q, u) THEN "commit" ELSE "insert_user",
        key |-> <<u, Own[u]>>, password |-> None, was_verified |-> FALSE]]
  /\ UNCHANGED tables

SameUser_id(u) == {u}  \* mutant: the address is not unique

\* google_id and email are both unique.
SameUser(u) == {v \in Users : Own[v] = Own[u]}

InsertUser(q) ==
  /\ At(q, "insert_user")
  /\ LET u == req[q].key[1] IN
     /\ \A v \in SameUser(u) : ~Locked(users, q, v) /\ ~users.live[v]
     /\ users' = Put(users, q, u, TRUE)
     /\ senders' = Put(senders, q, req[q].key, Unverified)
  /\ Goto(q, "commit")
  /\ UNCHANGED warmups
-----------------------------------------------------------------------------
(***************************************************************************)
(* SenderService.create and verify ask the SMTP server before they touch   *)
(* the sender; what they read earlier is old by then.                      *)
(***************************************************************************)
Ask_swapped(q, k, password, op) ==  \* mutant: the arguments are mixed up
  req' = [req EXCEPT ![q] =
    [pc |-> op, key |-> <<k[2], k[1]>>, password |-> password,
     was_verified |-> senders.live[k].verified]]

Ask(q, k, password, op) ==
  req' = [req EXCEPT ![q] =
    [pc |-> op, key |-> k, password |-> password, was_verified |-> senders.live[k].verified]]

Create(q, k, password) ==
  /\ At(q, "new") /\ users.live[k[1]]
  /\ Ask(q, k, password, "create")
  /\ UNCHANGED tables

Verify(q, k, password) ==
  /\ At(q, "new") /\ senders.live[k].exists
  /\ Ask(q, k, password, "verify")
  /\ UNCHANGED tables

Credentials(q) == <<req[q].key[2], req[q].password>>

SmtpRejects(q) ==
  /\ At(q, "create") \/ At(q, "verify")
  /\ Credentials(q) \notin Accepted
  /\ Goto(q, "refused")
  /\ UNCHANGED tables

\* create looks for a sender with the address only now.
CheckNew(q) ==
  /\ At(q, "create") /\ Credentials(q) \in Accepted
  /\ Goto(q, IF View(senders, q, req[q].key).exists THEN "refused" ELSE "insert_sender")
  /\ UNCHANGED tables

InsertSender(q) ==
  /\ At(q, "insert_sender")
  /\ ~Locked(senders, q, req[q].key) /\ ~senders.live[req[q].key].exists
  /\ senders' = Put(senders, q, req[q].key, Verified(req[q].password))
  /\ Goto(q, "find_warmup")
  /\ UNCHANGED <<users, warmups>>

UpdateSender_unflushed(q) ==  \* mutant: the row is written after the warm-up
  /\ At(q, "verify") /\ Credentials(q) \in Accepted
  /\ Goto(q, IF req[q].was_verified THEN "commit" ELSE "find_warmup")
  /\ UNCHANGED tables

UpdateSender_unasked(q) ==  \* mutant: the server's answer is not looked at
  /\ At(q, "verify")
  /\ ~Locked(senders, q, req[q].key)
  /\ senders' = Put(senders, q, req[q].key, Verified(req[q].password))
  /\ Goto(q, IF req[q].was_verified THEN "commit" ELSE "find_warmup")
  /\ UNCHANGED <<users, warmups>>

UpdateSender_early(q) ==  \* mutant: a verified sender's update is not committed
  /\ At(q, "verify") /\ Credentials(q) \in Accepted
  /\ ~Locked(senders, q, req[q].key)
  /\ senders' = Put(senders, q, req[q].key, Verified(req[q].password))
  /\ Goto(q, IF req[q].was_verified THEN "done" ELSE "find_warmup")
  /\ UNCHANGED <<users, warmups>>

\* verify writes the entity it read before; only a sender that was not verified
\* by then gets a warm-up.
UpdateSender(q) ==
  /\ At(q, "verify") /\ Credentials(q) \in Accepted
  /\ ~Locked(senders, q, req[q].key)
  /\ senders' = Put(senders, q, req[q].key, Verified(req[q].password))
  /\ Goto(q, IF req[q].was_verified THEN "commit" ELSE "find_warmup")
  /\ UNCHANGED <<users, warmups>>

FindWarmup_blind(q) ==  \* mutant: a schedule is inserted without looking
  /\ At(q, "find_warmup")
  /\ Goto(q, "insert_warmup")
  /\ UNCHANGED tables

\* _create_warmup: nothing to do if there is one.
FindWarmup(q) ==
  /\ At(q, "find_warmup")
  /\ Goto(q, IF View(warmups, q, req[q].key) THEN "commit" ELSE "insert_warmup")
  /\ UNCHANGED tables

InsertWarmup(q) ==
  /\ At(q, "insert_warmup")
  /\ ~Locked(warmups, q, req[q].key) /\ ~warmups.live[req[q].key]
  /\ warmups' = Put(warmups, q, req[q].key, TRUE)
  /\ Goto(q, "commit")
  /\ UNCHANGED <<users, senders>>
-----------------------------------------------------------------------------
CommitRequest(q) ==
  /\ At(q, "commit")
  /\ users' = Publish(users, q)
  /\ senders' = Publish(senders, q)
  /\ warmups' = Publish(warmups, q)
  /\ Goto(q, "done")

\* The INSERT of a row that is there already.
Duplicate(q) ==
  \/ At(q, "insert_user") /\ \E v \in SameUser(req[q].key[1]) : users.live[v]
  \/ At(q, "insert_sender") /\ senders.live[req[q].key].exists
  \/ At(q, "insert_warmup") /\ warmups.live[req[q].key]

Rollback(q) ==
  /\ users' = Discard(users, {q})
  /\ senders' = Discard(senders, {q})
  /\ warmups' = Discard(warmups, {q})
  /\ Goto(q, "failed")

InsertFails(q) == Duplicate(q) /\ Rollback(q)

Over(q) == req[q].pc \in {"done", "refused", "failed"}

\* The API process dies.
ApiCrash(q) == ~Over(q) /\ ~At(q, "new") /\ Rollback(q)

RequestStep(q) ==
  \/ InsertUser(q)
  \/ SmtpRejects(q) \/ CheckNew(q) \/ InsertSender(q) \/ UpdateSender(q)
  \/ FindWarmup(q) \/ InsertWarmup(q)
  \/ CommitRequest(q) \/ InsertFails(q)

RequestArrives(q) ==
  \/ \E u \in Users : Login(q, u)
  \/ \E k \in Keys, password \in Passwords : Create(q, k, password) \/ Verify(q, k, password)

Next == \E q \in Requests : RequestArrives(q) \/ RequestStep(q) \/ ApiCrash(q)

Spec == Init /\ [][Next]_vars

\* A request that has arrived is served: the server and the database go on.
FairSpec == Spec /\ \A q \in Requests : WF_vars(RequestStep(q))
-----------------------------------------------------------------------------
Pcs ==
  {"new", "insert_user", "create", "verify", "insert_sender", "find_warmup",
   "insert_warmup", "commit", "done", "refused", "failed"}

RequestRecords ==
  [pc : Pcs, key : Keys \cup {None}, password : Passwords \cup {None},
   was_verified : BOOLEAN]

TypeOK ==
  /\ users \in Tables(Users, BOOLEAN, Requests)
  /\ senders \in Tables(Keys, SenderRows, Requests)
  /\ warmups \in Tables(Keys, BOOLEAN, Requests)
  /\ req \in [Requests -> RequestRecords]

\* A sender that may be used has a password its server accepted, and a warm-up
\* schedule: without one day_limit knows no limit.  They are written by
\* separate statements, of requests that may overlap.
VerifiedIsReady ==
  \A k \in Keys : senders.live[k].verified =>
    <<k[2], senders.live[k].password>> \in Accepted /\ warmups.live[k]

\* The check-then-insert of a schedule never meets the unique constraint, which
\* would undo the verification: whoever looks for one holds the sender's row.
WarmupInsertSafe ==
  \A q \in Requests : At(q, "insert_warmup") =>
    ~Locked(warmups, q, req[q].key) /\ ~warmups.live[req[q].key]

\* Whoever has logged in can send from the address it logged in with, once
\* that is verified, and only one identity has it.
UserHasSender ==
  \A u \in Users : users.live[u] =>
    /\ senders.live[<<u, Own[u]>>].exists
    /\ \A v \in Users : users.live[v] /\ Own[v] = Own[u] => v = u

\* Requests that wait for each other's rows all come to an end.
EveryRequestEnds == \A q \in Requests : ~At(q, "new") ~> Over(q)
=============================================================================
