-------------------------- MODULE AccountsInvariant --------------------------
(***************************************************************************)
(* The inductive invariant behind VerifiedIsReady, WarmupInsertSafe and    *)
(* UserHasSender: what a request knows at each of its statements, and what *)
(* it must still write before it commits the rows it holds.                *)
(***************************************************************************)
EXTENDS Accounts

\* The requests that have read a user or a sender of a user that is there.
Served == {"create", "verify", "insert_sender", "find_warmup", "insert_warmup"}

\* What a request has learned by the statement it is at, and still holds of the
\* tables although others have committed since.
RequestKnows(q) ==
  LET k == req[q].key IN
  ~At(q, "new") =>
    /\ k \in Keys
    /\ req[q].pc \in Served => users.live[k[1]]
    /\ At(q, "insert_user") => k[2] = Own[k[1]]
    /\ At(q, "insert_sender") => Credentials(q) \in Accepted
    /\ req[q].was_verified => senders.live[k].verified
    /\ req[q].pc \in {"find_warmup", "insert_warmup"} =>
         senders.lock[k] = q /\ senders.next[k].verified
    /\ At(q, "insert_warmup") => ~warmups.live[k]

\* A verified row has an accepted password.
Usable(k, row) == row.verified => row.exists /\ <<k[2], row.password>> \in Accepted

\* A sender's row is written for a user that exists or is written with it, never
\* loses its verification, and is not committed verified without a schedule.
SenderHeld(k, q) ==
  senders.lock[k] = q =>
    /\ req[q].pc \in {"find_warmup", "insert_warmup", "commit"} /\ req[q].key = k
    /\ users.live[k[1]] \/ users.lock[k[1]] = q
    /\ senders.next[k].exists /\ Usable(k, senders.next[k])
    /\ senders.live[k].verified => senders.next[k].verified
    /\ At(q, "commit") /\ senders.next[k].verified => warmups.live[k] \/ warmups.lock[k] = q

\* A schedule is written by the request that holds the sender's row.
WarmupHeld(k, q) ==
  warmups.lock[k] = q => At(q, "commit") /\ warmups.next[k] /\ senders.lock[k] = q

\* A user is written with its own sender.
UserHeld(u, q) ==
  users.lock[u] = q =>
    At(q, "commit") /\ users.next[u] /\ senders.lock[<<u, Own[u]>>] = q

RequestInv(q) ==
  /\ RequestKnows(q)
  /\ \A k \in Keys : SenderHeld(k, q) /\ WarmupHeld(k, q)
  /\ \A u \in Users : UserHeld(u, q)

\* A committed sender has its user, and is ready if it is verified.
SenderStands(k) ==
  /\ senders.live[k].exists => users.live[k[1]]
  /\ Usable(k, senders.live[k])
  /\ senders.live[k].verified => warmups.live[k]

Taken(u) == users.live[u] \/ users.lock[u] # Free

\* Who has an address holds it alone, written or committed.
UserStands(u) ==
  /\ users.live[u] => senders.live[<<u, Own[u]>>].exists
  /\ \A v \in Users : Taken(u) /\ Taken(v) /\ Own[u] = Own[v] => u = v

\* Rows are held in the order user, sender, schedule, and a sender's row is held
\* from its verification until its schedule is there to be committed with it:
\* the locks of auth.py and senders.py as one invariant.
RowsInvariant ==
  /\ \A q \in Requests : RequestInv(q)
  /\ \A k \in Keys : SenderStands(k)
  /\ \A u \in Users : UserStands(u)
=============================================================================
