------------------------------ MODULE Rotation ------------------------------
(***************************************************************************)
(* assign_senders_round_robin (domain/rotation.py), which gives each       *)
(* recipient of a new campaign a sender of the pool, as the loop it is:    *)
(* one step per recipient.                                                 *)
(***************************************************************************)
EXTENDS Naturals, Sequences

CONSTANTS
  Senders,
  MaxPool,    \* bound: size of the pool
  MaxEmails,  \* bound: recipients of a campaign
  MaxLimit,   \* bound: daily_limit of a sender
  NoLimit     \* daily_limit is None

ASSUME BoundsAssumption == MaxPool \in Nat /\ MaxEmails \in Nat /\ MaxLimit \in Nat
ASSUME NoLimitAssumption == NoLimit \notin Nat

VARIABLES
  ordered,      \* the pool, by rotation_order
  limit,        \* limit[s]: daily_limit of sender s
  email_count,  \* recipients to be given a sender
  cursor,       \* where the search for the next sender starts
  assigned,     \* assigned[s]: recipients given to s so far
  result,       \* the senders given so far
  done          \* the loop has ended

input == <<ordered, limit, email_count>>
vars == <<input, cursor, assigned, result, done>>

Pools == UNION {[1..n -> Senders] : n \in 1..MaxPool}
Limits == 0..MaxLimit \cup {NoLimit}

N == Len(ordered)

\* No sender twice: a campaign has a sender at most once (unique constraint).
Init ==
  /\ ordered \in {p \in Pools : \A i, k \in DOMAIN p : p[i] = p[k] => i = k}
  /\ limit \in [Senders -> Limits]
  /\ email_count \in 0..MaxEmails
  /\ cursor = 0
  /\ assigned = [s \in Senders |-> 0]
  /\ result = <<>>
  /\ done = FALSE

\* The candidate of an attempt: attempts 0..N-1 go round the pool once.
Candidate(attempt) == ordered[((cursor + attempt) % N) + 1]

HasRoom_included(s) == limit[s] # NoLimit => assigned[s] <= limit[s]  \* mutant: one more

HasRoom(s) == limit[s] # NoLimit => assigned[s] < limit[s]

Chosen(attempt) ==
  /\ HasRoom(Candidate(attempt))
  /\ \A earlier \in 0..(attempt - 1) : ~HasRoom(Candidate(earlier))

Assign_standing(attempt) ==  \* mutant: the cursor stays on the sender chosen
  /\ ~done /\ Len(result) < email_count
  /\ Chosen(attempt)
  /\ assigned' = [assigned EXCEPT ![Candidate(attempt)] = @ + 1]
  /\ result' = Append(result, Candidate(attempt))
  /\ cursor' = (cursor + attempt) % N
  /\ UNCHANGED <<input, done>>

Assign_running(attempt) ==  \* mutant: the cursor does not wrap around
  /\ ~done /\ Len(result) < email_count
  /\ Chosen(attempt)
  /\ assigned' = [assigned EXCEPT ![Candidate(attempt)] = @ + 1]
  /\ result' = Append(result, Candidate(attempt))
  /\ cursor' = cursor + attempt + 1
  /\ UNCHANGED <<input, done>>

Assign(attempt) ==
  /\ ~done /\ Len(result) < email_count
  /\ Chosen(attempt)
  /\ assigned' = [assigned EXCEPT ![Candidate(attempt)] = @ + 1]
  /\ result' = Append(result, Candidate(attempt))
  /\ cursor' = (cursor + attempt + 1) % N
  /\ UNCHANGED <<input, done>>

Stop_early ==  \* mutant: gives up at the first sender that is full
  /\ ~done
  /\ Len(result) = email_count \/ ~HasRoom(Candidate(0))
  /\ done' = TRUE
  /\ UNCHANGED <<input, cursor, assigned, result>>

\* Every recipient has a sender, or no sender has room.
Stop ==
  /\ ~done
  /\ Len(result) = email_count \/ \A attempt \in 0..(N - 1) : ~HasRoom(Candidate(attempt))
  /\ done' = TRUE
  /\ UNCHANGED <<input, cursor, assigned, result>>

Next == Stop \/ \E attempt \in 0..(N - 1) : Assign(attempt)

Spec == Init /\ [][Next]_vars
-----------------------------------------------------------------------------
InPool == {ordered[i] : i \in 1..N}

TypeOK ==
  /\ N \in 1..MaxPool /\ \A i \in 1..N : ordered[i] \in Senders
  /\ limit \in [Senders -> Limits]
  /\ email_count \in 0..MaxEmails
  /\ cursor \in 0..(N - 1)
  /\ assigned \in [Senders -> Nat]
  /\ result \in Seq(Senders) /\ Len(result) <= email_count
  /\ done \in BOOLEAN

\* No sender is given more recipients than its daily limit.
LimitsRespected == \A s \in Senders : limit[s] # NoLimit => assigned[s] <= limit[s]

\* Senders that still have room have been treated alike.
Balanced ==
  \A s, t \in InPool : HasRoom(s) /\ HasRoom(t) => assigned[s] <= assigned[t] + 1

\* A recipient is left without a sender only when every sender is full.
NobodyLeftOut == done /\ Len(result) < email_count => \A s \in InPool : ~HasRoom(s)

\* Without limits the function takes a short cut: index modulo pool size.  The
\* loop would have given the same senders.
ShortCutAgrees ==
  (\A s \in InPool : limit[s] = NoLimit) =>
    \A i \in 1..Len(result) : result[i] = ordered[((i - 1) % N) + 1]
=============================================================================
