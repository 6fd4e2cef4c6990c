------------------------------ MODULE InOrder ------------------------------
(***************************************************************************)
(* What a follow-up sequence promises a recipient: the steps arrive in     *)
(* order, and none of them twice.  Once the record of a mail may have been *)
(* lost, the step whose turn it was may arrive again, and still no other.  *)
(* Once a record was rewritten, the recipient may get old steps again, but *)
(* never one without the step before it.                                   *)
(***************************************************************************)
EXTENDS Naturals, Sequences

CONSTANTS Recipients, LastStep

VARIABLES
  mailed,    \* mailed[r]: the steps that were mailed to r, in that order
  lossy,     \* a record may have been lost
  rewritten  \* the recipients a record of whom was taken back

Init == mailed = [r \in Recipients |-> <<>>] /\ lossy = FALSE /\ rewritten = {}

\* Step n can follow what r was mailed so far.
Follows(r, n) ==
  LET m == mailed[r]
      last == m[Len(m)]
  IN \/ n = 0 /\ (m = <<>> \/ r \in rewritten)
     \/ m # <<>> /\ (n = last + 1 \/ (lossy /\ n = last))
     \/ r \in rewritten /\ \E i \in 1..Len(m) : n = m[i] + 1

Mail(r) ==
  /\ \E n \in 0..LastStep : Follows(r, n) /\ mailed' = [mailed EXCEPT ![r] = Append(@, n)]
  /\ UNCHANGED <<lossy, rewritten>>

LoseRecord == lossy' = TRUE /\ UNCHANGED <<mailed, rewritten>>

TakeBack ==
  \E R \in SUBSET Recipients : rewritten' = rewritten \cup R /\ UNCHANGED <<mailed, lossy>>

Spec ==
  Init /\ [][LoseRecord \/ TakeBack \/ \E r \in Recipients : Mail(r)]_<<mailed, lossy, rewritten>>
=============================================================================
