------------------------ MODULE ReadCommitted_proofs ------------------------
(***************************************************************************)
(* What a write, a commit and a rollback do to a table, row by row: the    *)
(* facts the proofs about the pipeline use instead of the definitions.     *)
(***************************************************************************)
EXTENDS ReadCommitted, TLAPS

\* A write changes the written row and its lock only, and stays in the table's
\* type.
LEMMA PutRow ==
  ASSUME NEW K, NEW R, NEW S, NEW t \in Tables(K, R, S),
         NEW s \in S, NEW k \in K, NEW row \in R
  PROVE  /\ Put(t, s, k, row) \in Tables(K, R, S)
         /\ Put(t, s, k, row).live = t.live
         /\ Put(t, s, k, row).next = [t.next EXCEPT ![k] = row]
         /\ Put(t, s, k, row).lock = [t.lock EXCEPT ![k] = s]
  BY DEF Tables, Put

\* A row is read as one of the table's rows.
LEMMA ViewRow ==
  ASSUME NEW K, NEW R, NEW S, NEW t \in Tables(K, R, S), NEW s, NEW k \in K
  PROVE  View(t, s, k) \in R
  BY DEF Tables, View

\* Ending sessions frees their locks and no others.
LEMMA UnlockedRow ==
  ASSUME NEW K, NEW R, NEW S, NEW t \in Tables(K, R, S), NEW E
  PROVE  /\ Unlocked(t, E) \in [K -> S \cup {Free}]
         /\ \A k \in K : Unlocked(t, E)[k] = IF t.lock[k] \in E THEN Free ELSE t.lock[k]
  BY DEF Tables, Unlocked

\* A commit shows the session's rows to everybody and leaves the other rows.
LEMMA PublishRow ==
  ASSUME NEW K, NEW R, NEW S, NEW t \in Tables(K, R, S), NEW s
  PROVE  /\ Publish(t, s) \in Tables(K, R, S)
         /\ Publish(t, s).next = t.next
         /\ \A k \in K :
              /\ Publish(t, s).live[k] = IF t.lock[k] = s THEN t.next[k] ELSE t.live[k]
              /\ Publish(t, s).lock[k] = IF t.lock[k] = s THEN Free ELSE t.lock[k]
<1>1. Unlocked(t, {s}) \in [K -> S \cup {Free}]
  BY UnlockedRow
<1>2. [k \in DOMAIN t.live |-> View(t, s, k)] \in [K -> R]
  BY DEF Tables, View
<1>3. Publish(t, s) \in Tables(K, R, S)
  BY <1>1, <1>2 DEF Tables, Publish
<1>4. \A k \in K : Publish(t, s).lock[k] = IF t.lock[k] = s THEN Free ELSE t.lock[k]
  BY UnlockedRow DEF Publish
<1> QED
  BY <1>3, <1>4 DEF Tables, Publish, View

\* A rollback forgets what the sessions wrote and leaves the other rows.
LEMMA DiscardRow ==
  ASSUME NEW K, NEW R, NEW S, NEW t \in Tables(K, R, S), NEW E
  PROVE  /\ Discard(t, E) \in Tables(K, R, S)
         /\ Discard(t, E).live = t.live
         /\ \A k \in K :
              /\ Discard(t, E).next[k] = IF t.lock[k] \in E THEN t.live[k] ELSE t.next[k]
              /\ Discard(t, E).lock[k] = IF t.lock[k] \in E THEN Free ELSE t.lock[k]
<1>1. Unlocked(t, E) \in [K -> S \cup {Free}]
  BY UnlockedRow
<1>2. [k \in DOMAIN t.next |-> IF t.lock[k] \in E THEN t.live[k] ELSE t.next[k]] \in [K -> R]
  BY DEF Tables
<1>3. Discard(t, E) \in Tables(K, R, S)
  BY <1>1, <1>2 DEF Tables, Discard
<1>4. \A k \in K : Discard(t, E).lock[k] = IF t.lock[k] \in E THEN Free ELSE t.lock[k]
  BY UnlockedRow DEF Discard
<1> QED
  BY <1>3, <1>4 DEF Tables, Discard
=============================================================================
