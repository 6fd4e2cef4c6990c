--------------------------- MODULE ReadCommitted ---------------------------
(***************************************************************************)
(* The database as the repositories use it: one transaction per session    *)
(* (async_sessionmaker in adapters/db/session.py), isolation READ          *)
(* COMMITTED.  A statement sees what is committed and what its own         *)
(* session wrote; a write locks its row until the session commits or rolls *)
(* back, and waits while another session holds the row.                    *)
(*                                                                         *)
(* A table is a record of three functions on its keys: the committed row,  *)
(* the row as last written, and the session that wrote it.                 *)
(***************************************************************************)

\* The lock of a row no open transaction has written.
Free == "free"

\* All tables over keys K, rows R and sessions S.
Tables(K, R, S) ==
  [live : [K -> R], next : [K -> R], lock : [K -> S \cup {Free}]]

\* A table whose rows are all committed.
Committed(f) == [live |-> f, next |-> f, lock |-> [k \in DOMAIN f |-> Free]]

\* The row k as a statement of session s reads it.
View(t, s, k) == IF t.lock[k] = s THEN t.next[k] ELSE t.live[k]

\* The other session that has written row k and is still open, if there is one.
Holder(t, s, k) == {t.lock[k]} \ {s, Free}

Locked(t, s, k) == t.lock[k] \notin {s, Free}

\* Session s writes row k.
Put(t, s, k, row) ==
  [live |-> t.live,
   next |-> [t.next EXCEPT ![k] = row],
   lock |-> [t.lock EXCEPT ![k] = s]]

\* Session s writes the rows K with one statement.
PutAll(t, s, K, row) ==
  [live |-> t.live,
   next |-> [k \in DOMAIN t.next |-> IF k \in K THEN row ELSE t.next[k]],
   lock |-> [k \in DOMAIN t.lock |-> IF k \in K THEN s ELSE t.lock[k]]]

\* update(entity) of a repository reads the row, base, and writes the columns in
\* which the entity, new, differs from it; row is what the UPDATE finds.
Changed(row, base, new) ==
  [column \in DOMAIN row |->
     IF new[column] # base[column] THEN new[column] ELSE row[column]]

\* The locks of t once the sessions S have ended.
Unlocked(t, S) ==
  [k \in DOMAIN t.lock |-> IF t.lock[k] \in S THEN Free ELSE t.lock[k]]

\* Session s commits: what it wrote becomes visible.
Publish(t, s) ==
  [live |-> [k \in DOMAIN t.live |-> View(t, s, k)],
   next |-> t.next,
   lock |-> Unlocked(t, {s})]

\* The sessions S close without a commit: what they wrote is discarded.
Discard(t, S) ==
  [live |-> t.live,
   next |-> [k \in DOMAIN t.next |->
               IF t.lock[k] \in S THEN t.live[k] ELSE t.next[k]],
   lock |-> Unlocked(t, S)]

\* A row no session holds reads the same from everywhere.
Settled(t) == \A k \in DOMAIN t.lock : t.lock[k] = Free => t.next[k] = t.live[k]
=============================================================================
