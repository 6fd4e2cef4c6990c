--------------------------- MODULE Accounts_proofs ---------------------------
(***************************************************************************)
(* Theorems about login and sender setup, for every set of users,          *)
(* addresses, passwords and requests, and about the refresh tokens, for    *)
(* every set of calls and every life of a token; and for every crash.      *)
(***************************************************************************)
EXTENDS Authentication, ReadCommitted_proofs

\* The invariant of this module: types, and what the requests know and hold.
Inv == TypeOK /\ RowsInvariant

\* A key is a user and an address.
LEMMA KeyParts ==
  /\ \A k \in Keys : k[1] \in Users /\ k[2] \in Addresses /\ k = <<k[1], k[2]>>
  /\ \A u \in Users : <<u, Own[u]>> \in Keys
  BY OwnAssumption DEF Keys

\* The rows that requests write are rows of senders.
LEMMA RowTypes ==
  /\ NoSender \in SenderRows /\ Unverified \in SenderRows
  /\ \A password \in Passwords \cup {None} : Verified(password) \in SenderRows
  BY DEF NoSender, Unverified, Verified, SenderRows

\* What the statements of the other requests rely on.
LEMMA TypeFacts ==
  ASSUME TypeOK
  PROVE  /\ users.live \in [Users -> BOOLEAN] /\ users.next \in [Users -> BOOLEAN]
         /\ users.lock \in [Users -> Requests \cup {Free}]
         /\ senders.live \in [Keys -> SenderRows] /\ senders.next \in [Keys -> SenderRows]
         /\ senders.lock \in [Keys -> Requests \cup {Free}]
         /\ warmups.live \in [Keys -> BOOLEAN] /\ warmups.next \in [Keys -> BOOLEAN]
         /\ warmups.lock \in [Keys -> Requests \cup {Free}]
  BY DEF TypeOK, Tables

\* In the beginning nothing is there and nobody holds a row.
LEMMA InitInv == Init => Inv
<1> SUFFICES ASSUME Init PROVE Inv
  OBVIOUS
<1>1. TypeOK
  BY RowTypes DEF Init, TypeOK, Committed, Tables, NewRequest, RequestRecords, Pcs
<1>2. \A q \in Requests : At(q, "new")
  BY DEF Init, At, NewRequest
<1>3. /\ \A u \in Users : users.live[u] = FALSE /\ users.lock[u] = Free
      /\ \A k \in Keys : /\ senders.live[k] = NoSender /\ senders.lock[k] = Free
                         /\ warmups.live[k] = FALSE /\ warmups.lock[k] = Free
  BY DEF Init, Committed
<1>4. \A q \in Requests : RequestInv(q)
  BY <1>2, <1>3, RequestsAssumption
  DEF RequestInv, RequestKnows, SenderHeld, WarmupHeld, UserHeld
<1>5. \A k \in Keys : SenderStands(k)
  BY <1>3 DEF SenderStands, Usable, NoSender
<1>6. \A u \in Users : UserStands(u)
  BY <1>3 DEF UserStands, Taken
<1> QED
  BY <1>1, <1>4, <1>5, <1>6 DEF Inv, RowsInvariant
-----------------------------------------------------------------------------
\* What a request relies on stays as it was while another one works: its own
\* record and rows; and what it has seen committed stays committed.
LEMMA Others ==
  ASSUME Inv, NEW p \in Requests, req'[p] = req[p],
         \A u \in Users :
           /\ users.live[u] => users'.live[u]
           /\ users'.lock[u] = p <=> users.lock[u] = p
           /\ users.lock[u] = p => users'.next[u] = users.next[u],
         \A k \in Keys :
           /\ senders.live[k].verified => senders'.live[k].verified
           /\ senders'.lock[k] = p <=> senders.lock[k] = p
           /\ senders.lock[k] = p => /\ senders'.next[k] = senders.next[k]
                                     /\ senders'.live[k] = senders.live[k]
           /\ warmups.live[k] => warmups'.live[k]
           /\ warmups'.lock[k] = p <=> warmups.lock[k] = p
           /\ warmups.lock[k] = p => warmups'.next[k] = warmups.next[k]
           /\ senders.lock[k] = p /\ warmups'.live[k] => warmups.live[k]
  PROVE  RequestInv(p)'
<1>1. RequestInv(p)
  BY DEF Inv, RowsInvariant
<1>2. RequestKnows(p)'
  <2>1. CASE At(p, "new")
    BY <2>1 DEF RequestKnows, At
  <2>2. CASE ~At(p, "new")
    <3> DEFINE k == req[p].key
    <3>1. RequestKnows(p) /\ k \in Keys /\ k[1] \in Users
      BY <1>1, <2>2, KeyParts DEF RequestInv, RequestKnows
    <3>2. /\ users.live[k[1]] => users'.live[k[1]]
          /\ senders.live[k].verified => senders'.live[k].verified
          /\ senders.lock[k] = p => /\ senders'.lock[k] = p /\ senders'.next[k] = senders.next[k]
                                    /\ warmups'.live[k] => warmups.live[k]
      BY <3>1
    <3>3. At(p, "insert_warmup") => req[p].pc \in {"find_warmup", "insert_warmup"}
      BY DEF At
    <3> QED
      BY <2>2, <3>1, <3>2, <3>3 DEF RequestKnows, At, Credentials
  <2> QED
    BY <2>1, <2>2
<1>3. ASSUME NEW k \in Keys PROVE SenderHeld(k, p)' /\ WarmupHeld(k, p)'
  <2>1. SenderHeld(k, p) /\ WarmupHeld(k, p) /\ k[1] \in Users
    BY <1>1, KeyParts DEF RequestInv
  <2>2. SenderHeld(k, p)'
    BY <2>1 DEF SenderHeld, Usable, At
  <2>3. WarmupHeld(k, p)'
    BY <2>1 DEF WarmupHeld, At
  <2> QED
    BY <2>2, <2>3
<1>4. ASSUME NEW u \in Users PROVE UserHeld(u, p)'
  <2>1. UserHeld(u, p) /\ <<u, Own[u]>> \in Keys
    BY <1>1, KeyParts DEF RequestInv
  <2> QED
    BY <2>1 DEF UserHeld, At
<1> QED
  BY <1>2, <1>3, <1>4 DEF RequestInv

\* The record of one request changes and the rows are as they were: a request that
\* holds a row goes on to its commit, and to the commit itself only once there is
\* a schedule.
LEMMA Reads ==
  ASSUME Inv, NEW q \in Requests, UNCHANGED tables,
         req' \in [Requests -> RequestRecords],
         \A p \in Requests : p # q => req'[p] = req[p],
         \A k \in Keys : senders.lock[k] = q =>
           /\ ~At(q, "commit")
           /\ req'[q].pc \in {"find_warmup", "insert_warmup", "commit"} /\ req'[q].key = k
           /\ req'[q].pc = "commit" => warmups.live[k],
         RequestKnows(q)'
  PROVE  Inv'
<1>1. TypeOK'
  BY DEF Inv, TypeOK, tables
<1>2. \A p \in Requests : p # q => RequestInv(p)'
  BY Others DEF tables
<1>3. ASSUME NEW k \in Keys PROVE SenderHeld(k, q)' /\ WarmupHeld(k, q)'
  <2>1. SenderHeld(k, q) /\ WarmupHeld(k, q)
    BY DEF Inv, RowsInvariant, RequestInv
  <2>2. SenderHeld(k, q)'
    BY <2>1 DEF SenderHeld, Usable, At, tables
  <2>3. WarmupHeld(k, q)'
    BY <2>1 DEF WarmupHeld, At, tables
  <2> QED
    BY <2>2, <2>3
<1>4. ASSUME NEW u \in Users PROVE UserHeld(u, q)'
  <2>1. UserHeld(u, q) /\ <<u, Own[u]>> \in Keys
    BY KeyParts DEF Inv, RowsInvariant, RequestInv
  <2> QED
    BY <2>1 DEF UserHeld, At, tables
<1>5. RequestInv(q)'
  BY <1>3, <1>4 DEF RequestInv
<1>6. \A k \in Keys : SenderStands(k)'
  BY DEF Inv, RowsInvariant, SenderStands, Usable, tables
<1>7. \A u \in Users : UserStands(u)'
  BY DEF Inv, RowsInvariant, UserStands, Taken, tables
<1> QED
  BY <1>1, <1>2, <1>5, <1>6, <1>7 DEF Inv, RowsInvariant

\* A request holds rows only from its first write to its commit.
LEMMA HoldsNothing ==
  ASSUME Inv, NEW q \in Requests, req[q].pc \notin {"find_warmup", "insert_warmup", "commit"}
  PROVE  /\ \A k \in Keys : senders.lock[k] # q /\ warmups.lock[k] # q
         /\ \A u \in Users : users.lock[u] # q
<1>1. RequestInv(q)
  BY DEF Inv, RowsInvariant
<1>2. \A k \in Keys : senders.lock[k] # q
  BY <1>1 DEF RequestInv, SenderHeld
<1>3. \A k \in Keys : warmups.lock[k] # q
  BY <1>1, <1>2 DEF RequestInv, WarmupHeld
<1>4. \A u \in Users : users.lock[u] # q
  BY <1>1, <1>2, KeyParts DEF RequestInv, UserHeld
<1> QED
  BY <1>2, <1>3, <1>4

\* The statements that only read.
LEMMA ReadSteps ==
  ASSUME Inv, NEW q \in Requests,
         RequestArrives(q) \/ SmtpRejects(q) \/ CheckNew(q) \/ FindWarmup(q)
  PROVE  Inv'
<1>a. /\ req \in [Requests -> RequestRecords] /\ RequestKnows(q) /\ TypeOK
      /\ \A k \in Keys : SenderHeld(k, q) /\ SenderStands(k) /\ WarmupHeld(k, q)
  BY DEF Inv, RowsInvariant, RequestInv, TypeOK
<1>b. ASSUME NEW pc \in Pcs, Goto(q, pc)
      PROVE  /\ req' \in [Requests -> RequestRecords]
             /\ \A p \in Requests : p # q => req'[p] = req[p]
             /\ req'[q].pc = pc /\ req'[q].key = req[q].key
             /\ req'[q].password = req[q].password
             /\ req'[q].was_verified = req[q].was_verified
  BY <1>a, <1>b DEF Goto, RequestRecords
<1>1. ASSUME NEW u \in Users, Login(q, u) PROVE Inv'
  <2>1. <<u, Own[u]>> \in Keys /\ At(q, "new") /\ UNCHANGED tables
    BY <1>1, KeyParts DEF Login
  <2>2. /\ req' \in [Requests -> RequestRecords]
        /\ \A p \in Requests : p # q => req'[p] = req[p]
        /\ req'[q].pc \in {"commit", "insert_user"} /\ req'[q].key = <<u, Own[u]>>
        /\ ~req'[q].was_verified
    BY <1>1, <1>a, <2>1 DEF Login, RequestRecords, Pcs
  <2>3. RequestKnows(q)'
    BY <2>1, <2>2 DEF RequestKnows, Served, At
  <2> QED
    BY <2>1, <2>2, <2>3, HoldsNothing, Reads DEF At
<1>2. ASSUME NEW k \in Keys, NEW password \in Passwords, Create(q, k, password) \/ Verify(q, k, password)
      PROVE  Inv'
  <2>1. At(q, "new") /\ UNCHANGED tables /\ users.live[k[1]]
    BY <1>2, <1>a DEF Create, Verify, SenderStands
  <2>2. /\ req' \in [Requests -> RequestRecords]
        /\ \A p \in Requests : p # q => req'[p] = req[p]
        /\ req'[q].pc \in {"create", "verify"} /\ req'[q].key = k
        /\ req'[q].was_verified = senders.live[k].verified
    <3>1. senders.live[k].verified \in BOOLEAN
      BY <1>a, TypeFacts DEF SenderRows
    <3> QED
      BY <1>2, <1>a, <3>1 DEF Create, Verify, Ask, RequestRecords, Pcs
  <2>3. RequestKnows(q)'
    BY <2>1, <2>2 DEF RequestKnows, Served, At, tables
  <2> QED
    BY <2>1, <2>2, <2>3, HoldsNothing, Reads DEF At
<1>3. CASE SmtpRejects(q)
  <2>1. /\ req[q].pc \in {"create", "verify"} /\ req'[q].pc = "refused" /\ UNCHANGED tables
        /\ req' \in [Requests -> RequestRecords]
        /\ \A p \in Requests : p # q => req'[p] = req[p]
        /\ req'[q].key = req[q].key /\ req'[q].was_verified = req[q].was_verified
    BY <1>3, <1>b DEF SmtpRejects, At, Pcs
  <2>2. RequestKnows(q)'
    BY <1>a, <2>1 DEF RequestKnows, Served, At, tables
  <2> QED
    BY <2>1, <2>2, HoldsNothing, Reads DEF At
<1>4. CASE CheckNew(q)
  <2>1. /\ At(q, "create") /\ Credentials(q) \in Accepted
        /\ req'[q].pc \in {"refused", "insert_sender"} /\ UNCHANGED tables
        /\ req' \in [Requests -> RequestRecords]
        /\ \A p \in Requests : p # q => req'[p] = req[p]
        /\ req'[q].key = req[q].key /\ req'[q].was_verified = req[q].was_verified
        /\ req'[q].password = req[q].password
    BY <1>4, <1>b DEF CheckNew, Pcs
  <2>2. RequestKnows(q)'
    BY <1>a, <2>1 DEF RequestKnows, Served, At, Credentials, tables
  <2> QED
    BY <2>1, <2>2, HoldsNothing, Reads DEF At
<1>5. CASE FindWarmup(q)
  <2> DEFINE k == req[q].key
  <2>1. /\ At(q, "find_warmup") /\ UNCHANGED tables
        /\ req'[q].pc = IF View(warmups, q, k) THEN "commit" ELSE "insert_warmup"
        /\ req' \in [Requests -> RequestRecords]
        /\ \A p \in Requests : p # q => req'[p] = req[p]
        /\ req'[q].key = k /\ req'[q].was_verified = req[q].was_verified
    BY <1>5, <1>b DEF FindWarmup, Pcs
  <2>2. k \in Keys /\ users.live[k[1]] /\ senders.lock[k] = q /\ senders.next[k].verified
    BY <1>a, <2>1 DEF RequestKnows, Served, At
  <2>3. View(warmups, q, k) = warmups.live[k]
    BY <1>a, <2>1, <2>2 DEF View, WarmupHeld, At
  <2>4. RequestKnows(q)'
    BY <1>a, <2>1, <2>2, <2>3 DEF RequestKnows, Served, At, tables
  <2>5. \A x \in Keys : senders.lock[x] = q => x = k
    BY <1>a DEF SenderHeld
  <2> QED
    BY <2>1, <2>2, <2>3, <2>4, <2>5, Reads DEF At
<1> QED
  BY <1>1, <1>2, <1>3, <1>4, <1>5 DEF RequestArrives
-----------------------------------------------------------------------------
\* What a request does to its own record in a statement that moves it on.
LEMMA Moves ==
  ASSUME TypeOK, NEW q \in Requests, NEW pc \in Pcs, Goto(q, pc)
  PROVE  /\ req' \in [Requests -> RequestRecords]
         /\ \A p \in Requests : p # q => req'[p] = req[p]
         /\ req'[q].pc = pc /\ req'[q].key = req[q].key
         /\ req'[q].password = req[q].password
         /\ req'[q].was_verified = req[q].was_verified
  BY DEF Goto, TypeOK, RequestRecords

\* A row written, and what it leaves alone.
LEMMA RowPut ==
  ASSUME NEW K, NEW R, NEW t \in Tables(K, R, Requests),
         NEW q \in Requests, NEW k \in K, NEW row \in R
  PROVE  /\ Put(t, q, k, row) \in Tables(K, R, Requests)
         /\ Put(t, q, k, row).live = t.live
         /\ Put(t, q, k, row).next[k] = row /\ Put(t, q, k, row).lock[k] = q
         /\ \A x \in K : x # k => /\ Put(t, q, k, row).next[x] = t.next[x]
                                  /\ Put(t, q, k, row).lock[x] = t.lock[x]
<1>1. t.next \in [K -> R] /\ t.lock \in [K -> Requests \cup {Free}]
  BY DEF Tables
<1>2. /\ Put(t, q, k, row) \in Tables(K, R, Requests)
      /\ Put(t, q, k, row).live = t.live
      /\ Put(t, q, k, row).next = [t.next EXCEPT ![k] = row]
      /\ Put(t, q, k, row).lock = [t.lock EXCEPT ![k] = q]
  BY PutRow
<1> QED
  BY <1>1, <1>2

\* A new user comes with its sender: nobody else has the address, or a row of it.
LEMMA UserInserted ==
  ASSUME Inv, NEW q \in Requests, InsertUser(q)
  PROVE  Inv'
<1>1. /\ TypeOK /\ RequestKnows(q)
      /\ \A x \in Keys : SenderStands(x)
      /\ \A v \in Users : UserStands(v)
      /\ \A p \in Requests, x \in Keys : SenderHeld(x, p)
  BY DEF Inv, RowsInvariant, RequestInv
<1>k. PICK k \in Keys : k = req[q].key
  BY <1>1 DEF InsertUser, RequestKnows, At
<1>u. PICK u \in Users : u = k[1]
  BY KeyParts
<1>2. k = <<u, Own[u]>> /\ req[q].pc = "insert_user"
  BY <1>1, <1>k, <1>u, KeyParts DEF InsertUser, RequestKnows, At
<1>3. /\ \A x \in Keys : senders.lock[x] # q /\ warmups.lock[x] # q
      /\ \A v \in Users : users.lock[v] # q
  BY <1>2, HoldsNothing
<1>4. \A v \in Users : Own[v] = Own[u] => users.lock[v] = Free /\ ~users.live[v]
  BY <1>3, <1>k, <1>u DEF InsertUser, SameUser, Locked
<1>5. /\ users' = Put(users, q, u, TRUE) /\ senders' = Put(senders, q, k, Unverified)
      /\ warmups' = warmups
  BY <1>k, <1>u DEF InsertUser
<1>6. /\ req' \in [Requests -> RequestRecords]
      /\ \A p \in Requests : p # q => req'[p] = req[p]
      /\ req'[q].pc = "commit" /\ req'[q].key = k
      /\ req'[q].was_verified = req[q].was_verified
  BY <1>1, <1>k, Moves DEF InsertUser, Pcs
<1>a. users \in Tables(Users, BOOLEAN, Requests) /\ senders \in Tables(Keys, SenderRows, Requests)
  BY <1>1 DEF TypeOK
<1>7. /\ users' \in Tables(Users, BOOLEAN, Requests) /\ users'.live = users.live
      /\ users'.next[u] = TRUE /\ users'.lock[u] = q
      /\ \A v \in Users : v # u => users'.next[v] = users.next[v] /\ users'.lock[v] = users.lock[v]
  BY <1>5, <1>a DEF Put, Tables
<1>8. /\ senders' \in Tables(Keys, SenderRows, Requests) /\ senders'.live = senders.live
      /\ senders'.next[k] = Unverified /\ senders'.lock[k] = q
      /\ \A x \in Keys : x # k => senders'.next[x] = senders.next[x] /\ senders'.lock[x] = senders.lock[x]
  BY <1>5, <1>a, RowTypes, RowPut
<1>9. senders.lock[k] = Free /\ ~senders.live[k].exists
  <2>1. users.lock[u] = Free /\ ~users.live[u]
    BY <1>2, <1>4
  <2>2. \A p \in Requests : senders.lock[k] # p
    BY <1>1, <1>u, <2>1, RequestsAssumption DEF SenderHeld
  <2> QED
    BY <1>1, <1>u, <2>1, <2>2, TypeFacts DEF SenderStands
<1>10. TypeOK'
  BY <1>1, <1>5, <1>6, <1>7, <1>8 DEF TypeOK
<1>11. ASSUME NEW p \in Requests, p # q PROVE RequestInv(p)'
  BY <1>2, <1>4, <1>5, <1>6, <1>7, <1>8, <1>9, <1>11, Others, RequestsAssumption, ZenonT(40)
<1>12. RequestInv(q)'
  <2>1. RequestKnows(q)'
    BY <1>1, <1>2, <1>k, <1>6, <1>8 DEF RequestKnows, Served, At
  <2>2. ASSUME NEW x \in Keys PROVE SenderHeld(x, q)' /\ WarmupHeld(x, q)'
    <3>1. Unverified.exists /\ ~Unverified.verified
      BY DEF Unverified
    <3>2. ~senders'.live[k].verified
      BY <1>1, <1>2, <1>8, <1>9 DEF SenderStands, Usable
    <3>3. SenderHeld(x, q)'
      BY <1>2, <1>3, <1>6, <1>7, <1>8, <1>u, <3>1, <3>2 DEF SenderHeld, Usable, At
    <3>4. WarmupHeld(x, q)'
      BY <1>3, <1>5 DEF WarmupHeld
    <3> QED
      BY <3>3, <3>4
  <2>3. ASSUME NEW v \in Users PROVE UserHeld(v, q)'
    BY <1>2, <1>3, <1>6, <1>7, <1>8 DEF UserHeld, At
  <2> QED
    BY <2>1, <2>2, <2>3 DEF RequestInv
<1>13. ASSUME NEW x \in Keys PROVE SenderStands(x)'
  BY <1>1, <1>5, <1>7, <1>8 DEF SenderStands, Usable
<1>14. ASSUME NEW v \in Users PROVE UserStands(v)'
  <2>1. \A y \in Users : Taken(y)' => y = u \/ (Taken(y) /\ Own[y] # Own[u])
    BY <1>2, <1>4, <1>7 DEF Taken
  <2> QED
    BY <1>1, <1>7, <1>8, <2>1 DEF UserStands
<1> QED
  BY <1>10, <1>11, <1>12, <1>13, <1>14 DEF Inv, RowsInvariant

\* A sender is written as verified by a request whose password was accepted, while
\* nobody else holds it.
LEMMA SenderWritten ==
  ASSUME Inv, NEW q \in Requests, InsertSender(q) \/ UpdateSender(q)
  PROVE  Inv'
<1>1. /\ TypeOK /\ RequestKnows(q)
      /\ \A x \in Keys : SenderStands(x) /\ SenderHeld(x, q)
      /\ \A u \in Users : UserStands(u)
  BY DEF Inv, RowsInvariant, RequestInv
<1>2. req[q].pc \in {"insert_sender", "verify"}
  BY DEF InsertSender, UpdateSender, At
<1>k. PICK k \in Keys : k = req[q].key
  BY <1>1, <1>2 DEF RequestKnows, At
<1>3. users.live[k[1]] /\ Credentials(q) \in Accepted
  BY <1>1, <1>2, <1>k DEF RequestKnows, Served, At, InsertSender, UpdateSender
<1>4. /\ \A x \in Keys : senders.lock[x] # q /\ warmups.lock[x] # q
      /\ \A v \in Users : users.lock[v] # q
  BY <1>2, HoldsNothing
<1>5. senders.lock[k] = Free
  BY <1>4, <1>k DEF InsertSender, UpdateSender, Locked
<1>row. PICK row \in SenderRows : row = Verified(req[q].password)
  BY <1>1, RowTypes DEF TypeOK, RequestRecords
<1>6. row.exists /\ row.verified /\ <<k[2], row.password>> \in Accepted
  BY <1>3, <1>k, <1>row DEF Verified, Credentials
<1>7. senders' = Put(senders, q, k, row) /\ users' = users /\ warmups' = warmups
  BY <1>k, <1>row DEF InsertSender, UpdateSender
<1>8. /\ req' \in [Requests -> RequestRecords]
      /\ \A p \in Requests : p # q => req'[p] = req[p]
      /\ req'[q].key = k /\ req'[q].was_verified = req[q].was_verified
      /\ req'[q].pc = "find_warmup" \/ (req'[q].pc = "commit" /\ req[q].was_verified)
  BY <1>1, <1>k, Moves DEF InsertSender, UpdateSender, Pcs
<1>a. senders \in Tables(Keys, SenderRows, Requests)
  BY <1>1 DEF TypeOK
<1>9. /\ senders' \in Tables(Keys, SenderRows, Requests) /\ senders'.live = senders.live
      /\ senders'.next[k] = row /\ senders'.lock[k] = q
      /\ \A x \in Keys : x # k => senders'.next[x] = senders.next[x] /\ senders'.lock[x] = senders.lock[x]
  BY <1>7, <1>a, RowPut
<1>10. TypeOK'
  BY <1>1, <1>7, <1>8, <1>9 DEF TypeOK
<1>11. ASSUME NEW p \in Requests, p # q PROVE RequestInv(p)'
  BY <1>5, <1>7, <1>8, <1>9, <1>11, Others, RequestsAssumption
<1>12. RequestInv(q)'
  <2>1. RequestKnows(q)'
    BY <1>1, <1>2, <1>3, <1>k, <1>6, <1>7, <1>8, <1>9 DEF RequestKnows, Served, At
  <2>2. ASSUME NEW x \in Keys PROVE SenderHeld(x, q)' /\ WarmupHeld(x, q)'
    <3>1. req[q].was_verified => warmups.live[k]
      BY <1>1, <1>2, <1>k DEF RequestKnows, SenderStands, At
    <3>2. SenderHeld(x, q)'
      BY <1>3, <1>4, <1>6, <1>7, <1>8, <1>9, <3>1 DEF SenderHeld, Usable, At
    <3>3. WarmupHeld(x, q)'
      BY <1>4, <1>7 DEF WarmupHeld
    <3> QED
      BY <3>2, <3>3
  <2>3. ASSUME NEW v \in Users PROVE UserHeld(v, q)'
    BY <1>4, <1>7 DEF UserHeld
  <2> QED
    BY <2>1, <2>2, <2>3 DEF RequestInv
<1>13. ASSUME NEW x \in Keys PROVE SenderStands(x)'
  BY <1>1, <1>7, <1>9 DEF SenderStands, Usable
<1>14. ASSUME NEW v \in Users PROVE UserStands(v)'
  BY <1>1, <1>7, <1>9 DEF UserStands, Taken
<1> QED
  BY <1>10, <1>11, <1>12, <1>13, <1>14 DEF Inv, RowsInvariant

\* A schedule is written by the request that holds the sender's row, which can
\* then commit.
LEMMA WarmupWritten ==
  ASSUME Inv, NEW q \in Requests, InsertWarmup(q)
  PROVE  Inv'
<1>1. /\ TypeOK /\ RequestKnows(q)
      /\ \A x \in Keys : SenderStands(x) /\ SenderHeld(x, q) /\ WarmupHeld(x, q)
      /\ \A u \in Users : UserStands(u) /\ UserHeld(u, q)
  BY DEF Inv, RowsInvariant, RequestInv
<1>2. req[q].pc = "insert_warmup"
  BY DEF InsertWarmup, At
<1>k. PICK k \in Keys : k = req[q].key
  BY <1>1, <1>2 DEF RequestKnows, At
<1>3. users.live[k[1]] /\ senders.lock[k] = q
  BY <1>1, <1>2, <1>k DEF RequestKnows, Served, At
<1>4. /\ \A x \in Keys : warmups.lock[x] # q /\ (senders.lock[x] = q => x = k)
      /\ \A v \in Users : users.lock[v] # q
  BY <1>1, <1>2, <1>k DEF SenderHeld, WarmupHeld, UserHeld, At
<1>5. warmups.lock[k] = Free
  BY <1>4, <1>k DEF InsertWarmup, Locked
<1>6. warmups' = Put(warmups, q, k, TRUE) /\ users' = users /\ senders' = senders
  BY <1>k DEF InsertWarmup
<1>7. /\ req' \in [Requests -> RequestRecords]
      /\ \A p \in Requests : p # q => req'[p] = req[p]
      /\ req'[q].key = k /\ req'[q].was_verified = req[q].was_verified
      /\ req'[q].pc = "commit"
  BY <1>1, <1>k, Moves DEF InsertWarmup, Pcs
<1>a. warmups \in Tables(Keys, BOOLEAN, Requests)
  BY <1>1 DEF TypeOK
<1>8. /\ warmups' \in Tables(Keys, BOOLEAN, Requests) /\ warmups'.live = warmups.live
      /\ warmups'.next[k] = TRUE /\ warmups'.lock[k] = q
      /\ \A x \in Keys : x # k => warmups'.next[x] = warmups.next[x] /\ warmups'.lock[x] = warmups.lock[x]
  BY <1>6, <1>a DEF Put, Tables
<1>9. TypeOK'
  BY <1>1, <1>6, <1>7, <1>8 DEF TypeOK
<1>10. ASSUME NEW p \in Requests, p # q PROVE RequestInv(p)'
  BY <1>5, <1>6, <1>7, <1>8, <1>10, Others, RequestsAssumption
<1>11. RequestInv(q)'
  <2>1. RequestKnows(q)'
    BY <1>1, <1>2, <1>k, <1>6, <1>7 DEF RequestKnows, Served, At
  <2>2. ASSUME NEW x \in Keys PROVE SenderHeld(x, q)' /\ WarmupHeld(x, q)'
    <3>1. SenderHeld(x, q)'
      BY <1>1, <1>4, <1>6, <1>7, <1>8 DEF SenderHeld, Usable, At
    <3>2. WarmupHeld(x, q)'
      BY <1>3, <1>4, <1>6, <1>7, <1>8, ZenonT(40) DEF WarmupHeld, At
    <3> QED
      BY <3>1, <3>2
  <2>3. ASSUME NEW v \in Users PROVE UserHeld(v, q)'
    BY <1>4, <1>6 DEF UserHeld
  <2> QED
    BY <2>1, <2>2, <2>3 DEF RequestInv
<1>12. ASSUME NEW x \in Keys PROVE SenderStands(x)'
  BY <1>1, <1>6, <1>8 DEF SenderStands, Usable
<1>13. ASSUME NEW v \in Users PROVE UserStands(v)'
  BY <1>1, <1>6 DEF UserStands, Taken
<1> QED
  BY <1>9, <1>10, <1>11, <1>12, <1>13 DEF Inv, RowsInvariant
-----------------------------------------------------------------------------
\* A commit shows the rows of a request to everybody: they are complete by then.
LEMMA Commits ==
  ASSUME Inv, NEW q \in Requests, CommitRequest(q)
  PROVE  Inv'
<1>1. /\ TypeOK /\ RequestInv(q)
      /\ \A x \in Keys : SenderStands(x) /\ SenderHeld(x, q) /\ WarmupHeld(x, q)
      /\ \A u \in Users : UserStands(u) /\ UserHeld(u, q)
  BY DEF Inv, RowsInvariant, RequestInv
<1>2. At(q, "commit") /\ Goto(q, "done")
  BY DEF CommitRequest
<1>3. /\ req' \in [Requests -> RequestRecords]
      /\ \A p \in Requests : p # q => req'[p] = req[p]
      /\ req'[q].key = req[q].key /\ req'[q].was_verified = req[q].was_verified
      /\ req'[q].pc = "done"
  BY <1>1, <1>2, Moves DEF Pcs
<1>4. /\ users \in Tables(Users, BOOLEAN, Requests)
      /\ senders \in Tables(Keys, SenderRows, Requests)
      /\ warmups \in Tables(Keys, BOOLEAN, Requests)
      /\ users' = Publish(users, q) /\ senders' = Publish(senders, q)
      /\ warmups' = Publish(warmups, q)
  BY <1>1 DEF TypeOK, CommitRequest
<1>5. /\ users' \in Tables(Users, BOOLEAN, Requests) /\ users'.next = users.next
      /\ \A u \in Users :
           /\ users'.live[u] = IF users.lock[u] = q THEN users.next[u] ELSE users.live[u]
           /\ users'.lock[u] = IF users.lock[u] = q THEN Free ELSE users.lock[u]
  BY <1>4, PublishRow
<1>6. /\ senders' \in Tables(Keys, SenderRows, Requests) /\ senders'.next = senders.next
      /\ \A k \in Keys :
           /\ senders'.live[k] = IF senders.lock[k] = q THEN senders.next[k] ELSE senders.live[k]
           /\ senders'.lock[k] = IF senders.lock[k] = q THEN Free ELSE senders.lock[k]
  BY <1>4, PublishRow
<1>7. /\ warmups' \in Tables(Keys, BOOLEAN, Requests) /\ warmups'.next = warmups.next
      /\ \A k \in Keys :
           /\ warmups'.live[k] = IF warmups.lock[k] = q THEN warmups.next[k] ELSE warmups.live[k]
           /\ warmups'.lock[k] = IF warmups.lock[k] = q THEN Free ELSE warmups.lock[k]
  BY <1>4, PublishRow
<1>8. TypeOK'
  BY <1>3, <1>5, <1>6, <1>7 DEF TypeOK
<1>9. /\ \A u \in Users : (users.live[u] => users'.live[u]) /\ (users.lock[u] = q => users'.live[u])
      /\ \A k \in Keys :
           /\ senders.live[k].verified => senders'.live[k].verified
           /\ senders.live[k].exists => senders'.live[k].exists
           /\ warmups.live[k] \/ warmups.lock[k] = q => warmups'.live[k]
           /\ warmups.lock[k] = q => senders.lock[k] = q
  <2>1. \A u \in Users : users.lock[u] = q => users.next[u]
    BY <1>1 DEF UserHeld
  <2>2. \A k \in Keys : /\ senders.lock[k] = q => senders.next[k].exists
                        /\ senders.lock[k] = q /\ senders.live[k].verified => senders.next[k].verified
                        /\ warmups.lock[k] = q => warmups.next[k] /\ senders.lock[k] = q
    BY <1>1 DEF SenderHeld, WarmupHeld
  <2> QED
    BY <1>5, <1>6, <1>7, <2>1, <2>2
<1>10. ASSUME NEW p \in Requests, p # q PROVE RequestInv(p)'
  BY <1>3, <1>5, <1>6, <1>7, <1>9, <1>10, Others, RequestsAssumption
<1>11. RequestInv(q)'
  <2>1. RequestKnows(q)'
    BY <1>1, <1>2, <1>3, <1>9 DEF RequestInv, RequestKnows, Served, At
  <2>2. /\ \A k \in Keys : senders'.lock[k] # q /\ warmups'.lock[k] # q
        /\ \A u \in Users : users'.lock[u] # q
    BY <1>5, <1>6, <1>7, RequestsAssumption
  <2> QED
    BY <2>1, <2>2 DEF RequestInv, SenderHeld, WarmupHeld, UserHeld
<1>12. ASSUME NEW k \in Keys PROVE SenderStands(k)'
  <2>1. k[1] \in Users
    BY KeyParts
  <2>2. CASE senders.lock[k] = q
    BY <1>1, <1>2, <1>6, <1>9, <2>1, <2>2 DEF SenderHeld, SenderStands, Usable
  <2>3. CASE senders.lock[k] # q
    BY <1>1, <1>6, <1>9, <2>1, <2>3 DEF SenderStands, Usable
  <2> QED
    BY <2>2, <2>3
<1>13. ASSUME NEW u \in Users PROVE UserStands(u)'
  <2>1. \A v \in Users : Taken(v)' => Taken(v)
    BY <1>5, RequestsAssumption DEF Taken
  <2>2. <<u, Own[u]>> \in Keys
    BY KeyParts
  <2>3. users'.live[u] => senders'.live[<<u, Own[u]>>].exists
    <3>1. CASE users.lock[u] = q
      BY <1>1, <1>6, <2>2, <3>1 DEF UserHeld, SenderHeld
    <3>2. CASE users.lock[u] # q
      BY <1>1, <1>5, <1>9, <2>2, <3>2 DEF UserStands
    <3> QED
      BY <3>1, <3>2
  <2> QED
    BY <1>1, <2>1, <2>3 DEF UserStands
<1> QED
  BY <1>8, <1>10, <1>11, <1>12, <1>13 DEF Inv, RowsInvariant

\* A rollback leaves what is committed, and the rows of the others.
LEMMA Rollbacks ==
  ASSUME Inv, NEW q \in Requests, InsertFails(q) \/ ApiCrash(q)
  PROVE  Inv'
<1>1. /\ TypeOK /\ RequestInv(q) /\ ~At(q, "new")
      /\ \A x \in Keys : SenderStands(x)
      /\ \A u \in Users : UserStands(u)
  BY DEF Inv, RowsInvariant, InsertFails, Duplicate, ApiCrash, At
<1>2. Rollback(q)
  BY DEF InsertFails, ApiCrash
<1>3. /\ req' \in [Requests -> RequestRecords]
      /\ \A p \in Requests : p # q => req'[p] = req[p]
      /\ req'[q].key = req[q].key /\ req'[q].was_verified = req[q].was_verified
      /\ req'[q].pc = "failed"
  BY <1>1, <1>2, Moves DEF Rollback, Pcs
<1>4. /\ users \in Tables(Users, BOOLEAN, Requests)
      /\ senders \in Tables(Keys, SenderRows, Requests)
      /\ warmups \in Tables(Keys, BOOLEAN, Requests)
      /\ users' = Discard(users, {q}) /\ senders' = Discard(senders, {q})
      /\ warmups' = Discard(warmups, {q})
  BY <1>1, <1>2 DEF TypeOK, Rollback
<1>5. /\ users' \in Tables(Users, BOOLEAN, Requests) /\ users'.live = users.live
      /\ \A u \in Users :
           /\ users'.next[u] = IF users.lock[u] \in {q} THEN users.live[u] ELSE users.next[u]
           /\ users'.lock[u] = IF users.lock[u] \in {q} THEN Free ELSE users.lock[u]
  BY <1>4, DiscardRow
<1>6. /\ senders' \in Tables(Keys, SenderRows, Requests) /\ senders'.live = senders.live
      /\ \A k \in Keys :
           /\ senders'.next[k] = IF senders.lock[k] \in {q} THEN senders.live[k] ELSE senders.next[k]
           /\ senders'.lock[k] = IF senders.lock[k] \in {q} THEN Free ELSE senders.lock[k]
  BY <1>4, DiscardRow
<1>7. /\ warmups' \in Tables(Keys, BOOLEAN, Requests) /\ warmups'.live = warmups.live
      /\ \A k \in Keys :
           /\ warmups'.next[k] = IF warmups.lock[k] \in {q} THEN warmups.live[k] ELSE warmups.next[k]
           /\ warmups'.lock[k] = IF warmups.lock[k] \in {q} THEN Free ELSE warmups.lock[k]
  BY <1>4, DiscardRow
<1>8. TypeOK'
  BY <1>3, <1>5, <1>6, <1>7 DEF TypeOK
<1>9. ASSUME NEW p \in Requests, p # q PROVE RequestInv(p)'
  BY <1>3, <1>5, <1>6, <1>7, <1>9, Others, RequestsAssumption
<1>10. RequestInv(q)'
  <2>1. RequestKnows(q)'
    BY <1>1, <1>3, <1>6 DEF RequestInv, RequestKnows, Served, At
  <2>2. /\ \A k \in Keys : senders'.lock[k] # q /\ warmups'.lock[k] # q
        /\ \A u \in Users : users'.lock[u] # q
    BY <1>5, <1>6, <1>7, RequestsAssumption
  <2> QED
    BY <2>1, <2>2 DEF RequestInv, SenderHeld, WarmupHeld, UserHeld
<1>11. ASSUME NEW k \in Keys PROVE SenderStands(k)'
  BY <1>1, <1>5, <1>6, <1>7 DEF SenderStands, Usable
<1>12. ASSUME NEW u \in Users PROVE UserStands(u)'
  <2>1. \A v \in Users : Taken(v)' => Taken(v)
    BY <1>5, RequestsAssumption DEF Taken
  <2> QED
    BY <1>1, <1>5, <1>6, <2>1 DEF UserStands
<1> QED
  BY <1>8, <1>9, <1>10, <1>11, <1>12 DEF Inv, RowsInvariant
-----------------------------------------------------------------------------
\* Whatever a request does, its rows and the others' stay as the invariant says.
LEMMA NextInv == Inv /\ [Next]_vars => Inv'
<1> SUFFICES ASSUME Inv, [Next]_vars PROVE Inv'
  OBVIOUS
<1>1. ASSUME NEW q \in Requests, RequestArrives(q) \/ RequestStep(q) \/ ApiCrash(q)
      PROVE  Inv'
  BY <1>1, ReadSteps, UserInserted, SenderWritten, WarmupWritten, Commits, Rollbacks
  DEF RequestStep
<1>2. CASE UNCHANGED vars
  <2>1. TypeOK' /\ UNCHANGED tables /\ req' = req
    BY <1>2 DEF Inv, TypeOK, vars, tables
  <2>2. \A q \in Requests : RequestInv(q)'
    BY <2>1, Others DEF tables
  <2>3. \A k \in Keys : SenderStands(k)'
    BY <2>1 DEF Inv, RowsInvariant, SenderStands, Usable, tables
  <2>4. \A u \in Users : UserStands(u)'
    BY <2>1 DEF Inv, RowsInvariant, UserStands, Taken, tables
  <2> QED
    BY <2>1, <2>2, <2>3, <2>4 DEF Inv, RowsInvariant
<1> QED
  BY <1>1, <1>2 DEF Next

\* The lock order of auth.py and senders.py, and what each request knows of the
\* rows it holds, in every reachable state.
THEOREM RowsInvariantHolds == Spec => [](TypeOK /\ RowsInvariant)
<1>1. Init => Inv
  BY InitInv
<1>2. Inv /\ [Next]_vars => Inv'
  BY NextInv
<1>3. Inv => TypeOK /\ RowsInvariant
  BY DEF Inv
<1> QED
  BY <1>1, <1>2, <1>3, PTL DEF Spec

\* A sender is never committed as verified without an accepted password and a
\* warm-up schedule, however many requests set it up at once (senders.py).
THEOREM VerifiedIsReadyHolds == Spec => []VerifiedIsReady
<1>1. TypeOK /\ RowsInvariant => VerifiedIsReady
  BY DEF RowsInvariant, SenderStands, Usable, VerifiedIsReady
<1> QED
  BY <1>1, RowsInvariantHolds, PTL

\* The insert of a schedule never meets the unique constraint (_create_warmup).
THEOREM WarmupInsertSafeHolds == Spec => []WarmupInsertSafe
<1>1. ASSUME TypeOK, RowsInvariant PROVE WarmupInsertSafe
  <2> SUFFICES ASSUME NEW q \in Requests, At(q, "insert_warmup")
               PROVE  ~Locked(warmups, q, req[q].key) /\ ~warmups.live[req[q].key]
    BY DEF WarmupInsertSafe
  <2>1. /\ req[q].key \in Keys /\ senders.lock[req[q].key] = q
        /\ ~warmups.live[req[q].key]
    BY <1>1 DEF RowsInvariant, RequestInv, RequestKnows, At
  <2>2. \A p \in Requests : warmups.lock[req[q].key] = p => p = q
    BY <1>1, <2>1 DEF RowsInvariant, RequestInv, WarmupHeld
  <2>3. warmups.lock[req[q].key] \in Requests \cup {Free}
    BY <1>1, <2>1, TypeFacts
  <2> QED
    BY <2>1, <2>2, <2>3 DEF Locked
<1> QED
  BY <1>1, RowsInvariantHolds, PTL

\* Whoever has logged in has a sender for the address, and has it alone (auth.py).
THEOREM UserHasSenderHolds == Spec => []UserHasSender
<1>1. TypeOK /\ RowsInvariant => UserHasSender
  BY DEF RowsInvariant, UserStands, Taken, UserHasSender
<1> QED
  BY <1>1, RowsInvariantHolds, PTL

\* The types of Accounts hold in every reachable state.
THEOREM AccountsTyped == Spec => []TypeOK
<1>1. TypeOK /\ RowsInvariant => TypeOK
  OBVIOUS
<1> QED
  BY <1>1, RowsInvariantHolds, PTL
-----------------------------------------------------------------------------
(***************************************************************************)
(* The refresh tokens.  The inductive invariant behind SessionSurvives: a  *)
(* refresh holds the row it revokes until the row that replaces it is      *)
(* committed with it, and that one lives at least as long.                 *)
(***************************************************************************)
TokenRows == [exists : BOOLEAN, revoked : BOOLEAN, created : Nat, expires : Nat]

CallRecords ==
  [pc : {"new", "load", "revoke", "issue", "answer", "commit", "done", "refused", "failed"},
   op : {"login", "refresh", "logout"}, with : SUBSET Calls]

TokensTypeOK ==
  /\ tokens \in Tables(Calls, TokenRows, Calls)
  /\ call \in [Calls -> CallRecords]
  /\ sent \subseteq Calls
  /\ today \in Nat

\* A row of the table, committed or not, dates from a day that has been.
Aged(row) == row.exists => row.created <= today /\ row.expires = row.created + Ttl

\* Call c holds the row of its own token, which is new and valid ...
IssuedHeld(c) ==
  tokens.lock[c] = c =>
    /\ call[c].pc \in {"answer", "commit"}
    /\ tokens.next[c].exists /\ ~tokens.next[c].revoked /\ Aged(tokens.next[c])

\* ... and the one it revokes, which is not younger.
RevokedHeld(c, t) ==
  t # c /\ tokens.lock[t] = c =>
    /\ call[c].pc \in {"issue", "answer", "commit"} /\ call[c].op # "login"
    /\ tokens.live[t].exists
    /\ tokens.next[t] = [tokens.live[t] EXCEPT !.revoked = TRUE]
    /\ call[c].op = "refresh" /\ call[c].pc \in {"answer", "commit"} =>
         tokens.live[t].created <= tokens.next[c].created

CallInv(c) ==
  /\ call[c].op = "login" => call[c].with = {}
  /\ tokens.live[c].exists => call[c].pc = "done"
  /\ call[c].op # "logout" /\ call[c].pc \in {"answer", "commit"} => tokens.lock[c] = c
  /\ IssuedHeld(c)
  /\ \A t \in Calls : RevokedHeld(c, t)

TokensInvariant ==
  /\ \A t \in Calls : Aged(tokens.live[t])
  /\ \A c \in Calls : CallInv(c)

TokensInv == TokensTypeOK /\ TokensInvariant

\* The table of tokens, the calls and the rows they write have their types.
LEMMA TokenFacts ==
  ASSUME TokensTypeOK
  PROVE  /\ tokens.live \in [Calls -> TokenRows] /\ tokens.next \in [Calls -> TokenRows]
         /\ tokens.lock \in [Calls -> Calls \cup {Free}]
         /\ tokens \in Tables(Calls, TokenRows, Calls)
         /\ call \in [Calls -> CallRecords] /\ today \in Nat
         /\ NoToken \in TokenRows /\ NewToken \in TokenRows
<1>1. today \in Nat /\ today + Ttl \in Nat
  BY DaysAssumption DEF TokensTypeOK
<1>2. NoToken \in TokenRows
  BY DEF NoToken, TokenRows
<1>3. NewToken \in TokenRows
  BY <1>1 DEF NewToken, TokenRows
<1> QED
  BY <1>1, <1>2, <1>3 DEF TokensTypeOK, Tables

\* In the beginning there is no token.
LEMMA TokensInitInv == TokensInit => TokensInv
<1> SUFFICES ASSUME TokensInit PROVE TokensInv
  OBVIOUS
<1>1. /\ tokens.live = [t \in Calls |-> NoToken] /\ tokens.next = [t \in Calls |-> NoToken]
      /\ tokens.lock = [t \in Calls |-> Free]
      /\ tokens = [live |-> tokens.live, next |-> tokens.next, lock |-> tokens.lock]
  BY DEF TokensInit, Committed
<1>2. NoToken \in TokenRows /\ ~NoToken.exists
  BY DEF NoToken, TokenRows
<1>3. TokensTypeOK
  BY <1>1, <1>2 DEF TokensInit, TokensTypeOK, Tables, CallRecords
<1>4. \A t \in Calls : Aged(tokens.live[t])
  BY <1>1, <1>2 DEF Aged
<1>5. ASSUME NEW c \in Calls PROVE CallInv(c)
  BY <1>1, <1>2, CallsAssumption DEF TokensInit, CallInv, IssuedHeld, RevokedHeld
<1> QED
  BY <1>3, <1>4, <1>5 DEF TokensInv, TokensInvariant

\* What a call holds stays as it was while another one, the clean-up or the clock
\* goes on.
LEMMA OtherCalls ==
  ASSUME TokensInv, NEW d \in Calls, call'[d] = call[d], today' \in Nat, today' >= today,
         tokens'.live[d].exists => tokens.live[d].exists \/ call[d].pc = "done",
         \A t \in Calls :
           /\ tokens'.lock[t] = d <=> tokens.lock[t] = d
           /\ tokens.lock[t] = d => /\ tokens'.next[t] = tokens.next[t]
                                    /\ tokens'.live[t] = tokens.live[t]
  PROVE  CallInv(d)'
<1>1. CallInv(d) /\ TokensTypeOK
  BY DEF TokensInv, TokensInvariant
<1>2. IssuedHeld(d)'
  <2> SUFFICES ASSUME tokens.lock[d] = d
               PROVE  /\ call[d].pc \in {"answer", "commit"}
                      /\ tokens.next[d].exists /\ ~tokens.next[d].revoked
                      /\ Aged(tokens.next[d])'
    BY DEF IssuedHeld
  <2>1. IssuedHeld(d) /\ tokens.next[d] \in TokenRows
    BY <1>1, TokenFacts DEF CallInv
  <2>2. tokens.next[d].created <= today /\ tokens.next[d].created \in Nat /\ today \in Nat
    BY <1>1, <2>1, TokenFacts DEF IssuedHeld, Aged, TokenRows
  <2>3. tokens.next[d].created <= today'
    BY <2>2
  <2> QED
    BY <2>1, <2>3 DEF IssuedHeld, Aged
<1>3. ASSUME NEW t \in Calls PROVE RevokedHeld(d, t)'
  <2>1. RevokedHeld(d, t)
    BY <1>1 DEF CallInv
  <2>2. call[d].op = "refresh" /\ call[d].pc \in {"answer", "commit"} => tokens'.next[d] = tokens.next[d]
    BY <1>1 DEF CallInv
  <2> QED
    BY <2>1, <2>2 DEF RevokedHeld
<1> QED
  BY <1>1, <1>2, <1>3 DEF CallInv

\* A call goes on and no row changes.
LEMMA CallMoves ==
  ASSUME TokensInv, NEW c \in Calls, UNCHANGED <<tokens, today>>, sent' \subseteq Calls,
         call' \in [Calls -> CallRecords],
         \A d \in Calls : d # c => call'[d] = call[d],
         CallInv(c)'
  PROVE  TokensInv'
<1>1. TokensTypeOK'
  BY DEF TokensInv, TokensTypeOK
<1>2. \A t \in Calls : Aged(tokens.live[t])'
  BY DEF TokensInv, TokensInvariant, Aged
<1>3. ASSUME NEW d \in Calls, d # c PROVE CallInv(d)'
  <2>1. today \in Nat
    BY DEF TokensInv, TokensTypeOK
  <2> QED
    BY <1>3, <2>1, OtherCalls
<1> QED
  BY <1>1, <1>2, <1>3 DEF TokensInv, TokensInvariant

\* A call holds rows only between its first statement and its commit.
LEMMA CallHoldsNothing ==
  ASSUME TokensInv, NEW c \in Calls, call[c].pc \notin {"issue", "answer", "commit"}
  PROVE  \A t \in Calls : tokens.lock[t] # c
<1> SUFFICES ASSUME NEW t \in Calls PROVE tokens.lock[t] # c
  OBVIOUS
<1>1. IssuedHeld(c) /\ RevokedHeld(c, t)
  BY DEF TokensInv, TokensInvariant, CallInv
<1> QED
  BY <1>1 DEF IssuedHeld, RevokedHeld

\* The requests as they come in, and what refresh finds.
LEMMA CallsArrive ==
  ASSUME TokensInv, NEW c \in Calls,
         CallArrives(c) \/ \E t \in Calls : Load(c, t)
  PROVE  TokensInv'
<1>1. /\ call \in [Calls -> CallRecords] /\ CallInv(c) /\ call[c] \in CallRecords
      /\ TokensTypeOK
  BY DEF TokensInv, TokensInvariant, TokensTypeOK
<1>2. /\ call[c].pc \in {"new", "load"} /\ UNCHANGED <<tokens, today>> /\ sent' = sent
  BY DEF CallArrives, LoginCalled, RefreshCalled, LogoutCalled, Load, CallAt
<1>3. /\ call' \in [Calls -> CallRecords]
      /\ \A d \in Calls : d # c => call'[d] = call[d]
      /\ call'[c].pc \in {"issue", "load", "revoke", "refused"}
      /\ call'[c].op = "login" => call'[c].with = {}
  <2>1. CASE LoginCalled(c)
    BY <1>1, <2>1 DEF LoginCalled, CallRecords, CallInv
  <2>2. ASSUME NEW t \in Calls, RefreshCalled(c, t) PROVE <1>3!1 /\ <1>3!2 /\ <1>3!3 /\ <1>3!4
    BY <1>1, <2>2 DEF RefreshCalled, CallRecords
  <2>3. ASSUME NEW t \in Calls, LogoutCalled(c, t) PROVE <1>3!1 /\ <1>3!2 /\ <1>3!3 /\ <1>3!4
    BY <1>1, <2>3 DEF LogoutCalled, CallRecords
  <2>4. ASSUME NEW t \in Calls, Load(c, t) PROVE <1>3!1 /\ <1>3!2 /\ <1>3!3 /\ <1>3!4
    <3>1. PICK pc \in {"revoke", "refused"} : CallGoto(c, pc)
      BY <2>4 DEF Load
    <3> QED
      BY <1>1, <3>1 DEF CallGoto, CallRecords, CallInv
  <2> QED
    BY <2>1, <2>2, <2>3, <2>4 DEF CallArrives
<1>4. \A t \in Calls : tokens.lock[t] # c
  BY <1>2, CallHoldsNothing
<1>5. ~tokens.live[c].exists
  BY <1>1, <1>2 DEF CallInv
<1>6. CallInv(c)'
  BY <1>2, <1>3, <1>4, <1>5 DEF CallInv, IssuedHeld, RevokedHeld
<1> QED
  BY <1>2, <1>3, <1>6, CallMoves DEF TokensInv, TokensTypeOK

\* A token is revoked: its row is there, so the call that signed it is over.
LEMMA TokenRevoked ==
  ASSUME TokensInv, NEW c \in Calls, NEW t \in Calls, Revoke(c, t)
  PROVE  TokensInv'
<1>1. /\ call \in [Calls -> CallRecords] /\ CallInv(c) /\ CallInv(t) /\ call[c] \in CallRecords
      /\ TokensTypeOK /\ Aged(tokens.live[t])
  BY DEF TokensInv, TokensInvariant, TokensTypeOK
<1>2. /\ call[c].pc = "revoke" /\ t \in call[c].with /\ UNCHANGED <<sent, today>>
      /\ call[c].op \in {"refresh", "logout"}
  BY <1>1 DEF Revoke, CallAt, CallInv, CallRecords
<1>3. /\ call' \in [Calls -> CallRecords]
      /\ \A d \in Calls : d # c => call'[d] = call[d]
      /\ call'[c].op = call[c].op /\ call'[c].with = call[c].with
      /\ call'[c].pc = IF call[c].op = "refresh" THEN "issue" ELSE "commit"
  <2>1. PICK pc \in {"issue", "commit"} :
          CallGoto(c, pc) /\ pc = IF call[c].op = "refresh" THEN "issue" ELSE "commit"
    BY <1>2 DEF Revoke
  <2> QED
    BY <1>1, <2>1 DEF CallGoto, CallRecords
<1>4. \A x \in Calls : tokens.lock[x] # c
  BY <1>2, CallHoldsNothing
<1>5. ~tokens.live[c].exists
  BY <1>1, <1>2 DEF CallInv
<1>6. CASE ~tokens.live[t].exists
  <2>1. tokens' = tokens
    BY <1>6 DEF Revoke
  <2>2. CallInv(c)'
    BY <1>2, <1>3, <1>4, <1>5, <2>1 DEF CallInv, IssuedHeld, RevokedHeld
  <2> QED
    BY <1>1, <1>2, <1>3, <2>1, <2>2, CallMoves DEF TokensTypeOK
<1>7. CASE tokens.live[t].exists
  <2>1. t # c /\ tokens.lock[t] = Free
    <3>1. ~Locked(tokens, c, t)
      BY <1>7 DEF Revoke
    <3> QED
      BY <1>4, <1>5, <1>7, <3>1 DEF Locked
  <2>2. PICK row \in TokenRows : row = [tokens.live[t] EXCEPT !.revoked = TRUE]
    BY <1>1, TokenFacts DEF TokenRows
  <2>3. tokens' = Put(tokens, c, t, row)
    BY <1>7, <2>2 DEF Revoke
  <2>4. /\ tokens' \in Tables(Calls, TokenRows, Calls) /\ tokens'.live = tokens.live
        /\ tokens'.next[t] = row /\ tokens'.lock[t] = c
        /\ \A x \in Calls : x # t => tokens'.next[x] = tokens.next[x] /\ tokens'.lock[x] = tokens.lock[x]
    <3>1. tokens \in Tables(Calls, TokenRows, Calls)
      BY <1>1 DEF TokensTypeOK
    <3> QED
      BY <2>3, <3>1 DEF Put, Tables
  <2>5. TokensTypeOK'
    BY <1>1, <1>2, <1>3, <2>4 DEF TokensTypeOK
  <2>6. \A x \in Calls : Aged(tokens.live[x])'
    BY <1>2, <2>4 DEF TokensInv, TokensInvariant, Aged
  <2>7. ASSUME NEW d \in Calls, d # c PROVE CallInv(d)'
    BY <1>1, <1>2, <1>3, <2>1, <2>4, <2>7, OtherCalls, CallsAssumption DEF TokensTypeOK
  <2>8. CallInv(c)'
    <3>1. \A x \in Calls : tokens'.lock[x] = c => x = t
      BY <1>4, <2>4
    <3>2. IssuedHeld(c)'
      BY <2>1, <3>1 DEF IssuedHeld
    <3>3. ASSUME NEW x \in Calls PROVE RevokedHeld(c, x)'
      <4>1. CASE x = t
        <5>1. /\ call'[c].pc \in {"issue", "commit"} /\ call'[c].op # "login"
              /\ ~(call'[c].op = "refresh" /\ call'[c].pc \in {"answer", "commit"})
          BY <1>2, <1>3
        <5>2. /\ tokens'.live[t].exists
              /\ tokens'.next[t] = [tokens'.live[t] EXCEPT !.revoked = TRUE]
          BY <1>7, <2>2, <2>4
        <5> QED
          BY <4>1, <5>1, <5>2 DEF RevokedHeld
      <4>2. CASE x # t
        BY <3>1, <4>2 DEF RevokedHeld
      <4> QED
        BY <4>1, <4>2
    <3> QED
      BY <1>2, <1>3, <1>5, <2>4, <3>2, <3>3 DEF CallInv
  <2> QED
    BY <2>5, <2>6, <2>7, <2>8 DEF TokensInv, TokensInvariant
<1> QED
  BY <1>6, <1>7

\* A token is signed: no younger one is held by the call.
LEMMA TokenIssued ==
  ASSUME TokensInv, NEW c \in Calls, Issue(c)
  PROVE  TokensInv'
<1>1. /\ call \in [Calls -> CallRecords] /\ CallInv(c) /\ call[c] \in CallRecords
      /\ TokensTypeOK /\ \A d \in Calls : CallInv(d) /\ Aged(tokens.live[d])
  BY DEF TokensInv, TokensInvariant, TokensTypeOK
<1>2. call[c].pc = "issue" /\ UNCHANGED <<sent, today>> /\ tokens' = Put(tokens, c, c, NewToken)
  BY DEF Issue, CallAt
<1>3. /\ call' \in [Calls -> CallRecords]
      /\ \A d \in Calls : d # c => call'[d] = call[d]
      /\ call'[c].op = call[c].op /\ call'[c].with = call[c].with /\ call'[c].pc = "answer"
  BY <1>1 DEF Issue, CallGoto, CallRecords
<1>4. ~tokens.live[c].exists /\ tokens.lock[c] = Free
  <2>1. ~tokens.live[c].exists
    BY <1>1, <1>2 DEF CallInv
  <2>2. tokens.lock[c] # c
    BY <1>1, <1>2 DEF CallInv, IssuedHeld
  <2>3. \A d \in Calls : d # c => tokens.lock[c] # d
    BY <1>1, <2>1 DEF CallInv, RevokedHeld
  <2> QED
    BY <1>1, <2>1, <2>2, <2>3, TokenFacts
<1>5. NewToken \in TokenRows /\ NewToken.exists /\ ~NewToken.revoked
      /\ NewToken.created = today /\ NewToken.expires = today + Ttl /\ today \in Nat
  BY <1>1, TokenFacts DEF NewToken
<1>6. /\ tokens' \in Tables(Calls, TokenRows, Calls) /\ tokens'.live = tokens.live
      /\ tokens'.next[c] = NewToken /\ tokens'.lock[c] = c
      /\ \A x \in Calls : x # c => tokens'.next[x] = tokens.next[x] /\ tokens'.lock[x] = tokens.lock[x]
  <2>1. tokens \in Tables(Calls, TokenRows, Calls)
    BY <1>1 DEF TokensTypeOK
  <2> QED
    BY <1>2, <1>5, <2>1 DEF Put, Tables
<1>7. TokensTypeOK'
  BY <1>1, <1>2, <1>3, <1>6 DEF TokensTypeOK
<1>8. \A x \in Calls : Aged(tokens.live[x])'
  BY <1>1, <1>2, <1>6 DEF Aged
<1>9. ASSUME NEW d \in Calls, d # c PROVE CallInv(d)'
  BY <1>2, <1>3, <1>4, <1>5, <1>6, <1>9, OtherCalls, CallsAssumption
<1>10. IssuedHeld(c)'
  BY <1>2, <1>3, <1>5, <1>6 DEF IssuedHeld, Aged
<1>11. ASSUME NEW t \in Calls PROVE RevokedHeld(c, t)'
  <2>1. RevokedHeld(c, t) /\ Aged(tokens.live[t])
    BY <1>1 DEF CallInv
  <2> QED
    BY <1>2, <1>3, <1>5, <1>6, <2>1 DEF RevokedHeld, Aged
<1>12. CallInv(c)'
  BY <1>1, <1>3, <1>4, <1>6, <1>10, <1>11 DEF CallInv
<1> QED
  BY <1>7, <1>8, <1>9, <1>12 DEF TokensInv, TokensInvariant

\* The answer changes no row.
LEMMA CallAnswered ==
  ASSUME TokensInv, NEW c \in Calls, Answer(c)
  PROVE  TokensInv'
<1>1. /\ call \in [Calls -> CallRecords] /\ CallInv(c) /\ call[c] \in CallRecords /\ TokensTypeOK
  BY DEF TokensInv, TokensInvariant, TokensTypeOK
<1>2. call[c].pc = "answer" /\ UNCHANGED <<tokens, today>> /\ sent' \subseteq Calls
  BY <1>1 DEF Answer, CallAt, TokensTypeOK
<1>3. /\ call' \in [Calls -> CallRecords]
      /\ \A d \in Calls : d # c => call'[d] = call[d]
      /\ call'[c].op = call[c].op /\ call'[c].with = call[c].with /\ call'[c].pc = "commit"
  BY <1>1 DEF Answer, CallGoto, CallRecords
<1>4. IssuedHeld(c)'
  BY <1>1, <1>2, <1>3 DEF CallInv, IssuedHeld, Aged
<1>5. ASSUME NEW t \in Calls PROVE RevokedHeld(c, t)'
  BY <1>1, <1>2, <1>3 DEF CallInv, RevokedHeld
<1>6. CallInv(c)'
  BY <1>1, <1>2, <1>3, <1>4, <1>5 DEF CallInv
<1> QED
  BY <1>2, <1>3, <1>6, CallMoves

\* A commit shows the rows of a call to everybody.
LEMMA CallCommits ==
  ASSUME TokensInv, NEW c \in Calls, CommitCall(c)
  PROVE  TokensInv'
<1>1. /\ call \in [Calls -> CallRecords] /\ call[c] \in CallRecords /\ TokensTypeOK
      /\ \A d \in Calls : CallInv(d) /\ Aged(tokens.live[d])
      /\ tokens \in Tables(Calls, TokenRows, Calls) /\ today \in Nat
  BY DEF TokensInv, TokensInvariant, TokensTypeOK
<1>2. call[c].pc = "commit" /\ UNCHANGED <<sent, today>> /\ tokens' = Publish(tokens, c)
  BY DEF CommitCall, CallAt
<1>3. /\ call' \in [Calls -> CallRecords]
      /\ \A d \in Calls : d # c => call'[d] = call[d]
      /\ call'[c].op = call[c].op /\ call'[c].with = call[c].with /\ call'[c].pc = "done"
  BY <1>1 DEF CommitCall, CallGoto, CallRecords
<1>4. /\ tokens' \in Tables(Calls, TokenRows, Calls) /\ tokens'.next = tokens.next
      /\ \A t \in Calls :
           /\ tokens'.live[t] = IF tokens.lock[t] = c THEN tokens.next[t] ELSE tokens.live[t]
           /\ tokens'.lock[t] = IF tokens.lock[t] = c THEN Free ELSE tokens.lock[t]
  BY <1>1, <1>2, PublishRow
<1>5. TokensTypeOK'
  BY <1>1, <1>2, <1>3, <1>4 DEF TokensTypeOK
<1>6. ASSUME NEW t \in Calls, tokens.lock[t] = c
      PROVE  Aged(tokens.next[t]) /\ (t # c => tokens.live[t].exists)
  <2>1. IssuedHeld(c) /\ RevokedHeld(c, t) /\ Aged(tokens.live[t]) /\ tokens.live[t] \in TokenRows
    BY <1>1, TokenFacts DEF CallInv
  <2>2. CASE t = c
    BY <1>6, <2>1, <2>2 DEF IssuedHeld
  <2>3. CASE t # c
    BY <1>6, <2>1, <2>3 DEF RevokedHeld, Aged, TokenRows
  <2> QED
    BY <2>2, <2>3
<1>7. \A t \in Calls : Aged(tokens.live[t])'
  BY <1>1, <1>2, <1>4, <1>6 DEF Aged
<1>8. ASSUME NEW d \in Calls, d # c PROVE CallInv(d)'
  <2>1. tokens'.live[d].exists => tokens.live[d].exists
    BY <1>4, <1>6, <1>8
  <2> QED
    BY <1>1, <1>2, <1>3, <1>4, <1>8, <2>1, OtherCalls, CallsAssumption
<1>9. CallInv(c)'
  <2>1. \A t \in Calls : tokens'.lock[t] # c
    BY <1>4, CallsAssumption
  <2>2. CallInv(c)
    BY <1>1
  <2> QED
    BY <1>3, <2>1, <2>2 DEF CallInv, IssuedHeld, RevokedHeld
<1> QED
  BY <1>5, <1>7, <1>8, <1>9 DEF TokensInv, TokensInvariant

\* A call that dies leaves the committed rows, and frees those it held.
LEMMA CallEnds ==
  ASSUME TokensInv, NEW c \in Calls, CallDies(c)
  PROVE  TokensInv'
<1>1. /\ call \in [Calls -> CallRecords] /\ call[c] \in CallRecords /\ TokensTypeOK
      /\ \A d \in Calls : CallInv(d) /\ Aged(tokens.live[d])
      /\ tokens \in Tables(Calls, TokenRows, Calls) /\ today \in Nat
  BY DEF TokensInv, TokensInvariant, TokensTypeOK
<1>2. call[c].pc # "done" /\ UNCHANGED <<sent, today>> /\ tokens' = Discard(tokens, {c})
  BY DEF CallDies
<1>3. /\ call' \in [Calls -> CallRecords]
      /\ \A d \in Calls : d # c => call'[d] = call[d]
      /\ call'[c].op = call[c].op /\ call'[c].with = call[c].with /\ call'[c].pc = "failed"
  BY <1>1 DEF CallDies, CallGoto, CallRecords
<1>4. /\ tokens' \in Tables(Calls, TokenRows, Calls) /\ tokens'.live = tokens.live
      /\ \A t \in Calls :
           /\ tokens'.next[t] = IF tokens.lock[t] \in {c} THEN tokens.live[t] ELSE tokens.next[t]
           /\ tokens'.lock[t] = IF tokens.lock[t] \in {c} THEN Free ELSE tokens.lock[t]
  BY <1>1, <1>2, DiscardRow
<1>5. TokensTypeOK'
  BY <1>1, <1>2, <1>3, <1>4 DEF TokensTypeOK
<1>6. \A t \in Calls : Aged(tokens.live[t])'
  BY <1>1, <1>2, <1>4 DEF Aged
<1>7. ASSUME NEW d \in Calls, d # c PROVE CallInv(d)'
  <2>1. \A t \in Calls : /\ tokens'.lock[t] = d <=> tokens.lock[t] = d
                         /\ tokens.lock[t] = d => tokens'.next[t] = tokens.next[t]
    BY <1>4, <1>7, CallsAssumption
  <2>2. today' \in Nat /\ today' >= today /\ tokens'.live = tokens.live /\ call'[d] = call[d]
    BY <1>1, <1>2, <1>3, <1>4, <1>7
  <2> QED
    BY <2>1, <2>2, OtherCalls
<1>8. CallInv(c)'
  <2>1. \A t \in Calls : tokens'.lock[t] # c
    BY <1>4, CallsAssumption
  <2>2. CallInv(c)
    BY <1>1
  <2> QED
    BY <1>2, <1>3, <1>4, <2>1, <2>2 DEF CallInv, IssuedHeld, RevokedHeld
<1> QED
  BY <1>5, <1>6, <1>7, <1>8 DEF TokensInv, TokensInvariant

\* What the clean-up does to a row: it deletes the stale ones, which nobody holds.
LEMMA CleanUp ==
  ASSUME TokensInv, delete_stale
  PROVE  /\ TokensTypeOK' /\ call' = call /\ today' = today
         /\ \A t \in Calls :
              /\ tokens'.live[t] = IF Stale(tokens.live[t]) THEN NoToken ELSE tokens.live[t]
              /\ tokens'.lock[t] = tokens.lock[t]
              /\ tokens.lock[t] # Free => tokens'.next[t] = tokens.next[t] /\ ~Stale(tokens.live[t])
<1> DEFINE stale == {t \in Calls : Stale(tokens.live[t])}
           written == PutAll(tokens, "auto_resume", stale, NoToken)
<1>1. /\ tokens.live \in [Calls -> TokenRows] /\ tokens.next \in [Calls -> TokenRows]
      /\ tokens.lock \in [Calls -> Calls \cup {Free}] /\ NoToken \in TokenRows
  BY TokenFacts DEF TokensInv
<1>2. /\ \A t \in stale : tokens.lock[t] = Free
      /\ tokens' = Publish(written, "auto_resume") /\ UNCHANGED <<call, sent, today>>
  BY DEF delete_stale
<1>3. /\ written.live = tokens.live
      /\ written.next = [t \in Calls |-> IF t \in stale THEN NoToken ELSE tokens.next[t]]
      /\ written.lock = [t \in Calls |-> IF t \in stale THEN "auto_resume" ELSE tokens.lock[t]]
      /\ written = [live |-> written.live, next |-> written.next, lock |-> written.lock]
  BY <1>1 DEF PutAll
<1>4. written \in Tables(Calls, TokenRows, Calls \cup {"auto_resume"})
  <2> HIDE DEF written, stale
  <2>1. written.live \in [Calls -> TokenRows] /\ written.next \in [Calls -> TokenRows]
    BY <1>1, <1>3
  <2>2. written.lock \in [Calls -> (Calls \cup {"auto_resume"}) \cup {Free}]
    BY <1>1, <1>3
  <2> QED
    BY <1>3, <2>1, <2>2 DEF Tables
<1> HIDE DEF written
<1>5. /\ tokens' \in Tables(Calls, TokenRows, Calls \cup {"auto_resume"})
      /\ tokens'.next = written.next
      /\ \A t \in Calls :
           /\ tokens'.live[t] = IF written.lock[t] = "auto_resume" THEN written.next[t] ELSE written.live[t]
           /\ tokens'.lock[t] = IF written.lock[t] = "auto_resume" THEN Free ELSE written.lock[t]
  BY <1>2, <1>4, PublishRow
<1>6. \A t \in Calls : tokens.lock[t] # "auto_resume"
  BY <1>1, CallsAssumption DEF Free
<1>7. \A t \in Calls :
        /\ tokens'.live[t] = IF t \in stale THEN NoToken ELSE tokens.live[t]
        /\ tokens'.lock[t] = tokens.lock[t]
        /\ t \notin stale => tokens'.next[t] = tokens.next[t]
  BY <1>2, <1>3, <1>5, <1>6
<1>8. tokens' \in Tables(Calls, TokenRows, Calls)
  <2>1. \A t \in Calls : tokens'.lock[t] \in Calls \cup {Free}
    BY <1>1, <1>7
  <2> QED
    BY <1>5, <2>1 DEF Tables
<1>9. TokensTypeOK'
  BY <1>2, <1>8 DEF TokensInv, TokensTypeOK
<1> QED
  BY <1>2, <1>7, <1>9
-----------------------------------------------------------------------------
\* Every step of the calls, the clean-up and the clock keeps the invariant.
LEMMA TokensNextInv == TokensInv /\ [TokensNext]_tokenVars => TokensInv'
<1> SUFFICES ASSUME TokensInv, [TokensNext]_tokenVars PROVE TokensInv'
  OBVIOUS
<1>1. today \in Nat /\ \A t \in Calls : Aged(tokens.live[t]) /\ tokens.live[t] \in TokenRows
  BY TokenFacts DEF TokensInv, TokensInvariant
<1>2. CASE delete_stale
  <2>1. \A t \in Calls : Aged(tokens.live[t])'
    BY <1>1, <1>2, CleanUp DEF Aged, NoToken
  <2>2. ASSUME NEW d \in Calls PROVE CallInv(d)'
    <3>1. d # Free /\ ~NoToken.exists
      BY CallsAssumption DEF NoToken
    <3> QED
      BY <1>1, <1>2, <3>1, CleanUp, OtherCalls
  <2> QED
    BY <1>2, <2>1, <2>2, CleanUp DEF TokensInv, TokensInvariant
<1>3. CASE DayPasses
  <2>1. today' \in Nat /\ today' >= today /\ UNCHANGED <<tokens, call, sent>>
    BY <1>1, <1>3 DEF DayPasses
  <2>2. TokensTypeOK'
    BY <2>1 DEF TokensInv, TokensTypeOK
  <2>3. ASSUME NEW t \in Calls PROVE Aged(tokens.live[t])'
    <3>1. tokens.live[t].created \in Nat
      BY <1>1 DEF TokenRows
    <3> QED
      BY <1>1, <2>1, <3>1 DEF Aged
  <2>4. \A d \in Calls : CallInv(d)'
    BY <2>1, OtherCalls
  <2> QED
    BY <2>2, <2>3, <2>4 DEF TokensInv, TokensInvariant
<1>4. CASE UNCHANGED tokenVars
  <2>1. UNCHANGED <<tokens, call, sent, today>>
    BY <1>4 DEF tokenVars
  <2>2. TokensTypeOK' /\ \A t \in Calls : Aged(tokens.live[t])'
    BY <1>1, <2>1 DEF TokensInv, TokensTypeOK, Aged
  <2>3. \A d \in Calls : CallInv(d)'
    BY <1>1, <2>1, OtherCalls
  <2> QED
    BY <2>2, <2>3 DEF TokensInv, TokensInvariant
<1>5. ASSUME NEW c \in Calls, CallArrives(c) \/ CallStep(c) \/ CallDies(c) PROVE TokensInv'
  BY <1>5, CallsArrive, TokenRevoked, TokenIssued, CallAnswered, CallCommits, CallEnds DEF CallStep
<1> QED
  BY <1>2, <1>3, <1>4, <1>5 DEF TokensNext

\* A refresh holds the row it revokes until the row that replaces it is committed
\* with it, in every reachable state (auth.py).
THEOREM TokensInvariantHolds == TokensSpec => [](TokensTypeOK /\ TokensInvariant)
<1>1. TokensInv => TokensTypeOK /\ TokensInvariant
  BY DEF TokensInv
<1> QED
  BY <1>1, TokensInitInv, TokensNextInv, PTL DEF TokensSpec

\* In one step, only the commit of a logout takes the last valid token away, or a day.
LEMMA StepSurvives ==
  ASSUME TokensInv, [TokensNext]_tokenVars, Valid # {}, Valid' = {}, today' = today
  PROVE  \E c \in Calls : /\ call[c].op = "logout"
                          /\ call[c].pc = "commit" /\ call'[c].pc = "done"
<1>1. PICK t \in Calls : /\ tokens.live[t].exists /\ ~tokens.live[t].revoked
                         /\ tokens.live[t].expires >= today
  BY DEF Valid
<1>2. \A x \in Calls : ~(/\ tokens'.live[x].exists /\ ~tokens'.live[x].revoked
                         /\ tokens'.live[x].expires >= today)
  BY DEF Valid
<1>3. tokens.live[t] \in TokenRows /\ today \in Nat /\ tokens.live[t].expires \in Nat
  BY TokenFacts DEF TokensInv, TokenRows
<1>4. tokens'.live # tokens.live
  BY <1>1, <1>2
<1>5. ~delete_stale
  <2>1. ~Stale(tokens.live[t])
    BY <1>1, <1>3 DEF Stale
  <2> QED
    BY <1>1, <1>2, <2>1, CleanUp
<1>6. PICK c \in Calls : CommitCall(c)
  <2>1. ASSUME NEW c \in Calls, NEW x \in Calls, Revoke(c, x) PROVE tokens'.live = tokens.live
    BY <2>1 DEF Revoke, Put
  <2>2. ASSUME NEW c \in Calls, Issue(c) PROVE tokens'.live = tokens.live
    BY <2>2 DEF Issue, Put
  <2>3. ASSUME NEW c \in Calls, CallDies(c) PROVE tokens'.live = tokens.live
    BY <2>3 DEF CallDies, Discard
  <2> QED
    BY <1>4, <1>5, <2>1, <2>2, <2>3
    DEF TokensNext, CallArrives, CallStep, LoginCalled, RefreshCalled, LogoutCalled, Load, Answer,
        DayPasses, tokenVars
<1>7. /\ tokens \in Tables(Calls, TokenRows, Calls) /\ call \in [Calls -> CallRecords]
      /\ call[c] \in CallRecords /\ \A d \in Calls : CallInv(d) /\ Aged(tokens.live[d])
  BY TokenFacts DEF TokensInv, TokensInvariant
<1>8. call[c].pc = "commit" /\ call'[c].pc = "done" /\ tokens' = Publish(tokens, c)
  BY <1>6, <1>7 DEF CommitCall, CallAt, CallGoto, CallRecords
<1>9. \A x \in Calls :
        tokens'.live[x] = IF tokens.lock[x] = c THEN tokens.next[x] ELSE tokens.live[x]
  BY <1>7, <1>8, PublishRow
<1>10. call[c].op = "logout"
  <2> SUFFICES ASSUME call[c].op # "logout" PROVE FALSE
    OBVIOUS
  <2>1. /\ tokens.lock[c] = c /\ tokens.next[c].exists /\ ~tokens.next[c].revoked
        /\ Aged(tokens.next[c]) /\ RevokedHeld(c, t) /\ ~tokens.live[c].exists
    BY <1>7, <1>8 DEF CallInv, IssuedHeld
  <2>2. t # c /\ tokens.lock[t] = c
    BY <1>1, <1>2, <1>9, <2>1
  <2>3. call[c].op = "refresh"
    BY <1>7, <2>1, <2>2 DEF RevokedHeld, CallRecords
  <2>4. tokens.live[t].created <= tokens.next[c].created
    BY <1>8, <2>1, <2>2, <2>3 DEF RevokedHeld
  <2>5. /\ tokens.live[t].expires = tokens.live[t].created + Ttl
        /\ tokens.next[c].expires = tokens.next[c].created + Ttl
    BY <1>1, <1>7, <2>1 DEF Aged
  <2>6. tokens.next[c] \in TokenRows /\ tokens.live[t].created \in Nat /\ tokens.next[c].created \in Nat
    <3>1. tokens.next[c] \in TokenRows
      BY TokenFacts DEF TokensInv
    <3> QED
      BY <1>3, <3>1 DEF TokenRows
  <2>7. tokens.next[c].expires >= today
    BY <1>1, <1>3, <2>4, <2>5, <2>6, DaysAssumption
  <2> QED
    BY <1>2, <1>9, <2>1, <2>7
<1> QED
  BY <1>8, <1>10

\* A user who can refresh can go on doing so: whatever refreshes overlap, whichever
\* of them dies and whatever the clean-up deletes (auth.py, maintenance.py).
THEOREM SessionSurvivesHolds == TokensSpec => SessionSurvives
<1>1. TokensInv /\ [TokensNext]_tokenVars =>
        [(Valid # {} /\ Valid' = {} /\ today' = today) =>
           \E c \in Calls : /\ call[c].op = "logout"
                            /\ call[c].pc = "commit" /\ call'[c].pc = "done"]_tokenVars
  BY StepSurvives
<1> QED
  BY <1>1, TokensInitInv, TokensNextInv, PTL DEF TokensSpec, SessionSurvives

\* The same beside the requests that make accounts: the two halves of auth.py share
\* no table.
THEOREM AuthSurvives == AuthSpec => Spec /\ TokensSpec /\ SessionSurvives
<1>1. AuthInit => Init /\ TokensInit
  BY DEF AuthInit
<1>2. [AuthNext]_<<vars, tokenVars>> => [Next]_vars /\ [TokensNext]_tokenVars
  BY DEF AuthNext
<1> QED
  BY <1>1, <1>2, SessionSurvivesHolds, PTL DEF AuthSpec, Spec, TokensSpec
=============================================================================
