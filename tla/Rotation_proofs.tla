-------------------------- MODULE Rotation_proofs --------------------------
(***************************************************************************)
(* What assign_senders_round_robin promises for every pool, every limit    *)
(* and every number of recipients, and that the plans of CampaignPlan keep *)
(* these promises and the delay that was asked for.                        *)
(***************************************************************************)
EXTENDS CampaignPlan, SumTheorems

\* A remainder is below the divisor.
LEMMA RemainderBelow ==
  ASSUME NEW n \in Nat \ {0}, NEW x \in Nat
  PROVE  x % n \in 0..(n - 1)
  OBVIOUS

\* The remainders of a number below n and of n more than it.
LEMMA RemainderOfSmall ==
  ASSUME NEW n \in Nat \ {0}, NEW x \in 0..(n - 1)
  PROVE  x % n = x /\ (x + n) % n = x
  OBVIOUS

\* A pool is a sequence of one to MaxPool senders.
LEMMA PoolLength ==
  ASSUME NEW p \in Pools
  PROVE  Len(p) \in 1..MaxPool /\ \A i \in 1..Len(p) : p[i] \in Senders
  BY BoundsAssumption DEF Pools

\* The types hold in every reachable state: the cursor stays inside the pool.
THEOREM TypeCorrect == Spec => []TypeOK
<1>1. Init => TypeOK
  <2> SUFFICES ASSUME Init PROVE TypeOK
    OBVIOUS
  <2>1. N \in 1..MaxPool /\ \A i \in 1..N : ordered[i] \in Senders
    BY PoolLength DEF Init, N
  <2>2. cursor \in 0..(N - 1)
    BY <2>1, BoundsAssumption DEF Init
  <2>3. result \in Seq(Senders) /\ Len(result) <= email_count
    BY BoundsAssumption DEF Init
  <2> QED
    BY <2>1, <2>2, <2>3 DEF Init, TypeOK
<1>2. TypeOK /\ [Next]_vars => TypeOK'
  <2> SUFFICES ASSUME TypeOK, [Next]_vars PROVE TypeOK'
    OBVIOUS
  <2> USE BoundsAssumption
  <2>1. CASE Stop
    BY <2>1 DEF Stop, TypeOK, N, input
  <2>2. ASSUME NEW attempt \in 0..(N - 1), Assign(attempt) PROVE TypeOK'
    <3>1. ordered' = ordered /\ limit' = limit /\ email_count' = email_count /\ done' = done
      BY <2>2 DEF Assign, input
    <3>2. N' = N /\ N \in Nat \ {0}
      BY <3>1 DEF TypeOK, N
    <3>3. (cursor + attempt) % N \in 0..(N - 1) /\ (cursor + attempt + 1) % N \in 0..(N - 1)
      BY <3>2, RemainderBelow DEF TypeOK
    <3>4. Candidate(attempt) \in Senders
      BY <3>2, <3>3 DEF Candidate, TypeOK
    <3>5. assigned' \in [Senders -> Nat]
      BY <2>2, <3>4 DEF Assign, TypeOK
    <3>6. result' \in Seq(Senders) /\ Len(result') <= email_count
      BY <2>2, <3>4 DEF Assign, TypeOK
    <3> QED
      BY <2>2, <3>1, <3>2, <3>3, <3>5, <3>6 DEF Assign, TypeOK
  <2>3. CASE UNCHANGED vars
    BY <2>3 DEF vars, input, TypeOK, N
  <2> QED
    BY <2>1, <2>2, <2>3 DEF Next
<1> QED
  BY <1>1, <1>2, PTL DEF Spec

\* No sender is given more recipients than its daily limit, whatever the pool.
THEOREM LimitsKept == Spec => []LimitsRespected
<1>1. Init => LimitsRespected
  BY BoundsAssumption, NoLimitAssumption DEF Init, LimitsRespected, Limits
<1>2. TypeOK /\ LimitsRespected /\ [Next]_vars => LimitsRespected'
  <2> SUFFICES ASSUME TypeOK, LimitsRespected, [Next]_vars PROVE LimitsRespected'
    OBVIOUS
  <2>1. ASSUME NEW attempt \in 0..(N - 1), Assign(attempt) PROVE LimitsRespected'
    <3>1. HasRoom(Candidate(attempt))
      BY <2>1 DEF Assign, Chosen
    <3>2. limit' = limit /\ assigned' = [assigned EXCEPT ![Candidate(attempt)] = @ + 1]
      BY <2>1 DEF Assign, input
    <3>3. SUFFICES ASSUME NEW s \in Senders, limit[s] # NoLimit PROVE assigned'[s] <= limit[s]
      BY <3>2 DEF LimitsRespected
    <3>4. limit[s] \in Nat /\ assigned[s] \in Nat /\ assigned[s] <= limit[s]
      BY <3>3, BoundsAssumption DEF TypeOK, Limits, LimitsRespected
    <3>5. CASE s = Candidate(attempt)
      BY <3>1, <3>2, <3>3, <3>4, <3>5 DEF HasRoom, TypeOK
    <3>6. CASE s # Candidate(attempt)
      BY <3>2, <3>4, <3>6 DEF TypeOK
    <3> QED
      BY <3>5, <3>6
  <2>2. CASE Stop
    BY <2>2 DEF Stop, input, LimitsRespected
  <2>3. CASE UNCHANGED vars
    BY <2>3 DEF vars, input, LimitsRespected
  <2> QED
    BY <2>1, <2>2, <2>3 DEF Next
<1> QED
  BY <1>1, <1>2, TypeCorrect, PTL DEF Spec

\* The attempts of one round reach every sender of the pool, wherever the
\* cursor stands.
LEMMA RoundReachesAll ==
  ASSUME TypeOK, NEW i \in 1..N
  PROVE  \E attempt \in 0..(N - 1) : Candidate(attempt) = ordered[i]
<1>1. N \in Nat \ {0} /\ cursor \in 0..(N - 1)
  BY BoundsAssumption DEF TypeOK
<1>2. CASE cursor <= i - 1
  <2>1. cursor + (i - 1 - cursor) = i - 1 /\ i - 1 \in 0..(N - 1) /\ i - 1 - cursor \in 0..(N - 1)
    BY <1>1, <1>2
  <2>2. (cursor + (i - 1 - cursor)) % N = i - 1
    BY <1>1, <2>1, RemainderOfSmall
  <2>3. Candidate(i - 1 - cursor) = ordered[i]
    BY <2>2, <1>1 DEF Candidate
  <2> QED
    BY <2>1, <2>3
<1>3. CASE i - 1 < cursor
  <2>1. cursor + (i - 1 - cursor + N) = i - 1 + N /\ i - 1 \in 0..(N - 1)
          /\ i - 1 - cursor + N \in 0..(N - 1)
    BY <1>1, <1>3
  <2>2. (cursor + (i - 1 - cursor + N)) % N = i - 1
    BY <1>1, <2>1, RemainderOfSmall
  <2>3. Candidate(i - 1 - cursor + N) = ordered[i]
    BY <2>2, <1>1 DEF Candidate
  <2> QED
    BY <2>1, <2>3
<1> QED
  BY <1>1, <1>2, <1>3

\* The loop leaves a recipient without a sender only when the whole pool is full.
THEOREM NobodyIsLeftOut == Spec => []NobodyLeftOut
<1>1. Init => NobodyLeftOut
  BY DEF Init, NobodyLeftOut
<1>2. TypeOK /\ NobodyLeftOut /\ [Next]_vars => NobodyLeftOut'
  <2> SUFFICES ASSUME TypeOK, NobodyLeftOut, [Next]_vars PROVE NobodyLeftOut'
    OBVIOUS
  <2>1. CASE Stop
    <3>1. UNCHANGED <<ordered, limit, email_count, assigned, result>>
      BY <2>1 DEF Stop, input
    <3>2. SUFFICES ASSUME Len(result) < email_count, NEW s \in InPool PROVE ~HasRoom(s)
      BY <3>1 DEF NobodyLeftOut, HasRoom, InPool, N
    <3>3. \A attempt \in 0..(N - 1) : ~HasRoom(Candidate(attempt))
      BY <2>1, <3>2 DEF Stop, TypeOK
    <3>4. PICK i \in 1..N : s = ordered[i]
      BY <3>2 DEF InPool
    <3> QED
      BY <3>3, <3>4, RoundReachesAll
  <2>2. ASSUME NEW attempt \in 0..(N - 1), Assign(attempt) PROVE NobodyLeftOut'
    BY <2>2 DEF Assign, NobodyLeftOut
  <2>3. CASE UNCHANGED vars
    BY <2>3 DEF vars, input, NobodyLeftOut, HasRoom, InPool, N
  <2> QED
    BY <2>1, <2>2, <2>3 DEF Next
<1> QED
  BY <1>1, <1>2, TypeCorrect, PTL DEF Spec
-----------------------------------------------------------------------------
\* The pool has no sender twice.
Distinct == \A i, k \in 1..N : ordered[i] = ordered[k] => i = k

\* Round r is under way: who has room and stands before the cursor has had its
\* turn in it, and the others have not.
InRound(r) ==
  \A i \in 1..N : HasRoom(ordered[i]) =>
    assigned[ordered[i]] = IF i - 1 < cursor THEN r + 1 ELSE r

\* The inductive invariant behind Balanced.
Rounds == Distinct /\ \E r \in Nat : InRound(r)

\* The attempt that finds a sender is in this round or, round the end of the pool, in
\* the next.
LEMMA AttemptPlace ==
  ASSUME TypeOK, NEW attempt \in 0..(N - 1), NEW j \in 1..N,
         j = ((cursor + attempt) % N) + 1
  PROVE  /\ cursor + attempt < N => j - 1 = cursor + attempt
         /\ cursor + attempt >= N => j - 1 = cursor + attempt - N
<1>1. N \in Nat \ {0} /\ cursor \in 0..(N - 1)
  BY BoundsAssumption DEF TypeOK
<1>2. CASE cursor + attempt < N
  <2>1. cursor + attempt \in 0..(N - 1)
    BY <1>1, <1>2
  <2> QED
    BY <1>1, <1>2, <2>1, RemainderOfSmall
<1>3. CASE cursor + attempt >= N
  <2>1. cursor + attempt - N \in 0..(N - 1) /\ (cursor + attempt - N) + N = cursor + attempt
    BY <1>1, <1>3
  <2>2. (cursor + attempt) % N = cursor + attempt - N
    BY <1>1, <2>1, RemainderOfSmall
  <2> QED
    BY <1>1, <1>3, <2>2
<1> QED
  BY <1>1, <1>2, <1>3

\* Who is passed over by the attempts before the one that finds a sender has no room.
LEMMA PassedOver ==
  ASSUME TypeOK, NEW attempt \in 0..(N - 1), Chosen(attempt), NEW i \in 1..N,
         \/ cursor <= i - 1 /\ i - 1 < cursor + attempt
         \/ i - 1 < cursor + attempt - N
  PROVE  ~HasRoom(ordered[i])
<1>1. N \in Nat \ {0} /\ cursor \in 0..(N - 1)
  BY BoundsAssumption DEF TypeOK
<1>2. CASE cursor <= i - 1 /\ i - 1 < cursor + attempt
  <2>1. i - 1 - cursor \in 0..(attempt - 1) /\ cursor + (i - 1 - cursor) = i - 1 /\ i - 1 \in 0..(N - 1)
    BY <1>1, <1>2
  <2>2. Candidate(i - 1 - cursor) = ordered[i]
    <3>1. (cursor + (i - 1 - cursor)) % N = i - 1
      BY <1>1, <2>1, RemainderOfSmall
    <3> QED
      BY <1>1, <3>1 DEF Candidate
  <2> QED
    BY <2>1, <2>2 DEF Chosen
<1>3. CASE i - 1 < cursor + attempt - N
  <2>1. /\ i - 1 - cursor + N \in 0..(attempt - 1) /\ i - 1 \in 0..(N - 1)
        /\ cursor + (i - 1 - cursor + N) = (i - 1) + N
    BY <1>1, <1>3
  <2>2. Candidate(i - 1 - cursor + N) = ordered[i]
    <3>1. (cursor + (i - 1 - cursor + N)) % N = i - 1
      BY <1>1, <2>1, RemainderOfSmall
    <3> QED
      BY <1>1, <3>1 DEF Candidate
  <2> QED
    BY <2>1, <2>2 DEF Chosen
<1> QED
  BY <1>2, <1>3

\* A recipient more leaves a round under way.
LEMMA RoundGoesOn ==
  ASSUME TypeOK, Rounds, NEW attempt \in 0..(N - 1), Assign(attempt)
  PROVE  Rounds'
<1>1. /\ N \in Nat \ {0} /\ cursor \in 0..(N - 1) /\ assigned \in [Senders -> Nat]
      /\ \A i \in 1..N : ordered[i] \in Senders
  BY BoundsAssumption DEF TypeOK
<1>2. ordered' = ordered /\ limit' = limit /\ N' = N /\ Chosen(attempt)
  BY DEF Assign, input, N
<1>r. PICK r \in Nat : InRound(r)
  BY DEF Rounds
<1>j. PICK j \in 1..N : j = ((cursor + attempt) % N) + 1
  BY <1>1, RemainderBelow
<1>3. /\ assigned' = [assigned EXCEPT ![ordered[j]] = @ + 1]
      /\ cursor' = (cursor + attempt + 1) % N /\ HasRoom(ordered[j])
  BY <1>j DEF Assign, Chosen, Candidate
<1>4. /\ cursor + attempt < N => j - 1 = cursor + attempt
      /\ cursor + attempt >= N => j - 1 = cursor + attempt - N
  BY <1>j, AttemptPlace
<1>5. /\ assigned'[ordered[j]] = assigned[ordered[j]] + 1
      /\ \A i \in 1..N : i # j => assigned'[ordered[i]] = assigned[ordered[i]]
  BY <1>1, <1>3 DEF Rounds, Distinct
<1>6. \A i \in 1..N : HasRoom(ordered[i])' => HasRoom(ordered[i])
  <2> SUFFICES ASSUME NEW i \in 1..N, HasRoom(ordered[i])' PROVE HasRoom(ordered[i])
    OBVIOUS
  <2>1. CASE i = j
    BY <1>3, <2>1
  <2>2. CASE i # j
    BY <1>2, <1>5, <2>2 DEF HasRoom
  <2> QED
    BY <2>1, <2>2
<1>7. cursor' = IF j = N THEN 0 ELSE j
  <2>1. CASE cursor + attempt < N
    <3>1. cursor + attempt + 1 = j
      BY <1>1, <1>4, <2>1
    <3>2. CASE j = N
      <4>1. 0 \in 0..(N - 1) /\ 0 + N = N
        BY <1>1
      <4>2. N % N = 0
        BY <1>1, <4>1, RemainderOfSmall
      <4> QED
        BY <1>3, <3>1, <3>2, <4>2
    <3>3. CASE j # N
      <4>1. j \in 0..(N - 1)
        BY <1>1, <3>3
      <4> QED
        BY <1>1, <1>3, <3>1, <3>3, <4>1, RemainderOfSmall
    <3> QED
      BY <3>2, <3>3
  <2>2. CASE cursor + attempt >= N
    <3>1. cursor + attempt + 1 = j + N /\ j \in 0..(N - 1) /\ j # N
      BY <1>1, <1>4, <2>2
    <3>2. (j + N) % N = j
      BY <1>1, <3>1, RemainderOfSmall
    <3> QED
      BY <1>3, <3>1, <3>2
  <2> QED
    BY <1>1, <2>1, <2>2
<1>8. \E k \in Nat : \A i \in 1..N : HasRoom(ordered[i]) /\ HasRoom(ordered[i])' =>
        assigned'[ordered[i]] = IF i - 1 < cursor' THEN k + 1 ELSE k
  <2>1. CASE cursor + attempt < N /\ j # N
    <3>1. j - 1 = cursor + attempt /\ cursor' = j
      BY <1>4, <1>7, <2>1
    <3>2. ASSUME NEW i \in 1..N, HasRoom(ordered[i])
          PROVE  assigned'[ordered[i]] = IF i - 1 < cursor' THEN r + 1 ELSE r
      <4>1. assigned[ordered[i]] = IF i - 1 < cursor THEN r + 1 ELSE r
        BY <1>r, <3>2 DEF InRound
      <4>2. ~(cursor <= i - 1 /\ i - 1 < cursor + attempt)
        BY <1>2, <3>2, PassedOver
      <4> QED
        BY <1>1, <1>5, <3>1, <4>1, <4>2
    <3> QED
      BY <3>2
  <2>2. CASE cursor + attempt < N /\ j = N
    <3>1. j - 1 = cursor + attempt /\ cursor' = 0
      BY <1>4, <1>7, <2>2
    <3>2. ASSUME NEW i \in 1..N, HasRoom(ordered[i])
          PROVE  assigned'[ordered[i]] = r + 1 /\ ~(i - 1 < cursor')
      <4>1. assigned[ordered[i]] = IF i - 1 < cursor THEN r + 1 ELSE r
        BY <1>r, <3>2 DEF InRound
      <4>2. ~(cursor <= i - 1 /\ i - 1 < cursor + attempt)
        BY <1>2, <3>2, PassedOver
      <4> QED
        BY <1>1, <1>5, <2>2, <3>1, <4>1, <4>2
    <3> QED
      BY <1>r, <3>2
  <2>3. CASE cursor + attempt >= N
    <3>1. j - 1 = cursor + attempt - N /\ cursor' = j /\ j <= cursor
      BY <1>1, <1>4, <1>7, <2>3
    <3>2. ASSUME NEW i \in 1..N, HasRoom(ordered[i])
          PROVE  assigned'[ordered[i]] = IF i - 1 < cursor' THEN (r + 1) + 1 ELSE r + 1
      <4>1. assigned[ordered[i]] = IF i - 1 < cursor THEN r + 1 ELSE r
        BY <1>r, <3>2 DEF InRound
      <4>2. ~(cursor <= i - 1 /\ i - 1 < cursor + attempt) /\ ~(i - 1 < cursor + attempt - N)
        BY <1>2, <3>2, PassedOver
      <4> QED
        BY <1>1, <1>5, <2>3, <3>1, <4>1, <4>2
    <3> QED
      BY <1>r, <3>2
  <2> QED
    BY <1>1, <2>1, <2>2, <2>3
<1>9. Distinct'
  BY <1>2 DEF Rounds, Distinct
<1> QED
  BY <1>2, <1>6, <1>8, <1>9 DEF Rounds, InRound

\* The loop goes round the pool and the senders with room take turns, in every
\* reachable state.
THEOREM RoundsHold == Spec => []Rounds
<1>1. Init => Rounds
  <2> SUFFICES ASSUME Init PROVE Rounds
    OBVIOUS
  <2>1. N \in Nat /\ \A i \in 1..N : ordered[i] \in Senders
    BY PoolLength, BoundsAssumption DEF Init, N
  <2>2. Distinct
    <3>1. DOMAIN ordered = 1..N
      BY PoolLength DEF Init, Pools, N
    <3> QED
      BY <3>1 DEF Init, Distinct
  <2>3. InRound(0)
    BY <2>1 DEF Init, InRound
  <2> QED
    BY <2>2, <2>3 DEF Rounds
<1>2. TypeOK /\ Rounds /\ [Next]_vars => Rounds'
  <2> SUFFICES ASSUME TypeOK, Rounds, [Next]_vars PROVE Rounds'
    OBVIOUS
  <2>1. CASE Stop
    BY <2>1 DEF Stop, input, Rounds, Distinct, InRound, HasRoom, N
  <2>2. CASE UNCHANGED vars
    BY <2>2 DEF vars, input, Rounds, Distinct, InRound, HasRoom, N
  <2> QED
    BY <2>1, <2>2, RoundGoesOn DEF Next
<1> QED
  BY <1>1, <1>2, TypeCorrect, PTL DEF Spec

\* Two senders that still have room differ by one recipient at most, whatever the
\* limits of the others (assign_senders_round_robin).
THEOREM BalancedHolds == Spec => []Balanced
<1>1. TypeOK /\ Rounds => Balanced
  <2> SUFFICES ASSUME TypeOK, Rounds, NEW s \in InPool, NEW t \in InPool, HasRoom(s), HasRoom(t)
               PROVE  assigned[s] <= assigned[t] + 1
    BY DEF Balanced
  <2>1. PICK r \in Nat : InRound(r)
    BY DEF Rounds
  <2>2. assigned[s] \in {r, r + 1} /\ assigned[t] \in {r, r + 1}
    BY <2>1 DEF InPool, InRound
  <2> QED
    BY <2>2
<1> QED
  BY <1>1, RoundsHold, TypeCorrect, PTL

\* A number is what its quotient and its remainder make of it, and no other pair does.
LEMMA QuotientAndRemainder ==
  ASSUME NEW n \in Nat \ {0}, NEW x \in Nat
  PROVE  x = n * (x \div n) + (x % n) /\ x \div n \in Nat /\ x % n \in 0..(n - 1)
  OBVIOUS

\* Quotient and remainder determine the remainder.
LEMMA RemainderUnique ==
  ASSUME NEW n \in Nat \ {0}, NEW q \in Nat, NEW m \in 0..(n - 1)
  PROVE  (n * q + m) % n = m
  OBVIOUS

\* One more, then the remainder: as well as the remainder of one more.
LEMMA RemainderNext ==
  ASSUME NEW n \in Nat \ {0}, NEW x \in Nat
  PROVE  ((x % n) + 1) % n = (x + 1) % n
<1>1. PICK q \in Nat, m \in 0..(n - 1) : x = n * q + m /\ m = x % n
  BY QuotientAndRemainder
<1>2. CASE m + 1 < n
  <2>1. x + 1 = n * q + (m + 1) /\ m + 1 \in 0..(n - 1)
    BY <1>1, <1>2
  <2>2. (x + 1) % n = m + 1
    BY <2>1, RemainderUnique
  <2>3. m + 1 = n * 0 + (m + 1)
    BY <1>1
  <2>4. (m + 1) % n = m + 1
    BY <2>1, <2>3, RemainderUnique
  <2> QED
    BY <1>1, <2>2, <2>4
<1>3. CASE m + 1 = n
  <2>1. x + 1 = n * (q + 1) + 0 /\ q + 1 \in Nat /\ 0 \in 0..(n - 1)
    <3>1. n * (q + 1) = n * q + n
      OBVIOUS
    <3>2. PICK p \in Nat : p = n * q
      OBVIOUS
    <3>3. x = p + m /\ m + 1 = n /\ m \in Int
      BY <1>1, <1>3, <3>2
    <3>4. x + 1 = p + n
      BY <3>2, <3>3
    <3> QED
      BY <1>1, <3>1, <3>2, <3>4
  <2>2. (x + 1) % n = 0
    BY <2>1, RemainderUnique
  <2>3. n = n * 1 + 0
    OBVIOUS
  <2>4. n % n = 0
    BY <2>3, RemainderUnique
  <2> QED
    BY <1>1, <1>3, <2>2, <2>4
<1> QED
  BY <1>1, <1>2, <1>3

\* Nobody in the pool has a limit.
NoLimits == \A s \in InPool : limit[s] = NoLimit

\* The inductive invariant behind ShortCutAgrees: the cursor counts the recipients.
InTurn ==
  NoLimits =>
    /\ cursor = Len(result) % N
    /\ \A i \in 1..Len(result) : result[i] = ordered[((i - 1) % N) + 1]

\* Without limits the first attempt finds a sender, which is the next in turn.
LEMMA TurnGoesOn ==
  ASSUME TypeOK, InTurn, NEW attempt \in 0..(N - 1), Assign(attempt)
  PROVE  InTurn'
<1>1. /\ N \in Nat \ {0} /\ cursor \in 0..(N - 1) /\ result \in Seq(Senders)
      /\ \A i \in 1..N : ordered[i] \in Senders
  BY BoundsAssumption DEF TypeOK
<1>2. ordered' = ordered /\ limit' = limit /\ N' = N /\ Chosen(attempt)
  BY DEF Assign, input, N
<1> SUFFICES ASSUME NoLimits
             PROVE  /\ cursor' = Len(result') % N
                    /\ \A i \in 1..Len(result') : result'[i] = ordered[((i - 1) % N) + 1]
  BY <1>2 DEF InTurn, NoLimits, InPool
<1>3. cursor % N = cursor /\ (cursor + 0) % N = cursor
  BY <1>1, RemainderOfSmall
<1>4. Candidate(0) = ordered[cursor + 1] /\ HasRoom(Candidate(0))
  <2>1. Candidate(0) = ordered[cursor + 1]
    BY <1>3 DEF Candidate
  <2> QED
    BY <1>1, <2>1 DEF NoLimits, InPool, HasRoom
<1>5. attempt = 0
  BY <1>1, <1>2, <1>4 DEF Chosen
<1>6. /\ result' = Append(result, ordered[cursor + 1])
      /\ cursor' = (cursor + 1) % N
  <2>1. cursor + attempt + 1 = cursor + 1
    BY <1>1, <1>5
  <2> QED
    BY <1>4, <1>5, <2>1 DEF Assign
<1>n. PICK n \in Nat : n = Len(result)
  BY <1>1
<1>7. /\ cursor = n % N
      /\ \A i \in 1..n : result[i] = ordered[((i - 1) % N) + 1]
  BY <1>n DEF InTurn
<1>8. cursor' = (n + 1) % N
  BY <1>1, <1>6, <1>7, RemainderNext
<1>9. /\ Len(result') = n + 1 /\ result'[n + 1] = ordered[cursor + 1]
      /\ \A i \in 1..n : result'[i] = result[i]
  BY <1>1, <1>6, <1>n
<1>10. ASSUME NEW i \in 1..(n + 1) PROVE result'[i] = ordered[((i - 1) % N) + 1]
  <2>1. CASE i = n + 1
    <3>1. i - 1 = n
      BY <2>1
    <3> QED
      BY <1>7, <1>9, <2>1, <3>1
  <2>2. CASE i # n + 1
    <3>1. i \in 1..n
      BY <2>2
    <3> QED
      BY <1>7, <1>9, <3>1
  <2> QED
    BY <2>1, <2>2
<1> QED
  BY <1>8, <1>9, <1>10

\* Without limits the loop gives index i the sender i modulo the size of the pool, in
\* every reachable state.
THEOREM InTurnHolds == Spec => []InTurn
<1>1. Init => InTurn
  <2> SUFFICES ASSUME Init PROVE InTurn
    OBVIOUS
  <2>1. N \in Nat \ {0} /\ cursor = 0 /\ result = <<>>
    BY PoolLength, BoundsAssumption DEF Init, N
  <2>2. 0 \in 0..(N - 1)
    BY <2>1
  <2>3. 0 % N = 0
    BY <2>1, <2>2, RemainderOfSmall
  <2> QED
    BY <2>1, <2>3 DEF InTurn
<1>2. TypeOK /\ InTurn /\ [Next]_vars => InTurn'
  <2> SUFFICES ASSUME TypeOK, InTurn, [Next]_vars PROVE InTurn'
    OBVIOUS
  <2>1. CASE Stop
    BY <2>1 DEF Stop, input, InTurn, NoLimits, InPool, N
  <2>2. CASE UNCHANGED vars
    BY <2>2 DEF vars, input, InTurn, NoLimits, InPool, N
  <2> QED
    BY <2>1, <2>2, TurnGoesOn DEF Next
<1> QED
  BY <1>1, <1>2, TypeCorrect, PTL DEF Spec

\* The short cut of the function and its loop give the same senders (rotation.py).
THEOREM ShortCutHolds == Spec => []ShortCutAgrees
<1>1. InTurn => ShortCutAgrees
  BY DEF InTurn, NoLimits, ShortCutAgrees
<1> QED
  BY <1>1, InTurnHolds, PTL
-----------------------------------------------------------------------------
\* Making a plan, create rotates the senders as assign_senders_round_robin does.
THEOREM PlanRotates == PlanSpec => Spec
<1>1. PlanInit => Init
  BY DEF PlanInit
<1>2. [PlanNext]_planVars => [Next]_vars
  BY DEF PlanNext, planVars, compute_send_offsets, InsertJobs
<1> QED
  BY <1>1, <1>2, PTL DEF PlanSpec, Spec

\* The larger of two numbers is one of them, and below neither.
LEMMA MaxNat ==
  ASSUME NEW m \in Int, NEW n \in Int
  PROVE  Max({m, n}) \in {m, n} /\ Max({m, n}) >= m /\ Max({m, n}) >= n
  BY DEF Max

\* The least number of time units between two mails.
Least == IF delay > avg_gap THEN 4 * combined_hourly * delay_seconds
         ELSE Max({5 * combined_hourly * delay_seconds, 3 * HourLength})

\* It is four fifths of the delay, or all of it, and three fifths of the average gap.
LEMMA LeastGap ==
  ASSUME combined_hourly \in Nat, delay_seconds \in Nat
  PROVE  /\ Least \in Nat /\ Least >= 3 * HourLength
         /\ delay > avg_gap => Least = 4 * (combined_hourly * delay_seconds)
         /\ ~(delay > avg_gap) => Least >= 5 * (combined_hourly * delay_seconds)
         /\ delay = 5 * (combined_hourly * delay_seconds) /\ avg_gap = 5 * HourLength
<1>1. PICK d \in Nat : d = combined_hourly * delay_seconds
  OBVIOUS
<1>2. /\ 4 * combined_hourly * delay_seconds = 4 * d
      /\ 5 * combined_hourly * delay_seconds = 5 * d
  BY <1>1
<1>3. delay = 5 * d /\ avg_gap = 5 * HourLength /\ HourLength \in Nat
  BY <1>2, HourLengthAssumption DEF delay, avg_gap
<1>4. Least = IF delay > avg_gap THEN 4 * d ELSE Max({5 * d, 3 * HourLength})
  BY <1>2 DEF Least
<1>5. /\ Max({5 * d, 3 * HourLength}) \in Nat
      /\ Max({5 * d, 3 * HourLength}) >= 5 * d /\ Max({5 * d, 3 * HourLength}) >= 3 * HourLength
  <2>1. PICK m \in Nat, n \in Nat : m = 5 * d /\ n = 3 * HourLength
    BY <1>3
  <2>2. Max({m, n}) \in {m, n} /\ Max({m, n}) >= m /\ Max({m, n}) >= n
    BY MaxNat
  <2> QED
    BY <2>1, <2>2
<1> QED
  BY <1>1, <1>3, <1>4, <1>5

\* The least time from mail i to mail k.
Span(i, k) == Least * (k - i)

\* The offsets never come closer than that, and the rows are planned at them.
OffsetsApart ==
  /\ combined_hourly \in Nat /\ delay_seconds \in Nat
  /\ offsets \in Seq(Nat)
  /\ \A i, k \in 1..Len(offsets) : i < k => offsets[k] >= offsets[i] + Span(i, k)
  /\ rows # <<>> => Len(offsets) = email_count
  /\ rows \in Seq([sender_id : Senders \cup {None}, at : Nat])
  /\ \A i \in 1..Len(rows) : i \in 1..Len(offsets) /\ rows[i].at = offsets[i]

\* No gap is shorter.
LEMMA GapsLong ==
  ASSUME combined_hourly \in Nat, delay_seconds \in Nat, NEW gap \in Gaps
  PROVE  gap \in Nat /\ gap >= Least /\ Least \in Nat
<1>1. PICK d \in Nat : d = combined_hourly * delay_seconds
  OBVIOUS
<1>2. delay = 5 * d /\ avg_gap = 5 * HourLength /\ HourLength \in Nat /\ Least \in Nat
  BY <1>1, LeastGap, HourLengthAssumption
<1>3. CASE delay > avg_gap
  <2>1. PICK k \in {4, 5, 6} : gap = (delay * k) \div 5
    BY <1>3 DEF Gaps
  <2>2. gap = d * k
    BY <1>2, <2>1
  <2>3. Least = 4 * d
    BY <1>1, <1>3, LeastGap
  <2> QED
    BY <1>2, <2>1, <2>2, <2>3
<1>4. CASE ~(delay > avg_gap)
  <2>1. PICK k \in {3, 5, 7} : gap = Max({delay, (avg_gap * k) \div 5})
    BY <1>4 DEF Gaps
  <2>2. delay \in Nat /\ (avg_gap * k) \div 5 = HourLength * k /\ HourLength * k \in Nat
    BY <1>2, <2>1
  <2>3. gap \in Nat /\ gap >= delay /\ gap >= HourLength * k
    BY <2>1, <2>2, MaxNat
  <2>4. gap >= 5 * d /\ gap >= 3 * HourLength
    BY <1>2, <2>1, <2>3
  <2>5. Least \in {5 * d, 3 * HourLength}
    <3>1. 5 * combined_hourly * delay_seconds = 5 * d
      BY <1>1
    <3>2. 5 * d \in Int /\ 3 * HourLength \in Int
      BY <1>2
    <3> QED
      BY <1>4, <3>1, <3>2, MaxNat DEF Least
  <2> QED
    BY <1>2, <2>3, <2>4, <2>5
<1> QED
  BY <1>3, <1>4

\* Before the first offset nothing is planned.
LEMMA ApartStart == PlanInit => OffsetsApart
<1> SUFFICES ASSUME PlanInit PROVE OffsetsApart
  OBVIOUS
<1>1. N \in Nat /\ hourly_limit \in Nat /\ delay_seconds \in Nat
  BY PoolLength, BoundsAssumption, HourlyLimitsAssumption, DelaysAssumption
  DEF PlanInit, Init, N
<1>2. hourly_limit * N \in Nat
  BY <1>1
<1>3. combined_hourly \in Nat
  BY <1>2, MaxNat DEF combined_hourly
<1> QED
  BY <1>1, <1>3 DEF PlanInit, OffsetsApart

\* Multiplying keeps the order.
LEMMA LongerTimes ==
  ASSUME NEW m \in Nat, NEW n \in Nat, m <= n, NEW k \in Nat
  PROVE  m * k <= n * k /\ m * k \in Nat /\ n * k \in Nat
  OBVIOUS

\* One mail more takes the least gap more.
LEMMA SpanNext ==
  ASSUME Least \in Nat, NEW n \in Nat, NEW i \in 1..n
  PROVE  /\ Span(i, n) \in Nat /\ Span(i, i) = 0
         /\ Span(i, n + 1) = Span(i, n) + Least
<1>1. n - i \in Nat /\ i - i = 0 /\ n + 1 - i = (n - i) + 1
  OBVIOUS
<1>2. ASSUME NEW m \in Nat
      PROVE  Least * m \in Nat /\ Least * 0 = 0 /\ Least * (m + 1) = Least * m + Least
  BY <1>2
<1> QED
  BY <1>1, <1>2 DEF Span

\* An offset that follows the last one is as far from the earlier ones.
LEMMA ApartAppend ==
  ASSUME OffsetsApart, NEW gap \in Gaps, offsets # <<>>,
         offsets' = Append(offsets, offsets[Len(offsets)] + gap)
  PROVE  /\ offsets' \in Seq(Nat)
         /\ \A i, k \in 1..Len(offsets') : i < k => offsets'[k] >= offsets'[i] + Span(i, k)
<1>0. PICK n : n = Len(offsets)
  OBVIOUS
<1>1. gap \in Nat /\ gap >= Least /\ Least \in Nat
  BY GapsLong DEF OffsetsApart
<1>2. n \in Nat \ {0} /\ offsets \in Seq(Nat) /\ offsets[n] \in Nat
  BY <1>0 DEF OffsetsApart
<1>3. /\ offsets' \in Seq(Nat) /\ Len(offsets') = n + 1
      /\ offsets'[n + 1] = offsets[n] + gap
      /\ \A i \in 1..n : offsets'[i] = offsets[i] /\ offsets[i] \in Nat
  BY <1>0, <1>1, <1>2
<1>4. \A i, k \in 1..n : i < k => offsets[k] >= offsets[i] + Span(i, k)
  BY <1>0 DEF OffsetsApart
<1>5. ASSUME NEW i \in 1..n PROVE offsets'[n + 1] >= offsets'[i] + Span(i, n + 1)
  <2>1. /\ Span(i, n) \in Nat /\ Span(i, i) = 0
        /\ Span(i, n + 1) = Span(i, n) + Least
    BY <1>1, <1>2, SpanNext
  <2>2. offsets[n] >= offsets[i] + Span(i, n)
    <3>1. CASE i = n
      BY <1>2, <2>1, <3>1
    <3>2. CASE i < n
      BY <1>2, <1>4, <3>2
    <3> QED
      BY <1>2, <3>1, <3>2
  <2> QED
    BY <1>1, <1>2, <1>3, <2>1, <2>2, SMTT(40)
<1>6. ASSUME NEW i \in 1..(n + 1), NEW k \in 1..(n + 1), i < k
      PROVE  offsets'[k] >= offsets'[i] + Span(i, k)
  <2>1. CASE k = n + 1
    <3>1. i \in 1..n
      BY <1>2, <1>6, <2>1
    <3> QED
      BY <1>5, <2>1, <3>1
  <2>2. CASE k # n + 1
    <3>1. i \in 1..n /\ k \in 1..n
      BY <1>2, <1>6, <2>2
    <3> QED
      BY <1>3, <1>4, <1>6, <3>1
  <2> QED
    BY <2>1, <2>2
<1> QED
  BY <1>3, <1>6

\* The offsets keep the least gap, and the rows are planned at them.
THEOREM PlanApart == PlanSpec => []OffsetsApart
<1>1. OffsetsApart /\ TypeOK /\ [PlanNext]_planVars => OffsetsApart'
  <2> SUFFICES ASSUME OffsetsApart, TypeOK, [PlanNext]_planVars PROVE OffsetsApart'
    OBVIOUS
  <2>1. ordered' = ordered /\ email_count' = email_count /\ UNCHANGED request
    BY DEF PlanNext, planVars, compute_send_offsets, InsertJobs, vars, input, Next, Stop, Assign
  <2>2. N' = N /\ combined_hourly' = combined_hourly /\ Least' = Least
        /\ \A i, k : Span(i, k)' = Span(i, k)
    BY <2>1 DEF N, combined_hourly, Least, Span, delay, avg_gap, request
  <2>3. CASE UNCHANGED <<offsets, rows>>
    BY <2>1, <2>2, <2>3 DEF OffsetsApart, request
  <2>4. CASE compute_send_offsets
    <3>1. rows' = rows /\ Len(offsets) # email_count
      BY <2>4 DEF compute_send_offsets, Scheduled
    <3>2. rows' = <<>>
      BY <3>1 DEF OffsetsApart
    <3>3. /\ offsets' \in Seq(Nat)
          /\ \A i, k \in 1..Len(offsets') :
               i < k => offsets'[k] >= offsets'[i] + Span(i, k)
      <4>1. CASE offsets = <<>> /\ offsets' = <<0>>
        BY <4>1
      <4>2. ASSUME offsets # <<>>, NEW gap \in Gaps,
                   offsets' = Append(offsets, offsets[Len(offsets)] + gap)
            PROVE  <3>3!1 /\ <3>3!2
        BY <4>2, ApartAppend
      <4> QED
        BY <2>4, <4>1, <4>2 DEF compute_send_offsets
    <3> QED
      BY <2>1, <2>2, <3>2, <3>3 DEF OffsetsApart, request
  <2>5. CASE InsertJobs
    <3>1. /\ offsets' = offsets /\ Len(offsets) = email_count
          /\ rows' = [i \in 1..email_count |->
               [sender_id |-> IF i <= Len(result) THEN result[i] ELSE None, at |-> offsets[i]]]
      BY <2>5 DEF InsertJobs, Scheduled
    <3>2. email_count \in Nat /\ \A i \in 1..email_count : offsets[i] \in Nat
      BY <3>1, BoundsAssumption DEF TypeOK, OffsetsApart
    <3>3. \A i \in 1..email_count : i <= Len(result) => result[i] \in Senders
      BY DEF TypeOK
    <3>4. /\ rows' \in Seq([sender_id : Senders \cup {None}, at : Nat])
          /\ Len(rows') = email_count
          /\ \A i \in 1..Len(rows') : rows'[i].at = offsets[i]
      BY <3>1, <3>2, <3>3
    <3> QED
      BY <2>1, <2>2, <3>1, <3>4 DEF OffsetsApart, request
  <2> QED
    BY <2>3, <2>4, <2>5 DEF PlanNext, planVars
<1> QED
  BY <1>1, ApartStart, PlanRotates, TypeCorrect, PTL DEF PlanSpec

\* Two mails of a plan are never closer than four fifths of the delay, for
\* every delay, every limit and every choice of the random gaps.
THEOREM PlanKeepsDelay == PlanSpec => []DelayKept
<1>1. OffsetsApart => DelayKept
  <2> SUFFICES ASSUME OffsetsApart, NEW i \in DOMAIN rows, NEW k \in DOMAIN rows, i < k
               PROVE  IF delay > avg_gap
                      THEN 5 * (rows[k].at - rows[i].at) >= 4 * delay * (k - i)
                      ELSE rows[k].at - rows[i].at >= delay * (k - i)
    BY DEF DelayKept
  <2> DEFINE d == combined_hourly * delay_seconds
             apart == rows[k].at - rows[i].at
  <2>0. DOMAIN rows = 1..Len(rows)
    <3>1. rows \in Seq([sender_id : Senders \cup {None}, at : Nat])
      BY DEF OffsetsApart
    <3> QED
      BY <3>1
  <2>1. /\ i \in 1..Len(offsets) /\ k \in 1..Len(offsets)
        /\ rows[i].at = offsets[i] /\ rows[k].at = offsets[k]
    BY <2>0 DEF OffsetsApart
  <2>a. offsets[i] \in Nat /\ offsets[k] \in Nat /\ i \in Nat /\ k \in Nat
    <3>1. offsets \in Seq(Nat)
      BY DEF OffsetsApart
    <3> QED
      BY <2>1, <3>1
  <2>2. apart >= Least * (k - i) /\ apart \in Int
    <3>1. offsets[k] >= offsets[i] + Span(i, k)
      BY <2>1 DEF OffsetsApart
    <3>2. Span(i, k) = Least * (k - i)
      BY DEF Span
    <3>3. Least * (k - i) \in Int
      <4>1. Least \in Nat
        BY LeastGap DEF OffsetsApart
      <4>2. k - i \in Int
        BY <2>a
      <4> QED
        BY <4>1, <4>2
    <3> QED
      BY <2>1, <2>a, <3>1, <3>2, <3>3
  <2>3. d \in Nat /\ k - i \in Nat /\ d * (k - i) \in Nat
    <3>1. d \in Nat
      BY DEF OffsetsApart
    <3>2. k - i \in Nat
      BY <2>a
    <3> HIDE DEF d
    <3> QED
      BY <3>1, <3>2
  <2>4. /\ delay = 5 * d /\ Least \in Nat
        /\ delay > avg_gap => Least = 4 * d
        /\ ~(delay > avg_gap) => Least >= 5 * d
    BY LeastGap DEF OffsetsApart
  <2> HIDE DEF d, apart
  <2>5. CASE delay > avg_gap
    <3>1. Least * (k - i) = 4 * (d * (k - i)) /\ 4 * delay * (k - i) = 20 * (d * (k - i))
      BY <2>3, <2>4, <2>5
    <3>2. 5 * apart >= 4 * delay * (k - i)
      BY <2>2, <2>3, <3>1
    <3> QED
      BY <2>5, <3>2 DEF apart
  <2>6. CASE ~(delay > avg_gap)
    <3>1. PICK n \in Nat : n = k - i
      BY <2>3
    <3>2. Least \in Nat /\ delay \in Nat /\ Least >= delay
      BY <2>3, <2>4, <2>6
    <3>3. Least * n >= delay * n /\ Least * n \in Nat /\ delay * n \in Nat
      BY <3>2, LongerTimes
    <3> QED
      BY <2>2, <2>6, <3>1, <3>3 DEF apart
  <2> QED
    BY <2>5, <2>6
<1> QED
  BY <1>1, PlanApart, PTL

\* Five thirds, rounded up: what fits is less than one more.
LEMMA SqueezedUp ==
  ASSUME NEW n \in Nat
  PROVE  /\ Squeezed(n) \in Nat
         /\ \A d \in Nat : 3 * d < 5 * n <=> d < Squeezed(n)
  BY DEF Squeezed

\* A common factor can be taken out of a comparison.
LEMMA SmallerFactor ==
  ASSUME NEW h \in Nat \ {0}, NEW a \in Int, NEW b \in Int, h * a < h * b
  PROVE  a < b
  OBVIOUS

\* The rows of an hour are among the Squeezed(combined_hourly) that begin with the first.
LEMMA HourRows ==
  ASSUME OffsetsApart, NEW i \in DOMAIN rows
  PROVE  /\ i \in Nat /\ combined_hourly \in Nat /\ Squeezed(combined_hourly) \in Nat
         /\ \A k \in InHourFrom(i) :
              k \in Nat /\ k >= i /\ k - i < Squeezed(combined_hourly)
<1>1. /\ combined_hourly \in Nat /\ Least \in Nat /\ Least >= 3 * HourLength
      /\ HourLength \in Nat \ {0}
  BY LeastGap, HourLengthAssumption DEF OffsetsApart
<1>2. DOMAIN rows = 1..Len(rows) /\ Len(offsets) \in Nat
  <2>1. rows \in Seq([sender_id : Senders \cup {None}, at : Nat]) /\ offsets \in Seq(Nat)
    BY DEF OffsetsApart
  <2> QED
    BY <2>1
<1>3. ASSUME NEW k \in DOMAIN rows
      PROVE  /\ k \in 1..Len(offsets) /\ rows[k].at = offsets[k]
             /\ offsets[k] \in Nat /\ k \in Nat
  <2>1. offsets \in Seq(Nat) /\ k \in 1..Len(offsets) /\ rows[k].at = offsets[k]
    BY <1>2 DEF OffsetsApart
  <2> QED
    BY <1>2, <2>1
<1>4. ASSUME NEW j \in DOMAIN rows, NEW k \in DOMAIN rows, j < k
      PROVE  /\ offsets[k] > offsets[j]
             /\ offsets[k] >= offsets[j] + (3 * HourLength) * (k - j)
  <2>1. offsets[k] >= offsets[j] + Least * (k - j)
    BY <1>3, <1>4 DEF OffsetsApart, Span
  <2>2. PICK d \in Nat : d = k - j /\ d >= 1
    BY <1>3, <1>4
  <2>3. PICK h \in Nat : h = 3 * HourLength /\ h >= 1
    BY <1>1
  <2>4. Least * d >= h * d /\ h * d >= h /\ Least * d \in Nat /\ h * d \in Nat
    <3>1. h * d >= h * 1
      BY <2>2, <2>3
    <3> QED
      BY <1>1, <2>2, <2>3, <3>1, LongerTimes
  <2>5. offsets[j] \in Nat /\ offsets[k] \in Nat
    BY <1>3
  <2> QED
    BY <2>1, <2>2, <2>3, <2>4, <2>5
<1>5. ASSUME NEW k \in InHourFrom(i)
      PROVE  k \in Nat /\ k >= i /\ k - i < Squeezed(combined_hourly)
  <2>1. k \in DOMAIN rows /\ offsets[k] >= offsets[i] /\ offsets[k] < offsets[i] + Hour
    BY <1>3 DEF InHourFrom
  <2>2. k >= i /\ k \in Nat /\ i \in Nat
    BY <1>3, <1>4, <2>1
  <2>3. PICK d \in Nat : d = k - i
    BY <2>2
  <2>4. 3 * d < 5 * combined_hourly
    <3>1. CASE d = 0
      <4>1. combined_hourly # 0
        <5> SUFFICES ASSUME combined_hourly = 0 PROVE FALSE
          OBVIOUS
        <5>1. Hour = 0
          BY <1>1 DEF Hour
        <5>2. k = i /\ offsets[i] \in Nat
          BY <1>3, <2>2, <2>3, <3>1
        <5> QED
          BY <2>1, <5>1, <5>2
      <4> QED
        BY <1>1, <3>1, <4>1
    <3>2. CASE d # 0
      <4>1. offsets[k] >= offsets[i] + (3 * HourLength) * d
        BY <1>4, <2>1, <2>2, <2>3, <3>2
      <4>2. HourLength * (3 * d) < HourLength * (5 * combined_hourly)
        <5>1. PICK a \in Nat, b \in Nat :
                a = HourLength * (3 * d) /\ b = HourLength * (5 * combined_hourly)
          BY <1>1
        <5>2. (3 * HourLength) * d = a /\ Hour = b
          BY <1>1, <5>1 DEF Hour
        <5>3. offsets[k] \in Nat /\ offsets[i] \in Nat
          BY <1>3, <2>1
        <5> QED
          BY <2>1, <4>1, <5>1, <5>2, <5>3
      <4> QED
        BY <1>1, <4>2, SmallerFactor
    <3> QED
      BY <3>1, <3>2
  <2> QED
    BY <1>1, <2>2, <2>3, <2>4, SqueezedUp
<1> QED
  BY <1>1, <1>3, <1>5, SqueezedUp

\* A set of numbers that lie together is no larger than the interval they lie in.
LEMMA CountBelow ==
  ASSUME NEW S, NEW i \in Nat, NEW n \in Nat,
         \A k \in S : k \in Nat /\ k >= i /\ k - i < n
  PROVE  IsFiniteSet(S) /\ Cardinality(S) <= n
<1>1. IsFiniteSet(i..(i + n - 1)) /\ Cardinality(i..(i + n - 1)) = n
  <2>1. i + n - 1 \in Int
    OBVIOUS
  <2> QED
    BY <2>1, FS_Interval
<1>2. S \in SUBSET (i..(i + n - 1))
  OBVIOUS
<1> QED
  BY <1>1, <1>2, FS_Subset

\* No hour of a plan has more mails than the hourly limits of the pool allow, squeezed,
\* whatever the random gaps (compute_send_offsets).
THEOREM PlanKeepsPace == PlanSpec => []PlannedPace
<1>1. OffsetsApart => PlannedPace
  BY HourRows, CountBelow DEF PlannedPace
<1> QED
  BY <1>1, PlanApart, PTL

\* The inserted rows have the senders of the rotation, which is over by then.
RowsGiven ==
  /\ email_count \in Nat \ {0}
  /\ offsets # <<>> => done
  /\ rows # <<>> =>
       /\ offsets # <<>> /\ Len(rows) = email_count
       /\ \A k \in 1..email_count :
            rows[k].sender_id = IF k <= Len(result) THEN result[k] ELSE None

\* A row of the plan has the sender that the rotation has given its recipient, and
\* none beyond the combined limit (insert of CampaignService.create).
THEOREM RowsGivenHolds == PlanSpec => []RowsGiven
<1>1. PlanInit => RowsGiven
  BY BoundsAssumption DEF PlanInit, Init, RowsGiven
<1>2. RowsGiven /\ [PlanNext]_planVars => RowsGiven'
  <2> SUFFICES ASSUME RowsGiven, [PlanNext]_planVars PROVE RowsGiven'
    OBVIOUS
  <2>1. CASE Next /\ UNCHANGED <<request, offsets, rows>>
    <3>1. ~done /\ email_count' = email_count
      BY <2>1 DEF Next, Stop, Assign, input
    <3> QED
      BY <2>1, <3>1 DEF RowsGiven
  <2>2. CASE compute_send_offsets
    <3>1. /\ done /\ Len(offsets) # email_count /\ UNCHANGED vars /\ rows' = rows
      BY <2>2 DEF compute_send_offsets, Scheduled
    <3>2. rows # <<>> => offsets' # <<>>
      <4>1. offsets' # <<>>
        BY <2>2 DEF compute_send_offsets
      <4> QED
        BY <4>1
    <3> QED
      BY <3>1, <3>2 DEF RowsGiven, vars, input
  <2>3. CASE InsertJobs
    <3>1. /\ Len(offsets) = email_count /\ rows = <<>> /\ UNCHANGED <<vars, offsets>>
          /\ rows' = [k \in 1..email_count |->
               [sender_id |-> IF k <= Len(result) THEN result[k] ELSE None, at |-> offsets[k]]]
      BY <2>3 DEF InsertJobs, Scheduled
    <3>2. offsets # <<>> /\ Len(rows') = email_count
      BY <3>1 DEF RowsGiven
    <3>3. UNCHANGED <<email_count, done, result, offsets>>
      BY <3>1 DEF vars, input
    <3> QED
      BY <3>1, <3>2, <3>3 DEF RowsGiven
  <2>4. CASE UNCHANGED planVars
    BY <2>4 DEF planVars, vars, input, RowsGiven
  <2> QED
    BY <2>1, <2>2, <2>3, <2>4 DEF PlanNext
<1> QED
  BY <1>1, <1>2, PTL DEF PlanSpec

\* The first of the numbers j that are n * q + j for a quotient q and not below x.
LEMMA FirstTurn ==
  ASSUME NEW n \in Nat \ {0}, NEW x \in Int, x > -n
  PROVE  \E first \in Nat : /\ n * first >= x
                           /\ \A q \in Nat : n * q >= x => q >= first
<1>1. PICK y \in Nat : y = x + n - 1
  OBVIOUS
<1>2. PICK first \in Nat, m \in 0..(n - 1) : y = n * first + m
  BY <1>1, QuotientAndRemainder
<1>3. PICK p \in Nat : p = n * first
  BY <1>2
<1>4. n * first >= x
  <2>1. y = p + m /\ m <= n - 1
    BY <1>2, <1>3
  <2> QED
    BY <1>1, <1>3, <2>1
<1>5. ASSUME NEW q \in Nat, n * q >= x PROVE q >= first
  <2>1. PICK r \in Nat : r = n * q
    OBVIOUS
  <2>2. n * (q + 1) = r + n
    BY <2>1
  <2>3. p < r + n
    <3>1. y = p + m /\ m >= 0 /\ r >= x
      BY <1>2, <1>3, <1>5, <2>1
    <3> QED
      BY <1>1, <1>2, <2>1, <3>1
  <2>4. n * first < n * (q + 1)
    BY <1>3, <2>2, <2>3
  <2>5. first < q + 1
    BY <2>4, SmallerFactor
  <2> QED
    BY <2>5
<1> QED
  BY <1>4, <1>5

\* Among Squeezed(n * h) numbers in a row, at most Squeezed(h) leave the same remainder.
LEMMA TurnsInWindow ==
  ASSUME NEW n \in Nat \ {0}, NEW h \in Nat, NEW m \in 0..(n - 1), NEW i \in Nat \ {0}, NEW S,
         \A k \in S : /\ k \in Nat /\ k >= i /\ k - i < Squeezed(h * n)
                     /\ (k - 1) % n = m
  PROVE  IsFiniteSet(S) /\ Cardinality(S) <= Squeezed(h)
<1>1. PICK first \in Nat : /\ n * first >= i - 1 - m
                          /\ \A q \in Nat : n * q >= i - 1 - m => q >= first
  <2>1. i - 1 - m \in Int /\ i - 1 - m > -n
    OBVIOUS
  <2> QED
    BY <2>1, FirstTurn
<1> DEFINE turn(k) == (k - 1) \div n
<1>2. ASSUME NEW k \in S
      PROVE  turn(k) \in Nat /\ k = n * turn(k) + m + 1 /\ turn(k) - first \in 0..(Squeezed(h) - 1)
  <2>1. /\ k \in Nat /\ k >= i /\ k - i < Squeezed(h * n) /\ k - 1 \in Nat
        /\ (k - 1) % n = m
    OBVIOUS
  <2>2. PICK q \in Nat : q = turn(k) /\ k - 1 = n * q + m
    BY <2>1, QuotientAndRemainder
  <2>3. PICK p \in Nat : p = n * q
    OBVIOUS
  <2>4. PICK f \in Nat : f = n * first
    OBVIOUS
  <2>5. k - 1 = p + m
    BY <2>2, <2>3
  <2>6. q >= first
    <3>1. p >= i - 1 - m
      BY <2>1, <2>5
    <3> QED
      BY <1>1, <2>3, <3>1
  <2>7. PICK d \in Nat : d = q - first
    BY <2>6
  <2>8. n * d = p - f
    BY <2>3, <2>4, <2>7
  <2>9. h * n \in Nat /\ n * d \in Nat
    OBVIOUS
  <2>10. 3 * (n * d) < 5 * (h * n)
    <3>1. n * d < Squeezed(h * n)
      <4>1. p - f <= k - i
        BY <1>1, <2>1, <2>4, <2>5
      <4>2. Squeezed(h * n) \in Nat
        BY <2>9, SqueezedUp
      <4> QED
        BY <2>1, <2>8, <4>1, <4>2
    <3> QED
      BY <2>9, <3>1, SqueezedUp
  <2>11. n * (3 * d) < n * (5 * h)
    <3>1. n * (3 * d) = 3 * (n * d) /\ n * (5 * h) = 5 * (h * n)
      OBVIOUS
    <3> QED
      BY <2>10, <3>1
  <2>12. 3 * d < 5 * h
    BY <2>11, SmallerFactor
  <2>13. d < Squeezed(h) /\ Squeezed(h) \in Nat
    BY <2>12, SqueezedUp
  <2> HIDE DEF turn
  <2>14. k = n * turn(k) + m + 1
    <3>1. k = p + m + 1
      BY <2>1, <2>5
    <3> QED
      BY <2>2, <2>3, <3>1
  <2>15. turn(k) - first \in 0..(Squeezed(h) - 1)
    <3>1. d \in 0..(Squeezed(h) - 1)
      BY <2>13
    <3> QED
      BY <2>2, <2>7, <3>1
  <2> QED
    BY <2>2, <2>14, <2>15
<1> HIDE DEF turn
<1>3. IsFiniteSet(0..(Squeezed(h) - 1)) /\ Cardinality(0..(Squeezed(h) - 1)) = Squeezed(h)
  <2>1. PICK b \in Nat : b = Squeezed(h)
    BY SqueezedUp
  <2>2. b - 1 \in Int /\ 0 \in Int
    OBVIOUS
  <2>3. /\ IsFiniteSet(0..(b - 1))
        /\ Cardinality(0..(b - 1)) = IF 0 > b - 1 THEN 0 ELSE (b - 1) - 0 + 1
    BY <2>2, FS_Interval
  <2> QED
    BY <2>1, <2>3
<1>4. [k \in S |-> turn(k) - first] \in Injection(S, 0..(Squeezed(h) - 1))
  <2> DEFINE f == [k \in S |-> turn(k) - first]
  <2>1. f \in [S -> 0..(Squeezed(h) - 1)]
    BY <1>2
  <2>2. ASSUME NEW k \in S, NEW j \in S, f[k] = f[j] PROVE k = j
    <3>1. turn(k) = turn(j)
      <4>1. f[k] = turn(k) - first /\ f[j] = turn(j) - first
        OBVIOUS
      <4>2. PICK a \in Nat, b \in Nat : a = turn(k) /\ b = turn(j)
        BY <1>2
      <4>3. a - first = b - first
        BY <2>2, <4>1, <4>2
      <4> QED
        BY <4>2, <4>3
    <3> QED
      BY <1>2, <3>1
  <2> QED
    BY <2>1, <2>2 DEF Injection, IsInjective
<1> QED
  BY <1>3, <1>4, FS_Injection

\* In a pool without daily limits no sender has more than its own hourly limit,
\* squeezed, to send in an hour: rotation and schedule together.
THEOREM PlanKeepsSenderPace == PlanSpec => []SenderPace
<1>1. ASSUME TypeOK, Rounds, InTurn, OffsetsApart, RowsGiven, hourly_limit \in Nat
      PROVE  SenderPace
  <2> SUFFICES ASSUME NoLimits, NEW i \in DOMAIN rows, NEW s \in InPool
               PROVE  Cardinality({k \in InHourFrom(i) : rows[k].sender_id = s})
                        <= Squeezed(Max({1, hourly_limit}))
    BY DEF SenderPace, NoLimits
  <2> DEFINE mine == {k \in InHourFrom(i) : rows[k].sender_id = s}
  <2>1. /\ N \in Nat \ {0} /\ result \in Seq(Senders) /\ s \in Senders
        /\ \A k \in 1..N : ordered[k] \in Senders
    BY <1>1, BoundsAssumption DEF TypeOK, InPool
  <2>2. /\ DOMAIN rows = 1..email_count /\ email_count \in Nat
        /\ \A k \in 1..email_count :
             rows[k].sender_id = IF k <= Len(result) THEN result[k] ELSE None
    <3>1. rows \in Seq([sender_id : Senders \cup {None}, at : Nat]) /\ rows # <<>>
      BY <1>1 DEF OffsetsApart
    <3> QED
      BY <1>1, <3>1 DEF RowsGiven
  <2>3. /\ i \in Nat \ {0} /\ combined_hourly \in Nat
        /\ \A k \in InHourFrom(i) : k \in Nat /\ k >= i /\ k - i < Squeezed(combined_hourly)
    BY <1>1, <2>2, HourRows
  <2>4. PICK j \in 1..N : s = ordered[j]
    BY DEF InPool
  <2>5. ASSUME NEW k \in mine PROVE (k - 1) % N = j - 1
    <3>1. k \in 1..email_count /\ rows[k].sender_id = s
      BY <2>2 DEF InHourFrom
    <3>2. k \in 1..Len(result) /\ result[k] = s
      BY <2>1, <2>2, <3>1, NoneAssumption
    <3>3. s = ordered[((k - 1) % N) + 1]
      BY <1>1, <3>2 DEF InTurn
    <3>4. PICK m \in 0..(N - 1) : m = (k - 1) % N
      <4>1. k - 1 \in Nat
        BY <3>1
      <4> QED
        BY <2>1, <4>1, RemainderBelow
    <3>5. m + 1 \in 1..N /\ ordered[m + 1] = ordered[j]
      BY <2>1, <2>4, <3>3, <3>4
    <3>6. m + 1 = j
      BY <1>1, <3>5 DEF Rounds, Distinct
    <3> QED
      BY <3>4, <3>6
  <2>6. CASE hourly_limit = 0
    <3>1. hourly_limit * N = 0
      BY <2>1, <2>6
    <3>2. combined_hourly = Max({1, hourly_limit})
      BY <2>6, <3>1 DEF combined_hourly
    <3>3. Cardinality(mine) <= Squeezed(combined_hourly)
      BY <2>3, CountBelow, SqueezedUp
    <3> QED
      BY <3>2, <3>3
  <2>7. CASE hourly_limit # 0
    <3>1. hourly_limit * N \in Nat /\ hourly_limit * N >= 1
      <4>1. hourly_limit * N >= 1 * N
        BY <1>1, <2>1, <2>7, LongerTimes
      <4> QED
        BY <1>1, <2>1, <4>1
    <3>2. combined_hourly = hourly_limit * N
      <4>1. PICK x \in Nat : x = hourly_limit * N /\ x >= 1
        BY <3>1
      <4>2. Max({1, x}) = x
        <5>1. Max({1, x}) \in {1, x} /\ Max({1, x}) >= x
          BY MaxNat
        <5> QED
          BY <4>1, <5>1
      <4> QED
        BY <4>1, <4>2 DEF combined_hourly
    <3>3. Max({1, hourly_limit}) = hourly_limit
      BY <1>1, <2>7, MaxNat
    <3>4. j - 1 \in 0..(N - 1)
      BY <2>1
    <3>5. Cardinality(mine) <= Squeezed(hourly_limit)
      BY <1>1, <2>1, <2>3, <2>5, <3>2, <3>4, TurnsInWindow
    <3> QED
      BY <3>3, <3>5
  <2> QED
    BY <2>6, <2>7
<1>2. PlanInit => hourly_limit \in Nat
  BY HourlyLimitsAssumption DEF PlanInit
<1>3. hourly_limit \in Nat /\ [PlanNext]_planVars => (hourly_limit \in Nat)'
  BY DEF PlanNext, planVars, compute_send_offsets, InsertJobs, request
<1> QED
  BY <1>1, <1>2, <1>3, PlanRotates, TypeCorrect, RoundsHold, InTurnHolds, PlanApart, RowsGivenHolds, PTL
  DEF PlanSpec
-----------------------------------------------------------------------------
\* What each sender of the pool may still be given, where every sender has a limit.
Room == [s \in InPool |-> limit[s] - assigned[s]]

\* The recipients given and the room left make up the limits of the pool together:
\* the inductive invariant behind PoolUsedUp.
RoomLeft ==
  (\A s \in InPool : limit[s] # NoLimit) =>
    SumOver(Room, InPool) + Len(result) = SumOver(limit, InPool)

\* The pool is a finite set of senders, whose limits are numbers where they have any,
\* and are not exceeded.
LEMMA PoolNumbers ==
  ASSUME TypeOK, LimitsRespected, \A s \in InPool : limit[s] # NoLimit
  PROVE  /\ IsFiniteSet(InPool) /\ InPool \subseteq Senders
         /\ \A s \in InPool : limit[s] \in Nat /\ assigned[s] \in Nat /\ Room[s] \in Nat
<1>1. N \in Nat /\ \A i \in 1..N : ordered[i] \in Senders
  BY BoundsAssumption DEF TypeOK
<1>2. IsFiniteSet(InPool) /\ InPool \subseteq Senders
  <2>1. IsFiniteSet(1..N)
    BY <1>1, FS_Interval
  <2>2. IsFiniteSet(InPool)
    <3> DEFINE f == [i \in 1..N |-> ordered[i]]
    <3>1. f \in [1..N -> InPool] /\ \A s \in InPool : \E i \in 1..N : f[i] = s
      BY DEF InPool
    <3> HIDE DEF f
    <3>2. f \in Surjection(1..N, InPool)
      BY <3>1 DEF Surjection
    <3> QED
      BY <2>1, <3>2, FS_Surjection
  <2> QED
    BY <1>1, <2>2 DEF InPool
<1>3. ASSUME NEW s \in InPool PROVE limit[s] \in Nat /\ assigned[s] \in Nat /\ Room[s] \in Nat
  <2>1. s \in Senders /\ limit[s] # NoLimit
    BY <1>2
  <2>2. limit[s] \in Nat /\ assigned[s] \in Nat /\ assigned[s] <= limit[s]
    BY <2>1, BoundsAssumption DEF TypeOK, Limits, LimitsRespected
  <2> QED
    BY <2>2 DEF Room
<1> QED
  BY <1>2, <1>3

\* The room left and the recipients given always make up the limits of the pool
\* (the two updates of the loop of assign_senders_round_robin).
THEOREM RoomLeftHolds == Spec => []RoomLeft
<1>1. Init /\ TypeOK /\ LimitsRespected => RoomLeft
  <2> SUFFICES ASSUME Init, TypeOK, LimitsRespected, \A s \in InPool : limit[s] # NoLimit
               PROVE  SumOver(Room, InPool) + Len(result) = SumOver(limit, InPool)
    BY DEF RoomLeft
  <2>1. IsFiniteSet(InPool) /\ \A s \in InPool : limit[s] \in Nat /\ Room[s] \in Nat
    BY PoolNumbers
  <2>2. \A s \in InPool : Room[s] = limit[s]
    <3>1. \A s \in InPool : s \in Senders /\ limit[s] \in Nat
      BY PoolNumbers
    <3>2. \A s \in InPool : assigned[s] = 0
      BY <3>1 DEF Init
    <3>3. \A s \in InPool : Room[s] = limit[s] - assigned[s]
      BY DEF Room
    <3> QED
      BY <3>1, <3>2, <3>3
  <2>3. SumOver(limit, InPool) \in Nat /\ SumOver(limit, InPool) = SumOver(Room, InPool)
    BY <2>1, <2>2, SumSame
  <2> QED
    BY <2>3 DEF Init
<1>2. TypeOK /\ TypeOK' /\ LimitsRespected /\ LimitsRespected' /\ RoomLeft /\ [Next]_vars => RoomLeft'
  <2> SUFFICES ASSUME TypeOK, TypeOK', LimitsRespected, LimitsRespected', RoomLeft, [Next]_vars
               PROVE  RoomLeft'
    OBVIOUS
  <2>1. ASSUME NEW attempt \in 0..(N - 1), Assign(attempt) PROVE RoomLeft'
    <3>1. /\ InPool' = InPool /\ limit' = limit /\ Chosen(attempt)
          /\ assigned' = [assigned EXCEPT ![Candidate(attempt)] = @ + 1]
          /\ result' = Append(result, Candidate(attempt))
      BY <2>1 DEF Assign, input, InPool, N
    <3> SUFFICES ASSUME \A s \in InPool : limit[s] # NoLimit
                 PROVE  SumOver(Room', InPool) + Len(result') = SumOver(limit, InPool)
      BY <3>1 DEF RoomLeft
    <3> DEFINE x == Candidate(attempt)
               c == Room
               d == Room'
    <3>2. x \in InPool
      <4>1. N \in Nat \ {0} /\ cursor \in 0..(N - 1)
        BY BoundsAssumption DEF TypeOK
      <4>2. (cursor + attempt) % N \in 0..(N - 1)
        BY <4>1, RemainderBelow
      <4>3. ((cursor + attempt) % N) + 1 \in 1..N
        BY <4>1, <4>2
      <4> QED
        BY <4>3 DEF Candidate, InPool
    <3>3. /\ IsFiniteSet(InPool) /\ InPool \subseteq Senders
          /\ \A s \in InPool : limit[s] \in Nat /\ assigned[s] \in Nat /\ c[s] \in Nat
      BY PoolNumbers
    <3>4. \A s \in InPool : c[s] = limit[s] - assigned[s] /\ d[s] = limit[s] - assigned'[s]
      BY <3>1 DEF Room
    <3>5. \A s \in InPool : assigned'[s] = IF s = x THEN assigned[s] + 1 ELSE assigned[s]
      BY <3>1, <3>3 DEF TypeOK
    <3>6. assigned[x] < limit[x]
      BY <3>1, <3>2 DEF Chosen, HasRoom
    <3> HIDE DEF x, c, d
    <3>7. \A s \in InPool : d[s] \in Nat
      BY <3>3, <3>4, <3>5, <3>6
    <3>8. (\A s \in InPool \ {x} : c[s] = d[s]) /\ c[x] = d[x] + 1
      BY <3>2, <3>3, <3>4, <3>5
    <3>9. SumOver(c, InPool) + d[x] = SumOver(d, InPool) + c[x]
      BY <3>2, <3>3, <3>7, <3>8, SumChanges
    <3>10. SumOver(c, InPool) \in Nat /\ SumOver(d, InPool) \in Nat
      BY <3>3, <3>7, SumSame
    <3>11. SumOver(c, InPool) + Len(result) = SumOver(limit, InPool)
      BY DEF RoomLeft, c
    <3>12. Len(result) \in Nat /\ Len(result') = Len(result) + 1
      BY <3>1 DEF TypeOK
    <3>13. d[x] \in Nat
      BY <3>2, <3>7
    <3>14. c[x] = d[x] + 1
      BY <3>8
    <3>15. SumOver(c, InPool) = SumOver(d, InPool) + 1
      BY <3>9, <3>10, <3>13, <3>14
    <3>16. SumOver(d, InPool) + Len(result') = SumOver(limit, InPool)
      BY <3>10, <3>11, <3>12, <3>15
    <3> QED
      BY <3>16 DEF d
  <2>2. CASE UNCHANGED <<input, assigned, result>>
    BY <2>2 DEF input, RoomLeft, Room, InPool, N
  <2> QED
    BY <2>1, <2>2 DEF Next, Stop, vars
<1> QED
  BY <1>1, <1>2, TypeCorrect, LimitsKept, PTL DEF Spec

\* When recipients outnumber the daily limits of the pool, every mail the limits allow
\* is planned, and never one more (assign_senders_round_robin with the insert of
\* CampaignService.create).
THEOREM PoolUsedUpHolds == PlanSpec => []PoolUsedUp
<1>1. ASSUME TypeOK, LimitsRespected, NobodyLeftOut, RoomLeft, OffsetsApart, RowsGiven
      PROVE  PoolUsedUp
  <2> SUFFICES ASSUME rows # <<>>, \A s \in InPool : limit[s] # NoLimit
               PROVE  Cardinality({i \in DOMAIN rows : rows[i].sender_id # None})
                        = Min({email_count, MapThenSumSet(LAMBDA s : limit[s], InPool)})
    BY DEF PoolUsedUp
  <2> DEFINE given == {i \in DOMAIN rows : rows[i].sender_id # None}
             total == SumOver(limit, InPool)
             left == SumOver(Room, InPool)
  <2>1. total = MapThenSumSet(LAMBDA s : limit[s], InPool)
    BY DEF SumOver
  <2>2. /\ IsFiniteSet(InPool)
        /\ \A s \in InPool : s \in Senders /\ limit[s] \in Nat /\ assigned[s] \in Nat
        /\ \A s \in InPool : Room[s] = limit[s] - assigned[s] /\ Room[s] \in Nat
    BY <1>1, PoolNumbers DEF Room
  <2>3. total \in Nat /\ left \in Nat /\ left + Len(result) = total
    <3>1. SumOver(limit, InPool) \in Nat /\ SumOver(Room, InPool) \in Nat
      BY <2>2, SumSame
    <3> QED
      BY <1>1, <3>1 DEF RoomLeft
  <2>4. done /\ email_count \in Nat /\ Len(result) \in Nat /\ Len(result) <= email_count
    BY <1>1, BoundsAssumption DEF RowsGiven, TypeOK
  <2>5. Cardinality(given) = Len(result)
    <3>1. DOMAIN rows = 1..email_count
      <4>1. rows \in Seq([sender_id : Senders \cup {None}, at : Nat])
        BY <1>1 DEF OffsetsApart
      <4> QED
        BY <1>1, <4>1 DEF RowsGiven
    <3>2. \A i \in 1..Len(result) : result[i] # None
      BY <1>1, NoneAssumption DEF TypeOK
    <3>3. \A i \in 1..email_count :
            rows[i].sender_id = IF i <= Len(result) THEN result[i] ELSE None
      BY <1>1 DEF RowsGiven
    <3>4. given = 1..Len(result)
      BY <2>4, <3>1, <3>2, <3>3
    <3>5. Cardinality(1..Len(result)) = Len(result)
      <4>1. PICK n \in Nat : n = Len(result)
        BY <2>4
      <4>2. Cardinality(1..n) = IF 1 > n THEN 0 ELSE n - 1 + 1
        BY FS_Interval
      <4> QED
        BY <4>1, <4>2
    <3> QED
      BY <3>4, <3>5
  <2>6. CASE Len(result) < email_count
    <3>1. \A s \in InPool : Room[s] = 0
      <4> SUFFICES ASSUME NEW s \in InPool PROVE Room[s] = 0
        OBVIOUS
      <4>1. ~(assigned[s] < limit[s])
        BY <1>1, <2>2, <2>4, <2>6 DEF NobodyLeftOut, HasRoom
      <4>2. assigned[s] <= limit[s]
        BY <1>1, <2>2 DEF LimitsRespected
      <4> QED
        BY <2>2, <4>1, <4>2
    <3>2. left = 0
      BY <2>2, <3>1, SumZero
    <3>3. Len(result) = total
      BY <2>3, <2>4, <3>2
    <3> HIDE DEF total
    <3>4. Min({email_count, total}) = total
      BY <2>3, <2>4, <2>6, <3>3 DEF Min
    <3> QED
      BY <2>1, <2>5, <3>3, <3>4
  <2>7. CASE Len(result) = email_count
    <3> HIDE DEF total, left
    <3>1. Min({email_count, total}) = email_count
      BY <2>3, <2>4, <2>7 DEF Min
    <3> QED
      BY <2>1, <2>5, <2>7, <3>1
  <2> QED
    BY <2>4, <2>6, <2>7
<1> QED
  BY <1>1, PlanRotates, TypeCorrect, LimitsKept, NobodyIsLeftOut, RoomLeftHolds, PlanApart,
     RowsGivenHolds, PTL
=============================================================================
