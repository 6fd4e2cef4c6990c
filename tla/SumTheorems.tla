----------------------------- MODULE SumTheorems -----------------------------
(***************************************************************************)
(* Sums of natural numbers over a finite set, as MapThenSumSet computes    *)
(* them: what a sum is when one of its terms changes.  The least element   *)
(* of a set of naturals takes the place of an induction.                   *)
(***************************************************************************)
EXTENDS Integers, FiniteSets, FiniteSetsExt, FiniteSetTheorems, WellFoundedInduction, TLAPS

\* The sum of what function c has for the members of S.
SumOver(c, S) == MapThenSumSet(LAMBDA x : c[x], S)

\* The member of a set that the sum takes next.
Pick(T) == CHOOSE x \in T : TRUE

\* F has, for every subset of S, the sum of its members.
Adds(F, c, S) ==
  F = [T \in SUBSET S |-> IF T = {} THEN 0 ELSE c[Pick(T)] + F[T \ {Pick(T)}]]

\* What x adds to the sum of T.
At(c, x, T) == IF x \in T THEN c[x] ELSE 0

\* A set of natural numbers has a least member.
LEMMA LeastOf ==
  ASSUME NEW S, S \subseteq Nat, S # {}
  PROVE  \E x \in S : \A y \in S : x <= y
<1>1. PICK R : IsWellFoundedOn(R, Nat) /\ \A x, y \in Nat : y < x => <<y, x>> \in R
  <2>1. IsWellFoundedOn(OpToRel(<, Nat), Nat)
    BY NatLessThanWellFounded, Zenon
  <2>2. \A x, y \in Nat : y < x => <<y, x>> \in OpToRel(<, Nat)
    BY Zenon DEF OpToRel
  <2> QED
    BY <2>1, <2>2, Zenon
<1>2. PICK x \in S : \A y \in S : ~(<<y, x>> \in R)
  BY <1>1, WFMin
<1>3. ASSUME NEW y \in S PROVE x <= y
  <2>1. x \in Nat /\ y \in Nat /\ ~(y < x)
    BY <1>1, <1>2
  <2> QED
    BY <2>1
<1> QED
  BY <1>3

\* The member taken is one of the set; without it the set is smaller by one.
LEMMA Smaller ==
  ASSUME NEW S, IsFiniteSet(S), NEW T \in SUBSET S
  PROVE  /\ Cardinality(T) \in Nat
         /\ T # {} => /\ Pick(T) \in T /\ T \ {Pick(T)} \in SUBSET S
                      /\ Cardinality(T \ {Pick(T)}) = Cardinality(T) - 1
<1>1. IsFiniteSet(T) /\ Cardinality(T) \in Nat
  BY FS_Subset, FS_CardinalityType
<1>2. T # {} => Pick(T) \in T
  BY DEF Pick
<1> QED
  BY <1>1, <1>2, FS_RemoveElement

\* The sums of two functions that differ at x only differ by what they have there.
LEMMA AddsAlike ==
  ASSUME NEW S, IsFiniteSet(S), NEW F, NEW G, NEW c, NEW d, NEW x,
         Adds(F, c, S), Adds(G, d, S),
         \A y \in S : c[y] \in Nat /\ d[y] \in Nat,
         \A y \in S \ {x} : c[y] = d[y]
  PROVE  /\ F[S] \in Nat /\ G[S] \in Nat
         /\ F[S] + At(d, x, S) = G[S] + At(c, x, S)
<1> DEFINE Fits(T) ==
      /\ F[T] \in Nat /\ G[T] \in Nat
      /\ F[T] + At(d, x, T) = G[T] + At(c, x, T)
<1> DEFINE Bad == {T \in SUBSET S : ~Fits(T)}
<1> DEFINE Sizes == {Cardinality(T) : T \in Bad}
<1> SUFFICES ASSUME Bad # {} PROVE FALSE
  <2>1. S \in SUBSET S
    OBVIOUS
  <2> QED
    BY <2>1
<1>1. \A T \in SUBSET S : F[T] = IF T = {} THEN 0 ELSE c[Pick(T)] + F[T \ {Pick(T)}]
  BY DEF Adds
<1>2. \A T \in SUBSET S : G[T] = IF T = {} THEN 0 ELSE d[Pick(T)] + G[T \ {Pick(T)}]
  BY DEF Adds
<1>3. Sizes \subseteq Nat /\ Sizes # {}
  <2>1. ASSUME NEW T \in Bad PROVE Cardinality(T) \in Nat
    <3>1. T \in SUBSET S
      OBVIOUS
    <3> QED
      BY <3>1, Smaller
  <2> HIDE DEF Bad
  <2> QED
    BY <2>1
<1>4. PICK n \in Sizes : \A k \in Sizes : n <= k
  <2> HIDE DEF Sizes
  <2> QED
    BY <1>3, LeastOf
<1>5. PICK T \in Bad : Cardinality(T) = n
  OBVIOUS
<1>6. T \in SUBSET S /\ Cardinality(T) \in Nat
  BY Smaller
<1>7. T # {}
  <2> SUFFICES ASSUME T = {} PROVE FALSE
    OBVIOUS
  <2>1. F[T] = 0 /\ G[T] = 0 /\ x \notin T
    BY <1>1, <1>2
  <2>2. ~Fits(T)
    BY <1>5
  <2> QED
    BY <2>1, <2>2 DEF At
<1> DEFINE p == Pick(T)
           U == T \ {p}
<1>8. p \in T /\ p \in S /\ U \in SUBSET S /\ Cardinality(U) = Cardinality(T) - 1
  BY <1>6, <1>7, Smaller
<1>9. Fits(U)
  <2>1. Cardinality(U) \notin Sizes
    <3> HIDE DEF Sizes, U
    <3> QED
      BY <1>4, <1>5, <1>6, <1>8
  <2> QED
    BY <1>8, <2>1
<1>10. F[T] = c[p] + F[U] /\ G[T] = d[p] + G[U]
  BY <1>1, <1>2, <1>6, <1>7
<1>11. Fits(T)
  <2> HIDE DEF p
  <2>1. c[p] \in Nat /\ d[p] \in Nat
    BY <1>8
  <2>2. CASE p = x
    BY <1>8, <1>9, <1>10, <2>1, <2>2 DEF At
  <2>3. CASE p # x
    <3>1. c[p] = d[p]
      BY <1>8, <2>3
    <3>2. CASE x \in T
      <4>1. c[x] \in Nat /\ d[x] \in Nat /\ x \in U
        BY <1>8, <2>3, <3>2
      <4> QED
        BY <1>9, <1>10, <2>1, <3>1, <3>2, <4>1 DEF At
    <3>3. CASE x \notin T
      BY <1>9, <1>10, <2>1, <3>1, <3>3 DEF At
    <3> QED
      BY <3>2, <3>3
  <2> QED
    BY <2>2, <2>3
<1> QED
  BY <1>5, <1>11

\* The sums of the subsets of a finite set exist: those of the subsets of n members
\* at most, whatever n is.
LEMMA SumsExist ==
  ASSUME NEW S, IsFiniteSet(S), NEW c, \A y \in S : c[y] \in Nat
  PROVE  \E F : Adds(F, c, S)
<1> DEFINE Term(F, T) == IF T = {} THEN 0 ELSE c[Pick(T)] + F[T \ {Pick(T)}]
<1> DEFINE Upto(F, n) == \A T \in SUBSET S : Cardinality(T) <= n => F[T] = Term(F, T)
<1> DEFINE Bad == {n \in Nat : ~(\E F \in [SUBSET S -> Nat] : Upto(F, n))}
<1>1. ASSUME Bad # {} PROVE FALSE
  <2>1. PICK n \in Bad : \A k \in Bad : n <= k
    <3>1. Bad \subseteq Nat
      OBVIOUS
    <3> HIDE DEF Bad
    <3> QED
      BY <1>1, <3>1, LeastOf
  <2>2. n # 0
    <3> DEFINE Zero == [T \in SUBSET S |-> 0]
    <3>1. Zero \in [SUBSET S -> Nat]
      OBVIOUS
    <3>2. ASSUME NEW T \in SUBSET S, Cardinality(T) <= 0 PROVE Zero[T] = Term(Zero, T)
      <4>1. Cardinality(T) \in Nat
        BY Smaller
      <4>2. T = {}
        BY <3>2, <4>1, FS_Subset, FS_EmptySet
      <4> QED
        BY <4>2
    <3> HIDE DEF Zero
    <3> QED
      BY <2>1, <3>1, <3>2
  <2>3. n - 1 \in Nat /\ n - 1 \notin Bad
    <3>1. n \in Nat /\ n - 1 \in Nat /\ ~(n <= n - 1)
      BY <2>2
    <3> HIDE DEF Bad
    <3> QED
      BY <2>1, <3>1
  <2>4. PICK F \in [SUBSET S -> Nat] : Upto(F, n - 1)
    BY <2>3
  <2> DEFINE G == [T \in SUBSET S |-> Term(F, T)]
  <2>5. G \in [SUBSET S -> Nat]
    <3>1. ASSUME NEW T \in SUBSET S PROVE Term(F, T) \in Nat
      <4>1. CASE T # {}
        <5>1. Pick(T) \in S /\ T \ {Pick(T)} \in SUBSET S
          BY <4>1, Smaller
        <5>2. c[Pick(T)] \in Nat /\ F[T \ {Pick(T)}] \in Nat
          BY <5>1
        <5> QED
          BY <4>1, <5>2
      <4> QED
        BY <4>1
    <3> QED
      BY <3>1
  <2>6. ASSUME NEW T \in SUBSET S, Cardinality(T) <= n PROVE G[T] = Term(G, T)
    <3>1. G[T] = Term(F, T)
      OBVIOUS
    <3>2. CASE T = {}
      BY <3>1, <3>2
    <3>3. CASE T # {}
      <4> DEFINE U == T \ {Pick(T)}
      <4>1. U \in SUBSET S /\ Cardinality(U) <= n - 1
        BY <2>6, <3>3, Smaller
      <4>2. F[U] = Term(F, U)
        BY <2>4, <4>1
      <4>3. G[U] = Term(F, U)
        BY <4>1
      <4> QED
        BY <3>1, <3>3, <4>2, <4>3
    <3> QED
      BY <3>2, <3>3
  <2>7. Upto(G, n)
    BY <2>6
  <2> QED
    <3> HIDE DEF G, Upto
    <3> QED
      BY <2>1, <2>5, <2>7
<1>2. Cardinality(S) \in Nat /\ Cardinality(S) \notin Bad
  BY <1>1, FS_CardinalityType
<1>3. PICK F \in [SUBSET S -> Nat] : Upto(F, Cardinality(S))
  BY <1>2
<1>4. \A T \in SUBSET S : F[T] = Term(F, T)
  BY <1>3, FS_Subset
<1>5. F = [T \in SUBSET S |-> Term(F, T)]
  BY <1>4
<1> QED
  BY <1>5 DEF Adds

\* What the sum of a finite set is.
LEMMA SumIs ==
  ASSUME NEW S, IsFiniteSet(S), NEW c, \A y \in S : c[y] \in Nat
  PROVE  \E F : Adds(F, c, S) /\ SumOver(c, S) = F[S]
<1> DEFINE F == CHOOSE F : Adds(F, c, S)
<1>1. SumOver(c, S) = F[S]
  BY DEF SumOver, MapThenSumSet, MapThenFoldSet, Adds, Pick
<1>2. Adds(F, c, S)
  BY SumsExist
<1> QED
  BY <1>1, <1>2

\* Whatever function has the sums of the subsets has this one.
LEMMA SumUnique ==
  ASSUME NEW S, IsFiniteSet(S), NEW c, \A y \in S : c[y] \in Nat, NEW F, Adds(F, c, S)
  PROVE  F[S] = SumOver(c, S)
<1>1. PICK G : Adds(G, c, S) /\ SumOver(c, S) = G[S]
  BY SumIs
<1>2. PICK x : x \in S \/ S = {}
  OBVIOUS
<1>3. /\ F[S] \in Nat /\ G[S] \in Nat
      /\ F[S] + At(c, x, S) = G[S] + At(c, x, S)
  <2>1. /\ \A y \in S : c[y] \in Nat /\ c[y] \in Nat
        /\ \A y \in S \ {x} : c[y] = c[y]
    OBVIOUS
  <2> QED
    BY <1>1, <2>1, AddsAlike
<1>4. At(c, x, S) \in Nat
  BY DEF At
<1> QED
  BY <1>1, <1>3, <1>4

\* Two sums whose terms agree but for one differ as these two terms do.
THEOREM SumChanges ==
  ASSUME NEW S, IsFiniteSet(S), NEW c, NEW d, NEW x \in S,
         \A y \in S : c[y] \in Nat /\ d[y] \in Nat,
         \A y \in S \ {x} : c[y] = d[y]
  PROVE  SumOver(c, S) + d[x] = SumOver(d, S) + c[x]
<1>1. PICK F : Adds(F, c, S) /\ SumOver(c, S) = F[S]
  BY SumIs
<1>2. PICK G : Adds(G, d, S) /\ SumOver(d, S) = G[S]
  BY SumIs
<1>3. F[S] + At(d, x, S) = G[S] + At(c, x, S)
  BY <1>1, <1>2, AddsAlike
<1> QED
  BY <1>1, <1>2, <1>3 DEF At

\* A sum of natural numbers is one, and depends on nothing but its terms.
THEOREM SumSame ==
  ASSUME NEW S, IsFiniteSet(S), NEW c, NEW d,
         \A y \in S : c[y] \in Nat /\ d[y] = c[y]
  PROVE  SumOver(c, S) \in Nat /\ SumOver(c, S) = SumOver(d, S)
<1>1. PICK F : Adds(F, c, S) /\ SumOver(c, S) = F[S]
  BY SumIs
<1>2. PICK G : Adds(G, d, S) /\ SumOver(d, S) = G[S]
  BY SumIs
<1>3. /\ S \in SUBSET S
      /\ \A y \in S : c[y] \in Nat /\ d[y] \in Nat
      /\ \A y : \A z \in S \ {y} : c[z] = d[z]
  OBVIOUS
<1>4. PICK x : x \in S \/ S = {}
  OBVIOUS
<1>5. /\ F[S] \in Nat /\ G[S] \in Nat
      /\ F[S] + At(d, x, S) = G[S] + At(c, x, S)
  <2>1. \A y \in S \ {x} : c[y] = d[y]
    BY <1>3
  <2> QED
    BY <1>1, <1>2, <1>3, <2>1, AddsAlike
<1>6. CASE x \in S
  <2>1. c[x] \in Nat /\ d[x] = c[x]
    BY <1>6
  <2>2. F[S] + c[x] = G[S] + c[x]
    BY <1>5, <1>6, <2>1 DEF At
  <2> QED
    BY <1>1, <1>2, <1>5, <2>1, <2>2
<1>7. CASE x \notin S
  BY <1>1, <1>2, <1>5, <1>7 DEF At
<1> QED
  BY <1>6, <1>7

\* A sum of nothing but zeros is zero.
THEOREM SumZero ==
  ASSUME NEW S, IsFiniteSet(S), NEW c, \A y \in S : c[y] = 0
  PROVE  SumOver(c, S) = 0
<1> DEFINE Z == [T \in SUBSET S |-> 0]
<1>1. PICK F : Adds(F, c, S) /\ SumOver(c, S) = F[S]
  BY SumIs
<1>2. Adds(Z, c, S)
  <2>1. ASSUME NEW T \in SUBSET S
        PROVE  Z[T] = IF T = {} THEN 0 ELSE c[Pick(T)] + Z[T \ {Pick(T)}]
    <3>1. T # {} => Pick(T) \in S /\ T \ {Pick(T)} \in SUBSET S
      BY Smaller
    <3> QED
      BY <3>1
  <2> QED
    BY <2>1 DEF Adds
<1>3. S \in SUBSET S /\ Z[S] = 0
  OBVIOUS
<1>4. PICK x : x \in S \/ S = {}
  OBVIOUS
<1>5. /\ F[S] \in Nat
      /\ F[S] + At(c, x, S) = Z[S] + At(c, x, S)
  <2> HIDE DEF Z
  <2>1. /\ \A y \in S : c[y] \in Nat /\ c[y] \in Nat
        /\ \A y : \A z \in S \ {y} : c[z] = c[z]
    OBVIOUS
  <2> QED
    BY <1>1, <1>2, <2>1, AddsAlike
<1>6. x \in S => c[x] = 0
  OBVIOUS
<1> QED
  BY <1>1, <1>3, <1>5, <1>6 DEF At
=============================================================================
