--------------------------- MODULE JobOrderProofs ---------------------------
(***************************************************************************)
(* Facts about the order of waiting jobs and about insertLocked, for any   *)
(* jobs and priorities.  The proofs about the queues cite them.            *)
(***************************************************************************)
EXTENDS JobOrder, FiniteSetTheorems, TLAPS

\* Positions of job j in s, and how many there are.
At(s, j) == {i \in 1..Len(s) : s[i] = j}

Occurs(s, j) == Cardinality(At(s, j))

\* ORDER BY priority DESC, created_at ASC is a strict total order.
LEMMA AheadIsOrder ==
  ASSUME NEW i \in Jobs, NEW j \in Jobs, NEW k \in Jobs
  PROVE  /\ ~Ahead(i, i)
         /\ Ahead(i, j) => ~Ahead(j, i)
         /\ Ahead(i, j) /\ Ahead(j, k) => Ahead(i, k)
         /\ i = j \/ Ahead(i, j) \/ Ahead(j, i)
  BY OrderAssumption DEF Ahead

\* A set of positions that is not empty has a first one.
LEMMA FirstPosition ==
  ASSUME NEW T \in SUBSET Nat, T # {}
  PROVE  \E p \in T : \A q \in T : p <= q
<1>1. PICK p \in T : \A q \in T : ~(<<q, p>> \in OpToRel(<, Nat))
  BY NatLessThanWellFounded, WFMin
<1>2. \A q \in T : ~(q < p)
  BY <1>1 DEF OpToRel
<1> QED
  BY <1>2

\* The loop of insertLocked stops at a position, and only there.
LEMMA PlaceFound ==
  ASSUME NEW s \in Seq(Jobs), NEW j \in Jobs
  PROVE  /\ Place(s, j) \in 1..Len(s) + 1
         /\ Place(s, j) = Len(s) + 1 \/ Ahead(j, s[Place(s, j)])
         /\ \A i \in 1..Place(s, j) - 1 : ~Ahead(j, s[i])
<1> DEFINE Stops == {p \in 1..Len(s) + 1 : p = Len(s) + 1 \/ Ahead(j, s[p])}
<1>1. Len(s) + 1 \in Stops /\ Stops \in SUBSET Nat
  OBVIOUS
<1>2. PICK p \in Stops : \A q \in Stops : p <= q
  BY <1>1, FirstPosition
<1>3. \A i \in 1..p - 1 : ~Ahead(j, s[i])
  <2> SUFFICES ASSUME NEW i \in 1..p - 1, Ahead(j, s[i]) PROVE FALSE
    OBVIOUS
  <2>1. i \in Stops
    BY <1>2
  <2> QED
    BY <1>2, <2>1
<1>4. \E q \in 1..Len(s) + 1 :
        /\ q = Len(s) + 1 \/ Ahead(j, s[q])
        /\ \A i \in 1..q - 1 : ~Ahead(j, s[i])
  BY <1>2, <1>3
<1> QED
  BY <1>4 DEF Place

\* What insertLocked leaves in the slice.
LEMMA InsertEntries ==
  ASSUME NEW s \in Seq(Jobs), NEW j \in Jobs
  PROVE  /\ InsertSorted(s, j) \in Seq(Jobs)
         /\ Len(InsertSorted(s, j)) = Len(s) + 1
         /\ \A i \in 1..Len(s) + 1 :
              InsertSorted(s, j)[i] =
                IF i < Place(s, j) THEN s[i]
                ELSE IF i = Place(s, j) THEN j ELSE s[i - 1]
<1>1. Place(s, j) \in 1..Len(s) + 1
  BY PlaceFound
<1> HIDE DEF Place
<1>2. InsertSorted(s, j) \in [1..Len(s) + 1 -> Jobs]
  BY <1>1 DEF InsertSorted
<1>3. Len(s) + 1 \in Nat
  OBVIOUS
<1>4. InsertSorted(s, j) \in Seq(Jobs)
  BY <1>2, <1>3
<1>5. Len(InsertSorted(s, j)) = Len(s) + 1
  BY <1>2, <1>3, <1>4
<1> QED
  BY <1>1, <1>4, <1>5 DEF InsertSorted

\* insertLocked keeps the slice in order.
LEMMA InsertKeepsOrder ==
  ASSUME NEW s \in Seq(Jobs), NEW j \in Jobs, InOrder(s)
  PROVE  InOrder(InsertSorted(s, j))
<1> DEFINE p == Place(s, j)
           t == InsertSorted(s, j)
<1> SUFFICES ASSUME NEW i \in 1..Len(s) + 1, NEW k \in 1..Len(s) + 1, i < k
             PROVE  ~Ahead(t[k], t[i])
  <2>1. DOMAIN t = 1..Len(s) + 1
    BY InsertEntries
  <2> QED
    BY <2>1 DEF InOrder
<1>1. /\ p \in 1..Len(s) + 1
      /\ p = Len(s) + 1 \/ Ahead(j, s[p])
      /\ \A m \in 1..p - 1 : ~Ahead(j, s[m])
  BY PlaceFound
<1>2. /\ t[i] = IF i < p THEN s[i] ELSE IF i = p THEN j ELSE s[i - 1]
      /\ t[k] = IF k < p THEN s[k] ELSE IF k = p THEN j ELSE s[k - 1]
  BY InsertEntries
<1>3. \A m, n \in 1..Len(s) : m < n => ~Ahead(s[n], s[m])
  BY DEF InOrder
<1>4. \A m \in 1..Len(s) : s[m] \in Jobs
  OBVIOUS
<1> HIDE DEF p, t
<1>5. CASE k < p
  BY <1>1, <1>2, <1>3, <1>5
<1>6. CASE k = p
  BY <1>1, <1>2, <1>6
<1>7. CASE k > p /\ i = p
  <2>1. t[k] = s[k - 1] /\ t[i] = j
    BY <1>1, <1>2, <1>7
  <2>2. k - 1 \in 1..Len(s) /\ p \in 1..Len(s) /\ p <= k - 1
    BY <1>1, <1>7
  <2>3. Ahead(j, s[p])
    BY <1>1, <2>2
  <2>4. ~Ahead(s[k - 1], s[p])
    BY <1>3, <1>4, <2>2, AheadIsOrder
  <2> QED
    BY <1>4, <2>1, <2>2, <2>3, <2>4, AheadIsOrder
<1>8. CASE k > p /\ i # p
  BY <1>1, <1>2, <1>3, <1>8
<1> QED
  BY <1>1, <1>5, <1>6, <1>7, <1>8

\* popLocked takes the first entry: none of the others goes ahead of it, and
\* they stay in order.
LEMMA HeadIsFirst ==
  ASSUME NEW s \in Seq(Jobs), s # <<>>, InOrder(s)
  PROVE  /\ InOrder(Tail(s))
         /\ \A i \in 1..Len(s) : ~Ahead(s[i], Head(s))
<1>1. /\ Head(s) = s[1] /\ Head(s) \in Jobs
      /\ Len(s) >= 1
      /\ Len(Tail(s)) = Len(s) - 1
      /\ DOMAIN Tail(s) = 1..Len(s) - 1
      /\ \A i \in 1..Len(s) - 1 : Tail(s)[i] = s[i + 1]
  OBVIOUS
<1>2. \A m, n \in 1..Len(s) : m < n => ~Ahead(s[n], s[m])
  BY DEF InOrder
<1>3. \A i \in 1..Len(s) - 1 : i + 1 \in 1..Len(s)
  BY <1>1
<1>4. InOrder(Tail(s))
  <2> SUFFICES ASSUME NEW i \in 1..Len(s) - 1, NEW k \in 1..Len(s) - 1, i < k
               PROVE  ~Ahead(s[k + 1], s[i + 1])
    BY <1>1 DEF InOrder
  <2> QED
    BY <1>2, <1>3
<1>5. \A i \in 1..Len(s) : ~Ahead(s[i], Head(s))
  <2>1. ~Ahead(s[1], s[1])
    BY <1>1, AheadIsOrder
  <2>2. \A i \in 1..Len(s) : i # 1 => ~Ahead(s[i], s[1])
    BY <1>1, <1>2
  <2> QED
    BY <1>1, <2>1, <2>2
<1> QED
  BY <1>4, <1>5

-----------------------------------------------------------------------------
(* Counting the entries of a job *)

LEMMA OccursType ==
  ASSUME NEW s \in Seq(Jobs), NEW j
  PROVE  /\ IsFiniteSet(At(s, j))
         /\ Occurs(s, j) \in Nat
         /\ Occurs(s, j) = 0 <=> \A i \in 1..Len(s) : s[i] # j
<1>1. IsFiniteSet(1..Len(s)) /\ At(s, j) \in SUBSET (1..Len(s))
  BY FS_Interval DEF At
<1>2. IsFiniteSet(At(s, j))
  BY <1>1, FS_Subset
<1>3. Occurs(s, j) \in Nat /\ (Occurs(s, j) = 0 <=> At(s, j) = {})
  BY <1>2, FS_CardinalityType, FS_EmptySet DEF Occurs
<1> QED
  BY <1>2, <1>3 DEF At

\* Positions that are moved apart are still as many.
LEMMA ShiftedPositions ==
  ASSUME NEW S, NEW T, IsFiniteSet(S), NEW f \in [S -> T],
         \A m, n \in S : f[m] = f[n] => m = n,
         \A n \in T : \E m \in S : f[m] = n
  PROVE  IsFiniteSet(T) /\ Cardinality(T) = Cardinality(S)
<1>1. f \in Bijection(S, T)
  BY DEF Bijection, Injection, Surjection, IsInjective
<1> QED
  BY <1>1, FS_Bijection DEF ExistsBijection

\* insertLocked adds one entry of the job and keeps all others.
LEMMA InsertCounts ==
  ASSUME NEW s \in Seq(Jobs), NEW j \in Jobs, NEW k \in Jobs
  PROVE  Occurs(InsertSorted(s, j), k)
           = IF k = j THEN Occurs(s, k) + 1 ELSE Occurs(s, k)
<1> DEFINE p == Place(s, j)
           t == InsertSorted(s, j)
           S == At(s, k)
           T == At(t, k) \ {p}
           f == [i \in S |-> IF i < p THEN i ELSE i + 1]
<1>1. p \in 1..Len(s) + 1
  BY PlaceFound
<1>2. /\ t \in Seq(Jobs)
      /\ Len(t) = Len(s) + 1
      /\ \A i \in 1..Len(s) + 1 :
           t[i] = IF i < p THEN s[i] ELSE IF i = p THEN j ELSE s[i - 1]
  BY InsertEntries
<1> HIDE DEF p, t
<1>3. f \in [S -> T]
  BY <1>1, <1>2 DEF At
<1>4. \A m, n \in S : f[m] = f[n] => m = n
  BY <1>1 DEF At
<1>5. \A n \in T : \E m \in S : f[m] = n
  <2> SUFFICES ASSUME NEW n \in T PROVE \E m \in S : f[m] = n
    OBVIOUS
  <2>1. n \in 1..Len(s) + 1 /\ t[n] = k /\ n # p
    BY <1>2 DEF At
  <2>2. CASE n < p
    <3>1. n \in S /\ f[n] = n
      BY <1>1, <1>2, <2>1, <2>2 DEF At
    <3> QED
      BY <3>1
  <2>3. CASE n > p
    <3>1. n - 1 \in S /\ ~(n - 1 < p)
      BY <1>1, <1>2, <2>1, <2>3 DEF At
    <3>2. f[n - 1] = n
      BY <2>1, <3>1
    <3> QED
      BY <3>1, <3>2
  <2> QED
    BY <1>1, <2>1, <2>2, <2>3
<1>6. IsFiniteSet(S) /\ Cardinality(S) \in Nat
  BY OccursType DEF Occurs
<1>7. IsFiniteSet(At(t, k))
  BY <1>2, OccursType
<1>8. p \in At(t, k) <=> k = j
  BY <1>1, <1>2 DEF At
<1>9. Cardinality(T) = Cardinality(S)
  <2> HIDE DEF S, T, f
  <2> QED
    BY <1>3, <1>4, <1>5, <1>6, ShiftedPositions
<1>10. Cardinality(T) = IF k = j THEN Cardinality(At(t, k)) - 1
                                 ELSE Cardinality(At(t, k))
  BY <1>7, <1>8, FS_RemoveElement
<1>11. Cardinality(At(t, k)) \in Nat
  BY <1>7, FS_CardinalityType
<1> QED
  BY <1>6, <1>9, <1>10, <1>11 DEF Occurs, t

\* popLocked removes one entry of the job it returns and no other.
LEMMA PopCounts ==
  ASSUME NEW s \in Seq(Jobs), s # <<>>, NEW k \in Jobs
  PROVE  Occurs(s, k)
           = IF k = Head(s) THEN Occurs(Tail(s), k) + 1
                            ELSE Occurs(Tail(s), k)
<1> DEFINE S == At(Tail(s), k)
           T == At(s, k) \ {1}
           f == [i \in S |-> i + 1]
<1>1. /\ Head(s) = s[1]
      /\ Len(s) \in Nat /\ Len(s) >= 1
      /\ Tail(s) \in Seq(Jobs)
      /\ Len(Tail(s)) = Len(s) - 1
      /\ \A i \in 1..Len(s) - 1 : Tail(s)[i] = s[i + 1]
  OBVIOUS
<1>2. f \in [S -> T]
  BY <1>1 DEF At
<1>3. \A m, n \in S : f[m] = f[n] => m = n
  BY <1>1 DEF At
<1>4. \A n \in T : \E m \in S : f[m] = n
  <2> SUFFICES ASSUME NEW n \in T PROVE \E m \in S : f[m] = n
    OBVIOUS
  <2>1. n - 1 \in S /\ n \in Int
    BY <1>1 DEF At
  <2>2. f[n - 1] = n
    BY <2>1
  <2> QED
    BY <2>1, <2>2
<1>5. IsFiniteSet(S) /\ Cardinality(S) \in Nat
  BY <1>1, OccursType DEF Occurs
<1>6. IsFiniteSet(At(s, k)) /\ Cardinality(At(s, k)) \in Nat
  BY OccursType DEF Occurs
<1>7. 1 \in At(s, k) <=> k = Head(s)
  BY <1>1 DEF At
<1>8. Cardinality(T) = Cardinality(S)
  <2> HIDE DEF S, T, f
  <2> QED
    BY <1>2, <1>3, <1>4, <1>5, ShiftedPositions
<1>9. Cardinality(T) = IF k = Head(s) THEN Cardinality(At(s, k)) - 1
                                      ELSE Cardinality(At(s, k))
  BY <1>6, <1>7, FS_RemoveElement
<1> QED
  BY <1>5, <1>6, <1>8, <1>9 DEF Occurs
=============================================================================
