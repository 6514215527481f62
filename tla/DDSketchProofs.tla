--------------------------- MODULE DDSketchProofs ---------------------------
(***************************************************************************)
(* The books of a DDSketch are in order at both sides, for every size of   *)
(* chunk, cap, number of indices and values, in whatever order deltas      *)
(* arrive: counts are conserved, what is above the floor is exact and      *)
(* quantiles follow, a cap is respected, and the counters agree with the   *)
(* store.                                                                  *)
(*                                                                         *)
(* The invariant relates a store to what its side was given: equal totals, *)
(* equal counts above the floor, nothing outside the indices given except  *)
(* at or below the floor, and a minimum no higher than any value or the    *)
(* floor it was folded to.                                                 *)
(***************************************************************************)
EXTENDS DDSketch, SumsProofs, FiniteSetTheorems, TLAPS

-----------------------------------------------------------------------------
(* Stores.                                                                 *)

IsStore(b) == \E l, r \in Int : b \in [l..r -> Nat]

(* The least and the greatest of an interval, and of a bounded set.        *)
LEMMA IntervalEnds ==
  ASSUME NEW l \in Int, NEW r \in Int, l <= r
  PROVE  Min(l..r) = l /\ Max(l..r) = r
<1>1. l \in l..r /\ r \in l..r /\ \A y \in l..r : l <= y /\ r >= y
  OBVIOUS
<1>2. \A x \in l..r : (\A y \in l..r : x <= y) => x = l
  BY <1>1
<1>3. \A x \in l..r : (\A y \in l..r : x >= y) => x = r
  BY <1>1
<1> QED
  BY <1>1, <1>2, <1>3 DEF Min, Max

LEMMA MinOf ==
  ASSUME NEW S, S \subseteq Int, S # {}, NEW l \in Int, \A x \in S : l <= x
  PROVE  Min(S) \in S /\ \A y \in S : Min(S) <= y
<1> DEFINE T == {x - l : x \in S}
<1>1. T \subseteq Nat /\ T # {}
  <2>1. \A x \in S : x - l \in Nat
    OBVIOUS
  <2> QED
    BY <2>1
<1>2. PICK m \in T : \A k \in T : m <= k
  BY <1>1, LeastNatural
<1>3. PICK x \in S : m = x - l
  BY <1>2
<1>4. \A y \in S : x <= y
  <2> SUFFICES ASSUME NEW y \in S
               PROVE  x <= y
    OBVIOUS
  <2>1. y - l \in T
    OBVIOUS
  <2>2. x - l <= y - l
    BY <1>2, <1>3, <2>1
  <2> QED
    BY <2>2
<1> QED
  BY <1>4 DEF Min

LEMMA MaxOf ==
  ASSUME NEW S, S \subseteq Int, S # {}, NEW r \in Int, \A x \in S : x <= r
  PROVE  Max(S) \in S /\ \A y \in S : y <= Max(S)
<1> DEFINE T == {r - x : x \in S}
<1>1. T \subseteq Nat /\ T # {}
  <2>1. \A x \in S : r - x \in Nat
    OBVIOUS
  <2> QED
    BY <2>1
<1>2. PICK m \in T : \A k \in T : m <= k
  BY <1>1, LeastNatural
<1>3. PICK x \in S : m = r - x
  BY <1>2
<1>4. \A y \in S : x >= y
  <2> SUFFICES ASSUME NEW y \in S
               PROVE  x >= y
    OBVIOUS
  <2>1. r - y \in T
    OBVIOUS
  <2>2. r - x <= r - y
    BY <1>2, <1>3, <2>1
  <2> QED
    BY <2>2
<1>5. Max(S) \in S /\ \A y \in S : Max(S) >= y
  BY <1>4 DEF Max
<1> QED
  BY <1>5

(* What follows from being a store.                                        *)
LEMMA StoreFacts ==
  ASSUME NEW b, IsStore(b)
  PROVE  /\ IsFiniteSet(DOMAIN b) /\ DOMAIN b \subseteq Int
         /\ \A k \in DOMAIN b : b[k] \in Nat
         /\ \A k : At(b, k) \in Nat
         /\ DOMAIN b # {} => /\ Left(b) \in Int /\ Right(b) \in Int /\ Left(b) <= Right(b)
                             /\ DOMAIN b = Left(b)..Right(b)
<1>1. PICK l \in Int, r \in Int : b \in [l..r -> Nat]
  BY DEF IsStore
<1>2. DOMAIN b = l..r /\ \A k \in DOMAIN b : b[k] \in Nat
  BY <1>1
<1>3. IsFiniteSet(DOMAIN b)
  BY <1>2, FS_Interval
<1>4. \A k : At(b, k) \in Nat
  BY <1>2 DEF At
<1>5. ASSUME DOMAIN b # {}
      PROVE  l <= r
  BY <1>2, <1>5
<1>6. DOMAIN b # {} => Left(b) = l /\ Right(b) = r
  BY <1>2, <1>5, IntervalEnds DEF Left, Right
<1> QED
  BY <1>2, <1>3, <1>4, <1>5, <1>6

LEMMA EmptyIsStore ==
  IsStore(Empty) /\ DOMAIN Empty = {} /\ \A k : At(Empty, k) = 0
<1>1. 1..0 = {}
  OBVIOUS
<1>2. Empty \in [1..0 -> Nat]
  BY <1>1 DEF Empty
<1>3. IsStore(Empty)
  <2>1. 1 \in Int /\ 0 \in Int
    OBVIOUS
  <2> QED
    BY <1>2, <2>1 DEF IsStore
<1> QED
  BY <1>3 DEF Empty, At

(* What a store holds over the set S.                                      *)
AtOn(b, S) == [k \in S |-> At(b, k)]

(* Summing over more indices than the store has changes nothing.           *)
LEMMA SumOfAt ==
  ASSUME NEW b, IsStore(b), NEW S, IsFiniteSet(S), NEW R, R \subseteq S, R \subseteq DOMAIN b,
         \A x \in S \ R : At(b, x) = 0
  PROVE  SumFunctionOnSet(AtOn(b, S), S) = SumFunctionOnSet(b, R)
<1> DEFINE f == AtOn(b, S)
<1>1. IsFiniteSet(R)
  BY FS_Subset
<1>2. \A x \in S : f[x] = At(b, x) /\ f[x] \in Int
  BY StoreFacts DEF AtOn
<1>3. \A x \in R : b[x] = f[x] /\ f[x] \in Int
  BY <1>2 DEF At
<1>4. \A x \in S \ R : f[x] = 0
  BY <1>2
<1> HIDE DEF f
<1>5. SumFunctionOnSet(f, S) = SumFunctionOnSet(f, R)
  BY <1>2, <1>4, SetSumExtend
<1>6. SumFunctionOnSet(b, R) = SumFunctionOnSet(f, R)
  BY <1>1, <1>3, SetSumEq
<1> QED
  BY <1>5, <1>6 DEF f

LEMMA TotalOfAt ==
  ASSUME NEW b, IsStore(b), NEW S, IsFiniteSet(S), DOMAIN b \subseteq S
  PROVE  SumFunctionOnSet(AtOn(b, S), S) = Total(b)
<1>1. \A x \in S \ DOMAIN b : At(b, x) = 0
  BY DEF At
<1>2. SumFunctionOnSet(AtOn(b, S), S) = SumFunctionOnSet(b, DOMAIN b)
  BY <1>1, SumOfAt
<1> QED
  BY <1>2 DEF Total, SumFunction

LEMMA TotalNat ==
  ASSUME NEW b, IsStore(b)
  PROVE  Total(b) \in Nat
BY StoreFacts, SetSumNat DEF Total, SumFunction

(* Stores that hold the same have the same total.                          *)
LEMMA SameTotal ==
  ASSUME NEW a, NEW b, IsStore(a), IsStore(b), \A j \in Int : At(a, j) = At(b, j)
  PROVE  Total(a) = Total(b)
<1> DEFINE S == DOMAIN a \union DOMAIN b
<1>1. IsFiniteSet(S) /\ S \subseteq Int
  BY StoreFacts, FS_Union
<1>2. AtOn(a, S) = AtOn(b, S)
  BY <1>1 DEF AtOn
<1>3. DOMAIN a \subseteq S /\ DOMAIN b \subseteq S
  OBVIOUS
<1> HIDE DEF S
<1>4. SumFunctionOnSet(AtOn(a, S), S) = Total(a)
  BY <1>1, <1>3, TotalOfAt
<1>5. SumFunctionOnSet(AtOn(b, S), S) = Total(b)
  BY <1>1, <1>3, TotalOfAt
<1> QED
  BY <1>2, <1>4, <1>5

(* Growth keeps every count.                                               *)
LEMMA SpreadFacts ==
  ASSUME NEW b, IsStore(b), NEW l \in Int, NEW r \in Int, DOMAIN b \subseteq l..r
  PROVE  /\ IsStore(Spread(b, l, r)) /\ DOMAIN Spread(b, l, r) = l..r
         /\ \A j : At(Spread(b, l, r), j) = At(b, j)
         /\ Total(Spread(b, l, r)) = Total(b)
<1>1. Spread(b, l, r) \in [l..r -> Nat]
  BY StoreFacts DEF Spread
<1>2. IsStore(Spread(b, l, r))
  BY <1>1 DEF IsStore
<1>3. \A j : At(Spread(b, l, r), j) = At(b, j)
  BY DEF Spread, At
<1>4. Total(Spread(b, l, r)) = Total(b)
  BY <1>2, <1>3, SameTotal
<1> QED
  BY <1>1, <1>2, <1>3, <1>4

(* collapseTo keeps the total, and every count above the new floor.        *)
LEMMA CollapsedFacts ==
  ASSUME NEW b, IsStore(b), NEW l \in Int, NEW r \in Int, l <= r, \A j \in DOMAIN b : j <= r
  PROVE  LET c == Collapsed(b, l, r)
         IN  /\ IsStore(c) /\ DOMAIN c = l..r
             /\ \A j \in Int : j > l => At(c, j) = At(b, j)
             /\ At(c, l) = SumFunctionOnSet(b, {j \in DOMAIN b : j <= l})
             /\ Total(c) = Total(b)
<1> DEFINE c == Collapsed(b, l, r)
           R == {j \in DOMAIN b : j <= l}
           Q == {j \in DOMAIN b : j > l}
           S == (l + 1)..r
<1>0. /\ IsFiniteSet(DOMAIN b) /\ DOMAIN b \subseteq Int
      /\ \A j \in DOMAIN b : b[j] \in Nat
  BY StoreFacts
<1>1. IsFiniteSet(R) /\ IsFiniteSet(Q)
  BY <1>0, FS_Subset
<1>2. SumFunctionOnSet(b, R) \in Nat
  BY <1>0, <1>1, SetSumNat
<1>3. c = [k \in l..r |-> IF k = l THEN SumFunctionOnSet(b, R) ELSE At(b, k)]
  BY DEF Collapsed
<1>4. c \in [l..r -> Nat]
  BY <1>2, <1>3, StoreFacts
<1>5. IsStore(c) /\ DOMAIN c = l..r
  BY <1>4 DEF IsStore
<1>6. \A j \in Int : j > l => At(c, j) = At(b, j)
  <2> SUFFICES ASSUME NEW j \in Int, j > l
               PROVE  At(c, j) = At(b, j)
    OBVIOUS
  <2>1. CASE j <= r
    BY <1>3, <2>1 DEF At
  <2>2. CASE ~ (j <= r)
    BY <1>3, <2>2 DEF At
  <2> QED
    BY <2>1, <2>2
<1>7. At(c, l) = SumFunctionOnSet(b, R) /\ c[l] = SumFunctionOnSet(b, R) /\ l \in l..r
  BY <1>3 DEF At
<1>8. Total(c) = c[l] + SumFunctionOnSet(c, S)
  <2>1. IsFiniteSet(l..r) /\ \A x \in l..r : c[x] \in Int
    BY <1>4, FS_Interval
  <2>2. (l..r) \ {l} = S
    OBVIOUS
  <2> DEFINE T == l..r
  <2>3. Total(c) = SumFunctionOnSet(c, T)
    BY <1>5 DEF Total, SumFunction
  <2>4. l \in T /\ T \ {l} = S
    BY <1>7, <2>2
  <2>5. IsFiniteSet(T) 
    BY <2>1
  <2>6. \A x \in T : c[x] \in Int
    BY <2>1
  <2> DEFINE x == l
  <2>7. x \in T
    BY <2>4
  <2> HIDE DEF T, S, c, x
  <2>8. SumFunctionOnSet(c, T) = c[x] + SumFunctionOnSet(c, T \ {x})
    BY <2>5, <2>6, <2>7, SetSumTake
  <2> QED
    BY <2>3, <2>4, <2>8 DEF x
<1>9. SumFunctionOnSet(c, S) = SumFunctionOnSet(AtOn(b, S), S)
  <2>1. IsFiniteSet(S)
    BY FS_Interval
  <2>2. \A x \in S : AtOn(b, S)[x] \in Int
    BY StoreFacts DEF AtOn
  <2>3. \A x \in S : c[x] = AtOn(b, S)[x]
    BY <1>3 DEF AtOn
  <2> HIDE DEF c, S
  <2> QED
    BY <2>1, <2>2, <2>3, SetSumEq
<1>10. SumFunctionOnSet(AtOn(b, S), S) = SumFunctionOnSet(b, Q)
  <2>1. IsFiniteSet(S)
    BY FS_Interval
  <2>2. Q \subseteq S /\ Q \subseteq DOMAIN b
    BY <1>0
  <2>3. \A x \in S \ Q : At(b, x) = 0
    BY DEF At
  <2> HIDE DEF Q, S
  <2> QED
    BY <2>1, <2>2, <2>3, SumOfAt
<1>11. Total(b) = SumFunctionOnSet(b, R) + SumFunctionOnSet(b, Q)
  <2>1. R \cap Q = {} /\ R \union Q = DOMAIN b
    BY <1>0
  <2>2. Total(b) = SumFunctionOnSet(b, R \union Q)
    BY <2>1 DEF Total, SumFunction
  <2>3. \A x \in R \union Q : b[x] \in Int
    BY <1>0
  <2> HIDE DEF R, Q
  <2> QED
    BY <1>1, <2>1, <2>2, <2>3, SetSumUnion
<1>12. Total(c) = Total(b)
  BY <1>7, <1>8, <1>9, <1>10, <1>11
<1> QED
  BY <1>5, <1>6, <1>7, <1>12

(* A first store is empty, has the index and is within the cap.            *)
LEMMA FreshFacts ==
  ASSUME NEW cap \in Nat, NEW k \in Int
  PROVE  LET c == Fresh(cap, k)
         IN  /\ IsStore(c) /\ k \in DOMAIN c
             /\ \A j : At(c, j) = 0
             /\ Total(c) = 0
             /\ cap > 0 => /\ Cardinality(DOMAIN c) <= cap
                           /\ Right(c) <= k + Lesser(GrowChunk, cap) - 1
<1> DEFINE n == IF cap > 0 THEN Lesser(GrowChunk, cap) ELSE GrowChunk
           l == k - n \div 2
           r == l + n - 1
           c == Fresh(cap, k)
<1>1. n \in Nat /\ n > 0 /\ (cap > 0 => n <= cap /\ n = Lesser(GrowChunk, cap))
  BY DDSketchAssumption DEF Lesser
<1>2. c = [j \in l..r |-> 0]
  BY DEF Fresh
<1> HIDE DEF n
<1>3. n \div 2 \in Nat /\ n \div 2 < n
  BY <1>1
<1>4. l \in Int /\ r \in Int /\ l <= k /\ k <= r /\ r <= k + n - 1 /\ r - l + 1 = n
  BY <1>1, <1>3
<1> HIDE DEF l, r, c
<1>5. IsStore(c) /\ DOMAIN c = l..r
  <2>1. c \in [l..r -> Nat]
    BY <1>2
  <2> QED
    BY <1>4, <2>1 DEF IsStore
<1>6. \A j : At(c, j) = 0
  BY <1>2 DEF At
<1>7. Total(c) = 0
  <2>1. \A x \in DOMAIN c : c[x] = 0
    BY <1>2
  <2> QED
    BY <1>5, <2>1, StoreFacts, SetSumZeros DEF Total, SumFunction
<1>8. Cardinality(DOMAIN c) = n
  <2>1. Cardinality(l..r) = IF l > r THEN 0 ELSE r - l + 1
    BY <1>4, FS_Interval
  <2> QED
    BY <1>4, <1>5, <2>1
<1>9. Right(c) = r
  BY <1>4, <1>5, IntervalEnds DEF Right
<1>10. k \in DOMAIN c
  BY <1>4, <1>5
<1> QED
  BY <1>1, <1>4, <1>5, <1>6, <1>7, <1>8, <1>9, <1>10 DEF c

(* Room for k: nothing moves but what falls below the new floor.           *)
Roomy(b, cap, k, e) ==
  /\ IsStore(e) /\ Slot(b, cap, k) \in Int /\ Slot(b, cap, k) \in DOMAIN e
  /\ Total(e) = Total(b)
  /\ ~ Overflows(b, cap, k) =>
       Slot(b, cap, k) = k /\ \A j \in Int : At(e, j) = At(b, j)
  /\ Overflows(b, cap, k) =>
       /\ NewFloor(b, cap, k) \in Int
       /\ Slot(b, cap, k) = Greater(k, NewFloor(b, cap, k))
       /\ \A j \in DOMAIN e : j >= NewFloor(b, cap, k)
       /\ \A j \in Int : j > NewFloor(b, cap, k) => At(e, j) = At(b, j)
       /\ At(e, NewFloor(b, cap, k)) # 0 => \E j \in DOMAIN b : b[j] # 0 /\ j <= NewFloor(b, cap, k)

(* ensure, whichever way it takes, makes such room.                        *)
LEMMA EnsuredRoomy ==
  ASSUME NEW b, IsStore(b), NEW cap \in Nat, NEW k \in Int
  PROVE  Roomy(b, cap, k, Ensured(b, cap, k))
<1>1. CASE DOMAIN b = {}
  <2>1. ~ Overflows(b, cap, k) /\ Slot(b, cap, k) = k /\ Ensured(b, cap, k) = Fresh(cap, k)
    BY <1>1 DEF Overflows, Slot, Ensured
  <2>2. Total(b) = 0
    BY <1>1, SetSumEmpty DEF Total, SumFunction
  <2>3. \A j : At(b, j) = 0
    BY <1>1 DEF At
  <2> QED
    BY <2>1, <2>2, <2>3, FreshFacts DEF Roomy
<1>2. CASE DOMAIN b # {} /\ Overflows(b, cap, k)
  <2> DEFINE nf == NewFloor(b, cap, k)
             r == Greater(Right(b), k)
  <2>0. /\ Left(b) \in Int /\ Right(b) \in Int /\ Left(b) <= Right(b)
        /\ DOMAIN b = Left(b)..Right(b)
    BY <1>2, StoreFacts
  <2>1. cap > 0
    BY <1>2 DEF Overflows
  <2>2. nf \in Int /\ r \in Int /\ nf <= r /\ k <= r /\ Right(b) <= r
    BY <2>0, <2>1 DEF NewFloor, Greater
  <2>3. Ensured(b, cap, k) = Collapsed(b, nf, r) /\ Slot(b, cap, k) = Greater(k, nf)
    BY <1>2 DEF Ensured, Slot
  <2>4. \A j \in DOMAIN b : j <= r
    BY <2>0, <2>2
  <2> HIDE DEF nf, r
  <2> DEFINE c == Collapsed(b, nf, r)
  <2>5. /\ IsStore(c) /\ DOMAIN c = nf..r
        /\ \A j \in Int : j > nf => At(c, j) = At(b, j)
        /\ At(c, nf) = SumFunctionOnSet(b, {j \in DOMAIN b : j <= nf})
        /\ Total(c) = Total(b)
    BY <2>2, <2>4, CollapsedFacts
  <2>6. Greater(k, nf) \in nf..r
    BY <2>2 DEF Greater
  <2>7. ASSUME At(c, nf) # 0
        PROVE  \E j \in DOMAIN b : b[j] # 0 /\ j <= nf
    <3> DEFINE R == {j \in DOMAIN b : j <= nf}
    <3>1. IsFiniteSet(R)
      BY StoreFacts, FS_Subset
    <3>2. SumFunctionOnSet(b, R) # 0
      BY <2>5, <2>7
    <3>3. \E j \in R : b[j] # 0
      BY <3>1, <3>2, SetSumPositive
    <3> QED
      BY <3>3
  <2>8. \A j \in DOMAIN c : j >= nf
    BY <2>2, <2>5
  <2> HIDE DEF c
  <2> QED
    BY <1>2, <2>2, <2>3, <2>5, <2>6, <2>7, <2>8 DEF Roomy, nf, c
<1>3. CASE DOMAIN b # {} /\ ~ Overflows(b, cap, k)
  <2> DEFINE e == Ensured(b, cap, k)
  <2>0. /\ Left(b) \in Int /\ Right(b) \in Int /\ Left(b) <= Right(b)
        /\ DOMAIN b = Left(b)..Right(b)
    BY <1>3, StoreFacts
  <2>1. Slot(b, cap, k) = k
    BY <1>3 DEF Slot
  <2>2. k \notin DOMAIN b /\ cap > 0 => Greater(Right(b), k) - Lesser(Left(b), k) + 1 <= cap
    BY <1>3, <2>0 DEF Overflows, Greater, Lesser
  <2>g. GrowChunk \in Nat /\ GrowChunk > 0
    BY DDSketchAssumption
  <2>3. CASE k < Left(b)
    <3> DEFINE l == GrownLeft(b, cap, k)
    <3>1. l \in Int /\ l <= k
      BY <2>0, <2>2, <2>3, <2>g DEF GrownLeft, Greater, Lesser
    <3>2. e = Spread(b, l, Right(b))
      BY <1>3, <2>3 DEF Ensured
    <3> HIDE DEF l, e
    <3>3. DOMAIN b \subseteq l..Right(b) /\ k \in l..Right(b)
      BY <2>0, <2>3, <3>1
    <3> QED
      BY <1>3, <2>0, <2>1, <3>1, <3>2, <3>3, SpreadFacts DEF Roomy, e
  <2>4. CASE k > Right(b)
    <3> DEFINE r == GrownRight(b, cap, k)
    <3>1. r \in Int /\ k <= r
      BY <2>0, <2>2, <2>4, <2>g DEF GrownRight, Greater, Lesser
    <3>2. e = Spread(b, Left(b), r)
      BY <1>3, <2>0, <2>4 DEF Ensured
    <3> HIDE DEF r, e
    <3>3. DOMAIN b \subseteq Left(b)..r /\ k \in Left(b)..r
      BY <2>0, <2>4, <3>1
    <3> QED
      BY <1>3, <2>0, <2>1, <3>1, <3>2, <3>3, SpreadFacts DEF Roomy, e
  <2>5. CASE ~ (k < Left(b)) /\ ~ (k > Right(b))
    <3>1. e = b /\ k \in DOMAIN b
      BY <1>3, <2>0, <2>5 DEF Ensured
    <3> QED
      BY <1>3, <2>1, <3>1 DEF Roomy
  <2> QED
    BY <2>3, <2>4, <2>5
<1> QED
  BY <1>1, <1>2, <1>3

-----------------------------------------------------------------------------
(* The books of one sketch: what is in store b, n in all, against what it  *)
(* was given, t, when indices up to f have been folded together.           *)

Books(b, n, t, f) ==
  /\ IsStore(b) /\ n \in Nat /\ t \in [Index -> Nat] /\ f \in Nat
  /\ Total(b) = n
  /\ SumFunctionOnSet(t, Index) = n
  /\ \A k \in Index : k > f => At(b, k) = t[k]
  /\ \A j \in DOMAIN b : b[j] # 0 => j >= 1 /\ (j <= NumIndex \/ j <= f)

(* The store with n more in the bucket k goes to.                          *)
Put(b, cap, k, n) == [Ensured(b, cap, k) EXCEPT ![Slot(b, cap, k)] = @ + n]

FloorOf(b, cap, k, f) ==
  IF Overflows(b, cap, k) THEN Greater(f, NewFloor(b, cap, k)) ELSE f

LEMMA IndexFacts ==
  IsFiniteSet(Index) /\ Index \subseteq Int /\ NumIndex \in Nat /\ NumIndex > 0
BY DDSketchAssumption, FS_Interval DEF Index

(* An insert adds to the total, and to the one bucket.                     *)
LEMMA PutFacts ==
  ASSUME NEW b, IsStore(b), NEW cap \in Nat, NEW k \in Int, NEW n \in Nat
  PROVE  LET a == Put(b, cap, k, n)
             e == Ensured(b, cap, k)
         IN  /\ IsStore(a) /\ DOMAIN a = DOMAIN e
             /\ Total(a) = Total(b) + n
             /\ \A j : At(a, j) = IF j = Slot(b, cap, k) THEN At(e, j) + n ELSE At(e, j)
<1> DEFINE a == Put(b, cap, k, n)
           e == Ensured(b, cap, k)
           s == Slot(b, cap, k)
<1>1. IsStore(e) /\ s \in DOMAIN e /\ Total(e) = Total(b)
  BY EnsuredRoomy DEF Roomy
<1>2. a = [e EXCEPT ![s] = @ + n]
  BY DEF Put
<1> HIDE DEF a, e, s
<1>3. PICK l \in Int, r \in Int : e \in [l..r -> Nat]
  BY <1>1 DEF IsStore
<1>4. e[s] \in Nat
  BY <1>1, <1>3
<1>5. a \in [l..r -> Nat]
  BY <1>1, <1>2, <1>3, <1>4
<1>6. IsStore(a) /\ DOMAIN a = DOMAIN e
  BY <1>3, <1>5 DEF IsStore
<1>7. a[s] = e[s] + n /\ \A j \in DOMAIN e \ {s} : a[j] = e[j]
  BY <1>1, <1>2, <1>3
<1>8. \A j : At(a, j) = IF j = s THEN At(e, j) + n ELSE At(e, j)
  BY <1>1, <1>6, <1>7 DEF At
<1>9. Total(a) = Total(e) + n
  <2>1. IsFiniteSet(DOMAIN e) /\ (\A y \in DOMAIN e : e[y] \in Int) /\ n \in Int
    BY <1>1, StoreFacts
  <2> DEFINE S == DOMAIN e
  <2>2. IsFiniteSet(S) /\ (\A y \in S : e[y] \in Int) /\ s \in S /\ \A y \in S \ {s} : a[y] = e[y]
    BY <1>1, <1>7, <2>1
  <2>3. Total(a) = SumFunctionOnSet(a, S) /\ Total(e) = SumFunctionOnSet(e, S)
    BY <1>6 DEF Total, SumFunction
  <2> HIDE DEF S
  <2>4. SumFunctionOnSet(a, S) = SumFunctionOnSet(e, S) + n
    BY <1>7, <2>1, <2>2, SetSumBump
  <2> QED
    BY <2>3, <2>4
<1> QED
  BY <1>1, <1>6, <1>8, <1>9 DEF a, e, s

(* So does what was given.                                                 *)
LEMMA TruthMore ==
  ASSUME NEW t \in [Index -> Nat], NEW k \in Index, NEW n \in Nat
  PROVE  LET u == [t EXCEPT ![k] = @ + n]
         IN  /\ u \in [Index -> Nat]
             /\ u[k] = t[k] + n /\ \A j \in Index \ {k} : u[j] = t[j]
             /\ SumFunctionOnSet(u, Index) = SumFunctionOnSet(t, Index) + n
<1> DEFINE u == [t EXCEPT ![k] = @ + n]
<1>1. /\ u \in [Index -> Nat]
      /\ u[k] = t[k] + n /\ \A j \in Index \ {k} : u[j] = t[j]
  OBVIOUS
<1>2. (\A y \in Index : t[y] \in Int) /\ n \in Int
  OBVIOUS
<1> DEFINE x == k
           c == n
           S == Index
<1>3. /\ IsFiniteSet(S) /\ x \in S /\ c \in Int
      /\ \A y \in S : t[y] \in Int
      /\ u[x] = t[x] + c /\ \A y \in S \ {x} : u[y] = t[y]
  BY <1>1, <1>2, IndexFacts
<1> HIDE DEF u, x, c, S
<1>4. SumFunctionOnSet(u, S) = SumFunctionOnSet(t, S) + c
  BY <1>3, SetSumBump
<1> QED
  BY <1>1, <1>4 DEF u, S, c

(* The books stay in order over an insert, collapsing or not.              *)
LEMMA BooksAdd ==
  ASSUME NEW b, NEW n, NEW t, NEW f, Books(b, n, t, f),
         NEW cap \in Nat, NEW k \in Index, NEW m \in Nat
  PROVE  Books(Put(b, cap, k, m), n + m, [t EXCEPT ![k] = @ + m], FloorOf(b, cap, k, f))
<1> DEFINE a == Put(b, cap, k, m)
           e == Ensured(b, cap, k)
           s == Slot(b, cap, k)
           u == [t EXCEPT ![k] = @ + m]
           g == FloorOf(b, cap, k, f)
           nf == NewFloor(b, cap, k)
<1>0. /\ IsStore(b) /\ n \in Nat /\ t \in [Index -> Nat] /\ f \in Nat
      /\ Total(b) = n
      /\ SumFunctionOnSet(t, Index) = n
      /\ \A j \in Index : j > f => At(b, j) = t[j]
      /\ \A j \in DOMAIN b : b[j] # 0 => j >= 1 /\ (j <= NumIndex \/ j <= f)
  BY DEF Books
<1>1. k \in Int /\ k >= 1 /\ k <= NumIndex /\ NumIndex \in Nat
  BY IndexFacts DEF Index
<1>2. Roomy(b, cap, k, e)
  BY <1>0, <1>1, EnsuredRoomy
<1>3. /\ IsStore(a) /\ DOMAIN a = DOMAIN e
      /\ Total(a) = Total(b) + m
      /\ \A j : At(a, j) = IF j = s THEN At(e, j) + m ELSE At(e, j)
  BY <1>0, <1>1, PutFacts
<1>4. /\ u \in [Index -> Nat]
      /\ u[k] = t[k] + m /\ \A j \in Index \ {k} : u[j] = t[j]
      /\ SumFunctionOnSet(u, Index) = SumFunctionOnSet(t, Index) + m
  <2>1. t \in [Index -> Nat]
    BY <1>0
  <2> QED
    BY <2>1, TruthMore
<1>5. g = IF Overflows(b, cap, k) THEN Greater(f, nf) ELSE f
  BY DEF FloorOf
<1> HIDE DEF a, e, s, u, g, nf
<1>6. /\ s \in Int
      /\ ~ Overflows(b, cap, k) => s = k /\ \A j \in Int : At(e, j) = At(b, j)
      /\ Overflows(b, cap, k) =>
           /\ nf \in Int
           /\ s = Greater(k, nf)
           /\ \A j \in DOMAIN e : j >= nf
           /\ \A j \in Int : j > nf => At(e, j) = At(b, j)
           /\ At(e, nf) # 0 => \E j \in DOMAIN b : b[j] # 0 /\ j <= nf
  BY <1>2 DEF Roomy, e, s, nf
<1>7. g \in Nat /\ g >= f /\ (Overflows(b, cap, k) => g >= nf)
  BY <1>0, <1>5, <1>6 DEF Greater
<1>8. Index \subseteq Int /\ DOMAIN a \subseteq Int /\ DOMAIN b \subseteq Int
  BY <1>0, <1>3, IndexFacts, StoreFacts
<1>9. \A j \in Int : At(b, j) # 0 => j >= 1 /\ (j <= NumIndex \/ j <= g)
  BY <1>0, <1>1, <1>7 DEF At
<1>10. ASSUME NEW j \in Index, j > g
       PROVE  At(a, j) = u[j]
  <2>1. j \in Int /\ At(b, j) = t[j]
    BY <1>0, <1>7, <1>8, <1>10
  <2>2. At(e, j) = At(b, j)
    BY <1>6, <1>7, <1>10, <2>1
  <2>3. j = s <=> j = k
    BY <1>1, <1>6, <1>7, <1>10, <2>1 DEF Greater
  <2> QED
    BY <1>3, <1>4, <2>1, <2>2, <2>3
<1>11. ASSUME NEW j \in DOMAIN a, a[j] # 0
       PROVE  j >= 1 /\ (j <= NumIndex \/ j <= g)
  <2>1. j \in Int /\ At(a, j) # 0
    BY <1>8, <1>11 DEF At
  <2>2. j = s \/ At(e, j) # 0
    BY <1>3, <2>1
  <2>3. CASE ~ Overflows(b, cap, k)
    <3>1. j = k \/ At(b, j) # 0
      BY <1>6, <2>1, <2>2, <2>3
    <3> QED
      BY <1>1, <1>9, <2>1, <3>1
  <2>4. CASE Overflows(b, cap, k) /\ j > nf
    <3>1. j = s => j = k
      BY <1>1, <1>6, <2>1, <2>4 DEF Greater
    <3>2. j = k \/ At(b, j) # 0
      BY <1>6, <2>1, <2>2, <2>4, <3>1
    <3> QED
      BY <1>1, <1>9, <2>1, <3>2
  <2>5. CASE Overflows(b, cap, k) /\ ~ (j > nf)
    <3>1. j = nf
      BY <1>3, <1>6, <2>1, <2>5
    <3>2. j <= g
      BY <1>7, <2>5, <3>1
    <3>3. j >= 1
      <4>1. CASE j = s
        BY <1>1, <1>6, <2>5, <3>1, <4>1 DEF Greater
      <4>2. CASE At(e, j) # 0
        <5>1. PICK i \in DOMAIN b : b[i] # 0 /\ i <= nf
          BY <1>6, <2>5, <3>1, <4>2
        <5>2. i >= 1 /\ i \in Int
          BY <1>0, <1>8, <5>1
        <5> QED
          BY <2>1, <3>1, <5>1, <5>2
      <4> QED
        BY <2>2, <4>1, <4>2
    <3> QED
      BY <3>2, <3>3
  <2> QED
    BY <2>3, <2>4, <2>5
<1>12. Total(a) = n + m /\ n + m \in Nat
  BY <1>0, <1>3
<1>13. Books(a, n + m, u, g)
  BY <1>3, <1>4, <1>7, <1>10, <1>11, <1>12 DEF Books
<1> QED
  BY <1>13 DEF a, u, g

(* The books of a new sketch.                                              *)
LEMMA BooksEmpty ==
  Books(Empty, 0, [k \in Index |-> 0], 0)
<1>1. IsStore(Empty) /\ DOMAIN Empty = {} /\ \A k : At(Empty, k) = 0
  BY EmptyIsStore
<1>2. Total(Empty) = 0
  BY <1>1, SetSumEmpty DEF Total, SumFunction
<1> DEFINE t == [k \in Index |-> 0]
<1>3. t \in [Index -> Nat] /\ \A k \in Index : t[k] = 0
  OBVIOUS
<1>4. SumFunctionOnSet(t, Index) = 0
  BY <1>3, IndexFacts, SetSumZeros
<1> HIDE DEF t
<1>5. \A k \in Index : At(Empty, k) = t[k]
  BY <1>1, <1>3
<1> QED
  BY <1>1, <1>2, <1>3, <1>4, <1>5 DEF Books, t

(* Books are about counts, not about how far the store extends.            *)
LEMMA BooksSame ==
  ASSUME NEW b, NEW n, NEW t, NEW f, Books(b, n, t, f),
         NEW a, IsStore(a), \A j \in Int : At(a, j) = At(b, j)
  PROVE  Books(a, n, t, f)
<1>1. Total(a) = Total(b)
  BY SameTotal DEF Books
<1>2. \A k \in Index : At(a, k) = At(b, k)
  BY IndexFacts
<1>3. ASSUME NEW j \in DOMAIN a, a[j] # 0
      PROVE  j \in DOMAIN b /\ b[j] # 0
  <2>1. j \in Int
    BY StoreFacts
  <2>2. At(b, j) # 0
    BY <1>3, <2>1 DEF At
  <2> QED
    BY <2>2 DEF At
<1> QED
  BY <1>1, <1>2, <1>3 DEF Books

(* A sketch without values was given nothing.                              *)
LEMMA BooksZero ==
  ASSUME NEW b, NEW t, NEW f, Books(b, 0, t, f)
  PROVE  \A k \in Index : t[k] = 0
<1> SUFFICES ASSUME NEW k \in Index
             PROVE  t[k] = 0
  OBVIOUS
<1>1. t \in [Index -> Nat] /\ SumFunctionOnSet(t, Index) = 0
  BY DEF Books
<1>2. \A x \in Index : t[x] \in Nat
  BY <1>1
<1>3. t[k] <= SumFunctionOnSet(t, Index)
  BY <1>2, IndexFacts, SetSumElement
<1> QED
  BY <1>1, <1>2, <1>3

Zeroed(b, k) == [j \in DOMAIN b |-> IF j = k THEN 0 ELSE b[j]]

(* What was counted for k is taken out.                                    *)
LEMMA BooksReset ==
  ASSUME NEW b, NEW n, NEW t, Books(b, n, t, 0), NEW k \in Index
  PROVE  /\ At(b, k) = t[k] /\ At(b, k) <= n /\ At(b, k) \in Nat
         /\ Books(Zeroed(b, k), n - At(b, k), [t EXCEPT ![k] = 0], 0)
<1> DEFINE a == Zeroed(b, k)
           u == [t EXCEPT ![k] = 0]
           d == At(b, k)
<1>0. /\ IsStore(b) /\ n \in Nat /\ t \in [Index -> Nat]
      /\ Total(b) = n
      /\ SumFunctionOnSet(t, Index) = n
      /\ \A j \in Index : j > 0 => At(b, j) = t[j]
      /\ \A j \in DOMAIN b : b[j] # 0 => j >= 1 /\ (j <= NumIndex \/ j <= 0)
  BY DEF Books
<1>1. k \in Int /\ k > 0
  BY IndexFacts DEF Index
<1>2. d = t[k] /\ d \in Nat
  BY <1>0, <1>1
<1>3. PICK l \in Int, r \in Int : b \in [l..r -> Nat]
  BY <1>0 DEF IsStore
<1>4. a \in [l..r -> Nat]
  BY <1>3 DEF Zeroed
<1>5. IsStore(a) /\ DOMAIN a = DOMAIN b
  BY <1>3, <1>4 DEF IsStore
<1>6. \A j : At(a, j) = IF j = k THEN 0 ELSE At(b, j)
  BY DEF At, Zeroed
<1>7. u \in [Index -> Nat] /\ u[k] = 0 /\ \A j \in Index \ {k} : u[j] = t[j]
  BY <1>0
<1>8. SumFunctionOnSet(u, Index) = n - d
  <2> DEFINE x == k
             c == -d
             S == Index
  <2>1. /\ IsFiniteSet(S) /\ x \in S /\ c \in Int
        /\ \A y \in S : t[y] \in Int
        /\ u[x] = t[x] + c /\ \A y \in S \ {x} : u[y] = t[y]
    BY <1>0, <1>2, <1>7, IndexFacts
  <2> HIDE DEF u, x, c, S
  <2>2. SumFunctionOnSet(u, S) = SumFunctionOnSet(t, S) + c
    BY <2>1, SetSumBump
  <2>3. SumFunctionOnSet(t, S) = n
    BY <1>0 DEF S
  <2>4. SumFunctionOnSet(u, S) = n - d
    BY <1>0, <1>2, <2>2, <2>3 DEF c
  <2> QED
    BY <2>4 DEF S
<1>9. d <= n
  <2>1. \A x \in Index : t[x] \in Nat
    BY <1>0
  <2>2. t[k] <= SumFunctionOnSet(t, Index)
    BY <2>1, IndexFacts, SetSumElement
  <2> QED
    BY <1>0, <1>2, <2>2
<1>10. Total(a) = n - d
  <2>1. CASE k \in DOMAIN b
    <3> DEFINE x == k
               c == -d
               S == DOMAIN b
    <3>1. d = b[k] /\ a[k] = 0 /\ \A y \in S \ {k} : a[y] = b[y]
      BY <2>1 DEF At, Zeroed
    <3>2. IsFiniteSet(S) /\ \A y \in S : b[y] \in Int
      BY <1>0, StoreFacts
    <3>3. /\ x \in S /\ c \in Int
          /\ a[x] = b[x] + c /\ \A y \in S \ {x} : a[y] = b[y]
      BY <1>2, <2>1, <3>1
    <3>4. Total(a) = SumFunctionOnSet(a, S) /\ SumFunctionOnSet(b, S) = n
      BY <1>0, <1>5 DEF Total, SumFunction
    <3> HIDE DEF a, x, c, S
    <3>5. SumFunctionOnSet(a, S) = SumFunctionOnSet(b, S) + c
      BY <3>2, <3>3, SetSumBump
    <3> QED
      BY <1>0, <1>2, <3>4, <3>5 DEF c
  <2>2. CASE k \notin DOMAIN b
    <3>1. d = 0 /\ \A j \in Int : At(a, j) = At(b, j)
      BY <1>6, <2>2 DEF At
    <3>2. Total(a) = Total(b)
      BY <1>0, <1>5, <3>1, SameTotal
    <3> QED
      BY <1>0, <3>1, <3>2
  <2> QED
    BY <2>1, <2>2
<1>11. \A j \in Index : j > 0 => At(a, j) = u[j]
  BY <1>0, <1>6, <1>7
<1>12. \A j \in DOMAIN a : a[j] # 0 => j >= 1 /\ (j <= NumIndex \/ j <= 0)
  BY <1>0, <1>5 DEF Zeroed
<1> HIDE DEF a, u, d
<1>13. n - d \in Nat /\ 0 \in Nat
  BY <1>0, <1>2, <1>9
<1>14. Books(a, n - d, u, 0)
  BY <1>5, <1>7, <1>8, <1>10, <1>11, <1>12, <1>13 DEF Books
<1> QED
  BY <1>2, <1>9, <1>14 DEF a, u, d

(* DrainBuckets: every bucket is zeroed.                                   *)
LEMMA BooksDrained ==
  ASSUME NEW b, NEW n, NEW t, Books(b, n, t, 0)
  PROVE  Books([k \in DOMAIN b |-> 0], 0, [k \in Index |-> 0], 0)
<1> DEFINE a == [k \in DOMAIN b |-> 0]
<1>1. PICK l \in Int, r \in Int : b \in [l..r -> Nat]
  BY DEF IsStore, Books
<1>2. a \in [l..r -> Nat]
  BY <1>1
<1>3. IsStore(a) /\ \A j : At(a, j) = 0
  BY <1>2 DEF IsStore, At
<1> HIDE DEF a
<1>4. \A j \in Int : At(a, j) = At(Empty, j)
  BY <1>3, EmptyIsStore
<1> QED
  BY <1>3, <1>4, BooksEmpty, BooksSame DEF a

(* mergeBuckets adds bucket by bucket.                                     *)
LEMMA MergedFacts ==
  ASSUME NEW a, NEW b, IsStore(a), IsStore(b)
  PROVE  LET c == BucketsMerged(a, b)
         IN  /\ IsStore(c)
             /\ \A j \in Int : At(c, j) = At(a, j) + At(b, j)
             /\ Total(c) = Total(a) + Total(b)
<1> DEFINE c == BucketsMerged(a, b)
<1>0. Total(a) \in Nat /\ Total(b) \in Nat /\ \A j : At(a, j) \in Nat /\ At(b, j) \in Nat
  BY TotalNat, StoreFacts
<1>1. CASE DOMAIN a = {}
  <2>1. c = b /\ \A j : At(a, j) = 0
    BY <1>1 DEF BucketsMerged, At
  <2>2. Total(a) = 0
    BY <1>1, SetSumEmpty DEF Total, SumFunction
  <2> HIDE DEF c
  <2> QED
    BY <1>0, <2>1, <2>2 DEF c
<1>2. CASE DOMAIN a # {} /\ DOMAIN b = {}
  <2>1. c = a /\ \A j : At(b, j) = 0
    BY <1>2 DEF BucketsMerged, At
  <2>2. Total(b) = 0
    BY <1>2, SetSumEmpty DEF Total, SumFunction
  <2> HIDE DEF c
  <2> QED
    BY <1>0, <2>1, <2>2 DEF c
<1>3. CASE DOMAIN a # {} /\ DOMAIN b # {}
  <2> DEFINE l == Lesser(Left(a), Left(b))
             r == Greater(Right(a), Right(b))
             S == l..r
             f == AtOn(a, S)
             g == AtOn(b, S)
  <2>1. c = [k \in S |-> At(a, k) + At(b, k)]
    BY <1>3 DEF BucketsMerged
  <2>2. /\ Left(a) \in Int /\ Right(a) \in Int /\ Left(b) \in Int /\ Right(b) \in Int
        /\ DOMAIN a = Left(a)..Right(a) /\ DOMAIN b = Left(b)..Right(b)
    BY <1>3, StoreFacts
  <2>3. /\ l \in Int /\ r \in Int /\ l <= Left(a) /\ l <= Left(b)
        /\ Right(a) <= r /\ Right(b) <= r
    BY <2>2 DEF Lesser, Greater
  <2> HIDE DEF c, l, r
  <2>4. DOMAIN a \subseteq S /\ DOMAIN b \subseteq S /\ IsFiniteSet(S)
    <3>1. DOMAIN a \subseteq S
      BY <2>2, <2>3
    <3>2. DOMAIN b \subseteq S
      BY <2>2, <2>3
    <3>3. IsFiniteSet(S)
      BY <2>3, FS_Interval
    <3> QED
      BY <3>1, <3>2, <3>3
  <2>5. c \in [l..r -> Nat]
    BY <1>0, <2>1
  <2>6. IsStore(c)
    BY <2>3, <2>5 DEF IsStore
  <2>7. \A j \in Int : At(c, j) = At(a, j) + At(b, j)
    <3> SUFFICES ASSUME NEW j \in Int
                 PROVE  At(c, j) = At(a, j) + At(b, j)
      OBVIOUS
    <3>1. CASE j \in S
      BY <2>1, <3>1 DEF At
    <3>2. CASE j \notin S
      <4>1. At(c, j) = 0 /\ At(a, j) = 0 /\ At(b, j) = 0
        BY <2>1, <2>4, <3>2 DEF At
      <4> QED
        BY <4>1
    <3> QED
      BY <3>1, <3>2
  <2>8. \A x \in S : f[x] \in Int /\ g[x] \in Int /\ c[x] = f[x] + g[x]
    BY <1>0, <2>1 DEF AtOn
  <2>9. SumFunctionOnSet(f, S) = Total(a) /\ SumFunctionOnSet(g, S) = Total(b)
    BY <2>4, TotalOfAt
  <2>10. Total(c) = SumFunctionOnSet(c, S)
    BY <2>1 DEF Total, SumFunction
  <2> HIDE DEF f, g, S
  <2>11. SumFunctionOnSet(c, S) = SumFunctionOnSet(f, S) + SumFunctionOnSet(g, S)
    BY <2>4, <2>8, SetSumPlus
  <2> QED
    BY <2>6, <2>7, <2>9, <2>10, <2>11 DEF c
<1> QED
  BY <1>1, <1>2, <1>3

(* The books of a merged sketch, above both floors.                        *)
LEMMA BooksMerged ==
  ASSUME NEW a, NEW m, NEW t, NEW f, Books(a, m, t, f),
         NEW b, NEW n, NEW u, NEW g, Books(b, n, u, g)
  PROVE  Books(BucketsMerged(a, b), m + n, [k \in Index |-> t[k] + u[k]], Greater(f, g))
<1> DEFINE c == BucketsMerged(a, b)
           v == [k \in Index |-> t[k] + u[k]]
           h == Greater(f, g)
<1>1. /\ IsStore(a) /\ m \in Nat /\ t \in [Index -> Nat] /\ f \in Nat
      /\ Total(a) = m
      /\ SumFunctionOnSet(t, Index) = m
      /\ \A k \in Index : k > f => At(a, k) = t[k]
      /\ \A j \in DOMAIN a : a[j] # 0 => j >= 1 /\ (j <= NumIndex \/ j <= f)
  BY DEF Books
<1>2. /\ IsStore(b) /\ n \in Nat /\ u \in [Index -> Nat] /\ g \in Nat
      /\ Total(b) = n
      /\ SumFunctionOnSet(u, Index) = n
      /\ \A k \in Index : k > g => At(b, k) = u[k]
      /\ \A j \in DOMAIN b : b[j] # 0 => j >= 1 /\ (j <= NumIndex \/ j <= g)
  BY DEF Books
<1>3. /\ IsStore(c)
      /\ \A j \in Int : At(c, j) = At(a, j) + At(b, j)
      /\ Total(c) = m + n
  BY <1>1, <1>2, MergedFacts
<1>4. v \in [Index -> Nat] /\ \A x \in Index : /\ t[x] \in Int /\ u[x] \in Int
                                               /\ v[x] = t[x] + u[x]
  BY <1>1, <1>2
<1>5. h \in Nat /\ h >= f /\ h >= g
  BY <1>1, <1>2 DEF Greater
<1> HIDE DEF c, v, h
<1>6. SumFunctionOnSet(v, Index) = m + n
  <2>1. SumFunctionOnSet(v, Index) = SumFunctionOnSet(t, Index) + SumFunctionOnSet(u, Index)
    <3> DEFINE S == Index
    <3>1. /\ IsFiniteSet(S) /\ \A x \in S : t[x] \in Int
          /\ \A x \in S : u[x] \in Int
          /\ \A x \in S : v[x] = t[x] + u[x]
      BY <1>4, IndexFacts
    <3> HIDE DEF S
    <3>2. SumFunctionOnSet(v, S) = SumFunctionOnSet(t, S) + SumFunctionOnSet(u, S)
      BY <3>1, SetSumPlus
    <3> QED
      BY <3>2 DEF S
  <2> QED
    BY <1>1, <1>2, <2>1
<1>7. Index \subseteq Int /\ DOMAIN c \subseteq Int /\ NumIndex \in Nat
  BY <1>3, IndexFacts, StoreFacts
<1>8. \A k \in Index : k > h => At(c, k) = v[k]
  <2> SUFFICES ASSUME NEW k \in Index, k > h
               PROVE  At(c, k) = v[k]
    OBVIOUS
  <2>1. k > f /\ k > g /\ k \in Int
    BY <1>1, <1>2, <1>5, <1>7
  <2> QED
    BY <1>1, <1>2, <1>3, <1>4, <2>1
<1>9. ASSUME NEW j \in DOMAIN c, c[j] # 0
      PROVE  j >= 1 /\ (j <= NumIndex \/ j <= h)
  <2>1. j \in Int /\ At(c, j) # 0
    BY <1>7, <1>9 DEF At
  <2>2. At(a, j) # 0 \/ At(b, j) # 0
    BY <1>3, <2>1
  <2>3. (j \in DOMAIN a /\ a[j] # 0) \/ (j \in DOMAIN b /\ b[j] # 0)
    BY <2>2 DEF At
  <2> QED
    BY <1>1, <1>2, <1>5, <1>7, <2>1, <2>3
<1>10. m + n \in Nat
  BY <1>1, <1>2
<1> QED
  BY <1>3, <1>4, <1>5, <1>6, <1>8, <1>9, <1>10 DEF Books, c, v, h

-----------------------------------------------------------------------------
(* Serialized forms keep what the store holds.                             *)

(* Either wire form brings every count back.                               *)
LEMMA RoundTrip ==
  ASSUME NEW b, IsStore(b)
  PROVE  LET c == bucketsFromWire(bucketWireForm(b))
         IN  IsStore(c) /\ \A j \in Int : At(c, j) = At(b, j)
<1> DEFINE c == bucketsFromWire(bucketWireForm(b))
           N == Nonzero(b)
           P == {[index |-> k, count |-> b[k]] : k \in N}
<1>0. DOMAIN b \subseteq Int /\ N \subseteq DOMAIN b
  BY StoreFacts DEF Nonzero
<1>1. CASE N = {}
  <2>1. c = Empty
    BY <1>1 DEF bucketsFromWire, bucketWireForm
  <2>2. \A j \in Int : At(b, j) = 0
    BY <1>1 DEF Nonzero, At
  <2> QED
    BY <2>1, <2>2, EmptyIsStore
<1>2. CASE N # {} /\ Cardinality(DOMAIN b) <= Cardinality(Nonzero(b)) * SparsityDivisor
  <2>1. c = b
    BY <1>2 DEF bucketsFromWire, bucketWireForm
  <2> QED
    BY <2>1
<1>3. CASE N # {} /\ ~ (Cardinality(DOMAIN b) <= Cardinality(Nonzero(b)) * SparsityDivisor)
  <2> DEFINE I == {e.index : e \in P}
             G(J) == [k \in Min(J)..Max(J) |->
                        IF k \in J THEN (CHOOSE e \in P : e.index = k).count ELSE 0]
             g == G(N)
  <2>1. bucketWireForm(b) = [dense |-> Empty, sparse |-> P]
    BY <1>3 DEF bucketWireForm
  <2>2. P # {}
    BY <1>3
  <2>3. c = G(I)
    BY <2>1, <2>2 DEF bucketsFromWire
  <2>p. /\ \A k \in N : [index |-> k, count |-> b[k]] \in P
        /\ \A e \in P : e.index \in N /\ e.count = b[e.index]
    OBVIOUS
  <2> HIDE DEF N, P
  <2>4. I = N
    <3>1. I \subseteq N
      BY <2>p
    <3>2. \A k \in N : \E e \in P : e.index = k
      <4> SUFFICES ASSUME NEW k \in N
                   PROVE  \E e \in P : e.index = k
        OBVIOUS
      <4>1. [index |-> k, count |-> b[k]] \in P
        BY <2>p
      <4>2. [index |-> k, count |-> b[k]].index = k
        OBVIOUS
      <4> QED
        BY <4>1, <4>2
    <3>3. N \subseteq I
      BY <3>2
    <3> QED
      BY <3>1, <3>3
  <2>5. \A k \in N : (CHOOSE e \in P : e.index = k).count = b[k]
    <3> SUFFICES ASSUME NEW k \in N
                 PROVE  (CHOOSE e \in P : e.index = k).count = b[k]
      OBVIOUS
    <3>1. \E e \in P : e.index = k
      BY <2>4
    <3>2. \A e \in P : e.index = k => e.count = b[k]
      BY <2>p
    <3> QED
      BY <3>1, <3>2
  <2> DEFINE l == Left(b)
             r == Right(b)
  <2>6. l \in Int /\ r \in Int /\ DOMAIN b = l..r
    BY <1>0, <1>3, StoreFacts
  <2> HIDE DEF l, r
  <2>7. N \subseteq Int /\ \A x \in N : l <= x /\ x <= r
    BY <1>0, <2>6
  <2>8. /\ Min(N) \in N /\ \A y \in N : Min(N) <= y
        /\ Max(N) \in N /\ \A y \in N : y <= Max(N)
    BY <1>3, <2>6, <2>7, MinOf, MaxOf
  <2>9. g = [k \in Min(N)..Max(N) |-> IF k \in N THEN b[k] ELSE 0]
    BY <2>5
  <2>c. c = g
    <3> HIDE DEF G, c, I
    <3> QED
      BY <2>3, <2>4
  <2> HIDE DEF g, I
  <2>10. Min(N) \in Int /\ Max(N) \in Int
    BY <2>7, <2>8
  <2>11. \A k \in N : b[k] \in Nat
    BY <1>0, StoreFacts
  <2>12. g \in [Min(N)..Max(N) -> Nat]
    BY <2>9, <2>11
  <2>13. IsStore(g)
    BY <2>10, <2>12 DEF IsStore
  <2>14. \A j \in Int : At(g, j) = At(b, j)
    <3> SUFFICES ASSUME NEW j \in Int
                 PROVE  At(g, j) = At(b, j)
      OBVIOUS
    <3>1. CASE j \in N
      <4>1. j \in Min(N)..Max(N)
        BY <2>8, <2>10, <3>1
      <4> QED
        BY <1>0, <2>9, <3>1, <4>1 DEF At
    <3>2. CASE j \notin N
      <4>1. At(b, j) = 0
        BY <3>2 DEF At, N, Nonzero
      <4>2. At(g, j) = 0
        BY <2>9, <3>2 DEF At
      <4> QED
        BY <4>1, <4>2
    <3> QED
      BY <3>1, <3>2
  <2> HIDE DEF c
  <2> QED
    BY <2>c, <2>13, <2>14 DEF c
<1> QED
  BY <1>1, <1>2, <1>3

-----------------------------------------------------------------------------
(* Quantiles.                                                              *)

(* How many values are in the buckets up to j, and belong there.           *)
Cum(b, j) == SumFunctionOnSet(b, {i \in DOMAIN b : i <= j})
Given(t, j) == SumFunctionOnSet(t, {k \in Index : k <= j})

(* The minimum is no higher than any value, or than the folded buckets it  *)
(* may be in.                                                              *)
MinBelow(min, t, f) ==
  min \in Int /\ \A k \in Index : t[k] # 0 => min <= Greater(k, f)

(* From the floor on as many values are in the buckets as belong there.    *)
LEMMA CumGiven ==
  ASSUME NEW b, NEW n, NEW t, NEW f, Books(b, n, t, f), NEW j \in Int, j >= f
  PROVE  Cum(b, j) = Given(t, j)
<1> DEFINE L == {i \in DOMAIN b : i <= j}
           H == {i \in DOMAIN b : i > j}
           P == {k \in Index : k <= j}
           S == {k \in Index : k > j}
           R == H \cap S
           g == AtOn(b, S)
<1>0. /\ IsStore(b) /\ n \in Nat /\ t \in [Index -> Nat] /\ f \in Nat
      /\ Total(b) = n
      /\ SumFunctionOnSet(t, Index) = n
      /\ \A k \in Index : k > f => At(b, k) = t[k]
      /\ \A i \in DOMAIN b : b[i] # 0 => i >= 1 /\ (i <= NumIndex \/ i <= f)
  BY DEF Books
<1>1. /\ IsFiniteSet(DOMAIN b) /\ DOMAIN b \subseteq Int
      /\ \A i \in DOMAIN b : b[i] \in Nat
      /\ \A i : At(b, i) \in Nat
  BY <1>0, StoreFacts
<1>2. IsFiniteSet(Index) /\ Index \subseteq Int /\ NumIndex \in Nat
  BY IndexFacts
<1>3. IsFiniteSet(L) /\ IsFiniteSet(H) /\ IsFiniteSet(P) /\ IsFiniteSet(S)
  BY <1>1, <1>2, FS_Subset
<1>4. n = SumFunctionOnSet(b, L) + SumFunctionOnSet(b, H)
  <2>1. L \cap H = {} /\ L \union H = DOMAIN b
    BY <1>1
  <2>2. \A x \in L \union H : b[x] \in Int
    BY <1>1
  <2>3. n = SumFunctionOnSet(b, L \union H)
    BY <1>0, <2>1 DEF Total, SumFunction
  <2> HIDE DEF L, H
  <2>4. SumFunctionOnSet(b, L \union H) = SumFunctionOnSet(b, L) + SumFunctionOnSet(b, H)
    BY <1>3, <2>1, <2>2, SetSumUnion
  <2> QED
    BY <2>3, <2>4
<1>5. n = SumFunctionOnSet(t, P) + SumFunctionOnSet(t, S)
  <2>0. \A k \in Index : (k <= j \/ k > j) /\ ~ (k <= j /\ k > j)
    BY <1>2
  <2>1. P \cap S = {} /\ P \union S = Index
    <3>1. P \cap S = {}
      BY <2>0
    <3>2. P \union S = Index
      BY <2>0
    <3> QED
      BY <3>1, <3>2
  <2>2. \A x \in P \union S : t[x] \in Int
    BY <1>0
  <2>3. n = SumFunctionOnSet(t, P \union S)
    BY <1>0, <2>1
  <2> HIDE DEF P, S
  <2>4. SumFunctionOnSet(t, P \union S) = SumFunctionOnSet(t, P) + SumFunctionOnSet(t, S)
    BY <1>3, <2>1, <2>2, SetSumUnion
  <2> QED
    BY <2>3, <2>4
<1>6. SumFunctionOnSet(b, H) = SumFunctionOnSet(b, R)
  <2>1. R \subseteq H /\ \A x \in H : b[x] \in Int
    BY <1>1
  <2>2. \A x \in H \ R : b[x] = 0
    <3> SUFFICES ASSUME NEW x \in H, b[x] # 0
                 PROVE  x \in R
      OBVIOUS
    <3>1. x \in Int /\ x > j /\ x >= 1 /\ x <= NumIndex
      BY <1>0, <1>1
    <3> QED
      BY <1>2, <3>1 DEF Index
  <2> HIDE DEF H, R
  <2> QED
    BY <1>3, <2>1, <2>2, SetSumExtend
<1>7. SumFunctionOnSet(g, S) = SumFunctionOnSet(b, R)
  <2>1. R \subseteq S /\ R \subseteq DOMAIN b
    OBVIOUS
  <2>2. \A x \in S \ R : At(b, x) = 0
    BY DEF At
  <2> HIDE DEF R, S
  <2> QED
    BY <1>0, <1>3, <2>1, <2>2, SumOfAt
<1>8. SumFunctionOnSet(g, S) = SumFunctionOnSet(t, S)
  <2>1. \A x \in S : t[x] \in Int
    BY <1>0
  <2>2. \A x \in S : g[x] = t[x]
    BY <1>0, <1>2 DEF AtOn
  <2> HIDE DEF S, g
  <2> QED
    BY <1>3, <2>1, <2>2, SetSumEq
<1>9. SumFunctionOnSet(b, L) \in Int /\ SumFunctionOnSet(b, H) \in Int
  <2>1. (\A x \in L : b[x] \in Int) /\ \A x \in H : b[x] \in Int
    BY <1>1
  <2> HIDE DEF L, H
  <2> QED
    BY <1>3, <2>1, SetSumType
<1>10. SumFunctionOnSet(t, P) \in Int
  <2>1. \A x \in P : t[x] \in Int
    BY <1>0
  <2> HIDE DEF P
  <2> QED
    BY <1>3, <2>1, SetSumType
<1> DEFINE w == SumFunctionOnSet(b, L)
           x == SumFunctionOnSet(b, H)
           y == SumFunctionOnSet(t, P)
           z == SumFunctionOnSet(t, S)
<1> HIDE DEF L, H, P, S, R, g
<1>11. x = z
  BY <1>6, <1>7, <1>8
<1>12. n = w + x /\ n = y + z /\ w \in Int /\ x \in Int /\ y \in Int
  BY <1>4, <1>5, <1>9, <1>10
<1> HIDE DEF w, x, y, z
<1>13. w = y
  BY <1>11, <1>12
<1> QED
  BY <1>13 DEF Cum, Given, L, P, w, y

(* Both never decrease.                                                    *)
LEMMA CumMonotone ==
  ASSUME NEW b, IsStore(b), NEW i \in Int, NEW j \in Int, i <= j
  PROVE  Cum(b, i) <= Cum(b, j) /\ Cum(b, i) \in Nat /\ Cum(b, j) \in Nat
<1> DEFINE R == {x \in DOMAIN b : x <= i}
           S == {x \in DOMAIN b : x <= j}
<1>1. IsFiniteSet(R) /\ IsFiniteSet(S)
  BY StoreFacts, FS_Subset
<1>2. R \subseteq S /\ (\A x \in S : b[x] \in Nat) /\ \A x \in R : b[x] \in Nat
  BY StoreFacts
<1> HIDE DEF R, S
<1>3. /\ SumFunctionOnSet(b, R) <= SumFunctionOnSet(b, S)
      /\ SumFunctionOnSet(b, R) \in Nat /\ SumFunctionOnSet(b, S) \in Nat
  BY <1>1, <1>2, SetSumPart, SetSumNat
<1> QED
  BY <1>3 DEF Cum, R, S

LEMMA GivenMonotone ==
  ASSUME NEW t \in [Index -> Nat], NEW i \in Int, NEW j \in Int, i <= j
  PROVE  Given(t, i) <= Given(t, j) /\ Given(t, i) \in Nat /\ Given(t, j) \in Nat
<1> DEFINE R == {x \in Index : x <= i}
           S == {x \in Index : x <= j}
<1>1. IsFiniteSet(R) /\ IsFiniteSet(S)
  BY IndexFacts, FS_Subset
<1>2. R \subseteq S /\ (\A x \in S : t[x] \in Nat) /\ \A x \in R : t[x] \in Nat
  <2>1. \A x \in Index : x <= i => x <= j
    BY IndexFacts
  <2>2. \A x \in Index : t[x] \in Nat
    OBVIOUS
  <2>3. R \subseteq S
    BY <2>1
  <2>4. (\A x \in S : t[x] \in Nat) /\ \A x \in R : t[x] \in Nat
    BY <2>2
  <2> QED
    BY <2>3, <2>4
<1> HIDE DEF R, S
<1>3. /\ SumFunctionOnSet(t, R) <= SumFunctionOnSet(t, S)
      /\ SumFunctionOnSet(t, R) \in Nat /\ SumFunctionOnSet(t, S) \in Nat
  BY <1>1, <1>2, SetSumPart, SetSumNat
<1> QED
  BY <1>3 DEF Given, R, S

LEMMA GivenStep ==
  ASSUME NEW t \in [Index -> Nat], NEW k \in Index
  PROVE  Given(t, k) = t[k] + Given(t, k-1)
<1> DEFINE S == {x \in Index : x <= k}
           R == {x \in Index : x <= k-1}
           y == k
<1>1. k \in Int /\ Index \subseteq Int
  BY IndexFacts
<1>2. y \in S /\ S \ {y} = R /\ \A x \in S : t[x] \in Int
  <2>1. \A x \in Index : (x <= k /\ x # k) <=> x <= k-1
    BY <1>1
  <2>2. k <= k /\ ~ (k <= k-1)
    BY <1>1
  <2>3. S \ {y} = R
    BY <2>1, <2>2
  <2>4. y \in S
    BY <2>2
  <2>5. \A x \in S : t[x] \in Int
    OBVIOUS
  <2> QED
    BY <2>3, <2>4, <2>5
<1>3. IsFiniteSet(S)
  BY IndexFacts, FS_Subset
<1> HIDE DEF S, R, y
<1>4. SumFunctionOnSet(t, S) = t[y] + SumFunctionOnSet(t, S \ {y})
  BY <1>2, <1>3, SetSumTake
<1>5. SumFunctionOnSet(t, S) = t[y] + SumFunctionOnSet(t, R)
  BY <1>2, <1>4
<1> QED
  BY <1>5 DEF Given, S, R, y

(* Where a rank has been reached, a bucket that is not empty reached it.   *)
LEMMA ReachedBy ==
  ASSUME NEW b, IsStore(b), NEW rank \in Nat, rank > 0, NEW j \in Int, Cum(b, j) >= rank
  PROVE  \E k \in DOMAIN b : b[k] # 0 /\ Cum(b, k) >= rank /\ k <= j
<1> DEFINE S == {i \in DOMAIN b : i <= j}
           Q == {i \in S : b[i] # 0}
           m == Max(Q)
           R == {i \in DOMAIN b : i <= m}
<1>1. /\ IsFiniteSet(DOMAIN b) /\ DOMAIN b \subseteq Int
      /\ \A i \in DOMAIN b : b[i] \in Nat
  BY StoreFacts
<1>2. IsFiniteSet(S) /\ Cum(b, j) \in Nat
  BY <1>1, FS_Subset, CumMonotone
<1>3. Q # {}
  <2>1. SumFunctionOnSet(b, S) # 0
    BY <1>2 DEF Cum
  <2> HIDE DEF S
  <2>2. \E i \in S : b[i] # 0
    BY <1>2, <2>1, SetSumPositive
  <2> QED
    BY <2>2
<1>4. Q \subseteq Int /\ \A x \in Q : x <= j
  BY <1>1
<1>5. m \in Q /\ \A x \in Q : x <= m
  <2> HIDE DEF Q
  <2> QED
    BY <1>3, <1>4, MaxOf
<1> HIDE DEF m
<1>6. m \in DOMAIN b /\ m \in Int /\ m <= j /\ b[m] # 0
  BY <1>1, <1>5
<1>7. R \subseteq S /\ (\A x \in S : b[x] \in Int) /\ \A x \in S \ R : b[x] = 0
  BY <1>1, <1>5, <1>6
<1> HIDE DEF R, S
<1>8. SumFunctionOnSet(b, S) = SumFunctionOnSet(b, R)
  BY <1>2, <1>7, SetSumExtend
<1>9. Cum(b, m) = Cum(b, j)
  BY <1>8 DEF Cum, R, S
<1> QED
  BY <1>6, <1>9

(* The answer is the bucket of that rank, or at most the floor.            *)
LEMMA QuantileAnswer ==
  ASSUME NEW d, NEW t, NEW f, Books(d.bins, d.count, t, f), MinBelow(d.min, t, f),
         NEW rank \in 1..d.count
  PROVE  LET Reached == {k \in Index : SumFunctionOnSet(t, 1..k) >= rank}
             answer == QuantileIndex(d, rank)
         IN  IF Min(Reached) > f THEN answer = Min(Reached) ELSE answer <= f
<1> DEFINE b == d.bins
           Reached == {k \in Index : SumFunctionOnSet(t, 1..k) >= rank}
           T == Min(Reached)
           R == {k \in DOMAIN b : b[k] # 0 /\ Cum(b, k) >= rank}
           top == Greater(T, f)
<1>0. /\ IsStore(b) /\ d.count \in Nat /\ t \in [Index -> Nat] /\ f \in Nat
      /\ SumFunctionOnSet(t, Index) = d.count
  BY DEF Books
<1>1. rank \in Nat /\ rank > 0 /\ rank <= d.count
  BY <1>0
<1>2. \A k \in Index : SumFunctionOnSet(t, 1..k) = Given(t, k)
  <2> SUFFICES ASSUME NEW k \in Index
               PROVE  SumFunctionOnSet(t, 1..k) = Given(t, k)
    OBVIOUS
  <2>1. 1..k = {x \in Index : x <= k}
    BY IndexFacts DEF Index
  <2> QED
    BY <2>1 DEF Given
<1>3. Reached = {k \in Index : Given(t, k) >= rank}
  BY <1>2
<1>4. NumIndex \in Reached
  <2>1. NumIndex \in Index
    BY IndexFacts DEF Index
  <2>2. SumFunctionOnSet(t, 1..NumIndex) = d.count
    BY <1>0 DEF Index
  <2> QED
    BY <1>0, <1>1, <2>1, <2>2
<1>5. T \in Reached /\ \A y \in Reached : T <= y
  <2>1. Reached \subseteq Int /\ \A y \in Reached : 1 <= y
    BY IndexFacts DEF Index
  <2> HIDE DEF Reached
  <2>2. Reached # {} /\ 1 \in Int
    BY <1>4
  <2> QED
    BY <2>1, <2>2, MinOf
<1> HIDE DEF Reached, T
<1>6. T \in Index /\ T \in Int /\ T >= 1 /\ T <= NumIndex /\ Given(t, T) >= rank
  BY <1>3, <1>5, IndexFacts DEF Index
<1>7. Given(t, T-1) < rank /\ Given(t, T-1) \in Nat
  <2>1. Given(t, T-1) \in Nat
    BY <1>0, <1>6, GivenMonotone
  <2>2. CASE T = 1
    <3>1. {k \in Index : k <= T-1} = {}
      BY <2>2 DEF Index
    <3>2. Given(t, T-1) = 0
      BY <3>1, SetSumEmpty DEF Given
    <3> QED
      BY <1>1, <3>2
  <2>3. CASE T # 1
    <3>1. T-1 \in Index /\ ~ (T <= T-1)
      BY <1>6, <2>3, IndexFacts DEF Index
    <3>2. T-1 \notin Reached
      BY <1>5, <3>1
    <3> QED
      BY <1>1, <1>3, <2>1, <3>1, <3>2
  <2> QED
    BY <2>2, <2>3
<1>8. t[T] # 0
  <2>1. Given(t, T) = t[T] + Given(t, T-1)
    BY <1>0, <1>6, GivenStep
  <2> QED
    BY <1>1, <1>6, <1>7, <2>1
<1>9. d.min \in Int /\ d.min <= top
  BY <1>6, <1>8 DEF MinBelow
<1>10. top \in Int /\ top >= T /\ top >= f
  BY <1>0, <1>6 DEF Greater
<1>t. T <= f => top = f
  BY <1>0, <1>6 DEF Greater
<1>u. T > f => top = T
  BY <1>0, <1>6 DEF Greater
<1> HIDE DEF top, b
<1>11. Cum(b, top) >= rank
  <2>1. Cum(b, top) = Given(t, top)
    BY <1>10, CumGiven DEF b
  <2>2. Given(t, T) <= Given(t, top) /\ Given(t, T) \in Nat /\ Given(t, top) \in Nat
    BY <1>0, <1>6, <1>10, GivenMonotone
  <2> QED
    BY <1>1, <1>6, <2>1, <2>2
<1>12. PICK k \in R : k <= top
  <2>1. \E k \in DOMAIN b : b[k] # 0 /\ Cum(b, k) >= rank /\ k <= top
    BY <1>0, <1>1, <1>10, <1>11, ReachedBy
  <2> QED
    BY <2>1
<1>13. R \subseteq Int
  BY <1>0, StoreFacts
<1>14. Min(R) \in R /\ \A y \in R : Min(R) <= y
  <2>1. R # {} /\ R \subseteq DOMAIN b
    BY <1>12
  <2>2. DOMAIN b # {}
    BY <2>1
  <2>3. Left(b) \in Int /\ \A x \in DOMAIN b : Left(b) <= x
    BY <1>0, <2>2, StoreFacts
  <2> HIDE DEF R
  <2>4. \A x \in R : Left(b) <= x
    BY <2>1, <2>3
  <2> QED
    BY <1>13, <2>1, <2>3, <2>4, MinOf
<1>15. QuantileIndex(d, rank) = Greater(Min(R), d.min)
  <2>1. R # {}
    BY <1>12
  <2> QED
    BY <2>1 DEF QuantileIndex, Cum, b
<1>16. Min(R) \in Int /\ Min(R) <= top
  <2> DEFINE m == Min(R)
  <2>1. m \in R /\ \A y \in R : m <= y
    BY <1>14
  <2> HIDE DEF R, m
  <2>2. m \in Int /\ k \in Int /\ m <= k
    BY <1>12, <1>13, <2>1
  <2>3. m <= top
    BY <1>10, <1>12, <2>2
  <2> QED
    BY <2>2, <2>3 DEF m
<1>17. QuantileIndex(d, rank) \in Int /\ QuantileIndex(d, rank) <= top
       /\ QuantileIndex(d, rank) >= Min(R)
  BY <1>9, <1>10, <1>15, <1>16 DEF Greater
<1>18. ASSUME T > f
       PROVE  Min(R) >= T
  <2> SUFFICES ASSUME ~ (Min(R) >= T)
               PROVE  FALSE
    OBVIOUS
  <2>1. Cum(b, Min(R)) >= rank
    BY <1>14
  <2> DEFINE m == Min(R)
  <2> HIDE DEF R, m
  <2>2. m \in Int /\ m <= T-1
    BY <1>6, <1>16 DEF m
  <2>3. Cum(b, m) <= Cum(b, T-1) /\ Cum(b, m) \in Nat /\ Cum(b, T-1) \in Nat
    BY <1>0, <1>6, <2>2, CumMonotone
  <2>4. Cum(b, T-1) = Given(t, T-1)
    <3>1. T-1 \in Int /\ T-1 >= f
      BY <1>0, <1>6, <1>18
    <3> QED
      BY <3>1, CumGiven DEF b
  <2>5. Cum(b, m) >= rank
    BY <2>1 DEF m
  <2> QED
    BY <1>1, <1>7, <2>3, <2>4, <2>5
<1> HIDE DEF R
<1>19. CASE T > f
  BY <1>6, <1>16, <1>17, <1>18, <1>19, <1>u DEF T, Reached
<1>20. CASE ~ (T > f)
  BY <1>0, <1>6, <1>17, <1>20, <1>t DEF T, Reached
<1> QED
  BY <1>19, <1>20

(* Inserts, resets and merges keep the minimum where it should be.         *)
LEMMA MinSeen ==
  ASSUME NEW t \in [Index -> Nat], NEW f \in Nat, NEW g \in Nat, g >= f,
         NEW min, MinBelow(min, t, f), NEW k \in Index, NEW n \in Nat
  PROVE  MinBelow(Lesser(min, k), [t EXCEPT ![k] = @ + n], g)
<1> DEFINE u == [t EXCEPT ![k] = @ + n]
<1>1. min \in Int /\ k \in Int /\ Index \subseteq Int
  BY IndexFacts DEF MinBelow
<1>2. Lesser(min, k) \in Int /\ Lesser(min, k) <= min /\ Lesser(min, k) <= k
  BY <1>1 DEF Lesser
<1>3. ASSUME NEW j \in Index, u[j] # 0
      PROVE  Lesser(min, k) <= Greater(j, g)
  <2>1. j = k \/ t[j] # 0
    BY <1>3
  <2>2. j \in Int /\ Greater(j, f) <= Greater(j, g) /\ j <= Greater(j, g)
        /\ Greater(j, f) \in Int /\ Greater(j, g) \in Int
    BY <1>1 DEF Greater
  <2>3. CASE j = k
    BY <1>2, <2>2, <2>3
  <2>4. CASE t[j] # 0
    <3>1. min <= Greater(j, f)
      BY <2>4 DEF MinBelow
    <3> QED
      BY <1>1, <1>2, <2>2, <3>1
  <2> QED
    BY <2>1, <2>3, <2>4
<1> QED
  BY <1>2, <1>3 DEF MinBelow

(* More of what there was already.                                         *)
LEMMA MinMore ==
  ASSUME NEW t \in [Index -> Nat], NEW f, NEW min, MinBelow(min, t, f),
         NEW k \in Index, NEW n, t[k] # 0
  PROVE  MinBelow(min, [t EXCEPT ![k] = n], f)
BY DEF MinBelow

LEMMA MinNone ==
  ASSUME NEW t \in [Index -> Nat], NEW f, NEW min, MinBelow(min, t, f), NEW k \in Index
  PROVE  MinBelow(min, [t EXCEPT ![k] = 0], f)
BY DEF MinBelow

LEMMA MinAll ==
  ASSUME NEW f, NEW min \in Int
  PROVE  MinBelow(min, [k \in Index |-> 0], f)
BY DEF MinBelow

LEMMA MinMerged ==
  ASSUME NEW t \in [Index -> Nat], NEW f \in Nat, NEW x, MinBelow(x, t, f),
         NEW u \in [Index -> Nat], NEW g \in Nat, NEW y, MinBelow(y, u, g)
  PROVE  MinBelow(Lesser(x, y), [k \in Index |-> t[k] + u[k]], Greater(f, g))
<1> DEFINE v == [k \in Index |-> t[k] + u[k]]
           z == Lesser(x, y)
           h == Greater(f, g)
<1>1. x \in Int /\ y \in Int /\ Index \subseteq Int
  BY IndexFacts DEF MinBelow
<1>2. z \in Int /\ z <= x /\ z <= y
  BY <1>1 DEF Lesser
<1>3. h \in Nat /\ h >= f /\ h >= g
  BY DEF Greater
<1> HIDE DEF z, h
<1>4. ASSUME NEW j \in Index, v[j] # 0
      PROVE  z <= Greater(j, h)
  <2>1. t[j] # 0 \/ u[j] # 0
    BY <1>4
  <2>2. j \in Int /\ Greater(j, f) <= Greater(j, h) /\ Greater(j, g) <= Greater(j, h)
        /\ Greater(j, f) \in Int /\ Greater(j, g) \in Int /\ Greater(j, h) \in Int
    BY <1>1, <1>3 DEF Greater
  <2>3. CASE t[j] # 0
    <3>1. x <= Greater(j, f)
      BY <2>3 DEF MinBelow
    <3> QED
      BY <1>1, <1>2, <2>2, <3>1
  <2>4. CASE u[j] # 0
    <3>1. y <= Greater(j, g)
      BY <2>4 DEF MinBelow
    <3> QED
      BY <1>1, <1>2, <2>2, <3>1
  <2> QED
    BY <2>1, <2>3, <2>4
<1> HIDE DEF v
<1>5. MinBelow(z, v, h)
  BY <1>2, <1>4 DEF MinBelow
<1> QED
  BY <1>5 DEF z, v, h

(* deriveScalarsFromBuckets: the lowest bucket that is not empty is no     *)
(* higher than the values.                                                 *)
LEMMA MinDerived ==
  ASSUME NEW b, NEW n, NEW t, NEW f, Books(b, n, t, f)
  PROVE  MinBelow(Min(Nonzero(b) \union {Above}), t, f)
<1> DEFINE S == Nonzero(b) \union {Above}
           m == Min(S)
<1>0. /\ IsStore(b) /\ n \in Nat /\ t \in [Index -> Nat] /\ f \in Nat
      /\ \A j \in DOMAIN b : b[j] # 0 => j >= 1 /\ (j <= NumIndex \/ j <= f)
      /\ \A k \in Index : k > f => At(b, k) = t[k]
  BY DEF Books
<1>1. DOMAIN b \subseteq Int /\ Above \in Int /\ Above >= 1
  BY <1>0, StoreFacts, IndexFacts DEF Above
<1>2. S \subseteq Int /\ (\A x \in S : 1 <= x) /\ S # {}
  BY <1>0, <1>1 DEF Nonzero
<1> HIDE DEF S
<1>3. m \in S /\ \A y \in S : m <= y
  <2>1. 1 \in Int
    OBVIOUS
  <2> QED
    BY <1>2, <2>1, MinOf
<1> HIDE DEF m
<1>4. m \in Int
  BY <1>2, <1>3
<1>5. ASSUME NEW k \in Index, t[k] # 0
      PROVE  m <= Greater(k, f)
  <2>1. k \in Int
    BY IndexFacts
  <2> DEFINE top == Greater(k, f)
  <2>2. top \in Int /\ top >= k /\ top >= f
    BY <1>0, <2>1 DEF Greater
  <2> HIDE DEF top
  <2>3. Cum(b, top) = Given(t, top)
    BY <2>2, CumGiven
  <2>4. Given(t, top) # 0
    <3> DEFINE P == {x \in Index : x <= top}
    <3>1. IsFiniteSet(P) /\ \A x \in P : t[x] \in Nat
      BY <1>0, IndexFacts, FS_Subset
    <3>2. k \in P
      BY <2>2
    <3> HIDE DEF P
    <3>3. t[k] <= SumFunctionOnSet(t, P) /\ SumFunctionOnSet(t, P) \in Nat
      BY <3>1, <3>2, SetSumElement, SetSumNat
    <3>4. t[k] \in Nat
      BY <1>0
    <3>5. SumFunctionOnSet(t, P) # 0
      BY <1>5, <3>3, <3>4
    <3> QED
      BY <3>5 DEF Given, P
  <2>5. PICK j \in DOMAIN b : b[j] # 0 /\ j <= top
    <3> DEFINE L == {i \in DOMAIN b : i <= top}
    <3>1. IsFiniteSet(L)
      BY <1>0, StoreFacts, FS_Subset
    <3>2. SumFunctionOnSet(b, L) # 0
      BY <2>3, <2>4 DEF Cum
    <3> HIDE DEF L
    <3>3. \E j \in L : b[j] # 0
      BY <3>1, <3>2, SetSumPositive
    <3> QED
      BY <3>3 DEF L
  <2>6. m <= j /\ j \in Int
    BY <1>1, <1>3, <2>5 DEF S, Nonzero
  <2>7. m <= top
    BY <1>4, <2>2, <2>5, <2>6
  <2> QED
    BY <2>7 DEF top
<1>6. MinBelow(m, t, f)
  BY <1>4, <1>5 DEF MinBelow
<1> QED
  BY <1>6 DEF m, S

-----------------------------------------------------------------------------
(* Deltas on the wire.                                                     *)

WireOK(w) ==
  /\ w \in [DOMAIN w -> Nat \ {0}]
  /\ DOMAIN w \subseteq Delta /\ IsFiniteSet(DOMAIN w)

(* Bags of deltas: none, some more, one less.                              *)
LEMMA WireEmpty ==
  WireOK(EmptyBag) /\ DOMAIN EmptyBag = {}
<1>1. DOMAIN EmptyBag = {} /\ EmptyBag \in [{} -> Nat \ {0}]
  BY DEF EmptyBag, SetToBag
<1> QED
  BY <1>1, FS_EmptySet DEF WireOK

LEMMA WireMore ==
  ASSUME NEW w, WireOK(w), NEW S, S \subseteq Delta, IsFiniteSet(S)
  PROVE  /\ WireOK(w (+) SetToBag(S))
         /\ DOMAIN (w (+) SetToBag(S)) = DOMAIN w \union S
         /\ \A m \in DOMAIN w \union S :
              (w (+) SetToBag(S))[m] = (IF m \in DOMAIN w THEN w[m] ELSE 0)
                                         + (IF m \in S THEN 1 ELSE 0)
<1> DEFINE v == w (+) SetToBag(S)
           U == DOMAIN w \union S
<1>1. v = [m \in U |-> (IF m \in DOMAIN w THEN w[m] ELSE 0)
                         + (IF m \in S THEN 1 ELSE 0)]
  <2>1. SetToBag(S) = [m \in S |-> 1]
    BY DEF SetToBag
  <2>2. DOMAIN SetToBag(S) = S /\ \A m \in S : SetToBag(S)[m] = 1
    BY <2>1
  <2>3. v = [m \in DOMAIN w \union DOMAIN SetToBag(S) |->
               (IF m \in DOMAIN w THEN w[m] ELSE 0)
                 + (IF m \in DOMAIN SetToBag(S) THEN SetToBag(S)[m] ELSE 0)]
    BY DEF (+)
  <2> QED
    BY <2>2, <2>3
<1> HIDE DEF v
<1>2. \A m \in DOMAIN w : w[m] \in Nat \ {0}
  BY DEF WireOK
<1>3. v \in [U -> Nat \ {0}]
  BY <1>1, <1>2
<1>4. IsFiniteSet(U) /\ U \subseteq Delta
  BY FS_Union DEF WireOK
<1> HIDE DEF U
<1>5. DOMAIN v = U
  BY <1>3
<1>6. WireOK(v)
  BY <1>3, <1>4, <1>5 DEF WireOK
<1> QED
  BY <1>1, <1>5, <1>6 DEF v, U

LEMMA WireLess ==
  ASSUME NEW w, WireOK(w), NEW m \in DOMAIN w
  PROVE  LET v == w (-) SetToBag({m})
         IN  /\ WireOK(v)
             /\ DOMAIN v = IF w[m] = 1 THEN DOMAIN w \ {m} ELSE DOMAIN w
             /\ \A e \in DOMAIN v : v[e] = IF e = m THEN w[e] - 1 ELSE w[e]
<1> DEFINE v == w (-) SetToBag({m})
           B == [e \in DOMAIN w |-> IF e = m THEN w[e] - 1 ELSE w[e]]
           U == {e \in DOMAIN w : B[e] > 0}
<1>1. v = [e \in U |-> B[e]]
  <2> DEFINE G == [e \in DOMAIN w |-> IF e \in DOMAIN SetToBag({m})
                                      THEN w[e] - SetToBag({m})[e] ELSE w[e]]
  <2>1. v = [e \in {d \in DOMAIN G : G[d] > 0} |-> G[e]]
    BY DEF (-)
  <2>2. DOMAIN SetToBag({m}) = {m} /\ SetToBag({m})[m] = 1
    BY DEF SetToBag
  <2>3. G = B
    BY <2>2
  <2> HIDE DEF G, v
  <2>4. v = [e \in {d \in DOMAIN B : B[d] > 0} |-> B[e]]
    BY <2>1, <2>3
  <2> QED
    BY <2>4
<1>2. \A e \in DOMAIN w : w[e] \in Nat /\ w[e] > 0
  BY DEF WireOK
<1>3. \A e \in DOMAIN w : B[e] = IF e = m THEN w[e] - 1 ELSE w[e]
  OBVIOUS
<1> HIDE DEF v, B
<1>4. v \in [U -> Nat \ {0}] /\ DOMAIN v = U /\ \A e \in U : v[e] = B[e]
  BY <1>1, <1>2, <1>3
<1>5. U = IF w[m] = 1 THEN DOMAIN w \ {m} ELSE DOMAIN w
  BY <1>2, <1>3
<1>6. U \subseteq DOMAIN w
  OBVIOUS
<1>7. IsFiniteSet(U) /\ U \subseteq Delta
  BY <1>6, FS_Subset DEF WireOK
<1> HIDE DEF U
<1>8. WireOK(v)
  BY <1>4, <1>7 DEF WireOK
<1> QED
  BY <1>3, <1>4, <1>5, <1>6, <1>8 DEF v

-----------------------------------------------------------------------------
(* One side: a sketch, what it was given and its floor.                    *)

Interval == {D \in SUBSET Int : \E l, r \in Int : D = l..r}
Store == UNION {[D -> Nat] : D \in Interval}
Sketch == [bins : Store, cap : Nat, count : Nat, min : Int, max : Int, populated : Nat]

SideInv(d, t, f) ==
  d \in Sketch /\ Books(d.bins, d.count, t, f) /\ MinBelow(d.min, t, f)

(* The set of all stores.                                                  *)
LEMMA StoreMember ==
  ASSUME NEW b
  PROVE  b \in Store <=> IsStore(b)
<1>1. ASSUME b \in Store
      PROVE  IsStore(b)
  <2>1. PICK D \in Interval : b \in [D -> Nat]
    BY <1>1 DEF Store
  <2>2. PICK l \in Int, r \in Int : D = l..r
    BY DEF Interval
  <2> QED
    BY <2>1, <2>2 DEF IsStore
<1>2. ASSUME IsStore(b)
      PROVE  b \in Store
  <2>1. PICK l \in Int, r \in Int : b \in [l..r -> Nat]
    BY <1>2 DEF IsStore
  <2>2. l..r \in Interval
    BY DEF Interval
  <2> QED
    BY <2>1, <2>2 DEF Store
<1> QED
  BY <1>1, <1>2

LEMMA SketchFields ==
  ASSUME NEW d \in Sketch
  PROVE  /\ IsStore(d.bins) /\ d.cap \in Nat /\ d.count \in Nat
         /\ d.min \in Int /\ d.max \in Int /\ d.populated \in Nat
BY StoreMember DEF Sketch

(* The fields of a sketch after each operation.                            *)
LEMMA SeenIs ==
  ASSUME NEW d \in Sketch, NEW k \in Int
  PROVE  /\ Seen(d, k) \in Sketch
         /\ Seen(d, k).bins = d.bins /\ Seen(d, k).cap = d.cap
         /\ Seen(d, k).count = d.count /\ Seen(d, k).populated = d.populated
         /\ Seen(d, k).min = Lesser(d.min, k) /\ Seen(d, k).max = Greater(d.max, k)
<1>1. Lesser(d.min, k) \in Int /\ Greater(d.max, k) \in Int
  BY SketchFields DEF Lesser, Greater
<1> DEFINE m == Lesser(d.min, k)
           n == Greater(d.max, k)
<1>2. Seen(d, k) = [d EXCEPT !.min = m, !.max = n]
  BY DEF Seen, Sketch
<1> HIDE DEF m, n
<1> QED
  BY <1>1, <1>2 DEF Sketch, m, n

LEMMA AddedIs ==
  ASSUME NEW d \in Sketch, NEW k \in Index, NEW n \in Nat
  PROVE  /\ Added(d, k, n) \in Sketch
         /\ Added(d, k, n).bins = Put(d.bins, d.cap, k, n) /\ Added(d, k, n).cap = d.cap
         /\ Added(d, k, n).count = d.count + n /\ Added(d, k, n).populated = d.populated
         /\ Added(d, k, n).min = d.min /\ Added(d, k, n).max = d.max
<1> DEFINE p == Put(d.bins, d.cap, k, n)
           c == d.count + n
<1>1. p \in Store /\ c \in Nat
  BY SketchFields, IndexFacts, PutFacts, StoreMember
<1>2. Added(d, k, n) = [d EXCEPT !.bins = p, !.count = c]
  BY DEF Added, Put, Sketch
<1> HIDE DEF p, c
<1> QED
  BY <1>1, <1>2 DEF Sketch, p, c

(* An insert that looks at the minimum.                                    *)
LEMMA SideAdded ==
  ASSUME NEW d, NEW t, NEW f, SideInv(d, t, f), NEW k \in Index, NEW n \in Nat,
         NEW e \in Sketch, e.bins = Put(d.bins, d.cap, k, n), e.count = d.count + n,
         e.min = Lesser(d.min, k)
  PROVE  SideInv(e, [t EXCEPT ![k] = @ + n], FloorOf(d.bins, d.cap, k, f))
<1> DEFINE g == FloorOf(d.bins, d.cap, k, f)
           u == [t EXCEPT ![k] = @ + n]
<1>1. d \in Sketch /\ Books(d.bins, d.count, t, f) /\ MinBelow(d.min, t, f) /\ d.cap \in Nat
  BY SketchFields DEF SideInv
<1>2. Books(Put(d.bins, d.cap, k, n), d.count + n, u, g)
  BY <1>1, BooksAdd
<1>3. t \in [Index -> Nat] /\ f \in Nat /\ g \in Nat
  BY <1>1, <1>2 DEF Books
<1>4. g >= f
  <2>1. IsStore(d.bins) /\ k \in Int
    BY <1>1, SketchFields, IndexFacts
  <2>2. Overflows(d.bins, d.cap, k) => NewFloor(d.bins, d.cap, k) \in Int
    BY <1>1, <2>1, EnsuredRoomy DEF Roomy
  <2> QED
    BY <1>3, <2>2 DEF FloorOf, Greater
<1> HIDE DEF g
<1>5. MinBelow(Lesser(d.min, k), u, g)
  BY <1>1, <1>3, <1>4, MinSeen
<1> HIDE DEF u
<1>6. SideInv(e, u, g)
  BY <1>2, <1>5 DEF SideInv
<1> QED
  BY <1>6 DEF u, g

LEMMA WithoutIs ==
  ASSUME NEW d, NEW t, SideInv(d, t, 0), NEW k \in Index
  PROVE  /\ WithoutBucket(d, k) \in Sketch
         /\ WithoutBucket(d, k).bins = Zeroed(d.bins, k)
         /\ WithoutBucket(d, k).count = d.count - At(d.bins, k)
         /\ WithoutBucket(d, k).cap = d.cap /\ WithoutBucket(d, k).min = d.min
         /\ WithoutBucket(d, k).max = d.max
         /\ WithoutBucket(d, k).populated = d.populated
         /\ At(d.bins, k) = t[k]
         /\ SideInv(WithoutBucket(d, k), [t EXCEPT ![k] = 0], 0)
<1> DEFINE z == Zeroed(d.bins, k)
           c == d.count - At(d.bins, k)
           e == WithoutBucket(d, k)
           u == [t EXCEPT ![k] = 0]
<1>1. d \in Sketch /\ Books(d.bins, d.count, t, 0) /\ MinBelow(d.min, t, 0)
  BY DEF SideInv
<1>2. /\ At(d.bins, k) = t[k] /\ At(d.bins, k) <= d.count /\ At(d.bins, k) \in Nat
      /\ Books(z, c, u, 0)
  BY <1>1, BooksReset
<1>3. z \in Store /\ c \in Nat
  BY <1>2, StoreMember DEF Books
<1>4. e = [d EXCEPT !.bins = z, !.count = c]
  <2>1. d.count >= At(d.bins, k)
    BY <1>1, <1>2, SketchFields
  <2>2. e = [d EXCEPT !.bins = [j \in DOMAIN d.bins |-> IF j = k THEN 0 ELSE d.bins[j]],
                      !.count = IF d.count >= At(d.bins, k) THEN d.count - At(d.bins, k) ELSE 0]
    BY <1>1 DEF WithoutBucket, Sketch
  <2> HIDE DEF e
  <2> QED
    BY <2>1, <2>2 DEF Zeroed
<1>5. t \in [Index -> Nat]
  BY <1>1 DEF Books
<1>6. MinBelow(d.min, u, 0)
  BY <1>1, <1>5, MinNone
<1> HIDE DEF z, c, e, u
<1>7. /\ e \in Sketch /\ e.bins = z /\ e.count = c /\ e.cap = d.cap /\ e.min = d.min
      /\ e.max = d.max /\ e.populated = d.populated
  BY <1>1, <1>3, <1>4 DEF Sketch
<1>8. SideInv(e, u, 0)
  BY <1>2, <1>6, <1>7 DEF SideInv
<1> QED
  BY <1>2, <1>7, <1>8 DEF z, c, e, u

LEMMA NewIs ==
  ASSUME NEW cap \in Nat
  PROVE  /\ NewDDSketch(cap) \in Sketch /\ NewDDSketch(cap).cap = cap
         /\ NewDDSketch(cap).bins = Empty /\ NewDDSketch(cap).populated = 0
         /\ SideInv(NewDDSketch(cap), [k \in Index |-> 0], 0)
<1>1. Empty \in Store
  BY EmptyIsStore, StoreMember
<1>2. Above \in Int /\ Below \in Int
  BY IndexFacts DEF Above, Below
<1>3. NewDDSketch(cap) \in Sketch
  BY <1>1, <1>2 DEF NewDDSketch, Sketch
<1>4. /\ NewDDSketch(cap).cap = cap /\ NewDDSketch(cap).bins = Empty
      /\ NewDDSketch(cap).populated = 0 /\ NewDDSketch(cap).count = 0
      /\ NewDDSketch(cap).min = Above
  BY DEF NewDDSketch
<1>5. MinBelow(Above, [k \in Index |-> 0], 0)
  BY <1>2, MinAll
<1> QED
  BY <1>3, <1>4, <1>5, BooksEmpty DEF SideInv

LEMMA PopulatedNat ==
  ASSUME NEW b, IsStore(b)
  PROVE  Populated(b) \in Nat
<1>1. IsFiniteSet({k \in DOMAIN b : b[k] # 0})
  BY StoreFacts, FS_Subset
<1> QED
  BY <1>1, FS_CardinalityType DEF Populated

LEMMA MaxDerived ==
  ASSUME NEW b, IsStore(b)
  PROVE  /\ Max(Nonzero(b) \union {Below}) \in Nonzero(b) \union {Below}
         /\ Max(Nonzero(b) \union {Below}) \in Int
<1> DEFINE S == Nonzero(b) \union {Below}
           r == IF DOMAIN b = {} THEN 0 ELSE Greater(Right(b), 0)
<1>1. S \subseteq Int /\ S # {}
  BY StoreFacts DEF Nonzero, Below
<1>2. r \in Int /\ \A x \in S : x <= r
  <2>1. CASE DOMAIN b = {}
    BY <2>1 DEF Nonzero, Below
  <2>2. CASE DOMAIN b # {}
    <3>1. Right(b) \in Int /\ \A x \in DOMAIN b : x \in Int /\ x <= Right(b)
      BY <2>2, StoreFacts
    <3>2. r = Greater(Right(b), 0)
      BY <2>2
    <3>3. r \in Int /\ Right(b) <= r /\ 0 <= r
      BY <3>1, <3>2 DEF Greater
    <3> HIDE DEF r
    <3>4. \A x \in Nonzero(b) : x <= r
      BY <3>1, <3>3 DEF Nonzero
    <3> QED
      BY <3>3, <3>4 DEF Below
  <2> QED
    BY <2>1, <2>2
<1> HIDE DEF S, r
<1>3. Max(S) \in S
  BY <1>1, <1>2, MaxOf
<1>4. Max(S) \in Int
  BY <1>1, <1>3
<1> QED
  BY <1>3, <1>4 DEF S

LEMMA FromState ==
  ASSUME NEW b, NEW n, NEW t, NEW f, Books(b, n, t, f)
  PROVE  /\ SideInv(NewFromState(b), t, f)
         /\ NewFromState(b).bins = b /\ NewFromState(b).cap = 0
         /\ NewFromState(b).populated = Populated(b)
<1> DEFINE e == NewFromState(b)
           x == Min(Nonzero(b) \union {Above})
           y == Max(Nonzero(b) \union {Below})
           p == Populated(b)
<1>1. IsStore(b) /\ Total(b) = n /\ n \in Nat
  BY DEF Books
<1>2. MinBelow(x, t, f)
  BY MinDerived
<1>3. x \in Int /\ y \in Int /\ p \in Nat
  BY <1>1, <1>2, MaxDerived, PopulatedNat DEF MinBelow
<1>4. e = [bins |-> b, cap |-> 0, count |-> n, populated |-> p, min |-> x, max |-> y]
  BY <1>1 DEF NewFromState
<1> HIDE DEF e, x, y, p
<1>5. b \in Store
  BY <1>1, StoreMember
<1>6. e \in Sketch
  BY <1>1, <1>3, <1>4, <1>5 DEF Sketch
<1>7. e.bins = b /\ e.cap = 0 /\ e.populated = p /\ e.count = n /\ e.min = x
  BY <1>4
<1>8. SideInv(e, t, f)
  BY <1>2, <1>6, <1>7 DEF SideInv
<1> QED
  BY <1>7, <1>8 DEF e, p

(* Every serialized form keeps the counts and derives the rest of them.    *)
LEMMA SideDecoded ==
  ASSUME NEW d, NEW t, NEW f, SideInv(d, t, f), NEW form \in Form
  PROVE  LET e == Decoded(form, d)
         IN  /\ SideInv(e, t, f)
             /\ (e.cap = d.cap /\ form = "clone") \/ e.cap = 0
             /\ \A j \in Int : At(e.bins, j) = At(d.bins, j)
             /\ form # "clone" => e.populated = Populated(e.bins)
             /\ form = "clone" => e = d
<1> DEFINE e == Decoded(form, d)
<1>0. d \in Sketch /\ Books(d.bins, d.count, t, f) /\ MinBelow(d.min, t, f)
  BY DEF SideInv
<1>i. IsStore(d.bins)
  BY <1>0, SketchFields
<1>1. CASE form = "clone"
  <2>1. e = d
    BY <1>1 DEF Decoded
  <2> QED
    BY <1>1, <2>1
<1>2. CASE form = "gob"
  <2> DEFINE p == Populated(d.bins)
  <2>1. e = [d EXCEPT !.cap = 0, !.populated = p]
    BY <1>2 DEF Decoded
  <2>2. p \in Nat
    BY <1>i, PopulatedNat
  <2> HIDE DEF p, e
  <2>3. /\ e \in Sketch /\ e.bins = d.bins /\ e.count = d.count /\ e.min = d.min
        /\ e.cap = 0 /\ e.populated = p
    BY <1>0, <2>1, <2>2 DEF Sketch
  <2> QED
    BY <1>0, <1>2, <2>3 DEF SideInv, p, e
<1>3. CASE form = "state"
  <2> DEFINE b == bucketsFromWire(bucketWireForm(d.bins))
  <2>1. e = NewFromState(b)
    BY <1>3 DEF Decoded
  <2>2. IsStore(b) /\ \A j \in Int : At(b, j) = At(d.bins, j)
    BY <1>i, RoundTrip
  <2> HIDE DEF b, e
  <2>3. Books(b, d.count, t, f)
    BY <1>0, <2>2, BooksSame
  <2>4. SideInv(NewFromState(b), t, f) /\ NewFromState(b).bins = b /\ NewFromState(b).cap = 0
        /\ NewFromState(b).populated = Populated(b)
    BY <2>3, FromState
  <2> QED
    BY <1>3, <2>1, <2>2, <2>4 DEF e
<1>4. CASE form = "msgpack"
  <2>1. e = NewFromState(d.bins)
    BY <1>4 DEF Decoded
  <2> HIDE DEF e
  <2>2. SideInv(NewFromState(d.bins), t, f) /\ NewFromState(d.bins).bins = d.bins
        /\ NewFromState(d.bins).cap = 0
        /\ NewFromState(d.bins).populated = Populated(d.bins)
    BY <1>0, FromState
  <2> QED
    BY <1>4, <2>1, <2>2 DEF e
<1> QED
  BY <1>1, <1>2, <1>3, <1>4 DEF Form

-----------------------------------------------------------------------------
(* The invariant of the two sides.                                         *)

(* NewDDSketchOcto makes an uncapped store, and whoever resets or          *)
(* subtracts buckets needs one.                                            *)
CapsArePlain == \A c \in Config : c.maxBins > 0 => c.usage = "plain"

CoreInv ==
  /\ config \in Config
  /\ sk \in [Side -> Sketch] /\ truth \in [Side -> [Index -> Nat]] /\ floor \in [Side -> Nat]
  /\ \A s \in Side : SideInv(sk[s], truth[s], floor[s])
  /\ config.usage # "plain" => \A s \in Side : sk[s].cap = 0 /\ floor[s] = 0
  /\ WireOK(wire) /\ (config.usage = "plain" => DOMAIN wire = {})
  /\ panicked = FALSE

LEMMA ConfigFacts ==
  ASSUME NEW c \in Config
  PROVE  c.usage \in Usage /\ c.maxBins \in Nat /\ c.values \in Nat /\ c.forms \subseteq Form
BY DDSketchAssumption

(* The invariant of the two sides holds at first, ...                      *)
LEMMA InitCore ==
  ASSUME CapsArePlain, Init
  PROVE  CoreInv
<1>1. config \in Config /\ config.maxBins \in Nat
  BY ConfigFacts DEF Init
<1> DEFINE C(s) == IF s = "edge" THEN config.maxBins ELSE 0
           Z == [k \in Index |-> 0]
<1>2. /\ sk = [s \in Side |-> NewDDSketch(C(s))]
      /\ truth = [s \in Side |-> Z] /\ floor = [s \in Side |-> 0]
      /\ wire = EmptyBag /\ panicked = FALSE
  BY DEF Init, Below
<1>3. \A s \in Side : C(s) \in Nat /\ (config.usage # "plain" => C(s) = 0)
  BY <1>1 DEF CapsArePlain
<1>4. Z \in [Index -> Nat]
  OBVIOUS
<1> HIDE DEF C, Z
<1>5. \A s \in Side : /\ NewDDSketch(C(s)) \in Sketch /\ NewDDSketch(C(s)).cap = C(s)
                      /\ SideInv(NewDDSketch(C(s)), Z, 0)
  BY <1>3, NewIs DEF Z
<1>6. \A s \in Side : sk[s] = NewDDSketch(C(s)) /\ truth[s] = Z /\ floor[s] = 0
  BY <1>2
<1>7. sk \in [Side -> Sketch] /\ truth \in [Side -> [Index -> Nat]] /\ floor \in [Side -> Nat]
  BY <1>2, <1>4, <1>5
<1>8. \A s \in Side : SideInv(sk[s], truth[s], floor[s])
  BY <1>5, <1>6
<1>9. config.usage # "plain" => \A s \in Side : sk[s].cap = 0 /\ floor[s] = 0
  BY <1>3, <1>5, <1>6
<1> QED
  BY <1>1, <1>2, <1>7, <1>8, <1>9, WireEmpty DEF CoreInv

(* One side changes, and what is on the wire.                              *)
LEMMA CoreKept ==
  ASSUME CoreInv, NEW s \in Side, NEW d, NEW t, NEW f, SideInv(d, t, f),
         config.usage # "plain" => d.cap = 0 /\ f = 0,
         config' = config, panicked' = FALSE,
         sk' = [sk EXCEPT ![s] = d], truth' = [truth EXCEPT ![s] = t],
         floor' = [floor EXCEPT ![s] = f],
         WireOK(wire'), config.usage = "plain" => DOMAIN wire' = {}
  PROVE  CoreInv'
<1>1. d \in Sketch /\ t \in [Index -> Nat] /\ f \in Nat
  BY DEF SideInv, Books
<1>2. sk' \in [Side -> Sketch] /\ truth' \in [Side -> [Index -> Nat]] /\ floor' \in [Side -> Nat]
  BY <1>1 DEF CoreInv
<1>3. \A r \in Side : /\ sk'[r] = IF r = s THEN d ELSE sk[r]
                      /\ truth'[r] = IF r = s THEN t ELSE truth[r]
                      /\ floor'[r] = IF r = s THEN f ELSE floor[r]
  BY DEF CoreInv
<1>4. \A r \in Side : SideInv(sk'[r], truth'[r], floor'[r])
  BY <1>3 DEF CoreInv
<1>5. config'.usage # "plain" => \A r \in Side : sk'[r].cap = 0 /\ floor'[r] = 0
  BY <1>3 DEF CoreInv
<1>6. config' \in Config
  BY DEF CoreInv
<1> QED
  BY <1>2, <1>4, <1>5, <1>6 DEF CoreInv

(* What it says of one side.                                               *)
LEMMA CoreSide ==
  ASSUME CoreInv, NEW s \in Side
  PROVE  /\ sk[s] \in Sketch /\ truth[s] \in [Index -> Nat] /\ floor[s] \in Nat
         /\ SideInv(sk[s], truth[s], floor[s])
         /\ config.usage # "plain" => sk[s].cap = 0 /\ floor[s] = 0
         /\ config \in Config /\ panicked = FALSE /\ WireOK(wire)
         /\ config.usage = "plain" => DOMAIN wire = {}
BY DEF CoreInv

LEMMA FloorAfterIs ==
  ASSUME CoreInv, NEW s \in Side, NEW k
  PROVE  FloorAfter(s, k) = [floor EXCEPT ![s] = FloorOf(sk[s].bins, sk[s].cap, k, floor[s])]
BY DEF FloorAfter, FloorOf, CoreInv

(* Without a cap nothing is folded.                                        *)
LEMMA UncappedStays ==
  ASSUME NEW b, NEW k, NEW f
  PROVE  ~ Overflows(b, 0, k) /\ Slot(b, 0, k) = k /\ FloorOf(b, 0, k, f) = f
<1>1. ~ (0 > 0)
  OBVIOUS
<1> QED
  BY <1>1 DEF Overflows, Slot, FloorOf

LEMMA UpdateCore ==
  ASSUME CoreInv, NEW s \in Side, NEW k \in Index, Update(s, k)
  PROVE  CoreInv'
<1> DEFINE d == sk[s]
           e == Added(Seen(d, k), k, 1)
           t == [truth[s] EXCEPT ![k] = @ + 1]
           f == FloorOf(d.bins, d.cap, k, floor[s])
<1>1. /\ config' = config /\ panicked' = FALSE /\ wire' = wire
      /\ sk' = [sk EXCEPT ![s] = e] /\ truth' = [truth EXCEPT ![s] = t]
      /\ floor' = [floor EXCEPT ![s] = f]
  BY CoreSide, FloorAfterIs DEF Update, Insert, CoreInv
<1>2. d \in Sketch /\ k \in Int /\ SideInv(d, truth[s], floor[s])
  BY CoreSide, IndexFacts
<1>3. /\ e \in Sketch /\ e.bins = Put(d.bins, d.cap, k, 1) /\ e.count = d.count + 1
      /\ e.min = Lesser(d.min, k) /\ e.cap = d.cap
  BY <1>2, SeenIs, AddedIs
<1> HIDE DEF d, e
<1>4. SideInv(e, t, f)
  BY <1>2, <1>3, SideAdded
<1>5. config.usage # "plain" => e.cap = 0 /\ f = 0
  <2> SUFFICES ASSUME config.usage # "plain"
               PROVE  e.cap = 0 /\ f = 0
    OBVIOUS
  <2>1. d.cap = 0 /\ floor[s] = 0
    BY CoreSide DEF d
  <2>2. FloorOf(d.bins, 0, k, 0) = 0
    BY UncappedStays
  <2> QED
    BY <1>3, <2>1, <2>2
<1> HIDE DEF t, f
<1> QED
  BY <1>1, <1>4, <1>5, CoreKept, CoreSide

LEMMA ImageFinite ==
  ASSUME NEW K, IsFiniteSet(K), NEW f, DOMAIN f = K, f = [k \in K |-> f[k]]
  PROVE  IsFiniteSet({f[k] : k \in K})
<1> DEFINE S == {f[k] : k \in K}
<1>1. f \in [K -> S]
  OBVIOUS
<1>2. f \in Surjection(K, S)
  BY <1>1 DEF Surjection
<1> QED
  BY <1>2, FS_Surjection

LEMMA ClearCore ==
  ASSUME CoreInv, NEW s \in Side, Clear(s)
  PROVE  CoreInv'
<1> DEFINE e == NewDDSketch(sk[s].cap)
           t == [k \in Index |-> 0]
<1>1. /\ config' = config /\ panicked' = FALSE /\ wire' = wire
      /\ sk' = [sk EXCEPT ![s] = e] /\ truth' = [truth EXCEPT ![s] = t]
      /\ floor' = [floor EXCEPT ![s] = 0]
  BY CoreSide DEF Clear, Below, CoreInv
<1>2. e.cap = sk[s].cap /\ SideInv(e, t, 0)
  BY CoreSide, SketchFields, NewIs
<1>3. config.usage # "plain" => e.cap = 0 /\ 0 = 0
  BY <1>2, CoreSide
<1> HIDE DEF e, t
<1> QED
  BY <1>1, <1>2, <1>3, CoreKept, CoreSide

LEMMA RestartCore ==
  ASSUME CoreInv, NEW s \in Side, NEW form \in config.forms, Restart(s, form)
  PROVE  CoreInv'
<1> DEFINE e == Decoded(form, sk[s])
<1>1. /\ config' = config /\ panicked' = FALSE /\ wire' = wire
      /\ sk' = [sk EXCEPT ![s] = e] /\ truth' = [truth EXCEPT ![s] = truth[s]]
      /\ floor' = [floor EXCEPT ![s] = floor[s]]
  BY CoreSide DEF Restart, CoreInv
<1>2. form \in Form
  BY CoreSide, ConfigFacts
<1>3. SideInv(e, truth[s], floor[s]) /\ (e.cap = sk[s].cap \/ e.cap = 0)
  BY <1>2, CoreSide, SideDecoded
<1>4. config.usage # "plain" => e.cap = 0 /\ floor[s] = 0
  BY <1>3, CoreSide
<1> HIDE DEF e
<1> QED
  BY <1>1, <1>3, <1>4, CoreKept, CoreSide

LEMMA MergeCore ==
  ASSUME CoreInv, NEW s \in Side, NEW o \in Side, Merge(s, o)
  PROVE  CoreInv'
<1> DEFINE d == sk[s]
           e == sk[o]
           bins == BucketsMerged(d.bins, e.bins)
           t == [k \in Index |-> truth[s][k] + truth[o][k]]
<1>1. /\ config' = config /\ panicked' = FALSE /\ wire' = wire /\ config.usage = "plain"
      /\ truth' = [truth EXCEPT ![s] = t]
  BY CoreSide DEF Merge, CoreInv
<1>2. /\ d \in Sketch /\ e \in Sketch
      /\ SideInv(d, truth[s], floor[s]) /\ SideInv(e, truth[o], floor[o])
      /\ truth[s] \in [Index -> Nat] /\ truth[o] \in [Index -> Nat]
      /\ floor[s] \in Nat /\ floor[o] \in Nat
  BY CoreSide
<1>3. CASE d.count = 0
  <2>1. sk' = [sk EXCEPT ![s] = e] /\ floor' = [floor EXCEPT ![s] = floor[o]]
    BY <1>3, CoreSide DEF Merge, CoreInv
  <2>2. \A k \in Index : truth[s][k] = 0
    BY <1>2, <1>3, BooksZero DEF SideInv
  <2>3. t = truth[o]
    BY <1>2, <2>2
  <2> HIDE DEF d, e, t
  <2> QED
    BY <1>1, <1>2, <2>1, <2>3, CoreKept, CoreSide
<1>4. CASE d.count # 0
  <2> DEFINE n == d.count + e.count
             x == Lesser(d.min, e.min)
             y == Greater(d.max, e.max)
             p == Populated(bins)
             f == Greater(floor[s], floor[o])
             m == [bins |-> bins, cap |-> d.cap, count |-> n, min |-> x, max |-> y,
                   populated |-> p]
  <2>1. sk' = [sk EXCEPT ![s] = m] /\ floor' = [floor EXCEPT ![s] = f]
    BY <1>4, CoreSide DEF Merge, CoreInv
  <2>2. Books(bins, n, t, f)
    BY <1>2, BooksMerged DEF SideInv
  <2>3. MinBelow(x, t, f)
    BY <1>2, MinMerged DEF SideInv
  <2>4. y \in Int
    BY <1>2, SketchFields DEF Greater
  <2> HIDE DEF bins
  <2>5. bins \in Store /\ p \in Nat /\ n \in Nat
    BY <2>2, StoreMember, PopulatedNat DEF Books
  <2>6. d.cap \in Nat /\ x \in Int
    BY <1>2, <2>3, SketchFields DEF MinBelow
  <2> HIDE DEF n, x, y, p, t, f
  <2>7. m \in Sketch /\ m.bins = bins /\ m.count = n /\ m.min = x
    BY <2>4, <2>5, <2>6 DEF Sketch
  <2> HIDE DEF m
  <2>8. SideInv(m, t, f)
    BY <2>2, <2>3, <2>7 DEF SideInv
  <2> QED
    BY <1>1, <2>1, <2>8, CoreKept, CoreSide
<1> QED
  BY <1>3, <1>4

LEMMA PopulatedIs ==
  ASSUME NEW d, NEW t, NEW f, SideInv(d, t, f), NEW p \in Nat
  PROVE  LET e == [d EXCEPT !.populated = p]
         IN  /\ SideInv(e, t, f) /\ e.bins = d.bins /\ e.cap = d.cap
             /\ e.max = d.max /\ e.populated = p
<1> DEFINE e == [d EXCEPT !.populated = p]
<1>1. d \in Sketch
  BY DEF SideInv
<1>2. /\ e \in Sketch /\ e.bins = d.bins /\ e.cap = d.cap /\ e.count = d.count
      /\ e.min = d.min /\ e.max = d.max /\ e.populated = p
  BY <1>1 DEF Sketch
<1> HIDE DEF e
<1> QED
  BY <1>2 DEF SideInv, e

(* One value at a side without a cap, after which bucket k holds n.        *)
LEMMA OneMore ==
  ASSUME NEW d, NEW t, SideInv(d, t, 0), d.cap = 0, NEW k \in Index,
         NEW e \in Sketch, e.bins = Put(d.bins, d.cap, k, 1)
  PROVE  /\ k \in DOMAIN e.bins /\ e.bins[k] = At(e.bins, k)
         /\ At(e.bins, k) = t[k] + 1 /\ At(d.bins, k) = t[k]
         /\ \A j \in Int : j # k => At(e.bins, j) = At(d.bins, j)
<1>1. d \in Sketch /\ Books(d.bins, d.count, t, 0) /\ k \in Int /\ k > 0
  BY IndexFacts DEF SideInv, Index
<1>2. IsStore(d.bins) /\ At(d.bins, k) = t[k]
  BY <1>1 DEF Books
<1>3. ~ Overflows(d.bins, d.cap, k) /\ Slot(d.bins, d.cap, k) = k
  BY UncappedStays
<1> DEFINE c == Ensured(d.bins, d.cap, k)
<1>4. /\ k \in DOMAIN c /\ \A j \in Int : At(c, j) = At(d.bins, j)
  <2>1. Roomy(d.bins, d.cap, k, c)
    BY <1>1, <1>2, EnsuredRoomy
  <2> QED
    BY <1>3, <2>1 DEF Roomy
<1>5. /\ DOMAIN e.bins = DOMAIN c
      /\ \A j : At(e.bins, j) = IF j = k THEN At(c, j) + 1 ELSE At(c, j)
  <2>1. 1 \in Nat
    OBVIOUS
  <2> QED
    BY <1>1, <1>2, <1>3, <2>1, PutFacts
<1> HIDE DEF c
<1>6. k \in DOMAIN e.bins /\ e.bins[k] = At(e.bins, k)
  BY <1>4, <1>5 DEF At
<1>7. At(e.bins, k) = t[k] + 1
  BY <1>1, <1>2, <1>4, <1>5
<1> QED
  BY <1>2, <1>4, <1>5, <1>6, <1>7

(* Emit, when bucket k has been reset.                                     *)
LEMMA EmitCore ==
  ASSUME CoreInv, config.usage # "plain", NEW k \in Index, NEW n, n = truth["edge"][k] + 1,
         Emit(k, n)
  PROVE  /\ WireOK(wire')
         /\ truth' = [truth EXCEPT !["edge"] = [truth["edge"] EXCEPT ![k] = 0]]
<1> DEFINE m == [index |-> k, count |-> n]
           t == truth["edge"]
<1>1. "edge" \in Side
  BY DEF Side
<1>2. t \in [Index -> Nat] /\ WireOK(wire)
  BY <1>1, CoreSide
<1>3. t[k] \in Nat /\ n \in Nat /\ t[k] + 1 - n = 0
  BY <1>2
<1>4. {m} \subseteq Delta /\ IsFiniteSet({m})
  <2>1. m \in Delta
    BY <1>3 DEF Delta
  <2> HIDE DEF m
  <2> QED
    BY <2>1, FS_Singleton
<1>5. WireOK(wire')
  <2>1. wire' = wire (+) SetToBag({m})
    BY DEF Emit
  <2> HIDE DEF m
  <2> QED
    BY <1>2, <1>4, <2>1, WireMore
<1>6. truth' = [truth EXCEPT !["edge"] = [t EXCEPT ![k] = t[k] + 1 - n]]
  BY <1>1, <1>2 DEF Emit, CoreInv
<1> QED
  BY <1>3, <1>5, <1>6

LEMMA EmitNothingCore ==
  ASSUME CoreInv, NEW k \in Index, EmitNothing(k)
  PROVE  /\ wire' = wire
         /\ truth' = [truth EXCEPT !["edge"] = [truth["edge"] EXCEPT ![k] = @ + 1]]
<1>1. "edge" \in Side
  BY DEF Side
<1> QED
  BY <1>1, CoreSide DEF EmitNothing, CoreInv

LEMMA ResetTwice ==
  ASSUME NEW t \in [Index -> Nat], NEW k \in Index
  PROVE  [[t EXCEPT ![k] = @ + 1] EXCEPT ![k] = 0] = [t EXCEPT ![k] = 0]
OBVIOUS

(* What UpdateGOS makes of the edge's sketch: a after the insert, c with   *)
(* the populated buckets counted.                                          *)
GOSInserted(k) == Added(Seen(sk["edge"], k), k, 1)
GOSCounted(k) ==
  [GOSInserted(k) EXCEPT !.populated =
     IF At(GOSInserted(k).bins, k) = 1 THEN (@ + 1) % Word ELSE @]

(* Whichever branch UpdateGOS takes, the edge is in order after it.        *)
LEMMA GOSFacts ==
  ASSUME CoreInv, config.usage = "gos", NEW k \in Index
  PROVE  LET d == sk["edge"]
             t == truth["edge"]
             a == GOSInserted(k)
             c == GOSCounted(k)
             e == Crossed(c, k)
             u == [t EXCEPT ![k] = @ + 1]
         IN  /\ Slot(d.bins, d.cap, k) = k
             /\ d \in Sketch /\ d.cap = 0 /\ floor["edge"] = 0 /\ SideInv(d, t, 0)
             /\ t \in [Index -> Nat]
             /\ FloorAfter("edge", k) = [floor EXCEPT !["edge"] = 0]
             /\ SideInv(a, u, 0) /\ a.cap = 0 /\ a.populated = d.populated
             /\ a.bins = Put(d.bins, d.cap, k, 1)
             /\ SideInv(c, u, 0) /\ c.cap = 0 /\ c.bins = a.bins
             /\ c.populated = IF At(a.bins, k) = 1 THEN (d.populated + 1) % Word
                              ELSE d.populated
             /\ SideInv(e, [t EXCEPT ![k] = 0], 0) /\ e.cap = 0
             /\ e.bins = Zeroed(c.bins, k)
             /\ e.populated = (c.populated + Word - 1) % Word
             /\ At(a.bins, k) = t[k] + 1
<1> DEFINE d == sk["edge"]
           t == truth["edge"]
           a == GOSInserted(k)
           c == GOSCounted(k)
           e == Crossed(c, k)
           u == [t EXCEPT ![k] = @ + 1]
           w == WithoutBucket(c, k)
<1>1. "edge" \in Side
  BY DEF Side
<1>2. /\ d \in Sketch /\ t \in [Index -> Nat] /\ floor["edge"] = 0 /\ SideInv(d, t, 0)
      /\ d.cap = 0
  BY <1>1, CoreSide
<1>3. Word \in Nat /\ Word > 0 /\ k \in Int
  BY DDSketchAssumption, IndexFacts
<1>4. /\ a \in Sketch /\ a.bins = Put(d.bins, d.cap, k, 1) /\ a.count = d.count + 1
      /\ a.min = Lesser(d.min, k) /\ a.cap = 0 /\ a.populated = d.populated
  <2> DEFINE v == Seen(d, k)
  <2>1. /\ v \in Sketch /\ v.bins = d.bins /\ v.cap = d.cap /\ v.count = d.count
        /\ v.populated = d.populated /\ v.min = Lesser(d.min, k)
    BY <1>2, <1>3, SeenIs
  <2>2. a = Added(v, k, 1) /\ 1 \in Nat
    BY DEF GOSInserted
  <2> HIDE DEF v, a, d
  <2>3. /\ a \in Sketch /\ a.bins = Put(v.bins, v.cap, k, 1) /\ a.count = v.count + 1
        /\ a.min = v.min /\ a.cap = v.cap /\ a.populated = v.populated
    BY <2>1, <2>2, AddedIs
  <2> QED
    BY <1>2, <2>1, <2>3
<1>5. FloorOf(d.bins, d.cap, k, 0) = 0 /\ Slot(d.bins, d.cap, k) = k
  BY <1>2, UncappedStays
<1>6. FloorAfter("edge", k) = [floor EXCEPT !["edge"] = 0]
  BY <1>1, <1>2, <1>5, FloorAfterIs
<1> HIDE DEF d, t, a, c, e, u, w
<1>7. SideInv(a, u, 0)
  <2>1. 1 \in Nat
    OBVIOUS
  <2>2. SideInv(a, [t EXCEPT ![k] = @ + 1], FloorOf(d.bins, d.cap, k, 0))
    BY <1>2, <1>4, <2>1, SideAdded
  <2> QED
    BY <1>5, <2>2 DEF u
<1>8. At(a.bins, k) = t[k] + 1
  BY <1>2, <1>4, OneMore
<1>9. d.populated \in Nat
  BY <1>2, SketchFields
<1> DEFINE p == IF At(a.bins, k) = 1 THEN (d.populated + 1) % Word ELSE d.populated
<1>10. p \in Nat
  BY <1>3, <1>9
<1>11. c = [a EXCEPT !.populated = p]
  <2>1. c = [a EXCEPT !.populated = IF At(a.bins, k) = 1 THEN (a.populated + 1) % Word
                                    ELSE a.populated]
    BY <1>4 DEF c, a, GOSCounted, Sketch
  <2> QED
    BY <1>4, <2>1
<1> HIDE DEF p
<1>12. SideInv(c, u, 0) /\ c.bins = a.bins /\ c.cap = 0 /\ c.populated = p
  BY <1>4, <1>7, <1>10, <1>11, PopulatedIs
<1>13. /\ w \in Sketch /\ w.bins = Zeroed(c.bins, k) /\ w.cap = 0
       /\ w.populated = p /\ SideInv(w, [u EXCEPT ![k] = 0], 0)
  BY <1>12, WithoutIs DEF w
<1> DEFINE q == (p + Word - 1) % Word
<1>14. q \in Nat
  BY <1>3, <1>10
<1>15. e = [w EXCEPT !.populated = q]
  <2>1. e = [w EXCEPT !.populated = (w.populated + Word - 1) % Word]
    BY <1>13 DEF e, w, Crossed, Sketch
  <2> QED
    BY <1>13, <2>1
<1> HIDE DEF q
<1>16. SideInv(e, [u EXCEPT ![k] = 0], 0) /\ e.bins = w.bins /\ e.cap = 0 /\ e.populated = q
  BY <1>13, <1>14, <1>15, PopulatedIs
<1>17. [u EXCEPT ![k] = 0] = [t EXCEPT ![k] = 0]
  BY <1>2, ResetTwice DEF u
<1> QED
  BY <1>2, <1>4, <1>5, <1>6, <1>7, <1>8, <1>12, <1>13, <1>16, <1>17
     DEF d, t, a, c, e, u, p, q

LEMMA UpdateGOSCore ==
  ASSUME CoreInv, NEW k \in Index, NEW h \in Threshold, UpdateGOS(k, h)
  PROVE  CoreInv'
<1> DEFINE d == sk["edge"]
           t == truth["edge"]
           a == GOSInserted(k)
           c == GOSCounted(k)
           e == Crossed(c, k)
           u == [t EXCEPT ![k] = @ + 1]
           n == At(a.bins, k)
<1>0. config.usage = "gos" /\ config' = config /\ "edge" \in Side /\ config.usage # "plain"
  BY DEF UpdateGOS, Insert, Side
<1>1. /\ Slot(d.bins, d.cap, k) = k
      /\ FloorAfter("edge", k) = [floor EXCEPT !["edge"] = 0]
      /\ SideInv(a, u, 0) /\ a.cap = 0
      /\ SideInv(c, u, 0) /\ c.cap = 0
      /\ SideInv(e, [t EXCEPT ![k] = 0], 0) /\ e.cap = 0
      /\ n = t[k] + 1
  BY <1>0, GOSFacts
<1>2. /\ panicked' = FALSE /\ floor' = [floor EXCEPT !["edge"] = 0]
      /\ \/ sk' = [sk EXCEPT !["edge"] = a] /\ EmitNothing(k)
         \/ sk' = [sk EXCEPT !["edge"] = c] /\ EmitNothing(k)
         \/ sk' = [sk EXCEPT !["edge"] = e] /\ Emit(k, n)
  BY <1>1 DEF UpdateGOS, GOSInserted, GOSCounted
<1> HIDE DEF a, c, e, n
<1>3. CASE sk' = [sk EXCEPT !["edge"] = a] /\ EmitNothing(k)
  <2>1. wire' = wire /\ truth' = [truth EXCEPT !["edge"] = u]
    BY <1>3, EmitNothingCore
  <2> HIDE DEF u
  <2> QED
    BY <1>0, <1>1, <1>2, <1>3, <2>1, CoreKept, CoreSide
<1>4. CASE sk' = [sk EXCEPT !["edge"] = c] /\ EmitNothing(k)
  <2>1. wire' = wire /\ truth' = [truth EXCEPT !["edge"] = u]
    BY <1>4, EmitNothingCore
  <2> HIDE DEF u
  <2> QED
    BY <1>0, <1>1, <1>2, <1>4, <2>1, CoreKept, CoreSide
<1>5. CASE sk' = [sk EXCEPT !["edge"] = e] /\ Emit(k, n)
  <2> DEFINE z == [t EXCEPT ![k] = 0]
  <2>1. WireOK(wire') /\ truth' = [truth EXCEPT !["edge"] = z]
    BY <1>0, <1>1, <1>5, EmitCore
  <2>2. SideInv(e, z, 0)
    BY <1>1
  <2> HIDE DEF z
  <2> QED
    BY <1>0, <1>1, <1>2, <1>5, <2>1, <2>2, CoreKept
<1> QED
  BY <1>2, <1>3, <1>4, <1>5

(* What ProcessInput makes of the edge's sketch.                           *)
OctoInserted(k) ==
  LET d == sk["edge"] IN
  IF At(d.bins, k) = 0 THEN Seen(Added(d, k, 1), k) ELSE Added(d, k, 1)

(* And so for ProcessInput.                                                *)
LEMMA OctoFacts ==
  ASSUME CoreInv, config.usage = "octo", NEW k \in Index
  PROVE  LET d == sk["edge"]
             t == truth["edge"]
             c == OctoInserted(k)
             e == WithoutBucket(c, k)
             u == [t EXCEPT ![k] = @ + 1]
         IN  /\ Slot(d.bins, d.cap, k) = k
             /\ FloorAfter("edge", k) = [floor EXCEPT !["edge"] = 0]
             /\ SideInv(c, u, 0) /\ c.cap = 0
             /\ SideInv(e, [t EXCEPT ![k] = 0], 0) /\ e.cap = 0
             /\ c.bins[k] = t[k] + 1
<1> DEFINE d == sk["edge"]
           t == truth["edge"]
           a == Added(d, k, 1)
           c == OctoInserted(k)
           e == WithoutBucket(c, k)
           u == [t EXCEPT ![k] = @ + 1]
<1>1. "edge" \in Side
  BY DEF Side
<1>2. /\ d \in Sketch /\ t \in [Index -> Nat] /\ floor["edge"] = 0 /\ SideInv(d, t, 0)
      /\ d.cap = 0
  BY <1>1, CoreSide
<1>3. k \in Int /\ 1 \in Nat
  BY IndexFacts
<1>4. /\ a \in Sketch /\ a.bins = Put(d.bins, d.cap, k, 1) /\ a.count = d.count + 1
      /\ a.min = d.min /\ a.cap = 0
  BY <1>2, <1>3, AddedIs
<1>5. FloorOf(d.bins, d.cap, k, 0) = 0 /\ Slot(d.bins, d.cap, k) = k
  BY <1>2, UncappedStays
<1>6. FloorAfter("edge", k) = [floor EXCEPT !["edge"] = 0]
  BY <1>1, <1>2, <1>5, FloorAfterIs
<1>c. c = IF At(d.bins, k) = 0 THEN Seen(a, k) ELSE a
  BY DEF OctoInserted
<1>b. Books(d.bins, d.count, t, 0) /\ MinBelow(d.min, t, 0)
  BY <1>2 DEF SideInv
<1>a. /\ a.bins[k] = At(a.bins, k) /\ At(a.bins, k) = t[k] + 1 /\ At(d.bins, k) = t[k]
  BY <1>2, <1>4, OneMore
<1> HIDE DEF d, t, a, c, e, u
<1>7. ASSUME At(d.bins, k) = 0
      PROVE  SideInv(c, u, 0) /\ c.cap = 0 /\ c.bins = a.bins
  <2> DEFINE v == Seen(a, k)
  <2>1. c = v
    BY <1>c, <1>7
  <2>2. /\ v \in Sketch /\ v.bins = a.bins /\ v.cap = 0 /\ v.count = a.count
        /\ v.min = Lesser(d.min, k)
    BY <1>3, <1>4, SeenIs
  <2> HIDE DEF v
  <2>3. SideInv(v, [t EXCEPT ![k] = @ + 1], FloorOf(d.bins, d.cap, k, 0))
    BY <1>2, <1>3, <1>4, <2>2, SideAdded
  <2> QED
    BY <1>5, <2>1, <2>2, <2>3 DEF u
<1>8. ASSUME At(d.bins, k) # 0
      PROVE  SideInv(c, u, 0) /\ c.cap = 0 /\ c.bins = a.bins
  <2>1. c = a
    BY <1>c, <1>8
  <2>2. Books(Put(d.bins, d.cap, k, 1), d.count + 1, [t EXCEPT ![k] = @ + 1],
              FloorOf(d.bins, d.cap, k, 0))
    BY <1>2, <1>3, <1>b, BooksAdd
  <2>3. Books(a.bins, a.count, u, 0)
    BY <1>4, <1>5, <2>2 DEF u
  <2>4. t[k] # 0
    BY <1>8, <1>a
  <2>5. MinBelow(d.min, [t EXCEPT ![k] = @ + 1], 0)
    BY <1>2, <1>b, <2>4, MinMore
  <2>6. SideInv(a, u, 0)
    BY <1>4, <2>3, <2>5 DEF SideInv, u
  <2> QED
    BY <1>4, <2>1, <2>6
<1>9. SideInv(c, u, 0) /\ c.cap = 0 /\ c.bins = a.bins
  BY <1>7, <1>8
<1>10. e.cap = 0 /\ SideInv(e, [u EXCEPT ![k] = 0], 0)
  BY <1>9, WithoutIs DEF e
<1>11. [u EXCEPT ![k] = 0] = [t EXCEPT ![k] = 0]
  BY <1>2, ResetTwice DEF u
<1> QED
  BY <1>5, <1>6, <1>9, <1>10, <1>11, <1>a DEF d, t, a, c, e, u

LEMMA ProcessInputCore ==
  ASSUME CoreInv, NEW k \in Index, NEW h \in Threshold, ProcessInput(k, h)
  PROVE  CoreInv'
<1> DEFINE d == sk["edge"]
           t == truth["edge"]
           c == OctoInserted(k)
           e == WithoutBucket(c, k)
           u == [t EXCEPT ![k] = @ + 1]
           n == c.bins[k]
<1>0. config.usage = "octo" /\ config' = config /\ "edge" \in Side /\ config.usage # "plain"
  BY DEF ProcessInput, Insert, Side
<1>1. /\ Slot(d.bins, d.cap, k) = k
      /\ FloorAfter("edge", k) = [floor EXCEPT !["edge"] = 0]
      /\ SideInv(c, u, 0) /\ c.cap = 0
      /\ SideInv(e, [t EXCEPT ![k] = 0], 0) /\ e.cap = 0
      /\ n = t[k] + 1
  BY <1>0, OctoFacts
<1>2. /\ panicked' = FALSE /\ floor' = [floor EXCEPT !["edge"] = 0]
      /\ \/ sk' = [sk EXCEPT !["edge"] = c] /\ EmitNothing(k)
         \/ sk' = [sk EXCEPT !["edge"] = e] /\ Emit(k, n)
  BY <1>1 DEF ProcessInput, OctoInserted, CoreInv
<1> HIDE DEF c, e, n
<1>4. CASE sk' = [sk EXCEPT !["edge"] = c] /\ EmitNothing(k)
  <2>1. wire' = wire /\ truth' = [truth EXCEPT !["edge"] = u]
    BY <1>4, EmitNothingCore
  <2> HIDE DEF u
  <2> QED
    BY <1>0, <1>1, <1>2, <1>4, <2>1, CoreKept, CoreSide
<1>5. CASE sk' = [sk EXCEPT !["edge"] = e] /\ Emit(k, n)
  <2> DEFINE z == [t EXCEPT ![k] = 0]
  <2>1. WireOK(wire') /\ truth' = [truth EXCEPT !["edge"] = z]
    BY <1>0, <1>1, <1>5, EmitCore
  <2>2. SideInv(e, z, 0)
    BY <1>1
  <2> HIDE DEF z
  <2> QED
    BY <1>0, <1>1, <1>2, <1>5, <2>1, <2>2, CoreKept
<1> QED
  BY <1>2, <1>4, <1>5

LEMMA FlushCore ==
  ASSUME CoreInv, Flush
  PROVE  CoreInv'
<1> DEFINE d == sk["edge"]
           t == truth["edge"]
           b == [k \in DOMAIN d.bins |-> 0]
           e == [d EXCEPT !.bins = b, !.count = 0]
           z == [k \in Index |-> 0]
           K == {k \in DOMAIN d.bins : d.bins[k] # 0}
           S == {[index |-> k, count |-> d.bins[k]] : k \in K}
<1>0. "edge" \in Side /\ config.usage = "octo"
  BY DEF Flush, Side
<1>1. /\ d \in Sketch /\ t \in [Index -> Nat] /\ floor["edge"] = 0 /\ SideInv(d, t, 0)
      /\ d.cap = 0 /\ WireOK(wire) /\ panicked = FALSE
  BY <1>0, CoreSide
<1>2. Books(d.bins, d.count, t, 0) /\ MinBelow(d.min, t, 0)
  BY <1>1 DEF SideInv
<1>3. \A k \in Index : At(d.bins, k) = t[k]
  BY <1>2, IndexFacts DEF Books, Index
<1>4. [k \in Index |-> t[k] - At(d.bins, k)] = z
  BY <1>1, <1>3
<1>5. /\ config' = config /\ panicked' = FALSE
      /\ sk' = [sk EXCEPT !["edge"] = e] /\ floor' = [floor EXCEPT !["edge"] = 0]
      /\ truth' = [truth EXCEPT !["edge"] = z]
      /\ wire' = wire (+) SetToBag(S)
  <2>1. config' = config /\ panicked' = FALSE /\ wire' = wire (+) SetToBag(S)
    BY <1>1 DEF Flush
  <2>2. floor' = [floor EXCEPT !["edge"] = 0]
    BY <1>0, <1>1 DEF Flush, CoreInv
  <2>3. sk' = [sk EXCEPT !["edge"] = e]
    BY <1>0, <1>1 DEF Flush, CoreInv, Sketch
  <2>4. truth' = [truth EXCEPT !["edge"] = [k \in Index |-> t[k] - At(d.bins, k)]]
    BY <1>0, <1>1 DEF Flush, CoreInv
  <2> HIDE DEF t, d, z
  <2> QED
    BY <1>4, <2>1, <2>2, <2>3, <2>4
<1>6. Books(b, 0, z, 0)
  BY <1>2, BooksDrained
<1>7. b \in Store
  BY <1>6, StoreMember DEF Books
<1>8. MinBelow(d.min, z, 0)
  BY <1>1, SketchFields, MinAll
<1> HIDE DEF b, z
<1>9. e \in Sketch /\ e.bins = b /\ e.count = 0 /\ e.min = d.min /\ e.cap = 0
  BY <1>1, <1>7 DEF Sketch
<1>10. SideInv(e, z, 0)
  BY <1>6, <1>8, <1>9 DEF SideInv
<1>11. IsFiniteSet(S)
  <2> DEFINE g == [k \in K |-> [index |-> k, count |-> d.bins[k]]]
  <2>1. IsFiniteSet(K)
    BY <1>1, SketchFields, StoreFacts, FS_Subset
  <2>2. DOMAIN g = K /\ g = [k \in K |-> g[k]] /\ S = {g[k] : k \in K}
    OBVIOUS
  <2> HIDE DEF g, K, S
  <2> QED
    BY <2>1, <2>2, ImageFinite
<1>12. S \subseteq Delta
  <2> SUFFICES ASSUME NEW k \in K
               PROVE  [index |-> k, count |-> d.bins[k]] \in Delta
    OBVIOUS
  <2>1. d.bins[k] \in Nat /\ k \in Int
    BY <1>1, SketchFields, StoreFacts
  <2>2. k >= 1 /\ (k <= NumIndex \/ k <= 0)
    BY <1>2 DEF Books
  <2>3. k \in Index
    BY <2>1, <2>2, IndexFacts DEF Index
  <2> QED
    BY <2>1, <2>3 DEF Delta
<1>13. WireOK(wire')
  <2> HIDE DEF S
  <2> QED
    BY <1>1, <1>5, <1>11, <1>12, WireMore
<1> HIDE DEF e
<1> QED
  BY <1>0, <1>5, <1>9, <1>10, <1>13, CoreKept

LEMMA DeliverCore ==
  ASSUME CoreInv, NEW m \in BagToSet(wire), Deliver(m)
  PROVE  CoreInv'
<1> DEFINE d == sk["backend"]
           k == m.index
           n == m.count
           a == Added(d, k, n)
           e == Seen(a, k)
           t == truth["backend"]
           u == [t EXCEPT ![k] = @ + n]
<1>0. "backend" \in Side /\ config' = config
  BY DEF Deliver, Side
<1>1. m \in DOMAIN wire
  BY DEF BagToSet
<1>2. m \in Delta /\ k \in Index /\ n \in Nat /\ k \in Int
  <2>1. m \in Delta
    BY <1>1 DEF CoreInv, WireOK
  <2> QED
    BY <2>1, IndexFacts DEF Delta
<1>3. config.usage # "plain"
  BY <1>1 DEF CoreInv
<1>4. /\ d \in Sketch /\ t \in [Index -> Nat] /\ floor["backend"] = 0 /\ SideInv(d, t, 0)
      /\ d.cap = 0 /\ WireOK(wire) /\ panicked = FALSE
  BY <1>0, <1>3, CoreSide
<1>5. FloorOf(d.bins, d.cap, k, 0) = 0 /\ Slot(d.bins, d.cap, k) = k
  BY <1>4, UncappedStays
<1>6. /\ panicked' = FALSE /\ sk' = [sk EXCEPT !["backend"] = e]
      /\ truth' = [truth EXCEPT !["backend"] = u]
      /\ wire' = wire (-) SetToBag({m})
  BY <1>0, <1>4, <1>5 DEF Deliver, CoreInv
<1>7. floor' = [floor EXCEPT !["backend"] = 0]
  <2>1. floor' = FloorAfter("backend", k)
    BY DEF Deliver
  <2> QED
    BY <1>0, <1>4, <1>5, <2>1, FloorAfterIs
<1>8. WireOK(wire')
  BY <1>1, <1>4, <1>6, WireLess
<1> HIDE DEF k, n, d, t, a, e
<1>9. /\ a \in Sketch /\ a.bins = Put(d.bins, d.cap, k, n) /\ a.count = d.count + n
      /\ a.min = d.min /\ a.cap = 0
  BY <1>2, <1>4, AddedIs DEF a
<1>10. /\ e \in Sketch /\ e.bins = Put(d.bins, d.cap, k, n) /\ e.count = d.count + n
       /\ e.min = Lesser(d.min, k) /\ e.cap = 0
  BY <1>2, <1>9, SeenIs DEF e
<1>11. SideInv(e, [t EXCEPT ![k] = @ + n], FloorOf(d.bins, d.cap, k, 0))
  BY <1>2, <1>4, <1>10, SideAdded
<1>12. SideInv(e, u, 0)
  BY <1>5, <1>11
<1> HIDE DEF u
<1> QED
  BY <1>0, <1>3, <1>6, <1>7, <1>8, <1>10, <1>12, CoreKept

(* What ComputeDelta sends are deltas, finitely many.                      *)
LEMMA DeltasOf ==
  ASSUME NEW b, NEW n, NEW t, Books(b, n, t, 0), NEW a, IsStore(a), NEW h \in {0, 1}
  PROVE  ComputeDelta(a, b, h) \subseteq Delta /\ IsFiniteSet(ComputeDelta(a, b, h))
<1> DEFINE J == {j \in DOMAIN b : b[j] # 0 /\ b[j] - At(a, j) >= h}
           g == [k \in J |-> [index |-> k, count |-> b[k] - At(a, k)]]
           S == {g[k] : k \in J}
<1>0. IsStore(b)
  BY DEF Books
<1>1. S = ComputeDelta(a, b, h)
  BY DEF ComputeDelta
<1>2. IsFiniteSet(J)
  BY <1>0, StoreFacts, FS_Subset
<1>3. DOMAIN g = J /\ g = [k \in J |-> g[k]]
  OBVIOUS
<1>4. \A k \in J : g[k] \in Delta
  <2> SUFFICES ASSUME NEW k \in J
               PROVE  g[k] \in Delta
    OBVIOUS
  <2>1. b[k] \in Nat /\ k \in Int /\ At(a, k) \in Nat /\ h \in Nat
    BY <1>0, StoreFacts
  <2>2. k >= 1 /\ (k <= NumIndex \/ k <= 0)
    BY DEF Books
  <2>3. k \in Index
    BY <2>1, <2>2, IndexFacts DEF Index
  <2>4. b[k] - At(a, k) \in Nat
    BY <2>1
  <2> QED
    BY <2>3, <2>4 DEF Delta
<1> HIDE DEF g, J
<1>5. IsFiniteSet(S)
  BY <1>2, <1>3, ImageFinite
<1> QED
  BY <1>1, <1>4, <1>5

LEMMA SendDeltaCore ==
  ASSUME CoreInv, IsStore(snapshot), NEW h \in {0, 1}, SendDelta(h)
  PROVE  CoreInv' /\ IsStore(snapshot)'
<1> DEFINE d == sk["edge"]
           t == truth["edge"]
           S == ComputeDelta(snapshot, d.bins, h)
<1>1. "edge" \in Side /\ config.usage # "plain"
  BY DEF Side, SendDelta
<1>2. SideInv(d, t, 0) /\ d.cap = 0 /\ floor["edge"] = 0 /\ WireOK(wire) /\ panicked = FALSE
  BY <1>1, CoreSide
<1>3. Books(d.bins, d.count, t, 0)
  BY <1>2 DEF SideInv
<1>4. S \subseteq Delta /\ IsFiniteSet(S)
  BY <1>3, DeltasOf
<1>5. /\ config' = config /\ panicked' = FALSE /\ snapshot' = d.bins
      /\ sk' = [sk EXCEPT !["edge"] = d] /\ truth' = [truth EXCEPT !["edge"] = t]
      /\ floor' = [floor EXCEPT !["edge"] = 0] /\ wire' = wire (+) SetToBag(S)
  BY <1>1, <1>2 DEF SendDelta, CoreInv
<1>6. IsStore(snapshot')
  BY <1>3, <1>5 DEF Books
<1> HIDE DEF d, t, S
<1>7. WireOK(wire')
  BY <1>2, <1>4, <1>5, WireMore
<1> QED
  BY <1>1, <1>2, <1>5, <1>6, <1>7, CoreKept

(* ... and every step keeps it.                                            *)
LEMMA CoreNext ==
  ASSUME CoreInv, IsStore(snapshot), [Next]_vars
  PROVE  CoreInv' /\ IsStore(snapshot)'
<1>1. ASSUME NEW s \in Side, NEW k \in Index, Update(s, k)
      PROVE  CoreInv' /\ IsStore(snapshot)'
  BY <1>1, UpdateCore DEF Update, Insert
<1>2. ASSUME NEW k \in Index, NEW h \in Threshold, UpdateGOS(k, h)
      PROVE  CoreInv' /\ IsStore(snapshot)'
  BY <1>2, UpdateGOSCore DEF UpdateGOS, Insert
<1>3. ASSUME NEW k \in Index, NEW h \in Threshold, ProcessInput(k, h)
      PROVE  CoreInv' /\ IsStore(snapshot)'
  BY <1>3, ProcessInputCore DEF ProcessInput, Insert
<1>4. CASE Flush
  BY <1>4, FlushCore DEF Flush
<1>5. ASSUME NEW m \in BagToSet(wire), Deliver(m)
      PROVE  CoreInv' /\ IsStore(snapshot)'
  BY <1>5, DeliverCore DEF Deliver
<1>6. ASSUME NEW s \in Side, NEW o \in Side, Merge(s, o)
      PROVE  CoreInv' /\ IsStore(snapshot)'
  BY <1>6, MergeCore DEF Merge
<1>7. ASSUME NEW h \in {0, 1}, SendDelta(h)
      PROVE  CoreInv' /\ IsStore(snapshot)'
  BY <1>7, SendDeltaCore
<1>8. ASSUME NEW s \in Side, Clear(s)
      PROVE  CoreInv' /\ IsStore(snapshot)'
  BY <1>8, ClearCore DEF Clear
<1>9. ASSUME NEW s \in Side, NEW form \in config.forms, Restart(s, form)
      PROVE  CoreInv' /\ IsStore(snapshot)'
  BY <1>9, RestartCore DEF Restart
<1>10. CASE UNCHANGED vars
  BY <1>10 DEF vars, CoreInv
<1> QED
  BY <1>1, <1>2, <1>3, <1>4, <1>5, <1>6, <1>7, <1>8, <1>9, <1>10 DEF Next

(* What it implies.                                                        *)
LEMMA CoreHighEnd ==
  ASSUME CoreInv
  PROVE  HighEndExact
BY CoreSide DEF HighEndExact, SideInv, Books

LEMMA CoreQuantile ==
  ASSUME CoreInv
  PROVE  QuantileExact
<1> SUFFICES ASSUME NEW s \in Side, NEW rank \in 1..sk[s].count
             PROVE  LET Reached == {k \in Index : SumFunctionOnSet(truth[s], 1..k) >= rank}
                        answer == QuantileIndex(sk[s], rank)
                    IN  IF Min(Reached) > floor[s] THEN answer = Min(Reached)
                                                   ELSE answer <= floor[s]
  BY DEF QuantileExact
<1>1. /\ Books(sk[s].bins, sk[s].count, truth[s], floor[s])
      /\ MinBelow(sk[s].min, truth[s], floor[s])
  BY CoreSide DEF SideInv
<1> QED
  BY <1>1, QuantileAnswer

LEMMA CoreCount ==
  ASSUME CoreInv
  PROVE  CountConserved
BY CoreSide DEF CountConserved, SideInv, Books

-----------------------------------------------------------------------------
(* The cap.                                                                *)

CapOK(d, f, m) ==
  d.cap > 0 /\ ~ m =>
    /\ Cardinality(DOMAIN d.bins) <= d.cap
    /\ DOMAIN d.bins # {} => Right(d.bins) <= d.max + Lesser(GrowChunk, d.cap) - 1
    /\ f # 0 => f < d.max + Lesser(GrowChunk, d.cap) - d.cap + 1

CapInv ==
  merged \in [Side -> BOOLEAN] /\ \A s \in Side : CapOK(sk[s], floor[s], merged[s])

LEMMA IntervalSize ==
  ASSUME NEW l \in Int, NEW r \in Int, NEW n \in Nat, r - l < n
  PROVE  Cardinality(l..r) <= n
<1>1. Cardinality(l..r) = IF l > r THEN 0 ELSE r - l + 1
  BY FS_Interval
<1> QED
  BY <1>1

(* ensure keeps a store within its cap, and its right end close to the     *)
(* indices it was made for.                                                *)
LEMMA EnsuredCapped ==
  ASSUME NEW b, IsStore(b), NEW cap \in Nat, cap > 0, Cardinality(DOMAIN b) <= cap,
         NEW k \in Int
  PROVE  LET e == Ensured(b, cap, k)
             room == k + Lesser(GrowChunk, cap) - 1
         IN  /\ Cardinality(DOMAIN e) <= cap
             /\ DOMAIN e # {} =>
                  Right(e) <= IF DOMAIN b = {} THEN room ELSE Greater(Right(b), room)
<1> DEFINE e == Ensured(b, cap, k)
           c == Lesser(GrowChunk, cap)
           room == k + Lesser(GrowChunk, cap) - 1
           Goal == /\ Cardinality(DOMAIN e) <= cap
                   /\ DOMAIN e # {} =>
                        Right(e) <= IF DOMAIN b = {} THEN room ELSE Greater(Right(b), room)
<1>1. GrowChunk \in Nat /\ GrowChunk > 0
  BY DDSketchAssumption
<1>2. c \in Nat /\ c >= 1 /\ c <= cap /\ c <= GrowChunk /\ (c = GrowChunk \/ c = cap)
  BY <1>1 DEF Lesser
<1>3. ASSUME DOMAIN b = {}
      PROVE  Goal
  <2>1. e = Fresh(cap, k)
    BY <1>3 DEF Ensured
  <2> QED
    BY <1>3, <2>1, FreshFacts
<1>4. ASSUME DOMAIN b # {}
      PROVE  Goal
  <2> DEFINE l == Left(b)
             r == Right(b)
             g == Greater(r, k)
  <2>1. l \in Int /\ r \in Int /\ l <= r /\ DOMAIN b = l..r
    BY <1>4, StoreFacts
  <2>2. g \in Int /\ g >= r /\ g >= k /\ (g = r \/ g = k)
    BY <2>1 DEF Greater
  <2>3. ASSUME NEW x \in Int, NEW y \in Int, x <= y, y - x < cap, y <= Greater(r, room),
               DOMAIN e = x..y
        PROVE  Goal
    <3>1. Cardinality(x..y) <= cap
      BY <2>3, IntervalSize
    <3>2. Max(x..y) = y
      BY <2>3, IntervalEnds
    <3>3. Right(e) = y
      BY <2>3, <3>2 DEF Right
    <3> HIDE DEF e, room
    <3> QED
      BY <1>4, <2>3, <3>1, <3>3
  <2>4. room \in Int /\ room >= k /\ Greater(r, room) >= r /\ Greater(r, room) >= room
    BY <1>2, <2>1 DEF Greater
  <2>5. ASSUME Overflows(b, cap, k)
        PROVE  Goal
    <3>1. e = Collapsed(b, NewFloor(b, cap, k), g)
      BY <1>4, <2>5 DEF Ensured
    <3>2. DOMAIN e = (g - cap + 1)..g
      BY <3>1 DEF Collapsed, NewFloor
    <3> HIDE DEF room
    <3>3. g <= Greater(r, room)
      BY <2>1, <2>2, <2>4 DEF Greater
    <3> HIDE DEF e, room, g, r, Goal
    <3> QED
      BY <2>2, <2>3, <3>2, <3>3
  <2>6. ASSUME ~ Overflows(b, cap, k), k < l
        PROVE  Goal
    <3> DEFINE x == GrownLeft(b, cap, k)
    <3>1. e = Spread(b, x, r)
      BY <1>4, <2>6 DEF Ensured
    <3>2. DOMAIN e = x..r
      BY <3>1 DEF Spread
    <3>3. x \in Int /\ x >= r - cap + 1 /\ x <= r
      BY <1>1, <2>1, <2>6 DEF GrownLeft, Greater
    <3> HIDE DEF e, room, g, r, x, Goal
    <3> QED
      BY <2>1, <2>3, <2>4, <3>2, <3>3
  <2>7. ASSUME ~ Overflows(b, cap, k), ~ k < l, k > r
        PROVE  Goal
    <3> DEFINE y == GrownRight(b, cap, k)
               q == r + Greater(k - r, GrowChunk)
    <3>1. e = Spread(b, l, y)
      BY <1>4, <2>7 DEF Ensured
    <3>2. DOMAIN e = l..y
      BY <3>1 DEF Spread
    <3>3. q \in Int /\ q <= k + GrowChunk - 1 /\ q >= r
      BY <1>1, <2>1, <2>7 DEF Greater
    <3>4. y = Lesser(q, l + cap - 1)
      BY DEF GrownRight
    <3>5. y \in Int /\ y <= q /\ y <= l + cap - 1 /\ y >= l
      BY <2>1, <3>3, <3>4 DEF Lesser
    <3>6. y <= room
      BY <1>2, <2>1, <2>7, <3>3, <3>5
    <3> HIDE DEF e, room, g, r, l, y, Goal
    <3>7. y <= Greater(r, room)
      BY <2>1, <2>4, <3>5, <3>6 DEF Greater
    <3> QED
      BY <2>1, <2>3, <3>2, <3>5, <3>7
  <2>8. ASSUME ~ Overflows(b, cap, k), ~ k < l, ~ k > r
        PROVE  Goal
    <3>1. e = b
      BY <1>4, <2>8 DEF Ensured
    <3> QED
      BY <1>4, <2>1, <2>4, <3>1
  <2> QED
    BY <2>5, <2>6, <2>7, <2>8
<1> QED
  BY <1>3, <1>4

(* One insert of index k, after which the maximum is no lower.             *)
LEMMA CapAdded ==
  ASSUME NEW d \in Sketch, NEW f \in Nat, NEW m, CapOK(d, f, m), NEW k \in Int, NEW n \in Nat,
         NEW e \in Sketch, e.bins = Put(d.bins, d.cap, k, n), e.cap = d.cap,
         e.max = Greater(d.max, k)
  PROVE  CapOK(e, FloorOf(d.bins, d.cap, k, f), m)
<1> SUFFICES ASSUME d.cap > 0, ~ m
             PROVE  CapOK(e, FloorOf(d.bins, d.cap, k, f), m)
  BY DEF CapOK
<1> DEFINE b == d.bins
           cap == d.cap
           c == Lesser(GrowChunk, cap)
           r == Ensured(b, cap, k)
           top == e.max + c - 1
<1>1. IsStore(b) /\ cap \in Nat /\ cap > 0 /\ d.max \in Int /\ e.max \in Int
  BY SketchFields
<1>2. /\ Cardinality(DOMAIN b) <= cap
      /\ DOMAIN b # {} => Right(b) <= d.max + c - 1
      /\ f # 0 => f < d.max + c - cap + 1
  BY DEF CapOK
<1>3. c \in Nat /\ c >= 1 /\ c <= cap
  BY <1>1, DDSketchAssumption DEF Lesser
<1>4. e.max >= d.max /\ e.max >= k /\ top \in Int
  BY <1>1, <1>3 DEF Greater
<1>5. DOMAIN b # {} => Right(b) \in Int /\ Right(b) <= top
  <2>1. DOMAIN b # {} => Right(b) \in Int
    BY <1>1, StoreFacts
  <2> HIDE DEF c, b
  <2> QED
    BY <1>1, <1>2, <1>3, <1>4, <2>1
<1>6. /\ Cardinality(DOMAIN r) <= cap
      /\ DOMAIN r # {} =>
           Right(r) <= IF DOMAIN b = {} THEN k + c - 1 ELSE Greater(Right(b), k + c - 1)
  BY <1>1, <1>2, EnsuredCapped
<1>7. DOMAIN e.bins = DOMAIN r /\ Right(e.bins) = Right(r)
  BY <1>1, PutFacts DEF Right
<1>8. DOMAIN r # {} => Right(r) <= top
  <2>1. DOMAIN r # {} => Right(r) \in Int
    BY <1>1, EnsuredRoomy, StoreFacts DEF Roomy
  <2> DEFINE room == k + c - 1
  <2>2. room <= top /\ room \in Int
    BY <1>1, <1>3, <1>4
  <2>3. /\ DOMAIN b # {} => Greater(Right(b), room) <= top /\ Greater(Right(b), room) \in Int
    BY <1>5, <2>2 DEF Greater
  <2>4. DOMAIN r # {} => Right(r) <= IF DOMAIN b = {} THEN room ELSE Greater(Right(b), room)
    BY <1>6
  <2> DEFINE y == Right(r)
             x == IF DOMAIN b = {} THEN room ELSE Greater(Right(b), room)
  <2>5. x <= top /\ x \in Int
    BY <2>2, <2>3
  <2>6. DOMAIN r # {} => y \in Int /\ y <= x
    BY <2>1, <2>4
  <2>7. top \in Int
    BY <1>4
  <2> HIDE DEF r, c, top, b, room, x, y
  <2>8. DOMAIN r # {} => y <= top
    BY <2>5, <2>6, <2>7
  <2> QED
    BY <2>8 DEF y
<1>9. Overflows(b, cap, k) => NewFloor(b, cap, k) <= top - cap + 1
  <2> SUFFICES ASSUME Overflows(b, cap, k)
               PROVE  NewFloor(b, cap, k) <= top - cap + 1
    OBVIOUS
  <2>1. DOMAIN b # {}
    BY DEF Overflows
  <2>2. Greater(Right(b), k) <= top
    BY <1>1, <1>3, <1>4, <1>5, <2>1 DEF Greater
  <2>3. Greater(Right(b), k) \in Int
    BY <1>5, <2>1 DEF Greater
  <2> HIDE DEF b, c, top
  <2> QED
    BY <1>1, <1>4, <2>2, <2>3 DEF NewFloor
<1> DEFINE g == FloorOf(b, cap, k, f)
<1>10. g # 0 => g < e.max + c - cap + 1
  <2>1. CASE Overflows(b, cap, k)
    <3>1. NewFloor(b, cap, k) \in Int
      BY <1>1, <2>1, EnsuredRoomy DEF Roomy
    <3>2. NewFloor(b, cap, k) < e.max + c - cap + 1
      BY <1>1, <1>3, <1>9, <2>1, <3>1
    <3>3. g = f \/ g = NewFloor(b, cap, k)
      BY <2>1 DEF FloorOf, Greater
    <3> HIDE DEF g, b, cap, c
    <3> QED
      BY <1>1, <1>2, <1>3, <1>4, <3>2, <3>3
  <2>2. CASE ~ Overflows(b, cap, k)
    <3>1. g = f
      BY <2>2 DEF FloorOf
    <3> HIDE DEF g, b, cap, c
    <3> QED
      BY <1>1, <1>2, <1>3, <1>4, <3>1
  <2> QED
    BY <2>1, <2>2
<1> HIDE DEF g, r
<1> QED
  BY <1>6, <1>7, <1>8, <1>10 DEF CapOK, g

(* The cap is respected at first, ...                                      *)
LEMMA InitCap ==
  ASSUME CapsArePlain, Init
  PROVE  CapInv
<1>0. merged \in [Side -> BOOLEAN]
  BY DEF Init
<1> SUFFICES ASSUME NEW s \in Side
             PROVE  CapOK(sk[s], floor[s], merged[s])
  BY <1>0 DEF CapInv
<1>1. config.maxBins \in Nat
  BY ConfigFacts DEF Init
<1> DEFINE c == IF s = "edge" THEN config.maxBins ELSE 0
<1>2. sk[s] = NewDDSketch(c) /\ floor[s] = 0 /\ merged[s] = FALSE /\ c \in Nat
  BY <1>1 DEF Init, Below
<1> HIDE DEF c
<1>3. sk[s].bins = Empty /\ sk[s].cap = c
  BY <1>2, NewIs
<1>4. DOMAIN Empty = {} /\ Cardinality(DOMAIN Empty) = 0
  BY EmptyIsStore, FS_EmptySet
<1> QED
  BY <1>2, <1>3, <1>4 DEF CapOK

LEMMA CapKept ==
  ASSUME CoreInv, CapInv, NEW s \in Side, NEW d, NEW f, NEW m \in BOOLEAN, CapOK(d, f, m),
         sk' = [sk EXCEPT ![s] = d], floor' = [floor EXCEPT ![s] = f],
         merged' = [merged EXCEPT ![s] = m]
  PROVE  CapInv'
<1>1. merged' \in [Side -> BOOLEAN]
  BY DEF CapInv
<1>2. \A r \in Side : /\ sk'[r] = IF r = s THEN d ELSE sk[r]
                      /\ floor'[r] = IF r = s THEN f ELSE floor[r]
                      /\ merged'[r] = IF r = s THEN m ELSE merged[r]
  BY DEF CoreInv, CapInv
<1>3. \A r \in Side : CapOK(sk'[r], floor'[r], merged'[r])
  BY <1>2 DEF CapInv
<1> QED
  BY <1>1, <1>3 DEF CapInv

(* Without a cap there is nothing to respect.                              *)
LEMMA CapUnused ==
  ASSUME CoreInv', CapInv, config.usage # "plain", config' = config, merged' = merged
  PROVE  CapInv'
<1>1. \A s \in Side : sk'[s].cap = 0
  BY DEF CoreInv
<1>2. ~ (0 > 0)
  OBVIOUS
<1>3. \A s \in Side : CapOK(sk'[s], floor'[s], merged'[s])
  BY <1>1, <1>2 DEF CapOK
<1>4. merged' \in [Side -> BOOLEAN]
  BY DEF CapInv
<1> QED
  BY <1>3, <1>4 DEF CapInv

LEMMA CapSide ==
  ASSUME CapInv, NEW s \in Side
  PROVE  CapOK(sk[s], floor[s], merged[s]) /\ merged[s] \in BOOLEAN
         /\ merged = [merged EXCEPT ![s] = merged[s]]
BY DEF CapInv

(* ... and by every step.                                                  *)
LEMMA CapNext ==
  ASSUME CoreInv, CapInv, CoreInv', [Next]_vars
  PROVE  CapInv'
<1>1. ASSUME NEW s \in Side, NEW k \in Index, Update(s, k)
      PROVE  CapInv'
  <2> DEFINE d == sk[s]
             v == Seen(d, k)
             e == Added(v, k, 1)
             f == FloorOf(d.bins, d.cap, k, floor[s])
  <2>1. /\ d \in Sketch /\ k \in Int /\ 1 \in Nat /\ floor[s] \in Nat
        /\ CapOK(d, floor[s], merged[s])
    BY CoreSide, CapSide, IndexFacts
  <2>2. sk' = [sk EXCEPT ![s] = e] /\ floor' = [floor EXCEPT ![s] = f]
    BY <1>1, FloorAfterIs DEF Update, CoreInv
  <2>3. merged' = [merged EXCEPT ![s] = merged[s]] /\ merged[s] \in BOOLEAN
    BY <1>1, CapSide DEF Update, Insert
  <2> HIDE DEF d
  <2>4. v \in Sketch /\ v.bins = d.bins /\ v.cap = d.cap /\ v.max = Greater(d.max, k)
    BY <2>1, SeenIs
  <2> HIDE DEF v
  <2>5. /\ e \in Sketch /\ e.bins = Put(d.bins, d.cap, k, 1) /\ e.cap = d.cap
        /\ e.max = Greater(d.max, k)
    BY <2>1, <2>4, AddedIs
  <2> HIDE DEF e
  <2>6. CapOK(e, f, merged[s])
    BY <2>1, <2>5, CapAdded
  <2> HIDE DEF f
  <2> QED
    BY <2>2, <2>3, <2>6, CapKept
<1>2. ASSUME NEW k \in Index, NEW h \in Threshold, UpdateGOS(k, h)
      PROVE  CapInv'
  BY <1>2, CapUnused DEF UpdateGOS, Insert
<1>3. ASSUME NEW k \in Index, NEW h \in Threshold, ProcessInput(k, h)
      PROVE  CapInv'
  BY <1>3, CapUnused DEF ProcessInput, Insert
<1>4. CASE Flush
  BY <1>4, CapUnused DEF Flush
<1>5. ASSUME NEW m \in BagToSet(wire), Deliver(m)
      PROVE  CapInv'
  BY <1>5, CapUnused DEF Deliver, CoreInv, BagToSet
<1>6. ASSUME NEW s \in Side, NEW o \in Side, Merge(s, o)
      PROVE  CapInv'
  <2> DEFINE e == sk'[s]
             g == floor'[s]
  <2>1. /\ \E d : sk' = [sk EXCEPT ![s] = d]
        /\ \E f : floor' = [floor EXCEPT ![s] = f]
        /\ merged' = [merged EXCEPT ![s] = TRUE]
    BY <1>6 DEF Merge
  <2>2. PICK d : sk' = [sk EXCEPT ![s] = d]
    BY <2>1
  <2>3. PICK f : floor' = [floor EXCEPT ![s] = f]
    BY <2>1
  <2>4. CapOK(d, f, TRUE)
    BY DEF CapOK
  <2> QED
    BY <2>1, <2>2, <2>3, <2>4, CapKept
<1>7. ASSUME NEW h \in {0, 1}, SendDelta(h)
      PROVE  CapInv'
  BY <1>7, CapUnused DEF SendDelta
<1>8. ASSUME NEW s \in Side, Clear(s)
      PROVE  CapInv'
  <2> DEFINE e == NewDDSketch(sk[s].cap)
  <2>1. sk' = [sk EXCEPT ![s] = e] /\ floor' = [floor EXCEPT ![s] = 0]
    BY <1>8 DEF Clear, Below, CoreInv
  <2>2. merged' = [merged EXCEPT ![s] = merged[s]] /\ merged[s] \in BOOLEAN
    BY <1>8, CapSide DEF Clear
  <2>3. sk[s].cap \in Nat
    BY CoreSide, SketchFields
  <2>4. e.bins = Empty /\ e.cap = sk[s].cap
    BY <2>3, NewIs
  <2>5. DOMAIN Empty = {} /\ Cardinality(DOMAIN Empty) = 0
    BY EmptyIsStore, FS_EmptySet
  <2> HIDE DEF e
  <2>6. CapOK(e, 0, merged[s])
    BY <2>3, <2>4, <2>5 DEF CapOK
  <2> QED
    BY <2>1, <2>2, <2>6, CapKept
<1>9. ASSUME NEW s \in Side, NEW form \in config.forms, Restart(s, form)
      PROVE  CapInv'
  <2> DEFINE e == Decoded(form, sk[s])
  <2>1. sk' = [sk EXCEPT ![s] = e] /\ floor' = [floor EXCEPT ![s] = floor[s]]
    BY <1>9 DEF Restart, CoreInv
  <2>2. merged' = [merged EXCEPT ![s] = merged[s]] /\ merged[s] \in BOOLEAN
    BY <1>9, CapSide DEF Restart
  <2>3. form \in Form /\ SideInv(sk[s], truth[s], floor[s])
    BY CoreSide, ConfigFacts
  <2>4. (form = "clone" /\ e = sk[s]) \/ e.cap = 0
    BY <2>3, SideDecoded
  <2>5. ~ (0 > 0)
    OBVIOUS
  <2> HIDE DEF e
  <2>6. CapOK(e, floor[s], merged[s])
    BY <2>4, <2>5, CapSide DEF CapOK
  <2> QED
    BY <2>1, <2>2, <2>6, CapKept
<1>10. CASE UNCHANGED vars
  BY <1>10 DEF vars, CapInv
<1> QED
  BY <1>1, <1>2, <1>3, <1>4, <1>5, <1>6, <1>7, <1>8, <1>9, <1>10 DEF Next

LEMMA CapIsRespected ==
  ASSUME CapInv
  PROVE  CapRespected
BY DEF CapInv, CapOK, CapRespected, Below

-----------------------------------------------------------------------------
(* The counter of populated buckets.                                       *)

(* Threshold 0 switches the counting off, and a uint32 counts all indices. *)
CountingOn == 0 \notin Threshold /\ NumIndex < Word

PopInv == config.usage = "gos" => sk["edge"].populated = Populated(sk["edge"].bins)

(* The non-zero buckets, counted.                                          *)
LEMMA NonzeroIs ==
  ASSUME NEW b, IsStore(b)
  PROVE  /\ Nonzero(b) = {j \in Int : At(b, j) # 0} /\ IsFiniteSet(Nonzero(b))
         /\ Populated(b) = Cardinality(Nonzero(b))
<1>1. Nonzero(b) = {j \in Int : At(b, j) # 0}
  BY StoreFacts DEF Nonzero, At
<1>2. IsFiniteSet(Nonzero(b))
  BY StoreFacts, FS_Subset DEF Nonzero
<1>3. Populated(b) = Cardinality(Nonzero(b))
  BY DEF Populated, Nonzero
<1> QED
  BY <1>1, <1>2, <1>3

(* No more buckets are populated than there are indices.                   *)
LEMMA PopulatedBound ==
  ASSUME NEW b, NEW n, NEW t, Books(b, n, t, 0)
  PROVE  Populated(b) \in 0..NumIndex
<1>1. IsStore(b) /\ NumIndex \in Nat
  BY IndexFacts DEF Books
<1>2. Nonzero(b) \subseteq 1..NumIndex
  <2> SUFFICES ASSUME NEW j \in Nonzero(b)
               PROVE  j \in 1..NumIndex
    OBVIOUS
  <2>1. j \in DOMAIN b /\ b[j] # 0 /\ j \in Int
    BY <1>1, StoreFacts DEF Nonzero
  <2> QED
    BY <1>1, <2>1 DEF Books
<1>3. IsFiniteSet(1..NumIndex) /\ Cardinality(1..NumIndex) = NumIndex
  BY <1>1, FS_Interval
<1>4. Cardinality(Nonzero(b)) <= Cardinality(1..NumIndex)
  BY <1>2, <1>3, FS_Subset
<1>5. Populated(b) \in Nat
  BY <1>1, PopulatedNat
<1> QED
  BY <1>1, <1>3, <1>4, <1>5, NonzeroIs

LEMMA PopulatedEmpty ==
  Populated(Empty) = 0
<1>1. {k \in DOMAIN Empty : Empty[k] # 0} = {}
  BY EmptyIsStore
<1> QED
  BY <1>1, FS_EmptySet DEF Populated

(* A bucket gets a value: one more is populated if it was zero.            *)
LEMMA PopulatedMore ==
  ASSUME NEW a, NEW b, IsStore(a), IsStore(b), NEW k \in Int, At(b, k) = At(a, k) + 1,
         \A j \in Int : j # k => At(b, j) = At(a, j)
  PROVE  Populated(b) = Populated(a) + IF At(b, k) = 1 THEN 1 ELSE 0
<1> DEFINE A == Nonzero(a)
           B == Nonzero(b)
<1>1. /\ A = {j \in Int : At(a, j) # 0} /\ IsFiniteSet(A) /\ Populated(a) = Cardinality(A)
      /\ B = {j \in Int : At(b, j) # 0} /\ Populated(b) = Cardinality(B)
  BY NonzeroIs
<1>2. At(a, k) \in Nat /\ Populated(a) \in Nat
  BY StoreFacts, PopulatedNat
<1> HIDE DEF A, B
<1>3. CASE At(b, k) = 1
  <2>1. k \notin A /\ B = A \union {k}
    BY <1>1, <1>2, <1>3
  <2>2. Cardinality(B) = Cardinality(A) + 1
    BY <1>1, <2>1, FS_AddElement
  <2> QED
    BY <1>1, <1>3, <2>2
<1>4. CASE At(b, k) # 1
  <2>1. B = A
    BY <1>1, <1>2, <1>4
  <2>2. Populated(b) = Populated(a)
    BY <1>1, <2>1
  <2> QED
    BY <1>2, <1>4, <2>2
<1> QED
  BY <1>3, <1>4

LEMMA PopulatedLess ==
  ASSUME NEW b, NEW k \in Int, IsStore(b), IsStore(Zeroed(b, k)), At(b, k) # 0
  PROVE  Populated(Zeroed(b, k)) = Populated(b) - 1
<1> DEFINE A == Nonzero(b)
           B == Nonzero(Zeroed(b, k))
<1>1. k \in A /\ B = A \ {k}
  <2>1. k \in DOMAIN b /\ b[k] # 0
    BY DEF At
  <2> QED
    BY <2>1 DEF Nonzero, Zeroed
<1>2. IsFiniteSet(A) /\ Populated(b) = Cardinality(A) /\ Populated(Zeroed(b, k)) = Cardinality(B)
  BY NonzeroIs
<1> HIDE DEF A, B
<1>3. Cardinality(B) = Cardinality(A) - 1
  BY <1>1, <1>2, FS_RemoveElement
<1> QED
  BY <1>2, <1>3

LEMMA InitPop ==
  ASSUME Init
  PROVE  PopInv
<1>1. "edge" \in Side
  BY DEF Side
<1>2. \E c : sk["edge"] = NewDDSketch(c)
  BY <1>1 DEF Init
<1>3. sk["edge"].populated = 0 /\ sk["edge"].bins = Empty
  BY <1>2 DEF NewDDSketch
<1> QED
  BY <1>3, PopulatedEmpty DEF PopInv

(* UpdateGOS counts what it inserts and takes off what it resets.          *)
LEMMA UpdateGOSPop ==
  ASSUME CountingOn, CoreInv, PopInv, NEW k \in Index, NEW h \in Threshold, UpdateGOS(k, h)
  PROVE  PopInv'
<1> DEFINE d == sk["edge"]
           t == truth["edge"]
           a == GOSInserted(k)
           c == GOSCounted(k)
           e == Crossed(c, k)
           u == [t EXCEPT ![k] = @ + 1]
           n == At(a.bins, k)
           z == [t EXCEPT ![k] = 0]
<1>0. config.usage = "gos" /\ config' = config /\ "edge" \in Side
  BY DEF UpdateGOS, Insert, Side
<1>1. /\ Slot(d.bins, d.cap, k) = k /\ d.cap = 0 /\ SideInv(d, t, 0)
      /\ SideInv(a, u, 0) /\ a.bins = Put(d.bins, d.cap, k, 1)
      /\ SideInv(c, u, 0) /\ c.bins = a.bins
      /\ c.populated = IF n = 1 THEN (d.populated + 1) % Word ELSE d.populated
      /\ SideInv(e, z, 0) /\ e.bins = Zeroed(c.bins, k)
      /\ e.populated = (c.populated + Word - 1) % Word
      /\ n = t[k] + 1 /\ t \in [Index -> Nat]
  BY <1>0, GOSFacts
<1>2. h # 0
  BY DEF CountingOn
<1>3. \/ sk' = [sk EXCEPT !["edge"] = c]
      \/ sk' = [sk EXCEPT !["edge"] = e]
  BY <1>1, <1>2 DEF UpdateGOS, GOSInserted, GOSCounted
<1>4. d.populated = Populated(d.bins)
  BY <1>0 DEF PopInv
<1> HIDE DEF d, t, a, c, e, u, n, z
<1>5. a \in Sketch /\ IsStore(d.bins) /\ IsStore(a.bins) /\ k \in Int
  BY <1>1, IndexFacts DEF SideInv, Books
<1>6. n = At(d.bins, k) + 1 /\ \A j \in Int : j # k => At(a.bins, j) = At(d.bins, j)
  BY <1>1, <1>5, OneMore DEF n
<1>7. Populated(a.bins) = Populated(d.bins) + IF n = 1 THEN 1 ELSE 0
  BY <1>5, <1>6, PopulatedMore DEF n
<1> DEFINE p == Populated(a.bins)
           q == Populated(d.bins)
           r == Populated(e.bins)
<1>8. p \in 0..NumIndex /\ q \in 0..NumIndex /\ r \in 0..NumIndex
  BY <1>1, PopulatedBound DEF SideInv
<1>9. Word \in Nat /\ NumIndex \in Nat /\ NumIndex < Word
  BY IndexFacts, DDSketchAssumption DEF CountingOn
<1>10. r = p - 1
  <2>1. IsStore(e.bins) /\ n # 0
    BY <1>1, <1>5 DEF SideInv, Books
  <2> QED
    BY <1>1, <1>5, <2>1, PopulatedLess DEF n
<1> HIDE DEF p, q, r
<1>11. c.populated = p
  <2>1. n = 1 => (q + 1) % Word = q + 1
    BY <1>7, <1>8, <1>9 DEF p, q
  <2> QED
    BY <1>1, <1>4, <1>7, <1>8, <2>1 DEF p, q
<1>12. e.populated = r
  <2>1. (p + Word - 1) % Word = p - 1
    <3>1. p - 1 \in 0..(Word - 1)
      BY <1>8, <1>9, <1>10
    <3>2. p + Word - 1 = (p - 1) + 1 * Word
      BY <1>8, <1>9
    <3> QED
      BY <1>9, <3>1, <3>2
  <2> QED
    BY <1>1, <1>10, <1>11, <2>1
<1>13. sk'["edge"] = c \/ sk'["edge"] = e
  BY <1>0, <1>3 DEF CoreInv
<1>14. sk'["edge"].populated = Populated(sk'["edge"].bins)
  BY <1>1, <1>11, <1>12, <1>13 DEF p, r
<1> QED
  BY <1>14 DEF PopInv

(* The counter is right after every step.                                  *)
LEMMA PopNext ==
  ASSUME CountingOn, CoreInv, PopInv, [Next]_vars
  PROVE  PopInv'
<1> SUFFICES ASSUME config'.usage = "gos"
             PROVE  sk'["edge"].populated = Populated(sk'["edge"].bins)
  BY SMTT(30) DEF PopInv
<1>0. config' = config
  BY DEF Next, vars, Update, Insert, UpdateGOS, ProcessInput, Flush, Deliver, Merge, SendDelta,
         Clear, Restart
<1>1. config.usage = "gos" /\ "edge" \in Side /\ "backend" \in Side /\ "edge" # "backend"
  BY <1>0 DEF Side
<1>2. sk["edge"].populated = Populated(sk["edge"].bins) /\ sk \in [Side -> Sketch]
  BY <1>1 DEF PopInv, CoreInv
<1>3. ASSUME NEW k \in Index, NEW h \in Threshold, UpdateGOS(k, h)
      PROVE  sk'["edge"].populated = Populated(sk'["edge"].bins)
  BY <1>0, <1>1, <1>3, UpdateGOSPop DEF PopInv
<1>4. ASSUME NEW m \in BagToSet(wire), Deliver(m)
      PROVE  sk'["edge"].populated = Populated(sk'["edge"].bins)
  <2>1. sk'["edge"] = sk["edge"]
    BY <1>1, <1>2, <1>4 DEF Deliver
  <2> QED
    BY <1>2, <2>1
<1>5. ASSUME NEW s \in Side, Clear(s)
      PROVE  sk'["edge"].populated = Populated(sk'["edge"].bins)
  <2>1. sk'["edge"] = sk["edge"] \/ sk'["edge"] = NewDDSketch(sk["edge"].cap)
    BY <1>1, <1>2, <1>5 DEF Clear
  <2>2. sk["edge"].cap \in Nat
    BY <1>1, <1>2, SketchFields
  <2> QED
    BY <1>2, <2>1, <2>2, NewIs, PopulatedEmpty
<1>6. ASSUME NEW s \in Side, NEW form \in config.forms, Restart(s, form)
      PROVE  sk'["edge"].populated = Populated(sk'["edge"].bins)
  <2> DEFINE d == sk["edge"]
             e == Decoded(form, d)
  <2>1. sk'["edge"] = d \/ sk'["edge"] = e
    BY <1>1, <1>2, <1>6 DEF Restart
  <2>2. form \in Form /\ SideInv(d, truth["edge"], floor["edge"])
    BY <1>1, CoreSide, ConfigFacts
  <2>3. (form # "clone" => e.populated = Populated(e.bins)) /\ (form = "clone" => e = d)
    BY <2>2, SideDecoded
  <2> HIDE DEF e
  <2> QED
    BY <1>2, <2>1, <2>3
<1>7. CASE UNCHANGED vars
  BY <1>2, <1>7 DEF vars
<1>8. ~ Flush /\ \A k \in Index, h \in Threshold : ~ ProcessInput(k, h)
  BY <1>1 DEF Flush, ProcessInput
<1>9. /\ \A s \in Side, k \in Index : ~ Update(s, k)
      /\ \A s, o \in Side : ~ Merge(s, o)
      /\ \A h \in {0, 1} : ~ SendDelta(h)
  BY <1>1 DEF Update, Merge, SendDelta
<1> QED
  BY <1>3, <1>4, <1>5, <1>6, <1>7, <1>8, <1>9 DEF Next

LEMMA PopIsExact ==
  ASSUME PopInv
  PROVE  PopulatedExact
BY DEF PopInv, PopulatedExact

-----------------------------------------------------------------------------
(* Deltas against a snapshot.                                              *)

(* What is on the wire for bucket k.                                       *)
WireFor(w, k) == [m \in BagToSet(w) |-> IF m.index = k THEN m.count * w[m] ELSE 0]
WireSum(w, k) == SumFunctionOnSet(WireFor(w, k), BagToSet(w))

(* What a set of deltas says of bucket k.                                  *)
SaidOf(S, k) == [m \in S |-> IF m.index = k THEN m.count ELSE 0]

LEMMA WireForNat ==
  ASSUME NEW w, WireOK(w), NEW k
  PROVE  /\ BagToSet(w) = DOMAIN w /\ IsFiniteSet(DOMAIN w)
         /\ \A m \in DOMAIN w : WireFor(w, k)[m] \in Nat
                                /\ WireFor(w, k)[m] = IF m.index = k THEN m.count * w[m] ELSE 0
<1>1. BagToSet(w) = DOMAIN w /\ IsFiniteSet(DOMAIN w)
  BY DEF BagToSet, WireOK
<1>2. ASSUME NEW m \in DOMAIN w
      PROVE  WireFor(w, k)[m] \in Nat
             /\ WireFor(w, k)[m] = IF m.index = k THEN m.count * w[m] ELSE 0
  <2>1. m.count \in Nat /\ w[m] \in Nat
    BY DEF WireOK, Delta
  <2>2. m.count * w[m] \in Nat
    BY <2>1
  <2>3. WireFor(w, k)[m] = IF m.index = k THEN m.count * w[m] ELSE 0
    BY <1>1 DEF WireFor
  <2> QED
    BY <2>2, <2>3
<1> QED
  BY <1>1, <1>2

LEMMA WireSumEmpty ==
  ASSUME NEW k
  PROVE  WireSum(EmptyBag, k) = 0
<1>1. BagToSet(EmptyBag) = {}
  BY WireEmpty DEF BagToSet
<1> QED
  BY <1>1, SetSumEmpty DEF WireSum

(* Sending adds what the deltas say.                                       *)
LEMMA WireSumMore ==
  ASSUME NEW w, WireOK(w), NEW S, S \subseteq Delta, IsFiniteSet(S), NEW k
  PROVE  WireSum(w (+) SetToBag(S), k) = WireSum(w, k) + SumFunctionOnSet(SaidOf(S, k), S)
<1> DEFINE v == w (+) SetToBag(S)
           W == DOMAIN w
           U == W \union S
           f == [m \in U |-> IF m \in W THEN WireFor(w, k)[m] ELSE 0]
           g == [m \in U |-> IF m \in S THEN SaidOf(S, k)[m] ELSE 0]
           h == WireFor(v, k)
<1>1. /\ WireOK(v) /\ DOMAIN v = U
      /\ \A m \in U : v[m] = (IF m \in W THEN w[m] ELSE 0) + (IF m \in S THEN 1 ELSE 0)
  BY WireMore
<1> HIDE DEF v
<1>2. /\ BagToSet(w) = W /\ IsFiniteSet(W)
      /\ \A m \in W : WireFor(w, k)[m] \in Nat
                      /\ WireFor(w, k)[m] = IF m.index = k THEN m.count * w[m] ELSE 0
  BY WireForNat
<1>3. /\ BagToSet(v) = U /\ IsFiniteSet(U)
      /\ \A m \in U : h[m] = IF m.index = k THEN m.count * v[m] ELSE 0
  BY <1>1, WireForNat
<1>4. \A m \in S : /\ m.count \in Nat /\ SaidOf(S, k)[m] = IF m.index = k THEN m.count ELSE 0
                   /\ SaidOf(S, k)[m] \in Nat
  BY DEF SaidOf, Delta
<1>5. \A m \in W : w[m] \in Nat /\ m.count \in Nat
  BY DEF WireOK, Delta
<1>6. \A m \in U : f[m] \in Nat /\ g[m] \in Nat
  BY <1>2, <1>4
<1>7. \A m \in U : h[m] = f[m] + g[m]
  <2> SUFFICES ASSUME NEW m \in U
               PROVE  h[m] = f[m] + g[m]
    OBVIOUS
  <2> DEFINE c == m.count
             x == w[m]
  <2>1. c \in Nat
    BY <1>4, <1>5
  <2>2. c * 1 = c /\ c * 0 = 0
    BY <2>1
  <2>3. CASE m.index # k
    <3>1. h[m] = 0
      BY <1>3, <2>3
    <3>2. f[m] = 0 /\ g[m] = 0
      BY <1>2, <1>4, <2>3
    <3> QED
      BY <3>1, <3>2
  <2>4. CASE m.index = k /\ m \in W /\ m \in S
    <3>1. h[m] = c * (x + 1)
      BY <1>1, <1>3, <2>4
    <3>2. f[m] = c * x /\ g[m] = c
      BY <1>2, <1>4, <2>4
    <3>3. x \in Nat
      BY <1>5, <2>4
    <3> HIDE DEF c, x, f, g, h
    <3>4. c * (x + 1) = c * x + c
      BY <2>1, <3>3
    <3> QED
      BY <3>1, <3>2, <3>4
  <2>5. CASE m.index = k /\ m \in W /\ m \notin S
    <3>1. h[m] = c * v[m] /\ v[m] = x + 0 /\ x \in Nat
      BY <1>1, <1>3, <1>5, <2>5
    <3>2. f[m] = c * x /\ g[m] = 0 /\ f[m] \in Nat
      BY <1>2, <1>4, <2>5
    <3>3. v[m] = x
      BY <3>1
    <3> HIDE DEF c, x, f, g, h
    <3> QED
      BY <3>1, <3>2, <3>3
  <2>6. CASE m.index = k /\ m \notin W /\ m \in S
    <3>1. h[m] = c * v[m] /\ v[m] = 0 + 1
      BY <1>1, <1>3, <2>6
    <3>2. f[m] = 0 /\ g[m] = c
      BY <1>2, <1>4, <2>6
    <3> HIDE DEF c, x, f, g, h
    <3> QED
      BY <2>1, <2>2, <3>1, <3>2
  <2> QED
    BY <2>3, <2>4, <2>5, <2>6
<1>8. /\ \A m \in W : WireFor(w, k)[m] = f[m]
      /\ \A m \in S : SaidOf(S, k)[m] = g[m]
      /\ \A m \in U \ W : f[m] = 0
      /\ \A m \in U \ S : g[m] = 0
      /\ W \subseteq U /\ S \subseteq U
  OBVIOUS
<1> DEFINE r == WireFor(w, k)
           q == SaidOf(S, k)
<1>10. /\ \A m \in W : r[m] = f[m]
       /\ \A m \in S : q[m] = g[m]
  BY <1>8
<1> HIDE DEF f, g, h, U, r, q, W
<1>9. (\A m \in U : f[m] \in Int) /\ (\A m \in U : g[m] \in Int)
  BY <1>6
<1>11. SumFunctionOnSet(h, U) = SumFunctionOnSet(f, U) + SumFunctionOnSet(g, U)
  BY <1>3, <1>7, <1>9, SetSumPlus
<1>12. SumFunctionOnSet(f, U) = SumFunctionOnSet(f, W)
  BY <1>3, <1>8, <1>9, SetSumExtend
<1>13. SumFunctionOnSet(g, U) = SumFunctionOnSet(g, S)
  BY <1>3, <1>8, <1>9, SetSumExtend
<1>14. SumFunctionOnSet(r, W) = SumFunctionOnSet(f, W)
  <2>1. \A m \in W : f[m] \in Int
    BY <1>8, <1>9
  <2> QED
    BY <1>2, <1>10, <2>1, SetSumEq
<1>15. SumFunctionOnSet(q, S) = SumFunctionOnSet(g, S)
  <2>1. \A m \in S : g[m] \in Int
    BY <1>8, <1>9
  <2> QED
    BY <1>10, <2>1, SetSumEq
<1>16. WireSum(v, k) = SumFunctionOnSet(h, U) /\ WireSum(w, k) = SumFunctionOnSet(r, W)
  BY <1>2, <1>3 DEF WireSum, h, r
<1> QED
  BY <1>11, <1>12, <1>13, <1>14, <1>15, <1>16 DEF v, q

LEMMA WireSumNat ==
  ASSUME NEW w, WireOK(w), NEW k
  PROVE  WireSum(w, k) \in Nat
<1> DEFINE f == WireFor(w, k)
           W == DOMAIN w
<1>1. BagToSet(w) = W /\ IsFiniteSet(W) /\ \A m \in W : f[m] \in Nat
  BY WireForNat
<1> HIDE DEF f, W
<1>2. SumFunctionOnSet(f, W) \in Nat
  BY <1>1, SetSumNat
<1> QED
  BY <1>1, <1>2 DEF WireSum, f

(* One copy of m arrives.                                                  *)
LEMMA WireSumLess ==
  ASSUME NEW w, WireOK(w), NEW m \in DOMAIN w, NEW k
  PROVE  WireSum(w, k) = WireSum(w (-) SetToBag({m}), k) + IF m.index = k THEN m.count ELSE 0
<1> DEFINE v == w (-) SetToBag({m})
           W == DOMAIN w
           V == DOMAIN v
           f == WireFor(w, k)
           g == WireFor(v, k)
           c == IF m.index = k THEN m.count ELSE 0
<1>1. /\ WireOK(v)
      /\ V = IF w[m] = 1 THEN W \ {m} ELSE W
      /\ \A e \in V : v[e] = IF e = m THEN w[e] - 1 ELSE w[e]
  BY WireLess
<1> HIDE DEF v
<1>2. /\ BagToSet(w) = W /\ IsFiniteSet(W)
      /\ \A e \in W : f[e] \in Nat /\ f[e] = IF e.index = k THEN e.count * w[e] ELSE 0
  BY WireForNat
<1>3. /\ BagToSet(v) = V /\ IsFiniteSet(V)
      /\ \A e \in V : g[e] \in Nat /\ g[e] = IF e.index = k THEN e.count * v[e] ELSE 0
  BY <1>1, WireForNat
<1>4. m.count \in Nat /\ w[m] \in Nat /\ c \in Nat
  BY DEF WireOK, Delta
<1>5. WireSum(w, k) = SumFunctionOnSet(f, W) /\ WireSum(v, k) = SumFunctionOnSet(g, V)
  BY <1>2, <1>3 DEF WireSum
<1>6. \A e \in V \ {m} : g[e] = f[e]
  <2>1. V \ {m} \subseteq W
    BY <1>1
  <2> QED
    BY <1>1, <1>2, <1>3, <2>1
<1>7. ASSUME w[m] = 1
      PROVE  SumFunctionOnSet(f, W) = SumFunctionOnSet(g, V) + c
  <2>1. V = W \ {m} /\ m \in W
    BY <1>1, <1>7
  <2>2. f[m] = c
    <3>1. m.count * 1 = m.count
      BY <1>4
    <3> QED
      BY <1>2, <1>7, <3>1
  <2>3. /\ \A e \in W : f[e] \in Int
        /\ \A e \in V : f[e] \in Int
        /\ \A e \in V : g[e] = f[e]
    BY <1>2, <1>6, <2>1
  <2> HIDE DEF f, g, V, W, c
  <2>4. SumFunctionOnSet(f, W) = f[m] + SumFunctionOnSet(f, W \ {m})
    BY <1>2, <2>1, <2>3, SetSumTake
  <2>5. SumFunctionOnSet(g, V) = SumFunctionOnSet(f, V)
    BY <1>3, <2>3, SetSumEq
  <2>6. SumFunctionOnSet(f, V) \in Int
    BY <1>3, <2>3, SetSumType
  <2> QED
    BY <1>4, <2>1, <2>2, <2>4, <2>5, <2>6
<1>8. ASSUME w[m] # 1
      PROVE  SumFunctionOnSet(f, W) = SumFunctionOnSet(g, V) + c
  <2>1. V = W /\ m \in W
    BY <1>1, <1>8
  <2>2. f[m] = g[m] + c
    <3> DEFINE a == m.count
               x == w[m]
    <3>1. v[m] = x - 1
      BY <1>1, <2>1
    <3>2. /\ f[m] = IF m.index = k THEN a * x ELSE 0
          /\ g[m] = IF m.index = k THEN a * (x - 1) ELSE 0
      BY <1>2, <1>3, <2>1, <3>1
    <3>3. a \in Int /\ x \in Int
      BY <1>4
    <3>4. c = IF m.index = k THEN a ELSE 0
      OBVIOUS
    <3> HIDE DEF a, x, f, g, c
    <3>5. a * x = a * (x - 1) + a
      BY <3>3
    <3> QED
      BY <3>2, <3>4, <3>5
  <2>3. /\ \A e \in V : g[e] \in Int
        /\ \A e \in V \ {m} : f[e] = g[e]
        /\ c \in Int
    BY <1>3, <1>4, <1>6
  <2> HIDE DEF f, g, V, W, c
  <2>4. SumFunctionOnSet(f, V) = SumFunctionOnSet(g, V) + c
    BY <1>3, <2>1, <2>2, <2>3, SetSumBump
  <2> QED
    BY <2>1, <2>4
<1>9. SumFunctionOnSet(f, W) = SumFunctionOnSet(g, V) + c
  BY <1>7, <1>8
<1> QED
  BY <1>5, <1>9 DEF v

DeltaInv ==
  config.usage = "delta" =>
    /\ \A j \in Int : At(snapshot, j) <= At(sk["edge"].bins, j)
    /\ \A k \in Index : truth["backend"][k] + WireSum(wire, k) = At(snapshot, k)

LEMMA DeltaAdds ==
  ASSUME DeltaInv
  PROVE  DeltasAddUp
BY DEF DeltaInv, DeltasAddUp, WireSum, WireFor

(* The deltas say of a bucket what it has got since the snapshot.          *)
LEMMA SaidOfDeltas ==
  ASSUME NEW b, NEW n, NEW t, Books(b, n, t, 0), NEW a, IsStore(a), NEW h \in {0, 1},
         \A j \in Int : At(a, j) <= At(b, j), NEW k \in Index
  PROVE  SumFunctionOnSet(SaidOf(ComputeDelta(a, b, h), k), ComputeDelta(a, b, h))
           = At(b, k) - At(a, k)
<1> DEFINE S == ComputeDelta(a, b, h)
           f == SaidOf(S, k)
           J == {j \in DOMAIN b : b[j] # 0 /\ b[j] - At(a, j) >= h}
           m == [index |-> k, count |-> b[k] - At(a, k)]
<1>1. IsStore(b) /\ k \in Int /\ At(a, k) \in Nat /\ At(b, k) \in Nat /\ At(a, k) <= At(b, k)
  BY StoreFacts, IndexFacts DEF Books
<1>2. S \subseteq Delta /\ IsFiniteSet(S)
  BY DeltasOf
<1>3. S = {[index |-> j, count |-> b[j] - At(a, j)] : j \in J}
  BY DEF ComputeDelta
<1>4. \A e \in S : f[e] = (IF e.index = k THEN e.count ELSE 0) /\ e.index \in J
                   /\ e = [index |-> e.index, count |-> b[e.index] - At(a, e.index)]
  BY <1>3 DEF SaidOf
<1>5. CASE k \in J
  <2>1. m \in S /\ m.index = k /\ m.count = b[k] - At(a, k) /\ b[k] = At(b, k)
    BY <1>3, <1>5 DEF At
  <2>2. \A e \in S \ {m} : f[e] = 0
    BY <1>4
  <2>3. f[m] = At(b, k) - At(a, k) /\ f[m] \in Int
    BY <1>1, <1>4, <2>1
  <2> HIDE DEF S, f, m
  <2>4. SumFunctionOnSet(f, S) = f[m]
    BY <1>2, <2>1, <2>2, <2>3, SetSumSingle
  <2> QED
    BY <2>3, <2>4 DEF f, S
<1>6. CASE k \notin J
  <2>1. \A e \in S : f[e] = 0
    BY <1>4, <1>6
  <2>2. At(b, k) - At(a, k) = 0
    <3>1. CASE k \in DOMAIN b /\ b[k] # 0
      <4>1. b[k] = At(b, k)
        BY <3>1 DEF At
      <4>2. ~ (At(b, k) - At(a, k) >= h)
        BY <1>6, <3>1, <4>1
      <4> QED
        BY <1>1, <4>2
    <3>2. CASE ~ (k \in DOMAIN b /\ b[k] # 0)
      <4>1. At(b, k) = 0
        BY <3>2 DEF At
      <4> QED
        BY <1>1, <4>1
    <3> QED
      BY <3>1, <3>2
  <2> HIDE DEF S, f
  <2>3. SumFunctionOnSet(f, S) = 0
    BY <1>2, <2>1, SetSumZeros
  <2> QED
    BY <2>2, <2>3 DEF f, S
<1> QED
  BY <1>5, <1>6

LEMMA InitDelta ==
  ASSUME CapsArePlain, Init
  PROVE  DeltaInv
<1>1. "edge" \in Side /\ "backend" \in Side
  BY DEF Side
<1>2. snapshot = Empty /\ wire = EmptyBag /\ \A k \in Index : truth["backend"][k] = 0
  BY <1>1 DEF Init
<1>3. \A j : At(snapshot, j) = 0
  BY <1>2, EmptyIsStore
<1>4. IsStore(sk["edge"].bins)
  BY <1>1, InitCore, CoreSide, SketchFields
<1>5. \A j \in Int : At(sk["edge"].bins, j) \in Nat
  BY <1>4, StoreFacts
<1>6. \A j \in Int : At(snapshot, j) <= At(sk["edge"].bins, j)
  BY <1>3, <1>5
<1>7. \A k \in Index : truth["backend"][k] + WireSum(wire, k) = At(snapshot, k)
  BY <1>2, <1>3, WireSumEmpty
<1> QED
  BY <1>6, <1>7 DEF DeltaInv

LEMMA UpdateDelta ==
  ASSUME CoreInv, IsStore(snapshot), DeltaInv, config.usage = "delta",
         NEW s \in Side, NEW k \in Index, Update(s, k)
  PROVE  DeltaInv'
<1> DEFINE d == sk["edge"]
           t == truth["edge"]
           v == Seen(d, k)
           e == Added(v, k, 1)
<1>1. s = "edge" /\ s \in Side /\ "backend" \in Side /\ "edge" # "backend"
  BY DEF Update, Side
<1>2. /\ config' = config /\ snapshot' = snapshot /\ wire' = wire
      /\ sk'["edge"] = e /\ truth'["backend"] = truth["backend"]
  BY <1>1 DEF Update, Insert, CoreInv
<1>3. d \in Sketch /\ SideInv(d, t, 0) /\ d.cap = 0 /\ k \in Int /\ 1 \in Nat
  BY <1>1, CoreSide, IndexFacts
<1> HIDE DEF d, t
<1>4. v \in Sketch /\ v.bins = d.bins /\ v.cap = d.cap
  BY <1>3, SeenIs
<1> HIDE DEF v
<1>5. e \in Sketch /\ e.bins = Put(d.bins, d.cap, k, 1)
  BY <1>3, <1>4, AddedIs
<1> HIDE DEF e
<1>6. /\ At(e.bins, k) = At(d.bins, k) + 1
      /\ \A j \in Int : j # k => At(e.bins, j) = At(d.bins, j)
  BY <1>3, <1>5, OneMore
<1>7. \A j : At(d.bins, j) \in Nat /\ At(snapshot, j) \in Nat
  BY <1>3, SketchFields, StoreFacts
<1>8. \A j \in Int : At(snapshot, j) <= At(d.bins, j)
  BY DEF DeltaInv, d
<1>9. \A j \in Int : At(snapshot, j) <= At(e.bins, j)
  <2> SUFFICES ASSUME NEW j \in Int
               PROVE  At(snapshot, j) <= At(e.bins, j)
    OBVIOUS
  <2>1. At(e.bins, j) = At(d.bins, j) \/ At(e.bins, j) = At(d.bins, j) + 1
    BY <1>6
  <2> QED
    BY <1>7, <1>8, <2>1
<1> QED
  BY <1>2, <1>9 DEF DeltaInv

LEMMA SendDeltaDelta ==
  ASSUME CoreInv, IsStore(snapshot), DeltaInv, NEW h \in {0, 1}, SendDelta(h)
  PROVE  DeltaInv'
<1> DEFINE d == sk["edge"]
           t == truth["edge"]
           b == d.bins
           S == ComputeDelta(snapshot, b, h)
<1>1. "edge" \in Side /\ "backend" \in Side /\ config.usage = "delta"
  BY DEF Side, SendDelta
<1>2. SideInv(d, t, 0) /\ WireOK(wire)
  BY <1>1, CoreSide
<1>3. Books(b, d.count, t, 0)
  BY <1>2 DEF SideInv
<1>4. /\ config' = config /\ snapshot' = b /\ sk' = sk /\ truth' = truth
      /\ wire' = wire (+) SetToBag(S)
  BY DEF SendDelta
<1>5. /\ \A j \in Int : At(snapshot, j) <= At(b, j)
      /\ \A k \in Index : truth["backend"][k] + WireSum(wire, k) = At(snapshot, k)
  BY <1>1 DEF DeltaInv
<1>6. S \subseteq Delta /\ IsFiniteSet(S)
  BY <1>3, DeltasOf
<1>7. IsStore(b)
  BY <1>3 DEF Books
<1> HIDE DEF b
<1>8. ASSUME NEW k \in Index
      PROVE  truth'["backend"][k] + WireSum(wire', k) = At(snapshot', k)
  <2> DEFINE x == SumFunctionOnSet(SaidOf(S, k), S)
             y == WireSum(wire, k)
             z == WireSum(wire', k)
             u == truth["backend"][k]
             p == At(snapshot, k)
             q == At(b, k)
  <2>1. x = q - p
    BY <1>3, <1>5, SaidOfDeltas
  <2> HIDE DEF S
  <2>2. z = y + x
    BY <1>2, <1>4, <1>6, WireSumMore
  <2>3. y \in Nat /\ u \in Nat /\ p \in Nat /\ q \in Nat
    BY <1>1, <1>2, <1>7, WireSumNat, StoreFacts DEF CoreInv
  <2>4. u + y = p
    BY <1>5
  <2> HIDE DEF x, y, z, u, p, q
  <2>5. u + z = q
    BY <2>1, <2>2, <2>3, <2>4
  <2> QED
    BY <1>4, <2>5 DEF u, z, q
<1>9. \A j \in Int : At(b, j) <= At(b, j)
  <2>1. \A j \in Int : At(b, j) \in Int
    BY <1>7, StoreFacts
  <2> QED
    BY <2>1
<1>10. sk'["edge"].bins = b
  BY <1>4 DEF b
<1> QED
  BY <1>4, <1>8, <1>9, <1>10 DEF DeltaInv

LEMMA DeliverDelta ==
  ASSUME CoreInv, DeltaInv, NEW m \in BagToSet(wire), Deliver(m)
  PROVE  DeltaInv'
<1> SUFFICES ASSUME config.usage = "delta"
             PROVE  DeltaInv'
  BY DEF Deliver, DeltaInv
<1>1. "edge" \in Side /\ "backend" \in Side /\ "edge" # "backend"
  BY DEF Side
<1>2. m \in DOMAIN wire /\ WireOK(wire)
  BY DEF BagToSet, CoreInv
<1>3. m.index \in Index /\ m.count \in Nat
  BY <1>2 DEF WireOK, Delta
<1>4. truth \in [Side -> [Index -> Nat]] /\ sk \in [Side -> Sketch]
  BY DEF CoreInv
<1>5. /\ config' = config /\ snapshot' = snapshot /\ sk'["edge"] = sk["edge"]
      /\ wire' = wire (-) SetToBag({m})
      /\ \A k \in Index : truth'["backend"][k] = IF m.index = k THEN truth["backend"][k] + m.count
                                                 ELSE truth["backend"][k]
  BY <1>1, <1>3, <1>4 DEF Deliver
<1>6. ASSUME NEW k \in Index
      PROVE  truth'["backend"][k] + WireSum(wire', k) = At(snapshot, k)
  <2> DEFINE y == WireSum(wire, k)
             z == WireSum(wire', k)
             u == truth["backend"][k]
             c == IF m.index = k THEN m.count ELSE 0
             p == At(snapshot, k)
  <2>1. y = z + c
    BY <1>2, <1>5, WireSumLess
  <2>2. truth'["backend"][k] = u + c
    <3>1. u \in Nat
      BY <1>1, <1>4
    <3> QED
      BY <1>5, <3>1
  <2>3. u + y = p
    BY DEF DeltaInv
  <2>4. z \in Nat /\ u \in Nat /\ c \in Nat
    BY <1>1, <1>2, <1>3, <1>4, <1>5, WireSumNat, WireLess
  <2> HIDE DEF y, z, u, c, p
  <2>5. (u + c) + z = p
    BY <2>1, <2>3, <2>4
  <2> QED
    BY <2>2, <2>5 DEF z, p
<1> QED
  BY <1>5, <1>6 DEF DeltaInv

LEMMA RestartDelta ==
  ASSUME CoreInv, DeltaInv, NEW s \in Side, NEW form \in config.forms, Restart(s, form)
  PROVE  DeltaInv'
<1> DEFINE d == sk["edge"]
           e == Decoded(form, d)
<1>1. "edge" \in Side /\ sk \in [Side -> Sketch]
  BY DEF Side, CoreInv
<1>2. /\ config' = config /\ snapshot' = snapshot /\ wire' = wire /\ truth' = truth
      /\ (sk'["edge"] = d \/ sk'["edge"] = e)
  BY <1>1 DEF Restart
<1>3. form \in Form /\ SideInv(d, truth["edge"], floor["edge"])
  BY <1>1, CoreSide, ConfigFacts
<1> HIDE DEF d
<1>4. \A j \in Int : At(e.bins, j) = At(d.bins, j)
  BY <1>3, SideDecoded
<1> HIDE DEF e
<1>5. \A j \in Int : At(sk'["edge"].bins, j) = At(d.bins, j)
  BY <1>2, <1>4
<1> QED
  BY <1>2, <1>5 DEF DeltaInv, d

(* The deltas add up after every step.                                     *)
LEMMA DeltaNext ==
  ASSUME CoreInv, IsStore(snapshot), DeltaInv, [Next]_vars
  PROVE  DeltaInv'
<1>0. config' = config
  BY DEF Next, vars, Update, Insert, UpdateGOS, ProcessInput, Flush, Deliver, Merge, SendDelta,
         Clear, Restart
<1> SUFFICES ASSUME config.usage = "delta"
             PROVE  DeltaInv'
  BY <1>0 DEF DeltaInv
<1>1. ASSUME NEW s \in Side, NEW k \in Index, Update(s, k)
      PROVE  DeltaInv'
  BY <1>1, UpdateDelta
<1>2. /\ ~ Flush
      /\ \A k \in Index, h \in Threshold : ~ UpdateGOS(k, h) /\ ~ ProcessInput(k, h)
      /\ \A s, o \in Side : ~ Merge(s, o)
      /\ \A s \in Side : ~ Clear(s)
  BY DEF UpdateGOS, ProcessInput, Flush, Merge, Clear
<1>3. ASSUME NEW m \in BagToSet(wire), Deliver(m)
      PROVE  DeltaInv'
  BY <1>3, DeliverDelta
<1>4. ASSUME NEW h \in {0, 1}, SendDelta(h)
      PROVE  DeltaInv'
  BY <1>4, SendDeltaDelta
<1>5. ASSUME NEW s \in Side, NEW form \in config.forms, Restart(s, form)
      PROVE  DeltaInv'
  BY <1>5, RestartDelta
<1>6. CASE UNCHANGED vars
  BY <1>6 DEF vars, DeltaInv
<1> QED
  BY <1>1, <1>2, <1>3, <1>4, <1>5, <1>6 DEF Next

-----------------------------------------------------------------------------
(* Types.                                                                  *)

Ends(d) == d.min \in Nat /\ d.max \in Nat

TypeInv == values \in 0..config.values /\ \A s \in Side : Ends(sk[s])

(* No operation makes min or max negative.                                 *)
LEMMA EndsSeen ==
  ASSUME NEW d \in Sketch, Ends(d), NEW k \in Index
  PROVE  Seen(d, k) \in Sketch /\ Ends(Seen(d, k))
<1>1. k \in Nat /\ k \in Int
  BY IndexFacts DEF Index
<1> QED
  BY <1>1, SeenIs DEF Ends, Lesser, Greater

LEMMA EndsAdded ==
  ASSUME NEW d \in Sketch, Ends(d), NEW k \in Index, NEW n \in Nat
  PROVE  Added(d, k, n) \in Sketch /\ Ends(Added(d, k, n))
BY AddedIs DEF Ends

LEMMA EndsNew ==
  ASSUME NEW c
  PROVE  Ends(NewDDSketch(c))
BY IndexFacts DEF Ends, NewDDSketch, Above, Below

LEMMA EndsWithout ==
  ASSUME NEW d \in Sketch, Ends(d), NEW k
  PROVE  Ends(WithoutBucket(d, k)) /\ Ends(Crossed(d, k))
<1> DEFINE b == [j \in DOMAIN d.bins |-> IF j = k THEN 0 ELSE d.bins[j]]
           n == IF d.count >= At(d.bins, k) THEN d.count - At(d.bins, k) ELSE 0
           w == WithoutBucket(d, k)
           p == (w.populated + Word - 1) % Word
<1>1. w = [d EXCEPT !.bins = b, !.count = n]
  BY DEF WithoutBucket, Sketch
<1> HIDE DEF b, n
<1>2. /\ w = [bins |-> b, cap |-> d.cap, count |-> n, min |-> d.min, max |-> d.max,
              populated |-> d.populated]
  BY <1>1 DEF Sketch
<1>3. Crossed(d, k) = [w EXCEPT !.populated = p]
  BY <1>2 DEF Crossed
<1> HIDE DEF w, p
<1>4. Crossed(d, k).min = d.min /\ Crossed(d, k).max = d.max
  BY <1>2, <1>3
<1> QED
  BY <1>2, <1>4 DEF Ends, w

LEMMA EndsCounted ==
  ASSUME NEW d \in Sketch, Ends(d), NEW p \in Nat
  PROVE  [d EXCEPT !.populated = p] \in Sketch /\ Ends([d EXCEPT !.populated = p])
BY DEF Sketch, Ends

LEMMA EndsMerged ==
  ASSUME NEW d, NEW e, Ends(d), Ends(e)
  PROVE  Lesser(d.min, e.min) \in Nat /\ Greater(d.max, e.max) \in Nat
BY DEF Ends, Lesser, Greater

LEMMA EndsDecoded ==
  ASSUME NEW d, NEW t, NEW f, SideInv(d, t, f), Ends(d), NEW form \in Form
  PROVE  Ends(Decoded(form, d))
<1>0. d \in Sketch /\ Books(d.bins, d.count, t, f)
  BY DEF SideInv
<1>1. CASE form = "clone"
  BY <1>1 DEF Decoded
<1>2. CASE form = "gob"
  <2> DEFINE p == Populated(d.bins)
  <2>1. Decoded(form, d) = [d EXCEPT !.cap = 0, !.populated = p]
    BY <1>2 DEF Decoded
  <2> HIDE DEF p
  <2> QED
    BY <1>0, <2>1 DEF Ends, Sketch
<1>3. ASSUME NEW b, IsStore(b), \A j \in Int : At(b, j) = At(d.bins, j)
      PROVE  Ends(NewFromState(b))
  <2> DEFINE x == Min(Nonzero(b) \union {Above})
             y == Max(Nonzero(b) \union {Below})
             S == Nonzero(b) \union {Above}
             T == Nonzero(b) \union {Below}
  <2>1. Books(b, d.count, t, f)
    BY <1>0, <1>3, BooksSame
  <2>2. Nonzero(b) \subseteq Nat
    BY <2>1, StoreFacts DEF Books, Nonzero
  <2>3. S \subseteq Nat /\ S # {} /\ T \subseteq Nat /\ Below \in T
    BY <2>2, IndexFacts DEF Above, Below
  <2> HIDE DEF S
  <2>4. Min(S) \in S
    <3>1. S \subseteq Int /\ 0 \in Int /\ \A z \in S : 0 <= z
      BY <2>3
    <3> QED
      BY <2>3, <3>1, MinOf
  <2>6. y \in T
    BY <1>3, MaxDerived
  <2>7. x \in Nat /\ y \in Nat
    BY <2>3, <2>4, <2>6 DEF S
  <2> QED
    BY <2>7 DEF NewFromState, Ends
<1>4. IsStore(d.bins)
  BY <1>0 DEF Books
<1>5. CASE form = "state"
  BY <1>3, <1>4, <1>5, RoundTrip DEF Decoded
<1>6. CASE form = "msgpack"
  BY <1>3, <1>4, <1>6 DEF Decoded
<1> QED
  BY <1>1, <1>2, <1>5, <1>6 DEF Form

LEMMA InitTypes ==
  ASSUME Init
  PROVE  TypeInv
<1>1. config.values \in Nat /\ values = 0
  BY ConfigFacts DEF Init
<1>2. \A s \in Side : \E c : sk[s] = NewDDSketch(c)
  BY DEF Init
<1>3. \A s \in Side : Ends(sk[s])
  BY <1>2, EndsNew
<1> QED
  BY <1>1, <1>3 DEF TypeInv

(* One side changes.                                                       *)
LEMMA TypesKept ==
  ASSUME CoreInv, TypeInv, config' = config,
         values' = values \/ (values < config.values /\ values' = values + 1),
         NEW s \in Side, NEW d, Ends(d), sk' = [sk EXCEPT ![s] = d]
  PROVE  TypeInv'
<1>1. config.values \in Nat
  BY CoreSide, ConfigFacts
<1>2. values' \in 0..config'.values
  BY <1>1 DEF TypeInv
<1>3. \A r \in Side : sk'[r] = IF r = s THEN d ELSE sk[r]
  BY DEF CoreInv
<1>4. \A r \in Side : Ends(sk'[r])
  BY <1>3 DEF TypeInv
<1> QED
  BY <1>2, <1>4 DEF TypeInv

LEMMA TypeNext ==
  ASSUME CoreInv, TypeInv, [Next]_vars
  PROVE  TypeInv'
<1>0. "edge" \in Side /\ "backend" \in Side /\ 1 \in Nat
  BY DEF Side
<1>a. \A s \in Side : sk[s] \in Sketch /\ Ends(sk[s])
  BY DEF CoreInv, TypeInv
<1>1. ASSUME NEW s \in Side, NEW k \in Index, Update(s, k)
      PROVE  TypeInv'
  <2> DEFINE e == Added(Seen(sk[s], k), k, 1)
  <2>1. sk' = [sk EXCEPT ![s] = e]
    BY <1>1 DEF Update, CoreInv
  <2>2. Ends(e)
    BY <1>0, <1>a, EndsSeen, EndsAdded
  <2>3. config' = config /\ values < config.values /\ values' = values + 1
    BY <1>1 DEF Update, Insert
  <2> HIDE DEF e
  <2> QED
    BY <2>1, <2>2, <2>3, TypesKept
<1>2. ASSUME NEW k \in Index, NEW h \in Threshold, UpdateGOS(k, h)
      PROVE  TypeInv'
  <2> DEFINE a == GOSInserted(k)
             c == GOSCounted(k)
             e == Crossed(c, k)
             p == IF At(a.bins, k) = 1 THEN (a.populated + 1) % Word ELSE a.populated
  <2>1. \/ UNCHANGED sk
        \/ \E x \in {a, c, e} : sk' = [sk EXCEPT !["edge"] = x]
    BY <1>2 DEF UpdateGOS, GOSInserted, GOSCounted
  <2>2. config' = config /\ values < config.values /\ values' = values + 1
    BY <1>2 DEF UpdateGOS, Insert
  <2>3. a \in Sketch /\ Ends(a)
    BY <1>0, <1>a, EndsSeen, EndsAdded DEF GOSInserted
  <2>4. c = [a EXCEPT !.populated = p]
    BY <2>3 DEF GOSCounted, Sketch
  <2>5. p \in Nat
    BY <2>3, SketchFields, DDSketchAssumption
  <2> HIDE DEF a, c, p
  <2>6. c \in Sketch /\ Ends(c)
    BY <2>3, <2>4, <2>5, EndsCounted
  <2>7. Ends(e)
    BY <2>6, EndsWithout
  <2> HIDE DEF e
  <2>8. \A x \in {a, c, e} : Ends(x)
    BY <2>3, <2>6, <2>7
  <2>9. sk = [sk EXCEPT !["edge"] = sk["edge"]]
    BY <1>0 DEF CoreInv
  <2>10. \E x : Ends(x) /\ sk' = [sk EXCEPT !["edge"] = x]
    BY <1>0, <1>a, <2>1, <2>8, <2>9
  <2> QED
    BY <1>0, <2>2, <2>10, TypesKept
<1>3. ASSUME NEW k \in Index, NEW h \in Threshold, ProcessInput(k, h)
      PROVE  TypeInv'
  <2> DEFINE c == OctoInserted(k)
             e == WithoutBucket(c, k)
  <2>1. config.usage = "octo"
    BY <1>3 DEF ProcessInput
  <2>2. Slot(sk["edge"].bins, sk["edge"].cap, k) = k
    BY <2>1, OctoFacts
  <2>3. sk' = [sk EXCEPT !["edge"] = c] \/ sk' = [sk EXCEPT !["edge"] = e]
    BY <1>3, <2>2 DEF ProcessInput, OctoInserted
  <2>4. config' = config /\ values < config.values /\ values' = values + 1
    BY <1>3 DEF ProcessInput, Insert
  <2>5. c \in Sketch /\ Ends(c)
    BY <1>0, <1>a, EndsSeen, EndsAdded DEF OctoInserted
  <2> HIDE DEF c
  <2>6. Ends(e)
    BY <2>5, EndsWithout
  <2> HIDE DEF e
  <2> QED
    BY <1>0, <2>3, <2>4, <2>5, <2>6, TypesKept
<1>4. ASSUME Flush
      PROVE  TypeInv'
  <2> DEFINE d == sk["edge"]
             b == [k \in DOMAIN d.bins |-> 0]
             e == [d EXCEPT !.bins = b, !.count = 0]
  <2>1. sk' = [sk EXCEPT !["edge"] = e]
    BY <1>0, <1>4 DEF Flush, CoreInv, Sketch
  <2> HIDE DEF b
  <2>2. Ends(e)
    BY <1>0, <1>a DEF Ends, Sketch
  <2>3. config' = config /\ values' = values
    BY <1>4 DEF Flush
  <2> HIDE DEF e
  <2> QED
    BY <1>0, <2>1, <2>2, <2>3, TypesKept
<1>5. ASSUME NEW m \in BagToSet(wire), Deliver(m)
      PROVE  TypeInv'
  <2> DEFINE d == sk["backend"]
             k == m.index
             a == Added(d, k, m.count)
             e == Seen(a, k)
  <2>1. config.usage # "plain" /\ k \in Index /\ m.count \in Nat
    BY <1>5 DEF CoreInv, WireOK, BagToSet, Delta
  <2>2. d.cap = 0
    BY <1>0, <2>1, CoreSide
  <2>3. Slot(d.bins, d.cap, k) = k
    BY <2>2, UncappedStays
  <2>4. sk' = [sk EXCEPT !["backend"] = e]
    BY <1>0, <1>5, <2>3 DEF Deliver, CoreInv
  <2>5. config' = config /\ values' = values
    BY <1>5 DEF Deliver
  <2>6. Ends(e)
    BY <1>0, <1>a, <2>1, EndsSeen, EndsAdded
  <2> HIDE DEF e
  <2> QED
    BY <1>0, <2>4, <2>5, <2>6, TypesKept
<1>6. ASSUME NEW s \in Side, NEW o \in Side, Merge(s, o)
      PROVE  TypeInv'
  <2> DEFINE d == sk[s]
             e == sk[o]
             m == [bins |-> BucketsMerged(d.bins, e.bins), cap |-> d.cap,
                   count |-> d.count + e.count, min |-> Lesser(d.min, e.min),
                   max |-> Greater(d.max, e.max),
                   populated |-> Populated(BucketsMerged(d.bins, e.bins))]
  <2>1. sk' = [sk EXCEPT ![s] = e] \/ sk' = [sk EXCEPT ![s] = m]
    BY <1>6 DEF Merge, CoreInv
  <2>2. config' = config /\ values' = values
    BY <1>6 DEF Merge
  <2>3. Ends(e) /\ Ends(m)
    BY <1>a, EndsMerged DEF Ends
  <2> HIDE DEF e, m
  <2> QED
    BY <2>1, <2>2, <2>3, TypesKept
<1>7. ASSUME NEW h \in {0, 1}, SendDelta(h)
      PROVE  TypeInv'
  BY <1>7 DEF SendDelta, TypeInv
<1>8. ASSUME NEW s \in Side, Clear(s)
      PROVE  TypeInv'
  <2> DEFINE e == NewDDSketch(sk[s].cap)
  <2>1. sk' = [sk EXCEPT ![s] = e] /\ config' = config /\ values' = values
    BY <1>8 DEF Clear, CoreInv
  <2>2. Ends(e)
    BY EndsNew
  <2> HIDE DEF e
  <2> QED
    BY <2>1, <2>2, TypesKept
<1>9. ASSUME NEW s \in Side, NEW form \in config.forms, Restart(s, form)
      PROVE  TypeInv'
  <2> DEFINE e == Decoded(form, sk[s])
  <2>1. sk' = [sk EXCEPT ![s] = e] /\ config' = config /\ values' = values
    BY <1>9 DEF Restart, CoreInv
  <2>2. form \in Form
    BY CoreSide, ConfigFacts
  <2>3. Ends(e)
    BY <1>a, <2>2, CoreSide, EndsDecoded
  <2> HIDE DEF e
  <2> QED
    BY <2>1, <2>3, TypesKept
<1>10. CASE UNCHANGED vars
  BY <1>10 DEF vars, TypeInv
<1> QED
  BY <1>1, <1>2, <1>3, <1>4, <1>5, <1>6, <1>7, <1>8, <1>9, <1>10 DEF Next

LEMMA StoreTyped ==
  ASSUME NEW b, IsStore(b)
  PROVE  b = Empty \/ DOMAIN b = Left(b)..Right(b)
<1>1. CASE DOMAIN b = {}
  BY <1>1 DEF IsStore, Empty
<1>2. CASE DOMAIN b # {}
  BY <1>2, StoreFacts
<1> QED
  BY <1>1, <1>2

(* With the invariants this is the type invariant.                         *)
LEMMA TypesAreOK ==
  ASSUME CoreInv, IsStore(snapshot), CapInv, TypeInv
  PROVE  TypeOK
<1>1. ASSUME NEW s \in Side
      PROVE  LET d == sk[s] IN
             /\ d.bins = Empty \/ DOMAIN d.bins = Left(d.bins)..Right(d.bins)
             /\ \A k \in DOMAIN d.bins : d.bins[k] \in Nat
             /\ {d.cap, d.count, d.populated} \subseteq Nat
             /\ {d.min, d.max} \subseteq Nat
  <2>1. sk[s] \in Sketch /\ Ends(sk[s])
    BY DEF CoreInv, TypeInv
  <2>2. IsStore(sk[s].bins)
    BY <2>1, SketchFields
  <2>3. sk[s].bins = Empty \/ DOMAIN sk[s].bins = Left(sk[s].bins)..Right(sk[s].bins)
    BY <2>2, StoreTyped
  <2>4. \A k \in DOMAIN sk[s].bins : sk[s].bins[k] \in Nat
    BY <2>2, StoreFacts
  <2>5. {sk[s].cap, sk[s].count, sk[s].populated} \subseteq Nat
    BY <2>1, SketchFields
  <2> QED
    BY <2>1, <2>3, <2>4, <2>5 DEF Ends
<1>2. snapshot = Empty \/ DOMAIN snapshot = Left(snapshot)..Right(snapshot)
  BY StoreTyped
<1>3. BagToSet(wire) \subseteq Delta
  BY DEF CoreInv, WireOK, BagToSet
<1>4. config \in Config /\ panicked \in BOOLEAN /\ truth \in [Side -> [Index -> Nat]]
  BY DEF CoreInv
<1>5. values \in 0..config.values
  BY DEF TypeInv
<1>6. merged \in [Side -> BOOLEAN]
  BY DEF CapInv
<1> QED
  BY <1>1, <1>2, <1>3, <1>4, <1>5, <1>6 DEF TypeOK

-----------------------------------------------------------------------------

(* The inductive invariant.                                                *)
DDInv == CoreInv /\ IsStore(snapshot) /\ CapInv /\ DeltaInv /\ TypeInv

(* In every reachable state, however the sketches are used and whatever    *)
(* the order in which deltas arrive.                                       *)
THEOREM StoreInvariance ==
  ASSUME CapsArePlain
  PROVE  Spec => []DDInv
<1>1. Init => DDInv
  BY InitCore, InitCap, InitDelta, InitTypes, EmptyIsStore DEF DDInv, Init
<1>2. DDInv /\ [Next]_vars => DDInv'
  BY CoreNext, CapNext, DeltaNext, TypeNext DEF DDInv
<1> QED
  BY <1>1, <1>2, PTL DEF Spec

(* Stores are intervals of counts, and no counter is ever negative: the    *)
(* resets of ResetBucket and UpdateGOS never take off more than there is.  *)
THEOREM TypesAreKept ==
  ASSUME CapsArePlain
  PROVE  Spec => []TypeOK
<1>1. DDInv => TypeOK
  BY TypesAreOK DEF DDInv
<1> QED
  BY <1>1, StoreInvariance, PTL

(* "The high end is never affected" by a collapse: above the floor every   *)
(* bucket holds what belongs to it (collapseTo, mergeBuckets, and all that *)
(* is sent, reset and restored).                                           *)
THEOREM HighEndIsExact ==
  ASSUME CapsArePlain
  PROVE  Spec => []HighEndExact
<1>1. DDInv => HighEndExact
  BY CoreHighEnd DEF DDInv
<1> QED
  BY <1>1, StoreInvariance, PTL

(* Quantile answers with the bucket of the value of that rank, or, when    *)
(* that value has been folded away, with a bucket no higher than the floor *)
(* (Quantile with its clamp at the minimum).                               *)
THEOREM QuantileIsExact ==
  ASSUME CapsArePlain
  PROVE  Spec => []QuantileExact
<1>1. DDInv => QuantileExact
  BY CoreQuantile DEF DDInv
<1> QED
  BY <1>1, StoreInvariance, PTL

(* No insert leaves the range of the store as long as insert-time GOS is   *)
(* not used on a capped one: UpdateGOS then computes the place that ensure *)
(* returns.                                                                *)
THEOREM InsertsStayInRange ==
  ASSUME CapsArePlain
  PROVE  Spec => []InRange
<1>1. DDInv => InRange
  BY DEF DDInv, CoreInv, InRange
<1> QED
  BY <1>1, StoreInvariance, PTL

(* The books of the store are in order: counts are conserved, the cap is   *)
(* respected, gosPopulated is the number of non-zero buckets, and deltas   *)
(* against a snapshot add up (ensure, Merge, UpdateGOS, ComputeDelta,      *)
(* ApplyDelta and every serialized form).                                  *)
THEOREM StoreIsAccounted ==
  ASSUME CapsArePlain, CountingOn
  PROVE  Spec => []StoreAccounted
<1>1. Init => DDInv /\ PopInv
  BY InitCore, InitCap, InitDelta, InitTypes, InitPop, EmptyIsStore DEF DDInv, Init
<1>2. DDInv /\ PopInv /\ [Next]_vars => (DDInv /\ PopInv)'
  BY CoreNext, CapNext, DeltaNext, TypeNext, PopNext DEF DDInv
<1>3. DDInv /\ PopInv => StoreAccounted
  BY CoreCount, CapIsRespected, PopIsExact, DeltaAdds DEF DDInv, StoreAccounted
<1> QED
  BY <1>1, <1>2, <1>3, PTL DEF Spec
=============================================================================
