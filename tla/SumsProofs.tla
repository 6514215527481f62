----------------------------- MODULE SumsProofs -----------------------------
(***************************************************************************)
(* What a finite sum is: the recursion equation of PrefixSum, its type,    *)
(* that it depends on the summands only, that it can be taken from either  *)
(* end, and what bounds it; the sum of a function over a sequence that     *)
(* grows at its end and shrinks at its head; and SumFunctionOnSet, the sum *)
(* over a finite set, from any element on, over parts and over fibres.     *)
(***************************************************************************)
EXTENDS Sums, SequenceTheorems, FiniteSetTheorems, WellFoundedInduction, TLAPS

(* Every nonempty set of naturals has a least element. *)
LEMMA LeastNatural ==
  ASSUME NEW T, T \subseteq Nat, T # {}
  PROVE  \E m \in T : \A k \in T : m <= k
<1>1. \E m \in T : \A k \in T : ~ (<<k, m>> \in OpToRel(<, Nat))
  BY NatLessThanWellFounded, WFMin
<1>2. PICK m \in T : \A k \in T : ~ (<<k, m>> \in OpToRel(<, Nat))
  BY <1>1
<1>3. \A k \in T : m <= k
  <2> SUFFICES ASSUME NEW k \in T, ~ (m <= k)
               PROVE  FALSE
    OBVIOUS
  <2>1. k < m
    OBVIOUS
  <2>2. <<k, m>> \in OpToRel(<, Nat)
    BY <2>1 DEF OpToRel
  <2> QED
    BY <2>2, <1>2
<1> QED
  BY <1>3

(***************************************************************************)
(* The recursion equation that defines PrefixSum(f, n) and the function it *)
(* chooses.                                                                *)
(***************************************************************************)
SumsOf(f, n, s) == s = [i \in 0..n |-> IF i = 0 THEN 0 ELSE s[i-1] + f[i]]

TheSums(f, n) == CHOOSE s : SumsOf(f, n, s)

(* The equation has a solution for every f and n, ... *)
LEMMA SumsExist ==
  ASSUME NEW f, NEW n \in Nat
  PROVE  \E s : SumsOf(f, n, s)
<1> DEFINE T == {k \in Nat : ~ \E s : SumsOf(f, k, s)}
<1> SUFFICES ASSUME T # {}
             PROVE  FALSE
  OBVIOUS
<1>1. PICK m \in T : \A k \in T : m <= k
  <2>1. T \subseteq Nat
    OBVIOUS
  <2> QED
    BY <2>1, LeastNatural
<1>2. m # 0
  <2>1. SumsOf(f, 0, [i \in 0..0 |-> 0])
    BY DEF SumsOf
  <2> QED
    BY <2>1
<1>3. PICK s : SumsOf(f, m-1, s)
  BY <1>1, <1>2
<1> DEFINE t == [i \in 0..m |-> IF i = m THEN s[m-1] + f[m] ELSE s[i]]
<1>4. \A i \in 0..m-1 : s[i] = IF i = 0 THEN 0 ELSE s[i-1] + f[i]
  BY <1>3 DEF SumsOf
<1>5. \A i \in 0..m : t[i] = IF i = 0 THEN 0 ELSE t[i-1] + f[i]
  BY <1>2, <1>4
<1>6. SumsOf(f, m, t)
  BY <1>5 DEF SumsOf
<1> QED
  BY <1>6

(* ... and two solutions agree where both are defined and the summands are *)
(* the same.                                                               *)
LEMMA SumsUnique ==
  ASSUME NEW f, NEW g, NEW n \in Nat, NEW m \in Nat, n <= m,
         \A i \in 1..n : f[i] = g[i],
         NEW s, SumsOf(f, n, s), NEW t, SumsOf(g, m, t)
  PROVE  \A i \in 0..n : s[i] = t[i]
<1> DEFINE T == {k \in 0..n : s[k] # t[k]}
<1> SUFFICES ASSUME T # {}
             PROVE  FALSE
  OBVIOUS
<1>1. PICK k \in T : \A j \in T : k <= j
  <2>1. T \subseteq Nat
    OBVIOUS
  <2> QED
    BY <2>1, LeastNatural
<1>2. \A i \in 0..n : s[i] = IF i = 0 THEN 0 ELSE s[i-1] + f[i]
  BY DEF SumsOf
<1>3. \A i \in 0..n : t[i] = IF i = 0 THEN 0 ELSE t[i-1] + g[i]
  BY DEF SumsOf
<1>4. k # 0
  BY <1>2, <1>3
<1>5. k-1 \in 0..n /\ k-1 \notin T
  BY <1>1, <1>4
<1>6. s[k-1] = t[k-1]
  BY <1>5
<1> QED
  BY <1>2, <1>3, <1>4, <1>6

(* TheSums is such a solution, and PrefixSum its last value.               *)
LEMMA TheSumsEquation ==
  ASSUME NEW f, NEW n \in Nat
  PROVE  /\ SumsOf(f, n, TheSums(f, n))
         /\ PrefixSum(f, n) = TheSums(f, n)[n]
<1>1. SumsOf(f, n, TheSums(f, n))
  BY SumsExist DEF TheSums
<1>2. PrefixSum(f, n) = TheSums(f, n)[n]
  BY DEF PrefixSum, TheSums, SumsOf
<1> QED
  BY <1>1, <1>2

(* The solution for n is a prefix of the one for a greater m.              *)
LEMMA SumsAgree ==
  ASSUME NEW f, NEW g, NEW n \in Nat, NEW m \in Nat, n <= m,
         \A i \in 1..n : f[i] = g[i]
  PROVE  TheSums(f, n)[n] = TheSums(g, m)[n]
<1> DEFINE s == TheSums(f, n)
           t == TheSums(g, m)
<1>1. SumsOf(f, n, s) /\ SumsOf(g, m, t)
  BY TheSumsEquation
<1>2. \A i \in 0..n : s[i] = t[i]
  <2> HIDE DEF s, t
  <2> QED
    BY <1>1, SumsUnique
<1> QED
  BY <1>2

(* The empty sum. *)
LEMMA PrefixSumZero ==
  ASSUME NEW f
  PROVE  PrefixSum(f, 0) = 0
BY TheSumsEquation DEF SumsOf

(* One more summand at the end. *)
LEMMA PrefixSumStep ==
  ASSUME NEW f, NEW n \in Nat
  PROVE  PrefixSum(f, n+1) = PrefixSum(f, n) + f[n+1]
<1> DEFINE s == TheSums(f, n)
           t == TheSums(f, n+1)
<1>1. SumsOf(f, n, s) /\ SumsOf(f, n+1, t)
  BY TheSumsEquation
<1>2. s[n] = t[n]
  <2>1. n+1 \in Nat /\ n <= n+1
    OBVIOUS
  <2> QED
    BY <2>1, SumsAgree
<1>3. t[n+1] = t[n] + f[n+1]
  BY <1>1 DEF SumsOf
<1> QED
  BY <1>2, <1>3, TheSumsEquation

(* The sum depends on the first n values only. *)
LEMMA PrefixSumExt ==
  ASSUME NEW f, NEW g, NEW n \in Nat, \A i \in 1..n : f[i] = g[i]
  PROVE  PrefixSum(f, n) = PrefixSum(g, n)
BY SumsAgree, TheSumsEquation

(* A sum of integers is an integer. *)
LEMMA PrefixSumType ==
  ASSUME NEW n \in Nat, NEW f, \A i \in 1..n : f[i] \in Int
  PROVE  PrefixSum(f, n) \in Int
<1> DEFINE T == {k \in 0..n : PrefixSum(f, k) \notin Int}
<1> SUFFICES ASSUME T # {}
             PROVE  FALSE
  OBVIOUS
<1>1. PICK k \in T : \A j \in T : k <= j
  <2>1. T \subseteq Nat
    OBVIOUS
  <2> QED
    BY <2>1, LeastNatural
<1>2. k # 0
  BY PrefixSumZero
<1>3. k-1 \in 0..n /\ k-1 \notin T
  BY <1>1, <1>2
<1>4. PrefixSum(f, (k-1)+1) = PrefixSum(f, k-1) + f[(k-1)+1]
  BY <1>3, PrefixSumStep
<1> QED
  BY <1>2, <1>3, <1>4

(* The sum taken from the first summand: what removing the head leaves. *)
LEMMA PrefixSumShift ==
  ASSUME NEW n \in Nat, NEW f, NEW g,
         \A i \in 1..n+1 : f[i] \in Int,
         \A i \in 1..n : g[i] = f[i+1]
  PROVE  PrefixSum(f, n+1) = f[1] + PrefixSum(g, n)
<1> DEFINE T == {k \in 0..n : PrefixSum(f, k+1) # f[1] + PrefixSum(g, k)}
<1> SUFFICES ASSUME T # {}
             PROVE  FALSE
  OBVIOUS
<1>1. PICK k \in T : \A j \in T : k <= j
  <2>1. T \subseteq Nat
    OBVIOUS
  <2> QED
    BY <2>1, LeastNatural
<1>2. k # 0
  <2>1. PrefixSum(f, 0+1) = PrefixSum(f, 0) + f[0+1]
    BY PrefixSumStep
  <2> QED
    BY <2>1, PrefixSumZero
<1>3. k-1 \in 0..n /\ k-1 \notin T
  BY <1>1, <1>2
<1>4. PrefixSum(f, k+1) = PrefixSum(f, k) + f[k+1]
  BY PrefixSumStep
<1>5. PrefixSum(g, (k-1)+1) = PrefixSum(g, k-1) + g[(k-1)+1]
  BY <1>3, PrefixSumStep
<1>6. PrefixSum(f, (k-1)+1) = f[1] + PrefixSum(g, k-1)
  BY <1>3
<1>7. PrefixSum(g, k-1) \in Int /\ f[1] \in Int /\ f[k+1] \in Int
  BY <1>3, PrefixSumType
<1> QED
  BY <1>2, <1>4, <1>5, <1>6, <1>7

(* One summand changes by d: so does the sum. *)
LEMMA PrefixSumUpdate ==
  ASSUME NEW n \in Nat, NEW f, NEW g, NEW j \in 1..n, NEW d \in Int,
         \A i \in 1..n : f[i] \in Int,
         g[j] = f[j] + d,
         \A i \in 1..n : i # j => g[i] = f[i]
  PROVE  PrefixSum(g, n) = PrefixSum(f, n) + d
<1> DEFINE T == {k \in j..n : PrefixSum(g, k) # PrefixSum(f, k) + d}
<1> SUFFICES ASSUME T # {}
             PROVE  FALSE
  OBVIOUS
<1>1. PICK k \in T : \A i \in T : k <= i
  <2>1. T \subseteq Nat
    OBVIOUS
  <2> QED
    BY <2>1, LeastNatural
<1>2. PrefixSum(f, (k-1)+1) = PrefixSum(f, k-1) + f[(k-1)+1]
  BY PrefixSumStep
<1>3. PrefixSum(g, (k-1)+1) = PrefixSum(g, k-1) + g[(k-1)+1]
  BY PrefixSumStep
<1>4. PrefixSum(f, k-1) \in Int
  BY PrefixSumType
<1>5. CASE k = j
  <2>1. PrefixSum(g, k-1) = PrefixSum(f, k-1)
    <3>1. k-1 \in Nat /\ \A i \in 1..k-1 : g[i] = f[i]
      BY <1>5
    <3> QED
      BY <3>1, PrefixSumExt
  <2> QED
    BY <1>2, <1>3, <1>4, <1>5, <2>1
<1>6. CASE k # j
  <2>1. k-1 \in j..n /\ k-1 \notin T
    BY <1>1, <1>6
  <2> QED
    BY <1>2, <1>3, <1>4, <1>6, <2>1
<1> QED
  BY <1>5, <1>6

(* Summands between two bounds: the sum is between n times the bounds.     *)
LEMMA PrefixSumBounds ==
  ASSUME NEW n \in Nat, NEW f, NEW lo \in Int, NEW hi \in Int,
         \A i \in 1..n : f[i] \in Int /\ lo <= f[i] /\ f[i] <= hi
  PROVE  lo * n <= PrefixSum(f, n) /\ PrefixSum(f, n) <= hi * n
<1> DEFINE T == {k \in 0..n : ~ (/\ lo * k <= PrefixSum(f, k)
                                 /\ PrefixSum(f, k) <= hi * k)}
<1> SUFFICES ASSUME T # {}
             PROVE  FALSE
  OBVIOUS
<1>1. PICK k \in T : \A j \in T : k <= j
  <2>1. T \subseteq Nat
    OBVIOUS
  <2> QED
    BY <2>1, LeastNatural
<1>2. k # 0
  BY PrefixSumZero
<1>3. k-1 \in 0..n /\ k-1 \notin T
  BY <1>1, <1>2
<1>4. PrefixSum(f, (k-1)+1) = PrefixSum(f, k-1) + f[(k-1)+1]
  BY <1>3, PrefixSumStep
<1>5. PrefixSum(f, k-1) \in Int /\ f[k] \in Int /\ lo <= f[k] /\ f[k] <= hi
  BY <1>2, <1>3, PrefixSumType
<1>6. lo * k = lo * (k-1) + lo /\ hi * k = hi * (k-1) + hi
  BY <1>2
<1>7. lo * (k-1) \in Int /\ hi * (k-1) \in Int
  BY <1>2
<1>8. lo * (k-1) <= PrefixSum(f, k-1) /\ PrefixSum(f, k-1) <= hi * (k-1)
  BY <1>3
<1>9. PrefixSum(f, k) = PrefixSum(f, k-1) + f[k]
  BY <1>2, <1>4
<1>10. lo * k <= PrefixSum(f, k) /\ PrefixSum(f, k) <= hi * k
  BY <1>5, <1>6, <1>7, <1>8, <1>9
<1> QED
  BY <1>10

(* A sum of naturals is a natural. *)
LEMMA PrefixSumNat ==
  ASSUME NEW n \in Nat, NEW f, \A i \in 1..n : f[i] \in Nat
  PROVE  PrefixSum(f, n) \in Nat
<1> DEFINE T == {k \in 0..n : PrefixSum(f, k) \notin Nat}
<1> SUFFICES ASSUME T # {}
             PROVE  FALSE
  OBVIOUS
<1>1. PICK k \in T : \A j \in T : k <= j
  <2>1. T \subseteq Nat
    OBVIOUS
  <2> QED
    BY <2>1, LeastNatural
<1>2. k # 0
  BY PrefixSumZero
<1>3. k-1 \in 0..n /\ k-1 \notin T
  BY <1>1, <1>2
<1>4. PrefixSum(f, (k-1)+1) = PrefixSum(f, k-1) + f[(k-1)+1]
  BY <1>3, PrefixSumStep
<1> QED
  BY <1>2, <1>3, <1>4

(* A sum of zeros is zero. *)
LEMMA PrefixSumZeros ==
  ASSUME NEW n \in Nat, NEW f, \A i \in 1..n : f[i] = 0
  PROVE  PrefixSum(f, n) = 0
<1> DEFINE T == {k \in 0..n : PrefixSum(f, k) # 0}
<1> SUFFICES ASSUME T # {}
             PROVE  FALSE
  OBVIOUS
<1>1. PICK k \in T : \A j \in T : k <= j
  <2>1. T \subseteq Nat
    OBVIOUS
  <2> QED
    BY <2>1, LeastNatural
<1>2. k # 0
  BY PrefixSumZero
<1>3. k-1 \in 0..n /\ k-1 \notin T
  BY <1>1, <1>2
<1>4. PrefixSum(f, (k-1)+1) = PrefixSum(f, k-1) + f[(k-1)+1]
  BY <1>3, PrefixSumStep
<1> QED
  BY <1>2, <1>3, <1>4

(* The sum of the sums of two summands is the sum of the two sums.         *)
LEMMA PrefixSumAdd ==
  ASSUME NEW n \in Nat, NEW f, NEW g, NEW h,
         \A i \in 1..n : f[i] \in Int /\ g[i] \in Int /\ h[i] = f[i] + g[i]
  PROVE  PrefixSum(h, n) = PrefixSum(f, n) + PrefixSum(g, n)
<1> DEFINE T == {k \in 0..n : PrefixSum(h, k) # PrefixSum(f, k) + PrefixSum(g, k)}
<1> SUFFICES ASSUME T # {}
             PROVE  FALSE
  OBVIOUS
<1>1. PICK k \in T : \A j \in T : k <= j
  <2>1. T \subseteq Nat
    OBVIOUS
  <2> QED
    BY <2>1, LeastNatural
<1>2. k # 0
  BY PrefixSumZero
<1>3. k-1 \in 0..n /\ k-1 \notin T
  BY <1>1, <1>2
<1>4. /\ PrefixSum(f, (k-1)+1) = PrefixSum(f, k-1) + f[(k-1)+1]
      /\ PrefixSum(g, (k-1)+1) = PrefixSum(g, k-1) + g[(k-1)+1]
      /\ PrefixSum(h, (k-1)+1) = PrefixSum(h, k-1) + h[(k-1)+1]
  BY <1>3, PrefixSumStep
<1>5. PrefixSum(f, k-1) \in Int /\ PrefixSum(g, k-1) \in Int
  BY <1>3, PrefixSumType
<1> QED
  BY <1>2, <1>3, <1>4, <1>5

-----------------------------------------------------------------------------
(* The sum of F over the elements of a sequence *)

SeqSum(F, q) == PrefixSum([i \in 1..Len(q) |-> F[q[i]]], Len(q))

(* It is an integer ... *)
LEMMA SeqSumType ==
  ASSUME NEW S, NEW F, \A x \in S : F[x] \in Int, NEW q \in Seq(S)
  PROVE  SeqSum(F, q) \in Int
<1> DEFINE f == [i \in 1..Len(q) |-> F[q[i]]]
<1>1. Len(q) \in Nat /\ \A i \in 1..Len(q) : q[i] \in S
  BY LenProperties, ElementOfSeq
<1>2. \A i \in 1..Len(q) : f[i] \in Int
  BY <1>1
<1>3. PrefixSum(f, Len(q)) \in Int
  <2> HIDE DEF f
  <2> QED BY <1>1, <1>2, PrefixSumType
<1> QED
  BY <1>3 DEF SeqSum

(* ... 0 for the empty sequence, ... *)
LEMMA SeqSumEmpty ==
  ASSUME NEW F
  PROVE  SeqSum(F, << >>) = 0
BY PrefixSumZero DEF SeqSum

(* ... and grows by F[x] when x is appended. *)
LEMMA SeqSumAppend ==
  ASSUME NEW S, NEW F, NEW q \in Seq(S), NEW x \in S
  PROVE  SeqSum(F, Append(q, x)) = SeqSum(F, q) + F[x]
<1> DEFINE n == Len(q)
           a == Append(q, x)
           f == [i \in 1..n |-> F[q[i]]]
           g == [i \in 1..n+1 |-> F[a[i]]]
<1>1. /\ n \in Nat /\ Len(a) = n + 1
      /\ \A i \in 1..n : a[i] = q[i]
      /\ a[n+1] = x
  BY LenProperties, AppendProperties
<1>2. \A i \in 1..n : f[i] = g[i]
  BY <1>1
<1>3. g[n+1] = F[x]
  BY <1>1
<1>4. PrefixSum(f, n) = PrefixSum(g, n)
  <2> HIDE DEF f, g, n
  <2> QED BY <1>1, <1>2, PrefixSumExt
<1>5. PrefixSum(g, n+1) = PrefixSum(g, n) + g[n+1]
  <2> HIDE DEF g, n
  <2> QED BY <1>1, PrefixSumStep
<1>6. SeqSum(F, q) = PrefixSum(f, n)
  BY DEF SeqSum
<1>7. SeqSum(F, a) = PrefixSum(g, n+1)
  BY <1>1 DEF SeqSum
<1> HIDE DEF f, g, n, a
<1> QED
  BY <1>3, <1>4, <1>5, <1>6, <1>7 DEF a

(* What the head contributes is what the tail does not. *)
LEMMA SeqSumTail ==
  ASSUME NEW S, NEW F, \A x \in S : F[x] \in Int, NEW q \in Seq(S), q # << >>
  PROVE  SeqSum(F, q) = F[Head(q)] + SeqSum(F, Tail(q))
<1> DEFINE n == Len(Tail(q))
           f == [i \in 1..n+1 |-> F[q[i]]]
           g == [i \in 1..n |-> F[Tail(q)[i]]]
<1>1. /\ n \in Nat /\ Len(q) = n + 1
      /\ Head(q) = q[1]
      /\ \A i \in 1..n : Tail(q)[i] = q[i+1]
  BY LenProperties, HeadTailProperties, EmptySeq
<1>2. \A i \in 1..n+1 : f[i] \in Int
  <2>1. \A i \in 1..n+1 : q[i] \in S
    BY <1>1, ElementOfSeq
  <2> QED BY <2>1
<1>3. \A i \in 1..n : g[i] = f[i+1]
  BY <1>1
<1>4. PrefixSum(f, n+1) = f[1] + PrefixSum(g, n)
  <2> HIDE DEF f, g, n
  <2> QED BY <1>1, <1>2, <1>3, PrefixSumShift
<1>5. f[1] = F[Head(q)]
  BY <1>1
<1>6. SeqSum(F, q) = PrefixSum(f, n+1)
  BY <1>1 DEF SeqSum
<1>7. SeqSum(F, Tail(q)) = PrefixSum(g, n)
  BY DEF SeqSum
<1> HIDE DEF f, g, n
<1> QED
  BY <1>4, <1>5, <1>6, <1>7

-----------------------------------------------------------------------------
(* Sums over finite sets.                                                  *)

AnyOf(s) == CHOOSE x \in s : TRUE

(* The fold, as a function on the sets in U.                               *)
SetFold(f, U, t) ==
  t = [s \in U |-> IF s = {} THEN 0 ELSE f[AnyOf(s)] + t[s \ {AnyOf(s)}]]

(* What SumFunctionOnSet chooses.                                          *)
LEMMA SetSumIs ==
  ASSUME NEW f, NEW S
  PROVE  SumFunctionOnSet(f, S) = (CHOOSE t : SetFold(f, SUBSET S, t))[S]
BY DEF SumFunctionOnSet, FoldFunctionOnSet, MapThenFoldSet, SetFold, AnyOf

LEMMA AnyOfOne ==
  ASSUME NEW S, IsFiniteSet(S), S # {}
  PROVE  /\ AnyOf(S) \in S
         /\ IsFiniteSet(S \ {AnyOf(S)}) /\ Cardinality(S) \in Nat
         /\ Cardinality(S \ {AnyOf(S)}) = Cardinality(S) - 1
BY FS_RemoveElement, FS_CardinalityType DEF AnyOf

(* The subsets of S with k elements at most.                               *)
UpToSize(S, k) == {s \in SUBSET S : Cardinality(s) <= k}

(* The fold exists for every finite set, ...                               *)
LEMMA SetFoldExists ==
  ASSUME NEW f, NEW S, IsFiniteSet(S)
  PROVE  \E t : SetFold(f, SUBSET S, t)
<1> DEFINE n == Cardinality(S)
           T == {k \in Nat : ~ \E t : SetFold(f, UpToSize(S, k), t)}
<1>0. \A s \in SUBSET S : IsFiniteSet(s) /\ Cardinality(s) \in Nat /\ Cardinality(s) <= n
  BY FS_Subset, FS_CardinalityType
<1>1. T = {}
  <2> SUFFICES ASSUME T # {}
               PROVE  FALSE
    OBVIOUS
  <2>1. PICK m \in T : \A k \in T : m <= k
    <3>1. T \subseteq Nat
      OBVIOUS
    <3> QED
      BY <3>1, LeastNatural
  <2>2. m # 0
    <3>1. \A s \in UpToSize(S, 0) : s = {}
      <4> SUFFICES ASSUME NEW s \in UpToSize(S, 0)
                   PROVE  s = {}
        OBVIOUS
      <4>1. IsFiniteSet(s) /\ Cardinality(s) = 0
        BY <1>0 DEF UpToSize
      <4> QED
        BY <4>1, FS_EmptySet
    <3>2. SetFold(f, UpToSize(S, 0), [s \in UpToSize(S, 0) |-> 0])
      BY <3>1 DEF SetFold
    <3> QED
      BY <3>2
  <2> DEFINE l == m - 1
             U == UpToSize(S, l)
             V == UpToSize(S, m)
  <2>3. l \in Nat /\ m = l + 1 /\ ~ (m <= l)
    BY <2>2
  <2>4. PICK u : SetFold(f, U, u)
    BY <2>1, <2>3
  <2> HIDE DEF T, l
  <2>5. \A s \in V : s # {} => s \ {AnyOf(s)} \in U
    <3> SUFFICES ASSUME NEW s \in V, s # {}
                 PROVE  s \ {AnyOf(s)} \in U
      OBVIOUS
    <3>1. s \in SUBSET S /\ Cardinality(s) <= m
      BY DEF UpToSize
    <3>2. IsFiniteSet(s)
      BY <1>0, <3>1
    <3>3. Cardinality(s \ {AnyOf(s)}) = Cardinality(s) - 1 /\ Cardinality(s) \in Nat
      BY <3>2, AnyOfOne
    <3>4. Cardinality(s \ {AnyOf(s)}) <= l
      BY <2>3, <3>1, <3>3
    <3> QED
      BY <3>1, <3>4 DEF UpToSize
  <2>6. U \subseteq V
    <3> SUFFICES ASSUME NEW s \in U
                 PROVE  s \in V
      OBVIOUS
    <3>1. s \in SUBSET S /\ Cardinality(s) <= l
      BY DEF UpToSize
    <3>2. Cardinality(s) <= m
      BY <1>0, <2>3, <3>1
    <3> QED
      BY <3>1, <3>2 DEF UpToSize
  <2> HIDE DEF U, V
  <2> DEFINE t == [s \in V |-> IF s = {} THEN 0 ELSE f[AnyOf(s)] + u[s \ {AnyOf(s)}]]
  <2>7. \A s \in U : u[s] = IF s = {} THEN 0 ELSE f[AnyOf(s)] + u[s \ {AnyOf(s)}]
    BY <2>4 DEF SetFold
  <2>8. \A s \in U : t[s] = u[s]
    BY <2>6, <2>7
  <2>9. \A s \in V : s # {} => t[s \ {AnyOf(s)}] = u[s \ {AnyOf(s)}]
    BY <2>5, <2>8
  <2>10. t = [s \in V |-> IF s = {} THEN 0 ELSE f[AnyOf(s)] + t[s \ {AnyOf(s)}]]
    <3> DEFINE g == [s \in V |-> IF s = {} THEN 0 ELSE f[AnyOf(s)] + t[s \ {AnyOf(s)}]]
    <3>1. \A s \in V : t[s] = IF s = {} THEN 0 ELSE f[AnyOf(s)] + u[s \ {AnyOf(s)}]
      OBVIOUS
    <3>2. DOMAIN t = V /\ t = [s \in V |-> t[s]]
      OBVIOUS
    <3> HIDE DEF t
    <3>3. \A s \in V : t[s] = IF s = {} THEN 0 ELSE f[AnyOf(s)] + t[s \ {AnyOf(s)}]
      BY <2>9, <3>1
    <3> QED
      BY <3>2, <3>3
  <2>11. SetFold(f, V, t)
    BY <2>10 DEF SetFold
  <2> QED
    BY <2>1, <2>11 DEF T, V
<1>2. n \in Nat
  BY FS_CardinalityType
<1>3. UpToSize(S, n) = SUBSET S
  BY <1>0 DEF UpToSize
<1>4. n \notin T
  BY <1>1
<1>5. \E t : SetFold(f, UpToSize(S, n), t)
  BY <1>2, <1>4
<1> HIDE DEF n
<1> QED
  BY <1>3, <1>5

(* What holds of the empty set and survives the addition of an element     *)
(* holds of every finite set.                                              *)
LEMMA SetInduction ==
  ASSUME NEW S, IsFiniteSet(S), NEW P, {} \in P,
         \A T \in SUBSET S : \A x \in S : T \in P /\ x \notin T => T \union {x} \in P
  PROVE  S \in P
<1> DEFINE K == {k \in Nat : \E R \in SUBSET S : Cardinality(R) = k /\ R \notin P}
<1>0. \A R \in SUBSET S : IsFiniteSet(R) /\ Cardinality(R) \in Nat
  BY FS_Subset, FS_CardinalityType
<1> SUFFICES ASSUME S \notin P
             PROVE  FALSE
  OBVIOUS
<1>1. S \in SUBSET S /\ Cardinality(S) \in Nat
  BY <1>0
<1>2. K # {} /\ K \subseteq Nat
  BY <1>1
<1> HIDE DEF K
<1>3. PICK k \in K : \A j \in K : k <= j
  BY <1>2, LeastNatural
<1>4. PICK R \in SUBSET S : Cardinality(R) = k /\ R \notin P
  BY <1>3 DEF K
<1>5. PICK x \in R : TRUE
  BY <1>4
<1> DEFINE T == R \ {x}
<1>6. IsFiniteSet(R) /\ IsFiniteSet(T) /\ T \in SUBSET S
  BY <1>0
<1>7. Cardinality(T) = Cardinality(R) - 1 /\ Cardinality(T) \in Nat
  <2>1. Cardinality(T) \in Nat
    BY <1>0, <1>6
  <2> QED
    BY <1>5, <1>6, <2>1, FS_RemoveElement
<1>8. T = R \ {x} /\ x \notin T /\ T \union {x} = R /\ x \in S
  BY <1>5
<1> HIDE DEF T
<1>9. T \in P
  <2> SUFFICES ASSUME T \notin P
               PROVE  FALSE
    OBVIOUS
  <2>1. Cardinality(T) \in K
    BY <1>6, <1>7 DEF K
  <2>2. k <= Cardinality(T) /\ k \in Nat
    BY <1>2, <1>3, <2>1
  <2> QED
    BY <1>4, <1>7, <2>2
<1> QED
  BY <1>4, <1>6, <1>8, <1>9

(* Two folds agree where both are defined.                                 *)
LEMMA SetFoldUnique ==
  ASSUME NEW f, NEW S, NEW R, NEW t, NEW u, IsFiniteSet(S), R \subseteq S,
         SetFold(f, SUBSET S, t), SetFold(f, SUBSET R, u)
  PROVE  t[R] = u[R]
<1> DEFINE K == {k \in Nat : \E Q \in SUBSET R : Cardinality(Q) = k /\ t[Q] # u[Q]}
<1>0. \A Q \in SUBSET R : IsFiniteSet(Q) /\ Cardinality(Q) \in Nat
  BY FS_Subset, FS_CardinalityType
<1>1. \A Q \in SUBSET R : t[Q] = IF Q = {} THEN 0 ELSE f[AnyOf(Q)] + t[Q \ {AnyOf(Q)}]
  BY DEF SetFold
<1>2. \A Q \in SUBSET R : u[Q] = IF Q = {} THEN 0 ELSE f[AnyOf(Q)] + u[Q \ {AnyOf(Q)}]
  BY DEF SetFold
<1> SUFFICES ASSUME t[R] # u[R]
             PROVE  FALSE
  OBVIOUS
<1>3. K # {} /\ K \subseteq Nat
  BY <1>0
<1> HIDE DEF K
<1>4. PICK k \in K : \A j \in K : k <= j
  BY <1>3, LeastNatural
<1>5. PICK Q \in SUBSET R : Cardinality(Q) = k /\ t[Q] # u[Q]
  BY <1>4 DEF K
<1>6. Q # {}
  BY <1>1, <1>2, <1>5
<1> DEFINE P == Q \ {AnyOf(Q)}
<1>7. Cardinality(P) = Cardinality(Q) - 1 /\ P \in SUBSET R
  BY <1>0, <1>6, AnyOfOne
<1>8. t[P] # u[P]
  BY <1>1, <1>2, <1>5, <1>6
<1> HIDE DEF P
<1>9. Cardinality(P) \in K /\ Cardinality(P) \in Nat
  BY <1>0, <1>7, <1>8 DEF K
<1>10. k <= Cardinality(P) /\ k \in Nat
  BY <1>3, <1>4, <1>9
<1> QED
  BY <1>5, <1>7, <1>9, <1>10

(* ... so the sum is what the recursion gives.                             *)
LEMMA SetSumFold ==
  ASSUME NEW f, NEW S, IsFiniteSet(S), NEW t, SetFold(f, SUBSET S, t)
  PROVE  SumFunctionOnSet(f, S) = t[S]
<1> DEFINE u == CHOOSE v : SetFold(f, SUBSET S, v)
<1>1. SetFold(f, SUBSET S, u)
  OBVIOUS
<1>2. SumFunctionOnSet(f, S) = u[S]
  BY SetSumIs
<1> HIDE DEF u
<1>3. S \subseteq S
  OBVIOUS
<1>4. t[S] = u[S]
  BY <1>1, <1>3, SetFoldUnique, Zenon
<1> QED
  BY <1>2, <1>4

LEMMA SetSumEmpty ==
  ASSUME NEW f
  PROVE  SumFunctionOnSet(f, {}) = 0
<1>1. IsFiniteSet({})
  BY FS_EmptySet
<1>2. PICK t : SetFold(f, SUBSET {}, t)
  BY <1>1, SetFoldExists
<1>3. SumFunctionOnSet(f, {}) = t[{}]
  BY <1>1, <1>2, SetSumFold
<1>4. t[{}] = 0
  BY <1>2 DEF SetFold
<1> QED
  BY <1>3, <1>4

(* The recursion equation of the sum.                                      *)
LEMMA SetSumAny ==
  ASSUME NEW f, NEW S, IsFiniteSet(S), S # {}
  PROVE  SumFunctionOnSet(f, S) = f[AnyOf(S)] + SumFunctionOnSet(f, S \ {AnyOf(S)})
<1> DEFINE R == S \ {AnyOf(S)}
<1>1. IsFiniteSet(R) /\ R \in SUBSET S
  BY AnyOfOne
<1>2. PICK t : SetFold(f, SUBSET S, t)
  BY SetFoldExists
<1>3. t[S] = f[AnyOf(S)] + t[R]
  BY <1>2 DEF SetFold
<1>4. SumFunctionOnSet(f, S) = t[S]
  BY <1>2, SetSumFold
<1> HIDE DEF R
<1>5. PICK u : SetFold(f, SUBSET R, u)
  BY <1>1, SetFoldExists
<1>6. t[R] = u[R]
  <2>1. R \subseteq S
    BY <1>1
  <2> QED
    BY ONLY IsFiniteSet(S), <1>2, <1>5, <2>1, SetFoldUnique
<1>7. SumFunctionOnSet(f, R) = u[R]
  BY <1>1, <1>5, SetSumFold
<1>8. SumFunctionOnSet(f, S) = f[AnyOf(S)] + SumFunctionOnSet(f, R)
  BY <1>3, <1>4, <1>6, <1>7
<1> QED
  BY <1>8 DEF R

LEMMA SetSumType ==
  ASSUME NEW f, NEW S, IsFiniteSet(S), \A x \in S : f[x] \in Int
  PROVE  SumFunctionOnSet(f, S) \in Int
<1> DEFINE K == {k \in Nat : \E R \in SUBSET S :
                    Cardinality(R) = k /\ SumFunctionOnSet(f, R) \notin Int}
<1>0. \A R \in SUBSET S : IsFiniteSet(R) /\ Cardinality(R) \in Nat
  BY FS_Subset, FS_CardinalityType
<1> SUFFICES ASSUME SumFunctionOnSet(f, S) \notin Int
             PROVE  FALSE
  OBVIOUS
<1>1. S \in SUBSET S
  OBVIOUS
<1>2. K # {} /\ K \subseteq Nat
  BY <1>0, <1>1
<1> HIDE DEF K
<1>3. PICK k \in K : \A j \in K : k <= j
  BY <1>2, LeastNatural
<1>4. PICK R \in SUBSET S : Cardinality(R) = k /\ SumFunctionOnSet(f, R) \notin Int
  BY <1>3 DEF K
<1>5. R # {}
  BY <1>4, SetSumEmpty
<1> DEFINE P == R \ {AnyOf(R)}
<1>6. /\ Cardinality(P) = Cardinality(R) - 1 /\ P \in SUBSET S
      /\ AnyOf(R) \in S
  BY <1>0, <1>5, AnyOfOne
<1>7. SumFunctionOnSet(f, R) = f[AnyOf(R)] + SumFunctionOnSet(f, P)
  BY <1>0, <1>5, SetSumAny
<1> HIDE DEF P
<1>8. SumFunctionOnSet(f, P) \notin Int
  BY <1>4, <1>6, <1>7
<1>9. Cardinality(P) \in K /\ Cardinality(P) \in Nat
  BY <1>0, <1>6, <1>8 DEF K
<1>10. k <= Cardinality(P) /\ k \in Nat
  BY <1>2, <1>3, <1>9
<1> QED
  BY <1>4, <1>6, <1>9, <1>10

(* Any element can be taken out of the sum first.                          *)
LEMMA SetSumTake ==
  ASSUME NEW f, NEW S, IsFiniteSet(S), \A x \in S : f[x] \in Int, NEW x \in S
  PROVE  SumFunctionOnSet(f, S) = f[x] + SumFunctionOnSet(f, S \ {x})
<1> DEFINE Splits(R) == \A y \in R :
                         SumFunctionOnSet(f, R) = f[y] + SumFunctionOnSet(f, R \ {y})
           K == {k \in Nat : \E R \in SUBSET S : Cardinality(R) = k /\ ~ Splits(R)}
<1>0. \A R \in SUBSET S : IsFiniteSet(R) /\ Cardinality(R) \in Nat
  BY FS_Subset, FS_CardinalityType
<1> SUFFICES ASSUME ~ Splits(S)
             PROVE  FALSE
  OBVIOUS
<1>1. S \in SUBSET S
  OBVIOUS
<1>2. K # {} /\ K \subseteq Nat
  BY <1>0, <1>1
<1> HIDE DEF K, Splits
<1>3. PICK k \in K : \A j \in K : k <= j
  BY <1>2, LeastNatural
<1>4. PICK R \in SUBSET S : Cardinality(R) = k /\ ~ Splits(R)
  BY <1>3 DEF K
<1>5. \A Q \in SUBSET S : Cardinality(Q) = Cardinality(R) - 1 => Splits(Q)
  <2> SUFFICES ASSUME NEW Q \in SUBSET S, Cardinality(Q) = Cardinality(R) - 1, ~ Splits(Q)
               PROVE  FALSE
    OBVIOUS
  <2>1. Cardinality(Q) \in Nat /\ Cardinality(R) \in Nat
    BY <1>0
  <2>2. Cardinality(Q) \in K
    BY <2>1 DEF K
  <2>3. k <= Cardinality(Q)
    BY <1>3, <2>2
  <2> QED
    BY <1>4, <2>1, <2>3
<1>6. PICK y \in R : SumFunctionOnSet(f, R) # f[y] + SumFunctionOnSet(f, R \ {y})
  BY <1>4 DEF Splits
<1>7. R # {} /\ IsFiniteSet(R)
  BY <1>0, <1>6
<1> DEFINE a == AnyOf(R)
           P == R \ {a}
           Q == R \ {y}
<1>8. /\ Cardinality(P) = Cardinality(R) - 1 /\ P \in SUBSET S
      /\ a \in R
  BY <1>7, AnyOfOne
<1>9. SumFunctionOnSet(f, R) = f[a] + SumFunctionOnSet(f, P)
  BY <1>7, SetSumAny
<1> HIDE DEF a
<1>10. a # y
  BY <1>6, <1>9
<1>11. SumFunctionOnSet(f, P) = f[y] + SumFunctionOnSet(f, P \ {y})
  BY <1>5, <1>6, <1>8, <1>10 DEF Splits
<1>12. Q \in SUBSET S /\ a \in Q /\ Cardinality(Q) = Cardinality(R) - 1
  BY <1>6, <1>7, <1>8, <1>10, FS_RemoveElement
<1>13. SumFunctionOnSet(f, Q) = f[a] + SumFunctionOnSet(f, Q \ {a})
  BY <1>5, <1>12 DEF Splits
<1>14. P \ {y} = Q \ {a} /\ P \ {y} \in SUBSET S
  BY <1>8
<1>15. SumFunctionOnSet(f, P \ {y}) \in Int
  <2>1. IsFiniteSet(P \ {y}) /\ \A z \in P \ {y} : f[z] \in Int
    BY <1>0, <1>14
  <2> QED
    BY <2>1, SetSumType
<1>16. f[a] \in Int /\ f[y] \in Int
  BY <1>6, <1>8
<1> DEFINE b == SumFunctionOnSet(f, P \ {y})
           c == SumFunctionOnSet(f, P)
           d == SumFunctionOnSet(f, Q)
<1>17. b \in Int /\ c = f[y] + b /\ d = f[a] + b
  BY <1>11, <1>13, <1>14, <1>15
<1>18. SumFunctionOnSet(f, R) = f[a] + c
  BY <1>9
<1> HIDE DEF b, c, d
<1>19. SumFunctionOnSet(f, R) = f[y] + d
  BY <1>16, <1>17, <1>18
<1> QED
  BY <1>6, <1>19 DEF d

(* One more element.                                                       *)
LEMMA SetSumAdd ==
  ASSUME NEW f, NEW S, IsFiniteSet(S), NEW x, x \notin S, \A y \in S \union {x} : f[y] \in Int
  PROVE  SumFunctionOnSet(f, S \union {x}) = f[x] + SumFunctionOnSet(f, S)
<1> DEFINE T == S \union {x}
<1>1. IsFiniteSet(T) /\ x \in T /\ T \ {x} = S /\ \A y \in T : f[y] \in Int
  BY FS_AddElement
<1> HIDE DEF T
<1>2. SumFunctionOnSet(f, T) = f[x] + SumFunctionOnSet(f, T \ {x})
  BY <1>1, SetSumTake
<1> QED
  BY <1>1, <1>2 DEF T

(* The sum depends on the summands only.                                   *)
LEMMA SetSumEq ==
  ASSUME NEW f, NEW g, NEW S, IsFiniteSet(S),
         \A x \in S : f[x] \in Int, \A x \in S : g[x] = f[x]
  PROVE  SumFunctionOnSet(g, S) = SumFunctionOnSet(f, S)
<1> DEFINE P == {R \in SUBSET S : SumFunctionOnSet(g, R) = SumFunctionOnSet(f, R)}
<1>1. {} \in P
  BY SetSumEmpty
<1>2. ASSUME NEW T \in SUBSET S, NEW x \in S, T \in P, x \notin T
      PROVE  T \union {x} \in P
  <2>1. IsFiniteSet(T)
    BY FS_Subset
  <2>2. /\ \A y \in T \union {x} : f[y] \in Int
        /\ \A y \in T \union {x} : g[y] \in Int
    OBVIOUS
  <2>3. SumFunctionOnSet(f, T \union {x}) = f[x] + SumFunctionOnSet(f, T)
    BY <1>2, <2>1, <2>2, SetSumAdd
  <2>4. SumFunctionOnSet(g, T \union {x}) = g[x] + SumFunctionOnSet(g, T)
    BY <1>2, <2>1, <2>2, SetSumAdd
  <2> QED
    BY <1>2, <2>3, <2>4
<1> HIDE DEF P
<1>3. S \in P
  BY <1>1, <1>2, SetInduction
<1> QED
  BY <1>3 DEF P

(* A sum of sums.                                                          *)
LEMMA SetSumPlus ==
  ASSUME NEW f, NEW g, NEW h, NEW S, IsFiniteSet(S),
         \A x \in S : f[x] \in Int, \A x \in S : g[x] \in Int,
         \A x \in S : h[x] = f[x] + g[x]
  PROVE  SumFunctionOnSet(h, S) = SumFunctionOnSet(f, S) + SumFunctionOnSet(g, S)
<1> DEFINE P == {R \in SUBSET S :
                   SumFunctionOnSet(h, R) = SumFunctionOnSet(f, R) + SumFunctionOnSet(g, R)}
<1>1. {} \in P
  BY SetSumEmpty
<1>2. ASSUME NEW T \in SUBSET S, NEW x \in S, T \in P, x \notin T
      PROVE  T \union {x} \in P
  <2>1. IsFiniteSet(T)
    BY FS_Subset
  <2>2. /\ \A y \in T \union {x} : f[y] \in Int
        /\ \A y \in T \union {x} : g[y] \in Int
        /\ \A y \in T \union {x} : h[y] \in Int
    OBVIOUS
  <2>3. SumFunctionOnSet(f, T \union {x}) = f[x] + SumFunctionOnSet(f, T)
    BY <1>2, <2>1, <2>2, SetSumAdd
  <2>4. SumFunctionOnSet(g, T \union {x}) = g[x] + SumFunctionOnSet(g, T)
    BY <1>2, <2>1, <2>2, SetSumAdd
  <2>5. SumFunctionOnSet(h, T \union {x}) = h[x] + SumFunctionOnSet(h, T)
    BY <1>2, <2>1, <2>2, SetSumAdd
  <2>6. SumFunctionOnSet(f, T) \in Int /\ SumFunctionOnSet(g, T) \in Int
    BY <2>1, <2>2, SetSumType
  <2>7. f[x] \in Int /\ g[x] \in Int /\ h[x] = f[x] + g[x]
    OBVIOUS
  <2>8. SumFunctionOnSet(h, T) = SumFunctionOnSet(f, T) + SumFunctionOnSet(g, T)
    BY <1>2
  <2>9. SumFunctionOnSet(h, T \union {x}) =
          SumFunctionOnSet(f, T \union {x}) + SumFunctionOnSet(g, T \union {x})
    BY <2>3, <2>4, <2>5, <2>6, <2>7, <2>8
  <2>10. T \union {x} \in SUBSET S
    OBVIOUS
  <2> QED
    BY <2>9, <2>10
<1> HIDE DEF P
<1>3. S \in P
  BY <1>1, <1>2, SetInduction
<1> QED
  BY <1>3 DEF P

LEMMA SetSumZeros ==
  ASSUME NEW f, NEW S, IsFiniteSet(S), \A x \in S : f[x] = 0
  PROVE  SumFunctionOnSet(f, S) = 0
<1> DEFINE P == {R \in SUBSET S : SumFunctionOnSet(f, R) = 0}
<1>1. {} \in P
  BY SetSumEmpty
<1>2. ASSUME NEW T \in SUBSET S, NEW x \in S, T \in P, x \notin T
      PROVE  T \union {x} \in P
  <2>1. IsFiniteSet(T)
    BY FS_Subset
  <2>2. \A y \in T \union {x} : f[y] \in Int
    OBVIOUS
  <2>3. SumFunctionOnSet(f, T \union {x}) = f[x] + SumFunctionOnSet(f, T)
    BY <1>2, <2>1, <2>2, SetSumAdd
  <2> QED
    BY <1>2, <2>3
<1> HIDE DEF P
<1>3. S \in P
  BY <1>1, <1>2, SetInduction
<1> QED
  BY <1>3 DEF P

LEMMA SetSumNat ==
  ASSUME NEW f, NEW S, IsFiniteSet(S), \A x \in S : f[x] \in Nat
  PROVE  SumFunctionOnSet(f, S) \in Nat
<1> DEFINE P == {R \in SUBSET S : SumFunctionOnSet(f, R) \in Nat}
<1>1. {} \in P
  BY SetSumEmpty
<1>2. ASSUME NEW T \in SUBSET S, NEW x \in S, T \in P, x \notin T
      PROVE  T \union {x} \in P
  <2>1. IsFiniteSet(T)
    BY FS_Subset
  <2>2. \A y \in T \union {x} : f[y] \in Int
    OBVIOUS
  <2>3. SumFunctionOnSet(f, T \union {x}) = f[x] + SumFunctionOnSet(f, T)
    BY <1>2, <2>1, <2>2, SetSumAdd
  <2> QED
    BY <1>2, <2>3
<1> HIDE DEF P
<1>3. S \in P
  BY <1>1, <1>2, SetInduction
<1> QED
  BY <1>3 DEF P

(* The sums over two disjoint sets add up.                                 *)
LEMMA SetSumUnion ==
  ASSUME NEW f, NEW R, NEW S, IsFiniteSet(R), IsFiniteSet(S), R \cap S = {},
         \A x \in R \union S : f[x] \in Int
  PROVE  SumFunctionOnSet(f, R \union S) = SumFunctionOnSet(f, R) + SumFunctionOnSet(f, S)
<1> DEFINE P == {Q \in SUBSET S :
                   SumFunctionOnSet(f, R \union Q)
                     = SumFunctionOnSet(f, R) + SumFunctionOnSet(f, Q)}
<1>0. \A x \in R : f[x] \in Int
  OBVIOUS
<1>1. {} \in P
  <2>1. SumFunctionOnSet(f, R) \in Int
    BY <1>0, SetSumType
  <2>2. R \union {} = R
    OBVIOUS
  <2> QED
    BY <2>1, <2>2, SetSumEmpty
<1>2. ASSUME NEW T \in SUBSET S, NEW x \in S, T \in P, x \notin T
      PROVE  T \union {x} \in P
  <2>1. IsFiniteSet(T)
    BY FS_Subset
  <2> DEFINE V == R \union T
  <2>2. IsFiniteSet(V) /\ x \notin V /\ \A y \in V \union {x} : f[y] \in Int
    BY <1>2, <2>1, FS_Union
  <2>3. \A y \in T \union {x} : f[y] \in Int
    OBVIOUS
  <2>4. SumFunctionOnSet(f, T \union {x}) = f[x] + SumFunctionOnSet(f, T)
    BY <1>2, <2>1, <2>3, SetSumAdd
  <2>5. SumFunctionOnSet(f, V) = SumFunctionOnSet(f, R) + SumFunctionOnSet(f, T)
    BY <1>2
  <2>6. R \union (T \union {x}) = V \union {x}
    OBVIOUS
  <2> HIDE DEF V
  <2>7. SumFunctionOnSet(f, V \union {x}) = f[x] + SumFunctionOnSet(f, V)
    BY <2>2, SetSumAdd
  <2>8. SumFunctionOnSet(f, R) \in Int /\ SumFunctionOnSet(f, T) \in Int /\ f[x] \in Int
    BY <1>0, <2>1, <2>3, SetSumType
  <2> DEFINE a == SumFunctionOnSet(f, R)
             b == SumFunctionOnSet(f, T)
             c == SumFunctionOnSet(f, T \union {x})
             d == SumFunctionOnSet(f, V)
             e == SumFunctionOnSet(f, R \union (T \union {x}))
  <2>9. e = f[x] + d
    BY <2>6, <2>7
  <2>10. a \in Int /\ b \in Int /\ c = f[x] + b /\ d = a + b
    BY <2>4, <2>5, <2>8
  <2>11. T \union {x} \in SUBSET S
    OBVIOUS
  <2> HIDE DEF a, b, c, d, e
  <2>12. e = a + c
    BY <2>8, <2>9, <2>10
  <2> QED
    BY <2>11, <2>12 DEF a, c, e
<1> HIDE DEF P
<1>3. S \in P
  BY <1>1, <1>2, SetInduction
<1> QED
  BY <1>3 DEF P

(* Zeros outside R do not count.                                           *)
LEMMA SetSumExtend ==
  ASSUME NEW f, NEW S, NEW R, IsFiniteSet(S), R \subseteq S,
         \A x \in S : f[x] \in Int, \A x \in S \ R : f[x] = 0
  PROVE  SumFunctionOnSet(f, S) = SumFunctionOnSet(f, R)
<1> DEFINE Q == S \ R
<1>1. IsFiniteSet(R) /\ IsFiniteSet(Q)
  BY FS_Subset
<1>2. R \cap Q = {} /\ R \union Q = S
  OBVIOUS
<1>3. \A x \in R : f[x] \in Int
  OBVIOUS
<1>4. \A x \in R \union Q : f[x] \in Int
  OBVIOUS
<1>5. \A x \in Q : f[x] = 0
  OBVIOUS
<1> HIDE DEF Q
<1>6. SumFunctionOnSet(f, R \union Q) = SumFunctionOnSet(f, R) + SumFunctionOnSet(f, Q)
  BY <1>1, <1>2, <1>4, SetSumUnion
<1>7. SumFunctionOnSet(f, Q) = 0
  BY <1>1, <1>5, SetSumZeros
<1>8. SumFunctionOnSet(f, R) \in Int
  BY <1>1, <1>3, SetSumType
<1>9. SumFunctionOnSet(f, R \union Q) = SumFunctionOnSet(f, R)
  BY <1>6, <1>7, <1>8
<1> QED
  BY <1>2, <1>9, Zenon

(* The sum over a part of a set of naturals, and any of them, is no more.  *)
LEMMA SetSumPart ==
  ASSUME NEW f, NEW S, NEW R, IsFiniteSet(S), R \subseteq S, \A x \in S : f[x] \in Nat
  PROVE  SumFunctionOnSet(f, R) <= SumFunctionOnSet(f, S)
<1> DEFINE Q == S \ R
<1>1. IsFiniteSet(R) /\ IsFiniteSet(Q)
  BY FS_Subset
<1>2. R \cap Q = {} /\ R \union Q = S
  OBVIOUS
<1>3. (\A x \in R : f[x] \in Nat) /\ (\A x \in Q : f[x] \in Nat)
  OBVIOUS
<1>4. \A x \in R \union Q : f[x] \in Int
  OBVIOUS
<1> HIDE DEF Q
<1>6. SumFunctionOnSet(f, R \union Q) = SumFunctionOnSet(f, R) + SumFunctionOnSet(f, Q)
  BY <1>1, <1>2, <1>4, SetSumUnion
<1>7. SumFunctionOnSet(f, Q) \in Nat /\ SumFunctionOnSet(f, R) \in Nat
  BY <1>1, <1>3, SetSumNat
<1>8. SumFunctionOnSet(f, R) <= SumFunctionOnSet(f, R \union Q)
  BY <1>6, <1>7
<1> QED
  BY <1>2, <1>8, Zenon

LEMMA SetSumOne ==
  ASSUME NEW f, NEW x, f[x] \in Int
  PROVE  SumFunctionOnSet(f, {x}) = f[x]
<1>1. IsFiniteSet({x})
  BY FS_Singleton
<1>2. \A y \in {x} : f[y] \in Int
  OBVIOUS
<1>3. {x} \ {x} = {} /\ x \in {x}
  OBVIOUS
<1> DEFINE S == {x}
<1> HIDE DEF S
<1>4. SumFunctionOnSet(f, S) = f[x] + SumFunctionOnSet(f, S \ {x})
  BY <1>1, <1>2, <1>3, SetSumTake DEF S
<1> QED
  BY <1>3, <1>4, SetSumEmpty DEF S

(* A sum with a single summand that is not zero.                           *)
LEMMA SetSumSingle ==
  ASSUME NEW f, NEW S, IsFiniteSet(S), NEW x \in S, f[x] \in Int,
         \A y \in S \ {x} : f[y] = 0
  PROVE  SumFunctionOnSet(f, S) = f[x]
<1>1. {x} \subseteq S /\ \A y \in S : f[y] \in Int
  OBVIOUS
<1>2. SumFunctionOnSet(f, S) = SumFunctionOnSet(f, {x})
  BY <1>1, SetSumExtend
<1> QED
  BY <1>2, SetSumOne

(* No summand exceeds a sum of naturals.                                   *)
LEMMA SetSumElement ==
  ASSUME NEW f, NEW S, IsFiniteSet(S), \A x \in S : f[x] \in Nat, NEW x \in S
  PROVE  f[x] <= SumFunctionOnSet(f, S)
<1>1. {x} \subseteq S /\ f[x] \in Int
  OBVIOUS
<1>2. SumFunctionOnSet(f, {x}) = f[x]
  BY <1>1, SetSumOne
<1>3. SumFunctionOnSet(f, {x}) <= SumFunctionOnSet(f, S)
  BY <1>1, SetSumPart
<1> QED
  BY <1>2, <1>3

(* One summand has changed by c.                                           *)
LEMMA SetSumBump ==
  ASSUME NEW f, NEW g, NEW S, IsFiniteSet(S), \A y \in S : f[y] \in Int, NEW x \in S,
         NEW c \in Int, g[x] = f[x] + c, \A y \in S \ {x} : g[y] = f[y]
  PROVE  SumFunctionOnSet(g, S) = SumFunctionOnSet(f, S) + c
<1> DEFINE R == S \ {x}
<1>1. IsFiniteSet(R) /\ (\A y \in R : f[y] \in Int) /\ \A y \in R : g[y] = f[y]
  BY FS_RemoveElement
<1>2. \A y \in S : g[y] \in Int
  OBVIOUS
<1>3. SumFunctionOnSet(f, S) = f[x] + SumFunctionOnSet(f, R)
  BY SetSumTake
<1>4. SumFunctionOnSet(g, S) = g[x] + SumFunctionOnSet(g, R)
  BY <1>2, SetSumTake
<1> HIDE DEF R
<1>5. SumFunctionOnSet(g, R) = SumFunctionOnSet(f, R)
  BY <1>1, SetSumEq
<1>6. SumFunctionOnSet(f, R) \in Int
  BY <1>1, SetSumType
<1> QED
  BY <1>3, <1>4, <1>5, <1>6

(* A sum of naturals that is not zero has a summand that is not.           *)
LEMMA SetSumPositive ==
  ASSUME NEW f, NEW S, IsFiniteSet(S), SumFunctionOnSet(f, S) # 0
  PROVE  \E x \in S : f[x] # 0
BY SetSumZeros

(* Sums over the fibres of g make up the whole sum.                        *)
LEMMA FiberSum ==
  ASSUME NEW B, IsFiniteSet(B), NEW C, IsFiniteSet(C), NEW v, \A b \in B : v[b] \in Int,
         NEW g, \A b \in B : g[b] \in C
  PROVE  SumFunctionOnSet([c \in C |-> SumFunctionOnSet(v, {b \in B : g[b] = c})], C)
         = SumFunctionOnSet(v, B)
<1> DEFINE Over(c) == {b \in B : g[b] = c}
           F == [c \in C |-> SumFunctionOnSet(v, Over(c))]
           Within(R) == {b \in B : g[b] \in R}
           P == {R \in SUBSET C : SumFunctionOnSet(F, R) = SumFunctionOnSet(v, Within(R))}
<1>1. \A c \in C : F[c] = SumFunctionOnSet(v, Over(c)) /\ F[c] \in Int
  <2> SUFFICES ASSUME NEW c \in C
               PROVE  SumFunctionOnSet(v, Over(c)) \in Int
    OBVIOUS
  <2>1. IsFiniteSet(Over(c)) /\ \A b \in Over(c) : v[b] \in Int
    BY FS_Subset
  <2> QED
    BY <2>1, SetSumType
<1>2. {} \in P
  <2>1. Within({}) = {}
    OBVIOUS
  <2> QED
    BY <2>1, SetSumEmpty
<1>3. ASSUME NEW R \in SUBSET C, NEW c \in C, R \in P, c \notin R
      PROVE  R \union {c} \in P
  <2>1. IsFiniteSet(R) /\ \A x \in R \union {c} : F[x] \in Int
    BY <1>1, FS_Subset
  <2>2. SumFunctionOnSet(F, R \union {c}) = F[c] + SumFunctionOnSet(F, R)
    BY <1>3, <2>1, SetSumAdd
  <2>3. Within(R \union {c}) = Over(c) \union Within(R) /\ Over(c) \cap Within(R) = {}
    BY <1>3
  <2>4. IsFiniteSet(Over(c)) /\ IsFiniteSet(Within(R))
        /\ \A b \in Over(c) \union Within(R) : v[b] \in Int
    BY FS_Subset
  <2>5. SumFunctionOnSet(v, Over(c) \union Within(R))
        = SumFunctionOnSet(v, Over(c)) + SumFunctionOnSet(v, Within(R))
    BY <2>3, <2>4, SetSumUnion
  <2>6. SumFunctionOnSet(F, R) = SumFunctionOnSet(v, Within(R))
    BY <1>3
  <2>7. F[c] = SumFunctionOnSet(v, Over(c))
    BY <1>1
  <2> QED
    BY <2>2, <2>3, <2>5, <2>6, <2>7
<1> HIDE DEF P
<1>4. C \in P
  BY <1>2, <1>3, SetInduction
<1>5. Within(C) = B
  OBVIOUS
<1> QED
  BY <1>4, <1>5 DEF P

(* One summand changes.                                                    *)
LEMMA SetSumChange ==
  ASSUME NEW f, NEW g, NEW S, IsFiniteSet(S), NEW x \in S, \A y \in S : f[y] \in Int,
         g[x] \in Int, \A y \in S : y # x => g[y] = f[y]
  PROVE  SumFunctionOnSet(g, S) = SumFunctionOnSet(f, S) + g[x] - f[x]
<1> DEFINE R == S \ {x}
<1>1. IsFiniteSet(R) /\ (\A y \in R : f[y] \in Int) /\ (\A y \in R : g[y] = f[y])
  BY FS_Subset
<1>2. SumFunctionOnSet(g, R) = SumFunctionOnSet(f, R) /\ SumFunctionOnSet(f, R) \in Int
  BY <1>1, SetSumEq, SetSumType
<1>3. SumFunctionOnSet(f, S) = f[x] + SumFunctionOnSet(f, R)
  BY SetSumTake
<1>4. SumFunctionOnSet(g, S) = g[x] + SumFunctionOnSet(g, R)
  <2>1. \A y \in S : g[y] \in Int
    OBVIOUS
  <2> QED
    BY <2>1, SetSumTake
<1> QED
  BY <1>2, <1>3, <1>4
=============================================================================
