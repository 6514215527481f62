------------------------- MODULE ExpoHistogramProofs --------------------------
(***************************************************************************)
(* Proofs about the exponential histogram, for every k, window and stream. *)
(***************************************************************************)
EXTENDS ExpoHistogram, SumsProofs, SequenceTheorems, FiniteSetTheorems, TLAPS

(* NormL2 keeps the older bucket's MinTime and takes the newer bucket's    *)
(* MaxTime, which is a span only of items that came in the order of their  *)
(* timestamps.                                                             *)
InOrderL2 == \A c \in Config : c.norm = "L2" => c.lateness = 0

-----------------------------------------------------------------------------
(* Sequences *)

LEMMA ToSetConcat ==
  ASSUME NEW S, NEW a \in Seq(S), NEW b \in Seq(S)
  PROVE  ToSet(a \o b) = ToSet(a) \union ToSet(b)
<1> DEFINE m == Len(a)
           n == Len(b)
           c == a \o b
<1>1. /\ m \in Nat /\ n \in Nat
      /\ DOMAIN a = 1..m /\ DOMAIN b = 1..n
  BY LenProperties
<1>2. /\ c \in Seq(S) /\ Len(c) = m + n
      /\ \A i \in 1..m+n : c[i] = IF i <= m THEN a[i] ELSE b[i-m]
  BY ConcatProperties
<1>3. DOMAIN c = 1..m+n
  BY <1>2, LenProperties
<1> HIDE DEF c, m, n
<1>4. \A i \in 1..m : i \in 1..m+n /\ c[i] = a[i]
  BY <1>1, <1>2
<1>5. \A i \in 1..n : i+m \in 1..m+n /\ c[i+m] = b[i]
  BY <1>1, <1>2
<1>6. \A i \in 1..m+n : \/ i \in 1..m /\ c[i] = a[i]
                        \/ i-m \in 1..n /\ c[i] = b[i-m]
  BY <1>1, <1>2
<1>7. /\ ToSet(a) = {a[i] : i \in 1..m}
      /\ ToSet(b) = {b[i] : i \in 1..n}
      /\ ToSet(c) = {c[i] : i \in 1..m+n}
  BY <1>1, <1>3 DEF ToSet
<1>8. ToSet(c) = ToSet(a) \union ToSet(b)
  BY <1>4, <1>5, <1>6, <1>7
<1> QED
  BY <1>8 DEF c

LEMMA ToSetOne ==
  ASSUME NEW x
  PROVE  ToSet(<<x>>) = {x}
BY DEF ToSet

LEMMA ToSetType ==
  ASSUME NEW S, NEW s \in Seq(S)
  PROVE  ToSet(s) \subseteq S
BY ElementOfSeq, LenProperties DEF ToSet

LEMMA ToSetElement ==
  ASSUME NEW S, NEW s \in Seq(S), NEW i \in 1..Len(s)
  PROVE  s[i] \in ToSet(s)
BY LenProperties DEF ToSet

(* The two neighbours at i replaced by one element.                        *)
PairReplaced(q, i, x) ==
  SubSeq(q, 1, i-1) \o <<x>> \o SubSeq(q, i+2, Len(q))

LEMMA ReplacePair ==
  ASSUME NEW S, NEW q \in Seq(S), NEW i \in 1..Len(q)-1, NEW x \in S
  PROVE  /\ PairReplaced(q, i, x) \in Seq(S)
         /\ Len(PairReplaced(q, i, x)) = Len(q) - 1
         /\ \A j \in 1..i-1 : PairReplaced(q, i, x)[j] = q[j]
         /\ PairReplaced(q, i, x)[i] = x
         /\ \A j \in i+1..Len(q)-1 : PairReplaced(q, i, x)[j] = q[j+1]
<1> DEFINE r == PairReplaced(q, i, x)
<1> DEFINE n == Len(q)
           a == SubSeq(q, 1, i-1)
           b == SubSeq(q, i+2, n)
           ax == a \o <<x>>
<1>1. n \in Nat /\ i \in Nat /\ i+1 <= n /\ \A j \in 1..n : q[j] \in S
  BY LenProperties, ElementOfSeq
<1>2. /\ a \in Seq(S) /\ Len(a) = i-1
      /\ \A j \in 1..i-1 : a[j] = q[j]
  <2>1. 1 \in Int /\ i-1 \in Int /\ \A j \in 1..i-1 : q[j] \in S
    BY <1>1
  <2>2. /\ a \in Seq(S) /\ Len(a) = IF 1 <= i-1 THEN (i-1)-1+1 ELSE 0
        /\ \A j \in 1..(i-1)-1+1 : a[j] = q[1+j-1]
    BY <2>1, SubSeqProperties
  <2> QED
    BY <1>1, <2>2
<1>3. /\ b \in Seq(S) /\ Len(b) = n-i-1
      /\ \A j \in 1..n-i-1 : b[j] = q[i+1+j]
  <2>1. i+2 \in Int /\ n \in Int /\ \A j \in i+2..n : q[j] \in S
    BY <1>1
  <2>2. /\ b \in Seq(S) /\ Len(b) = IF i+2 <= n THEN n-(i+2)+1 ELSE 0
        /\ \A j \in 1..n-(i+2)+1 : b[j] = q[(i+2)+j-1]
    BY <2>1, SubSeqProperties
  <2> QED
    BY <1>1, <2>2
<1>4. <<x>> \in Seq(S) /\ Len(<<x>>) = 1 /\ <<x>>[1] = x
  OBVIOUS
<1> HIDE DEF a, b, n
<1>5. /\ ax \in Seq(S) /\ Len(ax) = i
      /\ \A j \in 1..i-1 : ax[j] = a[j]
      /\ ax[i] = x
  <2>1. /\ ax \in Seq(S) /\ Len(ax) = (i-1) + 1
        /\ \A j \in 1..(i-1)+1 : ax[j] = IF j <= i-1 THEN a[j] ELSE <<x>>[j-(i-1)]
    BY <1>2, <1>4, ConcatProperties
  <2> HIDE DEF ax
  <2> QED
    BY <1>1, <2>1
<1>6. r = ax \o b
  BY DEF a, b, n, PairReplaced
<1> HIDE DEF ax, r
<1>7. /\ r \in Seq(S) /\ Len(r) = n-1
      /\ \A j \in 1..n-1 : r[j] = IF j <= i THEN ax[j] ELSE b[j-i]
  <2>1. /\ r \in Seq(S) /\ Len(r) = Len(ax) + Len(b)
        /\ \A j \in 1..Len(ax)+Len(b) :
             r[j] = IF j <= Len(ax) THEN ax[j] ELSE b[j-Len(ax)]
    <3>1. ax \in Seq(S) /\ b \in Seq(S)
      BY <1>3, <1>5
    <3> QED
      BY ONLY <3>1, <1>6, ConcatProperties
  <2>2. Len(ax) + Len(b) = n-1
    BY <1>1, <1>3, <1>5
  <2> QED
    BY ONLY <2>1, <2>2, <1>5
<1>8. \A j \in 1..i-1 : r[j] = q[j]
  BY <1>1, <1>2, <1>5, <1>7
<1>9. r[i] = x
  <2>1. i \in 1..n-1 /\ i <= i
    BY <1>1
  <2> QED
    BY ONLY <2>1, <1>5, <1>7
<1>10. \A j \in i+1..n-1 : r[j] = q[j+1]
  <2> SUFFICES ASSUME NEW j \in i+1..n-1
               PROVE  r[j] = q[j+1]
    OBVIOUS
  <2>1. j-i \in 1..n-i-1 /\ j \in 1..n-1 /\ ~ (j <= i)
    BY <1>1
  <2>3. r[j] = b[j-i]
    BY ONLY <2>1, <1>7
  <2>2. b[j-i] = q[i+1+(j-i)]
    BY <1>3, <2>1
  <2>4. i+1+(j-i) = j+1
    BY <1>1
  <2> QED
    BY ONLY <2>2, <2>3, <2>4
<1> QED
  BY <1>1, <1>7, <1>8, <1>9, <1>10 DEF n, r

(* The first n elements dropped and one appended.                          *)
LEMMA DropAppend ==
  ASSUME NEW S, NEW q \in Seq(S), NEW n \in 0..Len(q), NEW x \in S,
         NEW r, r = Append(SubSeq(q, n+1, Len(q)), x)
  PROVE  /\ r \in Seq(S)
         /\ Len(r) = Len(q) - n + 1
         /\ \A j \in 1..Len(q)-n : r[j] = q[j+n]
         /\ r[Len(q)-n+1] = x
<1> DEFINE m == Len(q)
           b == SubSeq(q, n+1, m)
<1>1. m \in Nat /\ n \in Nat /\ n <= m /\ \A j \in 1..m : q[j] \in S
  BY LenProperties, ElementOfSeq
<1>2. /\ b \in Seq(S) /\ Len(b) = m-n
      /\ \A j \in 1..m-n : b[j] = q[j+n]
  <2>1. n+1 \in Int /\ m \in Int /\ \A j \in n+1..m : q[j] \in S
    BY <1>1
  <2>2. /\ b \in Seq(S) /\ Len(b) = IF n+1 <= m THEN m-(n+1)+1 ELSE 0
        /\ \A j \in 1..m-(n+1)+1 : b[j] = q[(n+1)+j-1]
    BY <2>1, SubSeqProperties
  <2> QED
    BY <1>1, <2>2
<1>3. r = Append(b, x)
  OBVIOUS
<1> HIDE DEF b, m
<1>4. /\ r \in Seq(S) /\ Len(r) = (m-n)+1
      /\ \A j \in 1..m-n : r[j] = b[j]
      /\ r[(m-n)+1] = x
  BY <1>2, <1>3, AppendProperties
<1> QED
  BY <1>1, <1>2, <1>4 DEF m
-----------------------------------------------------------------------------
(* Types *)

Item == [key : Key, time : Time]

(* What the steps that change buckets need to know of the sizes.           *)
Sized ==
  /\ TypeOK
  /\ Len(buckets) <= Len(stream)
  /\ Len(stream) <= eh.items
  /\ eh.norm = "L1" => idx <= Len(buckets)

LEMMA ConfigFields ==
  ASSUME eh \in Config
  PROVE  /\ eh.norm \in {"L1", "L2"}
         /\ eh.k \in Nat \ {0} /\ eh.numKeys \in Nat \ {0}
         /\ eh.windowSize \in Nat /\ eh.lastTime \in Nat
         /\ eh.lateness \in Nat /\ eh.items \in Nat
         /\ Key = 1..eh.numKeys
         /\ Time \subseteq Nat
<1>1. eh \in [norm : {"L1", "L2"}, k : Nat \ {0}, windowSize : Nat,
             numKeys : Nat \ {0}, lastTime : Nat, lateness : Nat, items : Nat]
  BY HistogramAssumption
<1> QED
  BY <1>1 DEF Key, Time

LEMMA BucketFields ==
  ASSUME NEW b \in Bucket
  PROVE  /\ b.items \in Seq(1..eh.items)
         /\ b.counts \in [Key -> Nat]
         /\ b.minTime \in Time /\ b.maxTime \in Time
         /\ b.size \in Nat /\ b.mass \in Nat
BY DEF Bucket

LEMMA BucketType ==
  ASSUME TypeOK, NEW i \in 1..Len(buckets)
  PROVE  buckets[i] \in Bucket
BY ElementOfSeq DEF TypeOK

(* (a+b)^2 - a^2, as HybridSketch.Merge adds it.                           *)
LEMMA EnergyGrows ==
  ASSUME NEW a \in Nat, NEW b \in Nat
  PROVE  (a + b) * (a + b) - a * a \in Nat
<1>1. (a + b) * (a + b) = a * a + (a * b + a * b + b * b)
  OBVIOUS
<1>2. a * a \in Nat /\ a * b \in Nat /\ b * b \in Nat
  OBVIOUS
<1> QED
  BY <1>1, <1>2

LEMMA MergedType ==
  ASSUME eh \in Config, NEW a \in Bucket, NEW b \in Bucket
  PROVE  Merged(a, b) \in Bucket
<1> DEFINE m == Merged(a, b)
           f == [k \in Key |-> (a.counts[k] + b.counts[k]) * (a.counts[k] + b.counts[k])
                                 - a.counts[k] * a.counts[k]]
<1>1. /\ a.items \in Seq(1..eh.items) /\ b.items \in Seq(1..eh.items)
      /\ \A k \in Key : a.counts[k] \in Nat /\ b.counts[k] \in Nat
      /\ a.minTime \in Time /\ b.minTime \in Time
      /\ a.maxTime \in Time /\ b.maxTime \in Time
      /\ a.size \in Nat /\ b.size \in Nat
      /\ a.mass \in Nat /\ b.mass \in Nat
  BY BucketFields
<1>2. m.items \in Seq(1..eh.items)
  BY <1>1, ConcatProperties DEF Merged
<1>3. m.counts \in [Key -> Nat]
  BY <1>1 DEF Merged
<1>4. m.minTime \in Time /\ m.maxTime \in Time
  BY <1>1 DEF Merged, Lesser, Greater
<1>5. m.size \in Nat
  BY <1>1 DEF Merged
<1>6. m.mass \in Nat
  <2>1. \A k \in 1..eh.numKeys : f[k] \in Nat
    BY <1>1, EnergyGrows DEF Key
  <2>2. PrefixSum(f, eh.numKeys) \in Nat
    <3>1. eh.numKeys \in Nat
      BY ConfigFields
    <3> HIDE DEF f
    <3> QED
      BY <2>1, <3>1, PrefixSumNat
  <2>3. m.mass = IF eh.norm = "L1" THEN a.mass + b.mass
                 ELSE a.mass + PrefixSum(f, eh.numKeys)
    BY DEF Merged
  <2> HIDE DEF m, f
  <2> QED
    BY <1>1, <2>2, <2>3
<1>7. m = [items |-> m.items, counts |-> m.counts, minTime |-> m.minTime,
           maxTime |-> m.maxTime, size |-> m.size, mass |-> m.mass]
  BY DEF Merged
<1> HIDE DEF m
<1>8. m \in Bucket
  BY <1>2, <1>3, <1>4, <1>5, <1>6, <1>7 DEF Bucket
<1> QED
  BY <1>8 DEF m

LEMMA NewBucketType ==
  ASSUME eh \in Config, NEW k \in Key, NEW t \in Time,
         stream \in Seq(Item), Len(stream) < eh.items
  PROVE  NewBucket(k, t) \in Bucket
<1>1. Len(stream) \in Nat /\ eh.items \in Nat
  BY LenProperties, ConfigFields
<1>2. <<Len(stream) + 1>> \in Seq(1..eh.items)
  BY <1>1
<1>3. [j \in Key |-> IF j = k THEN 1 ELSE 0] \in [Key -> Nat]
  OBVIOUS
<1> QED
  BY <1>2, <1>3 DEF NewBucket, Bucket

(* What MergeAt and Update do to the buckets, position by position.        *)
LEMMA MergeEffect ==
  ASSUME TypeOK, NEW i \in 1..Len(buckets)-1, MergeAt(i)
  PROVE  /\ buckets' \in Seq(Bucket)
         /\ Len(buckets') = Len(buckets) - 1
         /\ \A j \in 1..i-1 : buckets'[j] = buckets[j]
         /\ buckets'[i] = Merged(buckets[i], buckets[i+1])
         /\ \A j \in i+1..Len(buckets)-1 : buckets'[j] = buckets[j+1]
<1>1. buckets \in Seq(Bucket) /\ Len(buckets) \in Nat
  BY LenProperties DEF TypeOK
<1>2. buckets[i] \in Bucket /\ buckets[i+1] \in Bucket
  BY <1>1, ElementOfSeq
<1> DEFINE m == Merged(buckets[i], buckets[i+1])
<1>3. m \in Bucket
  BY <1>2, MergedType DEF TypeOK
<1>4. buckets' = PairReplaced(buckets, i, m)
  BY DEF MergeAt, PairReplaced
<1> HIDE DEF m
<1>5. /\ buckets' \in Seq(Bucket)
      /\ Len(buckets') = Len(buckets) - 1
      /\ \A j \in 1..i-1 : buckets'[j] = buckets[j]
      /\ buckets'[i] = m
      /\ \A j \in i+1..Len(buckets)-1 : buckets'[j] = buckets[j+1]
  <2> DEFINE q == buckets
             r == PairReplaced(q, i, m)
             S == Bucket
  <2>1. i \in 1..Len(q)-1 /\ q \in Seq(S) /\ m \in S
    BY <1>1, <1>3
  <2>2. /\ r \in Seq(S)
        /\ Len(r) = Len(q) - 1
        /\ \A j \in 1..i-1 : r[j] = q[j]
        /\ r[i] = m
        /\ \A j \in i+1..Len(q)-1 : r[j] = q[j+1]
    <3> HIDE DEF q, S
    <3> QED
      BY ONLY <2>1, ReplacePair
  <2> QED
    BY <1>4, <2>2
<1> QED
  BY <1>5 DEF m

LEMMA UpdateEffect ==
  ASSUME Sized, NEW k \in Key, NEW t \in Time, NEW n \in 0..Len(buckets),
         Len(stream) < eh.items,
         buckets' = Append(SubSeq(buckets, n+1, Len(buckets)), NewBucket(k, t)),
         stream' = Append(stream, [key |-> k, time |-> t])
  PROVE  /\ buckets' \in Seq(Bucket)
         /\ Len(buckets') = Len(buckets) - n + 1
         /\ \A j \in 1..Len(buckets)-n : buckets'[j] = buckets[j+n]
         /\ buckets'[Len(buckets)-n+1] = NewBucket(k, t)
         /\ stream' \in Seq(Item)
         /\ Len(stream') = Len(stream) + 1
         /\ \A p \in 1..Len(stream) : stream'[p] = stream[p]
         /\ stream'[Len(stream)+1] = [key |-> k, time |-> t]
<1>1. /\ eh \in Config /\ buckets \in Seq(Bucket) /\ stream \in Seq(Item)
  BY DEF Sized, TypeOK, Item
<1>2. NewBucket(k, t) \in Bucket
  BY <1>1, NewBucketType
<1>3. [key |-> k, time |-> t] \in Item
  BY DEF Item
<1>4. /\ buckets' \in Seq(Bucket)
      /\ Len(buckets') = Len(buckets) - n + 1
      /\ \A j \in 1..Len(buckets)-n : buckets'[j] = buckets[j+n]
      /\ buckets'[Len(buckets)-n+1] = NewBucket(k, t)
  BY <1>1, <1>2, DropAppend
<1>5. /\ stream' \in Seq(Item)
      /\ Len(stream') = Len(stream) + 1
      /\ \A p \in 1..Len(stream) : stream'[p] = stream[p]
      /\ stream'[Len(stream)+1] = [key |-> k, time |-> t]
  BY <1>1, <1>3, AppendProperties
<1> QED
  BY <1>4, <1>5
(* The run of equal sizes that ends at i has a first bucket.               *)
LEMMA RunStart ==
  ASSUME TypeOK, NEW i \in 1..Len(buckets)
  PROVE  /\ StartOfRun(i) \in 1..i
         /\ \A j \in StartOfRun(i)..i : buckets[j].size = buckets[i].size
         /\ StartOfRun(i) > 1 => buckets[StartOfRun(i)-1].size # buckets[i].size
<1> DEFINE T == {s \in 1..i : \A j \in s..i : buckets[j].size = buckets[i].size}
<1>1. Len(buckets) \in Nat
  BY LenProperties DEF TypeOK
<1>2. i \in T
  BY <1>1
<1>3. PICK s \in T : \A u \in T : s <= u
  <2>1. T \subseteq Nat
    OBVIOUS
  <2> QED
    BY <1>2, <2>1, LeastNatural
<1>4. s > 1 => buckets[s-1].size # buckets[i].size
  <2> SUFFICES ASSUME s > 1, buckets[s-1].size = buckets[i].size
               PROVE  FALSE
    OBVIOUS
  <2>1. s-1 \in 1..i
    BY <1>1, <1>3
  <2>2. \A j \in s-1..i : j = s-1 \/ j \in s..i
    BY <1>1, <1>3
  <2>3. s-1 \in T
    BY <1>3, <2>1, <2>2
  <2> QED
    BY <1>1, <1>3, <2>3
<1> QED
  BY <1>3, <1>4 DEF StartOfRun

(* A merge in CompressCount takes the two oldest of three buckets at least.*)
LEMMA CountMerge ==
  ASSUME Sized, CompressCount
  PROVE  /\ eh.norm = "L1" /\ pc = "compress"
         /\ UNCHANGED <<eh, pc, stream>>
         /\ idx \in 2..Len(buckets)
         /\ StartOfRun(idx) \in 1..idx
         /\ \/ /\ StartOfRun(idx) <= idx - 2
               /\ 2 * (idx - StartOfRun(idx) + 1) >= eh.k + 4
               /\ MergeAt(StartOfRun(idx))
               /\ idx' = StartOfRun(idx)
            \/ /\ 2 * (idx - StartOfRun(idx) + 1) < eh.k + 4
               /\ idx' = StartOfRun(idx) - 1
               /\ UNCHANGED buckets
<1> DEFINE s == StartOfRun(idx)
<1>1. Len(buckets) \in Nat /\ idx \in Nat /\ idx <= Len(buckets)
  BY LenProperties, ConfigFields DEF Sized, TypeOK, CompressCount
<1>2. eh.k \in Nat \ {0}
  BY ConfigFields DEF Sized, TypeOK
<1>3. /\ eh.norm = "L1" /\ pc = "compress" /\ idx > 1
      /\ IF 2 * (idx - s + 1) >= eh.k + 4
         THEN MergeAt(s) /\ idx' = s
         ELSE idx' = s - 1 /\ UNCHANGED buckets
      /\ UNCHANGED <<eh, pc, stream>>
  BY DEF CompressCount
<1>4. s \in 1..idx
  BY <1>1, <1>3, RunStart DEF Sized
<1> HIDE DEF s
<1>5. CASE 2 * (idx - s + 1) >= eh.k + 4
  <2>1. s <= idx - 2
    BY <1>1, <1>2, <1>4, <1>5
  <2>2. MergeAt(s) /\ idx' = s
    BY <1>3, <1>5
  <2> QED
    BY <1>1, <1>3, <1>4, <1>5, <2>1, <2>2 DEF s
<1>6. CASE ~ (2 * (idx - s + 1) >= eh.k + 4)
  <2>1. 2 * (idx - s + 1) < eh.k + 4
    BY <1>1, <1>2, <1>4, <1>6
  <2>2. idx' = s - 1 /\ UNCHANGED buckets
    BY <1>3, <1>6
  <2> QED
    BY <1>1, <1>3, <1>4, <2>1, <2>2 DEF s
<1> QED
  BY <1>5, <1>6

-----------------------------------------------------------------------------
(* Type correctness *)

LEMMA SizedInit == Init => Sized
<1> SUFFICES ASSUME Init
             PROVE  Sized
  OBVIOUS
<1>1. eh.items \in Nat
  BY ConfigFields DEF Init
<1>2. << >> \in Seq(Bucket) /\ << >> \in Seq([key : Key, time : Time])
  BY EmptySeq
<1> QED
  BY <1>1, <1>2 DEF Init, Sized, TypeOK

LEMMA SizedNext == Sized /\ [Next]_vars => Sized'
<1> SUFFICES ASSUME Sized, [Next]_vars
             PROVE  Sized'
  OBVIOUS
<1>1. /\ eh \in Config /\ buckets \in Seq(Bucket) /\ pc \in {"idle", "compress"}
      /\ idx \in 0..eh.items /\ stream \in Seq(Item)
      /\ Len(buckets) <= Len(stream) /\ Len(stream) <= eh.items
      /\ eh.norm = "L1" => idx <= Len(buckets)
  BY DEF Sized, TypeOK, Item
<1>2. Len(buckets) \in Nat /\ Len(stream) \in Nat /\ eh.items \in Nat
  BY <1>1, LenProperties, ConfigFields
<1>3. ASSUME UNCHANGED eh,
             buckets' \in Seq(Bucket), pc' \in {"idle", "compress"},
             idx' \in 0..eh.items, eh.norm = "L1" => idx' <= Len(buckets'),
             stream' \in Seq(Item),
             Len(buckets') <= Len(stream'), Len(stream') <= eh.items
      PROVE  Sized'
  <2>1. Bucket' = Bucket /\ Item' = Item
    BY <1>3 DEF Bucket, Item, Key, Time
  <2>2. Len(buckets') \in Nat /\ Len(stream') \in Nat
    BY <1>3, LenProperties
  <2>3. idx' \in 0..eh'.items
    BY <1>3
  <2>4. buckets' \in Seq(Bucket') /\ stream' \in Seq(Item')
    BY <1>3, <2>1
  <2> QED
    BY <1>1, <1>3, <2>2, <2>3, <2>4 DEF Sized, TypeOK, Item
<1>4. ASSUME NEW i \in 1..Len(buckets)-1, MergeAt(i), UNCHANGED <<eh, stream>>,
             idx' \in 0..eh.items, eh.norm = "L1" => idx' <= Len(buckets) - 1,
             pc' \in {"idle", "compress"}
      PROVE  Sized'
  <2>1. buckets' \in Seq(Bucket) /\ Len(buckets') = Len(buckets) - 1
    BY <1>4, MergeEffect DEF Sized
  <2> QED
    BY <1>1, <1>2, <1>3, <1>4, <2>1
<1>5. CASE \E k \in Key, t \in Time : Update(k, t)
  <2>1. PICK k \in Key, t \in Time : Update(k, t)
    BY <1>5
  <2>2. PICK n \in 0..Len(buckets) :
          /\ Len(stream) < eh.items
          /\ buckets' = Append(SubSeq(buckets, n+1, Len(buckets)), NewBucket(k, t))
          /\ stream' = Append(stream, [key |-> k, time |-> t])
          /\ idx' = Len(buckets) - n + 1
          /\ pc' = "compress"
          /\ UNCHANGED eh
    BY <2>1 DEF Update
  <2>3. /\ buckets' \in Seq(Bucket) /\ Len(buckets') = Len(buckets) - n + 1
        /\ stream' \in Seq(Item) /\ Len(stream') = Len(stream) + 1
    BY <2>2, UpdateEffect
  <2> QED
    BY <1>1, <1>2, <1>3, <2>2, <2>3
<1>6. CASE CompressCount
  <2>1. CASE UNCHANGED buckets
    BY <1>1, <1>2, <1>3, <1>6, <2>1, CountMerge
  <2>2. CASE /\ StartOfRun(idx) <= idx - 2
             /\ MergeAt(StartOfRun(idx))
             /\ idx' = StartOfRun(idx)
    BY <1>1, <1>2, <1>4, <1>6, <2>2, CountMerge
  <2> QED
    BY <1>6, <2>1, <2>2, CountMerge
<1>7. CASE CompressL2
  <2>1. PICK i \in 1..Len(buckets)-1 : Light(i) /\ MergeAt(i)
    BY <1>7 DEF CompressL2
  <2>2. eh.norm # "L1" /\ UNCHANGED <<eh, pc, idx, stream>>
    BY <1>7 DEF CompressL2
  <2> QED
    BY <1>1, <1>2, <1>4, <2>1, <2>2
<1>8. CASE UpdateReturns
  BY <1>1, <1>2, <1>3, <1>8 DEF UpdateReturns
<1>9. CASE UNCHANGED vars
  BY <1>1, <1>2, <1>3, <1>9 DEF vars
<1> QED
  BY <1>5, <1>6, <1>7, <1>8, <1>9 DEF Next
(* The variables have their types, and the buckets are never more than the *)
(* items nor behind the loop variable: no step indexes outside buckets.    *)
THEOREM TypeCorrect == Spec => []TypeOK
<1>1. Init => Sized
  BY SizedInit
<1>2. Sized /\ [Next]_vars => Sized'
  BY SizedNext
<1>3. Sized => TypeOK
  BY DEF Sized
<1> QED
  BY <1>1, <1>2, <1>3, PTL DEF Spec
-----------------------------------------------------------------------------
(* Which items are where *)

Items(b) == ToSet(b.items)

(* Buckets hold positions of the stream, the older bucket the lower ones.  *)
Known == \A i \in 1..Len(buckets) : Items(buckets[i]) \subseteq 1..Len(stream)

Ordered ==
  \A i, j \in 1..Len(buckets) :
    i < j => \A p \in Items(buckets[i]), q \in Items(buckets[j]) : p < q

(* Timestamps that are never late never go back.                           *)
InOrder ==
  eh.lateness = 0 =>
    \A p, q \in 1..Len(stream) : p <= q => stream[p].time <= stream[q].time

Places == Sized /\ Known /\ Ordered /\ InOrder

LEMMA ItemType ==
  ASSUME TypeOK, NEW p \in 1..Len(stream)
  PROVE  stream[p].key \in Key /\ stream[p].time \in Time /\ stream[p].time \in Nat
<1>1. stream \in Seq(Item) /\ Time \subseteq Nat
  BY ConfigFields DEF TypeOK, Item
<1>2. stream[p] \in Item
  BY <1>1, ElementOfSeq
<1> QED
  BY <1>1, <1>2 DEF Item

LEMMA MergedItems ==
  ASSUME NEW a \in Bucket, NEW b \in Bucket
  PROVE  Items(Merged(a, b)) = Items(a) \union Items(b)
<1>1. a.items \in Seq(1..eh.items) /\ b.items \in Seq(1..eh.items)
  BY BucketFields
<1>2. Merged(a, b).items = a.items \o b.items
  BY DEF Merged
<1> QED
  BY <1>1, <1>2, ToSetConcat DEF Items

LEMMA NewItems ==
  ASSUME NEW k, NEW t
  PROVE  Items(NewBucket(k, t)) = {Len(stream) + 1}
<1>1. NewBucket(k, t).items = <<Len(stream) + 1>>
  BY DEF NewBucket
<1> QED
  BY <1>1, ToSetOne DEF Items

(* The effects of MergeAt and Update on the items.                         *)
LEMMA MergePlaces ==
  ASSUME Places, NEW i \in 1..Len(buckets)-1, MergeAt(i), UNCHANGED <<eh, stream>>
  PROVE  (Known /\ Ordered /\ InOrder)'
<1> DEFINE n == Len(buckets)
           I(j) == Items(buckets[j])
           J(j) == Items(buckets'[j])
<1>1. n \in Nat /\ Len(buckets') = n - 1
  BY MergeEffect, LenProperties DEF Places, Sized, TypeOK
<1>2. /\ \A j \in 1..i-1 : J(j) = I(j)
      /\ J(i) = I(i) \union I(i+1)
      /\ \A j \in i+1..n-1 : J(j) = I(j+1)
  <2>1. buckets[i] \in Bucket /\ buckets[i+1] \in Bucket
    BY <1>1, BucketType DEF Places, Sized
  <2>2. /\ \A j \in 1..i-1 : buckets'[j] = buckets[j]
        /\ buckets'[i] = Merged(buckets[i], buckets[i+1])
        /\ \A j \in i+1..n-1 : buckets'[j] = buckets[j+1]
    BY MergeEffect DEF Places, Sized
  <2> QED
    BY <2>1, <2>2, MergedItems
<1>3. /\ \A j \in 1..n : I(j) \subseteq 1..Len(stream)
      /\ \A j, m \in 1..n : j < m => \A p \in I(j), q \in I(m) : p < q
  BY DEF Places, Known, Ordered
<1> HIDE DEF I, J, n
<1>4. \A j \in 1..n-1 : J(j) \subseteq 1..Len(stream)
  <2> SUFFICES ASSUME NEW j \in 1..n-1
               PROVE  J(j) \subseteq 1..Len(stream)
    OBVIOUS
  <2>1. CASE j < i
    <3>1. j \in 1..i-1 /\ j \in 1..n
      BY <1>1, <2>1 DEF n
    <3> QED
      BY <1>2, <1>3, <3>1
  <2>2. CASE j = i
    <3>1. i \in 1..n /\ i+1 \in 1..n
      BY <1>1 DEF n
    <3> QED
      BY <1>2, <1>3, <2>2, <3>1
  <2>3. CASE j > i
    <3>1. j \in i+1..n-1 /\ j+1 \in 1..n
      BY <1>1, <2>3 DEF n
    <3> QED
      BY <1>2, <1>3, <3>1
  <2> QED
    BY <2>1, <2>2, <2>3 DEF n
<1>5. ASSUME NEW j \in 1..n-1, NEW m \in 1..n-1, j < m,
             NEW p \in J(j), NEW q \in J(m)
      PROVE  p < q
  <2>1. PICK x \in 1..n : p \in I(x) /\ (x = j \/ x = j+1) /\ (x = j+1 => j >= i)
                         /\ (x = j => j <= i)
    <3>1. CASE j < i
      BY <1>1, <1>2, <1>5, <3>1 DEF n
    <3>2. CASE j = i
      BY <1>1, <1>2, <1>5, <3>2 DEF n
    <3>3. CASE j > i
      BY <1>1, <1>2, <1>5, <3>3 DEF n
    <3> QED
      BY <3>1, <3>2, <3>3 DEF n
  <2>2. PICK y \in 1..n : q \in I(y) /\ (y = m \/ y = m+1) /\ (y = m+1 => m >= i)
                         /\ (y = m => m <= i)
    <3>1. CASE m < i
      BY <1>1, <1>2, <1>5, <3>1 DEF n
    <3>2. CASE m = i
      BY <1>1, <1>2, <1>5, <3>2 DEF n
    <3>3. CASE m > i
      BY <1>1, <1>2, <1>5, <3>3 DEF n
    <3> QED
      BY <3>1, <3>2, <3>3 DEF n
  <2>3. x < y
    BY <1>1, <1>5, <2>1, <2>2 DEF n
  <2> QED
    BY <1>3, <2>1, <2>2, <2>3
<1>6. Known' /\ Ordered'
  BY <1>1, <1>4, <1>5 DEF Known, Ordered, J
<1>7. InOrder'
  BY DEF Places, InOrder
<1> QED
  BY <1>6, <1>7

LEMMA UpdatePlaces ==
  ASSUME Places, NEW k \in Key, NEW t \in Time, NEW n \in 0..Len(buckets),
         Len(stream) < eh.items,
         eh.lateness = 0 => \A p \in 1..Len(stream) : stream[p].time <= t,
         buckets' = Append(SubSeq(buckets, n+1, Len(buckets)), NewBucket(k, t)),
         stream' = Append(stream, [key |-> k, time |-> t]),
         UNCHANGED eh
  PROVE  (Known /\ Ordered /\ InOrder)'
<1> DEFINE m == Len(buckets) - n
           l == Len(stream)
           I(j) == Items(buckets[j])
           J(j) == Items(buckets'[j])
<1>1. /\ Len(buckets) \in Nat /\ m \in Nat /\ l \in Nat
      /\ Len(buckets') = m + 1 /\ Len(stream') = l + 1
  BY UpdateEffect, LenProperties DEF Places, Sized, TypeOK
<1>2. /\ \A j \in 1..m : J(j) = I(j+n) /\ j+n \in 1..Len(buckets)
      /\ J(m+1) = {l + 1}
  <2>1. /\ \A j \in 1..m : buckets'[j] = buckets[j+n]
        /\ buckets'[m+1] = NewBucket(k, t)
    BY UpdateEffect DEF Places
  <2>2. \A j \in 1..m : j+n \in 1..Len(buckets)
    BY <1>1
  <2> QED
    BY <2>1, <2>2, NewItems
<1>3. /\ \A j \in 1..Len(buckets) : I(j) \subseteq 1..l
      /\ \A i, j \in 1..Len(buckets) : i < j => \A p \in I(i), q \in I(j) : p < q
  BY DEF Places, Known, Ordered
<1>4. /\ \A p \in 1..l : stream'[p] = stream[p]
      /\ stream'[l+1].time = t
  BY UpdateEffect DEF Places
<1>5. \A p \in 1..l : stream[p].time \in Nat
  BY ItemType DEF Places, Sized
<1> HIDE DEF I, J, m, l
<1>6. \A j \in 1..m+1 : J(j) \subseteq 1..l+1
  <2> SUFFICES ASSUME NEW j \in 1..m+1
               PROVE  J(j) \subseteq 1..l+1
    OBVIOUS
  <2>1. CASE j = m+1
    BY <1>1, <1>2, <2>1
  <2>2. CASE j # m+1
    <3>1. j \in 1..m
      BY <1>1, <2>2
    <3>2. J(j) \subseteq 1..l
      BY <1>2, <1>3, <3>1
    <3> QED
      BY <1>1, <3>2
  <2> QED
    BY <2>1, <2>2
<1>7. ASSUME NEW i \in 1..m+1, NEW j \in 1..m+1, i < j,
             NEW p \in J(i), NEW q \in J(j)
      PROVE  p < q
  <2>1. i \in 1..m /\ i+n \in 1..Len(buckets) /\ p \in I(i+n)
    BY <1>1, <1>2, <1>7
  <2>2. CASE j = m+1
    <3>1. q = l + 1 /\ p \in 1..l
      BY <1>2, <1>3, <1>7, <2>1, <2>2
    <3> QED
      BY <1>1, <3>1
  <2>3. CASE j # m+1
    <3>1. j \in 1..m /\ j+n \in 1..Len(buckets) /\ q \in I(j+n)
      BY <1>1, <1>2, <1>7, <2>3
    <3>2. i+n < j+n
      BY <1>7
    <3> QED
      BY <1>3, <2>1, <3>1, <3>2
  <2> QED
    BY <2>2, <2>3
<1>8. Known' /\ Ordered'
  BY <1>1, <1>6, <1>7 DEF Known, Ordered, J
<1>9. ASSUME eh.lateness = 0, NEW p \in 1..l+1, NEW q \in 1..l+1, p <= q
      PROVE  stream'[p].time <= stream'[q].time
  <2>1. CASE q = l+1 /\ p # l+1
    <3>1. p \in 1..l
      BY <1>1, <2>1
    <3>2. stream[p].time <= t
      BY <1>9, <3>1 DEF l
    <3> QED
      BY <1>4, <2>1, <3>1, <3>2
  <2>2. CASE p = l+1
    <3>1. q = l+1
      BY <1>1, <1>9, <2>2
    <3>2. t <= t
      BY ConfigFields DEF Places, Sized, TypeOK
    <3> QED
      BY <1>4, <2>2, <3>1, <3>2
  <2>3. CASE q # l+1
    <3>1. p \in 1..l /\ q \in 1..l
      BY <1>1, <1>9, <2>3
    <3>2. stream[p].time <= stream[q].time
      BY <1>9, <3>1 DEF Places, InOrder, l
    <3> QED
      BY <1>4, <3>1, <3>2
  <2> QED
    BY <2>1, <2>2, <2>3
<1>10. InOrder'
  BY <1>1, <1>9 DEF InOrder
<1> QED
  BY <1>8, <1>10
(* An element of a set of naturals that bounds the others is the greatest. *)
LEMMA MaxIs ==
  ASSUME NEW S, S \subseteq Nat, NEW u \in S, \A x \in S : x <= u
  PROVE  Max(S) = u
<1> DEFINE g == Max(S)
<1>1. g \in S /\ \A x \in S : g >= x
  <2>1. \A x \in S : u >= x
    OBVIOUS
  <2> QED
    BY <2>1 DEF Max
<1> HIDE DEF g
<1>2. g \in Nat /\ u \in Nat /\ g >= u /\ g <= u
  BY <1>1
<1>3. g = u
  BY <1>2
<1> QED
  BY <1>3 DEF g

(* A nonempty set of naturals with a bound has one.                        *)
LEMMA MaxExists ==
  ASSUME NEW S, S \subseteq Nat, S # {}, NEW b \in Nat, \A x \in S : x <= b
  PROVE  Max(S) \in S /\ \A x \in S : x <= Max(S)
<1> DEFINE T == {u \in Nat : \A x \in S : x <= u}
<1>1. PICK u \in T : \A v \in T : u <= v
  <2>1. T \subseteq Nat /\ b \in T
    OBVIOUS
  <2> QED
    BY <2>1, LeastNatural
<1>2. u \in S
  <2>1. CASE u = 0
    <3>1. PICK x \in S : TRUE
      OBVIOUS
    <3>2. x <= 0 /\ x \in Nat
      BY <1>1, <2>1
    <3> QED
      BY <2>1, <3>1, <3>2
  <2>2. CASE u # 0
    <3>1. u-1 \in Nat /\ u-1 \notin T
      BY <1>1, <2>2
    <3>2. PICK x \in S : ~ (x <= u-1)
      BY <3>1
    <3>3. x = u
      BY <1>1, <3>1, <3>2
    <3> QED
      BY <3>3
  <2> QED
    BY <2>1, <2>2
<1>3. Max(S) = u
  BY <1>1, <1>2, MaxIs
<1> QED
  BY <1>1, <1>2, <1>3

(* The latest timestamp is that of an item and bounds all others.          *)
LatestOf(st) == Max({0} \union {st[p].time : p \in 1..Len(st)})

LEMMA LatestOfIs ==
  ASSUME NEW b \in Nat,
         NEW st, \A p \in 1..Len(st) : st[p].time \in 0..b
  PROVE  /\ LatestOf(st) \in Nat
         /\ \A p \in 1..Len(st) : st[p].time <= LatestOf(st)
         /\ LatestOf(st) = 0 \/ \E p \in 1..Len(st) : LatestOf(st) = st[p].time
<1> DEFINE T == {u \in Nat : \A p \in 1..Len(st) : st[p].time <= u}
           S == {0} \union {st[p].time : p \in 1..Len(st)}
<1>1. b \in T
  OBVIOUS
<1>2. PICK u \in T : \A v \in T : u <= v
  <2>1. T \subseteq Nat
    OBVIOUS
  <2> QED
    BY <1>1, <2>1, LeastNatural
<1>3. u \in S
  <2> SUFFICES ASSUME u # 0 PROVE u \in S
    OBVIOUS
  <2>1. u-1 \in Nat /\ u-1 \notin T
    BY <1>2
  <2>2. PICK p \in 1..Len(st) : ~ (st[p].time <= u-1)
    BY <2>1
  <2>3. st[p].time = u
    BY <1>2, <2>2
  <2> QED
    BY <2>3
<1>4. S \subseteq Nat /\ \A x \in S : x <= u
  BY <1>2
<1>5. Max(S) = u
  <2> HIDE DEF S
  <2> QED
    BY <1>3, <1>4, MaxIs
<1>6. LatestOf(st) = Max(S)
  BY DEF LatestOf
<1> QED
  BY <1>2, <1>3, <1>5, <1>6

LEMMA LatestIs ==
  ASSUME TypeOK
  PROVE  /\ Latest \in Nat
         /\ \A p \in 1..Len(stream) : stream[p].time <= Latest
         /\ Latest = 0 \/ \E p \in 1..Len(stream) : Latest = stream[p].time
<1>1. \A p \in 1..Len(stream) : stream[p].time \in 0..eh.lastTime
  BY ItemType DEF Time
<1>2. eh.lastTime \in Nat
  BY ConfigFields DEF TypeOK
<1>3. Latest = LatestOf(stream)
  BY DEF Latest, LatestOf
<1> QED
  BY <1>1, <1>2, <1>3, LatestOfIs

LEMMA UpdateInOrder ==
  ASSUME TypeOK, NEW t \in Time, t >= Latest - eh.lateness, eh.lateness = 0
  PROVE  \A p \in 1..Len(stream) : stream[p].time <= t
<1>1. t \in Nat
  BY ConfigFields DEF TypeOK
<1> QED
  BY <1>1, LatestIs, ItemType

LEMMA PlacesInit == Init => Places
<1> SUFFICES ASSUME Init
             PROVE  Places
  OBVIOUS
<1>1. Sized
  BY SizedInit
<1>2. Len(buckets) = 0 /\ Len(stream) = 0
  BY DEF Init
<1> QED
  BY <1>1, <1>2 DEF Places, Known, Ordered, InOrder

LEMMA PlacesNext == Places /\ [Next]_vars => Places'
<1> SUFFICES ASSUME Places, [Next]_vars
             PROVE  Places'
  OBVIOUS
<1>1. Sized'
  BY SizedNext DEF Places
<1>2. ASSUME UNCHANGED <<eh, buckets, stream>>
      PROVE  Places'
  BY <1>1, <1>2 DEF Places, Known, Ordered, InOrder
<1>3. ASSUME NEW i \in 1..Len(buckets)-1, MergeAt(i), UNCHANGED <<eh, stream>>
      PROVE  Places'
  BY <1>1, <1>3, MergePlaces DEF Places
<1>4. CASE \E k \in Key, t \in Time : Update(k, t)
  <2>1. PICK k \in Key, t \in Time : Update(k, t)
    BY <1>4
  <2>2. PICK n \in 0..Len(buckets) :
          /\ Len(stream) < eh.items
          /\ t >= Latest - eh.lateness
          /\ buckets' = Append(SubSeq(buckets, n+1, Len(buckets)), NewBucket(k, t))
          /\ stream' = Append(stream, [key |-> k, time |-> t])
          /\ UNCHANGED eh
    BY <2>1 DEF Update
  <2>3. eh.lateness = 0 => \A p \in 1..Len(stream) : stream[p].time <= t
    BY <2>2, UpdateInOrder DEF Places, Sized
  <2> QED
    BY <1>1, <2>2, <2>3, UpdatePlaces DEF Places
<1>5. CASE CompressCount
  <2>1. UNCHANGED <<eh, stream>>
    BY <1>5, CountMerge DEF Places
  <2>2. CASE UNCHANGED buckets
    BY <1>2, <2>1, <2>2
  <2>3. CASE StartOfRun(idx) <= idx - 2 /\ MergeAt(StartOfRun(idx))
    <3>1. StartOfRun(idx) \in 1..Len(buckets)-1
      BY <1>5, <2>3, CountMerge, LenProperties DEF Places, Sized, TypeOK
    <3> QED
      BY <1>3, <2>1, <2>3, <3>1
  <2> QED
    BY <1>5, <2>2, <2>3, CountMerge DEF Places
<1>6. CASE CompressL2
  BY <1>3, <1>6 DEF CompressL2
<1>7. CASE UpdateReturns
  BY <1>2, <1>7 DEF UpdateReturns
<1>8. CASE UNCHANGED vars
  BY <1>2, <1>8 DEF vars
<1> QED
  BY <1>4, <1>5, <1>6, <1>7, <1>8 DEF Next
-----------------------------------------------------------------------------
(* What a bucket says of its items *)

KeyItems(I, st, k) == {p \in I : st[p].key = k}

(* The size, the span, the counts and the energy of bucket b in stream st. *)
SizeExact(b) == b.size = Len(b.items)

SpanExact(b, st) ==
  /\ \A p \in Items(b) : b.minTime <= st[p].time /\ st[p].time <= b.maxTime
  /\ \E p \in Items(b) : st[p].time = b.minTime
  /\ \E p \in Items(b) : st[p].time = b.maxTime

CountsExact(b, st) ==
  \A k \in Key : b.counts[k] = Cardinality(KeyItems(Items(b), st, k))

EnergyExact(b) ==
  eh.norm = "L2" =>
    b.mass = PrefixSum([k \in Key |-> b.counts[k] * b.counts[k]], eh.numKeys)

Exact(b, st) ==
  SizeExact(b) /\ SpanExact(b, st) /\ CountsExact(b, st) /\ EnergyExact(b)

AllExact == \A i \in 1..Len(buckets) : Exact(buckets[i], stream)

(* Two neighbours that are exact make an exact bucket: the spans join up   *)
(* (for NormL2 because the stream is in order), no item is in both, and    *)
(* the energies added key by key are those of the sums.                    *)
LEMMA MergedSizeExact ==
  ASSUME NEW a \in Bucket, NEW b \in Bucket, SizeExact(a), SizeExact(b)
  PROVE  SizeExact(Merged(a, b))
<1>1. a.items \in Seq(1..eh.items) /\ b.items \in Seq(1..eh.items)
  BY BucketFields
<1>2. Len(a.items \o b.items) = Len(a.items) + Len(b.items)
  BY <1>1, ConcatProperties
<1> QED
  BY <1>2 DEF SizeExact, Merged

LEMMA MergedSpanExact ==
  ASSUME TypeOK, NEW a \in Bucket, NEW b \in Bucket,
         Items(a) \union Items(b) \subseteq 1..Len(stream),
         SpanExact(a, stream), SpanExact(b, stream),
         eh.norm = "L2" =>
           \A p \in Items(a), q \in Items(b) : stream[p].time <= stream[q].time
  PROVE  SpanExact(Merged(a, b), stream)
<1> DEFINE m == Merged(a, b)
           time(p) == stream[p].time
<1>1. /\ Items(m) = Items(a) \union Items(b)
      /\ m.minTime = IF eh.norm = "L1" THEN Lesser(a.minTime, b.minTime) ELSE a.minTime
      /\ m.maxTime = IF eh.norm = "L1" THEN Greater(a.maxTime, b.maxTime) ELSE b.maxTime
  BY MergedItems DEF Merged
<1>2. /\ a.minTime \in Nat /\ a.maxTime \in Nat
      /\ b.minTime \in Nat /\ b.maxTime \in Nat
      /\ \A p \in Items(a) \union Items(b) : time(p) \in Nat
  BY BucketFields, ConfigFields, ItemType DEF TypeOK
<1>3. /\ \A p \in Items(a) : a.minTime <= time(p) /\ time(p) <= a.maxTime
      /\ \A p \in Items(b) : b.minTime <= time(p) /\ time(p) <= b.maxTime
  BY DEF SpanExact
<1>4. PICK pa \in Items(a), qa \in Items(a), pb \in Items(b), qb \in Items(b) :
        /\ time(pa) = a.minTime /\ time(qa) = a.maxTime
        /\ time(pb) = b.minTime /\ time(qb) = b.maxTime
  BY DEF SpanExact
<1> HIDE DEF m
<1>5. CASE eh.norm = "L1"
  <2>1. /\ m.minTime <= a.minTime /\ m.minTime <= b.minTime
        /\ m.maxTime >= a.maxTime /\ m.maxTime >= b.maxTime
        /\ m.minTime \in Nat /\ m.maxTime \in Nat
        /\ m.minTime = a.minTime \/ m.minTime = b.minTime
        /\ m.maxTime = a.maxTime \/ m.maxTime = b.maxTime
    BY <1>1, <1>2, <1>5 DEF Lesser, Greater
  <2>2. \A p \in Items(m) : m.minTime <= time(p) /\ time(p) <= m.maxTime
    BY <1>1, <1>2, <1>3, <2>1, SMTT(30)
  <2>3. \E p \in Items(m) : time(p) = m.minTime
    BY <1>1, <1>4, <2>1
  <2>4. \E p \in Items(m) : time(p) = m.maxTime
    BY <1>1, <1>4, <2>1
  <2> QED
    BY <2>2, <2>3, <2>4 DEF SpanExact, m
<1>6. CASE eh.norm = "L2"
  <2>1. m.minTime = a.minTime /\ m.maxTime = b.maxTime
    BY <1>1, <1>6
  <2>2. \A p \in Items(a), q \in Items(b) : time(p) <= time(q)
    BY <1>6
  <2>3. \A p \in Items(a) : m.minTime <= time(p) /\ time(p) <= m.maxTime
    BY <1>2, <1>3, <1>4, <2>1, <2>2
  <2>4. \A p \in Items(b) : m.minTime <= time(p) /\ time(p) <= m.maxTime
    BY <1>2, <1>3, <1>4, <2>1, <2>2
  <2> QED
    BY <1>1, <1>4, <2>1, <2>3, <2>4 DEF SpanExact, m
<1> QED
  BY <1>5, <1>6, ConfigFields DEF TypeOK

LEMMA MergedCountsExact ==
  ASSUME TypeOK, NEW a \in Bucket, NEW b \in Bucket,
         Items(a) \union Items(b) \subseteq 1..Len(stream),
         Items(a) \intersect Items(b) = {},
         CountsExact(a, stream), CountsExact(b, stream)
  PROVE  CountsExact(Merged(a, b), stream)
<1> SUFFICES ASSUME NEW k \in Key
             PROVE  Merged(a, b).counts[k]
                      = Cardinality(KeyItems(Items(Merged(a, b)), stream, k))
  BY DEF CountsExact
<1> DEFINE A == KeyItems(Items(a), stream, k)
           B == KeyItems(Items(b), stream, k)
<1>1. KeyItems(Items(Merged(a, b)), stream, k) = A \union B
  BY MergedItems DEF KeyItems
<1>2. A \intersect B = {} /\ A \subseteq 1..Len(stream) /\ B \subseteq 1..Len(stream)
  BY DEF KeyItems
<1>3. Merged(a, b).counts[k] = Cardinality(A) + Cardinality(B)
  BY DEF Merged, CountsExact
<1> HIDE DEF A, B
<1>4. IsFiniteSet(A) /\ IsFiniteSet(B)
  <2>1. IsFiniteSet(1..Len(stream))
    BY LenProperties, FS_Interval DEF TypeOK
  <2> QED
    BY <1>2, <2>1, FS_Subset
<1>5. Cardinality(A) \in Nat /\ Cardinality(B) \in Nat
  BY <1>4, FS_CardinalityType
<1>6. Cardinality(A \union B) = Cardinality(A) + Cardinality(B) - Cardinality(A \intersect B)
  BY <1>4, FS_Union
<1>7. Cardinality(A \intersect B) = 0
  BY <1>2, FS_EmptySet
<1>8. Cardinality(A \union B) = Cardinality(A) + Cardinality(B)
  BY <1>5, <1>6, <1>7
<1> QED
  BY <1>1, <1>3, <1>8

LEMMA MergedEnergyExact ==
  ASSUME eh \in Config, NEW a \in Bucket, NEW b \in Bucket, EnergyExact(a)
  PROVE  EnergyExact(Merged(a, b))
<1> SUFFICES ASSUME eh.norm = "L2"
             PROVE  Merged(a, b).mass
                      = PrefixSum([k \in Key |-> Merged(a, b).counts[k]
                                                  * Merged(a, b).counts[k]], eh.numKeys)
  BY DEF EnergyExact
<1> DEFINE n == eh.numKeys
           old == [k \in Key |-> a.counts[k] * a.counts[k]]
           new == [k \in Key |-> Merged(a, b).counts[k] * Merged(a, b).counts[k]]
           grown == [k \in Key |->
                      (a.counts[k] + b.counts[k]) * (a.counts[k] + b.counts[k])
                        - a.counts[k] * a.counts[k]]
<1>1. n \in Nat /\ Key = 1..n
  BY ConfigFields
<1>2. \A k \in Key : a.counts[k] \in Nat /\ b.counts[k] \in Nat
  BY BucketFields
<1>3. Merged(a, b).mass = a.mass + PrefixSum(grown, n)
  BY DEF Merged
<1>4. a.mass = PrefixSum(old, n)
  BY DEF EnergyExact
<1>5. \A k \in 1..n : old[k] \in Int /\ grown[k] \in Int /\ new[k] = old[k] + grown[k]
  <2> SUFFICES ASSUME NEW k \in Key
               PROVE  old[k] \in Int /\ grown[k] \in Int /\ new[k] = old[k] + grown[k]
    BY <1>1
  <2> DEFINE x == a.counts[k]
             y == b.counts[k]
  <2>1. /\ old[k] = x * x
        /\ grown[k] = (x + y) * (x + y) - x * x
        /\ new[k] = (x + y) * (x + y)
    BY DEF Merged
  <2>2. x \in Nat /\ y \in Nat
    BY <1>2
  <2> HIDE DEF old, grown, new, x, y
  <2>3. (x + y) * (x + y) \in Int /\ x * x \in Int
    BY <2>2
  <2> QED
    BY <2>1, <2>3
<1> HIDE DEF n, old, new, grown
<1>6. PrefixSum(new, n) = PrefixSum(old, n) + PrefixSum(grown, n)
  BY <1>1, <1>5, PrefixSumAdd
<1> QED
  BY <1>3, <1>4, <1>6 DEF n, new

LEMMA MergedExact ==
  ASSUME Places, InOrderL2, NEW i \in 1..Len(buckets)-1,
         Exact(buckets[i], stream), Exact(buckets[i+1], stream)
  PROVE  Exact(Merged(buckets[i], buckets[i+1]), stream)
<1> DEFINE a == buckets[i]
           b == buckets[i+1]
<1>1. Len(buckets) \in Nat /\ i \in 1..Len(buckets) /\ i+1 \in 1..Len(buckets) /\ i < i+1
  BY LenProperties DEF Places, Sized, TypeOK
<1>2. a \in Bucket /\ b \in Bucket
  BY <1>1, BucketType DEF Places, Sized
<1>3. Items(a) \union Items(b) \subseteq 1..Len(stream)
  BY <1>1 DEF Places, Known
<1>4. \A p \in Items(a), q \in Items(b) : p < q
  BY <1>1 DEF Places, Ordered
<1>5. Items(a) \intersect Items(b) = {}
  BY <1>3, <1>4
<1>6. eh.norm = "L2" =>
        \A p \in Items(a), q \in Items(b) : stream[p].time <= stream[q].time
  <2> SUFFICES ASSUME eh.norm = "L2", NEW p \in Items(a), NEW q \in Items(b)
               PROVE  stream[p].time <= stream[q].time
    OBVIOUS
  <2>1. eh.lateness = 0
    BY DEF InOrderL2, Places, Sized, TypeOK
  <2>2. p \in 1..Len(stream) /\ q \in 1..Len(stream) /\ p <= q
    BY <1>3, <1>4
  <2> QED
    BY <2>1, <2>2 DEF Places, InOrder
<1> HIDE DEF a, b
<1>7. Exact(a, stream) /\ Exact(b, stream)
  BY DEF a, b
<1>8. Exact(Merged(a, b), stream)
  BY <1>2, <1>3, <1>5, <1>6, <1>7, MergedSizeExact, MergedSpanExact, MergedCountsExact,
     MergedEnergyExact DEF Exact, Places, Sized, TypeOK
<1> QED
  BY <1>8 DEF a, b
(* A new bucket is exact about its one item, ...                           *)
LEMMA NewExact ==
  ASSUME TypeOK, NEW k \in Key, NEW t \in Time, NEW st,
         st[Len(stream)+1] = [key |-> k, time |-> t]
  PROVE  Exact(NewBucket(k, t), st)
<1> DEFINE b == NewBucket(k, t)
           l == Len(stream) + 1
<1>1. /\ b.items = <<l>> /\ b.size = 1 /\ b.minTime = t /\ b.maxTime = t
      /\ b.counts = [j \in Key |-> IF j = k THEN 1 ELSE 0]
      /\ eh.norm = "L2" => b.mass = 1
  BY DEF NewBucket
<1>2. Items(b) = {l}
  BY NewItems
<1>3. st[l].key = k /\ st[l].time = t
  OBVIOUS
<1>4. eh.numKeys \in Nat /\ Key = 1..eh.numKeys /\ t \in Nat
  BY ConfigFields DEF TypeOK
<1> HIDE DEF b, l
<1>5. SizeExact(b)
  BY <1>1 DEF SizeExact
<1>6. SpanExact(b, st)
  BY <1>1, <1>2, <1>3, <1>4 DEF SpanExact
<1>7. CountsExact(b, st)
  <2> SUFFICES ASSUME NEW j \in Key
               PROVE  b.counts[j] = Cardinality(KeyItems(Items(b), st, j))
    BY DEF CountsExact
  <2>1. CASE j = k
    <3>1. KeyItems(Items(b), st, j) = {l}
      BY <1>2, <1>3, <2>1 DEF KeyItems
    <3> QED
      BY <1>1, <2>1, <3>1, FS_Singleton
  <2>2. CASE j # k
    <3>1. KeyItems(Items(b), st, j) = {}
      BY <1>2, <1>3, <2>2 DEF KeyItems
    <3> QED
      BY <1>1, <2>2, <3>1, FS_EmptySet
  <2> QED
    BY <2>1, <2>2
<1>8. EnergyExact(b)
  <2> SUFFICES ASSUME eh.norm = "L2"
               PROVE  b.mass = PrefixSum([j \in Key |-> b.counts[j] * b.counts[j]], eh.numKeys)
    BY DEF EnergyExact
  <2> DEFINE f == [j \in Key |-> b.counts[j] * b.counts[j]]
             z == [j \in Key |-> 0]
             n == eh.numKeys
  <2>1. \A j \in 1..n : f[j] = IF j = k THEN 1 ELSE 0
    BY <1>1, <1>4
  <2>2. \A j \in 1..n : z[j] = 0
    BY <1>4
  <2>3. n \in Nat /\ k \in 1..n
    BY <1>4
  <2> HIDE DEF f, z, n
  <2>4. PrefixSum(z, n) = 0
    BY <2>2, <2>3, PrefixSumZeros
  <2>5. PrefixSum(f, n) = PrefixSum(z, n) + 1
    <3> DEFINE d == 1
    <3>1. /\ \A j \in 1..n : z[j] \in Int
          /\ d \in Int /\ f[k] = z[k] + d
          /\ \A j \in 1..n : j # k => f[j] = z[j]
      BY <2>1, <2>2, <2>3
    <3> HIDE DEF d
    <3>2. PrefixSum(f, n) = PrefixSum(z, n) + d
      BY <2>3, <3>1, PrefixSumUpdate
    <3> QED
      BY <3>2 DEF d
  <2>6. PrefixSum(f, n) = 1
    BY <2>4, <2>5
  <2> QED
    BY <1>1, <2>6 DEF f, n
<1> QED
  BY <1>5, <1>6, <1>7, <1>8 DEF Exact, b

(* ... and a bucket stays exact while the stream grows at its end.         *)
LEMMA KeptExact ==
  ASSUME NEW b, NEW l, Items(b) \subseteq 1..l, Exact(b, stream), NEW st,
         \A p \in 1..l : st[p] = stream[p]
  PROVE  Exact(b, st)
<1>1. SpanExact(b, st)
  BY DEF Exact, SpanExact
<1>2. \A k \in Key : KeyItems(Items(b), st, k) = KeyItems(Items(b), stream, k)
  BY DEF KeyItems
<1>3. CountsExact(b, st)
  BY <1>2 DEF Exact, CountsExact
<1> QED
  BY <1>1, <1>3 DEF Exact

LEMMA ExactNext ==
  ASSUME InOrderL2, Places, AllExact, [Next]_vars
  PROVE  AllExact'
<1> DEFINE n == Len(buckets)
<1>1. n \in Nat /\ TypeOK
  BY LenProperties DEF Places, Sized, TypeOK
<1>2. ASSUME UNCHANGED eh, NEW j \in 1..Len(buckets'), Exact(buckets'[j], stream')
      PROVE  Exact(buckets[j], stream)'
  BY <1>2 DEF Exact, SizeExact, SpanExact, CountsExact, EnergyExact, Key
<1>3. ASSUME NEW i \in 1..n-1, MergeAt(i), UNCHANGED <<eh, stream>>
      PROVE  AllExact'
  <2>1. /\ Len(buckets') = n - 1
        /\ \A j \in 1..i-1 : buckets'[j] = buckets[j]
        /\ buckets'[i] = Merged(buckets[i], buckets[i+1])
        /\ \A j \in i+1..n-1 : buckets'[j] = buckets[j+1]
    BY <1>1, <1>3, MergeEffect
  <2>2. Exact(Merged(buckets[i], buckets[i+1]), stream)
    <3>1. i \in 1..n /\ i+1 \in 1..n
      BY <1>1
    <3> QED
      BY <3>1, MergedExact DEF AllExact
  <2>3. \A j \in 1..n : Exact(buckets[j], stream)
    BY DEF AllExact
  <2> HIDE DEF n
  <2>4. ASSUME NEW j \in 1..n-1
        PROVE  Exact(buckets'[j], stream)
    <3>1. CASE j < i
      BY <1>1, <2>1, <2>3, <3>1
    <3>2. CASE j = i
      BY <2>1, <2>2, <3>2
    <3>3. CASE j > i
      BY <1>1, <2>1, <2>3, <3>3
    <3> QED
      BY <1>1, <3>1, <3>2, <3>3
  <2>5. \A j \in 1..Len(buckets') : Exact(buckets[j], stream)'
    BY <1>2, <1>3, <2>1, <2>4
  <2> QED
    BY <2>5 DEF AllExact
<1>4. CASE \E k \in Key, t \in Time : Update(k, t)
  <2>1. PICK k \in Key, t \in Time : Update(k, t)
    BY <1>4
  <2>2. PICK m \in 0..n :
          /\ Len(stream) < eh.items
          /\ buckets' = Append(SubSeq(buckets, m+1, Len(buckets)), NewBucket(k, t))
          /\ stream' = Append(stream, [key |-> k, time |-> t])
          /\ UNCHANGED eh
    BY <2>1 DEF Update
  <2>3. /\ Len(buckets') = n - m + 1
        /\ \A j \in 1..n-m : buckets'[j] = buckets[j+m]
        /\ buckets'[n-m+1] = NewBucket(k, t)
        /\ \A p \in 1..Len(stream) : stream'[p] = stream[p]
        /\ stream'[Len(stream)+1] = [key |-> k, time |-> t]
    BY <2>2, UpdateEffect DEF Places
  <2>4. Exact(NewBucket(k, t), stream')
    BY <1>1, <2>3, NewExact
  <2>5. \A j \in 1..n : Exact(buckets[j], stream')
    <3> SUFFICES ASSUME NEW j \in 1..n
                 PROVE  Exact(buckets[j], stream')
      OBVIOUS
    <3> DEFINE b == buckets[j]
               l == Len(stream)
               st == stream'
    <3>1. /\ Items(b) \subseteq 1..l /\ Exact(b, stream)
          /\ \A p \in 1..l : st[p] = stream[p]
      BY <2>3 DEF Places, Known, AllExact
    <3> HIDE DEF b, l, st
    <3>2. Exact(b, st)
      BY <3>1, KeptExact
    <3> QED
      BY <3>2 DEF b, st
  <2> HIDE DEF n
  <2>6. ASSUME NEW j \in 1..Len(buckets')
        PROVE  Exact(buckets'[j], stream')
    <3>1. CASE j = n-m+1
      BY <2>3, <2>4, <3>1
    <3>2. CASE j # n-m+1
      <4>1. j \in 1..n-m /\ j+m \in 1..n
        BY <1>1, <2>3, <3>2
      <4> QED
        BY <2>3, <2>5, <4>1
    <3> QED
      BY <3>1, <3>2
  <2>7. \A j \in 1..Len(buckets') : Exact(buckets[j], stream)'
    BY <1>2, <2>2, <2>6
  <2> QED
    BY <2>7 DEF AllExact
<1>5. ASSUME UNCHANGED <<eh, buckets, stream>>
      PROVE  AllExact'
  BY <1>5 DEF AllExact, Exact, SizeExact, SpanExact, CountsExact, EnergyExact, Key
<1>6. CASE CompressCount
  <2>1. UNCHANGED <<eh, stream>>
    BY <1>6, CountMerge DEF Places
  <2>2. CASE UNCHANGED buckets
    BY <1>5, <2>1, <2>2
  <2>3. CASE StartOfRun(idx) <= idx - 2 /\ MergeAt(StartOfRun(idx))
    <3>1. StartOfRun(idx) \in 1..n-1
      BY <1>1, <1>6, <2>3, CountMerge DEF Places
    <3> QED
      BY <1>3, <2>1, <2>3, <3>1
  <2> QED
    BY <1>6, <2>2, <2>3, CountMerge DEF Places
<1>7. CASE CompressL2
  BY <1>3, <1>7 DEF CompressL2
<1>8. CASE UpdateReturns
  BY <1>5, <1>8 DEF UpdateReturns
<1>9. CASE UNCHANGED vars
  BY <1>5, <1>9 DEF vars
<1> QED
  BY <1>4, <1>6, <1>7, <1>8, <1>9 DEF Next
(* When Update has returned, no two neighbours are light.                  *)
QuietL2 ==
  eh.norm = "L2" /\ pc = "idle" => \A i \in 1..Len(buckets)-1 : ~ Light(i)

LEMMA QuietNext ==
  ASSUME Sized, QuietL2, [Next]_vars
  PROVE  QuietL2'
<1>1. CASE \E k \in Key, t \in Time : Update(k, t)
  BY <1>1 DEF Update, QuietL2
<1>2. CASE CompressCount
  BY <1>2 DEF CompressCount, QuietL2
<1>3. CASE CompressL2
  BY <1>3 DEF CompressL2, QuietL2
<1>4. CASE UpdateReturns
  BY <1>4 DEF UpdateReturns, QuietL2, Light, MassFrom
<1>5. CASE UNCHANGED vars
  BY <1>5 DEF vars, QuietL2, Light, MassFrom
<1> QED
  BY <1>1, <1>2, <1>3, <1>4, <1>5 DEF Next

LEMMA ExactIsBucketsExact ==
  ASSUME TypeOK, AllExact, QuietL2
  PROVE  BucketsExact
<1>1. ASSUME NEW i \in 1..Len(buckets)
      PROVE  LET items == ToSet(buckets[i].items)
                 count(k) == Cardinality({p \in items : stream[p].key = k})
             IN  /\ buckets[i].size = Len(buckets[i].items)
                 /\ \A p \in items : Holds(i, stream[p].time)
                 /\ \E p \in items : stream[p].time = buckets[i].minTime
                 /\ \E p \in items : stream[p].time = buckets[i].maxTime
                 /\ eh.norm = "L2" => buckets[i].mass =
                      PrefixSum([k \in Key |-> count(k) * count(k)], eh.numKeys)
  <2> DEFINE b == buckets[i]
             items == ToSet(b.items)
             count(k) == Cardinality({p \in items : stream[p].key = k})
  <2>1. Exact(b, stream)
    BY <1>1 DEF AllExact
  <2>2. \A k \in Key : b.counts[k] = count(k)
    BY <2>1 DEF Exact, CountsExact, KeyItems, Items
  <2>3. [k \in Key |-> b.counts[k] * b.counts[k]] = [k \in Key |-> count(k) * count(k)]
    <3> HIDE DEF b, count
    <3> QED
      BY <2>2
  <2>4. eh.norm = "L2" => b.mass = PrefixSum([k \in Key |-> count(k) * count(k)], eh.numKeys)
    <3>1. eh.norm = "L2" =>
            b.mass = PrefixSum([k \in Key |-> b.counts[k] * b.counts[k]], eh.numKeys)
      BY <2>1 DEF Exact, EnergyExact
    <3> HIDE DEF b, count
    <3> QED
      BY <2>3, <3>1
  <2>5. SizeExact(b) /\ SpanExact(b, stream)
    BY <2>1 DEF Exact
  <2>6. b.size = Len(b.items)
    BY <2>5 DEF SizeExact
  <2>7. /\ \A p \in items : b.minTime <= stream[p].time /\ stream[p].time <= b.maxTime
        /\ \E p \in items : stream[p].time = b.minTime
        /\ \E p \in items : stream[p].time = b.maxTime
    BY <2>5 DEF SpanExact, Items
  <2> QED
    BY <2>4, <2>6, <2>7 DEF Holds
<1>2. eh.norm = "L2" /\ pc = "idle" => \A i \in 1..Len(buckets)-1 : ~ Light(i)
  BY DEF QuietL2
<1> QED
  BY <1>1, <1>2 DEF BucketsExact, N

ExactInv == Places /\ AllExact

LEMMA ExactInvInit == Init => ExactInv
<1> SUFFICES ASSUME Init
             PROVE  ExactInv
  OBVIOUS
<1>1. Len(buckets) = 0
  BY DEF Init
<1> QED
  BY <1>1, PlacesInit DEF ExactInv, AllExact

(* A bucket's size and span are those of its items, and its energy is the  *)
(* sum of their squared counts, through every merge and expiry; and an L2  *)
(* histogram is compressed when Update returns.                            *)
THEOREM HistogramIsExact ==
  ASSUME InOrderL2
  PROVE  Spec => []BucketsExact
<1>1. Init => ExactInv /\ QuietL2
  BY ExactInvInit DEF QuietL2, Init
<1>2. ExactInv /\ QuietL2 /\ [Next]_vars => (ExactInv /\ QuietL2)'
  BY PlacesNext, ExactNext, QuietNext DEF ExactInv, Places
<1>3. ExactInv /\ QuietL2 => BucketsExact
  BY ExactIsBucketsExact DEF ExactInv, Places, Sized
<1> QED
  BY <1>1, <1>2, <1>3, PTL DEF Spec
-----------------------------------------------------------------------------
(* The window *)

LEMMA HeldIs == Held = UNION {Items(buckets[i]) : i \in 1..Len(buckets)}
BY DEF Held, Items, N

(* Merging loses no item ...                                               *)
LEMMA MergeHolds ==
  ASSUME TypeOK, NEW i \in 1..Len(buckets)-1, MergeAt(i), NEW p \in Held
  PROVE  p \in Held'
<1>1. Len(buckets) \in Nat
  BY LenProperties DEF TypeOK
<1>2. /\ Len(buckets') = Len(buckets) - 1
      /\ \A j \in 1..i-1 : buckets'[j] = buckets[j]
      /\ buckets'[i] = Merged(buckets[i], buckets[i+1])
      /\ \A j \in i+1..Len(buckets)-1 : buckets'[j] = buckets[j+1]
  BY MergeEffect
<1>3. Items(buckets'[i]) = Items(buckets[i]) \union Items(buckets[i+1])
  BY <1>1, <1>2, BucketType, MergedItems
<1>4. PICK j \in 1..Len(buckets) : p \in Items(buckets[j])
  BY HeldIs
<1>5. \E m \in 1..Len(buckets') : p \in Items(buckets'[m])
  <2>1. CASE j < i
    <3>1. j \in 1..i-1 /\ j \in 1..Len(buckets')
      BY <1>1, <1>2, <2>1
    <3> QED
      BY <1>2, <1>4, <3>1
  <2>2. CASE j = i \/ j = i+1
    <3>1. i \in 1..Len(buckets')
      BY <1>1, <1>2
    <3> QED
      BY <1>3, <1>4, <2>2, <3>1
  <2>3. CASE j > i+1
    <3>1. j-1 \in i+1..Len(buckets)-1 /\ j-1 \in 1..Len(buckets') /\ (j-1)+1 = j
      BY <1>1, <1>2, <2>3
    <3>2. buckets'[j-1] = buckets[(j-1)+1]
      BY <1>2, <3>1
    <3> QED
      BY <1>4, <3>1, <3>2
  <2> QED
    BY <1>1, <2>1, <2>2, <2>3
<1> QED
  BY <1>5 DEF Held, Items, N

(* ... and a bucket that is dropped has only items that leave the window,  *)
(* because none of them is younger than its span.                          *)
LEMMA WindowUpdate ==
  ASSUME ExactInv, WindowHeld, NEW k \in Key, NEW t \in Time, Update(k, t)
  PROVE  WindowHeld'
<1> DEFINE l == Len(stream)
           w == eh.windowSize
<1>1. PICK n \in 0..Len(buckets) :
        /\ Len(stream) < eh.items
        /\ Expired(n, t - eh.windowSize)
        /\ buckets' = Append(SubSeq(buckets, n+1, Len(buckets)), NewBucket(k, t))
        /\ stream' = Append(stream, [key |-> k, time |-> t])
        /\ UNCHANGED eh
  BY DEF Update
<1>2. /\ Len(buckets') = Len(buckets) - n + 1
      /\ \A j \in 1..Len(buckets)-n : buckets'[j] = buckets[j+n]
      /\ buckets'[Len(buckets)-n+1] = NewBucket(k, t)
      /\ Len(stream') = l + 1
      /\ \A p \in 1..l : stream'[p] = stream[p]
      /\ stream'[l+1] = [key |-> k, time |-> t]
  BY <1>1, UpdateEffect DEF ExactInv, Places
<1>3. /\ TypeOK /\ Len(buckets) \in Nat /\ l \in Nat /\ w \in Nat
      /\ eh.lastTime \in Nat /\ t \in 0..eh.lastTime
  BY LenProperties, ConfigFields DEF ExactInv, Places, Sized, TypeOK, Time
<1>4. \A p \in 1..l : stream[p].time \in 0..eh.lastTime
  BY <1>3, ItemType DEF Time
<1>5. \A p \in 1..l+1 : stream'[p].time \in 0..eh.lastTime
  <2> SUFFICES ASSUME NEW p \in 1..l+1
               PROVE  stream'[p].time \in 0..eh.lastTime
    OBVIOUS
  <2> HIDE DEF l
  <2>1. CASE p = l+1
    <3>1. stream'[p].time = t
      BY <1>2, <2>1
    <3> QED
      BY <1>3, <3>1
  <2>2. CASE p # l+1
    <3>1. p \in 1..l
      BY <1>3, <2>2
    <3> QED
      BY <1>2, <1>4, <3>1
  <2> QED
    BY <2>1, <2>2
<1>6. /\ LatestOf(stream') \in Nat
      /\ \A p \in 1..l+1 : stream'[p].time <= LatestOf(stream')
  <2> DEFINE b == eh.lastTime
  <2>1. b \in Nat /\ \A p \in 1..Len(stream') : stream'[p].time \in 0..b
    BY <1>2, <1>3, <1>5
  <2> HIDE DEF b
  <2> QED
    BY <1>2, <2>1, LatestOfIs
<1>7. Latest' = LatestOf(stream')
  BY DEF Latest, LatestOf
<1> HIDE DEF l, w
<1>8. t <= Latest' /\ Latest <= Latest'
  <2>1. t <= Latest'
    <3>1. l+1 \in 1..l+1 /\ stream'[l+1].time = t
      BY <1>2, <1>3
    <3> QED
      BY <1>6, <1>7, <3>1
  <2>2. CASE Latest = 0
    BY <1>6, <1>7, <2>1, <2>2
  <2>3. CASE \E p \in 1..Len(stream) : Latest = stream[p].time
    <3>1. PICK p \in 1..l : Latest = stream[p].time
      BY <2>3 DEF l
    <3>2. p \in 1..l+1 /\ stream'[p].time = Latest
      BY <1>2, <1>3, <3>1
    <3> QED
      BY <1>6, <1>7, <2>1, <3>2
  <2> QED
    BY <1>3, <2>1, <2>2, <2>3, LatestIs
<1>9. ASSUME NEW p \in 1..l+1, stream'[p].time >= Latest' - w
      PROVE  \E j \in 1..Len(buckets') : p \in Items(buckets'[j])
  <2>1. CASE p = l+1
    <3>1. p \in Items(NewBucket(k, t))
      BY <2>1, NewItems DEF l
    <3>2. Len(buckets)-n+1 \in 1..Len(buckets')
      BY <1>2, <1>3
    <3> QED
      BY <1>2, <3>1, <3>2
  <2>2. CASE p # l+1
    <3>1. p \in 1..l /\ stream[p].time = stream'[p].time
      BY <1>2, <1>3, <2>2
    <3>2. stream[p].time >= Latest - w
      BY <1>3, <1>4, <1>6, <1>7, <1>8, <1>9, <3>1, LatestIs
    <3>3. p \in Held
      BY <3>1, <3>2 DEF WindowHeld, l, w
    <3>4. PICK j \in 1..Len(buckets) : p \in Items(buckets[j])
      BY <3>3, HeldIs
    <3>5. SpanExact(buckets[j], stream)
      BY DEF ExactInv, AllExact, Exact
    <3>6. stream[p].time <= buckets[j].maxTime /\ buckets[j].maxTime \in Nat
      BY <1>3, <3>4, <3>5, BucketType, BucketFields, ConfigFields DEF SpanExact, TypeOK
    <3>7. j > n
      <4> SUFFICES ASSUME j \in 1..n PROVE FALSE
        BY <1>3
      <4>1. buckets[j].maxTime < t - w
        BY <1>1 DEF Expired, w
      <4> QED
        BY <1>3, <1>4, <1>6, <1>7, <1>8, <1>9, <3>1, <3>6, <4>1
    <3>8. j-n \in 1..Len(buckets)-n /\ j-n \in 1..Len(buckets') /\ (j-n)+n = j
      BY <1>2, <1>3, <3>7
    <3>9. buckets'[j-n] = buckets[(j-n)+n]
      BY <1>2, <3>8
    <3> QED
      BY <3>4, <3>8, <3>9
  <2> QED
    BY <2>1, <2>2
<1>10. ASSUME NEW p \in 1..Len(stream'), stream'[p].time >= Latest' - eh'.windowSize
       PROVE  p \in Held'
  BY <1>1, <1>2, <1>9, <1>10 DEF Held, Items, N, w
<1> QED
  BY <1>10 DEF WindowHeld

LEMMA WindowNext ==
  ASSUME ExactInv, WindowHeld, [Next]_vars
  PROVE  WindowHeld'
<1>1. Len(buckets) \in Nat /\ TypeOK
  BY LenProperties DEF ExactInv, Places, Sized, TypeOK
<1>2. ASSUME UNCHANGED <<eh, buckets, stream>>
      PROVE  WindowHeld'
  BY <1>2 DEF WindowHeld, Held, N, Latest
<1>3. ASSUME NEW i \in 1..Len(buckets)-1, MergeAt(i), UNCHANGED <<eh, stream>>
      PROVE  WindowHeld'
  <2>1. \A p \in Held : p \in Held'
    BY <1>1, <1>3, MergeHolds
  <2>2. Latest' = Latest
    BY <1>3 DEF Latest
  <2> QED
    BY <1>3, <2>1, <2>2 DEF WindowHeld
<1>4. CASE \E k \in Key, t \in Time : Update(k, t)
  BY <1>4, WindowUpdate
<1>5. CASE CompressCount
  <2>1. UNCHANGED <<eh, stream>>
    BY <1>5, CountMerge DEF ExactInv, Places
  <2>2. CASE UNCHANGED buckets
    BY <1>2, <2>1, <2>2
  <2>3. CASE StartOfRun(idx) <= idx - 2 /\ MergeAt(StartOfRun(idx))
    <3>1. StartOfRun(idx) \in 1..Len(buckets)-1
      BY <1>1, <1>5, <2>3, CountMerge DEF ExactInv, Places
    <3> QED
      BY <1>3, <2>1, <2>3, <3>1
  <2> QED
    BY <1>5, <2>2, <2>3, CountMerge DEF ExactInv, Places
<1>6. CASE CompressL2
  BY <1>3, <1>6 DEF CompressL2
<1>7. CASE UpdateReturns
  BY <1>2, <1>7 DEF UpdateReturns
<1>8. CASE UNCHANGED vars
  BY <1>2, <1>8 DEF vars
<1> QED
  BY <1>4, <1>5, <1>6, <1>7, <1>8 DEF Next

(* No item leaves before the window does.                                  *)
THEOREM WindowIsHeld ==
  ASSUME InOrderL2
  PROVE  Spec => []WindowHeld
<1>1. Init => ExactInv /\ WindowHeld
  BY ExactInvInit DEF WindowHeld, Init
<1>2. ExactInv /\ WindowHeld /\ [Next]_vars => (ExactInv /\ WindowHeld)'
  BY PlacesNext, ExactNext, WindowNext DEF ExactInv, Places
<1> QED
  BY <1>1, <1>2, PTL DEF Spec
-----------------------------------------------------------------------------
(* The suffix of the stream *)

(* The items of a bucket are consecutive.                                  *)
Consecutive(s) == s # << >> /\ \A j \in 1..Len(s)-1 : s[j+1] = s[j] + 1

(* Two runs of consecutive items that meet make one.                       *)
LEMMA ConcatConsecutive ==
  ASSUME NEW S, NEW a \in Seq(S), NEW b \in Seq(S),
         Consecutive(a), Consecutive(b), b[1] = a[Len(a)] + 1
  PROVE  /\ Consecutive(a \o b)
         /\ (a \o b)[1] = a[1]
         /\ (a \o b)[Len(a \o b)] = b[Len(b)]
<1> DEFINE c == a \o b
           m == Len(a)
           n == Len(b)
<1>1. m \in Nat \ {0} /\ n \in Nat \ {0}
  BY EmptySeq DEF Consecutive
<1>2. /\ Len(c) = m + n
      /\ \A i \in 1..m+n : c[i] = IF i <= m THEN a[i] ELSE b[i-m]
  BY ConcatProperties
<1>3. c # << >>
  BY <1>1, <1>2
<1>4. /\ \A j \in 1..m-1 : a[j+1] = a[j] + 1
      /\ \A j \in 1..n-1 : b[j+1] = b[j] + 1
      /\ b[1] = a[m] + 1
  BY DEF Consecutive
<1> HIDE DEF c, m, n
<1>5. ASSUME NEW j \in 1..m+n-1
      PROVE  c[j+1] = c[j] + 1
  <2>1. j \in 1..m+n /\ j+1 \in 1..m+n
    BY <1>1
  <2>2. CASE j < m
    <3>1. j \in 1..m-1 /\ j <= m /\ j+1 <= m
      BY <1>1, <2>2
    <3> QED
      BY <1>2, <1>4, <2>1, <3>1
  <2>3. CASE j = m
    <3>1. c[j] = a[m] /\ c[j+1] = b[(j+1)-m]
      BY <1>1, <1>2, <2>1, <2>3
    <3>2. (j+1)-m = 1
      BY <1>1, <2>3
    <3> QED
      BY <1>4, <3>1, <3>2
  <2>4. CASE j > m
    <3>1. c[j] = b[j-m] /\ c[j+1] = b[(j+1)-m]
      BY <1>1, <1>2, <2>1, <2>4
    <3>2. j-m \in 1..n-1 /\ (j+1)-m = (j-m)+1
      BY <1>1, <2>4
    <3> QED
      BY <1>4, <3>1, <3>2
  <2> QED
    BY <1>1, <2>2, <2>3, <2>4
<1>6. Consecutive(c)
  <2>1. ASSUME NEW j \in 1..Len(c)-1
        PROVE  c[j+1] = c[j] + 1
    <3>1. j \in 1..m+n-1
      BY <1>1, <1>2
    <3> QED
      BY <1>5, <3>1
  <2> QED
    BY <1>3, <2>1 DEF Consecutive
<1>7. c[1] = a[1]
  BY <1>1, <1>2
<1>8. c[m+n] = b[n]
  <2>1. m+n \in 1..m+n /\ ~ (m+n <= m) /\ (m+n)-m = n
    BY <1>1
  <2> QED
    BY <1>2, <2>1
<1> QED
  BY <1>2, <1>6, <1>7, <1>8 DEF c, n

(* The buckets of q hold consecutive items up to item l.                   *)
FirstItem(b) == b.items[1]
LastItem(b) == b.items[Len(b.items)]

Suffix(q, l) ==
  \A i \in 1..Len(q) :
    /\ Consecutive(q[i].items)
    /\ IF i < Len(q) THEN FirstItem(q[i+1]) = LastItem(q[i]) + 1 ELSE LastItem(q[i]) = l

LEMMA SuffixHeldIs ==
  SuffixHeld <=> Suffix(buckets, Len(stream)) /\ (stream # << >> => Len(buckets) > 0)
BY DEF SuffixHeld, Suffix, Consecutive, FirstItem, LastItem, N

LEMMA SuffixMerge ==
  ASSUME TypeOK, NEW i \in 1..Len(buckets)-1, MergeAt(i),
         NEW l, Suffix(buckets, l)
  PROVE  Suffix(buckets', l)
<1> DEFINE n == Len(buckets)
           a == buckets[i]
           b == buckets[i+1]
           q == buckets
           r == buckets'
<1>1. /\ n \in Nat /\ Len(q) = n /\ Len(r) = n - 1
      /\ \A j \in 1..i-1 : r[j] = q[j]
      /\ r[i] = Merged(a, b)
      /\ \A j \in i+1..n-1 : r[j] = q[j+1]
  BY MergeEffect, LenProperties DEF TypeOK
<1>2. i \in 1..n /\ i+1 \in 1..n /\ i < n /\ i \in 1..n-1
  BY <1>1
<1>3. a.items \in Seq(1..eh.items) /\ b.items \in Seq(1..eh.items)
  BY <1>2, BucketType, BucketFields
<1>4. \A j \in 1..n :
        /\ Consecutive(q[j].items)
        /\ j < n => FirstItem(q[j+1]) = LastItem(q[j]) + 1
        /\ j = n => LastItem(q[j]) = l
  <2> HIDE DEF n, q
  <2>1. Suffix(q, l)
    BY DEF q
  <2> QED
    BY <1>1, <2>1 DEF Suffix
<1>5. /\ Consecutive(Merged(a, b).items)
      /\ FirstItem(Merged(a, b)) = FirstItem(a)
      /\ LastItem(Merged(a, b)) = LastItem(b)
  <2>1. Consecutive(a.items) /\ Consecutive(b.items) /\ b.items[1] = a.items[Len(a.items)] + 1
    BY <1>2, <1>4 DEF FirstItem, LastItem
  <2>2. Merged(a, b).items = a.items \o b.items
    BY DEF Merged
  <2> DEFINE S == 1..eh.items
             s == a.items
             t == b.items
  <2>3. s \in Seq(S) /\ t \in Seq(S)
    BY <1>3
  <2>4. Consecutive(s) /\ Consecutive(t) /\ t[1] = s[Len(s)] + 1
    BY <2>1
  <2>5. /\ Consecutive(s \o t)
        /\ (s \o t)[1] = s[1]
        /\ (s \o t)[Len(s \o t)] = t[Len(t)]
    <3> HIDE DEF S, s, t
    <3> QED
      BY <2>3, <2>4, ConcatConsecutive
  <2> QED
    BY <2>2, <2>5 DEF FirstItem, LastItem
<1>6. a = q[i] /\ b = q[i+1]
  OBVIOUS
<1> HIDE DEF n, a, b, q, r
<1>7. ASSUME NEW j \in 1..n-1
      PROVE  /\ Consecutive(r[j].items)
             /\ j < n-1 => FirstItem(r[j+1]) = LastItem(r[j]) + 1
             /\ j = n-1 => LastItem(r[j]) = l
  <2>1. CASE j < i-1
    <3>1. j \in 1..i-1 /\ j+1 \in 1..i-1 /\ j \in 1..n /\ j < n /\ j # n-1
      BY <1>1, <1>2, <2>1
    <3> QED
      BY <1>1, <1>4, <3>1
  <2>2. CASE j = i-1
    <3>1. j \in 1..i-1 /\ j+1 = i /\ j \in 1..n /\ j < n /\ j # n-1
      BY <1>1, <1>2, <2>2
    <3> QED
      BY <1>1, <1>4, <1>5, <1>6, <3>1
  <2>3. CASE j = i
    <3>1. j < n-1 => j+1 \in i+1..n-1 /\ i+1 < n /\ (j+1)+1 = (i+1)+1
      BY <1>1, <1>2, <2>3
    <3>2. j = n-1 => i+1 = n
      BY <1>1, <1>2, <2>3
    <3> QED
      BY <1>1, <1>2, <1>4, <1>5, <1>6, <2>3, <3>1, <3>2
  <2>4. CASE j > i
    <3>1. /\ j \in i+1..n-1 /\ j+1 \in 1..n
          /\ j < n-1 => j+1 \in i+1..n-1 /\ j+1 < n
          /\ j = n-1 => j+1 = n
      BY <1>1, <1>2, <2>4
    <3> QED
      BY <1>1, <1>4, <3>1
  <2> QED
    BY <1>1, <1>2, <2>1, <2>2, <2>3, <2>4
<1>8. Len(r) = n-1
  BY <1>1
<1>9. Suffix(r, l)
  <2> SUFFICES ASSUME NEW j \in 1..n-1
               PROVE  /\ Consecutive(r[j].items)
                      /\ IF j < n-1 THEN FirstItem(r[j+1]) = LastItem(r[j]) + 1
                                    ELSE LastItem(r[j]) = l
    BY <1>8 DEF Suffix
  <2>1. ~ (j < n-1) => j = n-1
    BY <1>1
  <2> QED
    BY <1>7, <2>1
<1> QED
  BY <1>9 DEF r

LEMMA SuffixUpdate ==
  ASSUME Sized, NEW k \in Key, NEW t \in Time, NEW n \in 0..Len(buckets),
         Len(stream) < eh.items,
         buckets' = Append(SubSeq(buckets, n+1, Len(buckets)), NewBucket(k, t)),
         stream' = Append(stream, [key |-> k, time |-> t]),
         Suffix(buckets, Len(stream))
  PROVE  Suffix(buckets', Len(stream'))
<1> DEFINE m == Len(buckets) - n
           l == Len(stream)
           q == buckets
           r == buckets'
<1>1. /\ Len(q) \in Nat /\ m \in Nat /\ n \in Nat /\ m + n = Len(q) /\ l \in Nat
      /\ Len(r) = m + 1 /\ Len(stream') = l + 1
      /\ \A j \in 1..m : r[j] = q[j+n]
      /\ r[m+1] = NewBucket(k, t)
  BY UpdateEffect, LenProperties DEF Sized, TypeOK
<1>2. \A j \in 1..Len(q) :
        /\ Consecutive(q[j].items)
        /\ j < Len(q) => FirstItem(q[j+1]) = LastItem(q[j]) + 1
        /\ j = Len(q) => LastItem(q[j]) = l
  BY DEF Suffix
<1>3. /\ Consecutive(NewBucket(k, t).items)
      /\ FirstItem(NewBucket(k, t)) = l + 1
      /\ LastItem(NewBucket(k, t)) = l + 1
  <2>1. NewBucket(k, t).items = <<l + 1>>
    BY DEF NewBucket
  <2> QED
    BY <2>1 DEF Consecutive, FirstItem, LastItem
<1> HIDE DEF m, l, q, r
<1>4. ASSUME NEW j \in 1..m+1
      PROVE  /\ Consecutive(r[j].items)
             /\ IF j < m+1 THEN FirstItem(r[j+1]) = LastItem(r[j]) + 1 ELSE LastItem(r[j]) = l+1
  <2>1. CASE j < m
    <3>1. j \in 1..m /\ j+1 \in 1..m /\ j+n \in 1..Len(q) /\ j+n < Len(q)
          /\ (j+1)+n = (j+n)+1 /\ j < m+1
      BY <1>1, <2>1, SMTT(30)
    <3> QED
      BY <1>1, <1>2, <3>1
  <2>2. CASE j = m
    <3>1. j \in 1..m /\ j+n \in 1..Len(q) /\ j+n = Len(q) /\ j < m+1 /\ j+1 = m+1
      BY <1>1, <2>2
    <3> QED
      BY <1>1, <1>2, <1>3, <3>1
  <2>3. CASE j = m+1
    <3>1. ~ (j < m+1)
      BY <1>1, <2>3
    <3> QED
      BY <1>1, <1>3, <2>3, <3>1
  <2> QED
    BY <1>1, <2>1, <2>2, <2>3
<1>5. Suffix(r, l+1)
  BY <1>1, <1>4 DEF Suffix
<1> QED
  BY <1>1, <1>5 DEF r
LEMMA SuffixNext ==
  ASSUME Sized, SuffixHeld, [Next]_vars
  PROVE  SuffixHeld'
<1>1. Len(buckets) \in Nat /\ TypeOK
  BY LenProperties DEF Sized, TypeOK
<1>2. Suffix(buckets, Len(stream)) /\ (stream # << >> => Len(buckets) > 0)
  BY SuffixHeldIs
<1>3. ASSUME Suffix(buckets', Len(stream')), stream' # << >> => Len(buckets') > 0
      PROVE  SuffixHeld'
  BY <1>3 DEF SuffixHeld, Suffix, Consecutive, FirstItem, LastItem, N
<1>4. ASSUME UNCHANGED <<eh, buckets, stream>>
      PROVE  SuffixHeld'
  BY <1>4 DEF SuffixHeld, N
<1>5. ASSUME NEW i \in 1..Len(buckets)-1, MergeAt(i), UNCHANGED <<eh, stream>>
      PROVE  SuffixHeld'
  <2>1. Len(buckets') = Len(buckets) - 1 /\ Len(buckets') > 0
    BY <1>1, <1>5, MergeEffect
  <2>2. Suffix(buckets', Len(stream))
    <3> DEFINE l == Len(stream)
    <3>1. Suffix(buckets, l)
      BY <1>2
    <3> HIDE DEF l
    <3>2. Suffix(buckets', l)
      BY <1>1, <1>5, <3>1, SuffixMerge
    <3> QED
      BY <3>2 DEF l
  <2> QED
    BY <1>3, <1>5, <2>1, <2>2
<1>6. CASE \E k \in Key, t \in Time : Update(k, t)
  <2>1. PICK k \in Key, t \in Time : Update(k, t)
    BY <1>6
  <2>2. PICK n \in 0..Len(buckets) :
          /\ Len(stream) < eh.items
          /\ buckets' = Append(SubSeq(buckets, n+1, Len(buckets)), NewBucket(k, t))
          /\ stream' = Append(stream, [key |-> k, time |-> t])
    BY <2>1 DEF Update
  <2>3. Suffix(buckets', Len(stream'))
    BY <1>2, <2>2, SuffixUpdate
  <2>4. Len(buckets') > 0
    BY <1>1, <2>2, UpdateEffect
  <2> QED
    BY <1>3, <2>3, <2>4
<1>7. CASE CompressCount
  <2>1. UNCHANGED <<eh, stream>>
    BY <1>7, CountMerge
  <2>2. CASE UNCHANGED buckets
    BY <1>4, <2>1, <2>2
  <2>3. CASE StartOfRun(idx) <= idx - 2 /\ MergeAt(StartOfRun(idx))
    <3>1. StartOfRun(idx) \in 1..Len(buckets)-1
      BY <1>1, <1>7, <2>3, CountMerge
    <3> QED
      BY <1>5, <2>1, <2>3, <3>1
  <2> QED
    BY <1>7, <2>2, <2>3, CountMerge
<1>8. CASE CompressL2
  BY <1>5, <1>8 DEF CompressL2
<1>9. CASE UpdateReturns
  BY <1>4, <1>9 DEF UpdateReturns
<1>10. CASE UNCHANGED vars
  BY <1>4, <1>10 DEF vars
<1> QED
  BY <1>6, <1>7, <1>8, <1>9, <1>10 DEF Next

(* The buckets hold a suffix of the stream in order, each item once, and   *)
(* the last item always: also while they are being merged.                 *)
THEOREM SuffixIsHeld == Spec => []SuffixHeld
<1>1. Init => Sized /\ SuffixHeld
  <2> SUFFICES ASSUME Init
               PROVE  Sized /\ SuffixHeld
    OBVIOUS
  <2>1. Len(buckets) = 0 /\ stream = << >>
    BY DEF Init
  <2> QED
    BY <2>1, SizedInit DEF SuffixHeld, N
<1>2. Sized /\ SuffixHeld /\ [Next]_vars => (Sized /\ SuffixHeld)'
  BY SizedNext, SuffixNext
<1> QED
  BY <1>1, <1>2, PTL DEF Spec
-----------------------------------------------------------------------------
(* Queries *)

(* In a stream in order the spans of the buckets follow one another.       *)
LEMMA SpansOrdered ==
  ASSUME ExactInv, eh.lateness = 0
  PROVE  /\ \A i \in 1..Len(buckets) :
              /\ buckets[i].minTime \in Nat /\ buckets[i].maxTime \in Nat
              /\ buckets[i].minTime <= buckets[i].maxTime
              /\ buckets[i].maxTime <= Latest
              /\ \A p \in Items(buckets[i]) :
                   /\ stream[p].time \in Nat
                   /\ buckets[i].minTime <= stream[p].time
                   /\ stream[p].time <= buckets[i].maxTime
         /\ \A i, j \in 1..Len(buckets) :
              i < j => buckets[i].maxTime <= buckets[j].minTime
<1>1. TypeOK /\ Known /\ Ordered /\ InOrder
  BY DEF ExactInv, Places, Sized
<1>2. \A i \in 1..Len(buckets) : SpanExact(buckets[i], stream)
  BY DEF ExactInv, AllExact, Exact
<1>3. \A i \in 1..Len(buckets) : \A p \in Items(buckets[i]) :
        p \in 1..Len(stream) /\ stream[p].time \in Nat
  BY <1>1, ItemType DEF Known
<1>4. ASSUME NEW i \in 1..Len(buckets)
      PROVE  /\ buckets[i].minTime \in Nat /\ buckets[i].maxTime \in Nat
             /\ buckets[i].minTime <= buckets[i].maxTime
             /\ buckets[i].maxTime <= Latest
             /\ \A p \in Items(buckets[i]) :
                  /\ stream[p].time \in Nat
                  /\ buckets[i].minTime <= stream[p].time
                  /\ stream[p].time <= buckets[i].maxTime
  <2>1. buckets[i].minTime \in Nat /\ buckets[i].maxTime \in Nat
    BY <1>1, BucketType, BucketFields, ConfigFields DEF TypeOK
  <2>2. \A p \in Items(buckets[i]) :
          buckets[i].minTime <= stream[p].time /\ stream[p].time <= buckets[i].maxTime
    BY <1>2 DEF SpanExact
  <2>3. PICK p \in Items(buckets[i]) : stream[p].time = buckets[i].maxTime
    BY <1>2 DEF SpanExact
  <2>4. stream[p].time <= Latest
    BY <1>1, <1>3, LatestIs
  <2> QED
    BY <1>3, <2>1, <2>2, <2>3, <2>4
<1>5. ASSUME NEW i \in 1..Len(buckets), NEW j \in 1..Len(buckets), i < j
      PROVE  buckets[i].maxTime <= buckets[j].minTime
  <2>1. PICK p \in Items(buckets[i]) : stream[p].time = buckets[i].maxTime
    BY <1>2 DEF SpanExact
  <2>2. PICK q \in Items(buckets[j]) : stream[q].time = buckets[j].minTime
    BY <1>2 DEF SpanExact
  <2>3. p < q /\ p \in 1..Len(stream) /\ q \in 1..Len(stream)
    BY <1>1, <1>3, <1>5 DEF Ordered
  <2>4. p <= q
    BY <2>3
  <2> QED
    BY <1>1, <2>1, <2>2, <2>3, <2>4 DEF InOrder
<1> QED
  BY <1>4, <1>5

(* A query that reaches to the present ends at the newest bucket.          *)
LEMMA ToVolumeIs ==
  ASSUME ExactInv, eh.lateness = 0, N > 0, NEW t2 \in Int, Latest <= t2
  PROVE  ToVolume(t2) = N
<1> DEFINE S == {i \in 1..N : Holds(i, t2)}
<1>1. N \in Nat /\ N \in 1..N
  BY LenProperties DEF ExactInv, Places, Sized, TypeOK, N
<1>2. /\ buckets[N].minTime \in Nat /\ buckets[N].maxTime \in Nat
      /\ buckets[N].minTime <= buckets[N].maxTime
      /\ buckets[N].maxTime <= Latest /\ Latest \in Nat
  BY <1>1, SpansOrdered, LatestIs DEF N, ExactInv, Places, Sized
<1>3. CASE t2 > buckets[N].maxTime
  BY <1>3 DEF ToVolume
<1>4. CASE ~ (t2 > buckets[N].maxTime)
  <2>1. N \in S
    BY <1>1, <1>2, <1>4 DEF Holds
  <2>2. S \subseteq Nat /\ \A i \in S : i <= N
    BY <1>1
  <2>3. Max(S) = N
    <3> HIDE DEF S
    <3> QED
      BY <2>1, <2>2, MaxIs
  <2>4. ToVolume(t2) = Max(S)
    <3>1. S # {}
      BY <2>1
    <3> QED
      BY <1>4, <3>1 DEF ToVolume
  <2> QED
    BY <2>3, <2>4
<1> QED
  BY <1>3, <1>4

(* A query that begins before all buckets takes them all, and one that     *)
(* begins within a bucket starts at the last bucket that holds its t1 or   *)
(* at the next.                                                            *)
LEMMA FromVolumeIs ==
  ASSUME ExactInv, eh.lateness = 0, N > 0, NEW t1 \in Nat,
         t1 < buckets[1].minTime \/ \E i \in 1..N : Holds(i, t1)
  PROVE  \/ t1 < buckets[1].minTime /\ FromVolume(t1) = 1
         \/ \E m \in 1..N :
              /\ Holds(m, t1)
              /\ FromVolume(t1) = m \/ (FromVolume(t1) = m + 1 /\ m + 1 <= N)
<1> DEFINE S == {i \in 1..N : Holds(i, t1)}
<1>1. N \in Nat /\ 1 \in 1..N
  BY LenProperties DEF ExactInv, Places, Sized, TypeOK, N
<1>2. /\ buckets[1].minTime \in Nat /\ buckets[1].maxTime \in Nat
      /\ buckets[1].minTime <= buckets[1].maxTime
  BY <1>1, SpansOrdered DEF N
<1>3. CASE t1 < buckets[1].minTime
  <2>1. ~ (Distance(t1, buckets[1].minTime) > Distance(t1, buckets[1].maxTime))
    BY <1>2, <1>3 DEF Distance
  <2>2. FromVolume(t1) = 1
    BY <1>3, <2>1 DEF FromVolume
  <2> QED
    BY <1>3, <2>2
<1>4. CASE ~ (t1 < buckets[1].minTime)
  <2> DEFINE m == Max(S)
  <2>1. S # {}
    BY <1>4
  <2>2. m \in S
    <3>1. S \subseteq Nat /\ \A i \in S : i <= N
      BY <1>1
    <3> HIDE DEF S
    <3> QED
      BY <1>1, <2>1, <3>1, MaxExists
  <2>3. FromVolume(t1) = m \/ (FromVolume(t1) = m + 1 /\ m + 1 <= N)
    <3>1. (IF t1 < buckets[1].minTime \/ S = {} THEN 1 ELSE Max(S)) = m
      BY <1>4, <2>1
    <3>2. \/ FromVolume(t1) = IF t1 < buckets[1].minTime \/ S = {} THEN 1 ELSE Max(S)
          \/ /\ FromVolume(t1) = (IF t1 < buckets[1].minTime \/ S = {} THEN 1 ELSE Max(S)) + 1
             /\ (IF t1 < buckets[1].minTime \/ S = {} THEN 1 ELSE Max(S)) + 1 <= N
      BY Zenon DEF FromVolume
    <3> HIDE DEF m, S
    <3> QED
      BY <3>1, <3>2
  <2>4. m \in 1..N /\ Holds(m, t1)
    BY <2>2
  <2> HIDE DEF m
  <2> QED
    BY <2>3, <2>4
<1> QED
  BY <1>3, <1>4

LEMMA QueryTailHolds ==
  ASSUME ExactInv
  PROVE  QueryTail
<1> SUFFICES ASSUME N > 0, eh.lateness = 0,
                    NEW t1 \in Time, NEW t2 \in Latest..eh.lastTime,
                    t1 < buckets[1].minTime \/ \E i \in 1..N : Holds(i, t1),
                    NEW p \in Held,
                    ~ \E i \in 1..N : Holds(i, t1) /\ p \in ToSet(buckets[i].items)
             PROVE  p \in QueryInterval(t1, t2) <=> stream[p].time >= t1
  BY DEF QueryTail
<1> DEFINE f == FromVolume(t1)
           time == stream[p].time
<1>1. /\ N \in Nat /\ 1 \in 1..N /\ t1 \in Nat /\ t2 \in Int /\ Latest <= t2
  BY LenProperties, ConfigFields, LatestIs DEF ExactInv, Places, Sized, TypeOK, N
<1>2. ToVolume(t2) = N
  BY <1>1, ToVolumeIs
<1>3. \/ t1 < buckets[1].minTime /\ f = 1
      \/ \E m \in 1..N : Holds(m, t1) /\ (f = m \/ (f = m + 1 /\ m + 1 <= N))
  BY <1>1, FromVolumeIs
<1>4. /\ \A i \in 1..N :
           /\ buckets[i].minTime \in Nat /\ buckets[i].maxTime \in Nat
           /\ buckets[i].minTime <= buckets[i].maxTime
           /\ \A q \in Items(buckets[i]) :
                /\ stream[q].time \in Nat
                /\ buckets[i].minTime <= stream[q].time
                /\ stream[q].time <= buckets[i].maxTime
      /\ \A i, j \in 1..N : i < j => buckets[i].maxTime <= buckets[j].minTime
  BY SpansOrdered DEF N
<1>5. PICK x \in 1..N : p \in Items(buckets[x])
  BY HeldIs DEF N
<1>6. \A i \in 1..N : p \in Items(buckets[i]) => i = x
  <2> SUFFICES ASSUME NEW i \in 1..N, p \in Items(buckets[i]), i # x
               PROVE  FALSE
    OBVIOUS
  <2>1. p < p /\ p \in 1..Len(stream)
    <3>1. i < x \/ x < i
      BY <1>1
    <3> QED
      BY <1>5, <3>1 DEF ExactInv, Places, Known, Ordered, N
  <2> QED
    BY <2>1
<1>7. ~ Holds(x, t1)
  BY <1>5 DEF Items
<1>8. f \in 1..N
  <2>1. CASE f = 1
    BY <1>1, <2>1
  <2>2. CASE \E m \in 1..N : Holds(m, t1) /\ (f = m \/ (f = m + 1 /\ m + 1 <= N))
    BY <1>1, <2>2
  <2> QED
    BY <1>3, <2>1, <2>2
<1>9. p \in QueryInterval(t1, t2) <=> f <= x
  <2>1. QueryInterval(t1, t2) = UNION {Items(buckets[i]) : i \in f..N}
    <3>1. ~ (f > N)
      BY <1>1, <1>8
    <3> QED
      BY <1>2, <3>1 DEF QueryInterval, Items
  <2> HIDE DEF f
  <2>2. p \in QueryInterval(t1, t2) <=> \E i \in f..N : p \in Items(buckets[i])
    BY <2>1
  <2>3. \A i \in f..N : i \in 1..N
    BY <1>1, <1>8
  <2>4. x \in f..N <=> f <= x
    BY <1>1, <1>8
  <2> QED
    BY <1>5, <1>6, <2>2, <2>3, <2>4
<1>10. /\ time \in Nat /\ buckets[x].minTime <= time /\ time <= buckets[x].maxTime
  BY <1>4, <1>5
<1> HIDE DEF f, time
<1>11. CASE t1 < buckets[1].minTime /\ f = 1
  <2>1. buckets[1].minTime <= buckets[x].minTime
    <3>1. x = 1 \/ 1 < x
      BY <1>1
    <3> QED
      BY <1>1, <1>4, <3>1
  <2>2. time >= t1 /\ f <= x
    BY <1>1, <1>4, <1>10, <1>11, <2>1
  <2> QED
    BY <1>9, <2>2 DEF time
<1>12. CASE \E m \in 1..N : Holds(m, t1) /\ (f = m \/ (f = m + 1 /\ m + 1 <= N))
  <2>1. PICK m \in 1..N : Holds(m, t1) /\ (f = m \/ (f = m + 1 /\ m + 1 <= N))
    BY <1>12
  <2>2. buckets[m].minTime <= t1 /\ t1 <= buckets[m].maxTime
    BY <2>1 DEF Holds
  <2>3. t1 < buckets[x].minTime \/ buckets[x].maxTime < t1
    BY <1>1, <1>4, <1>7 DEF Holds
  <2>4. CASE x < m
    <3>1. buckets[x].maxTime <= buckets[m].minTime
      BY <1>4, <2>4
    <3>2. ~ (time >= t1) /\ ~ (f <= x)
      BY <1>1, <1>4, <1>10, <2>1, <2>2, <2>3, <2>4, <3>1
    <3> QED
      BY <1>9, <3>2 DEF time
  <2>5. CASE x = m
    BY <1>7, <2>1, <2>5
  <2>6. CASE x > m
    <3>1. buckets[m].maxTime <= buckets[x].minTime
      BY <1>4, <2>6
    <3>2. time >= t1 /\ f <= x
      BY <1>1, <1>4, <1>10, <2>1, <2>2, <2>3, <2>6, <3>1
    <3> QED
      BY <1>9, <3>2 DEF time
  <2> QED
    BY <1>1, <2>4, <2>5, <2>6
<1> QED
  BY <1>3, <1>11, <1>12

(* With timestamps in order, a query up to the present is wrong about the  *)
(* items of the buckets that hold its t1 only.                             *)
THEOREM QueriesAreExact ==
  ASSUME InOrderL2
  PROVE  Spec => []QueryTail
<1>1. Init => ExactInv
  BY ExactInvInit
<1>2. ExactInv /\ [Next]_vars => ExactInv'
  BY PlacesNext, ExactNext DEF ExactInv
<1>3. ExactInv => QueryTail
  BY QueryTailHolds
<1> QED
  BY <1>1, <1>2, <1>3, PTL DEF Spec
-----------------------------------------------------------------------------
(* Powers of two: the smallest set with 1 that is closed under doubling.   *)

Doubles(S) == 1 \in S /\ \A x \in S : 2 * x \in S

Powers == {x \in Nat : \A S \in SUBSET Nat : Doubles(S) => x \in S}

LEMMA PowersDouble ==
  1 \in Powers /\ \A x \in Powers : 2 * x \in Powers
BY DEF Powers, Doubles

LEMMA PowersInduction ==
  ASSUME NEW S \in SUBSET Nat, Doubles(S)
  PROVE  Powers \subseteq S
BY DEF Powers

LEMMA PowersPositive == \A x \in Powers : x \in Nat \ {0}
<1> DEFINE S == Nat \ {0}
<1>1. S \in SUBSET Nat /\ Doubles(S)
  BY DEF Doubles
<1> QED
  BY <1>1, PowersInduction

LEMMA PowersHalve == \A x \in Powers : x = 1 \/ \E y \in Powers : x = 2 * y
<1> DEFINE S == {x \in Nat : x = 1 \/ \E y \in Powers : x = 2 * y}
<1>1. S \in SUBSET Nat
  OBVIOUS
<1>2. 1 \in S
  OBVIOUS
<1>3. ASSUME NEW x \in S
      PROVE  2 * x \in S
  <2>1. x \in Powers
    BY PowersDouble
  <2> QED
    BY <2>1
<1>4. Powers \subseteq S
  <2> HIDE DEF S
  <2> QED
    BY <1>1, <1>2, <1>3, PowersInduction DEF Doubles
<1> QED
  BY <1>4

(* Different powers are apart by a factor of two.                          *)
LEMMA PowersApart == \A x, y \in Powers : y < x => 2 * y <= x
<1> DEFINE S == {x \in Nat : \A y \in Powers : y < x => 2 * y <= x}
<1>1. S \in SUBSET Nat
  OBVIOUS
<1>2. 1 \in S
  BY PowersPositive
<1>3. ASSUME NEW x \in S
      PROVE  2 * x \in S
  <2>1. x \in Nat /\ \A y \in Powers : y < x => 2 * y <= x
    OBVIOUS
  <2>2. ASSUME NEW y \in Powers, y < 2 * x
        PROVE  2 * y <= 2 * x
    <3>1. CASE y = 1
      BY <2>1, <2>2, <3>1
    <3>2. CASE \E u \in Powers : y = 2 * u
      <4>1. PICK u \in Powers : y = 2 * u
        BY <3>2
      <4>2. u \in Nat /\ u < x
        BY <2>1, <2>2, <4>1, PowersPositive
      <4>3. 2 * u <= x
        BY <2>1, <4>2
      <4> QED
        BY <2>1, <4>1, <4>2, <4>3
    <3> QED
      BY <3>1, <3>2, PowersHalve
  <2> QED
    BY <2>1, <2>2
<1>4. Powers \subseteq S
  <2> HIDE DEF S
  <2> QED
    BY <1>1, <1>2, <1>3, PowersInduction DEF Doubles
<1> QED
  BY <1>4

-----------------------------------------------------------------------------
(* Sums of sizes: z[i] + ... + z[n] *)

SumFrom(z, n, i) == PrefixSum([j \in 1..n-i+1 |-> z[i+j-1]], n-i+1)

LEMMA SumFromType ==
  ASSUME NEW n \in Nat, NEW z, \A j \in 1..n : z[j] \in Nat, NEW i \in 1..n+1
  PROVE  SumFrom(z, n, i) \in Nat
<1> DEFINE m == n-i+1
           f == [j \in 1..m |-> z[i+j-1]]
<1>1. m \in Nat
  OBVIOUS
<1>2. \A j \in 1..m : f[j] \in Nat
  <2> SUFFICES ASSUME NEW j \in 1..m PROVE f[j] \in Nat
    OBVIOUS
  <2>1. i+j-1 \in 1..n
    OBVIOUS
  <2> QED
    BY <2>1
<1>3. SumFrom(z, n, i) = PrefixSum(f, m)
  BY DEF SumFrom
<1> HIDE DEF m, f
<1> QED
  BY <1>1, <1>2, <1>3, PrefixSumNat

LEMMA SumFromEnd ==
  ASSUME NEW n \in Nat, NEW z
  PROVE  SumFrom(z, n, n+1) = 0
<1>1. n-(n+1)+1 = 0
  OBVIOUS
<1> QED
  BY <1>1, PrefixSumZero DEF SumFrom

LEMMA SumFromStep ==
  ASSUME NEW n \in Nat, NEW z, \A j \in 1..n : z[j] \in Nat, NEW i \in 1..n
  PROVE  SumFrom(z, n, i) = z[i] + SumFrom(z, n, i+1)
<1> DEFINE m == n-i
           f == [j \in 1..n-i+1 |-> z[i+j-1]]
           g == [j \in 1..n-(i+1)+1 |-> z[(i+1)+j-1]]
<1>1. m \in Nat /\ n-i+1 = m+1 /\ n-(i+1)+1 = m
  OBVIOUS
<1>2. \A j \in 1..m+1 : f[j] \in Int
  <2> SUFFICES ASSUME NEW j \in 1..m+1 PROVE f[j] \in Int
    OBVIOUS
  <2>1. i+j-1 \in 1..n /\ j \in 1..n-i+1
    OBVIOUS
  <2> QED
    BY <2>1
<1>3. \A j \in 1..m : g[j] = f[j+1]
  <2> SUFFICES ASSUME NEW j \in 1..m PROVE g[j] = f[j+1]
    OBVIOUS
  <2>1. (i+1)+j-1 = i+(j+1)-1 /\ j+1 \in 1..n-i+1 /\ j \in 1..n-(i+1)+1
    OBVIOUS
  <2> QED
    BY <2>1
<1>4. f[1] = z[i]
  <2>1. i+1-1 = i /\ 1 \in 1..n-i+1
    OBVIOUS
  <2> QED
    BY <2>1
<1>5. SumFrom(z, n, i) = PrefixSum(f, m+1) /\ SumFrom(z, n, i+1) = PrefixSum(g, m)
  BY <1>1 DEF SumFrom
<1> HIDE DEF m, f, g
<1>6. PrefixSum(f, m+1) = f[1] + PrefixSum(g, m)
  BY <1>1, <1>2, <1>3, PrefixSumShift
<1> QED
  BY <1>4, <1>5, <1>6

(* The same sizes at other positions.                                      *)
LEMMA SumFromShift ==
  ASSUME NEW n \in Nat, NEW d \in Int, n + d \in Nat, NEW z, NEW w,
         NEW i \in 1..n+1, \A j \in i..n : w[j+d] = z[j]
  PROVE  SumFrom(w, n+d, i+d) = SumFrom(z, n, i)
<1> DEFINE m == n-i+1
           f == [j \in 1..n-i+1 |-> z[i+j-1]]
           g == [j \in 1..(n+d)-(i+d)+1 |-> w[(i+d)+j-1]]
<1>1. m \in Nat /\ (n+d)-(i+d)+1 = m
  OBVIOUS
<1>2. \A j \in 1..m : f[j] = g[j]
  <2> SUFFICES ASSUME NEW j \in 1..m PROVE f[j] = g[j]
    OBVIOUS
  <2>1. i+j-1 \in i..n /\ (i+d)+j-1 = (i+j-1)+d
    OBVIOUS
  <2>2. f[j] = z[i+j-1] /\ g[j] = w[(i+d)+j-1]
    BY <1>1
  <2> QED
    BY <2>1, <2>2
<1>3. SumFrom(z, n, i) = PrefixSum(f, m) /\ SumFrom(w, n+d, i+d) = PrefixSum(g, m)
  BY <1>1 DEF SumFrom
<1> HIDE DEF m, f, g
<1> QED
  BY <1>1, <1>2, <1>3, PrefixSumExt
(* One size more at the end.                                               *)
LEMMA SumFromAppend ==
  ASSUME NEW n \in Nat, NEW z, NEW i \in 1..n+1
  PROVE  SumFrom(z, n+1, i) = SumFrom(z, n, i) + z[n+1]
<1> DEFINE m == n-i+1
           f == [j \in 1..n-i+1 |-> z[i+j-1]]
           g == [j \in 1..(n+1)-i+1 |-> z[i+j-1]]
<1>1. m \in Nat /\ (n+1)-i+1 = m+1
  OBVIOUS
<1>2. \A j \in 1..m : f[j] = g[j]
  BY <1>1
<1>3. g[m+1] = z[n+1]
  <2>1. m+1 \in 1..(n+1)-i+1 /\ i+(m+1)-1 = n+1
    OBVIOUS
  <2> QED
    BY <2>1
<1>4. SumFrom(z, n, i) = PrefixSum(f, m) /\ SumFrom(z, n+1, i) = PrefixSum(g, m+1)
  BY <1>1 DEF SumFrom
<1> HIDE DEF m, f, g
<1>5. PrefixSum(g, m+1) = PrefixSum(g, m) + g[m+1]
  BY <1>1, PrefixSumStep
<1>6. PrefixSum(f, m) = PrefixSum(g, m)
  BY <1>1, <1>2, PrefixSumExt
<1> QED
  BY <1>3, <1>4, <1>5, <1>6

(* A run of equal sizes.                                                   *)
LEMMA SumFromRun ==
  ASSUME NEW n \in Nat, NEW z, \A j \in 1..n : z[j] \in Nat,
         NEW s \in 1..n, NEW e \in s..n, NEW x \in Nat, \A j \in s..e : z[j] = x
  PROVE  SumFrom(z, n, s) = (e-s+1) * x + SumFrom(z, n, e+1)
<1> DEFINE T == {c \in 0..e-s+1 :
                  SumFrom(z, n, e+1-c) # c * x + SumFrom(z, n, e+1)}
<1>1. \A i \in 1..n+1 : SumFrom(z, n, i) \in Nat
  BY SumFromType
<1>2. T = {}
  <2> SUFFICES ASSUME T # {}
               PROVE  FALSE
    OBVIOUS
  <2>1. PICK c \in T : \A j \in T : c <= j
    <3>1. T \subseteq Nat
      OBVIOUS
    <3> QED
      BY <3>1, LeastNatural
  <2>2. c # 0
    <3> SUFFICES ASSUME c = 0 PROVE FALSE
      OBVIOUS
    <3>1. e+1-0 = e+1 /\ 0 * x = 0 /\ SumFrom(z, n, e+1) \in Nat
      BY <1>1
    <3> QED
      BY <2>1, <3>1
  <2>3. c-1 \in 0..e-s+1 /\ c-1 \notin T
    BY <2>1, <2>2
  <2>4. SumFrom(z, n, e+1-(c-1)) = (c-1) * x + SumFrom(z, n, e+1)
    BY <2>3
  <2> DEFINE i == e+1-c
  <2>5. i \in 1..n /\ i \in s..e /\ e+1-(c-1) = i+1
    BY <2>1, <2>2
  <2>6. SumFrom(z, n, i) = z[i] + SumFrom(z, n, i+1)
    <3> HIDE DEF i
    <3> QED
      BY <2>5, SumFromStep
  <2>7. c * x = (c-1) * x + x
    BY <2>2
  <2>8. (c-1) * x \in Int /\ SumFrom(z, n, e+1) \in Nat
    BY <1>1
  <2>9. z[i] = x
    BY <2>5
  <2>10. SumFrom(z, n, i) = c * x + SumFrom(z, n, e+1)
    BY <2>4, <2>5, <2>6, <2>7, <2>8, <2>9
  <2> QED
    BY <2>1, <2>10
<1>3. \A c \in 0..e-s+1 : SumFrom(z, n, e+1-c) = c * x + SumFrom(z, n, e+1)
  BY <1>2
<1>4. e-s+1 \in 0..e-s+1 /\ e+1-(e-s+1) = s
  OBVIOUS
<1> HIDE DEF T
<1> QED
  BY <1>3, <1>4

(* The sizes w come from z by adding up the neighbours at i.               *)
MergedSizes(z, n, i, w) ==
  /\ \A j \in 1..i-1 : w[j] = z[j]
  /\ w[i] = z[i] + z[i+1]
  /\ \A j \in i+1..n-1 : w[j] = z[j+1]

LEMMA SumFromMerged ==
  ASSUME NEW n \in Nat, NEW z, NEW w, \A j \in 1..n : z[j] \in Nat,
         NEW i \in 1..n-1, MergedSizes(z, n, i, w), NEW j \in 1..i
  PROVE  SumFrom(w, n-1, j) = SumFrom(z, n, j)
<1>1. \A m \in 1..n-1 : w[m] \in Nat
  <2> SUFFICES ASSUME NEW m \in 1..n-1
               PROVE  w[m] \in Nat
    OBVIOUS
  <2>1. CASE m < i
    BY <2>1 DEF MergedSizes
  <2>2. CASE m = i
    BY <2>2 DEF MergedSizes
  <2>3. CASE m > i
    <3>1. m \in i+1..n-1 /\ m+1 \in 1..n
      BY <2>3
    <3> QED
      BY <3>1 DEF MergedSizes
  <2> QED
    BY <2>1, <2>2, <2>3
<1>2. n-1 \in Nat
  OBVIOUS
<1>3. SumFrom(w, n-1, i) = SumFrom(z, n, i)
  <2> DEFINE d == -1
  <2>1. SumFrom(z, n, i) = z[i] + SumFrom(z, n, i+1)
    BY SumFromStep
  <2>2. SumFrom(z, n, i+1) = z[i+1] + SumFrom(z, n, (i+1)+1)
    <3>1. i+1 \in 1..n
      OBVIOUS
    <3> QED
      BY <3>1, SumFromStep
  <2>3. SumFrom(w, n-1, i) = w[i] + SumFrom(w, n-1, i+1)
    BY <1>1, <1>2, SumFromStep
  <2>4. SumFrom(w, n-1, i+1) = SumFrom(z, n, (i+1)+1)
    <3> DEFINE k == i+2
    <3>1. /\ d \in Int /\ n+d \in Nat /\ k \in 1..n+1
          /\ n+d = n-1 /\ k+d = i+1 /\ (i+1)+1 = k
      OBVIOUS
    <3>2. \A m \in k..n : w[m+d] = z[m]
      <4> SUFFICES ASSUME NEW m \in k..n PROVE w[m-1] = z[m]
        OBVIOUS
      <4>1. m-1 \in i+1..n-1 /\ (m-1)+1 = m
        OBVIOUS
      <4>2. w[m-1] = z[(m-1)+1]
        BY <4>1 DEF MergedSizes
      <4> QED
        BY <4>1, <4>2
    <3> HIDE DEF d, k
    <3>3. SumFrom(w, n+d, k+d) = SumFrom(z, n, k)
      BY <3>1, <3>2, SumFromShift
    <3> QED
      BY <3>1, <3>3
  <2>5. /\ SumFrom(z, n, (i+1)+1) \in Nat /\ z[i] \in Nat /\ z[i+1] \in Nat
        /\ w[i] = z[i] + z[i+1]
    <3>1. (i+1)+1 \in 1..n+1 /\ i \in 1..n /\ i+1 \in 1..n
      OBVIOUS
    <3> QED
      BY <3>1, SumFromType DEF MergedSizes
  <2> HIDE DEF d
  <2> QED
    BY <2>1, <2>2, <2>3, <2>4, <2>5
<1> DEFINE T == {c \in 0..i-1 : SumFrom(w, n-1, i-c) # SumFrom(z, n, i-c)}
<1>4. T = {}
  <2> SUFFICES ASSUME T # {}
               PROVE  FALSE
    OBVIOUS
  <2>1. PICK c \in T : \A m \in T : c <= m
    <3>1. T \subseteq Nat
      OBVIOUS
    <3> QED
      BY <3>1, LeastNatural
  <2>2. c # 0
    <3> SUFFICES ASSUME c = 0 PROVE FALSE
      OBVIOUS
    <3>1. i-0 = i
      OBVIOUS
    <3> QED
      BY <1>3, <2>1, <3>1
  <2>3. c-1 \in 0..i-1 /\ c-1 \notin T
    BY <2>1, <2>2
  <2> DEFINE m == i-c
  <2>4. i-(c-1) = m+1 /\ m \in 1..n-1 /\ m \in 1..n /\ m \in 1..i-1
    BY <2>1, <2>2
  <2>5. SumFrom(w, n-1, m+1) = SumFrom(z, n, m+1)
    BY <2>3, <2>4
  <2>6. SumFrom(w, n-1, m) # SumFrom(z, n, m)
    BY <2>1
  <2> HIDE DEF m
  <2>7. SumFrom(w, n-1, m) = w[m] + SumFrom(w, n-1, m+1)
    BY <1>1, <1>2, <2>4, SumFromStep
  <2>8. SumFrom(z, n, m) = z[m] + SumFrom(z, n, m+1)
    BY <2>4, SumFromStep
  <2>9. w[m] = z[m]
    BY <2>4 DEF MergedSizes
  <2> QED
    BY <2>5, <2>6, <2>7, <2>8, <2>9
<1>5. \A c \in 0..i-1 : SumFrom(w, n-1, i-c) = SumFrom(z, n, i-c)
  BY <1>4
<1>6. i-j \in 0..i-1 /\ i-(i-j) = j
  OBVIOUS
<1> HIDE DEF T
<1> QED
  BY <1>5, <1>6
-----------------------------------------------------------------------------
(* The error bound.  For sizes z[1..n] of buckets and the parameter k:     *)

(* sizes are powers of two that do not grow towards the present, ...       *)
Falling(z, n) ==
  /\ \A i \in 1..n : z[i] \in Powers
  /\ \A i, j \in 1..n : i <= j => z[j] <= z[i]

(* ... no size is larger than 1 + 2/k times everything newer, ...          *)
Small(z, n, k) == \A i \in 1..n : k * (z[i] - 1) <= 2 * SumFrom(z, n, i+1)

(* ... and fewer than k/2 + 2 equal sizes end at i.                        *)
ShortRun(z, k, i) ==
  \A s \in 1..i : (\A j \in s..i : z[j] = z[i]) => 2 * (i-s+1) < k + 4

(* The merge of the two oldest, s and s+1, of a run that is too long and   *)
(* ends at e: the run is short again, and the merged size fits the older   *)
(* ones because these are powers of two, and is bounded by what is left of *)
(* the run and what follows it.  Only the run that the merged bucket joins *)
(* may have become too long.                                               *)
LEMMA MergeFalling ==
  ASSUME NEW n \in Nat, NEW z, NEW w, Falling(z, n),
         NEW s \in 1..n-1, MergedSizes(z, n, s, w),
         z[s] = z[s+1], s > 1 => z[s-1] # z[s]
  PROVE  Falling(w, n-1)
<1>1. /\ \A j \in 1..n : z[j] \in Powers /\ z[j] \in Nat \ {0}
      /\ \A i, j \in 1..n : i <= j => z[j] <= z[i]
  BY PowersPositive DEF Falling
<1>2. s \in 1..n /\ s+1 \in 1..n
  OBVIOUS
<1>3. /\ \A j \in 1..s-1 : w[j] = z[j] /\ j \in 1..n
      /\ w[s] = 2 * z[s]
      /\ \A j \in s+1..n-1 : w[j] = z[j+1] /\ j+1 \in 1..n
  BY <1>1, <1>2 DEF MergedSizes
<1>4. ASSUME NEW j \in 1..n-1
      PROVE  w[j] \in Powers
  <2>1. CASE j < s
    BY <1>1, <1>3, <2>1
  <2>2. CASE j = s
    BY <1>1, <1>2, <1>3, <2>2, PowersDouble
  <2>3. CASE j > s
    BY <1>1, <1>3, <2>3
  <2> QED
    BY <2>1, <2>2, <2>3
<1>5. ASSUME NEW i \in 1..s-1
      PROVE  w[s] <= z[i]
  <2>1. s-1 \in 1..n /\ s > 1 /\ i <= s-1 /\ i \in 1..n
    OBVIOUS
  <2>2. z[s] < z[s-1]
    <3>1. z[s] <= z[s-1] /\ z[s] # z[s-1]
      BY <1>1, <1>2, <2>1
    <3> QED
      BY <1>1, <1>2, <2>1, <3>1
  <2>3. 2 * z[s] <= z[s-1]
    BY <1>1, <1>2, <2>1, <2>2, PowersApart
  <2>4. z[s-1] <= z[i]
    BY <1>1, <2>1
  <2> QED
    BY <1>1, <1>2, <1>3, <2>1, <2>3, <2>4
<1>6. ASSUME NEW i \in 1..n-1, NEW j \in 1..n-1, i <= j
      PROVE  w[j] <= w[i]
  <2>1. CASE i = j
    <3>1. w[i] \in Nat
      BY <1>4, PowersPositive
    <3> QED
      BY <2>1, <3>1
  <2>2. CASE j < s
    BY <1>1, <1>3, <1>6, <2>2
  <2>3. CASE i < s /\ j = s
    BY <1>3, <1>5, <2>3
  <2>4. CASE i < s /\ j > s
    <3>1. i \in 1..s-1 /\ j \in s+1..n-1 /\ i <= j+1
      BY <2>4
    <3> QED
      BY <1>1, <1>3, <3>1
  <2>5. CASE i = s /\ j > s
    <3>1. j \in s+1..n-1 /\ s <= j+1
      BY <2>5
    <3>2. z[j+1] <= z[s]
      BY <1>1, <1>2, <1>3, <3>1
    <3> QED
      BY <1>1, <1>2, <1>3, <2>5, <3>1, <3>2
  <2>6. CASE i > s
    <3>1. i \in s+1..n-1 /\ j \in s+1..n-1 /\ i+1 <= j+1
      BY <1>6, <2>6
    <3> QED
      BY <1>1, <1>3, <3>1
  <2> QED
    BY <1>6, <2>1, <2>2, <2>3, <2>4, <2>5, <2>6
<1> QED
  BY <1>4, <1>6 DEF Falling

LEMMA MergeSmall ==
  ASSUME NEW n \in Nat, NEW z, NEW w, NEW k \in Nat, Falling(z, n), Small(z, n, k),
         NEW s \in 1..n-1, MergedSizes(z, n, s, w),
         NEW e \in s+2..n, \A j \in s..e : z[j] = z[e], 2 * (e-s+1) >= k + 4
  PROVE  Small(w, n-1, k)
<1>1. \A j \in 1..n : z[j] \in Nat /\ z[j] > 0
  BY PowersPositive DEF Falling
<1>2. \A i \in 1..n+1 : SumFrom(z, n, i) \in Nat
  BY <1>1, SumFromType
<1>3. ASSUME NEW i \in s+2..n+1
      PROVE  SumFrom(w, n-1, i-1) = SumFrom(z, n, i)
  <2> DEFINE d == -1
  <2>1. d \in Int /\ n+d \in Nat /\ n+d = n-1 /\ i+d = i-1 /\ i \in 1..n+1
    OBVIOUS
  <2>2. \A j \in i..n : w[j+d] = z[j]
    <3> SUFFICES ASSUME NEW j \in i..n PROVE w[j-1] = z[j]
      OBVIOUS
    <3>1. j-1 \in s+1..n-1 /\ (j-1)+1 = j
      OBVIOUS
    <3>2. w[j-1] = z[(j-1)+1]
      BY <3>1 DEF MergedSizes
    <3> QED
      BY <3>1, <3>2
  <2> HIDE DEF d
  <2>3. SumFrom(w, n+d, i+d) = SumFrom(z, n, i)
    BY <2>1, <2>2, SumFromShift
  <2> QED
    BY <2>1, <2>3
<1>4. ASSUME NEW i \in 1..n-1
      PROVE  k * (w[i] - 1) <= 2 * SumFrom(w, n-1, i+1)
  <2>1. CASE i < s
    <3>1. i+1 \in 1..s /\ i \in 1..s-1 /\ i \in 1..n
      BY <2>1
    <3>2. SumFrom(w, n-1, i+1) = SumFrom(z, n, i+1)
      BY <1>1, <3>1, SumFromMerged
    <3>3. w[i] = z[i]
      BY <3>1 DEF MergedSizes
    <3>4. k * (z[i] - 1) <= 2 * SumFrom(z, n, i+1)
      BY <3>1 DEF Small
    <3> QED
      BY <3>2, <3>3, <3>4
  <2>2. CASE i = s
    <3> DEFINE x == z[e]
               rest == SumFrom(z, n, e+1)
    <3>1. /\ e \in 1..n /\ s \in s..e /\ s+1 \in s..e /\ e \in s..e
          /\ s+2 \in s+2..n+1 /\ (s+2)-1 = s+1 /\ s+2 \in 1..n /\ e \in s+2..n
          /\ e-(s+2)+1 = e-s-1 /\ e-s-1 \in Nat
          /\ \A j \in s+2..e : j \in s..e
      OBVIOUS
    <3>2. x \in Nat /\ x > 0 /\ rest \in Nat
      BY <1>1, <1>2, <3>1
    <3>3. w[s] = x + x
      BY <3>1 DEF MergedSizes
    <3>4. SumFrom(w, n-1, s+1) = SumFrom(z, n, s+2)
      BY <1>3, <3>1
    <3>5. SumFrom(z, n, s+2) = (e-(s+2)+1) * x + rest
      <4> DEFINE u == s+2
      <4>1. u \in 1..n /\ e \in u..n /\ \A j \in u..e : z[j] = x
        BY <3>1
      <4> HIDE DEF x, u, rest
      <4>2. SumFrom(z, n, u) = (e-u+1) * x + SumFrom(z, n, e+1)
        BY <1>1, <3>2, <4>1, SumFromRun
      <4> QED
        BY <4>2 DEF u, rest
    <3>6. k * (x - 1) <= 2 * rest
      BY <3>1 DEF Small
    <3> HIDE DEF x, rest
    <3>7. 2 * (e-s-1) >= k
      OBVIOUS
    <3>8. k * x <= 2 * ((e-s-1) * x)
      <4> DEFINE c == e-s-1
      <4>1. c \in Nat /\ k <= 2 * c
        BY <3>1, <3>7
      <4> HIDE DEF c
      <4>2. k * x <= (2 * c) * x
        BY <3>2, <4>1
      <4>3. (2 * c) * x = 2 * (c * x)
        BY <3>2, <4>1
      <4> QED
        BY <4>2, <4>3 DEF c
    <3>9. k * (x + x - 1) = k * x + k * (x - 1)
      BY <3>2
    <3>10. k * x \in Nat /\ k * (x - 1) \in Int /\ (e-s-1) * x \in Nat
      BY <3>1, <3>2
    <3>11. SumFrom(w, n-1, i+1) = (e-s-1) * x + rest /\ w[i] - 1 = x + x - 1
      <4>1. SumFrom(w, n-1, i+1) = SumFrom(w, n-1, s+1) /\ w[i] = w[s]
        BY <2>2
      <4>2. (e-(s+2)+1) * x = (e-s-1) * x
        <5>1. e-(s+2)+1 = e-s-1
          BY <3>1
        <5> QED
          BY ONLY <5>1
      <4>3. SumFrom(w, n-1, i+1) = (e-s-1) * x + rest
        BY ONLY <3>4, <3>5, <4>1, <4>2
      <4>4. w[i] = x + x
        BY ONLY <3>3, <4>1
      <4> QED
        BY <3>2, <4>3, <4>4
    <3>12. k * (x + x - 1) <= 2 * ((e-s-1) * x + rest)
      BY <3>2, <3>6, <3>8, <3>9, <3>10
    <3> QED
      BY <3>11, <3>12
  <2>3. CASE i > s
    <3>1. i+2 \in s+2..n+1 /\ (i+2)-1 = i+1 /\ i \in s+1..n-1 /\ i+1 \in 1..n
          /\ (i+1)+1 = i+2
      BY <2>3
    <3>2. SumFrom(w, n-1, i+1) = SumFrom(z, n, i+2)
      BY <1>3, <3>1
    <3>3. w[i] = z[i+1]
      BY <3>1 DEF MergedSizes
    <3>4. k * (z[i+1] - 1) <= 2 * SumFrom(z, n, (i+1)+1)
      BY <3>1 DEF Small
    <3> QED
      BY <3>1, <3>2, <3>3, <3>4
  <2> QED
    BY <2>1, <2>2, <2>3
<1> QED
  BY <1>4 DEF Small
LEMMA MergeRuns ==
  ASSUME NEW n \in Nat, NEW z, NEW w, NEW k \in Nat, Falling(z, n),
         NEW s \in 1..n-1, MergedSizes(z, n, s, w),
         NEW e \in s+2..n, \A j \in s..e : z[j] = z[e],
         \A i \in 1..n : i = e \/ ShortRun(z, k, i)
  PROVE  \A i \in 1..n-1 : i = s \/ ShortRun(w, k, i)
<1> SUFFICES ASSUME NEW i \in 1..n-1, i # s,
                    NEW u \in 1..i, \A j \in u..i : w[j] = w[i]
             PROVE  2 * (i-u+1) < k + 4
  BY DEF ShortRun
<1>1. /\ \A j \in 1..n : z[j] \in Nat \ {0}
      /\ \A j, m \in 1..n : j <= m => z[m] <= z[j]
  BY PowersPositive DEF Falling
<1>2. CASE i < s
  <2>1. /\ i \in 1..s-1 /\ i \in 1..n /\ i # e
        /\ \A j \in u..i : j \in 1..s-1
    BY <1>2
  <2>2. \A j \in u..i : z[j] = z[i]
    BY <2>1 DEF MergedSizes
  <2> QED
    BY <2>1, <2>2 DEF ShortRun
<1>3. CASE i > s
  <2>1. i \in s+1..n-1 /\ i+1 \in 1..n /\ s \in 1..n /\ s+1 \in 1..n
    BY <1>3
  <2>2. w[i] = z[i+1]
    BY <2>1 DEF MergedSizes
  <2>3. u > s
    <3> SUFFICES ASSUME u <= s PROVE FALSE
      OBVIOUS
    <3>1. s \in u..i /\ s+1 <= i+1
      BY <1>3
    <3>2. w[s] = w[i]
      BY <3>1
    <3>3. w[s] = z[s] + z[s+1] /\ s+1 \in s..e /\ s \in s..e
      BY DEF MergedSizes
    <3>4. z[s] = z[s+1]
      BY <3>3
    <3>5. z[i+1] <= z[s+1]
      BY <1>1, <2>1, <3>1
    <3> QED
      BY <1>1, <2>1, <2>2, <3>2, <3>3, <3>5
  <2>4. \A j \in u+1..i+1 : z[j] = z[i+1]
    <3> SUFFICES ASSUME NEW j \in u+1..i+1
                 PROVE  z[j] = z[i+1]
      OBVIOUS
    <3>1. j-1 \in u..i /\ j-1 \in s+1..n-1 /\ (j-1)+1 = j
      BY <2>3
    <3>2. w[j-1] = z[(j-1)+1] /\ w[j-1] = w[i]
      BY <3>1 DEF MergedSizes
    <3> QED
      BY <2>2, <3>1, <3>2
  <2>5. CASE i+1 # e
    <3>1. ShortRun(z, k, i+1) /\ u+1 \in 1..i+1
      BY <2>1, <2>5
    <3>2. 2 * ((i+1)-(u+1)+1) < k + 4
      BY <2>4, <3>1 DEF ShortRun
    <3>3. (i+1)-(u+1)+1 = i-u+1
      OBVIOUS
    <3> QED
      BY <3>2, <3>3
  <2>6. CASE i+1 = e
    <3>1. i \in 1..n /\ i # e /\ i \in s..e
      BY <2>1, <2>6
    <3>2. \A j \in u..i : z[j] = z[i]
      <4>1. \A j \in u..i : j \in s..e
        BY <2>3, <2>6
      <4> QED
        BY <3>1, <4>1
    <3>3. ShortRun(z, k, i)
      BY <3>1
    <3> QED
      BY <3>2, <3>3 DEF ShortRun
  <2> QED
    BY <2>5, <2>6
<1> QED
  BY <1>2, <1>3

(* Dropping the d oldest and adding a size 1.                              *)
LEMMA AppendBound ==
  ASSUME NEW n \in Nat, NEW d \in Nat, NEW z, NEW w, NEW k \in Nat,
         \A j \in 1..n : w[j] = z[j+d], w[n+1] = 1,
         Falling(z, n+d), Small(z, n+d, k),
         \A i \in 1..n+d : ShortRun(z, k, i)
  PROVE  /\ Falling(w, n+1) /\ Small(w, n+1, k)
         /\ \A i \in 1..n+1 : i = n+1 \/ ShortRun(w, k, i)
<1>1. \A j \in 1..n : j+d \in 1..n+d /\ w[j] = z[j+d]
  OBVIOUS
<1>2. /\ \A j \in 1..n+d : z[j] \in Powers /\ z[j] \in Nat /\ z[j] >= 1
      /\ \A i, j \in 1..n+d : i <= j => z[j] <= z[i]
  BY PowersPositive DEF Falling
<1>3. ASSUME NEW j \in 1..n+1
      PROVE  w[j] \in Powers /\ w[j] \in Nat /\ w[j] >= 1
  <2>1. CASE j = n+1
    BY <2>1, PowersDouble
  <2>2. CASE j # n+1
    <3>1. j \in 1..n
      BY <2>2
    <3> QED
      BY <1>1, <1>2, <3>1
  <2> QED
    BY <2>1, <2>2
<1>4. ASSUME NEW i \in 1..n+1, NEW j \in 1..n+1, i <= j
      PROVE  w[j] <= w[i]
  <2>1. CASE j = n+1
    BY <1>3, <2>1
  <2>2. CASE j # n+1
    <3>1. i \in 1..n /\ j \in 1..n /\ i+d <= j+d
      BY <1>4, <2>2
    <3> QED
      BY <1>1, <1>2, <3>1
  <2> QED
    BY <2>1, <2>2
<1>5. ASSUME NEW i \in 1..n+1
      PROVE  k * (w[i] - 1) <= 2 * SumFrom(w, n+1, i+1)
  <2>1. CASE i = n+1
    <3>1. SumFrom(w, n+1, (n+1)+1) = 0
      <4>1. n+1 \in Nat
        OBVIOUS
      <4> QED
        BY <4>1, SumFromEnd
    <3>2. w[i] - 1 = 0 /\ k * 0 = 0
      BY <2>1
    <3> QED
      BY <2>1, <3>1, <3>2
  <2>2. CASE i # n+1
    <3>1. i \in 1..n /\ i+1 \in 1..n+1 /\ i+d \in 1..n+d /\ (i+1)+d = (i+d)+1
      BY <2>2
    <3>2. SumFrom(w, n+1, i+1) = SumFrom(w, n, i+1) + w[n+1]
      BY <3>1, SumFromAppend
    <3>3. SumFrom(z, n+d, (i+1)+d) = SumFrom(w, n, i+1)
      <4>1. n + d \in Nat /\ d \in Int /\ \A j \in i+1..n : z[j+d] = w[j]
        BY <1>1, <3>1
      <4> QED
        BY <3>1, <4>1, SumFromShift
    <3>4. k * (z[i+d] - 1) <= 2 * SumFrom(z, n+d, (i+d)+1)
      BY <3>1 DEF Small
    <3>5. SumFrom(w, n, i+1) \in Nat
      <4>1. \A j \in 1..n : w[j] \in Nat
        BY <1>1, <1>2
      <4> QED
        BY <3>1, <4>1, SumFromType
    <3>6. w[i] = z[i+d] /\ k * (z[i+d] - 1) \in Int
      BY <1>1, <1>2, <3>1
    <3>7. k * (w[i] - 1) <= 2 * SumFrom(w, n, i+1)
      BY <3>1, <3>3, <3>4, <3>6
    <3>8. k * (w[i] - 1) \in Int
      BY <3>6
    <3> QED
      BY <3>2, <3>5, <3>7, <3>8
  <2> QED
    BY <2>1, <2>2
<1>6. ASSUME NEW i \in 1..n+1, i # n+1,
             NEW s \in 1..i, \A j \in s..i : w[j] = w[i]
      PROVE  2 * (i-s+1) < k + 4
  <2>1. i \in 1..n /\ i+d \in 1..n+d /\ s+d \in 1..i+d /\ (i+d)-(s+d)+1 = i-s+1
    BY <1>6
  <2>2. \A j \in s+d..i+d : z[j] = z[i+d]
    <3> SUFFICES ASSUME NEW j \in s+d..i+d
                 PROVE  z[j] = z[i+d]
      OBVIOUS
    <3>1. j-d \in s..i /\ j-d \in 1..n /\ (j-d)+d = j
      BY <2>1
    <3>2. w[j-d] = w[i] /\ w[j-d] = z[(j-d)+d] /\ w[i] = z[i+d]
      BY <1>1, <1>6, <2>1, <3>1
    <3> QED
      BY <3>1, <3>2
  <2>3. 2 * ((i+d)-(s+d)+1) < k + 4
    BY <2>1, <2>2 DEF ShortRun
  <2> QED
    BY <2>1, <2>3
<1>7. Falling(w, n+1)
  BY <1>3, <1>4 DEF Falling
<1>8. Small(w, n+1, k)
  BY <1>5 DEF Small
<1>9. \A i \in 1..n+1 : i = n+1 \/ ShortRun(w, k, i)
  BY <1>6 DEF ShortRun
<1> QED
  BY <1>7, <1>8, <1>9

(* The invariant: between two calls all of it holds; during the compression *)
(* the run that ends at idx, which the loop is about to look at, may be too *)
(* long.                                                                   *)
Sizes == [i \in 1..Len(buckets) |-> buckets[i].size]

Bounded(z, n, k, e) ==
  /\ Falling(z, n) /\ Small(z, n, k)
  /\ \A i \in 1..n : i = e \/ ShortRun(z, k, i)

Unseen == IF pc = "compress" THEN idx ELSE 0

BoundInv ==
  eh.norm = "L1" => Bounded(Sizes, Len(buckets), eh.k, Unseen)

LEMMA SizesIs ==
  ASSUME TypeOK
  PROVE  /\ Len(buckets) \in Nat /\ eh.k \in Nat \ {0}
         /\ \A i \in 1..Len(buckets) :
              Sizes[i] = buckets[i].size /\ Sizes[i] \in Nat
<1>1. Len(buckets) \in Nat /\ eh.k \in Nat \ {0}
  BY LenProperties, ConfigFields DEF TypeOK
<1>2. ASSUME NEW i \in 1..Len(buckets)
      PROVE  buckets[i].size \in Nat
  BY <1>1, <1>2, BucketType, BucketFields DEF TypeOK
<1> QED
  BY <1>1, <1>2 DEF Sizes

LEMMA BoundMerge ==
  ASSUME Sized, Sized', CompressCount, Bounded(Sizes, Len(buckets), eh.k, idx),
         StartOfRun(idx) <= idx - 2,
         2 * (idx - StartOfRun(idx) + 1) >= eh.k + 4,
         MergeAt(StartOfRun(idx))
  PROVE  Bounded(Sizes', Len(buckets'), eh.k, StartOfRun(idx))
<1> DEFINE n == Len(buckets)
           k == eh.k
           z == Sizes
           w == Sizes'
           s == StartOfRun(idx)
           e == idx
<1>1. n \in Nat /\ k \in Nat /\ \A i \in 1..n : z[i] = buckets[i].size
  BY SizesIs DEF Sized
<1>2. e \in 2..n /\ s \in 1..e /\ s <= e - 2 /\ 2 * (e-s+1) >= k + 4
  BY CountMerge
<1>3. /\ \A j \in s..e : z[j] = z[e]
      /\ s > 1 => z[s-1] # z[e]
  <2>1. /\ \A j \in s..e : buckets[j].size = buckets[e].size
        /\ s > 1 => buckets[s-1].size # buckets[e].size
    BY <1>1, <1>2, RunStart DEF Sized
  <2> HIDE DEF z, s, e, n
  <2>2. \A j \in s..e : j \in 1..n
    BY <1>1, <1>2
  <2>3. s > 1 => s-1 \in 1..n
    BY <1>1, <1>2
  <2> QED
    BY <1>1, <1>2, <2>1, <2>2, <2>3
<1>4. Len(buckets') = n - 1 /\ MergedSizes(z, n, s, w)
  <2>1. s \in 1..n-1
    BY <1>1, <1>2
  <2>2. /\ Len(buckets') = n - 1
        /\ \A j \in 1..s-1 : buckets'[j] = buckets[j]
        /\ buckets'[s] = Merged(buckets[s], buckets[s+1])
        /\ \A j \in s+1..n-1 : buckets'[j] = buckets[j+1]
    BY <2>1, MergeEffect DEF Sized
  <2>3. Merged(buckets[s], buckets[s+1]).size = buckets[s].size + buckets[s+1].size
    BY DEF Merged
  <2>4. \A j \in 1..n-1 : w[j] = buckets'[j].size
    BY <2>2 DEF Sizes
  <2> HIDE DEF z, w, s, e, n
  <2>5. /\ \A j \in 1..s-1 : w[j] = z[j]
        /\ w[s] = z[s] + z[s+1]
        /\ \A j \in s+1..n-1 : w[j] = z[j+1]
    <3>1. /\ \A j \in 1..s-1 : j \in 1..n /\ j \in 1..n-1
          /\ s \in 1..n /\ s+1 \in 1..n
          /\ \A j \in s+1..n-1 : j+1 \in 1..n /\ j \in 1..n-1
      BY <1>1, <2>1
    <3>2. ASSUME NEW j \in 1..s-1
          PROVE  w[j] = z[j]
      <4>1. j \in 1..n /\ j \in 1..n-1
        BY <3>1
      <4>2. w[j] = buckets'[j].size /\ z[j] = buckets[j].size /\ buckets'[j] = buckets[j]
        BY <1>1, <2>2, <2>4, <4>1
      <4> QED
        BY <4>2
    <3>3. w[s] = z[s] + z[s+1]
      <4>1. w[s] = buckets'[s].size /\ z[s] = buckets[s].size /\ z[s+1] = buckets[s+1].size
        BY <1>1, <2>1, <2>4, <3>1
      <4> QED
        BY <2>2, <2>3, <4>1
    <3>4. ASSUME NEW j \in s+1..n-1
          PROVE  w[j] = z[j+1]
      <4>1. j+1 \in 1..n /\ j \in 1..n-1
        BY <3>1
      <4>2. /\ w[j] = buckets'[j].size /\ z[j+1] = buckets[j+1].size
            /\ buckets'[j] = buckets[j+1]
        BY <1>1, <2>2, <2>4, <4>1
      <4> QED
        BY <4>2
    <3> QED
      BY <3>2, <3>3, <3>4
  <2> QED
    BY <2>2, <2>5 DEF MergedSizes
<1>5. /\ Falling(z, n) /\ Small(z, n, k)
      /\ \A i \in 1..n : i = e \/ ShortRun(z, k, i)
  BY DEF Bounded
<1> HIDE DEF n, k, z, w, s, e
<1>6. /\ s \in 1..n-1 /\ e \in s+2..n
      /\ s \in s..e /\ s+1 \in s..e
  BY <1>1, <1>2
<1>7. z[s] = z[s+1] /\ (s > 1 => z[s-1] # z[s])
  BY <1>3, <1>6
<1>8. Falling(w, n-1)
  BY <1>1, <1>4, <1>5, <1>6, <1>7, MergeFalling
<1>9. Small(w, n-1, k)
  BY <1>1, <1>2, <1>3, <1>4, <1>5, <1>6, MergeSmall
<1>10. \A i \in 1..n-1 : i = s \/ ShortRun(w, k, i)
  <2>1. n \in Nat /\ k \in Nat /\ s \in 1..n-1 /\ e \in s+2..n
    BY <1>1, <1>6
  <2>2. Falling(z, n) /\ MergedSizes(z, n, s, w)
    BY <1>4, <1>5
  <2>3. \A j \in s..e : z[j] = z[e]
    BY <1>3
  <2>4. \A i \in 1..n : i = e \/ ShortRun(z, k, i)
    BY <1>5
  <2> QED
    BY <2>1, <2>2, <2>3, <2>4, MergeRuns
<1> QED
  BY <1>4, <1>8, <1>9, <1>10 DEF Bounded, w, n, k, s

(* A run the loop passes by is short.                                      *)
LEMMA BoundPass ==
  ASSUME Sized, CompressCount, Bounded(Sizes, Len(buckets), eh.k, idx),
         2 * (idx - StartOfRun(idx) + 1) < eh.k + 4
  PROVE  \A e \in Nat : Bounded(Sizes, Len(buckets), eh.k, e)
<1> DEFINE n == Len(buckets)
           k == eh.k
           z == Sizes
           s == StartOfRun(idx)
           e == idx
<1>1. n \in Nat /\ k \in Nat /\ \A i \in 1..n : z[i] = buckets[i].size
  BY SizesIs DEF Sized
<1>2. e \in 2..n /\ s \in 1..e /\ 2 * (e-s+1) < k + 4
  BY CountMerge
<1>3. s > 1 => z[s-1] # z[e]
  <2>1. s > 1 => buckets[s-1].size # buckets[e].size
    BY <1>1, <1>2, RunStart DEF Sized
  <2> HIDE DEF z, s, e, n
  <2>2. s > 1 => s-1 \in 1..n
    BY <1>1, <1>2
  <2> QED
    BY <1>1, <1>2, <2>1, <2>2
<1>4. /\ Falling(z, n) /\ Small(z, n, k)
      /\ \A i \in 1..n : i = e \/ ShortRun(z, k, i)
  BY DEF Bounded
<1> HIDE DEF n, k, z, s, e
<1>5. ShortRun(z, k, e)
  <2> SUFFICES ASSUME NEW u \in 1..e, \A j \in u..e : z[j] = z[e]
               PROVE  2 * (e-u+1) < k + 4
    BY DEF ShortRun
  <2>1. u >= s
    <3> SUFFICES ASSUME u < s PROVE FALSE
      BY <1>2
    <3>1. s > 1 /\ s-1 \in u..e
      BY <1>1, <1>2
    <3> QED
      BY <1>3, <3>1
  <2> QED
    BY <1>1, <1>2, <2>1
<1> QED
  BY <1>4, <1>5 DEF Bounded, z, n, k

LEMMA BoundUpdate ==
  ASSUME Sized, Bounded(Sizes, Len(buckets), eh.k, 0),
         NEW c \in Key, NEW t \in Time, NEW d \in 0..Len(buckets),
         Len(stream) < eh.items,
         buckets' = Append(SubSeq(buckets, d+1, Len(buckets)), NewBucket(c, t)),
         stream' = Append(stream, [key |-> c, time |-> t])
  PROVE  Bounded(Sizes', Len(buckets'), eh.k, Len(buckets) - d + 1)
<1> DEFINE n == Len(buckets) - d
           k == eh.k
           z == Sizes
           w == Sizes'
<1>1. /\ n \in Nat /\ d \in Nat /\ n + d = Len(buckets) /\ k \in Nat
      /\ \A i \in 1..n+d : z[i] = buckets[i].size
  BY SizesIs DEF Sized
<1>2. /\ Len(buckets') = n + 1
      /\ \A j \in 1..n : buckets'[j] = buckets[j+d]
      /\ buckets'[n+1] = NewBucket(c, t)
  BY UpdateEffect
<1>3. NewBucket(c, t).size = 1
  BY DEF NewBucket
<1>4. \A j \in 1..n+1 : w[j] = buckets'[j].size
  BY <1>2 DEF Sizes
<1>5. /\ Falling(z, n+d) /\ Small(z, n+d, k)
      /\ \A i \in 1..n+d : ShortRun(z, k, i)
  BY <1>1 DEF Bounded
<1> HIDE DEF n, k, z, w
<1>6. /\ \A j \in 1..n : w[j] = z[j+d]
      /\ w[n+1] = 1
  <2>1. /\ \A j \in 1..n : (j \in 1..n+1) /\ (j+d \in 1..n+d)
        /\ n+1 \in 1..n+1
    <3>1. n \in Nat /\ d \in Nat
      BY ONLY <1>1
    <3> QED
      BY ONLY <3>1
  <2> QED
    BY <1>1, <1>2, <1>3, <1>4, <2>1
<1>7. /\ Falling(w, n+1) /\ Small(w, n+1, k)
      /\ \A i \in 1..n+1 : i = n+1 \/ ShortRun(w, k, i)
  BY <1>1, <1>5, <1>6, AppendBound
<1> QED
  BY <1>2, <1>7 DEF Bounded, w, k, n

LEMMA BoundInit == Init => BoundInv
<1> SUFFICES ASSUME Init
             PROVE  BoundInv
  OBVIOUS
<1>1. Len(buckets) = 0
  BY DEF Init
<1> QED
  BY <1>1 DEF BoundInv, Bounded, Falling, Small

LEMMA BoundNext ==
  ASSUME Sized, Sized', BoundInv, [Next]_vars
  PROVE  BoundInv'
<1> DEFINE B(e) == Bounded(Sizes, Len(buckets), eh.k, e)
<1>1. /\ pc \in {"idle", "compress"} /\ idx \in Nat /\ eh.items \in Nat
      /\ Len(buckets) \in Nat
  BY LenProperties, ConfigFields DEF Sized, TypeOK
<1>2. CASE eh.norm # "L1"
  <2>1. UNCHANGED eh
    BY DEF Next, Update, CompressCount, CompressL2, UpdateReturns, vars
  <2> QED
    BY <1>2, <2>1 DEF BoundInv
<1>3. CASE eh.norm = "L1"
  <2>1. Bounded(Sizes, Len(buckets), eh.k, Unseen)
    BY <1>3 DEF BoundInv
  <2>2. CASE \E c \in Key, t \in Time : Update(c, t)
    <3>1. PICK c \in Key, t \in Time : Update(c, t)
      BY <2>2
    <3>2. PICK d \in 0..Len(buckets) :
            /\ pc = "idle"
            /\ Len(stream) < eh.items
            /\ buckets' = Append(SubSeq(buckets, d+1, Len(buckets)), NewBucket(c, t))
            /\ stream' = Append(stream, [key |-> c, time |-> t])
            /\ idx' = Len(buckets) - d + 1
            /\ pc' = "compress"
            /\ UNCHANGED eh
      BY <3>1 DEF Update
    <3>3. Bounded(Sizes, Len(buckets), eh.k, 0)
      BY <2>1, <3>2 DEF Unseen
    <3>4. Bounded(Sizes', Len(buckets'), eh.k, Len(buckets) - d + 1)
      BY <3>2, <3>3, BoundUpdate
    <3> QED
      BY <3>2, <3>4 DEF BoundInv, Unseen
  <2>3. CASE CompressCount
    <3>1. /\ pc = "compress" /\ UNCHANGED <<eh, pc>> /\ idx \in 2..Len(buckets)
          /\ StartOfRun(idx) \in 1..idx
      BY <2>3, CountMerge
    <3>2. Bounded(Sizes, Len(buckets), eh.k, idx)
      BY <2>1, <3>1 DEF Unseen
    <3>3. CASE /\ StartOfRun(idx) <= idx - 2
               /\ 2 * (idx - StartOfRun(idx) + 1) >= eh.k + 4
               /\ MergeAt(StartOfRun(idx))
               /\ idx' = StartOfRun(idx)
      <4>1. Bounded(Sizes', Len(buckets'), eh.k, StartOfRun(idx))
        BY <2>3, <3>2, <3>3, BoundMerge
      <4> QED
        BY <3>1, <3>3, <4>1 DEF BoundInv, Unseen
    <3>4. CASE /\ 2 * (idx - StartOfRun(idx) + 1) < eh.k + 4
               /\ idx' = StartOfRun(idx) - 1
               /\ UNCHANGED buckets
      <4>1. idx' \in Nat
        BY <1>1, <3>1, <3>4
      <4>2. Bounded(Sizes, Len(buckets), eh.k, idx')
        BY <2>3, <3>2, <3>4, <4>1, BoundPass
      <4> QED
        BY <3>1, <3>4, <4>2 DEF BoundInv, Unseen, Sizes
    <3> QED
      BY <2>3, <3>3, <3>4, CountMerge
  <2>4. CASE CompressL2
    BY <1>3, <2>4 DEF CompressL2
  <2>5. CASE UpdateReturns
    <3>1. /\ pc = "compress" /\ idx <= 1 /\ pc' = "idle" /\ UNCHANGED <<eh, buckets>>
      BY <1>3, <2>5 DEF UpdateReturns
    <3> DEFINE n == Len(buckets)
               k == eh.k
               z == Sizes
               e == idx
    <3>2. /\ Falling(z, n) /\ Small(z, n, k)
          /\ \A i \in 1..n : i = e \/ ShortRun(z, k, i)
      BY <2>1, <3>1 DEF Bounded, Unseen
    <3>3. n \in Nat /\ k \in Nat /\ e \in Nat /\ e <= 1
      BY <1>1, <3>1, SizesIs DEF Sized
    <3> HIDE DEF n, k, z, e
    <3>4. ShortRun(z, k, 1)
      BY <3>3 DEF ShortRun
    <3>5. \A i \in 1..n : ShortRun(z, k, i)
      BY <3>2, <3>3, <3>4
    <3>6. Bounded(z, n, k, 0)
      BY <3>2, <3>5 DEF Bounded
    <3> QED
      BY <3>1, <3>6 DEF BoundInv, Unseen, Sizes, z, n, k
  <2>6. CASE UNCHANGED vars
    BY <2>1, <2>6 DEF vars, BoundInv, Unseen, Sizes
  <2> QED
    BY <2>2, <2>3, <2>4, <2>5, <2>6 DEF Next
<1> QED
  BY <1>2, <1>3

LEMMA BoundIsErrorBound ==
  ASSUME Sized, BoundInv
  PROVE  ErrorBound
<1> SUFFICES ASSUME eh.norm = "L1", pc = "idle", NEW i \in 1..N
             PROVE  /\ i < N => buckets[i].size >= buckets[i+1].size
                    /\ 2 * (i - StartOfRun(i) + 1) < eh.k + 4
                    /\ eh.k * (buckets[i].size - 1) <= 2 * SizesFrom(i+1)
  BY DEF ErrorBound
<1> DEFINE n == Len(buckets)
           k == eh.k
           z == Sizes
           s == StartOfRun(i)
<1>1. /\ n \in Nat /\ k \in Nat /\ N = n
      /\ \A j \in 1..n : z[j] = buckets[j].size /\ z[j] \in Nat
  BY SizesIs DEF Sized, N
<1>2. /\ Falling(z, n) /\ Small(z, n, k)
      /\ \A j \in 1..n : j = 0 \/ ShortRun(z, k, j)
  BY DEF BoundInv, Bounded, Unseen
<1>3. i \in 1..n
  BY <1>1
<1>4. s \in 1..i /\ \A j \in s..i : buckets[j].size = buckets[i].size
  BY <1>3, RunStart DEF Sized
<1>5. SizesFrom(i+1) = SumFrom(z, n, i+1)
  <2> DEFINE m == n-(i+1)+1
             f == [j \in 1..m |-> buckets[(i+1)+j-1].size]
             g == [j \in 1..m |-> z[(i+1)+j-1]]
  <2>1. m \in Nat
    BY <1>1, <1>3
  <2>2. f = g
    <3>1. \A j \in 1..m : (i+1)+j-1 \in 1..n
      BY <1>1, <1>3
    <3> QED
      BY <1>1, <3>1
  <2>3. SizesFrom(i+1) = PrefixSum(f, m)
    BY <1>1 DEF SizesFrom
  <2>4. SumFrom(z, n, i+1) = PrefixSum(g, m)
    BY DEF SumFrom
  <2> QED
    BY <2>2, <2>3, <2>4
<1> HIDE DEF n, k, z, s
<1>6. i < n => buckets[i].size >= buckets[i+1].size
  <2> SUFFICES ASSUME i < n PROVE buckets[i].size >= buckets[i+1].size
    OBVIOUS
  <2>1. i+1 \in 1..n /\ i <= i+1
    BY <1>1, <1>3
  <2> QED
    BY <1>1, <1>2, <1>3, <2>1 DEF Falling
<1>7. 2 * (i-s+1) < k + 4
  <2>1. ShortRun(z, k, i)
    BY <1>1, <1>2, <1>3
  <2>2. \A j \in s..i : z[j] = z[i]
    <3>1. \A j \in s..i : j \in 1..n
      BY <1>1, <1>3, <1>4
    <3> QED
      BY <1>1, <1>3, <1>4, <3>1
  <2> QED
    BY <1>4, <2>1, <2>2 DEF ShortRun
<1>8. k * (buckets[i].size - 1) <= 2 * SumFrom(z, n, i+1)
  BY <1>1, <1>2, <1>3 DEF Small
<1> QED
  BY <1>1, <1>5, <1>6, <1>7, <1>8 DEF k, s

(* The guarantee of the exponential histogram: when Update returns, sizes  *)
(* do not grow towards the present, fewer than k/2 + 2 buckets share one,  *)
(* and no bucket is larger than 1 + 2/k times everything newer.            *)
THEOREM ErrorIsBounded == Spec => []ErrorBound
<1>1. Init => Sized /\ BoundInv
  BY SizedInit, BoundInit
<1>2. Sized /\ BoundInv /\ [Next]_vars => (Sized /\ BoundInv)'
  <2> SUFFICES ASSUME Sized, BoundInv, [Next]_vars
               PROVE  Sized' /\ BoundInv'
    OBVIOUS
  <2>1. Sized'
    BY SizedNext
  <2> QED
    BY <2>1, BoundNext
<1>3. Sized /\ BoundInv => ErrorBound
  BY BoundIsErrorBound
<1> QED
  BY <1>1, <1>2, <1>3, PTL DEF Spec
=============================================================================
