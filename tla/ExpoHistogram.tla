--------------------------- MODULE ExpoHistogram ----------------------------
(***************************************************************************)
(* The exponential histogram over sketches (ExponentialHistogram.go):      *)
(* buckets that cover consecutive pieces of a stream, merged when there    *)
(* are too many of a size (NormL1) or too little energy in two of them     *)
(* (NormL2, the HybridSketch below its promotion to a UnivSketch), and     *)
(* dropped when they leave the window.  Update holds the write lock, so    *)
(* its compression loop is a sequence of steps nobody looks into.          *)
(* QueryInterval changes nothing: it is an operator, and the properties    *)
(* speak of all its arguments.                                             *)
(***************************************************************************)
EXTENDS Integers, Sequences, SequencesExt, Sums

CONSTANTS
  Config     \* the histograms to look at, and their streams: the number of
             \*   keys, the last timestamp, how far a timestamp may lie
             \*   behind the latest one, and (model bound) the items

ASSUME HistogramAssumption ==
  Config \subseteq
       [norm : {"L1", "L2"}, k : Nat \ {0}, windowSize : Nat,
        numKeys : Nat \ {0}, lastTime : Nat, lateness : Nat, items : Nat]

VARIABLES
  eh,        \* what initBase was given
  buckets,   \* oldest first
  pc,        \* "idle", or "compress" inside Update
  idx,       \* the loop variable of compressCountInvariant
  stream     \* history: what Update was given

vars == <<eh, buckets, pc, idx, stream>>

Key == 1..eh.numKeys
Time == 0..eh.lastTime

(* A bucket's sketch is known by what went into it: items are positions of *)
(* the stream, counts the map of a HybridSketch, mass its l2 and L2Mass.   *)
Bucket ==
  [items : Seq(1..eh.items), counts : [Key -> Nat],
   minTime : Time, maxTime : Time, size : Nat, mass : Nat]

TypeOK ==
  /\ eh \in Config
  /\ buckets \in Seq(Bucket)
  /\ pc \in {"idle", "compress"}
  /\ idx \in 0..eh.items
  /\ stream \in Seq([key : Key, time : Time])

(* initBase; k has been raised to 1.                                       *)
Init ==
  /\ eh \in Config
  /\ buckets = << >>
  /\ pc = "idle"
  /\ idx = 0
  /\ stream = << >>

-----------------------------------------------------------------------------
(* Update *)

(* Mutant: a bucket expires with its oldest item.                          *)
ExpiredByMin(n, threshold) ==
  /\ \A i \in 1..n : buckets[i].minTime < threshold
  /\ n < Len(buckets) => buckets[n+1].minTime >= threshold

(* expireBuckets drops the first n buckets.                                *)
Expired(n, threshold) ==
  /\ \A i \in 1..n : buckets[i].maxTime < threshold
  /\ n < Len(buckets) => buckets[n+1].maxTime >= threshold

NewBucket(k, t) ==
  [items |-> <<Len(stream) + 1>>,
   counts |-> [j \in Key |-> IF j = k THEN 1 ELSE 0],
   minTime |-> t, maxTime |-> t, size |-> 1,
   mass |-> IF eh.norm = "L2" THEN 1 ELSE 0]

Latest == Max({0} \union {stream[i].time : i \in 1..Len(stream)})

Update(k, t) ==
  \E n \in 0..Len(buckets) :
    /\ pc = "idle"
    /\ Len(stream) < eh.items
    /\ t >= Latest - eh.lateness
    /\ Expired(n, t - eh.windowSize)
    /\ buckets' = Append(SubSeq(buckets, n+1, Len(buckets)), NewBucket(k, t))
    /\ stream' = Append(stream, [key |-> k, time |-> t])
    /\ idx' = Len(buckets) - n + 1
    /\ pc' = "compress"
    /\ UNCHANGED eh

-----------------------------------------------------------------------------
(* Compression *)

Lesser(m, n) == IF m < n THEN m ELSE n
Greater(m, n) == IF m > n THEN m ELSE n

(* Mutant: the span of the older bucket is not extended.                   *)
MergedSpan(a, b) ==
  [items |-> a.items \o b.items,
   counts |-> [k \in Key |-> a.counts[k] + b.counts[k]],
   minTime |-> a.minTime, maxTime |-> a.maxTime,
   size |-> a.size + b.size, mass |-> a.mass + b.mass]

(* The older bucket a absorbs its neighbour b.  HybridSketch.Merge updates *)
(* the energy key by key; NormL2 copies the newer MaxTime and leaves       *)
(* MinTime alone.                                                          *)
Merged(a, b) ==
  [items |-> a.items \o b.items,
   counts |-> [k \in Key |-> a.counts[k] + b.counts[k]],
   minTime |-> IF eh.norm = "L1" THEN Lesser(a.minTime, b.minTime) ELSE a.minTime,
   maxTime |-> IF eh.norm = "L1" THEN Greater(a.maxTime, b.maxTime) ELSE b.maxTime,
   size |-> a.size + b.size,
   mass |-> IF eh.norm = "L1" THEN a.mass + b.mass
            ELSE a.mass + PrefixSum([k \in Key |->
                   (a.counts[k] + b.counts[k]) * (a.counts[k] + b.counts[k])
                     - a.counts[k] * a.counts[k]], eh.numKeys)]

(* Mutant: the later bucket is removed and never added to the other.       *)
MergeAtLosesSource(i) ==
  buckets' = SubSeq(buckets, 1, i) \o SubSeq(buckets, i+2, Len(buckets))

(* buckets i and i+1 become one.                                           *)
MergeAt(i) ==
  buckets' = SubSeq(buckets, 1, i-1)
               \o <<Merged(buckets[i], buckets[i+1])>>
               \o SubSeq(buckets, i+2, Len(buckets))

(* The first bucket of the run of equal sizes that ends at i.              *)
StartOfRun(i) ==
  CHOOSE s \in 1..i :
    /\ \A j \in s..i : buckets[j].size = buckets[i].size
    /\ s > 1 => buckets[s-1].size # buckets[i].size

(* Mutants: a run with no merge is looked at again and again; the limit is *)
(* k/2 + 3.                                                                *)
CompressStays ==
  LET s == StartOfRun(idx) IN
  /\ eh.norm = "L1" /\ pc = "compress" /\ idx > 1
  /\ IF 2 * (idx - s + 1) >= eh.k + 4
     THEN MergeAt(s) /\ idx' = s
     ELSE idx' = Greater(s, 2) /\ UNCHANGED buckets
  /\ UNCHANGED <<eh, pc, stream>>

CompressLate ==
  LET s == StartOfRun(idx) IN
  /\ eh.norm = "L1" /\ pc = "compress" /\ idx > 1
  /\ IF 2 * (idx - s + 1) >= eh.k + 6
     THEN MergeAt(s) /\ idx' = s
     ELSE idx' = s - 1 /\ UNCHANGED buckets
  /\ UNCHANGED <<eh, pc, stream>>

(* One round of compressCountInvariant: a run of k/2 + 2 buckets of equal  *)
(* size has its two oldest merged, and the loop looks at the result again. *)
CompressCount ==
  LET s == StartOfRun(idx) IN
  /\ eh.norm = "L1" /\ pc = "compress" /\ idx > 1
  /\ IF 2 * (idx - s + 1) >= eh.k + 4
     THEN MergeAt(s) /\ idx' = s
     ELSE idx' = s - 1 /\ UNCHANGED buckets
  /\ UNCHANGED <<eh, pc, stream>>

MassFrom(i) ==
  PrefixSum([j \in 1..Len(buckets)-i+1 |-> buckets[i+j-1].mass],
            Len(buckets) - i + 1)

(* The energy of a pair is at most 1/k of all the energy after it (the     *)
(* code's epsilon absorbs rounding, which integers do not have).           *)
Light(i) ==
  eh.k * (buckets[i].mass + buckets[i+1].mass) <= MassFrom(i+2)

(* One round of compressL2Invariant: the newest light pair is merged.      *)
CompressL2 ==
  \E i \in 1..Len(buckets)-1 :
    /\ eh.norm = "L2" /\ pc = "compress"
    /\ Light(i)
    /\ \A j \in i+1..Len(buckets)-1 : ~ Light(j)
    /\ MergeAt(i)
    /\ UNCHANGED <<eh, pc, idx, stream>>

(* The loop finds nothing to merge and Update returns.                     *)
UpdateReturns ==
  /\ pc = "compress"
  /\ IF eh.norm = "L1" THEN idx <= 1
                    ELSE \A i \in 1..Len(buckets)-1 : ~ Light(i)
  /\ pc' = "idle"
  /\ idx' = 0
  /\ UNCHANGED <<eh, buckets, stream>>

-----------------------------------------------------------------------------

Next ==
  \/ \E k \in Key, t \in Time : Update(k, t)
  \/ CompressCount
  \/ CompressL2
  \/ UpdateReturns

Spec == Init /\ [][Next]_vars
FairSpec == Spec /\ WF_vars(CompressCount \/ CompressL2 \/ UpdateReturns)

-----------------------------------------------------------------------------
(* QueryInterval *)

N == Len(buckets)
Holds(i, t) == buckets[i].minTime <= t /\ t <= buckets[i].maxTime
Distance(t, u) == IF t < u THEN u - t ELSE t - u

(* fromVolume: the last bucket that holds t1, or the next one when t1 is   *)
(* nearer to the end of that bucket than to its beginning; the first one   *)
(* when none does.                                                         *)
FromVolume(t1) ==
  LET S == {i \in 1..N : Holds(i, t1)}
      start == t1 < buckets[1].minTime \/ S # {}
      from == IF t1 < buckets[1].minTime \/ S = {} THEN 1 ELSE Max(S)
  IN  IF /\ start
         /\ Distance(t1, buckets[from].minTime) > Distance(t1, buckets[from].maxTime)
         /\ from + 1 <= N
      THEN from + 1 ELSE from

(* Mutant: a t2 after the last update is not special.                      *)
ToVolumeHeld(t2) ==
  LET S == {i \in 1..N : Holds(i, t2)} IN IF S = {} THEN 1 ELSE Max(S)

(* toVolume: the last bucket that holds t2, the last of all when t2 is     *)
(* later, and the first one when none does.                                *)
ToVolume(t2) ==
  LET S == {i \in 1..N : Holds(i, t2)} IN
  IF t2 > buckets[N].maxTime THEN N ELSE IF S = {} THEN 1 ELSE Max(S)

(* The positions of the stream in the sketch that QueryInterval returns;   *)
(* it needs at least one bucket.                                           *)
QueryInterval(t1, t2) ==
  LET from == FromVolume(t1)
      to == ToVolume(t2)
  IN  UNION {ToSet(buckets[i].items) : i \in IF from > to THEN {from} ELSE from..to}

-----------------------------------------------------------------------------
(* Properties *)

Held == UNION {ToSet(buckets[i].items) : i \in 1..N}

(* The buckets hold a suffix of the stream, in order, each item once, even *)
(* while they are being merged ...                                         *)
SuffixHeld ==
  /\ \A i \in 1..N :
       LET s == buckets[i].items IN
       /\ s # << >>
       /\ \A j \in 1..Len(s)-1 : s[j+1] = s[j] + 1
       /\ IF i < N THEN buckets[i+1].items[1] = s[Len(s)] + 1
                   ELSE s[Len(s)] = Len(stream)
  /\ stream # << >> => N > 0

(* ... which contains every item that is still in the window.              *)
WindowHeld ==
  \A i \in 1..Len(stream) :
    stream[i].time >= Latest - eh.windowSize => i \in Held

(* A bucket's span is that of its items, late ones included, and its       *)
(* energy, updated merge by merge, is theirs: neither expiry nor a query   *)
(* nor compression can misjudge it.  When Update returns no two neighbours *)
(* could be merged.                                                        *)
BucketsExact ==
  /\ \A i \in 1..N :
       LET items == ToSet(buckets[i].items)
           count(k) == Cardinality({p \in items : stream[p].key = k})
       IN  /\ buckets[i].size = Len(buckets[i].items)
           /\ \A p \in items : Holds(i, stream[p].time)
           /\ \E p \in items : stream[p].time = buckets[i].minTime
           /\ \E p \in items : stream[p].time = buckets[i].maxTime
           /\ eh.norm = "L2" => buckets[i].mass =
                PrefixSum([k \in Key |-> count(k) * count(k)], eh.numKeys)
  /\ eh.norm = "L2" /\ pc = "idle" => \A i \in 1..N-1 : ~ Light(i)

(* The guarantee of the exponential histogram: sizes do not grow towards   *)
(* the present, fewer than k/2 + 2 buckets share one, and no bucket is     *)
(* larger than 1 + 2/k times everything newer, so that the one a query     *)
(* cuts through stays a small part of the answer.                          *)
SizesFrom(i) ==
  PrefixSum([j \in 1..N-i+1 |-> buckets[i+j-1].size], N-i+1)

ErrorBound ==
  eh.norm = "L1" /\ pc = "idle" =>
    \A i \in 1..N :
      /\ i < N => buckets[i].size >= buckets[i+1].size
      /\ 2 * (i - StartOfRun(i) + 1) < eh.k + 4
      /\ eh.k * (buckets[i].size - 1) <= 2 * SizesFrom(i+1)

(* When timestamps never go back, a query that begins within a bucket, or  *)
(* before all of them, and reaches to the present is wrong about items of  *)
(* buckets that hold t1 only.                                              *)
QueryTail ==
  (pc = "idle" /\ N > 0 /\ eh.lateness = 0) =>
    \A t1 \in Time, t2 \in Latest..eh.lastTime :
      (t1 < buckets[1].minTime \/ \E i \in 1..N : Holds(i, t1)) =>
        \A p \in Held :
          LET cut == \E i \in 1..N : Holds(i, t1) /\ p \in ToSet(buckets[i].items)
          IN  cut \/ (p \in QueryInterval(t1, t2) <=> stream[p].time >= t1)

(* Update returns: both loops run out of buckets to merge.                 *)
UpdateEnds == pc = "compress" ~> pc = "idle"
=============================================================================
