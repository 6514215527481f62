------------------------------ MODULE UnivMon ------------------------------
(***************************************************************************)
(* univmon.go and countsketchuniv.go: layers of Count Sketches, each with  *)
(* the heap of its heaviest keys.  A key is in the layers from 0 up to its *)
(* bottom layer, which its hash bits choose; sums of a function over all   *)
(* keys are estimated from the heaps, from the last layer to the first.    *)
(***************************************************************************)
EXTENDS Integers, FiniteSets, Functions, SequencesExt, TopKHeap

CONSTANTS
  Node, Key,
  Layers,    \* number of layers; they are numbered from 0
  Bottom,    \* Bottom[k]: findBottomLayerNum of the key's hash
  Col, ColOf, SignOf,    \* of key k in row r
  HeapSize,
  Values,    \* what one update adds
  MaxVolume  \* model bound: volume of all sketches together

VARIABLES
  sk,    \* the sketch of each node
  seen   \* history: total of each key, what the heaps know of it, and the
         \* volume, the sum of the absolute values it was updated with

vars == <<sk, seen>>

Layer == 0..(Layers - 1)
Row == 1..3

NewLayer == [count |-> [r \in Row |-> [c \in Col |-> 0]],
             l2 |-> [r \in Row |-> 0], heap |-> <<>>]
NewSketch == [bucket_size |-> 0, enableTopK |-> TRUE, layer |-> [l \in Layer |-> NewLayer]]
NoCounts == [k \in Key |-> 0]
Nothing == [total |-> NoCounts, known |-> NoCounts, volume |-> 0]

Init ==
  /\ sk = [n \in Node |-> NewSketch]
  /\ seen = [n \in Node |-> Nothing]

-----------------------------------------------------------------------------
(* One layer.                                                              *)
MedianOfThree(a, b, c) ==
  CHOOSE m \in {a, b, c} : /\ Cardinality({i \in 1..3 : <<a, b, c>>[i] <= m}) >= 2
                           /\ Cardinality({i \in 1..3 : <<a, b, c>>[i] >= m}) >= 2

EstimateHash(s, k) ==
  LET counter(r) == SignOf[k][r] * s.count[r][ColOf[k][r]]
  IN  MedianOfThree(counter(1), counter(2), counter(3))

(* Only layer 0 keeps its second moments up to date.                       *)
UpdateWithHash(s, l, k, value) ==
  LET cur(r)  == s.count[r][ColOf[k][r]]
      next(r) == cur(r) + SignOf[k][r] * value
  IN  [s EXCEPT !.count = [r \in Row |-> [@[r] EXCEPT ![ColOf[k][r]] = next(r)]],
                !.l2 = IF l > 0 THEN @
                       ELSE [r \in Row |-> @[r] + next(r)^2 - cur(r)^2]]

UpdateAndEstimate(s, l, k, value) ==
  LET t == UpdateWithHash(s, l, k, value)
  IN  [t EXCEPT !.heap = TopKUpdate(@, HeapSize, k, EstimateHash(t, k))]

SumOf(f) == FoldFunction(+, 0, f)

(* Counters add up, and the second moments of every layer are computed     *)
(* anew.                                                                   *)
MergeCounts(s, o) ==
  LET count == [r \in Row |-> [c \in Col |-> s.count[r][c] + o.count[r][c]]]
  IN  [s EXCEPT !.count = count,
                !.l2 = [r \in Row |-> SumOf([c \in Col |-> count[r][c]^2])]]

(* Mutant: the count of the other heap replaces the own one.               *)
MergeHeapsReplaces(heap, other) ==
  FoldLeft(LAMBDA h, item : TopKUpdate(h, HeapSize, item.key, item.count), heap, other)

MergeHeaps(heap, other) ==
  FoldLeft(LAMBDA h, item :
             LET i == Find(h, item.key)
             IN  TopKUpdate(h, HeapSize, item.key,
                            item.count + IF i = 0 THEN 0 ELSE h[i].count),
           heap, other)

-----------------------------------------------------------------------------
(* A value of 0 is ignored; the key goes into every layer down to Bottom.  *)
Updated(s, k, value, topK) ==
  [s EXCEPT !.bucket_size = @ + value,
            !.layer = [l \in Layer |->
     IF l > Bottom[k] THEN @[l]
     ELSE IF topK THEN UpdateAndEstimate(@[l], l, k, value)
     ELSE UpdateWithHash(@[l], l, k, value)]]

Abs(x) == IF x < 0 THEN -x ELSE x

Update(n, k, value) ==
  LET total == seen[n].total[k] + value
  IN  /\ value # 0
      /\ sk' = [sk EXCEPT ![n] = Updated(@, k, value, sk[n].enableTopK)]
      /\ seen' = [seen EXCEPT ![n].total[k] = total,
                              ![n].known[k] = IF sk[n].enableTopK THEN total ELSE @,
                              ![n].volume = @ + Abs(value)]

SetTopKEnabled(n, enabled) ==
  /\ sk' = [sk EXCEPT ![n].enableTopK = enabled]
  /\ UNCHANGED seen

(* Without a key, the heaps learn nothing.                                 *)
UpdateWithHashOnly(n, k, value) ==
  /\ value # 0
  /\ sk' = [sk EXCEPT ![n] = Updated(@, k, value, FALSE)]
  /\ seen' = [seen EXCEPT ![n].total[k] = @ + value, ![n].volume = @ + Abs(value)]

(* Another sketch; merging one with itself would walk a heap while         *)
(* changing it.                                                            *)
Merge(n, m) ==
  /\ n # m
  /\ sk' = [sk EXCEPT
       ![n].bucket_size = @ + sk[m].bucket_size,
       ![n].layer = [l \in Layer |->
          [MergeCounts(@[l], sk[m].layer[l]) EXCEPT
             !.heap = IF sk[n].enableTopK THEN MergeHeaps(@, sk[m].layer[l].heap) ELSE @]]]
  /\ seen' = [seen EXCEPT ![n] =
       [total  |-> [k \in Key |-> @.total[k] + seen[m].total[k]],
        known  |-> [k \in Key |-> @.known[k] +
                      IF sk[n].enableTopK THEN seen[m].known[k] ELSE 0],
        volume |-> @.volume + seen[m].volume]]

Free(n) ==
  /\ sk' = [sk EXCEPT ![n] = [NewSketch EXCEPT !.enableTopK = sk[n].enableTopK]]
  /\ seen' = [seen EXCEPT ![n] = Nothing]

(* The written form has layers and heaps; enableTopK is not in it.         *)
LayerSnapshot(s) == [count |-> s.count, l2 |-> s.l2]
Snapshot(s) ==
  [bucket_size |-> s.bucket_size,
   CSLayers |-> [l \in Layer |-> LayerSnapshot(s.layer[l])],
   HHLayers |-> [l \in Layer |-> s.layer[l].heap]]

RestoredLayer(cs, heap) == [count |-> cs.count, l2 |-> cs.l2, heap |-> heap]
Restored(w) ==
  [bucket_size |-> w.bucket_size, enableTopK |-> TRUE,
   layer |-> [l \in Layer |-> RestoredLayer(w.CSLayers[l], w.HHLayers[l])]]

Restart(n) ==
  /\ sk' = [sk EXCEPT ![n] = Restored(Snapshot(@))]
  /\ UNCHANGED seen

Next ==
  /\ \/ \E n \in Node, k \in Key, value \in Values :
          Update(n, k, value) \/ UpdateWithHashOnly(n, k, value)
     \/ \E n, m \in Node : Merge(n, m)
     \/ \E n \in Node, enabled \in BOOLEAN : SetTopKEnabled(n, enabled)
     \/ \E n \in Node : Free(n) \/ Restart(n)
  /\ SumOf([n \in Node |-> seen'[n].volume]) <= MaxVolume

-----------------------------------------------------------------------------
(* int64(0.01 * l2), where l2 is the root of the median of l2[0..2].       *)
Threshold(s) ==
  LET f2 == MedianOfThree(s.l2[1], s.l2[2], s.l2[3])
  IN  CHOOSE t \in 0..f2 : (100 * t)^2 <= f2 /\ (100 * (t + 1))^2 > f2

(* Bit l+1 of the key's hash.                                              *)
HashBit(k, l) == IF l < Bottom[k] THEN 1 ELSE 0

(* The sum of the counts' powers; the code takes any function of them.     *)
calcGSum(s, power, isCard) ==
  LET g(x) == x^power
      least(l) == IF isCard THEN Threshold(s.layer[l]) ELSE 0
      heavy(l) == {i \in DOMAIN s.layer[l].heap : s.layer[l].heap[i].count > least(l)}
      part(l, Coe(_)) == SumOf([i \in heavy(l) |->
          Coe(s.layer[l].heap[i].key) * g(s.layer[l].heap[i].count)])
      Y[l \in Layer] == IF l = Layers - 1 THEN part(l, LAMBDA k : 1)
                        ELSE 2 * Y[l + 1] + part(l, LAMBDA k : 1 - 2 * HashBit(k, l))
  IN  Y[0]

GetCardinality(s) == calcGSum(s, 0, TRUE)
SecondMoment(s) == calcGSum(s, 2, FALSE)

GetL1(s) == s.bucket_size

(* From the last layer to the first, a later count replacing an earlier.   *)
QueryTopK(s, size) ==
  FoldLeft(LAMBDA h, i :
             LET layer == s.layer[Layers - i]
             IN  FoldLeft(LAMBDA g, item : IF item.count > Threshold(layer)
                                           THEN TopKUpdate(g, size, item.key, item.count) ELSE g,
                          h, layer.heap),
           << >>, [i \in 1..Layers |-> i])

(* While the heaps hold every key given to them, the sums over the layers  *)
(* telescope to the exact ones, whatever keys are cut off at which layer,  *)
(* after merges too; the counters of every layer are those of all updates. *)
GSumExact ==
  \A n \in Node :
    LET s == sk[n]
        known == seen[n].known
        total == seen[n].total
        positive == {k \in Key : known[k] > 0}
    IN  /\ GetCardinality(s) = Cardinality(positive)
        /\ SecondMoment(s) = SumOf([k \in positive |-> known[k]^2])
        /\ Range(QueryTopK(s, HeapSize)) = {[key |-> k, count |-> known[k]] : k \in positive}
        /\ GetL1(s) = SumOf(total)
        /\ \A k \in Key, l \in Layer :
             l <= Bottom[k] => EstimateHash(s.layer[l], k) = total[k]
        /\ \A r \in Row : s.layer[0].l2[r] = SumOf([c \in Col |-> s.layer[0].count[r][c]^2])
=============================================================================
