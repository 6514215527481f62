------------------------------ MODULE DDSketch ------------------------------
(***************************************************************************)
(* DDSketch (DDSketch.go, delta.go): counts of values in buckets of        *)
(* relative width, in a store that grows in chunks and, when it is capped, *)
(* folds its lowest buckets together.  A value is known by the index of    *)
(* its bucket; every answer is the representative of a bucket, within the  *)
(* accuracy alpha of the values in it.                                     *)
(*                                                                         *)
(* There is a sketch at the edge and one at the backend, and four ways to  *)
(* get data from one to the other: values and merges ("plain"), deltas     *)
(* against a snapshot ("delta", ComputeDelta and ApplyDelta), insert-time  *)
(* GOS ("gos", UpdateGOS and ApplyDelta) and the OctoSketch worker path    *)
(* ("octo", ProcessInput, Flush and MergeDelta).  The last two reset what  *)
(* they have sent; deltas may arrive in any order.  At any time a sketch   *)
(* may be serialized and another built of the bytes (Restart).             *)
(***************************************************************************)
EXTENDS Integers, FiniteSets, FiniteSetsExt, Functions, Bags

CONSTANTS
  GrowChunk,   \* 128
  SparsityDivisor, \* denseSparsityDivisor, 64
  NumIndex,    \* model bound: bucket indices of the values
  Threshold,   \* thresholds given to UpdateGOS, and tau for ProcessInput;
               \*   0 switches GOS off for one insert
  Word,        \* the values of a uint32, 2^32
  Config       \* how a system is used, the cap of the edge's store, 0 for
               \*   none, and, model bounds, how many values are inserted
               \*   and the serialized forms that are tried

Usage == {"plain", "delta", "gos", "octo"}
Form == {"clone", "gob", "state", "msgpack"}

ASSUME DDSketchAssumption ==
  /\ {GrowChunk, SparsityDivisor} \subseteq Nat \ {0} /\ NumIndex \in Nat \ {0}
  /\ Threshold \subseteq Nat /\ Word \in Nat \ {0}
  /\ Config \subseteq [usage : Usage, maxBins : Nat, values : Nat, forms : SUBSET Form]

Index == 1..NumIndex
Side == {"edge", "backend"}

(* Beyond every index: math.Inf(1) and math.Inf(-1).                       *)
Above == NumIndex + 1
Below == 0

VARIABLES
  config,
  sk,        \* the sketches
  snapshot,  \* the edge's store when it last sent a delta against it
  wire,      \* deltas on their way to the backend
  panicked,  \* an index into the store was out of range
  values,    \* history: how many values have been inserted
  truth,     \* history: per bucket, what a side was given and has not sent
  floor,     \* history: the highest index a side has folded buckets into
  merged     \* history: a side was the target of a Merge

vars == <<config, sk, snapshot, wire, panicked, values, truth, floor, merged>>

Lesser(m, n) == IF m < n THEN m ELSE n
Greater(m, n) == IF m > n THEN m ELSE n

-----------------------------------------------------------------------------
(* The store: a function from an interval of indices to counts.            *)

Empty == [k \in {} |-> 0]
Left(b) == Min(DOMAIN b)
Right(b) == Max(DOMAIN b)
At(b, k) == IF k \in DOMAIN b THEN b[k] ELSE 0
Total(b) == SumFunction(b)

Spread(b, l, r) == [k \in l..r |-> At(b, k)]

(* Mutant: what falls below the new floor is dropped.                      *)
CollapsedDropping(b, l, r) == Spread(b, l, r)

(* collapseTo: everything below l is folded into bucket l.                 *)
Collapsed(b, l, r) ==
  [k \in l..r |->
     IF k = l THEN SumFunctionOnSet(b, {j \in DOMAIN b : j <= l}) ELSE At(b, k)]

(* Index k and the store together span more than the cap.                  *)
Overflows(b, cap, k) ==
  /\ DOMAIN b # {} /\ k \notin DOMAIN b /\ cap > 0
  /\ Greater(Right(b), k) - Lesser(Left(b), k) + 1 > cap

NewFloor(b, cap, k) == Greater(Right(b), k) - cap + 1

(* Growth is by a chunk at least, but not beyond the cap.                  *)
GrownLeft(b, cap, k) ==
  LET l == Left(b) - Greater(Left(b) - k, GrowChunk)
  IN  IF cap > 0 THEN Greater(l, Right(b) - cap + 1) ELSE l

GrownRight(b, cap, k) ==
  LET r == Right(b) + Greater(k - Right(b), GrowChunk)
  IN  IF cap > 0 THEN Lesser(r, Left(b) + cap - 1) ELSE r

(* A first store has k in its middle.                                      *)
Fresh(cap, k) ==
  LET n == IF cap > 0 THEN Lesser(GrowChunk, cap) ELSE GrowChunk
      l == k - n \div 2
  IN  [j \in l..l+n-1 |-> 0]

(* ensure: the store after it has made room for index k.                   *)
Ensured(b, cap, k) ==
  IF DOMAIN b = {} THEN Fresh(cap, k)
  ELSE IF Overflows(b, cap, k)
  THEN Collapsed(b, NewFloor(b, cap, k), Greater(Right(b), k))
  ELSE IF k < Left(b) THEN Spread(b, GrownLeft(b, cap, k), Right(b))
  ELSE IF k > Right(b) THEN Spread(b, Left(b), GrownRight(b, cap, k))
  ELSE b

(* The index ensure returns: k's own bucket, or the floor k was folded to. *)
Slot(b, cap, k) ==
  IF Overflows(b, cap, k) THEN Greater(k, NewFloor(b, cap, k)) ELSE k

(* Mutant: arrays are added position by position.                          *)
BucketsMergedByPosition(a, b) ==
  IF DOMAIN a = {} THEN b
  ELSE IF DOMAIN b = {} THEN a
  ELSE LET l == Lesser(Left(a), Left(b)) IN
       [k \in l..Greater(Right(a), Right(b)) |-> At(a, k - l + Left(a)) + At(b, k)]

(* mergeBuckets; the cap is not enforced.                                  *)
BucketsMerged(a, b) ==
  IF DOMAIN a = {} THEN b
  ELSE IF DOMAIN b = {} THEN a
  ELSE [k \in Lesser(Left(a), Left(b))..Greater(Right(a), Right(b)) |->
          At(a, k) + At(b, k)]

Populated(b) == Cardinality({k \in DOMAIN b : b[k] # 0})

-----------------------------------------------------------------------------

NewDDSketch(cap) ==
  [bins |-> Empty, cap |-> cap, count |-> 0, min |-> Above, max |-> Below,
   populated |-> 0]

Delta == [index : Index, count : Nat]

Init ==
  /\ config \in Config
  /\ sk = [s \in Side |-> NewDDSketch(IF s = "edge" THEN config.maxBins ELSE 0)]
  /\ snapshot = Empty
  /\ wire = EmptyBag
  /\ panicked = FALSE
  /\ values = 0
  /\ truth = [s \in Side |-> [k \in Index |-> 0]]
  /\ floor = [s \in Side |-> Below]
  /\ merged = [s \in Side |-> FALSE]

(* Sketch d with n more in the bucket k goes to.                           *)
Added(d, k, n) ==
  [d EXCEPT !.bins = [Ensured(d.bins, d.cap, k)
                        EXCEPT ![Slot(d.bins, d.cap, k)] = @ + n],
            !.count = @ + n]

(* min and max of sketch d once it has seen index k.                       *)
Seen(d, k) == [d EXCEPT !.min = Lesser(@, k), !.max = Greater(@, k)]

FloorAfter(s, k) ==
  IF Overflows(sk[s].bins, sk[s].cap, k)
  THEN [floor EXCEPT ![s] = Greater(@, NewFloor(sk[s].bins, sk[s].cap, k))]
  ELSE floor

Insert ==
  /\ ~ panicked
  /\ values < config.values
  /\ values' = values + 1
  /\ UNCHANGED <<config, snapshot, merged>>

(* Update of a value with bucket index k; a value that is not positive and *)
(* finite, or beyond the indexable ones, changes nothing.                  *)
Update(s, k) ==
  /\ <<config.usage, s>> \in {<<"plain", "edge">>, <<"plain", "backend">>, <<"delta", "edge">>}
  /\ Insert
  /\ sk' = [sk EXCEPT ![s] = Added(Seen(@, k), k, 1)]
  /\ truth' = [truth EXCEPT ![s][k] = @ + 1]
  /\ floor' = FloorAfter(s, k)
  /\ UNCHANGED <<wire, panicked>>

(* A delta leaves the edge.                                                *)
Emit(k, n) ==
  /\ wire' = wire (+) SetToBag({[index |-> k, count |-> n]})
  /\ truth' = [truth EXCEPT !["edge"][k] = @ + 1 - n]

EmitNothing(k) ==
  /\ wire' = wire
  /\ truth' = [truth EXCEPT !["edge"][k] = @ + 1]

(* ResetBucket and the reset in UpdateGOS.                                 *)
WithoutBucket(d, k) ==
  [d EXCEPT !.bins = [j \in DOMAIN @ |-> IF j = k THEN 0 ELSE @[j]],
            !.count = IF @ >= At(d.bins, k) THEN @ - At(d.bins, k) ELSE 0]

Crossed(d, k) == [WithoutBucket(d, k) EXCEPT !.populated = (@ + Word - 1) % Word]

(* UpdateGOS with a threshold: the bucket is counted as populated when it  *)
(* was zero, and once it reaches the threshold its count is reported and   *)
(* reset; threshold 0 inserts without looking at gosPopulated.  addOneGOS  *)
(* computes the place in the store from k and the offset alone: when       *)
(* ensure has folded k away, that is out of range.                         *)
UpdateGOS(k, t) ==
  LET d == sk["edge"]
      a == Added(Seen(d, k), k, 1)
      n == At(a.bins, k)
      c == [a EXCEPT !.populated = IF n = 1 THEN (@ + 1) % Word ELSE @]
  IN  /\ config.usage = "gos"
      /\ Insert
      /\ panicked' = (t # 0 /\ Slot(d.bins, d.cap, k) # k)
      /\ floor' = FloorAfter("edge", k)
      /\ IF panicked' THEN UNCHANGED <<sk, wire, truth>>
         ELSE IF t = 0 THEN sk' = [sk EXCEPT !["edge"] = a] /\ EmitNothing(k)
         ELSE IF n < t
         THEN sk' = [sk EXCEPT !["edge"] = c] /\ EmitNothing(k)
         ELSE sk' = [sk EXCEPT !["edge"] = Crossed(c, k)] /\ Emit(k, n)

(* ProcessInput: addOneFast, which looks at min and max when the bucket    *)
(* was zero, and at the threshold a delta and ResetBucket.                 *)
ProcessInput(k, tau) ==
  LET d == sk["edge"]
      slot == Slot(d.bins, d.cap, k)
      c == IF At(d.bins, k) = 0 THEN Seen(Added(d, k, 1), slot) ELSE Added(d, k, 1)
      n == c.bins[slot]
  IN  /\ config.usage = "octo"
      /\ Insert
      /\ floor' = FloorAfter("edge", k)
      /\ IF n < tau
         THEN sk' = [sk EXCEPT !["edge"] = c] /\ EmitNothing(k)
         ELSE sk' = [sk EXCEPT !["edge"] = WithoutBucket(c, k)] /\ Emit(k, n)
      /\ UNCHANGED panicked

(* Flush: DrainBuckets hands every bucket on and zeroes it.                *)
Flush ==
  LET d == sk["edge"]
      K == {k \in DOMAIN d.bins : d.bins[k] # 0}
  IN  /\ config.usage = "octo" /\ K # {}
      /\ ~ panicked
      /\ wire' = wire (+) SetToBag({[index |-> k, count |-> d.bins[k]] : k \in K})
      /\ sk' = [sk EXCEPT !["edge"].bins = [k \in DOMAIN @ |-> 0],
                          !["edge"].count = 0]
      /\ truth' = [truth EXCEPT !["edge"] =
                     [k \in Index |-> @[k] - At(d.bins, k)]]
      /\ UNCHANGED <<config, snapshot, panicked, values, floor, merged>>

(* ComputeDelta: what every bucket of b has got since s, if it reaches the *)
(* threshold; 0 sends the buckets without a change too.                    *)
ComputeDelta(s, b, threshold) ==
  {[index |-> k, count |-> b[k] - At(s, k)] :
     k \in {j \in DOMAIN b : b[j] # 0 /\ b[j] - At(s, j) >= threshold}}

SendDelta(threshold) ==
  LET bins == sk["edge"].bins IN
  /\ config.usage = "delta" /\ snapshot # bins
  /\ wire' = wire (+) SetToBag(ComputeDelta(snapshot, bins, threshold))
  /\ snapshot' = bins
  /\ UNCHANGED <<config, sk, panicked, values, truth, floor, merged>>

(* AddToBucket at the backend, by MergeDelta or ApplyDelta.                *)
Deliver(m) ==
  LET d == sk["backend"] IN
  /\ ~ panicked
  /\ wire' = wire (-) SetToBag({m})
  /\ sk' = [sk EXCEPT !["backend"] =
              Seen(Added(d, m.index, m.count), Slot(d.bins, d.cap, m.index))]
  /\ truth' = [truth EXCEPT !["backend"][m.index] = @ + m.count]
  /\ floor' = FloorAfter("backend", m.index)
  /\ UNCHANGED <<config, snapshot, panicked, values, merged>>

(* Merge of sketch o into sketch s; an empty s takes over a copy of o's    *)
(* store, the cap included.                                                *)
Merge(s, o) ==
  LET d == sk[s]
      e == sk[o]
      bins == BucketsMerged(d.bins, e.bins)
  IN  /\ config.usage = "plain" /\ s # o
      /\ e.count # 0
      /\ d.count + e.count <= config.values
      /\ sk' = [sk EXCEPT ![s] =
                  IF d.count = 0 THEN e
                  ELSE [bins |-> bins, cap |-> d.cap, count |-> d.count + e.count,
                        min |-> Lesser(d.min, e.min), max |-> Greater(d.max, e.max),
                        populated |-> Populated(bins)]]
      /\ truth' = [truth EXCEPT ![s] = [k \in Index |-> @[k] + truth[o][k]]]
      /\ floor' = [floor EXCEPT ![s] = IF d.count = 0 THEN floor[o]
                                        ELSE Greater(@, floor[o])]
      /\ merged' = [merged EXCEPT ![s] = TRUE]
      /\ UNCHANGED <<config, snapshot, wire, panicked, values>>

(* Whoever sends deltas starts a window with a new snapshot as well; the   *)
(* "delta" usage is one window.                                            *)
Clear(s) ==
  /\ ~ panicked /\ config.usage # "delta"
  /\ sk' = [sk EXCEPT ![s] = NewDDSketch(@.cap)]
  /\ truth' = [truth EXCEPT ![s] = [k \in Index |-> 0]]
  /\ floor' = [floor EXCEPT ![s] = Below]
  /\ UNCHANGED <<config, snapshot, wire, panicked, values, merged>>

-----------------------------------------------------------------------------
(* Serialized forms *)

Nonzero(b) == {k \in DOMAIN b : b[k] # 0}

(* bucketWireForm: the array, or, when it is too sparse, pairs of index    *)
(* and count; a store of zeros is sent as an empty one.                    *)
bucketWireForm(b) ==
  IF Nonzero(b) = {} THEN [dense |-> Empty, sparse |-> {}]
  ELSE IF Cardinality(DOMAIN b) <= Cardinality(Nonzero(b)) * SparsityDivisor
  THEN [dense |-> b, sparse |-> {}]
  ELSE [dense |-> Empty, sparse |-> {[index |-> k, count |-> b[k]] : k \in Nonzero(b)}]

bucketsFromWire(w) ==
  IF w.sparse = {} THEN w.dense
  ELSE LET I == {e.index : e \in w.sparse} IN
       [k \in Min(I)..Max(I) |->
          IF k \in I THEN (CHOOSE e \in w.sparse : e.index = k).count ELSE 0]

(* NewFromState and DeserializeMsgpack derive the scalars from the buckets;*)
(* the new sketch has no cap.                                              *)
NewFromState(b) ==
  [bins |-> b, cap |-> 0, count |-> Total(b), populated |-> Populated(b),
   min |-> Min(Nonzero(b) \union {Above}), max |-> Max(Nonzero(b) \union {Below})]

(* A Clone loses the sampler only; the Gob snapshot keeps the scalars, but *)
(* not the cap.                                                            *)
Decoded(form, d) ==
  CASE form = "clone"   -> d
    [] form = "gob"     -> [d EXCEPT !.cap = 0, !.populated = Populated(d.bins)]
    [] form = "state"   -> NewFromState(bucketsFromWire(bucketWireForm(d.bins)))
    [] form = "msgpack" -> NewFromState(d.bins)

Restart(s, form) ==
  /\ ~ panicked
  /\ sk' = [sk EXCEPT ![s] = Decoded(form, @)]
  /\ UNCHANGED <<config, snapshot, wire, panicked, values, truth, floor, merged>>

-----------------------------------------------------------------------------

Next ==
  \/ \E s \in Side, k \in Index : Update(s, k)
  \/ \E k \in Index, t \in Threshold : UpdateGOS(k, t) \/ ProcessInput(k, t)
  \/ Flush
  \/ \E m \in BagToSet(wire) : Deliver(m)
  \/ \E s, o \in Side : Merge(s, o)
  \/ \E t \in {0, 1} : SendDelta(t)
  \/ \E s \in Side : Clear(s)
  \/ \E s \in Side, form \in config.forms : Restart(s, form)

Spec == Init /\ [][Next]_vars

-----------------------------------------------------------------------------
(* Quantile *)

(* Mutant: one rank too far.                                               *)
QuantileIndexAfter(d, rank) ==
  LET Reached == {k \in DOMAIN d.bins :
                    d.bins[k] # 0 /\ SumFunctionOnSet(d.bins, {j \in DOMAIN d.bins : j <= k}) > rank}
  IN  IF Reached = {} THEN Max({k \in DOMAIN d.bins : d.bins[k] # 0})
      ELSE Greater(Min(Reached), d.min)

(* The bucket whose representative Quantile returns for a rank: the first  *)
(* at which that many values have been seen, but none below the minimum.   *)
QuantileIndex(d, rank) ==
  LET Reached == {k \in DOMAIN d.bins :
                    d.bins[k] # 0 /\ SumFunctionOnSet(d.bins, {j \in DOMAIN d.bins : j <= k}) >= rank}
  IN  IF Reached = {} THEN Max({k \in DOMAIN d.bins : d.bins[k] # 0})
      ELSE Greater(Min(Reached), d.min)

-----------------------------------------------------------------------------
(* Properties *)

TypeOK ==
  /\ config \in Config
  /\ \A s \in Side : LET d == sk[s] IN
       /\ d.bins = Empty \/ DOMAIN d.bins = Left(d.bins)..Right(d.bins)
       /\ \A k \in DOMAIN d.bins : d.bins[k] \in Nat
       /\ {d.cap, d.count, d.populated} \subseteq Nat
       /\ {d.min, d.max} \subseteq Nat
  /\ snapshot = Empty \/ DOMAIN snapshot = Left(snapshot)..Right(snapshot)
  /\ BagToSet(wire) \subseteq Delta
  /\ panicked \in BOOLEAN
  /\ values \in 0..config.values
  /\ truth \in [Side -> [Index -> Nat]]
  /\ merged \in [Side -> BOOLEAN]

(* "The high end is never affected": every bucket above the highest floor  *)
(* holds exactly the values that belong to it, all of them when nothing    *)
(* was ever collapsed.                                                     *)
HighEndExact ==
  \A s \in Side, k \in Index : k > floor[s] => At(sk[s].bins, k) = truth[s][k]

(* Quantile returns the bucket of the value of that rank, or, when that    *)
(* value has been folded away, a bucket of the folded range.               *)
QuantileExact ==
  \A s \in Side : \A rank \in 1..sk[s].count :
    LET Reached == {k \in Index : SumFunctionOnSet(truth[s], 1..k) >= rank}
        answer == QuantileIndex(sk[s], rank)
    IN  IF Min(Reached) > floor[s] THEN answer = Min(Reached)
                                   ELSE answer <= floor[s]

(* "The sketch's total count is always conserved across a collapse": the   *)
(* store, the counter and what was inserted agree, whatever has been       *)
(* collapsed, merged, sent, reset, delivered and serialized.               *)
CountConserved ==
  \A s \in Side : /\ Total(sk[s].bins) = sk[s].count
                  /\ sk[s].count = SumFunctionOnSet(truth[s], Index)

(* A capped store never spans more than its cap, and gives up only indices *)
(* that the buffer of one chunk pushes out of the window below the highest *)
(* value.  (Merge does not enforce the cap.)                               *)
CapRespected ==
  \A s \in Side : LET d == sk[s] IN
    d.cap > 0 /\ ~ merged[s] =>
      /\ Cardinality(DOMAIN d.bins) <= d.cap
      /\ floor[s] # Below =>
           floor[s] < d.max + Lesser(GrowChunk, d.cap) - d.cap + 1

(* gosPopulated, from which the caller computes the next threshold, is the *)
(* number of non-zero buckets, not an old or assumed one.                  *)
PopulatedExact ==
  config.usage = "gos" /\ ~ panicked =>
    sk["edge"].populated = Populated(sk["edge"].bins)

(* Deltas against the last snapshot add up: once they have arrived, in any *)
(* order, the backend has in every bucket what the edge had.               *)
DeltasAddUp ==
  config.usage = "delta" => \A k \in Index :
    truth["backend"][k] + SumFunctionOnSet([m \in BagToSet(wire) |->
      IF m.index = k THEN m.count * wire[m] ELSE 0], BagToSet(wire))
        = At(snapshot, k)

(* The books of the store: counts, the cap, the number of populated        *)
(* buckets and what has been sent.                                         *)
StoreAccounted == CountConserved /\ CapRespected /\ PopulatedExact /\ DeltasAddUp

(* "Callers must write to the RETURNED index, not blindly recompute        *)
(* k-offset" (the comment of ensure): no insert leaves the store's range.  *)
InRange == ~ panicked
=============================================================================
