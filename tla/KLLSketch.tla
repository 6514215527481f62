----------------------------- MODULE KLLSketch -----------------------------
(***************************************************************************)
(* kll.go: levels of values, a value of level h standing for 2^(h-1)       *)
(* inserted ones (levels are numbered from 1).  A level over its capacity  *)
(* is compacted: sorted, and every other value, from the first or the      *)
(* second as a coin decides, moves up.  A level is a count of each value:  *)
(* what the code does with it depends on its order no more.  portable.go:  *)
(* the levels as one array with offsets, its values as they are or, where  *)
(* a decimal scale fits them all, as multiples of a unit above the least.  *)
(***************************************************************************)
EXTENDS Integers, FiniteSets, Functions, SequencesExt

CONSTANTS
  Node,
  Value,      \* numbers from 1 on
  Units,      \* Units[v]: the value in units of its last decimal digit
  Digits,     \* how many decimal digits values have
  K, M,       \* K[n], M: the parameters given to NewKLLSketch
  MaxCacheableK,  \* greatest parameter (26602)
  CacheLen,   \* levels whose capacities differ (20)
  MaxItems,   \* model bound: values inserted into one sketch
  MaxTotal    \* model bound: values inserted into all sketches together

VARIABLES
  sk,    \* the sketch of each node
  seen   \* history: inserted values, compaction slack, whether a merge was made

vars == <<sk, seen>>

NoValues == [v \in Value |-> 0]
Clamp(x, lo, hi) == Min({Max({x, lo}), hi})

(* slack: history                                                          *)
NewSketch(n) ==
  LET m == Clamp(M, 2, MaxCacheableK)
  IN  [k |-> Clamp(K[n], m, MaxCacheableK), m |-> m,
       levels |-> <<NoValues>>, slack |-> 0]

Init ==
  /\ sk = [n \in Node |-> NewSketch(n)]
  /\ seen = [n \in Node |-> [vals |-> NoValues, merged |-> FALSE]]

Add(f, g) == [v \in Value |-> f[v] + g[v]]
UpTo(f, x) == FoldFunctionOnSet(+, 0, f, {v \in Value : v <= x})
Size(f) == FoldFunction(+, 0, f)

-----------------------------------------------------------------------------
(* k times (2/3)^depth, rounded up, and m at least.                        *)
capacityForLevel(s, h) ==
  LET depth == Min({Len(s.levels) - h, CacheLen - 1})
      scaled == (s.k * 2^depth + 3^depth - 1) \div 3^depth
  IN  Max({scaled, s.m})

(* The coin, a xorshift generator seeded by the clock or by the caller.    *)
Toss == {0, 1}

addNewTopLevel(s) == [s EXCEPT !.levels = Append(@, NoValues)]

(* How many of the first p values of a sorted level survive.               *)
Survivors(p, offset) == (p + 1 - offset) \div 2

Promoted(level, offset) ==
  LET below(x) == Survivors(UpTo(level, x), offset)
  IN  [v \in Value |-> below(v) - below(v - 1)]

(* Mutant: the survivors stay on their level.                              *)
compactInPlace(s, h, offset) ==
  [s EXCEPT !.levels[h] = Promoted(@, offset), !.slack = @ + 2^(h - 1)]

compact(s, h, offset) ==
  [s EXCEPT !.levels[h] = NoValues,
            !.levels[h + 1] = Add(@, Promoted(s.levels[h], offset)),
            !.slack = @ + 2^(h - 1)]

(* From level h up while a level is over its capacity, one coin each; the  *)
(* top level gets a new one above it first, which lowers the capacities.   *)
RECURSIVE compressWhileNeeded(_, _)
compressWhileNeeded(s, h) ==
  CASE h > Len(s.levels) \/ Size(s.levels[h]) <= capacityForLevel(s, h) -> {s}
    [] OTHER ->
       IF h = Len(s.levels) THEN compressWhileNeeded(addNewTopLevel(s), h)
       ELSE UNION {compressWhileNeeded(compact(s, h, offset), h + 1) : offset \in Toss}

-----------------------------------------------------------------------------
pushValue(n, v) ==
  LET s == [sk[n] EXCEPT !.levels[1][v] = @ + 1]
  IN  /\ \E t \in compressWhileNeeded(s, 1) : sk' = [sk EXCEPT ![n] = t]
      /\ seen' = [seen EXCEPT ![n].vals[v] = @ + 1]

(* Level by level; compaction starts at the first level and ends where a   *)
(* level fits, whatever is above it.                                       *)
mergePacked(n, m) ==
  LET at(s, h) == IF h <= Len(s.levels) THEN s.levels[h] ELSE NoValues
      height == Max({Len(sk[n].levels), Len(sk[m].levels)})
      s == [sk[n] EXCEPT
              !.levels = [h \in 1..height |-> Add(at(sk[n], h), at(sk[m], h))],
              !.slack = @ + sk[m].slack]
  IN  /\ \E t \in compressWhileNeeded(s, 1) : sk' = [sk EXCEPT ![n] = t]
      /\ seen' = [seen EXCEPT ![n] = [vals |-> Add(@.vals, seen[m].vals), merged |-> TRUE]]

Clear(n) ==
  /\ sk' = [sk EXCEPT ![n] = NewSketch(n)]
  /\ seen' = [seen EXCEPT ![n] = [vals |-> NoValues, merged |-> FALSE]]

-----------------------------------------------------------------------------
(* The array s.items: the top level first; s.levels holds the offsets.     *)
Items(s) ==
  LET level(h) == FoldLeft(LAMBDA acc, v : acc \o [i \in 1..s.levels[h][v] |-> Units[v]],
                           << >>, SetToSortSeq(Value, <))
  IN  FlattenSeq([i \in 1..Len(s.levels) |-> level(Len(s.levels) + 1 - i)])

Offsets(s) ==
  LET size(i) == Size(s.levels[Len(s.levels) + 1 - i])
  IN  FoldLeft(LAMBDA acc, i : Append(acc, Last(acc) + size(i)), <<0>>,
               [i \in 1..Len(s.levels) |-> i])

Snapshot(s) ==
  [k |-> s.k, m |-> s.m, items |-> Items(s), levels |-> Offsets(s)]

(* The least value is the offset, and the coarsest scale that gives every  *)
(* item back exactly is taken; no items, or no scale: no encoding.  Scales *)
(* run from 0 to -6.                                                       *)
Scales == {sc \in -6..0 : Digits + sc >= 0}
RoundedDiv(a, b) == (2 * a + b) \div (2 * b)

encodeValueOffset(items) ==
  LET offset == Min(Range(items))
      unit(sc) == 10^(Digits + sc)
      residual(sc, i) == RoundedDiv(items[i] - offset, unit(sc))
      fits(sc) == \A i \in DOMAIN items : residual(sc, i) * unit(sc) + offset = items[i]
  IN  IF items = << >> THEN {}
      ELSE {[offset |-> offset, scale |-> sc,
             residuals |-> [i \in DOMAIN items |-> residual(sc, i)]]
            : sc \in {t \in Scales : fits(t) /\ \A u \in Scales : fits(u) => u <= t}}

decodeValueOffset(e) ==
  [i \in DOMAIN e.residuals |-> e.residuals[i] * 10^(Digits + e.scale) + e.offset]

(* With the fixed-point form if that is asked for and exact, else the      *)
(* items as they are.                                                      *)
serializePortable(s, allowFixedPoint) ==
  LET fixed == IF allowFixedPoint THEN encodeValueOffset(Items(s)) ELSE {}
  IN  [Snapshot(s) EXCEPT !.items = IF fixed = {} THEN @ ELSE << >>] @@ [fixed |-> fixed]

(* The sketch of an array and its offsets; an error is no sketch.          *)
Restored(w) ==
  LET height == Len(w.levels) - 1
      level(h) == [v \in Value |-> Cardinality(
        {i \in w.levels[height + 1 - h] + 1 .. w.levels[height + 2 - h] : w.items[i] = Units[v]})]
  IN  IF w.k > 0 /\ w.m > 0 /\ Len(w.levels) >= 2 /\ Last(w.levels) = Len(w.items)
      THEN {[k |-> w.k, m |-> w.m, levels |-> [h \in 1..height |-> level(h)]]}
      ELSE {}

DeserializePortable(w) ==
  IF w.fixed # {} /\ w.items # << >> THEN {}
  ELSE Restored([w EXCEPT !.items = IF w.fixed = {} THEN @
                                    ELSE decodeValueOffset(CHOOSE e \in w.fixed : TRUE)])

(* The sketch is written and read back, in one of its forms: what cannot   *)
(* be read is lost.                                                        *)
Restart(n) ==
  \E forms \in {Restored(Snapshot(sk[n])),
                 DeserializePortable(serializePortable(sk[n], TRUE)),
                 DeserializePortable(serializePortable(sk[n], FALSE))} :
    /\ sk' = [sk EXCEPT ![n] = IF forms = {} THEN NewSketch(n)
                               ELSE [slack |-> @.slack] @@ CHOOSE s \in forms : TRUE]
    /\ UNCHANGED seen

Next ==
  /\ \/ \E n \in Node, v \in Value : pushValue(n, v)
     \/ \E n, m \in Node : mergePacked(n, m)
     \/ \E n \in Node : Clear(n) \/ Restart(n)
  /\ \A n \in Node : Size(seen'[n].vals) <= MaxItems
  /\ FoldFunction(LAMBDA x, acc : acc + Size(x.vals), 0, seen') <= MaxTotal

-----------------------------------------------------------------------------
Rank(s, x) ==
  FoldFunction(+, 0, [h \in DOMAIN s.levels |-> 2^(h - 1) * UpTo(s.levels[h], x)])
Count(s) == Rank(s, Max(Value))

(* Retained values with the weight up to each, out of Count(s); a query is *)
(* the least of them whose share reaches a/b.                              *)
CDF(s) ==
  [v \in {v \in Value : \E h \in DOMAIN s.levels : s.levels[h][v] > 0} |-> Rank(s, v)]
Query(s, a, b) == Min({v \in DOMAIN CDF(s) : b * CDF(s)[v] >= a * Count(s)})

(* CDF.Quantile: the weight below x.                                       *)
WeightBelow(s, x) ==
  LET below == {v \in DOMAIN CDF(s) : v < x}
  IN  CASE {v \in DOMAIN CDF(s) : v >= x} = {} -> Count(s)
        [] below = {} -> 0
        [] OTHER -> CDF(s)[Max(below)]

(* Every compaction of level h moves a rank by 2^(h-1) at most, in either  *)
(* direction, and does not happen before the level overflows; so ranks,    *)
(* the count and quantiles keep their distance from the exact ones.  A     *)
(* sketch that was not merged has every level within its capacity.         *)
RankError ==
  \A n \in Node :
    LET s == sk[n]
        exact(x) == UpTo(seen[n].vals, x)
        total == Size(seen[n].vals)
    IN  /\ \A x \in Value :
             /\ Rank(s, x) - exact(x) \in -s.slack..s.slack
             /\ WeightBelow(s, x) - exact(x - 1) \in -s.slack..s.slack
        /\ s.slack * (s.m + 1) <= Len(s.levels) * (total + s.slack)
        /\ Count(s) > 0 => \A q \in 1..4 :
             LET v == Query(s, q, 4)
             IN  /\ 4 * exact(v) >= q * total - 8 * s.slack
                 /\ 4 * exact(v - 1) <= q * total + 8 * s.slack
        /\ ~seen[n].merged =>
             \A h \in DOMAIN s.levels : Size(s.levels[h]) <= capacityForLevel(s, h)
=============================================================================
