---------------------------- MODULE MatrixSketch ----------------------------
(***************************************************************************)
(* Count-Min and CountSketch as stores of weight: all ways to insert,      *)
(* merging, and every serialized form they can be saved or sent in         *)
(* (CountMinSketch.go, CountSketch.go, sampled.go, sampled_gos.go,         *)
(* delta.go, delta_codec.go, portable.go, msgpack.go).  Amounts are counted*)
(* in units of which One makes 1, so that weights may be fractions.        *)
(* Trackers and heaps are below their capacity, where they are a set of    *)
(* keys and a count for each (EdgeSync has them at the limit).             *)
(***************************************************************************)
EXTENDS Integers, Sequences, FiniteSets, FiniteSetsExt, SequencesExt

CONSTANTS
  Node, Kind,         \* kinds of sketches: "cms", "cs"
  NumRows, Col, Key,
  ColOf,              \* ColOf[k][r]: column of key k in row r
  SignOf,             \* SignOf[k][r]: its sign in a CountSketch
  One,                \* units in 1
  Many,               \* weights given to the weighted updates
  Scaled,             \* what a weight of 1 becomes under row sampling, 1/p
  Mask,               \* row masks that admission may produce
  Threshold,          \* thresholds of the GOS inserts, 0 for none
  MaxSampledRows,     \* rows a mask has room for (64)
  HeapSize,           \* items in the heap of a MessagePack frame
  MaxItems            \* model bound: insertions counted in all sketches

VARIABLES
  sk,    \* the sketches
  seen   \* history: weight given to each row for each key, amounts reported
         \*   for each cell, and whether sums and norms are still known

vars == <<sk, seen>>

Row == 1..NumRows
NoCells == [r \in Row |-> [c \in Col |-> 0]]

(* Count-Min keeps the L1 of each row and two matrices beside the counts,  *)
(* CountSketch the L2 of each row, its candidates (SS) and a heap (TopK).  *)
NewSketch(kind) ==
  [kind |-> kind, count |-> NoCells, sum |-> NoCells, sum2 |-> NoCells,
   norm |-> [r \in Row |-> 0], ss |-> {}, topk |-> << >>, sampled |-> FALSE]

NewHistory ==
  [given |-> [r \in Row |-> [k \in Key |-> 0]], out |-> NoCells, items |-> 0,
   sums |-> TRUE, norms |-> TRUE]

Init ==
  \E kind \in Kind :
    /\ sk = [n \in Node |-> NewSketch(kind)]
    /\ seen = [n \in Node |-> NewHistory]

-----------------------------------------------------------------------------
(* Insertion *)

Abs(x) == IF x < 0 THEN -x ELSE x

(* One row of a Count-Min insert ...                                       *)
insertHashRaw(s, r, k, w) ==
  LET c == ColOf[k][r]
  IN  [s EXCEPT !.count[r][c] = @ + w, !.sum[r][c] = @ + w, !.sum2[r][c] = @ + w,
                !.norm[r] = @ + w]

(* ... and of a CountSketch insert.                                        *)
insertWithMatrixHash(s, r, k, w) ==
  LET c == ColOf[k][r]
      prev == s.count[r][c]
      curr == prev + SignOf[k][r] * w
  IN  [s EXCEPT !.count[r][c] = curr, !.norm[r] = @ + curr * curr - prev * prev]

(* With a threshold, a cell that reaches it is taken out of the counts and *)
(* the norm, but not out of the sums, and reported.                        *)
applyGosCellAtRowCMS(s, r, k, w, t) ==
  LET added == insertHashRaw(s, r, k, w)
      c == ColOf[k][r]
      curr == added.count[r][c]
  IN  IF t > 0 /\ curr >= t
      THEN [s |-> [added EXCEPT !.count[r][c] = 0, !.norm[r] = @ - curr],
            dirty |-> <<[row |-> r, col |-> c, delta |-> curr]>>]
      ELSE [s |-> added, dirty |-> << >>]

applyGosCellAtRow(s, r, k, w, t) ==
  LET added == insertWithMatrixHash(s, r, k, w)
      c == ColOf[k][r]
      curr == added.count[r][c]
  IN  IF t > 0 /\ Abs(curr) >= t
      THEN [s |-> [added EXCEPT !.count[r][c] = 0, !.norm[r] = @ - curr * curr],
            dirty |-> <<[row |-> r, col |-> c, delta |-> curr]>>]
      ELSE [s |-> added, dirty |-> << >>]

(* The rows of a mask, lowest first.                                       *)
InsertRows(s, R, k, w, t) ==
  LET cell(x, r) == IF x.kind = "cms" THEN applyGosCellAtRowCMS(x, r, k, w, t)
                                      ELSE applyGosCellAtRow(x, r, k, w, t)
  IN  FoldSeq(LAMBDA r, acc : LET x == cell(acc.s, r)
                              IN  [s |-> x.s, dirty |-> acc.dirty \o x.dirty],
              [s |-> s, dirty |-> << >>], SetToSortSeq(R, >))

Nothing(s) == [s |-> s, dirty |-> << >>]

(* A Count-Min sketch takes no weight 0, and one that samples whole items  *)
(* may turn an item away.                                                  *)
InsertWithHashGOS(s, k, w, t, admit) ==
  IF w = 0 \/ ~admit THEN Nothing(s) ELSE InsertRows(s, Row, k, w, t)

(* A CountSketch also tracks the key, by the weight before scaling; the    *)
(* tracker takes no weight that is not positive.                           *)
Track(x, k, w) == [x EXCEPT !.s.ss = IF w > 0 THEN @ \cup {k} ELSE @]
UpdateStringGOS(s, k, w, t) == Track(InsertRows(s, Row, k, w, t), k, w)

(* Rows decided by the caller; a sketch with more rows than a mask holds   *)
(* is left alone.                                                          *)
InsertWithHashAtRows(s, k, w, R, t) ==
  IF R = {} \/ NumRows > MaxSampledRows THEN Nothing(s) ELSE InsertRows(s, R, k, w, t)

UpdateStringAtRows(s, k, w, R, t) ==
  IF R = {} \/ NumRows > MaxSampledRows THEN Nothing(s)
  ELSE Track(InsertRows(s, R, k, w, t), k, w)

(* Rows decided by a sampler; a full-rate one, and a sketch with more rows *)
(* than a mask holds, take the item whole.                                 *)
InsertWithHashSampledPerRow(s, k, R, full, t) ==
  IF full \/ NumRows > MaxSampledRows THEN InsertWithHashGOS(s, k, One, t, TRUE)
  ELSE IF R = {} THEN Nothing(s) ELSE InsertRows(s, R, k, Scaled, t)

UpdateStringSampledPerRow(s, k, R, full, t) ==
  IF full \/ NumRows > MaxSampledRows THEN UpdateStringGOS(s, k, One, t)
  ELSE IF R = {} THEN Nothing(s) ELSE Track(InsertRows(s, R, k, Scaled, t), k, One)

(* What an insertion does to the sketch and to the history of node n: of   *)
(* the rows R, each was given w.                                           *)
Inserted(n, x, k, w, R) ==
  /\ sk' = [sk EXCEPT ![n] = x.s]
  /\ seen' = IF R = {} THEN seen ELSE
       [seen EXCEPT ![n].items = @ + 1,
                    ![n].given = [r \in Row |-> IF r \in R THEN [@[r] EXCEPT ![k] = @ + w]
                                                           ELSE @[r]],
                    ![n].out = [r \in Row |-> [c \in Col |-> @[r][c] +
                       MapThenSumSet(LAMBDA i : x.dirty[i].delta,
                         {i \in DOMAIN x.dirty : x.dirty[i].row = r /\ x.dirty[i].col = c})]]]

Insert(n, k, w, t, admit) ==
  /\ sk[n].sampled \/ admit
  /\ IF sk[n].kind = "cms"
     THEN Inserted(n, InsertWithHashGOS(sk[n], k, w, t, admit), k, w,
                   IF admit THEN Row ELSE {})
     ELSE Inserted(n, UpdateStringGOS(sk[n], k, w, t), k, w, Row)

(* Row sampling goes with a sketch that does not sample whole items.       *)
SampledPerRow(n, k, R, full, t) ==
  /\ ~sk[n].sampled
  /\ Inserted(n, IF sk[n].kind = "cms" THEN InsertWithHashSampledPerRow(sk[n], k, R, full, t)
                 ELSE UpdateStringSampledPerRow(sk[n], k, R, full, t),
              k, IF full THEN One ELSE Scaled, R)

AtRows(n, k, w, R, t) ==
  Inserted(n, IF sk[n].kind = "cms" THEN InsertWithHashAtRows(sk[n], k, w, R, t)
              ELSE UpdateStringAtRows(sk[n], k, w, R, t), k, w, R)

WithSampleP(n, p) ==
  /\ sk[n].kind = "cms"
  /\ sk' = [sk EXCEPT ![n].sampled = p]
  /\ UNCHANGED seen

-----------------------------------------------------------------------------
(* Queries and merging *)

Least(f) == CHOOSE v \in {f[r] : r \in Row} : \A r \in Row : v <= f[r]

Median(f) ==
  LET s == SortSeq(f, <)
  IN  IF NumRows % 2 = 1 THEN s[(NumRows + 1) \div 2]
      ELSE (s[NumRows \div 2] + s[NumRows \div 2 + 1]) \div 2

estimateMatrixHash(s, k) == Least([r \in Row |-> s.count[r][ColOf[k][r]]])

estimateWithMatrixHash(s, k) ==
  Median([r \in Row |-> s.count[r][ColOf[k][r]] * SignOf[k][r]])

QuerySum(s, k) == Least([r \in Row |-> Abs(s.sum[r][ColOf[k][r]])])
CM_L1(s) == Least(s.norm)

(* int64(est) cuts off the fraction.                                       *)
EstimateStringCount(s, k) ==
  LET est == estimateWithMatrixHash(s, k) IN IF est < 0 THEN -((-est) \div One) ELSE est \div One

(* Keys are looked up in the merged counts.                                *)
TopKUpdate(s, keys) ==
  [s EXCEPT !.topk = [k \in DOMAIN @ \cup keys |->
                        IF k \in keys THEN EstimateStringCount(s, k) ELSE @[k]]]

PlusCells(a, b) == [r \in Row |-> [c \in Col |-> a[r][c] + b[r][c]]]

MergeCountMin(s, o) ==
  [s EXCEPT !.count = PlusCells(@, o.count), !.sum = PlusCells(@, o.sum),
            !.sum2 = PlusCells(@, o.sum2), !.norm = [r \in Row |-> @[r] + o.norm[r]]]

MergeCountSketch(s, o) ==
  TopKUpdate([s EXCEPT !.count = PlusCells(@, o.count),
                       !.norm = [r \in Row |-> @[r] + o.norm[r]]],
             DOMAIN o.topk)

Merge(s, o) == IF s.kind = "cms" THEN MergeCountMin(s, o) ELSE MergeCountSketch(s, o)

-----------------------------------------------------------------------------
(* Serialized forms *)

Whole(x) == x % One = 0
AllWhole(cells) == \A p \in DOMAIN cells : Whole(cells[p])

(* Mutant: counts are cut off to integers.                                 *)
WireCountsCut(cells) ==
  [ints |-> [p \in DOMAIN cells |-> cells[p] \div One], floats |-> << >>]

(* Counts travel as integers when all are integers, otherwise as floats.   *)
WireCounts(cells) ==
  IF AllWhole(cells) THEN [ints |-> [p \in DOMAIN cells |-> cells[p] \div One],
                           floats |-> << >>]
                     ELSE [ints |-> << >>, floats |-> cells]

(* Floats are taken when there are as many as there are cells; no cells at *)
(* all is an empty list of either.                                         *)
CountsOfWire(w) ==
  IF w.floats # << >> THEN w.floats ELSE [p \in DOMAIN w.ints |-> w.ints[p] * One]

Flat(cells) == [p \in Row \X Col |-> cells[p[1]][p[2]]]
FromFlat(f) == [r \in Row |-> [c \in Col |-> f[<<r, c>>]]]

SerializePortable(s) ==
  [counts |-> WireCounts(Flat(s.count)), sums |-> <<s.sum, s.sum2>>, norm |-> s.norm]

SerializePortableFO(s) == [SerializePortable(s) EXCEPT !.sums = << >>]

(* Absent sums are taken to be the counts; a sampler is not restored.      *)
DeserializeCountMin(b) ==
  LET count == FromFlat(CountsOfWire(b.counts))
  IN  [NewSketch("cms") EXCEPT
         !.count = count, !.norm = b.norm,
         !.sum = IF b.sums = << >> THEN count ELSE b.sums[1],
         !.sum2 = IF b.sums = << >> THEN count ELSE b.sums[2]]

SerializePortableCS(s) ==
  [counts |-> WireCounts(Flat(s.count)), norm |-> s.norm, hhKeys |-> s.ss]

(* The candidates are looked up in the counts and go to the heap; a        *)
(* tracker starts anew.                                                    *)
DeserializeCountSketch(b) ==
  TopKUpdate([NewSketch("cs") EXCEPT !.count = FromFlat(CountsOfWire(b.counts)),
                                     !.norm = b.norm],
             b.hhKeys)

(* Gob drops what is not exported; a tracker keeps its capacity alone.     *)
rehydrateStorage(s) == [s EXCEPT !.ss = {}, !.sampled = FALSE]

(* MessagePack has the counts only.                                        *)
DeserializeMsgpack(kind, count) == [NewSketch(kind) EXCEPT !.count = count]

(* The delta against an empty sketch: the cells that are not 0.            *)
ComputeDeltaAgainstEmpty(s) ==
  [cells |-> [p \in {q \in Row \X Col : s.count[q[1]][q[2]] # 0} |-> s.count[p[1]][p[2]]],
   norm |-> s.norm, hhKeys |-> s.ss]

SerializeDelta(d) == [counts |-> WireCounts(d.cells), norm |-> d.norm, hhKeys |-> d.hhKeys]
DeserializeDelta(b) == [cells |-> CountsOfWire(b.counts), norm |-> b.norm, hhKeys |-> b.hhKeys]

CellsOf(cells) ==
  [r \in Row |-> [c \in Col |-> IF <<r, c>> \in DOMAIN cells THEN cells[<<r, c>>] ELSE 0]]

ApplyDeltaCountMin(s, d) ==
  LET x == CellsOf(d.cells)
  IN  [s EXCEPT !.count = PlusCells(@, x), !.sum = PlusCells(@, x),
                !.sum2 = PlusCells(@, x), !.norm = [r \in Row |-> @[r] + d.norm[r]]]

ApplyDeltaCountSketch(s, d) ==
  TopKUpdate([s EXCEPT !.count = PlusCells(@, CellsOf(d.cells)),
                       !.norm = [r \in Row |-> @[r] + d.norm[r]]],
             d.hhKeys)

(* The candidates with the highest positive estimates, keys breaking ties  *)
(* (keys are numbers here).                                                *)
buildWireHeap(s) ==
  LET est == [k \in s.ss |-> EstimateStringCount(s, k)]
      positive == {k \in s.ss : est[k] > 0}
      before(k, m) == est[k] > est[m] \/ (est[k] = est[m] /\ k < m)
      heap == SetToSortSeq(positive, before)
  IN  [i \in 1..(IF Len(heap) > HeapSize THEN HeapSize ELSE Len(heap)) |->
         [key |-> heap[i], value |-> est[heap[i]]]]

(* The delta frame has integers only and is refused for other cells.       *)
MsgpackDeltaFits(s) == AllWhole(Flat(s.count))

ApplyMsgpackWithHeapDelta(m, s) ==
  LET frame == ComputeDeltaAgainstEmpty(s).cells
      heap == buildWireHeap(s)
      keys == {heap[i].key : i \in DOMAIN heap}
  IN  [m EXCEPT !.count = PlusCells(@, CellsOf(frame)),
                !.topk = [k \in DOMAIN @ \cup keys |->
                            IF k \in keys
                            THEN heap[CHOOSE i \in DOMAIN heap : heap[i].key = k].value
                            ELSE @[k]]]

Form(kind) ==
  {"gob", "portable", "msgpack", "delta"}
    \cup (IF kind = "cms" THEN {"portableFO"} ELSE {"heap", "heapDelta"})

(* A sketch read back from its serialized form.                            *)
Decoded(s, form) ==
  CASE form = "gob" -> rehydrateStorage(s)
    [] form = "portable" -> IF s.kind = "cms" THEN DeserializeCountMin(SerializePortable(s))
                            ELSE DeserializeCountSketch(SerializePortableCS(s))
    [] form = "portableFO" -> DeserializeCountMin(SerializePortableFO(s))
    [] form \in {"msgpack", "heap"} -> DeserializeMsgpack(s.kind, s.count)

(* Sent in a form and added to another sketch.                             *)
Added(m, s, form) ==
  CASE form = "delta" ->
         LET d == DeserializeDelta(SerializeDelta(ComputeDeltaAgainstEmpty(s)))
         IN  IF s.kind = "cms" THEN ApplyDeltaCountMin(m, d) ELSE ApplyDeltaCountSketch(m, d)
    [] form = "heapDelta" -> ApplyMsgpackWithHeapDelta(m, s)
    [] OTHER -> Merge(m, Decoded(s, form))

KeepsSums(form, h) ==
  form \in {"gob", "portable"} \/ (form \in {"portableFO", "delta"} /\ h.out = NoCells)
KeepsNorms(form) == form \notin {"msgpack", "heap", "heapDelta"}

Restart(n, form) ==
  /\ form \notin {"delta", "heapDelta"}
  /\ sk' = [sk EXCEPT ![n] = Decoded(@, form)]
  /\ seen' = [seen EXCEPT ![n].sums = @ /\ KeepsSums(form, seen[n]),
                          ![n].norms = @ /\ KeepsNorms(form)]

Ship(n, m, form) ==
  /\ n # m
  /\ form = "heapDelta" => MsgpackDeltaFits(sk[n])
  /\ sk' = [sk EXCEPT ![m] = Added(@, sk[n], form)]
  /\ seen' = [seen EXCEPT ![m] =
       [given |-> [r \in Row |-> [k \in Key |-> @.given[r][k] + seen[n].given[r][k]]],
        out |-> PlusCells(@.out, seen[n].out),
        items |-> @.items + seen[n].items,
        sums |-> @.sums /\ seen[n].sums /\ KeepsSums(form, seen[n]),
        norms |-> @.norms /\ seen[n].norms /\ KeepsNorms(form) /\ sk[m].kind = "cms"]]

Reset(n) ==
  /\ sk' = [sk EXCEPT ![n] = [NewSketch(@.kind) EXCEPT !.sampled = sk[n].sampled]]
  /\ seen' = [seen EXCEPT ![n] = NewHistory]

Next ==
  /\ \E n \in Node :
       \/ \E k \in Key, w \in Many, t \in Threshold, a \in BOOLEAN : Insert(n, k, w, t, a)
       \/ \E k \in Key, R \in Mask, t \in Threshold : SampledPerRow(n, k, R, FALSE, t)
       \/ \E k \in Key, t \in Threshold : SampledPerRow(n, k, Row, TRUE, t)
       \/ \E k \in Key, w \in Many, R \in Mask, t \in Threshold : AtRows(n, k, w, R, t)
       \/ \E p \in BOOLEAN : WithSampleP(n, p)
       \/ \E m \in Node, form \in Form(sk[n].kind) : Ship(n, m, form)
       \/ \E form \in Form(sk[n].kind) : Restart(n, form)
       \/ Reset(n)
  /\ MapThenSumSet(LAMBDA n : seen'[n].items, Node) <= MaxItems

-----------------------------------------------------------------------------
Sign(kind, k, r) == IF kind = "cms" THEN 1 ELSE SignOf[k][r]

(* The weight a cell was given, and its share that was not reported.       *)
GivenTo(n, r, c) ==
  MapThenSumSet(LAMBDA k : Sign(sk[n].kind, k, r) * seen[n].given[r][k],
                {k \in Key : ColOf[k][r] = c})

(* Whatever mix of inserts, samplers, thresholds, merges and serialized    *)
(* forms: a cell holds what it was given and did not report, to the last   *)
(* fraction; sums hold what was given and norms are those of the counts as *)
(* long as no form on the way leaves them out; and so no Count-Min query   *)
(* is below what its key gave the row that was given least.                *)
WeightConserved ==
  \A n \in Node :
    LET s == sk[n]
        h == seen[n]
    IN  /\ \A r \in Row, c \in Col :
             /\ s.count[r][c] + h.out[r][c] = GivenTo(n, r, c)
             /\ s.kind = "cms" /\ h.sums =>
                  s.sum[r][c] = GivenTo(n, r, c) /\ s.sum2[r][c] = s.sum[r][c]
        /\ h.norms => \A r \in Row :
             s.norm[r] = MapThenSumSet(LAMBDA c : IF s.kind = "cms" THEN s.count[r][c]
                                                  ELSE s.count[r][c] * s.count[r][c], Col)
        /\ s.kind = "cms" /\ h.out = NoCells => \A k \in Key :
             LET least == Least([r \in Row |-> h.given[r][k]])
             IN  estimateMatrixHash(s, k) >= least /\ (h.sums => QuerySum(s, k) >= least)
        /\ s.kind = "cms" /\ h.norms /\ h.out = NoCells =>
             CM_L1(s) = Least([r \in Row |-> MapThenSumSet(LAMBDA k : h.given[r][k], Key)])
=============================================================================
