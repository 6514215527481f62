---------------------------- MODULE HydraCounter ----------------------------
(***************************************************************************)
(* What Hydra and MultiHeadHydra share: the counters of their cells        *)
(* (hydra_counter.go), the expansion of a record's key into sub-tuples and *)
(* the cells of a sub-tuple.  A counter keeps the weight inserted for each *)
(* hash; the errors of the sketches behind it are left to their modules.   *)
(* A key, split at its separators, is a sequence of labels; "" is the      *)
(* empty label.                                                            *)
(***************************************************************************)
EXTENDS Integers, FiniteSets, SequencesExt

CONSTANTS
  Value,    \* hashes of inserted values
  FloatOf,  \* FloatOf[v]: the number in the bytes of v, what KLL is given
  Row, W,   \* rows, and columns 0..W-1
  PosOf,    \* PosOf[s][r]: column of the sub-tuple s in row r
  HashPos   \* HashPos[v][r]: column of the hash v in row r

Types == {"cm", "cs", "hll", "kll", "universal"}

NewCounter(type) == [type |-> type, topK |-> TRUE, weight |-> [v \in Value |-> 0]]

(* Every kind but KLL takes the hash; KLL takes the number the bytes of    *)
(* the value hold, or the hash when there are none.                        *)
InsertWithHash(c, v, number, count) ==
  CASE c.type \in {"cm", "cs", "universal"} -> [c EXCEPT !.weight[v] = @ + count]
    [] c.type = "hll" /\ count # 0 -> [c EXCEPT !.weight[v] = 1]
    [] c.type = "kll" /\ count > 0 -> [c EXCEPT !.weight[number] = @ + count]
    [] OTHER -> c

SumOver(S, f) == FoldFunctionOnSet(+, 0, f, S)

(* What a counter cannot answer is an error, which QueryKey turns into 0.  *)
(* A universal counter takes its cardinality from heaps that updates by    *)
(* hash leave empty.                                                       *)
Query(c, kind, v) ==
  CASE kind = "frequency" /\ c.type \in {"cm", "cs", "universal"} -> c.weight[v]
    [] kind = "cardinality" /\ c.type = "hll" ->
         Cardinality({u \in Value : c.weight[u] > 0})
    [] kind = "cdf" /\ c.type = "kll" ->   \* times the number of insertions
         SumOver({u \in Value : u <= v}, c.weight)
    [] OTHER -> 0

(* Only universal counters have heaps to switch.                           *)
SetTopK(c, on) == IF c.type = "universal" THEN [c EXCEPT !.topK = on] ELSE c

cellToProto(c) == [sketch |-> c.type, weight |-> c.weight]

(* Decoding knows the type from the snapshot, not from the bytes; a cell   *)
(* of another type does not decode.                                        *)
decodeCounter(type, bytes) ==
  [type |-> type, topK |-> TRUE,
   weight |-> IF bytes.sketch = type THEN bytes.weight ELSE << >>]

-----------------------------------------------------------------------------
filtered(key) == SelectSeq(key, LAMBDA p : p # "")

(* The labels of parts whose bits are set in mask.                         *)
Chosen(parts, mask) ==
  LET bits == SelectSeq([j \in DOMAIN parts |-> j],
                        LAMBDA j : (mask \div 2^(j-1)) % 2 = 1)
  IN  [i \in DOMAIN bits |-> parts[bits[i]]]

(* Mutant: the mask of all labels is left out.                             *)
expandWithoutWhole(key, fanout) ==
  LET parts == filtered(key)
  IN  IF ~fanout \/ Len(parts) <= 1 THEN <<key>>
      ELSE [mask \in 1..2^Len(parts)-2 |-> Chosen(parts, mask)]

expandSubkeys(key, fanout) ==
  LET parts == filtered(key)
  IN  IF ~fanout \/ Len(parts) <= 1 THEN <<key>>
      ELSE [mask \in 1..2^Len(parts)-1 |-> Chosen(parts, mask)]

(* The median of one value per row.                                        *)
Median(f) ==
  LET s == SortSeq(f, <)
      n == Len(s)
  IN  IF n % 2 = 1 THEN s[(n+1) \div 2] ELSE (s[n \div 2] + s[n \div 2 + 1]) \div 2

(* What the counter of cell (r, col) should hold, from the log of updates: *)
(* for each update, its count once for each choice of its labels (or for   *)
(* its key as it is) that is kept in the cell.                             *)
Picks(u) ==
  LET parts == filtered(u.key)
      ascending(J) == SetToSortSeq(J, <)
  IN  IF ~u.fanout \/ Len(parts) <= 1 THEN {<<{}, u.key>>}
      ELSE {<<J, [i \in 1..Cardinality(J) |-> parts[ascending(J)[i]]]>> :
              J \in (SUBSET DOMAIN parts) \ {{}}}

Hits(u, r, col) ==
  IF u.raw THEN IF HashPos[u.v][r] = col THEN 1 ELSE 0
           ELSE Cardinality({x \in Picks(u) : PosOf[x[2]][r] = col})

Expected(log, type, hits(_), v) ==
  LET of(u) == IF type = "kll" /\ ~u.raw THEN FloatOf[u.v] ELSE u.v
      n == FoldSeq(LAMBDA u, acc : acc + (IF of(u) = v THEN u.count * hits(u) ELSE 0), 0, log)
  IN  IF type = "hll" /\ n > 0 THEN 1 ELSE n
=============================================================================
