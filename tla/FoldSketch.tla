----------------------------- MODULE FoldSketch -----------------------------
(***************************************************************************)
(* Folded Count-Min and Count Sketch (FoldCommon, FoldCountMinSketch,      *)
(* FoldCountSketch).  A sketch of 2^FullBits columns is kept in            *)
(* 2^(FullBits - level) cells per row; a cell holds the counts of the full *)
(* columns folded into it.  Sketches of one level merge, and a sketch is   *)
(* unfolded to a lower level at any time.                                  *)
(*                                                                         *)
(* A cell is a function from some full columns to counts: empty, single    *)
(* and collided are its forms of size 0, 1 and more.  Counts are integers; *)
(* the code's are float64.                                                 *)
(***************************************************************************)
EXTENDS Integers, FiniteSets, Functions, FiniteSetsExt

CONSTANTS
  Node,       \* the places that hold a sketch
  Row,        \* its rows
  FullBits,   \* it stands for 2^FullBits columns
  Key,
  ColOf,      \* ColOf[k][r]: full column of key k in row r
  SignOf,     \* SignOf[k][r]: sign of key k in row r of a Count Sketch
  Weights,    \* weights of one update
  MaxTotal    \* model bound: greatest total of the keys' absolute weights

VARIABLES
  sk,    \* the sketch of each node
  seen   \* history: total weight of each key in it

vars == <<sk, seen>>

Level == 0..FullBits
TwoTo[n \in 0..FullBits] == IF n = 0 THEN 1 ELSE 2 * TwoTo[n-1]

(* fullCols >> level.                                                      *)
FoldCols(level) == TwoTo[FullBits - level]
FoldCol(level) == 0..(FoldCols(level) - 1)
FullCol == FoldCol(0)

(* What a sketch is built from.                                            *)
Dimensions ==
  /\ FullBits \in Nat /\ IsFiniteSet(Key) /\ Weights \subseteq Int
  /\ ColOf \in [Key -> [Row -> FullCol]]
  /\ SignOf \in [Key -> [Row -> {-1, 1}]]

NoCounts == [c \in {} |-> 0]
NewFold(signed, level) ==
  [signed |-> signed, level |-> level,
   cells  |-> [r \in Row |-> [c \in FoldCol(level) |-> NoCounts]],
   L1     |-> [r \in Row |-> 0],   \* Count-Min only
   L2     |-> [r \in Row |-> 0]]

Init ==
  /\ \E signed \in BOOLEAN : sk = [n \in Node |-> NewFold(signed, FullBits)]
  /\ seen = [n \in Node |-> [k \in Key |-> 0]]

-----------------------------------------------------------------------------
(* Cells.                                                                  *)
foldColOf(level, col) == col % FoldCols(level)

Query(cell, col) == IF col \in DOMAIN cell THEN cell[col] ELSE 0

Insert(cell, col, d) ==
  [c \in DOMAIN cell \cup {col} |-> Query(cell, c) + (IF c = col THEN d ELSE 0)]

(* Every entry of the other is inserted.                                   *)
MergeCell(cell, other) ==
  [c \in DOMAIN cell \cup DOMAIN other |-> Query(cell, c) + Query(other, c)]

Sign(s, k, r) == IF s.signed THEN SignOf[k][r] ELSE 1

-----------------------------------------------------------------------------
(* Sketches.                                                               *)
insertHashed(s, k, many) ==
  LET col(r)  == ColOf[k][r]
      fold(r) == foldColOf(s.level, col(r))
      d(r)    == Sign(s, k, r) * many
      prev(r) == Query(s.cells[r][fold(r)], col(r))
      curr(r) == prev(r) + d(r)
  IN  [s EXCEPT !.cells = [r \in Row |->
                             [s.cells[r] EXCEPT ![fold(r)] = Insert(@, col(r), d(r))]],
                !.L1 = [r \in Row |-> @[r] + IF s.signed THEN 0 ELSE many],
                !.L2 = [r \in Row |-> @[r] + curr(r) * curr(r) - prev(r) * prev(r)]]

(* A row's sums over the entries of its cells; a Count Sketch has no L1.   *)
RowL1(cells) == SumFunction([c \in DOMAIN cells |-> SumFunction(cells[c])])
RowL2(cells) == SumFunction([c \in DOMAIN cells |->
  SumFunction([e \in DOMAIN cells[c] |-> cells[c][e] * cells[c][e]])])

recomputeNorms(s) ==
  [s EXCEPT !.L1 = [r \in Row |-> IF s.signed THEN 0 ELSE RowL1(s.cells[r])],
            !.L2 = [r \in Row |-> RowL2(s.cells[r])]]

(* Mutant: the source cell is read at the target's index.                  *)
ScatterSameIndex(s, t) ==
  [t EXCEPT !.cells = [r \in Row |-> [c \in FoldCol(t.level) |->
     MergeCell(@[r][c], IF c \in FoldCol(s.level) THEN s.cells[r][c] ELSE NoCounts)]]]

(* Every entry of s is inserted into t, at t's column.                     *)
scatterInto(s, t) ==
  [t EXCEPT !.cells = [r \in Row |-> [c \in FoldCol(t.level) |->
     LET src == s.cells[r][foldColOf(s.level, c)]
     IN  MergeCell(@[r][c],
           [e \in {x \in DOMAIN src : foldColOf(t.level, x) = c} |-> src[e]])]]]

-----------------------------------------------------------------------------
Add(f, g) == [k \in Key |-> f[k] + g[k]]

InsertMany(n, k, many) ==
  /\ sk' = [sk EXCEPT ![n] = insertHashed(@, k, many)]
  /\ seen' = [seen EXCEPT ![n][k] = @ + many]

(* Update and InsertWithHash.                                              *)
Update(n, k) == InsertMany(n, k, 1)

UpdateWeight(n, k, many) == many # 0 /\ InsertMany(n, k, many)

MergeCells(s, o) ==
  [s EXCEPT !.cells = [r \in Row |-> [c \in FoldCol(s.level) |->
                         MergeCell(@[r][c], o.cells[r][c])]]]

(* Merge with any sketch of the same level, itself included.               *)
MergeSameLevel(n, m) ==
  /\ sk[n].level = sk[m].level
  /\ sk' = [sk EXCEPT ![n] = recomputeNorms(MergeCells(@, sk[m]))]
  /\ seen' = [seen EXCEPT ![n] = Add(@, seen[m])]

(* The node goes on with the unfolded sketch; at the same level that is a  *)
(* copy, norms included.                                                   *)
UnfoldTo(n, level) ==
  /\ level < sk[n].level
  /\ sk' = [sk EXCEPT ![n] = recomputeNorms(scatterInto(@, NewFold(@.signed, level)))]
  /\ UNCHANGED seen

(* One level down, or to all columns whatever the levels of the two.       *)
Unfolded(s, o, level) ==
  recomputeNorms(scatterInto(o, scatterInto(s, NewFold(s.signed, level))))

UnfoldMerge(n, m) ==
  /\ sk[n].level = sk[m].level
  /\ sk[n].level > 0
  /\ sk' = [sk EXCEPT ![n] = Unfolded(@, sk[m], @.level - 1)]
  /\ seen' = [seen EXCEPT ![n] = Add(@, seen[m])]

HierarchicalMerge(n, m) ==
  /\ n # m
  /\ sk' = [sk EXCEPT ![n] = Unfolded(@, sk[m], 0)]
  /\ seen' = [seen EXCEPT ![n] = Add(@, seen[m])]

Reset(n) ==
  /\ sk' = [sk EXCEPT ![n] = NewFold(@.signed, @.level)]
  /\ seen' = [seen EXCEPT ![n] = [k \in Key |-> 0]]

(* Written and read back: every exported field is in the written form, and *)
(* what does not fit the dimensions is refused and lost.                   *)
rehydrate(w) ==
  IF /\ w.level \in Level
     /\ \A r \in Row : DOMAIN w.cells[r] = FoldCol(w.level)
     /\ DOMAIN w.cells = Row /\ DOMAIN w.L1 = Row /\ DOMAIN w.L2 = Row
  THEN {w} ELSE {}

Restart(n) ==
  LET read == rehydrate(sk[n])
  IN  /\ sk' = [sk EXCEPT ![n] = IF read = {} THEN NewFold(@.signed, @.level)
                                 ELSE CHOOSE s \in read : TRUE]
      /\ UNCHANGED seen

Bounded ==
  SumFunction([p \in Node \X Key |-> LET w == seen'[p[1]][p[2]] IN IF w < 0 THEN -w ELSE w])
    <= MaxTotal

Next ==
  /\ \/ \E n \in Node, k \in Key : Update(n, k)
     \/ \E n \in Node, k \in Key, many \in Weights : UpdateWeight(n, k, many)
     \/ \E n, m \in Node : MergeSameLevel(n, m)
     \/ \E n \in Node, l \in Level : UnfoldTo(n, l)
     \/ \E n, m \in Node : UnfoldMerge(n, m)
     \/ \E n, m \in Node : HierarchicalMerge(n, m)
     \/ \E n \in Node : Reset(n) \/ Restart(n)
  /\ Bounded

Spec == Init /\ [][Next]_vars

-----------------------------------------------------------------------------
(* The queries.                                                            *)
CellOf(s, k, r) == Query(s.cells[r][foldColOf(s.level, ColOf[k][r])], ColOf[k][r])
queryMin(s, k) == Min({CellOf(s, k, r) : r \in Row})

(* Twice the median of a value per row.                                    *)
Median2(f) ==
  LET below(x) == Cardinality({r \in Row : f[r] < x})
      upTo(x) == Cardinality({r \in Row : f[r] <= x})
      ith(i) == CHOOSE x \in Range(f) : below(x) < i /\ i <= upTo(x)
      rows == Cardinality(Row)
  IN  ith((rows + 1) \div 2) + ith(rows \div 2 + 1)

queryMedian2(s, k) == Median2([r \in Row |-> Sign(s, k, r) * CellOf(s, k, r)])

ToFlatCounters(s) ==
  [r \in Row |-> [col \in FullCol |->
     SumFunction([c \in FoldCol(s.level) |-> Query(s.cells[r][c], col)])]]

(* Folding loses nothing: at any level, and after any order of updates,    *)
(* merges and unfolds, every full column, every row's norms and every      *)
(* key's estimate are those of the sketch that never folded.               *)
FoldedIsFull ==
  \A n \in Node :
    LET s == sk[n]
        full == [r \in Row |-> [c \in FullCol |->
                   SumFunction([k \in {x \in Key : ColOf[x][r] = c} |->
                            Sign(s, k, r) * seen[n][k]])]]
        counter(k) == [r \in Row |-> Sign(s, k, r) * full[r][ColOf[k][r]]]
    IN  /\ ToFlatCounters(s) = full
        /\ \A r \in Row : /\ s.L1[r] = IF s.signed THEN 0 ELSE SumFunction(full[r])
                          /\ s.L2[r] = SumFunction([c \in FullCol |-> full[r][c] * full[r][c]])
        /\ \A k \in Key : IF s.signed THEN queryMedian2(s, k) = Median2(counter(k))
                           ELSE queryMin(s, k) = Min(Range(counter(k)))
=============================================================================
