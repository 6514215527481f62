---------------------------- MODULE NitroSketch ----------------------------
(***************************************************************************)
(* NitroSketch/nitro.go: a Count-Min or a CountSketch fed by batches, of   *)
(* which only some inputs are hashed: the input at a sampled position goes *)
(* to one row, the position modulo the rows, with the weight Delta.  Every *)
(* batch starts with a gap of its own.                                     *)
(***************************************************************************)
EXTENDS Integers, Sequences, FiniteSets, Functions, FiniteSetsExt, SequencesExt

CONSTANTS
  Node, Kind, NumRows, Col, Key, NoInput,
  ColOf,       \* ColOf[k][r]: column of key k in row r
  SignOf,
  RateInverse, \* 1 over the sampling rates, rounded up; 1 for full sampling
  Gap,         \* gaps of a sampled batch: ceilings of positive numbers, so 1 at least
  Table,       \* the cached gaps, rounded up
  TableSize,   \* size of the table, which is also the mask on idx
  Batch,       \* the batches: sequences of keys and nils
  MaxItems     \* model bound: inputs of all batches

VARIABLES
  sk,    \* the batches' sketches
  seen   \* history: per sketch, the inputs of each key by position modulo
         \*   the rows, and whether all of them were to be sampled

vars == <<sk, seen>>

Row == 1..NumRows
RowAt(position) == (position % NumRows) + 1

WithTarget(kind, inverse) ==
  [kind |-> kind, inverse |-> inverse, toSkip |-> 0, idx |-> 0,
   count |-> [r \in Row |-> [c \in Col |-> 0]], norm |-> [r \in Row |-> 0]]

Init ==
  \E kind \in Kind, inverse \in [Node -> RateInverse] :
    /\ sk = [n \in Node |-> WithTarget(kind, inverse[n])]
    /\ seen = [n \in Node |-> [offered |-> [r \in Row |-> [k \in Key |-> 0]],
                               full |-> TRUE, merged |-> FALSE]]

ScaledIncrement(s, weight) == weight * s.inverse

-----------------------------------------------------------------------------
UpdateRow(s, r, k, delta) ==
  LET c == ColOf[k][r]
      prev == s.count[r][c]
      curr == IF s.kind = "cm" THEN prev + delta ELSE prev + SignOf[k][r] * delta
  IN  [s EXCEPT !.count[r][c] = curr,
                !.norm[r] = @ + (IF s.kind = "cm" THEN delta ELSE curr*curr - prev*prev)]

(* The positions that the gaps lead to, the first of them gaps[1].         *)
Positions(gaps) ==
  LET at[i \in DOMAIN gaps] == IF i = 1 THEN gaps[1] ELSE at[i-1] + gaps[i] + 1
  IN  at

(* The loop over a batch: nils are passed over, and the gap that leads out *)
(* of the batch stays in ToSkip.                                           *)
Sampled(s, inputs, gaps) ==
  LET at == Positions(gaps)
      within == SelectSeq(at, LAMBDA p : p < Len(inputs))
      one(p, acc) == LET k == inputs[p+1] IN
                     IF k = NoInput THEN acc
                     ELSE UpdateRow(acc, RowAt(p), k, ScaledIncrement(s, 1))
  IN  [FoldSeq(one, s, within) EXCEPT !.toSkip = gaps[Len(within)+1]]

Offer(n, inputs, full) ==
  [seen EXCEPT
     ![n].full = @ /\ full,
     ![n].offered = [r \in Row |-> [k \in Key |->
        @[r][k] + Cardinality({p \in 0..Len(inputs)-1 : inputs[p+1] = k /\ RowAt(p) = r})]]]

(* idx is masked with the size of the table, not the size less one.        *)
NextIdx(i) == IF ((i + 1) \div TableSize) % 2 = 1 THEN TableSize ELSE 0

IdxAfter(i, draws) ==
  LET idx[d \in 0..draws] == IF d = 0 THEN i ELSE NextIdx(idx[d-1])
  IN  idx[draws]

(* A batch draws a gap to begin with and one for each position it reaches. *)
Draws(inputs, gaps) ==
  Cardinality({i \in DOMAIN gaps : Positions(gaps)[i] < Len(inputs)}) + 1

(* DrawGeometric moves idx on as well, although it does not look at it.    *)
Insert(n, inputs) ==
  LET full == sk[n].inverse = 1 IN
  \E gaps \in [1..Len(inputs)+1 -> IF full THEN {0} ELSE Gap] :
    /\ sk' = [sk EXCEPT ![n] = [Sampled(@, inputs, gaps) EXCEPT
                 !.idx = IF full THEN @ ELSE IdxAfter(@, Draws(inputs, gaps))]]
    /\ seen' = Offer(n, inputs, full)

InsertCachedStep(n, inputs) ==
  LET gaps == [i \in 1..Len(inputs)+1 |-> Table[IdxAfter(sk[n].idx, i-1)]]
  IN  /\ sk' = [sk EXCEPT ![n] = [Sampled(@, inputs, gaps) EXCEPT
                   !.idx = IdxAfter(@, Draws(inputs, gaps))]]
      /\ seen' = Offer(n, inputs, FALSE)

(* Sketches of different rates do not merge.                               *)
Merge(n, m) ==
  /\ n # m /\ sk[n].inverse = sk[m].inverse
  /\ sk' = [sk EXCEPT ![n].count = [r \in Row |-> [c \in Col |-> @[r][c] + sk[m].count[r][c]]],
                      ![n].norm = [r \in Row |-> @[r] + sk[m].norm[r]]]
  /\ seen' = [seen EXCEPT ![n] =
       [offered |-> [r \in Row |-> [k \in Key |-> @.offered[r][k] + seen[m].offered[r][k]]],
        full |-> @.full /\ seen[m].full, merged |-> TRUE]]

Next ==
  /\ \E n \in Node :
       \/ \E b \in Batch : Insert(n, b) \/ InsertCachedStep(n, b)
       \/ \E m \in Node : Merge(n, m)
  /\ MapThenSumSet(LAMBDA n : MapThenSumSet(LAMBDA r :
       MapThenSumSet(LAMBDA k : seen'[n].offered[r][k], Key), Row), Node) <= MaxItems

-----------------------------------------------------------------------------
EstimateMedian(s, k) ==
  LET of == [r \in Row |-> s.count[r][ColOf[k][r]] * (IF s.kind = "cm" THEN 1 ELSE SignOf[k][r])]
      sorted == SortSeq(of, <)
  IN  IF s.kind = "cm" THEN sorted[1]
      ELSE IF NumRows % 2 = 1 THEN sorted[(NumRows + 1) \div 2]
      ELSE (sorted[NumRows \div 2] + sorted[NumRows \div 2 + 1]) \div 2

Among(n, r, c) == {k \in Key : ColOf[k][r] = c}

(* The rows share the stream out by position: with full sampling a row     *)
(* holds its share exactly, and otherwise whole multiples of Delta that    *)
(* never exceed Delta times the share; every input is in one row at most.  *)
(* So a Count-Min estimate never falls short of the key's smallest share.  *)
RowsShareOut ==
  \A n \in Node :
    LET s == sk[n]
        h == seen[n]
        share(r, c, sign(_)) == MapThenSumSet(LAMBDA k : sign(k) * h.offered[r][k], Among(n, r, c))
    IN  /\ \A r \in Row, c \in Col :
             /\ h.full => s.count[r][c] =
                  share(r, c, LAMBDA k : IF s.kind = "cm" THEN 1 ELSE SignOf[k][r])
             /\ s.count[r][c] % s.inverse = 0
             /\ LET bound == s.inverse * share(r, c, LAMBDA k : 1)
                IN  s.count[r][c] <= bound /\ -s.count[r][c] <= bound
        /\ \A r \in Row : ~h.merged \/ s.kind = "cm" =>
             s.norm[r] = MapThenSumSet(LAMBDA c : IF s.kind = "cm" THEN s.count[r][c]
                                                  ELSE s.count[r][c] * s.count[r][c], Col)
        /\ h.full /\ s.kind = "cm" => \A k \in Key : \E r \in Row :
             EstimateMedian(s, k) >= h.offered[r][k]
=============================================================================
