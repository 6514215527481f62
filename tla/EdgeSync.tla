------------------------------ MODULE EdgeSync ------------------------------
(***************************************************************************)
(* Matrix sketches at the edge and their copy at a backend: Count-Min and  *)
(* CountSketch (CountMinSketch.go, CountSketch.go, delta.go, sampled.go,   *)
(* sampled_gos.go), which reach the backend in one of three ways:          *)
(*   "gos"     an insert reports the cells that reach the threshold and    *)
(*             resets them (InsertWithHashGOS, UpdateStringGOS);           *)
(*   "window"  ComputeDelta against a snapshot that then moves on;         *)
(*   "reset"   ComputeDelta against an empty sketch, then Reset.           *)
(* The edges of a CountSketch track candidate keys with Space Saving; the  *)
(* backend queries the merged cells for them and keeps the top K.          *)
(* Each edge's deltas arrive in order.                                     *)
(***************************************************************************)
EXTENDS Sums, FiniteSets, FiniteSetsExt, SequencesExt, SpaceSavingHeap, TopKHeap

CONSTANTS
  NumRows, NumCols,    \* dimensions
  NumKeys,
  ColOf(_, _),         \* column of a key in a row
  SignOf(_, _),        \* its sign in a CountSketch
  TrackerSize,         \* TOPK_SIZE, capacity of the trackers
  TopKSize,            \* TOPK_SIZE, capacity of the backend's heap
  Weight,              \* weights of the items
  Config               \* [sketch, sync, threshold, scale, edges, items, syncs]:
                       \*   how a system is used, with model bounds on items
                       \*   and deltas; scale is 1/p of the row sampling

Row == 1..NumRows
Col == 1..NumCols
Key == 1..NumKeys

ASSUME EdgeSyncAssumption ==
  /\ {NumRows, NumCols, NumKeys, TrackerSize, TopKSize} \subseteq Nat \ {0}
  /\ \A r \in Row, k \in Key : ColOf(r, k) \in Col /\ SignOf(r, k) \in {-1, 1}
  /\ Weight \subseteq Nat \ {0}
  /\ \A c \in Config :
       /\ c.sketch \in {"cms", "cs"} /\ c.sync \in {"gos", "window", "reset"}
       /\ {c.scale, c.edges} \subseteq Nat \ {0}
       /\ {c.threshold, c.items, c.syncs} \subseteq Nat

VARIABLES
  conf,
  edge,      \* the sketches: cells, norm (L1 or L2 per row), ss
  snap,      \* the snapshots they were last compared with
  wire,      \* per edge, the deltas on their way
  backend,   \* cells, norm, topk
  items,     \* history: number of items
  syncs,     \* history: number of deltas computed
  given,     \* history: per edge and row, the weight added for each key
  weight,    \* history: per edge, the weight its tracker was given
  queried,   \* history: the keys of the delta the backend applied last,
  fell       \*   and whether it lowered the estimate of one in the heap

vars == <<conf, edge, snap, wire, backend, items, syncs, given, weight,
          queried, fell>>

Edge == 1..conf.edges

NoCells == [r \in Row |-> [c \in Col |-> 0]]
NoNorm == [r \in Row |-> 0]
NoWeight == [k \in Key |-> 0]

NewSketch == [cells |-> NoCells, norm |-> NoNorm, ss |-> NewSpaceSaving]
NewSnapshot == [cells |-> NoCells, norm |-> NoNorm]

Init ==
  /\ conf \in Config
  /\ edge = [e \in Edge |-> NewSketch]
  /\ snap = [e \in Edge |-> NewSnapshot]
  /\ wire = [e \in Edge |-> << >>]
  /\ backend = [cells |-> NoCells, norm |-> NoNorm, topk |-> << >>]
  /\ items = 0 /\ syncs = 0
  /\ given = [e \in Edge |-> [r \in Row |-> NoWeight]]
  /\ weight = [e \in Edge |-> NoWeight]
  /\ queried = {} /\ fell = FALSE

-----------------------------------------------------------------------------
(* The edge *)

Abs(x) == IF x < 0 THEN -x ELSE x
Sign(r, k) == IF conf.sketch = "cms" THEN 1 ELSE SignOf(r, k)

(* What the cell of key k in row r becomes when x is added for it.         *)
Current(s, r, k, x) == s.cells[r][ColOf(r, k)] + Sign(r, k) * x

Crosses(curr) ==
  conf.sync = "gos" /\ conf.threshold > 0 /\ Abs(curr) >= conf.threshold

(* Mutants: a cell that is reported is not reset; the norm is increased by *)
(* the square of the increment.                                            *)
CellKept(curr) == curr

NormOfIncrement(norm, prev, curr) ==
  LET x == curr - prev
      grown == norm + (IF conf.sketch = "cms" THEN x ELSE x * x)
  IN  IF Crosses(curr) THEN grown - (IF conf.sketch = "cms" THEN curr ELSE curr * curr)
                       ELSE grown

CellAfter(curr) == IF Crosses(curr) THEN 0 ELSE curr

(* L1 of a Count-Min row and L2 of a CountSketch row, with the cell that   *)
(* was reset taken out again.                                              *)
NormAfter(norm, prev, curr) ==
  LET grown == norm + (IF conf.sketch = "cms" THEN curr - prev
                                              ELSE curr * curr - prev * prev)
  IN  IF Crosses(curr) THEN grown - (IF conf.sketch = "cms" THEN curr ELSE curr * curr)
                       ELSE grown

(* Count-Min has no tracker.                                               *)
Offered(s, k, w) ==
  IF conf.sketch = "cs" THEN SpaceSavingUpdate(s.ss, TrackerSize, k, w) ELSE s.ss

(* An item of weight w for key k.  With row sampling only the rows R that  *)
(* are admitted are touched, with 1/p of the weight; with none admitted    *)
(* nothing happens.                                                        *)
Update(e, k, w, R) ==
  LET s == edge[e]
      x == w * conf.scale
      curr == [r \in R |-> Current(s, r, k, x)]
      dirty == {r \in R : Crosses(curr[r])}
  IN  /\ items < conf.items
      /\ IF conf.scale = 1 THEN R = Row ELSE R # {}
      /\ edge' = [edge EXCEPT ![e] =
           [cells |-> [r \in Row |->
              IF r \in R THEN [s.cells[r] EXCEPT ![ColOf(r, k)] = CellAfter(curr[r])]
                         ELSE s.cells[r]],
            norm |-> [r \in Row |->
              IF r \in R THEN NormAfter(s.norm[r], s.cells[r][ColOf(r, k)], curr[r])
                         ELSE s.norm[r]],
            ss |-> Offered(s, k, w)]]
      /\ wire' = IF dirty = {} THEN wire
                 ELSE [wire EXCEPT ![e] = Append(@,
                   [cells |-> [p \in {<<r, ColOf(r, k)>> : r \in dirty} |-> curr[p[1]]],
                    norm |-> NoNorm, keys |-> << >>])]
      /\ items' = items + 1
      /\ given' = [given EXCEPT ![e] = [r \in Row |->
           IF r \in R THEN [given[e][r] EXCEPT ![k] = @ + x] ELSE given[e][r]]]
      /\ weight' = IF conf.sketch = "cs" THEN [weight EXCEPT ![e][k] = @ + w] ELSE weight
      /\ UNCHANGED <<conf, snap, backend, syncs, queried, fell>>

(* ComputeDelta: the cells that have changed by the threshold at least,    *)
(* all norms, and the candidates.                                          *)
Difference(e, p) == edge[e].cells[p[1]][p[2]] - snap[e].cells[p[1]][p[2]]

ComputeDelta(e) ==
  [cells |-> [p \in {q \in Row \X Col : /\ Difference(e, q) # 0
                                        /\ Abs(Difference(e, q)) >= conf.threshold}
                |-> Difference(e, p)],
   norm |-> [r \in Row |-> edge[e].norm[r] - snap[e].norm[r]],
   keys |-> Candidates(edge[e].ss)]

(* The edge sends what has changed; then its snapshot moves on, or it is   *)
(* reset with its tracker.                                                 *)
Sync(e) ==
  /\ conf.sync # "gos"
  /\ syncs < conf.syncs
  /\ wire' = [wire EXCEPT ![e] = Append(@, ComputeDelta(e))]
  /\ syncs' = syncs + 1
  /\ IF conf.sync = "window"
     THEN /\ snap' = [snap EXCEPT ![e] = [cells |-> edge[e].cells, norm |-> edge[e].norm]]
          /\ UNCHANGED <<edge, weight>>
     ELSE /\ edge' = [edge EXCEPT ![e] = NewSketch]
          /\ weight' = [weight EXCEPT ![e] = NoWeight]
          /\ UNCHANGED snap
  /\ UNCHANGED <<conf, backend, items, given, queried, fell>>

-----------------------------------------------------------------------------
(* The backend *)

(* ComputeMedianInlineF64: the value in the middle, or half the sum of the *)
(* two in the middle, as the whole number that the heap is given: int64    *)
(* cuts toward zero.                                                       *)
NthLeast(v, n) ==
  Min({x \in {v[r] : r \in Row} : Cardinality({r \in Row : v[r] <= x}) >= n})

Median(v) ==
  LET sum == NthLeast(v, (NumRows + 1) \div 2) + NthLeast(v, (NumRows + 2) \div 2)
  IN  IF sum >= 0 THEN sum \div 2 ELSE -((-sum) \div 2)

(* QueryWithHash: the median over the rows. *)
Estimate(cells, k) == Median([r \in Row |-> Sign(r, k) * cells[r][ColOf(r, k)]])

(* ApplyDelta: cells and norms are added, and the keys of the delta are    *)
(* queried one after the other.                                            *)
ApplyDelta(e) ==
  LET d == Head(wire[e])
      cells == [r \in Row |-> [c \in Col |->
                  backend.cells[r][c]
                    + IF <<r, c>> \in DOMAIN d.cells THEN d.cells[<<r, c>>] ELSE 0]]
  IN  /\ wire[e] # << >>
      /\ wire' = [wire EXCEPT ![e] = Tail(@)]
      /\ backend' =
           [cells |-> cells,
            norm |-> [r \in Row |-> backend.norm[r] + d.norm[r]],
            topk |-> FoldLeft(LAMBDA h, k : TopKUpdate(h, TopKSize, k, Estimate(cells, k)),
                              backend.topk, d.keys)]
      /\ queried' = ToSet(d.keys)
      /\ fell' = \E i \in 1..Len(backend.topk) :
                   /\ backend.topk[i].key \in ToSet(d.keys)
                   /\ Estimate(cells, backend.topk[i].key) < backend.topk[i].count
      /\ UNCHANGED <<conf, edge, snap, items, syncs, given, weight>>

-----------------------------------------------------------------------------

Next ==
  \E e \in Edge :
    \/ \E k \in Key, w \in Weight, R \in SUBSET Row : Update(e, k, w, R)
    \/ Sync(e)
    \/ ApplyDelta(e)

Spec == Init /\ [][Next]_vars

-----------------------------------------------------------------------------
(* Properties *)

(* What the items of edge e have added to cell p; what the cell would hold *)
(* had every item gone to the backend at once.                             *)
GivenTo(e, p) ==
  PrefixSum([k \in Key |-> IF ColOf(p[1], k) = p[2]
                           THEN Sign(p[1], k) * given[e][p[1]][k] ELSE 0], NumKeys)

TrueCell(p) == PrefixSum([e \in Edge |-> GivenTo(e, p)], conf.edges)

CellOf(d, p) == IF p \in DOMAIN d.cells THEN d.cells[p] ELSE 0
OnWire(e, p) ==
  PrefixSum([i \in 1..Len(wire[e]) |-> CellOf(wire[e][i], p)], Len(wire[e]))

(* Every cell is accounted for: the backend, the deltas on their way and   *)
(* what the edges have not sent add up to the truth.  Insert-time          *)
(* reporting loses nothing; ComputeDelta gives up less than the threshold  *)
(* per delta.                                                              *)
CellsAccounted ==
  \A p \in Row \X Col :
    LET held == backend.cells[p[1]][p[2]]
                  + PrefixSum([e \in Edge |-> OnWire(e, p) + Difference(e, p)], conf.edges)
        lost == IF conf.sync = "gos" \/ conf.threshold = 0 THEN 0
                ELSE syncs * (conf.threshold - 1)
    IN  Abs(TrueCell(p) - held) <= lost

(* The norm of a row of cells; the norms in the deltas on their way; the   *)
(* weight that an edge was given.                                          *)
NormOf(row) ==
  PrefixSum([c \in Col |-> IF conf.sketch = "cms" THEN row[c] ELSE row[c] * row[c]],
            NumCols)

NormOnWire(e, r) ==
  PrefixSum([i \in 1..Len(wire[e]) |-> wire[e][i].norm[r]], Len(wire[e]))

GivenIn(e, r) == PrefixSum(given[e][r], NumKeys)

(* The norms kept beside the cells are the norms of the cells: of each     *)
(* edge's live cells always; at the backend, the L1 of everything inserted *)
(* whatever cells were left out, and the L2 of its own cells when it       *)
(* follows the snapshots of a single edge without loss.                    *)
NormsExact ==
  /\ \A e \in Edge, r \in Row : edge[e].norm[r] = NormOf(edge[e].cells[r])
  /\ conf.sketch = "cms" /\ conf.sync # "gos" =>
       \A r \in Row :
         backend.norm[r]
           + PrefixSum([e \in Edge |->
               NormOnWire(e, r) + edge[e].norm[r] - snap[e].norm[r]], conf.edges)
           = PrefixSum([e \in Edge |-> GivenIn(e, r)], conf.edges)
  /\ (conf.sketch = "cs" /\ conf.sync = "window" /\ conf.edges = 1
        /\ conf.threshold <= 1 /\ wire[1] = << >>) =>
       \A r \in Row : backend.norm[r] = NormOf(backend.cells[r])

(* The tracker of edge 1, which stands for any: its table, and the weight  *)
(* it was given.                                                           *)
Counts1 == [k \in Key |-> CountOf(edge[1].ss, k)]
Errors1 == [k \in Key |-> ErrorOf(edge[1].ss, k)]
Weight1 == weight[1]

(* The heap of an edge's tracker does what Space Saving promises; module   *)
(* EdgeSyncProofs proves that the candidates then contain every heavy key. *)
SS == INSTANCE SpaceSaving WITH
        K <- TrackerSize, count <- Counts1, maxError <- Errors1, weight <- Weight1

TrackerKeeps == SS!Spec

(* After a delta the backend's heap is in order, holds a key once, and     *)
(* knows the keys of that delta as they are now: with their estimate, or   *)
(* not at all when K others have no smaller one.  (A key that is turned    *)
(* away before the loop lowers the count of another is not looked at       *)
(* again, so the last part needs that no estimate fell.)                   *)
TopKCurrent ==
  LET h == backend.topk IN
  /\ HeapOrdered(h) /\ Len(h) <= TopKSize
  /\ \A i, j \in 1..Len(h) : h[i].key = h[j].key => i = j
  /\ \A k \in queried :
       IF Find(h, k) # 0 THEN h[Find(h, k)].count = Estimate(backend.cells, k)
       ELSE ~ fell => /\ Len(h) = TopKSize
                      /\ \A i \in 1..Len(h) : h[i].count >= Estimate(backend.cells, k)
=============================================================================
