--------------------------- MODULE EdgeSyncProofs ---------------------------
(***************************************************************************)
(* Between edge and backend nothing is lost that was not given up, the     *)
(* norms are those of the cells, a tracker's heap does what Space Saving   *)
(* promises and the backend's heap is current: for every number of edges,  *)
(* every matrix, every assignment of keys to columns, all weights and all  *)
(* sizes of tracker and heap.                                              *)
(***************************************************************************)
EXTENDS EdgeSync, SumsProofs, SequenceTheorems, FiniteSetTheorems, TLAPS

-----------------------------------------------------------------------------
(* Types.  Those of the trackers and of the backend's heap come with the   *)
(* heaps, below.                                                           *)

Matrix == [Row -> [Col -> Int]]
Norms == [Row -> Int]
Cell == Row \X Col

IsDelta(d) ==
  /\ \A p \in Cell : CellOf(d, p) \in Int
  /\ \A r \in Row : d.norm[r] \in Int

IsQueue(q) == \E D : q \in Seq(D) /\ \A d \in D : IsDelta(d)

EdgeTyped(e) ==
  /\ edge[e].cells \in Matrix /\ edge[e].norm \in Norms
  /\ snap[e].cells \in Matrix /\ snap[e].norm \in Norms
  /\ IsQueue(wire[e])
  /\ given[e] \in [Row -> [Key -> Int]]

(* Only a window has a snapshot that moves.                                *)
Typed ==
  /\ conf \in Config
  /\ DOMAIN edge = Edge /\ DOMAIN snap = Edge /\ DOMAIN wire = Edge
  /\ DOMAIN given = Edge
  /\ \A e \in Edge : EdgeTyped(e)
  /\ backend.cells \in Matrix /\ backend.norm \in Norms
  /\ syncs \in Nat
  /\ conf.sync # "window" => \A e \in Edge : snap[e] = NewSnapshot

LEMMA ConfigFields ==
  ASSUME conf \in Config
  PROVE  /\ conf.sketch \in {"cms", "cs"} /\ conf.sync \in {"gos", "window", "reset"}
         /\ conf.scale \in Nat \ {0} /\ conf.edges \in Nat \ {0}
         /\ conf.threshold \in Nat /\ conf.items \in Nat /\ conf.syncs \in Nat
BY EdgeSyncAssumption

LEMMA Sizes ==
  /\ NumRows \in Nat /\ NumCols \in Nat /\ NumKeys \in Nat
  /\ \A r \in Row, k \in Key : ColOf(r, k) \in Col /\ SignOf(r, k) \in {-1, 1}
  /\ Weight \subseteq Nat
BY EdgeSyncAssumption

LEMMA SignType ==
  ASSUME NEW r \in Row, NEW k \in Key
  PROVE  Sign(r, k) \in Int /\ (conf.sketch = "cms" => Sign(r, k) = 1)
BY Sizes DEF Sign

-----------------------------------------------------------------------------
(* The queue of deltas and the sums over it *)

CellSum(q, p) == PrefixSum([i \in 1..Len(q) |-> CellOf(q[i], p)], Len(q))
NormSum(q, r) == PrefixSum([i \in 1..Len(q) |-> q[i].norm[r]], Len(q))

LEMMA QueueElements ==
  ASSUME NEW q, IsQueue(q)
  PROVE  Len(q) \in Nat /\ \A i \in 1..Len(q) : IsDelta(q[i])
<1>1. PICK D : q \in Seq(D) /\ \A d \in D : IsDelta(d)
  BY DEF IsQueue
<1> QED
  BY <1>1, LenProperties, ElementOfSeq

LEMMA QueueSums ==
  ASSUME NEW q, IsQueue(q)
  PROVE  /\ \A p \in Cell : CellSum(q, p) \in Int
         /\ \A r \in Row : NormSum(q, r) \in Int
<1>1. Len(q) \in Nat /\ \A i \in 1..Len(q) : IsDelta(q[i])
  BY QueueElements
<1> DEFINE n == Len(q)
<1>2. ASSUME NEW p \in Cell
      PROVE  CellSum(q, p) \in Int
  <2> DEFINE f == [i \in 1..n |-> CellOf(q[i], p)]
  <2>1. n \in Nat /\ \A i \in 1..n : f[i] \in Int
    BY <1>1 DEF IsDelta
  <2>2. CellSum(q, p) = PrefixSum(f, n)
    BY DEF CellSum
  <2> HIDE DEF n, f
  <2> QED
    BY <2>1, <2>2, PrefixSumType
<1>3. ASSUME NEW r \in Row
      PROVE  NormSum(q, r) \in Int
  <2> DEFINE f == [i \in 1..n |-> q[i].norm[r]]
  <2>1. n \in Nat /\ \A i \in 1..n : f[i] \in Int
    BY <1>1 DEF IsDelta
  <2>2. NormSum(q, r) = PrefixSum(f, n)
    BY DEF NormSum
  <2> HIDE DEF n, f
  <2> QED
    BY <2>1, <2>2, PrefixSumType
<1> QED
  BY <1>2, <1>3

LEMMA EmptyQueue ==
  /\ IsQueue(<< >>)
  /\ \A p \in Cell : CellSum(<< >>, p) = 0
  /\ \A r \in Row : NormSum(<< >>, r) = 0
<1>1. << >> \in Seq({}) /\ Len(<< >>) = 0
  BY EmptySeq
<1> QED
  BY <1>1, PrefixSumZero DEF IsQueue, CellSum, NormSum

LEMMA AppendQueue ==
  ASSUME NEW q, IsQueue(q), NEW d, IsDelta(d)
  PROVE  /\ IsQueue(Append(q, d))
         /\ \A p \in Cell : CellSum(Append(q, d), p) = CellSum(q, p) + CellOf(d, p)
         /\ \A r \in Row : NormSum(Append(q, d), r) = NormSum(q, r) + d.norm[r]
<1>1. PICK D : q \in Seq(D) /\ \A x \in D : IsDelta(x)
  BY DEF IsQueue
<1> DEFINE E == D \union {d}
           a == Append(q, d)
           n == Len(q)
<1>2. q \in Seq(E)
  <2>1. n \in Nat /\ q \in [1..n -> D]
    BY <1>1, LenProperties
  <2>2. q \in [1..n -> E]
    BY <2>1
  <2> QED
    BY <2>1, <2>2, SeqDef
<1>3. d \in E
  OBVIOUS
<1>4. \A x \in E : IsDelta(x)
  BY <1>1
<1> HIDE DEF E
<1>5. /\ a \in Seq(E) /\ Len(a) = n + 1 /\ n \in Nat
      /\ \A i \in 1..n : a[i] = q[i]
      /\ a[n+1] = d
  BY <1>2, <1>3, AppendProperties, LenProperties
<1>6. IsQueue(a)
  BY <1>4, <1>5 DEF IsQueue
<1>7. ASSUME NEW p \in Cell
      PROVE  CellSum(a, p) = CellSum(q, p) + CellOf(d, p)
  <2> DEFINE f == [i \in 1..n |-> CellOf(q[i], p)]
             g == [i \in 1..n+1 |-> CellOf(a[i], p)]
  <2>1. /\ \A i \in 1..n : f[i] = g[i]
        /\ g[n+1] = CellOf(d, p)
    BY <1>5
  <2>2. CellSum(q, p) = PrefixSum(f, n) /\ CellSum(a, p) = PrefixSum(g, n+1)
    BY <1>5 DEF CellSum
  <2> HIDE DEF n, f, g
  <2>3. PrefixSum(f, n) = PrefixSum(g, n)
    BY <1>5, <2>1, PrefixSumExt
  <2>4. PrefixSum(g, n+1) = PrefixSum(g, n) + g[n+1]
    BY <1>5, PrefixSumStep
  <2> QED
    BY <2>1, <2>2, <2>3, <2>4
<1>8. ASSUME NEW r \in Row
      PROVE  NormSum(a, r) = NormSum(q, r) + d.norm[r]
  <2> DEFINE f == [i \in 1..n |-> q[i].norm[r]]
             g == [i \in 1..n+1 |-> a[i].norm[r]]
  <2>1. /\ \A i \in 1..n : f[i] = g[i]
        /\ g[n+1] = d.norm[r]
    BY <1>5
  <2>2. NormSum(q, r) = PrefixSum(f, n) /\ NormSum(a, r) = PrefixSum(g, n+1)
    BY <1>5 DEF NormSum
  <2> HIDE DEF n, f, g
  <2>3. PrefixSum(f, n) = PrefixSum(g, n)
    BY <1>5, <2>1, PrefixSumExt
  <2>4. PrefixSum(g, n+1) = PrefixSum(g, n) + g[n+1]
    BY <1>5, PrefixSumStep
  <2> QED
    BY <2>1, <2>2, <2>3, <2>4
<1> QED
  BY <1>6, <1>7, <1>8

LEMMA TailQueue ==
  ASSUME NEW q, IsQueue(q), q # << >>
  PROVE  /\ IsDelta(Head(q)) /\ IsQueue(Tail(q))
         /\ \A p \in Cell : CellSum(q, p) = CellOf(Head(q), p) + CellSum(Tail(q), p)
         /\ \A r \in Row : NormSum(q, r) = Head(q).norm[r] + NormSum(Tail(q), r)
<1>1. PICK D : q \in Seq(D) /\ \A x \in D : IsDelta(x)
  BY DEF IsQueue
<1> DEFINE t == Tail(q)
           n == Len(t)
<1>2. /\ t \in Seq(D) /\ n \in Nat /\ Len(q) = n + 1
      /\ Head(q) = q[1] /\ Head(q) \in D
      /\ \A i \in 1..n : t[i] = q[i+1]
  BY <1>1, HeadTailProperties, LenProperties
<1>3. IsQueue(t) /\ IsDelta(Head(q))
  BY <1>1, <1>2 DEF IsQueue
<1>4. \A i \in 1..n+1 : IsDelta(q[i])
  BY <1>1, <1>2, QueueElements
<1>5. ASSUME NEW p \in Cell
      PROVE  CellSum(q, p) = CellOf(Head(q), p) + CellSum(t, p)
  <2> DEFINE f == [i \in 1..n+1 |-> CellOf(q[i], p)]
             g == [i \in 1..n |-> CellOf(t[i], p)]
  <2>1. /\ \A i \in 1..n+1 : f[i] \in Int
        /\ \A i \in 1..n : g[i] = f[i+1]
        /\ f[1] = CellOf(Head(q), p)
    BY <1>2, <1>4 DEF IsDelta
  <2>2. CellSum(q, p) = PrefixSum(f, n+1) /\ CellSum(t, p) = PrefixSum(g, n)
    BY <1>2 DEF CellSum
  <2> HIDE DEF n, f, g
  <2>3. PrefixSum(f, n+1) = f[1] + PrefixSum(g, n)
    BY <1>2, <2>1, PrefixSumShift
  <2> QED
    BY <2>1, <2>2, <2>3
<1>6. ASSUME NEW r \in Row
      PROVE  NormSum(q, r) = Head(q).norm[r] + NormSum(t, r)
  <2> DEFINE f == [i \in 1..n+1 |-> q[i].norm[r]]
             g == [i \in 1..n |-> t[i].norm[r]]
  <2>1. /\ \A i \in 1..n+1 : f[i] \in Int
        /\ \A i \in 1..n : g[i] = f[i+1]
        /\ f[1] = Head(q).norm[r]
    BY <1>2, <1>4 DEF IsDelta
  <2>2. NormSum(q, r) = PrefixSum(f, n+1) /\ NormSum(t, r) = PrefixSum(g, n)
    BY <1>2 DEF NormSum
  <2> HIDE DEF n, f, g
  <2>3. PrefixSum(f, n+1) = f[1] + PrefixSum(g, n)
    BY <1>2, <2>1, PrefixSumShift
  <2> QED
    BY <2>1, <2>2, <2>3
<1> QED
  BY <1>3, <1>5, <1>6

-----------------------------------------------------------------------------
(* What the actions do *)

LEMMA ValueType ==
  ASSUME Typed, NEW e \in Edge, NEW r \in Row, NEW k \in Key, NEW x \in Int
  PROVE  /\ Current(edge[e], r, k, x) \in Int
         /\ Sign(r, k) * x \in Int
         /\ Current(edge[e], r, k, x) = edge[e].cells[r][ColOf(r, k)] + Sign(r, k) * x
         /\ edge[e].cells[r][ColOf(r, k)] \in Int
         /\ edge[e].norm[r] \in Int
<1>1. edge[e].cells \in Matrix /\ edge[e].norm \in Norms
  BY DEF Typed, EdgeTyped
<1>2. ColOf(r, k) \in Col /\ Sign(r, k) \in Int
  BY Sizes, SignType
<1>3. edge[e].cells[r][ColOf(r, k)] \in Int /\ edge[e].norm[r] \in Int
  BY <1>1, <1>2 DEF Matrix, Norms
<1>4. Sign(r, k) * x \in Int
  BY <1>2
<1> QED
  BY <1>3, <1>4 DEF Current

Hit(R, k, p) == p[1] \in R /\ p[2] = ColOf(p[1], k)

(* What an insert at edge e reports of cell p.                             *)
Reported(e, k, x, R, p) ==
  IF Hit(R, k, p) /\ Crosses(Current(edge[e], p[1], k, x))
  THEN Current(edge[e], p[1], k, x) ELSE 0

LEMMA UpdateCells ==
  ASSUME Typed, NEW e \in Edge, NEW k \in Key, NEW w \in Weight, NEW R \in SUBSET Row,
         Update(e, k, w, R)
  PROVE  /\ w * conf.scale \in Int
         /\ UNCHANGED <<conf, snap, backend, syncs>>
         /\ DOMAIN edge' = Edge /\ DOMAIN given' = Edge
         /\ \A o \in Edge : o # e => edge'[o] = edge[o] /\ given'[o] = given[o]
         /\ edge'[e].cells \in Matrix /\ edge'[e].norm \in Norms
         /\ \A r \in Row, c \in Col :
              edge'[e].cells[r][c] =
                IF r \in R /\ c = ColOf(r, k)
                THEN CellAfter(Current(edge[e], r, k, w * conf.scale))
                ELSE edge[e].cells[r][c]
         /\ \A r \in Row :
              edge'[e].norm[r] =
                IF r \in R
                THEN NormAfter(edge[e].norm[r], edge[e].cells[r][ColOf(r, k)],
                               Current(edge[e], r, k, w * conf.scale))
                ELSE edge[e].norm[r]
         /\ given'[e] \in [Row -> [Key -> Int]]
         /\ \A r \in Row, j \in Key :
              given'[e][r][j] = given[e][r][j] + (IF r \in R /\ j = k
                                                  THEN w * conf.scale ELSE 0)
<1> DEFINE x == w * conf.scale
           curr(r) == Current(edge[e], r, k, x)
           cells == [r \in Row |->
             IF r \in R THEN [edge[e].cells[r] EXCEPT ![ColOf(r, k)] = CellAfter(curr(r))]
                        ELSE edge[e].cells[r]]
           norm == [r \in Row |->
             IF r \in R THEN NormAfter(edge[e].norm[r], edge[e].cells[r][ColOf(r, k)], curr(r))
                        ELSE edge[e].norm[r]]
           paid == [r \in Row |->
             IF r \in R THEN [given[e][r] EXCEPT ![k] = @ + x] ELSE given[e][r]]
<1>1. /\ UNCHANGED <<conf, snap, backend, syncs>>
      /\ edge' = [edge EXCEPT ![e] =
           [cells |-> cells, norm |-> norm, ss |-> Offered(edge[e], k, w)]]
      /\ given' = [given EXCEPT ![e] = paid]
  <2> DEFINE c == [r \in R |-> curr(r)]
  <2>1. /\ UNCHANGED <<conf, snap, backend, syncs>>
        /\ edge' = [edge EXCEPT ![e] =
           [cells |-> [r \in Row |->
              IF r \in R THEN [edge[e].cells[r] EXCEPT ![ColOf(r, k)] = CellAfter(c[r])]
                         ELSE edge[e].cells[r]],
            norm |-> [r \in Row |->
              IF r \in R THEN NormAfter(edge[e].norm[r], edge[e].cells[r][ColOf(r, k)], c[r])
                         ELSE edge[e].norm[r]],
            ss |-> Offered(edge[e], k, w)]]
        /\ given' = [given EXCEPT ![e] = [r \in Row |->
             IF r \in R THEN [given[e][r] EXCEPT ![k] = @ + x] ELSE given[e][r]]]
    BY DEF Update
  <2>2. \A r \in R : c[r] = curr(r)
    OBVIOUS
  <2> HIDE DEF c, curr
  <2>3. [r \in Row |->
           IF r \in R THEN [edge[e].cells[r] EXCEPT ![ColOf(r, k)] = CellAfter(c[r])]
                      ELSE edge[e].cells[r]] = cells
    BY <2>2
  <2>4. [r \in Row |->
           IF r \in R THEN NormAfter(edge[e].norm[r], edge[e].cells[r][ColOf(r, k)], c[r])
                      ELSE edge[e].norm[r]] = norm
    BY <2>2
  <2>5. given' = [given EXCEPT ![e] = paid]
    BY <2>1
  <2> HIDE DEF cells, norm, paid, x
  <2>6. edge' = [edge EXCEPT ![e] =
           [cells |-> cells, norm |-> norm, ss |-> Offered(edge[e], k, w)]]
    BY <2>1, <2>3, <2>4
  <2> QED
    BY <2>1, <2>5, <2>6
<1>2. x \in Int
  BY Sizes, ConfigFields DEF Typed
<1>3. /\ DOMAIN edge = Edge /\ DOMAIN given = Edge /\ EdgeTyped(e)
  BY DEF Typed
<1>4. \A r \in Row : curr(r) \in Int /\ ColOf(r, k) \in Col
  BY <1>2, ValueType, Sizes
<1>5. \A r \in Row : CellAfter(curr(r)) \in Int
  BY <1>4 DEF CellAfter
<1>6. \A r \in Row :
        NormAfter(edge[e].norm[r], edge[e].cells[r][ColOf(r, k)], curr(r)) \in Int
  <2> SUFFICES ASSUME NEW r \in Row
               PROVE  NormAfter(edge[e].norm[r], edge[e].cells[r][ColOf(r, k)], curr(r)) \in Int
    OBVIOUS
  <2> DEFINE a == edge[e].norm[r]
             b == edge[e].cells[r][ColOf(r, k)]
             c == curr(r)
  <2>1. a \in Int /\ b \in Int /\ c \in Int
    BY <1>2, ValueType
  <2> HIDE DEF a, b, c
  <2>2. c * c \in Int /\ b * b \in Int
    BY <2>1
  <2>3. NormAfter(a, b, c) \in Int
    BY <2>1, <2>2 DEF NormAfter
  <2> QED
    BY <2>3 DEF a, b, c
<1>7. /\ DOMAIN edge' = Edge /\ DOMAIN given' = Edge
      /\ \A o \in Edge : o # e => edge'[o] = edge[o] /\ given'[o] = given[o]
      /\ edge'[e].cells = cells /\ edge'[e].norm = norm /\ given'[e] = paid
  <2> HIDE DEF cells, norm, paid
  <2> QED
    BY <1>1, <1>3
<1> HIDE DEF x, curr
<1>8. cells \in Matrix
  <2> SUFFICES ASSUME NEW r \in Row PROVE cells[r] \in [Col -> Int]
    BY DEF Matrix
  <2>1. edge[e].cells[r] \in [Col -> Int]
    BY <1>3 DEF EdgeTyped, Matrix
  <2> QED
    BY <1>4, <1>5, <2>1
<1>9. norm \in Norms
  <2>1. \A r \in Row : edge[e].norm[r] \in Int
    BY <1>3 DEF EdgeTyped, Norms
  <2> QED
    BY <1>6, <2>1 DEF Norms
<1>10. paid \in [Row -> [Key -> Int]]
  <2> SUFFICES ASSUME NEW r \in Row PROVE paid[r] \in [Key -> Int]
    OBVIOUS
  <2>1. given[e][r] \in [Key -> Int]
    BY <1>3 DEF EdgeTyped
  <2> QED
    BY <1>2, <2>1
<1>11. ASSUME NEW r \in Row, NEW c \in Col
       PROVE  cells[r][c] = IF r \in R /\ c = ColOf(r, k)
                            THEN CellAfter(curr(r)) ELSE edge[e].cells[r][c]
  <2>1. edge[e].cells[r] \in [Col -> Int]
    BY <1>3 DEF EdgeTyped, Matrix
  <2> QED
    BY <1>4, <2>1
<1>12. ASSUME NEW r \in Row, NEW j \in Key
       PROVE  paid[r][j] = given[e][r][j] + (IF r \in R /\ j = k THEN x ELSE 0)
  <2>1. given[e][r] \in [Key -> Int]
    BY <1>3 DEF EdgeTyped
  <2> QED
    BY <1>2, <2>1
<1>13. \A r \in Row :
         norm[r] = IF r \in R
           THEN NormAfter(edge[e].norm[r], edge[e].cells[r][ColOf(r, k)], curr(r))
           ELSE edge[e].norm[r]
  OBVIOUS
<1> HIDE DEF cells, norm, paid
<1>14. /\ \A r \in Row, c \in Col :
            edge'[e].cells[r][c] = IF r \in R /\ c = ColOf(r, k)
                                   THEN CellAfter(curr(r)) ELSE edge[e].cells[r][c]
       /\ \A r \in Row :
            edge'[e].norm[r] = IF r \in R
              THEN NormAfter(edge[e].norm[r], edge[e].cells[r][ColOf(r, k)], curr(r))
              ELSE edge[e].norm[r]
       /\ \A r \in Row, j \in Key :
            given'[e][r][j] = given[e][r][j] + (IF r \in R /\ j = k THEN x ELSE 0)
  BY <1>7, <1>11, <1>12, <1>13
<1> QED
  BY <1>1, <1>2, <1>7, <1>8, <1>9, <1>10, <1>14 DEF x, curr

LEMMA UpdateWire ==
  ASSUME Typed, NEW e \in Edge, NEW k \in Key, NEW w \in Weight, NEW R \in SUBSET Row,
         Update(e, k, w, R)
  PROVE  /\ DOMAIN wire' = Edge
         /\ \A o \in Edge : o # e => wire'[o] = wire[o]
         /\ IsQueue(wire'[e])
         /\ \A p \in Cell :
              CellSum(wire'[e], p) =
                CellSum(wire[e], p) + Reported(e, k, w * conf.scale, R, p)
         /\ \A r \in Row : NormSum(wire'[e], r) = NormSum(wire[e], r)
<1> DEFINE x == w * conf.scale
           curr == [r \in R |-> Current(edge[e], r, k, x)]
           dirty == {r \in R : Crosses(curr[r])}
           D == {<<r, ColOf(r, k)>> : r \in dirty}
           d == [cells |-> [p \in D |-> curr[p[1]]], norm |-> NoNorm, keys |-> << >>]
<1>1. wire' = IF dirty = {} THEN wire ELSE [wire EXCEPT ![e] = Append(@, d)]
  BY DEF Update
<1>2. x \in Int
  BY Sizes, ConfigFields DEF Typed
<1>3. DOMAIN wire = Edge /\ IsQueue(wire[e])
  BY DEF Typed, EdgeTyped
<1>4. /\ \A p \in Cell : CellSum(wire[e], p) \in Int
      /\ \A r \in Row : NormSum(wire[e], r) \in Int
  BY <1>3, QueueSums
<1>5. ASSUME NEW p \in Cell
      PROVE  /\ CellOf(d, p) = Reported(e, k, x, R, p)
             /\ Reported(e, k, x, R, p) \in Int
             /\ dirty = {} => Reported(e, k, x, R, p) = 0
  <2>1. p = <<p[1], p[2]>> /\ p[1] \in Row /\ p[2] \in Col
    BY DEF Cell
  <2>2. p \in D <=> (p[1] \in dirty /\ p[2] = ColOf(p[1], k))
    BY <2>1
  <2>3. p[1] \in dirty <=> (p[1] \in R /\ Crosses(Current(edge[e], p[1], k, x)))
    OBVIOUS
  <2>4. p[1] \in R => curr[p[1]] = Current(edge[e], p[1], k, x)
    OBVIOUS
  <2>5. Current(edge[e], p[1], k, x) \in Int
    BY <1>2, <2>1, ValueType
  <2>6. d.cells = [y \in D |-> curr[y[1]]]
    OBVIOUS
  <2> HIDE DEF curr, dirty, D, d, x
  <2>7. CellOf(d, p) = IF p \in D THEN curr[p[1]] ELSE 0
    BY <2>6 DEF CellOf
  <2>8. CellOf(d, p) = Reported(e, k, x, R, p)
    BY <2>2, <2>3, <2>4, <2>7 DEF Reported, Hit
  <2> QED
    BY <2>3, <2>5, <2>8 DEF Reported, Hit
<1>6. IsDelta(d) /\ \A r \in Row : d.norm[r] = 0
  <2>1. \A r \in Row : d.norm[r] = 0
    BY DEF NoNorm
  <2> HIDE DEF d
  <2> QED
    BY <1>5, <2>1 DEF IsDelta
<1> HIDE DEF dirty, d, x
<1>7. CASE dirty = {}
  <2>1. wire' = wire
    BY <1>1, <1>7
  <2> QED
    BY <1>3, <1>4, <1>5, <1>7, <2>1 DEF x
<1>8. CASE dirty # {}
  <2>1. /\ DOMAIN wire' = Edge
        /\ \A o \in Edge : o # e => wire'[o] = wire[o]
        /\ wire'[e] = Append(wire[e], d)
    BY <1>1, <1>3, <1>8
  <2>2. /\ IsQueue(wire'[e])
        /\ \A p \in Cell : CellSum(wire'[e], p) = CellSum(wire[e], p) + CellOf(d, p)
        /\ \A r \in Row : NormSum(wire'[e], r) = NormSum(wire[e], r) + d.norm[r]
    BY <1>3, <1>6, <2>1, AppendQueue
  <2> QED
    BY <1>4, <1>5, <1>6, <2>1, <2>2 DEF x
<1> QED
  BY <1>7, <1>8

(* What a delta computed at edge e says of cell p.                         *)
Sent(e, p) ==
  IF Difference(e, p) # 0 /\ Abs(Difference(e, p)) >= conf.threshold
  THEN Difference(e, p) ELSE 0

LEMMA DifferenceType ==
  ASSUME Typed, NEW e \in Edge, NEW p \in Cell
  PROVE  /\ edge[e].cells[p[1]][p[2]] \in Int /\ snap[e].cells[p[1]][p[2]] \in Int
         /\ Difference(e, p) \in Int /\ Sent(e, p) \in Int
         /\ backend.cells[p[1]][p[2]] \in Int
<1>1. p[1] \in Row /\ p[2] \in Col
  BY DEF Cell
<1>2. edge[e].cells \in Matrix /\ snap[e].cells \in Matrix /\ backend.cells \in Matrix
  BY DEF Typed, EdgeTyped
<1>3. /\ edge[e].cells[p[1]][p[2]] \in Int /\ snap[e].cells[p[1]][p[2]] \in Int
      /\ backend.cells[p[1]][p[2]] \in Int
  BY <1>1, <1>2 DEF Matrix
<1> QED
  BY <1>3 DEF Difference, Sent

LEMMA NormTypes ==
  ASSUME Typed, NEW e \in Edge, NEW r \in Row
  PROVE  edge[e].norm[r] \in Int /\ snap[e].norm[r] \in Int /\ backend.norm[r] \in Int
BY DEF Typed, EdgeTyped, Norms

LEMMA ZeroTypes ==
  /\ NoCells \in Matrix /\ NoNorm \in Norms
  /\ \A r \in Row, c \in Col : NoCells[r][c] = 0
  /\ \A r \in Row : NoNorm[r] = 0
BY DEF NoCells, NoNorm, Matrix, Norms

LEMMA DeltaIs ==
  ASSUME Typed, NEW e \in Edge
  PROVE  /\ IsDelta(ComputeDelta(e))
         /\ \A p \in Cell : CellOf(ComputeDelta(e), p) = Sent(e, p)
         /\ \A r \in Row : ComputeDelta(e).norm[r] = edge[e].norm[r] - snap[e].norm[r]
<1> DEFINE d == ComputeDelta(e)
           D == {q \in Cell : /\ Difference(e, q) # 0
                              /\ Abs(Difference(e, q)) >= conf.threshold}
<1>1. /\ d.cells = [p \in D |-> Difference(e, p)]
      /\ d.norm = [r \in Row |-> edge[e].norm[r] - snap[e].norm[r]]
  BY DEF ComputeDelta, Cell
<1> HIDE DEF d
<1>2. ASSUME NEW p \in Cell
      PROVE  CellOf(d, p) = Sent(e, p)
  BY <1>1 DEF CellOf, Sent
<1>3. ASSUME NEW p \in Cell
      PROVE  CellOf(d, p) \in Int
  BY <1>2, DifferenceType
<1>4. ASSUME NEW r \in Row
      PROVE  /\ d.norm[r] = edge[e].norm[r] - snap[e].norm[r]
             /\ d.norm[r] \in Int
  BY <1>1, NormTypes
<1>5. IsDelta(d)
  BY <1>3, <1>4 DEF IsDelta
<1> QED
  BY <1>2, <1>4, <1>5 DEF d

LEMMA SyncEffect ==
  ASSUME Typed, NEW e \in Edge, Sync(e)
  PROVE  /\ conf.sync # "gos"
         /\ UNCHANGED <<conf, backend, given>> /\ syncs' = syncs + 1
         /\ DOMAIN edge' = Edge /\ DOMAIN snap' = Edge /\ DOMAIN wire' = Edge
         /\ \A o \in Edge : o # e => edge'[o] = edge[o] /\ snap'[o] = snap[o]
                                       /\ wire'[o] = wire[o]
         /\ IsQueue(wire'[e])
         /\ \A p \in Cell : CellSum(wire'[e], p) = CellSum(wire[e], p) + Sent(e, p)
         /\ \A r \in Row : NormSum(wire'[e], r) =
              NormSum(wire[e], r) + (edge[e].norm[r] - snap[e].norm[r])
         /\ conf.sync = "window" =>
              /\ edge'[e] = edge[e]
              /\ snap'[e].cells = edge[e].cells /\ snap'[e].norm = edge[e].norm
         /\ conf.sync # "window" =>
              edge'[e] = NewSketch /\ snap'[e] = NewSnapshot /\ snap[e] = NewSnapshot
<1>1. /\ conf.sync # "gos"
      /\ UNCHANGED <<conf, backend, given>> /\ syncs' = syncs + 1
      /\ wire' = [wire EXCEPT ![e] = Append(@, ComputeDelta(e))]
      /\ IF conf.sync = "window"
         THEN /\ snap' = [snap EXCEPT ![e] = [cells |-> edge[e].cells, norm |-> edge[e].norm]]
              /\ edge' = edge
         ELSE edge' = [edge EXCEPT ![e] = NewSketch] /\ snap' = snap
  BY DEF Sync
<1>2. /\ DOMAIN edge = Edge /\ DOMAIN snap = Edge /\ DOMAIN wire = Edge
      /\ IsQueue(wire[e])
      /\ conf.sync # "window" => snap[e] = NewSnapshot
  BY DEF Typed, EdgeTyped
<1>3. /\ DOMAIN wire' = Edge
      /\ wire'[e] = Append(wire[e], ComputeDelta(e))
      /\ \A o \in Edge : o # e => wire'[o] = wire[o]
  BY <1>1, <1>2
<1>4. /\ IsQueue(wire'[e])
      /\ \A p \in Cell : CellSum(wire'[e], p) = CellSum(wire[e], p) + Sent(e, p)
      /\ \A r \in Row : NormSum(wire'[e], r) =
           NormSum(wire[e], r) + (edge[e].norm[r] - snap[e].norm[r])
  <2> DEFINE d == ComputeDelta(e)
             q == wire[e]
  <2>1. IsDelta(d) /\ IsQueue(q)
    BY <1>2, DeltaIs
  <2>2. /\ IsQueue(Append(q, d))
        /\ \A p \in Cell : CellSum(Append(q, d), p) = CellSum(q, p) + CellOf(d, p)
        /\ \A r \in Row : NormSum(Append(q, d), r) = NormSum(q, r) + d.norm[r]
    <3> HIDE DEF d, q
    <3> QED
      BY <2>1, AppendQueue
  <2> QED
    BY <1>3, <2>2, DeltaIs
<1>5. CASE conf.sync = "window"
  BY <1>1, <1>2, <1>3, <1>4, <1>5
<1>6. CASE conf.sync # "window"
  BY <1>1, <1>2, <1>3, <1>4, <1>6
<1> QED
  BY <1>5, <1>6

LEMMA ApplyEffect ==
  ASSUME Typed, NEW e \in Edge, ApplyDelta(e)
  PROVE  /\ wire[e] # << >>
         /\ UNCHANGED <<conf, edge, snap, syncs, given>>
         /\ DOMAIN wire' = Edge
         /\ \A o \in Edge : o # e => wire'[o] = wire[o]
         /\ IsQueue(wire'[e])
         /\ backend'.cells \in Matrix /\ backend'.norm \in Norms
         /\ IsDelta(Head(wire[e]))
         /\ \A p \in Cell :
              /\ CellSum(wire[e], p) = CellOf(Head(wire[e]), p) + CellSum(wire'[e], p)
              /\ backend'.cells[p[1]][p[2]] =
                   backend.cells[p[1]][p[2]] + CellOf(Head(wire[e]), p)
         /\ \A r \in Row :
              /\ NormSum(wire[e], r) = Head(wire[e]).norm[r] + NormSum(wire'[e], r)
              /\ backend'.norm[r] = backend.norm[r] + Head(wire[e]).norm[r]
<1> DEFINE d == Head(wire[e])
           cells == [r \in Row |-> [c \in Col |-> backend.cells[r][c]
                       + IF <<r, c>> \in DOMAIN d.cells THEN d.cells[<<r, c>>] ELSE 0]]
           norm == [r \in Row |-> backend.norm[r] + d.norm[r]]
<1>1. /\ wire[e] # << >>
      /\ UNCHANGED <<conf, edge, snap, syncs, given>>
      /\ wire' = [wire EXCEPT ![e] = Tail(@)]
      /\ backend'.cells = cells /\ backend'.norm = norm
  BY DEF ApplyDelta
<1>2. DOMAIN wire = Edge /\ IsQueue(wire[e])
  BY DEF Typed, EdgeTyped
<1>3. /\ DOMAIN wire' = Edge
      /\ wire'[e] = Tail(wire[e])
      /\ \A o \in Edge : o # e => wire'[o] = wire[o]
  BY <1>1, <1>2
<1>4. /\ IsDelta(d) /\ IsQueue(wire'[e])
      /\ \A p \in Cell : CellSum(wire[e], p) = CellOf(d, p) + CellSum(wire'[e], p)
      /\ \A r \in Row : NormSum(wire[e], r) = d.norm[r] + NormSum(wire'[e], r)
  <2> DEFINE q == wire[e]
  <2>1. IsQueue(q) /\ q # << >>
    BY <1>1, <1>2
  <2>2. /\ IsDelta(Head(q)) /\ IsQueue(Tail(q))
        /\ \A p \in Cell : CellSum(q, p) = CellOf(Head(q), p) + CellSum(Tail(q), p)
        /\ \A r \in Row : NormSum(q, r) = Head(q).norm[r] + NormSum(Tail(q), r)
    <3> HIDE DEF q
    <3> QED
      BY <2>1, TailQueue
  <2> QED
    BY <1>3, <2>2
<1> HIDE DEF d
<1>5. /\ \A r \in Row, c \in Col : backend.cells[r][c] \in Int
      /\ \A r \in Row : backend.norm[r] \in Int
  BY DEF Typed, Matrix, Norms
<1>6. ASSUME NEW r \in Row, NEW c \in Col
      PROVE  /\ cells[r][c] = backend.cells[r][c] + CellOf(d, <<r, c>>)
             /\ CellOf(d, <<r, c>>) \in Int
  <2>1. <<r, c>> \in Cell
    BY DEF Cell
  <2> QED
    BY <1>4, <2>1 DEF CellOf, IsDelta
<1>7. \A r \in Row : norm[r] = backend.norm[r] + d.norm[r] /\ norm[r] \in Int
  BY <1>4, <1>5 DEF IsDelta
<1>8. cells \in Matrix
  <2>1. ASSUME NEW r \in Row, NEW c \in Col
        PROVE  cells[r][c] \in Int
    <3> DEFINE a == backend.cells[r][c]
               b == CellOf(d, <<r, c>>)
               z == cells[r][c]
    <3>1. a \in Int /\ b \in Int /\ z = a + b
      BY <1>5, <1>6
    <3> HIDE DEF a, b, z
    <3>2. z \in Int
      BY <3>1
    <3> QED
      BY <3>2 DEF z
  <2> QED
    BY <2>1 DEF Matrix
<1>9. norm \in Norms
  BY <1>7 DEF Norms
<1> HIDE DEF cells, norm
<1>10. ASSUME NEW p \in Cell
       PROVE  backend'.cells[p[1]][p[2]] = backend.cells[p[1]][p[2]] + CellOf(d, p)
  <2>1. p = <<p[1], p[2]>> /\ p[1] \in Row /\ p[2] \in Col
    BY DEF Cell
  <2> QED
    BY <1>1, <1>6, <2>1
<1> QED
  BY <1>1, <1>3, <1>4, <1>7, <1>8, <1>9, <1>10 DEF d

-----------------------------------------------------------------------------
(* Types are kept *)

LEMMA TypedInit == Init => Typed
<1> SUFFICES ASSUME Init
             PROVE  Typed
  OBVIOUS
<1>1. \A e \in Edge : EdgeTyped(e)
  <2>1. [r \in Row |-> NoWeight] \in [Row -> [Key -> Int]]
    BY DEF NoWeight
  <2> QED
    BY <2>1, ZeroTypes, EmptyQueue DEF Init, EdgeTyped, NewSketch, NewSnapshot
<1> QED
  BY <1>1, ZeroTypes DEF Init, Typed

LEMMA TypedNext == Typed /\ [Next]_vars => Typed'
<1> SUFFICES ASSUME Typed, [Next]_vars
             PROVE  Typed'
  OBVIOUS
<1>1. /\ conf \in Config
      /\ DOMAIN edge = Edge /\ DOMAIN snap = Edge /\ DOMAIN wire = Edge
      /\ DOMAIN given = Edge
      /\ \A e \in Edge : EdgeTyped(e)
      /\ backend.cells \in Matrix /\ backend.norm \in Norms
      /\ syncs \in Nat
      /\ conf.sync # "window" => \A e \in Edge : snap[e] = NewSnapshot
  BY DEF Typed
<1>2. UNCHANGED conf => Edge' = Edge
  BY DEF Edge
<1>3. CASE \E e \in Edge, k \in Key, w \in Weight, R \in SUBSET Row : Update(e, k, w, R)
  <2>1. PICK e \in Edge, k \in Key, w \in Weight, R \in SUBSET Row : Update(e, k, w, R)
    BY <1>3
  <2>2. /\ UNCHANGED <<conf, snap, backend, syncs>>
        /\ DOMAIN edge' = Edge /\ DOMAIN given' = Edge
        /\ \A o \in Edge : o # e => edge'[o] = edge[o] /\ given'[o] = given[o]
        /\ edge'[e].cells \in Matrix /\ edge'[e].norm \in Norms
        /\ given'[e] \in [Row -> [Key -> Int]]
    BY <2>1, UpdateCells
  <2>3. /\ DOMAIN wire' = Edge
        /\ \A o \in Edge : o # e => wire'[o] = wire[o]
        /\ IsQueue(wire'[e])
    BY <2>1, UpdateWire
  <2>4. \A o \in Edge : EdgeTyped(o)'
    BY <1>1, <2>2, <2>3 DEF EdgeTyped
  <2> QED
    BY <1>1, <1>2, <2>2, <2>3, <2>4 DEF Typed
<1>4. CASE \E e \in Edge : Sync(e)
  <2>1. PICK e \in Edge : Sync(e)
    BY <1>4
  <2>2. /\ UNCHANGED <<conf, backend, given>> /\ syncs' = syncs + 1
        /\ DOMAIN edge' = Edge /\ DOMAIN snap' = Edge /\ DOMAIN wire' = Edge
        /\ \A o \in Edge : o # e => edge'[o] = edge[o] /\ snap'[o] = snap[o]
                                      /\ wire'[o] = wire[o]
        /\ IsQueue(wire'[e])
        /\ conf.sync = "window" =>
             /\ edge'[e] = edge[e]
             /\ snap'[e].cells = edge[e].cells /\ snap'[e].norm = edge[e].norm
        /\ conf.sync # "window" => edge'[e] = NewSketch /\ snap'[e] = NewSnapshot
    BY <2>1, SyncEffect
  <2>3. EdgeTyped(e)'
    <3>1. CASE conf.sync = "window"
      BY <1>1, <2>2, <3>1 DEF EdgeTyped
    <3>2. CASE conf.sync # "window"
      BY <1>1, <2>2, <3>2, ZeroTypes DEF EdgeTyped, NewSketch, NewSnapshot
    <3> QED
      BY <3>1, <3>2
  <2>4. \A o \in Edge : EdgeTyped(o)'
    BY <1>1, <2>2, <2>3 DEF EdgeTyped
  <2>5. conf.sync # "window" => \A o \in Edge : snap'[o] = NewSnapshot
    BY <1>1, <2>2
  <2> QED
    BY <1>1, <1>2, <2>2, <2>4, <2>5 DEF Typed
<1>5. CASE \E e \in Edge : ApplyDelta(e)
  <2>1. PICK e \in Edge : ApplyDelta(e)
    BY <1>5
  <2>2. /\ UNCHANGED <<conf, edge, snap, syncs, given>>
        /\ DOMAIN wire' = Edge
        /\ \A o \in Edge : o # e => wire'[o] = wire[o]
        /\ IsQueue(wire'[e])
        /\ backend'.cells \in Matrix /\ backend'.norm \in Norms
    BY <2>1, ApplyEffect
  <2>3. \A o \in Edge : EdgeTyped(o)'
    BY <1>1, <2>2 DEF EdgeTyped
  <2> QED
    BY <1>1, <1>2, <2>2, <2>3 DEF Typed
<1>6. CASE UNCHANGED vars
  <2>1. UNCHANGED <<conf, edge, snap, wire, given, backend, syncs>>
    BY <1>6 DEF vars
  <2>2. \A o \in Edge : EdgeTyped(o)'
    BY <1>1, <2>1 DEF EdgeTyped
  <2> QED
    BY <1>1, <1>2, <2>1, <2>2 DEF Typed
<1> QED
  BY <1>3, <1>4, <1>5, <1>6 DEF Next

-----------------------------------------------------------------------------
(* Cells *)

LEMMA GivenToType ==
  ASSUME Typed, NEW e \in Edge, NEW p \in Cell
  PROVE  GivenTo(e, p) \in Int
<1> DEFINE f == [k \in Key |-> IF ColOf(p[1], k) = p[2]
                               THEN Sign(p[1], k) * given[e][p[1]][k] ELSE 0]
           n == NumKeys
<1>1. n \in Nat /\ GivenTo(e, p) = PrefixSum(f, n)
  BY Sizes DEF GivenTo
<1>2. \A k \in 1..n : f[k] \in Int
  <2> SUFFICES ASSUME NEW k \in Key PROVE f[k] \in Int
    BY DEF Key
  <2>1. p[1] \in Row
    BY DEF Cell
  <2>2. given[e][p[1]][k] \in Int
    BY <2>1 DEF Typed, EdgeTyped
  <2>3. Sign(p[1], k) \in Int
    BY <2>1, SignType
  <2>4. Sign(p[1], k) * given[e][p[1]][k] \in Int
    BY <2>2, <2>3
  <2> QED
    BY <2>4
<1> HIDE DEF f, n
<1> QED
  BY <1>1, <1>2, PrefixSumType

(* What an edge has not yet given the backend of cell p.                   *)
Held(e, p) == OnWire(e, p) + Difference(e, p)

LEMMA HeldType ==
  ASSUME Typed, NEW e \in Edge, NEW p \in Cell
  PROVE  /\ Held(e, p) \in Int /\ CellSum(wire[e], p) \in Int
         /\ Held(e, p) = CellSum(wire[e], p) + Difference(e, p)
<1>1. CellSum(wire[e], p) \in Int
  BY QueueSums DEF Typed, EdgeTyped
<1>2. Difference(e, p) \in Int
  BY DifferenceType
<1> QED
  BY <1>1, <1>2 DEF Held, OnWire, CellSum

(* What has been given up of cell p.                                       *)
Missing(p) ==
  TrueCell(p) - (backend.cells[p[1]][p[2]]
                   + PrefixSum([e \in Edge |-> Held(e, p)], conf.edges))

Lost == IF conf.sync = "gos" \/ conf.threshold = 0 THEN 0
        ELSE syncs * (conf.threshold - 1)

LEMMA AccountedIs == CellsAccounted <=> \A p \in Cell : Abs(Missing(p)) <= Lost
BY DEF CellsAccounted, Missing, Lost, Held, Cell

(* One edge is given x more of cell p and holds y more of it.              *)
LEMMA MissingChange ==
  ASSUME Typed, Typed', UNCHANGED conf, NEW e \in Edge, NEW p \in Cell,
         NEW x \in Int, NEW y \in Int,
         GivenTo(e, p)' = GivenTo(e, p) + x,
         Held(e, p)' = Held(e, p) + y,
         \A o \in Edge : o # e => GivenTo(o, p)' = GivenTo(o, p) /\ Held(o, p)' = Held(o, p)
  PROVE  /\ Missing(p) \in Int
         /\ Missing(p)' = Missing(p) + x - y
              - (backend'.cells[p[1]][p[2]] - backend.cells[p[1]][p[2]])
<1> DEFINE n == conf.edges
           G == [o \in Edge |-> GivenTo(o, p)]
           H == [o \in Edge |-> Held(o, p)]
           G2 == [o \in Edge |-> GivenTo(o, p)']
           H2 == [o \in Edge |-> Held(o, p)']
           b == backend.cells[p[1]][p[2]]
           b2 == backend'.cells[p[1]][p[2]]
<1>1. n \in Nat /\ e \in 1..n /\ Edge = 1..n /\ Edge' = Edge
  BY ConfigFields DEF Edge, Typed
<1>2. b \in Int /\ b2 \in Int
  <2>1. p[1] \in Row /\ p[2] \in Col
    BY DEF Cell
  <2>2. backend.cells \in Matrix /\ backend'.cells \in Matrix
    BY DEF Typed
  <2> QED
    BY <2>1, <2>2 DEF Matrix
<1>3. \A i \in 1..n : G[i] \in Int /\ H[i] \in Int
  BY <1>1, GivenToType, HeldType
<1>4. /\ G2[e] = G[e] + x /\ H2[e] = H[e] + y
      /\ \A i \in 1..n : i # e => G2[i] = G[i] /\ H2[i] = H[i]
  BY <1>1
<1>5. /\ Missing(p) = PrefixSum(G, n) - (b + PrefixSum(H, n))
      /\ Missing(p)' = PrefixSum(G2, n) - (b2 + PrefixSum(H2, n))
  BY <1>1 DEF Missing, TrueCell
<1> HIDE DEF n, G, H, G2, H2, b, b2
<1>6. /\ PrefixSum(G2, n) = PrefixSum(G, n) + x /\ PrefixSum(G, n) \in Int
      /\ PrefixSum(H2, n) = PrefixSum(H, n) + y /\ PrefixSum(H, n) \in Int
  <2>1. PrefixSum(G2, n) = PrefixSum(G, n) + x
    BY <1>1, <1>3, <1>4, PrefixSumUpdate
  <2>2. PrefixSum(H2, n) = PrefixSum(H, n) + y
    BY <1>1, <1>3, <1>4, PrefixSumUpdate
  <2>3. PrefixSum(G, n) \in Int /\ PrefixSum(H, n) \in Int
    BY <1>1, <1>3, PrefixSumType
  <2> QED
    BY <2>1, <2>2, <2>3
<1>7. Missing(p)' = Missing(p) + x - y - (b2 - b)
  BY <1>2, <1>5, <1>6
<1>8. Missing(p) \in Int
  BY <1>2, <1>5, <1>6
<1> QED
  BY <1>7, <1>8 DEF b, b2

LEMMA MissingSame ==
  ASSUME Typed, UNCHANGED <<conf, edge, snap, wire, given>>,
         UNCHANGED backend, NEW p \in Cell
  PROVE  Missing(p)' = Missing(p)
BY DEF Missing, TrueCell, GivenTo, Held, OnWire, Difference, Sign, Edge

(* An insert misses nothing: what it adds to a cell is in the cell, or in  *)
(* the delta together with what the cell held.                             *)
LEMMA UpdateMissing ==
  ASSUME Typed, Typed', NEW e \in Edge, NEW k \in Key, NEW w \in Weight,
         NEW R \in SUBSET Row, Update(e, k, w, R), NEW p \in Cell
  PROVE  Missing(p) \in Int /\ Missing(p)' = Missing(p)
<1> DEFINE x == w * conf.scale
           r == p[1]
           v == Current(edge[e], r, k, x)
           cell == edge[e].cells[r][p[2]]
           y == IF Hit(R, k, p) THEN Sign(r, k) * x ELSE 0
<1>1. r \in Row /\ p[2] \in Col
  BY DEF Cell
<1>2. /\ x \in Int /\ UNCHANGED <<conf, snap, backend>>
      /\ \A o \in Edge : o # e => edge'[o] = edge[o] /\ given'[o] = given[o]
      /\ edge'[e].cells[r][p[2]] =
           IF r \in R /\ p[2] = ColOf(r, k) THEN CellAfter(v) ELSE cell
      /\ \A j \in Key : given'[e][r][j] = given[e][r][j] + (IF r \in R /\ j = k THEN x ELSE 0)
  BY <1>1, UpdateCells, SMTT(30)
<1>3. /\ \A o \in Edge : o # e => wire'[o] = wire[o]
      /\ CellSum(wire'[e], p) = CellSum(wire[e], p) + Reported(e, k, x, R, p)
  BY UpdateWire
<1>4. /\ v \in Int /\ Sign(r, k) * x \in Int /\ cell \in Int
      /\ p[2] = ColOf(r, k) => v = cell + Sign(r, k) * x
      /\ snap[e].cells[r][p[2]] \in Int
  BY <1>1, <1>2, ValueType, DifferenceType
<1>5. /\ Edge' = Edge /\ \A j \in Key : Sign(r, j)' = Sign(r, j)
  BY <1>2 DEF Edge, Sign
<1>6. y \in Int
  BY <1>4
<1>7. Held(e, p)' = Held(e, p) + y
  <2> DEFINE s == snap[e].cells[r][p[2]]
             c2 == edge'[e].cells[r][p[2]]
             q == CellSum(wire[e], p)
             q2 == CellSum(wire'[e], p)
  <2>1. q \in Int /\ Held(e, p) = q + (cell - s)
    BY HeldType DEF Difference
  <2>2. Held(e, p)' = q2 + (c2 - s)
    BY <1>2 DEF Held, OnWire, CellSum, Difference
  <2>3. s \in Int
    BY <1>4
  <2>4. /\ c2 = IF Hit(R, k, p) THEN CellAfter(v) ELSE cell
        /\ q2 = q + (IF Hit(R, k, p) /\ Crosses(v) THEN v ELSE 0)
        /\ Hit(R, k, p) => v = cell + Sign(r, k) * x
    BY <1>2, <1>3, <1>4 DEF Hit, Reported
  <2>5. CellAfter(v) = IF Crosses(v) THEN 0 ELSE v
    BY DEF CellAfter
  <2> DEFINE z == Sign(r, k) * x
  <2>6. z \in Int /\ y = IF Hit(R, k, p) THEN z ELSE 0
    BY <1>4
  <2> HIDE DEF s, c2, q, q2, v, cell, y, z
  <2>7. CASE Hit(R, k, p) /\ Crosses(v)
    <3>1. c2 = 0 /\ q2 = q + v /\ v = cell + z /\ y = z
      BY <2>4, <2>5, <2>6, <2>7 DEF z
    <3> QED
      BY <1>4, <2>1, <2>2, <2>3, <2>6, <3>1
  <2>8. CASE Hit(R, k, p) /\ ~ Crosses(v)
    <3>1. c2 = v /\ q2 = q /\ v = cell + z /\ y = z
      BY <2>1, <2>4, <2>5, <2>6, <2>8 DEF z
    <3> QED
      BY <1>4, <2>1, <2>2, <2>3, <2>6, <3>1
  <2>9. CASE ~ Hit(R, k, p)
    <3>1. c2 = cell /\ q2 = q /\ y = 0
      BY <2>1, <2>4, <2>6, <2>9
    <3> QED
      BY <1>4, <2>1, <2>2, <2>3, <3>1
  <2> QED
    BY <2>7, <2>8, <2>9
<1>8. GivenTo(e, p)' = GivenTo(e, p) + y
  <2> DEFINE n == NumKeys
             f == [j \in Key |-> IF ColOf(r, j) = p[2]
                                 THEN Sign(r, j) * given[e][r][j] ELSE 0]
             g == [j \in Key |-> IF ColOf(r, j) = p[2]
                                 THEN Sign(r, j) * given'[e][r][j] ELSE 0]
  <2>1. n \in Nat /\ GivenTo(e, p) = PrefixSum(f, n)
    BY Sizes DEF GivenTo
  <2>2. GivenTo(e, p)' = PrefixSum(g, n)
    BY <1>5 DEF GivenTo
  <2>3. \A j \in Key : given[e][r][j] \in Int /\ Sign(r, j) \in Int
    BY <1>1, SignType DEF Typed, EdgeTyped
  <2>4. \A j \in 1..n : f[j] \in Int
    <3> SUFFICES ASSUME NEW j \in Key PROVE f[j] \in Int
      BY DEF Key
    <3>1. Sign(r, j) * given[e][r][j] \in Int
      BY <2>3
    <3> QED
      BY <3>1
  <2>5. k \in 1..n
    BY DEF Key
  <2>6. \A j \in 1..n : j # k => g[j] = f[j]
    <3> SUFFICES ASSUME NEW j \in Key, j # k PROVE g[j] = f[j]
      BY DEF Key
    <3>1. given'[e][r][j] = given[e][r][j]
      BY <1>2, <2>3
    <3> QED
      BY <3>1
  <2>7. g[k] = f[k] + y
    <3> DEFINE a == given[e][r][k]
               s == Sign(r, k)
    <3>1. a \in Int /\ s \in Int /\ s * a \in Int /\ s * x \in Int
      BY <1>4, <2>3
    <3>2. given'[e][r][k] = IF r \in R THEN a + x ELSE a
      BY <1>2, <2>3
    <3>3. s * (a + x) = s * a + s * x
      BY <1>2, <3>1
    <3>4. /\ f[k] = IF ColOf(r, k) = p[2] THEN s * a ELSE 0
          /\ g[k] = IF ColOf(r, k) = p[2] THEN s * given'[e][r][k] ELSE 0
          /\ y = IF r \in R /\ p[2] = ColOf(r, k) THEN s * x ELSE 0
      BY DEF Hit
    <3> HIDE DEF a, s, f, g, y, x, r
    <3> QED
      BY <3>1, <3>2, <3>3, <3>4
  <2> HIDE DEF n, f, g, y
  <2>8. PrefixSum(g, n) = PrefixSum(f, n) + y
    BY <1>6, <2>1, <2>4, <2>5, <2>6, <2>7, PrefixSumUpdate
  <2> QED
    BY <2>1, <2>2, <2>8
<1>9. ASSUME NEW o \in Edge, o # e
      PROVE  GivenTo(o, p)' = GivenTo(o, p) /\ Held(o, p)' = Held(o, p)
  <2>1. GivenTo(o, p)' = GivenTo(o, p)
    BY <1>2, <1>5, <1>9 DEF GivenTo
  <2>2. Held(o, p)' = Held(o, p)
    BY <1>2, <1>3, <1>9 DEF Held, OnWire, Difference
  <2> QED
    BY <2>1, <2>2
<1> HIDE DEF y
<1>10. /\ Missing(p) \in Int
       /\ Missing(p)' = Missing(p) + y - y
            - (backend'.cells[p[1]][p[2]] - backend.cells[p[1]][p[2]])
  BY <1>2, <1>6, <1>7, <1>8, <1>9, MissingChange
<1> DEFINE b == backend.cells[p[1]][p[2]]
<1>11. b \in Int /\ backend'.cells[p[1]][p[2]] = b
  BY <1>2, DifferenceType
<1> HIDE DEF b
<1> QED
  BY <1>6, <1>10, <1>11 DEF b

(* A delta misses the change it leaves out.                                *)
LEMMA SyncMissing ==
  ASSUME Typed, Typed', NEW e \in Edge, Sync(e), NEW p \in Cell
  PROVE  /\ Missing(p) \in Int
         /\ Missing(p)' = Missing(p) + (Difference(e, p) - Sent(e, p))
<1> DEFINE y == Sent(e, p) - Difference(e, p)
           z == 0
<1>1. /\ UNCHANGED <<conf, backend, given>>
      /\ \A o \in Edge : o # e => edge'[o] = edge[o] /\ snap'[o] = snap[o]
                                    /\ wire'[o] = wire[o]
      /\ CellSum(wire'[e], p) = CellSum(wire[e], p) + Sent(e, p)
      /\ conf.sync = "window" =>
           edge'[e] = edge[e] /\ snap'[e].cells = edge[e].cells
      /\ conf.sync # "window" => edge'[e] = NewSketch /\ snap'[e] = NewSnapshot
  BY SyncEffect
<1>2. /\ Difference(e, p) \in Int /\ Sent(e, p) \in Int /\ y \in Int
      /\ edge[e].cells[p[1]][p[2]] \in Int
      /\ p[1] \in Row /\ p[2] \in Col
  BY DifferenceType DEF Cell
<1>3. Difference(e, p)' = 0
  <2>1. CASE conf.sync = "window"
    <3>1. edge'[e].cells = edge[e].cells /\ snap'[e].cells = edge[e].cells
      BY <1>1, <2>1
    <3> QED
      BY <1>2, <3>1 DEF Difference
  <2>2. CASE conf.sync # "window"
    <3>1. edge'[e].cells = NoCells /\ snap'[e].cells = NoCells
      BY <1>1, <2>2 DEF NewSketch, NewSnapshot
    <3>2. NoCells[p[1]][p[2]] = 0
      BY <1>2, ZeroTypes
    <3> QED
      BY <3>1, <3>2 DEF Difference
  <2> QED
    BY <2>1, <2>2
<1>4. Held(e, p)' = Held(e, p) + y
  <2>1. Held(e, p)' = CellSum(wire'[e], p) + 0
    BY <1>3 DEF Held, OnWire, CellSum
  <2>2. Held(e, p) = CellSum(wire[e], p) + Difference(e, p) /\ CellSum(wire[e], p) \in Int
    BY HeldType
  <2> QED
    BY <1>1, <1>2, <2>1, <2>2
<1>5. /\ Edge' = Edge
      /\ \A o \in Edge : GivenTo(o, p)' = GivenTo(o, p)
  BY <1>1 DEF GivenTo, Sign, Edge
<1>6. \A o \in Edge : o # e => Held(o, p)' = Held(o, p)
  BY <1>1 DEF Held, OnWire, Difference
<1>7. GivenTo(e, p)' = GivenTo(e, p) + z /\ z \in Int
  BY <1>5, GivenToType
<1> HIDE DEF y, z
<1>8. /\ Missing(p) \in Int
      /\ Missing(p)' = Missing(p) + z - y
           - (backend'.cells[p[1]][p[2]] - backend.cells[p[1]][p[2]])
  BY <1>1, <1>2, <1>4, <1>5, <1>6, <1>7, MissingChange
<1> DEFINE b == backend.cells[p[1]][p[2]]
<1>9. b \in Int /\ backend'.cells[p[1]][p[2]] = b
  BY <1>1, DifferenceType
<1> HIDE DEF b
<1> QED
  BY <1>2, <1>8, <1>9 DEF b, y, z

LEMMA ApplyMissing ==
  ASSUME Typed, Typed', NEW e \in Edge, ApplyDelta(e), NEW p \in Cell
  PROVE  Missing(p) \in Int /\ Missing(p)' = Missing(p)
<1> DEFINE d == CellOf(Head(wire[e]), p)
           y == 0 - d
           z == 0
           b == backend.cells[p[1]][p[2]]
           b2 == backend'.cells[p[1]][p[2]]
<1>1. /\ UNCHANGED <<conf, edge, snap, given>>
      /\ \A o \in Edge : o # e => wire'[o] = wire[o]
      /\ IsQueue(wire'[e])
      /\ d \in Int
      /\ CellSum(wire[e], p) = d + CellSum(wire'[e], p)
      /\ b2 = b + d
  BY ApplyEffect DEF IsDelta
<1>2. Difference(e, p) \in Int /\ b \in Int /\ y \in Int /\ z \in Int
  BY <1>1, DifferenceType
<1>3. CellSum(wire'[e], p) \in Int
  BY <1>1, QueueSums
<1>4. Held(e, p)' = Held(e, p) + y
  <2>1. Held(e, p)' = CellSum(wire'[e], p) + Difference(e, p)
    BY <1>1 DEF Held, OnWire, CellSum, Difference
  <2>2. Held(e, p) = CellSum(wire[e], p) + Difference(e, p)
    BY HeldType
  <2> HIDE DEF d
  <2> QED
    BY <1>1, <1>2, <1>3, <2>1, <2>2
<1>5. /\ Edge' = Edge
      /\ \A o \in Edge : GivenTo(o, p)' = GivenTo(o, p)
  BY <1>1 DEF GivenTo, Sign, Edge
<1>6. \A o \in Edge : o # e => Held(o, p)' = Held(o, p)
  BY <1>1 DEF Held, OnWire, Difference
<1>7. GivenTo(e, p)' = GivenTo(e, p) + z
  BY <1>5, GivenToType
<1> HIDE DEF y, z
<1>8. /\ Missing(p) \in Int
      /\ Missing(p)' = Missing(p) + z - y - (b2 - b)
  BY <1>1, <1>2, <1>4, <1>5, <1>6, <1>7, MissingChange
<1> HIDE DEF b, b2, d
<1> QED
  BY <1>1, <1>2, <1>8 DEF y, z

(* A change left out is smaller than the threshold.                        *)
LEMMA LeftOut ==
  ASSUME Typed, NEW e \in Edge, NEW p \in Cell
  PROVE  /\ Difference(e, p) - Sent(e, p) \in Int
         /\ conf.threshold <= 1 => Difference(e, p) - Sent(e, p) = 0
         /\ conf.threshold > 0 =>
              Abs(Difference(e, p) - Sent(e, p)) <= conf.threshold - 1
<1>1. Difference(e, p) \in Int /\ conf.threshold \in Nat
  BY DifferenceType, ConfigFields DEF Typed
<1> DEFINE x == Difference(e, p)
           t == conf.threshold
<1>2. Sent(e, p) = IF x # 0 /\ Abs(x) >= t THEN x ELSE 0
  BY DEF Sent
<1>3. Abs(x) = IF x < 0 THEN -x ELSE x
  BY DEF Abs
<1> HIDE DEF x, t
<1>4. CASE x # 0 /\ Abs(x) >= t
  <2>1. x - Sent(e, p) = 0
    BY <1>1, <1>2, <1>4 DEF x
  <2> QED
    BY <1>1, <2>1 DEF x, t, Abs
<1>5. CASE x = 0
  <2>1. x - Sent(e, p) = 0
    BY <1>1, <1>2, <1>5 DEF x
  <2> QED
    BY <1>1, <2>1 DEF x, t, Abs
<1>6. CASE x # 0 /\ ~ (Abs(x) >= t)
  <2>1. x - Sent(e, p) = x
    BY <1>1, <1>2, <1>6 DEF x
  <2>2. x \in Int /\ t \in Nat
    BY <1>1 DEF x, t
  <2>3. Abs(x) < t /\ Abs(x) > 0
    BY <1>3, <1>6, <2>2
  <2>4. Abs(x) <= t - 1 /\ ~ (t <= 1)
    BY <1>3, <2>2, <2>3
  <2> QED
    BY <2>1, <2>2, <2>4 DEF x, t
<1> QED
  BY <1>4, <1>5, <1>6

LEMMA LostType ==
  ASSUME Typed
  PROVE  Lost \in Nat
<1>1. syncs \in Nat /\ conf.threshold \in Nat
  BY ConfigFields DEF Typed
<1>2. CASE conf.sync = "gos" \/ conf.threshold = 0
  BY <1>2 DEF Lost
<1>3. CASE ~ (conf.sync = "gos" \/ conf.threshold = 0)
  <2> DEFINE t == conf.threshold - 1
  <2>1. t \in Nat /\ Lost = syncs * t
    BY <1>1, <1>3 DEF Lost
  <2> HIDE DEF t
  <2> QED
    BY <1>1, <2>1
<1> QED
  BY <1>2, <1>3

LEMMA CellsInit == Init => CellsAccounted
<1> SUFFICES ASSUME Init, NEW p \in Cell
             PROVE  Abs(Missing(p)) <= Lost
  BY AccountedIs
<1>1. Typed
  BY TypedInit
<1> DEFINE n == conf.edges
           G == [e \in Edge |-> GivenTo(e, p)]
           H == [e \in Edge |-> Held(e, p)]
<1>2. p[1] \in Row /\ p[2] \in Col
  BY DEF Cell
<1>3. n \in Nat /\ Edge = 1..n
  BY <1>1, ConfigFields DEF Typed, Edge
<1>4. ASSUME NEW e \in Edge
      PROVE  GivenTo(e, p) = 0 /\ Held(e, p) = 0
  <2>1. /\ edge[e].cells = NoCells /\ snap[e].cells = NoCells /\ wire[e] = << >>
        /\ given[e][p[1]] = NoWeight
    BY <1>2 DEF Init, NewSketch, NewSnapshot
  <2>2. Held(e, p) = 0
    <3>1. CellSum(wire[e], p) = 0
      BY <2>1, EmptyQueue
    <3>2. Difference(e, p) = 0
      BY <1>2, <2>1, ZeroTypes DEF Difference
    <3> QED
      BY <1>1, <3>1, <3>2, HeldType
  <2>3. GivenTo(e, p) = 0
    <3> DEFINE m == NumKeys
               f == [k \in Key |-> IF ColOf(p[1], k) = p[2]
                                   THEN Sign(p[1], k) * given[e][p[1]][k] ELSE 0]
    <3>1. m \in Nat /\ GivenTo(e, p) = PrefixSum(f, m)
      BY Sizes DEF GivenTo
    <3>2. \A k \in 1..m : f[k] = 0
      <4> SUFFICES ASSUME NEW k \in Key PROVE f[k] = 0
        BY DEF Key
      <4>1. Sign(p[1], k) \in Int /\ given[e][p[1]][k] = 0
        BY <1>2, <2>1, SignType DEF NoWeight
      <4>2. Sign(p[1], k) * 0 = 0
        BY <4>1
      <4> QED
        BY <4>1, <4>2
    <3> HIDE DEF m, f
    <3> QED
      BY <3>1, <3>2, PrefixSumZeros
  <2> QED
    BY <2>2, <2>3
<1>5. Missing(p) = PrefixSum(G, n) - (0 + PrefixSum(H, n))
  <2>1. backend.cells[p[1]][p[2]] = 0
    BY <1>2, ZeroTypes DEF Init
  <2> QED
    BY <2>1 DEF Missing, TrueCell
<1>6. \A i \in 1..n : G[i] = 0 /\ H[i] = 0
  BY <1>3, <1>4
<1> HIDE DEF n, G, H
<1>7. PrefixSum(G, n) = 0 /\ PrefixSum(H, n) = 0
  BY <1>3, <1>6, PrefixSumZeros
<1>8. Missing(p) = 0
  BY <1>5, <1>7
<1> QED
  BY <1>1, <1>8, LostType DEF Abs

LEMMA CellsNext ==
  ASSUME Typed, Typed', CellsAccounted, [Next]_vars
  PROVE  CellsAccounted'
<1>1. \A p \in Cell : Abs(Missing(p)) <= Lost
  BY AccountedIs
<1>2. ASSUME \A p \in Cell : Missing(p)' = Missing(p), Lost' = Lost
      PROVE  CellsAccounted'
  <2>1. \A p \in Cell : (Abs(Missing(p)) <= Lost)'
    BY <1>1, <1>2 DEF Abs
  <2> QED
    BY <2>1 DEF CellsAccounted, Missing, Lost, Held, Cell
<1>3. CASE \E e \in Edge, k \in Key, w \in Weight, R \in SUBSET Row : Update(e, k, w, R)
  <2>1. PICK e \in Edge, k \in Key, w \in Weight, R \in SUBSET Row : Update(e, k, w, R)
    BY <1>3
  <2>2. \A p \in Cell : Missing(p)' = Missing(p)
    BY <2>1, UpdateMissing
  <2>3. Lost' = Lost
    BY <2>1, UpdateCells DEF Lost
  <2> QED
    BY <1>2, <2>2, <2>3
<1>4. CASE \E e \in Edge : Sync(e)
  <2>1. PICK e \in Edge : Sync(e)
    BY <1>4
  <2>2. UNCHANGED conf /\ syncs' = syncs + 1 /\ conf.sync # "gos"
    BY <2>1, SyncEffect
  <2>3. syncs \in Nat /\ conf.threshold \in Nat /\ Lost \in Nat
    BY ConfigFields, LostType DEF Typed
  <2>4. ASSUME NEW p \in Cell
        PROVE  (Abs(Missing(p)) <= Lost)'
    <3> DEFINE m == Missing(p)
               m2 == Missing(p)'
               x == Difference(e, p) - Sent(e, p)
               t == conf.threshold - 1
               l == Lost
               l2 == Lost'
    <3>1. /\ m \in Int /\ m2 = m + x /\ x \in Int
          /\ conf.threshold <= 1 => x = 0
          /\ conf.threshold > 0 => Abs(x) <= t
      BY <2>1, SyncMissing, LeftOut
    <3>2. Abs(m) <= l
      BY <1>1
    <3>3. Abs(m2) <= l2
      <4>1. CASE conf.threshold = 0
        <5>1. l2 = l
          BY <2>2, <4>1 DEF Lost
        <5>2. x = 0
          BY <3>1, <4>1
        <5> HIDE DEF m, m2, x, t, l, l2
        <5>3. m2 = m
          BY <3>1, <5>2
        <5> QED
          BY <3>2, <5>1, <5>3
      <4>2. CASE conf.threshold # 0
        <5>1. t \in Nat /\ l = syncs * t /\ l2 = (syncs + 1) * t
          BY <2>2, <2>3, <4>2 DEF Lost
        <5>2. Abs(x) <= t
          BY <2>3, <3>1, <4>2
        <5> HIDE DEF m, m2, x, t, l, l2
        <5>3. l2 = l + t /\ l \in Nat
          BY <2>3, <5>1
        <5> QED
          BY <3>1, <3>2, <5>1, <5>2, <5>3 DEF Abs
      <4> QED
        BY <4>1, <4>2
    <3> QED
      BY <3>3 DEF Abs
  <2> QED
    BY <2>4 DEF CellsAccounted, Missing, Lost, Held, Cell
<1>5. CASE \E e \in Edge : ApplyDelta(e)
  <2>1. PICK e \in Edge : ApplyDelta(e)
    BY <1>5
  <2>2. \A p \in Cell : Missing(p)' = Missing(p)
    BY <2>1, ApplyMissing
  <2>3. Lost' = Lost
    BY <2>1, ApplyEffect DEF Lost
  <2> QED
    BY <1>2, <2>2, <2>3
<1>6. CASE UNCHANGED vars
  <2>1. UNCHANGED <<conf, edge, snap, wire, given, backend, syncs>>
    BY <1>6 DEF vars
  <2>2. \A p \in Cell : Missing(p)' = Missing(p)
    BY <2>1, MissingSame
  <2>3. Lost' = Lost
    BY <2>1 DEF Lost
  <2> QED
    BY <1>2, <2>2, <2>3
<1> QED
  BY <1>3, <1>4, <1>5, <1>6 DEF Next

(* Every cell is accounted for: what was given to it, minus what is at the *)
(* backend, on the wire and unsent, is less than the threshold per delta,  *)
(* and nothing with insert-time reporting or without a threshold.          *)
THEOREM NothingIsMissing == Spec => []CellsAccounted
<1>1. Init => Typed /\ CellsAccounted
  BY TypedInit, CellsInit
<1>2. Typed /\ CellsAccounted /\ [Next]_vars => (Typed /\ CellsAccounted)'
  <2> SUFFICES ASSUME Typed, CellsAccounted, [Next]_vars
               PROVE  Typed' /\ CellsAccounted'
    OBVIOUS
  <2>1. Typed'
    BY TypedNext
  <2> QED
    BY <2>1, CellsNext
<1> QED
  BY <1>1, <1>2, PTL DEF Spec

-----------------------------------------------------------------------------
(* Norms *)

Cost(v) == IF conf.sketch = "cms" THEN v ELSE v * v

LEMMA CostType ==
  ASSUME NEW v \in Int
  PROVE  Cost(v) \in Int
<1>1. v * v \in Int
  OBVIOUS
<1> QED
  BY <1>1 DEF Cost

LEMMA NormOfIs ==
  ASSUME NEW row
  PROVE  NormOf(row) = PrefixSum([c \in 1..NumCols |-> Cost(row[c])], NumCols)
BY DEF NormOf, Cost, Col

LEMMA NormOfZeros ==
  ASSUME NEW row, \A c \in Col : row[c] = 0
  PROVE  NormOf(row) = 0
<1> DEFINE n == NumCols
           f == [c \in 1..n |-> Cost(row[c])]
<1>1. n \in Nat /\ NormOf(row) = PrefixSum(f, n)
  BY Sizes, NormOfIs
<1>2. \A c \in 1..n : f[c] = 0
  BY DEF Cost, Col
<1> HIDE DEF n, f
<1> QED
  BY <1>1, <1>2, PrefixSumZeros

LEMMA NormOfSame ==
  ASSUME NEW row, NEW row2, \A c \in Col : row2[c] = row[c]
  PROVE  NormOf(row2) = NormOf(row)
<1> DEFINE n == NumCols
           f == [c \in 1..n |-> Cost(row[c])]
           g == [c \in 1..n |-> Cost(row2[c])]
<1>1. n \in Nat /\ NormOf(row) = PrefixSum(f, n) /\ NormOf(row2) = PrefixSum(g, n)
  BY Sizes, NormOfIs
<1>2. \A c \in 1..n : g[c] = f[c]
  BY DEF Col
<1> HIDE DEF n, f, g
<1> QED
  BY <1>1, <1>2, PrefixSumExt

(* One cell of a row changes.                                              *)
LEMMA NormOfChange ==
  ASSUME NEW row, NEW row2, \A c \in Col : row[c] \in Int,
         NEW b \in Col, row2[b] \in Int,
         \A c \in Col : c # b => row2[c] = row[c]
  PROVE  NormOf(row2) = NormOf(row) + (Cost(row2[b]) - Cost(row[b]))
<1> DEFINE n == NumCols
           f == [c \in 1..n |-> Cost(row[c])]
           g == [c \in 1..n |-> Cost(row2[c])]
           d == Cost(row2[b]) - Cost(row[b])
<1>1. n \in Nat /\ NormOf(row) = PrefixSum(f, n) /\ NormOf(row2) = PrefixSum(g, n)
  BY Sizes, NormOfIs
<1>2. /\ b \in 1..n /\ \A c \in 1..n : f[c] \in Int
      /\ \A c \in 1..n : c # b => g[c] = f[c]
  BY CostType DEF Col
<1>3. Cost(row2[b]) \in Int /\ Cost(row[b]) \in Int
  BY CostType
<1>4. d \in Int /\ g[b] = f[b] + d
  <2>1. g[b] = Cost(row2[b]) /\ f[b] = Cost(row[b])
    BY <1>2
  <2> HIDE DEF f, g
  <2> QED
    BY <1>3, <2>1
<1> HIDE DEF n, f, g, d
<1>5. PrefixSum(g, n) = PrefixSum(f, n) + d
  BY <1>1, <1>2, <1>4, PrefixSumUpdate
<1> QED
  BY <1>1, <1>5 DEF d

(* The new norm differs from the old one by what the cell's share does.    *)
LEMMA NormAfterIs ==
  ASSUME NEW a \in Int, NEW prev \in Int, NEW curr \in Int
  PROVE  NormAfter(a, prev, curr) = a + (Cost(CellAfter(curr)) - Cost(prev))
<1>1. prev * prev \in Int /\ curr * curr \in Int /\ 0 * 0 = 0
  OBVIOUS
<1>2. CASE conf.sketch = "cms"
  <2>1. CASE Crosses(curr)
    BY <1>2, <2>1 DEF NormAfter, CellAfter, Cost
  <2>2. CASE ~ Crosses(curr)
    BY <1>2, <2>2 DEF NormAfter, CellAfter, Cost
  <2> QED
    BY <2>1, <2>2
<1>3. CASE conf.sketch # "cms"
  <2> DEFINE u == prev * prev
             v == curr * curr
  <2>1. NormAfter(a, prev, curr) = IF Crosses(curr) THEN (a + (v - u)) - v ELSE a + (v - u)
    BY <1>3 DEF NormAfter
  <2>2. Cost(CellAfter(curr)) - Cost(prev) = IF Crosses(curr) THEN 0 - u ELSE v - u
    BY <1>1, <1>3 DEF CellAfter, Cost
  <2>3. u \in Int /\ v \in Int
    BY <1>1
  <2> HIDE DEF u, v
  <2>4. CASE Crosses(curr)
    <3>1. NormAfter(a, prev, curr) = (a + (v - u)) - v
      BY <2>1, <2>4
    <3>2. Cost(CellAfter(curr)) - Cost(prev) = 0 - u
      BY <2>2, <2>4
    <3> QED
      BY <2>3, <3>1, <3>2
  <2>5. CASE ~ Crosses(curr)
    BY <2>1, <2>2, <2>3, <2>5
  <2> QED
    BY <2>4, <2>5
<1> QED
  BY <1>2, <1>3

LiveNorms == \A e \in Edge, r \in Row : edge[e].norm[r] = NormOf(edge[e].cells[r])
SnapNorms == \A e \in Edge, r \in Row : snap[e].norm[r] = NormOf(snap[e].cells[r])

LEMMA UpdateNorms ==
  ASSUME Typed, LiveNorms, SnapNorms,
         NEW e \in Edge, NEW k \in Key, NEW w \in Weight, NEW R \in SUBSET Row,
         Update(e, k, w, R)
  PROVE  LiveNorms' /\ SnapNorms'
<1> DEFINE x == w * conf.scale
<1>1. /\ x \in Int /\ UNCHANGED <<conf, snap>>
      /\ \A o \in Edge : o # e => edge'[o] = edge[o]
      /\ edge'[e].cells \in Matrix
      /\ \A r \in Row, c \in Col :
           edge'[e].cells[r][c] =
             IF r \in R /\ c = ColOf(r, k)
             THEN CellAfter(Current(edge[e], r, k, x))
             ELSE edge[e].cells[r][c]
      /\ \A r \in Row :
           edge'[e].norm[r] =
             IF r \in R
             THEN NormAfter(edge[e].norm[r], edge[e].cells[r][ColOf(r, k)],
                            Current(edge[e], r, k, x))
             ELSE edge[e].norm[r]
  BY UpdateCells
<1>2. Edge' = Edge /\ \A row : NormOf(row)' = NormOf(row)
  BY <1>1 DEF Edge, NormOf
<1>3. ASSUME NEW r \in Row
      PROVE  edge'[e].norm[r] = NormOf(edge'[e].cells[r])
  <2> DEFINE row == edge[e].cells[r]
             row2 == edge'[e].cells[r]
             b == ColOf(r, k)
             v == Current(edge[e], r, k, x)
             a == edge[e].norm[r]
  <2>1. /\ v \in Int /\ row[b] \in Int /\ a \in Int /\ b \in Col
        /\ \A c \in Col : row[c] \in Int /\ row2[c] \in Int
        /\ a = NormOf(row)
    <3>1. v \in Int /\ row[b] \in Int /\ a \in Int
      BY <1>1, ValueType
    <3>2. b \in Col /\ a = NormOf(row)
      BY Sizes DEF LiveNorms
    <3>3. \A c \in Col : row[c] \in Int
      BY DEF Typed, EdgeTyped, Matrix
    <3>4. \A c \in Col : row2[c] \in Int
      BY <1>1 DEF Matrix
    <3> HIDE DEF row, row2, b, v, a
    <3> QED
      BY <3>1, <3>2, <3>3, <3>4
  <2>2. CASE r \in R
    <3>1. /\ \A c \in Col : c # b => row2[c] = row[c]
          /\ row2[b] = CellAfter(v)
          /\ edge'[e].norm[r] = NormAfter(a, row[b], v)
      BY <1>1, <2>1, <2>2
    <3> HIDE DEF row, row2, b, v, a
    <3>2. NormOf(row2) = NormOf(row) + (Cost(row2[b]) - Cost(row[b]))
      BY <2>1, <3>1, NormOfChange
    <3>3. NormAfter(a, row[b], v) = a + (Cost(CellAfter(v)) - Cost(row[b]))
      BY <2>1, NormAfterIs
    <3> QED
      BY <2>1, <3>1, <3>2, <3>3 DEF row2
  <2>3. CASE r \notin R
    <3>1. edge'[e].norm[r] = a /\ \A c \in Col : row2[c] = row[c]
      BY <1>1, <2>3
    <3> HIDE DEF row, row2, a
    <3>2. NormOf(row2) = NormOf(row)
      BY <3>1, NormOfSame
    <3> QED
      BY <2>1, <3>1, <3>2 DEF row2
  <2> QED
    BY <2>2, <2>3
<1>4. LiveNorms'
  <2>1. \A o \in Edge, r \in Row : edge'[o].norm[r] = NormOf(edge'[o].cells[r])
    <3> SUFFICES ASSUME NEW o \in Edge, NEW r \in Row
                 PROVE  edge'[o].norm[r] = NormOf(edge'[o].cells[r])
      OBVIOUS
    <3>1. CASE o = e
      BY <1>3, <3>1
    <3>2. CASE o # e
      BY <1>1, <3>2 DEF LiveNorms
    <3> QED
      BY <3>1, <3>2
  <2> QED
    BY <1>1, <1>2, <2>1 DEF LiveNorms, NormOf
<1>5. SnapNorms'
  BY <1>1, <1>2 DEF SnapNorms, NormOf
<1> QED
  BY <1>4, <1>5

LEMMA SyncNorms ==
  ASSUME Typed, LiveNorms, SnapNorms, NEW e \in Edge, Sync(e)
  PROVE  LiveNorms' /\ SnapNorms'
<1>1. /\ UNCHANGED conf
      /\ \A o \in Edge : o # e => edge'[o] = edge[o] /\ snap'[o] = snap[o]
      /\ conf.sync = "window" =>
           /\ edge'[e] = edge[e]
           /\ snap'[e].cells = edge[e].cells /\ snap'[e].norm = edge[e].norm
      /\ conf.sync # "window" => edge'[e] = NewSketch /\ snap'[e] = NewSnapshot
  BY SyncEffect
<1>2. Edge' = Edge
  BY <1>1 DEF Edge
<1>3. \A r \in Row : NoNorm[r] = NormOf(NoCells[r])
  BY NormOfZeros, ZeroTypes
<1>4. ASSUME NEW r \in Row
      PROVE  /\ edge'[e].norm[r] = NormOf(edge'[e].cells[r])
             /\ snap'[e].norm[r] = NormOf(snap'[e].cells[r])
  <2>1. CASE conf.sync = "window"
    BY <1>1, <2>1 DEF LiveNorms
  <2>2. CASE conf.sync # "window"
    BY <1>1, <1>3, <2>2 DEF NewSketch, NewSnapshot
  <2> QED
    BY <2>1, <2>2
<1>5. ASSUME NEW o \in Edge, NEW r \in Row
      PROVE  /\ edge'[o].norm[r] = NormOf(edge'[o].cells[r])
             /\ snap'[o].norm[r] = NormOf(snap'[o].cells[r])
  <2>1. CASE o = e
    BY <1>4, <2>1
  <2>2. CASE o # e
    BY <1>1, <2>2 DEF LiveNorms, SnapNorms
  <2> QED
    BY <2>1, <2>2
<1>6. LiveNorms'
  <2>1. \A o \in Edge, r \in Row : edge'[o].norm[r] = NormOf(edge'[o].cells[r])
    BY <1>5
  <2> QED
    BY <1>1, <1>2, <2>1 DEF LiveNorms, NormOf
<1>7. SnapNorms'
  <2>1. \A o \in Edge, r \in Row : snap'[o].norm[r] = NormOf(snap'[o].cells[r])
    BY <1>5
  <2> QED
    BY <1>1, <1>2, <2>1 DEF SnapNorms, NormOf
<1> QED
  BY <1>6, <1>7

LEMMA OtherNorms ==
  ASSUME LiveNorms, SnapNorms, UNCHANGED <<conf, edge, snap>>
  PROVE  LiveNorms' /\ SnapNorms'
BY DEF LiveNorms, SnapNorms, NormOf, Edge

(* The L1 of a Count-Min row that an edge has not yet given the backend,   *)
(* and what the edges were given altogether.                               *)
HeldNorm(e, r) == NormOnWire(e, r) + edge[e].norm[r] - snap[e].norm[r]

AllHeld(r) == PrefixSum([e \in Edge |-> HeldNorm(e, r)], conf.edges)
AllGiven(r) == PrefixSum([e \in Edge |-> GivenIn(e, r)], conf.edges)

NormBooks == \A r \in Row : backend.norm[r] + AllHeld(r) = AllGiven(r)

LEMMA HeldNormType ==
  ASSUME Typed, NEW e \in Edge, NEW r \in Row
  PROVE  /\ HeldNorm(e, r) \in Int /\ NormSum(wire[e], r) \in Int
         /\ HeldNorm(e, r) = NormSum(wire[e], r) + (edge[e].norm[r] - snap[e].norm[r])
<1>1. NormSum(wire[e], r) \in Int
  BY QueueSums DEF Typed, EdgeTyped
<1>2. edge[e].norm[r] \in Int /\ snap[e].norm[r] \in Int
  BY NormTypes
<1>3. HeldNorm(e, r) = NormSum(wire[e], r) + edge[e].norm[r] - snap[e].norm[r]
  BY DEF HeldNorm, NormOnWire, NormSum
<1> QED
  BY <1>1, <1>2, <1>3

LEMMA GivenInType ==
  ASSUME Typed, NEW e \in Edge, NEW r \in Row
  PROVE  GivenIn(e, r) \in Int
<1> DEFINE n == NumKeys
           f == given[e][r]
<1>1. n \in Nat /\ \A k \in 1..n : f[k] \in Int
  BY Sizes DEF Typed, EdgeTyped, Key
<1>2. GivenIn(e, r) = PrefixSum(f, n)
  BY DEF GivenIn
<1> HIDE DEF n, f
<1> QED
  BY <1>1, <1>2, PrefixSumType

(* One edge is given x more and holds y more of a row's L1.                *)
LEMMA NormBooksChange ==
  ASSUME Typed, Typed', UNCHANGED conf, NEW e \in Edge, NEW r \in Row,
         NEW x \in Int, NEW y \in Int,
         GivenIn(e, r)' = GivenIn(e, r) + x,
         HeldNorm(e, r)' = HeldNorm(e, r) + y,
         \A o \in Edge : o # e => GivenIn(o, r)' = GivenIn(o, r)
                                    /\ HeldNorm(o, r)' = HeldNorm(o, r),
         backend'.norm[r] + y = backend.norm[r] + x,
         backend.norm[r] + AllHeld(r) = AllGiven(r)
  PROVE  (backend.norm[r] + AllHeld(r) = AllGiven(r))'
<1> DEFINE n == conf.edges
           G == [o \in Edge |-> GivenIn(o, r)]
           H == [o \in Edge |-> HeldNorm(o, r)]
           G2 == [o \in Edge |-> GivenIn(o, r)']
           H2 == [o \in Edge |-> HeldNorm(o, r)']
           b == backend.norm[r]
           b2 == backend'.norm[r]
<1>1. n \in Nat /\ e \in 1..n /\ Edge = 1..n /\ Edge' = Edge
  BY ConfigFields DEF Edge, Typed
<1>2. b \in Int /\ b2 \in Int /\ b2 + y = b + x
  BY DEF Typed, Norms
<1>3. \A i \in 1..n : G[i] \in Int /\ H[i] \in Int
  BY <1>1, GivenInType, HeldNormType
<1>4. /\ G2[e] = G[e] + x /\ H2[e] = H[e] + y
      /\ \A i \in 1..n : i # e => G2[i] = G[i] /\ H2[i] = H[i]
  BY <1>1
<1>5. /\ AllHeld(r) = PrefixSum(H, n) /\ AllGiven(r) = PrefixSum(G, n)
      /\ AllHeld(r)' = PrefixSum(H2, n) /\ AllGiven(r)' = PrefixSum(G2, n)
  BY <1>1 DEF AllHeld, AllGiven
<1>6. b + PrefixSum(H, n) = PrefixSum(G, n)
  BY <1>5
<1> HIDE DEF n, G, H, G2, H2, b, b2
<1>7. PrefixSum(G2, n) = PrefixSum(G, n) + x
  BY <1>1, <1>3, <1>4, PrefixSumUpdate
<1>8. PrefixSum(H2, n) = PrefixSum(H, n) + y
  BY <1>1, <1>3, <1>4, PrefixSumUpdate
<1>9. PrefixSum(G, n) \in Int /\ PrefixSum(H, n) \in Int
  BY <1>1, <1>3, PrefixSumType
<1>10. b2 + PrefixSum(H2, n) = PrefixSum(G2, n)
  BY <1>2, <1>6, <1>7, <1>8, <1>9
<1> QED
  BY <1>5, <1>10 DEF b2

LEMMA UpdateBooks ==
  ASSUME Typed, Typed', conf.sketch = "cms", conf.sync # "gos", NormBooks,
         NEW e \in Edge, NEW k \in Key, NEW w \in Weight, NEW R \in SUBSET Row,
         Update(e, k, w, R)
  PROVE  NormBooks'
<1> SUFFICES ASSUME NEW r \in Row
             PROVE  (backend.norm[r] + AllHeld(r) = AllGiven(r))'
  BY DEF NormBooks
<1> DEFINE x == w * conf.scale
           v == Current(edge[e], r, k, x)
           prev == edge[e].cells[r][ColOf(r, k)]
           y == IF r \in R THEN x ELSE 0
           b == backend.norm[r]
<1>1. /\ x \in Int /\ UNCHANGED <<conf, snap, backend>>
      /\ \A o \in Edge : o # e => edge'[o] = edge[o] /\ given'[o] = given[o]
      /\ edge'[e].norm[r] =
           IF r \in R THEN NormAfter(edge[e].norm[r], prev, v) ELSE edge[e].norm[r]
      /\ \A j \in Key : given'[e][r][j] = given[e][r][j] + (IF r \in R /\ j = k THEN x ELSE 0)
  BY UpdateCells
<1>2. /\ \A o \in Edge : o # e => wire'[o] = wire[o]
      /\ NormSum(wire'[e], r) = NormSum(wire[e], r)
  BY UpdateWire
<1>3. /\ v \in Int /\ prev \in Int /\ edge[e].norm[r] \in Int /\ snap[e].norm[r] \in Int
      /\ v = prev + Sign(r, k) * x /\ Sign(r, k) = 1
      /\ b \in Int
  BY <1>1, ValueType, NormTypes, SignType
<1>4. v = prev + x /\ y \in Int
  <2>1. 1 * x = x
    BY <1>1
  <2> QED
    BY <1>1, <1>3, <2>1
<1>5. NormAfter(edge[e].norm[r], prev, v) = edge[e].norm[r] + x
  <2>1. ~ Crosses(v)
    BY DEF Crosses
  <2> DEFINE a == edge[e].norm[r]
  <2>2. NormAfter(a, prev, v) = a + (v - prev)
    BY <2>1 DEF NormAfter
  <2> HIDE DEF v, prev, x
  <2> QED
    BY <1>1, <1>3, <1>4, <2>2
<1>6. HeldNorm(e, r)' = HeldNorm(e, r) + y
  <2> DEFINE a == edge[e].norm[r]
             a2 == edge'[e].norm[r]
             s == snap[e].norm[r]
             q == NormSum(wire[e], r)
  <2>1. a2 = a + y
    BY <1>1, <1>3, <1>5
  <2>2. HeldNorm(e, r) = q + (a - s) /\ q \in Int
    BY HeldNormType
  <2>3. HeldNorm(e, r)' = q + a2 - s
    BY <1>1, <1>2 DEF HeldNorm, NormOnWire, NormSum
  <2>4. a \in Int /\ s \in Int
    BY <1>3
  <2> HIDE DEF a, a2, s, q, y
  <2> QED
    BY <1>4, <2>1, <2>2, <2>3, <2>4
<1>7. GivenIn(e, r)' = GivenIn(e, r) + y
  <2> DEFINE n == NumKeys
             f == given[e][r]
             g == given'[e][r]
  <2>1. n \in Nat /\ \A j \in 1..n : f[j] \in Int
    BY Sizes DEF Typed, EdgeTyped, Key
  <2>2. k \in 1..n
    BY DEF Key
  <2>3. g[k] = f[k] + y
    BY <1>1
  <2>4. \A j \in 1..n : j # k => g[j] = f[j]
    <3> SUFFICES ASSUME NEW j \in 1..n, j # k PROVE g[j] = f[j]
      OBVIOUS
    <3>1. g[j] = f[j] + 0
      BY <1>1 DEF Key
    <3> QED
      BY <2>1, <3>1
  <2>5. GivenIn(e, r) = PrefixSum(f, n) /\ GivenIn(e, r)' = PrefixSum(g, n)
    BY DEF GivenIn
  <2> HIDE DEF n, f, g, y
  <2>6. PrefixSum(g, n) = PrefixSum(f, n) + y
    BY <1>4, <2>1, <2>2, <2>3, <2>4, PrefixSumUpdate
  <2> QED
    BY <2>5, <2>6
<1>8. ASSUME NEW o \in Edge, o # e
      PROVE  GivenIn(o, r)' = GivenIn(o, r) /\ HeldNorm(o, r)' = HeldNorm(o, r)
  <2>1. GivenIn(o, r)' = GivenIn(o, r)
    BY <1>1, <1>8 DEF GivenIn
  <2>2. HeldNorm(o, r)' = HeldNorm(o, r)
    BY <1>1, <1>2, <1>8 DEF HeldNorm, NormOnWire
  <2> QED
    BY <2>1, <2>2
<1>9. backend'.norm[r] + y = b + y
  BY <1>1
<1>10. b + AllHeld(r) = AllGiven(r)
  BY DEF NormBooks
<1> HIDE DEF y
<1> QED
  BY <1>1, <1>4, <1>6, <1>7, <1>8, <1>9, <1>10, NormBooksChange

LEMMA SyncBooks ==
  ASSUME Typed, Typed', NormBooks, NEW e \in Edge, Sync(e)
  PROVE  NormBooks'
<1> SUFFICES ASSUME NEW r \in Row
             PROVE  (backend.norm[r] + AllHeld(r) = AllGiven(r))'
  BY DEF NormBooks
<1> DEFINE z == 0
           b == backend.norm[r]
<1>1. /\ UNCHANGED <<conf, backend, given>>
      /\ \A o \in Edge : o # e => edge'[o] = edge[o] /\ snap'[o] = snap[o]
                                    /\ wire'[o] = wire[o]
      /\ NormSum(wire'[e], r) = NormSum(wire[e], r) + (edge[e].norm[r] - snap[e].norm[r])
      /\ conf.sync = "window" => edge'[e] = edge[e] /\ snap'[e].norm = edge[e].norm
      /\ conf.sync # "window" => edge'[e] = NewSketch /\ snap'[e] = NewSnapshot
  BY SyncEffect
<1>2. edge'[e].norm[r] = snap'[e].norm[r] /\ edge'[e].norm[r] \in Int
  <2>1. edge[e].norm[r] \in Int
    BY NormTypes
  <2>2. CASE conf.sync = "window"
    BY <1>1, <2>1, <2>2
  <2>3. CASE conf.sync # "window"
    BY <1>1, <2>3, ZeroTypes DEF NewSketch, NewSnapshot
  <2> QED
    BY <2>2, <2>3
<1>3. HeldNorm(e, r)' = HeldNorm(e, r) + z
  <2> DEFINE h == HeldNorm(e, r)
             u == edge'[e].norm[r]
  <2>1. h = NormSum(wire[e], r) + (edge[e].norm[r] - snap[e].norm[r]) /\ h \in Int
    BY HeldNormType
  <2>2. HeldNorm(e, r)' = NormSum(wire'[e], r) + edge'[e].norm[r] - snap'[e].norm[r]
    BY DEF HeldNorm, NormOnWire, NormSum
  <2>3. HeldNorm(e, r)' = h + u - u
    BY <1>1, <1>2, <2>1, <2>2
  <2> HIDE DEF h, u
  <2>4. HeldNorm(e, r)' = h
    BY <1>2, <2>1, <2>3 DEF u
  <2> QED
    BY <2>1, <2>4 DEF h
<1>4. GivenIn(e, r)' = GivenIn(e, r) + z
  BY <1>1, GivenInType DEF GivenIn
<1>5. ASSUME NEW o \in Edge, o # e
      PROVE  GivenIn(o, r)' = GivenIn(o, r) /\ HeldNorm(o, r)' = HeldNorm(o, r)
  BY <1>1, <1>5 DEF GivenIn, HeldNorm, NormOnWire
<1>6. backend'.norm[r] + z = b + z /\ z \in Int
  BY <1>1
<1>7. b + AllHeld(r) = AllGiven(r)
  BY DEF NormBooks
<1> HIDE DEF z
<1> QED
  BY <1>1, <1>3, <1>4, <1>5, <1>6, <1>7, NormBooksChange

LEMMA ApplyBooks ==
  ASSUME Typed, Typed', NormBooks, NEW e \in Edge, ApplyDelta(e)
  PROVE  NormBooks'
<1> SUFFICES ASSUME NEW r \in Row
             PROVE  (backend.norm[r] + AllHeld(r) = AllGiven(r))'
  BY DEF NormBooks
<1> DEFINE z == 0
           d == Head(wire[e]).norm[r]
           y == 0 - d
           b == backend.norm[r]
<1>1. /\ UNCHANGED <<conf, edge, snap, given>>
      /\ \A o \in Edge : o # e => wire'[o] = wire[o]
      /\ IsQueue(wire'[e])
      /\ d \in Int
      /\ NormSum(wire[e], r) = d + NormSum(wire'[e], r)
      /\ backend'.norm[r] = b + d
  BY ApplyEffect DEF IsDelta
<1>2. /\ NormSum(wire'[e], r) \in Int /\ b \in Int /\ y \in Int
      /\ edge[e].norm[r] \in Int /\ snap[e].norm[r] \in Int
  BY <1>1, QueueSums, NormTypes
<1>3. HeldNorm(e, r)' = HeldNorm(e, r) + y
  <2> DEFINE q == NormSum(wire'[e], r)
             u == edge[e].norm[r]
             s == snap[e].norm[r]
  <2>1. HeldNorm(e, r)' = q + u - s
    BY <1>1 DEF HeldNorm, NormOnWire, NormSum
  <2>2. HeldNorm(e, r) = (d + q) + (u - s)
    BY <1>1, HeldNormType
  <2>3. q \in Int /\ u \in Int /\ s \in Int /\ d \in Int
    BY <1>1, <1>2
  <2> HIDE DEF q, u, s, d
  <2> QED
    BY <2>1, <2>2, <2>3
<1>4. GivenIn(e, r)' = GivenIn(e, r) + z
  BY <1>1, GivenInType DEF GivenIn
<1>5. ASSUME NEW o \in Edge, o # e
      PROVE  GivenIn(o, r)' = GivenIn(o, r) /\ HeldNorm(o, r)' = HeldNorm(o, r)
  BY <1>1, <1>5 DEF GivenIn, HeldNorm, NormOnWire
<1>6. backend'.norm[r] + y = b + z /\ z \in Int
  <2>1. (b + d) + (0 - d) = b + 0
    BY <1>1, <1>2
  <2> QED
    BY <1>1, <2>1
<1>7. b + AllHeld(r) = AllGiven(r)
  BY DEF NormBooks
<1> HIDE DEF z, y
<1> QED
  BY <1>1, <1>2, <1>3, <1>4, <1>5, <1>6, <1>7, NormBooksChange

LEMMA BooksInit ==
  ASSUME Init
  PROVE  LiveNorms /\ SnapNorms /\ NormBooks
<1>1. Typed
  BY TypedInit
<1>2. \A r \in Row : NoNorm[r] = NormOf(NoCells[r])
  BY NormOfZeros, ZeroTypes
<1>3. /\ \A e \in Edge : /\ edge[e] = NewSketch /\ snap[e] = NewSnapshot
                         /\ wire[e] = << >>
                         /\ \A r \in Row : given[e][r] = NoWeight
      /\ \A r \in Row : backend.norm[r] = 0
  BY ZeroTypes DEF Init
<1>4. LiveNorms /\ SnapNorms
  BY <1>2, <1>3 DEF LiveNorms, SnapNorms, NewSketch, NewSnapshot
<1>5. ASSUME NEW r \in Row
      PROVE  backend.norm[r] + AllHeld(r) = AllGiven(r)
  <2> DEFINE n == conf.edges
             G == [e \in Edge |-> GivenIn(e, r)]
             H == [e \in Edge |-> HeldNorm(e, r)]
  <2>1. n \in Nat /\ Edge = 1..n
    BY <1>1, ConfigFields DEF Typed, Edge
  <2>2. ASSUME NEW e \in Edge
        PROVE  GivenIn(e, r) = 0 /\ HeldNorm(e, r) = 0
    <3>1. HeldNorm(e, r) = 0
      <4>1. NormSum(wire[e], r) = 0
        BY <1>3, EmptyQueue
      <4>2. edge[e].norm[r] = 0 /\ snap[e].norm[r] = 0
        BY <1>3, ZeroTypes DEF NewSketch, NewSnapshot
      <4> QED
        BY <1>1, <4>1, <4>2, HeldNormType
    <3>2. GivenIn(e, r) = 0
      <4> DEFINE m == NumKeys
                 f == given[e][r]
      <4>1. m \in Nat /\ GivenIn(e, r) = PrefixSum(f, m)
        BY Sizes DEF GivenIn
      <4>2. \A k \in 1..m : f[k] = 0
        <5>1. f = [k \in 1..m |-> 0]
          BY <1>3 DEF NoWeight, Key
        <5> HIDE DEF f, m
        <5> QED
          BY <5>1
      <4> HIDE DEF m, f
      <4> QED
        BY <4>1, <4>2, PrefixSumZeros
    <3> QED
      BY <3>1, <3>2
  <2>3. \A i \in 1..n : G[i] = 0 /\ H[i] = 0
    BY <2>1, <2>2
  <2>4. AllHeld(r) = PrefixSum(H, n) /\ AllGiven(r) = PrefixSum(G, n)
    BY DEF AllHeld, AllGiven
  <2> HIDE DEF n, G, H
  <2>5. PrefixSum(G, n) = 0 /\ PrefixSum(H, n) = 0
    BY <2>1, <2>3, PrefixSumZeros
  <2> QED
    BY <1>3, <2>4, <2>5
<1> QED
  BY <1>4, <1>5 DEF NormBooks

LEMMA ConfKept == [Next]_vars => UNCHANGED conf
<1>1. \A e \in Edge, k \in Key, w \in Weight, R \in SUBSET Row :
        Update(e, k, w, R) => UNCHANGED conf
  BY DEF Update
<1>2. \A e \in Edge : Sync(e) => UNCHANGED conf
  BY DEF Sync
<1>3. \A e \in Edge : ApplyDelta(e) => UNCHANGED conf
  BY DEF ApplyDelta
<1>4. UNCHANGED vars => UNCHANGED conf
  BY DEF vars
<1> QED
  BY <1>1, <1>2, <1>3, <1>4 DEF Next

(* A backend that follows the snapshots of one edge, which leave nothing   *)
(* out, lacks the deltas on the wire and nothing else.                     *)
Following == conf.sync = "window" /\ conf.edges = 1 /\ conf.threshold <= 1

Follows ==
  Following =>
    /\ \A p \in Cell :
         backend.cells[p[1]][p[2]] + CellSum(wire[1], p) = snap[1].cells[p[1]][p[2]]
    /\ \A r \in Row : backend.norm[r] + NormSum(wire[1], r) = snap[1].norm[r]

LEMMA FollowsInit == Init => Follows
<1> SUFFICES ASSUME Init, Following
             PROVE  /\ \A p \in Cell : backend.cells[p[1]][p[2]] + CellSum(wire[1], p)
                                         = snap[1].cells[p[1]][p[2]]
                    /\ \A r \in Row : backend.norm[r] + NormSum(wire[1], r) = snap[1].norm[r]
  BY DEF Follows
<1>1. 1 \in Edge
  BY DEF Following, Edge
<1>2. /\ wire[1] = << >> /\ snap[1] = NewSnapshot
      /\ backend.cells = NoCells /\ backend.norm = NoNorm
  BY <1>1 DEF Init
<1> QED
  BY <1>2, ZeroTypes, EmptyQueue DEF NewSnapshot, Cell

LEMMA FollowsNext ==
  ASSUME Typed, Follows, [Next]_vars
  PROVE  Follows'
<1>1. UNCHANGED conf
  BY ConfKept
<1> SUFFICES ASSUME Following
             PROVE  /\ \A p \in Cell :
                         backend'.cells[p[1]][p[2]] + CellSum(wire'[1], p)
                           = snap'[1].cells[p[1]][p[2]]
                    /\ \A r \in Row :
                         backend'.norm[r] + NormSum(wire'[1], r) = snap'[1].norm[r]
  <2>1. Following' = Following
    BY <1>1 DEF Following
  <2> QED
    BY <2>1 DEF Follows, CellSum, NormSum
<1>2. Edge = {1} /\ conf.sync = "window" /\ conf.threshold <= 1
  BY DEF Following, Edge
<1>3. /\ \A p \in Cell :
           backend.cells[p[1]][p[2]] + CellSum(wire[1], p) = snap[1].cells[p[1]][p[2]]
      /\ \A r \in Row : backend.norm[r] + NormSum(wire[1], r) = snap[1].norm[r]
  BY DEF Follows
<1>4. /\ \A p \in Cell : CellSum(wire[1], p) \in Int
      /\ \A r \in Row : NormSum(wire[1], r) \in Int
  BY <1>2, QueueSums DEF Typed, EdgeTyped
<1>5. CASE \E e \in Edge, k \in Key, w \in Weight, R \in SUBSET Row : Update(e, k, w, R)
  <2>1. PICK k \in Key, w \in Weight, R \in SUBSET Row : Update(1, k, w, R)
    BY <1>2, <1>5
  <2>2. UNCHANGED <<snap, backend>>
    BY <1>2, <2>1, UpdateCells
  <2>3. wire'[1] = wire[1]
    <3> DEFINE curr == [r \in R |-> Current(edge[1], r, k, w * conf.scale)]
    <3>1. {r \in R : Crosses(curr[r])} = {}
      BY <1>2 DEF Crosses
    <3>2. wire' = wire
      BY <2>1, <3>1 DEF Update
    <3> QED
      BY <3>2
  <2> QED
    BY <1>3, <2>2, <2>3
<1>6. CASE \E e \in Edge : Sync(e)
  <2>1. Sync(1) /\ 1 \in Edge
    BY <1>2, <1>6
  <2>2. /\ UNCHANGED backend
        /\ snap'[1].cells = edge[1].cells /\ snap'[1].norm = edge[1].norm
        /\ \A p \in Cell : CellSum(wire'[1], p) = CellSum(wire[1], p) + Sent(1, p)
        /\ \A r \in Row : NormSum(wire'[1], r) =
             NormSum(wire[1], r) + (edge[1].norm[r] - snap[1].norm[r])
    BY <1>2, <2>1, SyncEffect
  <2>3. ASSUME NEW p \in Cell
        PROVE  backend'.cells[p[1]][p[2]] + CellSum(wire'[1], p)
                 = snap'[1].cells[p[1]][p[2]]
    <3> DEFINE b == backend.cells[p[1]][p[2]]
               c == edge[1].cells[p[1]][p[2]]
               s == snap[1].cells[p[1]][p[2]]
               q == CellSum(wire[1], p)
               q2 == CellSum(wire'[1], p)
    <3>1. /\ b \in Int /\ c \in Int /\ s \in Int /\ Sent(1, p) \in Int
          /\ Difference(1, p) = c - s
      BY <2>1, DifferenceType DEF Difference
    <3>2. Difference(1, p) - Sent(1, p) = 0
      BY <1>2, <2>1, LeftOut
    <3>3. b + q = s /\ q2 = q + Sent(1, p) /\ q \in Int
      BY <1>3, <1>4, <2>2
    <3>4. backend'.cells[p[1]][p[2]] = b /\ snap'[1].cells[p[1]][p[2]] = c
      BY <2>2
    <3> HIDE DEF b, c, s, q, q2
    <3>5. b + q2 = c
      BY <3>1, <3>2, <3>3
    <3> QED
      BY <3>4, <3>5 DEF q2
  <2>4. ASSUME NEW r \in Row
        PROVE  backend'.norm[r] + NormSum(wire'[1], r) = snap'[1].norm[r]
    <3> DEFINE b == backend.norm[r]
               c == edge[1].norm[r]
               s == snap[1].norm[r]
               q == NormSum(wire[1], r)
               q2 == NormSum(wire'[1], r)
    <3>1. b \in Int /\ c \in Int /\ s \in Int
      BY <2>1, NormTypes
    <3>2. b + q = s /\ q2 = q + (c - s) /\ q \in Int
      BY <1>3, <1>4, <2>2
    <3>3. backend'.norm[r] = b /\ snap'[1].norm[r] = c
      BY <2>2
    <3> HIDE DEF b, c, s, q, q2
    <3>4. b + q2 = c
      BY <3>1, <3>2
    <3> QED
      BY <3>3, <3>4 DEF q2
  <2> QED
    BY <2>3, <2>4
<1>7. CASE \E e \in Edge : ApplyDelta(e)
  <2>1. ApplyDelta(1) /\ 1 \in Edge
    BY <1>2, <1>7
  <2> DEFINE d == Head(wire[1])
  <2>2. /\ UNCHANGED snap /\ IsQueue(wire'[1]) /\ IsDelta(d)
        /\ \A p \in Cell :
             /\ CellSum(wire[1], p) = CellOf(d, p) + CellSum(wire'[1], p)
             /\ backend'.cells[p[1]][p[2]] = backend.cells[p[1]][p[2]] + CellOf(d, p)
        /\ \A r \in Row :
             /\ NormSum(wire[1], r) = d.norm[r] + NormSum(wire'[1], r)
             /\ backend'.norm[r] = backend.norm[r] + d.norm[r]
    BY <2>1, ApplyEffect
  <2>3. /\ \A p \in Cell : CellSum(wire'[1], p) \in Int
        /\ \A r \in Row : NormSum(wire'[1], r) \in Int
    BY <2>2, QueueSums
  <2> HIDE DEF d
  <2>4. ASSUME NEW p \in Cell
        PROVE  backend'.cells[p[1]][p[2]] + CellSum(wire'[1], p)
                 = snap'[1].cells[p[1]][p[2]]
    <3> DEFINE b == backend.cells[p[1]][p[2]]
               q2 == CellSum(wire'[1], p)
    <3>1. b \in Int /\ q2 \in Int /\ CellOf(d, p) \in Int
      BY <2>1, <2>2, <2>3, DifferenceType DEF IsDelta
    <3>2. b + (CellOf(d, p) + q2) = (b + CellOf(d, p)) + q2
      BY <3>1
    <3> QED
      BY <1>3, <2>2, <3>2
  <2>5. ASSUME NEW r \in Row
        PROVE  backend'.norm[r] + NormSum(wire'[1], r) = snap'[1].norm[r]
    <3> DEFINE b == backend.norm[r]
               q2 == NormSum(wire'[1], r)
    <3>1. b \in Int /\ q2 \in Int /\ d.norm[r] \in Int
      BY <2>1, <2>2, <2>3, NormTypes DEF IsDelta
    <3>2. b + (d.norm[r] + q2) = (b + d.norm[r]) + q2
      BY <3>1
    <3> QED
      BY <1>3, <2>2, <3>2
  <2> QED
    BY <2>4, <2>5
<1>8. CASE UNCHANGED vars
  BY <1>3, <1>8 DEF vars
<1> QED
  BY <1>5, <1>6, <1>7, <1>8 DEF Next

(* The inductive invariant of the norms.                                   *)
NormInv ==
  /\ Typed /\ LiveNorms /\ SnapNorms /\ Follows
  /\ conf.sketch = "cms" /\ conf.sync # "gos" => NormBooks

LEMMA NormInvNext == NormInv /\ [Next]_vars => NormInv'
<1> SUFFICES ASSUME NormInv, [Next]_vars
             PROVE  NormInv'
  OBVIOUS
<1>1. Typed /\ LiveNorms /\ SnapNorms /\ Follows
  BY DEF NormInv
<1>2. Typed' /\ Follows'
  BY <1>1, TypedNext, FollowsNext
<1>3. UNCHANGED conf
  BY ConfKept
<1>4. ASSUME LiveNorms' /\ SnapNorms',
             conf.sketch = "cms" /\ conf.sync # "gos" /\ NormBooks => NormBooks'
      PROVE  NormInv'
  BY <1>2, <1>3, <1>4 DEF NormInv
<1>5. CASE \E e \in Edge, k \in Key, w \in Weight, R \in SUBSET Row : Update(e, k, w, R)
  <2>1. PICK e \in Edge, k \in Key, w \in Weight, R \in SUBSET Row : Update(e, k, w, R)
    BY <1>5
  <2>2. LiveNorms' /\ SnapNorms'
    BY <1>1, <2>1, UpdateNorms
  <2>3. conf.sketch = "cms" /\ conf.sync # "gos" /\ NormBooks => NormBooks'
    BY <1>1, <1>2, <2>1, UpdateBooks
  <2> QED
    BY <1>4, <2>2, <2>3
<1>6. CASE \E e \in Edge : Sync(e)
  <2>1. PICK e \in Edge : Sync(e)
    BY <1>6
  <2>2. LiveNorms' /\ SnapNorms'
    BY <1>1, <2>1, SyncNorms
  <2>3. NormBooks => NormBooks'
    BY <1>1, <1>2, <2>1, SyncBooks
  <2> QED
    BY <1>4, <2>2, <2>3
<1>7. CASE \E e \in Edge : ApplyDelta(e)
  <2>1. PICK e \in Edge : ApplyDelta(e)
    BY <1>7
  <2>2. LiveNorms' /\ SnapNorms'
    BY <1>1, <2>1, ApplyEffect, OtherNorms
  <2>3. NormBooks => NormBooks'
    BY <1>1, <1>2, <2>1, ApplyBooks
  <2> QED
    BY <1>4, <2>2, <2>3
<1>8. CASE UNCHANGED vars
  <2>1. UNCHANGED <<conf, edge, snap, wire, given, backend>>
    BY <1>8 DEF vars
  <2>2. LiveNorms' /\ SnapNorms'
    BY <1>1, <2>1, OtherNorms
  <2>3. NormBooks => NormBooks'
    BY <2>1 DEF NormBooks, AllHeld, AllGiven, HeldNorm, GivenIn, NormOnWire, Edge
  <2> QED
    BY <1>4, <2>2, <2>3
<1> QED
  BY <1>5, <1>6, <1>7, <1>8 DEF Next

LEMMA NormInvIsExact ==
  ASSUME NormInv
  PROVE  NormsExact
<1>1. Typed /\ LiveNorms /\ Follows /\ SnapNorms
  BY DEF NormInv
<1>2. \A e \in Edge, r \in Row : edge[e].norm[r] = NormOf(edge[e].cells[r])
  BY <1>1 DEF LiveNorms
<1>3. conf.sketch = "cms" /\ conf.sync # "gos" =>
        \A r \in Row : backend.norm[r] + AllHeld(r) = AllGiven(r)
  BY DEF NormInv, NormBooks
<1>4. ASSUME conf.sketch = "cs", conf.sync = "window", conf.edges = 1,
             conf.threshold <= 1, wire[1] = << >>, NEW r \in Row
      PROVE  backend.norm[r] = NormOf(backend.cells[r])
  <2>1. Following /\ 1 \in Edge
    BY <1>4 DEF Following, Edge
  <2>2. /\ \A p \in Cell : backend.cells[p[1]][p[2]] + CellSum(wire[1], p)
                             = snap[1].cells[p[1]][p[2]]
        /\ backend.norm[r] + NormSum(wire[1], r) = snap[1].norm[r]
    BY <1>1, <2>1 DEF Follows
  <2>3. backend.norm[r] = snap[1].norm[r]
    BY <1>1, <1>4, <2>1, <2>2, EmptyQueue, NormTypes
  <2>4. ASSUME NEW c \in Col
        PROVE  backend.cells[r][c] = snap[1].cells[r][c]
    <3> DEFINE p == <<r, c>>
    <3>1. p \in Cell /\ p[1] = r /\ p[2] = c
      BY DEF Cell
    <3>2. CellSum(wire[1], p) = 0
      BY <1>4, <3>1, EmptyQueue
    <3>3. backend.cells[p[1]][p[2]] \in Int
      BY <1>1, <2>1, <3>1, DifferenceType
    <3>4. backend.cells[p[1]][p[2]] + 0 = snap[1].cells[p[1]][p[2]]
      BY <2>2, <3>1, <3>2
    <3> HIDE DEF p
    <3> QED
      BY <3>1, <3>3, <3>4
  <2>5. NormOf(backend.cells[r]) = NormOf(snap[1].cells[r])
    <3> DEFINE row == snap[1].cells[r]
               row2 == backend.cells[r]
    <3>1. \A c \in Col : row2[c] = row[c]
      BY <2>4
    <3> HIDE DEF row, row2
    <3>2. NormOf(row2) = NormOf(row)
      BY <3>1, NormOfSame
    <3> QED
      BY <3>2 DEF row, row2
  <2>6. snap[1].norm[r] = NormOf(snap[1].cells[r])
    BY <1>1, <2>1 DEF SnapNorms
  <2> QED
    BY <2>3, <2>5, <2>6
<1> QED
  BY <1>2, <1>3, <1>4 DEF NormsExact, AllHeld, AllGiven, HeldNorm

(* The norms kept beside the cells are those of the cells at every edge;   *)
(* the backend's L1 is that of all items, and its L2 that of its cells     *)
(* when it follows the snapshots of one edge.                              *)
THEOREM NormsAreExact == Spec => []NormsExact
<1>1. Init => NormInv
  BY TypedInit, BooksInit, FollowsInit DEF NormInv
<1>2. NormInv /\ [Next]_vars => NormInv'
  BY NormInvNext
<1>3. NormInv => NormsExact
  BY NormInvIsExact
<1> QED
  BY <1>1, <1>2, <1>3, PTL DEF Spec
-----------------------------------------------------------------------------
(* Order in a binary heap.  Both heaps move an entry by the same swaps, so *)
(* these lemmas are about places and counts only.                          *)

(* The places below p are 2p and 2p+1.                                     *)
LEMMA Halves ==
  ASSUME NEW c \in Nat, c >= 2
  PROVE  /\ c \div 2 \in Nat /\ 1 <= c \div 2 /\ c \div 2 < c
         /\ c = 2 * (c \div 2) \/ c = 2 * (c \div 2) + 1
OBVIOUS

(* Ordered but for what is below place a, whose children fit its parent.   *)
DownOrd(h, a) ==
  /\ \A c \in 2..Len(h) : c \div 2 # a => h[c \div 2].count <= h[c].count
  /\ \A c \in 2..Len(h) : c \div 2 = a /\ a > 1 => h[a \div 2].count <= h[c].count

(* Ordered but for place a itself, whose children fit its parent.          *)
UpOrd(h, a) ==
  /\ \A c \in 2..Len(h) : c # a => h[c \div 2].count <= h[c].count
  /\ \A c \in 2..Len(h) : c \div 2 = a /\ a > 1 => h[a \div 2].count <= h[c].count

(* Counts that can be compared.                                            *)
Counts(h) == Len(h) \in Nat /\ \A i \in 1..Len(h) : h[i].count \in Int

Swapped(h, g, i, j) ==
  /\ Len(g) = Len(h) /\ g[i] = h[j] /\ g[j] = h[i]
  /\ \A m \in 1..Len(h) : m # i /\ m # j => g[m] = h[m]

(* The larger entry sinks to the place of its smallest child.              *)
LEMMA SinkOrd ==
  ASSUME NEW h, NEW g, Counts(h), NEW a \in 1..Len(h), NEW b \in 2..Len(h),
         b \div 2 = a, Swapped(h, g, a, b), DownOrd(h, a),
         h[b].count <= h[a].count,
         \A c \in 2..Len(h) : c \div 2 = a => h[b].count <= h[c].count
  PROVE  DownOrd(g, b)
<1>1. Len(h) \in Nat /\ a \in Nat /\ b \in Nat /\ a < b /\ Len(g) = Len(h)
  BY Halves DEF Counts, Swapped
<1>2. ASSUME NEW c \in 2..Len(h), c \div 2 # b
      PROVE  g[c \div 2].count <= g[c].count
  <2>1. c \in Nat /\ c \div 2 \in 1..Len(h) /\ c \div 2 < c /\ c \in 1..Len(h)
    BY <1>1, Halves
  <2>2. CASE c \div 2 = a
    <3>1. g[c \div 2] = h[b]
      BY <2>2 DEF Swapped
    <3>2. CASE c = b
      BY <3>1, <3>2 DEF Swapped
    <3>3. CASE c # b
      <4>1. g[c] = h[c]
        BY <2>1, <2>2, <3>3 DEF Swapped
      <4> QED
        BY <2>2, <3>1, <4>1
    <3> QED
      BY <3>2, <3>3
  <2>3. CASE c \div 2 # a
    <3>1. g[c \div 2] = h[c \div 2]
      BY <1>2, <2>1, <2>3 DEF Swapped
    <3>2. CASE c = a
      <4>1. g[c] = h[b]
        BY <3>2 DEF Swapped
      <4>2. a > 1 /\ c \div 2 = a \div 2
        BY <3>2, <1>1, <1>2
      <4>3. h[a \div 2].count <= h[b].count
        BY <4>2 DEF DownOrd
      <4> QED
        BY <3>1, <4>1, <4>2, <4>3
    <3>3. CASE c # a
      <4>1. c # b
        BY <2>3
      <4>2. g[c] = h[c]
        BY <2>1, <3>3, <4>1 DEF Swapped
      <4> QED
        BY <2>3, <3>1, <4>2 DEF DownOrd
    <3> QED
      BY <3>2, <3>3
  <2> QED
    BY <2>2, <2>3
<1>3. ASSUME NEW c \in 2..Len(h), c \div 2 = b
      PROVE  g[b \div 2].count <= g[c].count
  <2>1. c \in Nat /\ c > b /\ c \in 1..Len(h)
    BY <1>1, <1>3, Halves
  <2>2. g[b \div 2] = h[b]
    BY DEF Swapped
  <2>3. g[c] = h[c]
    BY <1>1, <2>1 DEF Swapped
  <2>4. h[b].count <= h[c].count
    BY <1>1, <1>3 DEF DownOrd
  <2> QED
    BY <2>2, <2>3, <2>4
<1> QED
  BY <1>1, <1>2, <1>3 DEF DownOrd

(* The smaller entry rises to the place of its parent.                     *)
LEMMA RiseOrd ==
  ASSUME NEW h, NEW g, Counts(h), NEW a \in 2..Len(h), NEW p, p = a \div 2,
         Swapped(h, g, p, a), UpOrd(h, a), h[a].count <= h[p].count
  PROVE  UpOrd(g, p)
<1>1. /\ Len(h) \in Nat /\ a \in Nat /\ p \in Nat /\ 1 <= p /\ p < a
      /\ Len(g) = Len(h) /\ p \in 1..Len(h) /\ a \in 1..Len(h)
  BY Halves DEF Counts, Swapped
<1>2. ASSUME NEW c \in 2..Len(h), c # p
      PROVE  g[c \div 2].count <= g[c].count
  <2>1. /\ c \in Nat /\ c \div 2 \in 1..Len(h) /\ c \div 2 < c
        /\ c \in 1..Len(h) /\ c \div 2 \in Nat
    BY <1>1, Halves
  <2>2. CASE c = a
    <3>1. g[c \div 2] = h[a] /\ g[c] = h[p]
      BY <2>2 DEF Swapped
    <3> QED
      BY <3>1
  <2>3. CASE c # a
    <3>1. g[c] = h[c]
      BY <1>2, <2>1, <2>3 DEF Swapped
    <3>2. CASE c \div 2 = p
      <4>1. g[c \div 2] = h[a]
        BY <3>2 DEF Swapped
      <4>2. h[p].count <= h[c].count
        BY <2>3, <3>2 DEF UpOrd
      <4>3. h[a].count \in Int /\ h[p].count \in Int /\ h[c].count \in Int
        BY <1>1, <2>1 DEF Counts
      <4> QED
        BY <3>1, <4>1, <4>2, <4>3
    <3>3. CASE c \div 2 = a
      <4>1. g[c \div 2] = h[p]
        BY <3>3 DEF Swapped
      <4>2. h[p].count <= h[c].count
        BY <1>1, <3>3 DEF UpOrd
      <4> QED
        BY <3>1, <4>1, <4>2
    <3>4. CASE c \div 2 # p /\ c \div 2 # a
      <4>1. g[c \div 2] = h[c \div 2]
        BY <2>1, <3>4 DEF Swapped
      <4> QED
        BY <2>3, <3>1, <4>1 DEF UpOrd
    <3> QED
      BY <3>2, <3>3, <3>4
  <2> QED
    BY <2>2, <2>3
<1>3. ASSUME NEW c \in 2..Len(h), c \div 2 = p, p > 1
      PROVE  g[p \div 2].count <= g[c].count
  <2>1. /\ p \in 2..Len(h) /\ p \div 2 \in 1..Len(h) /\ p \div 2 < p
        /\ c \in 1..Len(h) /\ c # p /\ c \in Nat
    BY <1>1, <1>3, Halves
  <2>2. g[p \div 2] = h[p \div 2]
    BY <1>1, <2>1 DEF Swapped
  <2>3. h[p \div 2].count <= h[p].count
    BY <1>1, <2>1 DEF UpOrd
  <2>4. CASE c = a
    <3>1. g[c] = h[p]
      BY <2>4 DEF Swapped
    <3> QED
      BY <2>2, <2>3, <3>1
  <2>5. CASE c # a
    <3>1. g[c] = h[c]
      BY <2>1, <2>5 DEF Swapped
    <3>2. h[p].count <= h[c].count
      BY <1>3, <2>5 DEF UpOrd
    <3>3. /\ h[p \div 2].count \in Int /\ h[p].count \in Int
          /\ h[c].count \in Int
      BY <1>1, <2>1 DEF Counts
    <3> QED
      BY <2>2, <2>3, <3>1, <3>2, <3>3
  <2> QED
    BY <2>4, <2>5
<1> QED
  BY <1>1, <1>2, <1>3 DEF UpOrd

(* The first entry has the least count.                                    *)
LEMMA RootIsLeast ==
  ASSUME NEW h, Counts(h), HeapOrdered(h), NEW i \in 1..Len(h)
  PROVE  h[1].count <= h[i].count
<1> DEFINE T == {m \in 1..Len(h) : ~ (h[1].count <= h[m].count)}
<1>1. Len(h) \in Nat
  BY DEF Counts
<1> SUFFICES ASSUME T # {}
             PROVE  FALSE
  BY DEF Counts
<1>2. PICK m \in T : \A k \in T : m <= k
  <2>1. T \subseteq Nat
    BY <1>1
  <2> QED
    BY <2>1, LeastNatural
<1>3. m # 1
  BY <1>1, <1>2 DEF Counts
<1>4. /\ m \in 2..Len(h) /\ m \in Nat /\ m \div 2 \in 1..Len(h)
      /\ m \div 2 < m /\ m \div 2 \in Nat
  <2>1. m \in Nat /\ m >= 2
    BY <1>1, <1>2, <1>3
  <2> QED
    BY <1>1, <1>2, <2>1, Halves
<1>5. m \div 2 \notin T
  BY <1>2, <1>4
<1>6. h[1].count <= h[m \div 2].count /\ h[m \div 2].count <= h[m].count
  BY <1>4, <1>5 DEF HeapOrdered
<1>7. /\ h[1].count \in Int /\ h[m].count \in Int
      /\ h[m \div 2].count \in Int
  BY <1>1, <1>4 DEF Counts
<1> QED
  BY <1>2, <1>6, <1>7, SMTT(30)

(* The place among a and its children with the smallest count, where the   *)
(* loops that go down stop or swap.                                        *)
Smallest(h, a) ==
  LET Least(x, y) == IF y <= Len(h) /\ h[y].count < h[x].count THEN y ELSE x
  IN  Least(Least(a, 2*a), 2*a + 1)

LEMMA SmallestIs ==
  ASSUME NEW h, Counts(h), NEW a \in 1..Len(h), NEW b, b = Smallest(h, a)
  PROVE  /\ b \in 1..Len(h) /\ h[b].count <= h[a].count
         /\ \A c \in 2..Len(h) : c \div 2 = a => h[b].count <= h[c].count
         /\ b # a => /\ b \in 2..Len(h) /\ b > a /\ b \div 2 = a
                     /\ h[b].count < h[a].count
<1> DEFINE x == IF 2*a <= Len(h) /\ h[2*a].count < h[a].count THEN 2*a ELSE a
           y == IF 2*a+1 <= Len(h) /\ h[2*a+1].count < h[x].count
                THEN 2*a+1 ELSE x
<1>1. /\ Len(h) \in Nat /\ a \in Nat /\ 1 <= a
      /\ \A i \in 1..Len(h) : h[i].count \in Int
  BY DEF Counts
<1>2. b = y
  BY DEF Smallest
<1>3. /\ x \in {a, 2*a} /\ x \in 1..Len(h)
      /\ h[x].count <= h[a].count
      /\ x # a => h[x].count < h[a].count
      /\ 2*a <= Len(h) => h[x].count <= h[2*a].count
  <2>1. CASE 2*a <= Len(h) /\ h[2*a].count < h[a].count
    <3>1. x = 2*a /\ 2*a \in 1..Len(h)
      BY <1>1, <2>1
    <3>2. h[2*a].count \in Int /\ h[a].count \in Int
      BY <1>1, <3>1
    <3> HIDE DEF x
    <3> QED
      BY <2>1, <3>1, <3>2
  <2>2. CASE ~ (2*a <= Len(h) /\ h[2*a].count < h[a].count)
    <3>1. x = a
      BY <2>2
    <3>2. 2*a <= Len(h) => 2*a \in 1..Len(h)
      BY <1>1
    <3>3. h[a].count \in Int /\ (2*a <= Len(h) => h[2*a].count \in Int)
      BY <1>1, <3>2
    <3> HIDE DEF x
    <3> QED
      BY <2>2, <3>1, <3>3
  <2> QED
    BY <2>1, <2>2
<1> HIDE DEF x
<1>4. /\ y \in {x, 2*a+1} /\ y \in 1..Len(h)
      /\ h[y].count <= h[x].count
      /\ y # x => h[y].count < h[x].count
      /\ 2*a+1 <= Len(h) => h[y].count <= h[2*a+1].count
  <2>1. CASE 2*a+1 <= Len(h) /\ h[2*a+1].count < h[x].count
    <3>1. y = 2*a+1 /\ 2*a+1 \in 1..Len(h)
      BY <1>1, <2>1
    <3>2. h[2*a+1].count \in Int /\ h[x].count \in Int
      BY <1>1, <1>3, <3>1
    <3> HIDE DEF y
    <3> QED
      BY <2>1, <3>1, <3>2
  <2>2. CASE ~ (2*a+1 <= Len(h) /\ h[2*a+1].count < h[x].count)
    <3>1. y = x
      BY <2>2
    <3>2. 2*a+1 <= Len(h) => 2*a+1 \in 1..Len(h)
      BY <1>1
    <3>3. h[x].count \in Int /\ (2*a+1 <= Len(h) => h[2*a+1].count \in Int)
      BY <1>1, <1>3, <3>2
    <3> HIDE DEF y
    <3> QED
      BY <1>3, <2>2, <3>1, <3>3
  <2> QED
    BY <2>1, <2>2
<1> HIDE DEF y
<1>5. h[y].count \in Int /\ h[x].count \in Int /\ h[a].count \in Int
  BY <1>1, <1>3, <1>4
<1>6. h[y].count <= h[a].count
  BY <1>3, <1>4, <1>5
<1>7. ASSUME NEW c \in 2..Len(h), c \div 2 = a
      PROVE  h[y].count <= h[c].count
  <2>1. c = 2*a \/ c = 2*a+1
    BY <1>1, <1>7, Halves
  <2>2. h[c].count \in Int /\ c <= Len(h)
    BY <1>1
  <2> QED
    BY <1>3, <1>4, <1>5, <2>1, <2>2
<1>8. ASSUME y # a
      PROVE  /\ y \in 2..Len(h) /\ y > a /\ y \div 2 = a
             /\ h[y].count < h[a].count
  <2>1. y = 2*a \/ y = 2*a+1
    BY <1>3, <1>4, <1>8
  <2>2. h[y].count < h[a].count
    <3>1. CASE y = x
      BY <1>3, <1>8, <3>1
    <3>2. CASE y # x
      BY <1>3, <1>4, <1>5, <3>2
    <3> QED
      BY <3>1, <3>2
  <2> QED
    BY <1>1, <1>4, <2>1, <2>2
<1> QED
  BY <1>2, <1>4, <1>6, <1>7, <1>8

(* A round of a loop that goes down: the heap is in order, or the swap     *)
(* moves the disorder down.                                                *)
LEMMA DownMove ==
  ASSUME NEW h, Counts(h), NEW a \in 1..Len(h), DownOrd(h, a),
         NEW b, b = Smallest(h, a)
  PROVE  /\ b = a <=> HeapOrdered(h)
         /\ b # a => /\ b \in 1..Len(h) /\ b > a
                     /\ \A g : Swapped(h, g, a, b) => DownOrd(g, b)
<1>1. ASSUME b = a PROVE HeapOrdered(h)
  BY <1>1, SmallestIs DEF HeapOrdered, DownOrd
<1>2. ASSUME b # a, HeapOrdered(h)
      PROVE  FALSE
  <2>1. b \in 2..Len(h) /\ b \div 2 = a /\ h[b].count < h[a].count
    BY <1>2, SmallestIs
  <2>2. h[b].count \in Int /\ h[a].count \in Int
    BY <2>1 DEF Counts
  <2> QED
    BY <1>2, <2>1, <2>2 DEF HeapOrdered
<1>3. ASSUME b # a
      PROVE  /\ b \in 1..Len(h) /\ b > a
             /\ \A g : Swapped(h, g, a, b) => DownOrd(g, b)
  <2>1. /\ b \in 1..Len(h) /\ b \in 2..Len(h) /\ b > a /\ b \div 2 = a
        /\ h[b].count <= h[a].count
        /\ \A c \in 2..Len(h) : c \div 2 = a => h[b].count <= h[c].count
    BY <1>3, SmallestIs
  <2>2. ASSUME NEW g, Swapped(h, g, a, b)
        PROVE  DownOrd(g, b)
    BY <2>1, <2>2, SinkOrd
  <2> QED
    BY <2>1, <2>2
<1> QED
  BY <1>1, <1>2, <1>3

(* ... and of a loop that goes up.                                         *)
Risen(h, a) == a <= 1 \/ h[a \div 2].count <= h[a].count

LEMMA UpMove ==
  ASSUME NEW h, Counts(h), NEW a \in 1..Len(h), UpOrd(h, a)
  PROVE  /\ Risen(h, a) <=> HeapOrdered(h)
         /\ ~ Risen(h, a) =>
              /\ a \div 2 \in 1..Len(h) /\ a \div 2 < a
              /\ \A g : Swapped(h, g, a \div 2, a) => UpOrd(g, a \div 2)
<1>1. Len(h) \in Nat /\ a \in Nat
  BY DEF Counts
<1>2. ASSUME Risen(h, a) PROVE HeapOrdered(h)
  <2> SUFFICES ASSUME NEW c \in 2..Len(h)
               PROVE  h[c \div 2].count <= h[c].count
    BY DEF HeapOrdered
  <2>1. c = a => ~ (a <= 1)
    BY <1>1
  <2> QED
    BY <1>2, <2>1 DEF Risen, UpOrd
<1>4. ASSUME HeapOrdered(h) PROVE Risen(h, a)
  BY <1>1, <1>4 DEF Risen, HeapOrdered
<1>3. ASSUME ~ Risen(h, a)
      PROVE  /\ a \div 2 \in 1..Len(h) /\ a \div 2 < a
             /\ \A g : Swapped(h, g, a \div 2, a) => UpOrd(g, a \div 2)
  <2>1. a \in 2..Len(h) /\ ~ (h[a \div 2].count <= h[a].count)
    BY <1>1, <1>3 DEF Risen
  <2>2. a \div 2 \in 1..Len(h) /\ a \div 2 < a
    BY <1>1, <2>1, Halves
  <2>3. h[a].count <= h[a \div 2].count
    BY <2>1, <2>2 DEF Counts
  <2>4. ASSUME NEW g, Swapped(h, g, a \div 2, a)
        PROVE  UpOrd(g, a \div 2)
    BY <2>1, <2>3, <2>4, RiseOrd
  <2> QED
    BY <2>2, <2>4
<1> QED
  BY <1>2, <1>3, <1>4

-----------------------------------------------------------------------------
(* The loops of both heaps, round by round.                                *)

Move(loop, s) ==
  CASE loop = "down" -> Down(s)
    [] loop = "up" -> Up(s)
    [] loop = "heapifyDown" -> DownFrom(s)
    [] loop = "heapifyUp" -> UpFrom(s)

Rounds(loop, s, n, r) ==
  r = [m \in 0..n |-> IF m = 0 THEN s ELSE Move(loop, r[m-1])]

LEMMA RoundsExist ==
  ASSUME NEW loop, NEW s, NEW n \in Nat
  PROVE  \E r : Rounds(loop, s, n, r)
<1> DEFINE T == {k \in Nat : ~ \E r : Rounds(loop, s, k, r)}
<1> SUFFICES ASSUME T # {}
             PROVE  FALSE
  OBVIOUS
<1>1. PICK m \in T : \A k \in T : m <= k
  <2>1. T \subseteq Nat
    OBVIOUS
  <2> QED
    BY <2>1, LeastNatural
<1>2. m # 0
  <2>1. Rounds(loop, s, 0, [i \in 0..0 |-> s])
    BY DEF Rounds
  <2> QED
    BY <2>1
<1>3. PICK r : Rounds(loop, s, m-1, r)
  BY <1>1, <1>2
<1> DEFINE t == [i \in 0..m |-> IF i = m THEN Move(loop, r[m-1]) ELSE r[i]]
<1>4. \A i \in 0..m-1 : r[i] = IF i = 0 THEN s ELSE Move(loop, r[i-1])
  BY <1>3 DEF Rounds
<1>5. \A i \in 0..m : t[i] = IF i = 0 THEN s ELSE Move(loop, t[i-1])
  BY <1>2, <1>4
<1>6. Rounds(loop, s, m, t)
  BY <1>5 DEF Rounds
<1> QED
  BY <1>6

(* What OrderDown and OrderUp return.                                      *)
LEMMA OrderRounds ==
  ASSUME NEW h, NEW i, Len(h) \in Nat
  PROVE  /\ \E r : /\ Rounds("down", [heap |-> h, at |-> i], Len(h), r)
                   /\ OrderDown(h, i) = r[Len(h)]
         /\ \E r : /\ Rounds("up", [heap |-> h, at |-> i], Len(h), r)
                   /\ OrderUp(h, i) = r[Len(h)].heap
<1> DEFINE s == [heap |-> h, at |-> i]
           IsDown(r) == r = [n \in 0..Len(h) |->
                              IF n = 0 THEN s ELSE Down(r[n-1])]
           IsUp(r) == r = [n \in 0..Len(h) |->
                            IF n = 0 THEN s ELSE Up(r[n-1])]
<1>1. \A r : Rounds("down", s, Len(h), r) <=> IsDown(r)
  BY DEF Rounds, Move
<1>2. \A r : Rounds("up", s, Len(h), r) <=> IsUp(r)
  BY DEF Rounds, Move
<1>3. \E r : IsDown(r)
  BY <1>1, RoundsExist
<1>4. \E r : IsUp(r)
  BY <1>2, RoundsExist
<1>5. OrderDown(h, i) = (CHOOSE r : IsDown(r))[Len(h)]
  BY DEF OrderDown
<1>6. OrderUp(h, i) = (CHOOSE r : IsUp(r))[Len(h)].heap
  BY DEF OrderUp
<1>7. IsDown(CHOOSE r : IsDown(r))
  BY <1>3
<1>8. IsUp(CHOOSE r : IsUp(r))
  BY <1>4
<1> QED
  BY <1>1, <1>2, <1>5, <1>6, <1>7, <1>8

-----------------------------------------------------------------------------
(* The heap of the largest estimates.                                      *)

Distinct(h) == \A i, j \in 1..Len(h) : h[i].key = h[j].key => i = j

(* The same entries in another order.                                      *)
Rearranged(h, g) ==
  /\ Len(g) = Len(h) /\ (Distinct(h) => Distinct(g))
  /\ \A i \in 1..Len(h) : \E j \in 1..Len(h) : g[j] = h[i]
  /\ \A j \in 1..Len(h) : \E i \in 1..Len(h) : g[j] = h[i]

LEMMA SwappedRearranged ==
  ASSUME NEW h, NEW g, NEW i \in 1..Len(h), NEW j \in 1..Len(h), i # j,
         Swapped(h, g, i, j)
  PROVE  Rearranged(h, g)
<1>1. ASSUME NEW m \in 1..Len(h)
      PROVE  /\ \E k \in 1..Len(h) : g[k] = h[m]
             /\ \E k \in 1..Len(h) : g[m] = h[k]
  BY <1>1 DEF Swapped
<1>2. ASSUME Distinct(h), NEW x \in 1..Len(h), NEW y \in 1..Len(h),
             g[x].key = g[y].key
      PROVE  x = y
  <2> DEFINE p(m) == IF m = i THEN j ELSE IF m = j THEN i ELSE m
  <2>1. \A m \in 1..Len(h) : p(m) \in 1..Len(h) /\ g[m] = h[p(m)]
    BY DEF Swapped
  <2>2. p(x) = p(y)
    <3> HIDE DEF p
    <3> QED BY <1>2, <2>1 DEF Distinct
  <2> QED
    BY <2>2
<1> QED
  BY <1>1, <1>2 DEF Rearranged, Distinct, Swapped

LEMMA RearrangedTwice ==
  ASSUME NEW h, NEW g, NEW f, Rearranged(h, g), Rearranged(g, f)
  PROVE  Rearranged(h, f)
<1>1. Len(g) = Len(h) /\ Len(f) = Len(h) /\ (Distinct(h) => Distinct(f))
  BY DEF Rearranged
<1>2. ASSUME NEW i \in 1..Len(h)
      PROVE  /\ \E j \in 1..Len(h) : f[j] = h[i]
             /\ \E j \in 1..Len(h) : f[i] = h[j]
  <2>1. PICK m \in 1..Len(h) : g[m] = h[i]
    BY DEF Rearranged
  <2>2. PICK j \in 1..Len(h) : f[j] = g[m]
    BY <1>1 DEF Rearranged
  <2>3. PICK k \in 1..Len(h) : f[i] = g[k]
    BY <1>1 DEF Rearranged
  <2>4. PICK l \in 1..Len(h) : g[k] = h[l]
    BY DEF Rearranged
  <2> QED
    BY <2>1, <2>2, <2>3, <2>4
<1> QED
  BY <1>1, <1>2 DEF Rearranged

LEMMA RearrangedSelf ==
  ASSUME NEW h
  PROVE  Rearranged(h, h)
BY DEF Rearranged

LEMMA SwapIs ==
  ASSUME NEW E, NEW h \in Seq(E), NEW i \in 1..Len(h), NEW j \in 1..Len(h),
         i # j
  PROVE  Swap(h, i, j) \in Seq(E) /\ Swapped(h, Swap(h, i, j), i, j)
<1>1. h \in [1..Len(h) -> E] /\ Len(h) \in Nat
  BY LenProperties
<1>2. Swap(h, i, j) \in [1..Len(h) -> E]
  BY <1>1 DEF Swap
<1>3. Swap(h, i, j) \in Seq(E) /\ Len(Swap(h, i, j)) = Len(h)
  BY <1>1, <1>2, LenProperties, IsASeq
<1> QED
  BY <1>1, <1>3 DEF Swap, Swapped

LEMMA CountsOf ==
  ASSUME NEW E, \A x \in E : x.count \in Int, NEW h \in Seq(E)
  PROVE  Counts(h)
BY LenProperties, ElementOfSeq DEF Counts

(* What holds of the heap after a round of a loop over h.                  *)
SameItems(E, h, s) ==
  /\ s = [heap |-> s.heap, at |-> s.at]
  /\ s.heap \in Seq(E) /\ Rearranged(h, s.heap) /\ s.at \in 1..Len(h)

LEMMA SwapKeepsItems ==
  ASSUME NEW E, NEW h, NEW s, SameItems(E, h, s), NEW i \in 1..Len(h),
         NEW j \in 1..Len(h), i # j, NEW k \in 1..Len(h)
  PROVE  /\ SameItems(E, h, [heap |-> Swap(s.heap, i, j), at |-> k])
         /\ Swapped(s.heap, Swap(s.heap, i, j), i, j)
<1> DEFINE g == Swap(s.heap, i, j)
<1>1. Len(s.heap) = Len(h)
  BY DEF SameItems, Rearranged
<1>2. g \in Seq(E) /\ Swapped(s.heap, g, i, j)
  BY <1>1, SwapIs DEF SameItems
<1>3. Rearranged(h, g)
  <2>1. Rearranged(s.heap, g)
    <3> HIDE DEF g
    <3> QED BY <1>1, <1>2, SwappedRearranged
  <2> HIDE DEF g
  <2> QED
    BY <2>1, RearrangedTwice DEF SameItems
<1> QED
  BY <1>2, <1>3 DEF SameItems

(* The loop that goes down restores the order, if it was only broken below *)
(* place i, and tells whether it has moved anything.                       *)
LEMMA DownResult ==
  ASSUME NEW E, \A x \in E : x.count \in Int, NEW h \in Seq(E),
         NEW i \in 1..Len(h), DownOrd(h, i), NEW t, t = OrderDown(h, i)
  PROVE  /\ SameItems(E, h, t) /\ HeapOrdered(t.heap)
         /\ t.at = i => t.heap = h
<1> DEFINE n == Len(h)
<1>1. n \in Nat /\ i \in Nat
  BY LenProperties
<1>2. PICK r : /\ Rounds("down", [heap |-> h, at |-> i], n, r)
               /\ t = r[n]
  BY <1>1, OrderRounds
<1> DEFINE Good(m) ==
             /\ SameItems(E, h, r[m]) /\ DownOrd(r[m].heap, r[m].at)
             /\ r[m].at >= i + m \/ HeapOrdered(r[m].heap)
             /\ r[m].at >= i /\ (r[m].at = i => r[m].heap = h)
<1>3. r[0] = [heap |-> h, at |-> i]
  BY <1>1, <1>2 DEF Rounds
<1>4. Good(0)
  BY <1>1, <1>3, RearrangedSelf DEF SameItems
<1>5. ASSUME NEW m \in 0..n-1, Good(m)
      PROVE  Good(m+1)
  <2> DEFINE s == r[m]
             g == s.heap
             a == s.at
             b == Smallest(g, a)
  <2>1. r[m+1] = Down(s)
    <3>1. m+1 \in 0..n /\ m+1 # 0 /\ (m+1)-1 = m
      BY <1>1
    <3> HIDE DEF n
    <3> QED BY <1>2, <3>1 DEF Rounds, Move
  <2>2. r[m+1] = IF b = a THEN s ELSE [heap |-> Swap(g, a, b), at |-> b]
    BY <2>1 DEF Down, Smallest
  <2>3. /\ Counts(g) /\ a \in 1..Len(g) /\ Len(g) = n /\ DownOrd(g, a)
        /\ a \in Nat /\ m \in Nat
    <3>1. g \in Seq(E)
      BY <1>5 DEF SameItems
    <3>2. Counts(g)
      <4> HIDE DEF g
      <4> QED BY <3>1, CountsOf
    <3>3. Len(g) = n /\ a \in 1..n /\ DownOrd(g, a)
      BY <1>5 DEF SameItems, Rearranged
    <3> HIDE DEF g, a, n
    <3> QED
      BY <1>1, <3>2, <3>3
  <2>4. /\ b = a <=> HeapOrdered(g)
        /\ b # a => /\ b \in 1..Len(g) /\ b > a
                    /\ \A f : Swapped(g, f, a, b) => DownOrd(f, b)
    <3> HIDE DEF a, g, b
    <3>1. b = Smallest(g, a)
      BY DEF b
    <3> QED
      BY <2>3, <3>1, DownMove
  <2>5. CASE b = a
    BY <1>5, <2>2, <2>4, <2>5
  <2>6. CASE b # a
    <3> DEFINE f == Swap(g, a, b)
    <3>1. SameItems(E, h, [heap |-> f, at |-> b]) /\ Swapped(g, f, a, b)
      <4> HIDE DEF b
      <4> QED BY <1>5, <2>3, <2>4, <2>6, SwapKeepsItems
    <3>2. r[m+1] = [heap |-> f, at |-> b]
      BY <2>2, <2>6
    <3>3. DownOrd(f, b)
      <4> HIDE DEF f, b, a, g
      <4> QED BY <2>4, <2>6, <3>1
    <3>4. a >= i + m /\ a >= i
      BY <1>5, <2>4, <2>6
    <3>5. b \in Nat /\ b >= i + (m+1) /\ b >= i /\ b # i
      <4>1. b \in Nat /\ b > a
        BY <1>1, <2>3, <2>4, <2>6
      <4> HIDE DEF a, b, n
      <4> QED BY <1>1, <2>3, <3>4, <4>1
    <3>6. r[m+1].heap = f /\ r[m+1].at = b
      BY <3>2
    <3> HIDE DEF f, b
    <3> QED
      BY <3>1, <3>2, <3>3, <3>5, <3>6
  <2> QED
    BY <2>5, <2>6
<1>6. \A m \in 0..n : Good(m)
  <2> DEFINE T == {m \in 0..n : ~ Good(m)}
  <2> HIDE DEF Good
  <2> SUFFICES ASSUME T # {}
               PROVE  FALSE
    OBVIOUS
  <2>1. PICK m \in T : \A k \in T : m <= k
    <3>1. T \subseteq Nat
      BY <1>1
    <3> QED
      BY <3>1, LeastNatural
  <2> HIDE DEF n
  <2>2. m # 0 /\ m-1 \in 0..n-1 /\ m-1 \in 0..n /\ ~ (m <= m-1) /\ (m-1)+1 = m
    BY <1>1, <1>4, <2>1
  <2>3. Good(m-1)
    BY <2>1, <2>2
  <2> QED
    BY <1>5, <2>1, <2>2, <2>3
<1>7. Good(n) /\ t = r[n]
  BY <1>1, <1>2, <1>6
<1>8. HeapOrdered(t.heap)
  <2>1. t.at \in 1..n
    BY <1>7 DEF SameItems
  <2>2. ~ (t.at >= i + n)
    <3> HIDE DEF n
    <3> QED BY <1>1, <2>1
  <2> QED
    BY <1>7, <2>2
<1> QED
  BY <1>7, <1>8

(* ... and leaves the heap alone if nothing is broken below i.             *)
LEMMA DownStays ==
  ASSUME NEW h, NEW i, Len(h) \in Nat, Smallest(h, i) = i
  PROVE  OrderDown(h, i) = [heap |-> h, at |-> i]
<1> DEFINE n == Len(h)
           s == [heap |-> h, at |-> i]
<1>0. n \in Nat
  OBVIOUS
<1>1. PICK r : Rounds("down", s, n, r) /\ OrderDown(h, i) = r[n]
  BY OrderRounds
<1>2. Down(s) = s
  BY DEF Down, Smallest
<1>3. \A m \in 0..n : r[m] = IF m = 0 THEN s ELSE Down(r[m-1])
  BY <1>1 DEF Rounds, Move
<1> DEFINE T == {m \in 0..n : r[m] # s}
<1>4. T = {}
  <2> SUFFICES ASSUME T # {}
               PROVE  FALSE
    OBVIOUS
  <2>1. PICK m \in T : \A k \in T : m <= k
    <3>1. T \subseteq Nat
      OBVIOUS
    <3> QED
      BY <3>1, LeastNatural
  <2> HIDE DEF s, n
  <2>2. m \in 0..n /\ m # 0
    BY <1>3, <2>1
  <2>3. m-1 \in 0..n /\ ~ (m <= m-1)
    BY <1>0, <2>2
  <2>4. r[m-1] = s
    BY <2>1, <2>3
  <2> QED
    BY <1>2, <1>3, <2>1, <2>2, <2>4
<1>5. n \in 0..n
  OBVIOUS
<1> QED
  BY <1>1, <1>4, <1>5

(* The loop that goes up restores the order, if it was only broken at i.   *)
LEMMA UpResult ==
  ASSUME NEW E, \A x \in E : x.count \in Int, NEW h \in Seq(E),
         NEW i \in 1..Len(h), UpOrd(h, i), NEW g, g = OrderUp(h, i)
  PROVE  g \in Seq(E) /\ Rearranged(h, g) /\ HeapOrdered(g)
<1> DEFINE n == Len(h)
<1>1. n \in Nat /\ i \in Nat /\ 1 <= i /\ i <= n
  BY LenProperties
<1>2. PICK r : /\ Rounds("up", [heap |-> h, at |-> i], n, r)
               /\ g = r[n].heap
  BY <1>1, OrderRounds
<1> DEFINE Good(m) ==
             /\ SameItems(E, h, r[m]) /\ UpOrd(r[m].heap, r[m].at)
             /\ r[m].at <= i - m \/ HeapOrdered(r[m].heap)
<1>3. r[0] = [heap |-> h, at |-> i]
  BY <1>1, <1>2 DEF Rounds
<1>4. Good(0)
  BY <1>1, <1>3, RearrangedSelf DEF SameItems
<1>5. ASSUME NEW m \in 0..n-1, Good(m)
      PROVE  Good(m+1)
  <2> DEFINE s == r[m]
             f == s.heap
             a == s.at
             p == a \div 2
  <2>1. r[m+1] = Up(s)
    <3>1. m+1 \in 0..n /\ m+1 # 0 /\ (m+1)-1 = m
      BY <1>1
    <3> HIDE DEF n
    <3> QED BY <1>2, <3>1 DEF Rounds, Move
  <2>2. r[m+1] = IF Risen(f, a) THEN s ELSE [heap |-> Swap(f, p, a), at |-> p]
    BY <2>1 DEF Up, Risen
  <2>3. /\ Counts(f) /\ a \in 1..Len(f) /\ Len(f) = n /\ UpOrd(f, a)
        /\ a \in Nat /\ m \in Nat
    <3>1. f \in Seq(E)
      BY <1>5 DEF SameItems
    <3>2. Counts(f)
      <4> HIDE DEF f
      <4> QED BY <3>1, CountsOf
    <3>3. Len(f) = n /\ a \in 1..n /\ UpOrd(f, a)
      BY <1>5 DEF SameItems, Rearranged
    <3> HIDE DEF f, a, n
    <3> QED
      BY <1>1, <3>2, <3>3
  <2>4. /\ Risen(f, a) <=> HeapOrdered(f)
        /\ ~ Risen(f, a) => /\ p \in 1..Len(f) /\ p < a
                            /\ \A e : Swapped(f, e, p, a) => UpOrd(e, p)
    <3> HIDE DEF a, f
    <3> QED
      BY <2>3, UpMove
  <2>5. CASE Risen(f, a)
    BY <1>5, <2>2, <2>4, <2>5
  <2>6. CASE ~ Risen(f, a)
    <3> DEFINE e == Swap(f, p, a)
    <3>1. SameItems(E, h, [heap |-> e, at |-> p]) /\ Swapped(f, e, p, a)
      <4>1. p \in 1..n /\ a \in 1..n /\ p # a
        <5> HIDE DEF p, a, f, n
        <5> QED BY <2>3, <2>4, <2>6
      <4> HIDE DEF p
      <4> QED BY <1>5, <4>1, SwapKeepsItems
    <3>2. r[m+1] = [heap |-> e, at |-> p]
      BY <2>2, <2>6
    <3>3. UpOrd(e, p)
      <4> HIDE DEF e, p, a, f
      <4> QED BY <2>4, <2>6, <3>1
    <3>4. a <= i - m
      BY <1>5, <2>4, <2>6
    <3>5. p <= i - (m+1)
      <4>1. p \in Nat /\ p < a
        BY <1>1, <2>3, <2>4, <2>6
      <4> HIDE DEF a, p, n
      <4> QED BY <1>1, <2>3, <3>4, <4>1
    <3>6. r[m+1].heap = e /\ r[m+1].at = p
      BY <3>2
    <3> HIDE DEF e, p
    <3> QED
      BY <3>1, <3>2, <3>3, <3>5, <3>6
  <2> QED
    BY <2>5, <2>6
<1>6. \A m \in 0..n : Good(m)
  <2> DEFINE T == {m \in 0..n : ~ Good(m)}
  <2> HIDE DEF Good
  <2> SUFFICES ASSUME T # {}
               PROVE  FALSE
    OBVIOUS
  <2>1. PICK m \in T : \A k \in T : m <= k
    <3>1. T \subseteq Nat
      BY <1>1
    <3> QED
      BY <3>1, LeastNatural
  <2> HIDE DEF n
  <2>2. m # 0 /\ m-1 \in 0..n-1 /\ m-1 \in 0..n /\ ~ (m <= m-1) /\ (m-1)+1 = m
    BY <1>1, <1>4, <2>1
  <2>3. Good(m-1)
    BY <2>1, <2>2
  <2> QED
    BY <1>5, <2>1, <2>2, <2>3
<1>7. Good(n) /\ g = r[n].heap
  BY <1>1, <1>2, <1>6
<1>8. HeapOrdered(g)
  <2>1. r[n].at \in 1..n
    BY <1>7 DEF SameItems
  <2>2. ~ (r[n].at <= i - n)
    <3> HIDE DEF n
    <3> QED BY <1>1, <2>1
  <2> QED
    BY <1>7, <2>2
<1> QED
  BY <1>7, <1>8 DEF SameItems

-----------------------------------------------------------------------------
(* The operations of the heap of the largest estimates.                    *)

TopEntries == [key : Key, count : Int]

Ents(h) == {h[i] : i \in 1..Len(h)}

LEMMA RearrangedEnts ==
  ASSUME NEW h, NEW g, Rearranged(h, g)
  PROVE  Ents(g) = Ents(h)
<1>1. Ents(h) \subseteq Ents(g)
  BY DEF Rearranged, Ents
<1>2. Ents(g) \subseteq Ents(h)
  BY DEF Rearranged, Ents
<1> QED
  BY <1>1, <1>2

(* A heap is well formed.                                                  *)
TopHeap(h) == h \in Seq(TopEntries) /\ HeapOrdered(h) /\ Distinct(h)

(* The three things that an update of the heap can do.                     *)
Updated(h, i, v) == UpdateOrder([h EXCEPT ![i].count = v], i)
Inserted(h, key, v) == OrderUp(Append(h, Item(key, v)), Len(h) + 1)
Replaced(h, key, v) == OrderDown([h EXCEPT ![1] = Item(key, v)], 1).heap

(* The count of the item at place i changes, up or down.                   *)
LEMMA UpdateOrderResult ==
  ASSUME NEW h, TopHeap(h), NEW i \in 1..Len(h), NEW v \in Int,
         NEW g, g = Updated(h, i, v)
  PROVE  /\ TopHeap(g) /\ Len(g) = Len(h)
         /\ Ents(g) = {x \in Ents(h) : x.key # h[i].key}
                        \union {Item(h[i].key, v)}
<1> DEFINE f == [h EXCEPT ![i].count = v]
           d == OrderDown(f, i)
<1>1. /\ Len(h) \in Nat /\ h \in [1..Len(h) -> TopEntries]
      /\ \A j \in 1..Len(h) : h[j] \in TopEntries
  BY LenProperties, ElementOfSeq DEF TopHeap
<1>2. /\ f \in Seq(TopEntries) /\ Len(f) = Len(h)
      /\ f[i] = Item(h[i].key, v)
      /\ \A j \in 1..Len(h) : j # i => f[j] = h[j]
  <2>1. h[i] \in TopEntries /\ [h[i] EXCEPT !.count = v] \in TopEntries
    BY <1>1 DEF TopEntries
  <2>2. [h[i] EXCEPT !.count = v] = Item(h[i].key, v)
    BY <2>1 DEF TopEntries, Item
  <2>3. f = [h EXCEPT ![i] = [h[i] EXCEPT !.count = v]]
    OBVIOUS
  <2>4. f \in [1..Len(h) -> TopEntries]
    BY <1>1, <2>1, <2>3
  <2>5. f \in Seq(TopEntries) /\ Len(f) = Len(h)
    <3> HIDE DEF f
    <3> QED BY <1>1, <2>4, LenProperties, IsASeq
  <2> QED
    BY <1>1, <2>2, <2>3, <2>5
<1> HIDE DEF f
<1>3. Counts(f) /\ Counts(h)
  <2>1. \A x \in TopEntries : x.count \in Int
    BY DEF TopEntries
  <2> QED
    BY <1>2, <2>1, CountsOf DEF TopHeap
<1>4. Distinct(f)
  <2>1. \A j \in 1..Len(h) : f[j].key = h[j].key
    BY <1>2 DEF Item
  <2> QED
    BY <1>2, <2>1 DEF Distinct, TopHeap
<1>5. Ents(f) = {x \in Ents(h) : x.key # h[i].key} \union {Item(h[i].key, v)}
  <2>1. \A j \in 1..Len(h) : h[j].key = h[i].key => j = i
    BY DEF TopHeap, Distinct
  <2>2. \A j \in 1..Len(h) : j # i => f[j] = h[j] /\ h[j].key # h[i].key
    BY <1>2, <2>1
  <2>3. Ents(f) \subseteq
          {x \in Ents(h) : x.key # h[i].key} \union {Item(h[i].key, v)}
    BY <1>2, <2>2 DEF Ents
  <2>4. {x \in Ents(h) : x.key # h[i].key} \union {Item(h[i].key, v)}
          \subseteq Ents(f)
    BY <1>2, <2>2 DEF Ents
  <2> QED
    BY <2>3, <2>4
<1>6. g = IF d.at > i THEN d.heap ELSE OrderUp(d.heap, i)
  BY DEF Updated, UpdateOrder, f
<1>7. \A c \in 2..Len(h) : /\ c \div 2 \in 1..Len(h) /\ c \in 1..Len(h)
                           /\ c \div 2 # c
  BY <1>1, Halves
<1>8. h[i].count \in Int /\ f[i].count = v
  BY <1>1, <1>2 DEF TopEntries, Item
<1>e. \A x \in TopEntries : x.count \in Int
  BY DEF TopEntries
<1>9. \A c \in 2..Len(h) : c \div 2 = i /\ i > 1 =>
        f[i \div 2].count <= f[c].count
  <2> SUFFICES ASSUME NEW c \in 2..Len(h), c \div 2 = i, i > 1
               PROVE  f[i \div 2].count <= f[c].count
    OBVIOUS
  <2>1. i \in 2..Len(h)
    BY <1>1
  <2>2. c # i /\ i \div 2 # i /\ c \in 1..Len(h) /\ i \div 2 \in 1..Len(h)
    BY <1>7, <2>1
  <2>3. f[c] = h[c] /\ f[i \div 2] = h[i \div 2]
    BY <1>2, <2>2
  <2>4. h[i \div 2].count <= h[i].count /\ h[i].count <= h[c].count
    BY <2>1 DEF TopHeap, HeapOrdered
  <2>5. h[i \div 2].count \in Int /\ h[i].count \in Int /\ h[c].count \in Int
    BY <1>3, <2>2 DEF Counts
  <2> QED
    BY <2>3, <2>4, <2>5
<1>10. CASE v >= h[i].count
  <2>1. DownOrd(f, i)
    <3>1. ASSUME NEW c \in 2..Len(h), c \div 2 # i
          PROVE  f[c \div 2].count <= f[c].count
      <4>1. f[c \div 2] = h[c \div 2] /\ h[c \div 2].count <= h[c].count
        BY <1>2, <1>7, <3>1 DEF TopHeap, HeapOrdered
      <4>2. CASE c = i
        <5>1. h[c \div 2].count \in Int
          BY <1>3, <1>7 DEF Counts
        <5> QED
          BY <1>8, <1>10, <4>1, <4>2, <5>1
      <4>3. CASE c # i
        BY <1>2, <1>7, <4>1, <4>3
      <4> QED
        BY <4>2, <4>3
    <3> QED
      BY <1>2, <1>9, <3>1 DEF DownOrd
  <2>2. SameItems(TopEntries, f, d) /\ HeapOrdered(d.heap)
    <3>1. d = OrderDown(f, i)
      OBVIOUS
    <3> HIDE DEF d
    <3> QED BY <1>2, <1>e, <2>1, <3>1, DownResult
  <2>3. d.heap \in Seq(TopEntries) /\ Rearranged(f, d.heap) /\ Len(d.heap) = Len(h)
    BY <1>2, <2>2 DEF SameItems, Rearranged
  <2>4. CASE d.at > i
    <3>1. g = d.heap
      BY <1>6, <2>4
    <3> QED
      BY <1>4, <1>5, <2>2, <2>3, <3>1, RearrangedEnts, ZenonT(60) DEF TopHeap, Rearranged
  <2>5. CASE ~ (d.at > i)
    <3> DEFINE e == d.heap
    <3>1. g = OrderUp(e, i)
      BY <1>6, <2>5
    <3> HIDE DEF e
    <3>2. UpOrd(e, i)
      <4>1. Counts(e) /\ Len(e) = Len(h) /\ HeapOrdered(e)
        BY <1>e, <2>2, <2>3, CountsOf DEF e
      <4>2. ASSUME NEW c \in 2..Len(e), c \div 2 = i, i > 1
            PROVE  e[i \div 2].count <= e[c].count
        <5>1. i \in 2..Len(e) /\ i \div 2 \in 1..Len(e) /\ c \in 1..Len(e)
          BY <1>1, <1>7, <4>1, <4>2
        <5>2. e[i \div 2].count <= e[i].count /\ e[i].count <= e[c].count
          BY <4>1, <4>2, <5>1 DEF HeapOrdered
        <5>3. e[i \div 2].count \in Int /\ e[i].count \in Int /\ e[c].count \in Int
          BY <4>1, <5>1 DEF Counts
        <5> QED
          BY <5>2, <5>3
      <4> QED
        BY <4>1, <4>2 DEF UpOrd, HeapOrdered
    <3>3. g \in Seq(TopEntries) /\ Rearranged(e, g) /\ HeapOrdered(g)
      <4>1. e \in Seq(TopEntries) /\ i \in 1..Len(e)
        BY <2>3 DEF e
      <4> QED
        BY <1>e, <3>1, <3>2, <4>1, UpResult
    <3>4. Rearranged(f, g)
      BY <2>3, <3>3, RearrangedTwice DEF e
    <3>5. Len(g) = Len(h) /\ Distinct(g)
      BY <1>2, <1>4, <3>4 DEF Rearranged
    <3>6. Ents(g) = Ents(f)
      BY <3>4, RearrangedEnts
    <3> QED
      BY <1>5, <3>3, <3>5, <3>6 DEF TopHeap
  <2> QED
    BY <2>4, <2>5
<1>11. CASE v < h[i].count
  <2>1. \A c \in 2..Len(h) : c \div 2 = i => f[i].count < f[c].count
    <3> SUFFICES ASSUME NEW c \in 2..Len(h), c \div 2 = i
                 PROVE  f[i].count < f[c].count
      OBVIOUS
    <3>1. f[c] = h[c] /\ h[i].count <= h[c].count
      BY <1>2, <1>7 DEF TopHeap, HeapOrdered
    <3>2. h[c].count \in Int
      BY <1>3, <1>7 DEF Counts
    <3> QED
      BY <1>8, <1>11, <3>1, <3>2
  <2>2. Smallest(f, i) = i
    <3> DEFINE b == Smallest(f, i)
    <3>1. b # i => b \in 2..Len(f) /\ b \div 2 = i /\ f[b].count < f[i].count
      BY <1>2, <1>3, SmallestIs
    <3>2. b # i => f[b].count \in Int /\ f[i].count \in Int /\ f[i].count < f[b].count
      BY <1>2, <1>3, <1>8, <2>1, <3>1 DEF Counts
    <3> HIDE DEF b
    <3>3. b = i
      BY <3>1, <3>2
    <3> QED
      BY <3>3 DEF b
  <2>3. d = [heap |-> f, at |-> i]
    BY <1>1, <1>2, <2>2, DownStays
  <2>4. g = OrderUp(f, i)
    <3>1. d.at = i /\ d.heap = f /\ ~ (i > i)
      BY <1>1, <2>3
    <3> QED
      BY <1>6, <3>1
  <2>5. UpOrd(f, i)
    <3>1. ASSUME NEW c \in 2..Len(h), c # i
          PROVE  f[c \div 2].count <= f[c].count
      <4>1. f[c] = h[c] /\ h[c \div 2].count <= h[c].count
        BY <1>2, <1>7, <3>1 DEF TopHeap, HeapOrdered
      <4>2. CASE c \div 2 = i
        <5>1. f[i].count < f[c].count /\ f[i].count \in Int /\ f[c].count \in Int
          BY <1>2, <1>3, <1>7, <2>1, <4>2 DEF Counts
        <5> QED
          BY <4>2, <5>1
      <4>3. CASE c \div 2 # i
        BY <1>2, <1>7, <4>1, <4>3
      <4> QED
        BY <4>2, <4>3
    <3> QED
      BY <1>2, <1>9, <3>1 DEF UpOrd
  <2>6. g \in Seq(TopEntries) /\ Rearranged(f, g) /\ HeapOrdered(g)
    BY <1>2, <1>e, <2>4, <2>5, UpResult
  <2>7. Len(g) = Len(h) /\ Distinct(g)
    BY <1>2, <1>4, <2>6 DEF Rearranged
  <2>8. Ents(g) = Ents(f)
    BY <2>6, RearrangedEnts
  <2> QED
    BY <1>5, <2>6, <2>7, <2>8 DEF TopHeap
<1>12. v >= h[i].count \/ v < h[i].count
  BY <1>8
<1> QED
  BY <1>10, <1>11, <1>12

(* A new item at the end rises to its place.                               *)
LEMMA InsertResult ==
  ASSUME NEW h, TopHeap(h), NEW key \in Key, NEW v \in Int,
         \A i \in 1..Len(h) : h[i].key # key,
         NEW g, g = Inserted(h, key, v)
  PROVE  /\ TopHeap(g) /\ Len(g) = Len(h)+1
         /\ Ents(g) = Ents(h) \union {Item(key, v)}
<1> DEFINE x == Item(key, v)
           f == Append(h, x)
           n == Len(h)
<1>1. x \in TopEntries /\ x.key = key /\ x.count = v
  BY DEF Item, TopEntries
<1>2. /\ n \in Nat /\ f \in Seq(TopEntries) /\ Len(f) = n+1
      /\ \A i \in 1..n : f[i] = h[i]
      /\ f[n+1] = x
  BY <1>1, LenProperties, AppendProperties DEF TopHeap
<1> HIDE DEF f, x, n
<1>3. Distinct(f)
  <2>1. \A i, j \in 1..n : h[i].key = h[j].key => i = j
    BY DEF TopHeap, Distinct, n
  <2>2. \A i \in 1..n : f[i].key = h[i].key /\ f[i].key # key
    BY <1>2 DEF n
  <2>3. \A i \in 1..n+1 : i \in 1..n \/ i = n+1
    BY <1>2
  <2> QED
    BY <1>1, <1>2, <2>1, <2>2, <2>3 DEF Distinct
<1>4. Ents(f) = Ents(h) \union {x}
  <2>1. \A i \in 1..n+1 : i \in 1..n \/ i = n+1
    BY <1>2
  <2>2. \A i \in 1..n : i \in 1..n+1
    BY <1>2
  <2>3. n+1 \in 1..n+1
    BY <1>2
  <2>4. Ents(f) \subseteq Ents(h) \union {x}
    BY <1>2, <2>1 DEF Ents, n
  <2>5. Ents(h) \union {x} \subseteq Ents(f)
    BY <1>2, <2>2, <2>3 DEF Ents, n
  <2> QED
    BY <2>4, <2>5
<1>5. UpOrd(f, n+1)
  <2>1. ASSUME NEW c \in 2..n+1, c # n+1
        PROVE  f[c \div 2].count <= f[c].count
    <3>1. c \in 2..n /\ c \div 2 \in 1..n /\ c \in 1..n
      <4>1. c \in Nat /\ c >= 2 /\ c <= n
        BY <1>2, <2>1
      <4> QED
        BY <1>2, <4>1, Halves
    <3>2. h[c \div 2].count <= h[c].count
      BY <3>1 DEF TopHeap, HeapOrdered, n
    <3> QED
      BY <1>2, <3>1, <3>2
  <2>2. ASSUME NEW c \in 2..n+1, c \div 2 = n+1
        PROVE  FALSE
    <3>1. c \in Nat /\ c >= 2 /\ c <= n+1
      BY <1>2
    <3>2. c \div 2 < c
      BY <3>1, Halves
    <3> QED
      BY <1>2, <2>2, <3>1, <3>2
  <2> QED
    BY <1>2, <2>1, <2>2 DEF UpOrd
<1>6. g \in Seq(TopEntries) /\ Rearranged(f, g) /\ HeapOrdered(g)
  <2>1. \A y \in TopEntries : y.count \in Int
    BY DEF TopEntries
  <2>2. n+1 \in 1..Len(f)
    BY <1>2
  <2>3. g = OrderUp(f, n+1)
    BY DEF Inserted, f, n, x
  <2> QED
    BY <1>2, <1>5, <2>1, <2>2, <2>3, UpResult
<1>7. Len(g) = n+1 /\ Distinct(g)
  BY <1>2, <1>3, <1>6 DEF Rearranged
<1>8. Ents(g) = Ents(h) \union {x}
  BY <1>4, <1>6, RearrangedEnts
<1> QED
  BY <1>6, <1>7, <1>8 DEF TopHeap, n, x

(* A new item that takes the place of the smallest sinks to its place.     *)
LEMMA ReplaceResult ==
  ASSUME NEW h, TopHeap(h), 1 \in 1..Len(h), NEW key \in Key, NEW v \in Int,
         \A i \in 1..Len(h) : h[i].key # key, h[1].count <= v,
         NEW g, g = Replaced(h, key, v)
  PROVE  /\ TopHeap(g) /\ Len(g) = Len(h)
         /\ Ents(g) = (Ents(h) \ {h[1]}) \union {Item(key, v)}
<1> DEFINE x == Item(key, v)
           f == [h EXCEPT ![1] = x]
           n == Len(h)
           d == OrderDown(f, 1)
<1>1. x \in TopEntries /\ x.key = key /\ x.count = v
  BY DEF Item, TopEntries
<1>2. /\ n \in Nat /\ f \in Seq(TopEntries) /\ Len(f) = n
      /\ f[1] = x /\ \A i \in 1..n : i # 1 => f[i] = h[i]
  <2>1. n \in Nat /\ h \in [1..n -> TopEntries]
    BY LenProperties DEF TopHeap
  <2>2. f \in [1..n -> TopEntries]
    <3> HIDE DEF x, n
    <3> QED BY <1>1, <2>1
  <2>3. f \in Seq(TopEntries) /\ Len(f) = n
    <3> HIDE DEF f, n
    <3> QED BY <2>1, <2>2, LenProperties, IsASeq
  <2>4. f[1] = x /\ \A i \in 1..n : i # 1 => f[i] = h[i]
    <3> HIDE DEF x, n
    <3> QED BY <2>1 DEF n
  <2> QED
    BY <2>1, <2>3, <2>4
<1> HIDE DEF f, x
<1>3. Distinct(f)
  <2>1. \A i, j \in 1..n : h[i].key = h[j].key => i = j
    BY DEF TopHeap, Distinct
  <2>2. \A i \in 1..n : i # 1 => f[i].key = h[i].key /\ f[i].key # key
    BY <1>2
  <2> QED
    BY <1>1, <1>2, <2>1, <2>2 DEF Distinct
<1>4. Ents(f) = (Ents(h) \ {h[1]}) \union {x}
  <2>1. \A i \in 1..n : i # 1 => h[i] # h[1]
    BY DEF TopHeap, Distinct
  <2>2. Ents(f) \subseteq (Ents(h) \ {h[1]}) \union {x}
    BY <1>2, <2>1 DEF Ents
  <2>3. (Ents(h) \ {h[1]}) \union {x} \subseteq Ents(f)
    BY <1>2, <2>1 DEF Ents
  <2> QED
    BY <2>2, <2>3
<1>5. DownOrd(f, 1)
  <2>1. ASSUME NEW c \in 2..n, c \div 2 # 1
        PROVE  f[c \div 2].count <= f[c].count
    <3>1. c \div 2 \in 1..n /\ c \in 1..n /\ c # 1
      <4>1. c \in Nat /\ c >= 2 /\ c <= n
        BY <1>2
      <4> QED
        BY <1>2, <4>1, Halves
    <3>2. h[c \div 2].count <= h[c].count
      BY DEF TopHeap, HeapOrdered
    <3> QED
      BY <1>2, <2>1, <3>1, <3>2
  <2> QED
    BY <1>2, <2>1 DEF DownOrd
<1>6. d.heap \in Seq(TopEntries) /\ Rearranged(f, d.heap) /\ HeapOrdered(d.heap)
  <2>1. \A y \in TopEntries : y.count \in Int
    BY DEF TopEntries
  <2>2. SameItems(TopEntries, f, d) /\ HeapOrdered(d.heap)
    <3>1. d = OrderDown(f, 1) /\ 1 \in 1..Len(f)
      BY <1>2
    <3> HIDE DEF d
    <3> QED BY <1>2, <1>5, <2>1, <3>1, DownResult
  <2> QED
    BY <2>2 DEF SameItems
<1>7. g = d.heap
  BY DEF Replaced, f, x
<1>8. Len(g) = n /\ Distinct(g)
  BY <1>2, <1>3, <1>6, <1>7 DEF Rearranged
<1>9. Ents(g) = Ents(f)
  BY <1>6, <1>7, RearrangedEnts
<1> QED
  BY <1>4, <1>6, <1>7, <1>8, <1>9 DEF TopHeap, x

(* What an Update of a heap of capacity K does to its items: the key is    *)
(* there with its count, and displaces nothing, or the smallest item of a  *)
(* full heap; or it is turned away by a full heap of items no smaller.     *)
Kept(h, g, k, key, v) ==
  \/ /\ Ents(g) = {x \in Ents(h) : x.key # key} \union {Item(key, v)}
     /\ \/ Len(g) = Len(h) /\ \E x \in Ents(h) : x.key = key
        \/ Len(g) = Len(h) + 1
  \/ /\ Len(h) = k /\ Len(g) = k
     /\ \A x \in Ents(h) : x.key # key
     /\ \E m \in Ents(h) : /\ \A x \in Ents(h) : m.count <= x.count
                           /\ m.count < v
                           /\ Ents(g) = (Ents(h) \ {m}) \union {Item(key, v)}
  \/ /\ g = h /\ Len(h) = k
     /\ \A x \in Ents(h) : x.key # key /\ v <= x.count

LEMMA TopKUpdateResult ==
  ASSUME NEW h, TopHeap(h), NEW k \in Nat \ {0}, Len(h) <= k,
         NEW key \in Key, NEW v \in Int,
         NEW g, g = TopKUpdate(h, k, key, v)
  PROVE  TopHeap(g) /\ Len(g) <= k /\ Kept(h, g, k, key, v)
<1> DEFINE i == Find(h, key)
<1>1. Len(h) \in Nat /\ Counts(h)
  <2>1. \A y \in TopEntries : y.count \in Int
    BY DEF TopEntries
  <2> QED
    BY <2>1, CountsOf, LenProperties DEF TopHeap
<1>2. /\ i # 0 => i \in 1..Len(h) /\ h[i].key = key
      /\ i = 0 => \A j \in 1..Len(h) : h[j].key # key
  <2> DEFINE S == {j \in 1..Len(h) : h[j].key = key}
  <2>1. CASE S = {}
    BY <2>1 DEF Find
  <2>2. CASE S # {}
    <3>1. \E j \in S : \A m \in S : j <= m
      <4>1. S \subseteq Nat
        BY <1>1
      <4> HIDE DEF S
      <4> QED
        BY <2>2, <4>1, LeastNatural
    <3>2. i \in S
      BY <2>2, <3>1 DEF Find
    <3>3. i # 0
      BY <1>1, <3>2
    <3> QED
      BY <3>2, <3>3
  <2> QED
    BY <2>1, <2>2
<1>3. CASE i # 0
  <2>1. g = Updated(h, i, v)
    BY <1>3 DEF TopKUpdate, Updated
  <2>2. /\ TopHeap(g) /\ Len(g) = Len(h)
        /\ Ents(g) = {x \in Ents(h) : x.key # key} \union {Item(key, v)}
    <3> HIDE DEF i
    <3>1. i \in 1..Len(h) /\ h[i].key = key
      BY <1>2, <1>3
    <3>2. /\ TopHeap(g) /\ Len(g) = Len(h)
          /\ Ents(g) = {x \in Ents(h) : x.key # h[i].key}
                         \union {Item(h[i].key, v)}
      BY ONLY <2>1, <3>1, UpdateOrderResult, TopHeap(h), v \in Int
    <3> QED
      BY <3>1, <3>2
  <2>3. \E x \in Ents(h) : x.key = key
    BY <1>2, <1>3 DEF Ents
  <2> QED
    BY <1>1, <2>2, <2>3 DEF Kept
<1>4. CASE i = 0 /\ Len(h) < k
  <2>1. g = Inserted(h, key, v)
    BY <1>4 DEF TopKUpdate, Insert, Inserted
  <2>2. /\ TopHeap(g) /\ Len(g) = Len(h)+1
        /\ Ents(g) = Ents(h) \union {Item(key, v)}
    <3>1. \A j \in 1..Len(h) : h[j].key # key
      BY <1>2, <1>4
    <3> QED
      BY ONLY <2>1, <3>1, InsertResult, TopHeap(h), v \in Int, key \in Key
  <2>3. {x \in Ents(h) : x.key # key} = Ents(h)
    BY <1>2, <1>4 DEF Ents
  <2> QED
    BY <1>1, <1>4, <2>2, <2>3 DEF Kept
<1>5. CASE i = 0 /\ ~ (Len(h) < k)
  <2>1. Len(h) = k /\ 1 \in 1..Len(h)
    BY <1>1, <1>5
  <2>2. \A x \in Ents(h) : x.key # key
    BY <1>2, <1>5 DEF Ents
  <2>3. \A x \in Ents(h) : h[1].count <= x.count /\ x.count \in Int
    <3>1. \A j \in 1..Len(h) : h[1].count <= h[j].count /\ h[j].count \in Int
      BY <1>1, RootIsLeast DEF TopHeap, Counts
    <3> QED
      BY <3>1 DEF Ents
  <2>4. h[1] \in Ents(h) /\ h[1].count \in Int
    BY <2>1, <2>3 DEF Ents
  <2>5. CASE h[1].count < v
    <3>1. g = Replaced(h, key, v)
      BY <1>5, <2>5 DEF TopKUpdate, Insert, Replaced
    <3>2. h[1].count <= v
      BY <2>4, <2>5
    <3>3. /\ TopHeap(g) /\ Len(g) = Len(h)
          /\ Ents(g) = (Ents(h) \ {h[1]}) \union {Item(key, v)}
      <4>1. \A j \in 1..Len(h) : h[j].key # key
        BY <1>2, <1>5
      <4> QED
        BY ONLY <2>1, <3>1, <3>2, <4>1, ReplaceResult, TopHeap(h), v \in Int,
                key \in Key
    <3>4. \E m \in Ents(h) : /\ \A x \in Ents(h) : m.count <= x.count
                             /\ m.count < v
                             /\ Ents(g) = (Ents(h) \ {m}) \union {Item(key, v)}
      BY <2>3, <2>4, <2>5, <3>3
    <3> QED
      BY <2>1, <2>2, <3>3, <3>4 DEF Kept
  <2>6. CASE ~ (h[1].count < v)
    <3>1. g = h
      BY <1>5, <2>6 DEF TopKUpdate, Insert
    <3>2. \A x \in Ents(h) : v <= x.count
      BY <2>3, <2>4, <2>6
    <3> QED
      BY <2>1, <2>2, <3>1, <3>2 DEF Kept
  <2> QED
    BY <2>5, <2>6
<1> QED
  BY <1>3, <1>4, <1>5

-----------------------------------------------------------------------------
(* The heap of a tracker: the same loops, with an index to keep.           *)

SSEntries == [key : Key, count : Nat \ {0}, maxError : Nat]

(* The index knows the place of every entry, and of nothing else.          *)
Indexed(ss) ==
  /\ \A i \in 1..Len(ss.heap) : /\ ss.heap[i].key \in DOMAIN ss.index
                                /\ ss.index[ss.heap[i].key] = i
  /\ \A k \in DOMAIN ss.index : /\ ss.index[k] \in 1..Len(ss.heap)
                                /\ ss.heap[ss.index[k]].key = k

IsTracker(ss) ==
  /\ ss = [heap |-> ss.heap, index |-> ss.index]
  /\ ss.heap \in Seq(SSEntries)
  /\ Indexed(ss)

LEMMA IndexedDistinct ==
  ASSUME NEW ss, Indexed(ss)
  PROVE  Distinct(ss.heap)
BY DEF Indexed, Distinct

LEMMA SSCounts == \A x \in SSEntries : x.count \in Int
BY DEF SSEntries

(* swapAt exchanges two entries and their places in the index.             *)
LEMMA SwapAtResult ==
  ASSUME NEW ss, IsTracker(ss), NEW i \in 1..Len(ss.heap),
         NEW j \in 1..Len(ss.heap), i # j, NEW g, g = SwapAt(ss, i, j)
  PROVE  IsTracker(g) /\ g.heap = Swap(ss.heap, i, j) /\ Len(g.heap) = Len(ss.heap)
<1> DEFINE h == ss.heap
           x == ss.index
           f == Swap(h, i, j)
           a == h[i].key
           b == h[j].key
           y == [x EXCEPT ![b] = i, ![a] = j]
<1>1. g = [heap |-> f, index |-> y]
  BY DEF SwapAt, Swap
<1>2. f \in Seq(SSEntries) /\ Swapped(h, f, i, j)
  BY SwapIs DEF IsTracker
<1>3. /\ \A m \in 1..Len(h) : h[m].key \in DOMAIN x /\ x[h[m].key] = m
      /\ \A k \in DOMAIN x : x[k] \in 1..Len(h) /\ h[x[k]].key = k
  BY DEF IsTracker, Indexed
<1>4. a \in DOMAIN x /\ b \in DOMAIN x /\ a # b /\ x[a] = i /\ x[b] = j
  BY <1>3
<1>5. /\ DOMAIN y = DOMAIN x /\ y[a] = j /\ y[b] = i
      /\ \A k \in DOMAIN x : k # a /\ k # b => y[k] = x[k]
  <2> HIDE DEF a, b, x
  <2> QED BY <1>4
<1> HIDE DEF y, f
<1>6. /\ Len(f) = Len(h) /\ f[i] = h[j] /\ f[j] = h[i]
      /\ \A m \in 1..Len(h) : m # i /\ m # j => f[m] = h[m]
  BY <1>2 DEF Swapped
<1>7. ASSUME NEW m \in 1..Len(f)
      PROVE  f[m].key \in DOMAIN y /\ y[f[m].key] = m
  <2>1. CASE m = i
    BY <1>4, <1>5, <1>6, <2>1
  <2>2. CASE m = j
    BY <1>4, <1>5, <1>6, <2>2
  <2>3. CASE m # i /\ m # j
    <3>1. f[m] = h[m] /\ h[m].key \in DOMAIN x /\ x[h[m].key] = m
      BY <1>3, <1>6, <2>3
    <3>2. h[m].key # a /\ h[m].key # b
      BY <1>4, <2>3, <3>1
    <3> QED
      BY <1>5, <3>1, <3>2
  <2> QED
    BY <2>1, <2>2, <2>3
<1>8. ASSUME NEW k \in DOMAIN y
      PROVE  y[k] \in 1..Len(f) /\ f[y[k]].key = k
  <2>1. CASE k = a
    BY <1>5, <1>6, <2>1
  <2>2. CASE k = b
    BY <1>5, <1>6, <2>2
  <2>3. CASE k # a /\ k # b
    <3>1. y[k] = x[k] /\ x[k] \in 1..Len(h) /\ h[x[k]].key = k
      BY <1>3, <1>5, <2>3
    <3>2. x[k] # i /\ x[k] # j
      BY <2>3, <3>1
    <3> QED
      BY <1>6, <3>1, <3>2
  <2> QED
    BY <2>1, <2>2, <2>3
<1>9. Indexed(g)
  BY <1>1, <1>7, <1>8 DEF Indexed
<1> QED
  BY <1>1, <1>2, <1>6, <1>9 DEF IsTracker, f

(* A loop over the tracker does to the heap what the same loop does to a   *)
(* heap alone, and the index follows.                                      *)
Follow(s, t) ==
  /\ s = [ss |-> s.ss, at |-> s.at] /\ IsTracker(s.ss)
  /\ s.at \in 1..Len(s.ss.heap) /\ t = [heap |-> s.ss.heap, at |-> s.at]

LEMMA FollowDown ==
  ASSUME NEW s, NEW t, Follow(s, t)
  PROVE  /\ Follow(DownFrom(s), Down(t))
         /\ Len(DownFrom(s).ss.heap) = Len(s.ss.heap)
<1> DEFINE h == s.ss.heap
           i == s.at
           b == Smallest(h, i)
<1>1. DownFrom(s) = IF b = i THEN s ELSE [ss |-> SwapAt(s.ss, i, b), at |-> b]
  BY DEF DownFrom, Smallest
<1>2. t.heap = h /\ t.at = i
  BY DEF Follow
<1>3. Down(t) = IF b = i THEN t ELSE [heap |-> Swap(h, i, b), at |-> b]
  BY <1>2 DEF Down, Smallest
<1>4. Counts(h) /\ i \in 1..Len(h)
  BY SSCounts, CountsOf DEF Follow, IsTracker
<1>5. b \in 1..Len(h)
  <2> HIDE DEF h, i
  <2> QED BY <1>4, SmallestIs
<1>6. CASE b = i
  BY <1>1, <1>3, <1>6
<1>7. CASE b # i
  <2> DEFINE g == SwapAt(s.ss, i, b)
  <2>1. IsTracker(g) /\ g.heap = Swap(h, i, b) /\ Len(g.heap) = Len(h)
    <3>1. IsTracker(s.ss)
      BY DEF Follow
    <3> HIDE DEF b
    <3> QED BY <1>4, <1>5, <1>7, <3>1, SwapAtResult
  <2>2. DownFrom(s) = [ss |-> g, at |-> b]
    BY <1>1, <1>7
  <2>3. Down(t) = [heap |-> g.heap, at |-> b]
    BY <1>3, <1>7, <2>1
  <2> HIDE DEF g, b
  <2> QED
    BY <1>5, <2>1, <2>2, <2>3 DEF Follow
<1> QED
  BY <1>6, <1>7

LEMMA FollowUp ==
  ASSUME NEW s, NEW t, Follow(s, t)
  PROVE  /\ Follow(UpFrom(s), Up(t))
         /\ Len(UpFrom(s).ss.heap) = Len(s.ss.heap)
<1> DEFINE h == s.ss.heap
           i == s.at
           p == i \div 2
<1>1. UpFrom(s) = IF Risen(h, i) THEN s ELSE [ss |-> SwapAt(s.ss, p, i), at |-> p]
  BY DEF UpFrom, Risen
<1>2. t.heap = h /\ t.at = i
  BY DEF Follow
<1>3. Up(t) = IF Risen(h, i) THEN t ELSE [heap |-> Swap(h, p, i), at |-> p]
  BY <1>2 DEF Up, Risen
<1>4. Len(h) \in Nat /\ i \in 1..Len(h)
  BY LenProperties DEF Follow, IsTracker
<1>6. CASE Risen(h, i)
  BY <1>1, <1>3, <1>6
<1>7. CASE ~ Risen(h, i)
  <2> DEFINE g == SwapAt(s.ss, p, i)
  <2>0. p \in 1..Len(h) /\ p # i
    <3>1. i \in Nat /\ i >= 2
      BY <1>4, <1>7 DEF Risen
    <3> HIDE DEF h, i
    <3> QED BY <1>4, <3>1, Halves
  <2>1. IsTracker(g) /\ g.heap = Swap(h, p, i) /\ Len(g.heap) = Len(h)
    <3>1. IsTracker(s.ss)
      BY DEF Follow
    <3> HIDE DEF p
    <3> QED BY <1>4, <2>0, <3>1, SwapAtResult
  <2>2. UpFrom(s) = [ss |-> g, at |-> p]
    BY <1>1, <1>7
  <2>3. Up(t) = [heap |-> g.heap, at |-> p]
    BY <1>3, <1>7, <2>1
  <2> HIDE DEF g, p
  <2> QED
    BY <2>0, <2>1, <2>2, <2>3 DEF Follow
<1> QED
  BY <1>6, <1>7

(* What HeapifyDown and HeapifyUp return.                                  *)
LEMMA HeapifyRounds ==
  ASSUME NEW ss, NEW i, Len(ss.heap) \in Nat
  PROVE  /\ \E r : /\ Rounds("heapifyDown", [ss |-> ss, at |-> i], Len(ss.heap), r)
                   /\ HeapifyDown(ss, i) = r[Len(ss.heap)].ss
         /\ \E r : /\ Rounds("heapifyUp", [ss |-> ss, at |-> i], Len(ss.heap), r)
                   /\ HeapifyUp(ss, i) = r[Len(ss.heap)].ss
<1> DEFINE s == [ss |-> ss, at |-> i]
           N == Len(ss.heap)
           IsDown(r) == r = [n \in 0..N |-> IF n = 0 THEN s ELSE DownFrom(r[n-1])]
           IsUp(r) == r = [n \in 0..N |-> IF n = 0 THEN s ELSE UpFrom(r[n-1])]
<1>1. \A r : Rounds("heapifyDown", s, N, r) <=> IsDown(r)
  BY DEF Rounds, Move
<1>2. \A r : Rounds("heapifyUp", s, N, r) <=> IsUp(r)
  BY DEF Rounds, Move
<1>3. \E r : IsDown(r)
  BY <1>1, RoundsExist
<1>4. \E r : IsUp(r)
  BY <1>2, RoundsExist
<1>5. HeapifyDown(ss, i) = (CHOOSE r : IsDown(r))[N].ss
  BY DEF HeapifyDown
<1>6. HeapifyUp(ss, i) = (CHOOSE r : IsUp(r))[N].ss
  BY DEF HeapifyUp
<1>7. IsDown(CHOOSE r : IsDown(r))
  BY <1>3
<1>8. IsUp(CHOOSE r : IsUp(r))
  BY <1>4
<1> QED
  BY <1>1, <1>2, <1>5, <1>6, <1>7, <1>8

LEMMA HeapifyDownIs ==
  ASSUME NEW ss, IsTracker(ss), NEW i \in 1..Len(ss.heap), NEW g, g = HeapifyDown(ss, i)
  PROVE  IsTracker(g) /\ g.heap = OrderDown(ss.heap, i).heap
<1> DEFINE n == Len(ss.heap)
<1>1. n \in Nat
  BY LenProperties DEF IsTracker
<1>2. PICK r : Rounds("heapifyDown", [ss |-> ss, at |-> i], n, r) /\ g = r[n].ss
  BY <1>1, HeapifyRounds
<1>3. PICK q : /\ Rounds("down", [heap |-> ss.heap, at |-> i], n, q)
               /\ OrderDown(ss.heap, i) = q[n]
  BY <1>1, OrderRounds
<1>4. \A m \in 0..n : r[m] = IF m = 0 THEN [ss |-> ss, at |-> i] ELSE DownFrom(r[m-1])
  BY <1>2 DEF Rounds, Move
<1>5. \A m \in 0..n : q[m] = IF m = 0 THEN [heap |-> ss.heap, at |-> i] ELSE Down(q[m-1])
  BY <1>3 DEF Rounds, Move
<1> DEFINE T == {m \in 0..n : ~ Follow(r[m], q[m])}
<1>6. T = {}
  <2> SUFFICES ASSUME T # {}
               PROVE  FALSE
    OBVIOUS
  <2>1. PICK m \in T : \A k \in T : m <= k
    <3>1. T \subseteq Nat
      BY <1>1
    <3> QED
      BY <3>1, LeastNatural
  <2>2. m # 0
    <3>1. Follow([ss |-> ss, at |-> i], [heap |-> ss.heap, at |-> i])
      BY DEF Follow
    <3>2. 0 \in 0..n
      BY <1>1
    <3> QED
      BY <1>4, <1>5, <2>1, <3>1, <3>2
  <2> HIDE DEF n
  <2>3. m \in 0..n /\ m-1 \in 0..n /\ ~ (m <= m-1)
    BY <1>1, <2>1, <2>2
  <2>4. Follow(r[m-1], q[m-1])
    BY <2>1, <2>3
  <2> QED
    BY <1>4, <1>5, <2>1, <2>2, <2>3, <2>4, FollowDown
<1>7. Follow(r[n], q[n])
  <2>1. n \in 0..n
    BY <1>1
  <2> QED
    BY <1>6, <2>1
<1> QED
  BY <1>2, <1>3, <1>7 DEF Follow

LEMMA HeapifyUpIs ==
  ASSUME NEW ss, IsTracker(ss), NEW i \in 1..Len(ss.heap), NEW g, g = HeapifyUp(ss, i)
  PROVE  IsTracker(g) /\ g.heap = OrderUp(ss.heap, i)
<1> DEFINE n == Len(ss.heap)
<1>1. n \in Nat
  BY LenProperties DEF IsTracker
<1>2. PICK r : Rounds("heapifyUp", [ss |-> ss, at |-> i], n, r) /\ g = r[n].ss
  BY <1>1, HeapifyRounds
<1>3. PICK q : /\ Rounds("up", [heap |-> ss.heap, at |-> i], n, q)
               /\ OrderUp(ss.heap, i) = q[n].heap
  BY <1>1, OrderRounds
<1>4. \A m \in 0..n : r[m] = IF m = 0 THEN [ss |-> ss, at |-> i] ELSE UpFrom(r[m-1])
  BY <1>2 DEF Rounds, Move
<1>5. \A m \in 0..n : q[m] = IF m = 0 THEN [heap |-> ss.heap, at |-> i] ELSE Up(q[m-1])
  BY <1>3 DEF Rounds, Move
<1> DEFINE T == {m \in 0..n : ~ Follow(r[m], q[m])}
<1>6. T = {}
  <2> SUFFICES ASSUME T # {}
               PROVE  FALSE
    OBVIOUS
  <2>1. PICK m \in T : \A k \in T : m <= k
    <3>1. T \subseteq Nat
      BY <1>1
    <3> QED
      BY <3>1, LeastNatural
  <2>2. m # 0
    <3>1. Follow([ss |-> ss, at |-> i], [heap |-> ss.heap, at |-> i])
      BY DEF Follow
    <3>2. 0 \in 0..n
      BY <1>1
    <3> QED
      BY <1>4, <1>5, <2>1, <3>1, <3>2
  <2> HIDE DEF n
  <2>3. m \in 0..n /\ m-1 \in 0..n /\ ~ (m <= m-1)
    BY <1>1, <2>1, <2>2
  <2>4. Follow(r[m-1], q[m-1])
    BY <2>1, <2>3
  <2> QED
    BY <1>4, <1>5, <2>1, <2>2, <2>3, <2>4, FollowUp
<1>7. Follow(r[n], q[n])
  <2>1. n \in 0..n
    BY <1>1
  <2> QED
    BY <1>6, <2>1
<1> QED
  BY <1>2, <1>3, <1>7 DEF Follow

(* An entry that grows breaks the order below it only; one at the end,     *)
(* above it only.                                                          *)
LEMMA GrownOrd ==
  ASSUME NEW h, NEW f, Counts(h), Counts(f), HeapOrdered(h), NEW i \in 1..Len(h),
         Len(f) = Len(h), \A j \in 1..Len(h) : j # i => f[j] = h[j],
         h[i].count <= f[i].count
  PROVE  DownOrd(f, i)
<1>1. /\ Len(h) \in Nat /\ i \in Nat
      /\ \A j \in 1..Len(h) : h[j].count \in Int /\ f[j].count \in Int
  BY DEF Counts
<1>2. \A c \in 2..Len(h) : /\ c \div 2 \in 1..Len(h) /\ c \in 1..Len(h)
                           /\ c \div 2 # c
  BY <1>1, Halves
<1>3. \A c \in 2..Len(h) : h[c \div 2].count <= h[c].count
  BY DEF HeapOrdered
<1>4. ASSUME NEW c \in 2..Len(h), c \div 2 # i
      PROVE  f[c \div 2].count <= f[c].count
  <2>1. f[c \div 2] = h[c \div 2]
    BY <1>2, <1>4
  <2>2. h[c].count <= f[c].count
    <3>1. CASE c = i
      BY <3>1
    <3>2. CASE c # i
      <4>1. f[c] = h[c]
        BY <1>2, <3>2
      <4> QED
        BY <1>1, <1>2, <4>1
    <3> QED
      BY <3>1, <3>2
  <2>3. h[c \div 2].count <= h[c].count
    BY <1>3
  <2>4. h[c \div 2].count \in Int /\ h[c].count \in Int /\ f[c].count \in Int
    BY <1>1, <1>2
  <2> QED
    BY <2>1, <2>2, <2>3, <2>4
<1>5. ASSUME NEW c \in 2..Len(h), c \div 2 = i, i > 1
      PROVE  f[i \div 2].count <= f[c].count
  <2>1. i \in 2..Len(h)
    BY <1>1, <1>5
  <2>2. i \div 2 \in 1..Len(h) /\ i \div 2 # i /\ c \in 1..Len(h) /\ c # i
    BY <1>2, <1>5, <2>1
  <2>3. f[i \div 2] = h[i \div 2] /\ f[c] = h[c]
    BY <2>2
  <2>4. h[i \div 2].count <= h[i].count /\ h[i].count <= h[c].count
    BY <1>3, <1>5, <2>1
  <2>5. h[i \div 2].count \in Int /\ h[i].count \in Int /\ h[c].count \in Int
    BY <1>1, <2>2
  <2> QED
    BY <2>3, <2>4, <2>5
<1> QED
  BY <1>4, <1>5 DEF DownOrd

LEMMA AppendedOrd ==
  ASSUME NEW h, NEW f, HeapOrdered(h), NEW n \in Nat, Len(h) = n,
         Len(f) = n+1, \A j \in 1..n : f[j] = h[j]
  PROVE  UpOrd(f, n+1)
<1>1. ASSUME NEW c \in 2..n+1, c # n+1
      PROVE  f[c \div 2].count <= f[c].count
  <2>1. c \in 2..n /\ c \div 2 \in 1..n /\ c \in 1..n
    <3>1. c \in Nat /\ c >= 2 /\ c <= n
      BY <1>1
    <3> QED
      BY <3>1, Halves
  <2>2. h[c \div 2].count <= h[c].count
    BY <2>1 DEF HeapOrdered
  <2> QED
    BY <2>1, <2>2
<1>2. ASSUME NEW c \in 2..n+1, c \div 2 = n+1
      PROVE  FALSE
  <2>1. c \in Nat /\ c >= 2 /\ c <= n+1
    OBVIOUS
  <2>2. c \div 2 < c
    BY <2>1, Halves
  <2> QED
    BY <1>2, <2>1, <2>2
<1> QED
  BY <1>1, <1>2 DEF UpOrd

(* A tracker in order.                                                     *)
SSHeap(ss) == IsTracker(ss) /\ HeapOrdered(ss.heap)

LEMMA NewIsTracker == SSHeap(NewSpaceSaving) /\ NewSpaceSaving.heap = << >>
<1>1. NewSpaceSaving.heap = << >> /\ NewSpaceSaving.index = << >>
  BY DEF NewSpaceSaving
<1>2. << >> \in Seq(SSEntries) /\ Len(<< >>) = 0
  OBVIOUS
<1>3. DOMAIN << >> = {}
  OBVIOUS
<1>4. 1..0 = {} /\ 2..0 = {}
  OBVIOUS
<1>5. Indexed(NewSpaceSaving)
  BY <1>1, <1>2, <1>3, <1>4 DEF Indexed
<1>6. HeapOrdered(NewSpaceSaving.heap)
  BY <1>1, <1>2, <1>4 DEF HeapOrdered
<1>7. NewSpaceSaving = [heap |-> NewSpaceSaving.heap, index |-> NewSpaceSaving.index]
  BY DEF NewSpaceSaving
<1> QED
  BY <1>1, <1>2, <1>5, <1>6, <1>7 DEF SSHeap, IsTracker

(* The tracked key at place i gains weight.                                *)
Heavier(ss, i, w) == [ss EXCEPT !.heap[i].count = @ + w]

LEMMA HeavierResult ==
  ASSUME NEW ss, SSHeap(ss), NEW i \in 1..Len(ss.heap), NEW w \in Nat \ {0},
         NEW g, g = HeapifyDown(Heavier(ss, i, w), i)
  PROVE  /\ SSHeap(g) /\ Len(g.heap) = Len(ss.heap)
         /\ Ents(g.heap) = (Ents(ss.heap) \ {ss.heap[i]}) \union
              {Entry(ss.heap[i].key, ss.heap[i].count + w, ss.heap[i].maxError)}
<1> DEFINE h == ss.heap
           x == Entry(h[i].key, h[i].count + w, h[i].maxError)
           f == [h EXCEPT ![i] = x]
           s == [heap |-> f, index |-> ss.index]
<1>1. /\ ss = [heap |-> h, index |-> ss.index] /\ h \in Seq(SSEntries)
      /\ Indexed(ss) /\ HeapOrdered(h)
  BY DEF SSHeap, IsTracker
<1>2. /\ Len(h) \in Nat /\ h \in [1..Len(h) -> SSEntries]
      /\ h[i] \in SSEntries
  BY <1>1, LenProperties, ElementOfSeq
<1>3. x \in SSEntries /\ x.key = h[i].key /\ x.count = h[i].count + w
  BY <1>2 DEF SSEntries, Entry
<1>4. Heavier(ss, i, w) = s
  <2>1. [h[i] EXCEPT !.count = @ + w] = x
    BY <1>2 DEF SSEntries, Entry
  <2>2. Heavier(ss, i, w) = [ss EXCEPT !.heap = [h EXCEPT ![i] = [h[i] EXCEPT !.count = @ + w]]]
    BY DEF Heavier
  <2>3. Heavier(ss, i, w) = [ss EXCEPT !.heap = f]
    BY <2>1, <2>2
  <2> HIDE DEF f, h
  <2> QED
    BY <1>1, <2>3 DEF h
<1>5. f \in Seq(SSEntries) /\ Len(f) = Len(h)
  <2>1. f \in [1..Len(h) -> SSEntries]
    <3> HIDE DEF h, x
    <3> QED BY <1>2, <1>3
  <2> HIDE DEF f, h
  <2> QED
    BY <1>2, <2>1, LenProperties, IsASeq
<1>6. f[i] = x /\ \A j \in 1..Len(h) : j # i => f[j] = h[j]
  <2> HIDE DEF x, h
  <2> QED BY <1>2 DEF h
<1> HIDE DEF f
<1>7. \A j \in 1..Len(h) : f[j].key = h[j].key
  BY <1>3, <1>6
<1>8. IsTracker(s)
  <2>1. Indexed(s)
    BY <1>1, <1>5, <1>7 DEF Indexed
  <2> QED
    BY <1>5, <2>1 DEF IsTracker
<1>9. DownOrd(f, i)
  <2>1. Counts(h) /\ Counts(f)
    BY <1>1, <1>5, SSCounts, CountsOf
  <2>2. h[i].count <= f[i].count
    BY <1>2, <1>3, <1>6 DEF SSEntries
  <2> HIDE DEF h, x
  <2> QED
    BY <1>1, <1>5, <1>6, <2>1, <2>2, GrownOrd DEF h
<1>10. IsTracker(g) /\ g.heap = OrderDown(f, i).heap
  <2>1. IsTracker(s) /\ i \in 1..Len(s.heap) /\ g = HeapifyDown(s, i) /\ s.heap = f
    BY <1>4, <1>5, <1>8
  <2> HIDE DEF s
  <2> QED
    BY <2>1, HeapifyDownIs
<1>11. Rearranged(f, g.heap) /\ HeapOrdered(g.heap)
  <2> DEFINE t == OrderDown(f, i)
  <2>1. SameItems(SSEntries, f, t) /\ HeapOrdered(t.heap)
    BY <1>5, <1>9, SSCounts, DownResult
  <2> HIDE DEF t
  <2>2. g.heap = t.heap
    BY <1>10 DEF t
  <2> QED
    BY <2>1, <2>2 DEF SameItems
<1>12. Ents(f) = (Ents(h) \ {h[i]}) \union {x}
  <2>1. \A j \in 1..Len(h) : j # i => h[j] # h[i]
    BY <1>1, IndexedDistinct DEF Distinct
  <2> HIDE DEF x, h
  <2>2. Ents(f) \subseteq (Ents(h) \ {h[i]}) \union {x}
    BY <1>5, <1>6, <2>1 DEF Ents, h
  <2>3. (Ents(h) \ {h[i]}) \union {x} \subseteq Ents(f)
    BY <1>5, <1>6, <2>1 DEF Ents, h
  <2> QED
    BY <2>2, <2>3
<1>13. Len(g.heap) = Len(h) /\ Ents(g.heap) = Ents(f)
  BY <1>5, <1>11, RearrangedEnts DEF Rearranged
<1> QED
  BY <1>10, <1>11, <1>12, <1>13 DEF SSHeap

(* A newcomer finds room at the end.                                       *)
Joined(ss, key, w) ==
  [heap |-> Append(ss.heap, Entry(key, w, 0)),
   index |-> Put(ss.index, key, Len(ss.heap) + 1)]

LEMMA JoinedResult ==
  ASSUME NEW ss, SSHeap(ss), NEW key \in Key, key \notin DOMAIN ss.index,
         NEW w \in Nat \ {0}, NEW n, n = Len(ss.heap),
         NEW g, g = HeapifyUp(Joined(ss, key, w), n + 1)
  PROVE  /\ SSHeap(g) /\ Len(g.heap) = n + 1
         /\ Ents(g.heap) = Ents(ss.heap) \union {Entry(key, w, 0)}
<1> DEFINE h == ss.heap
           x == Entry(key, w, 0)
           f == Append(h, x)
           y == Put(ss.index, key, n + 1)
           s == [heap |-> f, index |-> y]
<1>1. /\ h \in Seq(SSEntries) /\ Indexed(ss) /\ HeapOrdered(h)
      /\ n \in Nat /\ Len(h) = n
  BY LenProperties DEF SSHeap, IsTracker
<1>2. x \in SSEntries /\ x.key = key
  BY DEF SSEntries, Entry
<1>3. /\ f \in Seq(SSEntries) /\ Len(f) = n+1
      /\ f[n+1] = x /\ \A j \in 1..n : f[j] = h[j]
  BY <1>1, <1>2, LenProperties, AppendProperties
<1>4. /\ DOMAIN y = DOMAIN ss.index \union {key} /\ y[key] = n+1
      /\ \A k \in DOMAIN ss.index : y[k] = ss.index[k]
  BY DEF Put
<1>5. Joined(ss, key, w) = s
  BY DEF Joined
<1> HIDE DEF f, y, x
<1>6. IsTracker(s)
  <2>1. \A i \in 1..n : h[i].key \in DOMAIN ss.index /\ ss.index[h[i].key] = i
    BY <1>1 DEF Indexed
  <2>2. \A k \in DOMAIN ss.index : ss.index[k] \in 1..n /\ h[ss.index[k]].key = k
    BY <1>1 DEF Indexed
  <2>3. ASSUME NEW i \in 1..n+1
        PROVE  f[i].key \in DOMAIN y /\ y[f[i].key] = i
    <3>1. CASE i \in 1..n
      BY <1>3, <1>4, <2>1, <3>1
    <3>2. CASE i = n+1
      BY <1>2, <1>3, <1>4, <3>2
    <3> QED
      BY <1>1, <3>1, <3>2
  <2>4. ASSUME NEW k \in DOMAIN y
        PROVE  y[k] \in 1..n+1 /\ f[y[k]].key = k
    <3>1. CASE k \in DOMAIN ss.index
      <4>1. y[k] \in 1..n /\ f[y[k]] = h[y[k]]
        BY <1>3, <1>4, <2>2, <3>1
      <4>2. y[k] \in 1..n+1
        BY <1>1, <4>1
      <4> QED
        BY <1>4, <2>2, <3>1, <4>1, <4>2
    <3>2. CASE k = key
      <4>1. n+1 \in 1..n+1
        BY <1>1
      <4> QED
        BY <1>2, <1>3, <1>4, <3>2, <4>1
    <3> QED
      BY <1>4, <3>1, <3>2
  <2>5. Indexed(s)
    BY <1>3, <2>3, <2>4 DEF Indexed
  <2> QED
    BY <1>3, <2>5 DEF IsTracker
<1>7. UpOrd(f, n+1)
  BY <1>1, <1>3, AppendedOrd
<1>8. IsTracker(g) /\ g.heap = OrderUp(f, n+1)
  <2>1. IsTracker(s) /\ n+1 \in 1..Len(s.heap) /\ g = HeapifyUp(s, n+1) /\ s.heap = f
    BY <1>1, <1>3, <1>5, <1>6
  <2> HIDE DEF s
  <2> QED
    BY <2>1, HeapifyUpIs
<1>9. Rearranged(f, g.heap) /\ HeapOrdered(g.heap)
  <2>1. n+1 \in 1..Len(f)
    BY <1>1, <1>3
  <2> QED
    BY <1>3, <1>7, <1>8, <2>1, SSCounts, UpResult
<1>10. Ents(f) = Ents(h) \union {x}
  <2>1. \A i \in 1..n+1 : i \in 1..n \/ i = n+1
    BY <1>1
  <2>2. (\A i \in 1..n : i \in 1..n+1) /\ n+1 \in 1..n+1
    BY <1>1
  <2>3. Ents(f) \subseteq Ents(h) \union {x}
    BY <1>1, <1>3, <2>1 DEF Ents
  <2>4. Ents(h) \union {x} \subseteq Ents(f)
    BY <1>1, <1>3, <2>2 DEF Ents
  <2> QED
    BY <2>3, <2>4
<1>11. Len(g.heap) = n+1 /\ Ents(g.heap) = Ents(f)
  BY <1>3, <1>9, RearrangedEnts DEF Rearranged
<1> QED
  BY <1>8, <1>9, <1>10, <1>11 DEF SSHeap, x

(* A newcomer takes the place of the first entry.                          *)
Evicted(ss, key, w) ==
  [heap |-> [ss.heap EXCEPT ![1] = Entry(key, ss.heap[1].count + w, ss.heap[1].count)],
   index |-> Put(Delete(ss.index, ss.heap[1].key), key, 1)]

LEMMA EvictedResult ==
  ASSUME NEW ss, SSHeap(ss), 1 \in 1..Len(ss.heap), NEW key \in Key,
         key \notin DOMAIN ss.index, NEW w \in Nat \ {0},
         NEW g, g = HeapifyDown(Evicted(ss, key, w), 1)
  PROVE  /\ SSHeap(g) /\ Len(g.heap) = Len(ss.heap)
         /\ Ents(g.heap) = (Ents(ss.heap) \ {ss.heap[1]}) \union
              {Entry(key, ss.heap[1].count + w, ss.heap[1].count)}
<1> DEFINE h == ss.heap
           n == Len(h)
           x == Entry(key, h[1].count + w, h[1].count)
           f == [h EXCEPT ![1] = x]
           old == h[1].key
           y == Put(Delete(ss.index, old), key, 1)
           s == [heap |-> f, index |-> y]
<1>1. h \in Seq(SSEntries) /\ Indexed(ss) /\ HeapOrdered(h)
  BY DEF SSHeap, IsTracker
<1>2. n \in Nat /\ h \in [1..n -> SSEntries] /\ h[1] \in SSEntries
  BY <1>1, LenProperties, ElementOfSeq
<1>3. x \in SSEntries /\ x.key = key /\ x.count = h[1].count + w
  BY <1>2 DEF SSEntries, Entry
<1>4. Evicted(ss, key, w) = s
  BY DEF Evicted
<1>5. f \in Seq(SSEntries) /\ Len(f) = n
  <2>1. f \in [1..n -> SSEntries]
    <3> HIDE DEF n, h, x
    <3> QED BY <1>2, <1>3
  <2> HIDE DEF f, n
  <2> QED
    BY <1>2, <2>1, LenProperties, IsASeq
<1>6. f[1] = x /\ \A j \in 1..n : j # 1 => f[j] = h[j]
  <2> HIDE DEF x, h, n
  <2> QED BY <1>2 DEF h, n
<1>7. /\ DOMAIN y = (DOMAIN ss.index \ {old}) \union {key} /\ y[key] = 1
      /\ \A k \in DOMAIN ss.index : k # old /\ k # key => y[k] = ss.index[k]
  BY DEF Put, Delete
<1> HIDE DEF f, y, x
<1>8. IsTracker(s)
  <2>1. \A i \in 1..n : h[i].key \in DOMAIN ss.index /\ ss.index[h[i].key] = i
    BY <1>1 DEF Indexed
  <2>2. \A k \in DOMAIN ss.index : ss.index[k] \in 1..n /\ h[ss.index[k]].key = k
    BY <1>1 DEF Indexed
  <2>3. ASSUME NEW i \in 1..n
        PROVE  f[i].key \in DOMAIN y /\ y[f[i].key] = i
    <3>1. CASE i = 1
      BY <1>3, <1>6, <1>7, <3>1
    <3>2. CASE i # 1
      <4>1. f[i] = h[i] /\ h[i].key # old /\ h[i].key # key
        BY <1>6, <2>1, <3>2
      <4> QED
        BY <1>7, <2>1, <4>1
    <3> QED
      BY <3>1, <3>2
  <2>4. ASSUME NEW k \in DOMAIN y
        PROVE  y[k] \in 1..n /\ f[y[k]].key = k
    <3>1. CASE k = key
      BY <1>3, <1>6, <1>7, <3>1
    <3>2. CASE k # key
      <4>1. k \in DOMAIN ss.index /\ k # old /\ y[k] = ss.index[k]
        BY <1>7, <3>2
      <4>2. ss.index[k] \in 1..n /\ h[ss.index[k]].key = k /\ ss.index[k] # 1
        BY <2>2, <4>1
      <4> QED
        BY <1>6, <4>1, <4>2
    <3> QED
      BY <3>1, <3>2
  <2>5. Indexed(s)
    BY <1>5, <2>3, <2>4 DEF Indexed
  <2> QED
    BY <1>5, <2>5 DEF IsTracker
<1>9. DownOrd(f, 1)
  <2>1. Counts(h) /\ Counts(f)
    BY <1>1, <1>5, SSCounts, CountsOf
  <2>2. h[1].count <= f[1].count
    BY <1>2, <1>3, <1>6 DEF SSEntries
  <2> HIDE DEF h
  <2> QED
    BY <1>1, <1>5, <1>6, <2>1, <2>2, GrownOrd DEF h
<1>10. IsTracker(g) /\ g.heap = OrderDown(f, 1).heap
  <2>1. IsTracker(s) /\ 1 \in 1..Len(s.heap) /\ g = HeapifyDown(s, 1) /\ s.heap = f
    BY <1>4, <1>5, <1>8
  <2> HIDE DEF s
  <2> QED
    BY <2>1, HeapifyDownIs
<1>11. Rearranged(f, g.heap) /\ HeapOrdered(g.heap)
  <2> DEFINE t == OrderDown(f, 1)
  <2>0. 1 \in 1..Len(f)
    BY <1>5
  <2>1. SameItems(SSEntries, f, t) /\ HeapOrdered(t.heap)
    BY <1>5, <1>9, <2>0, SSCounts, DownResult
  <2> HIDE DEF t
  <2>2. g.heap = t.heap
    BY <1>10 DEF t
  <2> QED
    BY <2>1, <2>2 DEF SameItems
<1>12. Ents(f) = (Ents(h) \ {h[1]}) \union {x}
  <2>1. \A j \in 1..n : j # 1 => h[j] # h[1]
    BY <1>1, IndexedDistinct DEF Distinct
  <2>2. Ents(f) \subseteq (Ents(h) \ {h[1]}) \union {x}
    BY <1>5, <1>6, <2>1 DEF Ents
  <2>3. (Ents(h) \ {h[1]}) \union {x} \subseteq Ents(f)
    BY <1>5, <1>6, <2>1 DEF Ents
  <2> QED
    BY <2>2, <2>3
<1>13. Len(g.heap) = n /\ Ents(g.heap) = Ents(f)
  BY <1>5, <1>11, RearrangedEnts DEF Rearranged
<1> QED
  BY <1>10, <1>11, <1>12, <1>13 DEF SSHeap, x

(* Update of a tracker of capacity k: what becomes of its entries.         *)
Gains(S, T, key, w) ==
  \E x \in S : /\ x.key = key
               /\ T = (S \ {x}) \union {Entry(key, x.count + w, x.maxError)}

Joins(S, T, key, w) ==
  /\ \A x \in S : x.key # key
  /\ T = S \union {Entry(key, w, 0)}

TakesOver(S, T, key, w) ==
  /\ \A x \in S : x.key # key
  /\ \E m \in S : /\ \A x \in S : m.count <= x.count
                  /\ T = (S \ {m}) \union {Entry(key, m.count + w, m.count)}

LEMMA SpaceSavingUpdateResult ==
  ASSUME NEW ss, SSHeap(ss), NEW k \in Nat \ {0}, Len(ss.heap) <= k,
         NEW key \in Key, NEW w \in Nat \ {0},
         NEW g, g = SpaceSavingUpdate(ss, k, key, w)
  PROVE  LET S == Ents(ss.heap)
             T == Ents(g.heap)
         IN  /\ SSHeap(g) /\ Len(g.heap) <= k
             /\ \/ Gains(S, T, key, w)
                \/ Len(ss.heap) < k /\ Joins(S, T, key, w)
                \/ Len(ss.heap) = k /\ TakesOver(S, T, key, w)
<1> DEFINE h == ss.heap
           S == Ents(h)
           T == Ents(g.heap)
           n == Len(h)
<1>1. h \in Seq(SSEntries) /\ Indexed(ss) /\ HeapOrdered(h) /\ n \in Nat
  BY LenProperties DEF SSHeap, IsTracker
<1>2. ~ (w <= 0)
  OBVIOUS
<1>3. /\ \A i \in 1..n : h[i].key \in DOMAIN ss.index
      /\ \A x \in DOMAIN ss.index : ss.index[x] \in 1..n /\ h[ss.index[x]].key = x
  BY <1>1 DEF Indexed
<1>4. CASE key \in DOMAIN ss.index
  <2> DEFINE i == ss.index[key]
  <2>1. i \in 1..n /\ h[i].key = key
    BY <1>3, <1>4
  <2>2. g = HeapifyDown(Heavier(ss, i, w), i)
    BY <1>2, <1>4 DEF SpaceSavingUpdate, Heavier
  <2> HIDE DEF i
  <2>3. /\ SSHeap(g) /\ Len(g.heap) = n
        /\ T = (S \ {h[i]}) \union {Entry(h[i].key, h[i].count + w, h[i].maxError)}
    BY <2>1, <2>2, HeavierResult
  <2>4. Gains(S, T, key, w)
    <3>1. h[i] \in S
      BY <2>1 DEF Ents
    <3> HIDE DEF S, T, h
    <3> QED BY <2>1, <2>3, <3>1 DEF Gains
  <2> QED
    BY <2>3, <2>4
<1>5. CASE key \notin DOMAIN ss.index /\ n < k
  <2>1. g = HeapifyUp(Joined(ss, key, w), n + 1)
    BY <1>2, <1>5 DEF SpaceSavingUpdate, Joined
  <2>2. SSHeap(g) /\ Len(g.heap) = n + 1 /\ T = S \union {Entry(key, w, 0)}
    BY <1>5, <2>1, JoinedResult, ZenonT(60)
  <2>3. \A x \in S : x.key # key
    BY <1>3, <1>5 DEF Ents
  <2>4. Joins(S, T, key, w)
    BY <2>2, <2>3 DEF Joins
  <2>5. n + 1 <= k
    <3> HIDE DEF n
    <3> QED BY <1>1, <1>5
  <2> QED
    BY <1>5, <2>2, <2>4, <2>5
<1>6. CASE key \notin DOMAIN ss.index /\ ~ (n < k)
  <2>1. n = k /\ 1 \in 1..n
    <3> HIDE DEF n
    <3>1. n <= k
      BY DEF n
    <3> QED BY <1>1, <1>6, <3>1
  <2>2. g = HeapifyDown(Evicted(ss, key, w), 1)
    BY <1>2, <1>6 DEF SpaceSavingUpdate, Evicted
  <2>3. /\ SSHeap(g) /\ Len(g.heap) = n
        /\ T = (S \ {h[1]}) \union {Entry(key, h[1].count + w, h[1].count)}
    BY <1>6, <2>1, <2>2, EvictedResult
  <2>4. \A x \in S : x.key # key
    BY <1>3, <1>6 DEF Ents
  <2>5. \A x \in S : h[1].count <= x.count
    <3>1. Counts(h)
      BY <1>1, SSCounts, CountsOf
    <3>2. \A i \in 1..n : h[1].count <= h[i].count
      BY <1>1, <3>1, RootIsLeast
    <3> QED
      BY <3>2 DEF Ents
  <2>6. TakesOver(S, T, key, w)
    <3>1. h[1] \in S
      BY <2>1 DEF Ents
    <3> HIDE DEF S, T, h
    <3> QED BY <2>3, <2>4, <2>5, <3>1 DEF TakesOver
  <2>7. Len(g.heap) <= k
    BY <2>1, <2>3
  <2> QED
    BY <2>1, <2>3, <2>6, <2>7
<1> QED
  BY <1>4, <1>5, <1>6

(* The count and error of a key are those of its entry, and 0 without one. *)
LEMMA CountOfIs ==
  ASSUME NEW ss, SSHeap(ss)
  PROVE  /\ \A x \in Ents(ss.heap) : /\ x \in SSEntries
                                     /\ CountOf(ss, x.key) = x.count
                                     /\ ErrorOf(ss, x.key) = x.maxError
         /\ \A k : (\A x \in Ents(ss.heap) : x.key # k) =>
              CountOf(ss, k) = 0 /\ ErrorOf(ss, k) = 0
         /\ \A x, y \in Ents(ss.heap) : x.key = y.key => x = y
<1> DEFINE h == ss.heap
<1>1. h \in Seq(SSEntries) /\ Distinct(h)
  BY IndexedDistinct DEF SSHeap, IsTracker
<1>2. \A i, j \in 1..Len(h) : h[i].key = h[j].key => i = j
  BY <1>1 DEF Distinct
<1>3. ASSUME NEW x \in Ents(h)
      PROVE  /\ x \in SSEntries
             /\ CountOf(ss, x.key) = x.count
             /\ ErrorOf(ss, x.key) = x.maxError
  <2>1. PICK i \in 1..Len(h) : h[i] = x
    BY DEF Ents
  <2>2. x \in SSEntries
    BY <1>1, <2>1, ElementOfSeq
  <2>3. EntriesOf(ss, x.key) = {i}
    BY <1>2, <2>1 DEF EntriesOf
  <2>4. (CHOOSE j \in {i} : TRUE) = i
    OBVIOUS
  <2>5. {i} # {}
    OBVIOUS
  <2> QED
    BY <2>1, <2>2, <2>3, <2>4, <2>5 DEF CountOf, ErrorOf
<1>4. ASSUME NEW k, \A x \in Ents(h) : x.key # k
      PROVE  CountOf(ss, k) = 0 /\ ErrorOf(ss, k) = 0
  <2>1. EntriesOf(ss, k) = {}
    BY <1>4 DEF EntriesOf, Ents
  <2> QED
    BY <2>1 DEF CountOf, ErrorOf
<1>5. \A x, y \in Ents(h) : x.key = y.key => x = y
  BY <1>2 DEF Ents
<1> QED
  BY <1>3, <1>4, <1>5

(* The tracked keys are as many as the entries.                            *)
KeysOf(ss) == {x.key : x \in Ents(ss.heap)}

LEMMA TrackedKeys ==
  ASSUME NEW ss, SSHeap(ss)
  PROVE  /\ {k \in Key : CountOf(ss, k) > 0} = KeysOf(ss)
         /\ Cardinality(KeysOf(ss)) = Len(ss.heap)
<1> DEFINE h == ss.heap
           K == KeysOf(ss)
<1>1. h \in Seq(SSEntries) /\ Distinct(h) /\ Len(h) \in Nat
  BY IndexedDistinct, LenProperties DEF SSHeap, IsTracker
<1>2. \A x \in Ents(h) : x.key \in Key /\ CountOf(ss, x.key) > 0
  <2>1. \A x \in Ents(h) : x \in SSEntries /\ CountOf(ss, x.key) = x.count
    BY CountOfIs
  <2> QED
    BY <2>1 DEF SSEntries
<1>3. K \subseteq {k \in Key : CountOf(ss, k) > 0}
  BY <1>2 DEF KeysOf
<1>4. ASSUME NEW k \in Key, CountOf(ss, k) > 0
      PROVE  k \in K
  <2>1. (\A x \in Ents(h) : x.key # k) => CountOf(ss, k) = 0
    BY CountOfIs
  <2>2. ~ (0 > 0)
    OBVIOUS
  <2>3. ~ \A x \in Ents(h) : x.key # k
    BY <1>4, <2>1, <2>2
  <2> QED
    BY <2>3 DEF KeysOf
<1>5. Cardinality(K) = Len(h)
  <2> DEFINE f == [i \in 1..Len(h) |-> h[i].key]
  <2>1. f \in [1..Len(h) -> K]
    BY DEF KeysOf, Ents
  <2>2. \A i, j \in 1..Len(h) : f[i] = f[j] => i = j
    BY <1>1 DEF Distinct
  <2>3. \A k \in K : \E i \in 1..Len(h) : f[i] = k
    BY DEF KeysOf, Ents
  <2> HIDE DEF f, h, K
  <2>4. f \in Bijection(1..Len(h), K)
    BY <2>1, <2>2, <2>3 DEF Bijection, Injection, Surjection, IsInjective
  <2>5. ExistsBijection(1..Len(h), K)
    BY <2>4 DEF ExistsBijection
  <2>6. IsFiniteSet(1..Len(h)) /\ Cardinality(1..Len(h)) = Len(h)
    BY <1>1, FS_Interval, SMTT(30)
  <2> QED
    BY <2>5, <2>6, FS_Bijection
<1> QED
  BY <1>3, <1>4, <1>5

(* A key whose entry stays keeps its count and its error.                  *)
LEMMA UntouchedKey ==
  ASSUME NEW ss, NEW g, SSHeap(ss), SSHeap(g), NEW k,
         \A x : x.key = k => (x \in Ents(ss.heap) <=> x \in Ents(g.heap))
  PROVE  CountOf(g, k) = CountOf(ss, k) /\ ErrorOf(g, k) = ErrorOf(ss, k)
<1>1. CASE \E x \in Ents(ss.heap) : x.key = k
  <2>1. PICK x \in Ents(ss.heap) : x.key = k
    BY <1>1
  <2>2. x \in Ents(g.heap)
    BY <2>1
  <2>3. CountOf(ss, x.key) = x.count /\ ErrorOf(ss, x.key) = x.maxError
    BY CountOfIs
  <2>4. CountOf(g, x.key) = x.count /\ ErrorOf(g, x.key) = x.maxError
    BY <2>2, CountOfIs
  <2> QED
    BY <2>1, <2>3, <2>4
<1>2. CASE \A x \in Ents(ss.heap) : x.key # k
  <2>1. \A x \in Ents(g.heap) : x.key # k
    BY <1>2
  <2>2. CountOf(ss, k) = 0 /\ ErrorOf(ss, k) = 0
    BY <1>2, CountOfIs
  <2>3. CountOf(g, k) = 0 /\ ErrorOf(g, k) = 0
    BY <2>1, CountOfIs
  <2> QED
    BY <2>2, <2>3
<1> QED
  BY <1>1, <1>2

CountsIn(ss) == [k \in Key |-> CountOf(ss, k)]
ErrorsIn(ss) == [k \in Key |-> ErrorOf(ss, k)]
TrackedIn(ss) == {k \in Key : CountsIn(ss)[k] > 0}

(* An update of the heap is one of the steps that Space Saving takes.      *)
TrackerStep(ss, g, key, w) ==
  \/ /\ key \in TrackedIn(ss)
     /\ CountsIn(g) = [CountsIn(ss) EXCEPT ![key] = @ + w]
     /\ ErrorsIn(g) = ErrorsIn(ss)
  \/ /\ key \notin TrackedIn(ss) /\ Cardinality(TrackedIn(ss)) < TrackerSize
     /\ CountsIn(g) = [CountsIn(ss) EXCEPT ![key] = w]
     /\ ErrorsIn(g) = ErrorsIn(ss)
  \/ \E m \in TrackedIn(ss) :
       /\ key \notin TrackedIn(ss) /\ Cardinality(TrackedIn(ss)) >= TrackerSize
       /\ \A j \in TrackedIn(ss) : CountsIn(ss)[m] <= CountsIn(ss)[j]
       /\ CountsIn(g) = [CountsIn(ss) EXCEPT ![m] = 0, ![key] = CountsIn(ss)[m] + w]
       /\ ErrorsIn(g) = [ErrorsIn(ss) EXCEPT ![m] = 0, ![key] = CountsIn(ss)[m]]

LEMMA UpdateIsStep ==
  ASSUME NEW ss, SSHeap(ss), Len(ss.heap) <= TrackerSize, TrackerSize \in Nat \ {0},
         NEW key \in Key, NEW w \in Nat \ {0},
         NEW g, g = SpaceSavingUpdate(ss, TrackerSize, key, w)
  PROVE  SSHeap(g) /\ Len(g.heap) <= TrackerSize /\ TrackerStep(ss, g, key, w)
<1> DEFINE S == Ents(ss.heap)
           T == Ents(g.heap)
           c == CountsIn(ss)
           d == CountsIn(g)
           x == ErrorsIn(ss)
           y == ErrorsIn(g)
<1>1. /\ SSHeap(g) /\ Len(g.heap) <= TrackerSize
      /\ \/ Gains(S, T, key, w)
         \/ Len(ss.heap) < TrackerSize /\ Joins(S, T, key, w)
         \/ Len(ss.heap) = TrackerSize /\ TakesOver(S, T, key, w)
  BY SpaceSavingUpdateResult
<1>2. /\ TrackedIn(ss) = KeysOf(ss)
      /\ Cardinality(TrackedIn(ss)) = Len(ss.heap) /\ Len(ss.heap) \in Nat
  BY TrackedKeys, LenProperties DEF TrackedIn, CountsIn, SSHeap, IsTracker
<1>3. /\ \A z \in S : z \in SSEntries /\ c[z.key] = z.count /\ x[z.key] = z.maxError
      /\ \A z \in T : z \in SSEntries /\ d[z.key] = z.count /\ y[z.key] = z.maxError
  <2>1. \A z \in SSEntries : z.key \in Key
    BY DEF SSEntries
  <2>2. \A z \in S : z \in SSEntries /\ CountOf(ss, z.key) = z.count
                                     /\ ErrorOf(ss, z.key) = z.maxError
    BY CountOfIs
  <2>3. \A z \in T : z \in SSEntries /\ CountOf(g, z.key) = z.count
                                     /\ ErrorOf(g, z.key) = z.maxError
    BY <1>1, CountOfIs
  <2> QED
    BY <2>1, <2>2, <2>3 DEF CountsIn, ErrorsIn
<1>4. \A k \in Key : (\A z : z.key = k => (z \in S <=> z \in T))
                       => d[k] = c[k] /\ y[k] = x[k]
  BY <1>1, UntouchedKey DEF CountsIn, ErrorsIn
<1>5. /\ c = [k \in Key |-> c[k]] /\ d = [k \in Key |-> d[k]]
      /\ x = [k \in Key |-> x[k]] /\ y = [k \in Key |-> y[k]]
  BY DEF CountsIn, ErrorsIn
<1>6. \A z \in S : z.key \in TrackedIn(ss)
  BY <1>2 DEF KeysOf
<1>7. ASSUME \A z \in S : z.key # key
      PROVE  key \notin TrackedIn(ss) /\ c[key] = 0 /\ x[key] = 0
  <2>1. key \notin TrackedIn(ss)
    BY <1>2, <1>7 DEF KeysOf
  <2>2. CountOf(ss, key) = 0 /\ ErrorOf(ss, key) = 0
    BY <1>7, CountOfIs
  <2> QED
    BY <2>1, <2>2 DEF CountsIn, ErrorsIn
<1> HIDE DEF S, T, c, d, x, y
<1>8. CASE Gains(S, T, key, w)
  <2>1. PICK z \in S : z.key = key /\ T = (S \ {z}) \union {Entry(key, z.count + w, z.maxError)}
    BY <1>8 DEF Gains
  <2> DEFINE n == Entry(key, z.count + w, z.maxError)
  <2>2. n \in T /\ n.key = key /\ n.count = z.count + w /\ n.maxError = z.maxError
    BY <2>1 DEF Entry
  <2> HIDE DEF n
  <2>3. d[key] = c[key] + w /\ y[key] = x[key]
    BY <1>3, <2>1, <2>2
  <2>4. ASSUME NEW k \in Key, k # key
        PROVE  d[k] = c[k] /\ y[k] = x[k]
    <3>1. \A v : v.key = k => (v \in S <=> v \in T)
      BY <2>1, <2>2, <2>4 DEF n
    <3> QED
      BY <1>4, <3>1
  <2>5. d = [c EXCEPT ![key] = @ + w] /\ y = x
    BY <1>5, <2>3, <2>4
  <2>6. key \in TrackedIn(ss)
    BY <1>6, <2>1
  <2> QED
    BY <1>1, <2>5, <2>6 DEF TrackerStep, c, d, x, y
<1>9. CASE Len(ss.heap) < TrackerSize /\ Joins(S, T, key, w)
  <2>1. (\A z \in S : z.key # key) /\ T = S \union {Entry(key, w, 0)}
    BY <1>9 DEF Joins
  <2> DEFINE n == Entry(key, w, 0)
  <2>2. n \in T /\ n.key = key /\ n.count = w /\ n.maxError = 0
    BY <2>1 DEF Entry
  <2> HIDE DEF n
  <2>3. key \notin TrackedIn(ss) /\ c[key] = 0 /\ x[key] = 0
    BY <1>7, <2>1
  <2>4. d[key] = w /\ y[key] = x[key]
    BY <1>3, <2>2, <2>3
  <2>5. ASSUME NEW k \in Key, k # key
        PROVE  d[k] = c[k] /\ y[k] = x[k]
    <3>1. \A v : v.key = k => (v \in S <=> v \in T)
      BY <2>1, <2>2, <2>5 DEF n
    <3> QED
      BY <1>4, <3>1
  <2>6. d = [c EXCEPT ![key] = w] /\ y = x
    BY <1>5, <2>4, <2>5
  <2>7. Cardinality(TrackedIn(ss)) < TrackerSize
    BY <1>2, <1>9
  <2> QED
    BY <1>1, <2>3, <2>6, <2>7 DEF TrackerStep, c, d, x, y
<1>10. CASE Len(ss.heap) = TrackerSize /\ TakesOver(S, T, key, w)
  <2>1. \A z \in S : z.key # key
    BY <1>10 DEF TakesOver
  <2>2. PICK z \in S : /\ \A v \in S : z.count <= v.count
                       /\ T = (S \ {z}) \union {Entry(key, z.count + w, z.count)}
    BY <1>10 DEF TakesOver
  <2> DEFINE n == Entry(key, z.count + w, z.count)
             m == z.key
  <2>3. n \in T /\ n.key = key /\ n.count = z.count + w /\ n.maxError = z.count
    BY <2>2 DEF Entry
  <2> HIDE DEF n
  <2>4. key \notin TrackedIn(ss) /\ m \in TrackedIn(ss) /\ m # key /\ m \in Key
    BY <1>6, <1>7, <2>1, <2>2 DEF TrackedIn
  <2>5. c[m] = z.count /\ d[key] = c[m] + w /\ y[key] = c[m]
    BY <1>3, <2>2, <2>3
  <2>6. d[m] = 0 /\ y[m] = 0
    <3>1. \A v \in S : v.key = m => v = z
      BY <2>2, CountOfIs DEF S
    <3>2. \A v \in T : v.key # m
      BY <2>2, <2>3, <2>4, <3>1 DEF n
    <3>3. CountOf(g, m) = 0 /\ ErrorOf(g, m) = 0
      BY <1>1, <3>2, CountOfIs DEF T
    <3> QED
      BY <2>4, <3>3 DEF d, y, CountsIn, ErrorsIn
  <2>7. ASSUME NEW k \in Key, k # key, k # m
        PROVE  d[k] = c[k] /\ y[k] = x[k]
    <3>1. \A v : v.key = k => (v \in S <=> v \in T)
      BY <2>2, <2>3, <2>7 DEF n
    <3> QED
      BY <1>4, <3>1
  <2> HIDE DEF m
  <2>8. /\ d = [c EXCEPT ![m] = 0, ![key] = c[m] + w]
        /\ y = [x EXCEPT ![m] = 0, ![key] = c[m]]
    BY <1>5, <2>4, <2>5, <2>6, <2>7
  <2>9. \A j \in TrackedIn(ss) : c[m] <= c[j]
    <3> SUFFICES ASSUME NEW j \in TrackedIn(ss)
                 PROVE  c[m] <= c[j]
      OBVIOUS
    <3>1. PICK v \in S : v.key = j
      BY <1>2 DEF KeysOf, S
    <3> QED
      BY <1>3, <2>2, <2>5, <3>1
  <2>10. Cardinality(TrackedIn(ss)) >= TrackerSize
    BY <1>2, <1>10
  <2> QED
    BY <1>1, <2>4, <2>8, <2>9, <2>10 DEF TrackerStep, c, d, x, y
<1> QED
  BY <1>1, <1>8, <1>9, <1>10

-----------------------------------------------------------------------------
(* The trackers of the edges.                                              *)

Trackers ==
  /\ conf \in Config
  /\ DOMAIN edge = Edge /\ weight \in [Edge -> [Key -> Nat]]
  /\ \A e \in Edge : SSHeap(edge[e].ss) /\ Len(edge[e].ss.heap) <= TrackerSize

LEMMA TrackerSizes ==
  /\ TrackerSize \in Nat \ {0} /\ Weight \subseteq Nat \ {0}
  /\ conf \in Config => 1 \in Edge
<1>1. TrackerSize \in Nat \ {0} /\ Weight \subseteq Nat \ {0}
  BY EdgeSyncAssumption
<1>2. conf \in Config => conf.edges \in Nat \ {0}
  BY EdgeSyncAssumption
<1> QED
  BY <1>1, <1>2 DEF Edge

LEMMA TrackersInit == Init => Trackers
<1> SUFFICES ASSUME Init
             PROVE  Trackers
  OBVIOUS
<1>1. NoWeight \in [Key -> Nat]
  BY DEF NoWeight
<1>2. weight \in [Edge -> [Key -> Nat]]
  BY <1>1 DEF Init
<1>3. ASSUME NEW e \in Edge
      PROVE  SSHeap(edge[e].ss) /\ Len(edge[e].ss.heap) <= TrackerSize
  <2>1. edge[e].ss = NewSpaceSaving
    BY DEF Init, NewSketch
  <2>2. Len(<< >>) = 0
    OBVIOUS
  <2> QED
    BY <2>1, <2>2, NewIsTracker, TrackerSizes
<1> QED
  BY <1>2, <1>3 DEF Init, Trackers

(* An item reaches the tracker of its edge, if there is one.               *)
LEMMA UpdateTracker ==
  ASSUME Trackers, NEW e \in Edge, NEW k \in Key, NEW w \in Weight, NEW R \in SUBSET Row,
         Update(e, k, w, R)
  PROVE  /\ UNCHANGED conf /\ DOMAIN edge' = Edge
         /\ weight' \in [Edge -> [Key -> Nat]]
         /\ \A o \in Edge : o # e => edge'[o] = edge[o] /\ weight'[o] = weight[o]
         /\ SSHeap(edge'[e].ss) /\ Len(edge'[e].ss.heap) <= TrackerSize
         /\ conf.sketch = "cs" =>
              /\ TrackerStep(edge[e].ss, edge'[e].ss, k, w)
              /\ weight'[e] = [weight[e] EXCEPT ![k] = @ + w]
         /\ conf.sketch # "cs" => edge'[e].ss = edge[e].ss /\ weight'[e] = weight[e]
<1>1. /\ DOMAIN edge = Edge /\ weight \in [Edge -> [Key -> Nat]]
      /\ SSHeap(edge[e].ss) /\ Len(edge[e].ss.heap) <= TrackerSize
  BY DEF Trackers
<1>2. w \in Nat \ {0} /\ TrackerSize \in Nat \ {0}
  BY TrackerSizes
<1>3. /\ UNCHANGED conf /\ DOMAIN edge' = Edge
      /\ \A o \in Edge : o # e => edge'[o] = edge[o]
      /\ edge'[e].ss = Offered(edge[e], k, w)
  BY <1>1 DEF Update
<1>4. weight' = IF conf.sketch = "cs" THEN [weight EXCEPT ![e][k] = @ + w] ELSE weight
  BY DEF Update
<1>5. CASE conf.sketch = "cs"
  <2>1. edge'[e].ss = SpaceSavingUpdate(edge[e].ss, TrackerSize, k, w)
    BY <1>3, <1>5 DEF Offered
  <2>2. /\ SSHeap(edge'[e].ss) /\ Len(edge'[e].ss.heap) <= TrackerSize
        /\ TrackerStep(edge[e].ss, edge'[e].ss, k, w)
    BY <1>1, <1>2, <2>1, UpdateIsStep
  <2>3. weight' = [weight EXCEPT ![e] = [weight[e] EXCEPT ![k] = @ + w]]
    BY <1>4, <1>5
  <2>4. weight[e] \in [Key -> Nat]
    BY <1>1
  <2>5. [weight[e] EXCEPT ![k] = @ + w] \in [Key -> Nat]
    BY <1>2, <2>4
  <2>6. /\ weight' \in [Edge -> [Key -> Nat]]
        /\ \A o \in Edge : o # e => weight'[o] = weight[o]
        /\ weight'[e] = [weight[e] EXCEPT ![k] = @ + w]
    BY <1>1, <2>3, <2>5
  <2> QED
    BY <1>3, <1>5, <2>2, <2>6
<1>6. CASE conf.sketch # "cs"
  <2>1. edge'[e].ss = edge[e].ss /\ weight' = weight
    BY <1>3, <1>4, <1>6 DEF Offered
  <2> QED
    BY <1>1, <1>3, <1>6, <2>1
<1> QED
  BY <1>5, <1>6

(* A delta leaves the trackers alone or clears one.                        *)
LEMMA SyncTracker ==
  ASSUME Trackers, NEW e \in Edge, Sync(e)
  PROVE  /\ UNCHANGED conf
         /\ \/ UNCHANGED <<edge, weight>>
            \/ /\ DOMAIN edge' = Edge /\ weight' \in [Edge -> [Key -> Nat]]
               /\ \A o \in Edge : o # e => edge'[o] = edge[o] /\ weight'[o] = weight[o]
               /\ edge'[e].ss = NewSpaceSaving /\ weight'[e] = NoWeight
<1>1. DOMAIN edge = Edge /\ weight \in [Edge -> [Key -> Nat]]
  BY DEF Trackers
<1>2. CASE conf.sync = "window"
  BY <1>2 DEF Sync
<1>3. CASE conf.sync # "window"
  <2>1. /\ edge' = [edge EXCEPT ![e] = NewSketch]
        /\ weight' = [weight EXCEPT ![e] = NoWeight]
        /\ UNCHANGED conf
    BY <1>3 DEF Sync
  <2>2. NoWeight \in [Key -> Nat] /\ NewSketch.ss = NewSpaceSaving
    BY DEF NoWeight, NewSketch
  <2> HIDE DEF Edge
  <2>3. /\ DOMAIN edge' = Edge /\ weight' \in [Edge -> [Key -> Nat]]
        /\ \A o \in Edge : o # e => edge'[o] = edge[o] /\ weight'[o] = weight[o]
        /\ edge'[e] = NewSketch /\ weight'[e] = NoWeight
    BY <1>1, <2>1, <2>2
  <2> QED
    BY <2>1, <2>2, <2>3
<1> QED
  BY <1>2, <1>3

LEMMA TrackersNext == Trackers /\ [Next]_vars => Trackers'
<1> SUFFICES ASSUME Trackers, [Next]_vars
             PROVE  Trackers'
  OBVIOUS
<1>1. /\ conf \in Config /\ DOMAIN edge = Edge /\ weight \in [Edge -> [Key -> Nat]]
      /\ \A e \in Edge : SSHeap(edge[e].ss) /\ Len(edge[e].ss.heap) <= TrackerSize
  BY DEF Trackers
<1>2. UNCHANGED conf /\ Edge' = Edge
  BY ConfKept DEF Edge
<1>3. ASSUME NEW e \in Edge, NEW k \in Key, NEW w \in Weight, NEW R \in SUBSET Row,
             Update(e, k, w, R)
      PROVE  Trackers'
  <2>1. /\ DOMAIN edge' = Edge /\ weight' \in [Edge -> [Key -> Nat]]
        /\ \A o \in Edge : o # e => edge'[o] = edge[o] /\ weight'[o] = weight[o]
        /\ SSHeap(edge'[e].ss) /\ Len(edge'[e].ss.heap) <= TrackerSize
    BY <1>3, UpdateTracker
  <2> QED
    BY <1>1, <1>2, <2>1 DEF Trackers
<1>4. ASSUME UNCHANGED <<edge, weight>>
      PROVE  Trackers'
  BY <1>1, <1>2, <1>4 DEF Trackers
<1>5. ASSUME NEW e \in Edge, Sync(e)
      PROVE  Trackers'
  <2>1. CASE UNCHANGED <<edge, weight>>
    BY <1>4, <2>1
  <2>2. CASE ~ UNCHANGED <<edge, weight>>
    <3>1. /\ DOMAIN edge' = Edge /\ weight' \in [Edge -> [Key -> Nat]]
          /\ \A o \in Edge : o # e => edge'[o] = edge[o] /\ weight'[o] = weight[o]
          /\ edge'[e].ss = NewSpaceSaving
      BY <1>5, <2>2, SyncTracker
    <3>2. Len(<< >>) = 0
      OBVIOUS
    <3>3. SSHeap(edge'[e].ss) /\ Len(edge'[e].ss.heap) <= TrackerSize
      BY <3>1, <3>2, NewIsTracker, TrackerSizes
    <3> QED
      BY <1>1, <1>2, <3>1, <3>3 DEF Trackers
  <2> QED
    BY <2>1, <2>2
<1>6. ASSUME NEW e \in Edge, ApplyDelta(e)
      PROVE  UNCHANGED <<edge, weight>>
  BY <1>6 DEF ApplyDelta
<1>7. CASE UNCHANGED vars
  BY <1>4, <1>7 DEF vars
<1> QED
  BY <1>3, <1>4, <1>5, <1>6, <1>7 DEF Next

(* The heap with its index is the table of Space Saving.                   *)
THEOREM TrackerKept == Spec => TrackerKeeps
<1>1. Init => SS!Init
  <2> SUFFICES ASSUME Init
               PROVE  SS!Init
    OBVIOUS
  <2>1. 1 \in Edge
    BY TrackerSizes DEF Init
  <2>2. edge[1].ss = NewSpaceSaving /\ weight[1] = NoWeight
    BY <2>1 DEF Init, NewSketch
  <2>3. \A k : CountOf(NewSpaceSaving, k) = 0 /\ ErrorOf(NewSpaceSaving, k) = 0
    <3>1. Ents(NewSpaceSaving.heap) = {}
      <4>1. 1..Len(<< >>) = {}
        OBVIOUS
      <4> QED
        BY <4>1, NewIsTracker DEF Ents
    <3> QED
      BY <3>1, NewIsTracker, CountOfIs
  <2> QED
    BY <2>2, <2>3 DEF Counts1, Errors1, Weight1, SS!Init, SS!NoWeight, NoWeight, SS!Key, Key
<1>2. Trackers /\ [Next]_vars => [SS!Next]_<<CountsIn(edge[1].ss), ErrorsIn(edge[1].ss), weight[1]>>
  <2> SUFFICES ASSUME Trackers, [Next]_vars
               PROVE  [SS!Next]_<<CountsIn(edge[1].ss), ErrorsIn(edge[1].ss), weight[1]>>
    OBVIOUS
  <2>1. 1 \in Edge
    BY TrackerSizes DEF Trackers
  <2>2. ASSUME edge'[1].ss = edge[1].ss, weight'[1] = weight[1]
        PROVE  UNCHANGED <<CountsIn(edge[1].ss), ErrorsIn(edge[1].ss), weight[1]>>
    BY <2>2
  <2>3. ASSUME NEW e \in Edge, NEW k \in Key, NEW w \in Weight, NEW R \in SUBSET Row,
               Update(e, k, w, R)
        PROVE  \/ SS!Next
               \/ edge'[1].ss = edge[1].ss /\ weight'[1] = weight[1]
    <3>1. /\ \A o \in Edge : o # e => edge'[o] = edge[o] /\ weight'[o] = weight[o]
          /\ conf.sketch = "cs" =>
               /\ TrackerStep(edge[e].ss, edge'[e].ss, k, w)
               /\ weight'[e] = [weight[e] EXCEPT ![k] = @ + w]
          /\ conf.sketch # "cs" => edge'[e].ss = edge[e].ss /\ weight'[e] = weight[e]
      BY <2>3, UpdateTracker
    <3>2. CASE e = 1 /\ conf.sketch = "cs"
      <4>1. /\ TrackerStep(edge[1].ss, edge'[1].ss, k, w)
            /\ weight'[1] = [weight[1] EXCEPT ![k] = @ + w]
        BY <3>1, <3>2
      <4>2. SS!Insert(k, w)
        BY <4>1 DEF SS!Insert, Weight1
      <4>3. SS!Tracked = TrackedIn(edge[1].ss)
        BY DEF SS!Tracked, TrackedIn, CountsIn, Counts1, SS!Key, Key
      <4>c. \A S : SS!Cardinality(S) = Cardinality(S)
        BY DEF SS!Cardinality, Cardinality
      <4>4. SS!Update(k, w)
        <5> DEFINE ss == edge[1].ss
                   g == edge'[1].ss
        <5>1. CASE /\ k \in TrackedIn(ss)
                   /\ CountsIn(g) = [CountsIn(ss) EXCEPT ![k] = @ + w]
                   /\ ErrorsIn(g) = ErrorsIn(ss)
          <6>1. SS!UpdateTracked(k, w)
            BY <4>2, <4>3, <5>1 DEF SS!UpdateTracked, CountsIn, ErrorsIn, Counts1, Errors1
          <6> QED
            BY <6>1 DEF SS!Update
        <5>2. CASE /\ k \notin TrackedIn(ss) /\ Cardinality(TrackedIn(ss)) < TrackerSize
                   /\ CountsIn(g) = [CountsIn(ss) EXCEPT ![k] = w]
                   /\ ErrorsIn(g) = ErrorsIn(ss)
          <6>1. SS!AddEntry(k, w)
            BY <4>2, <4>3, <4>c, <5>2 DEF SS!AddEntry, CountsIn, ErrorsIn, Counts1, Errors1
          <6> QED
            BY <6>1 DEF SS!Update
        <5>3. ASSUME NEW m \in TrackedIn(ss),
                     k \notin TrackedIn(ss), Cardinality(TrackedIn(ss)) >= TrackerSize,
                     \A j \in TrackedIn(ss) : CountsIn(ss)[m] <= CountsIn(ss)[j],
                     CountsIn(g) = [CountsIn(ss) EXCEPT ![m] = 0, ![k] = CountsIn(ss)[m] + w],
                     ErrorsIn(g) = [ErrorsIn(ss) EXCEPT ![m] = 0, ![k] = CountsIn(ss)[m]]
              PROVE  SS!Update(k, w)
          <6>1. SS!Evict(k, w)
            BY <4>2, <4>3, <4>c, <5>3 DEF SS!Evict, CountsIn, ErrorsIn, Counts1, Errors1
          <6> QED
            BY <6>1 DEF SS!Update
        <5> QED
          BY <4>1, <5>1, <5>2, <5>3 DEF TrackerStep
      <4>5. SS!Key = Key
        BY DEF SS!Key, Key
      <4> QED
        BY <4>4, <4>5 DEF SS!Next
    <3>3. CASE ~ (e = 1 /\ conf.sketch = "cs")
      BY <2>1, <3>1, <3>3
    <3> QED
      BY <3>2, <3>3
  <2>4. ASSUME NEW e \in Edge, Sync(e)
        PROVE  \/ SS!Next
               \/ edge'[1].ss = edge[1].ss /\ weight'[1] = weight[1]
    <3>1. \/ UNCHANGED <<edge, weight>>
          \/ /\ \A o \in Edge : o # e => edge'[o] = edge[o] /\ weight'[o] = weight[o]
             /\ edge'[e].ss = NewSpaceSaving /\ weight'[e] = NoWeight
      BY <2>4, SyncTracker
    <3>2. CASE e = 1 /\ ~ UNCHANGED <<edge, weight>>
      <4>1. edge'[1].ss = NewSpaceSaving /\ weight'[1] = NoWeight
        BY <3>1, <3>2
      <4>2. \A k : CountOf(NewSpaceSaving, k) = 0 /\ ErrorOf(NewSpaceSaving, k) = 0
        <5>1. Ents(NewSpaceSaving.heap) = {}
          <6>1. 1..Len(<< >>) = {}
            OBVIOUS
          <6> QED
            BY <6>1, NewIsTracker DEF Ents
        <5> QED
          BY <5>1, NewIsTracker, CountOfIs
      <4>3. SS!Reset
        BY <4>1, <4>2 DEF Counts1, Errors1, Weight1, SS!Reset, SS!NoWeight, NoWeight, SS!Key, Key
      <4> QED
        BY <4>3 DEF SS!Next
    <3>3. CASE ~ (e = 1 /\ ~ UNCHANGED <<edge, weight>>)
      BY <2>1, <3>1, <3>3
    <3> QED
      BY <3>2, <3>3
  <2>5. ASSUME NEW e \in Edge, ApplyDelta(e)
        PROVE  UNCHANGED <<edge, weight>>
    BY <2>5 DEF ApplyDelta
  <2>6. CASE UNCHANGED vars
    BY <2>2, <2>6 DEF vars
  <2> QED
    BY <2>2, <2>3, <2>4, <2>5, <2>6 DEF Next
<1>3. Trackers /\ [Next]_vars => [SS!Next]_SS!vars
  BY <1>2 DEF CountsIn, ErrorsIn, Counts1, Errors1, Weight1, SS!vars
<1> QED
  BY <1>1, <1>3, TrackersInit, TrackersNext, PTL DEF Spec, TrackerKeeps, SS!Spec

-----------------------------------------------------------------------------
(* The estimates of the backend.                                           *)

(* Among finitely many places one has the least value.                     *)
LEMMA LeastPlace ==
  ASSUME NEW n \in Nat, NEW f \in [1..n -> Int], NEW T \in SUBSET (1..n), T # {}
  PROVE  \E i \in T : \A j \in T : f[i] <= f[j]
<1> DEFINE Bad(S) == S # {} /\ ~ \E i \in S : \A j \in S : f[i] <= f[j]
           B == {m \in 0..n : \E S \in SUBSET (1..m) : Bad(S)}
<1> SUFFICES ASSUME Bad(T)
             PROVE  FALSE
  OBVIOUS
<1>0. B # {}
  <2>1. n \in 0..n
    OBVIOUS
  <2> HIDE DEF Bad
  <2> QED
    BY <2>1
<1>1. PICK m \in B : \A k \in B : m <= k
  <2>1. B \subseteq Nat
    OBVIOUS
  <2> HIDE DEF B
  <2> QED
    BY <1>0, <2>1, LeastNatural
<1>2. PICK S \in SUBSET (1..m) : Bad(S)
  BY <1>1
<1>3. m \in 1..n
  <2>1. m # 0
    <3>1. 1..0 = {}
      OBVIOUS
    <3> QED
      BY <1>2, <3>1
  <2> QED
    BY <1>1, <2>1
<1>4. m - 1 \in 0..n /\ ~ (m <= m-1) /\ 1..m = 1..(m-1) \union {m}
  BY <1>3
<1>5. \A R \in SUBSET (1..(m-1)) : ~ Bad(R)
  BY <1>1, <1>4
<1>6. m \in S /\ S \ {m} \in SUBSET (1..(m-1))
  <2>1. S \ {m} \in SUBSET (1..(m-1))
    BY <1>4
  <2>2. m \notin S => S \ {m} = S
    OBVIOUS
  <2> QED
    BY <1>2, <1>5, <2>1, <2>2
<1>7. CASE S \ {m} = {}
  <2>1. S = {m}
    BY <1>6, <1>7
  <2>2. f[m] <= f[m]
    BY <1>3
  <2> QED
    BY <1>2, <2>1, <2>2
<1>8. CASE S \ {m} # {}
  <2>1. PICK i \in S \ {m} : \A j \in S \ {m} : f[i] <= f[j]
    BY <1>5, <1>6, <1>8
  <2>2. \A j \in S : f[j] \in Int
    BY <1>3, <1>6
  <2>3. CASE f[i] <= f[m]
    BY <1>2, <2>1, <2>3
  <2>4. CASE ~ (f[i] <= f[m])
    <3>1. \A j \in S : f[m] <= f[j]
      BY <1>6, <2>1, <2>2, <2>4
    <3> QED
      BY <1>2, <1>6, <3>1
  <2> QED
    BY <2>3, <2>4
<1> QED
  BY <1>7, <1>8

(* The n-th of the rows is a value of one of them.                         *)
LEMMA NthLeastType ==
  ASSUME NEW v \in [Row -> Int], NEW n \in 1..NumRows
  PROVE  NthLeast(v, n) \in Int
<1> DEFINE NotAbove(x) == {r \in Row : v[r] <= x}
           M == {x \in {v[r] : r \in Row} : Cardinality(NotAbove(x)) >= n}
<1>1. NumRows \in Nat \ {0} /\ Row = 1..NumRows
  BY EdgeSyncAssumption DEF Row
<1>2. v \in [1..NumRows -> Int]
  BY <1>1
<1>3. \E x \in M : TRUE
  <2> DEFINE f == [r \in Row |-> 0 - v[r]]
  <2>1. f \in [1..NumRows -> Int]
    BY <1>1
  <2>2. PICK r \in Row : \A q \in Row : f[r] <= f[q]
    <3>0. 1 \in 1..NumRows
      BY <1>1
    <3>1. Row \in SUBSET (1..NumRows) /\ Row # {} /\ NumRows \in Nat
      BY <1>1, <3>0
    <3> HIDE DEF f
    <3> QED BY <2>1, <3>1, LeastPlace
  <2>3. \A q \in Row : v[q] <= v[r]
    BY <2>2
  <2>4. NotAbove(v[r]) = Row
    BY <2>3
  <2>5. Cardinality(Row) = NumRows
    BY <1>1, FS_Interval
  <2>6. NumRows >= n
    BY <1>1
  <2>7. Cardinality(NotAbove(v[r])) >= n
    BY <2>4, <2>5, <2>6
  <2> QED
    BY <2>7
<1>4. \E x \in M : \A y \in M : x <= y
  <2> DEFINE T == {r \in 1..NumRows : v[r] \in M}
  <2>1. T # {}
    BY <1>1, <1>3
  <2>2. PICK r \in T : \A q \in T : v[r] <= v[q]
    <3> HIDE DEF M
    <3>1. T \in SUBSET (1..NumRows)
      OBVIOUS
    <3> HIDE DEF T
    <3> QED BY <1>1, <1>2, <2>1, <3>1, LeastPlace
  <2>3. \A y \in M : \E q \in T : v[q] = y
    BY <1>1
  <2>4. v[r] \in M /\ \A y \in M : v[r] <= y
    <3> HIDE DEF M
    <3> QED BY <2>2, <2>3
  <2> QED
    BY <2>4
<1>5. Min(M) \in M
  <2> HIDE DEF M
  <2> QED BY <1>4 DEF Min
<1>6. M \subseteq Int
  OBVIOUS
<1> QED
  BY <1>5, <1>6 DEF NthLeast

LEMMA EstimateType ==
  ASSUME conf \in Config, NEW cells \in Matrix, NEW k \in Key
  PROVE  Estimate(cells, k) \in Int
<1> DEFINE v == [r \in Row |-> Sign(r, k) * cells[r][ColOf(r, k)]]
           low == NthLeast(v, (NumRows + 1) \div 2)
           high == NthLeast(v, (NumRows + 2) \div 2)
<1>1. v \in [Row -> Int]
  <2> SUFFICES ASSUME NEW r \in Row
               PROVE  Sign(r, k) * cells[r][ColOf(r, k)] \in Int
    OBVIOUS
  <2>1. Sign(r, k) \in Int
    BY SignType
  <2>2. ColOf(r, k) \in Col
    BY EdgeSyncAssumption
  <2>3. cells[r][ColOf(r, k)] \in Int
    BY <2>2 DEF Matrix
  <2> QED
    BY <2>1, <2>3
<1>2. /\ (NumRows + 1) \div 2 \in 1..NumRows
      /\ (NumRows + 2) \div 2 \in 1..NumRows
  BY EdgeSyncAssumption
<1> HIDE DEF v
<1>3. low \in Int /\ high \in Int
  BY <1>1, <1>2, NthLeastType
<1> HIDE DEF low, high
<1>4. \A s \in Int : IF s >= 0 THEN s \div 2 \in Int ELSE -((-s) \div 2) \in Int
  OBVIOUS
<1>5. Estimate(cells, k) = IF low + high >= 0 THEN (low + high) \div 2
                           ELSE -((-(low + high)) \div 2)
  BY DEF Estimate, Median, low, high, v
<1> QED
  BY <1>3, <1>4, <1>5

(* The estimates of all keys.                                              *)
Estimates(cells) == [k \in Key |-> Estimate(cells, k)]

LEMMA EstimatesType ==
  ASSUME conf \in Config, NEW cells \in Matrix
  PROVE  Estimates(cells) \in [Key -> Int]
BY EstimateType DEF Estimates

-----------------------------------------------------------------------------
(* The keys of a delta, one after the other.                               *)

TopKStep(cells, h, k) == TopKUpdate(h, TopKSize, k, Estimate(cells, k))

AfterKeys(cells, h, q) ==
  FoldLeft(LAMBDA g, k : TopKUpdate(g, TopKSize, k, Estimate(cells, k)), h, q)

(* The fold over the places in S, from the last one.                       *)
FoldsTo(cells, h, q, S, t) ==
  t = [s \in SUBSET S |->
         IF s = {} THEN h ELSE TopKStep(cells, t[s \ {Max(s)}], q[Max(s)])]

LEMMA FoldIs ==
  ASSUME NEW cells, NEW h, NEW q
  PROVE  AfterKeys(cells, h, q) =
           (CHOOSE t : FoldsTo(cells, h, q, DOMAIN q, t))[DOMAIN q]
BY DEF AfterKeys, FoldLeft, MapThenFoldSet, FoldsTo, TopKStep

LEMMA LastIs ==
  ASSUME NEW m \in Nat, NEW s \in SUBSET (1..m+1), m+1 \in s
  PROVE  Max(s) = m+1
<1>1. \A y \in s : m+1 >= y
  OBVIOUS
<1>2. \A x \in s : (\A y \in s : x >= y) => x = m+1
  OBVIOUS
<1> QED
  BY <1>1, <1>2 DEF Max

LEMMA FoldsExist ==
  ASSUME NEW cells, NEW h, NEW q, NEW n \in Nat
  PROVE  \E t : FoldsTo(cells, h, q, 1..n, t)
<1> DEFINE T == {k \in Nat : ~ \E t : FoldsTo(cells, h, q, 1..k, t)}
<1> SUFFICES ASSUME T # {}
             PROVE  FALSE
  OBVIOUS
<1>1. PICK m \in T : \A k \in T : m <= k
  <2>1. T \subseteq Nat
    OBVIOUS
  <2> QED
    BY <2>1, LeastNatural
<1>2. m # 0
  <2>1. 1..0 = {} /\ \A s \in SUBSET {} : s = {}
    OBVIOUS
  <2>2. FoldsTo(cells, h, q, {}, [s \in SUBSET {} |-> h])
    BY <2>1 DEF FoldsTo
  <2> QED
    BY <2>1, <2>2
<1> DEFINE l == m-1
<1>3. l \in Nat /\ m = l+1 /\ l \notin T
  BY <1>1, <1>2
<1>4. PICK u : FoldsTo(cells, h, q, 1..l, u)
  BY <1>3
<1> HIDE DEF l, T
<1> DEFINE t == [s \in SUBSET (1..m) |->
                   IF m \in s THEN TopKStep(cells, u[s \ {m}], q[m]) ELSE u[s]]
<1>5. \A s \in SUBSET (1..m) : m \notin s => s \in SUBSET (1..l)
  BY <1>3
<1>6. \A s \in SUBSET (1..l) :
        u[s] = IF s = {} THEN h ELSE TopKStep(cells, u[s \ {Max(s)}], q[Max(s)])
  BY <1>4 DEF FoldsTo
<1>7. ASSUME NEW s \in SUBSET (1..m)
      PROVE  t[s] = IF s = {} THEN h ELSE TopKStep(cells, t[s \ {Max(s)}], q[Max(s)])
  <2>1. CASE m \in s
    <3>1. Max(s) = m
      BY <1>3, <2>1, LastIs
    <3>2. t[s] = TopKStep(cells, u[s \ {m}], q[m])
      BY <2>1
    <3>3. t[s \ {m}] = u[s \ {m}]
      OBVIOUS
    <3> HIDE DEF t
    <3> QED
      BY <2>1, <3>1, <3>2, <3>3
  <2>2. CASE m \notin s
    <3>1. s \in SUBSET (1..l)
      BY <1>5, <2>2
    <3>2. t[s] = u[s]
      BY <2>2
    <3>3. \A x : t[s \ {x}] = u[s \ {x}]
      BY <2>2
    <3> HIDE DEF t
    <3> QED
      BY <1>6, <3>1, <3>2, <3>3
  <2> QED
    BY <2>1, <2>2
<1>8. FoldsTo(cells, h, q, 1..m, t)
  BY <1>7 DEF FoldsTo
<1> QED
  BY <1>1, <1>8 DEF T

(* The heap after each of the keys.                                        *)
Stages(cells, h, q, u) ==
  /\ u[0] = h
  /\ \A i \in 1..Len(q) : u[i] = TopKStep(cells, u[i-1], q[i])

LEMMA FoldStages ==
  ASSUME NEW cells, NEW h, NEW q, Len(q) \in Nat, DOMAIN q = 1..Len(q)
  PROVE  \E u : Stages(cells, h, q, u) /\ AfterKeys(cells, h, q) = u[Len(q)]
<1> DEFINE n == Len(q)
           t == CHOOSE t : FoldsTo(cells, h, q, 1..n, t)
           u == [i \in 0..n |-> t[1..i]]
<1>0. n \in Nat
  OBVIOUS
<1>1. FoldsTo(cells, h, q, 1..n, t)
  BY FoldsExist
<1>2. AfterKeys(cells, h, q) = t[1..n]
  BY FoldIs
<1> HIDE DEF t, n
<1>3. \A s \in SUBSET (1..n) :
        t[s] = IF s = {} THEN h ELSE TopKStep(cells, t[s \ {Max(s)}], q[Max(s)])
  BY <1>1 DEF FoldsTo
<1>4. u[0] = h
  <2>1. 1..0 = {} /\ 1..0 \in SUBSET (1..n) /\ 0 \in 0..n
    BY <1>0
  <2> QED
    BY <1>3, <2>1
<1>5. ASSUME NEW i \in 1..n
      PROVE  u[i] = TopKStep(cells, u[i-1], q[i])
  <2>1. /\ i-1 \in Nat /\ i = (i-1)+1 /\ i \in 0..n /\ i-1 \in 0..n
        /\ 1..i \in SUBSET (1..n) /\ i \in 1..i
    BY <1>0
  <2>2. Max(1..i) = i
    <3>1. 1..i \in SUBSET (1..(i-1)+1) /\ (i-1)+1 \in 1..i
      BY <2>1
    <3>2. Max(1..i) = (i-1)+1
      BY <2>1, <3>1, LastIs
    <3> QED
      BY <2>1, <3>2
  <2>3. (1..i) \ {i} = 1..(i-1)
    BY <2>1
  <2>4. 1..i # {}
    BY <2>1
  <2>5. t[1..i] = TopKStep(cells, t[(1..i) \ {i}], q[i])
    BY <1>3, <2>1, <2>2, <2>4
  <2> QED
    BY <2>1, <2>3, <2>5
<1>6. u[n] = t[1..n]
  BY <1>0
<1>7. Stages(cells, h, q, u) /\ AfterKeys(cells, h, q) = u[n]
  <2> HIDE DEF u
  <2> QED
    BY <1>2, <1>4, <1>5, <1>6 DEF Stages, n
<1> QED
  BY <1>7 DEF n

(* The heap h when, of the keys in S, those in P have been looked at, with *)
(* est for the estimates; firm says that no estimate has fallen below a    *)
(* count.                                                                  *)
AtStage(est, h, S, P, firm) ==
  /\ TopHeap(h) /\ Len(h) <= TopKSize
  /\ \A x \in Ents(h) : x.key \in P => x.count = est[x.key]
  /\ firm => \A x \in Ents(h) : x.key \in S => x.count <= est[x.key]
  /\ firm => \A k \in P :
       \/ \E x \in Ents(h) : x.key = k
       \/ /\ Len(h) = TopKSize
          /\ \A x \in Ents(h) : x.count >= est[k]

LEMMA StageStep ==
  ASSUME NEW e \in [Key -> Int], NEW S \in SUBSET Key,
         NEW P \in SUBSET S, NEW key \in S, NEW firm, NEW h,
         AtStage(e, h, S, P, firm), NEW g, g = TopKUpdate(h, TopKSize, key, e[key])
  PROVE  AtStage(e, g, S, P \union {key}, firm)
<1> DEFINE est(k) == e[k]
           v == est(key)
           A == Ents(h)
           B == Ents(g)
           new == Item(key, v)
<1>1. TopKSize \in Nat \ {0} /\ key \in Key
  BY EdgeSyncAssumption
<1>2. \A k \in Key : est(k) \in Int
  OBVIOUS
<1>3. /\ TopHeap(h) /\ Len(h) <= TopKSize
      /\ \A x \in A : x.key \in P => x.count = est(x.key)
      /\ firm => \A x \in A : x.key \in S => x.count <= est(x.key)
      /\ firm => \A k \in P : \/ \E x \in A : x.key = k
                              \/ /\ Len(h) = TopKSize
                                 /\ \A x \in A : x.count >= est(k)
  BY DEF AtStage
<1>4. TopHeap(g) /\ Len(g) <= TopKSize /\ Kept(h, g, TopKSize, key, v)
  <2>1. v \in Int /\ g = TopKUpdate(h, TopKSize, key, v)
    BY <1>1, <1>2
  <2> HIDE DEF v
  <2> QED
    BY <1>1, <1>3, <2>1, TopKUpdateResult
<1>5. new.key = key /\ new.count = v
  BY DEF Item
<1>6. /\ Len(h) \in Nat /\ Len(g) \in Nat
      /\ \A x \in A : x.count \in Int /\ x.key \in Key
  <2>1. \A i \in 1..Len(h) : h[i] \in TopEntries
    BY <1>3, ElementOfSeq DEF TopHeap
  <2> QED
    BY <1>3, <1>4, <2>1, LenProperties DEF TopHeap, Ents, TopEntries
<1> DEFINE OK(k) == \/ \E x \in B : x.key = k
                    \/ Len(g) = TopKSize /\ \A x \in B : x.count >= est(k)
<1> SUFFICES /\ \A x \in B : x.key \in P \union {key} => x.count = est(x.key)
             /\ firm => \A x \in B : x.key \in S => x.count <= est(x.key)
             /\ firm => \A k \in P \union {key} : OK(k)
  BY <1>4 DEF AtStage
<1>7. v <= v /\ v \in Int
  BY <1>1, <1>2
<1> HIDE DEF est, v, A, B, new
<1>v. v = est(key)
  BY DEF v
<1>8. ASSUME B = {x \in A : x.key # key} \union {new},
             \/ Len(g) = Len(h) /\ \E x \in A : x.key = key
             \/ Len(g) = Len(h) + 1
      PROVE  /\ \A x \in B : x.key \in P \union {key} => x.count = est(x.key)
             /\ firm => \A x \in B : x.key \in S => x.count <= est(x.key)
             /\ firm => \A k \in P \union {key} : OK(k)
  <2>1. \A x \in B : x.key \in P \union {key} => x.count = est(x.key)
    BY <1>3, <1>5, <1>8, <1>v
  <2>2. firm => \A x \in B : x.key \in S => x.count <= est(x.key)
    BY <1>3, <1>5, <1>7, <1>8, <1>v
  <2>3. ASSUME firm, NEW k \in P \union {key}
        PROVE  OK(k)
    <3>1. CASE k = key
      BY <1>5, <1>8, <3>1
    <3>2. CASE k # key /\ \E x \in A : x.key = k
      BY <1>8, <3>2
    <3>3. CASE k # key /\ ~ \E x \in A : x.key = k
      <4>1. k \in P /\ k \in Key
        BY <2>3, <3>3
      <4>2. Len(h) = TopKSize /\ \A x \in A : x.count >= est(k)
        BY <1>3, <2>3, <3>3, <4>1
      <4>3. Len(g) # Len(h) + 1
        BY <1>1, <1>4, <1>6, <4>2
      <4>4. PICK x \in A : x.key = key
        BY <1>8, <4>3
      <4>5. x.count >= est(k) /\ x.count <= v /\ x.count \in Int
        BY <1>3, <1>6, <1>v, <2>3, <4>2, <4>4
      <4>6. new.count >= est(k)
        BY <1>2, <1>5, <1>7, <4>1, <4>5
      <4>7. Len(g) = TopKSize
        BY <1>8, <4>2, <4>3
      <4> QED
        BY <1>8, <4>2, <4>6, <4>7
    <3> QED
      BY <3>1, <3>2, <3>3
  <2> QED
    BY <2>1, <2>2, <2>3
<1>9. ASSUME Len(h) = TopKSize, Len(g) = TopKSize,
             NEW m \in A, \A x \in A : m.count <= x.count, m.count < v,
             B = (A \ {m}) \union {new}, \A x \in A : x.key # key
      PROVE  /\ \A x \in B : x.key \in P \union {key} => x.count = est(x.key)
             /\ firm => \A x \in B : x.key \in S => x.count <= est(x.key)
             /\ firm => \A k \in P \union {key} : OK(k)
  <2>1. \A x \in B : x.key \in P \union {key} => x.count = est(x.key)
    BY <1>3, <1>5, <1>9, <1>v
  <2>2. firm => \A x \in B : x.key \in S => x.count <= est(x.key)
    BY <1>3, <1>5, <1>7, <1>9, <1>v
  <2>3. ASSUME firm, NEW k \in P \union {key}
        PROVE  OK(k)
    <3>0. new \in B
      BY <1>9
    <3>1. CASE k = key
      BY <1>5, <3>0, <3>1
    <3>2. CASE k # key /\ \E x \in A : x.key = k /\ x # m
      BY <1>9, <3>2
    <3>3. CASE k # key /\ m.key = k
      <4>1. est(k) = m.count /\ m.count \in Int
        BY <1>3, <1>6, <1>9, <2>3, <3>3
      <4>2. \A x \in A : x.count >= est(k)
        BY <1>6, <1>9, <4>1
      <4>3. new.count >= est(k)
        BY <1>5, <1>7, <1>9, <4>1
      <4> QED
        BY <1>9, <4>2, <4>3
    <3>4. CASE k # key /\ ~ \E x \in A : x.key = k
      <4>1. k \in P /\ k \in Key
        BY <2>3, <3>4
      <4>2. \A x \in A : x.count >= est(k)
        BY <1>3, <2>3, <3>4, <4>1
      <4>3. m.count >= est(k) /\ m.count \in Int /\ est(k) \in Int
        BY <1>2, <1>6, <4>1, <4>2
      <4>4. new.count >= est(k)
        BY <1>5, <1>7, <1>9, <4>3
      <4> QED
        BY <1>9, <4>2, <4>4
    <3> QED
      BY <3>1, <3>2, <3>3, <3>4
  <2> QED
    BY <2>1, <2>2, <2>3
<1>10. ASSUME g = h, Len(h) = TopKSize,
              \A x \in A : x.key # key /\ v <= x.count
       PROVE  /\ \A x \in B : x.key \in P \union {key} => x.count = est(x.key)
              /\ firm => \A x \in B : x.key \in S => x.count <= est(x.key)
              /\ firm => \A k \in P \union {key} : OK(k)
  <2>0. A = B
    BY <1>10 DEF A, B
  <2>1. \A x \in A : x.count >= v
    BY <1>6, <1>7, <1>10
  <2>2. OK(key)
    BY <1>10, <1>v, <2>0, <2>1
  <2>3. firm => \A k \in P : OK(k)
    BY <1>3, <1>10, <2>0
  <2> QED
    BY <1>3, <1>10, <2>0, <2>2, <2>3
<1>11. \/ /\ B = {x \in A : x.key # key} \union {new}
          /\ \/ Len(g) = Len(h) /\ \E x \in A : x.key = key
             \/ Len(g) = Len(h) + 1
       \/ /\ Len(h) = TopKSize /\ Len(g) = TopKSize
          /\ \A x \in A : x.key # key
          /\ \E m \in A : /\ \A x \in A : m.count <= x.count
                          /\ m.count < v
                          /\ B = (A \ {m}) \union {new}
       \/ /\ g = h /\ Len(h) = TopKSize
          /\ \A x \in A : x.key # key /\ v <= x.count
  BY <1>4 DEF Kept, A, B, new
<1> HIDE DEF OK
<1> QED
  BY <1>8, <1>9, <1>10, <1>11

LEMMA AllStages ==
  ASSUME conf \in Config, NEW cells \in Matrix, NEW q \in Seq(Key), NEW firm,
         NEW h, AtStage(Estimates(cells), h, ToSet(q), {}, firm)
  PROVE  AtStage(Estimates(cells), AfterKeys(cells, h, q), ToSet(q), ToSet(q), firm)
<1> DEFINE est == Estimates(cells)
           n == Len(q)
           S == ToSet(q)
           P(i) == {q[j] : j \in 1..i}
<1>1. /\ n \in Nat /\ DOMAIN q = 1..n /\ \A i \in 1..n : q[i] \in Key
  BY LenProperties, ElementOfSeq
<1>2. /\ S \in SUBSET Key /\ S = P(n)
      /\ \A i \in 1..n : q[i] \in S
  BY <1>1 DEF ToSet
<1>3. PICK u : Stages(cells, h, q, u) /\ AfterKeys(cells, h, q) = u[n]
  BY <1>1, FoldStages
<1> DEFINE Good(i) == AtStage(est, u[i], S, P(i), firm)
<1>4. Good(0)
  <2>1. 1..0 = {}
    OBVIOUS
  <2>2. P(0) = {}
    BY <2>1
  <2>3. u[0] = h
    BY <1>3 DEF Stages
  <2> HIDE DEF S, P
  <2> QED
    BY <2>2, <2>3 DEF S
<1>5. ASSUME NEW i \in 1..n, Good(i-1)
      PROVE  Good(i)
  <2>1. u[i] = TopKStep(cells, u[i-1], q[i])
    BY <1>3 DEF Stages
  <2>2. P(i) = P(i-1) \union {q[i]} /\ P(i-1) \in SUBSET S
    <3>1. 1..i = 1..(i-1) \union {i} /\ 1..(i-1) \subseteq 1..n
      BY <1>1
    <3>2. P(i) = P(i-1) \union {q[i]}
      BY <3>1
    <3>3. P(i-1) \in SUBSET S
      BY <1>2, <3>1
    <3> QED
      BY <3>2, <3>3
  <2> DEFINE f == u[i-1]
             g == u[i]
             key == q[i]
             R == P(i-1)
  <2>3. AtStage(est, f, S, R, firm) /\ key \in S /\ R \in SUBSET S /\ S \in SUBSET Key
    BY <1>2, <1>5, <2>2
  <2>4. g = TopKUpdate(f, TopKSize, key, est[key])
    BY <1>1, <2>1 DEF TopKStep, Estimates
  <2>0. est \in [Key -> Int]
    BY EstimatesType
  <2> HIDE DEF f, g, key, R, S, P, est
  <2>5. AtStage(est, g, S, R \union {key}, firm)
    BY <2>0, <2>3, <2>4, StageStep
  <2> QED
    BY <2>2, <2>5 DEF g, key, R
<1>6. \A i \in 0..n : Good(i)
  <2> DEFINE T == {i \in 0..n : ~ Good(i)}
  <2> HIDE DEF Good
  <2> SUFFICES ASSUME T # {}
               PROVE  FALSE
    OBVIOUS
  <2>1. PICK m \in T : \A k \in T : m <= k
    <3>1. T \subseteq Nat
      BY <1>1
    <3> QED
      BY <3>1, LeastNatural
  <2> HIDE DEF n
  <2>2. m \in 1..n /\ m-1 \in 0..n /\ ~ (m <= m-1)
    BY <1>1, <1>4, <2>1
  <2>3. Good(m-1)
    BY <2>1, <2>2
  <2> QED
    BY <1>5, <2>1, <2>2, <2>3
<1>7. Good(n)
  <2>1. n \in 0..n
    BY <1>1
  <2> HIDE DEF Good
  <2> QED
    BY <1>6, <2>1
<1> QED
  BY <1>2, <1>3, <1>7

-----------------------------------------------------------------------------
(* The keys on their way and the heap that they reach.                     *)

KeyQueue(q) == \A i \in 1..Len(q) : q[i].keys \in Seq(Key)
KeyQueues == \A e \in Edge : KeyQueue(wire[e])

LEMMA KeyQueueSteps ==
  ASSUME NEW q, IsQueue(q), KeyQueue(q)
  PROVE  /\ \A d : d.keys \in Seq(Key) => KeyQueue(Append(q, d))
         /\ q # << >> => Head(q).keys \in Seq(Key) /\ KeyQueue(Tail(q))
<1>1. PICK D : q \in Seq(D) /\ \A x \in D : IsDelta(x)
  BY DEF IsQueue
<1>2. ASSUME NEW d, d.keys \in Seq(Key)
      PROVE  KeyQueue(Append(q, d))
  <2> DEFINE E == D \union {d}
             a == Append(q, d)
             n == Len(q)
  <2>1. q \in Seq(E)
    <3>1. n \in Nat /\ q \in [1..n -> D]
      BY <1>1, LenProperties
    <3>2. q \in [1..n -> E]
      BY <3>1
    <3> QED
      BY <3>1, <3>2, SeqDef
  <2>2. d \in E
    OBVIOUS
  <2> HIDE DEF E
  <2>3. /\ Len(a) = n + 1 /\ n \in Nat
        /\ \A i \in 1..n : a[i] = q[i]
        /\ a[n+1] = d
    BY <2>1, <2>2, AppendProperties, LenProperties
  <2>4. \A i \in 1..n : a[i].keys \in Seq(Key)
    BY <2>3 DEF KeyQueue
  <2>5. \A i \in 1..n+1 : i \in 1..n \/ i = n+1
    BY <2>3
  <2>6. a[n+1].keys \in Seq(Key)
    BY <1>2, <2>3
  <2>7. \A i \in 1..n+1 : a[i].keys \in Seq(Key)
    BY <2>4, <2>5, <2>6
  <2> QED
    BY <2>3, <2>7 DEF KeyQueue
<1>3. ASSUME q # << >>
      PROVE  Head(q).keys \in Seq(Key) /\ KeyQueue(Tail(q))
  <2> DEFINE t == Tail(q)
             n == Len(t)
  <2>1. /\ n \in Nat /\ Len(q) = n + 1 /\ Head(q) = q[1]
        /\ \A i \in 1..n : t[i] = q[i+1]
    BY <1>1, <1>3, HeadTailProperties, LenProperties
  <2> HIDE DEF t, n
  <2>2. 1 \in 1..Len(q) /\ \A i \in 1..n : i+1 \in 1..Len(q)
    BY <2>1
  <2>3. Head(q).keys \in Seq(Key)
    BY <2>1, <2>2 DEF KeyQueue
  <2>4. \A i \in 1..n : t[i].keys \in Seq(Key)
    BY <2>1, <2>2 DEF KeyQueue
  <2> QED
    BY <2>3, <2>4 DEF KeyQueue, t, n
<1> QED
  BY <1>2, <1>3

LEMMA CandidateKeys ==
  ASSUME NEW ss, SSHeap(ss)
  PROVE  Candidates(ss) \in Seq(Key)
<1>1. ss.heap \in Seq(SSEntries)
  BY DEF SSHeap, IsTracker
<1>2. /\ Len(ss.heap) \in Nat
      /\ \A i \in 1..Len(ss.heap) : ss.heap[i].key \in Key
  <2>1. \A i \in 1..Len(ss.heap) : ss.heap[i] \in SSEntries
    BY <1>1, ElementOfSeq
  <2>2. \A i \in 1..Len(ss.heap) : ss.heap[i].key \in Key
    BY <2>1 DEF SSEntries
  <2>3. Len(ss.heap) \in Nat
    BY <1>1, LenProperties
  <2> QED
    BY <2>2, <2>3
<1>3. Candidates(ss) \in [1..Len(ss.heap) -> Key]
  BY <1>2 DEF Candidates
<1> QED
  BY <1>2, <1>3, SeqDef

LEMMA KeyQueuesNext ==
  Typed /\ Trackers /\ KeyQueues /\ [Next]_vars => KeyQueues'
<1> SUFFICES ASSUME Typed, Trackers, KeyQueues, [Next]_vars
             PROVE  KeyQueues'
  OBVIOUS
<1>1. UNCHANGED conf /\ Edge' = Edge
  BY ConfKept DEF Edge
<1>2. /\ DOMAIN wire = Edge
      /\ \A e \in Edge : IsQueue(wire[e]) /\ KeyQueue(wire[e])
  BY DEF Typed, EdgeTyped, KeyQueues
<1>3. UNCHANGED wire => KeyQueues'
  BY <1>1, <1>2 DEF KeyQueues
<1>4. ASSUME NEW e \in Edge, NEW q, wire' = [wire EXCEPT ![e] = q], KeyQueue(q)
      PROVE  KeyQueues'
  <2>1. \A o \in Edge : wire'[o] = IF o = e THEN q ELSE wire[o]
    BY <1>2, <1>4
  <2>2. \A o \in Edge : KeyQueue(wire'[o])
    BY <1>2, <1>4, <2>1
  <2> QED
    BY <1>1, <2>2 DEF KeyQueues
<1>5. ASSUME NEW e \in Edge, NEW k \in Key, NEW w \in Weight, NEW R \in SUBSET Row,
             Update(e, k, w, R)
      PROVE  KeyQueues'
  <2> DEFINE curr == [r \in R |-> Current(edge[e], r, k, w * conf.scale)]
             dirty == {r \in R : Crosses(curr[r])}
             d == [cells |-> [p \in {<<r, ColOf(r, k)>> : r \in dirty} |-> curr[p[1]]],
                   norm |-> NoNorm, keys |-> << >>]
  <2>1. wire' = IF dirty = {} THEN wire ELSE [wire EXCEPT ![e] = Append(wire[e], d)]
    BY <1>5 DEF Update
  <2>2. d.keys \in Seq(Key)
    OBVIOUS
  <2> HIDE DEF d, dirty
  <2>3. CASE dirty = {}
    BY <1>3, <2>1, <2>3
  <2>4. CASE dirty # {}
    <3>0. IsQueue(wire[e]) /\ KeyQueue(wire[e])
      BY <1>2
    <3>1. KeyQueue(Append(wire[e], d))
      BY <2>2, <3>0, KeyQueueSteps
    <3> QED
      BY <1>4, <2>1, <2>4, <3>1
  <2> QED
    BY <2>3, <2>4
<1>6. ASSUME NEW e \in Edge, Sync(e)
      PROVE  KeyQueues'
  <2>1. wire' = [wire EXCEPT ![e] = Append(wire[e], ComputeDelta(e))]
    BY <1>6 DEF Sync
  <2>2. ComputeDelta(e).keys \in Seq(Key)
    <3>1. Candidates(edge[e].ss) \in Seq(Key)
      BY CandidateKeys DEF Trackers
    <3> QED
      BY <3>1 DEF ComputeDelta
  <2>3. KeyQueue(Append(wire[e], ComputeDelta(e)))
    <3> DEFINE d == ComputeDelta(e)
    <3>1. IsQueue(wire[e]) /\ KeyQueue(wire[e]) /\ d.keys \in Seq(Key)
      BY <1>2, <2>2
    <3> HIDE DEF d
    <3>2. KeyQueue(Append(wire[e], d))
      BY <3>1, KeyQueueSteps
    <3> QED
      BY <3>2 DEF d
  <2> QED
    BY <1>4, <2>1, <2>3
<1>7. ASSUME NEW e \in Edge, ApplyDelta(e)
      PROVE  KeyQueues'
  <2>1. wire[e] # << >> /\ wire' = [wire EXCEPT ![e] = Tail(wire[e])]
    BY <1>7 DEF ApplyDelta
  <2>2. KeyQueue(Tail(wire[e]))
    BY <1>2, <2>1, KeyQueueSteps
  <2> QED
    BY <1>4, <2>1, <2>2
<1>8. CASE UNCHANGED vars
  BY <1>3, <1>8 DEF vars
<1> QED
  BY <1>5, <1>6, <1>7, <1>8 DEF Next

(* The heap of the backend after the delta that it applied last.           *)
TopKNow ==
  /\ queried \in SUBSET Key
  /\ AtStage(Estimates(backend.cells), backend.topk, queried, queried, ~ fell)

LEMMA TopKApplied ==
  ASSUME Typed, KeyQueues, TopKNow, NEW e \in Edge, ApplyDelta(e)
  PROVE  TopKNow'
<1> DEFINE d == Head(wire[e])
           q == d.keys
           h == backend.topk
           cells == backend'.cells
           firm == ~ fell'
<1>1. conf' = conf /\ conf \in Config /\ wire[e] # << >>
  BY DEF ApplyDelta, Typed
<1>2. cells \in Matrix
  BY ApplyEffect
<1>3. q \in Seq(Key)
  <2>1. IsQueue(wire[e]) /\ KeyQueue(wire[e])
    BY DEF Typed, EdgeTyped, KeyQueues
  <2> QED
    BY <1>1, <2>1, KeyQueueSteps
<1>4. ToSet(q) \in SUBSET Key
  <2>1. DOMAIN q = 1..Len(q)
    BY <1>3, LenProperties
  <2> QED
    BY <1>3, <2>1, ElementOfSeq DEF ToSet
<1>5. /\ backend'.topk = AfterKeys(cells, h, q)
      /\ queried' = ToSet(q)
      /\ fell' = \E i \in 1..Len(h) : /\ h[i].key \in ToSet(q)
                                      /\ Estimate(cells, h[i].key) < h[i].count
  <2> DEFINE c == [r \in Row |-> [col \in Col |->
                     backend.cells[r][col]
                       + IF <<r, col>> \in DOMAIN d.cells THEN d.cells[<<r, col>>] ELSE 0]]
             n == [r \in Row |-> backend.norm[r] + d.norm[r]]
             t == FoldLeft(LAMBDA g, k : TopKUpdate(g, TopKSize, k, Estimate(c, k)), h, q)
             low == \E i \in 1..Len(h) : /\ h[i].key \in ToSet(q)
                                         /\ Estimate(c, h[i].key) < h[i].count
  <2>1. backend' = [cells |-> c, norm |-> n, topk |-> t] /\ queried' = ToSet(q) /\ fell' = low
    BY DEF ApplyDelta
  <2>2. t = AfterKeys(c, h, q)
    BY DEF AfterKeys
  <2> HIDE DEF c, n, t, h, q, d
  <2>3. backend'.cells = c /\ backend'.topk = t
    BY <2>1
  <2>4. fell' = \E i \in 1..Len(h) : /\ h[i].key \in ToSet(q)
                                     /\ Estimate(c, h[i].key) < h[i].count
    BY <2>1
  <2> QED
    BY <2>1, <2>2, <2>3, <2>4
<1>6. TopHeap(h) /\ Len(h) <= TopKSize
  BY DEF TopKNow, AtStage
<1>7. AtStage(Estimates(cells), h, ToSet(q), {}, firm)
  <2>1. firm => \A x \in Ents(h) : x.key \in ToSet(q) => x.count <= Estimate(cells, x.key)
    <3> SUFFICES ASSUME firm, NEW i \in 1..Len(h), h[i].key \in ToSet(q)
                 PROVE  h[i].count <= Estimate(cells, h[i].key)
      BY DEF Ents
    <3>1. ~ (Estimate(cells, h[i].key) < h[i].count)
      BY <1>5
    <3>2. h[i] \in TopEntries
      BY <1>6, ElementOfSeq DEF TopHeap
    <3>3. h[i].count \in Int /\ h[i].key \in Key
      BY <3>2 DEF TopEntries
    <3>4. Estimate(cells, h[i].key) \in Int
      BY <1>1, <1>2, <3>3, EstimateType
    <3> QED
      BY <3>1, <3>3, <3>4
  <2>2. \A x \in Ents(h) : x.key \in Key
    <3>1. \A i \in 1..Len(h) : h[i] \in TopEntries
      BY <1>6, ElementOfSeq DEF TopHeap
    <3> QED
      BY <3>1 DEF Ents, TopEntries
  <2> HIDE DEF firm, h, q, cells
  <2>3. \A k \in Key : Estimates(cells)[k] = Estimate(cells, k)
    BY DEF Estimates
  <2> QED
    BY <1>6, <2>1, <2>2, <2>3 DEF AtStage
<1> HIDE DEF d, q, h, cells, firm
<1>8. AtStage(Estimates(cells), AfterKeys(cells, h, q), ToSet(q), ToSet(q), firm)
  BY <1>1, <1>2, <1>3, <1>7, AllStages
<1>9. AtStage(Estimates(backend'.cells), backend'.topk, queried', queried', ~ fell')
  BY <1>5, <1>8 DEF cells, firm
<1>10. Estimates(backend.cells)' = Estimates(backend'.cells)
  BY <1>1 DEF Estimates, Estimate, Sign
<1>11. AtStage(Estimates(backend.cells), backend.topk, queried, queried, ~ fell)'
  BY <1>9, <1>10
<1> QED
  BY <1>4, <1>5, <1>11 DEF TopKNow

LEMMA TopKKept ==
  ASSUME TopKNow, UNCHANGED <<conf, backend, queried, fell>>
  PROVE  TopKNow'
<1>1. Estimates(backend.cells)' = Estimates(backend.cells)
  BY DEF Estimates, Estimate, Sign
<1> QED
  BY <1>1 DEF TopKNow

LEMMA TopKNowIsCurrent == TopKNow => TopKCurrent
<1> SUFFICES ASSUME TopKNow
             PROVE  TopKCurrent
  OBVIOUS
<1> DEFINE h == backend.topk
           est(k) == Estimates(backend.cells)[k]
<1>1. /\ TopHeap(h) /\ Len(h) <= TopKSize
      /\ \A x \in Ents(h) : x.key \in queried => x.count = est(x.key)
      /\ ~ fell => \A k \in queried :
           \/ \E x \in Ents(h) : x.key = k
           \/ Len(h) = TopKSize /\ \A x \in Ents(h) : x.count >= est(k)
  BY DEF TopKNow, AtStage
<1>2. Len(h) \in Nat
  BY <1>1, LenProperties DEF TopHeap
<1>3. HeapOrdered(h) /\ \A i, j \in 1..Len(h) : h[i].key = h[j].key => i = j
  BY <1>1 DEF TopHeap, Distinct
<1>0. \A k \in queried : est(k) = Estimate(backend.cells, k)
  BY DEF Estimates, TopKNow
<1> HIDE DEF h, est
<1>4. ASSUME NEW k \in queried
      PROVE  IF Find(h, k) # 0 THEN h[Find(h, k)].count = est(k)
             ELSE ~ fell => /\ Len(h) = TopKSize
                            /\ \A i \in 1..Len(h) : h[i].count >= est(k)
  <2> DEFINE S == {i \in 1..Len(h) : h[i].key = k}
  <2>1. CASE S = {}
    <3>1. Find(h, k) = 0
      BY <2>1 DEF Find
    <3>2. \A x \in Ents(h) : x.key # k
      BY <2>1 DEF Ents
    <3>3. ~ fell => Len(h) = TopKSize /\ \A x \in Ents(h) : x.count >= est(k)
      BY <1>1, <3>2
    <3> QED
      BY <3>1, <3>3 DEF Ents
  <2>2. CASE S # {}
    <3>1. \E j \in S : \A m \in S : j <= m
      <4>1. S \subseteq Nat
        BY <1>2
      <4> HIDE DEF S
      <4> QED
        BY <2>2, <4>1, LeastNatural
    <3>2. Find(h, k) \in S
      BY <2>2, <3>1 DEF Find
    <3>3. Find(h, k) # 0 /\ Find(h, k) \in 1..Len(h) /\ h[Find(h, k)].key = k
      BY <1>2, <3>2
    <3>4. h[Find(h, k)] \in Ents(h)
      BY <3>3 DEF Ents
    <3> QED
      BY <1>1, <3>3, <3>4
  <2> QED
    BY <2>1, <2>2
<1> QED
  <2>1. \A k \in queried :
          IF Find(h, k) # 0 THEN h[Find(h, k)].count = Estimate(backend.cells, k)
          ELSE ~ fell => /\ Len(h) = TopKSize
                         /\ \A i \in 1..Len(h) : h[i].count >= Estimate(backend.cells, k)
    BY <1>0, <1>4
  <2> QED
    BY <1>1, <1>3, <2>1 DEF TopKCurrent, h

(* The invariant: a heap in order that knows the keys of the last delta,   *)
(* and trackers and deltas that carry nothing but keys.                    *)
TopKInv == Typed /\ Trackers /\ KeyQueues /\ TopKNow

LEMMA TopKInit == Init => TopKInv
<1> SUFFICES ASSUME Init
             PROVE  TopKInv
  OBVIOUS
<1>1. Typed /\ Trackers
  BY TypedInit, TrackersInit
<1>2. KeyQueues
  <2>1. \A e \in Edge : wire[e] = << >>
    BY DEF Init
  <2>2. 1..Len(<< >>) = {}
    OBVIOUS
  <2> QED
    BY <2>1, <2>2 DEF KeyQueues, KeyQueue
<1>3. backend.topk = << >> /\ queried = {}
  BY DEF Init
<1>4. << >> \in Seq(TopEntries) /\ Len(<< >>) = 0 /\ 1..0 = {} /\ 2..0 = {}
  OBVIOUS
<1>5. TopHeap(<< >>) /\ Ents(<< >>) = {}
  BY <1>4 DEF TopHeap, HeapOrdered, Distinct, Ents
<1>6. 0 <= TopKSize
  BY EdgeSyncAssumption
<1>7. TopKNow
  BY <1>3, <1>4, <1>5, <1>6 DEF TopKNow, AtStage
<1> QED
  BY <1>1, <1>2, <1>7 DEF TopKInv

LEMMA TopKNext == TopKInv /\ [Next]_vars => TopKInv'
<1> SUFFICES ASSUME TopKInv, [Next]_vars
             PROVE  TopKInv'
  OBVIOUS
<1>1. Typed /\ Trackers /\ KeyQueues /\ TopKNow
  BY DEF TopKInv
<1>2. Typed' /\ Trackers' /\ KeyQueues'
  BY <1>1, TypedNext, TrackersNext, KeyQueuesNext
<1>3. ASSUME NEW e \in Edge, NEW k \in Key, NEW w \in Weight, NEW R \in SUBSET Row,
             Update(e, k, w, R)
      PROVE  UNCHANGED <<conf, backend, queried, fell>>
  BY <1>3 DEF Update
<1>4. ASSUME NEW e \in Edge, Sync(e)
      PROVE  UNCHANGED <<conf, backend, queried, fell>>
  BY <1>4 DEF Sync
<1>5. ASSUME NEW e \in Edge, ApplyDelta(e)
      PROVE  TopKNow'
  BY <1>1, <1>5, TopKApplied
<1>6. CASE UNCHANGED vars
  BY <1>1, <1>2, <1>6, TopKKept DEF vars, TopKInv
<1>7. TopKNow'
  BY <1>1, <1>3, <1>4, <1>5, <1>6, TopKKept DEF Next, vars
<1> QED
  BY <1>2, <1>7 DEF TopKInv

(* After every delta the backend's heap is in order, holds a key once, and *)
(* has the estimates of the keys that were just queried, or K others that  *)
(* are no smaller.                                                         *)
THEOREM TopKIsCurrent == Spec => []TopKCurrent
<1>1. TopKInv => TopKCurrent
  BY TopKNowIsCurrent DEF TopKInv
<1> QED
  BY <1>1, TopKInit, TopKNext, PTL DEF Spec

-----------------------------------------------------------------------------
(* What Space Saving promises holds of the tracker at the edge, for every  *)
(* capacity, number of keys and weights.  The counts always add up to the  *)
(* weight inserted; a key outside the full table weighs no more than any   *)
(* count in it; so K counts of at least its weight fit into the total.     *)

(* A sum of naturals is at least c times the number of the positive ones,  *)
(* when each of these is at least c.                                       *)
LEMMA SumAtLeast ==
  ASSUME NEW n \in Nat, NEW f, \A i \in 1..n : f[i] \in Nat,
         NEW c \in Nat, \A i \in 1..n : f[i] > 0 => c <= f[i]
  PROVE  PrefixSum(f, n) >= c * Cardinality({i \in 1..n : f[i] > 0})
<1> DEFINE Positive(k) == {i \in 1..k : f[i] > 0}
           T == {k \in 0..n : ~ (PrefixSum(f, k) >= c * Cardinality(Positive(k)))}
<1> SUFFICES ASSUME T # {}
             PROVE  FALSE
  OBVIOUS
<1>1. PICK k \in T : \A j \in T : k <= j
  <2>1. T \subseteq Nat
    OBVIOUS
  <2> QED
    BY <2>1, LeastNatural
<1>2. k # 0
  <2>1. Positive(0) = {}
    OBVIOUS
  <2>2. Cardinality(Positive(0)) = 0
    BY <2>1, FS_EmptySet
  <2>3. PrefixSum(f, 0) = 0
    BY PrefixSumZero
  <2>4. PrefixSum(f, 0) >= c * Cardinality(Positive(0))
    BY <2>2, <2>3
  <2> QED
    BY <2>4
<1>3. k-1 \in 0..n /\ k-1 \in Nat /\ k \in 1..n
  BY <1>2
<1> DEFINE p == k - 1
           P == Positive(p)
<1>4. PrefixSum(f, p) >= c * Cardinality(P)
  BY <1>1, <1>3
<1>5. PrefixSum(f, k) = PrefixSum(f, p) + f[k]
  BY <1>3, PrefixSumStep
<1>6. PrefixSum(f, p) \in Int
  BY <1>3, PrefixSumType
<1>7. IsFiniteSet(P) /\ Cardinality(P) \in Nat
  <2>1. IsFiniteSet(1..p)
    BY <1>3, FS_Interval
  <2> QED
    BY <2>1, FS_Subset, FS_CardinalityType
<1>8. f[k] \in Nat /\ (f[k] > 0 => c <= f[k])
  BY <1>3
<1>9. CASE f[k] > 0
  <2>1. Positive(k) = P \union {k} /\ k \notin P
    BY <1>3, <1>9
  <2>2. Cardinality(Positive(k)) = Cardinality(P) + 1
    BY <2>1, <1>7, FS_AddElement
  <2>3. ASSUME NEW m \in Nat, NEW s \in Int, NEW x \in Nat, s >= c * m, c <= x
        PROVE  s + x >= c * (m + 1)
    BY <2>3
  <2>4. PrefixSum(f, k) >= c * Cardinality(Positive(k))
    <3> HIDE DEF P, p, Positive
    <3> QED
      BY <2>2, <2>3, <1>4, <1>5, <1>6, <1>7, <1>8, <1>9
  <2> QED
    BY <2>4
<1>10. CASE f[k] = 0
  <2>1. Positive(k) = P
    BY <1>3, <1>10
  <2>2. PrefixSum(f, k) >= c * Cardinality(Positive(k))
    BY <2>1, <1>4, <1>5, <1>6, <1>10
  <2> QED
    BY <2>2
<1> QED
  BY <1>8, <1>9, <1>10

(* The operators that SS brings along are the ones used here.              *)
LEMMA TrackerOps ==
  /\ \A f, n : SS!PrefixSum(f, n) = PrefixSum(f, n)
  /\ \A S : SS!Cardinality(S) = Cardinality(S)
BY DEF SS!PrefixSum, PrefixSum, SS!Cardinality, Cardinality

(* The sums over all keys, after a change to one of them.                  *)
LEMMA TrackerSumUpdate ==
  ASSUME SS!SpaceSavingAssumption, NEW f, NEW g, NEW j \in SS!Key, NEW d \in Int,
         \A i \in SS!Key : f[i] \in Int,
         g[j] = f[j] + d,
         \A i \in SS!Key : i # j => g[i] = f[i]
  PROVE  SS!PrefixSum(g, NumKeys) = SS!PrefixSum(f, NumKeys) + d
<1>1. NumKeys \in Nat
  BY DEF SS!SpaceSavingAssumption
<1> QED
  BY TrackerOps, <1>1, PrefixSumUpdate DEF SS!Key

LEMMA TrackedSize ==
  ASSUME SS!SpaceSavingAssumption
  PROVE  IsFiniteSet(SS!Tracked) /\ SS!Cardinality(SS!Tracked) \in Nat
<1>1. IsFiniteSet(1..NumKeys)
  BY TrackerOps, FS_Interval DEF SS!SpaceSavingAssumption
<1> QED
  BY TrackerOps, <1>1, FS_Subset, FS_CardinalityType DEF SS!Tracked, SS!Key

-----------------------------------------------------------------------------
(* The invariant is inductive.                                             *)

LEMMA SavingInit ==
  ASSUME SS!SpaceSavingAssumption, SS!Init
  PROVE  SS!IInv
<1>1. \A k \in SS!Key : Counts1[k] = 0 /\ Weight1[k] = 0
  BY DEF SS!Init, SS!NoWeight
<1>2. SS!Tracked = {}
  BY <1>1 DEF SS!Tracked
<1> QED
  BY <1>1, <1>2
     DEF SS!Init, SS!NoWeight, SS!IInv, SS!TypeOK, SS!Conserved, SS!Bracketed, SS!UntrackedLight

LEMMA SavingTracked ==
  ASSUME SS!SpaceSavingAssumption, SS!IInv, NEW k \in SS!Key, NEW w \in Weight,
         SS!UpdateTracked(k, w)
  PROVE  SS!IInv'
<1>0. /\ \A j \in SS!Key : Counts1[j] \in Nat /\ Weight1[j] \in Nat /\ Errors1[j] \in Nat
      /\ \A j \in SS!Key : Counts1[j] \in Int /\ Weight1[j] \in Int
  BY DEF SS!IInv, SS!TypeOK
<1>1. w \in Nat /\ w > 0 /\ NumKeys \in Nat
  BY DEF SS!SpaceSavingAssumption
<1>2. SS!TypeOK'
  BY <1>1 DEF SS!UpdateTracked, SS!Insert, SS!IInv, SS!TypeOK
<1>3. /\ Counts1'[k] = Counts1[k] + w /\ Weight1'[k] = Weight1[k] + w
      /\ \A j \in SS!Key : j # k => Counts1'[j] = Counts1[j] /\ Weight1'[j] = Weight1[j]
      /\ Counts1[k] > 0 /\ Errors1' = Errors1
  BY DEF SS!UpdateTracked, SS!Insert, SS!IInv, SS!TypeOK, SS!Tracked
<1>4. SS!Conserved'
  <2>1. w \in Int
    BY <1>1
  <2>2. /\ \A j \in SS!Key : Counts1[j] \in Int
        /\ Counts1'[k] = Counts1[k] + w
        /\ \A j \in SS!Key : j # k => Counts1'[j] = Counts1[j]
    BY <1>1, <1>3, <1>0
  <2>3. SS!PrefixSum(Counts1', NumKeys) = SS!PrefixSum(Counts1, NumKeys) + w
    BY <2>1, <2>2, TrackerSumUpdate
  <2>4. /\ \A j \in SS!Key : Weight1[j] \in Int
        /\ Weight1'[k] = Weight1[k] + w
        /\ \A j \in SS!Key : j # k => Weight1'[j] = Weight1[j]
    BY <1>3, <1>0
  <2>5. SS!PrefixSum(Weight1', NumKeys) = SS!PrefixSum(Weight1, NumKeys) + w
    BY <2>1, <2>4, TrackerSumUpdate
  <2> QED
    BY <2>3, <2>5 DEF SS!IInv, SS!Conserved
<1>5. SS!Tracked' = SS!Tracked
  BY <1>1, <1>3 DEF SS!Tracked, SS!IInv, SS!TypeOK
<1>6. SS!Bracketed'
  BY <1>1, <1>3, <1>5 DEF SS!Bracketed, SS!IInv, SS!TypeOK, SS!Tracked
<1>7. SS!UntrackedLight'
  <2> SUFFICES ASSUME NEW j \in SS!Key \ SS!Tracked', Weight1'[j] > 0
               PROVE  /\ SS!Cardinality(SS!Tracked') >= TrackerSize
                      /\ \A i \in SS!Tracked' : Weight1'[j] <= Counts1'[i]
    BY DEF SS!UntrackedLight
  <2>1. j # k /\ Weight1[j] > 0 /\ j \in SS!Key \ SS!Tracked
    BY <1>3, <1>5 DEF SS!UpdateTracked
  <2> QED
    BY <2>1, <1>1, <1>3, <1>5 DEF SS!UntrackedLight, SS!IInv, SS!TypeOK, SS!Tracked
<1> QED
  BY <1>2, <1>4, <1>6, <1>7 DEF SS!IInv

LEMMA SavingAdd ==
  ASSUME SS!SpaceSavingAssumption, SS!IInv, NEW k \in SS!Key, NEW w \in Weight, SS!AddEntry(k, w)
  PROVE  SS!IInv'
<1>0. /\ \A j \in SS!Key : Counts1[j] \in Nat /\ Weight1[j] \in Nat /\ Errors1[j] \in Nat
      /\ \A j \in SS!Key : Counts1[j] \in Int /\ Weight1[j] \in Int
  BY DEF SS!IInv, SS!TypeOK
<1>1. w \in Nat /\ w > 0 /\ NumKeys \in Nat /\ TrackerSize \in Nat
  BY DEF SS!SpaceSavingAssumption
<1>2. SS!TypeOK'
  BY <1>1 DEF SS!AddEntry, SS!Insert, SS!IInv, SS!TypeOK
<1>3. /\ Counts1[k] = 0 /\ Counts1'[k] = w /\ Weight1'[k] = Weight1[k] + w
      /\ \A j \in SS!Key : j # k => Counts1'[j] = Counts1[j] /\ Weight1'[j] = Weight1[j]
      /\ Errors1' = Errors1
  BY DEF SS!AddEntry, SS!Insert, SS!IInv, SS!TypeOK, SS!Tracked
<1>4. SS!Conserved'
  <2>1. w \in Int
    BY <1>1
  <2>2. /\ \A j \in SS!Key : Counts1[j] \in Int
        /\ Counts1'[k] = Counts1[k] + w
        /\ \A j \in SS!Key : j # k => Counts1'[j] = Counts1[j]
    BY <1>1, <1>3, <1>0
  <2>3. SS!PrefixSum(Counts1', NumKeys) = SS!PrefixSum(Counts1, NumKeys) + w
    BY <2>1, <2>2, TrackerSumUpdate
  <2>4. /\ \A j \in SS!Key : Weight1[j] \in Int
        /\ Weight1'[k] = Weight1[k] + w
        /\ \A j \in SS!Key : j # k => Weight1'[j] = Weight1[j]
    BY <1>3, <1>0
  <2>5. SS!PrefixSum(Weight1', NumKeys) = SS!PrefixSum(Weight1, NumKeys) + w
    BY <2>1, <2>4, TrackerSumUpdate
  <2> QED
    BY <2>3, <2>5 DEF SS!IInv, SS!Conserved
<1>5. \A j \in SS!Key \ SS!Tracked : Weight1[j] = 0
  <2>1. SS!Cardinality(SS!Tracked) < TrackerSize /\ SS!Cardinality(SS!Tracked) \in Nat
    BY TrackedSize DEF SS!AddEntry
  <2> QED
    BY <2>1, <1>1 DEF SS!UntrackedLight, SS!IInv, SS!TypeOK
<1>6. SS!Tracked' = SS!Tracked \union {k} /\ k \notin SS!Tracked
  BY <1>1, <1>3 DEF SS!Tracked, SS!IInv, SS!TypeOK
<1>7. SS!Bracketed'
  <2> SUFFICES ASSUME NEW j \in SS!Tracked'
               PROVE  /\ Weight1'[j] <= Counts1'[j]
                      /\ Counts1'[j] - Errors1'[j] <= Weight1'[j]
    BY DEF SS!Bracketed
  <2>1. CASE j = k
    BY <2>1, <1>1, <1>3, <1>5, <1>6 DEF SS!IInv, SS!TypeOK
  <2>2. CASE j \in SS!Tracked
    BY <2>2, <1>3, <1>6 DEF SS!Bracketed, SS!IInv, SS!TypeOK, SS!Tracked
  <2> QED
    BY <2>1, <2>2, <1>6
<1>8. SS!UntrackedLight'
  <2> SUFFICES ASSUME NEW j \in SS!Key \ SS!Tracked', Weight1'[j] > 0
               PROVE  FALSE
    BY DEF SS!UntrackedLight
  <2> QED
    BY <1>3, <1>5, <1>6
<1> QED
  BY <1>2, <1>4, <1>7, <1>8 DEF SS!IInv

LEMMA SavingEvict ==
  ASSUME SS!SpaceSavingAssumption, SS!IInv, NEW k \in SS!Key, NEW w \in Weight, SS!Evict(k, w)
  PROVE  SS!IInv'
<1>0. /\ \A j \in SS!Key : Counts1[j] \in Nat /\ Weight1[j] \in Nat /\ Errors1[j] \in Nat
      /\ \A j \in SS!Key : Counts1[j] \in Int /\ Weight1[j] \in Int
  BY DEF SS!IInv, SS!TypeOK
<1>1. w \in Nat /\ w > 0 /\ NumKeys \in Nat /\ TrackerSize \in Nat
  BY DEF SS!SpaceSavingAssumption
<1>2. PICK m \in SS!Tracked :
        /\ k \notin SS!Tracked /\ SS!Cardinality(SS!Tracked) >= TrackerSize
        /\ \A j \in SS!Tracked : Counts1[m] <= Counts1[j]
        /\ SS!Insert(k, w)
        /\ Counts1' = [Counts1 EXCEPT ![m] = 0, ![k] = Counts1[m] + w]
        /\ Errors1' = [Errors1 EXCEPT ![m] = 0, ![k] = Counts1[m]]
  BY DEF SS!Evict
<1>3. m \in SS!Key /\ m # k /\ Counts1[m] \in Nat /\ Counts1[m] > 0 /\ Counts1[k] = 0
  BY <1>2 DEF SS!Tracked, SS!IInv, SS!TypeOK
<1>4. SS!TypeOK'
  BY <1>1, <1>2, <1>3 DEF SS!Insert, SS!IInv, SS!TypeOK
<1>5. /\ Counts1'[m] = 0 /\ Counts1'[k] = Counts1[m] + w /\ Errors1'[k] = Counts1[m]
      /\ \A j \in SS!Key : j # k /\ j # m => Counts1'[j] = Counts1[j] /\ Errors1'[j] = Errors1[j]
      /\ Weight1'[k] = Weight1[k] + w
      /\ \A j \in SS!Key : j # k => Weight1'[j] = Weight1[j]
  BY <1>2, <1>3 DEF SS!Insert, SS!IInv, SS!TypeOK
<1>6. SS!Conserved'
  <2> DEFINE g == [Counts1 EXCEPT ![m] = 0]
  <2>1. g[m] = Counts1[m] + (0 - Counts1[m]) /\ \A j \in SS!Key : j # m => g[j] = Counts1[j]
    BY <1>3 DEF SS!IInv, SS!TypeOK
  <2>2. SS!PrefixSum(g, NumKeys) = SS!PrefixSum(Counts1, NumKeys) + (0 - Counts1[m])
    <3> HIDE DEF g
    <3>1. 0 - Counts1[m] \in Int
      BY <1>3
    <3> QED
      BY <3>1, <2>1, <1>1, <1>3, TrackerSumUpdate, <1>0
  <2>3. \A j \in SS!Key : g[j] \in Int
    BY <2>1, <1>3 DEF SS!IInv, SS!TypeOK
  <2>4. Counts1'[k] = g[k] + (Counts1[m] + w) /\ \A j \in SS!Key : j # k => Counts1'[j] = g[j]
    BY <1>1, <1>3, <1>5, <2>1
  <2>5. SS!PrefixSum(Counts1', NumKeys) = SS!PrefixSum(g, NumKeys) + (Counts1[m] + w)
    <3> HIDE DEF g
    <3>1. Counts1[m] + w \in Int
      BY <1>1, <1>3
    <3> QED
      BY <3>1, <2>3, <2>4, <1>1, TrackerSumUpdate
  <2>6. SS!PrefixSum(Weight1', NumKeys) = SS!PrefixSum(Weight1, NumKeys) + w
    <3>1. /\ w \in Int
          /\ \A j \in SS!Key : Weight1[j] \in Int
      BY <1>1, <1>0
    <3>2. /\ Weight1'[k] = Weight1[k] + w
          /\ \A j \in SS!Key : j # k => Weight1'[j] = Weight1[j]
      BY <1>5
    <3> QED
      BY <3>1, <3>2, TrackerSumUpdate
  <2>7. SS!PrefixSum(Counts1, NumKeys) \in Int
    <3>1. \A j \in 1..NumKeys : Counts1[j] \in Int
      BY <1>0 DEF SS!Key
    <3> QED
      BY TrackerOps, <3>1, <1>1, PrefixSumType
  <2> QED
    <3> HIDE DEF g
    <3> QED
      BY <2>2, <2>5, <2>6, <2>7, <1>1, <1>3 DEF SS!IInv, SS!Conserved
<1>7. SS!Tracked' = (SS!Tracked \ {m}) \union {k}
  BY <1>1, <1>2, <1>3, <1>5 DEF SS!Tracked, SS!IInv, SS!TypeOK
<1>8. SS!Cardinality(SS!Tracked') = SS!Cardinality(SS!Tracked)
  <2>1. IsFiniteSet(SS!Tracked) /\ SS!Cardinality(SS!Tracked) \in Nat
    BY TrackedSize
  <2>2. /\ IsFiniteSet(SS!Tracked \ {m})
        /\ SS!Cardinality(SS!Tracked \ {m}) = SS!Cardinality(SS!Tracked) - 1
    BY TrackerOps, <2>1, FS_RemoveElement
  <2>3. k \notin SS!Tracked \ {m}
    BY <1>2
  <2>4. SS!Cardinality((SS!Tracked \ {m}) \union {k}) = SS!Cardinality(SS!Tracked \ {m}) + 1
    BY TrackerOps, <2>2, <2>3, FS_AddElement
  <2> QED
    BY <2>1, <2>2, <2>4, <1>7
<1>9. \A j \in SS!Key \ SS!Tracked : Weight1[j] \in Nat /\ Weight1[j] <= Counts1[m]
  BY <1>2, <1>3 DEF SS!UntrackedLight, SS!IInv, SS!TypeOK
<1>10. SS!Bracketed'
  <2> SUFFICES ASSUME NEW j \in SS!Tracked'
               PROVE  /\ Weight1'[j] <= Counts1'[j]
                      /\ Counts1'[j] - Errors1'[j] <= Weight1'[j]
    BY DEF SS!Bracketed
  <2>1. CASE j = k
    <3>1. Weight1[k] \in Nat /\ Weight1[k] <= Counts1[m]
      BY <1>2, <1>9
    <3> QED
      BY <2>1, <3>1, <1>1, <1>3, <1>5
  <2>2. CASE j \in SS!Tracked \ {m} /\ j # k
    BY <2>2, <1>5 DEF SS!Bracketed, SS!IInv, SS!TypeOK, SS!Tracked
  <2> QED
    BY <2>1, <2>2, <1>7
<1>11. SS!UntrackedLight'
  <2> SUFFICES ASSUME NEW j \in SS!Key \ SS!Tracked', Weight1'[j] > 0
               PROVE  /\ SS!Cardinality(SS!Tracked') >= TrackerSize
                      /\ \A i \in SS!Tracked' : Weight1'[j] <= Counts1'[i]
    BY DEF SS!UntrackedLight
  <2>1. SS!Cardinality(SS!Tracked') >= TrackerSize
    BY <1>2, <1>8
  <2>2. j # k /\ Weight1'[j] = Weight1[j] /\ Weight1[j] \in Nat /\ Weight1[j] <= Counts1[m]
    <3>1. j # k /\ Weight1'[j] = Weight1[j]
      BY <1>5, <1>7
    <3>2. CASE j = m
      BY <3>1, <3>2, <1>2 DEF SS!Bracketed, SS!IInv, SS!TypeOK
    <3>3. CASE j # m
      BY <3>1, <3>3, <1>7, <1>9
    <3> QED
      BY <3>1, <3>2, <3>3
  <2>3. \A i \in SS!Tracked' : Counts1[m] <= Counts1'[i]
    <3> SUFFICES ASSUME NEW i \in SS!Tracked'
                 PROVE  Counts1[m] <= Counts1'[i]
      OBVIOUS
    <3>1. CASE i = k
      BY <3>1, <1>1, <1>3, <1>5
    <3>2. CASE i \in SS!Tracked \ {m} /\ i # k
      BY <3>2, <1>2, <1>5 DEF SS!Tracked
    <3> QED
      BY <3>1, <3>2, <1>7
  <2>4. \A i \in SS!Tracked' : Counts1'[i] \in Nat
    BY <1>4 DEF SS!TypeOK, SS!Tracked
  <2> QED
    BY <2>1, <2>2, <2>3, <2>4, <1>3
<1> QED
  BY <1>4, <1>6, <1>10, <1>11 DEF SS!IInv

LEMMA SavingReset ==
  ASSUME SS!SpaceSavingAssumption, SS!Reset
  PROVE  SS!IInv'
<1>1. \A k \in SS!Key : Counts1'[k] = 0 /\ Weight1'[k] = 0
  BY DEF SS!Reset, SS!NoWeight
<1>2. SS!Tracked' = {}
  BY <1>1 DEF SS!Tracked
<1> QED
  BY <1>1, <1>2
     DEF SS!Reset, SS!NoWeight, SS!IInv, SS!TypeOK, SS!Conserved, SS!Bracketed, SS!UntrackedLight

-----------------------------------------------------------------------------

(* Whatever behaves as Space Saving keeps the invariant, ...               *)
LEMMA SavingAssumed == SS!SpaceSavingAssumption
BY EdgeSyncAssumption DEF SS!SpaceSavingAssumption

LEMMA SavingInvariance == TrackerKeeps => []SS!IInv
<1> USE SavingAssumed
<1>1. SS!Init => SS!IInv
  BY SavingInit
<1>2. SS!IInv /\ [SS!Next]_SS!vars => SS!IInv'
  <2> SUFFICES ASSUME SS!IInv, [SS!Next]_SS!vars
               PROVE  SS!IInv'
    OBVIOUS
  <2>1. ASSUME NEW k \in SS!Key, NEW w \in Weight, SS!Update(k, w)
        PROVE  SS!IInv'
    BY <2>1, SavingTracked, SavingAdd, SavingEvict DEF SS!Update
  <2>2. CASE SS!Reset
    BY <2>2, SavingReset
  <2>3. CASE UNCHANGED SS!vars
    <3>1. SS!Tracked' = SS!Tracked
      BY <2>3 DEF SS!vars, SS!Tracked
    <3> QED
      BY <2>3, <3>1 DEF SS!vars, SS!IInv, SS!TypeOK, SS!Conserved, SS!Bracketed, SS!UntrackedLight
  <2> QED
    BY <2>1, <2>2, <2>3 DEF SS!Next
<1> QED
  BY <1>1, <1>2, PTL DEF TrackerKeeps, SS!Spec

(* The promise of the tracker's comment: any key with more than a K-th of  *)
(* all the weight is among the candidates (space_saving.go, Update).       *)
THEOREM HeavyKeysAreTracked == TrackerKeeps => []SS!HeavyTracked
<1> USE SavingAssumed
<1>1. SS!IInv => SS!HeavyTracked
  <2> SUFFICES ASSUME SS!IInv, NEW k \in SS!Key,
                      Weight1[k] * TrackerSize > SS!PrefixSum(Weight1, NumKeys), k \notin SS!Tracked
               PROVE  FALSE
    BY DEF SS!HeavyTracked
  <2>1. NumKeys \in Nat /\ TrackerSize \in Nat /\ Weight1[k] \in Nat
    BY DEF SS!SpaceSavingAssumption, SS!IInv, SS!TypeOK
  <2>2. SS!Cardinality(SS!Tracked) \in Nat
    BY TrackedSize
  <2>3. SS!PrefixSum(Counts1, NumKeys) = SS!PrefixSum(Weight1, NumKeys)
    BY DEF SS!IInv, SS!Conserved
  <2>4. SS!PrefixSum(Counts1, NumKeys) \in Int
    BY TrackerOps, <2>1, PrefixSumType DEF SS!IInv, SS!TypeOK, SS!Key
  <2>5. SS!PrefixSum(Counts1, NumKeys) >= 0 * SS!Cardinality(SS!Tracked)
    <3>1. \A j \in 1..NumKeys : Counts1[j] \in Nat /\ (Counts1[j] > 0 => 0 <= Counts1[j])
      BY DEF SS!IInv, SS!TypeOK, SS!Key
    <3> QED
      BY TrackerOps, <2>1, <3>1, SumAtLeast DEF SS!Key, SS!Tracked
  <2>6. Weight1[k] > 0
    <3>1. SS!PrefixSum(Counts1, NumKeys) >= 0
      BY <2>2, <2>4, <2>5
    <3>2. Weight1[k] = 0 => Weight1[k] * TrackerSize = 0
      BY <2>1
    <3> QED
      BY <3>1, <3>2, <2>1, <2>3, <2>4
  <2>7. /\ SS!Cardinality(SS!Tracked) >= TrackerSize
        /\ \A j \in SS!Tracked : Weight1[k] <= Counts1[j]
    BY <2>6 DEF SS!IInv, SS!UntrackedLight
  <2>8. SS!PrefixSum(Counts1, NumKeys) >= Weight1[k] * SS!Cardinality(SS!Tracked)
    <3>1. \A j \in 1..NumKeys : Counts1[j] \in Nat /\ (Counts1[j] > 0 => Weight1[k] <= Counts1[j])
      BY <2>7 DEF SS!IInv, SS!TypeOK, SS!Key, SS!Tracked
    <3> QED
      BY TrackerOps, <2>1, <3>1, SumAtLeast DEF SS!Key, SS!Tracked
  <2>9. Weight1[k] * SS!Cardinality(SS!Tracked) >= Weight1[k] * TrackerSize
    <3>1. \A a, b, x \in Nat : a >= b => x * a >= x * b
      OBVIOUS
    <3> QED
      BY <3>1, <2>1, <2>2, <2>7
  <2>10. \A a, b, c \in Int : a >= b /\ b >= c => ~ (c > a)
    OBVIOUS
  <2>11. Weight1[k] * SS!Cardinality(SS!Tracked) \in Int /\ Weight1[k] * TrackerSize \in Int
    BY <2>1, <2>2
  <2> QED
    BY <2>3, <2>4, <2>8, <2>9, <2>10, <2>11
<1> QED
  BY <1>1, SavingInvariance, PTL

(* "true_weight >= count - maxError", and a count never falls short.       *)
THEOREM CountsAreBracketed == Spec => []SS!Bracketed
<1>1. SS!IInv => SS!Bracketed
  BY DEF SS!IInv
<1> QED
  BY <1>1, SavingInvariance, TrackerKept, PTL

(* Every key with more than 1/TOPK_SIZE of the weight that an edge's       *)
(* tracker was given is among the candidates that its delta carries (edge  *)
(* 1 stands for any).                                                      *)
HeavyAreCandidates ==
  \A k \in Key :
    weight[1][k] * TrackerSize > PrefixSum(weight[1], NumKeys)
      => k \in ToSet(Candidates(edge[1].ss))

THEOREM HeavyKeysAreCandidates == Spec => []HeavyAreCandidates
<1>1. Trackers /\ SS!HeavyTracked => HeavyAreCandidates
  <2> SUFFICES ASSUME Trackers, SS!HeavyTracked, NEW k \in Key,
                      weight[1][k] * TrackerSize > PrefixSum(weight[1], NumKeys)
               PROVE  k \in ToSet(Candidates(edge[1].ss))
    BY DEF HeavyAreCandidates
  <2> DEFINE ss == edge[1].ss
  <2>1. SS!Key = Key /\ \A f, n : SS!PrefixSum(f, n) = PrefixSum(f, n)
    BY DEF SS!Key, Key, SS!PrefixSum, PrefixSum
  <2>2. k \in SS!Tracked
    BY <2>1 DEF SS!HeavyTracked, Weight1
  <2>3. CountOf(ss, k) > 0
    BY <2>1, <2>2 DEF SS!Tracked, Counts1
  <2>4. SSHeap(ss)
    BY TrackerSizes DEF Trackers
  <2> HIDE DEF ss
  <2>5. k \in KeysOf(ss)
    BY <2>3, <2>4, TrackedKeys
  <2>6. k \in ToSet(Candidates(ss))
    BY <2>5 DEF KeysOf, Ents, ToSet, Candidates
  <2> QED
    BY <2>6 DEF ss
<1> QED
  BY <1>1, HeavyKeysAreTracked, TrackerKept, TrackersInit, TrackersNext, PTL DEF Spec
=============================================================================
