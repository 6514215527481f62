--------------------------- MODULE MultiHeadHydra ---------------------------
(***************************************************************************)
(* multihead.go: Hydra with several counters in each cell, one for each    *)
(* dimension.  An update inserts values, each into the dimensions it names.*)
(***************************************************************************)
EXTENDS HydraCounter

CONSTANTS
  Dims,       \* the dimensions: a sequence of names and counter types
  Key,
  Batch,      \* the values of an update, with the dimensions of each
  Count,      \* counts of updates
  MaxUpdates  \* model bound: updates in a behaviour

VARIABLES
  sk,    \* the cells
  seen   \* history: the updates in the order they were made

vars == <<sk, seen>>

(* Of dimensions with one name, the last.                                  *)
dimIndex(name) ==
  CHOOSE i \in DOMAIN Dims :
    /\ Dims[i].name = name
    /\ \A j \in DOMAIN Dims : Dims[j].name = name => j <= i

Known(name) == \E i \in DOMAIN Dims : Dims[i].name = name

NewMultiHeadHydra ==
  [r \in Row |-> [c \in 0..W-1 |-> [i \in DOMAIN Dims |-> NewCounter(Dims[i].type)]]]

Init == sk = NewMultiHeadHydra /\ seen = << >>

-----------------------------------------------------------------------------
InsertValue(cells, s, x, count) ==
  FoldSeq(LAMBDA name, cs :
            IF ~Known(name) THEN cs ELSE
            [r \in Row |-> [cs[r] EXCEPT ![PosOf[s][r]][dimIndex(name)] =
                              InsertWithHash(@, x.v, FloatOf[x.v], count)]],
          cells, x.dims)

Update(key, values, count) ==
  /\ Len(seen) < MaxUpdates
  /\ sk' = IF count <= 0 THEN sk ELSE
           FoldSeq(LAMBDA s, cells :
                     FoldSeq(LAMBDA x, cs : InsertValue(cs, s, x, count), cells, values),
                   sk, expandSubkeys(key, TRUE))
  /\ seen' = IF count <= 0 THEN seen ELSE
             Append(seen, [key |-> key, values |-> values, count |-> count])

QueryKey(s, name, kind, v) ==
  IF ~Known(name) THEN 0
  ELSE Median([r \in Row |-> Query(sk[r][PosOf[s][r]][dimIndex(name)], kind, v)])

Next == \E k \in Key, b \in Batch, n \in Count : Update(k, b, n)

-----------------------------------------------------------------------------
(* The updates of one dimension, one record for each value it is given.    *)
Given(i) ==
  FlattenSeq([j \in DOMAIN seen |->
    FlattenSeq([m \in DOMAIN seen[j].values |->
      LET x == seen[j].values[m]
          naming == SelectSeq(x.dims, LAMBDA name : Known(name) /\ dimIndex(name) = i)
      IN  [a \in DOMAIN naming |->
             [raw |-> FALSE, fanout |-> TRUE, key |-> seen[j].key, v |-> x.v,
              count |-> seen[j].count]]])])

(* Each dimension is a Hydra of its own: its counters hold what a Hydra    *)
(* given only the values that name it would hold, and answers for a        *)
(* sub-tuple lie between the true count and the row with most collisions.  *)
DimensionsApart ==
  /\ \A i \in DOMAIN Dims, r \in Row, col \in 0..W-1, v \in Value :
       LET c == sk[r][col][i]
       IN  c.weight[v] = Expected(Given(i), c.type, LAMBDA u : Hits(u, r, col), v)
  /\ \A i \in DOMAIN Dims, s \in DOMAIN PosOf, v \in Value :
       LET name == Dims[i].name
           self(u) == Cardinality({x \in Picks(u) : x[2] = s})
       IN  dimIndex(name) = i /\ Dims[i].type \in {"cm", "universal"} =>
             QueryKey(s, name, "frequency", v) >= Expected(Given(i), "cm", self, v)
=============================================================================
