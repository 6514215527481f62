----------------------------- MODULE CocoSketch -----------------------------
(***************************************************************************)
(* CocoSketch.go: d rows of buckets, each with one key and a value.  A key *)
(* goes to the first of its buckets that holds it or is empty; when all    *)
(* hold other keys, its value is added to the smallest bucket, whose key   *)
(* it takes over with a probability.                                       *)
(***************************************************************************)
EXTENDS Integers, FiniteSets, Functions, FiniteSetsExt

CONSTANTS
  Node, Key,
  d, length,   \* rows 1..d of columns 1..length
  ColOf,       \* ColOf[k][r]: column of key k in row r
  Weights,     \* values of one insertion
  MaxTotal     \* model bound: total value in all sketches together

VARIABLES
  sk,    \* the table of each node
  seen   \* history: total value inserted into it

vars == <<sk, seen>>

Row == 1..d
Col == 1..length

(* What NewCocoSketch accepts, and what Insert passes on.                  *)
Dimensions ==
  /\ d \in Nat \ {0} /\ length \in Nat \ {0}
  /\ IsFiniteSet(Key) /\ ColOf \in [Key -> [Row -> Col]]
  /\ Weights \subseteq Nat \ {0}

NoBucket == <<>>    \* HasKey is FALSE; otherwise <<Hash, Val>>
New == [r \in Row |-> [c \in Col |-> NoBucket]]

Init ==
  /\ sk = [n \in Node |-> New]
  /\ seen = [n \in Node |-> 0]

-----------------------------------------------------------------------------
At(t, k, r) == t[r][ColOf[k][r]]
Has(b, k) == b # NoBucket /\ b[1] = k

Put(t, k, r, b) == [t EXCEPT ![r][ColOf[k][r]] = b]

(* The rows where the scan stops: the key is there or the bucket is empty. *)
Stops(t, k) == {r \in Row : At(t, k, r) = NoBucket \/ Has(At(t, k, r), k)}
(* The first of the smallest buckets.                                      *)
minRow(t, k) == CHOOSE r \in Row : \A o \in Row :
  At(t, k, r)[2] < At(t, k, o)[2] \/ (At(t, k, r)[2] = At(t, k, o)[2] /\ r <= o)

(* Mutant: an empty bucket is taken before the key is looked for.          *)
insertKeyValueEmptyFirst(t, k, v) ==
  LET empty == {r \in Row : At(t, k, r) = NoBucket}
      own   == {r \in Row : Has(At(t, k, r), k)}
  IN  CASE empty # {} -> {Put(t, k, Min(empty), <<k, v>>)}
        [] empty = {} /\ own # {} ->
             {Put(t, k, Min(own), <<k, v + At(t, k, Min(own))[2]>>)}
        [] OTHER -> {Put(t, k, minRow(t, k), <<k, v + At(t, k, minRow(t, k))[2]>>)}

(* The possible tables after k was inserted with value v.                  *)
insertKeyValue(t, k, v) ==
  IF Stops(t, k) # {}
  THEN LET r == Min(Stops(t, k))
       IN  {Put(t, k, r, <<k, v + IF Has(At(t, k, r), k) THEN At(t, k, r)[2] ELSE 0>>)}
  ELSE LET r == minRow(t, k)
           b == At(t, k, r)
       IN  {Put(t, k, r, <<owner, b[2] + v>>) : owner \in {b[1], k}}

EstimateHash(t, k) ==
  SumFunction([r \in Row |-> IF Has(At(t, k, r), k) THEN At(t, k, r)[2] ELSE 0])

-----------------------------------------------------------------------------
Insert(n, k, v) ==
  /\ \E t \in insertKeyValue(sk[n], k, v) : sk' = [sk EXCEPT ![n] = t]
  /\ seen' = [seen EXCEPT ![n] = @ + v]

(* The tables that one of ts can become when bucket b is inserted.         *)
absorb(ts, b) == IF b = NoBucket THEN ts ELSE UNION {insertKeyValue(t, b[1], b[2]) : t \in ts}

absorbRow(ts, row) ==
  LET upTo[c \in 0..length] == IF c = 0 THEN ts ELSE absorb(upTo[c-1], row[c])
  IN  upTo[length]

absorbTable(ts, table) ==
  LET upTo[r \in 0..d] == IF r = 0 THEN ts ELSE absorbRow(upTo[r-1], table[r])
  IN  upTo[d]

(* The buckets of m row by row, each inserted into what the ones before it *)
(* left; with itself, every bucket meets itself.                           *)
Merge(n, m) ==
  /\ \E t \in absorbTable({sk[n]}, sk[m]) : sk' = [sk EXCEPT ![n] = t]
  /\ seen' = [seen EXCEPT ![n] = @ + seen[m]]

Clear(n) ==
  /\ sk' = [sk EXCEPT ![n] = New]
  /\ seen' = [seen EXCEPT ![n] = 0]

Next ==
  /\ \/ \E n \in Node, k \in Key, v \in Weights : Insert(n, k, v)
     \/ \E n, m \in Node : Merge(n, m)
     \/ \E n \in Node : Clear(n)
  /\ SumFunction(seen') <= MaxTotal

Spec == Init /\ [][Next]_vars

-----------------------------------------------------------------------------
(* Whoever won the replacements, and in whatever order sketches were       *)
(* merged, a key is in one bucket at most, so that the estimates of all    *)
(* keys share out exactly what was inserted.                               *)
EstimatesAddUp ==
  \A n \in Node :
    /\ \A k \in Key : Cardinality({r \in Row : Has(At(sk[n], k, r), k)}) <= 1
    /\ SumFunction([k \in Key |-> EstimateHash(sk[n], k)]) = seen[n]
=============================================================================
