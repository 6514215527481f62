---------------------------- MODULE ElasticSketch ----------------------------
(***************************************************************************)
(* ElasticSKetch.go: one heavy bucket per hash index over a Count-Min      *)
(* light part.  The owner of a bucket is voted out when the others have    *)
(* VoteFactor times its votes; its votes then move to the light part.      *)
(***************************************************************************)
EXTENDS Integers, FiniteSets, Functions

CONSTANTS
  Node, Key,
  NoKey,        \* the flow of a bucket that was never used
  Bucket,
  BucketOf,     \* BucketOf[k]: heavy bucket of key k
  Row, Col,     \* the light part
  ColOf,        \* ColOf[k][r]: column of key k in row r
  VoteFactor,   \* defaultVoteFactor
  MaxTotal      \* model bound: insertions counted in all sketches together

VARIABLES
  sk,    \* the sketch of each node
  seen   \* history: insertions of each key, and whether a merge was made

vars == <<sk, seen>>

(* What a sketch is built from.                                            *)
Dimensions ==
  /\ IsFiniteSet(Key) /\ NoKey \notin Key
  /\ IsFiniteSet(Bucket) /\ BucketOf \in [Key -> Bucket]
  /\ Row # {} /\ IsFiniteSet(Col) /\ ColOf \in [Key -> [Row -> Col]]

NoBucket == [FlowID |-> NoKey, VotePos |-> 0, VoteNeg |-> 0, Eviction |-> FALSE]
NoHeavy == [b \in Bucket |-> NoBucket]
New == [heavy |-> NoHeavy, light |-> [r \in Row |-> [c \in Col |-> 0]]]

Init ==
  /\ sk = [n \in Node |-> New]
  /\ seen = [n \in Node |-> [count |-> [k \in Key |-> 0], merged |-> FALSE]]

-----------------------------------------------------------------------------
lightInsert(light, k, many) ==
  [r \in Row |-> [light[r] EXCEPT ![ColOf[k][r]] = @ + many]]

lightEstimate(light, k) ==
  CHOOSE v \in {light[r][ColOf[k][r]] : r \in Row} :
    \A r \in Row : v <= light[r][ColOf[k][r]]

(* Mutant: the votes of the evicted flow are dropped.                      *)
evictDropsVotes(s, k) ==
  [s EXCEPT !.heavy[BucketOf[k]] =
     [FlowID |-> k, VotePos |-> 1, VoteNeg |-> 1, Eviction |-> TRUE]]

(* k takes the bucket; the votes of the evicted flow go to the light part. *)
evict(s, k) ==
  LET old == s.heavy[BucketOf[k]]
  IN  [heavy |-> [s.heavy EXCEPT ![BucketOf[k]] =
                    [FlowID |-> k, VotePos |-> 1, VoteNeg |-> 1, Eviction |-> TRUE]],
       light |-> lightInsert(s.light, old.FlowID, old.VotePos)]

insertOne(s, k) ==
  LET b == s.heavy[BucketOf[k]]
      against == [s EXCEPT !.heavy[BucketOf[k]].VoteNeg = @ + 1]
      stays == b.VotePos > 0 /\ b.VoteNeg + 1 < VoteFactor * b.VotePos
  IN  CASE b = NoBucket -> [s EXCEPT !.heavy[BucketOf[k]] =
                              [@ EXCEPT !.FlowID = k, !.VotePos = 1]]
        [] b.FlowID = k -> [s EXCEPT !.heavy[BucketOf[k]].VotePos = @ + 1]
        [] b.FlowID \notin {k, NoKey} /\ stays ->
                           [against EXCEPT !.light = lightInsert(@, k, 1)]
        [] b.FlowID \notin {k, NoKey} /\ ~stays -> evict(against, k)

Query(s, k) ==
  LET b == s.heavy[BucketOf[k]]
      owner == b.FlowID = k
  IN  (IF owner THEN b.VotePos ELSE 0)
        + (IF owner /\ ~b.Eviction THEN 0 ELSE lightEstimate(s.light, k))

(* spillHeavyToLight of every bucket, into any light part.                 *)
spillHeavy(heavy, light) ==
  [r \in Row |-> [c \in Col |-> light[r][c] +
     SumFunction([b \in {x \in Bucket : /\ heavy[x].FlowID # NoKey
                                  /\ ColOf[heavy[x].FlowID][r] = c} |->
              heavy[b].VotePos])]]

-----------------------------------------------------------------------------
Insert(n, k) ==
  /\ sk' = [sk EXCEPT ![n] = insertOne(@, k)]
  /\ seen' = [seen EXCEPT ![n].count[k] = @ + 1]

(* Both heavy parts end in the light part of n; m is left as it is, and a  *)
(* merge with itself does nothing.                                         *)
Merge(n, m) ==
  /\ n # m
  /\ LET own  == spillHeavy(sk[n].heavy, sk[n].light)
         both == [r \in Row |-> [c \in Col |-> own[r][c] + sk[m].light[r][c]]]
     IN  sk' = [sk EXCEPT ![n] = [heavy |-> NoHeavy,
                                  light |-> spillHeavy(sk[m].heavy, both)]]
  /\ seen' = [seen EXCEPT ![n] =
                [count |-> [k \in Key |-> @.count[k] + seen[m].count[k]], merged |-> TRUE]]

Next ==
  /\ \/ \E n \in Node, k \in Key : Insert(n, k)
     \/ \E n, m \in Node : Merge(n, m)
  /\ SumFunction([n \in Node |-> SumFunction(seen'[n].count)]) <= MaxTotal

Spec == Init /\ [][Next]_vars

-----------------------------------------------------------------------------
(* Votes and light counts together are the insertions, through every       *)
(* eviction and merge; and no key is underestimated, except after a merge, *)
(* by a bucket that it took anew and whose missing eviction mark keeps     *)
(* Query from adding what the merge moved to the light part.               *)
VotesConserved ==
  \A n \in Node :
    LET s == sk[n]
        total == SumFunction(seen[n].count)
        votes == SumFunction([b \in Bucket |-> s.heavy[b].VotePos])
    IN  /\ \A r \in Row : SumFunction(s.light[r]) + votes = total
        /\ \A k \in Key :
             LET b == s.heavy[BucketOf[k]]
             IN  \/ Query(s, k) >= seen[n].count[k]
                 \/ /\ seen[n].merged /\ b.FlowID = k /\ ~b.Eviction
                    /\ b.VotePos + lightEstimate(s.light, k) >= seen[n].count[k]

(* What the merge tests ask of a flow, at any time after the merge: its    *)
(* count is not underestimated.                                            *)
NoUnderestimate ==
  \A n \in Node, k \in Key : Query(sk[n], k) >= seen[n].count[k]
=============================================================================
