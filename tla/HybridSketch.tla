---------------------------- MODULE HybridSketch ----------------------------
(***************************************************************************)
(* The sketches in the buckets of the NormL2 histogram: a map of exact     *)
(* counts that turns itself into a UnivSketch when it is half full.        *)
(* Updates and merges of buckets hold the write lock.  Queries share the   *)
(* read lock, and yet Merge promotes the bucket it reads from, in place    *)
(* and in several writes, when the result is a UnivSketch already.  Those  *)
(* writes are steps here, and so is every read of isSketch; other readers  *)
(* see them in the order of the program.  A UnivSketch is known by what    *)
(* was inserted into it, and a nil map by having no counts.                *)
(***************************************************************************)
EXTENDS Integers, Sequences, FiniteSets, Functions

CONSTANTS
  Key, Reader,
  maxMapSize,
  MaxItems     \* model bound on the items in all buckets

(* What the sums over keys need.                                           *)
Dimensions == IsFiniteSet(Key)

VARIABLES
  sk,    \* the buckets' sketches, oldest first, and the queries
  seen   \* history: what each bucket was given and whether two queries
         \*   promoted it at once; the queries that others interfered with

vars == <<sk, seen>>

Nothing == [k \in Key |-> 0]
Plus(f, g) == [k \in Key |-> f[k] + g[k]]
SumOf(f) == SumFunction(f)
Energy(counts) == SumOf([k \in Key |-> counts[k] * counts[k]])

NewHybridSketch == [isSketch |-> FALSE, mapCounts |-> Nothing, l2 |-> 0, univSketch |-> Nothing]
NoQuery == [pc |-> "idle", res |-> NewHybridSketch, from |-> 0, at |-> 0, to |-> 0]

Init ==
  /\ sk = [buckets |-> <<>>, query |-> [r \in Reader |-> NoQuery]]
  /\ seen = [given |-> <<>>, spoiled |-> <<>>, met |-> [r \in Reader |-> FALSE]]

-----------------------------------------------------------------------------
(* One sketch that nobody else looks at.                                   *)

promoteToSketch(h) ==
  IF h.isSketch THEN h
  ELSE [h EXCEPT !.isSketch = TRUE, !.univSketch = h.mapCounts, !.mapCounts = Nothing]

HalfFull(h) == 2 * Cardinality({k \in Key : h.mapCounts[k] > 0}) >= maxMapSize

InsertWithHash(h, k) ==
  IF h.isSketch THEN [h EXCEPT !.univSketch[k] = @ + 1]
  ELSE LET counted == [h EXCEPT !.mapCounts[k] = @ + 1, !.l2 = @ + 2 * h.mapCounts[k] + 1]
       IN  IF HalfFull(counted) THEN promoteToSketch(counted) ELSE counted

(* Mutant: the energy of a key that both have is counted again.            *)
MergeMapsAddsEnergy(h, counts) ==
  LET merged == [h EXCEPT !.mapCounts = Plus(@, counts), !.l2 = @ + Energy(counts)]
  IN  IF HalfFull(merged) THEN promoteToSketch(merged) ELSE merged

(* Map into map, key by key.                                               *)
MergeMaps(h, counts) ==
  LET both == Plus(h.mapCounts, counts)
      merged == [h EXCEPT !.mapCounts = both,
                          !.l2 = @ + SumOf([k \in Key |-> IF counts[k] = 0 THEN 0
                                              ELSE both[k] * both[k]
                                                   - h.mapCounts[k] * h.mapCounts[k]])]
  IN  IF HalfFull(merged) THEN promoteToSketch(merged) ELSE merged

MergeSketches(h, univ) == [promoteToSketch(h) EXCEPT !.univSketch = Plus(@, univ)]

(* Merge under the write lock; the source is cleared afterwards.           *)
Merge(h, o) ==
  IF h.isSketch \/ o.isSketch THEN MergeSketches(h, promoteToSketch(o).univSketch)
  ELSE MergeMaps(h, o.mapCounts)

-----------------------------------------------------------------------------
(* The writer, when no query holds the read lock.  The energies of         *)
(* promoted buckets are estimates: any two neighbours may be merged.       *)
Unread == \A r \in Reader : sk.query[r].pc = "idle"

UpdateItem(k) ==
  /\ Unread
  /\ SumOf([i \in DOMAIN seen.given |-> SumOf(seen.given[i])]) < MaxItems
  /\ sk' = [sk EXCEPT !.buckets = Append(@, InsertWithHash(NewHybridSketch, k))]
  /\ seen' = [seen EXCEPT !.given = Append(@, [Nothing EXCEPT ![k] = 1]),
                          !.spoiled = Append(@, FALSE)]

(* A sequence where x takes the place of element i and its successor.      *)
Joined(s, i, x) ==
  [j \in 1..Len(s)-1 |-> CASE j < i -> s[j] [] j = i -> x [] j > i -> s[j+1]]

MergeAt(i) ==
  /\ Unread
  /\ sk' = [sk EXCEPT !.buckets = Joined(@, i, Merge(sk.buckets[i], sk.buckets[i+1]))]
  /\ seen' = [seen EXCEPT
       !.given = Joined(@, i, Plus(seen.given[i], seen.given[i+1])),
       !.spoiled = Joined(@, i, seen.spoiled[i] \/ seen.spoiled[i+1])]

Expire ==
  /\ Unread
  /\ sk.buckets # <<>>
  /\ sk' = [sk EXCEPT !.buckets = Tail(@)]
  /\ seen' = [seen EXCEPT !.given = Tail(@), !.spoiled = Tail(@)]

-----------------------------------------------------------------------------
At(r) == sk.query[r].pc
Promoting(r, i) == At(r) \in {"build", "drop", "flag"} /\ sk.query[r].at = i

Present == Len(sk.buckets)   \* model bound: every query ends there

(* A query merges the buckets from..to into a cleared sketch.              *)
Begin(r, from, to) ==
  /\ sk.query[r].pc = "idle"
  /\ sk' = [sk EXCEPT !.query[r] = [NoQuery EXCEPT !.pc = "check", !.from = from,
                                                   !.at = from, !.to = to]]
  /\ seen' = [seen EXCEPT !.met[r] = \E q \in Reader, i \in from..to : Promoting(q, i)]

Source(r) == sk.buckets[sk.query[r].at]
Goto(r, pc) == sk' = [sk EXCEPT !.query[r].pc = pc]

(* The result is private: its own flag decides which conditions of Merge   *)
(* read the flag of the bucket, once or, for a promoted result, twice.     *)
Check(r) ==
  LET h == sk.query[r].res
  IN  /\ At(r) = "check"
      /\ Goto(r, IF Source(r).isSketch THEN "univ"
                 ELSE IF h.isSketch THEN "second" ELSE "range")
      /\ UNCHANGED seen

Second(r) ==
  /\ At(r) = "second"
  /\ Goto(r, IF Source(r).isSketch THEN "range" ELSE "promote")
  /\ UNCHANGED seen

(* promoteToSketch of the bucket: its check, and three writes, the first   *)
(* with the pass over the map, as nobody reads univSketch before the flag. *)
Promote(r) ==
  /\ At(r) = "promote"
  /\ Goto(r, IF Source(r).isSketch THEN "univ" ELSE "build")
  /\ seen' = IF /\ ~Source(r).isSketch
                /\ \E q \in Reader \ {r} : Promoting(q, sk.query[r].at)
             THEN [seen EXCEPT !.spoiled[sk.query[r].at] = TRUE] ELSE seen

(* The queries that have yet to finish with the bucket of r.               *)
Meets(r) ==
  [q \in Reader |-> \/ seen.met[q]
                    \/ /\ q # r /\ At(q) \notin {"idle", "done"}
                       /\ sk.query[r].at \in sk.query[q].at..sk.query[q].to]

Write(r) ==
  LET at == sk.query[r].at
  IN  /\ \/ At(r) = "build" /\ sk' = [sk EXCEPT !.query[r].pc = "drop",
                                        !.buckets[at].univSketch = Source(r).mapCounts]
         \/ At(r) = "drop" /\ sk' = [sk EXCEPT !.query[r].pc = "flag",
                                        !.buckets[at].mapCounts = Nothing]
         \/ At(r) = "flag" /\ sk' = [sk EXCEPT !.query[r].pc = "univ",
                                        !.buckets[at].isSketch = TRUE]
      /\ seen' = [seen EXCEPT !.met = Meets(r)]

(* On to the next bucket, or out with the result.                          *)
Onward(r, res) ==
  LET q == sk.query[r]
      last == q.at = q.to
  IN  sk' = [sk EXCEPT !.query[r] =
               [q EXCEPT !.res = res,
                         !.pc = IF last THEN "done" ELSE "check",
                         !.at = IF last THEN q.at ELSE q.at + 1]]

Absorb(r) ==
  /\ \/ At(r) = "univ" /\ Onward(r, MergeSketches(sk.query[r].res, Source(r).univSketch))
     \/ At(r) = "range" /\ Onward(r, MergeMaps(sk.query[r].res, Source(r).mapCounts))
  /\ UNCHANGED seen

Return(r) ==
  /\ At(r) = "done"
  /\ sk' = [sk EXCEPT !.query[r] = NoQuery]
  /\ seen' = [seen EXCEPT !.met[r] = FALSE]

Next ==
  \/ \E k \in Key : UpdateItem(k)
  \/ \E i \in 1..Len(sk.buckets)-1 : MergeAt(i)
  \/ Expire
  \/ \E r \in Reader :
       \/ \E from \in DOMAIN sk.buckets : Begin(r, from, Present)
       \/ Check(r) \/ Second(r) \/ Promote(r) \/ Write(r) \/ Absorb(r) \/ Return(r)

Spec == Init /\ [][Next]_vars

-----------------------------------------------------------------------------
Content(h) == IF h.mapCounts # Nothing THEN h.mapCounts ELSE h.univSketch
Given(r) ==
  [k \in Key |-> SumOf([i \in sk.query[r].from..sk.query[r].to |-> seen.given[i][k]])]

(* A bucket holds what it was given, a map with the energy of its counts,  *)
(* as long as no two queries promoted it at once; and the result of a      *)
(* query is what its buckets were given, unless another query promoted one *)
(* of them meanwhile.  Even then it has no item twice, and no query writes *)
(* to a nil map.                                                           *)
QueriesComplete ==
  /\ \A i \in DOMAIN sk.buckets :
       LET b == sk.buckets[i]
       IN  /\ ~seen.spoiled[i] => Content(b) = seen.given[i]
           /\ ~b.isSketch /\ b.mapCounts # Nothing => b.l2 = Energy(b.mapCounts)
  /\ \A r \in Reader :
       LET q == sk.query[r]
       IN  /\ At(r) = "done" =>
                /\ \A k \in Key : Content(q.res)[k] <= Given(r)[k]
                /\ ~seen.met[r] /\ (\A i \in q.from..q.to : ~seen.spoiled[i])
                     => Content(q.res) = Given(r)
           /\ At(r) = "range" /\ q.res.isSketch => Source(r).mapCounts = Nothing
=============================================================================
