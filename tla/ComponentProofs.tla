-------------------------- MODULE ComponentProofs --------------------------
(***************************************************************************)
(* Proofs about components that take few of them, one after the other:     *)
(*   - the adaptive threshold, for any number of controllers, any          *)
(*     configuration and any queue depths;                                 *)
(*   - ElasticSketch, for any sketches, keys, buckets, rows, columns, hash *)
(*     functions and vote factor;                                          *)
(*   - GeometricSampler, for any tape of gaps, any mix of calls, any row   *)
(*     counts and any width of the mask;                                   *)
(*   - the fold sketches, for any power of two of columns, any rows, keys, *)
(*     hash functions, signs and weights;                                  *)
(*   - the sparse store of HyperLogLog and its deltas, for any registers,  *)
(*     values, capacities, thresholds and senders;                         *)
(*   - CocoSketch, for any sketches, keys, rows, columns and hash          *)
(*     functions;                                                          *)
(*   - the HybridSketch and its concurrent queries, for any keys, readers  *)
(*     and sizes of the map.                                               *)
(***************************************************************************)
EXTENDS AdaptiveTau, SumsProofs, SequenceTheorems, FiniteSetTheorems, TLAPS

-----------------------------------------------------------------------------
(* The adaptive threshold.                                                 *)
(* Whatever configuration is given, normalizeTauConfig leaves an interval  *)
(* that starts at 1 or above, and a step that is not negative.             *)
LEMMA ConfigFacts ==
  /\ Min \in Int /\ Max \in Int /\ 1 <= Min /\ Min <= Max
  /\ Step \in Int /\ Step >= 0
  /\ Initial \in Min..Max
<1>1. Min \in Int /\ 1 <= Min
  BY TauAssumption DEF Min
<1>2. Max \in Int /\ Min <= Max
  BY <1>1, TauAssumption DEF Max
<1>3. Step \in Int /\ Step >= 0
  BY TauAssumption DEF Step
<1>4. Initial \in Min..Max
  BY <1>1, <1>2, TauAssumption DEF Initial, Clamp
<1> QED
  BY <1>1, <1>2, <1>3, <1>4

(* One move from inside the interval stays inside.                         *)
LEMMA MovedInBounds ==
  ASSUME NEW x \in Min..Max, NEW dir
  PROVE  Moved(x, dir) \in Min..Max
BY ConfigFacts DEF Moved

(* The interval is kept because a move starts from the value that is       *)
(* compared, not from one loaded earlier.                                  *)
THEOREM TauInBounds == Spec => []InBounds
<1>1. Init => InBounds
  BY ConfigFacts DEF Init, InBounds
<1>2. InBounds /\ [Next]_vars => InBounds'
  <2> SUFFICES ASSUME InBounds, [Next]_vars
               PROVE  InBounds'
    OBVIOUS
  <2>1. ASSUME NEW p \in Controller, CompareAndSwap(p)
        PROVE  InBounds'
    BY <2>1, MovedInBounds DEF CompareAndSwap, InBounds
  <2>2. ASSUME NEW p \in Controller,
               \/ Run(p) \/ Stop(p) \/ StopReturn(p) \/ Exit(p)
               \/ \E q \in Depth : Adjust(p, q)
               \/ LoadPrevQ(p) \/ StorePrevQ(p) \/ StoreHasPrev(p)
               \/ LoadCurrent(p)
        PROVE  UNCHANGED current
    BY <2>2
    DEF Run, Stop, StopReturn, Exit, Adjust, LoadPrevQ, StorePrevQ,
        StoreHasPrev, LoadCurrent
  <2>3. CASE UNCHANGED vars
    BY <2>3 DEF vars, InBounds
  <2> QED
    BY <2>1, <2>2, <2>3 DEF Next, InAdjust, InBounds
<1> QED
  BY <1>1, <1>2, PTL DEF Spec

-----------------------------------------------------------------------------
(* Where a previous depth comes from *)

PcTyped ==
  /\ pc \in [Controller -> {"off", "select", "prev", "predict", "has", "load",
                            "cas", "exited"}]
  /\ queueLen \in [Controller -> Depth]
  /\ prev \in [Controller -> Depth]

(* The inductive invariant: hasPrev is a promise about prevQ, which every  *)
(* controller keeps because it stores what it has observed itself.         *)
RealInv ==
  /\ PcTyped
  /\ prevQ \in Depth
  /\ hasPrev => prevQ \in seen
  /\ \A p \in Controller :
       /\ pc[p] \in {"prev", "predict", "has"} => queueLen[p] \in seen
       /\ pc[p] \in {"predict", "has"} => prev[p] \in seen
       /\ pc[p] = "prev" => hasPrev
       /\ pc[p] = "has" => prevQ \in seen

(* A prediction is never computed from a depth nobody observed.            *)
THEOREM PredictionsAreReal == Spec => []PrevIsReal
<1>1. Init => RealInv
  BY TauAssumption DEF Init, RealInv, PcTyped, Depth
<1>2. RealInv /\ [Next]_vars => RealInv'
  <2> SUFFICES ASSUME RealInv, [Next]_vars
               PROVE  RealInv'
    OBVIOUS
  <2> USE DEF RealInv, PcTyped, Goto
  <2>1. ASSUME NEW p \in Controller,
               Run(p) \/ Stop(p) \/ StopReturn(p) \/ Exit(p)
        PROVE  RealInv'
    BY <2>1 DEF Run, Stop, StopReturn, Exit, adjustVars
  <2>2. ASSUME NEW p \in Controller, NEW q \in Depth, Adjust(p, q)
        PROVE  RealInv'
    BY <2>2 DEF Adjust
  <2>3. ASSUME NEW p \in Controller, LoadPrevQ(p)
        PROVE  RealInv'
    BY <2>3 DEF LoadPrevQ
  <2>4. ASSUME NEW p \in Controller, StorePrevQ(p)
        PROVE  RealInv'
    BY <2>4 DEF StorePrevQ
  <2>5. ASSUME NEW p \in Controller, StoreHasPrev(p)
        PROVE  RealInv'
    BY <2>5 DEF StoreHasPrev, adjustVars
  <2>6. ASSUME NEW p \in Controller, LoadCurrent(p)
        PROVE  RealInv'
    BY <2>6 DEF LoadCurrent
  <2>7. ASSUME NEW p \in Controller, CompareAndSwap(p)
        PROVE  RealInv'
    BY <2>7 DEF CompareAndSwap, adjustVars
  <2>8. CASE UNCHANGED vars
    BY <2>8 DEF vars, adjustVars
  <2> QED
    BY <2>1, <2>2, <2>3, <2>4, <2>5, <2>6, <2>7, <2>8 DEF Next, InAdjust
<1>3. RealInv => PrevIsReal
  BY DEF RealInv, PrevIsReal
<1> QED
  BY <1>1, <1>2, <1>3, PTL DEF Spec

-----------------------------------------------------------------------------
(* The moves, one after the other *)

(* The recursion equation of Replay(ms, n) and the function it chooses.    *)
ReplayOf(ms, n, r) ==
  r = [i \in 0..n |-> IF i = 0 THEN Initial ELSE Moved(r[i-1], ms[i])]

TheReplay(ms, n) == CHOOSE r : ReplayOf(ms, n, r)

(* The equation has a solution for any moves.                              *)
LEMMA ReplayExists ==
  ASSUME NEW ms, NEW n \in Nat
  PROVE  \E r : ReplayOf(ms, n, r)
<1> DEFINE T == {k \in Nat : ~ \E r : ReplayOf(ms, k, r)}
<1> SUFFICES ASSUME T # {}
             PROVE  FALSE
  OBVIOUS
<1>1. PICK m \in T : \A k \in T : m <= k
  <2>1. T \subseteq Nat
    OBVIOUS
  <2> QED
    BY <2>1, LeastNatural
<1>2. m # 0
  <2>1. ReplayOf(ms, 0, [i \in 0..0 |-> Initial])
    BY DEF ReplayOf
  <2> QED
    BY <2>1
<1>3. PICK r : ReplayOf(ms, m-1, r)
  BY <1>1, <1>2
<1> DEFINE t == [i \in 0..m |-> IF i = m THEN Moved(r[m-1], ms[m]) ELSE r[i]]
<1>4. \A i \in 0..m-1 : r[i] = IF i = 0 THEN Initial ELSE Moved(r[i-1], ms[i])
  BY <1>3 DEF ReplayOf
<1>5. \A i \in 0..m : t[i] = IF i = 0 THEN Initial ELSE Moved(t[i-1], ms[i])
  BY <1>2, <1>4
<1>6. ReplayOf(ms, m, t)
  BY <1>5 DEF ReplayOf
<1> QED
  BY <1>6

(* Replay takes the last value of such a solution.                         *)
LEMMA TheReplayEquation ==
  ASSUME NEW ms, NEW n \in Nat
  PROVE  /\ ReplayOf(ms, n, TheReplay(ms, n))
         /\ Replay(ms, n) = TheReplay(ms, n)[n]
<1>1. ReplayOf(ms, n, TheReplay(ms, n))
  BY ReplayExists DEF TheReplay
<1>2. Replay(ms, n) = TheReplay(ms, n)[n]
  BY DEF Replay, TheReplay, ReplayOf
<1> QED
  BY <1>1, <1>2

(* No move, no change.                                                     *)
LEMMA ReplayNone ==
  ASSUME NEW ms
  PROVE  Replay(ms, 0) = Initial
BY TheReplayEquation DEF ReplayOf

(* The first n moves lead to the same threshold whatever follows them.     *)
LEMMA ReplaysAgree ==
  ASSUME NEW ms, NEW ns, NEW n \in Nat, NEW m \in Nat, n <= m,
         \A i \in 1..n : ms[i] = ns[i]
  PROVE  TheReplay(ms, n)[n] = TheReplay(ns, m)[n]
<1> DEFINE s == TheReplay(ms, n)
           t == TheReplay(ns, m)
           T == {k \in 0..n : s[k] # t[k]}
<1>1. /\ \A i \in 0..n : s[i] = IF i = 0 THEN Initial ELSE Moved(s[i-1], ms[i])
      /\ \A i \in 0..n : t[i] = IF i = 0 THEN Initial ELSE Moved(t[i-1], ns[i])
  <2>1. ReplayOf(ms, n, s) /\ ReplayOf(ns, m, t)
    BY TheReplayEquation
  <2>2. \A i \in 0..n : i \in 0..m
    OBVIOUS
  <2> HIDE DEF s, t
  <2> QED
    BY <2>1, <2>2 DEF ReplayOf
<1> HIDE DEF s, t
<1> SUFFICES ASSUME T # {}
             PROVE  FALSE
  BY DEF s, t
<1>2. PICK k \in T : \A j \in T : k <= j
  <2>1. T \subseteq Nat
    OBVIOUS
  <2> QED
    BY <2>1, LeastNatural
<1>3. k # 0
  BY <1>1
<1>4. k-1 \in 0..n /\ k-1 \notin T
  BY <1>2, <1>3
<1>5. s[k-1] = t[k-1] /\ ms[k] = ns[k]
  BY <1>3, <1>4
<1> QED
  BY <1>1, <1>3, <1>5

(* One more move is made from where the others led.                        *)
LEMMA ReplayAppend ==
  ASSUME NEW ms \in Seq(Int), NEW d \in Int
  PROVE  Replay(Append(ms, d), Len(Append(ms, d)))
           = Moved(Replay(ms, Len(ms)), d)
<1> DEFINE n == Len(ms)
           a == Append(ms, d)
           t == TheReplay(a, n+1)
<1>1. /\ n \in Nat /\ Len(a) = n + 1 /\ a[n+1] = d
      /\ \A i \in 1..n : a[i] = ms[i]
  BY LenProperties, AppendProperties
<1> HIDE DEF n, a
<1>2. t[n] = Replay(ms, n)
  <2>1. TheReplay(ms, n)[n] = t[n]
    BY <1>1, ReplaysAgree
  <2> QED
    BY <1>1, <2>1, TheReplayEquation
<1>3. t[n+1] = Moved(t[n], a[n+1])
  <2>1. ReplayOf(a, n+1, t)
    BY <1>1, TheReplayEquation
  <2> HIDE DEF t
  <2> QED
    BY <1>1, <2>1 DEF ReplayOf
<1>4. Replay(a, n+1) = t[n+1]
  BY <1>1, TheReplayEquation
<1> QED
  BY <1>1, <1>2, <1>3, <1>4 DEF n, a

(* Only a call that has a direction gets as far as the CAS loop.           *)
Directed == \A p \in Controller : pc[p] \in {"load", "cas"} => Dir(predicted[p]) # 0

TauInv == TypeOK /\ Directed

(* Types and directions are kept.                                          *)
LEMMA TauInvariant == Spec => []TauInv
<1>1. Init => TauInv
  <2> SUFFICES ASSUME Init PROVE TauInv
    OBVIOUS
  <2>1. Initial \in Int /\ 0 \in Depth /\ 0 \in 0..MaxAdjusts
    BY ConfigFacts, TauAssumption DEF Depth
  <2>2. moves \in Seq({1, -1}) /\ seen \subseteq Depth /\ current \in Int
    BY <2>1 DEF Init
  <2>5. /\ hasPrev \in BOOLEAN
        /\ stopCh \in [Controller -> BOOLEAN]
        /\ stopped \in [Controller -> BOOLEAN]
    BY DEF Init
  <2>3. /\ prevQ \in Depth /\ adjusts \in 0..MaxAdjusts
        /\ pc \in [Controller -> {"off", "select", "prev", "predict", "has",
                                 "load", "cas", "exited"}]
        /\ queueLen \in [Controller -> Depth]
        /\ prev \in [Controller -> Depth]
        /\ predicted \in [Controller -> Int]
        /\ cur \in [Controller -> Int]
    BY <2>1 DEF Init
  <2>4. Directed
    BY DEF Init, Directed
  <2> QED
    BY <2>2, <2>3, <2>4, <2>5 DEF TauInv, TypeOK
<1>2. TauInv /\ [Next]_vars => TauInv'
  <2> SUFFICES ASSUME TypeOK, Directed, [Next]_vars
               PROVE  TauInv'
    BY DEF TauInv
  <2> USE DEF TauInv, TypeOK, Directed, Goto
  <2>1. ASSUME NEW p \in Controller,
               Run(p) \/ Stop(p) \/ StopReturn(p) \/ Exit(p)
        PROVE  TauInv'
    BY <2>1 DEF Run, Stop, StopReturn, Exit, adjustVars
  <2>2. ASSUME NEW p \in Controller, NEW q \in Depth, Adjust(p, q)
        PROVE  TauInv'
    BY <2>2, TauAssumption DEF Adjust
  <2>3. ASSUME NEW p \in Controller, LoadPrevQ(p)
        PROVE  TauInv'
    BY <2>3 DEF LoadPrevQ
  <2>4. ASSUME NEW p \in Controller, StorePrevQ(p)
        PROVE  TauInv'
    <3>1. 2 * queueLen[p] - prev[p] \in Int
      BY TauAssumption DEF Depth
    <3> QED
      BY <2>4, <3>1 DEF StorePrevQ
  <2>5. ASSUME NEW p \in Controller, StoreHasPrev(p)
        PROVE  TauInv'
    BY <2>5 DEF StoreHasPrev, adjustVars
  <2>6. ASSUME NEW p \in Controller, LoadCurrent(p)
        PROVE  TauInv'
    BY <2>6 DEF LoadCurrent
  <2>7. ASSUME NEW p \in Controller, CompareAndSwap(p)
        PROVE  TauInv'
    <3>1. Moved(cur[p], Dir(predicted[p])) \in Int
      BY ConfigFacts DEF Moved
    <3>2. moves' \in Seq({1, -1})
      <4>1. Dir(predicted[p]) \in {1, -1}
        BY <2>7 DEF CompareAndSwap, Dir
      <4>2. Append(moves, Dir(predicted[p])) \in Seq({1, -1})
        BY <4>1, AppendProperties
      <4>3. moves' = moves \/ moves' = Append(moves, Dir(predicted[p]))
        BY <2>7 DEF CompareAndSwap
      <4> QED
        BY <4>2, <4>3
    <3>3. current' \in Int
      BY <2>7, <3>1 DEF CompareAndSwap
    <3>4. /\ UNCHANGED <<prevQ, hasPrev, stopCh, stopped, adjustVars, seen,
                         adjusts>>
          /\ pc' = [pc EXCEPT ![p] = IF current = cur[p] THEN "select" ELSE "load"]
          /\ pc[p] = "cas"
      <4>1. CASE current = cur[p]
        BY <2>7, <4>1 DEF CompareAndSwap
      <4>2. CASE current # cur[p]
        BY <2>7, <4>2 DEF CompareAndSwap
      <4> QED
        BY <4>1, <4>2
    <3>5. pc' \in [Controller -> {"off", "select", "prev", "predict", "has",
                                 "load", "cas", "exited"}]
      BY <3>4
    <3>6. Directed'
      BY <3>4 DEF adjustVars
    <3> HIDE DEF Directed
    <3> QED
      BY <3>2, <3>3, <3>4, <3>5, <3>6 DEF adjustVars
  <2>8. CASE UNCHANGED vars
    BY <2>8 DEF vars, adjustVars
  <2> QED
    BY <2>1, <2>2, <2>3, <2>4, <2>5, <2>6, <2>7, <2>8 DEF Next, InAdjust
<1> QED
  BY <1>1, <1>2, PTL DEF Spec

(* All variables always have their types.                                  *)
THEOREM TypeCorrect == Spec => []TypeOK
<1>1. TauInv => TypeOK
  BY DEF TauInv
<1> QED
  BY <1>1, TauInvariant, PTL

(* No adjustment is lost, for any number of controllers and whatever they  *)
(* observe: a move is only counted when the compare-and-swap found the     *)
(* threshold it was computed from.                                         *)
THEOREM MovesAreKept == Spec => []NoLostMove
<1>1. Init => NoLostMove
  BY ReplayNone DEF Init, NoLostMove
<1>2. TauInv /\ NoLostMove /\ [Next]_vars => NoLostMove'
  <2> SUFFICES ASSUME TauInv, NoLostMove, [Next]_vars
               PROVE  NoLostMove'
    OBVIOUS
  <2>1. ASSUME NEW p \in Controller, CompareAndSwap(p)
        PROVE  NoLostMove'
    <3>1. CASE current = cur[p]
      <4> DEFINE d == Dir(predicted[p])
      <4>1. current' = Moved(current, d) /\ moves' = Append(moves, d)
        BY <2>1, <3>1 DEF CompareAndSwap
      <4>2. moves \in Seq(Int)
        BY DEF TauInv, TypeOK
      <4>3. d \in Int
        BY DEF Dir
      <4> HIDE DEF d
      <4> QED
        BY <4>1, <4>2, <4>3, ReplayAppend DEF NoLostMove
    <3>2. CASE current # cur[p]
      BY <2>1, <3>2 DEF CompareAndSwap, NoLostMove
    <3> QED
      BY <3>1, <3>2
  <2>2. ASSUME NEW p \in Controller,
               \/ Run(p) \/ Stop(p) \/ StopReturn(p) \/ Exit(p)
               \/ \E q \in Depth : Adjust(p, q)
               \/ LoadPrevQ(p) \/ StorePrevQ(p) \/ StoreHasPrev(p)
               \/ LoadCurrent(p)
        PROVE  UNCHANGED <<current, moves>>
    BY <2>2
    DEF Run, Stop, StopReturn, Exit, Adjust, LoadPrevQ, StorePrevQ,
        StoreHasPrev, LoadCurrent
  <2>3. CASE UNCHANGED vars
    BY <2>3 DEF vars, NoLostMove
  <2> QED
    BY <2>1, <2>2, <2>3 DEF Next, InAdjust, NoLostMove
<1> QED
  BY <1>1, <1>2, TauInvariant, PTL DEF Spec

-----------------------------------------------------------------------------
(* ElasticSketch.  Any number of sketches, keys, buckets, rows and         *)
(* columns, any hash functions and any vote factor.                        *)
CONSTANTS Node, Key, NoKey, Bucket, BucketOf, Row, Col, ColOf, VoteFactor, MaxTotal
VARIABLES sk, inserted

Elastic == INSTANCE ElasticSketch WITH seen <- inserted

LEMMA ElasticSum ==
  ASSUME NEW f
  PROVE  /\ Elastic!SumFunction(f) = SumFunctionOnSet(f, DOMAIN f)
         /\ \A S : Elastic!SumFunctionOnSet(f, S) = SumFunctionOnSet(f, S)
<1>1. ASSUME NEW S
      PROVE  Elastic!SumFunctionOnSet(f, S) = SumFunctionOnSet(f, S)
  BY DEF Elastic!SumFunctionOnSet, Elastic!FoldFunctionOnSet, Elastic!MapThenFoldSet,
     SumFunctionOnSet, FoldFunctionOnSet, MapThenFoldSet
<1> QED
  BY <1>1 DEF Elastic!SumFunction

(* What a sketch is made of.                                               *)
HeavyBucket == [FlowID : Key \union {NoKey}, VotePos : Nat, VoteNeg : Nat, Eviction : BOOLEAN]
Light == [Row -> [Col -> Nat]]
Heavy == [Bucket -> HeavyBucket]
History == [count : [Key -> Nat], merged : BOOLEAN]

Votes(heavy) == SumFunctionOnSet([b \in Bucket |-> heavy[b].VotePos], Bucket)
InRow(light, r) == SumFunctionOnSet(light[r], Col)
Given(h) == SumFunctionOnSet(h.count, Key)

(* The votes for k in its bucket.                                          *)
Held(heavy, k) == IF heavy[BucketOf[k]].FlowID = k THEN heavy[BucketOf[k]].VotePos ELSE 0

(* An unused bucket has no votes.  Votes and light counts are what was     *)
(* given; a key has its votes in its bucket and, in each row, the rest in  *)
(* its cell; and without merges a flow that never took its bucket from     *)
(* another has all of its votes there.                                     *)
Kept(s, h) ==
  /\ s = [heavy |-> s.heavy, light |-> s.light]
  /\ s.heavy \in Heavy /\ s.light \in Light /\ h \in History
  /\ \A b \in Bucket : s.heavy[b].FlowID = NoKey => s.heavy[b] = Elastic!NoBucket
  /\ \A r \in Row : InRow(s.light, r) + Votes(s.heavy) = Given(h)
  /\ \A k \in Key, r \in Row : s.light[r][ColOf[k][r]] + Held(s.heavy, k) >= h.count[k]
  /\ ~ h.merged => \A k \in Key : LET b == s.heavy[BucketOf[k]] IN
        /\ b = Elastic!NoBucket => h.count[k] = 0
        /\ b.FlowID = k /\ ~ b.Eviction => b.VotePos >= h.count[k]

ElasticInv ==
  /\ DOMAIN sk = Node /\ DOMAIN inserted = Node
  /\ \A n \in Node : Kept(sk[n], inserted[n])

(* More votes in one bucket.                                               *)
LEMMA VotesAfter ==
  ASSUME Elastic!Dimensions, NEW v \in Heavy, NEW w \in Heavy, NEW b \in Bucket,
         \A x \in Bucket \ {b} : w[x] = v[x]
  PROVE  /\ Votes(v) \in Int
         /\ Votes(w) = Votes(v) + (w[b].VotePos - v[b].VotePos)
<1> DEFINE f == [x \in Bucket |-> v[x].VotePos]
           g == [x \in Bucket |-> w[x].VotePos]
           c == w[b].VotePos - v[b].VotePos
<1>1. IsFiniteSet(Bucket)
  BY DEF Elastic!Dimensions, Elastic!IsFiniteSet, IsFiniteSet
<1>2. (\A x \in Bucket : v[x].VotePos \in Nat) /\ \A x \in Bucket : w[x].VotePos \in Nat
  BY DEF Heavy, HeavyBucket
<1>3. (\A x \in Bucket : f[x] \in Int) /\ c \in Int /\ g[b] = f[b] + c
      /\ \A x \in Bucket \ {b} : g[x] = f[x]
  BY <1>2
<1>4. SumFunctionOnSet(g, Bucket) = SumFunctionOnSet(f, Bucket) + c
  <2> HIDE DEF f, g, c
  <2> QED
    BY <1>1, <1>3, SetSumBump
<1>5. SumFunctionOnSet(f, Bucket) \in Int
  <2> HIDE DEF f
  <2> QED
    BY <1>1, <1>3, SetSumType
<1> QED
  BY <1>4, <1>5 DEF Votes

LEMMA VotesAreInt ==
  ASSUME Elastic!Dimensions, NEW v \in Heavy
  PROVE  Votes(v) \in Int
<1> DEFINE f == [x \in Bucket |-> v[x].VotePos]
<1>1. IsFiniteSet(Bucket) /\ \A x \in Bucket : f[x] \in Int
  BY DEF Elastic!Dimensions, Elastic!IsFiniteSet, IsFiniteSet, Heavy, HeavyBucket
<1> HIDE DEF f
<1>2. SumFunctionOnSet(f, Bucket) \in Int
  BY <1>1, SetSumType
<1> QED
  BY <1>2 DEF Votes, f

(* lightInsert adds to one cell of each row.                               *)
LEMMA LightAfter ==
  ASSUME Elastic!Dimensions, NEW light \in Light, NEW k \in Key, NEW many \in Nat
  PROVE  LET l == Elastic!lightInsert(light, k, many)
         IN  /\ l \in Light
             /\ \A r \in Row : InRow(l, r) = InRow(light, r) + many /\ InRow(light, r) \in Int
             /\ \A r \in Row, c \in Col : l[r][c] >= light[r][c]
             /\ \A r \in Row : l[r][ColOf[k][r]] = light[r][ColOf[k][r]] + many
<1> DEFINE l == Elastic!lightInsert(light, k, many)
<1>0. ColOf \in [Key -> [Row -> Col]] /\ IsFiniteSet(Col)
  BY DEF Elastic!Dimensions, Elastic!IsFiniteSet, IsFiniteSet
<1>1. l = [r \in Row |-> [light[r] EXCEPT ![ColOf[k][r]] = @ + many]]
  BY DEF Elastic!lightInsert
<1>2. ASSUME NEW r \in Row
      PROVE  /\ ColOf[k][r] \in Col /\ light[r] \in [Col -> Nat] /\ l[r] \in [Col -> Nat]
             /\ l[r][ColOf[k][r]] = light[r][ColOf[k][r]] + many
             /\ \A c \in Col \ {ColOf[k][r]} : l[r][c] = light[r][c]
  <2> DEFINE x == ColOf[k][r]
             f == light[r]
             g == l[r]
  <2>1. x \in Col /\ f \in [Col -> Nat]
    BY <1>0 DEF Light
  <2>2. g = [f EXCEPT ![x] = f[x] + many]
    BY <1>1
  <2> HIDE DEF x, f, g
  <2>3. g \in [Col -> Nat] /\ g[x] = f[x] + many /\ \A c \in Col \ {x} : g[c] = f[c]
    BY <2>1, <2>2
  <2> QED
    BY <2>1, <2>3 DEF x, f, g
<1>3. l \in Light
  <2>1. DOMAIN l = Row /\ l = [r \in Row |-> l[r]]
    BY <1>1
  <2> HIDE DEF l
  <2> QED
    BY <1>2, <2>1 DEF Light
<1> HIDE DEF l
<1>4. ASSUME NEW r \in Row
      PROVE  InRow(l, r) = InRow(light, r) + many /\ InRow(light, r) \in Int
  <2> DEFINE f == light[r]
             g == l[r]
             x == ColOf[k][r]
  <2>1. (\A y \in Col : f[y] \in Int) /\ x \in Col /\ many \in Int /\ g[x] = f[x] + many
        /\ \A y \in Col \ {x} : g[y] = f[y]
    BY <1>2
  <2> HIDE DEF f, g, x
  <2>2. SumFunctionOnSet(g, Col) = SumFunctionOnSet(f, Col) + many
    BY <1>0, <2>1, SetSumBump
  <2>3. SumFunctionOnSet(f, Col) \in Int
    BY <1>0, <2>1, SetSumType
  <2> QED
    BY <2>2, <2>3 DEF InRow, f, g
<1>5. \A r \in Row, c \in Col : l[r][c] >= light[r][c]
  <2> SUFFICES ASSUME NEW r \in Row, NEW c \in Col
               PROVE  l[r][c] >= light[r][c]
    OBVIOUS
  <2>1. light[r][c] \in Nat
    BY <1>2
  <2> QED
    BY <1>2, <2>1
<1>6. \A r \in Row : l[r][ColOf[k][r]] = light[r][ColOf[k][r]] + many
  BY <1>2
<1> QED
  BY <1>3, <1>4, <1>5, <1>6 DEF l

(* Spilling moves all votes to the light part, each to the cells of the    *)
(* flow that has them.                                                     *)
LEMMA SpillAfter ==
  ASSUME Elastic!Dimensions, NEW heavy \in Heavy, NEW light \in Light,
         \A b \in Bucket : heavy[b].FlowID = NoKey => heavy[b] = Elastic!NoBucket
  PROVE  LET l == Elastic!spillHeavy(heavy, light)
         IN  /\ l \in Light
             /\ \A r \in Row : /\ InRow(l, r) = InRow(light, r) + Votes(heavy)
                               /\ InRow(light, r) \in Int
             /\ \A k \in Key, r \in Row :
                  l[r][ColOf[k][r]] >= light[r][ColOf[k][r]] + Held(heavy, k)
<1> DEFINE l == Elastic!spillHeavy(heavy, light)
           v == [b \in Bucket |-> heavy[b].VotePos]
           Used == {b \in Bucket : heavy[b].FlowID # NoKey}
           Of(r, c) == {b \in Bucket : /\ heavy[b].FlowID # NoKey
                                       /\ ColOf[heavy[b].FlowID][r] = c}
           Spilled(r, c) == SumFunctionOnSet(v, Of(r, c))
<1>0. /\ IsFiniteSet(Bucket) /\ IsFiniteSet(Col)
      /\ BucketOf \in [Key -> Bucket] /\ ColOf \in [Key -> [Row -> Col]] /\ NoKey \notin Key
  BY DEF Elastic!Dimensions, Elastic!IsFiniteSet, IsFiniteSet
<1>1. ASSUME NEW b \in Bucket
      PROVE  /\ heavy[b].FlowID \in Key \union {NoKey}
             /\ heavy[b].VotePos \in Nat /\ v[b] = heavy[b].VotePos
  BY DEF Heavy, HeavyBucket
<1>2. ASSUME NEW r \in Row, NEW c \in Col
      PROVE  l[r][c] = light[r][c] + Spilled(r, c) /\ Spilled(r, c) \in Nat
  <2> DEFINE w == [b \in Of(r, c) |-> heavy[b].VotePos]
  <2>1. IsFiniteSet(Of(r, c)) /\ Of(r, c) \subseteq Bucket
    BY <1>0, FS_Subset
  <2>2. (\A b \in Of(r, c) : v[b] \in Nat) /\ (\A b \in Of(r, c) : v[b] \in Int)
        /\ \A b \in Of(r, c) : w[b] = v[b]
    BY <1>1, <2>1
  <2>3. l[r][c] = light[r][c] + Elastic!SumFunction(w)
    BY DEF Elastic!spillHeavy
  <2>4. DOMAIN w = Of(r, c)
    OBVIOUS
  <2> HIDE DEF w, v, l, Of
  <2>5. Elastic!SumFunction(w) = SumFunctionOnSet(w, Of(r, c))
    BY <2>4, ElasticSum
  <2>6. SumFunctionOnSet(w, Of(r, c)) = SumFunctionOnSet(v, Of(r, c))
    BY <2>1, <2>2, SetSumEq
  <2>7. SumFunctionOnSet(v, Of(r, c)) \in Nat
    BY <2>1, <2>2, SetSumNat
  <2> QED
    BY <2>3, <2>5, <2>6, <2>7
<1>3. l \in Light
  <2>1. \A r \in Row, c \in Col : l[r][c] \in Nat
    <3> SUFFICES ASSUME NEW r \in Row, NEW c \in Col
                 PROVE  l[r][c] \in Nat
      OBVIOUS
    <3>1. light[r][c] \in Nat
      BY DEF Light
    <3> HIDE DEF l, Spilled
    <3> QED
      BY <1>2, <3>1
  <2>2. l = [r \in Row |-> l[r]] /\ \A r \in Row : l[r] = [c \in Col |-> l[r][c]]
    BY DEF Elastic!spillHeavy
  <2> HIDE DEF l
  <2> QED
    BY <2>1, <2>2 DEF Light
<1> HIDE DEF l, v
<1>4. ASSUME NEW r \in Row
      PROVE  InRow(l, r) = InRow(light, r) + Votes(heavy) /\ InRow(light, r) \in Int
  <2> DEFINE g == [b \in Used |-> ColOf[heavy[b].FlowID][r]]
             F == [c \in Col |-> Spilled(r, c)]
             f == light[r]
             h == l[r]
  <2>1. IsFiniteSet(Used) /\ Used \subseteq Bucket
    BY <1>0, FS_Subset
  <2>2. (\A b \in Used : v[b] \in Int) /\ \A b \in Used : g[b] \in Col
    BY <1>0, <1>1, <2>1
  <2>3. \A c \in Col : Of(r, c) = {b \in Used : g[b] = c}
    OBVIOUS
  <2>4. F = [c \in Col |-> SumFunctionOnSet(v, {b \in Used : g[b] = c})]
    BY <2>3
  <2>5. (\A c \in Col : f[c] \in Int) /\ (\A c \in Col : F[c] \in Int)
        /\ \A c \in Col : h[c] = f[c] + F[c]
    BY <1>2 DEF Light
  <2> HIDE DEF g, F, f, h, Used
  <2>6. SumFunctionOnSet(F, Col) = SumFunctionOnSet(v, Used)
    BY <1>0, <2>1, <2>2, <2>4, FiberSum, SMTT(30)
  <2>7. SumFunctionOnSet(h, Col) = SumFunctionOnSet(f, Col) + SumFunctionOnSet(F, Col)
    BY <1>0, <2>5, SetSumPlus
  <2>8. SumFunctionOnSet(f, Col) \in Int
    BY <1>0, <2>5, SetSumType
  <2>9. SumFunctionOnSet(v, Bucket) = SumFunctionOnSet(v, Used)
    <3>1. \A b \in Bucket : v[b] \in Int
      BY <1>1
    <3>2. \A b \in Bucket \ Used : v[b] = 0
      BY <1>1 DEF Used, Elastic!NoBucket
    <3> QED
      BY <1>0, <2>1, <3>1, <3>2, SetSumExtend
  <2> QED
    BY <2>6, <2>7, <2>8, <2>9 DEF InRow, Votes, f, h, v
<1>5. ASSUME NEW k \in Key, NEW r \in Row
      PROVE  l[r][ColOf[k][r]] >= light[r][ColOf[k][r]] + Held(heavy, k)
  <2> DEFINE c == ColOf[k][r]
             b == BucketOf[k]
  <2>1. c \in Col /\ b \in Bucket /\ light[r][c] \in Nat
    BY <1>0 DEF Light
  <2>2. l[r][c] = light[r][c] + Spilled(r, c) /\ Spilled(r, c) \in Nat
    BY <1>2, <2>1
  <2>3. CASE heavy[b].FlowID = k
    <3>1. b \in Of(r, c)
      BY <1>0, <2>1, <2>3
    <3>2. IsFiniteSet(Of(r, c)) /\ \A x \in Of(r, c) : v[x] \in Nat
      BY <1>0, <1>1, FS_Subset
    <3> HIDE DEF Of, b, c
    <3>3. v[b] <= SumFunctionOnSet(v, Of(r, c))
      BY <3>1, <3>2, SetSumElement
    <3>4. v[b] = heavy[b].VotePos /\ heavy[b].VotePos \in Nat /\ Held(heavy, k) = heavy[b].VotePos
      BY <1>1, <2>1, <2>3 DEF Held, b
    <3> QED
      BY <2>1, <2>2, <3>3, <3>4 DEF c
  <2>4. CASE heavy[b].FlowID # k
    BY <2>1, <2>2, <2>4 DEF Held
  <2> QED
    BY <2>3, <2>4
<1> QED
  BY <1>3, <1>4, <1>5 DEF l

(* What the step of insertOne for k has to keep to, when it puts new into  *)
(* the bucket and moves so many votes to the light part: no vote is lost;  *)
(* k gains one and the former owner loses none, in each row; and whoever   *)
(* has the bucket without an eviction mark has all of its votes there.     *)
Carries(s, h, k, new, light, moved) ==
  LET old == s.heavy[BucketOf[k]] IN
  /\ new \in HeavyBucket /\ new.FlowID \in Key /\ light \in Light /\ moved \in Nat
  /\ \A r \in Row : InRow(light, r) = InRow(s.light, r) + moved /\ InRow(s.light, r) \in Int
  /\ new.VotePos + moved = old.VotePos + 1
  /\ \A r \in Row, c \in Col : light[r][c] >= s.light[r][c]
  /\ \A r \in Row : light[r][ColOf[k][r]] + (IF new.FlowID = k THEN new.VotePos ELSE 0)
                      >= s.light[r][ColOf[k][r]] + Held(s.heavy, k) + 1
  /\ \A j \in Key \ {k}, r \in Row : old.FlowID = j =>
       light[r][ColOf[j][r]] + (IF new.FlowID = j THEN new.VotePos ELSE 0)
         >= s.light[r][ColOf[j][r]] + old.VotePos
  /\ ~ h.merged /\ ~ new.Eviction /\ new.FlowID = k => new.VotePos >= h.count[k] + 1
  /\ ~ new.Eviction /\ new.FlowID # k =>
       new.FlowID = old.FlowID /\ ~ old.Eviction /\ new.VotePos = old.VotePos

LEMMA OneBucket ==
  ASSUME Elastic!Dimensions, NEW s, NEW h, Kept(s, h), NEW k \in Key,
         NEW new, NEW light, NEW moved, Carries(s, h, k, new, light, moved)
  PROVE  Kept([heavy |-> [s.heavy EXCEPT ![BucketOf[k]] = new], light |-> light],
              [h EXCEPT !.count[k] = @ + 1])
<1> DEFINE b == BucketOf[k]
           heavy == [s.heavy EXCEPT ![b] = new]
           t == [heavy |-> heavy, light |-> light]
           g == [h EXCEPT !.count[k] = @ + 1]
<1>0. /\ new \in HeavyBucket /\ new.FlowID \in Key /\ light \in Light /\ moved \in Nat
      /\ \A r \in Row : InRow(light, r) = InRow(s.light, r) + moved /\ InRow(s.light, r) \in Int
      /\ new.VotePos + moved = s.heavy[b].VotePos + 1
      /\ \A r \in Row, c \in Col : light[r][c] >= s.light[r][c]
  BY DEF Carries
<1>1. /\ b \in Bucket /\ BucketOf \in [Key -> Bucket] /\ NoKey \notin Key
      /\ ColOf \in [Key -> [Row -> Col]] /\ IsFiniteSet(Key)
  BY DEF Elastic!Dimensions, Elastic!IsFiniteSet, IsFiniteSet
<1>2. s.heavy \in Heavy /\ s.light \in Light /\ h \in History
  BY DEF Kept
<1>3. heavy \in Heavy /\ heavy[b] = new /\ \A x \in Bucket \ {b} : heavy[x] = s.heavy[x]
  BY <1>0, <1>1, <1>2 DEF Heavy
<1>4. /\ h.count \in [Key -> Nat] /\ g.count \in [Key -> Nat] /\ g \in History
      /\ g.count[k] = h.count[k] + 1
      /\ (\A j \in Key \ {k} : g.count[j] = h.count[j]) /\ g.merged = h.merged
  BY <1>2 DEF History
<1>5. t.heavy = heavy /\ t.light = light
  OBVIOUS
<1> HIDE DEF heavy, g
<1>6. \A r \in Row : InRow(light, r) + Votes(heavy) = Given(g)
  <2>1. Votes(s.heavy) \in Int /\ Votes(heavy) = Votes(s.heavy) + (new.VotePos - s.heavy[b].VotePos)
    BY <1>1, <1>2, <1>3, VotesAfter
  <2>2. Given(g) = Given(h) + 1
    <3> DEFINE f == h.count
               e == g.count
    <3>1. (\A j \in Key : f[j] \in Int) /\ e[k] = f[k] + 1 /\ \A j \in Key \ {k} : e[j] = f[j]
      BY <1>4
    <3> HIDE DEF f, e
    <3>2. SumFunctionOnSet(e, Key) = SumFunctionOnSet(f, Key) + 1
      BY <1>1, <3>1, SetSumBump
    <3> QED
      BY <3>2 DEF Given, f, e
  <2>3. \A r \in Row : InRow(s.light, r) + Votes(s.heavy) = Given(h)
    BY DEF Kept
  <2>4. new.VotePos \in Nat /\ s.heavy[b].VotePos \in Nat
    BY <1>0, <1>1, <1>2 DEF Heavy, HeavyBucket
  <2> QED
    BY <1>0, <2>1, <2>2, <2>3, <2>4
<1>7. \A j \in Key, r \in Row : light[r][ColOf[j][r]] + Held(heavy, j) >= g.count[j]
  <2> SUFFICES ASSUME NEW j \in Key, NEW r \in Row
               PROVE  light[r][ColOf[j][r]] + Held(heavy, j) >= g.count[j]
    OBVIOUS
  <2>1. s.light[r][ColOf[j][r]] + Held(s.heavy, j) >= h.count[j]
    BY DEF Kept
  <2>2. BucketOf[j] \in Bucket /\ ColOf[j][r] \in Col
    BY <1>1
  <2>3. /\ s.light[r][ColOf[j][r]] \in Nat /\ light[r][ColOf[j][r]] \in Nat
        /\ s.heavy[BucketOf[j]].VotePos \in Nat /\ heavy[BucketOf[j]].VotePos \in Nat
    BY <1>0, <1>2, <1>3, <2>2 DEF Light, Heavy, HeavyBucket
  <2>4. Held(s.heavy, j) \in Nat /\ Held(heavy, j) \in Nat
    BY <2>3 DEF Held
  <2>5. CASE j = k
    <3>1. Held(heavy, k) = IF new.FlowID = k THEN new.VotePos ELSE 0
      BY <1>3 DEF Held
    <3>2. light[r][ColOf[k][r]] + Held(heavy, k) >= s.light[r][ColOf[k][r]] + Held(s.heavy, k) + 1
      BY <3>1 DEF Carries
    <3> QED
      BY <1>4, <2>1, <2>3, <2>4, <2>5, <3>2
  <2>6. CASE j # k /\ BucketOf[j] = b /\ s.heavy[b].FlowID = j
    <3>1. Held(heavy, j) = IF new.FlowID = j THEN new.VotePos ELSE 0
      BY <1>3, <2>6 DEF Held
    <3>2. Held(s.heavy, j) = s.heavy[b].VotePos
      BY <2>6 DEF Held
    <3>3. light[r][ColOf[j][r]] + Held(heavy, j) >= s.light[r][ColOf[j][r]] + Held(s.heavy, j)
      BY <2>6, <3>1, <3>2 DEF Carries
    <3> QED
      BY <1>4, <2>1, <2>3, <2>4, <2>6, <3>3
  <2>7. CASE j # k /\ ~ (BucketOf[j] = b /\ s.heavy[b].FlowID = j)
    <3>1. Held(heavy, j) >= Held(s.heavy, j)
      <4>1. CASE BucketOf[j] = b
        BY <2>4, <2>7, <4>1 DEF Held
      <4>2. CASE BucketOf[j] # b
        BY <1>3, <2>2, <2>4, <4>2 DEF Held
      <4> QED
        BY <4>1, <4>2
    <3>2. light[r][ColOf[j][r]] >= s.light[r][ColOf[j][r]]
      BY <1>0, <2>2
    <3> QED
      BY <1>4, <2>1, <2>3, <2>4, <2>7, <3>1, <3>2
  <2> QED
    BY <2>5, <2>6, <2>7
<1>8. ASSUME ~ g.merged, NEW j \in Key
      PROVE  /\ heavy[BucketOf[j]] = Elastic!NoBucket => g.count[j] = 0
             /\ heavy[BucketOf[j]].FlowID = j /\ ~ heavy[BucketOf[j]].Eviction
                  => heavy[BucketOf[j]].VotePos >= g.count[j]
  <2>1. LET x == s.heavy[BucketOf[j]] IN
        /\ x = Elastic!NoBucket => h.count[j] = 0
        /\ x.FlowID = j /\ ~ x.Eviction => x.VotePos >= h.count[j]
    BY <1>4, <1>8 DEF Kept
  <2>2. BucketOf[j] \in Bucket
    BY <1>1
  <2>3. CASE BucketOf[j] # b
    <3>1. j # k /\ heavy[BucketOf[j]] = s.heavy[BucketOf[j]]
      BY <1>3, <2>2, <2>3
    <3> QED
      BY <1>4, <2>1, <3>1
  <2>4. CASE BucketOf[j] = b
    <3>1. heavy[BucketOf[j]] = new /\ new # Elastic!NoBucket
      BY <1>0, <1>1, <1>3, <2>4 DEF Elastic!NoBucket
    <3>2. CASE j = k
      BY <1>4, <1>8, <3>1, <3>2 DEF Carries
    <3>3. CASE j # k
      BY <1>4, <2>1, <2>4, <3>1, <3>3 DEF Carries
    <3> QED
      BY <3>2, <3>3
  <2> QED
    BY <2>3, <2>4
<1>9. \A x \in Bucket : heavy[x].FlowID = NoKey => heavy[x] = Elastic!NoBucket
  <2>1. \A x \in Bucket : s.heavy[x].FlowID = NoKey => s.heavy[x] = Elastic!NoBucket
    BY DEF Kept
  <2> QED
    BY <1>0, <1>1, <1>3, <2>1
<1>10. Kept(t, g)
  BY <1>0, <1>3, <1>4, <1>5, <1>6, <1>7, <1>8, <1>9 DEF Kept
<1> QED
  BY <1>10 DEF heavy, g

LEMMA InsertKeeps ==
  ASSUME Elastic!Dimensions, NEW s, NEW h, Kept(s, h), NEW k \in Key
  PROVE  Kept(Elastic!insertOne(s, k), [h EXCEPT !.count[k] = @ + 1])
<1> DEFINE b == BucketOf[k]
           old == s.heavy[b]
           against == [s EXCEPT !.heavy[b].VoteNeg = @ + 1]
           stays == old.VotePos > 0 /\ old.VoteNeg + 1 < VoteFactor * old.VotePos
           Changed(new, light) == [heavy |-> [s.heavy EXCEPT ![b] = new], light |-> light]
           g == [h EXCEPT !.count[k] = @ + 1]
<1>1. /\ b \in Bucket /\ BucketOf \in [Key -> Bucket] /\ NoKey \notin Key
      /\ ColOf \in [Key -> [Row -> Col]] /\ IsFiniteSet(Col)
  BY DEF Elastic!Dimensions, Elastic!IsFiniteSet, IsFiniteSet
<1>2. /\ s = [heavy |-> s.heavy, light |-> s.light]
      /\ s.heavy \in Heavy /\ s.light \in Light /\ h \in History
  BY DEF Kept
<1>3. /\ old \in HeavyBucket /\ old.FlowID \in Key \union {NoKey} /\ old.VotePos \in Nat
      /\ old.VoteNeg \in Nat /\ old.Eviction \in BOOLEAN
  BY <1>1, <1>2 DEF Heavy, HeavyBucket
<1>4. /\ old.FlowID = NoKey => old = Elastic!NoBucket
      /\ ~ h.merged => /\ old = Elastic!NoBucket => h.count[k] = 0
                       /\ old.FlowID = k /\ ~ old.Eviction => old.VotePos >= h.count[k]
      /\ h.count[k] \in Nat
  BY <1>1, <1>2 DEF Kept, History
<1>5. \A r \in Row, c \in Col : s.light[r][c] \in Nat
  BY <1>2 DEF Light
<1>6. \A r \in Row : InRow(s.light, r) \in Int
  <2> SUFFICES ASSUME NEW r \in Row
               PROVE  InRow(s.light, r) \in Int
    OBVIOUS
  <2>1. \A c \in Col : s.light[r][c] \in Int
    BY <1>5
  <2> QED
    BY <1>1, <2>1, SetSumType DEF InRow
<1>7. Elastic!NoBucket.FlowID = NoKey /\ Elastic!NoBucket.VotePos = 0
      /\ Elastic!NoBucket.VoteNeg = 0 /\ Elastic!NoBucket.Eviction = FALSE
  BY DEF Elastic!NoBucket
<1>8. CASE old = Elastic!NoBucket
  <2> DEFINE new == [old EXCEPT !.FlowID = k, !.VotePos = 1]
  <2>1. new \in HeavyBucket /\ new.FlowID = k /\ new.VotePos = 1 /\ ~ new.Eviction
    BY <1>3, <1>7, <1>8 DEF HeavyBucket
  <2>2. Elastic!insertOne(s, k) = Changed(new, s.light)
    <3>1. Elastic!insertOne(s, k) = [s EXCEPT !.heavy[b] = new]
      BY <1>1, <1>7, <1>8 DEF Elastic!insertOne
    <3>2. [s EXCEPT !.heavy[b] = new] = [heavy |-> [s.heavy EXCEPT ![b] = new], light |-> s.light]
      BY <1>2
    <3> QED
      BY <3>1, <3>2
  <2>3. Held(s.heavy, k) = 0
    BY <1>1, <1>7, <1>8 DEF Held
  <2> HIDE DEF new
  <2>4. Kept(Changed(new, s.light), g)
    <3>1. Carries(s, h, k, new, s.light, 0)
      BY <1>1, <1>2, <1>4, <1>5, <1>6, <1>7, <1>8, <2>1, <2>3 DEF Carries
    <3> QED
      BY <3>1, OneBucket
  <2> QED
    BY <2>2, <2>4
<1>9. CASE old.FlowID = k
  <2> DEFINE new == [old EXCEPT !.VotePos = @ + 1]
  <2>1. /\ new \in HeavyBucket /\ new.FlowID = k /\ new.VotePos = old.VotePos + 1
        /\ new.Eviction = old.Eviction
    BY <1>3, <1>9 DEF HeavyBucket
  <2>2. Elastic!insertOne(s, k) = Changed(new, s.light)
    <3>1. old # Elastic!NoBucket
      BY <1>1, <1>7, <1>9
    <3>2. Elastic!insertOne(s, k) = [s EXCEPT !.heavy[b].VotePos = @ + 1]
      BY <1>1, <1>9, <3>1 DEF Elastic!insertOne
    <3> QED
      BY <1>1, <1>2, <3>2 DEF Heavy
  <2>3. Held(s.heavy, k) = old.VotePos
    BY <1>9 DEF Held
  <2> HIDE DEF new
  <2>4. Kept(Changed(new, s.light), g)
    <3>1. Carries(s, h, k, new, s.light, 0)
      BY <1>1, <1>2, <1>3, <1>4, <1>5, <1>6, <1>9, <2>1, <2>3 DEF Carries
    <3> QED
      BY <3>1, OneBucket
  <2> QED
    BY <2>2, <2>4
<1>10. CASE old.FlowID \notin {k, NoKey} /\ stays
  <2> DEFINE new == [old EXCEPT !.VoteNeg = @ + 1]
             light == Elastic!lightInsert(s.light, k, 1)
  <2>1. /\ new \in HeavyBucket /\ new.FlowID = old.FlowID /\ new.VotePos = old.VotePos
        /\ new.Eviction = old.Eviction
    BY <1>3 DEF HeavyBucket
  <2>2. Elastic!insertOne(s, k) = Changed(new, light)
    <3>1. old # Elastic!NoBucket /\ old.FlowID # k
      BY <1>7, <1>10
    <3>2. Elastic!insertOne(s, k) = [against EXCEPT !.light = Elastic!lightInsert(@, k, 1)]
      BY <1>1, <1>10, <3>1 DEF Elastic!insertOne
    <3> QED
      BY <1>1, <1>2, <3>2 DEF Heavy
  <2>3. /\ light \in Light
        /\ \A r \in Row : InRow(light, r) = InRow(s.light, r) + 1
        /\ \A r \in Row, c \in Col : light[r][c] >= s.light[r][c]
        /\ \A r \in Row : light[r][ColOf[k][r]] = s.light[r][ColOf[k][r]] + 1
    BY <1>2, LightAfter
  <2>4. Held(s.heavy, k) = 0
    BY <1>10 DEF Held
  <2>5. \A r \in Row, j \in Key : ColOf[j][r] \in Col
    BY <1>1
  <2> HIDE DEF new, light
  <2>6. Kept(Changed(new, light), g)
    <3>1. \A r \in Row : light[r][ColOf[k][r]] + (IF new.FlowID = k THEN new.VotePos ELSE 0)
                          >= s.light[r][ColOf[k][r]] + Held(s.heavy, k) + 1
      BY <1>5, <1>10, <2>1, <2>3, <2>4, <2>5
    <3>2. \A j \in Key \ {k}, r \in Row : old.FlowID = j =>
            light[r][ColOf[j][r]] + (IF new.FlowID = j THEN new.VotePos ELSE 0)
              >= s.light[r][ColOf[j][r]] + old.VotePos
      <4> SUFFICES ASSUME NEW j \in Key, NEW r \in Row, old.FlowID = j
                   PROVE  light[r][ColOf[j][r]] + new.VotePos
                                >= s.light[r][ColOf[j][r]] + old.VotePos
        BY <2>1
      <4>1. /\ light[r][ColOf[j][r]] >= s.light[r][ColOf[j][r]] /\ s.light[r][ColOf[j][r]] \in Nat
            /\ light[r][ColOf[j][r]] \in Nat
        BY <1>5, <2>3, <2>5 DEF Light
      <4> QED
        BY <1>3, <2>1, <4>1
    <3>3. old.FlowID \in Key
      BY <1>3, <1>10
    <3>4. new.VotePos + 1 = old.VotePos + 1 /\ 1 \in Nat
      BY <2>1
    <3>5. Carries(s, h, k, new, light, 1)
      BY <1>6, <1>10, <2>1, <2>3, <3>1, <3>2, <3>3, <3>4 DEF Carries
    <3> QED
      BY <3>5, OneBucket
  <2> QED
    BY <2>2, <2>6
<1>11. CASE old.FlowID \notin {k, NoKey} /\ ~ stays
  <2> DEFINE new == [FlowID |-> k, VotePos |-> 1, VoteNeg |-> 1, Eviction |-> TRUE]
             j == old.FlowID
             light == Elastic!lightInsert(s.light, j, old.VotePos)
  <2>1. new \in HeavyBucket /\ new.FlowID = k /\ new.VotePos = 1 /\ new.Eviction
    BY DEF HeavyBucket
  <2>2. Elastic!insertOne(s, k) = Changed(new, light)
    <3>1. old # Elastic!NoBucket /\ old.FlowID # k
      BY <1>7, <1>11
    <3>2. Elastic!insertOne(s, k) = Elastic!evict(against, k)
      BY <1>1, <1>11, <3>1 DEF Elastic!insertOne
    <3>3. against.light = s.light /\ against.heavy = [s.heavy EXCEPT ![b].VoteNeg = @ + 1]
      BY <1>2
    <3>4. against.heavy[b].FlowID = j /\ against.heavy[b].VotePos = old.VotePos
      BY <1>1, <1>2, <1>3, <3>3 DEF Heavy, HeavyBucket
    <3>5. [against.heavy EXCEPT ![b] = new] = [s.heavy EXCEPT ![b] = new]
      BY <1>1, <1>2, <3>3 DEF Heavy
    <3> HIDE DEF against, j, old
    <3> QED
      BY <3>2, <3>3, <3>4, <3>5 DEF Elastic!evict
  <2>3. j \in Key /\ j # k
    BY <1>3, <1>11
  <2>4. /\ light \in Light
        /\ \A r \in Row : InRow(light, r) = InRow(s.light, r) + old.VotePos
        /\ \A r \in Row, c \in Col : light[r][c] >= s.light[r][c]
        /\ \A r \in Row : light[r][ColOf[j][r]] = s.light[r][ColOf[j][r]] + old.VotePos
    BY <1>2, <1>3, <2>3, LightAfter
  <2>5. Held(s.heavy, k) = 0
    BY <1>11 DEF Held
  <2>6. \A r \in Row, i \in Key : ColOf[i][r] \in Col
    BY <1>1
  <2> HIDE DEF new, light
  <2>7. Kept(Changed(new, light), g)
    <3>1. \A r \in Row : light[r][ColOf[k][r]] + (IF new.FlowID = k THEN new.VotePos ELSE 0)
                          >= s.light[r][ColOf[k][r]] + Held(s.heavy, k) + 1
      <4> SUFFICES ASSUME NEW r \in Row
                   PROVE  light[r][ColOf[k][r]] + 1 >= s.light[r][ColOf[k][r]] + 0 + 1
        BY <2>1, <2>5, SMTT(30)
      <4>1. /\ light[r][ColOf[k][r]] >= s.light[r][ColOf[k][r]] /\ s.light[r][ColOf[k][r]] \in Nat
            /\ light[r][ColOf[k][r]] \in Nat
        BY <1>5, <2>4, <2>6 DEF Light
      <4> QED
        BY <4>1
    <3>2. \A i \in Key \ {k}, r \in Row : old.FlowID = i =>
            light[r][ColOf[i][r]] + (IF new.FlowID = i THEN new.VotePos ELSE 0)
              >= s.light[r][ColOf[i][r]] + old.VotePos
      <4> SUFFICES ASSUME NEW i \in Key \ {k}, NEW r \in Row, old.FlowID = i
                   PROVE  light[r][ColOf[i][r]] + (IF new.FlowID = i THEN new.VotePos ELSE 0)
                            >= s.light[r][ColOf[i][r]] + old.VotePos
        OBVIOUS
      <4>0. i = j /\ (IF new.FlowID = i THEN new.VotePos ELSE 0) = 0
        BY <2>1
      <4>1. /\ s.light[r][ColOf[j][r]] \in Nat
             /\ light[r][ColOf[j][r]] = s.light[r][ColOf[j][r]] + old.VotePos
        BY <1>5, <2>3, <2>4, <2>6
      <4> QED
        BY <1>3, <4>0, <4>1
    <3>3. new.VotePos + old.VotePos = old.VotePos + 1
      BY <1>3, <2>1, SMTT(30)
    <3>4. Carries(s, h, k, new, light, old.VotePos)
      BY <1>3, <1>6, <2>1, <2>4, <3>1, <3>2, <3>3 DEF Carries
    <3> QED
      BY <3>4, OneBucket
  <2> QED
    BY <2>2, <2>7
<1> QED
  BY <1>3, <1>4, <1>8, <1>9, <1>10, <1>11

LEMMA NoHeavyFacts ==
  ASSUME Elastic!Dimensions
  PROVE  /\ Elastic!NoHeavy \in Heavy /\ Votes(Elastic!NoHeavy) = 0
         /\ \A b \in Bucket : Elastic!NoHeavy[b] = Elastic!NoBucket
         /\ \A k \in Key : Held(Elastic!NoHeavy, k) = 0
<1>1. NoKey \notin Key /\ BucketOf \in [Key -> Bucket] /\ IsFiniteSet(Bucket)
  BY DEF Elastic!Dimensions, Elastic!IsFiniteSet, IsFiniteSet
<1>2. Elastic!NoBucket \in HeavyBucket /\ Elastic!NoBucket.FlowID = NoKey
      /\ Elastic!NoBucket.VotePos = 0
  BY DEF Elastic!NoBucket, HeavyBucket
<1>3. \A b \in Bucket : Elastic!NoHeavy[b] = Elastic!NoBucket
  BY DEF Elastic!NoHeavy
<1>4. Elastic!NoHeavy \in Heavy
  BY <1>2 DEF Elastic!NoHeavy, Heavy
<1>5. Votes(Elastic!NoHeavy) = 0
  <2> DEFINE f == [b \in Bucket |-> Elastic!NoHeavy[b].VotePos]
  <2>1. \A b \in Bucket : f[b] = 0
    BY <1>2, <1>3
  <2> HIDE DEF f
  <2>2. SumFunctionOnSet(f, Bucket) = 0
    BY <1>1, <2>1, SetSumZeros
  <2> QED
    BY <2>2 DEF Votes, f
<1>6. \A k \in Key : Held(Elastic!NoHeavy, k) = 0
  BY <1>1, <1>2, <1>3 DEF Held
<1> QED
  BY <1>3, <1>4, <1>5, <1>6

(* A merge spills both heavy parts.                                        *)
Together(g, h) == [count |-> [k \in Key |-> g.count[k] + h.count[k]], merged |-> TRUE]
Added(own, light) == [r \in Row |-> [c \in Col |-> own[r][c] + light[r][c]]]

LEMMA AddedLight ==
  ASSUME Elastic!Dimensions, NEW own \in Light, NEW light \in Light
  PROVE  /\ Added(own, light) \in Light
         /\ \A r \in Row : InRow(Added(own, light), r) = InRow(own, r) + InRow(light, r)
         /\ \A r \in Row, c \in Col : Added(own, light)[r][c] = own[r][c] + light[r][c]
<1>0. IsFiniteSet(Col)
  BY DEF Elastic!Dimensions, Elastic!IsFiniteSet, IsFiniteSet
<1>1. \A r \in Row, c \in Col : own[r][c] \in Nat /\ light[r][c] \in Nat
  BY DEF Light
<1>2. \A r \in Row, c \in Col : Added(own, light)[r][c] = own[r][c] + light[r][c]
  BY DEF Added
<1>3. Added(own, light) \in Light
  BY <1>1 DEF Added, Light
<1>4. ASSUME NEW r \in Row
      PROVE  InRow(Added(own, light), r) = InRow(own, r) + InRow(light, r)
  <2> DEFINE f == own[r]
             e == light[r]
             g == Added(own, light)[r]
  <2>1. (\A c \in Col : f[c] \in Int) /\ (\A c \in Col : e[c] \in Int)
        /\ \A c \in Col : g[c] = f[c] + e[c]
    BY <1>1, <1>2
  <2> HIDE DEF f, e, g
  <2>2. SumFunctionOnSet(g, Col) = SumFunctionOnSet(f, Col) + SumFunctionOnSet(e, Col)
    BY <1>0, <2>1, SetSumPlus
  <2> QED
    BY <2>2 DEF InRow, f, e, g
<1> QED
  BY <1>2, <1>3, <1>4

LEMMA RowsAreInt ==
  ASSUME Elastic!Dimensions, NEW light \in Light, NEW r \in Row
  PROVE  InRow(light, r) \in Int
<1>1. IsFiniteSet(Col)
  BY DEF Elastic!Dimensions, Elastic!IsFiniteSet, IsFiniteSet
<1>2. \A c \in Col : light[r][c] \in Int
  BY DEF Light
<1> QED
  BY <1>1, <1>2, SetSumType DEF InRow

LEMMA MergeKeeps ==
  ASSUME Elastic!Dimensions, NEW s, NEW g, Kept(s, g), NEW t, NEW h, Kept(t, h)
  PROVE  LET own == Elastic!spillHeavy(s.heavy, s.light)
             light == Elastic!spillHeavy(t.heavy, Added(own, t.light))
         IN  Kept([heavy |-> Elastic!NoHeavy, light |-> light], Together(g, h))
<1> DEFINE own == Elastic!spillHeavy(s.heavy, s.light)
           both == Added(own, t.light)
           light == Elastic!spillHeavy(t.heavy, both)
           all == Together(g, h)
<1>1. /\ s.heavy \in Heavy /\ s.light \in Light /\ g \in History
      /\ t.heavy \in Heavy /\ t.light \in Light /\ h \in History
      /\ \A b \in Bucket : s.heavy[b].FlowID = NoKey => s.heavy[b] = Elastic!NoBucket
      /\ \A b \in Bucket : t.heavy[b].FlowID = NoKey => t.heavy[b] = Elastic!NoBucket
  BY DEF Kept
<1>2. /\ own \in Light
      /\ \A r \in Row : InRow(own, r) = InRow(s.light, r) + Votes(s.heavy)
      /\ \A k \in Key, r \in Row :
           own[r][ColOf[k][r]] >= s.light[r][ColOf[k][r]] + Held(s.heavy, k)
  BY <1>1, SpillAfter
<1> HIDE DEF own
<1>3. /\ both \in Light
      /\ \A r \in Row : InRow(both, r) = InRow(own, r) + InRow(t.light, r)
      /\ \A r \in Row, c \in Col : both[r][c] = own[r][c] + t.light[r][c]
  BY <1>1, <1>2, AddedLight
<1> HIDE DEF both
<1>4. /\ light \in Light
      /\ \A r \in Row : InRow(light, r) = InRow(both, r) + Votes(t.heavy)
      /\ \A k \in Key, r \in Row :
           light[r][ColOf[k][r]] >= both[r][ColOf[k][r]] + Held(t.heavy, k)
  BY <1>1, <1>3, SpillAfter
<1> HIDE DEF light
<1>5. /\ all \in History /\ all.merged = TRUE
       /\ \A k \in Key : all.count[k] = g.count[k] + h.count[k]
      /\ \A k \in Key : g.count[k] \in Nat /\ h.count[k] \in Nat
  BY <1>1 DEF Together, History
<1>6. Given(all) = Given(g) + Given(h)
  <2> DEFINE f == g.count
             e == h.count
             u == all.count
  <2>1. (\A k \in Key : f[k] \in Int) /\ (\A k \in Key : e[k] \in Int)
        /\ \A k \in Key : u[k] = f[k] + e[k]
    BY <1>5
  <2>2. IsFiniteSet(Key)
    BY DEF Elastic!Dimensions, Elastic!IsFiniteSet, IsFiniteSet
  <2> HIDE DEF f, e, u
  <2>3. SumFunctionOnSet(u, Key) = SumFunctionOnSet(f, Key) + SumFunctionOnSet(e, Key)
    BY <2>1, <2>2, SetSumPlus
  <2> QED
    BY <2>3 DEF Given, f, e, u
<1> HIDE DEF all
<1>7. \A r \in Row : InRow(light, r) + Votes(Elastic!NoHeavy) = Given(all)
  <2> SUFFICES ASSUME NEW r \in Row
               PROVE  InRow(light, r) + Votes(Elastic!NoHeavy) = Given(all)
    OBVIOUS
  <2>1. /\ InRow(s.light, r) + Votes(s.heavy) = Given(g)
         /\ InRow(t.light, r) + Votes(t.heavy) = Given(h)
    BY DEF Kept
  <2>2. /\ InRow(light, r) \in Int /\ InRow(both, r) \in Int /\ InRow(own, r) \in Int
        /\ InRow(s.light, r) \in Int /\ InRow(t.light, r) \in Int
    BY <1>1, <1>2, <1>3, <1>4, RowsAreInt
  <2>3. Votes(s.heavy) \in Int /\ Votes(t.heavy) \in Int
    BY <1>1, VotesAreInt
  <2>4. Votes(Elastic!NoHeavy) = 0
    BY NoHeavyFacts
  <2>5. /\ InRow(light, r) = InRow(both, r) + Votes(t.heavy)
        /\ InRow(both, r) = InRow(own, r) + InRow(t.light, r)
        /\ InRow(own, r) = InRow(s.light, r) + Votes(s.heavy)
    BY <1>2, <1>3, <1>4
  <2> QED
    BY <1>6, <2>1, <2>2, <2>3, <2>4, <2>5
<1>8. ASSUME NEW k \in Key, NEW r \in Row
      PROVE  light[r][ColOf[k][r]] + Held(Elastic!NoHeavy, k) >= all.count[k]
  <2> DEFINE c == ColOf[k][r]
  <2>1. c \in Col /\ BucketOf[k] \in Bucket
    BY DEF Elastic!Dimensions
  <2>2. /\ light[r][c] \in Nat /\ both[r][c] \in Nat /\ own[r][c] \in Nat
        /\ s.light[r][c] \in Nat /\ t.light[r][c] \in Nat
    BY <1>1, <1>2, <1>3, <1>4, <2>1 DEF Light
  <2>3. Held(s.heavy, k) \in Nat /\ Held(t.heavy, k) \in Nat
    BY <1>1, <2>1 DEF Held, Heavy, HeavyBucket
  <2>4. /\ s.light[r][c] + Held(s.heavy, k) >= g.count[k]
         /\ t.light[r][c] + Held(t.heavy, k) >= h.count[k]
    BY DEF Kept
  <2>5. /\ light[r][c] >= both[r][c] + Held(t.heavy, k)
        /\ both[r][c] = own[r][c] + t.light[r][c]
        /\ own[r][c] >= s.light[r][c] + Held(s.heavy, k)
    BY <1>2, <1>3, <1>4, <2>1
  <2>6. Held(Elastic!NoHeavy, k) = 0 /\ all.count[k] = g.count[k] + h.count[k]
        /\ g.count[k] \in Nat /\ h.count[k] \in Nat
    BY <1>5, NoHeavyFacts
  <2> HIDE DEF c
  <2>7. light[r][c] + Held(Elastic!NoHeavy, k) >= all.count[k]
    BY <2>2, <2>3, <2>4, <2>5, <2>6
  <2> QED
    BY <2>7 DEF c
<1>9. Kept([heavy |-> Elastic!NoHeavy, light |-> light], all)
  BY <1>4, <1>5, <1>7, <1>8, NoHeavyFacts DEF Kept
<1> QED
  BY <1>9 DEF light, both, own, all

LEMMA ElasticInit ==
  ASSUME Elastic!Dimensions, Elastic!Init
  PROVE  ElasticInv
<1> DEFINE none == [k \in Key |-> 0]
           h == [count |-> none, merged |-> FALSE]
           dark == [r \in Row |-> [c \in Col |-> 0]]
<1>0. IsFiniteSet(Key) /\ IsFiniteSet(Col) /\ BucketOf \in [Key -> Bucket]
      /\ ColOf \in [Key -> [Row -> Col]] /\ NoKey \notin Key
  BY DEF Elastic!Dimensions, Elastic!IsFiniteSet, IsFiniteSet
<1>1. /\ DOMAIN sk = Node /\ DOMAIN inserted = Node
      /\ \A n \in Node : sk[n] = [heavy |-> Elastic!NoHeavy, light |-> dark] /\ inserted[n] = h
  BY DEF Elastic!Init, Elastic!New
<1>2. Given(h) = 0
  <2>1. \A k \in Key : none[k] = 0
    OBVIOUS
  <2> HIDE DEF none
  <2> QED
    BY <1>0, <2>1, SetSumZeros DEF Given
<1>3. \A r \in Row : InRow(dark, r) = 0
  <2> SUFFICES ASSUME NEW r \in Row
               PROVE  SumFunctionOnSet(dark[r], Col) = 0
    BY DEF InRow
  <2>1. \A c \in Col : dark[r][c] = 0
    OBVIOUS
  <2> HIDE DEF dark
  <2> QED
    BY <1>0, <2>1, SetSumZeros
<1>4. dark \in Light /\ h \in History /\ \A k \in Key : h.count[k] = 0
  BY DEF Light, History
<1>5. \A k \in Key, r \in Row : dark[r][ColOf[k][r]] = 0
  BY <1>0
<1>6. \A k \in Key : Elastic!NoHeavy[BucketOf[k]].FlowID # k
  BY <1>0, NoHeavyFacts DEF Elastic!NoBucket
<1> HIDE DEF dark, h
<1>7. Kept([heavy |-> Elastic!NoHeavy, light |-> dark], h)
  BY <1>2, <1>3, <1>4, <1>5, <1>6, NoHeavyFacts DEF Kept
<1> QED
  BY <1>1, <1>7 DEF ElasticInv

LEMMA ElasticNext ==
  ASSUME Elastic!Dimensions, ElasticInv, [Elastic!Next]_(Elastic!vars)
  PROVE  ElasticInv'
<1>1. ASSUME NEW n \in Node, NEW k \in Key, Elastic!Insert(n, k)
      PROVE  ElasticInv'
  <2>1. Kept(sk[n], inserted[n])
    BY DEF ElasticInv
  <2>2. Kept(Elastic!insertOne(sk[n], k), [inserted[n] EXCEPT !.count[k] = @ + 1])
    BY <2>1, InsertKeeps
  <2>3. sk' = [sk EXCEPT ![n] = Elastic!insertOne(sk[n], k)]
        /\ inserted' = [inserted EXCEPT ![n] = [inserted[n] EXCEPT !.count[k] = @ + 1]]
    BY <1>1 DEF Elastic!Insert
  <2> QED
    BY <2>2, <2>3 DEF ElasticInv
<1>2. ASSUME NEW n \in Node, NEW m \in Node, Elastic!Merge(n, m)
      PROVE  ElasticInv'
  <2> DEFINE own == Elastic!spillHeavy(sk[n].heavy, sk[n].light)
             s == [heavy |-> Elastic!NoHeavy,
                   light |-> Elastic!spillHeavy(sk[m].heavy, Added(own, sk[m].light))]
             h == Together(inserted[n], inserted[m])
  <2>1. Kept(sk[n], inserted[n]) /\ Kept(sk[m], inserted[m])
    BY DEF ElasticInv
  <2>2. Kept(s, h)
    BY <2>1, MergeKeeps
  <2>3. sk' = [sk EXCEPT ![n] = s]
    BY <1>2 DEF Elastic!Merge, Added
  <2>4. inserted' = [inserted EXCEPT ![n] = h]
    BY <1>2 DEF Elastic!Merge, Together, ElasticInv
  <2> HIDE DEF s, h
  <2> QED
    BY <2>2, <2>3, <2>4 DEF ElasticInv
<1>3. CASE UNCHANGED Elastic!vars
  BY <1>3 DEF Elastic!vars, ElasticInv
<1> QED
  BY <1>1, <1>2, <1>3 DEF Elastic!Next

(* The estimate is the key's cell in one of the rows.                      *)
LEMMA EstimateIsACell ==
  ASSUME Elastic!Dimensions, NEW light \in Light, NEW k \in Key
  PROVE  \E r \in Row : Elastic!lightEstimate(light, k) = light[r][ColOf[k][r]]
<1> DEFINE T == {light[r][ColOf[k][r]] : r \in Row}
           Least(v) == \A r \in Row : v <= light[r][ColOf[k][r]]
<1>1. Row # {} /\ \A r \in Row : ColOf[k][r] \in Col
  BY DEF Elastic!Dimensions
<1>2. T \subseteq Nat /\ T # {}
  BY <1>1 DEF Light
<1>3. PICK v \in T : \A x \in T : v <= x
  <2> HIDE DEF T
  <2> QED
    BY <1>2, LeastNatural
<1>4. v \in T /\ Least(v)
  BY <1>3
<1>5. Elastic!lightEstimate(light, k) = CHOOSE x \in T : Least(x)
  BY DEF Elastic!lightEstimate
<1>6. Elastic!lightEstimate(light, k) \in T
  <2> HIDE DEF T, Least
  <2> QED
    BY <1>4, <1>5
<1> QED
  BY <1>6

LEMMA ElasticHolds ==
  ASSUME Elastic!Dimensions, ElasticInv
  PROVE  Elastic!VotesConserved
<1> SUFFICES ASSUME NEW n \in Node
             PROVE  LET s == sk[n]
                        total == Elastic!SumFunction(inserted[n].count)
                        votes == Elastic!SumFunction([b \in Bucket |-> s.heavy[b].VotePos])
                    IN  /\ \A r \in Row : Elastic!SumFunction(s.light[r]) + votes = total
                        /\ \A k \in Key :
                             LET b == s.heavy[BucketOf[k]]
                             IN  \/ Elastic!Query(s, k) >= inserted[n].count[k]
                                 \/ /\ inserted[n].merged /\ b.FlowID = k /\ ~b.Eviction
                                    /\ b.VotePos + Elastic!lightEstimate(s.light, k)
                                         >= inserted[n].count[k]
  BY DEF Elastic!VotesConserved
<1> DEFINE s == sk[n]
           h == inserted[n]
<1>1. Kept(s, h)
  BY DEF ElasticInv
<1>2. s.heavy \in Heavy /\ s.light \in Light /\ h \in History
  BY <1>1 DEF Kept
<1>3. ASSUME NEW r \in Row
      PROVE  Elastic!SumFunction(s.light[r])
               + Elastic!SumFunction([b \in Bucket |-> s.heavy[b].VotePos])
             = Elastic!SumFunction(h.count)
  <2> DEFINE v == [b \in Bucket |-> s.heavy[b].VotePos]
             e == s.light[r]
             f == h.count
  <2>1. DOMAIN v = Bucket /\ DOMAIN e = Col /\ DOMAIN f = Key
    BY <1>2 DEF Light, History
  <2>2. SumFunctionOnSet(e, Col) + SumFunctionOnSet(v, Bucket) = SumFunctionOnSet(f, Key)
    BY <1>1 DEF Kept, InRow, Votes, Given
  <2> HIDE DEF v, e, f
  <2>3. /\ Elastic!SumFunction(v) = SumFunctionOnSet(v, Bucket)
        /\ Elastic!SumFunction(e) = SumFunctionOnSet(e, Col)
        /\ Elastic!SumFunction(f) = SumFunctionOnSet(f, Key)
    BY <2>1, ElasticSum
  <2>4. Elastic!SumFunction(e) + Elastic!SumFunction(v) = Elastic!SumFunction(f)
    BY <2>2, <2>3
  <2> QED
    BY <2>4 DEF v, e, f
<1>4. ASSUME NEW k \in Key
      PROVE  LET b == s.heavy[BucketOf[k]]
             IN  \/ Elastic!Query(s, k) >= h.count[k]
                 \/ /\ h.merged /\ b.FlowID = k /\ ~b.Eviction
                    /\ b.VotePos + Elastic!lightEstimate(s.light, k) >= h.count[k]
  <2> DEFINE b == s.heavy[BucketOf[k]]
             e == Elastic!lightEstimate(s.light, k)
  <2>1. PICK r \in Row : e = s.light[r][ColOf[k][r]]
    BY <1>2, EstimateIsACell
  <2>2. e + Held(s.heavy, k) >= h.count[k]
    BY <1>1, <2>1 DEF Kept
  <2>3. BucketOf[k] \in Bucket /\ ColOf[k][r] \in Col
    BY DEF Elastic!Dimensions
  <2>4. e \in Nat /\ b.VotePos \in Nat /\ b.Eviction \in BOOLEAN /\ h.merged \in BOOLEAN
        /\ h.count[k] \in Nat
    BY <1>2, <2>1, <2>3 DEF Light, Heavy, HeavyBucket, History
  <2>5. Held(s.heavy, k) = IF b.FlowID = k THEN b.VotePos ELSE 0
    BY DEF Held
  <2>6. Elastic!Query(s, k) = (IF b.FlowID = k THEN b.VotePos ELSE 0)
                                + (IF b.FlowID = k /\ ~ b.Eviction THEN 0 ELSE e)
    BY DEF Elastic!Query
  <2>7. ~ h.merged /\ b.FlowID = k /\ ~ b.Eviction => b.VotePos >= h.count[k]
    BY <1>1 DEF Kept
  <2> HIDE DEF b, e
  <2>8. \/ Elastic!Query(s, k) >= h.count[k]
        \/ h.merged /\ b.FlowID = k /\ ~b.Eviction /\ b.VotePos + e >= h.count[k]
    <3>1. CASE b.FlowID = k /\ b.Eviction
      BY <2>2, <2>4, <2>5, <2>6, <3>1
    <3>2. CASE b.FlowID # k
      BY <2>2, <2>4, <2>5, <2>6, <3>2
    <3>3. CASE b.FlowID = k /\ ~ b.Eviction /\ h.merged
      BY <2>2, <2>4, <2>5, <3>3
    <3>4. CASE b.FlowID = k /\ ~ b.Eviction /\ ~ h.merged
      BY <2>4, <2>6, <2>7, <3>4
    <3> QED
      BY <2>4, <3>1, <3>2, <3>3, <3>4
  <2> QED
    BY <2>8 DEF b, e
<1> QED
  BY <1>3, <1>4

(* Votes and light counts are the insertions, through every eviction and   *)
(* merge, and Query underestimates nobody but a flow that took its bucket  *)
(* anew after a merge (insertOne, Merge, Query).                           *)
THEOREM VotesAreConserved ==
  ASSUME Elastic!Dimensions
  PROVE  Elastic!Spec => []Elastic!VotesConserved
<1>1. Elastic!Init => ElasticInv
  BY ElasticInit
<1>2. ElasticInv /\ [Elastic!Next]_(Elastic!vars) => ElasticInv'
  BY ElasticNext
<1>3. ElasticInv => Elastic!VotesConserved
  BY ElasticHolds
<1> QED
  BY <1>1, <1>2, <1>3, PTL DEF Elastic!Spec

-----------------------------------------------------------------------------
(* GeometricSampler.  Any tape of gaps, any mix of calls with any row      *)
(* counts, and any width of the mask.                                      *)
CONSTANTS Gap, TapeLen, RowCount, MaskWidth, MaxSkip
VARIABLES sampler, given

Sampler == INSTANCE GeometricSampler WITH sk <- sampler, seen <- given

Tape == [1..TapeLen -> Gap]

LEMMA TapeFacts ==
  ASSUME Sampler!Parameters, NEW tape \in Tape
  PROVE  /\ TapeLen \in Nat \ {0} /\ MaxSkip \in Nat
         /\ \A i \in 1..TapeLen : tape[i] \in Nat /\ tape[i] <= MaxSkip
<1>1. TapeLen \in Nat \ {0} /\ MaxSkip \in Nat /\ Gap \subseteq 0..MaxSkip
  BY DEF Sampler!Parameters
<1>2. \A i \in 1..TapeLen : tape[i] \in Gap
  BY DEF Tape
<1>3. \A i \in 1..TapeLen : tape[i] \in 0..MaxSkip
  BY <1>1, <1>2
<1> QED
  BY <1>1, <1>3

(* The candidates that a tape leads to, as GapsDecide computes them.       *)
StartIs(tape, st) == st = [i \in 1..TapeLen |-> IF i = 1 THEN tape[1] ELSE st[i-1] + 1 + tape[i]]
Start(tape) == CHOOSE st : StartIs(tape, st)

LEMMA StartExists ==
  ASSUME Sampler!Parameters, NEW tape \in Tape
  PROVE  StartIs(tape, Start(tape))
<1> DEFINE f == [i \in 1..TapeLen |-> IF i = 1 THEN tape[1] ELSE 1 + tape[i]]
           st == [i \in 1..TapeLen |-> PrefixSum(f, i)]
<1>0. TapeLen \in Nat \ {0} /\ \A i \in 1..TapeLen : tape[i] \in Nat
  BY TapeFacts
<1>1. \A i \in 1..TapeLen : f[i] \in Int
  BY <1>0
<1>2. ASSUME NEW i \in 1..TapeLen
      PROVE  st[i] = IF i = 1 THEN tape[1] ELSE st[i-1] + 1 + tape[i]
  <2>1. PrefixSum(f, (i-1)+1) = PrefixSum(f, i-1) + f[(i-1)+1]
    <3> HIDE DEF f
    <3> QED
      BY <1>0, PrefixSumStep
  <2>2. st[i] = PrefixSum(f, i-1) + f[i]
    BY <2>1, <1>0
  <2>3. CASE i = 1
    <3>1. PrefixSum(f, 0) = 0
      BY PrefixSumZero
    <3> QED
      BY <2>2, <2>3, <3>1, <1>0
  <2>4. CASE i # 1
    <3>1. st[i-1] = PrefixSum(f, i-1) /\ f[i] = 1 + tape[i]
      BY <2>4, <1>0
    <3>2. PrefixSum(f, i-1) \in Int
      <4> HIDE DEF f
      <4>1. i-1 \in Nat /\ \A j \in 1..i-1 : f[j] \in Int
        BY <1>0, <1>1
      <4> QED
        BY <4>1, PrefixSumType
    <3>3. tape[i] \in Int
      BY <1>0
    <3> HIDE DEF f, st
    <3> QED
      BY <2>2, <2>4, <3>1, <3>2, <3>3
  <2> QED
    BY <2>3, <2>4
<1>3. StartIs(tape, st)
  <2> HIDE DEF f
  <2> QED
    BY <1>2 DEF StartIs
<1> QED
  BY <1>3 DEF Start

(* They are naturals, one beyond the other.                                *)
LEMMA StartsIncrease ==
  ASSUME Sampler!Parameters, NEW tape \in Tape
  PROVE  /\ Start(tape)[1] = tape[1]
         /\ \A i \in 1..TapeLen : Start(tape)[i] \in Nat
         /\ \A i \in 2..TapeLen : Start(tape)[i] = Start(tape)[i-1] + 1 + tape[i]
         /\ \A i, j \in 1..TapeLen : i < j => Start(tape)[i] < Start(tape)[j]
<1> DEFINE st == Start(tape)
<1>0. TapeLen \in Nat \ {0} /\ \A i \in 1..TapeLen : tape[i] \in Nat
  BY TapeFacts
<1>1. \A i \in 1..TapeLen : st[i] = IF i = 1 THEN tape[1] ELSE st[i-1] + 1 + tape[i]
  <2> HIDE DEF st
  <2>1. StartIs(tape, st)
    BY StartExists DEF st
  <2> QED
    BY <2>1 DEF StartIs
<1> HIDE DEF st
<1>2. \A i \in 1..TapeLen : st[i] \in Nat
  <2> DEFINE T == {i \in 1..TapeLen : st[i] \notin Nat}
  <2> SUFFICES ASSUME T # {}
               PROVE  FALSE
    OBVIOUS
  <2>1. PICK i \in T : \A j \in T : i <= j
    <3>1. T \subseteq Nat
      OBVIOUS
    <3> QED
      BY <3>1, LeastNatural
  <2>2. i # 1
    BY <2>1, <1>0, <1>1
  <2>3. i-1 \in 1..TapeLen /\ i-1 \notin T
    BY <2>1, <2>2, <1>0
  <2> QED
    BY <2>1, <2>2, <2>3, <1>0, <1>1
<1>3. ASSUME NEW i \in 1..TapeLen
      PROVE  \A j \in 1..TapeLen : i < j => st[i] < st[j]
  <2> DEFINE T == {j \in 1..TapeLen : i < j /\ ~ (st[i] < st[j])}
  <2> SUFFICES ASSUME T # {}
               PROVE  FALSE
    OBVIOUS
  <2>1. PICK j \in T : \A h \in T : j <= h
    <3>1. T \subseteq Nat
      OBVIOUS
    <3> QED
      BY <3>1, LeastNatural
  <2>2. /\ j # 1 /\ j \in 1..TapeLen /\ j-1 \in 1..TapeLen /\ j-1 \notin T
        /\ i <= j-1 /\ i \in Nat /\ j \in Nat
    BY <2>1, <1>0
  <2>3. st[i] <= st[j-1]
    BY <2>2, <1>2
  <2>4. st[j] = st[j-1] + 1 + tape[j] /\ tape[j] \in Nat /\ st[j-1] \in Nat /\ st[i] \in Nat
    BY <2>2, <1>0, <1>1, <1>2
  <2> QED
    BY <2>1, <2>3, <2>4
<1>4. st[1] = tape[1] /\ \A i \in 2..TapeLen : st[i] = st[i-1] + 1 + tape[i]
  BY <1>0, <1>1
<1> QED
  BY <1>2, <1>3, <1>4 DEF st

(* A sampler that draws from the tape and is inside it.                    *)
Drawing(s) ==
  /\ s.tape \in Tape /\ s.drawn \in 1..TapeLen
  /\ s.skip \in 0..MaxSkip /\ s.exact = FALSE

(* How far from here the candidate is that follows i more gaps.            *)
Ahead(s, i) == s.skip + Start(s.tape)[s.drawn+i] - Start(s.tape)[s.drawn]

LEMMA AheadIsInt ==
  ASSUME Sampler!Parameters, NEW s, Drawing(s), NEW i \in 0..TapeLen - s.drawn
  PROVE  Ahead(s, i) \in Int
<1>1. s.drawn \in 1..TapeLen /\ TapeLen \in Nat /\ s.skip \in Int
  BY DEF Drawing, Sampler!Parameters
<1>2. s.drawn + i \in 1..TapeLen
  BY <1>1
<1>3. Start(s.tape)[s.drawn+i] \in Nat /\ Start(s.tape)[s.drawn] \in Nat
  BY <1>1, <1>2, StartsIncrease DEF Drawing
<1> QED
  BY <1>1, <1>3 DEF Ahead

PlaceEq(s, n, place) ==
  place = [i \in 0..n |-> IF i = 0 THEN s.skip ELSE place[i-1] + 1 + s.tape[s.drawn+i]]

LEMMA PlaceIs ==
  ASSUME Sampler!Parameters, NEW s, Drawing(s), NEW n \in 0..TapeLen - s.drawn
  PROVE  \A i \in 0..n : Sampler!Place(s, n)[i] = Ahead(s, i)
<1> DEFINE P == [i \in 0..n |-> Ahead(s, i)]
           Q == Sampler!Place(s, n)
<1>0. /\ s.drawn \in 1..TapeLen /\ TapeLen \in Nat /\ s.skip \in Int /\ n \in Nat
      /\ s.tape \in Tape /\ \A i \in 1..TapeLen : s.tape[i] \in Int
  BY TapeFacts DEF Drawing, Sampler!Parameters
<1>1. Ahead(s, 0) = s.skip
  <2>1. Start(s.tape)[s.drawn] \in Nat
    BY <1>0, StartsIncrease
  <2> QED
    BY <1>0, <2>1 DEF Ahead
<1>2. ASSUME NEW i \in 1..n
      PROVE  Ahead(s, i) = Ahead(s, i-1) + 1 + s.tape[s.drawn+i]
  <2>1. /\ s.drawn+i \in 2..TapeLen /\ s.drawn + (i-1) \in 1..TapeLen
        /\ (s.drawn+i) - 1 = s.drawn + (i-1)
    BY <1>0
  <2>2. Start(s.tape)[s.drawn+i] = Start(s.tape)[(s.drawn+i)-1] + 1 + s.tape[s.drawn+i]
    BY <2>1, <1>0, StartsIncrease
  <2>3. /\ Start(s.tape)[s.drawn+i] \in Nat /\ Start(s.tape)[s.drawn+(i-1)] \in Nat
        /\ Start(s.tape)[s.drawn] \in Nat
    BY <2>1, <1>0, StartsIncrease
  <2> QED
    BY <2>1, <2>2, <2>3, <1>0 DEF Ahead
<1>3. PlaceEq(s, n, P)
  <2>1. ASSUME NEW i \in 0..n
        PROVE  P[i] = IF i = 0 THEN s.skip ELSE P[i-1] + 1 + s.tape[s.drawn+i]
    BY <1>0, <1>1, <1>2
  <2> QED
    BY <2>1 DEF PlaceEq
<1>4. PlaceEq(s, n, Q)
  <2> HIDE DEF P
  <2>1. Q = CHOOSE place : PlaceEq(s, n, place)
    BY DEF Sampler!Place, PlaceEq
  <2> HIDE DEF Q
  <2> QED
    BY <1>3, <2>1
<1>5. \A i \in 0..n : Q[i] = P[i]
  <2> HIDE DEF P, Q
  <2>1. \A i \in 0..n : /\ P[i] = IF i = 0 THEN s.skip ELSE P[i-1] + 1 + s.tape[s.drawn+i]
                        /\ Q[i] = IF i = 0 THEN s.skip ELSE Q[i-1] + 1 + s.tape[s.drawn+i]
    BY <1>3, <1>4 DEF PlaceEq
  <2> DEFINE T == {i \in 0..n : Q[i] # P[i]}
  <2> SUFFICES ASSUME T # {}
               PROVE  FALSE
    OBVIOUS
  <2>2. PICK i \in T : \A j \in T : i <= j
    <3>1. T \subseteq Nat
      BY <1>0
    <3> QED
      BY <3>1, LeastNatural
  <2>3. i # 0
    BY <2>1, <2>2
  <2>4. i-1 \in 0..n /\ i-1 \notin T
    BY <2>2, <2>3, <1>0
  <2>5. Q[i-1] = P[i-1]
    BY <2>4
  <2> QED
    BY <2>1, <2>2, <2>3, <2>5
<1> QED
  BY <1>5

(* The gaps that AdmitRows uses up are those that lead to a candidate of   *)
(* the item.                                                               *)
LEMMA UsedIs ==
  ASSUME Sampler!Parameters, NEW s, Drawing(s), NEW rows \in Int
  PROVE  LET m == Sampler!Used(s, rows)
         IN  /\ m \in Nat
             /\ \A i \in 0..m-1 : i <= TapeLen - s.drawn => Ahead(s, i) < rows
             /\ m <= TapeLen - s.drawn => Ahead(s, m) >= rows
<1> DEFINE left == TapeLen - s.drawn
           place == Sampler!Place(s, left)
           Ends(m) == /\ \A i \in 0..m-1 : i <= left => place[i] < rows
                      /\ m <= left => place[m] >= rows
           T == {i \in 0..left : place[i] >= rows}
<1>0. left \in Nat
  BY DEF Drawing, Sampler!Parameters
<1>1. \A i \in 0..left : place[i] = Ahead(s, i) /\ place[i] \in Int
  <2>1. left \in 0..TapeLen - s.drawn
    BY <1>0
  <2> QED
    BY <2>1, PlaceIs, AheadIsInt
<1>2. Sampler!Used(s, rows) = CHOOSE m \in 0..left+1 : Ends(m)
  BY DEF Sampler!Used
<1> HIDE DEF place, left
<1>3. \E m \in 0..left+1 : Ends(m)
  <2>1. CASE T = {}
    <3>1. left+1 \in 0..left+1 /\ Ends(left+1)
      BY <1>0, <1>1, <2>1
    <3> QED
      BY <3>1
  <2>2. CASE T # {}
    <3>1. PICK m \in T : \A j \in T : m <= j
      <4>1. T \subseteq Nat
        BY <1>0
      <4> QED
        BY <4>1, <2>2, LeastNatural
    <3>2. m \in 0..left+1 /\ Ends(m)
      BY <1>0, <1>1, <3>1
    <3> QED
      BY <3>2
  <2> QED
    BY <2>1, <2>2
<1> DEFINE u == CHOOSE m \in 0..left+1 : Ends(m)
<1>4. u \in 0..left+1 /\ Ends(u)
  <2> HIDE DEF Ends
  <2> QED
    BY <1>3
<1> HIDE DEF u
<1>5. /\ u \in Nat
      /\ \A i \in 0..u-1 : i <= left => Ahead(s, i) < rows
      /\ u <= left => Ahead(s, u) >= rows
  BY <1>0, <1>1, <1>4
<1> QED
  BY <1>2, <1>5 DEF u, left

(***************************************************************************)
(* The gap under way ends at the candidate that the gaps drawn so far lead *)
(* to; the candidates of the gaps before it have been admitted.            *)
(***************************************************************************)
SamplerState == [tape : Tape, exact : BOOLEAN, skip : Int, drawn : Int]

SamplerType(s, h) ==
  /\ s \in SamplerState
  /\ h \in [at : Nat, admitted : SUBSET Nat]

UnderWay(s, h) ==
  /\ Drawing(s)
  /\ s.skip = Start(s.tape)[s.drawn] - h.at
  /\ \A i \in 1..s.drawn-1 : Start(s.tape)[i] < h.at
  /\ h.admitted = {Start(s.tape)[i] : i \in 1..s.drawn-1}

Gapped(s, h) ==
  /\ SamplerType(s, h)
  /\ IF s.exact THEN h.admitted = 0..h.at-1 ELSE UnderWay(s, h)

SamplerInv == Gapped(sampler, given)

LEMMA DrawnIsTyped ==
  ASSUME NEW s \in SamplerState, NEW x \in Int, NEW n \in Int
  PROVE  [s EXCEPT !.skip = x, !.drawn = @ + n] \in SamplerState
<1> DEFINE t == [s EXCEPT !.skip = x]
<1>1. t \in SamplerState /\ t.drawn = s.drawn /\ s.drawn \in Int
  BY DEF SamplerState
<1> HIDE DEF t
<1>2. [t EXCEPT !.drawn = s.drawn + n] \in SamplerState
  BY <1>1 DEF SamplerState
<1> QED
  BY <1>1, <1>2 DEF t

LEMMA ResetKeeps ==
  ASSUME Sampler!Parameters, NEW tape \in Tape, NEW exact \in BOOLEAN
  PROVE  Gapped(Sampler!Reset(tape, exact), Sampler!NoCandidates)
<1> DEFINE s == Sampler!Reset(tape, exact)
           h == Sampler!NoCandidates
<1>1. /\ TapeLen \in Nat \ {0} /\ MaxSkip \in Nat
      /\ tape[1] \in Nat /\ tape[1] <= MaxSkip /\ Start(tape)[1] = tape[1]
  <2>1. 1 \in 1..TapeLen
    BY TapeFacts
  <2> QED
    BY <2>1, TapeFacts, StartsIncrease
<1>2. h = [at |-> 0, admitted |-> {}]
  BY DEF Sampler!NoCandidates
<1>3. CASE exact
  <2>1. s = [tape |-> tape, exact |-> TRUE, skip |-> 0, drawn |-> 0]
    BY <1>3 DEF Sampler!Reset
  <2>2. 0..(0-1) = {}
    OBVIOUS
  <2> HIDE DEF s, h
  <2>3. SamplerType(s, h) /\ s.exact = TRUE /\ h.admitted = 0..h.at-1
    BY <1>2, <2>1, <2>2 DEF SamplerType, SamplerState
  <2>4. Gapped(s, h)
    BY <2>3 DEF Gapped
  <2> QED
    BY <2>4 DEF s, h
<1>4. CASE ~ exact
  <2>1. s = [tape |-> tape, exact |-> FALSE, skip |-> tape[1], drawn |-> 1]
    BY <1>4 DEF Sampler!Reset
  <2>2. 1..(1-1) = {}
    OBVIOUS
  <2> HIDE DEF s, h
  <2>3. UnderWay(s, h)
    BY <1>1, <1>2, <2>1, <2>2 DEF UnderWay, Drawing
  <2>4. SamplerType(s, h) /\ s.exact = FALSE
    BY <1>1, <1>2, <2>1 DEF SamplerType, SamplerState
  <2>5. Gapped(s, h)
    BY <2>3, <2>4 DEF Gapped
  <2> QED
    BY <2>5 DEF s, h
<1> QED
  BY <1>3, <1>4

(* Admit, a candidate at a time.                                           *)
LEMMA AdmitKeeps ==
  ASSUME Sampler!Parameters, SamplerInv, Sampler!Admit
  PROVE  SamplerInv'
<1>0. /\ sampler \in SamplerState
      /\ given \in [at : Nat, admitted : SUBSET Nat]
      /\ TapeLen \in Nat /\ MaxSkip \in Nat
  BY DEF SamplerInv, Gapped, SamplerType, SamplerState, Sampler!Parameters
<1> DEFINE at == given.at
           st == Start(sampler.tape)
           d == sampler.drawn
<1>1. CASE sampler.exact
  <2>1. sampler' = sampler /\ given' = [at |-> at + 1, admitted |-> given.admitted \union {at}]
    BY <1>1 DEF Sampler!Admit
  <2>2. given.admitted = 0..at-1
    BY <1>1 DEF SamplerInv, Gapped
  <2>3. given'.admitted = 0..(given'.at)-1
    BY <1>0, <2>1, <2>2
  <2> QED
    BY <1>0, <1>1, <2>1, <2>3 DEF SamplerInv, Gapped, SamplerType
<1>2. CASE ~ sampler.exact
  <2>0. UnderWay(sampler, given)
    BY <1>2 DEF SamplerInv, Gapped
  <2>1. /\ sampler.tape \in Tape /\ d \in 1..TapeLen /\ sampler.skip \in 0..MaxSkip
        /\ sampler.exact = FALSE
        /\ sampler.skip = st[d] - at
        /\ \A i \in 1..d-1 : st[i] < at
        /\ given.admitted = {st[i] : i \in 1..d-1}
    BY <2>0 DEF UnderWay, Drawing
  <2>2. \A i \in 1..TapeLen : st[i] \in Nat
    BY <2>1, StartsIncrease
  <2> HIDE DEF st
  <2>3. CASE sampler.skip > 0
    <3>1. sampler' = [sampler EXCEPT !.skip = @ - 1] /\ given' = [given EXCEPT !.at = @ + 1]
      BY <1>2, <2>3 DEF Sampler!Admit
    <3>2. /\ sampler'.tape = sampler.tape /\ sampler'.drawn = d /\ sampler'.exact = FALSE
          /\ sampler'.skip = sampler.skip - 1
          /\ given'.at = at + 1 /\ given'.admitted = given.admitted
          /\ SamplerType(sampler, given)'
      BY <1>0, <2>1, <3>1 DEF SamplerType, SamplerState
    <3>3. st' = st
      BY <3>2 DEF st
    <3>4. /\ sampler'.skip = st[d] - given'.at
          /\ \A i \in 1..d-1 : st[i] < given'.at
          /\ sampler'.skip \in 0..MaxSkip
      BY <1>0, <2>1, <2>2, <2>3, <3>2
    <3> QED
      BY <2>1, <3>2, <3>3, <3>4 DEF SamplerInv, Gapped, UnderWay, Drawing, st
  <2>4. CASE ~ (sampler.skip > 0)
    <3>1. /\ d < TapeLen
          /\ sampler' = [sampler EXCEPT !.skip = sampler.tape[d+1], !.drawn = @ + 1]
          /\ given' = [at |-> at + 1, admitted |-> given.admitted \union {at}]
      BY <1>2, <2>4 DEF Sampler!Admit
    <3>2. d+1 \in 2..TapeLen /\ (d+1)-1 = d /\ d \in Nat /\ st[d] = at /\ at \in Nat
      BY <1>0, <2>1, <2>2, <2>4, <3>1
    <3>3. /\ sampler.tape[d+1] \in Nat /\ sampler.tape[d+1] <= MaxSkip
          /\ st[d+1] = st[d] + 1 + sampler.tape[d+1]
      <4>1. d+1 \in 1..TapeLen
        BY <3>2
      <4>2. st[d+1] = st[(d+1)-1] + 1 + sampler.tape[d+1]
        BY <2>1, <3>2, StartsIncrease DEF st
      <4> QED
        BY <2>1, <3>2, <4>1, <4>2, TapeFacts
    <3>4. /\ sampler'.tape = sampler.tape /\ sampler'.drawn = d + 1 /\ sampler'.exact = FALSE
          /\ sampler'.skip = sampler.tape[d+1]
          /\ given'.at = at + 1 /\ given'.admitted = given.admitted \union {at}
      BY <1>0, <2>1, <3>1
    <3>5. SamplerType(sampler, given)'
      <4>1. sampler' \in SamplerState
        <5>1. sampler.tape[d+1] \in Int /\ 1 \in Int
          BY <3>3
        <5>2. [sampler EXCEPT !.skip = sampler.tape[d+1], !.drawn = @ + 1] \in SamplerState
          BY <1>0, <5>1, DrawnIsTyped DEF SamplerState
        <5> QED
          BY <3>1, <5>2
      <4>2. given' \in [at : Nat, admitted : SUBSET Nat]
        BY <1>0, <3>1
      <4> QED
        BY <4>1, <4>2 DEF SamplerType, SamplerState
    <3>6. st' = st
      BY <3>4 DEF st
    <3>7. /\ sampler'.skip = st[d+1] - given'.at
          /\ \A i \in 1..(d+1)-1 : st[i] < given'.at
          /\ sampler'.skip \in 0..MaxSkip /\ d+1 \in 1..TapeLen
      BY <1>0, <2>1, <2>2, <3>2, <3>3, <3>4
    <3>8. given'.admitted = {st[i] : i \in 1..(d+1)-1}
      <4>1. 1..(d+1)-1 = (1..d-1) \union {d}
        BY <2>1, <1>0
      <4> QED
        BY <2>1, <3>2, <3>4, <4>1
    <3> QED
      BY <2>1, <3>4, <3>5, <3>6, <3>7, <3>8 DEF SamplerInv, Gapped, UnderWay, Drawing, st
  <2> QED
    BY <2>3, <2>4
<1> QED
  BY <1>1, <1>2

(* AdmitRows, the rows of an item together.                                *)
LEMMA ItemKeeps ==
  ASSUME Sampler!Parameters, SamplerInv, NEW rows \in RowCount, Sampler!AdmitRows(rows)
  PROVE  SamplerInv'
<1> DEFINE n == Sampler!Clamped(rows)
           at == given.at
<1>0. /\ sampler \in SamplerState
      /\ given \in [at : Nat, admitted : SUBSET Nat]
      /\ TapeLen \in Nat /\ MaxSkip \in Nat /\ n \in Nat
  BY DEF SamplerInv, Gapped, SamplerType, SamplerState, Sampler!Parameters, Sampler!Clamped
<1>1. CASE sampler.exact
  <2>1. /\ sampler' = sampler
        /\ given' = [at |-> at + n, admitted |-> given.admitted \union at..at+n-1]
    BY <1>1 DEF Sampler!AdmitRows
  <2>2. given.admitted = 0..at-1
    BY <1>1 DEF SamplerInv, Gapped
  <2> HIDE DEF n
  <2>3. given'.at = at + n /\ given'.admitted = 0..(at+n)-1 /\ at \in Nat
    BY <1>0, <2>1, <2>2
  <2> QED
    BY <1>0, <1>1, <2>1, <2>3 DEF SamplerInv, Gapped, SamplerType
<1>2. CASE ~ sampler.exact
  <2> DEFINE m == Sampler!Used(sampler, n)
             place == Sampler!Place(sampler, m)
             st == Start(sampler.tape)
             d == sampler.drawn
             rest == place[m] - n
  <2>0. UnderWay(sampler, given)
    BY <1>2 DEF SamplerInv, Gapped
  <2>1. /\ Drawing(sampler)
        /\ sampler.tape \in Tape /\ d \in 1..TapeLen /\ sampler.skip \in 0..MaxSkip
        /\ sampler.exact = FALSE
        /\ sampler.skip = st[d] - at
        /\ \A i \in 1..d-1 : st[i] < at
        /\ given.admitted = {st[i] : i \in 1..d-1}
    BY <2>0 DEF UnderWay, Drawing
  <2>2. /\ d + m <= TapeLen
        /\ sampler' = [sampler EXCEPT !.skip = IF rest > MaxSkip THEN MaxSkip ELSE rest,
                                      !.drawn = @ + m]
        /\ given' = [at |-> at + n,
                     admitted |-> given.admitted \union {at + place[i] : i \in 0..m-1}]
    <3> HIDE DEF n
    <3> QED
      BY <1>2 DEF Sampler!AdmitRows, n
  <2> HIDE DEF n
  <2>3. /\ m \in Nat
        /\ \A i \in 0..m-1 : i <= TapeLen - d => Ahead(sampler, i) < n
        /\ m <= TapeLen - d => Ahead(sampler, m) >= n
    <3>1. n \in Int
      BY <1>0
    <3> QED
      BY <2>1, <3>1, UsedIs
  <2> HIDE DEF m
  <2>4. \A i \in 0..m : place[i] = Ahead(sampler, i)
    <3>1. m \in 0..TapeLen - d
      BY <1>0, <2>1, <2>2, <2>3
    <3> QED
      BY <2>1, <3>1, PlaceIs
  <2> HIDE DEF place
  <2>5. \A i \in 1..TapeLen : st[i] \in Nat
    BY <2>1, StartsIncrease
  <2>6. \A i \in 2..TapeLen : st[i] = st[i-1] + 1 + sampler.tape[i]
    BY <2>1, StartsIncrease
  <2>7. \A i \in 1..TapeLen : sampler.tape[i] \in Nat /\ sampler.tape[i] <= MaxSkip
    BY <2>1, TapeFacts
  <2> HIDE DEF st
  <2>8. \A i \in 0..m : d + i \in 1..TapeLen /\ place[i] = st[d+i] - at
    <3> SUFFICES ASSUME NEW i \in 0..m
                 PROVE  d + i \in 1..TapeLen /\ place[i] = st[d+i] - at
      OBVIOUS
    <3>1. d + i \in 1..TapeLen
      BY <1>0, <2>1, <2>2, <2>3
    <3>2. place[i] = sampler.skip + st[d+i] - st[d]
      BY <2>4 DEF Ahead, st
    <3>3. st[d+i] \in Nat /\ st[d] \in Nat /\ at \in Nat
      BY <1>0, <2>1, <2>5, <3>1
    <3> QED
      BY <2>1, <3>1, <3>2, <3>3
  <2>9. \A i \in 0..m-1 : place[i] < n
    BY <1>0, <2>1, <2>2, <2>3, <2>4
  <2>10. place[m] >= n
    BY <1>0, <2>1, <2>2, <2>3, <2>4
  <2>11. rest \in 0..MaxSkip
    <3>1. place[m] \in Int /\ rest \in Int /\ rest >= 0
      <4>1. m \in 0..m /\ st[d+m] \in Nat /\ at \in Nat
        BY <1>0, <2>3, <2>5, <2>8
      <4> QED
        BY <1>0, <2>8, <2>10, <4>1
    <3>2. CASE m = 0
      <4>1. place[m] = sampler.skip
        BY <2>1, <2>8, <3>2
      <4> QED
        BY <1>0, <2>1, <3>1, <4>1
    <3>3. CASE m # 0
      <4>1. /\ m-1 \in 0..m /\ m-1 \in 0..m-1 /\ m \in 0..m /\ d + m \in 2..TapeLen
            /\ d + (m-1) = (d + m) - 1 /\ d + (m-1) \in 1..TapeLen /\ d + m \in 1..TapeLen
        BY <1>0, <2>1, <2>2, <2>3, <3>3
      <4>2. place[m] = st[d+m] - at /\ place[m-1] = st[d+(m-1)] - at /\ place[m-1] < n
        BY <2>8, <2>9, <4>1
      <4>3. st[d+m] = st[d+(m-1)] + 1 + sampler.tape[d+m]
        BY <2>6, <4>1
      <4>4. /\ st[d+m] \in Nat /\ st[d+(m-1)] \in Nat /\ at \in Nat
            /\ sampler.tape[d+m] \in Nat /\ sampler.tape[d+m] <= MaxSkip
        BY <1>0, <2>5, <2>7, <4>1
      <4>5. rest <= sampler.tape[d+m]
        BY <1>0, <4>2, <4>3, <4>4
      <4> QED
        BY <1>0, <3>1, <4>4, <4>5
    <3> QED
      BY <3>2, <3>3
  <2> HIDE DEF rest
  <2>12. /\ sampler'.tape = sampler.tape /\ sampler'.exact = FALSE
         /\ sampler'.drawn = d + m /\ sampler'.skip = rest
         /\ given'.at = at + n
         /\ given'.admitted = given.admitted \union {at + place[i] : i \in 0..m-1}
    BY <1>0, <2>1, <2>2, <2>11
  <2>13. given'.admitted = {st[i] : i \in 1..(d+m)-1}
    <3>1. {at + place[i] : i \in 0..m-1} = {st[i] : i \in d..(d+m)-1}
      <4>1. \A i \in 0..m-1 : at + place[i] = st[d+i] /\ d+i \in d..(d+m)-1
        BY <1>0, <2>1, <2>3, <2>5, <2>8
      <4>2. \A j \in d..(d+m)-1 : j - d \in 0..m-1 /\ d + (j - d) = j
        BY <2>1, <2>3
      <4> QED
        BY <4>1, <4>2
    <3>2. 1..(d+m)-1 = (1..d-1) \union (d..(d+m)-1)
      BY <2>1, <2>3
    <3> QED
      BY <2>1, <2>12, <3>1, <3>2
  <2>14. \A i \in 1..(d+m)-1 : st[i] < at + n
    <3> SUFFICES ASSUME NEW i \in 1..(d+m)-1
                 PROVE  st[i] < at + n
      OBVIOUS
    <3>1. i \in 1..TapeLen /\ st[i] \in Nat /\ at \in Nat
      BY <1>0, <2>1, <2>2, <2>3, <2>5
    <3>2. CASE i < d
      BY <1>0, <2>1, <3>1, <3>2
    <3>3. CASE i >= d
      <4>1. i - d \in 0..m-1 /\ i - d \in 0..m /\ d + (i - d) = i
        BY <2>1, <2>3, <3>3
      <4>2. place[i-d] = st[i] - at /\ place[i-d] < n
        BY <2>8, <2>9, <4>1
      <4> QED
        BY <1>0, <3>1, <4>2
    <3> QED
      BY <2>1, <3>1, <3>2, <3>3
  <2>15. rest = st[d+m] - (at + n)
    <3>1. m \in 0..m /\ place[m] = st[d+m] - at /\ st[d+m] \in Nat /\ at \in Nat
      BY <1>0, <2>3, <2>5, <2>8
    <3> QED
      BY <1>0, <3>1 DEF rest
  <2>16. st' = st
    BY <2>12 DEF st
  <2>17. SamplerType(sampler, given)'
    <3>1. given'.admitted \subseteq Nat
      <4>1. \A i \in 1..(d+m)-1 : i \in 1..TapeLen
        BY <1>0, <2>1, <2>2, <2>3
      <4> QED
        BY <2>5, <2>13, <4>1
    <3>2. given' = [at |-> at + n, admitted |-> given'.admitted]
      BY <2>2
    <3>3. given' \in [at : Nat, admitted : SUBSET Nat]
      <4>1. at + n \in Nat
        BY <1>0
      <4> QED
        BY <3>1, <3>2, <4>1
    <3>4. sampler' = [sampler EXCEPT !.skip = rest, !.drawn = @ + m]
      <4>1. (IF rest > MaxSkip THEN MaxSkip ELSE rest) = rest
        BY <1>0, <2>11
      <4> QED
        BY <2>2, <4>1
    <3>5. rest \in Int /\ d + m \in Int
      BY <1>0, <2>1, <2>3, <2>11
    <3>6. sampler' \in SamplerState
      <4>1. [sampler EXCEPT !.skip = rest, !.drawn = @ + m] \in SamplerState
        BY <1>0, <2>3, <3>5, DrawnIsTyped DEF SamplerState
      <4> QED
        BY <3>4, <4>1
    <3> QED
      BY <3>3, <3>6 DEF SamplerType, SamplerState
  <2>18. d + m \in 1..TapeLen
    BY <1>0, <2>1, <2>2, <2>3
  <2> QED
    BY <2>1, <2>11, <2>12, <2>13, <2>14, <2>15, <2>16, <2>17, <2>18
       DEF SamplerInv, Gapped, UnderWay, Drawing, st
<1> QED
  BY <1>1, <1>2

(* Whatever the mix of Admit and AdmitRows, and however long the items,    *)
(* the candidates admitted are those the gaps lead to, one after the       *)
(* other: none twice, none passed over where two items meet.  What skip    *)
(* holds is the rest of the gap under way, which fits because no gap is    *)
(* above MaxSkip.                                                          *)
THEOREM GapsAlwaysDecide ==
  ASSUME Sampler!Parameters
  PROVE  Sampler!Spec => []Sampler!GapsDecide
<1>1. Sampler!Init => SamplerInv
  <2> SUFFICES ASSUME Sampler!Init
               PROVE  SamplerInv
    OBVIOUS
  <2>1. PICK tape \in Tape, exact \in BOOLEAN : sampler = Sampler!Reset(tape, exact)
    BY DEF Sampler!Init, Tape
  <2>2. given = Sampler!NoCandidates
    BY DEF Sampler!Init
  <2> QED
    BY <2>1, <2>2, ResetKeeps DEF SamplerInv
<1>2. SamplerInv /\ [Sampler!Next]_(Sampler!vars) => SamplerInv'
  <2> SUFFICES ASSUME SamplerInv, [Sampler!Next]_(Sampler!vars)
               PROVE  SamplerInv'
    OBVIOUS
  <2>1. ASSUME NEW rows \in RowCount, Sampler!AdmitRows(rows)
        PROVE  SamplerInv'
    BY <2>1, ItemKeeps
  <2>2. ASSUME Sampler!Admit
        PROVE  SamplerInv'
    BY <2>2, AdmitKeeps
  <2>3. ASSUME NEW exact \in BOOLEAN, Sampler!Reconfigure(exact)
        PROVE  SamplerInv'
    <3>1. /\ sampler.tape \in Tape
          /\ sampler' = Sampler!Reset(sampler.tape, exact) /\ given' = Sampler!NoCandidates
      BY <2>3 DEF Sampler!Reconfigure, SamplerInv, Gapped, SamplerType, SamplerState
    <3>2. Gapped(sampler', given')
      BY <3>1, ResetKeeps
    <3> QED
      BY <3>2 DEF SamplerInv
  <2>4. ASSUME UNCHANGED Sampler!vars
        PROVE  SamplerInv'
    BY <2>4 DEF Sampler!vars, SamplerInv, Gapped, SamplerType, UnderWay, Drawing
  <2> QED
    BY <2>1, <2>2, <2>3, <2>4 DEF Sampler!Next
<1>3. SamplerInv => Sampler!GapsDecide
  <2> SUFFICES ASSUME SamplerInv
               PROVE  Sampler!GapsDecide
    OBVIOUS
  <2> DEFINE st == Start(sampler.tape)
             d == sampler.drawn
  <2>1. CASE sampler.exact
    BY <2>1 DEF SamplerInv, Gapped, Sampler!GapsDecide
  <2>2. CASE ~ sampler.exact
    <3>1. /\ sampler.tape \in Tape /\ d \in 1..TapeLen /\ sampler.skip \in 0..MaxSkip
          /\ sampler.skip = st[d] - given.at /\ given.at \in Nat
          /\ \A i \in 1..d-1 : st[i] < given.at
          /\ given.admitted = {st[i] : i \in 1..d-1}
      BY <2>2 DEF SamplerInv, Gapped, SamplerType, UnderWay, Drawing
    <3>2. \A i \in 1..TapeLen : st[i] \in Nat
      BY <3>1, StartsIncrease
    <3>3. \A i \in 1..d : i \in 1..d-1 \/ i = d
      BY <3>1
    <3>4. ~ (st[d] < given.at)
      <4> HIDE DEF st
      <4> QED
        BY <3>1, <3>2 DEF Sampler!Parameters
    <3>5. {p \in {st[i] : i \in 1..d} : p < given.at} = {st[i] : i \in 1..d-1}
      <4>1. \A i \in 1..d-1 : i \in 1..d
        BY <3>1
      <4> HIDE DEF st
      <4> QED
        BY <3>1, <3>3, <3>4, <4>1
    <3>6. /\ given.admitted = {p \in {st[i] : i \in 1..d} : p < given.at}
          /\ sampler.skip = st[d] - given.at
      BY <3>1, <3>5
    <3> QED
      BY <2>2, <3>6 DEF Sampler!GapsDecide, Start, StartIs
  <2> QED
    BY <2>1, <2>2
<1> QED
  BY <1>1, <1>2, <1>3, PTL DEF Sampler!Spec

-----------------------------------------------------------------------------
(* FoldSketch.  Any number of columns that is a power of two, any rows,    *)
(* keys and hash functions, any weights.                                   *)
CONSTANTS FullBits, SignOf, Weights
VARIABLES folded, streamed

Fold == INSTANCE FoldSketch WITH sk <- folded, seen <- streamed

LEMMA FoldSum ==
  ASSUME NEW f
  PROVE  Fold!SumFunction(f) = SumFunctionOnSet(f, DOMAIN f)
<1>1. ASSUME NEW S
      PROVE  Fold!SumFunctionOnSet(f, S) = SumFunctionOnSet(f, S)
  BY DEF Fold!SumFunctionOnSet, Fold!FoldFunctionOnSet, Fold!MapThenFoldSet,
     SumFunctionOnSet, FoldFunctionOnSet, MapThenFoldSet
<1> QED
  BY <1>1 DEF Fold!SumFunction

(* The number of columns is halved from level to level.                    *)
TwoToIs(t) == t = [n \in 0..FullBits |-> IF n = 0 THEN 1 ELSE 2 * t[n-1]]

LEMMA PowersExist ==
  ASSUME FullBits \in Nat
  PROVE  \E t : TwoToIs(t)
<1> DEFINE Is(m, t) == t = [n \in 0..m |-> IF n = 0 THEN 1 ELSE 2 * t[n-1]]
           T == {m \in 0..FullBits : ~ \E t : Is(m, t)}
<1> SUFFICES T = {}
  <2>1. FullBits \in 0..FullBits
    OBVIOUS
  <2> QED
    BY <2>1 DEF TwoToIs
<1> SUFFICES ASSUME T # {}
             PROVE  FALSE
  OBVIOUS
<1>1. PICK m \in T : \A j \in T : m <= j
  <2>1. T \subseteq Nat
    OBVIOUS
  <2> QED
    BY <2>1, LeastNatural
<1>2. m # 0
  <2>1. Is(0, [n \in 0..0 |-> 1])
    OBVIOUS
  <2> QED
    BY <2>1
<1>3. m-1 \in 0..FullBits /\ m-1 \notin T
  <2>1. m \in 0..FullBits
    BY <1>1
  <2>2. m-1 \in 0..FullBits /\ ~ (m <= m-1)
    BY <1>2, <2>1
  <2> HIDE DEF T
  <2> QED
    BY <1>1, <2>2
<1>4. PICK t : Is(m-1, t)
  BY <1>3
<1> DEFINE u == [n \in 0..m |-> IF n = m THEN 2 * t[m-1] ELSE t[n]]
<1>5. \A n \in 0..m-1 : t[n] = IF n = 0 THEN 1 ELSE 2 * t[n-1]
  BY <1>4
<1>6. \A n \in 0..m : u[n] = IF n = 0 THEN 1 ELSE 2 * u[n-1]
  <2> SUFFICES ASSUME NEW n \in 0..m
               PROVE  u[n] = IF n = 0 THEN 1 ELSE 2 * u[n-1]
    OBVIOUS
  <2>1. CASE n = m
    <3>1. n-1 \in 0..m /\ n-1 # m
      BY <1>1, <1>2, <2>1
    <3> QED
      BY <1>2, <2>1, <3>1
  <2>2. CASE n # m
    <3>1. n \in 0..m-1 /\ (n # 0 => n-1 \in 0..m /\ n-1 # m)
      BY <1>1, <2>2
    <3> QED
      BY <1>5, <2>2, <3>1
  <2> QED
    BY <2>1, <2>2
<1>7. Is(m, u)
  <2> HIDE DEF u
  <2>1. u = [n \in 0..m |-> u[n]]
    BY DEF u
  <2> QED
    BY <1>6, <2>1
<1> QED
  BY <1>1, <1>7

LEMMA Powers ==
  ASSUME FullBits \in Nat
  PROVE  /\ Fold!TwoTo[0] = 1
         /\ \A n \in 1..FullBits : Fold!TwoTo[n] = 2 * Fold!TwoTo[n-1]
<1> DEFINE t == CHOOSE t : TwoToIs(t)
<1>1. TwoToIs(t)
  BY PowersExist
<1>2. Fold!TwoTo = t
  BY DEF Fold!TwoTo, TwoToIs
<1> HIDE DEF t
<1>3. \A n \in 0..FullBits : t[n] = IF n = 0 THEN 1 ELSE 2 * t[n-1]
  BY <1>1 DEF TwoToIs
<1>4. 0 \in 0..FullBits /\ \A n \in 1..FullBits : n \in 0..FullBits /\ n # 0
  OBVIOUS
<1> QED
  BY <1>2, <1>3, <1>4

LEMMA PowersPositive ==
  ASSUME FullBits \in Nat
  PROVE  \A n \in 0..FullBits : Fold!TwoTo[n] \in Nat \ {0}
<1> DEFINE t == Fold!TwoTo
           T == {n \in 0..FullBits : t[n] \notin Nat \ {0}}
<1> SUFFICES ASSUME T # {}
             PROVE  FALSE
  OBVIOUS
<1>0. t[0] = 1 /\ \A n \in 1..FullBits : t[n] = 2 * t[n-1]
  BY Powers
<1> HIDE DEF t
<1>1. PICK n \in T : \A j \in T : n <= j
  <2>1. T \subseteq Nat
    OBVIOUS
  <2> QED
    BY <2>1, LeastNatural
<1>2. n # 0
  BY <1>0, <1>1
<1>3. n-1 \in 0..FullBits /\ n-1 \notin T /\ n \in 1..FullBits
  BY <1>1, <1>2
<1>4. t[n-1] \in Nat \ {0} /\ t[n] = 2 * t[n-1]
  BY <1>0, <1>3
<1> QED
  BY <1>1, <1>4

(* A smaller power divides a greater one.                                  *)
LEMMA PowersDivide ==
  ASSUME FullBits \in Nat, NEW a \in 0..FullBits
  PROVE  \A b \in a..FullBits : \E q \in Nat \ {0} : Fold!TwoTo[b] = Fold!TwoTo[a] * q
<1> DEFINE t == Fold!TwoTo
           T == {b \in a..FullBits : ~ \E q \in Nat \ {0} : t[b] = t[a] * q}
<1> SUFFICES ASSUME T # {}
             PROVE  FALSE
  OBVIOUS
<1>0. (\A n \in 1..FullBits : t[n] = 2 * t[n-1]) /\ \A n \in 0..FullBits : t[n] \in Nat \ {0}
  BY Powers, PowersPositive
<1> HIDE DEF t
<1>1. PICK b \in T : \A j \in T : b <= j
  <2>1. T \subseteq Nat
    OBVIOUS
  <2> QED
    BY <2>1, LeastNatural
<1>2. b # a
  <2>1. t[a] = t[a] * 1
    BY <1>0
  <2> QED
    BY <1>1, <2>1
<1>3. b-1 \in a..FullBits /\ b-1 \notin T /\ b \in 1..FullBits
  BY <1>1, <1>2
<1>4. PICK q \in Nat \ {0} : t[b-1] = t[a] * q
  BY <1>3
<1>5. t[b] = t[a] * (2 * q)
  <2>1. t[b] = 2 * t[b-1] /\ t[a] \in Nat
    BY <1>0, <1>3
  <2>2. 2 * (t[a] * q) = t[a] * (2 * q)
    BY <2>1
  <2> QED
    BY <1>4, <2>1, <2>2
<1>6. 2 * q \in Nat \ {0}
  OBVIOUS
<1> QED
  BY <1>1, <1>5, <1>6

(* Division has one result.                                                *)
LEMMA OneRemainder ==
  ASSUME NEW n \in Nat \ {0}, NEW a \in Int, NEW b \in Int, NEW r \in 0..n-1, NEW s \in 0..n-1,
         n * a + r = n * b + s
  PROVE  r = s
<1>1. CASE a = b
  BY <1>1
<1>2. CASE a < b
  <2>1. b - a >= 1 /\ b - a \in Int
    BY <1>2
  <2>2. n * (b - a) >= n * 1
    BY <2>1
  <2>3. n * (b - a) = n * b - n * a
    OBVIOUS
  <2> QED
    BY <2>2, <2>3
<1>3. CASE a > b
  <2>1. a - b >= 1 /\ a - b \in Int
    BY <1>3
  <2>2. n * (a - b) >= n * 1
    BY <2>1
  <2>3. n * (a - b) = n * a - n * b
    OBVIOUS
  <2> QED
    BY <2>2, <2>3
<1> QED
  BY <1>1, <1>2, <1>3

LEMMA RemainderTwice ==
  ASSUME NEW n \in Nat \ {0}, NEW q \in Nat \ {0}, NEW x \in Nat
  PROVE  (x % (n * q)) % n = x % n
<1> DEFINE m == n * q
           y == x % m
<1>1. m \in Nat \ {0}
  <2>1. n * q >= n * 1
    OBVIOUS
  <2> QED
    BY <2>1
<1>2. x = m * (x \div m) + y /\ y \in Nat /\ x \div m \in Int
  <2> HIDE DEF m
  <2> QED
    BY <1>1
<1>3. /\ y = n * (y \div n) + (y % n) /\ y % n \in 0..n-1 /\ y \div n \in Int
      /\ x = n * (x \div n) + (x % n) /\ x % n \in 0..n-1 /\ x \div n \in Int
  <2>0. \A z \in Nat : z = n * (z \div n) + (z % n) /\ z % n \in 0..n-1 /\ z \div n \in Int
    OBVIOUS
  <2> HIDE DEF y
  <2>1. y = n * (y \div n) + (y % n) /\ y % n \in 0..n-1 /\ y \div n \in Int
    <3>1. y \in Nat
      BY <1>2
    <3> QED
      BY <2>0, <3>1, Zenon
  <2>2. x = n * (x \div n) + (x % n) /\ x % n \in 0..n-1 /\ x \div n \in Int
    OBVIOUS
  <2> QED
    BY <2>1, <2>2
<1>4. x = n * (q * (x \div m) + y \div n) + (y % n)
  <2> DEFINE d == x \div m
             e == y \div n
             z == y % n
  <2>1. x = (n * q) * d + y /\ y = n * e + z /\ d \in Int /\ e \in Int /\ z \in Int
    BY <1>2, <1>3
  <2> HIDE DEF d, e, z, y, m
  <2>2. (n * q) * d = n * (q * d)
    BY <2>1
  <2>3. n * (q * d + e) = n * (q * d) + n * e
    BY <2>1
  <2>4. x = n * (q * d + e) + z
    <3> DEFINE P == n * (q * d)
               R == n * e
    <3>1. P \in Int /\ R \in Int
      BY <2>1
    <3>2. x = P + y /\ y = R + z /\ n * (q * d + e) = P + R
      BY <2>1, <2>2, <2>3
    <3> HIDE DEF P, R
    <3> QED
      BY <2>1, <3>1, <3>2
  <2> QED
    BY <2>4 DEF d, e, z
<1>5. q * (x \div m) + y \div n \in Int
  BY <1>2, <1>3
<1> DEFINE a == q * (x \div m) + y \div n
           b == x \div n
<1>6. n * a + (y % n) = n * b + (x % n) /\ a \in Int /\ b \in Int
  BY <1>3, <1>4, <1>5
<1> HIDE DEF a, b, y
<1>7. y % n = x % n
  BY <1>3, <1>6, OneRemainder
<1> QED
  BY <1>7 DEF y, m

(* The full columns folded into one fold column are folded into one at     *)
(* every higher level.                                                     *)
LEMMA ColumnsFold ==
  ASSUME FullBits \in Nat, NEW x \in Nat, NEW level \in Fold!Level
  PROVE  /\ Fold!foldColOf(level, x) \in Fold!FoldCol(level)
         /\ Fold!foldColOf(level, x) \in Nat
         /\ \A low \in 0..level :
              Fold!foldColOf(level, Fold!foldColOf(low, x)) = Fold!foldColOf(level, x)
<1> DEFINE n == Fold!TwoTo[FullBits - level]
<1>1. FullBits - level \in 0..FullBits /\ level \in 0..FullBits
  BY DEF Fold!Level
<1>2. n \in Nat \ {0}
  BY <1>1, PowersPositive
<1>3. Fold!foldColOf(level, x) = x % n
  BY DEF Fold!foldColOf, Fold!FoldCols
<1>4. x % n \in 0..n-1
  <2> HIDE DEF n
  <2> QED
    BY <1>2
<1>5. ASSUME NEW low \in 0..level
      PROVE  Fold!foldColOf(level, Fold!foldColOf(low, x)) = x % n
  <2> DEFINE m == Fold!TwoTo[FullBits - low]
  <2>1. FullBits - low \in (FullBits - level)..FullBits
    BY <1>1
  <2>2. PICK q \in Nat \ {0} : m = n * q
    BY <1>1, <2>1, PowersDivide
  <2>3. Fold!foldColOf(level, Fold!foldColOf(low, x)) = (x % m) % n
    BY DEF Fold!foldColOf, Fold!FoldCols
  <2> HIDE DEF n, m
  <2> QED
    BY <1>2, <2>2, <2>3, RemainderTwice
<1>6. Fold!FoldCol(level) = 0..n-1
  BY DEF Fold!FoldCol, Fold!FoldCols
<1> HIDE DEF n
<1> QED
  BY <1>2, <1>3, <1>4, <1>5, <1>6

LEMMA ColumnsFinite ==
  ASSUME FullBits \in Nat, NEW level \in Fold!Level
  PROVE  IsFiniteSet(Fold!FoldCol(level)) /\ Fold!FoldCol(level) \subseteq Nat
<1> DEFINE n == Fold!FoldCols(level)
<1>1. n \in Nat
  BY PowersPositive DEF Fold!FoldCols, Fold!Level
<1>2. Fold!FoldCol(level) = 0..n-1
  BY DEF Fold!FoldCol
<1> HIDE DEF n
<1> QED
  BY <1>1, <1>2, FS_Interval

LEMMA FullFinite ==
  ASSUME FullBits \in Nat
  PROVE  IsFiniteSet(Fold!FullCol) /\ Fold!FullCol \subseteq Nat
<1>1. 0 \in Fold!Level
  BY DEF Fold!Level
<1> QED
  BY <1>1, ColumnsFinite DEF Fold!FullCol

-----------------------------------------------------------------------------
(* A row of cells: every entry is in the cell its column is folded into.   *)
RowPlaced(f, level) ==
  /\ DOMAIN f = Fold!FoldCol(level)
  /\ \A c \in Fold!FoldCol(level) : \A x \in DOMAIN f[c] :
       x \in Fold!FullCol /\ Fold!foldColOf(level, x) = c /\ f[c][x] \in Int

Count(f, level, x) == Fold!Query(f[Fold!foldColOf(level, x)], x)

LEMMA CountIsInt ==
  ASSUME FullBits \in Nat, NEW level \in Fold!Level, NEW f, RowPlaced(f, level),
         NEW x \in Fold!FullCol
  PROVE  Count(f, level, x) \in Int /\ Fold!foldColOf(level, x) \in Fold!FoldCol(level)
<1>1. Fold!foldColOf(level, x) \in Fold!FoldCol(level)
  BY FullFinite, ColumnsFold
<1> QED
  BY <1>1 DEF Count, Fold!Query, RowPlaced

(* The sum over the cells' entries is the sum over all columns.            *)
LEMMA RowSum ==
  ASSUME FullBits \in Nat, NEW level \in Fold!Level, NEW f, RowPlaced(f, level)
  PROVE  Fold!SumFunction([c \in DOMAIN f |-> Fold!SumFunction(f[c])])
         = SumFunctionOnSet([x \in Fold!FullCol |-> Count(f, level, x)], Fold!FullCol)
<1> DEFINE C == Fold!FoldCol(level)
           B == Fold!FullCol
           v == [x \in B |-> Count(f, level, x)]
           g == [x \in B |-> Fold!foldColOf(level, x)]
           Over(c) == {x \in B : g[x] = c}
           S == [c \in C |-> Fold!SumFunction(f[c])]
           F == [c \in C |-> SumFunctionOnSet(v, Over(c))]
<1>1. IsFiniteSet(B) /\ IsFiniteSet(C)
  BY FullFinite, ColumnsFinite
<1>2. \A x \in B : v[x] \in Int /\ g[x] \in C
  BY CountIsInt
<1>3. ASSUME NEW c \in C
      PROVE  F[c] \in Int /\ S[c] = F[c]
  <2> DEFINE D == DOMAIN f[c]
  <2>1. \A x \in D : x \in B /\ Fold!foldColOf(level, x) = c /\ f[c][x] \in Int
    BY DEF RowPlaced
  <2>2. \A x \in D : x \in Over(c) /\ v[x] = f[c][x]
    BY <2>1 DEF Count, Fold!Query
  <2>3. \A x \in Over(c) \ D : v[x] = 0
    BY DEF Count, Fold!Query
  <2>4. IsFiniteSet(Over(c)) /\ \A x \in Over(c) : v[x] \in Int
    BY <1>1, <1>2, FS_Subset
  <2>5. D \subseteq Over(c) /\ IsFiniteSet(D)
    BY <2>2, <2>4, FS_Subset
  <2> HIDE DEF Over, v, D
  <2>6. SumFunctionOnSet(v, Over(c)) = SumFunctionOnSet(v, D)
    BY <2>3, <2>4, <2>5, SetSumExtend
  <2>7. SumFunctionOnSet(v, D) = SumFunctionOnSet(f[c], D)
    BY <2>1, <2>2, <2>5, SetSumEq
  <2>8. SumFunctionOnSet(v, Over(c)) \in Int
    BY <2>4, SetSumType
  <2>9. S[c] = SumFunctionOnSet(f[c], D)
    BY FoldSum DEF D
  <2> QED
    BY <2>6, <2>7, <2>8, <2>9
<1>4. SumFunctionOnSet(F, C) = SumFunctionOnSet(v, B)
  <2> HIDE DEF B, C, v, g
  <2> QED
    BY <1>1, <1>2, FiberSum
<1>5. SumFunctionOnSet(S, C) = SumFunctionOnSet(F, C)
  <2> HIDE DEF B, C, v, g, S, F
  <2> QED
    BY <1>1, <1>3, SetSumEq
<1>6. DOMAIN f = C /\ Fold!SumFunction(S) = SumFunctionOnSet(S, C)
  BY FoldSum DEF RowPlaced
<1> QED
  BY <1>4, <1>5, <1>6

(* ... and so is the sum of their squares.                                 *)
LEMMA RowSquares ==
  ASSUME FullBits \in Nat, NEW level \in Fold!Level, NEW f, RowPlaced(f, level)
  PROVE  Fold!RowL2(f)
         = SumFunctionOnSet([x \in Fold!FullCol |-> Count(f, level, x) * Count(f, level, x)],
                            Fold!FullCol)
<1> DEFINE C == Fold!FoldCol(level)
           h == [c \in C |-> [e \in DOMAIN f[c] |-> f[c][e] * f[c][e]]]
<1>1. RowPlaced(h, level)
  BY DEF RowPlaced
<1>2. DOMAIN f = C
  BY DEF RowPlaced
<1>3. \A x \in Fold!FullCol : Count(h, level, x) = Count(f, level, x) * Count(f, level, x)
  <2> SUFFICES ASSUME NEW x \in Fold!FullCol
               PROVE  Count(h, level, x) = Count(f, level, x) * Count(f, level, x)
    OBVIOUS
  <2>1. Fold!foldColOf(level, x) \in C
    BY CountIsInt
  <2> QED
    BY <2>1 DEF Count, Fold!Query
<1>4. Fold!RowL2(f) = Fold!SumFunction([c \in DOMAIN h |-> Fold!SumFunction(h[c])])
  BY <1>2 DEF Fold!RowL2
<1> HIDE DEF h
<1>5. Fold!RowL2(f) = SumFunctionOnSet([x \in Fold!FullCol |-> Count(h, level, x)], Fold!FullCol)
  BY <1>1, <1>4, RowSum
<1>6. [x \in Fold!FullCol |-> Count(h, level, x)]
      = [x \in Fold!FullCol |-> Count(f, level, x) * Count(f, level, x)]
  BY <1>3
<1> QED
  BY <1>5, <1>6

(* What the operations on cells do to the counts of a row.                 *)
LEMMA InsertRow ==
  ASSUME FullBits \in Nat, NEW level \in Fold!Level, NEW f, RowPlaced(f, level),
         NEW col \in Fold!FullCol, NEW d \in Int
  PROVE  LET g == [f EXCEPT ![Fold!foldColOf(level, col)] = Fold!Insert(@, col, d)]
         IN  /\ RowPlaced(g, level)
             /\ \A x \in Fold!FullCol :
                  Count(g, level, x) = Count(f, level, x) + (IF x = col THEN d ELSE 0)
<1> DEFINE at == Fold!foldColOf(level, col)
           new == Fold!Insert(f[at], col, d)
           g == [f EXCEPT ![at] = new]
<1>1. /\ at \in Fold!FoldCol(level) /\ DOMAIN f = Fold!FoldCol(level)
      /\ DOMAIN g = Fold!FoldCol(level)
      /\ g[at] = new /\ \A c \in Fold!FoldCol(level) : c # at => g[c] = f[c]
  BY CountIsInt DEF RowPlaced
<1>2. \A x \in DOMAIN f[at] : /\ x \in Fold!FullCol /\ Fold!foldColOf(level, x) = at
                             /\ f[at][x] \in Int
  BY <1>1 DEF RowPlaced
<1>3. /\ DOMAIN new = DOMAIN f[at] \union {col}
      /\ \A x \in DOMAIN new : new[x] = Fold!Query(f[at], x) + (IF x = col THEN d ELSE 0)
  BY DEF Fold!Insert
<1>4. \A x : Fold!Query(f[at], x) \in Int
  BY <1>2 DEF Fold!Query
<1>5. \A x : Fold!Query(new, x) = Fold!Query(f[at], x) + (IF x = col THEN d ELSE 0)
  <2> SUFFICES ASSUME NEW x
               PROVE  Fold!Query(new, x) = Fold!Query(f[at], x) + (IF x = col THEN d ELSE 0)
    OBVIOUS
  <2> HIDE DEF new
  <2>1. CASE x \in DOMAIN new
    BY <1>3, <2>1 DEF Fold!Query
  <2>2. CASE x \notin DOMAIN new
    BY <1>3, <2>2 DEF Fold!Query
  <2> QED
    BY <2>1, <2>2
<1> HIDE DEF new, g
<1>6. RowPlaced(g, level)
  <2> SUFFICES ASSUME NEW c \in Fold!FoldCol(level), NEW x \in DOMAIN g[c]
               PROVE  /\ x \in Fold!FullCol /\ Fold!foldColOf(level, x) = c
                      /\ g[c][x] \in Int
    BY <1>1 DEF RowPlaced
  <2>1. CASE c # at
    BY <1>1, <2>1 DEF RowPlaced
  <2>2. CASE c = at
    <3>1. x \in DOMAIN f[at] \union {col} /\ g[c][x] \in Int
      BY <1>1, <1>3, <1>4, <2>2
    <3> QED
      BY <1>2, <2>2, <3>1 DEF at
  <2> QED
    BY <2>1, <2>2
<1>7. ASSUME NEW x \in Fold!FullCol
      PROVE  Count(g, level, x) = Count(f, level, x) + (IF x = col THEN d ELSE 0)
  <2>1. Fold!foldColOf(level, x) \in Fold!FoldCol(level) /\ Count(f, level, x) \in Int
    BY CountIsInt
  <2>2. CASE Fold!foldColOf(level, x) = at
    BY <1>1, <1>5, <2>2 DEF Count
  <2>3. CASE Fold!foldColOf(level, x) # at
    <3>1. x # col
      BY <2>3 DEF at
    <3> QED
      BY <1>1, <2>1, <2>3, <3>1 DEF Count
  <2> QED
    BY <2>2, <2>3
<1> QED
  BY <1>6, <1>7 DEF g, new

LEMMA MergedCount ==
  ASSUME NEW a, \A x \in DOMAIN a : a[x] \in Int, NEW b, \A x \in DOMAIN b : b[x] \in Int
  PROVE  LET m == Fold!MergeCell(a, b)
         IN  /\ DOMAIN m = DOMAIN a \union DOMAIN b /\ \A x \in DOMAIN m : m[x] \in Int
             /\ \A x : Fold!Query(m, x) = Fold!Query(a, x) + Fold!Query(b, x)
<1> DEFINE m == Fold!MergeCell(a, b)
<1>1. /\ DOMAIN m = DOMAIN a \union DOMAIN b
      /\ \A x \in DOMAIN m : m[x] = Fold!Query(a, x) + Fold!Query(b, x)
  BY DEF Fold!MergeCell
<1>2. \A x : Fold!Query(a, x) \in Int /\ Fold!Query(b, x) \in Int
  BY DEF Fold!Query
<1> HIDE DEF m
<1>3. ASSUME NEW x
      PROVE  Fold!Query(m, x) = Fold!Query(a, x) + Fold!Query(b, x)
  <2>1. CASE x \in DOMAIN m
    BY <1>1, <2>1 DEF Fold!Query
  <2>2. CASE x \notin DOMAIN m
    BY <1>1, <2>2 DEF Fold!Query
  <2> QED
    BY <2>1, <2>2
<1> QED
  BY <1>1, <1>2, <1>3 DEF m

LEMMA MergeRow ==
  ASSUME FullBits \in Nat, NEW level \in Fold!Level,
         NEW f, RowPlaced(f, level), NEW g, RowPlaced(g, level)
  PROVE  LET h == [c \in Fold!FoldCol(level) |-> Fold!MergeCell(f[c], g[c])]
         IN  /\ RowPlaced(h, level)
             /\ \A x \in Fold!FullCol :
                  Count(h, level, x) = Count(f, level, x) + Count(g, level, x)
<1> DEFINE h == [c \in Fold!FoldCol(level) |-> Fold!MergeCell(f[c], g[c])]
<1>1. ASSUME NEW c \in Fold!FoldCol(level)
      PROVE  /\ \A x \in DOMAIN h[c] : /\ x \in Fold!FullCol /\ Fold!foldColOf(level, x) = c
                                       /\ h[c][x] \in Int
             /\ \A x : Fold!Query(h[c], x) = Fold!Query(f[c], x) + Fold!Query(g[c], x)
  <2> DEFINE a == f[c]
             b == g[c]
  <2>1. /\ \A x \in DOMAIN a : x \in Fold!FullCol /\ Fold!foldColOf(level, x) = c /\ a[x] \in Int
        /\ \A x \in DOMAIN b : x \in Fold!FullCol /\ Fold!foldColOf(level, x) = c /\ b[x] \in Int
        /\ h[c] = Fold!MergeCell(a, b)
    BY DEF RowPlaced
  <2> HIDE DEF a, b, h
  <2>2. /\ DOMAIN h[c] = DOMAIN a \union DOMAIN b /\ \A x \in DOMAIN h[c] : h[c][x] \in Int
        /\ \A x : Fold!Query(h[c], x) = Fold!Query(a, x) + Fold!Query(b, x)
    <3> DEFINE m == Fold!MergeCell(a, b)
    <3>1. (\A x \in DOMAIN a : a[x] \in Int) /\ (\A x \in DOMAIN b : b[x] \in Int)
      BY <2>1
    <3>2. /\ DOMAIN m = DOMAIN a \union DOMAIN b /\ \A x \in DOMAIN m : m[x] \in Int
          /\ \A x : Fold!Query(m, x) = Fold!Query(a, x) + Fold!Query(b, x)
      BY <3>1, MergedCount
    <3>3. h[c] = m
      BY <2>1
    <3> QED
      BY <3>2, <3>3
  <2>3. \A x \in DOMAIN h[c] : /\ x \in Fold!FullCol /\ Fold!foldColOf(level, x) = c
                               /\ h[c][x] \in Int
    BY <2>1, <2>2
  <2> QED
    BY <2>2, <2>3 DEF a, b
<1>2. DOMAIN h = Fold!FoldCol(level)
  OBVIOUS
<1> HIDE DEF h
<1>3. RowPlaced(h, level)
  BY <1>1, <1>2 DEF RowPlaced
<1>4. \A x \in Fold!FullCol : Count(h, level, x) = Count(f, level, x) + Count(g, level, x)
  BY <1>1, CountIsInt DEF Count
<1> QED
  BY <1>3, <1>4 DEF h

LEMMA ScatterRow ==
  ASSUME FullBits \in Nat, NEW level \in Fold!Level, NEW low \in 0..level,
         NEW f, RowPlaced(f, level), NEW g, RowPlaced(g, low)
  PROVE  LET h == [c \in Fold!FoldCol(low) |->
                     LET src == f[Fold!foldColOf(level, c)]
                     IN  Fold!MergeCell(g[c],
                           [e \in {x \in DOMAIN src : Fold!foldColOf(low, x) = c} |-> src[e]])]
         IN  /\ RowPlaced(h, low)
             /\ \A x \in Fold!FullCol :
                  Count(h, low, x) = Count(g, low, x) + Count(f, level, x)
<1> DEFINE Part(c) == LET src == f[Fold!foldColOf(level, c)]
                      IN  [e \in {x \in DOMAIN src : Fold!foldColOf(low, x) = c} |-> src[e]]
           h == [c \in Fold!FoldCol(low) |-> Fold!MergeCell(g[c], Part(c))]
<1>0. low \in Fold!Level
  BY DEF Fold!Level
<1>1. ASSUME NEW c \in Fold!FoldCol(low)
      PROVE  /\ \A x \in DOMAIN h[c] : /\ x \in Fold!FullCol /\ Fold!foldColOf(low, x) = c
                                       /\ h[c][x] \in Int
             /\ \A x : Fold!Query(h[c], x) = Fold!Query(g[c], x) + Fold!Query(Part(c), x)
  <2> DEFINE a == g[c]
             b == Part(c)
             src == f[Fold!foldColOf(level, c)]
  <2>1. c \in Nat
    BY <1>0, ColumnsFinite
  <2>2. Fold!foldColOf(level, c) \in Fold!FoldCol(level)
    BY <2>1, ColumnsFold
  <2>3. \A x \in DOMAIN src : x \in Fold!FullCol /\ src[x] \in Int
    BY <2>2 DEF RowPlaced
  <2>4. \A x \in DOMAIN b : x \in Fold!FullCol /\ Fold!foldColOf(low, x) = c /\ b[x] \in Int
    BY <2>3
  <2>5. \A x \in DOMAIN a : x \in Fold!FullCol /\ Fold!foldColOf(low, x) = c /\ a[x] \in Int
    BY DEF RowPlaced
  <2>6. h[c] = Fold!MergeCell(a, b)
    OBVIOUS
  <2> HIDE DEF a, b, h
  <2>7. /\ DOMAIN h[c] = DOMAIN a \union DOMAIN b /\ \A x \in DOMAIN h[c] : h[c][x] \in Int
        /\ \A x : Fold!Query(h[c], x) = Fold!Query(a, x) + Fold!Query(b, x)
    <3> DEFINE m == Fold!MergeCell(a, b)
    <3>1. (\A x \in DOMAIN a : a[x] \in Int) /\ (\A x \in DOMAIN b : b[x] \in Int)
      BY <2>4, <2>5, <2>6
    <3>2. /\ DOMAIN m = DOMAIN a \union DOMAIN b /\ \A x \in DOMAIN m : m[x] \in Int
          /\ \A x : Fold!Query(m, x) = Fold!Query(a, x) + Fold!Query(b, x)
      BY <3>1, MergedCount
    <3>3. h[c] = m
      BY <2>4, <2>5, <2>6
    <3> QED
      BY <3>2, <3>3
  <2>8. \A x \in DOMAIN h[c] : /\ x \in Fold!FullCol /\ Fold!foldColOf(low, x) = c
                               /\ h[c][x] \in Int
    BY <2>4, <2>5, <2>7
  <2> QED
    BY <2>7, <2>8 DEF a, b
<1>2. DOMAIN h = Fold!FoldCol(low)
  OBVIOUS
<1>3. ASSUME NEW x \in Fold!FullCol
      PROVE  Fold!Query(Part(Fold!foldColOf(low, x)), x) = Count(f, level, x)
  <2>1. Fold!foldColOf(level, Fold!foldColOf(low, x)) = Fold!foldColOf(level, x)
    BY FullFinite, ColumnsFold
  <2> QED
    BY <2>1 DEF Count, Fold!Query
<1> HIDE DEF h, Part
<1>4. RowPlaced(h, low)
  BY <1>1, <1>2 DEF RowPlaced
<1>5. ASSUME NEW x \in Fold!FullCol
      PROVE  Count(h, low, x) = Count(g, low, x) + Count(f, level, x)
  <2>1. Fold!foldColOf(low, x) \in Fold!FoldCol(low)
    BY <1>0, CountIsInt
  <2> QED
    BY <1>1, <1>3, <2>1 DEF Count
<1> QED
  BY <1>4, <1>5 DEF h, Part

-----------------------------------------------------------------------------
(* What a full column was given.                                           *)
SignIn(signed, k, r) == IF signed THEN SignOf[k][r] ELSE 1
Keys(r, x) == {k \in Key : ColOf[k][r] = x}
Signed(signed, h, r) == [k \in Key |-> SignIn(signed, k, r) * h[k]]
Full(signed, h, r, x) == SumFunctionOnSet(Signed(signed, h, r), Keys(r, x))

Weighed == [Key -> Int]

LEMMA FullIsInt ==
  ASSUME Fold!Dimensions, NEW signed \in BOOLEAN, NEW h \in Weighed, NEW r \in Row, NEW x
  PROVE  /\ IsFiniteSet(Keys(r, x)) /\ \A k \in Key : Signed(signed, h, r)[k] \in Int
         /\ Full(signed, h, r, x) \in Int
<1>1. IsFiniteSet(Keys(r, x))
  <2>1. IsFiniteSet(Key) /\ Keys(r, x) \subseteq Key
    BY DEF Fold!Dimensions, Keys, Fold!IsFiniteSet, IsFiniteSet
  <2> QED
    BY <2>1, FS_Subset
<1>2. ASSUME NEW k \in Key
      PROVE  Signed(signed, h, r)[k] \in Int
  <2>1. SignOf[k][r] \in {-1, 1} /\ h[k] \in Int
    BY DEF Fold!Dimensions, Weighed
  <2> QED
    BY <2>1 DEF Signed, SignIn
<1>3. \A k \in Keys(r, x) : Signed(signed, h, r)[k] \in Int
  BY <1>2 DEF Keys
<1> QED
  BY <1>1, <1>2, <1>3, SetSumType DEF Full

LEMMA FullPlus ==
  ASSUME Fold!Dimensions, NEW signed \in BOOLEAN, NEW g \in Weighed, NEW h \in Weighed,
         NEW r \in Row, NEW x
  PROVE  /\ Fold!Add(g, h) \in Weighed
         /\ Full(signed, Fold!Add(g, h), r, x) = Full(signed, g, r, x) + Full(signed, h, r, x)
<1> DEFINE a == Fold!Add(g, h)
           S == Keys(r, x)
           A == Signed(signed, a, r)
           G == Signed(signed, g, r)
           H == Signed(signed, h, r)
<1>1. a \in Weighed /\ \A k \in Key : a[k] = g[k] + h[k]
  BY DEF Fold!Add, Weighed
<1> HIDE DEF a
<1>2. IsFiniteSet(S) /\ (\A k \in Key : G[k] \in Int) /\ (\A k \in Key : H[k] \in Int)
  BY FullIsInt
<1>3. ASSUME NEW k \in Key
      PROVE  A[k] = G[k] + H[k]
  <2>1. SignOf[k][r] \in {-1, 1} /\ g[k] \in Int /\ h[k] \in Int /\ a[k] = g[k] + h[k]
    BY <1>1 DEF Fold!Dimensions, Weighed
  <2> QED
    BY <2>1 DEF Signed, SignIn
<1>4. S \subseteq Key
  BY DEF Keys
<1> HIDE DEF A, G, H, S
<1>5. SumFunctionOnSet(A, S) = SumFunctionOnSet(G, S) + SumFunctionOnSet(H, S)
  <2>1. \A k \in S : G[k] \in Int /\ H[k] \in Int /\ A[k] = G[k] + H[k]
    BY <1>2, <1>3, <1>4
  <2> QED
    BY <1>2, <2>1, SetSumPlus
<1> QED
  BY <1>1, <1>5 DEF Full, A, G, H, S, a

LEMMA FullMore ==
  ASSUME Fold!Dimensions, NEW signed \in BOOLEAN, NEW h \in Weighed, NEW r \in Row, NEW x,
         NEW k \in Key, NEW w \in Int
  PROVE  LET a == [h EXCEPT ![k] = @ + w]
         IN  /\ a \in Weighed
             /\ Full(signed, a, r, x)
                = Full(signed, h, r, x) + (IF x = ColOf[k][r] THEN SignIn(signed, k, r) * w ELSE 0)
<1> DEFINE a == [h EXCEPT ![k] = @ + w]
           S == Keys(r, x)
           A == Signed(signed, a, r)
           H == Signed(signed, h, r)
<1>1. a \in Weighed /\ a[k] = h[k] + w /\ h[k] \in Int /\ \A j \in Key : j # k => a[j] = h[j]
  BY DEF Weighed
<1> HIDE DEF a
<1>2. IsFiniteSet(S) /\ (\A j \in Key : H[j] \in Int) /\ SumFunctionOnSet(H, S) \in Int
  BY FullIsInt DEF Full
<1>3. A[k] = H[k] + SignIn(signed, k, r) * w /\ A[k] \in Int /\ SignIn(signed, k, r) * w \in Int
  <2>1. SignOf[k][r] \in {-1, 1}
    BY DEF Fold!Dimensions
  <2> QED
    BY <1>1, <2>1 DEF Signed, SignIn
<1>4. \A j \in Key : j # k => A[j] = H[j]
  BY <1>1 DEF Signed
<1>5. S \subseteq Key /\ (k \in S <=> x = ColOf[k][r])
  BY DEF Keys
<1> DEFINE more == SignIn(signed, k, r) * w
<1> HIDE DEF A, H, S, more
<1>6. CASE k \in S
  <2>1. SumFunctionOnSet(A, S) = SumFunctionOnSet(H, S) + A[k] - H[k]
    <3>1. (\A j \in S : H[j] \in Int) /\ (\A j \in S : j # k => A[j] = H[j])
      BY <1>2, <1>4, <1>5
    <3> QED
      BY <1>2, <1>3, <1>6, <3>1, SetSumChange
  <2>2. SumFunctionOnSet(A, S) = SumFunctionOnSet(H, S) + more
    BY <1>2, <1>3, <2>1 DEF more
  <2> QED
    BY <1>1, <1>5, <1>6, <2>2 DEF Full, A, H, S, a, more
<1>7. CASE k \notin S
  <2>1. SumFunctionOnSet(A, S) = SumFunctionOnSet(H, S)
    <3>1. (\A j \in S : H[j] \in Int) /\ (\A j \in S : A[j] = H[j])
      BY <1>2, <1>4, <1>5, <1>7
    <3> QED
      BY <1>2, <3>1, SetSumEq
  <2>2. SumFunctionOnSet(A, S) = SumFunctionOnSet(H, S) + 0
    BY <1>2, <2>1
  <2> QED
    BY <1>1, <1>5, <1>7, <2>2 DEF Full, A, H, S, a
<1> QED
  BY <1>6, <1>7

-----------------------------------------------------------------------------
(***************************************************************************)
(* A folded sketch is exact: an entry for a full column holds what the     *)
(* column was given, and the norms are those of the full columns.          *)
(***************************************************************************)
Shape(s) ==
  /\ s = [signed |-> s.signed, level |-> s.level, cells |-> s.cells, L1 |-> s.L1, L2 |-> s.L2]
  /\ s.signed \in BOOLEAN /\ s.level \in Fold!Level
  /\ DOMAIN s.cells = Row /\ \A r \in Row : RowPlaced(s.cells[r], s.level)

(* Such a record with new cells or norms.                                  *)
Fields(g, v, d, p, q) == [signed |-> g, level |-> v, cells |-> d, L1 |-> p, L2 |-> q]
WithCells(s, c) == [s EXCEPT !.cells = c]
WithNorms(s, x, y) == [s EXCEPT !.L1 = x, !.L2 = y]
WithAll(s, c, x, y) == [s EXCEPT !.cells = c, !.L1 = x, !.L2 = y]

LEMMA WithFields ==
  ASSUME NEW g, NEW v, NEW d, NEW p, NEW q, NEW c, NEW x, NEW y
  PROVE  LET s == Fields(g, v, d, p, q)
         IN  /\ WithCells(s, c) = Fields(g, v, c, p, q)
             /\ WithNorms(s, x, y) = Fields(g, v, d, x, y)
             /\ WithAll(s, c, x, y) = Fields(g, v, c, x, y)
<1>1. WithCells(Fields(g, v, d, p, q), c) = Fields(g, v, c, p, q)
  BY DEF Fields, WithCells
<1>2. [Fields(g, v, d, p, q) EXCEPT !.L1 = x] = Fields(g, v, d, x, q)
  BY DEF Fields
<1>3. [Fields(g, v, d, x, q) EXCEPT !.L2 = y] = Fields(g, v, d, x, y)
  BY DEF Fields
<1>4. WithNorms(Fields(g, v, d, p, q), x, y) = Fields(g, v, d, x, y)
  BY <1>2, <1>3 DEF WithNorms
<1>5. WithAll(Fields(g, v, d, p, q), c, x, y) = WithNorms(WithCells(Fields(g, v, d, p, q), c), x, y)
  BY DEF WithAll, WithNorms, WithCells
<1>6. WithNorms(Fields(g, v, c, p, q), x, y) = Fields(g, v, c, x, y)
  <2>2. [Fields(g, v, c, p, q) EXCEPT !.L1 = x] = Fields(g, v, c, x, q)
    BY DEF Fields
  <2>3. [Fields(g, v, c, x, q) EXCEPT !.L2 = y] = Fields(g, v, c, x, y)
    BY DEF Fields
  <2> QED
    BY <2>2, <2>3 DEF WithNorms
<1> QED
  BY <1>1, <1>4, <1>5, <1>6

Holds(s, h) ==
  \A r \in Row, x \in Fold!FullCol : Count(s.cells[r], s.level, x) = Full(s.signed, h, r, x)

Columns(s, h, r) == [x \in Fold!FullCol |-> Full(s.signed, h, r, x)]
Squares(s, h, r) == [x \in Fold!FullCol |-> Full(s.signed, h, r, x) * Full(s.signed, h, r, x)]

Normed(s, h) ==
  /\ DOMAIN s.L1 = Row /\ DOMAIN s.L2 = Row
  /\ \A r \in Row :
       /\ s.L1[r] = IF s.signed THEN 0 ELSE SumFunctionOnSet(Columns(s, h, r), Fold!FullCol)
       /\ s.L2[r] = SumFunctionOnSet(Squares(s, h, r), Fold!FullCol)

Exact(s, h) == Shape(s) /\ Holds(s, h) /\ Normed(s, h)

FoldInv ==
  /\ folded = [n \in Node |-> folded[n]]
  /\ streamed \in [Node -> Weighed]
  /\ \A n \in Node : Exact(folded[n], streamed[n])
  /\ \A n, m \in Node : folded[n].signed = folded[m].signed

(* An empty sketch of any level.                                           *)
LEMMA NewIsExact ==
  ASSUME Fold!Dimensions, NEW signed \in BOOLEAN, NEW level \in Fold!Level
  PROVE  /\ Exact(Fold!NewFold(signed, level), [k \in Key |-> 0])
         /\ Fold!NewFold(signed, level).signed = signed
         /\ Fold!NewFold(signed, level).level = level
         /\ [k \in Key |-> 0] \in Weighed
         /\ \A r \in Row, x \in Fold!FullCol :
              Count(Fold!NewFold(signed, level).cells[r], level, x) = 0
<1> DEFINE s == Fold!NewFold(signed, level)
           h == [k \in Key |-> 0]
<1>0. FullBits \in Nat
  BY DEF Fold!Dimensions
<1>1. s = [signed |-> signed, level |-> level,
           cells |-> [r \in Row |-> [c \in Fold!FoldCol(level) |-> Fold!NoCounts]],
           L1 |-> [r \in Row |-> 0], L2 |-> [r \in Row |-> 0]]
  BY DEF Fold!NewFold
<1>2. DOMAIN Fold!NoCounts = {}
  BY DEF Fold!NoCounts
<1>3. h \in Weighed
  BY DEF Weighed
<1> HIDE DEF s
<1>4. Shape(s)
  BY <1>1, <1>2 DEF Shape, RowPlaced
<1>5. ASSUME NEW r \in Row, NEW x
      PROVE  Full(signed, h, r, x) = 0
  <2>1. IsFiniteSet(Keys(r, x))
    BY <1>3, FullIsInt
  <2>2. ASSUME NEW k \in Keys(r, x)
        PROVE  Signed(signed, h, r)[k] = 0
    <3>1. k \in Key /\ SignOf[k][r] \in {-1, 1} /\ h[k] = 0
      BY DEF Fold!Dimensions, Keys
    <3> QED
      BY <3>1 DEF Signed, SignIn
  <2> QED
    BY <2>1, <2>2, SetSumZeros DEF Full
<1>6. ASSUME NEW r \in Row, NEW x \in Fold!FullCol
      PROVE  Count(s.cells[r], level, x) = 0
  <2>1. Fold!foldColOf(level, x) \in Fold!FoldCol(level)
    BY <1>0, FullFinite, ColumnsFold
  <2>2. s.cells[r][Fold!foldColOf(level, x)] = Fold!NoCounts
    BY <1>1, <2>1
  <2> QED
    BY <1>2, <2>2 DEF Count, Fold!Query
<1>7. Holds(s, h)
  BY <1>1, <1>5, <1>6 DEF Holds
<1>8. ASSUME NEW r \in Row
      PROVE  /\ SumFunctionOnSet(Columns(s, h, r), Fold!FullCol) = 0
             /\ SumFunctionOnSet(Squares(s, h, r), Fold!FullCol) = 0
  <2>1. \A x \in Fold!FullCol : Columns(s, h, r)[x] = 0 /\ Squares(s, h, r)[x] = 0
    BY <1>1, <1>5 DEF Columns, Squares
  <2> QED
    BY <1>0, <2>1, FullFinite, SetSumZeros
<1>9. Normed(s, h)
  BY <1>1, <1>8 DEF Normed
<1> QED
  BY <1>1, <1>3, <1>4, <1>6, <1>7, <1>9 DEF Exact, s

(* recomputeNorms makes a sketch with the right counts exact.              *)
LEMMA Recomputed ==
  ASSUME Fold!Dimensions, NEW s, Shape(s), NEW h \in Weighed, Holds(s, h)
  PROVE  Exact(Fold!recomputeNorms(s), h) /\ Fold!recomputeNorms(s).signed = s.signed
<1> DEFINE t == Fold!recomputeNorms(s)
<1>0. FullBits \in Nat /\ s.level \in Fold!Level /\ s.signed \in BOOLEAN
  BY DEF Fold!Dimensions, Shape
<1>1. t = [signed |-> s.signed, level |-> s.level, cells |-> s.cells,
           L1 |-> [r \in Row |-> IF s.signed THEN 0 ELSE Fold!RowL1(s.cells[r])],
           L2 |-> [r \in Row |-> Fold!RowL2(s.cells[r])]]
  <2> DEFINE x == [r \in Row |-> IF s.signed THEN 0 ELSE Fold!RowL1(s.cells[r])]
             y == [r \in Row |-> Fold!RowL2(s.cells[r])]
  <2>1. t = WithNorms(s, x, y)
    BY DEF Fold!recomputeNorms, WithNorms
  <2>2. s = Fields(s.signed, s.level, s.cells, s.L1, s.L2)
    BY DEF Shape, Fields
  <2> HIDE DEF t, x, y
  <2>3. WithNorms(s, x, y) = Fields(s.signed, s.level, s.cells, x, y)
    BY <2>2, WithFields
  <2> QED
    BY <2>1, <2>3 DEF x, y, Fields
<1> HIDE DEF t
<1>2. Shape(t)
  BY <1>1 DEF Shape
<1>3. Holds(t, h)
  BY <1>1 DEF Holds
<1>4. ASSUME NEW r \in Row
      PROVE  /\ Fold!RowL1(s.cells[r]) = SumFunctionOnSet(Columns(t, h, r), Fold!FullCol)
             /\ Fold!RowL2(s.cells[r]) = SumFunctionOnSet(Squares(t, h, r), Fold!FullCol)
  <2> DEFINE f == s.cells[r]
  <2>1. RowPlaced(f, s.level)
    BY DEF Shape
  <2>2. \A x \in Fold!FullCol : Count(f, s.level, x) = Full(t.signed, h, r, x)
    BY <1>1 DEF Holds
  <2>3. /\ [x \in Fold!FullCol |-> Count(f, s.level, x)] = Columns(t, h, r)
        /\ [x \in Fold!FullCol |-> Count(f, s.level, x) * Count(f, s.level, x)]
           = Squares(t, h, r)
    BY <2>2 DEF Columns, Squares
  <2> HIDE DEF f
  <2>4. Fold!RowL1(f) = SumFunctionOnSet([x \in Fold!FullCol |-> Count(f, s.level, x)],
                                         Fold!FullCol)
    BY <1>0, <2>1, RowSum DEF Fold!RowL1
  <2>5. Fold!RowL2(f) = SumFunctionOnSet([x \in Fold!FullCol |->
                           Count(f, s.level, x) * Count(f, s.level, x)], Fold!FullCol)
    BY <1>0, <2>1, RowSquares
  <2> QED
    BY <2>3, <2>4, <2>5 DEF f
<1>5. Normed(t, h)
  BY <1>1, <1>4 DEF Normed
<1> QED
  BY <1>1, <1>2, <1>3, <1>5 DEF Exact, t

(* An update keeps the norms up to date itself.                            *)
LEMMA InsertExact ==
  ASSUME Fold!Dimensions, NEW s, NEW h \in Weighed, Exact(s, h), NEW k \in Key, NEW many \in Int
  PROVE  /\ Exact(Fold!insertHashed(s, k, many), [h EXCEPT ![k] = @ + many])
         /\ Fold!insertHashed(s, k, many).signed = s.signed
         /\ [h EXCEPT ![k] = @ + many] \in Weighed
<1> DEFINE t == Fold!insertHashed(s, k, many)
           a == [h EXCEPT ![k] = @ + many]
           level == s.level
           col(r) == ColOf[k][r]
           at(r) == Fold!foldColOf(level, col(r))
           d(r) == SignIn(s.signed, k, r) * many
           prior(r) == Count(s.cells[r], level, col(r))
           Row1(r) == [s.cells[r] EXCEPT ![at(r)] = Fold!Insert(@, col(r), d(r))]
<1>0. FullBits \in Nat /\ level \in Fold!Level /\ s.signed \in BOOLEAN /\ Shape(s)
  BY DEF Fold!Dimensions, Shape, Exact
<1>1. \A r \in Row : /\ col(r) \in Fold!FullCol /\ SignOf[k][r] \in {-1, 1}
                     /\ d(r) \in Int /\ (~ s.signed => d(r) = many)
  <2> SUFFICES ASSUME NEW r \in Row
               PROVE  /\ col(r) \in Fold!FullCol /\ SignOf[k][r] \in {-1, 1}
                      /\ d(r) \in Int /\ (~ s.signed => d(r) = many)
    OBVIOUS
  <2>1. col(r) \in Fold!FullCol /\ SignOf[k][r] \in {-1, 1}
    BY DEF Fold!Dimensions
  <2> QED
    BY <2>1 DEF SignIn
<1>2. t = [signed |-> s.signed, level |-> level, cells |-> [r \in Row |-> Row1(r)],
           L1 |-> [r \in Row |-> s.L1[r] + (IF s.signed THEN 0 ELSE many)],
           L2 |-> [r \in Row |-> s.L2[r] + (prior(r) + d(r)) * (prior(r) + d(r))
                                  - prior(r) * prior(r)]]
  <2> DEFINE c == [r \in Row |-> Row1(r)]
             x == [r \in Row |-> s.L1[r] + (IF s.signed THEN 0 ELSE many)]
             y == [r \in Row |-> s.L2[r] + (prior(r) + d(r)) * (prior(r) + d(r))
                                    - prior(r) * prior(r)]
  <2>1. t = WithAll(s, c, x, y)
    BY DEF Fold!insertHashed, SignIn, Fold!Sign, Count, WithAll
  <2>2. s = Fields(s.signed, s.level, s.cells, s.L1, s.L2)
    BY <1>0 DEF Shape, Fields
  <2> HIDE DEF t, c, x, y
  <2>3. WithAll(s, c, x, y) = Fields(s.signed, s.level, c, x, y)
    BY <2>2, WithFields
  <2> QED
    BY <2>1, <2>3 DEF c, x, y, Fields
<1> HIDE DEF t
<1>3. ASSUME NEW r \in Row
      PROVE  /\ RowPlaced(Row1(r), level)
             /\ \A x \in Fold!FullCol : Count(Row1(r), level, x) =
                  Count(s.cells[r], level, x) + (IF x = col(r) THEN d(r) ELSE 0)
  <2>1. RowPlaced(s.cells[r], level)
    BY <1>0 DEF Shape
  <2> HIDE DEF col, d, level
  <2> QED
    BY <1>0, <1>1, <2>1, InsertRow
<1>4. a \in Weighed /\ \A r \in Row, x \in Fold!FullCol :
        Full(s.signed, a, r, x) = Full(s.signed, h, r, x) + (IF x = col(r) THEN d(r) ELSE 0)
  <2>1. a \in Weighed
    BY DEF Weighed
  <2>2. ASSUME NEW r \in Row, NEW x \in Fold!FullCol
        PROVE  Full(s.signed, a, r, x)
               = Full(s.signed, h, r, x) + (IF x = col(r) THEN d(r) ELSE 0)
    BY <1>0, FullMore
  <2> QED
    BY <2>1, <2>2
<1> HIDE DEF a, Row1
<1>5. Shape(t)
  BY <1>0, <1>2, <1>3 DEF Shape
<1>6. Holds(t, a)
  <2> SUFFICES ASSUME NEW r \in Row, NEW x \in Fold!FullCol
               PROVE  Count(t.cells[r], t.level, x) = Full(t.signed, a, r, x)
    BY DEF Holds
  <2>1. Count(s.cells[r], level, x) = Full(s.signed, h, r, x)
    BY DEF Exact, Holds
  <2>2. t.cells[r] = Row1(r) /\ t.level = level /\ t.signed = s.signed
    BY <1>2
  <2> QED
    BY <1>3, <1>4, <2>1, <2>2
<1>7. ASSUME NEW r \in Row
      PROVE  /\ t.L1[r] = IF t.signed THEN 0 ELSE SumFunctionOnSet(Columns(t, a, r), Fold!FullCol)
             /\ t.L2[r] = SumFunctionOnSet(Squares(t, a, r), Fold!FullCol)
  <2> DEFINE C == Columns(s, h, r)
             D == Columns(t, a, r)
             P == Squares(s, h, r)
             Q == Squares(t, a, r)
             x == col(r)
             p == prior(r)
             e == d(r)
  <2>1. IsFiniteSet(Fold!FullCol) /\ x \in Fold!FullCol /\ e \in Int
    BY <1>0, <1>1, FullFinite
  <2>2. \A y \in Fold!FullCol : Full(s.signed, h, r, y) \in Int
    BY <1>0, FullIsInt
  <2>3. p \in Int /\ p = Full(s.signed, h, r, x) /\ t.signed = s.signed
    BY <1>2, <2>1, <2>2 DEF Exact, Holds
  <2>4. Full(s.signed, a, r, x) = p + e /\ \A y \in Fold!FullCol : y # x =>
          Full(s.signed, a, r, y) = Full(s.signed, h, r, y)
    BY <1>4, <2>1, <2>2, <2>3
  <2>5. \A y \in Fold!FullCol : /\ C[y] \in Int /\ (y # x => D[y] = C[y])
                               /\ P[y] \in Int /\ (y # x => Q[y] = P[y])
    <3> SUFFICES ASSUME NEW y \in Fold!FullCol
                 PROVE  /\ C[y] \in Int /\ (y # x => D[y] = C[y])
                        /\ P[y] \in Int /\ (y # x => Q[y] = P[y])
      OBVIOUS
    <3>1. Full(s.signed, h, r, y) \in Int
      BY <2>2
    <3> QED
      BY <2>3, <2>4, <3>1 DEF Columns, Squares
  <2>6. C[x] = p /\ D[x] = p + e /\ P[x] = p * p /\ Q[x] = (p + e) * (p + e)
    BY <2>1, <2>3, <2>4 DEF Columns, Squares
  <2> HIDE DEF C, D, P, Q, x, p, e
  <2>7. /\ SumFunctionOnSet(D, Fold!FullCol) = SumFunctionOnSet(C, Fold!FullCol) + D[x] - C[x]
        /\ SumFunctionOnSet(C, Fold!FullCol) \in Int
    <3>1. D[x] \in Int /\ \A y \in Fold!FullCol : C[y] \in Int
      BY <2>1, <2>3, <2>5, <2>6
    <3> QED
      BY <2>1, <2>5, <3>1, SetSumChange, SetSumType
  <2>8. SumFunctionOnSet(Q, Fold!FullCol) = SumFunctionOnSet(P, Fold!FullCol) + Q[x] - P[x]
    <3>1. Q[x] \in Int /\ \A y \in Fold!FullCol : P[y] \in Int
      BY <2>1, <2>3, <2>5, <2>6
    <3> QED
      BY <2>1, <2>5, <3>1, SetSumChange
  <2>9. /\ t.L1[r] = s.L1[r] + (IF s.signed THEN 0 ELSE many)
        /\ t.L2[r] = s.L2[r] + (p + e) * (p + e) - p * p
    BY <1>2 DEF p, e
  <2>10. /\ s.L1[r] = IF s.signed THEN 0 ELSE SumFunctionOnSet(C, Fold!FullCol)
         /\ s.L2[r] = SumFunctionOnSet(P, Fold!FullCol)
    BY DEF Exact, Normed, C, P
  <2>11. ~ s.signed => e = many
    BY <1>1 DEF e
  <2>12. t.L1[r] = IF t.signed THEN 0 ELSE SumFunctionOnSet(D, Fold!FullCol)
    BY <1>0, <2>1, <2>3, <2>6, <2>7, <2>9, <2>10, <2>11
  <2>13. t.L2[r] = SumFunctionOnSet(Q, Fold!FullCol)
    BY <2>6, <2>8, <2>9, <2>10
  <2> QED
    BY <2>12, <2>13 DEF D, Q
<1>8. Normed(t, a)
  BY <1>2, <1>7 DEF Normed
<1> QED
  BY <1>2, <1>4, <1>5, <1>6, <1>8 DEF Exact, t, a

(* Adding the cells of a sketch of the same level.                         *)
LEMMA MergeExact ==
  ASSUME Fold!Dimensions, NEW s, NEW g \in Weighed, Exact(s, g),
         NEW o, NEW h \in Weighed, Exact(o, h), s.level = o.level, s.signed = o.signed
  PROVE  LET t == Fold!recomputeNorms(Fold!MergeCells(s, o))
         IN  Exact(t, Fold!Add(g, h)) /\ t.signed = s.signed /\ Fold!Add(g, h) \in Weighed
<1> DEFINE m == Fold!MergeCells(s, o)
           level == s.level
           Row1(r) == [c \in Fold!FoldCol(level) |-> Fold!MergeCell(s.cells[r][c], o.cells[r][c])]
<1>0. FullBits \in Nat /\ level \in Fold!Level /\ s.signed \in BOOLEAN /\ Shape(s) /\ Shape(o)
  BY DEF Fold!Dimensions, Shape, Exact
<1>1. m = [signed |-> s.signed, level |-> level, cells |-> [r \in Row |-> Row1(r)],
           L1 |-> s.L1, L2 |-> s.L2]
  BY <1>0 DEF Fold!MergeCells, Shape
<1>2. ASSUME NEW r \in Row
      PROVE  /\ RowPlaced(Row1(r), level)
             /\ \A x \in Fold!FullCol : Count(Row1(r), level, x) =
                  Count(s.cells[r], level, x) + Count(o.cells[r], level, x)
  <2>1. RowPlaced(s.cells[r], level) /\ RowPlaced(o.cells[r], level)
    BY <1>0 DEF Shape
  <2> HIDE DEF level
  <2> QED
    BY <1>0, <2>1, MergeRow
<1>3. Fold!Add(g, h) \in Weighed /\ \A r \in Row, x \in Fold!FullCol :
        Full(s.signed, Fold!Add(g, h), r, x) = Full(s.signed, g, r, x) + Full(s.signed, h, r, x)
  <2>1. Fold!Add(g, h) \in Weighed
    BY DEF Fold!Add, Weighed
  <2> QED
    BY <1>0, <2>1, FullPlus
<1> HIDE DEF m, Row1
<1>4. Shape(m)
  BY <1>0, <1>1, <1>2 DEF Shape
<1>5. Holds(m, Fold!Add(g, h))
  <2> SUFFICES ASSUME NEW r \in Row, NEW x \in Fold!FullCol
               PROVE  Count(m.cells[r], m.level, x) = Full(m.signed, Fold!Add(g, h), r, x)
    BY DEF Holds
  <2>1. /\ Count(s.cells[r], level, x) = Full(s.signed, g, r, x)
        /\ Count(o.cells[r], level, x) = Full(s.signed, h, r, x)
    BY DEF Exact, Holds
  <2>2. m.cells[r] = Row1(r) /\ m.level = level /\ m.signed = s.signed
    BY <1>1
  <2> QED
    BY <1>2, <1>3, <2>1, <2>2
<1>6. m.signed = s.signed
  BY <1>1
<1> QED
  BY <1>3, <1>4, <1>5, <1>6, Recomputed DEF m

(* Scattering the entries of s over t, of a lower level or the same.       *)
LEMMA ScatterAdds ==
  ASSUME Fold!Dimensions, NEW s, Shape(s), NEW t, Shape(t), t.level <= s.level
  PROVE  LET u == Fold!scatterInto(s, t)
         IN  /\ Shape(u) /\ u.level = t.level /\ u.signed = t.signed
             /\ \A r \in Row, x \in Fold!FullCol : Count(u.cells[r], u.level, x) =
                  Count(t.cells[r], t.level, x) + Count(s.cells[r], s.level, x)
<1> DEFINE u == Fold!scatterInto(s, t)
           high == s.level
           low == t.level
           Row1(r) == [c \in Fold!FoldCol(low) |->
             LET src == s.cells[r][Fold!foldColOf(high, c)]
             IN  Fold!MergeCell(t.cells[r][c],
                   [e \in {x \in DOMAIN src : Fold!foldColOf(low, x) = c} |-> src[e]])]
<1>0. FullBits \in Nat /\ high \in Fold!Level /\ low \in Fold!Level /\ low \in 0..high
  BY DEF Fold!Dimensions, Shape, Fold!Level
<1>1. u = [signed |-> t.signed, level |-> low, cells |-> [r \in Row |-> Row1(r)],
           L1 |-> t.L1, L2 |-> t.L2]
  <2> DEFINE c == [r \in Row |-> Row1(r)]
  <2>1. u = WithCells(t, c)
    BY DEF Fold!scatterInto, WithCells
  <2>2. t = Fields(t.signed, t.level, t.cells, t.L1, t.L2)
    BY DEF Shape, Fields
  <2> HIDE DEF u, c
  <2>3. WithCells(t, c) = Fields(t.signed, t.level, c, t.L1, t.L2)
    BY <2>2, WithFields
  <2> QED
    BY <2>1, <2>3 DEF c, Fields
<1>2. ASSUME NEW r \in Row
      PROVE  /\ RowPlaced(Row1(r), low)
             /\ \A x \in Fold!FullCol : Count(Row1(r), low, x) =
                  Count(t.cells[r], low, x) + Count(s.cells[r], high, x)
  <2>1. RowPlaced(s.cells[r], high) /\ RowPlaced(t.cells[r], low)
    BY DEF Shape
  <2> HIDE DEF low, high
  <2> QED
    BY <1>0, <2>1, ScatterRow
<1> HIDE DEF u, Row1
<1>3. Shape(u)
  BY <1>0, <1>1, <1>2 DEF Shape
<1>4. \A r \in Row : u.cells[r] = Row1(r) /\ u.level = low /\ u.signed = t.signed
  BY <1>1
<1>5. u.level = low /\ u.signed = t.signed
  BY <1>1
<1> QED
  BY <1>2, <1>3, <1>4, <1>5 DEF u

(* Unfolding, of one sketch and of two into one.                           *)
LEMMA UnfoldExact ==
  ASSUME Fold!Dimensions, NEW s, NEW g \in Weighed, Exact(s, g),
         NEW level \in Fold!Level, level <= s.level
  PROVE  LET u == Fold!scatterInto(s, Fold!NewFold(s.signed, level))
         IN  /\ Shape(u) /\ u.level = level /\ u.signed = s.signed /\ Holds(u, g)
             /\ Exact(Fold!recomputeNorms(u), g) /\ Fold!recomputeNorms(u).signed = s.signed
<1> DEFINE t == Fold!NewFold(s.signed, level)
           u == Fold!scatterInto(s, t)
<1>0. Shape(s) /\ Holds(s, g) /\ s.signed \in BOOLEAN
  BY DEF Exact, Shape
<1>1. /\ Shape(t) /\ t.signed = s.signed /\ t.level = level
      /\ \A r \in Row, x \in Fold!FullCol : Count(t.cells[r], level, x) = 0
  BY <1>0, NewIsExact DEF Exact
<1> HIDE DEF t
<1>2. /\ Shape(u) /\ u.level = level /\ u.signed = s.signed
      /\ \A r \in Row, x \in Fold!FullCol : Count(u.cells[r], u.level, x) =
           Count(t.cells[r], t.level, x) + Count(s.cells[r], s.level, x)
  BY <1>0, <1>1, ScatterAdds
<1> HIDE DEF u
<1>3. Holds(u, g)
  <2> SUFFICES ASSUME NEW r \in Row, NEW x \in Fold!FullCol
               PROVE  Count(u.cells[r], u.level, x) = Full(u.signed, g, r, x)
    BY DEF Holds
  <2>1. Count(s.cells[r], s.level, x) = Full(s.signed, g, r, x) /\ Full(s.signed, g, r, x) \in Int
    BY <1>0, FullIsInt DEF Holds
  <2>2. Count(u.cells[r], u.level, x) = 0 + Count(s.cells[r], s.level, x)
    BY <1>1, <1>2
  <2> QED
    BY <1>2, <2>1, <2>2
<1> QED
  BY <1>2, <1>3, Recomputed DEF u, t

LEMMA UnfoldedExact ==
  ASSUME Fold!Dimensions, NEW s, NEW g \in Weighed, Exact(s, g),
         NEW o, NEW h \in Weighed, Exact(o, h), s.signed = o.signed,
         NEW level \in Fold!Level, level <= s.level, level <= o.level
  PROVE  LET t == Fold!Unfolded(s, o, level)
         IN  Exact(t, Fold!Add(g, h)) /\ t.signed = s.signed /\ Fold!Add(g, h) \in Weighed
<1> DEFINE u == Fold!scatterInto(s, Fold!NewFold(s.signed, level))
           v == Fold!scatterInto(o, u)
           a == Fold!Add(g, h)
<1>0. Shape(o) /\ Holds(o, h) /\ s.signed \in BOOLEAN
  BY DEF Exact, Shape
<1>1. Shape(u) /\ u.level = level /\ u.signed = s.signed /\ Holds(u, g)
  BY UnfoldExact
<1> HIDE DEF u
<1>2. /\ Shape(v) /\ v.level = level /\ v.signed = s.signed
      /\ \A r \in Row, x \in Fold!FullCol : Count(v.cells[r], v.level, x) =
           Count(u.cells[r], u.level, x) + Count(o.cells[r], o.level, x)
  BY <1>0, <1>1, ScatterAdds
<1> HIDE DEF v
<1>3. a \in Weighed /\ \A r \in Row, x \in Fold!FullCol :
        Full(s.signed, a, r, x) = Full(s.signed, g, r, x) + Full(s.signed, h, r, x)
  <2>1. a \in Weighed
    BY DEF Fold!Add, Weighed
  <2> QED
    BY <1>0, <2>1, FullPlus
<1>4. Holds(v, a)
  <2> SUFFICES ASSUME NEW r \in Row, NEW x \in Fold!FullCol
               PROVE  Count(v.cells[r], v.level, x) = Full(v.signed, a, r, x)
    BY DEF Holds
  <2>1. /\ Count(u.cells[r], u.level, x) = Full(s.signed, g, r, x)
        /\ Count(o.cells[r], o.level, x) = Full(s.signed, h, r, x)
    BY <1>0, <1>1 DEF Holds
  <2> HIDE DEF a
  <2> QED
    BY <1>2, <1>3, <2>1
<1>5. Fold!Unfolded(s, o, level) = Fold!recomputeNorms(v)
  BY DEF Fold!Unfolded, v, u
<1> HIDE DEF a
<1>6. Exact(Fold!recomputeNorms(v), a) /\ Fold!recomputeNorms(v).signed = s.signed
  BY <1>2, <1>3, <1>4, Recomputed
<1> QED
  BY <1>3, <1>5, <1>6 DEF a

-----------------------------------------------------------------------------
(* One node's sketch and its history replaced.                             *)
LEMMA AtOneNode ==
  ASSUME FoldInv, NEW n \in Node, NEW s, NEW h \in Weighed, Exact(s, h),
         s.signed = folded[n].signed,
         folded' = [folded EXCEPT ![n] = s], streamed' = [streamed EXCEPT ![n] = h]
  PROVE  FoldInv'
<1>1. DOMAIN folded = Node /\ folded' = [m \in Node |-> IF m = n THEN s ELSE folded[m]]
  BY DEF FoldInv
<1>2. folded' = [m \in Node |-> folded'[m]]
  BY <1>1
<1>3. /\ folded'[n] = s /\ \A m \in Node : m # n => folded'[m] = folded[m]
      /\ streamed'[n] = h /\ \A m \in Node : m # n => streamed'[m] = streamed[m]
      /\ streamed' \in [Node -> Weighed]
  BY <1>1 DEF FoldInv
<1>4. \A m \in Node : Exact(folded'[m], streamed'[m]) /\ folded'[m].signed = folded[m].signed
  BY <1>3 DEF FoldInv
<1> QED
  BY <1>2, <1>3, <1>4 DEF FoldInv

LEMMA FoldInit ==
  ASSUME Fold!Dimensions, Fold!Init
  PROVE  FoldInv
<1> DEFINE h == [k \in Key |-> 0]
<1>1. PICK signed \in BOOLEAN : folded = [n \in Node |-> Fold!NewFold(signed, FullBits)]
  BY DEF Fold!Init
<1> DEFINE s == Fold!NewFold(signed, FullBits)
<1>2. FullBits \in Fold!Level
  BY DEF Fold!Level, Fold!Dimensions
<1>3. Exact(s, h) /\ h \in Weighed
  BY <1>2, NewIsExact
<1>4. streamed = [n \in Node |-> h]
  BY DEF Fold!Init
<1> HIDE DEF s, h
<1>5. folded = [n \in Node |-> s]
  BY <1>1 DEF s
<1> QED
  BY <1>3, <1>4, <1>5 DEF FoldInv

LEMMA FoldNext ==
  ASSUME Fold!Dimensions, FoldInv, [Fold!Next]_(Fold!vars)
  PROVE  FoldInv'
<1>0. /\ FullBits \in Nat /\ Weights \subseteq Int /\ DOMAIN folded = Node
      /\ \A n \in Node : /\ Exact(folded[n], streamed[n]) /\ streamed[n] \in Weighed
                         /\ folded[n].signed \in BOOLEAN /\ folded[n].level \in Fold!Level
      /\ \A n, m \in Node : folded[n].signed = folded[m].signed
  BY DEF Fold!Dimensions, FoldInv, Exact, Shape
<1>1. ASSUME NEW n \in Node, NEW k \in Key, NEW many \in Int, Fold!InsertMany(n, k, many)
      PROVE  FoldInv'
  <2> DEFINE s == Fold!insertHashed(folded[n], k, many)
             h == [streamed[n] EXCEPT ![k] = @ + many]
  <2>1. Exact(s, h) /\ s.signed = folded[n].signed /\ h \in Weighed
    BY <1>0, InsertExact
  <2>2. folded' = [folded EXCEPT ![n] = s] /\ streamed' = [streamed EXCEPT ![n] = h]
    BY <1>1 DEF Fold!InsertMany
  <2> HIDE DEF s, h
  <2> QED
    BY <2>1, <2>2, AtOneNode
<1>2. ASSUME NEW n \in Node, NEW m \in Node, Fold!MergeSameLevel(n, m)
      PROVE  FoldInv'
  <2> DEFINE s == Fold!recomputeNorms(Fold!MergeCells(folded[n], folded[m]))
             h == Fold!Add(streamed[n], streamed[m])
  <2>1. folded[n].level = folded[m].level
    BY <1>2 DEF Fold!MergeSameLevel
  <2>2. Exact(s, h) /\ s.signed = folded[n].signed /\ h \in Weighed
    BY <1>0, <2>1, MergeExact
  <2>3. folded' = [folded EXCEPT ![n] = s] /\ streamed' = [streamed EXCEPT ![n] = h]
    BY <1>2 DEF Fold!MergeSameLevel
  <2> HIDE DEF s, h
  <2> QED
    BY <2>2, <2>3, AtOneNode
<1>3. ASSUME NEW n \in Node, NEW l \in Fold!Level, Fold!UnfoldTo(n, l)
      PROVE  FoldInv'
  <2> DEFINE u == Fold!scatterInto(folded[n], Fold!NewFold(folded[n].signed, l))
             s == Fold!recomputeNorms(u)
  <2>1. l <= folded[n].level
    BY <1>0, <1>3 DEF Fold!UnfoldTo, Fold!Level
  <2>2. Exact(s, streamed[n]) /\ s.signed = folded[n].signed
    BY <1>0, <2>1, UnfoldExact
  <2>3. folded' = [folded EXCEPT ![n] = s] /\ streamed' = [streamed EXCEPT ![n] = streamed[n]]
    BY <1>3 DEF Fold!UnfoldTo, FoldInv
  <2> HIDE DEF s
  <2> QED
    BY <1>0, <2>2, <2>3, AtOneNode
<1>4. ASSUME NEW n \in Node, NEW m \in Node, NEW l \in Fold!Level,
             l <= folded[n].level, l <= folded[m].level,
             folded' = [folded EXCEPT ![n] = Fold!Unfolded(folded[n], folded[m], l)],
             streamed' = [streamed EXCEPT ![n] = Fold!Add(streamed[n], streamed[m])]
      PROVE  FoldInv'
  <2> DEFINE s == Fold!Unfolded(folded[n], folded[m], l)
             h == Fold!Add(streamed[n], streamed[m])
  <2>1. Exact(s, h) /\ s.signed = folded[n].signed /\ h \in Weighed
    BY <1>0, <1>4, UnfoldedExact
  <2>2. folded' = [folded EXCEPT ![n] = s] /\ streamed' = [streamed EXCEPT ![n] = h]
    BY <1>4
  <2> HIDE DEF s, h
  <2> QED
    BY <2>1, <2>2, AtOneNode
<1>5. ASSUME NEW n \in Node, NEW m \in Node, Fold!UnfoldMerge(n, m)
      PROVE  FoldInv'
  <2> DEFINE l == folded[n].level - 1
  <2>1. /\ folded[n].level = folded[m].level /\ l \in Fold!Level
        /\ l <= folded[n].level /\ l <= folded[m].level
    BY <1>0, <1>5 DEF Fold!UnfoldMerge, Fold!Level
  <2>2. /\ folded' = [folded EXCEPT ![n] = Fold!Unfolded(folded[n], folded[m], l)]
        /\ streamed' = [streamed EXCEPT ![n] = Fold!Add(streamed[n], streamed[m])]
    BY <1>5 DEF Fold!UnfoldMerge
  <2> HIDE DEF l
  <2> QED
    BY <1>4, <2>1, <2>2
<1>6. ASSUME NEW n \in Node, NEW m \in Node, Fold!HierarchicalMerge(n, m)
      PROVE  FoldInv'
  <2>1. 0 \in Fold!Level /\ 0 <= folded[n].level /\ 0 <= folded[m].level
    BY <1>0 DEF Fold!Level
  <2>2. /\ folded' = [folded EXCEPT ![n] = Fold!Unfolded(folded[n], folded[m], 0)]
        /\ streamed' = [streamed EXCEPT ![n] = Fold!Add(streamed[n], streamed[m])]
    BY <1>6 DEF Fold!HierarchicalMerge
  <2> QED
    BY <1>4, <2>1, <2>2
<1>7. ASSUME NEW n \in Node, Fold!Reset(n)
      PROVE  FoldInv'
  <2> DEFINE s == Fold!NewFold(folded[n].signed, folded[n].level)
             h == [k \in Key |-> 0]
  <2>1. Exact(s, h) /\ s.signed = folded[n].signed /\ h \in Weighed
    BY <1>0, NewIsExact
  <2>2. folded' = [folded EXCEPT ![n] = s] /\ streamed' = [streamed EXCEPT ![n] = h]
    BY <1>7 DEF Fold!Reset
  <2> HIDE DEF s, h
  <2> QED
    BY <2>1, <2>2, AtOneNode
<1>8. ASSUME NEW n \in Node, Fold!Restart(n)
      PROVE  FoldInv'
  <2> DEFINE s == folded[n]
  <2>1. /\ s.level \in Fold!Level /\ \A r \in Row : DOMAIN s.cells[r] = Fold!FoldCol(s.level)
        /\ DOMAIN s.cells = Row /\ DOMAIN s.L1 = Row /\ DOMAIN s.L2 = Row
    BY <1>0 DEF Exact, Shape, Normed, RowPlaced
  <2>2. Fold!rehydrate(s) = {s}
    BY <2>1 DEF Fold!rehydrate
  <2>3. (CHOOSE x \in {s} : TRUE) = s
    OBVIOUS
  <2>4. folded' = [folded EXCEPT ![n] = s] /\ streamed' = [streamed EXCEPT ![n] = streamed[n]]
    BY <1>8, <2>2, <2>3 DEF Fold!Restart, FoldInv
  <2> HIDE DEF s
  <2> QED
    BY <1>0, <2>4, AtOneNode DEF s
<1>9. CASE UNCHANGED Fold!vars
  BY <1>9 DEF FoldInv, Fold!vars
<1>10. CASE Fold!Next
  <2>1. ASSUME NEW n \in Node, NEW k \in Key, Fold!Update(n, k)
        PROVE  FoldInv'
    BY <1>1, <2>1 DEF Fold!Update
  <2>2. ASSUME NEW n \in Node, NEW k \in Key, NEW many \in Weights, Fold!UpdateWeight(n, k, many)
        PROVE  FoldInv'
    BY <1>0, <1>1, <2>2 DEF Fold!UpdateWeight
  <2> QED
    BY <1>2, <1>3, <1>5, <1>6, <1>7, <1>8, <1>10, <2>1, <2>2 DEF Fold!Next
<1> QED
  BY <1>9, <1>10

-----------------------------------------------------------------------------
(* What the queries read of an exact sketch.                               *)
LEMMA FlatRow ==
  ASSUME FullBits \in Nat, NEW level \in Fold!Level, NEW f, RowPlaced(f, level),
         NEW col \in Fold!FullCol
  PROVE  Fold!SumFunction([c \in Fold!FoldCol(level) |-> Fold!Query(f[c], col)])
         = Count(f, level, col)
<1> DEFINE C == Fold!FoldCol(level)
           q == [c \in C |-> Fold!Query(f[c], col)]
           at == Fold!foldColOf(level, col)
<1>1. IsFiniteSet(C) /\ at \in C /\ q[at] = Count(f, level, col) /\ q[at] \in Int
  BY ColumnsFinite, CountIsInt DEF Count
<1>2. \A c \in C \ {at} : q[c] = 0
  BY DEF RowPlaced, Fold!Query
<1>3. Fold!SumFunction(q) = SumFunctionOnSet(q, C)
  BY FoldSum
<1> HIDE DEF C, q, at
<1>4. SumFunctionOnSet(q, C) = q[at]
  BY <1>1, <1>2, SetSumSingle
<1> QED
  BY <1>1, <1>3, <1>4 DEF q, C

LEMMA GivenIs ==
  ASSUME Fold!Dimensions, NEW s, s.signed \in BOOLEAN, NEW h \in Weighed, NEW r \in Row, NEW c
  PROVE  Fold!SumFunction([k \in {x \in Key : ColOf[x][r] = c} |-> Fold!Sign(s, k, r) * h[k]])
         = Full(s.signed, h, r, c)
<1> DEFINE S == Keys(r, c)
           f == [k \in S |-> Fold!Sign(s, k, r) * h[k]]
           g == Signed(s.signed, h, r)
<1>1. IsFiniteSet(S) /\ (\A k \in Key : g[k] \in Int) /\ S \subseteq Key
  BY FullIsInt DEF Keys
<1>2. \A k \in S : f[k] = g[k]
  BY DEF Signed, SignIn, Fold!Sign, Keys
<1>3. Fold!SumFunction(f) = SumFunctionOnSet(f, S)
  BY FoldSum
<1>4. f = [k \in {x \in Key : ColOf[x][r] = c} |-> Fold!Sign(s, k, r) * h[k]]
  BY DEF Keys
<1> HIDE DEF S, f, g
<1>5. SumFunctionOnSet(f, S) = SumFunctionOnSet(g, S)
  BY <1>1, <1>2, SetSumEq
<1> QED
  BY <1>3, <1>4, <1>5 DEF Full, S, g

LEMMA FoldHolds ==
  ASSUME Fold!Dimensions, FoldInv
  PROVE  Fold!FoldedIsFull
<1> SUFFICES ASSUME NEW n \in Node
             PROVE  LET s == folded[n]
                        full == [r \in Row |-> [c \in Fold!FullCol |->
                          Fold!SumFunction([k \in {x \in Key : ColOf[x][r] = c} |->
                                              Fold!Sign(s, k, r) * streamed[n][k]])]]
                        counter(k) == [r \in Row |-> Fold!Sign(s, k, r) * full[r][ColOf[k][r]]]
                    IN  /\ Fold!ToFlatCounters(s) = full
                        /\ \A r \in Row :
                             /\ s.L1[r] = IF s.signed THEN 0 ELSE Fold!SumFunction(full[r])
                             /\ s.L2[r] = Fold!SumFunction([c \in Fold!FullCol |->
                                                              full[r][c] * full[r][c]])
                        /\ \A k \in Key :
                             IF s.signed THEN Fold!queryMedian2(s, k) = Fold!Median2(counter(k))
                             ELSE Fold!queryMin(s, k) = Fold!Min(Fold!Range(counter(k)))
  BY DEF Fold!FoldedIsFull
<1> DEFINE s == folded[n]
           h == streamed[n]
           full == [r \in Row |-> [c \in Fold!FullCol |->
                     Fold!SumFunction([k \in {x \in Key : ColOf[x][r] = c} |->
                                         Fold!Sign(s, k, r) * h[k]])]]
           counter(k) == [r \in Row |-> Fold!Sign(s, k, r) * full[r][ColOf[k][r]]]
<1>0. /\ FullBits \in Nat /\ Exact(s, h) /\ Shape(s) /\ Holds(s, h) /\ Normed(s, h)
      /\ h \in Weighed /\ s.signed \in BOOLEAN /\ s.level \in Fold!Level
  BY DEF Fold!Dimensions, FoldInv, Exact, Shape
<1>1. full = [r \in Row |-> [c \in Fold!FullCol |-> Full(s.signed, h, r, c)]]
  <2> HIDE DEF s, h
  <2>1. \A r \in Row, c \in Fold!FullCol :
          Fold!SumFunction([k \in {x \in Key : ColOf[x][r] = c} |-> Fold!Sign(s, k, r) * h[k]])
          = Full(s.signed, h, r, c)
    BY <1>0, GivenIs
  <2> QED
    BY <2>1
<1> HIDE DEF s, h, full
<1>2. \A r \in Row, c \in Fold!FullCol :
        /\ Full(s.signed, h, r, c) \in Int /\ RowPlaced(s.cells[r], s.level)
        /\ Count(s.cells[r], s.level, c) = Full(s.signed, h, r, c)
        /\ full[r][c] = Full(s.signed, h, r, c)
  BY <1>0, <1>1, FullIsInt DEF Shape, Holds
<1>3. Fold!ToFlatCounters(s) = full
  <2>1. \A r \in Row, c \in Fold!FullCol :
          Fold!SumFunction([d \in Fold!FoldCol(s.level) |-> Fold!Query(s.cells[r][d], c)])
          = Full(s.signed, h, r, c)
    BY <1>0, <1>2, FlatRow
  <2> QED
    BY <1>1, <2>1 DEF Fold!ToFlatCounters
<1>4. ASSUME NEW r \in Row
      PROVE  /\ s.L1[r] = IF s.signed THEN 0 ELSE Fold!SumFunction(full[r])
             /\ s.L2[r] = Fold!SumFunction([c \in Fold!FullCol |-> full[r][c] * full[r][c]])
  <2> DEFINE Q == [c \in Fold!FullCol |-> full[r][c] * full[r][c]]
  <2>1. full[r] = Columns(s, h, r) /\ Q = Squares(s, h, r)
    BY <1>1 DEF Columns, Squares
  <2>2. DOMAIN Columns(s, h, r) = Fold!FullCol /\ DOMAIN Squares(s, h, r) = Fold!FullCol
    BY DEF Columns, Squares
  <2> HIDE DEF Q
  <2>3. /\ Fold!SumFunction(full[r]) = SumFunctionOnSet(Columns(s, h, r), Fold!FullCol)
        /\ Fold!SumFunction(Q) = SumFunctionOnSet(Squares(s, h, r), Fold!FullCol)
    BY <2>1, <2>2, FoldSum
  <2> QED
    BY <1>0, <2>3 DEF Normed, Q
<1>5. ASSUME NEW k \in Key
      PROVE  IF s.signed THEN Fold!queryMedian2(s, k) = Fold!Median2(counter(k))
             ELSE Fold!queryMin(s, k) = Fold!Min(Fold!Range(counter(k)))
  <2>1. \A r \in Row : ColOf[k][r] \in Fold!FullCol
    BY DEF Fold!Dimensions
  <2>2. \A r \in Row : /\ Fold!CellOf(s, k, r) = full[r][ColOf[k][r]]
                       /\ Fold!CellOf(s, k, r) \in Int
    BY <1>2, <2>1 DEF Fold!CellOf, Count
  <2>3. [r \in Row |-> Fold!Sign(s, k, r) * Fold!CellOf(s, k, r)] = counter(k)
    BY <2>2
  <2>4. CASE s.signed
    BY <2>3, <2>4 DEF Fold!queryMedian2
  <2>5. CASE ~ s.signed
    <3> DEFINE f == counter(k)
    <3>1. \A r \in Row : f[r] = Fold!CellOf(s, k, r)
      BY <2>2, <2>5 DEF Fold!Sign
    <3>2. DOMAIN f = Row
      OBVIOUS
    <3> HIDE DEF f
    <3>3. Fold!Range(f) = {Fold!CellOf(s, k, r) : r \in Row}
      BY <3>1, <3>2 DEF Fold!Range
    <3> QED
      BY <2>5, <3>3 DEF Fold!queryMin, f
  <2> QED
    BY <1>0, <2>4, <2>5
<1> QED
  BY <1>3, <1>4, <1>5 DEF s, h, full

(* A sketch folded, merged and unfolded in any order answers as one that   *)
(* was never folded: its full columns, norms and estimates are those of    *)
(* the updates it was given (insertHashed, scatterInto, recomputeNorms).   *)
THEOREM FoldingLosesNothing ==
  ASSUME Fold!Dimensions
  PROVE  Fold!Spec => []Fold!FoldedIsFull
<1>1. Fold!Init => FoldInv
  BY FoldInit
<1>2. FoldInv /\ [Fold!Next]_(Fold!vars) => FoldInv'
  BY FoldNext
<1>3. FoldInv => Fold!FoldedIsFull
  BY FoldHolds
<1> QED
  BY <1>1, <1>2, <1>3, PTL DEF Fold!Spec

-----------------------------------------------------------------------------
(* The registers of HyperLogLog.  Any number of registers, any values, any *)
(* capacity of the buffer, any thresholds, any senders.                    *)
CONSTANTS Index, Rho, TempCap, Threshold, Crossover, Sender, MaxDeltas
VARIABLES stores, shown

Store == INSTANCE HLLStore WITH sk <- stores, seen <- shown

(* Every nonempty finite set of numbers has a greatest element.            *)
LEMMA GreatestExists ==
  ASSUME NEW S, IsFiniteSet(S), S \subseteq Nat, S # {}
  PROVE  \E m \in S : \A k \in S : k <= m
<1> DEFINE P == {T \in SUBSET S : T # {} => \E m \in T : \A k \in T : k <= m}
<1>1. {} \in P
  OBVIOUS
<1>2. ASSUME NEW T \in SUBSET S, NEW x \in S, T \in P
      PROVE  T \union {x} \in P
  <2> DEFINE U == T \union {x}
  <2>1. U \in SUBSET S
    OBVIOUS
  <2>2. CASE T = {}
    <3>1. x \in U /\ \A k \in U : k <= x
      BY <2>2
    <3> QED
      BY <2>1, <3>1
  <2>3. CASE T # {}
    <3>1. PICK m \in T : \A k \in T : k <= m
      BY <1>2, <2>3
    <3>2. CASE x <= m
      <4>1. m \in U /\ \A k \in U : k <= m
        BY <3>1, <3>2
      <4> QED
        BY <2>1, <4>1
    <3>3. CASE ~ (x <= m)
      <4>1. x \in U /\ \A k \in U : k <= x
        BY <3>1, <3>3
      <4> QED
        BY <2>1, <4>1
    <3> QED
      BY <3>2, <3>3
  <2> QED
    BY <2>2, <2>3
<1> HIDE DEF P
<1>3. S \in P
  BY <1>1, <1>2, SetInduction
<1> QED
  BY <1>3 DEF P

LEMMA MaxIs ==
  ASSUME NEW S, IsFiniteSet(S), S \subseteq Nat, S # {}
  PROVE  Store!Max(S) \in S /\ \A k \in S : k <= Store!Max(S)
<1>1. PICK m \in S : \A k \in S : k <= m
  BY GreatestExists
<1>2. \A k \in S : m >= k
  BY <1>1
<1>3. \E x \in S : \A k \in S : x >= k
  BY <1>2
<1>4. Store!Max(S) \in S /\ \A k \in S : Store!Max(S) >= k
  BY <1>3 DEF Store!Max
<1> QED
  BY <1>4

-----------------------------------------------------------------------------
(* A sketch is a record; the lists hold values above 0, the registers and  *)
(* the snapshot also 0.                                                    *)
Value == Rho \union {0}
Partial == UNION {[D -> Rho] : D \in SUBSET Index}
Entry == Index \X Rho
AsDelta == {Store!pack(f) : f \in Partial}

Sketch == [born : BOOLEAN, sparse : BOOLEAN, sorted : Partial, temp : Seq(Entry),
           regs : [Index -> Value], snapshot : [Index -> Value], sent : Seq(AsDelta)]

Listed(f) == {<<i, f[i]>> : i \in DOMAIN f}
Buffered(q) == {q[k] : k \in 1..Len(q)}
Entries(h) == Buffered(h.temp) \union Listed(h.sorted)

(* The greatest value that an entry has for a register.                    *)
IsTop(E, i, v) ==
  /\ v \in Value
  /\ v > 0 => <<i, v>> \in E
  /\ \A r \in Rho : <<i, r>> \in E => r <= v

LEMMA ValuesAreNat ==
  ASSUME Store!Dimensions
  PROVE  Rho \subseteq Nat /\ \A v \in Value : v \in Nat /\ (v > 0 <=> v \in Rho)
BY DEF Store!Dimensions, Value

LEMMA TopIsUnique ==
  ASSUME Store!Dimensions, NEW E, NEW i, NEW v, NEW w, IsTop(E, i, v), IsTop(E, i, w)
  PROVE  v = w
<1>1. Rho \subseteq Nat \ {0}
  BY DEF Store!Dimensions
<1>2. v \in Nat /\ w \in Nat /\ (v > 0 => v \in Rho) /\ (w > 0 => w \in Rho)
  BY <1>1 DEF IsTop, Value
<1>3. (v > 0 => v <= w) /\ (w > 0 => w <= v)
  BY <1>2 DEF IsTop
<1> QED
  BY <1>2, <1>3

Heads(E) == {e[1] : e \in E}
MaxFor(E, i) == Store!Max({e[2] : e \in {x \in E : x[1] = i}})
Merged(E) == [i \in Heads(E) |-> MaxFor(E, i)]

LEMMA MergedIsTop ==
  ASSUME Store!Dimensions, NEW E, E \subseteq Entry
  PROVE  /\ Merged(E) \in Partial /\ DOMAIN Merged(E) = Heads(E)
         /\ \A i \in Index : IsTop(E, i, Store!At(Merged(E), i))
<1>0. IsFiniteSet(Rho) /\ Rho \subseteq Nat \ {0}
  BY DEF Store!Dimensions, Store!IsFiniteSet, IsFiniteSet
<1>1. Heads(E) \subseteq Index
  BY DEF Heads, Entry
<1>2. ASSUME NEW i \in Heads(E)
      PROVE  /\ MaxFor(E, i) \in Rho /\ <<i, MaxFor(E, i)>> \in E
             /\ \A r \in Rho : <<i, r>> \in E => r <= MaxFor(E, i)
  <2> DEFINE S == {e[2] : e \in {x \in E : x[1] = i}}
  <2>1. \A r : r \in S <=> r \in Rho /\ <<i, r>> \in E
    BY DEF Entry
  <2>2. S # {} /\ S \subseteq Rho
    BY <2>1 DEF Heads, Entry
  <2> HIDE DEF S
  <2>3. IsFiniteSet(S) /\ S \subseteq Nat
    BY <1>0, <2>2, FS_Subset
  <2>4. Store!Max(S) \in S /\ \A k \in S : k <= Store!Max(S)
    BY <2>2, <2>3, MaxIs
  <2> QED
    BY <2>1, <2>4 DEF MaxFor, S
<1>3. Merged(E) \in [Heads(E) -> Rho]
  BY <1>2 DEF Merged
<1>4. Merged(E) \in Partial
  BY <1>1, <1>3 DEF Partial
<1>5. ASSUME NEW i \in Index
      PROVE  IsTop(E, i, Store!At(Merged(E), i))
  <2>1. CASE i \in Heads(E)
    <3>1. Store!At(Merged(E), i) = MaxFor(E, i)
      BY <2>1 DEF Store!At, Merged
    <3> QED
      BY <1>2, <2>1, <3>1 DEF IsTop, Value
  <2>2. CASE i \notin Heads(E)
    <3>1. Store!At(Merged(E), i) = 0
      BY <2>2 DEF Store!At, Merged
    <3>2. \A r \in Rho : <<i, r>> \notin E
      BY <2>2 DEF Heads
    <3> QED
      BY <3>1, <3>2 DEF IsTop, Value
  <2> QED
    BY <2>1, <2>2
<1> QED
  BY <1>3, <1>4, <1>5

Record(b, p, l, t, r, o, d) ==
  [born |-> b, sparse |-> p, sorted |-> l, temp |-> t, regs |-> r, snapshot |-> o, sent |-> d]

WithSparse(h, p) == [h EXCEPT !.sparse = p]
WithSorted(h, l) == [h EXCEPT !.sorted = l]
WithTemp(h, t) == [h EXCEPT !.temp = t]
WithRegs(h, r) == [h EXCEPT !.regs = r]
WithSnapshot(h, o) == [h EXCEPT !.snapshot = o]
WithSent(h, d) == [h EXCEPT !.sent = d]

LEMMA RecordIs ==
  ASSUME NEW h \in Sketch
  PROVE  /\ h = Record(h.born, h.sparse, h.sorted, h.temp, h.regs, h.snapshot, h.sent)
         /\ h.born \in BOOLEAN /\ h.sparse \in BOOLEAN /\ h.sorted \in Partial
         /\ h.temp \in Seq(Entry) /\ h.regs \in [Index -> Value]
         /\ h.snapshot \in [Index -> Value] /\ h.sent \in Seq(AsDelta)
BY DEF Sketch, Record

LEMMA RecordFields ==
  ASSUME NEW b, NEW p, NEW l, NEW t, NEW r, NEW o, NEW d
  PROVE  LET h == Record(b, p, l, t, r, o, d)
         IN  /\ h.born = b /\ h.sparse = p /\ h.sorted = l /\ h.temp = t
             /\ h.regs = r /\ h.snapshot = o /\ h.sent = d
BY DEF Record

LEMMA RecordTyped ==
  ASSUME NEW b \in BOOLEAN, NEW p \in BOOLEAN, NEW l \in Partial, NEW t \in Seq(Entry),
         NEW r \in [Index -> Value], NEW o \in [Index -> Value], NEW d \in Seq(AsDelta)
  PROVE  Record(b, p, l, t, r, o, d) \in Sketch
BY DEF Record, Sketch

LEMMA RecordChanges ==
  ASSUME NEW b, NEW p, NEW l, NEW t, NEW r, NEW o, NEW d, NEW x
  PROVE  LET h == Record(b, p, l, t, r, o, d)
         IN  /\ WithSparse(h, x) = Record(b, x, l, t, r, o, d)
             /\ WithSorted(h, x) = Record(b, p, x, t, r, o, d)
             /\ WithTemp(h, x) = Record(b, p, l, x, r, o, d)
             /\ WithRegs(h, x) = Record(b, p, l, t, x, o, d)
             /\ WithSnapshot(h, x) = Record(b, p, l, t, r, x, d)
             /\ WithSent(h, x) = Record(b, p, l, t, r, o, x)
<1> DEFINE h == Record(b, p, l, t, r, o, d)
<1>1. WithSparse(h, x) = Record(b, x, l, t, r, o, d)
  BY DEF WithSparse, Record
<1>2. WithSorted(h, x) = Record(b, p, x, t, r, o, d)
  BY DEF WithSorted, Record
<1>3. WithTemp(h, x) = Record(b, p, l, x, r, o, d)
  BY DEF WithTemp, Record
<1>4. WithRegs(h, x) = Record(b, p, l, t, x, o, d)
  BY DEF WithRegs, Record
<1>5. WithSnapshot(h, x) = Record(b, p, l, t, r, x, d)
  BY DEF WithSnapshot, Record
<1>6. WithSent(h, x) = Record(b, p, l, t, r, o, x)
  BY DEF WithSent, Record
<1> QED
  BY <1>1, <1>2, <1>3, <1>4, <1>5, <1>6

(* A sketch with one field replaced.                                       *)
LEMMA OtherTemp ==
  ASSUME NEW h \in Sketch, NEW t \in Seq(Entry)
  PROVE  LET s == WithTemp(h, t)
         IN  /\ s \in Sketch
             /\ s.born = h.born /\ s.sparse = h.sparse /\ s.sorted = h.sorted /\ s.temp = t
             /\ s.regs = h.regs /\ s.snapshot = h.snapshot /\ s.sent = h.sent
BY DEF Sketch, WithTemp

LEMMA OtherRegs ==
  ASSUME NEW h \in Sketch, NEW f \in [Index -> Value]
  PROVE  LET s == WithRegs(h, f)
         IN  /\ s \in Sketch
             /\ s.born = h.born /\ s.sparse = h.sparse /\ s.sorted = h.sorted
             /\ s.temp = h.temp /\ s.regs = f /\ s.snapshot = h.snapshot /\ s.sent = h.sent
BY DEF Sketch, WithRegs

LEMMA OtherDeltas ==
  ASSUME NEW h \in Sketch, NEW o \in [Index -> Value], NEW d \in Seq(AsDelta)
  PROVE  LET s == WithSnapshot(WithSent(h, d), o)
         IN  /\ s \in Sketch
             /\ s.born = h.born /\ s.sparse = h.sparse /\ s.sorted = h.sorted
             /\ s.temp = h.temp /\ s.regs = h.regs /\ s.snapshot = o /\ s.sent = d
<1>1. /\ WithSent(h, d) \in Sketch
      /\ WithSent(h, d).born = h.born /\ WithSent(h, d).sparse = h.sparse
      /\ WithSent(h, d).sorted = h.sorted /\ WithSent(h, d).temp = h.temp
      /\ WithSent(h, d).regs = h.regs /\ WithSent(h, d).sent = d
  BY DEF Sketch, WithSent
<1> DEFINE g == WithSent(h, d)
<1> HIDE DEF g
<1>2. ASSUME g \in Sketch
      PROVE  /\ WithSnapshot(g, o) \in Sketch
             /\ WithSnapshot(g, o).born = g.born /\ WithSnapshot(g, o).sparse = g.sparse
             /\ WithSnapshot(g, o).sorted = g.sorted /\ WithSnapshot(g, o).temp = g.temp
             /\ WithSnapshot(g, o).regs = g.regs /\ WithSnapshot(g, o).snapshot = o
             /\ WithSnapshot(g, o).sent = g.sent
  BY <1>2 DEF Sketch, WithSnapshot
<1> QED
  BY <1>1, <1>2 DEF g

(* What flush makes of a sketch.                                           *)
LEMMA FlushIs ==
  ASSUME Store!Dimensions, NEW h \in Sketch
  PROVE  /\ Store!flush(h) = Record(h.born, h.sparse, Merged(Entries(h)), <<>>, h.regs,
                                    h.snapshot, h.sent)
         /\ Store!flush(h) \in Sketch
         /\ Entries(h) \subseteq Entry
<1>1. Entries(h) \subseteq Entry
  <2>1. Buffered(h.temp) \subseteq Entry
    BY RecordIs DEF Buffered
  <2>2. PICK D \in SUBSET Index : h.sorted \in [D -> Rho]
    BY RecordIs DEF Partial
  <2>3. Listed(h.sorted) \subseteq Entry
    BY <2>2 DEF Listed, Entry
  <2> QED
    BY <2>1, <2>3 DEF Entries
<1>2. Store!Range(h.temp) = Buffered(h.temp)
  <2>1. DOMAIN h.temp = 1..Len(h.temp)
    BY RecordIs, LenProperties
  <2> QED
    BY <2>1 DEF Store!Range, Buffered
<1>3. Store!flush(h) = WithTemp(WithSorted(h, Merged(Entries(h))), <<>>)
  <2>1. Store!flush(h) = WithTemp(WithSorted(h, Merged(Store!Range(h.temp) \cup Listed(h.sorted))),
                                  <<>>)
    BY DEF Store!flush, Listed, Merged, Heads, MaxFor, WithSorted, WithTemp
  <2> QED
    BY <1>2, <2>1 DEF Entries
<1>4. Store!flush(h) = Record(h.born, h.sparse, Merged(Entries(h)), <<>>, h.regs,
                              h.snapshot, h.sent)
  BY <1>3, RecordIs, RecordChanges
<1>5. <<>> \in Seq(Entry) /\ Merged(Entries(h)) \in Partial
  BY <1>1, MergedIsTop
<1>6. /\ h.born \in BOOLEAN /\ h.sparse \in BOOLEAN /\ h.regs \in [Index -> Value]
      /\ h.snapshot \in [Index -> Value] /\ h.sent \in Seq(AsDelta)
  BY RecordIs
<1>7. Record(h.born, h.sparse, Merged(Entries(h)), <<>>, h.regs, h.snapshot, h.sent) \in Sketch
  BY <1>5, <1>6, RecordTyped
<1> QED
  BY <1>1, <1>4, <1>7

(* The value that a sparse sketch has for a register.                      *)
Top(h, i) == Store!At(Store!flush(h).sorted, i)

LEMMA TopIs ==
  ASSUME Store!Dimensions, NEW h \in Sketch
  PROVE  /\ DOMAIN Store!flush(h).sorted = Heads(Entries(h))
         /\ \A i \in Index : IsTop(Entries(h), i, Top(h, i)) /\ Top(h, i) \in Value
<1>1. Store!flush(h).sorted = Merged(Entries(h)) /\ Entries(h) \subseteq Entry
  BY FlushIs, RecordFields
<1> QED
  BY <1>1, MergedIsTop DEF Top, IsTop

(* The registers that RegisterSlice returns.                               *)
LEMMA SliceIs ==
  ASSUME Store!Dimensions, NEW h \in Sketch
  PROVE  /\ Store!RegisterSlice(h) = IF h.sparse THEN [i \in Index |-> Top(h, i)] ELSE h.regs
         /\ Store!RegisterSlice(h) \in [Index -> Value]
         /\ Store!promote(h) = IF h.sparse
              THEN Record(h.born, FALSE, Store!NoEntries, <<>>, Store!RegisterSlice(h),
                          h.snapshot, h.sent)
              ELSE h
         /\ Store!promote(h) \in Sketch
<1>1. CASE h.sparse
  <2> DEFINE f == [i \in Index |-> Top(h, i)]
             z == Store!NoEntries
             no == FALSE
  <2>1. Store!promote(h) = WithRegs(WithTemp(WithSorted(WithSparse(h, no), z), <<>>), f)
    BY <1>1 DEF Store!promote, Top, WithRegs, WithTemp, WithSorted, WithSparse
  <2>2. f \in [Index -> Value]
    BY TopIs
  <2>3. z \in Partial /\ no \in BOOLEAN
    BY DEF Store!NoEntries, Partial
  <2> HIDE DEF f, z, no
  <2>4. h = Record(h.born, h.sparse, h.sorted, h.temp, h.regs, h.snapshot, h.sent)
    BY RecordIs
  <2>5. Store!promote(h) = Record(h.born, no, z, <<>>, f, h.snapshot, h.sent)
    BY <2>1, <2>4, RecordChanges
  <2>6. Store!RegisterSlice(h) = f
    BY <2>5, RecordFields DEF Store!RegisterSlice
  <2>7. /\ h.born \in BOOLEAN /\ <<>> \in Seq(Entry)
        /\ h.snapshot \in [Index -> Value] /\ h.sent \in Seq(AsDelta)
    BY RecordIs
  <2>8. Store!promote(h) \in Sketch
    <3>1. Record(h.born, no, z, <<>>, f, h.snapshot, h.sent) \in Sketch
      BY <2>2, <2>3, <2>7, RecordTyped
    <3> QED
      BY <2>5, <3>1
  <2>9. Store!promote(h) = Record(h.born, no, z, <<>>, Store!RegisterSlice(h),
                                  h.snapshot, h.sent)
    BY <2>5, <2>6
  <2> QED
    BY <1>1, <2>2, <2>6, <2>8, <2>9 DEF f, z, no
<1>2. CASE ~ h.sparse
  BY <1>2, RecordIs DEF Store!promote, Store!RegisterSlice
<1> QED
  BY <1>1, <1>2

(* A flush changes the form of what is stored, not what is stored.         *)
Like(s, h) == s.snapshot = h.snapshot /\ s.sent = h.sent

LEMMA FlushKeeps ==
  ASSUME Store!Dimensions, NEW h \in Sketch
  PROVE  /\ Store!flush(h) \in Sketch /\ Like(Store!flush(h), h)
         /\ Store!flush(h).sparse = h.sparse
         /\ Store!RegisterSlice(Store!flush(h)) = Store!RegisterSlice(h)
<1> DEFINE s == Store!flush(h)
           m == Merged(Entries(h))
<1>1. /\ s = Record(h.born, h.sparse, m, <<>>, h.regs, h.snapshot, h.sent)
      /\ s \in Sketch /\ Entries(h) \subseteq Entry
  BY FlushIs
<1>2. m \in Partial /\ \A i \in Index : Store!At(m, i) \in Value /\ IsTop(Entries(h), i, Store!At(m, i))
  BY <1>1, MergedIsTop DEF IsTop
<1> HIDE DEF s, m
<1>3. /\ s.born = h.born /\ s.sparse = h.sparse /\ s.sorted = m /\ s.temp = <<>>
      /\ s.regs = h.regs /\ s.snapshot = h.snapshot /\ s.sent = h.sent
  BY <1>1, RecordFields
<1>4. Entries(s) = Listed(m)
  <2>1. Buffered(<<>>) = {}
    BY DEF Buffered
  <2> QED
    BY <1>3, <2>1 DEF Entries
<1>5. ASSUME NEW i \in Index
      PROVE  Top(s, i) = Top(h, i)
  <2>1. Top(h, i) = Store!At(m, i)
    BY <1>3 DEF Top, s
  <2>2. \A r : <<i, r>> \in Listed(m) <=> i \in DOMAIN m /\ r = m[i]
    BY DEF Listed
  <2>3. Rho \subseteq Nat \ {0}
    BY DEF Store!Dimensions
  <2>4. IsTop(Entries(s), i, Store!At(m, i))
    <3>1. CASE i \in DOMAIN m
      <4>1. Store!At(m, i) = m[i]
        BY <3>1 DEF Store!At
      <4> QED
        BY <1>2, <1>4, <2>2, <2>3, <3>1, <4>1 DEF IsTop
    <3>2. CASE i \notin DOMAIN m
      <4>1. Store!At(m, i) = 0
        BY <3>2 DEF Store!At
      <4> QED
        BY <1>4, <2>2, <3>2, <4>1 DEF IsTop, Value
    <3> QED
      BY <3>1, <3>2
  <2>5. IsTop(Entries(s), i, Top(s, i))
    BY <1>1, TopIs
  <2> QED
    BY <2>1, <2>4, <2>5, TopIsUnique
<1>6. Store!RegisterSlice(s) = Store!RegisterSlice(h)
  <2>1. Store!RegisterSlice(s) = IF h.sparse THEN [i \in Index |-> Top(s, i)] ELSE h.regs
    BY <1>1, <1>3, SliceIs
  <2>2. Store!RegisterSlice(h) = IF h.sparse THEN [i \in Index |-> Top(h, i)] ELSE h.regs
    BY SliceIs
  <2> QED
    BY <1>5, <2>1, <2>2
<1> QED
  BY <1>1, <1>3, <1>6 DEF s, Like

(* A promotion neither.                                                    *)
LEMMA PromoteKeeps ==
  ASSUME Store!Dimensions, NEW h \in Sketch
  PROVE  /\ Store!promote(h) \in Sketch /\ Like(Store!promote(h), h) /\ ~ Store!promote(h).sparse
         /\ Store!promote(h).regs = Store!RegisterSlice(h)
         /\ Store!RegisterSlice(Store!promote(h)) = Store!RegisterSlice(h)
<1> DEFINE s == Store!promote(h)
           no == FALSE
<1>1. s \in Sketch
  BY SliceIs
<1>2. ASSUME h.sparse
      PROVE  Like(s, h) /\ ~ s.sparse /\ s.regs = Store!RegisterSlice(h)
  <2>1. s = Record(h.born, no, Store!NoEntries, <<>>, Store!RegisterSlice(h), h.snapshot, h.sent)
    BY <1>2, SliceIs
  <2> HIDE DEF s, no
  <2>2. /\ s.born = h.born /\ s.sparse = no /\ s.regs = Store!RegisterSlice(h)
        /\ s.snapshot = h.snapshot /\ s.sent = h.sent
    BY <2>1, RecordFields
  <2> QED
    BY <2>2 DEF Like, no, s
<1>3. ASSUME ~ h.sparse
      PROVE  Like(s, h) /\ ~ s.sparse /\ s.regs = Store!RegisterSlice(h)
  BY <1>3, SliceIs DEF Like
<1>4. Like(s, h) /\ ~ s.sparse /\ s.regs = Store!RegisterSlice(h)
  BY <1>2, <1>3
<1>5. Store!RegisterSlice(s) = s.regs
  <2> HIDE DEF s
  <2> QED
    BY <1>1, <1>4, SliceIs
<1> QED
  BY <1>1, <1>4, <1>5

(* The list of a flushed sketch has one entry per register in use.         *)
LEMMA InUse ==
  ASSUME Store!Dimensions, NEW h \in Sketch, h.sparse
  PROVE  /\ Store!NonZero(Store!RegisterSlice(h)) = DOMAIN Store!flush(h).sorted
         /\ Store!NonZero(Store!RegisterSlice(h)) = Heads(Entries(h))
         /\ Heads(Entries(h)) \subseteq Index
         /\ \A i \in Heads(Entries(h)) : Store!flush(h).sorted[i] = Store!RegisterSlice(h)[i]
<1>0. Rho \subseteq Nat \ {0} /\ Entries(h) \subseteq Entry
  BY FlushIs DEF Store!Dimensions
<1>1. DOMAIN Store!flush(h).sorted = Heads(Entries(h))
  BY TopIs
<1>2. Heads(Entries(h)) \subseteq Index
  BY <1>0 DEF Heads, Entry
<1>3. ASSUME NEW i \in Index
      PROVE  Store!RegisterSlice(h)[i] = Top(h, i)
  BY SliceIs
<1>4. ASSUME NEW i \in Index
      PROVE  i \in Heads(Entries(h)) <=> Top(h, i) > 0
  <2>1. IsTop(Entries(h), i, Top(h, i)) /\ Top(h, i) \in Value
    BY TopIs
  <2>2. CASE i \in Heads(Entries(h))
    <3>1. \E r \in Rho : <<i, r>> \in Entries(h)
      <4>1. PICK e \in Entries(h) : i = e[1]
        BY <2>2 DEF Heads
      <4>2. e = <<e[1], e[2]>> /\ e[2] \in Rho
        BY <1>0, <4>1 DEF Entry
      <4> QED
        BY <4>1, <4>2
    <3>2. PICK r \in Rho : <<i, r>> \in Entries(h)
      BY <3>1
    <3>3. r <= Top(h, i) /\ r > 0 /\ r \in Nat /\ Top(h, i) \in Nat
      <4>1. r <= Top(h, i)
        BY <2>1, <3>2 DEF IsTop
      <4>2. r \in Value
        BY DEF Value
      <4>3. Top(h, i) \in Nat /\ r \in Nat /\ r > 0
        BY <2>1, <4>2, ValuesAreNat
      <4> QED
        BY <4>1, <4>3
    <3> QED
      BY <2>2, <3>3
  <2>3. CASE Top(h, i) > 0
    <3>1. <<i, Top(h, i)>> \in Entries(h)
      BY <2>1, <2>3 DEF IsTop
    <3> QED
      BY <2>3, <3>1 DEF Heads
  <2> QED
    BY <2>2, <2>3
<1>5. Store!NonZero(Store!RegisterSlice(h)) = Heads(Entries(h))
  BY <1>2, <1>3, <1>4 DEF Store!NonZero
<1>6. \A i \in Heads(Entries(h)) : Store!flush(h).sorted[i] = Top(h, i)
  BY <1>1 DEF Top, Store!At
<1> QED
  BY <1>1, <1>2, <1>3, <1>5, <1>6

-----------------------------------------------------------------------------
(* One value for one register.                                             *)
Raised(f, i, v) == [j \in Index |-> IF j = i THEN Store!MaxOf(f[j], v) ELSE f[j]]

(* A new entry raises the register that it is for.                         *)
LEMMA EntryRaises ==
  ASSUME Store!Dimensions, NEW h \in Sketch, h.sparse, NEW i \in Index, NEW r \in Rho
  PROVE  LET s == WithTemp(h, Append(h.temp, <<i, r>>))
         IN  /\ s \in Sketch /\ Like(s, h) /\ s.sparse
             /\ Store!RegisterSlice(s) = Raised(Store!RegisterSlice(h), i, r)
<1> DEFINE t == Append(h.temp, <<i, r>>)
           s == WithTemp(h, t)
<1>0. Rho \subseteq Nat \ {0}
  BY DEF Store!Dimensions
<1>1. h.temp \in Seq(Entry)
  BY RecordIs
<1>2. /\ t \in Seq(Entry) /\ Len(t) = Len(h.temp) + 1 /\ Len(h.temp) \in Nat
      /\ t[Len(t)] = <<i, r>> /\ \A k \in 1..Len(h.temp) : t[k] = h.temp[k]
  <2>1. <<i, r>> \in Entry
    BY DEF Entry
  <2> QED
    BY <1>1, <2>1, AppendProperties, LenProperties
<1> HIDE DEF t
<1>4. s \in Sketch
  BY <1>2, OtherTemp
<1>5. /\ s.born = h.born /\ s.sparse = h.sparse /\ s.sorted = h.sorted /\ s.temp = t
      /\ s.snapshot = h.snapshot /\ s.sent = h.sent
  BY <1>2, OtherTemp
<1> HIDE DEF s
<1>6. Entries(s) = Entries(h) \union {<<i, r>>}
  <2>1. Buffered(t) = Buffered(h.temp) \union {<<i, r>>}
    <3> DEFINE n == Len(h.temp)
    <3>1. \A k : k \in 1..n+1 <=> k \in 1..n \/ k = n+1
      BY <1>2
    <3>2. \A x : x \in Buffered(t) <=> \E k \in 1..n+1 : x = t[k]
      BY <1>2 DEF Buffered
    <3>3. \A x : x \in Buffered(h.temp) <=> \E k \in 1..n : x = t[k]
      BY <1>2 DEF Buffered
    <3>4. t[n+1] = <<i, r>>
      BY <1>2
    <3> HIDE DEF n
    <3>5. \A x : x \in Buffered(t) <=> x \in Buffered(h.temp) \/ x = <<i, r>>
      BY <3>1, <3>2, <3>3, <3>4, Zenon
    <3> QED
      BY <3>5
  <2> QED
    BY <1>5, <2>1 DEF Entries
<1>7. ASSUME NEW j \in Index
      PROVE  Top(s, j) = IF j = i THEN Store!MaxOf(Top(h, j), r) ELSE Top(h, j)
  <2> DEFINE v == IF j = i THEN Store!MaxOf(Top(h, j), r) ELSE Top(h, j)
  <2>0. IsTop(Entries(h), j, Top(h, j)) /\ Top(h, j) \in Value
    BY TopIs
  <2>1. IsTop(Entries(h), j, Top(h, j)) /\ Top(h, j) \in Value /\ Top(h, j) \in Nat
    BY <2>0, ValuesAreNat
  <2>2. \A w : <<j, w>> \in Entries(s) <=> <<j, w>> \in Entries(h) \/ (j = i /\ w = r)
    BY <1>6
  <2>3. IsTop(Entries(s), j, v)
    <3>1. CASE j = i
      BY <1>0, <2>1, <2>2, <3>1 DEF IsTop, Value, Store!MaxOf
    <3>2. CASE j # i
      BY <2>1, <2>2, <3>2 DEF IsTop
    <3> QED
      BY <3>1, <3>2
  <2>4. IsTop(Entries(s), j, Top(s, j))
    BY <1>4, TopIs
  <2> QED
    BY <2>3, <2>4, TopIsUnique
<1>8. Store!RegisterSlice(s) = Raised(Store!RegisterSlice(h), i, r)
  <2>1. Store!RegisterSlice(s) = [j \in Index |-> Top(s, j)]
    BY <1>4, <1>5, SliceIs
  <2>2. Store!RegisterSlice(h) = [j \in Index |-> Top(h, j)]
    BY SliceIs
  <2> QED
    BY <1>7, <2>1, <2>2 DEF Raised
<1> QED
  BY <1>4, <1>5, <1>8 DEF Like, s, t

LEMMA CardinalityIs ==
  ASSUME NEW S
  PROVE  Store!Cardinality(S) = Cardinality(S)
BY DEF Store!Cardinality, Cardinality, Store!IsFiniteSet, IsFiniteSet

LEMMA InsertRaises ==
  ASSUME Store!Dimensions, NEW h \in Sketch, h.sparse, NEW i \in Index, NEW r \in Rho
  PROVE  LET s == Store!insert(h, i, r)
         IN  /\ s \in Sketch /\ Like(s, h) /\ s.sparse
             /\ Store!RegisterSlice(s) = Raised(Store!RegisterSlice(h), i, r)
<1> DEFINE s == WithTemp(h, Append(h.temp, <<i, r>>))
<1>1. /\ s \in Sketch /\ Like(s, h) /\ s.sparse
      /\ Store!RegisterSlice(s) = Raised(Store!RegisterSlice(h), i, r)
  BY EntryRaises
<1>2. Store!insert(h, i, r) = s \/ Store!insert(h, i, r) = Store!flush(s)
  BY DEF Store!insert, WithTemp
<1> HIDE DEF s
<1>3. /\ Store!flush(s) \in Sketch /\ Like(Store!flush(s), s)
      /\ Store!flush(s).sparse = s.sparse
      /\ Store!RegisterSlice(Store!flush(s)) = Store!RegisterSlice(s)
  BY <1>1, FlushKeeps
<1> QED
  BY <1>1, <1>2, <1>3 DEF Like

(* A sparse sketch has fewer registers in use than would promote it.       *)
Small(h) == h.sparse => Cardinality(Store!NonZero(Store!RegisterSlice(h))) < Threshold

LEMMA FewValues ==
  ASSUME NEW n \in Nat, NEW f, DOMAIN f = 1..n, f = [k \in 1..n |-> f[k]]
  PROVE  /\ IsFiniteSet({f[k] : k \in 1..n})
         /\ Cardinality({f[k] : k \in 1..n}) <= n
<1> DEFINE T == {f[k] : k \in 1..n}
<1>1. f \in [1..n -> T] /\ \A x \in T : \E k \in 1..n : f[k] = x
  OBVIOUS
<1> HIDE DEF T
<1>2. f \in Surjection(1..n, T)
  BY <1>1 DEF Surjection
<1>3. IsFiniteSet(1..n) /\ Cardinality(1..n) = n
  BY FS_Interval
<1>4. IsFiniteSet(T) /\ Cardinality(T) <= n
  BY <1>2, <1>3, FS_Surjection
<1> QED
  BY <1>4 DEF T

(* The two lists together have at least as many entries as registers.      *)
LEMMA ListsBound ==
  ASSUME Store!Dimensions, NEW h \in Sketch, h.sparse
  PROVE  /\ Cardinality(Store!NonZero(Store!RegisterSlice(h)))
              <= Cardinality(DOMAIN h.sorted) + Len(h.temp)
         /\ Cardinality(Store!NonZero(Store!RegisterSlice(h))) \in Nat
         /\ Cardinality(DOMAIN h.sorted) \in Nat /\ Len(h.temp) \in Nat
<1> DEFINE n == Len(h.temp)
           D == DOMAIN h.sorted
           T == {h.temp[k][1] : k \in 1..n}
           A == Store!NonZero(Store!RegisterSlice(h))
<1>0. IsFiniteSet(Index)
  BY DEF Store!Dimensions, Store!IsFiniteSet, IsFiniteSet
<1>1. n \in Nat /\ IsFiniteSet(D) /\ Cardinality(D) \in Nat
  <2>1. h.temp \in Seq(Entry) /\ h.sorted \in Partial
    BY RecordIs
  <2>2. n \in Nat
    BY <2>1, LenProperties
  <2>3. D \subseteq Index
    BY <2>1 DEF Partial
  <2>4. IsFiniteSet(D)
    BY <1>0, <2>3, FS_Subset
  <2> QED
    BY <2>2, <2>4, FS_CardinalityType
<1>2. IsFiniteSet(T) /\ Cardinality(T) <= n /\ Cardinality(T) \in Nat
  <2> DEFINE f == [k \in 1..n |-> h.temp[k][1]]
  <2>1. T = {f[k] : k \in 1..n}
    OBVIOUS
  <2>2. DOMAIN f = 1..n /\ f = [k \in 1..n |-> f[k]]
    OBVIOUS
  <2> HIDE DEF f, n, T
  <2>3. IsFiniteSet(T) /\ Cardinality(T) <= n
    BY <1>1, <2>1, <2>2, FewValues
  <2> QED
    BY <2>3, FS_CardinalityType
<1>3. A \subseteq D \union T
  <2>1. A = Heads(Entries(h))
    BY InUse
  <2>2. \A e \in Entries(h) : e[1] \in D \union T
    <3>1. \A e \in Listed(h.sorted) : e[1] \in D
      BY DEF Listed
    <3>2. \A e \in Buffered(h.temp) : e[1] \in T
      BY DEF Buffered
    <3> QED
      BY <3>1, <3>2 DEF Entries
  <2> HIDE DEF A, D, T
  <2> QED
    BY <2>1, <2>2 DEF Heads
<1> HIDE DEF n, D, T, A
<1>4. /\ IsFiniteSet(D \union T)
      /\ Cardinality(D \union T) = Cardinality(D) + Cardinality(T) - Cardinality(D \cap T)
  BY <1>1, <1>2, FS_Union
<1>5. Cardinality(D \cap T) \in Nat
  BY <1>1, FS_Intersection, FS_CardinalityType
<1>6. IsFiniteSet(A) /\ Cardinality(A) <= Cardinality(D \union T)
  BY <1>3, <1>4, FS_Subset
<1>7. Cardinality(A) \in Nat
  BY <1>6, FS_CardinalityType
<1>8. Cardinality(A) <= Cardinality(D) + n
  BY <1>1, <1>2, <1>4, <1>5, <1>6, <1>7
<1> QED
  BY <1>1, <1>7, <1>8 DEF A, D, n

(* After sparseInsert the register is raised; what would reach the         *)
(* threshold is promoted.                                                  *)
LEMMA SparseInsertRaises ==
  ASSUME Store!Dimensions, NEW h \in Sketch, h.sparse, NEW i \in Index, NEW r \in Rho
  PROVE  LET s == Store!sparseInsert(h, i, r)
         IN  /\ s \in Sketch /\ Like(s, h) /\ Small(s)
             /\ Store!RegisterSlice(s) = Raised(Store!RegisterSlice(h), i, r)
<1> DEFINE s == Store!insert(h, i, r)
<1>1. /\ s \in Sketch /\ Like(s, h) /\ s.sparse
      /\ Store!RegisterSlice(s) = Raised(Store!RegisterSlice(h), i, r)
  BY InsertRaises
<1>2. Store!sparseInsert(h, i, r) =
        IF Store!Cardinality(DOMAIN s.sorted) + Len(s.temp) < Threshold THEN s
        ELSE IF Store!Cardinality(DOMAIN Store!flush(s).sorted) < Threshold THEN Store!flush(s)
        ELSE Store!promote(s)
  BY DEF Store!sparseInsert
<1> HIDE DEF s
<1>3. CASE Store!Cardinality(DOMAIN s.sorted) + Len(s.temp) < Threshold
  <2>1. Cardinality(DOMAIN s.sorted) + Len(s.temp) < Threshold
    BY <1>3, CardinalityIs
  <2>2. /\ Cardinality(Store!NonZero(Store!RegisterSlice(s)))
              <= Cardinality(DOMAIN s.sorted) + Len(s.temp)
        /\ Cardinality(Store!NonZero(Store!RegisterSlice(s))) \in Nat
        /\ Cardinality(DOMAIN s.sorted) \in Nat /\ Len(s.temp) \in Nat
    BY <1>1, ListsBound
  <2>3. Threshold \in Nat
    BY DEF Store!Dimensions
  <2>4. Cardinality(Store!NonZero(Store!RegisterSlice(s))) < Threshold
    BY <2>1, <2>2, <2>3
  <2>5. Small(s)
    BY <2>4 DEF Small
  <2> QED
    BY <1>1, <1>2, <1>3, <2>5
<1>4. CASE /\ ~ (Store!Cardinality(DOMAIN s.sorted) + Len(s.temp) < Threshold)
           /\ Store!Cardinality(DOMAIN Store!flush(s).sorted) < Threshold
  <2> DEFINE t == Store!flush(s)
  <2>1. Store!sparseInsert(h, i, r) = t
    BY <1>2, <1>4
  <2>2. Cardinality(DOMAIN t.sorted) < Threshold
    BY <1>4, CardinalityIs
  <2>3. Store!NonZero(Store!RegisterSlice(s)) = DOMAIN t.sorted
    BY <1>1, InUse
  <2>4. t \in Sketch /\ Like(t, s) /\ Store!RegisterSlice(t) = Store!RegisterSlice(s)
    BY <1>1, FlushKeeps
  <2> HIDE DEF t
  <2>5. Small(t)
    BY <2>2, <2>3, <2>4 DEF Small
  <2> QED
    BY <1>1, <2>1, <2>4, <2>5 DEF Like
<1>5. CASE /\ ~ (Store!Cardinality(DOMAIN s.sorted) + Len(s.temp) < Threshold)
           /\ ~ (Store!Cardinality(DOMAIN Store!flush(s).sorted) < Threshold)
  <2>1. Store!sparseInsert(h, i, r) = Store!promote(s)
    BY <1>2, <1>5
  <2>2. /\ Store!promote(s) \in Sketch /\ Like(Store!promote(s), s) /\ ~ Store!promote(s).sparse
        /\ Store!RegisterSlice(Store!promote(s)) = Store!RegisterSlice(s)
    BY <1>1, PromoteKeeps
  <2>3. Small(Store!promote(s))
    BY <2>2 DEF Small
  <2> QED
    BY <1>1, <2>1, <2>2, <2>3 DEF Like
<1> QED
  BY <1>3, <1>4, <1>5

(* InsertWithHash's applyRegister, in either form.                         *)
LEMMA ApplyRaises ==
  ASSUME Store!Dimensions, NEW h \in Sketch, NEW i \in Index, NEW r \in Rho
  PROVE  LET s == Store!applyRegister(h, i, r)
         IN  /\ s \in Sketch /\ Like(s, h) /\ Small(s)
             /\ Store!RegisterSlice(s) = Raised(Store!RegisterSlice(h), i, r)
<1>1. CASE h.sparse
  BY <1>1, SparseInsertRaises DEF Store!applyRegister
<1>2. CASE ~ h.sparse
  <2> DEFINE f == Raised(h.regs, i, r)
             s == WithRegs(h, f)
  <2>1. h.regs \in [Index -> Value]
    BY RecordIs
  <2>2. f = [h.regs EXCEPT ![i] = Store!MaxOf(@, r)] /\ f \in [Index -> Value]
    <3>1. f = [h.regs EXCEPT ![i] = Store!MaxOf(@, r)]
      BY <2>1 DEF Raised
    <3>2. \A j \in Index : f[j] \in Value
      BY <2>1 DEF Raised, Store!MaxOf, Value
    <3> QED
      BY <3>1, <3>2 DEF Raised
  <2>3. Store!applyRegister(h, i, r) = s
    BY <1>2, <2>2 DEF Store!applyRegister, WithRegs
  <2> HIDE DEF f
  <2>4. /\ s \in Sketch /\ s.born = h.born /\ s.sparse = h.sparse /\ s.regs = f
        /\ s.snapshot = h.snapshot /\ s.sent = h.sent
    BY <2>2, OtherRegs
  <2> HIDE DEF s
  <2>5. Store!RegisterSlice(s) = s.regs /\ Store!RegisterSlice(h) = h.regs
    BY <1>2, <2>4, SliceIs
  <2>6. Small(s)
    BY <1>2, <2>4 DEF Small
  <2> QED
    BY <2>3, <2>4, <2>5, <2>6 DEF Like, f
<1> QED
  BY <1>1, <1>2

-----------------------------------------------------------------------------
(* Registers in the order of their indices.                                *)
Ordered(q, S) ==
  /\ q \in [1..Cardinality(S) -> S]
  /\ \A j, k \in DOMAIN q : j < k => q[j] < q[k]

LEMMA OrderExists ==
  ASSUME NEW S, IsFiniteSet(S), S \subseteq Nat
  PROVE  \E q : Ordered(q, S)
<1> DEFINE K == {k \in Nat : \E T \in SUBSET S : Cardinality(T) = k /\ ~ \E q : Ordered(q, T)}
<1>0. \A T \in SUBSET S : IsFiniteSet(T) /\ Cardinality(T) \in Nat
  BY FS_Subset, FS_CardinalityType
<1> SUFFICES ASSUME ~ \E q : Ordered(q, S)
             PROVE  FALSE
  OBVIOUS
<1>1. Cardinality(S) \in K
  BY <1>0
<1>2. K \subseteq Nat
  OBVIOUS
<1>3. PICK n \in K : \A k \in K : n <= k
  BY <1>1, <1>2, LeastNatural
<1>4. PICK T \in SUBSET S : Cardinality(T) = n /\ ~ \E q : Ordered(q, T)
  BY <1>3
<1>5. IsFiniteSet(T) /\ T \subseteq Nat /\ n \in Nat
  BY <1>0, <1>2, <1>3
<1>6. T # {}
  <2> SUFFICES ASSUME T = {}
               PROVE  FALSE
    OBVIOUS
  <2>1. Cardinality(T) = 0
    BY FS_EmptySet
  <2> DEFINE q == [k \in 1..0 |-> 0]
  <2>2. q \in [1..0 -> {}] /\ \A j, k \in 1..0 : j < k => q[j] < q[k]
    OBVIOUS
  <2> HIDE DEF q
  <2>3. Ordered(q, T)
    BY <2>1, <2>2 DEF Ordered
  <2> QED
    BY <1>4, <2>3
<1>7. PICK m \in T : \A k \in T : k <= m
  BY <1>5, <1>6, GreatestExists
<1> DEFINE U == T \ {m}
<1>8. /\ U \in SUBSET S /\ IsFiniteSet(U) /\ Cardinality(U) = n-1 /\ n-1 \in Nat
      /\ \A k \in U : k < m /\ k \in T
  <2>1. U \in SUBSET S /\ \A k \in U : k < m /\ k \in T
    BY <1>5, <1>7
  <2>2. Cardinality(U) = n-1
    BY <1>4, <1>5, FS_RemoveElement
  <2> HIDE DEF U
  <2> QED
    BY <1>0, <2>1, <2>2
<1>9. PICK p : Ordered(p, U)
  <2>1. n-1 \notin K
    BY <1>2, <1>3, <1>5
  <2> HIDE DEF U
  <2> QED
    BY <1>8, <2>1
<1> HIDE DEF U, K
<1> DEFINE q == [k \in 1..n |-> IF k = n THEN m ELSE p[k]]
<1>10. p \in [1..n-1 -> U] /\ \A j, k \in 1..n-1 : j < k => p[j] < p[k]
  BY <1>8, <1>9 DEF Ordered
<1>11. q \in [1..n -> T]
  <2>1. ASSUME NEW k \in 1..n
        PROVE  q[k] \in T
    <3>1. CASE k = n
      BY <3>1
    <3>2. CASE k # n
      <4>1. k \in 1..n-1
        BY <1>5, <3>2
      <4>2. p[k] \in U
        BY <1>10, <4>1
      <4> QED
        BY <1>8, <3>2, <4>2
    <3> QED
      BY <3>1, <3>2
  <2> QED
    BY <2>1
<1>12. ASSUME NEW j \in 1..n, NEW k \in 1..n, j < k
       PROVE  q[j] < q[k]
  <2>1. j \in 1..n-1 /\ q[j] = p[j]
    BY <1>5, <1>12
  <2>2. CASE k = n
    BY <1>8, <1>10, <2>1, <2>2
  <2>3. CASE k # n
    <3>1. k \in 1..n-1 /\ q[k] = p[k]
      BY <1>5, <2>3
    <3> QED
      BY <1>10, <1>12, <2>1, <3>1
  <2> QED
    BY <2>2, <2>3
<1> HIDE DEF q
<1>13. Ordered(q, T)
  BY <1>4, <1>11, <1>12 DEF Ordered
<1> QED
  BY <1>4, <1>13

(* Ascending has every element of the set.                                 *)
LEMMA AscendingIs ==
  ASSUME NEW S, IsFiniteSet(S), S \subseteq Nat
  PROVE  LET q == Store!Ascending(S)
             n == Cardinality(S)
         IN  /\ n \in Nat /\ q \in [1..n -> S] /\ q \in Seq(S) /\ Len(q) = n
             /\ \A j, k \in 1..n : j < k => q[j] < q[k]
             /\ \A i \in S : \E k \in 1..n : q[k] = i
<1> DEFINE q == Store!Ascending(S)
           n == Cardinality(S)
<1>1. n \in Nat
  BY FS_CardinalityType
<1>2. \E r \in [1..Store!Cardinality(S) -> S] : \A j, k \in DOMAIN r : j < k => r[j] < r[k]
  BY OrderExists, CardinalityIs DEF Ordered
<1>3. q \in [1..n -> S] /\ \A j, k \in DOMAIN q : j < k => q[j] < q[k]
  <2>1. q \in [1..Store!Cardinality(S) -> S] /\ \A j, k \in DOMAIN q : j < k => q[j] < q[k]
    BY <1>2 DEF Store!Ascending
  <2> QED
    BY <2>1, CardinalityIs
<1> HIDE DEF q
<1>4. q \in Seq(S) /\ Len(q) = n
  <2> HIDE DEF n
  <2>1. q \in Seq(S)
    BY <1>1, <1>3, SeqDef
  <2> QED
    BY <1>1, <1>3, <2>1, LenProperties
<1>5. \A i \in S : \E k \in 1..n : q[k] = i
  <2>1. \A j, k \in 1..n : q[j] = q[k] => j = k
    <3> SUFFICES ASSUME NEW j \in 1..n, NEW k \in 1..n, q[j] = q[k], j < k \/ k < j
                 PROVE  FALSE
      <4>1. \A j, k \in 1..n : j < k \/ k < j \/ j = k
        BY <1>1
      <4> QED
        BY <4>1
    <3>0. j \in DOMAIN q /\ k \in DOMAIN q
      BY <1>3
    <3>1. q[j] < q[k] \/ q[k] < q[j]
      BY <1>3, <3>0
    <3>2. q[j] \in Nat /\ q[k] \in Nat
      BY <1>3
    <3> QED
      BY <3>1, <3>2
  <2>2. q \in Injection(1..n, S)
    BY <1>3, <2>1 DEF Injection, IsInjective
  <2>3. Cardinality(1..n) = Cardinality(S)
    BY <1>1, FS_Interval
  <2>4. q \in Surjection(1..n, S)
    BY <2>2, <2>3, FS_Injection
  <2> QED
    BY <2>4 DEF Surjection
<1> QED
  BY <1>1, <1>3, <1>4, <1>5 DEF q

-----------------------------------------------------------------------------
(* The entries of another sketch, one after the other.                     *)
AfterIs(h, from, order, n, a) ==
  a = [k \in 0..n |-> IF k = 0 THEN h
                      ELSE Store!applyRegister(a[k-1], order[k], from[order[k]])]

LEMMA AfterExists ==
  ASSUME NEW h, NEW from, NEW order, NEW n \in Nat
  PROVE  \E a : AfterIs(h, from, order, n, a)
<1> DEFINE T == {k \in Nat : ~ \E a : AfterIs(h, from, order, k, a)}
<1> SUFFICES ASSUME T # {}
             PROVE  FALSE
  OBVIOUS
<1>1. PICK m \in T : \A k \in T : m <= k
  <2>1. T \subseteq Nat
    OBVIOUS
  <2> QED
    BY <2>1, LeastNatural
<1>2. m # 0
  <2>1. AfterIs(h, from, order, 0, [k \in 0..0 |-> h])
    BY DEF AfterIs
  <2> QED
    BY <2>1
<1>3. PICK a : AfterIs(h, from, order, m-1, a)
  BY <1>1, <1>2
<1> DEFINE b == [k \in 0..m |-> IF k = m
                  THEN Store!applyRegister(a[m-1], order[m], from[order[m]]) ELSE a[k]]
<1>4. \A k \in 0..m-1 : a[k] = IF k = 0 THEN h
                               ELSE Store!applyRegister(a[k-1], order[k], from[order[k]])
  BY <1>3 DEF AfterIs
<1>5. \A k \in 0..m : b[k] = IF k = 0 THEN h
                             ELSE Store!applyRegister(b[k-1], order[k], from[order[k]])
  BY <1>2, <1>4
<1>6. AfterIs(h, from, order, m, b)
  BY <1>5 DEF AfterIs
<1> QED
  BY <1>6

LEMMA PartialIs ==
  ASSUME Store!Dimensions, NEW f \in Partial
  PROVE  /\ f \in [DOMAIN f -> Rho] /\ DOMAIN f \subseteq Index
         /\ IsFiniteSet(DOMAIN f) /\ DOMAIN f \subseteq Nat
         /\ \A i : Store!At(f, i) \in Value
<1>1. f \in [DOMAIN f -> Rho] /\ DOMAIN f \subseteq Index
  BY DEF Partial
<1>2. IsFiniteSet(Index) /\ Index \subseteq Nat
  BY DEF Store!Dimensions, Store!IsFiniteSet, IsFiniteSet
<1>3. IsFiniteSet(DOMAIN f) /\ DOMAIN f \subseteq Nat
  BY <1>1, <1>2, FS_Subset
<1>4. \A i : Store!At(f, i) \in Value
  BY <1>1 DEF Store!At, Value
<1> QED
  BY <1>1, <1>3, <1>4

(* Register by register the greater of the two.                            *)
Joined(f, g) == [i \in Index |-> Store!MaxOf(f[i], Store!At(g, i))]

LEMMA ApplyAllJoins ==
  ASSUME Store!Dimensions, NEW h \in Sketch, Small(h), NEW from \in Partial
  PROVE  LET s == Store!applyAll(h, from)
         IN  /\ s \in Sketch /\ Like(s, h) /\ Small(s)
             /\ Store!RegisterSlice(s) = Joined(Store!RegisterSlice(h), from)
<1> DEFINE order == Store!Ascending(DOMAIN from)
           n == Len(order)
           a == CHOOSE b : AfterIs(h, from, order, n, b)
           slice == Store!RegisterSlice(h)
<1>1. from \in [DOMAIN from -> Rho] /\ DOMAIN from \subseteq Index
  BY PartialIs
<1>2. /\ n \in Nat /\ order \in [1..n -> DOMAIN from]
      /\ \A i \in DOMAIN from : \E k \in 1..n : order[k] = i
  <2>1. IsFiniteSet(DOMAIN from) /\ DOMAIN from \subseteq Nat
    BY PartialIs
  <2> QED
    BY <2>1, AscendingIs
<1>3. Store!applyAll(h, from) = a[n]
  BY DEF Store!applyAll, AfterIs
<1> HIDE DEF order, n
<1>4. AfterIs(h, from, order, n, a)
  BY <1>2, AfterExists
<1> HIDE DEF a
<1>5. /\ a[0] = h
      /\ \A k \in 1..n : a[k] = Store!applyRegister(a[k-1], order[k], from[order[k]])
  BY <1>2, <1>4 DEF AfterIs
<1>6. slice \in [Index -> Value] /\ Rho \subseteq Nat /\ \A v \in Value : v \in Nat
  BY SliceIs, ValuesAreNat
<1> HIDE DEF slice
<1> DEFINE Upto(k, i) == \E j \in 1..k : order[j] = i
           Is(k) == /\ a[k] \in Sketch /\ Like(a[k], h) /\ Small(a[k])
                    /\ \A i \in Index : Store!RegisterSlice(a[k])[i] =
                         IF Upto(k, i) THEN Store!MaxOf(slice[i], from[i]) ELSE slice[i]
           T == {k \in 0..n : ~ Is(k)}
<1>7. Is(0)
  BY <1>5 DEF Like, slice
<1>8. ASSUME NEW k \in 1..n, Is(k-1)
      PROVE  Is(k)
  <2> DEFINE g == a[k-1]
             i == order[k]
             r == from[i]
             s == Store!applyRegister(g, i, r)
  <2>1. i \in DOMAIN from /\ i \in Index /\ r \in Rho
    BY <1>1, <1>2
  <2>2. a[k] = s
    BY <1>5
  <2>3. g \in Sketch /\ Like(g, h)
    BY <1>8
  <2>4. \A j \in Index : Store!RegisterSlice(g)[j] =
          IF Upto(k-1, j) THEN Store!MaxOf(slice[j], from[j]) ELSE slice[j]
    BY <1>8
  <2>5. \A j : Upto(k, j) <=> Upto(k-1, j) \/ j = i
    <3>1. \A l : l \in 1..k <=> l \in 1..k-1 \/ l = k
      BY <1>2
    <3> QED
      BY <3>1
  <2> HIDE DEF g, i, r, Upto
  <2>6. /\ s \in Sketch /\ Like(s, g) /\ Small(s)
        /\ Store!RegisterSlice(s) = Raised(Store!RegisterSlice(g), i, r)
    BY <2>1, <2>3, ApplyRaises
  <2> HIDE DEF s
  <2>7. ASSUME NEW j \in Index
        PROVE  Store!RegisterSlice(s)[j] =
                 IF Upto(k, j) THEN Store!MaxOf(slice[j], from[j]) ELSE slice[j]
    <3>1. Store!RegisterSlice(s)[j] = IF j = i THEN Store!MaxOf(Store!RegisterSlice(g)[j], r)
                                      ELSE Store!RegisterSlice(g)[j]
      BY <2>6 DEF Raised
    <3>2. CASE j = i
      <4>1. r = from[j] /\ r \in Nat /\ slice[j] \in Nat
        BY <1>6, <2>1, <3>2 DEF r
      <4>2. Store!RegisterSlice(g)[j] = Store!MaxOf(slice[j], r)
            \/ Store!RegisterSlice(g)[j] = slice[j]
        BY <2>4, <4>1
      <4>3. Store!RegisterSlice(s)[j] = Store!MaxOf(slice[j], r)
        BY <3>1, <3>2, <4>1, <4>2 DEF Store!MaxOf
      <4> QED
        BY <2>5, <3>2, <4>1, <4>3
    <3>3. CASE j # i
      BY <2>4, <2>5, <3>1, <3>3
    <3> QED
      BY <3>2, <3>3
  <2>8. Like(a[k], h)
    BY <2>2, <2>3, <2>6 DEF Like
  <2> QED
    BY <2>2, <2>6, <2>7, <2>8
<1> HIDE DEF Is
<1>9. T = {}
  <2> SUFFICES ASSUME T # {}
               PROVE  FALSE
    OBVIOUS
  <2>1. T \subseteq Nat
    OBVIOUS
  <2>2. PICK m \in T : \A k \in T : m <= k
    BY <2>1, LeastNatural
  <2>3. m # 0
    BY <1>7
  <2>4. m \in 1..n /\ m-1 \in 0..n /\ m-1 \notin T
    BY <1>2, <2>1, <2>2, <2>3
  <2> QED
    BY <1>8, <2>4
<1>10. Is(n)
  BY <1>2, <1>9
<1>11. ASSUME NEW i \in Index
       PROVE  Store!RegisterSlice(a[n])[i] = Store!MaxOf(slice[i], Store!At(from, i))
  <2>1. Store!RegisterSlice(a[n])[i] =
          IF Upto(n, i) THEN Store!MaxOf(slice[i], from[i]) ELSE slice[i]
    BY <1>10 DEF Is
  <2>2. Upto(n, i) <=> i \in DOMAIN from
    BY <1>2
  <2> HIDE DEF Upto
  <2>3. slice[i] \in Nat
    BY <1>6
  <2>4. CASE i \in DOMAIN from
    BY <2>1, <2>2, <2>4 DEF Store!At
  <2>5. CASE i \notin DOMAIN from
    BY <2>1, <2>2, <2>3, <2>5 DEF Store!At, Store!MaxOf
  <2> QED
    BY <2>4, <2>5
<1>12. a[n] \in Sketch /\ Like(a[n], h) /\ Small(a[n])
  BY <1>10 DEF Is
<1>13. Store!RegisterSlice(a[n]) = Joined(slice, from)
  <2>1. Store!RegisterSlice(a[n]) \in [Index -> Value]
    BY <1>12, SliceIs
  <2> QED
    BY <1>11, <2>1 DEF Joined
<1> QED
  BY <1>3, <1>12, <1>13 DEF slice

-----------------------------------------------------------------------------
(* The packed form.                                                        *)
IndexIs(packed, n, x) ==
  x = [k \in 0..n |-> IF k = 0 THEN 0 ELSE x[k-1] + packed[k][1]]

(* Unpacking gives back what was packed.                                   *)
LEMMA UnpackIs ==
  ASSUME Store!Dimensions, NEW f \in Partial
  PROVE  Store!unpack(Store!pack(f)) = f
<1> DEFINE q == Store!Ascending(DOMAIN f)
           n == Cardinality(DOMAIN f)
           p == Store!pack(f)
           index == CHOOSE x : IndexIs(p, Len(p), x)
<1>1. f \in [DOMAIN f -> Rho] /\ IsFiniteSet(DOMAIN f) /\ DOMAIN f \subseteq Nat
  BY PartialIs
<1>2. /\ n \in Nat /\ q \in [1..n -> DOMAIN f] /\ \A k \in 1..n : q[k] \in Nat
      /\ \A j, k \in 1..n : j < k => q[j] < q[k]
      /\ \A i \in DOMAIN f : \E k \in 1..n : q[k] = i
  BY <1>1, AscendingIs
<1>3. /\ DOMAIN p = 1..n /\ p = [k \in 1..n |-> p[k]]
      /\ \A k \in 1..n : /\ p[k][1] = q[k] - (IF k = 1 THEN 0 ELSE q[k-1])
                         /\ p[k][2] = f[q[k]]
  <2>1. p = [k \in DOMAIN q |-> <<q[k] - (IF k = 1 THEN 0 ELSE q[k-1]), f[q[k]]>>]
    BY DEF Store!pack
  <2>2. DOMAIN q = 1..n
    BY <1>2
  <2> HIDE DEF p, q, n
  <2> QED
    BY <2>1, <2>2
<1>4. Store!unpack(p) = [i \in {index[k] : k \in DOMAIN p} |->
                           p[CHOOSE k \in DOMAIN p : index[k] = i][2]]
  BY DEF Store!unpack, IndexIs
<1> HIDE DEF q, n, p
<1>5. Len(p) = n
  <2>1. \E S : p \in [1..n -> S]
    <3>1. p \in [1..n -> {p[k] : k \in 1..n}]
      BY <1>3
    <3> QED
      BY <3>1
  <2>2. PICK S : p \in [1..n -> S]
    BY <2>1
  <2>3. p \in Seq(S)
    BY <1>2, <2>2, SeqDef
  <2> QED
    BY <1>2, <1>3, <2>3, LenProperties
<1>6. IndexIs(p, n, index)
  <2> DEFINE x == [k \in 0..n |-> IF k = 0 THEN 0 ELSE q[k]]
  <2>1. ASSUME NEW k \in 0..n
        PROVE  x[k] = IF k = 0 THEN 0 ELSE x[k-1] + p[k][1]
    <3>1. CASE k = 0
      BY <3>1
    <3>2. CASE k = 1
      BY <1>2, <1>3, <3>2
    <3>3. CASE k > 1
      <4>1. k-1 \in 0..n /\ k-1 # 0 /\ k-1 \in 1..n /\ k \in 1..n
        BY <1>2, <3>3
      <4>2. x[k-1] = q[k-1] /\ x[k] = q[k] /\ p[k][1] = q[k] - q[k-1]
        BY <1>3, <3>3, <4>1
      <4>3. q[k] \in Nat /\ q[k-1] \in Nat
        BY <1>2, <4>1
      <4> QED
        BY <3>3, <4>2, <4>3
    <3> QED
      BY <1>2, <3>1, <3>2, <3>3
  <2>2. IndexIs(p, n, x)
    BY <2>1 DEF IndexIs
  <2> QED
    BY <1>5, <2>2
<1> HIDE DEF index
<1>7. /\ index[0] = 0
      /\ \A k \in 1..n : index[k] = index[k-1] + p[k][1]
  BY <1>2, <1>6 DEF IndexIs
<1>8. ASSUME NEW k \in 1..n
      PROVE  index[k] = q[k]
  <2> DEFINE T == {j \in 1..n : index[j] # q[j]}
  <2> SUFFICES ASSUME T # {}
               PROVE  FALSE
    OBVIOUS
  <2>1. T \subseteq Nat
    OBVIOUS
  <2>2. PICK m \in T : \A j \in T : m <= j
    BY <2>1, LeastNatural
  <2>3. m \in 1..n /\ index[m] # q[m] /\ m \in Nat /\ m - 1 \notin T
    BY <2>1, <2>2
  <2>4. CASE m = 1
    BY <1>2, <1>3, <1>7, <2>3, <2>4
  <2>5. CASE m > 1
    <3>1. m-1 \in 1..n /\ m # 1
      BY <1>2, <2>3, <2>5
    <3>2. index[m-1] = q[m-1] /\ p[m][1] = q[m] - q[m-1]
      BY <1>3, <2>3, <3>1
    <3>3. q[m] \in Nat /\ q[m-1] \in Nat
      BY <1>2, <2>3, <3>1
    <3> QED
      BY <1>7, <2>3, <3>2, <3>3
  <2> QED
    BY <2>3, <2>4, <2>5
<1>9. {index[k] : k \in DOMAIN p} = DOMAIN f
  <2>1. {index[k] : k \in DOMAIN p} = {q[k] : k \in 1..n}
    BY <1>3, <1>8
  <2>2. \A i : i \in {q[k] : k \in 1..n} <=> i \in DOMAIN f
    BY <1>2
  <2> QED
    BY <2>1, <2>2
<1>10. ASSUME NEW i \in DOMAIN f
       PROVE  p[CHOOSE k \in DOMAIN p : index[k] = i][2] = f[i]
  <2> DEFINE c == CHOOSE k \in DOMAIN p : index[k] = i
  <2>1. \E k \in DOMAIN p : index[k] = i
    BY <1>2, <1>3, <1>8
  <2>2. c \in DOMAIN p /\ index[c] = i
    BY <2>1
  <2> HIDE DEF c
  <2>3. q[c] = i /\ p[c][2] = f[q[c]]
    BY <1>3, <1>8, <2>2
  <2> QED
    BY <2>3 DEF c
<1>11. f = [i \in DOMAIN f |-> f[i]]
  BY <1>1
<1> QED
  BY <1>4, <1>9, <1>10, <1>11 DEF p

(* The portable state gives back the registers, packed or not.             *)
LEMMA StateIsRead ==
  ASSUME Store!Dimensions, NEW f \in [Index -> Value]
  PROVE  Store!registersFromState(Store!setStateRegisters(f)) = f
<1> DEFINE g == [i \in Store!NonZero(f) |-> f[i]]
           st == Store!setStateRegisters(f)
<1>0. \A v \in Value : v \in Nat /\ (v > 0 <=> v \in Rho)
  BY ValuesAreNat
<1>1. g \in Partial
  <2>1. g \in [Store!NonZero(f) -> Rho] /\ Store!NonZero(f) \subseteq Index
    BY <1>0 DEF Store!NonZero
  <2> HIDE DEF g
  <2> QED
    BY <2>1 DEF Partial
<1>2. CASE Store!Cardinality(Store!NonZero(f)) < Crossover
  <2>1. st = [packed |-> TRUE, registers |-> Store!pack(g)]
    BY <1>2 DEF Store!setStateRegisters
  <2> HIDE DEF st, g
  <2>2. Store!registersFromState(st) = [i \in Index |-> Store!At(Store!unpack(Store!pack(g)), i)]
    BY <2>1 DEF Store!registersFromState
  <2>3. Store!registersFromState(st) = [i \in Index |-> Store!At(g, i)]
    BY <1>1, <2>2, UnpackIs
  <2>4. \A i \in Index : Store!At(g, i) = f[i]
    BY <1>0 DEF g, Store!At, Store!NonZero
  <2> QED
    BY <2>3, <2>4 DEF st
<1>3. CASE ~ (Store!Cardinality(Store!NonZero(f)) < Crossover)
  <2>1. st = [packed |-> FALSE, registers |-> f]
    BY <1>3 DEF Store!setStateRegisters
  <2> HIDE DEF st
  <2> QED
    BY <2>1 DEF Store!registersFromState, st
<1> QED
  BY <1>2, <1>3

-----------------------------------------------------------------------------
(* Sketches that are made anew.                                            *)
WithBorn(h, b) == [h EXCEPT !.born = b]

LEMMA BornChange ==
  ASSUME NEW b, NEW p, NEW l, NEW t, NEW r, NEW o, NEW d, NEW x
  PROVE  WithBorn(Record(b, p, l, t, r, o, d), x) = Record(x, p, l, t, r, o, d)
BY DEF WithBorn, Record

LEMMA BornIs ==
  ASSUME Store!Dimensions
  PROVE  /\ Store!BornSparse \in Sketch /\ Store!BornDense \in Sketch
         /\ Store!BornSparse.sparse = TRUE /\ Store!BornDense.sparse = FALSE
         /\ Entries(Store!BornSparse) = {} /\ Store!BornDense.regs = Store!Zeros
         /\ Store!BornSparse.snapshot = Store!Zeros /\ Store!BornDense.snapshot = Store!Zeros
         /\ Store!BornSparse.sent = <<>> /\ Store!BornDense.sent = <<>>
<1> DEFINE z == Store!Zeros
           e == Store!NoEntries
           yes == TRUE
           no == FALSE
           s == Store!BornSparse
           t == Store!BornDense
<1>1. /\ z \in [Index -> Value] /\ e \in Partial /\ yes \in BOOLEAN /\ no \in BOOLEAN
      /\ DOMAIN e = {}
  BY DEF Store!Zeros, Value, Store!NoEntries, Partial
<1>2. s = Record(yes, yes, e, <<>>, z, z, <<>>)
  BY DEF Store!BornSparse, Record
<1>3. <<>> \in Seq(Entry) /\ <<>> \in Seq(AsDelta) /\ Buffered(<<>>) = {} /\ Listed(e) = {}
  BY <1>1 DEF Buffered, Listed
<1>4. t = WithSparse(WithBorn(s, no), no)
  BY DEF Store!BornDense, WithBorn, WithSparse
<1> HIDE DEF z, e, yes, no, s, t
<1>5. t = Record(no, no, e, <<>>, z, z, <<>>)
  BY <1>2, <1>4, BornChange, RecordChanges
<1>6. s \in Sketch /\ t \in Sketch
  <2>1. /\ Record(yes, yes, e, <<>>, z, z, <<>>) \in Sketch
        /\ Record(no, no, e, <<>>, z, z, <<>>) \in Sketch
    BY <1>1, <1>3, RecordTyped
  <2> QED
    BY <1>2, <1>5, <2>1
<1>7. /\ s.sparse = yes /\ s.sorted = e /\ s.temp = <<>> /\ s.snapshot = z /\ s.sent = <<>>
      /\ t.sparse = no /\ t.regs = z /\ t.snapshot = z /\ t.sent = <<>>
  BY <1>2, <1>5, RecordFields
<1>8. Entries(s) = {}
  BY <1>3, <1>7 DEF Entries
<1> QED
  BY <1>6, <1>7, <1>8 DEF s, t, z, yes, no

(* A sketch keeps its snapshot and its deltas when it is reset.            *)
Cleared(h) == WithSent(WithSnapshot(IF h.born THEN Store!BornSparse ELSE Store!BornDense,
                                    h.snapshot), h.sent)

LEMMA OtherSnapshot ==
  ASSUME NEW h \in Sketch, NEW o \in [Index -> Value], NEW d \in Seq(AsDelta)
  PROVE  LET s == WithSent(WithSnapshot(h, o), d)
         IN  /\ s \in Sketch
             /\ s.born = h.born /\ s.sparse = h.sparse /\ s.sorted = h.sorted
             /\ s.temp = h.temp /\ s.regs = h.regs /\ s.snapshot = o /\ s.sent = d
<1> DEFINE g == WithSnapshot(h, o)
<1>1. /\ g \in Sketch
      /\ g.born = h.born /\ g.sparse = h.sparse /\ g.sorted = h.sorted /\ g.temp = h.temp
      /\ g.regs = h.regs /\ g.snapshot = o
  BY DEF Sketch, WithSnapshot
<1> HIDE DEF g
<1>2. ASSUME g \in Sketch
      PROVE  /\ WithSent(g, d) \in Sketch
             /\ WithSent(g, d).born = g.born /\ WithSent(g, d).sparse = g.sparse
             /\ WithSent(g, d).sorted = g.sorted /\ WithSent(g, d).temp = g.temp
             /\ WithSent(g, d).regs = g.regs /\ WithSent(g, d).snapshot = g.snapshot
             /\ WithSent(g, d).sent = d
  BY <1>2 DEF Sketch, WithSent
<1> QED
  BY <1>1, <1>2 DEF g

(* An empty sketch has registers of 0, in either form.                     *)
LEMMA EmptyIs ==
  ASSUME Store!Dimensions, NEW h \in Sketch,
         h.sparse => Entries(h) = {}, ~ h.sparse => h.regs = Store!Zeros
  PROVE  Store!RegisterSlice(h) = Store!Zeros /\ Small(h)
<1>1. CASE h.sparse
  <2>1. ASSUME NEW i \in Index
        PROVE  Top(h, i) = 0
    <3>1. IsTop({}, i, 0)
      BY DEF IsTop, Value
    <3>2. IsTop({}, i, Top(h, i))
      BY <1>1, TopIs
    <3> QED
      BY <3>1, <3>2, TopIsUnique
  <2>2. Store!RegisterSlice(h) = Store!Zeros
    <3>1. Store!RegisterSlice(h) = [i \in Index |-> Top(h, i)]
      BY <1>1, SliceIs
    <3> QED
      BY <2>1, <3>1 DEF Store!Zeros
  <2>3. Store!NonZero(Store!Zeros) = {}
    BY DEF Store!NonZero, Store!Zeros
  <2>4. Cardinality(Store!NonZero(Store!RegisterSlice(h))) = 0
    BY <2>2, <2>3, FS_EmptySet
  <2>5. 0 < Threshold
    BY DEF Store!Dimensions
  <2> QED
    BY <2>2, <2>4, <2>5 DEF Small
<1>2. CASE ~ h.sparse
  <2>1. Store!RegisterSlice(h) = Store!Zeros
    BY <1>2, SliceIs
  <2> QED
    BY <1>2, <2>1 DEF Small
<1> QED
  BY <1>1, <1>2

LEMMA ClearedIs ==
  ASSUME Store!Dimensions, NEW h \in Sketch
  PROVE  /\ Cleared(h) \in Sketch /\ Like(Cleared(h), h) /\ Small(Cleared(h))
         /\ Store!RegisterSlice(Cleared(h)) = Store!Zeros
<1> DEFINE b == IF h.born THEN Store!BornSparse ELSE Store!BornDense
           s == WithSent(WithSnapshot(b, h.snapshot), h.sent)
<1>1. h.snapshot \in [Index -> Value] /\ h.sent \in Seq(AsDelta)
  BY RecordIs
<1>2. /\ b \in Sketch
      /\ b.sparse => Entries(b) = {}
      /\ ~ b.sparse => b.regs = Store!Zeros
  BY BornIs
<1> HIDE DEF b
<1>3. /\ s \in Sketch /\ s.sparse = b.sparse /\ s.sorted = b.sorted /\ s.temp = b.temp
      /\ s.regs = b.regs /\ s.snapshot = h.snapshot /\ s.sent = h.sent
  BY <1>1, <1>2, OtherSnapshot
<1>4. Cleared(h) = s
  BY DEF Cleared, b
<1> HIDE DEF s
<1>5. Entries(s) = Entries(b)
  BY <1>3 DEF Entries
<1>6. Store!RegisterSlice(s) = Store!Zeros /\ Small(s)
  BY <1>2, <1>3, <1>5, EmptyIs
<1> QED
  BY <1>3, <1>4, <1>6 DEF Like

(* A dense sketch with given registers.                                    *)
Rebuilt(h, f) == WithSent(WithSnapshot(WithRegs(Store!BornDense, f), h.snapshot), h.sent)

LEMMA DenseIs ==
  ASSUME Store!Dimensions, NEW h \in Sketch, NEW f \in [Index -> Value]
  PROVE  /\ Rebuilt(h, f) \in Sketch /\ Like(Rebuilt(h, f), h) /\ Small(Rebuilt(h, f))
         /\ Store!RegisterSlice(Rebuilt(h, f)) = f
         /\ ~ h.sparse => /\ WithRegs(h, f) \in Sketch /\ Like(WithRegs(h, f), h)
                          /\ Small(WithRegs(h, f))
                          /\ Store!RegisterSlice(WithRegs(h, f)) = f
<1> DEFINE no == FALSE
           b == WithRegs(Store!BornDense, f)
           s == WithSent(WithSnapshot(b, h.snapshot), h.sent)
<1>1. h.snapshot \in [Index -> Value] /\ h.sent \in Seq(AsDelta)
  BY RecordIs
<1>2. Store!BornDense \in Sketch /\ Store!BornDense.sparse = no
  BY BornIs
<1> HIDE DEF no
<1>3. b \in Sketch /\ b.sparse = no /\ b.regs = f
  BY <1>2, OtherRegs
<1> HIDE DEF b
<1>4. /\ s \in Sketch /\ s.sparse = no /\ s.regs = f /\ s.snapshot = h.snapshot
      /\ s.sent = h.sent
  BY <1>1, <1>3, OtherSnapshot
<1>5. Rebuilt(h, f) = s
  BY DEF Rebuilt, b
<1> HIDE DEF s
<1>6. ~ s.sparse
  BY <1>4 DEF no
<1>7. Store!RegisterSlice(s) = f /\ Small(s)
  <2>1. Store!RegisterSlice(s) = s.regs
    BY <1>4, <1>6, SliceIs
  <2> QED
    BY <1>4, <1>6, <2>1 DEF Small
<1>8. ASSUME ~ h.sparse
      PROVE  /\ WithRegs(h, f) \in Sketch /\ Like(WithRegs(h, f), h) /\ Small(WithRegs(h, f))
             /\ Store!RegisterSlice(WithRegs(h, f)) = f
  <2> DEFINE t == WithRegs(h, f)
  <2>1. /\ t \in Sketch /\ t.sparse = h.sparse /\ t.regs = f /\ t.snapshot = h.snapshot
        /\ t.sent = h.sent
    BY OtherRegs
  <2> HIDE DEF t
  <2>2. ~ t.sparse
    BY <1>8, <2>1
  <2>3. Store!RegisterSlice(t) = t.regs
    BY <2>1, <2>2, SliceIs
  <2>4. Small(t)
    BY <2>2 DEF Small
  <2> QED
    BY <2>1, <2>3, <2>4 DEF Like, t
<1> QED
  BY <1>4, <1>5, <1>7, <1>8 DEF Like

-----------------------------------------------------------------------------
(* Deltas.                                                                 *)
DeltaAt(h, k, i) == Store!At(Store!unpack(h.sent[k]), i)

(* What the snapshot holds was in a delta.                                 *)
Covered(h) ==
  \A i \in Index : h.snapshot[i] > 0 => \E k \in DOMAIN h.sent : DeltaAt(h, k, i) >= h.snapshot[i]

LEMMA DeltasAre ==
  ASSUME Store!Dimensions, NEW h \in Sketch, NEW k \in DOMAIN h.sent
  PROVE  /\ Store!unpack(h.sent[k]) \in Partial
         /\ \A i : DeltaAt(h, k, i) \in Value /\ DeltaAt(h, k, i) \in Nat
<1>1. h.sent \in Seq(AsDelta)
  BY RecordIs
<1>2. h.sent[k] \in AsDelta
  <2>1. DOMAIN h.sent = 1..Len(h.sent) /\ \A j \in 1..Len(h.sent) : h.sent[j] \in AsDelta
    BY <1>1, LenProperties, ElementOfSeq
  <2> QED
    BY <2>1
<1>3. PICK f \in Partial : h.sent[k] = Store!pack(f)
  BY <1>2 DEF AsDelta
<1>4. Store!unpack(h.sent[k]) = f
  BY <1>3, UnpackIs
<1>5. \A i : DeltaAt(h, k, i) \in Value
  BY <1>3, <1>4, PartialIs DEF DeltaAt
<1> QED
  BY <1>3, <1>4, <1>5, ValuesAreNat

(* What is sent is never changed.                                          *)
Longer(d, c) == \A k \in DOMAIN c : k \in DOMAIN d /\ d[k] = c[k]

LEMMA LikeKeeps ==
  ASSUME NEW h, NEW s, Like(s, h)
  PROVE  (Covered(h) => Covered(s)) /\ Longer(s.sent, h.sent)
BY DEF Like, Covered, DeltaAt, Longer

(* A new snapshot is covered by the delta that is sent with it.            *)
LEMMA SentCovers ==
  ASSUME Store!Dimensions, NEW h \in Sketch, Covered(h), NEW g \in Sketch, Like(g, h)
  PROVE  LET d == Store!ComputeRegisterDelta(h)
             s == WithSnapshot(WithSent(g, Append(g.sent, Store!pack(d))), Store!RegisterSlice(h))
         IN  /\ s \in Sketch /\ Covered(s) /\ Longer(s.sent, h.sent)
             /\ s.sparse = g.sparse /\ s.sorted = g.sorted /\ s.temp = g.temp /\ s.regs = g.regs
<1> DEFINE d == Store!ComputeRegisterDelta(h)
           held == Store!RegisterSlice(h)
           old == h.snapshot
           sent == Append(g.sent, Store!pack(d))
           s == WithSnapshot(WithSent(g, sent), held)
           n == Len(h.sent)
<1>0. /\ \A v \in Value : v \in Nat /\ (v > 0 <=> v \in Rho)
      /\ held \in [Index -> Value] /\ old \in [Index -> Value] /\ h.sent \in Seq(AsDelta)
  BY ValuesAreNat, SliceIs, RecordIs
<1>1. d = [i \in {j \in Index : held[j] > old[j]} |-> held[i]]
  BY DEF Store!ComputeRegisterDelta
<1> HIDE DEF d, held, old
<1>2. d \in Partial
  <2> DEFINE D == {j \in Index : held[j] > old[j]}
  <2>1. \A i \in D : i \in Index /\ held[i] \in Rho
    <3>1. ASSUME NEW i \in D
          PROVE  held[i] \in Rho
      <4>1. held[i] \in Nat /\ old[i] \in Nat /\ held[i] > old[i] /\ held[i] \in Value
        BY <1>0
      <4> QED
        BY <1>0, <4>1
    <3> QED
      BY <3>1
  <2>2. d \in [D -> Rho] /\ D \subseteq Index
    BY <1>1, <2>1
  <2> HIDE DEF D
  <2> QED
    BY <2>2 DEF Partial
<1>3. g.sent = h.sent /\ Store!pack(d) \in AsDelta
  BY <1>2 DEF Like, AsDelta
<1>4. /\ sent \in Seq(AsDelta) /\ n \in Nat /\ DOMAIN sent = 1..n+1 /\ DOMAIN h.sent = 1..n
      /\ sent[n+1] = Store!pack(d) /\ \A k \in 1..n : sent[k] = h.sent[k]
  BY <1>0, <1>3, AppendProperties, LenProperties
<1> HIDE DEF sent, n
<1>5. /\ s \in Sketch /\ s.sparse = g.sparse /\ s.sorted = g.sorted /\ s.temp = g.temp
      /\ s.regs = g.regs /\ s.snapshot = held /\ s.sent = sent
  <2>1. held \in [Index -> Value] /\ sent \in Seq(AsDelta)
    BY <1>0, <1>4
  <2> QED
    BY <2>1, OtherDeltas, SMTT(30)
<1> HIDE DEF s
<1>6. Covered(s)
  <2> SUFFICES ASSUME NEW i \in Index, held[i] > 0
               PROVE  \E k \in 1..n+1 : DeltaAt(s, k, i) >= held[i]
    BY <1>4, <1>5 DEF Covered
  <2>1. held[i] \in Nat /\ old[i] \in Nat
    BY <1>0
  <2>2. CASE held[i] > old[i]
    <3>1. DeltaAt(s, n+1, i) = Store!At(d, i)
      BY <1>2, <1>4, <1>5, UnpackIs DEF DeltaAt
    <3>2. Store!At(d, i) = held[i]
      BY <1>1, <2>2 DEF Store!At
    <3>3. n+1 \in 1..n+1
      BY <1>4
    <3> QED
      BY <2>1, <3>1, <3>2, <3>3
  <2>3. CASE ~ (held[i] > old[i])
    <3>1. old[i] > 0
      BY <2>1, <2>3
    <3>2. PICK k \in 1..n : DeltaAt(h, k, i) >= old[i]
      BY <1>4, <3>1 DEF Covered, old
    <3>3. DeltaAt(s, k, i) = DeltaAt(h, k, i) /\ k \in 1..n+1
      BY <1>4, <1>5, <3>2 DEF DeltaAt
    <3>4. DeltaAt(h, k, i) \in Nat
      BY <1>4, DeltasAre
    <3> QED
      BY <2>1, <2>3, <3>2, <3>3, <3>4
  <2> QED
    BY <2>2, <2>3
<1>7. Longer(s.sent, h.sent)
  BY <1>4, <1>5 DEF Longer
<1> QED
  BY <1>5, <1>6, <1>7 DEF s, sent, d, held

-----------------------------------------------------------------------------
(* A delta that a node was given shows in its registers.                   *)
Shows(e, f) ==
  /\ e[1] \in Node /\ e[2] \in DOMAIN stores[e[1]].sent
  /\ \A i \in Index : DeltaAt(stores[e[1]], e[2], i) <= f[i]

(***************************************************************************)
(* The inductive invariant: the registers are the maxima, a sparse sketch  *)
(* is below the threshold, every snapshot is covered by what was sent, and *)
(* what a node was given shows in its registers.                           *)
(***************************************************************************)
Registers == [Index -> Value]

StoreInv ==
  /\ stores \in [Node -> Sketch]
  /\ shown = [regs |-> shown.regs, got |-> shown.got]
  /\ shown.regs \in [Node -> Registers] /\ shown.got \in [Node -> SUBSET (Node \X Nat)]
  /\ \A n \in Node :
       /\ Small(stores[n]) /\ Covered(stores[n])
       /\ Store!RegisterSlice(stores[n]) = shown.regs[n]
       /\ \A e \in shown.got[n] : Shows(e, shown.regs[n])

LEMMA StepsKeep ==
  ASSUME Store!Dimensions, StoreInv,
         NEW T \in [Node -> Sketch], NEW F \in [Node -> Registers],
         NEW G \in [Node -> SUBSET (Node \X Nat)],
         stores' = T, shown' = [regs |-> F, got |-> G],
         \A n \in Node : /\ Small(T[n]) /\ Covered(T[n]) /\ Store!RegisterSlice(T[n]) = F[n]
                         /\ Longer(T[n].sent, stores[n].sent)
                         /\ \A e \in G[n] : Shows(e, F[n])
  PROVE  StoreInv'
<1>1. shown'.regs = F /\ shown'.got = G /\ shown' = [regs |-> shown'.regs, got |-> shown'.got]
  OBVIOUS
<1>2. ASSUME NEW n \in Node, NEW e \in G[n]
      PROVE  Shows(e, F[n])'
  <2> DEFINE h == stores[e[1]]
             s == T[e[1]]
  <2>1. /\ e[1] \in Node /\ e[2] \in DOMAIN h.sent
        /\ \A i \in Index : DeltaAt(h, e[2], i) <= F[n][i]
    BY <1>2 DEF Shows
  <2>2. e[2] \in DOMAIN s.sent /\ s.sent[e[2]] = h.sent[e[2]]
    BY <2>1 DEF Longer
  <2>3. \A i \in Index : DeltaAt(s, e[2], i) = DeltaAt(h, e[2], i)
    BY <2>2 DEF DeltaAt
  <2>4. \A i \in Index : DeltaAt(s, e[2], i) <= F[n][i]
    BY <2>1, <2>3
  <2> QED
    BY <2>1, <2>2, <2>4 DEF Shows
<1> QED
  BY <1>1, <1>2 DEF StoreInv

LEMMA OneSketch ==
  ASSUME Store!Dimensions, StoreInv, NEW n \in Node,
         NEW s \in Sketch, NEW f \in Registers, NEW g \in SUBSET (Node \X Nat),
         Small(s), Covered(s), Store!RegisterSlice(s) = f, Longer(s.sent, stores[n].sent),
         \A e \in g : Shows(e, f),
         stores' = [stores EXCEPT ![n] = s],
         shown' = [regs |-> [shown.regs EXCEPT ![n] = f], got |-> [shown.got EXCEPT ![n] = g]]
  PROVE  StoreInv'
<1> DEFINE T == [stores EXCEPT ![n] = s]
           F == [shown.regs EXCEPT ![n] = f]
           G == [shown.got EXCEPT ![n] = g]
<1>0. /\ stores \in [Node -> Sketch] /\ shown.regs \in [Node -> Registers]
      /\ shown.got \in [Node -> SUBSET (Node \X Nat)]
      /\ \A m \in Node : /\ Small(stores[m]) /\ Covered(stores[m])
                         /\ Store!RegisterSlice(stores[m]) = shown.regs[m]
                         /\ \A e \in shown.got[m] : Shows(e, shown.regs[m])
  BY DEF StoreInv
<1>1. T \in [Node -> Sketch] /\ F \in [Node -> Registers] /\ G \in [Node -> SUBSET (Node \X Nat)]
  BY <1>0
<1>2. /\ T[n] = s /\ F[n] = f /\ G[n] = g
      /\ \A m \in Node : m # n => T[m] = stores[m] /\ F[m] = shown.regs[m] /\ G[m] = shown.got[m]
  BY <1>0
<1>3. stores' = T /\ shown' = [regs |-> F, got |-> G]
  OBVIOUS
<1> HIDE DEF T, F, G
<1>4. \A m \in Node : Longer(stores[m].sent, stores[m].sent)
  BY DEF Longer
<1>5. ASSUME NEW m \in Node
      PROVE  /\ Small(T[m]) /\ Covered(T[m]) /\ Store!RegisterSlice(T[m]) = F[m]
             /\ Longer(T[m].sent, stores[m].sent)
             /\ \A e \in G[m] : Shows(e, F[m])
  <2>1. CASE m = n
    BY <1>2, <2>1
  <2>2. CASE m # n
    BY <1>0, <1>2, <1>4, <2>2
  <2> QED
    BY <2>1, <2>2
<1> QED
  BY <1>1, <1>3, <1>5, StepsKeep

(* What showed in the registers shows in greater ones.                     *)
LEMMA StillShows ==
  ASSUME Store!Dimensions, StoreInv, NEW n \in Node, NEW f \in Registers,
         \A i \in Index : shown.regs[n][i] <= f[i]
  PROVE  \A e \in shown.got[n] : Shows(e, f)
<1> SUFFICES ASSUME NEW e \in shown.got[n]
             PROVE  Shows(e, f)
  OBVIOUS
<1>1. Shows(e, shown.regs[n]) /\ stores \in [Node -> Sketch] /\ shown.regs[n] \in Registers
  BY DEF StoreInv
<1>2. e[1] \in Node /\ e[2] \in DOMAIN stores[e[1]].sent
  BY <1>1 DEF Shows
<1>3. ASSUME NEW i \in Index
      PROVE  DeltaAt(stores[e[1]], e[2], i) <= f[i]
  <2>1. DeltaAt(stores[e[1]], e[2], i) \in Nat
    BY <1>1, <1>2, DeltasAre
  <2>2. shown.regs[n][i] \in Nat /\ f[i] \in Nat
    BY <1>1, ValuesAreNat DEF Registers
  <2>3. DeltaAt(stores[e[1]], e[2], i) <= shown.regs[n][i]
    BY <1>1 DEF Shows
  <2> QED
    BY <2>1, <2>2, <2>3
<1> QED
  BY <1>2, <1>3 DEF Shows

-----------------------------------------------------------------------------
(* The actions.                                                            *)
LEMMA ShownAre ==
  ASSUME StoreInv, NEW n \in Node, NEW f, NEW g
  PROVE  /\ [shown EXCEPT !.regs[n] = f] = [regs |-> [shown.regs EXCEPT ![n] = f],
                                            got |-> [shown.got EXCEPT ![n] = shown.got[n]]]
         /\ [shown EXCEPT !.regs[n] = f, !.got[n] = g]
              = [regs |-> [shown.regs EXCEPT ![n] = f], got |-> [shown.got EXCEPT ![n] = g]]
         /\ shown = [regs |-> [shown.regs EXCEPT ![n] = shown.regs[n]],
                     got |-> [shown.got EXCEPT ![n] = shown.got[n]]]
<1> DEFINE R == shown.regs
           G == shown.got
<1>1. /\ shown = [regs |-> R, got |-> G]
      /\ R = [R EXCEPT ![n] = R[n]] /\ G = [G EXCEPT ![n] = G[n]]
  BY DEF StoreInv
<1> HIDE DEF R, G
<1>2. [shown EXCEPT !.regs[n] = f] = [regs |-> [R EXCEPT ![n] = f], got |-> G]
  BY <1>1
<1>3. [shown EXCEPT !.regs[n] = f, !.got[n] = g]
        = [regs |-> [R EXCEPT ![n] = f], got |-> [G EXCEPT ![n] = g]]
  <2> DEFINE s == [shown EXCEPT !.regs[n] = f]
  <2>1. [shown EXCEPT !.regs[n] = f, !.got[n] = g] = [s EXCEPT !.got[n] = g]
    OBVIOUS
  <2>2. s = [regs |-> [R EXCEPT ![n] = f], got |-> G]
    BY <1>2
  <2> HIDE DEF s
  <2>3. [s EXCEPT !.got[n] = g] = [regs |-> [R EXCEPT ![n] = f], got |-> [G EXCEPT ![n] = g]]
    BY <2>2
  <2> QED
    BY <2>1, <2>3
<1> QED
  BY <1>1, <1>2, <1>3 DEF R, G

(* The registers that raising one of them gives.                           *)
LEMMA RaisedIs ==
  ASSUME Store!Dimensions, NEW f \in Registers, NEW i \in Index, NEW r \in Rho
  PROVE  /\ Raised(f, i, r) \in Registers /\ \A j \in Index : f[j] <= Raised(f, i, r)[j]
         /\ [f EXCEPT ![i] = Store!MaxOf(@, r)] = Raised(f, i, r)
<1>1. r \in Value /\ Rho \subseteq Nat /\ \A v \in Value : v \in Nat
  BY ValuesAreNat DEF Value
<1>2. ASSUME NEW j \in Index
      PROVE  Raised(f, i, r)[j] \in Value /\ f[j] <= Raised(f, i, r)[j]
  <2>1. f[j] \in Value /\ f[j] \in Nat /\ r \in Nat
    BY <1>1 DEF Registers
  <2> QED
    BY <1>1, <2>1 DEF Raised, Store!MaxOf
<1>3. Raised(f, i, r) \in Registers
  BY <1>2 DEF Raised, Registers
<1>4. [f EXCEPT ![i] = Store!MaxOf(@, r)] = Raised(f, i, r)
  BY DEF Raised, Registers
<1> QED
  BY <1>2, <1>3, <1>4

LEMMA JoinedIs ==
  ASSUME Store!Dimensions, NEW f \in Registers, NEW g, \A i \in Index : Store!At(g, i) \in Value
  PROVE  /\ Joined(f, g) \in Registers
         /\ \A j \in Index : f[j] <= Joined(f, g)[j] /\ Store!At(g, j) <= Joined(f, g)[j]
<1>1. \A v \in Value : v \in Nat
  BY ValuesAreNat
<1>2. ASSUME NEW j \in Index
      PROVE  /\ Joined(f, g)[j] \in Value
             /\ f[j] <= Joined(f, g)[j] /\ Store!At(g, j) <= Joined(f, g)[j]
  <2>1. f[j] \in Value /\ f[j] \in Nat /\ Store!At(g, j) \in Value /\ Store!At(g, j) \in Nat
    BY <1>1 DEF Registers
  <2> QED
    BY <2>1 DEF Joined, Store!MaxOf
<1> QED
  BY <1>2 DEF Joined, Registers

(* One register of one sketch is raised, in whatever way.                  *)
LEMMA RaiseKeeps ==
  ASSUME Store!Dimensions, StoreInv, NEW n \in Node, NEW i \in Index, NEW r \in Rho,
         NEW s \in Sketch, Like(s, stores[n]), Small(s),
         Store!RegisterSlice(s) = Raised(Store!RegisterSlice(stores[n]), i, r),
         stores' = [stores EXCEPT ![n] = s],
         shown' = [shown EXCEPT !.regs[n][i] = Store!MaxOf(@, r)]
  PROVE  StoreInv'
<1> DEFINE f == Raised(shown.regs[n], i, r)
<1>1. /\ Store!RegisterSlice(stores[n]) = shown.regs[n] /\ shown.regs[n] \in Registers
      /\ shown.got[n] \in SUBSET (Node \X Nat) /\ Covered(stores[n])
  BY DEF StoreInv
<1>2. f \in Registers /\ \A j \in Index : shown.regs[n][j] <= f[j]
  BY <1>1, RaisedIs
<1>3. shown' = [shown EXCEPT !.regs[n] = f]
  <2>1. [shown.regs[n] EXCEPT ![i] = Store!MaxOf(@, r)] = f
    BY <1>1, RaisedIs
  <2>2. n \in DOMAIN shown.regs /\ "regs" \in DOMAIN shown
    BY DEF StoreInv
  <2> HIDE DEF f
  <2> QED
    BY <2>1, <2>2
<1> HIDE DEF f
<1>4. Covered(s) /\ Longer(s.sent, stores[n].sent)
  BY <1>1, LikeKeeps
<1>5. \A e \in shown.got[n] : Shows(e, f)
  BY <1>2, StillShows
<1>6. shown' = [regs |-> [shown.regs EXCEPT ![n] = f],
                got |-> [shown.got EXCEPT ![n] = shown.got[n]]]
  BY <1>3, ShownAre
<1>7. Store!RegisterSlice(s) = f
  BY <1>1 DEF f
<1> QED
  BY <1>1, <1>2, <1>4, <1>5, <1>6, <1>7, OneSketch

LEMMA InsertStep ==
  ASSUME Store!Dimensions, StoreInv, NEW n \in Node, NEW i \in Index, NEW r \in Rho,
         Store!InsertWithHash(n, i, r) \/ Store!UpdateRegister(n, i, r)
  PROVE  StoreInv'
<1> DEFINE h == stores[n]
<1>1. stores \in [Node -> Sketch] /\ h \in Sketch
  BY DEF StoreInv
<1>2. CASE Store!InsertWithHash(n, i, r)
  <2> DEFINE s == Store!applyRegister(h, i, r)
  <2>1. stores' = [stores EXCEPT ![n] = s] /\ shown' = [shown EXCEPT !.regs[n][i] = Store!MaxOf(@, r)]
    BY <1>2 DEF Store!InsertWithHash
  <2>2. /\ s \in Sketch /\ Like(s, h) /\ Small(s)
        /\ Store!RegisterSlice(s) = Raised(Store!RegisterSlice(h), i, r)
    BY <1>1, ApplyRaises
  <2> HIDE DEF s
  <2> QED
    BY <2>1, <2>2, RaiseKeeps
<1>3. CASE Store!UpdateRegister(n, i, r)
  <2> DEFINE g == Store!promote(h)
             s == Store!applyRegister(g, i, r)
  <2>1. stores' = [stores EXCEPT ![n] = s] /\ shown' = [shown EXCEPT !.regs[n][i] = Store!MaxOf(@, r)]
    BY <1>3 DEF Store!UpdateRegister
  <2>2. g \in Sketch /\ Like(g, h) /\ Store!RegisterSlice(g) = Store!RegisterSlice(h)
    BY <1>1, PromoteKeeps
  <2> HIDE DEF g
  <2>3. /\ s \in Sketch /\ Like(s, g) /\ Small(s)
        /\ Store!RegisterSlice(s) = Raised(Store!RegisterSlice(g), i, r)
    BY <2>2, ApplyRaises
  <2> HIDE DEF s
  <2>4. Like(s, h)
    BY <2>2, <2>3 DEF Like
  <2> QED
    BY <2>1, <2>2, <2>3, <2>4, RaiseKeeps
<1> QED
  BY <1>2, <1>3

(* A sketch changes its form only.                                         *)
LEMMA FormKeeps ==
  ASSUME Store!Dimensions, StoreInv, NEW n \in Node,
         NEW s \in Sketch, Covered(s), Longer(s.sent, stores[n].sent), Small(s),
         Store!RegisterSlice(s) = Store!RegisterSlice(stores[n]),
         stores' = [stores EXCEPT ![n] = s], shown' = shown
  PROVE  StoreInv'
<1>1. /\ Store!RegisterSlice(stores[n]) = shown.regs[n] /\ shown.regs[n] \in Registers
      /\ shown.got[n] \in SUBSET (Node \X Nat)
      /\ \A e \in shown.got[n] : Shows(e, shown.regs[n])
  BY DEF StoreInv
<1>2. shown' = [regs |-> [shown.regs EXCEPT ![n] = shown.regs[n]],
                got |-> [shown.got EXCEPT ![n] = shown.got[n]]]
  BY ShownAre
<1> QED
  BY <1>1, <1>2, OneSketch

LEMMA SameForm ==
  ASSUME NEW h, NEW s, Small(h), s.sparse = h.sparse \/ ~ s.sparse,
         Store!RegisterSlice(s) = Store!RegisterSlice(h)
  PROVE  Small(s)
BY DEF Small

LEMMA EstimateStep ==
  ASSUME Store!Dimensions, StoreInv, NEW n \in Node, Store!Estimate(n)
  PROVE  StoreInv'
<1> DEFINE h == stores[n]
           s == Store!flush(h)
<1>1. h \in Sketch /\ Small(h) /\ Covered(h)
  BY DEF StoreInv
<1>2. stores' = [stores EXCEPT ![n] = s] /\ shown' = shown
  BY DEF Store!Estimate
<1>3. /\ s \in Sketch /\ Like(s, h) /\ s.sparse = h.sparse
      /\ Store!RegisterSlice(s) = Store!RegisterSlice(h)
  BY <1>1, FlushKeeps
<1> HIDE DEF s
<1>4. Small(s) /\ Covered(s) /\ Longer(s.sent, h.sent)
  BY <1>1, <1>3, SameForm, LikeKeeps
<1> QED
  BY <1>2, <1>3, <1>4, FormKeeps

LEMMA ResetStep ==
  ASSUME Store!Dimensions, StoreInv, NEW n \in Node, Store!Reset(n)
  PROVE  StoreInv'
<1> DEFINE h == stores[n]
           s == Cleared(h)
           z == Store!Zeros
           none == {}
<1>1. h \in Sketch /\ Covered(h)
  BY DEF StoreInv
<1>2. stores' = [stores EXCEPT ![n] = s] /\ shown' = [shown EXCEPT !.regs[n] = z, !.got[n] = none]
  BY DEF Store!Reset, Cleared, WithSent, WithSnapshot
<1>3. s \in Sketch /\ Like(s, h) /\ Small(s) /\ Store!RegisterSlice(s) = z
  BY <1>1, ClearedIs
<1>4. z \in Registers
  BY DEF Store!Zeros, Registers, Value
<1>5. none \in SUBSET (Node \X Nat) /\ \A e \in none : Shows(e, z)
  OBVIOUS
<1> HIDE DEF s, z, none
<1>6. Covered(s) /\ Longer(s.sent, h.sent)
  BY <1>1, <1>3, LikeKeeps
<1>7. shown' = [regs |-> [shown.regs EXCEPT ![n] = z], got |-> [shown.got EXCEPT ![n] = none]]
  BY <1>2, ShownAre
<1> QED
  BY <1>2, <1>3, <1>4, <1>5, <1>6, <1>7, OneSketch

LEMMA RestartStep ==
  ASSUME Store!Dimensions, StoreInv, NEW n \in Node, NEW form, Store!Restart(n, form)
  PROVE  StoreInv'
<1> DEFINE h == stores[n]
           f == Store!RegisterSlice(h)
           s == Rebuilt(h, f)
<1>1. h \in Sketch /\ Covered(h)
  BY DEF StoreInv
<1>2. f \in [Index -> Value] /\ Store!registersFromState(Store!setStateRegisters(f)) = f
  BY <1>1, SliceIs, StateIsRead
<1>3. stores' = [stores EXCEPT ![n] = s] /\ shown' = shown
  <2> DEFINE g == IF form = "portable" THEN Store!registersFromState(Store!setStateRegisters(f))
                  ELSE f
  <2>1. stores' = [stores EXCEPT ![n] = Rebuilt(h, g)] /\ shown' = shown
    BY DEF Store!Restart, Rebuilt, WithSent, WithSnapshot, WithRegs
  <2>2. g = f
    BY <1>2
  <2> HIDE DEF g
  <2> QED
    BY <2>1, <2>2
<1>4. s \in Sketch /\ Like(s, h) /\ Small(s) /\ Store!RegisterSlice(s) = f
  BY <1>1, <1>2, DenseIs
<1> HIDE DEF s
<1>5. Covered(s) /\ Longer(s.sent, h.sent)
  BY <1>1, <1>4, LikeKeeps
<1> QED
  BY <1>3, <1>4, <1>5, FormKeeps

LEMMA SendStep ==
  ASSUME Store!Dimensions, StoreInv, NEW n \in Node, Store!SendDelta(n)
  PROVE  StoreInv'
<1> DEFINE h == stores[n]
           g == IF h.sparse THEN Store!flush(h) ELSE h
           d == Store!ComputeRegisterDelta(h)
           s == WithSnapshot(WithSent(g, Append(g.sent, Store!pack(d))), Store!RegisterSlice(h))
<1>1. h \in Sketch /\ Small(h) /\ Covered(h)
  BY DEF StoreInv
<1>2. stores' = [stores EXCEPT ![n] = s] /\ shown' = shown
  BY DEF Store!SendDelta, WithSnapshot, WithSent
<1>3. /\ g \in Sketch /\ Like(g, h) /\ g.sparse = h.sparse
      /\ Store!RegisterSlice(g) = Store!RegisterSlice(h)
  BY <1>1, FlushKeeps DEF Like
<1> HIDE DEF g
<1>4. /\ s \in Sketch /\ Covered(s) /\ Longer(s.sent, h.sent)
      /\ s.sparse = g.sparse /\ s.sorted = g.sorted /\ s.temp = g.temp /\ s.regs = g.regs
  BY <1>1, <1>3, SentCovers
<1> HIDE DEF s
<1>5. Store!RegisterSlice(s) = Store!RegisterSlice(g)
  <2>1. Entries(s) = Entries(g)
    BY <1>4 DEF Entries
  <2>2. \A i \in Index : Top(s, i) = Top(g, i)
    BY <1>3, <1>4, <2>1, TopIs, TopIsUnique
  <2>3. Store!RegisterSlice(s) = IF g.sparse THEN [i \in Index |-> Top(s, i)] ELSE g.regs
    BY <1>4, SliceIs
  <2>4. Store!RegisterSlice(g) = IF g.sparse THEN [i \in Index |-> Top(g, i)] ELSE g.regs
    BY <1>3, SliceIs
  <2> QED
    BY <2>2, <2>3, <2>4
<1>6. Small(s)
  BY <1>1, <1>3, <1>4, <1>5, SameForm
<1> QED
  BY <1>2, <1>3, <1>4, <1>5, <1>6, FormKeeps

(* A delta raises every register that it has, and counts as given.         *)
LEMMA DeltaGiven ==
  ASSUME StoreInv, NEW n \in Node, NEW f, NEW e
  PROVE  [shown EXCEPT !.regs[n] = f, !.got[n] = @ \cup {e}]
           = [regs |-> [shown.regs EXCEPT ![n] = f],
              got |-> [shown.got EXCEPT ![n] = shown.got[n] \union {e}]]
<1> DEFINE R == shown.regs
           G == shown.got
           s == [shown EXCEPT !.regs[n] = f]
<1>1. shown = [regs |-> R, got |-> G]
  BY DEF StoreInv
<1>2. [shown EXCEPT !.regs[n] = f, !.got[n] = @ \cup {e}] = [s EXCEPT !.got[n] = @ \cup {e}]
  OBVIOUS
<1>3. s = [regs |-> [R EXCEPT ![n] = f], got |-> G]
  <2> HIDE DEF R, G
  <2> QED
    BY <1>1
<1> HIDE DEF R, G, s
<1>4. [s EXCEPT !.got[n] = @ \cup {e}]
        = [regs |-> [R EXCEPT ![n] = f], got |-> [G EXCEPT ![n] = G[n] \union {e}]]
  BY <1>3
<1> QED
  BY <1>2, <1>4 DEF R, G

LEMMA DeltaStep ==
  ASSUME Store!Dimensions, StoreInv, NEW n \in Node, NEW m \in Node,
         NEW k \in DOMAIN stores[n].sent, Store!ApplyRegisterDelta(n, k, m)
  PROVE  StoreInv'
<1> DEFINE h == stores[m]
           into == Store!promote(h)
           delta == Store!unpack(stores[n].sent[k])
           r == shown.regs[m]
           f == Joined(r, delta)
           s == WithRegs(into, f)
           g == shown.got[m] \union {<<n, k>>}
<1>1. /\ h \in Sketch /\ stores[n] \in Sketch /\ Covered(h) /\ Store!RegisterSlice(h) = r
      /\ r \in Registers /\ shown.got[m] \in SUBSET (Node \X Nat)
  BY DEF StoreInv
<1>2. into \in Sketch /\ Like(into, h) /\ ~ into.sparse /\ into.regs = r
  BY <1>1, PromoteKeeps
<1>3. \A i \in Index : Store!At(delta, i) \in Value
  BY <1>1, DeltasAre DEF DeltaAt
<1>4. /\ f \in Registers
      /\ \A j \in Index : r[j] <= f[j] /\ Store!At(delta, j) <= f[j]
  BY <1>1, <1>3, JoinedIs
<1>5. stores' = [stores EXCEPT ![m] = s]
  <2>1. stores' = [stores EXCEPT ![m] = WithRegs(into, Joined(into.regs, delta))]
    BY DEF Store!ApplyRegisterDelta, WithRegs, Joined
  <2> QED
    BY <1>2, <2>1
<1>6. shown' = [regs |-> [shown.regs EXCEPT ![m] = f], got |-> [shown.got EXCEPT ![m] = g]]
  <2>1. shown' = [shown EXCEPT !.regs[m] = f, !.got[m] = @ \cup {<<n, k>>}]
    BY DEF Store!ApplyRegisterDelta, Joined
  <2> HIDE DEF f
  <2> QED
    BY <2>1, DeltaGiven
<1>7. g \in SUBSET (Node \X Nat)
  <2>1. DOMAIN stores[n].sent = 1..Len(stores[n].sent)
    BY <1>1, RecordIs, LenProperties
  <2>2. k \in Nat
    BY <2>1
  <2> QED
    BY <1>1, <2>2
<1>8. \A e \in g : Shows(e, f)
  <2>1. \A e \in shown.got[m] : Shows(e, f)
    BY <1>4, StillShows
  <2>2. Shows(<<n, k>>, f)
    BY <1>4 DEF Shows, DeltaAt
  <2> QED
    BY <2>1, <2>2
<1> HIDE DEF into, delta, f, g
<1>9. s \in Sketch /\ Like(s, into) /\ Small(s) /\ Store!RegisterSlice(s) = f
  BY <1>2, <1>4, DenseIs DEF Registers
<1> HIDE DEF s
<1>10. Like(s, h)
  BY <1>2, <1>9 DEF Like
<1>11. Covered(s) /\ Longer(s.sent, h.sent)
  BY <1>1, <1>10, LikeKeeps
<1> QED
  BY <1>4, <1>5, <1>6, <1>7, <1>8, <1>9, <1>11, OneSketch

(* What Merge reads of the other sketch.                                   *)
ListOf(h) == IF h.sparse THEN Store!flush(h).sorted ELSE h.regs
Both(f, g) == [i \in Index |-> Store!MaxOf(f[i], g[i])]

LEMMA ListIs ==
  ASSUME Store!Dimensions, NEW h \in Sketch
  PROVE  /\ \A i \in Index : Store!At(ListOf(h), i) = Store!RegisterSlice(h)[i]
         /\ h.sparse => ListOf(h) \in Partial
<1>1. CASE h.sparse
  <2>1. \A i \in Index : Store!RegisterSlice(h)[i] = Top(h, i)
    BY <1>1, SliceIs
  <2>2. Store!flush(h).sorted \in Partial
    BY FlushIs, RecordIs
  <2> QED
    BY <1>1, <2>1, <2>2 DEF ListOf, Top
<1>2. CASE ~ h.sparse
  <2>1. h.regs \in [Index -> Value] /\ Store!RegisterSlice(h) = h.regs
    BY <1>2, SliceIs, RecordIs
  <2> QED
    BY <1>2, <2>1 DEF ListOf, Store!At
<1> QED
  BY <1>1, <1>2

(* What becomes of the two sketches of a merge.                            *)
Read(h) == IF h.sparse THEN Store!flush(h) ELSE h

LEMMA ReadKeeps ==
  ASSUME Store!Dimensions, NEW h \in Sketch, Small(h)
  PROVE  /\ Read(h) \in Sketch /\ Like(Read(h), h) /\ Small(Read(h))
         /\ Store!RegisterSlice(Read(h)) = Store!RegisterSlice(h)
<1>1. CASE h.sparse
  <2> DEFINE s == Store!flush(h)
  <2>1. /\ s \in Sketch /\ Like(s, h) /\ s.sparse = h.sparse
        /\ Store!RegisterSlice(s) = Store!RegisterSlice(h)
    BY FlushKeeps
  <2> HIDE DEF s
  <2>2. Small(s)
    BY <2>1, SameForm
  <2> QED
    BY <1>1, <2>1, <2>2 DEF Read, s
<1>2. CASE ~ h.sparse
  BY <1>2 DEF Read, Like
<1> QED
  BY <1>1, <1>2

LEMMA MergeMakes ==
  ASSUME Store!Dimensions, StoreInv, NEW n \in Node, NEW m \in Node, Store!Merge(n, m)
  PROVE  \E s \in Sketch :
           /\ stores' = [stores EXCEPT ![m] = Read(stores[m]), ![n] = s]
           /\ Like(s, stores[n]) /\ Small(s)
           /\ Store!RegisterSlice(s) = Both(shown.regs[n], shown.regs[m])
<1> DEFINE h == stores[n]
           o == stores[m]
<1>1. /\ h \in Sketch /\ Small(h) /\ o \in Sketch /\ Small(o)
      /\ Store!RegisterSlice(h) = shown.regs[n] /\ Store!RegisterSlice(o) = shown.regs[m]
  BY DEF StoreInv
<1>2. \A f : Joined(f, ListOf(o)) = Both(f, shown.regs[m])
  BY <1>1, ListIs DEF Joined, Both
<1>3. CASE h.sparse /\ o.sparse
  <2> DEFINE other == Store!flush(o)
             into == IF n = m THEN other ELSE h
             s == Store!applyAll(into, other.sorted)
  <2>1. stores' = [stores EXCEPT ![m] = other, ![n] = s]
    BY <1>3 DEF Store!Merge, Store!MergeSparse
  <2>2. other = Read(o) /\ other.sorted = ListOf(o)
    BY <1>3 DEF Read, ListOf
  <2>3. other.sorted \in Partial
    BY <1>1, <1>3, <2>2, ListIs
  <2>4. /\ other \in Sketch /\ Like(other, o) /\ Small(other)
        /\ Store!RegisterSlice(other) = Store!RegisterSlice(o)
    BY <1>1, <2>2, ReadKeeps
  <2> HIDE DEF other
  <2>5. /\ into \in Sketch /\ Like(into, h) /\ Small(into)
        /\ Store!RegisterSlice(into) = Store!RegisterSlice(h)
    BY <1>1, <2>4 DEF Like
  <2> HIDE DEF into
  <2>6. /\ s \in Sketch /\ Like(s, into) /\ Small(s)
        /\ Store!RegisterSlice(s) = Joined(Store!RegisterSlice(into), other.sorted)
    BY <2>3, <2>5, ApplyAllJoins
  <2> HIDE DEF s
  <2>7. Store!RegisterSlice(s) = Both(shown.regs[n], shown.regs[m])
    BY <1>1, <1>2, <2>2, <2>5, <2>6
  <2>8. Like(s, h)
    BY <2>5, <2>6 DEF Like
  <2> QED
    BY <2>1, <2>2, <2>6, <2>7, <2>8
<1>4. CASE ~ (h.sparse /\ o.sparse)
  <2> DEFINE into == Store!promote(h)
             f == Joined(into.regs, ListOf(o))
             s == WithRegs(into, f)
  <2>1. stores' = [stores EXCEPT ![m] = Read(o), ![n] = s]
    BY <1>4 DEF Store!Merge, Store!MergeDense, Read, ListOf, WithRegs, Joined
  <2>2. into \in Sketch /\ Like(into, h) /\ ~ into.sparse /\ into.regs = shown.regs[n]
    BY <1>1, PromoteKeeps
  <2>3. f \in [Index -> Value]
    <3>1. shown.regs[n] \in Registers /\ \A i \in Index : Store!At(ListOf(o), i) \in Value
      BY <1>1, ListIs DEF StoreInv, Registers
    <3> QED
      BY <2>2, <3>1, JoinedIs DEF Registers
  <2>4. f = Both(shown.regs[n], shown.regs[m])
    BY <1>2, <2>2
  <2> HIDE DEF into, f
  <2>5. s \in Sketch /\ Like(s, into) /\ Small(s) /\ Store!RegisterSlice(s) = f
    BY <2>2, <2>3, DenseIs
  <2> HIDE DEF s
  <2>6. Like(s, h)
    BY <2>2, <2>5 DEF Like
  <2> QED
    BY <2>1, <2>4, <2>5, <2>6
<1> QED
  BY <1>3, <1>4

LEMMA MergeStep ==
  ASSUME Store!Dimensions, StoreInv, NEW n \in Node, NEW m \in Node, Store!Merge(n, m)
  PROVE  StoreInv'
<1> DEFINE t == Read(stores[m])
           f == Both(shown.regs[n], shown.regs[m])
<1>1. PICK s \in Sketch : /\ stores' = [stores EXCEPT ![m] = t, ![n] = s]
                          /\ Like(s, stores[n]) /\ Small(s) /\ Store!RegisterSlice(s) = f
  BY MergeMakes
<1>0. /\ stores \in [Node -> Sketch] /\ shown.regs \in [Node -> Registers]
      /\ shown.got \in [Node -> SUBSET (Node \X Nat)]
      /\ \A l \in Node : /\ Small(stores[l]) /\ Covered(stores[l])
                         /\ Store!RegisterSlice(stores[l]) = shown.regs[l]
                         /\ \A e \in shown.got[l] : Shows(e, shown.regs[l])
  BY DEF StoreInv
<1>2. /\ t \in Sketch /\ Like(t, stores[m]) /\ Small(t)
      /\ Store!RegisterSlice(t) = shown.regs[m]
  BY <1>0, ReadKeeps
<1>3. f \in Registers /\ \A i \in Index : shown.regs[n][i] <= f[i]
  <2>1. ASSUME NEW i \in Index
        PROVE  f[i] \in Value /\ shown.regs[n][i] <= f[i]
    <3>1. /\ shown.regs[n][i] \in Value /\ shown.regs[m][i] \in Value
          /\ \A v \in Value : v \in Nat
      BY <1>0, ValuesAreNat DEF Registers
    <3> QED
      BY <3>1 DEF Both, Store!MaxOf
  <2> QED
    BY <2>1 DEF Both, Registers
<1> DEFINE T == [stores EXCEPT ![m] = t, ![n] = s]
           F == [shown.regs EXCEPT ![n] = f]
           G == shown.got
<1>4. shown' = [regs |-> F, got |-> G]
  <2>1. shown' = [shown EXCEPT !.regs[n] = f]
    BY DEF Store!Merge, Both
  <2> HIDE DEF f
  <2>2. shown' = [regs |-> F, got |-> [G EXCEPT ![n] = G[n]]]
    BY <2>1, ShownAre
  <2> QED
    BY <1>0, <2>2
<1>5. \A e \in shown.got[n] : Shows(e, f)
  BY <1>3, StillShows
<1> HIDE DEF t, f
<1>6. T \in [Node -> Sketch] /\ F \in [Node -> Registers]
  BY <1>0, <1>2, <1>3
<1>7. /\ T[n] = s /\ (m # n => T[m] = t) /\ F[n] = f
      /\ \A l \in Node : /\ l # n => F[l] = shown.regs[l]
                         /\ l # n /\ l # m => T[l] = stores[l]
  BY <1>0
<1>8. stores' = T
  BY <1>1
<1> HIDE DEF T, F
<1>9. ASSUME NEW l \in Node
      PROVE  /\ Small(T[l]) /\ Covered(T[l]) /\ Store!RegisterSlice(T[l]) = F[l]
             /\ Longer(T[l].sent, stores[l].sent)
             /\ \A e \in G[l] : Shows(e, F[l])
  <2>1. CASE l = n
    BY <1>0, <1>1, <1>5, <1>7, <2>1, LikeKeeps
  <2>2. CASE l # n /\ l = m
    BY <1>0, <1>2, <1>7, <2>2, LikeKeeps
  <2>3. CASE l # n /\ l # m
    BY <1>0, <1>7, <2>3 DEF Longer
  <2> QED
    BY <2>1, <2>2, <2>3
<1> HIDE DEF G
<1>10. G \in [Node -> SUBSET (Node \X Nat)]
  BY <1>0 DEF G
<1> QED
  BY <1>4, <1>6, <1>8, <1>9, <1>10, StepsKeep

LEMMA StoreInit ==
  ASSUME Store!Dimensions, Store!Init
  PROVE  StoreInv
<1> DEFINE z == Store!Zeros
<1>1. /\ stores \in [Node -> {Store!BornSparse, Store!BornDense}]
      /\ shown = [regs |-> [n \in Node |-> z], got |-> [n \in Node |-> {}]]
  BY DEF Store!Init
<1>2. z \in Registers
  BY DEF Store!Zeros, Registers, Value
<1>3. ASSUME NEW h \in {Store!BornSparse, Store!BornDense}
      PROVE  /\ h \in Sketch /\ Small(h) /\ Covered(h) /\ Store!RegisterSlice(h) = z
  <2>1. /\ h \in Sketch /\ h.snapshot = z
        /\ h.sparse => Entries(h) = {}
        /\ ~ h.sparse => h.regs = z
    BY BornIs
  <2>2. Covered(h)
    BY <2>1 DEF Covered, Store!Zeros
  <2> HIDE DEF z
  <2>3. Small(h) /\ Store!RegisterSlice(h) = z
    BY <2>1, EmptyIs DEF z
  <2> QED
    BY <2>1, <2>2, <2>3
<1> HIDE DEF z
<1>4. ASSUME NEW n \in Node
      PROVE  stores[n] \in {Store!BornSparse, Store!BornDense} /\ shown.regs[n] = z
             /\ shown.got[n] = {}
  BY <1>1
<1>5. stores \in [Node -> Sketch]
  BY <1>1, <1>3
<1>6. /\ shown.regs = [n \in Node |-> z] /\ shown.got = [n \in Node |-> {}]
      /\ shown = [regs |-> shown.regs, got |-> shown.got]
  BY <1>1
<1> QED
  BY <1>2, <1>3, <1>4, <1>5, <1>6 DEF StoreInv

LEMMA StoreNext ==
  ASSUME Store!Dimensions, StoreInv, [Store!Next]_(Store!vars)
  PROVE  StoreInv'
<1>1. CASE UNCHANGED Store!vars
  <2>1. stores' = stores /\ shown' = shown
    BY <1>1 DEF Store!vars
  <2> QED
    BY <2>1 DEF StoreInv, Shows
<1>2. CASE Store!Next
  <2>1. Sender \subseteq Node
    BY DEF Store!Dimensions
  <2> QED
    BY <1>2, <2>1, InsertStep, EstimateStep, ResetStep, RestartStep, MergeStep, SendStep,
       DeltaStep
    DEF Store!Next
<1> QED
  BY <1>1, <1>2

LEMMA StoreHolds ==
  ASSUME Store!Dimensions, StoreInv
  PROVE  Store!RegistersAreMaxima /\ Store!DeltasCover
<1>1. ASSUME NEW n \in Node
      PROVE  /\ Store!RegisterSlice(stores[n]) = shown.regs[n]
             /\ stores[n].sparse =>
                  Store!Cardinality(Store!NonZero(shown.regs[n])) < Threshold
  <2>1. Small(stores[n]) /\ Store!RegisterSlice(stores[n]) = shown.regs[n]
    BY DEF StoreInv
  <2> QED
    BY <2>1, CardinalityIs DEF Small
<1>2. ASSUME NEW n \in Sender, NEW m \in Node, NEW i \in Index,
             {<<n, k>> : k \in DOMAIN stores[n].sent} \subseteq shown.got[m]
      PROVE  Store!RegisterSlice(stores[m])[i] >= stores[n].snapshot[i]
  <2> DEFINE h == stores[n]
             r == Store!RegisterSlice(stores[m])
  <2>1. /\ n \in Node /\ h \in Sketch /\ stores[m] \in Sketch /\ Covered(h)
        /\ r = shown.regs[m]
        /\ \A e \in shown.got[m] : Shows(e, r)
    BY DEF StoreInv, Store!Dimensions
  <2>2. h.snapshot[i] \in Nat /\ r[i] \in Nat
    <3>1. h.snapshot[i] \in Value /\ r[i] \in Value
      BY <2>1, RecordIs, SliceIs
    <3> QED
      BY <3>1, ValuesAreNat
  <2>3. CASE h.snapshot[i] = 0
    BY <2>2, <2>3
  <2>4. CASE h.snapshot[i] > 0
    <3>1. PICK k \in DOMAIN h.sent : DeltaAt(h, k, i) >= h.snapshot[i]
      BY <2>1, <2>4 DEF Covered
    <3>2. Shows(<<n, k>>, r)
      BY <1>2, <2>1, <3>1
    <3>3. DeltaAt(h, k, i) <= r[i]
      BY <3>2 DEF Shows
    <3>4. DeltaAt(h, k, i) \in Nat
      BY <2>1, DeltasAre
    <3> QED
      BY <2>2, <3>1, <3>3, <3>4
  <2> QED
    BY <2>2, <2>3, <2>4
<1> QED
  BY <1>1, <1>2 DEF Store!RegistersAreMaxima, Store!DeltasCover

(***************************************************************************)
(* sparseStore, promote and the register deltas: in either form, and       *)
(* through any mix of inserts, flushes, promotions, merges, resets,        *)
(* serialized forms and deltas that arrive late, twice or in another       *)
(* order, the registers are the maxima of what was inserted and merged, a  *)
(* sketch that is still sparse is below the threshold, and whoever got     *)
(* every delta of a sender holds all that the sender held at the last.     *)
(***************************************************************************)
THEOREM StoreKeepsMaxima ==
  ASSUME Store!Dimensions
  PROVE  Store!Spec => [](Store!RegistersAreMaxima /\ Store!DeltasCover)
<1>1. Store!Init => StoreInv
  BY StoreInit
<1>2. StoreInv /\ [Store!Next]_(Store!vars) => StoreInv'
  BY StoreNext
<1>3. StoreInv => Store!RegistersAreMaxima /\ Store!DeltasCover
  BY StoreHolds
<1> QED
  BY <1>1, <1>2, <1>3, PTL DEF Store!Spec

-----------------------------------------------------------------------------
(* CocoSketch.  Any sketches, keys, rows, columns and hash functions, and  *)
(* whichever key wins a replacement.                                       *)
CONSTANTS NumRows, NumCols
VARIABLES tables, added

Coco == INSTANCE CocoSketch WITH d <- NumRows, length <- NumCols, sk <- tables, seen <- added

CocoBucket == {Coco!NoBucket} \union (Key \X Nat)
CocoTable == [Coco!Row -> [Coco!Col -> CocoBucket]]
Cell == Coco!Row \X Coco!Col
Val(b) == IF b = Coco!NoBucket THEN 0 ELSE b[2]
Vals(t) == [p \in Cell |-> Val(t[p[1]][p[2]])]
Total(t) == SumFunctionOnSet(Vals(t), Cell)

(* A bucket that is not empty is one of its key's, and none of the key's   *)
(* buckets above it is empty or has the key: the scan for the key comes as *)
(* far as here.                                                            *)
Reached(t, k, r) == \A q \in 1..r-1 : Coco!At(t, k, q) # Coco!NoBucket /\ Coco!At(t, k, q)[1] # k
Settled(t) ==
  /\ t \in CocoTable
  /\ \A r \in Coco!Row, c \in Coco!Col : t[r][c] # Coco!NoBucket =>
       ColOf[t[r][c][1]][r] = c /\ Reached(t, t[r][c][1], r)

LEMMA BucketIs ==
  /\ \A b \in CocoBucket : /\ b # Coco!NoBucket => b[1] \in Key /\ b[2] \in Nat
                           /\ Val(b) \in Nat
  /\ \A k \in Key, v \in Nat : LET b == <<k, v>> IN
       b \in CocoBucket /\ b # Coco!NoBucket /\ b[1] = k /\ b[2] = v /\ Val(b) = v
  /\ Coco!NoBucket \in CocoBucket /\ Val(Coco!NoBucket) = 0
BY DEF CocoBucket, Val, Coco!NoBucket

LEMMA GridIs ==
  ASSUME Coco!Dimensions
  PROVE  /\ Coco!Row = 1..NumRows /\ Coco!Col = 1..NumCols
         /\ NumRows \in Nat \ {0} /\ NumCols \in Nat \ {0}
         /\ IsFiniteSet(Coco!Row) /\ IsFiniteSet(Coco!Col) /\ IsFiniteSet(Cell) /\ IsFiniteSet(Key)
         /\ \A k \in Key, r \in Coco!Row : ColOf[k][r] \in Coco!Col
<1>1. /\ Coco!Row = 1..NumRows /\ Coco!Col = 1..NumCols
      /\ NumRows \in Nat \ {0} /\ NumCols \in Nat \ {0} /\ IsFiniteSet(Key)
      /\ ColOf \in [Key -> [Coco!Row -> Coco!Col]]
  BY DEF Coco!Dimensions, Coco!Row, Coco!Col, Coco!IsFiniteSet, IsFiniteSet
<1>2. IsFiniteSet(Coco!Row) /\ IsFiniteSet(Coco!Col)
  BY <1>1, FS_Interval
<1>3. IsFiniteSet(Cell)
  BY <1>2, FS_Product DEF Cell
<1> QED
  BY <1>1, <1>2, <1>3

LEMMA TotalIsNat ==
  ASSUME Coco!Dimensions, NEW t \in CocoTable
  PROVE  /\ Total(t) \in Nat
         /\ \A r \in Coco!Row, c \in Coco!Col : t[r][c] \in CocoBucket
         /\ \A p \in Cell : Vals(t)[p] \in Nat /\ Vals(t)[p] = Val(t[p[1]][p[2]])
<1>1. \A r \in Coco!Row, c \in Coco!Col : t[r][c] \in CocoBucket
  BY DEF CocoTable
<1>2. \A p \in Cell : Vals(t)[p] \in Nat /\ Vals(t)[p] = Val(t[p[1]][p[2]])
  BY <1>1, BucketIs DEF Vals, Cell
<1>3. Total(t) \in Nat
  BY <1>2, GridIs, SetSumNat DEF Total
<1> QED
  BY <1>1, <1>2, <1>3

(* One bucket changes: v is added to it and its key stays, or k takes it,  *)
(* which so far has no bucket, and finds none of its own that is empty     *)
(* above this one.                                                         *)
LEMMA PutKeeps ==
  ASSUME Coco!Dimensions, NEW t, Settled(t), NEW k \in Key, NEW v \in Nat, NEW r \in Coco!Row,
         NEW owner \in Key,
         \/ Coco!At(t, k, r) # Coco!NoBucket /\ owner = Coco!At(t, k, r)[1]
         \/ /\ owner = k /\ Reached(t, k, r)
            /\ \A q \in Coco!Row : Coco!At(t, k, q) # Coco!NoBucket => Coco!At(t, k, q)[1] # k
               \/ q <= r
            /\ Coco!At(t, k, r) = Coco!NoBucket \/ Coco!At(t, k, r)[1] # k
  PROVE  LET u == Coco!Put(t, k, r, <<owner, Val(Coco!At(t, k, r)) + v>>)
         IN  Settled(u) /\ Total(u) = Total(t) + v
<1> DEFINE c == ColOf[k][r]
           old == Coco!At(t, k, r)
           new == <<owner, Val(old) + v>>
           u == Coco!Put(t, k, r, new)
<1>1. /\ Coco!Row = 1..NumRows /\ c \in Coco!Col /\ t \in CocoTable /\ old \in CocoBucket
      /\ old = t[r][c] /\ NumRows \in Nat
  BY GridIs, TotalIsNat DEF Settled, Coco!At
<1>2. /\ new \in CocoBucket /\ new # Coco!NoBucket /\ new[1] = owner /\ Val(new) = Val(old) + v
      /\ Val(old) \in Nat
  BY <1>1, BucketIs
<1> HIDE DEF c, new, old
<1>3. /\ u \in CocoTable
      /\ \A q \in Coco!Row, x \in Coco!Col :
           u[q][x] = IF q = r /\ x = c THEN new ELSE t[q][x]
  <2>1. u = [t EXCEPT ![r][c] = new]
    BY DEF Coco!Put, c
  <2>2. \A q \in Coco!Row : t[q] \in [Coco!Col -> CocoBucket]
    BY <1>1 DEF CocoTable
  <2>3. t \in [Coco!Row -> [Coco!Col -> CocoBucket]]
    BY <1>1 DEF CocoTable
  <2>4. u \in [Coco!Row -> [Coco!Col -> CocoBucket]]
    BY <1>1, <1>2, <2>1, <2>2, <2>3
  <2> QED
    BY <1>1, <1>2, <2>1, <2>2, <2>3, <2>4 DEF CocoTable
<1> HIDE DEF u
<1>4. \A q \in Coco!Row, j \in Key :
        Coco!At(u, j, q) = IF q = r /\ ColOf[j][q] = c THEN new ELSE Coco!At(t, j, q)
  BY <1>3, GridIs DEF Coco!At
<1>5. ASSUME NEW q \in Coco!Row, NEW x \in Coco!Col, u[q][x] # Coco!NoBucket
      PROVE  ColOf[u[q][x][1]][q] = x /\ Reached(u, u[q][x][1], q)
  <2> DEFINE j == u[q][x][1]
  <2>1. j \in Key
    BY <1>3, <1>5, BucketIs, TotalIsNat
  <2>2. CASE q = r /\ x = c
    <3>1. j = owner
      BY <1>2, <1>3, <2>2
    <3>2. ColOf[owner][r] = c /\ Reached(t, owner, r)
      BY <1>1 DEF Settled, old, c
    <3>3. \A i \in 1..r-1 : Coco!At(u, owner, i) = Coco!At(t, owner, i)
      BY <1>1, <1>4
    <3> QED
      BY <2>2, <3>1, <3>2, <3>3 DEF Reached
  <2>3. CASE ~ (q = r /\ x = c)
    <3>1. u[q][x] = t[q][x]
      BY <1>3, <2>3
    <3>2. ColOf[j][q] = x /\ Reached(t, j, q)
      BY <1>5, <3>1 DEF Settled
    <3>3. ASSUME NEW i \in 1..q-1
          PROVE  Coco!At(u, j, i) # Coco!NoBucket /\ Coco!At(u, j, i)[1] # j
      <4>1. i \in Coco!Row /\ Coco!At(t, j, i) # Coco!NoBucket /\ Coco!At(t, j, i)[1] # j
        BY <1>1, <3>2 DEF Reached
      <4>2. CASE i = r /\ ColOf[j][i] = c
        <5>1. Coco!At(u, j, i) = new /\ Coco!At(t, j, i) = old
          BY <1>1, <1>4, <2>1, <4>1, <4>2 DEF Coco!At
        <5>2. owner # j
          <6>1. CASE old # Coco!NoBucket /\ owner = old[1]
            BY <4>1, <5>1, <6>1
          <6>2. CASE owner = k /\ j = k
            <7>1. Coco!At(t, k, q) = t[q][x]
              BY <3>2, <6>2 DEF Coco!At
            <7>2. t[q][x] # Coco!NoBucket /\ t[q][x][1] = k
              BY <1>5, <3>1, <6>2
            <7>3. r < q
              BY <1>1, <4>2
            <7> QED
              BY <1>1, <4>1, <5>1, <7>1, <7>2, <7>3 DEF old
          <6> QED
            BY <6>1, <6>2 DEF old
        <5> QED
          BY <1>2, <5>1, <5>2
      <4>3. CASE ~ (i = r /\ ColOf[j][i] = c)
        <5>1. Coco!At(u, j, i) = Coco!At(t, j, i)
          BY <1>4, <2>1, <4>1, <4>3
        <5> QED
          BY <4>1, <5>1
      <4> QED
        BY <4>2, <4>3
    <3> QED
      BY <3>2, <3>3 DEF Reached
  <2> QED
    BY <2>2, <2>3
<1>6. Settled(u)
  BY <1>3, <1>5 DEF Settled
<1>7. Total(u) = Total(t) + v
  <2> DEFINE p == <<r, c>>
             f == Vals(t)
             g == Vals(u)
  <2>1. /\ p \in Cell /\ p[1] = r /\ p[2] = c
        /\ \A x \in Cell : x[1] \in Coco!Row /\ x[2] \in Coco!Col /\ x = <<x[1], x[2]>>
    BY <1>1 DEF Cell
  <2>2. g[p] = f[p] + v
    BY <1>1, <1>2, <1>3, <2>1, TotalIsNat DEF old
  <2>3. \A x \in Cell \ {p} : g[x] = f[x]
    <3> SUFFICES ASSUME NEW x \in Cell, x # p
                 PROVE  g[x] = f[x]
      OBVIOUS
    <3>1. ~ (x[1] = r /\ x[2] = c)
      BY <2>1
    <3>2. u[x[1]][x[2]] = t[x[1]][x[2]]
      BY <1>3, <2>1, <3>1
    <3> QED
      BY <1>1, <1>3, <3>2, TotalIsNat
  <2>4. \A x \in Cell : f[x] \in Int
    BY <1>1, TotalIsNat
  <2> HIDE DEF f, g, p
  <2>5. SumFunctionOnSet(g, Cell) = SumFunctionOnSet(f, Cell) + v
    BY <2>1, <2>2, <2>3, <2>4, GridIs, SetSumBump
  <2> QED
    BY <2>5 DEF Total, f, g
<1> QED
  BY <1>6, <1>7 DEF u, new, old

(* The smallest of the buckets, and the first of these.                    *)
LEMMA MinRowIs ==
  ASSUME Coco!Dimensions, NEW t \in CocoTable, NEW k \in Key,
         \A r \in Coco!Row : Coco!At(t, k, r) # Coco!NoBucket
  PROVE  Coco!minRow(t, k) \in Coco!Row
<1> DEFINE val == [r \in Coco!Row |-> Coco!At(t, k, r)[2]]
           V == {val[r] : r \in Coco!Row}
<1>1. \A r \in Coco!Row : val[r] \in Nat /\ r \in Nat
  BY GridIs, BucketIs, TotalIsNat DEF Coco!At
<1>2. 1 \in Coco!Row
  BY GridIs
<1>3. \A r \in Coco!Row : val[r] = Coco!At(t, k, r)[2]
  OBVIOUS
<1> HIDE DEF val
<1>4. PICK v \in V : \A w \in V : v <= w
  BY <1>1, <1>2, LeastNatural
<1> DEFINE R == {r \in Coco!Row : val[r] = v}
<1>5. PICK r \in R : \A q \in R : r <= q
  <2>1. R \subseteq Nat /\ R # {}
    BY <1>1, <1>4
  <2> QED
    BY <2>1, LeastNatural
<1>6. ASSUME NEW o \in Coco!Row
      PROVE  val[r] < val[o] \/ (val[r] = val[o] /\ r <= o)
  BY <1>1, <1>4, <1>5
<1>7. r \in Coco!Row /\ \A o \in Coco!Row :
        \/ Coco!At(t, k, r)[2] < Coco!At(t, k, o)[2]
        \/ Coco!At(t, k, r)[2] = Coco!At(t, k, o)[2] /\ r <= o
  BY <1>3, <1>5, <1>6
<1> QED
  BY <1>7 DEF Coco!minRow

(* The first row where the scan stops.                                     *)
LEMMA FirstStop ==
  ASSUME Coco!Dimensions, NEW S \in SUBSET Coco!Row, S # {}
  PROVE  Coco!Min(S) \in S /\ \A q \in S : Coco!Min(S) <= q
<1>1. S \subseteq Nat
  BY GridIs
<1>2. PICK m \in S : \A q \in S : m <= q
  BY <1>1, LeastNatural
<1> QED
  BY <1>2 DEF Coco!Min

(* Whatever insertKeyValue decides, it adds v to one bucket.               *)
LEMMA CocoInsertKeeps ==
  ASSUME Coco!Dimensions, NEW t, Settled(t), NEW k \in Key, NEW v \in Nat,
         NEW u \in Coco!insertKeyValue(t, k, v)
  PROVE  Settled(u) /\ Total(u) = Total(t) + v
<1> DEFINE S == Coco!Stops(t, k)
           at(r) == Coco!At(t, k, r)
<1>1. /\ t \in CocoTable /\ Coco!Row = 1..NumRows /\ NumRows \in Nat
      /\ \A r \in Coco!Row : at(r) \in CocoBucket
      /\ \A r \in Coco!Row : r \in S <=> r \in Coco!Row /\ (at(r) = Coco!NoBucket \/ at(r)[1] = k)
  BY GridIs, TotalIsNat DEF Settled, Coco!At, Coco!Stops, Coco!Has
<1>2. S \subseteq Coco!Row
  BY DEF Coco!Stops
<1>3. \A r \in Coco!Row : at(r) # Coco!NoBucket =>
        at(r)[1] \in Key /\ Val(at(r)) = at(r)[2] /\ Val(at(r)) \in Nat
  BY <1>1, BucketIs DEF Val
<1>4. CASE S # {}
  <2> DEFINE r == Coco!Min(S)
  <2>1. r \in S /\ r \in Coco!Row /\ \A q \in S : r <= q
    BY <1>2, <1>4, FirstStop
  <2>2. Val(at(r)) = (IF Coco!Has(at(r), k) THEN at(r)[2] ELSE 0) /\ Val(at(r)) \in Nat
    BY <1>1, <1>3, <2>1, BucketIs DEF Coco!Has
  <2>3. u = Coco!Put(t, k, r, <<k, v + Val(at(r))>>)
    BY <1>4, <2>2 DEF Coco!insertKeyValue
  <2> HIDE DEF r, S
  <2>4. u = Coco!Put(t, k, r, <<k, Val(at(r)) + v>>)
    BY <2>2, <2>3
  <2>5. Reached(t, k, r)
    <3>1. \A q \in 1..r-1 : q \in Coco!Row /\ q \notin S
      BY <1>1, <2>1
    <3> QED
      BY <1>1, <3>1 DEF Reached
  <2>6. CASE at(r) = Coco!NoBucket
    <3>1. ASSUME NEW q \in Coco!Row, at(q) # Coco!NoBucket, at(q)[1] = k, ~ (q <= r)
          PROVE  FALSE
      <4>1. at(q) = t[q][ColOf[k][q]] /\ ColOf[k][q] \in Coco!Col
        BY GridIs DEF Coco!At
      <4>2. Reached(t, k, q)
        BY <3>1, <4>1 DEF Settled
      <4>3. r \in 1..q-1
        BY <1>1, <2>1, <3>1
      <4> QED
        BY <2>6, <4>2, <4>3 DEF Reached
    <3> QED
      BY <2>1, <2>4, <2>5, <2>6, <3>1, PutKeeps
  <2>7. CASE at(r) # Coco!NoBucket
    <3>1. at(r)[1] = k
      BY <1>1, <2>1, <2>7
    <3> QED
      BY <2>1, <2>4, <2>7, <3>1, PutKeeps
  <2> QED
    BY <2>6, <2>7
<1>5. CASE S = {}
  <2> DEFINE r == Coco!minRow(t, k)
  <2>1. r \in Coco!Row
    BY <1>1, <1>5, MinRowIs
  <2>2. /\ \A q \in Coco!Row : at(q) # Coco!NoBucket /\ at(q)[1] # k
        /\ at(r)[1] \in Key /\ Val(at(r)) = at(r)[2] /\ Val(at(r)) \in Nat
    BY <1>1, <1>3, <1>5, <2>1
  <2>3. PICK owner \in {at(r)[1], k} : u = Coco!Put(t, k, r, <<owner, at(r)[2] + v>>)
    BY <1>5 DEF Coco!insertKeyValue
  <2> HIDE DEF r, S
  <2>4. u = Coco!Put(t, k, r, <<owner, Val(at(r)) + v>>)
    BY <2>2, <2>3
  <2>5. Reached(t, k, r)
    BY <1>1, <2>1, <2>2 DEF Reached
  <2> QED
    BY <2>1, <2>2, <2>3, <2>4, <2>5, PutKeeps
<1> QED
  BY <1>4, <1>5

(* All of these tables are settled and hold m.                             *)
Hold(ts, m) == \A t \in ts : Settled(t) /\ Total(t) = m

LEMMA AbsorbHolds ==
  ASSUME Coco!Dimensions, NEW ts, NEW m \in Nat, Hold(ts, m), NEW b \in CocoBucket
  PROVE  Hold(Coco!absorb(ts, b), m + Val(b))
<1>1. CASE b = Coco!NoBucket
  <2>1. Coco!absorb(ts, b) = ts /\ Val(b) = 0
    BY <1>1, BucketIs DEF Coco!absorb
  <2> QED
    BY <2>1
<1>2. CASE b # Coco!NoBucket
  <2>1. b[1] \in Key /\ b[2] \in Nat /\ Val(b) = b[2]
    BY <1>2, BucketIs DEF Val
  <2>2. Coco!absorb(ts, b) = UNION {Coco!insertKeyValue(t, b[1], b[2]) : t \in ts}
    BY <1>2 DEF Coco!absorb
  <2> SUFFICES ASSUME NEW t \in ts, NEW u \in Coco!insertKeyValue(t, b[1], b[2])
               PROVE  Settled(u) /\ Total(u) = m + Val(b)
    BY <2>2 DEF Hold
  <2>3. Settled(t) /\ Total(t) = m
    BY DEF Hold
  <2> QED
    BY <2>1, <2>3, CocoInsertKeeps
<1> QED
  BY <1>1, <1>2

(* The loops of Merge: one bucket after the other, one row after the other.*)
RowIs(ts, row, n, f) ==
  f = [c \in 0..n |-> IF c = 0 THEN ts ELSE Coco!absorb(f[c-1], row[c])]

LEMMA RowExists ==
  ASSUME NEW ts, NEW row, NEW n \in Nat
  PROVE  \E f : RowIs(ts, row, n, f)
<1> DEFINE T == {k \in Nat : ~ \E f : RowIs(ts, row, k, f)}
<1> SUFFICES ASSUME T # {}
             PROVE  FALSE
  OBVIOUS
<1>1. PICK m \in T : \A k \in T : m <= k
  <2>1. T \subseteq Nat
    OBVIOUS
  <2> QED
    BY <2>1, LeastNatural
<1>2. m # 0
  <2>1. RowIs(ts, row, 0, [k \in 0..0 |-> ts])
    BY DEF RowIs
  <2> QED
    BY <2>1
<1>3. PICK f : RowIs(ts, row, m-1, f)
  BY <1>1, <1>2
<1> DEFINE g == [k \in 0..m |-> IF k = m THEN Coco!absorb(f[m-1], row[m]) ELSE f[k]]
<1>4. \A k \in 0..m-1 : f[k] = IF k = 0 THEN ts ELSE Coco!absorb(f[k-1], row[k])
  BY <1>3 DEF RowIs
<1>5. \A k \in 0..m : g[k] = IF k = 0 THEN ts ELSE Coco!absorb(g[k-1], row[k])
  BY <1>2, <1>4
<1>6. RowIs(ts, row, m, g)
  BY <1>5 DEF RowIs
<1> QED
  BY <1>6

TableIs(ts, table, n, f) ==
  f = [r \in 0..n |-> IF r = 0 THEN ts ELSE Coco!absorbRow(f[r-1], table[r])]

LEMMA TableExists ==
  ASSUME NEW ts, NEW table, NEW n \in Nat
  PROVE  \E f : TableIs(ts, table, n, f)
<1> DEFINE T == {k \in Nat : ~ \E f : TableIs(ts, table, k, f)}
<1> SUFFICES ASSUME T # {}
             PROVE  FALSE
  OBVIOUS
<1>1. PICK m \in T : \A k \in T : m <= k
  <2>1. T \subseteq Nat
    OBVIOUS
  <2> QED
    BY <2>1, LeastNatural
<1>2. m # 0
  <2>1. TableIs(ts, table, 0, [k \in 0..0 |-> ts])
    BY DEF TableIs
  <2> QED
    BY <2>1
<1>3. PICK f : TableIs(ts, table, m-1, f)
  BY <1>1, <1>2
<1> DEFINE g == [k \in 0..m |-> IF k = m THEN Coco!absorbRow(f[m-1], table[m]) ELSE f[k]]
<1>4. \A k \in 0..m-1 : f[k] = IF k = 0 THEN ts ELSE Coco!absorbRow(f[k-1], table[k])
  BY <1>3 DEF TableIs
<1>5. \A k \in 0..m : g[k] = IF k = 0 THEN ts ELSE Coco!absorbRow(g[k-1], table[k])
  BY <1>2, <1>4
<1>6. TableIs(ts, table, m, g)
  BY <1>5 DEF TableIs
<1> QED
  BY <1>6

(* What the buckets of a table hold that come before column c+1 of row r.  *)
Before(r, c) == {p \in Cell : p[1] < r \/ (p[1] = r /\ p[2] <= c)}
Passed(t, r, c) == SumFunctionOnSet(Vals(t), Before(r, c))

LEMMA PassedNext ==
  ASSUME Coco!Dimensions, NEW t \in CocoTable, NEW r \in Coco!Row
  PROVE  /\ \A c \in Coco!Col : /\ Passed(t, r, c-1) \in Nat
                                /\ Passed(t, r, c) = Passed(t, r, c-1) + Val(t[r][c])
         /\ Passed(t, r, 0) = IF r = 1 THEN 0 ELSE Passed(t, r-1, NumCols)
         /\ Passed(t, NumRows, NumCols) = Total(t)
<1> DEFINE f == Vals(t)
<1>1. /\ Coco!Row = 1..NumRows /\ Coco!Col = 1..NumCols /\ NumRows \in Nat \ {0} /\ NumCols \in Nat \ {0}
      /\ IsFiniteSet(Cell) /\ \A p \in Cell : f[p] \in Nat /\ f[p] = Val(t[p[1]][p[2]])
  BY GridIs, TotalIsNat
<1>2. /\ \A p \in Cell : p[1] \in Coco!Row /\ p[2] \in Coco!Col /\ p = <<p[1], p[2]>>
      /\ \A q \in Coco!Row, c \in Coco!Col :
           LET p == <<q, c>> IN p \in Cell /\ p[1] = q /\ p[2] = c
  BY DEF Cell
<1>3. \A q, c : Before(q, c) \subseteq Cell /\ IsFiniteSet(Before(q, c))
  BY <1>1, FS_Subset DEF Before
<1> HIDE DEF f
<1>4. ASSUME NEW c \in Coco!Col
      PROVE  /\ Passed(t, r, c-1) \in Nat
             /\ Passed(t, r, c) = Passed(t, r, c-1) + Val(t[r][c])
  <2> DEFINE p == <<r, c>>
             B == Before(r, c-1)
  <2>1. p \in Cell /\ p[1] = r /\ p[2] = c
    BY <1>2
  <2>2. Before(r, c) = B \union {p} /\ p \notin B
    <3>1. \A q \in Cell : q \in Before(r, c) <=> q \in B \/ q = p
      BY <1>1, <1>2 DEF Before
    <3>2. p \notin B
      BY <1>1, <2>1 DEF Before
    <3> QED
      BY <1>3, <2>1, <3>1, <3>2
  <2> HIDE DEF p
  <2>3. IsFiniteSet(B) /\ (\A q \in B : f[q] \in Nat) /\ \A q \in B \union {p} : f[q] \in Int
    BY <1>1, <1>3, <2>1
  <2> HIDE DEF B
  <2>4. SumFunctionOnSet(f, B \union {p}) = f[p] + SumFunctionOnSet(f, B)
    BY <2>2, <2>3, SetSumAdd
  <2>5. SumFunctionOnSet(f, B) \in Nat
    BY <2>3, SetSumNat
  <2>6. f[p] = Val(t[r][c]) /\ f[p] \in Nat
    BY <1>1, <2>1
  <2>7. Passed(t, r, c) = SumFunctionOnSet(f, B \union {p})
        /\ Passed(t, r, c-1) = SumFunctionOnSet(f, B)
    BY <2>2 DEF Passed, f, B
  <2> QED
    BY <2>4, <2>5, <2>6, <2>7
<1>5. Passed(t, r, 0) = IF r = 1 THEN 0 ELSE Passed(t, r-1, NumCols)
  <2>1. CASE r = 1
    <3>1. Before(r, 0) = {}
      <4>1. \A q \in Cell : q \notin Before(r, 0)
        BY <1>1, <1>2, <2>1 DEF Before
      <4> QED
        BY <1>3, <4>1
    <3> QED
      BY <2>1, <3>1, SetSumEmpty DEF Passed
  <2>2. CASE r # 1
    <3>1. Before(r, 0) = Before(r-1, NumCols)
      <4>1. \A q \in Cell : q \in Before(r, 0) <=> q \in Before(r-1, NumCols)
        BY <1>1, <1>2 DEF Before
      <4> QED
        BY <1>3, <4>1
    <3> QED
      BY <2>2, <3>1 DEF Passed
  <2> QED
    BY <2>1, <2>2
<1>6. Before(NumRows, NumCols) = Cell
  <2>1. \A q \in Cell : q \in Before(NumRows, NumCols)
    BY <1>1, <1>2 DEF Before
  <2> QED
    BY <1>3, <2>1
<1> QED
  BY <1>4, <1>5, <1>6 DEF Passed, Total

LEMMA AbsorbRowHolds ==
  ASSUME Coco!Dimensions, NEW t \in CocoTable, NEW r \in Coco!Row, NEW ts, NEW m \in Nat,
         Hold(ts, m + Passed(t, r, 0))
  PROVE  Hold(Coco!absorbRow(ts, t[r]), m + Passed(t, r, NumCols))
<1> DEFINE f == CHOOSE g : RowIs(ts, t[r], NumCols, g)
<1>1. Coco!Col = 1..NumCols /\ NumCols \in Nat \ {0}
  BY GridIs
<1>2. Coco!absorbRow(ts, t[r]) = f[NumCols]
  BY DEF Coco!absorbRow, RowIs
<1>3. RowIs(ts, t[r], NumCols, f)
  BY <1>1, RowExists
<1> HIDE DEF f
<1>4. f[0] = ts /\ \A c \in 1..NumCols : f[c] = Coco!absorb(f[c-1], t[r][c])
  BY <1>1, <1>3 DEF RowIs
<1>5. ASSUME NEW c \in 1..NumCols, Hold(f[c-1], m + Passed(t, r, c-1))
      PROVE  Hold(f[c], m + Passed(t, r, c))
  <2>1. /\ Passed(t, r, c-1) \in Nat /\ t[r][c] \in CocoBucket /\ Val(t[r][c]) \in Nat
        /\ Passed(t, r, c) = Passed(t, r, c-1) + Val(t[r][c])
    BY <1>1, PassedNext, TotalIsNat, BucketIs
  <2>2. Hold(f[c], (m + Passed(t, r, c-1)) + Val(t[r][c]))
    BY <1>4, <1>5, <2>1, AbsorbHolds
  <2>3. (m + Passed(t, r, c-1)) + Val(t[r][c]) = m + Passed(t, r, c)
    BY <2>1
  <2> QED
    BY <2>2, <2>3
<1> DEFINE T == {c \in 0..NumCols : ~ Hold(f[c], m + Passed(t, r, c))}
<1>6. T = {}
  <2> SUFFICES ASSUME T # {}
               PROVE  FALSE
    OBVIOUS
  <2>1. PICK c \in T : \A q \in T : c <= q
    <3>1. T \subseteq Nat
      OBVIOUS
    <3> QED
      BY <3>1, LeastNatural
  <2>2. c # 0
    BY <1>4
  <2>3. c \in 1..NumCols /\ c-1 \in 0..NumCols /\ c-1 \notin T
    BY <1>1, <2>1, <2>2
  <2>4. Hold(f[c-1], m + Passed(t, r, c-1))
    BY <2>3
  <2>5. Hold(f[c], m + Passed(t, r, c))
    BY <1>5, <2>3, <2>4
  <2> QED
    BY <2>5
<1> QED
  BY <1>1, <1>2, <1>6

LEMMA AbsorbTableHolds ==
  ASSUME Coco!Dimensions, NEW t \in CocoTable, NEW ts, NEW m \in Nat, Hold(ts, m)
  PROVE  Hold(Coco!absorbTable(ts, t), m + Total(t))
<1> DEFINE f == CHOOSE g : TableIs(ts, t, NumRows, g)
<1>1. Coco!Row = 1..NumRows /\ NumRows \in Nat \ {0}
  BY GridIs
<1>2. Coco!absorbTable(ts, t) = f[NumRows]
  BY DEF Coco!absorbTable, TableIs
<1>3. TableIs(ts, t, NumRows, f)
  BY <1>1, TableExists
<1> HIDE DEF f
<1>4. f[0] = ts /\ \A r \in 1..NumRows : f[r] = Coco!absorbRow(f[r-1], t[r])
  BY <1>1, <1>3 DEF TableIs
<1> DEFINE T == {r \in 1..NumRows : ~ Hold(f[r], m + Passed(t, r, NumCols))}
<1>5. T = {}
  <2> SUFFICES ASSUME T # {}
               PROVE  FALSE
    OBVIOUS
  <2>1. PICK r \in T : \A q \in T : r <= q
    <3>1. T \subseteq Nat
      OBVIOUS
    <3> QED
      BY <3>1, LeastNatural
  <2>2. Hold(f[r-1], m + Passed(t, r, 0))
    <3>1. CASE r = 1
      <4>1. Passed(t, r, 0) = 0
        BY <1>1, <3>1, PassedNext
      <4> QED
        BY <1>4, <3>1, <4>1
    <3>2. CASE r # 1
      <4>1. r-1 \in 1..NumRows /\ r-1 \notin T
        BY <1>1, <2>1, <3>2
      <4>2. Passed(t, r, 0) = Passed(t, r-1, NumCols)
        BY <1>1, <3>2, PassedNext
      <4> QED
        BY <4>1, <4>2
    <3> QED
      BY <3>1, <3>2
  <2>3. Hold(Coco!absorbRow(f[r-1], t[r]), m + Passed(t, r, NumCols))
    BY <1>1, <2>2, AbsorbRowHolds
  <2> QED
    BY <1>4, <2>1, <2>3
<1>6. Hold(f[NumRows], m + Passed(t, NumRows, NumCols))
  BY <1>1, <1>5
<1>7. Passed(t, NumRows, NumCols) = Total(t)
  <2>1. 1 \in Coco!Row
    BY <1>1
  <2> QED
    BY <2>1, PassedNext, ZenonT(30)
<1> QED
  BY <1>2, <1>6, <1>7

-----------------------------------------------------------------------------
(* Every table is settled, and its buckets hold what was inserted.         *)
CocoInv ==
  /\ tables \in [Node -> CocoTable] /\ added \in [Node -> Nat]
  /\ \A n \in Node : Settled(tables[n]) /\ Total(tables[n]) = added[n]

LEMMA NewIsSettled ==
  ASSUME Coco!Dimensions
  PROVE  Settled(Coco!New) /\ Total(Coco!New) = 0
<1> DEFINE t == Coco!New
<1>1. \A r \in Coco!Row, c \in Coco!Col : t[r][c] = Coco!NoBucket
  BY DEF Coco!New
<1>2. t \in CocoTable
  BY BucketIs DEF Coco!New, CocoTable
<1> HIDE DEF t
<1>3. Settled(t)
  BY <1>1, <1>2 DEF Settled
<1>4. Total(t) = 0
  <2>1. \A p \in Cell : Vals(t)[p] = 0
    <3> SUFFICES ASSUME NEW p \in Cell
                 PROVE  Vals(t)[p] = 0
      OBVIOUS
    <3>1. p[1] \in Coco!Row /\ p[2] \in Coco!Col
      BY DEF Cell
    <3>2. t[p[1]][p[2]] = Coco!NoBucket
      BY <1>1, <3>1
    <3> QED
      BY <1>2, <3>2, TotalIsNat, BucketIs
  <2> QED
    BY <2>1, GridIs, SetSumZeros DEF Total
<1> QED
  BY <1>3, <1>4 DEF t

LEMMA CocoInit ==
  ASSUME Coco!Dimensions, Coco!Init
  PROVE  CocoInv
<1>1. tables = [n \in Node |-> Coco!New] /\ added = [n \in Node |-> 0]
  BY DEF Coco!Init
<1>2. Coco!New \in CocoTable
  BY NewIsSettled DEF Settled
<1> QED
  BY <1>1, <1>2, NewIsSettled DEF CocoInv

(* One table changes.                                                      *)
LEMMA OneTable ==
  ASSUME CocoInv, NEW n \in Node, NEW t, Settled(t), NEW m \in Nat, Total(t) = m,
         tables' = [tables EXCEPT ![n] = t], added' = [added EXCEPT ![n] = m]
  PROVE  CocoInv'
<1>1. t \in CocoTable
  BY DEF Settled
<1>2. tables' \in [Node -> CocoTable] /\ added' \in [Node -> Nat]
  BY <1>1 DEF CocoInv
<1>3. ASSUME NEW l \in Node
      PROVE  Settled(tables'[l]) /\ Total(tables'[l]) = added'[l]
  <2>1. CASE l = n
    <3>1. tables'[l] = t /\ added'[l] = m
      BY <2>1 DEF CocoInv
    <3> QED
      BY <3>1
  <2>2. CASE l # n
    <3>1. tables'[l] = tables[l] /\ added'[l] = added[l]
      BY <2>2 DEF CocoInv
    <3> QED
      BY <3>1 DEF CocoInv
  <2> QED
    BY <2>1, <2>2
<1> QED
  BY <1>2, <1>3 DEF CocoInv

LEMMA CocoNext ==
  ASSUME Coco!Dimensions, CocoInv, [Coco!Next]_(Coco!vars)
  PROVE  CocoInv'
<1>1. ASSUME NEW n \in Node, NEW k \in Key, NEW v \in Weights, Coco!Insert(n, k, v)
      PROVE  CocoInv'
  <2>1. v \in Nat
    BY DEF Coco!Dimensions
  <2>2. PICK t \in Coco!insertKeyValue(tables[n], k, v) : tables' = [tables EXCEPT ![n] = t]
    BY <1>1 DEF Coco!Insert
  <2>3. added' = [added EXCEPT ![n] = added[n] + v]
    BY <1>1 DEF Coco!Insert
  <2>4. Settled(tables[n]) /\ Total(tables[n]) = added[n] /\ added[n] \in Nat
    BY DEF CocoInv
  <2>5. Settled(t) /\ Total(t) = added[n] + v
    BY <2>1, <2>2, <2>4, CocoInsertKeeps
  <2> DEFINE m == added[n] + v
  <2>6. m \in Nat /\ Total(t) = m /\ added' = [added EXCEPT ![n] = m]
    BY <2>1, <2>3, <2>4, <2>5
  <2> HIDE DEF m
  <2> QED
    BY <2>2, <2>5, <2>6, OneTable
<1>2. ASSUME NEW n \in Node, NEW m \in Node, Coco!Merge(n, m)
      PROVE  CocoInv'
  <2>1. PICK t \in Coco!absorbTable({tables[n]}, tables[m]) : tables' = [tables EXCEPT ![n] = t]
    BY <1>2 DEF Coco!Merge
  <2>2. added' = [added EXCEPT ![n] = added[n] + added[m]]
    BY <1>2 DEF Coco!Merge
  <2>3. /\ Hold({tables[n]}, added[n]) /\ added[n] \in Nat
        /\ tables[m] \in CocoTable /\ Total(tables[m]) = added[m] /\ added[m] \in Nat
    BY DEF CocoInv, Hold
  <2>4. Hold(Coco!absorbTable({tables[n]}, tables[m]), added[n] + added[m])
    BY <2>3, AbsorbTableHolds
  <2>5. Settled(t) /\ Total(t) = added[n] + added[m]
    BY <2>1, <2>4 DEF Hold
  <2> DEFINE both == added[n] + added[m]
  <2>6. both \in Nat /\ Total(t) = both /\ added' = [added EXCEPT ![n] = both]
    BY <2>2, <2>3, <2>5
  <2> HIDE DEF both
  <2> QED
    BY <2>1, <2>5, <2>6, OneTable
<1>3. ASSUME NEW n \in Node, Coco!Clear(n)
      PROVE  CocoInv'
  <2>1. tables' = [tables EXCEPT ![n] = Coco!New] /\ added' = [added EXCEPT ![n] = 0]
    BY <1>3 DEF Coco!Clear
  <2> QED
    BY <2>1, NewIsSettled, OneTable
<1>4. CASE UNCHANGED Coco!vars
  <2>1. tables' = tables /\ added' = added
    BY <1>4 DEF Coco!vars
  <2> QED
    BY <2>1 DEF CocoInv
<1> QED
  BY <1>1, <1>2, <1>3, <1>4 DEF Coco!Next

LEMMA CocoSum ==
  ASSUME NEW f
  PROVE  Coco!SumFunction(f) = SumFunctionOnSet(f, DOMAIN f)
<1>1. ASSUME NEW S
      PROVE  Coco!SumFunctionOnSet(f, S) = SumFunctionOnSet(f, S)
  BY DEF Coco!SumFunctionOnSet, Coco!FoldFunctionOnSet, Coco!MapThenFoldSet,
     SumFunctionOnSet, FoldFunctionOnSet, MapThenFoldSet
<1> QED
  BY <1>1 DEF Coco!SumFunction

(* A key is in one row at most, and its estimate is the buckets it has.    *)
LEMMA OneRow ==
  ASSUME Coco!Dimensions, NEW t, Settled(t), NEW k \in Key,
         NEW r \in Coco!Row, Coco!Has(Coco!At(t, k, r), k),
         NEW q \in Coco!Row, Coco!Has(Coco!At(t, k, q), k)
  PROVE  r = q
<1>1. \A i \in Coco!Row : /\ Coco!At(t, k, i) = t[i][ColOf[k][i]] /\ ColOf[k][i] \in Coco!Col
                          /\ i \in Nat
  BY GridIs DEF Coco!At
<1>2. Reached(t, k, r) /\ Reached(t, k, q)
  BY <1>1 DEF Settled, Coco!Has
<1>3. ~ (r < q) /\ ~ (q < r)
  BY <1>1, <1>2, GridIs DEF Reached, Coco!Has
<1> QED
  BY <1>1, <1>3

OwnedBy(t, k) == {p \in Cell : t[p[1]][p[2]] # Coco!NoBucket /\ t[p[1]][p[2]][1] = k}

LEMMA EstimateIs ==
  ASSUME Coco!Dimensions, NEW t, Settled(t), NEW k \in Key
  PROVE  Coco!EstimateHash(t, k) = SumFunctionOnSet(Vals(t), OwnedBy(t, k))
<1> DEFINE f == [r \in Coco!Row |-> IF Coco!Has(Coco!At(t, k, r), k)
                                    THEN Coco!At(t, k, r)[2] ELSE 0]
           O == OwnedBy(t, k)
<1>1. Coco!EstimateHash(t, k) = SumFunctionOnSet(f, Coco!Row)
  BY CocoSum DEF Coco!EstimateHash
<1>2. t \in CocoTable
  BY DEF Settled
<1>3. \A i \in Coco!Row : Coco!At(t, k, i) = t[i][ColOf[k][i]] /\ ColOf[k][i] \in Coco!Col
  BY GridIs DEF Coco!At
<1>4. \A p \in O : /\ p[1] \in Coco!Row /\ p = <<p[1], ColOf[k][p[1]]>>
                   /\ Coco!Has(Coco!At(t, k, p[1]), k)
  <2> SUFFICES ASSUME NEW p \in O
               PROVE  /\ p[1] \in Coco!Row /\ p = <<p[1], ColOf[k][p[1]]>>
                      /\ Coco!Has(Coco!At(t, k, p[1]), k)
    OBVIOUS
  <2>1. p \in Cell /\ t[p[1]][p[2]] # Coco!NoBucket /\ t[p[1]][p[2]][1] = k
    BY DEF OwnedBy
  <2>2. p[1] \in Coco!Row /\ p[2] \in Coco!Col /\ p = <<p[1], p[2]>>
    BY <2>1 DEF Cell
  <2>3. ColOf[k][p[1]] = p[2]
    BY <2>1, <2>2 DEF Settled
  <2> QED
    BY <1>3, <2>1, <2>2, <2>3 DEF Coco!Has
<1>5. CASE \E r \in Coco!Row : Coco!Has(Coco!At(t, k, r), k)
  <2>1. PICK r \in Coco!Row : Coco!Has(Coco!At(t, k, r), k)
    BY <1>5
  <2> DEFINE p == <<r, ColOf[k][r]>>
             v == Coco!At(t, k, r)[2]
  <2>2. /\ p \in Cell /\ p[1] = r /\ p[2] = ColOf[k][r] /\ p \in O
    BY <1>3, <2>1 DEF Cell, OwnedBy, Coco!Has
  <2>3. Coco!At(t, k, r) \in CocoBucket /\ Coco!At(t, k, r) # Coco!NoBucket
        /\ v \in Nat /\ Val(Coco!At(t, k, r)) = v
    BY <1>2, <1>3, <2>1, TotalIsNat, BucketIs DEF Coco!Has, Val
  <2>4. Vals(t)[p] = v
    BY <1>2, <1>3, <2>2, <2>3, TotalIsNat
  <2>5. O = {p}
    <3>1. \A q \in O : q = p
      BY <1>4, <2>1, OneRow
    <3> QED
      BY <2>2, <3>1
  <2>6. f[r] = v /\ \A q \in Coco!Row \ {r} : f[q] = 0
    BY <2>1, OneRow
  <2> HIDE DEF f, p, v
  <2>7. SumFunctionOnSet(f, Coco!Row) = v
    BY <2>3, <2>6, GridIs, SetSumSingle
  <2>8. SumFunctionOnSet(Vals(t), O) = v
    BY <2>3, <2>4, <2>5, SetSumOne
  <2> QED
    BY <1>1, <2>7, <2>8
<1>6. CASE ~ \E r \in Coco!Row : Coco!Has(Coco!At(t, k, r), k)
  <2>1. \A r \in Coco!Row : f[r] = 0
    BY <1>6
  <2>2. O = {}
    BY <1>4, <1>6
  <2> HIDE DEF f, O
  <2>3. SumFunctionOnSet(f, Coco!Row) = 0
    BY <2>1, GridIs, SetSumZeros
  <2>4. SumFunctionOnSet(Vals(t), O) = 0
    BY <2>2, SetSumEmpty
  <2> QED
    BY <1>1, <2>3, <2>4 DEF O
<1> QED
  BY <1>5, <1>6

(* Each bucket that is not empty is in the estimate of its key.            *)
LEMMA EstimatesAre ==
  ASSUME Coco!Dimensions, NEW t, Settled(t)
  PROVE  Coco!SumFunction([k \in Key |-> Coco!EstimateHash(t, k)]) = Total(t)
<1> DEFINE f == [k \in Key |-> Coco!EstimateHash(t, k)]
           v == Vals(t)
           B == {p \in Cell : t[p[1]][p[2]] # Coco!NoBucket}
           g == [p \in B |-> t[p[1]][p[2]][1]]
           h == [k \in Key |-> SumFunctionOnSet(v, {p \in B : g[p] = k})]
<1>1. t \in CocoTable
  BY DEF Settled
<1>2. \A p \in Cell : /\ v[p] \in Nat /\ v[p] = Val(t[p[1]][p[2]])
                      /\ t[p[1]][p[2]] \in CocoBucket
  <2>1. \A p \in Cell : p[1] \in Coco!Row /\ p[2] \in Coco!Col
    BY DEF Cell
  <2> QED
    BY <1>1, <2>1, TotalIsNat
<1>3. B \subseteq Cell /\ IsFiniteSet(Cell) /\ IsFiniteSet(Key) /\ IsFiniteSet(B)
  BY GridIs, FS_Subset
<1>4. \A p \in B : g[p] \in Key /\ v[p] \in Int
  BY <1>2, BucketIs
<1>5. f = h
  <2> SUFFICES ASSUME NEW k \in Key
               PROVE  f[k] = h[k]
    OBVIOUS
  <2>1. OwnedBy(t, k) = {p \in B : g[p] = k}
    BY DEF OwnedBy
  <2> QED
    BY <2>1, EstimateIs
<1>6. SumFunctionOnSet(h, Key) = SumFunctionOnSet(v, B)
  <2> HIDE DEF B, g, v
  <2> QED
    BY <1>3, <1>4, FiberSum
<1>7. SumFunctionOnSet(v, Cell) = SumFunctionOnSet(v, B)
  <2>1. \A p \in Cell \ B : v[p] = 0
    BY <1>2, BucketIs
  <2>2. \A p \in Cell : v[p] \in Int
    BY <1>2
  <2> HIDE DEF B, v
  <2> QED
    BY <1>3, <2>1, <2>2, SetSumExtend
<1>8. Coco!SumFunction(f) = SumFunctionOnSet(f, Key)
  BY CocoSum
<1> QED
  BY <1>5, <1>6, <1>7, <1>8 DEF Total

LEMMA CocoHolds ==
  ASSUME Coco!Dimensions, CocoInv
  PROVE  Coco!EstimatesAddUp
<1> SUFFICES ASSUME NEW n \in Node
             PROVE  /\ \A k \in Key : Coco!Cardinality({r \in Coco!Row :
                           Coco!Has(Coco!At(tables[n], k, r), k)}) <= 1
                    /\ Coco!SumFunction([k \in Key |-> Coco!EstimateHash(tables[n], k)]) = added[n]
  BY DEF Coco!EstimatesAddUp
<1>1. Settled(tables[n]) /\ Total(tables[n]) = added[n]
  BY DEF CocoInv
<1>2. ASSUME NEW k \in Key
      PROVE  Coco!Cardinality({r \in Coco!Row : Coco!Has(Coco!At(tables[n], k, r), k)}) <= 1
  <2> DEFINE R == {r \in Coco!Row : Coco!Has(Coco!At(tables[n], k, r), k)}
  <2>1. \A r \in R, q \in R : r = q
    BY <1>1, OneRow
  <2>2. R = {} \/ \E r : R = {r}
    <3> HIDE DEF R
    <3>1. SUFFICES ASSUME NEW r \in R
                   PROVE  R = {r}
      OBVIOUS
    <3> QED
      BY <2>1
  <2>3. Cardinality(R) <= 1
    <3> HIDE DEF R
    <3> QED
      BY <2>2, FS_Singleton, FS_EmptySet
  <2> QED
    BY <2>3 DEF Coco!Cardinality, Cardinality, Coco!IsFiniteSet, IsFiniteSet
<1> QED
  BY <1>1, <1>2, EstimatesAre

(***************************************************************************)
(* insertKeyValue, Merge and Clear: whichever key won the replacements and *)
(* in whatever order sketches were merged, no key has two buckets, and the *)
(* estimates of all keys add up to what was inserted.                      *)
(***************************************************************************)
THEOREM EstimatesShareTheTotal ==
  ASSUME Coco!Dimensions
  PROVE  Coco!Spec => []Coco!EstimatesAddUp
<1>1. Coco!Init => CocoInv
  BY CocoInit
<1>2. CocoInv /\ [Coco!Next]_(Coco!vars) => CocoInv'
  BY CocoNext
<1>3. CocoInv => Coco!EstimatesAddUp
  BY CocoHolds
<1> QED
  BY <1>1, <1>2, <1>3, PTL DEF Coco!Spec

-----------------------------------------------------------------------------
(* HybridSketch.  Any keys, any number of readers and any size of the map. *)
CONSTANTS Reader, MaxMapSize, MaxItems
VARIABLES hybrids, counted

Hybrid == INSTANCE HybridSketch WITH maxMapSize <- MaxMapSize, sk <- hybrids, seen <- counted

Counts == [Key -> Nat]
Hyb == [isSketch : BOOLEAN, mapCounts : Counts, l2 : Int, univSketch : Counts]
Within(f, g) == \A k \in Key : f[k] <= g[k]

(* What a sketch that nobody is promoting holds: it is in one of its two   *)
(* forms, and a map goes with the energy of its counts.                    *)
All(h) == Hybrid!Plus(h.mapCounts, h.univSketch)
InForm(h) == IF h.isSketch THEN h.mapCounts = Hybrid!Nothing
             ELSE h.univSketch = Hybrid!Nothing /\ h.l2 = Hybrid!Energy(h.mapCounts)
Sound(h) == h \in Hyb /\ InForm(h)

LEMMA HybridSum ==
  ASSUME NEW f
  PROVE  Hybrid!SumOf(f) = SumFunctionOnSet(f, DOMAIN f)
<1>1. ASSUME NEW S
      PROVE  Hybrid!SumFunctionOnSet(f, S) = SumFunctionOnSet(f, S)
  BY DEF Hybrid!SumFunctionOnSet, Hybrid!FoldFunctionOnSet, Hybrid!MapThenFoldSet,
     SumFunctionOnSet, FoldFunctionOnSet, MapThenFoldSet
<1> QED
  BY <1>1 DEF Hybrid!SumFunction, Hybrid!SumOf

LEMMA CountsAre ==
  /\ Hybrid!Nothing \in Counts /\ \A k \in Key : Hybrid!Nothing[k] = 0
  /\ \A f \in Counts, g \in Counts :
       /\ Hybrid!Plus(f, g) \in Counts /\ \A k \in Key : Hybrid!Plus(f, g)[k] = f[k] + g[k]
       /\ (\A k \in Key : f[k] = g[k]) => f = g
  /\ \A f \in Counts : /\ Hybrid!Plus(f, Hybrid!Nothing) = f /\ Hybrid!Plus(Hybrid!Nothing, f) = f
                       /\ \A k \in Key : f[k] \in Nat
<1>1. Hybrid!Nothing \in Counts /\ \A k \in Key : Hybrid!Nothing[k] = 0
  BY DEF Hybrid!Nothing, Counts
<1>2. \A f \in Counts : \A k \in Key : f[k] \in Nat
  BY DEF Counts
<1>3. ASSUME NEW f \in Counts, NEW g \in Counts
      PROVE  Hybrid!Plus(f, g) \in Counts /\ \A k \in Key : Hybrid!Plus(f, g)[k] = f[k] + g[k]
  BY <1>2 DEF Hybrid!Plus, Counts
<1>4. ASSUME NEW f \in Counts, NEW g \in Counts, \A k \in Key : f[k] = g[k]
      PROVE  f = g
  BY <1>4 DEF Counts
<1>5. ASSUME NEW f \in Counts
      PROVE  Hybrid!Plus(f, Hybrid!Nothing) = f /\ Hybrid!Plus(Hybrid!Nothing, f) = f
  <2>1. \A k \in Key : /\ Hybrid!Plus(f, Hybrid!Nothing)[k] = f[k]
                       /\ Hybrid!Plus(Hybrid!Nothing, f)[k] = f[k]
    BY <1>1, <1>2, <1>3
  <2> QED
    BY <1>1, <1>3, <1>4, <2>1
<1> QED
  BY <1>1, <1>2, <1>3, <1>4, <1>5

(* Energies are sums of squares, so they follow the counts key by key.     *)
LEMMA EnergyMore ==
  ASSUME IsFiniteSet(Key), NEW f \in Counts, NEW c \in Counts
  PROVE  LET both == Hybrid!Plus(f, c)
             more == [k \in Key |-> IF c[k] = 0 THEN 0 ELSE both[k] * both[k] - f[k] * f[k]]
         IN  /\ Hybrid!Energy(f) \in Int
             /\ Hybrid!Energy(both) = Hybrid!Energy(f) + Hybrid!SumOf(more)
<1> DEFINE both == Hybrid!Plus(f, c)
           more == [k \in Key |-> IF c[k] = 0 THEN 0 ELSE both[k] * both[k] - f[k] * f[k]]
           sq == [k \in Key |-> f[k] * f[k]]
           bsq == [k \in Key |-> both[k] * both[k]]
<1>1. \A k \in Key : f[k] \in Nat /\ c[k] \in Nat /\ both[k] = f[k] + c[k]
  BY CountsAre
<1> HIDE DEF both
<1>2. ASSUME NEW k \in Key
      PROVE  sq[k] \in Int /\ more[k] \in Int /\ bsq[k] = sq[k] + more[k]
  <2>1. f[k] \in Nat /\ c[k] \in Nat /\ both[k] \in Nat /\ both[k] = f[k] + c[k]
    BY <1>1
  <2> DEFINE x == f[k] * f[k]
             y == both[k] * both[k]
  <2>2. x \in Int /\ y \in Int
    BY <2>1
  <2>3. c[k] = 0 => y = x
    BY <2>1
  <2>4. sq[k] = x /\ bsq[k] = y /\ more[k] = IF c[k] = 0 THEN 0 ELSE y - x
    OBVIOUS
  <2> HIDE DEF x, y, sq, bsq, more
  <2> QED
    BY <2>2, <2>3, <2>4
<1>3. /\ Hybrid!Energy(f) = SumFunctionOnSet(sq, Key)
      /\ Hybrid!Energy(both) = SumFunctionOnSet(bsq, Key)
      /\ Hybrid!SumOf(more) = SumFunctionOnSet(more, Key)
  BY HybridSum DEF Hybrid!Energy
<1> HIDE DEF sq, bsq, more
<1>4. SumFunctionOnSet(bsq, Key) = SumFunctionOnSet(sq, Key) + SumFunctionOnSet(more, Key)
  BY <1>2, SetSumPlus
<1>5. SumFunctionOnSet(sq, Key) \in Int
  BY <1>2, SetSumType
<1> QED
  BY <1>3, <1>4, <1>5 DEF both, more

LEMMA HybIs ==
  /\ \A h \in Hyb : /\ h = [isSketch |-> h.isSketch, mapCounts |-> h.mapCounts,
                            l2 |-> h.l2, univSketch |-> h.univSketch]
                    /\ h.isSketch \in BOOLEAN /\ h.l2 \in Int
                    /\ h.mapCounts \in Counts /\ h.univSketch \in Counts
  /\ \A a \in BOOLEAN, m \in Counts, l \in Int, u \in Counts :
       [isSketch |-> a, mapCounts |-> m, l2 |-> l, univSketch |-> u] \in Hyb
BY DEF Hyb

(* The two forms, by name.                                                 *)
AsMap(m) == [isSketch |-> FALSE, mapCounts |-> m, l2 |-> Hybrid!Energy(m),
             univSketch |-> Hybrid!Nothing]
AsUniv(l, u) == [isSketch |-> TRUE, mapCounts |-> Hybrid!Nothing, l2 |-> l, univSketch |-> u]

LEMMA FormsAre ==
  ASSUME IsFiniteSet(Key)
  PROVE  /\ \A m \in Counts : /\ Sound(AsMap(m)) /\ All(AsMap(m)) = m /\ ~ AsMap(m).isSketch
                              /\ AsMap(m).mapCounts = m
         /\ \A l \in Int, u \in Counts : /\ Sound(AsUniv(l, u)) /\ All(AsUniv(l, u)) = u
                                         /\ AsUniv(l, u).isSketch /\ AsUniv(l, u).univSketch = u
         /\ \A h : Sound(h) => \/ h = AsMap(All(h)) /\ ~ h.isSketch /\ All(h) \in Counts
                               \/ h = AsUniv(h.l2, All(h)) /\ h.isSketch /\ All(h) \in Counts
                                  /\ h.l2 \in Int
<1>1. \A m \in Counts : Hybrid!Energy(m) \in Int
  BY CountsAre, EnergyMore
<1>2. \A m \in Counts : AsMap(m) \in Hyb
  BY <1>1, CountsAre DEF AsMap, Hyb
<1>3. \A l \in Int, u \in Counts : AsUniv(l, u) \in Hyb
  BY CountsAre DEF AsUniv, Hyb
<1>4. ASSUME NEW m \in Counts
      PROVE  Sound(AsMap(m)) /\ All(AsMap(m)) = m /\ ~ AsMap(m).isSketch /\ AsMap(m).mapCounts = m
  BY <1>2, CountsAre DEF Sound, InForm, AsMap, All
<1>5. ASSUME NEW l \in Int, NEW u \in Counts
      PROVE  Sound(AsUniv(l, u)) /\ All(AsUniv(l, u)) = u /\ AsUniv(l, u).isSketch
             /\ AsUniv(l, u).univSketch = u
  BY <1>3, CountsAre DEF Sound, InForm, AsUniv, All
<1>6. ASSUME NEW h, Sound(h)
      PROVE  \/ h = AsMap(All(h)) /\ ~ h.isSketch /\ All(h) \in Counts
             \/ h = AsUniv(h.l2, All(h)) /\ h.isSketch /\ All(h) \in Counts /\ h.l2 \in Int
  <2>1. /\ h = [isSketch |-> h.isSketch, mapCounts |-> h.mapCounts,
                l2 |-> h.l2, univSketch |-> h.univSketch]
        /\ h.isSketch \in BOOLEAN /\ h.l2 \in Int
        /\ h.mapCounts \in Counts /\ h.univSketch \in Counts
    BY <1>6, HybIs DEF Sound
  <2>2. CASE h.isSketch
    <3>1. h.mapCounts = Hybrid!Nothing
      BY <1>6, <2>2 DEF Sound, InForm
    <3>2. All(h) = h.univSketch
      BY <2>1, <3>1, CountsAre DEF All
    <3>3. h.isSketch = TRUE
      BY <2>1, <2>2
    <3>4. h = AsUniv(h.l2, All(h))
      BY <2>1, <3>1, <3>2, <3>3 DEF AsUniv
    <3> QED
      BY <2>1, <2>2, <3>2, <3>4
  <2>3. CASE ~ h.isSketch
    <3>1. h.univSketch = Hybrid!Nothing /\ h.l2 = Hybrid!Energy(h.mapCounts)
      BY <1>6, <2>3 DEF Sound, InForm
    <3>2. All(h) = h.mapCounts
      BY <2>1, <3>1, CountsAre DEF All
    <3>3. h.isSketch = FALSE
      BY <2>1, <2>3
    <3>4. h = AsMap(All(h))
      BY <2>1, <3>1, <3>2, <3>3 DEF AsMap
    <3> QED
      BY <2>1, <2>3, <3>2, <3>4
  <2> QED
    BY <2>2, <2>3
<1> QED
  BY <1>4, <1>5, <1>6

(* A sketch in order is a map or a UnivSketch; every operation keeps it in *)
(* order, and what it holds adds up.                                       *)
LEMMA PromoteMakes ==
  ASSUME IsFiniteSet(Key), NEW h, Sound(h)
  PROVE  LET s == Hybrid!promoteToSketch(h)
         IN  Sound(s) /\ All(s) = All(h) /\ s.isSketch /\ s.univSketch = All(h)
             /\ s = AsUniv(h.l2, All(h)) /\ h.l2 \in Int
<1>1. CASE h = AsUniv(h.l2, All(h)) /\ h.isSketch /\ All(h) \in Counts /\ h.l2 \in Int
  <2>1. Hybrid!promoteToSketch(h) = h
    BY <1>1 DEF Hybrid!promoteToSketch
  <2>2. h = AsUniv(h.l2, All(h)) /\ All(h) \in Counts /\ h.l2 \in Int /\ h.isSketch
    BY <1>1
  <2>3. AsUniv(h.l2, All(h)).univSketch = All(h)
    BY <2>2, FormsAre
  <2> QED
    BY <2>1, <2>2, <2>3
<1>2. CASE h = AsMap(All(h)) /\ ~ h.isSketch /\ All(h) \in Counts
  <2> DEFINE m == All(h)
             l == Hybrid!Energy(m)
  <2>1. m \in Counts /\ l \in Int
    BY <1>2, CountsAre, EnergyMore
  <2>2. Hybrid!promoteToSketch(h) = [h EXCEPT !.isSketch = TRUE, !.univSketch = h.mapCounts,
                                              !.mapCounts = Hybrid!Nothing]
    BY <1>2 DEF Hybrid!promoteToSketch
  <2>3. h = AsMap(m)
    BY <1>2
  <2> HIDE DEF m
  <2>4. Hybrid!promoteToSketch(h) = AsUniv(l, m)
    BY <2>2, <2>3 DEF AsMap, AsUniv
  <2>5. h.l2 = l
    BY <2>3 DEF AsMap
  <2> HIDE DEF l
  <2>6. Sound(AsUniv(l, m)) /\ All(AsUniv(l, m)) = m /\ AsUniv(l, m).isSketch
        /\ AsUniv(l, m).univSketch = m
    BY <2>1, FormsAre
  <2> QED
    BY <2>1, <2>4, <2>5, <2>6 DEF m
<1> QED
  BY <1>1, <1>2, FormsAre

(* Promoted when half full, or not: a choice that changes nothing here.    *)
LEMMA PerhapsPromoted ==
  ASSUME IsFiniteSet(Key), NEW h, Sound(h),
         NEW s, s = IF Hybrid!HalfFull(h) THEN Hybrid!promoteToSketch(h) ELSE h
  PROVE  Sound(s) /\ All(s) = All(h)
<1>1. CASE Hybrid!HalfFull(h)
  BY <1>1, PromoteMakes
<1>2. CASE ~ Hybrid!HalfFull(h)
  BY <1>2
<1> QED
  BY <1>1, <1>2

LEMMA MergeSketchesMakes ==
  ASSUME IsFiniteSet(Key), NEW h, Sound(h), NEW u \in Counts
  PROVE  LET s == Hybrid!MergeSketches(h, u)
         IN  Sound(s) /\ All(s) = Hybrid!Plus(All(h), u)
<1> DEFINE p == Hybrid!promoteToSketch(h)
           a == All(h)
           b == Hybrid!Plus(a, u)
<1>1. p = AsUniv(h.l2, a) /\ h.l2 \in Int /\ p.univSketch = a
  BY PromoteMakes
<1>2. a \in Counts
  BY FormsAre
<1>3. b \in Counts
  BY <1>2, CountsAre
<1>4. Hybrid!MergeSketches(h, u) = [p EXCEPT !.univSketch = Hybrid!Plus(p.univSketch, u)]
  BY DEF Hybrid!MergeSketches
<1> HIDE DEF p, a
<1>5. Hybrid!MergeSketches(h, u) = AsUniv(h.l2, b)
  BY <1>1, <1>4 DEF AsUniv
<1> HIDE DEF b
<1>6. Sound(AsUniv(h.l2, b)) /\ All(AsUniv(h.l2, b)) = b
  BY <1>1, <1>3, FormsAre
<1> QED
  BY <1>5, <1>6 DEF b, a

(* Into a map, or no counts at all into a UnivSketch.                      *)
LEMMA MergeMapsMakes ==
  ASSUME IsFiniteSet(Key), NEW h, Sound(h), NEW c \in Counts,
         ~ h.isSketch \/ c = Hybrid!Nothing
  PROVE  LET s == Hybrid!MergeMaps(h, c)
         IN  Sound(s) /\ All(s) = Hybrid!Plus(All(h), c)
<1> DEFINE m == h.mapCounts
           both == Hybrid!Plus(m, c)
           more == [k \in Key |-> IF c[k] = 0 THEN 0 ELSE both[k] * both[k] - m[k] * m[k]]
           l == h.l2 + Hybrid!SumOf(more)
           merged == [h EXCEPT !.mapCounts = both, !.l2 = l]
<1>0. h \in Hyb /\ m \in Counts
  BY HybIs DEF Sound
<1>1. Hybrid!MergeMaps(h, c) =
        IF Hybrid!HalfFull(merged) THEN Hybrid!promoteToSketch(merged) ELSE merged
  BY DEF Hybrid!MergeMaps
<1>2. both \in Counts
  BY <1>0, CountsAre
<1>3. /\ Hybrid!Energy(m) \in Int
      /\ Hybrid!Energy(both) = Hybrid!Energy(m) + Hybrid!SumOf(more)
  BY <1>0, EnergyMore
<1> HIDE DEF more, both
<1>4. Sound(merged) /\ All(merged) = Hybrid!Plus(All(h), c)
  <2>1. CASE h = AsMap(All(h)) /\ ~ h.isSketch /\ All(h) \in Counts
    <3>1. m = All(h) /\ h.l2 = Hybrid!Energy(m) /\ h = AsMap(m)
      <4>1. AsMap(All(h)).mapCounts = All(h) /\ AsMap(All(h)).l2 = Hybrid!Energy(All(h))
        BY DEF AsMap
      <4> QED
        BY <2>1, <4>1
    <3>2. l = Hybrid!Energy(both)
      BY <1>3, <3>1
    <3>3. merged = AsMap(both)
      <4>1. merged = [AsMap(m) EXCEPT !.mapCounts = both, !.l2 = Hybrid!Energy(both)]
        BY <3>1, <3>2
      <4> HIDE DEF merged, m
      <4> QED
        BY <4>1 DEF AsMap
    <3> HIDE DEF merged
    <3>4. Sound(AsMap(both)) /\ All(AsMap(both)) = both
      BY <1>2, FormsAre
    <3> QED
      BY <3>1, <3>3, <3>4 DEF both
  <2>2. CASE h = AsUniv(h.l2, All(h)) /\ h.isSketch /\ All(h) \in Counts /\ h.l2 \in Int
    <3>1. c = Hybrid!Nothing
      BY <2>2
    <3>2. m = Hybrid!Nothing
      <4>1. AsUniv(h.l2, All(h)).mapCounts = Hybrid!Nothing
        BY DEF AsUniv
      <4> QED
        BY <2>2, <4>1
    <3>3. both = Hybrid!Nothing
      BY <3>1, <3>2, CountsAre DEF both
    <3>4. l \in Int
      <4>1. Hybrid!Energy(both) \in Int
        BY <1>2, CountsAre, EnergyMore
      <4>2. Hybrid!SumOf(more) = Hybrid!Energy(both) - Hybrid!Energy(m)
            /\ Hybrid!Energy(m) = Hybrid!Energy(both)
        <5>1. Hybrid!SumOf(more) \in Int
          <6>1. \A k \in Key : more[k] = 0
            BY <3>1, CountsAre DEF more
          <6>2. Hybrid!SumOf(more) = SumFunctionOnSet(more, Key)
            BY HybridSum DEF more
          <6> QED
            BY <6>1, <6>2, SetSumZeros
        <5> QED
          BY <1>3, <3>2, <3>3, <4>1, <5>1
      <4> QED
        BY <2>2, <4>1, <4>2
    <3>5. merged = AsUniv(l, All(h))
      <4>1. merged = [AsUniv(h.l2, All(h)) EXCEPT !.mapCounts = Hybrid!Nothing, !.l2 = l]
        BY <2>2, <3>3
      <4> HIDE DEF merged, l
      <4> QED
        BY <4>1 DEF AsUniv
    <3> HIDE DEF merged, l
    <3>6. Sound(AsUniv(l, All(h))) /\ All(AsUniv(l, All(h))) = All(h)
      BY <2>2, <3>4, FormsAre
    <3>7. Hybrid!Plus(All(h), c) = All(h)
      BY <2>2, <3>1, CountsAre
    <3> QED
      BY <3>5, <3>6, <3>7
  <2> QED
    BY <2>1, <2>2, FormsAre
<1> HIDE DEF merged
<1>5. Sound(Hybrid!MergeMaps(h, c)) /\ All(Hybrid!MergeMaps(h, c)) = All(merged)
  BY <1>1, <1>4, PerhapsPromoted
<1> QED
  BY <1>4, <1>5

LEMMA HybridMergeMakes ==
  ASSUME IsFiniteSet(Key), NEW h, Sound(h), NEW o, Sound(o)
  PROVE  LET s == Hybrid!Merge(h, o)
         IN  Sound(s) /\ All(s) = Hybrid!Plus(All(h), All(o))
<1>1. All(o) \in Counts
  BY FormsAre
<1>2. CASE h.isSketch \/ o.isSketch
  <2>1. Hybrid!Merge(h, o) = Hybrid!MergeSketches(h, Hybrid!promoteToSketch(o).univSketch)
    BY <1>2 DEF Hybrid!Merge
  <2>2. Hybrid!promoteToSketch(o).univSketch = All(o)
    BY PromoteMakes
  <2> QED
    BY <1>1, <2>1, <2>2, MergeSketchesMakes
<1>3. CASE ~ (h.isSketch \/ o.isSketch)
  <2>1. Hybrid!Merge(h, o) = Hybrid!MergeMaps(h, o.mapCounts)
    BY <1>3 DEF Hybrid!Merge
  <2>2. o.mapCounts = All(o)
    <3>1. o = AsMap(All(o))
      BY <1>3, FormsAre
    <3>2. AsMap(All(o)).mapCounts = All(o)
      BY DEF AsMap
    <3> QED
      BY <3>1, <3>2
  <2>3. ~ h.isSketch
    BY <1>3
  <2> QED
    BY <1>1, <2>1, <2>2, <2>3, MergeMapsMakes
<1> QED
  BY <1>2, <1>3

LEMMA NewHolds ==
  ASSUME IsFiniteSet(Key)
  PROVE  /\ Sound(Hybrid!NewHybridSketch) /\ All(Hybrid!NewHybridSketch) = Hybrid!Nothing
         /\ ~ Hybrid!NewHybridSketch.isSketch
         /\ \A k \in Key :
              LET s == Hybrid!InsertWithHash(Hybrid!NewHybridSketch, k)
              IN  Sound(s) /\ All(s) = [Hybrid!Nothing EXCEPT ![k] = 1]
<1> DEFINE n == Hybrid!NewHybridSketch
           none == Hybrid!Nothing
<1>1. Hybrid!Energy(none) = 0
  <2> DEFINE sq == [k \in Key |-> none[k] * none[k]]
  <2>1. \A k \in Key : sq[k] = 0
    BY CountsAre
  <2>2. Hybrid!Energy(none) = SumFunctionOnSet(sq, Key)
    BY HybridSum DEF Hybrid!Energy
  <2> QED
    BY <2>1, <2>2, SetSumZeros
<1>2. n = AsMap(none)
  BY <1>1 DEF Hybrid!NewHybridSketch, AsMap
<1>3. Sound(n) /\ All(n) = none /\ ~ n.isSketch
  BY <1>2, CountsAre, FormsAre
<1>4. ASSUME NEW k \in Key
      PROVE  LET s == Hybrid!InsertWithHash(n, k)
             IN  Sound(s) /\ All(s) = [none EXCEPT ![k] = 1]
  <2> DEFINE one == [none EXCEPT ![k] = 1]
             c == [n EXCEPT !.mapCounts[k] = n.mapCounts[k] + 1,
                            !.l2 = n.l2 + 2 * n.mapCounts[k] + 1]
             sq == [j \in Key |-> one[j] * one[j]]
  <2>1. one \in Counts /\ one[k] = 1 /\ \A j \in Key \ {k} : one[j] = 0
    BY CountsAre DEF Counts
  <2>2. Hybrid!Energy(one) = 1
    <3>1. sq[k] = 1 /\ \A j \in Key \ {k} : sq[j] = 0
      BY <2>1
    <3>2. Hybrid!Energy(one) = SumFunctionOnSet(sq, Key)
      BY HybridSum DEF Hybrid!Energy
    <3> HIDE DEF sq
    <3>3. SumFunctionOnSet(sq, Key) = sq[k]
      BY <3>1, SetSumSingle
    <3> QED
      BY <3>1, <3>2, <3>3
  <2>3. Hybrid!InsertWithHash(n, k) =
          IF Hybrid!HalfFull(c) THEN Hybrid!promoteToSketch(c) ELSE c
    BY <1>3 DEF Hybrid!InsertWithHash
  <2>4. n.mapCounts = none /\ n.l2 = 0 /\ none[k] = 0
    BY CountsAre DEF Hybrid!NewHybridSketch
  <2>5. c = [n EXCEPT !.mapCounts = one, !.l2 = 1]
    <3>1. [n.mapCounts EXCEPT ![k] = n.mapCounts[k] + 1] = one /\ n.l2 + 2 * n.mapCounts[k] + 1 = 1
      BY <2>4
    <3> QED
      BY <3>1 DEF Hybrid!NewHybridSketch
  <2>6. c = AsMap(one)
    <3> HIDE DEF c, one
    <3> QED
      BY <2>2, <2>5 DEF Hybrid!NewHybridSketch, AsMap
  <2>7. Sound(c) /\ All(c) = one
    <3> HIDE DEF c, one
    <3> QED
      BY <2>1, <2>6, FormsAre
  <2> HIDE DEF c
  <2> QED
    BY <2>3, <2>7, PerhapsPromoted
<1> QED
  BY <1>3, <1>4

-----------------------------------------------------------------------------
(* Where the queries are.  Q is the map of the queries, one record each.   *)
Pcs == {"idle", "check", "second", "promote", "build", "drop", "flag", "univ", "range", "done"}
Query == [pc : Pcs, res : Hyb, from : Int, at : Int, to : Int]
Writing == {"build", "drop", "flag"}
Promotes(q, i) == q.pc \in Writing /\ q.at = i
Halfway(q, i) == q.pc \in {"drop", "flag"} /\ q.at = i
Quiet(Q, i) == \A p \in Reader : ~ Halfway(Q[p], i)

(* What a bucket b that was given g holds while queries are at work: no    *)
(* form of it ever has more than g, and it is in order when nobody is half *)
(* way through its promotion.                                              *)
BucketHolds(b, g, Q, i) ==
  /\ Within(b.mapCounts, g) /\ Within(b.univSketch, g)
  /\ b.isSketch => b.mapCounts = Hybrid!Nothing
  /\ ~ b.isSketch /\ b.mapCounts # Hybrid!Nothing => b.l2 = Hybrid!Energy(b.mapCounts)
  /\ Quiet(Q, i) => InForm(b)
  /\ \A p \in Reader : Q[p].pc = "flag" /\ Q[p].at = i => b.mapCounts = Hybrid!Nothing

(* With one query at most promoting it, it also has all of g at each step. *)
BucketFull(b, g, Q, i) ==
  /\ \A p \in Reader, q \in Reader : Promotes(Q[p], i) /\ Promotes(Q[q], i) => p = q
  /\ \A p \in Reader : Promotes(Q[p], i) => ~ b.isSketch
  /\ b.isSketch => b.univSketch = g
  /\ ~ b.isSketch /\ Quiet(Q, i) => b.mapCounts = g
  /\ \A p \in Reader : Q[p].pc = "drop" /\ Q[p].at = i => b.mapCounts = g /\ b.univSketch = g
  /\ \A p \in Reader : Q[p].pc = "flag" /\ Q[p].at = i => b.univSketch = g

(* What the buckets from..n were given.                                    *)
Taken(G, from, n) == [k \in Key |-> Hybrid!SumOf([i \in from..n |-> G[i][k]])]

(* A query has passed the buckets before the one it is at, all at the end. *)
Behind(q) == IF q.pc = "done" THEN q.at ELSE q.at - 1
QueryHolds(q, G, met, P) ==
  /\ 1 <= q.from /\ q.from <= q.at /\ q.at <= q.to /\ q.to <= Len(G)
  /\ q.pc = "done" => q.at = q.to
  /\ Sound(q.res)
  /\ Within(All(q.res), Taken(G, q.from, Behind(q)))
  /\ ~ met /\ (\A i \in q.from..q.to : ~ P[i]) => All(q.res) = Taken(G, q.from, Behind(q))

(* What it has read of its bucket is still so, when nobody promoted it.    *)
QuerySees(r, B, Q, met) ==
  /\ Q[r].pc = "univ" => B[Q[r].at].isSketch
  /\ Q[r].pc = "range" /\ Q[r].res.isSketch => B[Q[r].at].isSketch
  /\ ~ met /\ Q[r].pc # "done" =>
       \A p \in Reader \ {r}, i \in Q[r].at..Q[r].to : ~ Halfway(Q[p], i)
  /\ ~ met /\ Q[r].pc \in {"second", "range"} => ~ B[Q[r].at].isSketch

InStep(B, Q, G, P, M) ==
  /\ B \in Seq(Hyb) /\ Q \in [Reader -> Query]
  /\ G \in Seq(Counts) /\ P \in Seq(BOOLEAN) /\ M \in [Reader -> BOOLEAN]
  /\ Len(G) = Len(B) /\ Len(P) = Len(B)
  /\ \A i \in 1..Len(B) : /\ BucketHolds(B[i], G[i], Q, i)
                          /\ ~ P[i] => BucketFull(B[i], G[i], Q, i)
  /\ \A r \in Reader : Q[r].pc # "idle" => /\ QueryHolds(Q[r], G, M[r], P)
                                           /\ QuerySees(r, B, Q, M[r])

HybridInv ==
  /\ hybrids = [buckets |-> hybrids.buckets, query |-> hybrids.query]
  /\ counted = [given |-> counted.given, spoiled |-> counted.spoiled, met |-> counted.met]
  /\ InStep(hybrids.buckets, hybrids.query, counted.given, counted.spoiled, counted.met)

LEMMA TakenMore ==
  ASSUME NEW G \in Seq(Counts), NEW from \in Int, NEW n \in Int, 1 <= from, from <= n, n <= Len(G)
  PROVE  /\ Taken(G, from, from - 1) = Hybrid!Nothing
         /\ G[n] \in Counts
         /\ Taken(G, from, n - 1) \in Counts
         /\ Taken(G, from, n) = Hybrid!Plus(Taken(G, from, n - 1), G[n])
<1>1. \A i \in from..n : G[i] \in Counts
  BY ElementOfSeq
<1>2. \A i \in from..n, k \in Key : G[i][k] \in Nat
  BY <1>1 DEF Counts
<1>3. Taken(G, from, from - 1) = Hybrid!Nothing
  <2>1. ASSUME NEW k \in Key
        PROVE  Hybrid!SumOf([i \in from..from-1 |-> G[i][k]]) = 0
    <3> DEFINE f == [i \in from..from-1 |-> G[i][k]]
    <3>1. from..from-1 = {}
      OBVIOUS
    <3>2. Hybrid!SumOf(f) = SumFunctionOnSet(f, from..from-1)
      BY HybridSum
    <3> QED
      BY <3>1, <3>2, SetSumEmpty
  <2> QED
    BY <2>1 DEF Taken, Hybrid!Nothing
<1>4. ASSUME NEW k \in Key
      PROVE  /\ Hybrid!SumOf([i \in from..n-1 |-> G[i][k]]) \in Nat
             /\ Hybrid!SumOf([i \in from..n |-> G[i][k]])
                  = Hybrid!SumOf([i \in from..n-1 |-> G[i][k]]) + G[n][k]
  <2> DEFINE S == from..n-1
             f == [i \in S |-> G[i][k]]
             g == [i \in from..n |-> G[i][k]]
  <2>1. Hybrid!SumOf(f) = SumFunctionOnSet(f, S)
    BY HybridSum
  <2>2. Hybrid!SumOf(g) = SumFunctionOnSet(g, from..n)
    BY HybridSum
  <2>3. from..n = S \union {n} /\ n \notin S
    OBVIOUS
  <2>4. IsFiniteSet(S)
    BY FS_Interval
  <2>5. \A i \in S : f[i] \in Nat /\ g[i] = f[i]
    BY <1>2
  <2>6. \A i \in S \union {n} : g[i] \in Int
    BY <1>2
  <2>7. g[n] = G[n][k] /\ g[n] \in Nat
    BY <1>2
  <2> HIDE DEF S, f, g
  <2>8. SumFunctionOnSet(g, S \union {n}) = g[n] + SumFunctionOnSet(g, S)
    BY <2>3, <2>4, <2>6, SetSumAdd
  <2>9. SumFunctionOnSet(g, S) = SumFunctionOnSet(f, S)
    BY <2>4, <2>5, SetSumEq
  <2>10. SumFunctionOnSet(f, S) \in Nat
    BY <2>4, <2>5, SetSumNat
  <2>12. SumFunctionOnSet(g, from..n) = SumFunctionOnSet(g, S \union {n})
    BY <2>3
  <2>11. Hybrid!SumOf(g) = Hybrid!SumOf(f) + G[n][k] /\ Hybrid!SumOf(f) \in Nat
    BY <2>1, <2>2, <2>7, <2>8, <2>9, <2>10, <2>12
  <2> QED
    BY <2>11 DEF f, g, S
<1>5. G[n] \in Counts
  BY <1>1
<1>6. Taken(G, from, n - 1) \in Counts
  BY <1>4 DEF Taken, Counts
<1>7. Taken(G, from, n) = Hybrid!Plus(Taken(G, from, n - 1), G[n])
  BY <1>4 DEF Taken, Hybrid!Plus
<1> QED
  BY <1>3, <1>5, <1>6, <1>7

(* The buckets between queries are in order, and full unless spoiled.      *)
Rests(b, g, spoiled) ==
  Sound(b) /\ Within(All(b), g) /\ (~ spoiled => All(b) = g)

LEMMA WithinIs ==
  /\ \A f \in Counts : Within(f, f) /\ Within(Hybrid!Nothing, f)
  /\ \A f \in Counts, g \in Counts, x \in Counts, y \in Counts :
       Within(f, g) /\ Within(x, y) => Within(Hybrid!Plus(f, x), Hybrid!Plus(g, y))
<1>1. \A f \in Counts : Within(f, f) /\ Within(Hybrid!Nothing, f)
  <2>1. ASSUME NEW f \in Counts, NEW k \in Key
        PROVE  f[k] <= f[k] /\ Hybrid!Nothing[k] <= f[k]
    BY CountsAre
  <2> QED
    BY <2>1 DEF Within
<1>2. ASSUME NEW f \in Counts, NEW g \in Counts, NEW x \in Counts, NEW y \in Counts,
             Within(f, g), Within(x, y), NEW k \in Key
      PROVE  Hybrid!Plus(f, x)[k] <= Hybrid!Plus(g, y)[k]
  <2>1. f[k] <= g[k] /\ x[k] <= y[k]
    BY <1>2 DEF Within
  <2>2. f[k] \in Nat /\ g[k] \in Nat /\ x[k] \in Nat /\ y[k] \in Nat
    BY CountsAre
  <2>3. Hybrid!Plus(f, x)[k] = f[k] + x[k] /\ Hybrid!Plus(g, y)[k] = g[k] + y[k]
    BY CountsAre
  <2> QED
    BY <2>1, <2>2, <2>3
<1> QED
  BY <1>1, <1>2 DEF Within

LEMMA RestsIs ==
  ASSUME IsFiniteSet(Key), NEW Q, \A p \in Reader : Q[p].pc = "idle",
         NEW b \in Hyb, NEW g \in Counts, NEW spoiled \in BOOLEAN, NEW i
  PROVE  BucketHolds(b, g, Q, i) /\ (~ spoiled => BucketFull(b, g, Q, i)) <=> Rests(b, g, spoiled)
<1>1. Quiet(Q, i)
  BY DEF Quiet, Halfway
<1>2. \A p \in Reader : ~ Promotes(Q[p], i) /\ Q[p].pc # "drop" /\ Q[p].pc # "flag"
  BY DEF Promotes, Writing
<1>3. BucketHolds(b, g, Q, i) => Sound(b)
  BY <1>1 DEF BucketHolds, Sound
<1>4. ASSUME Sound(b)
      PROVE  BucketHolds(b, g, Q, i) /\ (~ spoiled => BucketFull(b, g, Q, i))
               <=> Within(All(b), g) /\ (~ spoiled => All(b) = g)
  <2>1. InForm(b) /\ b.mapCounts \in Counts /\ b.univSketch \in Counts
    BY <1>4, HybIs DEF Sound
  <2>2. CASE b.isSketch
    <3>1. b.mapCounts = Hybrid!Nothing
      BY <2>1, <2>2 DEF InForm
    <3>2. All(b) = b.univSketch
      BY <2>1, <3>1, CountsAre DEF All
    <3>3. BucketHolds(b, g, Q, i) <=> Within(b.univSketch, g)
      BY <1>2, <2>1, <2>2, <3>1, WithinIs DEF BucketHolds
    <3>4. BucketFull(b, g, Q, i) <=> b.univSketch = g
      BY <1>2, <2>2 DEF BucketFull
    <3> QED
      BY <3>2, <3>3, <3>4
  <2>3. CASE ~ b.isSketch
    <3>1. b.univSketch = Hybrid!Nothing /\ b.l2 = Hybrid!Energy(b.mapCounts)
      BY <2>1, <2>3 DEF InForm
    <3>2. All(b) = b.mapCounts
      BY <2>1, <3>1, CountsAre DEF All
    <3>3. BucketHolds(b, g, Q, i) <=> Within(b.mapCounts, g)
      BY <1>2, <2>1, <2>3, <3>1, WithinIs DEF BucketHolds
    <3>4. BucketFull(b, g, Q, i) <=> b.mapCounts = g
      BY <1>1, <1>2, <2>3 DEF BucketFull
    <3> QED
      BY <3>2, <3>3, <3>4
  <2> QED
    BY <2>2, <2>3
<1> QED
  BY <1>3, <1>4 DEF Rests

LEMMA QueryIs ==
  /\ \A q \in Query : /\ q.pc \in Pcs /\ q.res \in Hyb
                      /\ q.from \in Int /\ q.at \in Int /\ q.to \in Int
  /\ \A q \in Query, y \in Pcs :
       LET x == [q EXCEPT !.pc = y]
       IN  x \in Query /\ x.pc = y /\ x.res = q.res /\ x.from = q.from /\ x.at = q.at /\ x.to = q.to
BY DEF Query

(* Who is at work at the buckets is all that buckets have to do with the   *)
(* queries.                                                                *)
SameAt(Q, QQ, i, where) ==
  \A p \in Reader : QQ[p].pc = where /\ QQ[p].at = i <=> Q[p].pc = where /\ Q[p].at = i

LEMMA SameWork ==
  ASSUME NEW Q, NEW QQ, NEW i, SameAt(Q, QQ, i, "drop"), SameAt(Q, QQ, i, "flag"),
         NEW b, NEW g
  PROVE  /\ Quiet(QQ, i) <=> Quiet(Q, i)
         /\ BucketHolds(b, g, Q, i) => BucketHolds(b, g, QQ, i)
         /\ SameAt(Q, QQ, i, "build") /\ BucketFull(b, g, Q, i) => BucketFull(b, g, QQ, i)
<1>0. \A p \in Reader : /\ QQ[p].pc = "drop" /\ QQ[p].at = i <=> Q[p].pc = "drop" /\ Q[p].at = i
                        /\ QQ[p].pc = "flag" /\ QQ[p].at = i <=> Q[p].pc = "flag" /\ Q[p].at = i
  BY Zenon DEF SameAt
<1>1. \A p \in Reader : Halfway(QQ[p], i) <=> Halfway(Q[p], i)
  BY <1>0 DEF Halfway
<1>2. Quiet(QQ, i) <=> Quiet(Q, i)
  BY <1>1 DEF Quiet
<1>3. BucketHolds(b, g, Q, i) => BucketHolds(b, g, QQ, i)
  BY <1>0, <1>2, Zenon DEF BucketHolds
<1>4. ASSUME SameAt(Q, QQ, i, "build"), BucketFull(b, g, Q, i)
      PROVE  BucketFull(b, g, QQ, i)
  <2>1. \A p \in Reader : Promotes(QQ[p], i) <=> Promotes(Q[p], i)
    BY <1>0, <1>4 DEF Promotes, Writing, SameAt
  <2> QED
    BY <1>0, <1>2, <1>4, <2>1, Zenon DEF BucketFull
<1> QED
  BY <1>2, <1>3, <1>4

(* A step of a query that neither starts nor carries on a promotion.       *)
LEMMA QuietStep ==
  ASSUME NEW B, NEW Q, NEW G, NEW P, NEW M, InStep(B, Q, G, P, M),
         NEW r \in Reader, NEW QQ \in [Reader -> Query], NEW MM \in [Reader -> BOOLEAN],
         \A p \in Reader \ {r} : QQ[p] = Q[p] /\ MM[p] = M[p],
         Q[r].pc \notin Writing, QQ[r].pc \notin Writing,
         QQ[r].pc # "idle" => QueryHolds(QQ[r], G, MM[r], P) /\ QuerySees(r, B, QQ, MM[r])
  PROVE  InStep(B, QQ, G, P, MM)
<1>0. /\ B \in Seq(Hyb) /\ Q \in [Reader -> Query]
      /\ G \in Seq(Counts) /\ P \in Seq(BOOLEAN) /\ M \in [Reader -> BOOLEAN]
      /\ Len(G) = Len(B) /\ Len(P) = Len(B)
  BY DEF InStep
<1>2. ASSUME NEW p \in Reader, NEW i
      PROVE  /\ QQ[p].pc = "drop" /\ QQ[p].at = i <=> Q[p].pc = "drop" /\ Q[p].at = i
             /\ QQ[p].pc = "flag" /\ QQ[p].at = i <=> Q[p].pc = "flag" /\ Q[p].at = i
             /\ QQ[p].pc = "build" /\ QQ[p].at = i <=> Q[p].pc = "build" /\ Q[p].at = i
  <2>1. CASE p = r
    BY <2>1 DEF Writing
  <2>2. CASE p # r
    BY <2>2
  <2> QED
    BY <2>1, <2>2
<1>3. ASSUME NEW i \in 1..Len(B)
      PROVE  BucketHolds(B[i], G[i], QQ, i) /\ (~ P[i] => BucketFull(B[i], G[i], QQ, i))
  <2>1. BucketHolds(B[i], G[i], Q, i) /\ (~ P[i] => BucketFull(B[i], G[i], Q, i))
    BY DEF InStep
  <2>2. SameAt(Q, QQ, i, "drop") /\ SameAt(Q, QQ, i, "flag") /\ SameAt(Q, QQ, i, "build")
    BY <1>2 DEF SameAt
  <2> QED
    BY <2>1, <2>2, SameWork
<1>4. ASSUME NEW p \in Reader, QQ[p].pc # "idle"
      PROVE  QueryHolds(QQ[p], G, MM[p], P) /\ QuerySees(p, B, QQ, MM[p])
  <2>1. CASE p = r
    BY <1>4, <2>1
  <2>2. CASE p # r
    <3>1. QQ[p] = Q[p] /\ MM[p] = M[p]
      BY <2>2
    <3>2. QueryHolds(Q[p], G, M[p], P) /\ QuerySees(p, B, Q, M[p])
      BY <1>4, <3>1 DEF InStep
    <3>3. \A q \in Reader : \A i : Halfway(QQ[q], i) <=> Halfway(Q[q], i)
      BY <1>2 DEF Halfway
    <3> QED
      BY <3>1, <3>2, <3>3, Zenon DEF QuerySees
  <2> QED
    BY <2>1, <2>2
<1> QED
  BY <1>0, <1>3, <1>4 DEF InStep

(* To the branch that the flag of the bucket asks for.                     *)
LEMMA GotoStep ==
  ASSUME NEW B, NEW Q, NEW G, NEW P, NEW M, InStep(B, Q, G, P, M), NEW r \in Reader,
         Q[r].pc \in {"check", "second", "promote"},
         NEW y \in {"second", "promote", "univ", "range"},
         y = "univ" => B[Q[r].at].isSketch,
         y = "range" /\ Q[r].res.isSketch => B[Q[r].at].isSketch,
         ~ M[r] /\ y \in {"second", "range"} => ~ B[Q[r].at].isSketch,
         NEW QQ, QQ = [Q EXCEPT ![r].pc = y]
  PROVE  InStep(B, QQ, G, P, M)
<1> DEFINE q == Q[r]
           x == [q EXCEPT !.pc = y]
<1>0. q \in Query /\ M \in [Reader -> BOOLEAN] /\ y \in Pcs /\ Q \in [Reader -> Query]
  BY DEF InStep, Pcs
<1>1. x \in Query /\ x.pc = y /\ x.res = q.res /\ x.from = q.from /\ x.at = q.at /\ x.to = q.to
  BY <1>0, QueryIs
<1>2. QQ = [Q EXCEPT ![r] = x] /\ M = [M EXCEPT ![r] = M[r]] /\ M[r] \in BOOLEAN
  BY <1>0
<1>3. QQ[r] = x /\ \A p \in Reader \ {r} : QQ[p] = Q[p]
  BY <1>0, <1>2
<1>4. QueryHolds(q, G, M[r], P) /\ QuerySees(r, B, Q, M[r])
  BY DEF InStep
<1>5. q.pc \notin Writing /\ x.pc \notin Writing /\ q.pc # "done" /\ x.pc # "done" /\ x.pc # "idle"
  BY <1>1 DEF Writing
<1> HIDE DEF x
<1>6. QueryHolds(x, G, M[r], P)
  <2>1. Behind(x) = Behind(q)
    BY <1>1, <1>5 DEF Behind
  <2> QED
    BY <1>1, <1>4, <1>5, <2>1 DEF QueryHolds
<1>7. QuerySees(r, B, QQ, M[r])
  <2>1. \A p \in Reader \ {r} : \A i : Halfway(QQ[p], i) <=> Halfway(Q[p], i)
    BY <1>3
  <2>2. ~ M[r] => \A p \in Reader \ {r}, i \in q.at..q.to : ~ Halfway(Q[p], i)
    BY <1>4, <1>5, Zenon DEF QuerySees
  <2>3. ~ M[r] => \A p \in Reader \ {r}, i \in x.at..x.to : ~ Halfway(QQ[p], i)
    BY <1>1, <2>1, <2>2
  <2>4. x.pc = "univ" => B[x.at].isSketch
    BY <1>1
  <2>5. x.pc = "range" /\ x.res.isSketch => B[x.at].isSketch
    BY <1>1
  <2>6. ~ M[r] /\ x.pc \in {"second", "range"} => ~ B[x.at].isSketch
    BY <1>1
  <2> QED
    BY <1>3, <2>3, <2>4, <2>5, <2>6, Zenon DEF QuerySees
<1>8. QQ[r].pc \notin Writing /\ QueryHolds(QQ[r], G, M[r], P) /\ QQ \in [Reader -> Query]
  BY <1>0, <1>1, <1>2, <1>3, <1>5, <1>6
<1> QED
  BY <1>0, <1>3, <1>5, <1>7, <1>8, QuietStep

(* The query starts to promote; two at once spoil the bucket.              *)
LEMMA StartStep ==
  ASSUME NEW B, NEW Q, NEW G, NEW P, NEW M, InStep(B, Q, G, P, M), NEW r \in Reader,
         Q[r].pc = "promote", ~ B[Q[r].at].isSketch,
         NEW QQ, QQ = [Q EXCEPT ![r].pc = "build"],
         NEW PP, PP = IF \E p \in Reader \ {r} : Promotes(Q[p], Q[r].at)
                      THEN [P EXCEPT ![Q[r].at] = TRUE] ELSE P
  PROVE  InStep(B, QQ, G, PP, M)
<1> DEFINE q == Q[r]
           at == q.at
<1>0. /\ B \in Seq(Hyb) /\ Q \in [Reader -> Query] /\ q \in Query
      /\ G \in Seq(Counts) /\ P \in Seq(BOOLEAN) /\ M \in [Reader -> BOOLEAN]
      /\ Len(G) = Len(B) /\ Len(P) = Len(B)
  BY DEF InStep
<1>1. QueryHolds(q, G, M[r], P) /\ QuerySees(r, B, Q, M[r])
  BY DEF InStep
<1>2. at \in 1..Len(B) /\ at \in Int
  BY <1>0, <1>1, QueryIs DEF QueryHolds
<1>3. /\ QQ \in [Reader -> Query] /\ QQ[r].pc = "build" /\ QQ[r].res = q.res
      /\ QQ[r].from = q.from /\ QQ[r].at = at /\ QQ[r].to = q.to
      /\ \A p \in Reader \ {r} : QQ[p] = Q[p]
  <2>1. "build" \in Pcs
    BY DEF Pcs
  <2>2. LET x == [q EXCEPT !.pc = "build"]
        IN  x \in Query /\ x.pc = "build" /\ x.res = q.res /\ x.from = q.from /\ x.at = at
            /\ x.to = q.to
    BY <1>0, <2>1, QueryIs
  <2>3. QQ[r] = [q EXCEPT !.pc = "build"] /\ QQ = [Q EXCEPT ![r] = [q EXCEPT !.pc = "build"]]
    BY <1>0
  <2> QED
    BY <1>0, <2>2, <2>3
<1>4. PP \in Seq(BOOLEAN) /\ Len(PP) = Len(B) /\ \A i \in 1..Len(B) : ~ PP[i] => ~ P[i]
  <2> DEFINE spoiled == [P EXCEPT ![at] = TRUE]
  <2>1. spoiled \in Seq(BOOLEAN) /\ Len(spoiled) = Len(B)
    BY <1>0, <1>2, ExceptSeq
  <2>2. P \in [1..Len(B) -> BOOLEAN]
    BY <1>0, LenProperties
  <2>3. \A i \in 1..Len(B) : ~ spoiled[i] => ~ P[i]
    BY <2>2
  <2>4. PP = spoiled \/ PP = P
    OBVIOUS
  <2> HIDE DEF spoiled
  <2> QED
    BY <1>0, <2>1, <2>3, <2>4
<1>5. ASSUME ~ PP[at]
      PROVE  \A p \in Reader \ {r} : ~ Promotes(Q[p], at)
  <2>1. P \in [1..Len(B) -> BOOLEAN]
    BY <1>0, LenProperties
  <2> QED
    BY <1>2, <1>5, <2>1
<1>6. ASSUME NEW p \in Reader, NEW i
      PROVE  /\ QQ[p].pc = "drop" /\ QQ[p].at = i <=> Q[p].pc = "drop" /\ Q[p].at = i
             /\ QQ[p].pc = "flag" /\ QQ[p].at = i <=> Q[p].pc = "flag" /\ Q[p].at = i
             /\ i # at =>
                  (QQ[p].pc = "build" /\ QQ[p].at = i <=> Q[p].pc = "build" /\ Q[p].at = i)
  <2>1. CASE p = r
    BY <1>3, <2>1
  <2>2. CASE p # r
    BY <1>3, <2>2
  <2> QED
    BY <2>1, <2>2
<1>7. ASSUME NEW i \in 1..Len(B)
      PROVE  BucketHolds(B[i], G[i], QQ, i) /\ (~ PP[i] => BucketFull(B[i], G[i], QQ, i))
  <2>1. BucketHolds(B[i], G[i], Q, i) /\ (~ P[i] => BucketFull(B[i], G[i], Q, i))
    BY DEF InStep
  <2>0. /\ SameAt(Q, QQ, i, "drop") /\ SameAt(Q, QQ, i, "flag")
        /\ i # at => SameAt(Q, QQ, i, "build")
    BY <1>6 DEF SameAt
  <2>2. BucketHolds(B[i], G[i], QQ, i) /\ (Quiet(QQ, i) <=> Quiet(Q, i))
    BY <2>0, <2>1, SameWork
  <2>3. CASE i # at
    BY <1>4, <2>0, <2>1, <2>2, <2>3, SameWork
  <2>4. CASE i = at
    <3>1. SUFFICES ASSUME ~ PP[at]
                   PROVE  BucketFull(B[at], G[at], QQ, at)
      BY <2>2, <2>4
    <3>2. BucketFull(B[at], G[at], Q, at)
      BY <1>4, <2>1, <2>4, <3>1
    <3>3. \A p \in Reader : Promotes(QQ[p], at) => p = r
      BY <1>3, <1>5, <3>1
    <3>4. ~ B[at].isSketch
      OBVIOUS
    <3>5. \A p \in Reader : /\ QQ[p].pc = "drop" /\ QQ[p].at = at => Q[p].pc = "drop" /\ Q[p].at = at
                            /\ QQ[p].pc = "flag" /\ QQ[p].at = at => Q[p].pc = "flag" /\ Q[p].at = at
      BY <1>6
    <3>6. Quiet(QQ, at) <=> Quiet(Q, at)
      BY <2>2, <2>4
    <3> HIDE DEF at
    <3> QED
      BY <3>2, <3>3, <3>4, <3>5, <3>6, Zenon DEF BucketFull
  <2> QED
    BY <2>3, <2>4
<1>8. ASSUME NEW p \in Reader, QQ[p].pc # "idle"
      PROVE  QueryHolds(QQ[p], G, M[p], PP) /\ QuerySees(p, B, QQ, M[p])
  <2>0. /\ QQ[p].res = Q[p].res /\ QQ[p].from = Q[p].from /\ QQ[p].at = Q[p].at
        /\ QQ[p].to = Q[p].to /\ Q[p].pc # "idle" /\ Q[p] \in Query
        /\ (QQ[p].pc = Q[p].pc \/ (QQ[p].pc = "build" /\ Q[p].pc = "promote"))
    <3>1. CASE p = r
      BY <1>0, <1>3, <3>1
    <3>2. CASE p # r
      <4>1. QQ[p] = Q[p] /\ Q[p] \in Query
        BY <1>0, <1>3, <3>2
      <4>2. Q[p].pc # "idle"
        BY <1>8, <4>1
      <4> QED
        BY <4>1, <4>2
    <3> QED
      BY <3>1, <3>2
  <2>1. QueryHolds(Q[p], G, M[p], P) /\ QuerySees(p, B, Q, M[p])
    BY <2>0 DEF InStep
  <2>2. (\A i \in Q[p].from..Q[p].to : ~ PP[i]) => \A i \in Q[p].from..Q[p].to : ~ P[i]
    <3>1. Q[p].from..Q[p].to \subseteq 1..Len(B)
      BY <1>0, <2>0, <2>1, QueryIs DEF QueryHolds
    <3> QED
      BY <1>4, <3>1
  <2>3. Behind(QQ[p]) = Behind(Q[p]) /\ (QQ[p].pc = "done" <=> Q[p].pc = "done")
    BY <2>0 DEF Behind
  <2>4. QueryHolds(QQ[p], G, M[p], PP)
    BY <2>0, <2>1, <2>2, <2>3, Zenon DEF QueryHolds
  <2>5. \A s \in Reader : \A i : Halfway(QQ[s], i) <=> Halfway(Q[s], i)
    BY <1>6 DEF Halfway
  <2>6. /\ QQ[p].pc = "univ" => Q[p].pc = "univ"
        /\ QQ[p].pc = "range" => Q[p].pc = "range"
        /\ QQ[p].pc \in {"second", "range"} => Q[p].pc \in {"second", "range"}
    BY <2>0
  <2>7. QuerySees(p, B, QQ, M[p])
    BY <2>0, <2>1, <2>3, <2>5, <2>6, Zenon DEF QuerySees
  <2> QED
    BY <2>4, <2>7
<1> QED
  BY <1>0, <1>3, <1>4, <1>7, <1>8 DEF InStep

(* A write of the promotion of a bucket, from what it does to the bucket.  *)
Met(Q, M, r) ==
  [p \in Reader |-> \/ M[p]
                    \/ /\ p # r /\ Q[p].pc \notin {"idle", "done"}
                       /\ Q[r].at \in Q[p].at..Q[p].to]

LEMMA WriteStep ==
  ASSUME NEW B, NEW Q, NEW G, NEW P, NEW M, InStep(B, Q, G, P, M), NEW r \in Reader,
         Q[r].pc \in Writing, NEW y \in {"drop", "flag", "univ"},
         NEW QQ, QQ = [Q EXCEPT ![r].pc = y],
         NEW bb \in Hyb, y = "univ" => bb.isSketch, B[Q[r].at].isSketch => bb.isSketch,
         BucketHolds(bb, G[Q[r].at], QQ, Q[r].at),
         ~ P[Q[r].at] => BucketFull(bb, G[Q[r].at], QQ, Q[r].at),
         NEW BB, BB = [B EXCEPT ![Q[r].at] = bb]
  PROVE  InStep(BB, QQ, G, P, Met(Q, M, r))
<1> DEFINE q == Q[r]
           at == q.at
           MM == Met(Q, M, r)
<1>0. /\ B \in Seq(Hyb) /\ Q \in [Reader -> Query] /\ q \in Query
      /\ G \in Seq(Counts) /\ P \in Seq(BOOLEAN) /\ M \in [Reader -> BOOLEAN]
      /\ Len(G) = Len(B) /\ Len(P) = Len(B)
  BY DEF InStep
<1>1. q.pc # "idle" /\ QueryHolds(q, G, M[r], P) /\ QuerySees(r, B, Q, M[r])
  BY DEF InStep, Writing
<1>2. at \in 1..Len(B) /\ at \in Int
  BY <1>0, <1>1, QueryIs DEF QueryHolds
<1>3. /\ QQ \in [Reader -> Query] /\ QQ[r].pc = y /\ QQ[r].res = q.res
      /\ QQ[r].from = q.from /\ QQ[r].at = at /\ QQ[r].to = q.to
      /\ \A p \in Reader \ {r} : QQ[p] = Q[p]
  <2>1. y \in Pcs
    BY DEF Pcs
  <2>2. LET x == [q EXCEPT !.pc = y]
        IN  x \in Query /\ x.pc = y /\ x.res = q.res /\ x.from = q.from /\ x.at = at
            /\ x.to = q.to
    BY <1>0, <2>1, QueryIs
  <2>3. QQ[r] = [q EXCEPT !.pc = y] /\ QQ = [Q EXCEPT ![r] = [q EXCEPT !.pc = y]]
    BY <1>0
  <2> QED
    BY <1>0, <2>2, <2>3
<1>4. /\ BB \in Seq(Hyb) /\ Len(BB) = Len(B) /\ BB[at] = bb
      /\ \A i \in 1..Len(B) : i # at => BB[i] = B[i]
  BY <1>0, <1>2, ExceptSeq
<1>5. /\ MM \in [Reader -> BOOLEAN] /\ MM[r] = M[r]
      /\ \A p \in Reader : ~ MM[p] => ~ M[p]
      /\ \A p \in Reader : ~ MM[p] /\ p # r /\ Q[p].pc \notin {"idle", "done"}
                             => at \notin Q[p].at..Q[p].to
  BY <1>0 DEF Met
<1>6. ASSUME NEW i \in 1..Len(BB)
      PROVE  BucketHolds(BB[i], G[i], QQ, i) /\ (~ P[i] => BucketFull(BB[i], G[i], QQ, i))
  <2>1. CASE i = at
    BY <1>4, <2>1
  <2>2. CASE i # at
    <3>1. BB[i] = B[i]
      BY <1>4, <2>2
    <3>2. BucketHolds(B[i], G[i], Q, i) /\ (~ P[i] => BucketFull(B[i], G[i], Q, i))
      BY <1>4 DEF InStep
    <3>3. ASSUME NEW p \in Reader, NEW where
          PROVE  QQ[p].pc = where /\ QQ[p].at = i <=> Q[p].pc = where /\ Q[p].at = i
      <4>1. CASE p = r
        BY <1>3, <2>2, <4>1
      <4>2. CASE p # r
        BY <1>3, <4>2
      <4> QED
        BY <4>1, <4>2
    <3>4. SameAt(Q, QQ, i, "drop") /\ SameAt(Q, QQ, i, "flag") /\ SameAt(Q, QQ, i, "build")
      BY <3>3 DEF SameAt
    <3> QED
      BY <3>1, <3>2, <3>4, SameWork
  <2> QED
    BY <2>1, <2>2
<1>7. ASSUME NEW p \in Reader, QQ[p].pc # "idle"
      PROVE  QueryHolds(QQ[p], G, MM[p], P) /\ QuerySees(p, BB, QQ, MM[p])
  <2>1. CASE p = r
    <3>1. Behind(QQ[r]) = Behind(q) /\ QQ[r].pc # "done" /\ q.pc # "done"
      BY <1>3 DEF Behind, Writing
    <3>2. QueryHolds(QQ[r], G, M[r], P)
      BY <1>1, <1>3, <3>1, Zenon DEF QueryHolds
    <3>3. QQ[r].pc # "range" /\ QQ[r].pc \notin {"second", "range"}
      BY <1>3
    <3>4. QQ[r].pc = "univ" => BB[QQ[r].at].isSketch
      BY <1>3, <1>4
    <3>5. ~ M[r] => \A s \in Reader \ {r}, i \in q.at..q.to : ~ Halfway(Q[s], i)
      BY <1>1, <3>1, Zenon DEF QuerySees
    <3>6. ~ M[r] => \A s \in Reader \ {r}, i \in QQ[r].at..QQ[r].to : ~ Halfway(QQ[s], i)
      BY <1>3, <3>5
    <3>7. QuerySees(r, BB, QQ, M[r])
      BY <3>3, <3>4, <3>6, Zenon DEF QuerySees
    <3> QED
      BY <1>5, <2>1, <3>2, <3>7
  <2>2. CASE p # r
    <3>1. QQ[p] = Q[p]
      BY <1>3, <2>2
    <3>2. QueryHolds(Q[p], G, M[p], P) /\ QuerySees(p, B, Q, M[p])
      BY <1>7, <3>1 DEF InStep
    <3>3. ~ MM[p] => ~ M[p]
      BY <1>5
    <3>4. QueryHolds(Q[p], G, MM[p], P)
      BY <3>2, <3>3, Zenon DEF QueryHolds
    <3> DEFINE here == Q[p].at
    <3>5. here \in 1..Len(B) /\ here \in here..Q[p].to
      <4>1. Q[p] \in Query
        BY <1>0
      <4>2. here \in Int /\ Q[p].to \in Int /\ Q[p].from \in Int
        BY <4>1, QueryIs
      <4>3. 1 <= Q[p].from /\ Q[p].from <= here /\ here <= Q[p].to /\ Q[p].to <= Len(G)
        BY <3>2 DEF QueryHolds
      <4> QED
        BY <1>0, <4>2, <4>3
    <3>6. B[here].isSketch => BB[here].isSketch
      BY <1>4, <3>5
    <3>7. ASSUME ~ MM[p], Q[p].pc # "done"
          PROVE  BB[here] = B[here] /\ at \notin here..Q[p].to
      <4>1. at \notin here..Q[p].to
        BY <1>5, <1>7, <2>2, <3>1, <3>7
      <4> QED
        BY <1>4, <3>5, <4>1
    <3>8. ASSUME ~ MM[p], Q[p].pc # "done", NEW s \in Reader \ {p}, NEW i \in here..Q[p].to
          PROVE  ~ Halfway(QQ[s], i)
      <4>1. CASE s = r
        BY <1>3, <3>7, <3>8, <4>1 DEF Halfway
      <4>2. CASE s # r
        <5>1. ~ Halfway(Q[s], i)
          BY <3>2, <3>3, <3>8, Zenon DEF QuerySees
        <5> QED
          BY <1>3, <4>2, <5>1
      <4> QED
        BY <4>1, <4>2
    <3>9. Q[p].pc = "univ" => BB[here].isSketch
      BY <3>2, <3>6, Zenon DEF QuerySees
    <3>10. Q[p].pc = "range" /\ Q[p].res.isSketch => BB[here].isSketch
      BY <3>2, <3>6, Zenon DEF QuerySees
    <3>11. ~ MM[p] /\ Q[p].pc \in {"second", "range"} => ~ BB[here].isSketch
      <4>1. Q[p].pc \in {"second", "range"} => Q[p].pc # "done"
        OBVIOUS
      <4> QED
        BY <3>2, <3>3, <3>7, <4>1, Zenon DEF QuerySees
    <3>12. QuerySees(p, BB, QQ, MM[p])
      BY <3>1, <3>8, <3>9, <3>10, <3>11, Zenon DEF QuerySees
    <3> QED
      BY <3>1, <3>4, <3>12
  <2> QED
    BY <2>1, <2>2
<1> QED
  BY <1>0, <1>3, <1>4, <1>5, <1>6, <1>7 DEF InStep

(* The three writes: the UnivSketch from the map, no map, and the flag.    *)
LEMMA PromotionSteps ==
  ASSUME NEW B, NEW Q, NEW G, NEW P, NEW M, InStep(B, Q, G, P, M), NEW r \in Reader,
         NEW b, b = B[Q[r].at], NEW y, NEW bb,
         \/ Q[r].pc = "build" /\ y = "drop" /\ bb = [b EXCEPT !.univSketch = b.mapCounts]
         \/ Q[r].pc = "drop" /\ y = "flag" /\ bb = [b EXCEPT !.mapCounts = Hybrid!Nothing]
         \/ Q[r].pc = "flag" /\ y = "univ" /\ bb = [b EXCEPT !.isSketch = TRUE],
         NEW QQ, QQ = [Q EXCEPT ![r].pc = y],
         NEW BB, BB = [B EXCEPT ![Q[r].at] = bb]
  PROVE  InStep(BB, QQ, G, P, Met(Q, M, r))
<1> DEFINE q == Q[r]
           at == q.at
           g == G[at]
<1>0. /\ B \in Seq(Hyb) /\ Q \in [Reader -> Query] /\ q \in Query
      /\ G \in Seq(Counts) /\ P \in Seq(BOOLEAN) /\ M \in [Reader -> BOOLEAN]
      /\ Len(G) = Len(B) /\ Len(P) = Len(B)
  BY DEF InStep
<1>1. q.pc # "idle" /\ QueryHolds(q, G, M[r], P) /\ q.pc \in Writing
      /\ y \in {"drop", "flag", "univ"} /\ y \in Pcs
  BY DEF InStep, Writing, Pcs
<1>2. at \in 1..Len(B) /\ at \in Int
  BY <1>0, <1>1, QueryIs DEF QueryHolds
<1>3. /\ BucketHolds(b, g, Q, at)
      /\ ~ P[at] => BucketFull(b, g, Q, at)
  BY <1>2 DEF InStep
<1>4. b \in Hyb /\ g \in Counts
  BY <1>0, <1>2, ElementOfSeq
<1>5. /\ b.isSketch \in BOOLEAN /\ b.mapCounts \in Counts /\ b.univSketch \in Counts
      /\ Hybrid!Nothing \in Counts /\ Within(Hybrid!Nothing, g)
  BY <1>4, CountsAre, HybIs, WithinIs
<1>6. QQ[r].pc = y /\ QQ[r].at = at /\ \A p \in Reader \ {r} : QQ[p] = Q[p]
  <2>1. QQ[r] = [q EXCEPT !.pc = y]
    BY <1>0
  <2>2. [q EXCEPT !.pc = y].pc = y /\ [q EXCEPT !.pc = y].at = q.at
    BY <1>0, <1>1, QueryIs
  <2> QED
    BY <1>0, <2>1, <2>2
<1>7. /\ \A p \in Reader : (QQ[p].pc = "flag" /\ QQ[p].at = at) =>
                              p = r \/ (Q[p].pc = "flag" /\ Q[p].at = at)
      /\ \A p \in Reader : Promotes(QQ[p], at) => Promotes(Q[p], at)
  <2>1. ASSUME NEW p \in Reader, p # r
        PROVE  QQ[p] = Q[p]
    BY <1>6, <2>1
  <2>2. Promotes(Q[r], at)
    BY <1>1 DEF Promotes
  <2> QED
    BY <2>1, <2>2
<1>8. /\ y = "univ" => bb.isSketch
      /\ b.isSketch => bb.isSketch
      /\ bb \in Hyb
      /\ BucketHolds(bb, g, QQ, at) /\ (~ P[at] => BucketFull(bb, g, QQ, at))
  <2>1. CASE q.pc = "build" /\ y = "drop" /\ bb = [b EXCEPT !.univSketch = b.mapCounts]
    <3>1. /\ bb \in Hyb /\ bb.isSketch = b.isSketch /\ bb.mapCounts = b.mapCounts
          /\ bb.l2 = b.l2 /\ bb.univSketch = b.mapCounts
      BY <1>4, <2>1 DEF Hyb
    <3>2. ~ Quiet(QQ, at)
      BY <1>6, <2>1 DEF Quiet, Halfway
    <3>3. \A p \in Reader : QQ[p].pc = "flag" /\ QQ[p].at = at => Q[p].pc = "flag" /\ Q[p].at = at
      BY <1>6, <1>7, <2>1
    <3>4. BucketHolds(bb, g, QQ, at)
      BY <1>3, <3>1, <3>2, <3>3, Zenon DEF BucketHolds
    <3>5. ASSUME ~ P[at]
          PROVE  BucketFull(bb, g, QQ, at)
      <4>1. BucketFull(b, g, Q, at) /\ Promotes(Q[r], at)
        BY <1>1, <1>3, <3>5 DEF Promotes
      <4>2. \A p \in Reader : Promotes(Q[p], at) => p = r
        BY <4>1, Zenon DEF BucketFull
      <4>3. Quiet(Q, at)
        BY <2>1, <4>2 DEF Quiet, Halfway, Promotes, Writing
      <4>4. ~ b.isSketch
        BY <4>1, Zenon DEF BucketFull
      <4>5. b.mapCounts = g
        BY <4>1, <4>3, <4>4, Zenon DEF BucketFull
      <4>6. \A p \in Reader : Promotes(QQ[p], at) => p = r
        BY <1>7, <4>2
      <4>7. \A p \in Reader : ~ (QQ[p].pc = "flag" /\ QQ[p].at = at)
        <5>1. \A p \in Reader : QQ[p].pc = "flag" /\ QQ[p].at = at => Promotes(QQ[p], at)
          BY DEF Promotes, Writing
        <5>2. QQ[r].pc # "flag"
          BY <1>6, <2>1
        <5> QED
          BY <4>6, <5>1, <5>2
      <4> QED
        BY <3>1, <3>2, <4>4, <4>5, <4>6, <4>7, Zenon DEF BucketFull
    <3>6. y # "univ"
      BY <2>1
    <3> QED
      BY <3>1, <3>4, <3>5, <3>6, Zenon
  <2>2. CASE q.pc = "drop" /\ y = "flag" /\ bb = [b EXCEPT !.mapCounts = Hybrid!Nothing]
    <3>1. /\ bb \in Hyb /\ bb.isSketch = b.isSketch /\ bb.mapCounts = Hybrid!Nothing
          /\ bb.l2 = b.l2 /\ bb.univSketch = b.univSketch
      BY <1>4, <1>5, <2>2 DEF Hyb
    <3>2. ~ Quiet(QQ, at)
      BY <1>6, <2>2 DEF Quiet, Halfway
    <3>4. BucketHolds(bb, g, QQ, at)
      BY <1>3, <1>5, <3>1, <3>2, Zenon DEF BucketHolds
    <3>5. ASSUME ~ P[at]
          PROVE  BucketFull(bb, g, QQ, at)
      <4>1. BucketFull(b, g, Q, at) /\ Promotes(Q[r], at)
        BY <1>1, <1>3, <3>5 DEF Promotes
      <4>2. \A p \in Reader : Promotes(Q[p], at) => p = r
        BY <4>1, Zenon DEF BucketFull
      <4>4. ~ b.isSketch
        BY <4>1, Zenon DEF BucketFull
      <4>5. b.univSketch = g
        BY <2>2, <4>1, Zenon DEF BucketFull
      <4>6. \A p \in Reader : Promotes(QQ[p], at) => p = r
        BY <1>7, <4>2
      <4>7. \A p \in Reader : ~ (QQ[p].pc = "drop" /\ QQ[p].at = at)
        <5>1. \A p \in Reader : QQ[p].pc = "drop" /\ QQ[p].at = at => Promotes(QQ[p], at)
          BY DEF Promotes, Writing
        <5>2. QQ[r].pc # "drop"
          BY <1>6, <2>2
        <5> QED
          BY <4>6, <5>1, <5>2
      <4> QED
        BY <3>1, <3>2, <4>4, <4>5, <4>6, <4>7, Zenon DEF BucketFull
    <3>6. y # "univ"
      BY <2>2
    <3> QED
      BY <3>1, <3>4, <3>5, <3>6, Zenon
  <2>3. CASE q.pc = "flag" /\ y = "univ" /\ bb = [b EXCEPT !.isSketch = TRUE]
    <3>0. b.mapCounts = Hybrid!Nothing
      BY <1>3, <2>3, Zenon DEF BucketHolds
    <3>1. /\ bb \in Hyb /\ bb.isSketch /\ bb.mapCounts = Hybrid!Nothing
          /\ bb.l2 = b.l2 /\ bb.univSketch = b.univSketch
      BY <1>4, <2>3, <3>0 DEF Hyb
    <3>2. InForm(bb)
      BY <3>1, Zenon DEF InForm
    <3>4. BucketHolds(bb, g, QQ, at)
      BY <1>3, <1>5, <3>1, <3>2, Zenon DEF BucketHolds
    <3>5. ASSUME ~ P[at]
          PROVE  BucketFull(bb, g, QQ, at)
      <4>1. BucketFull(b, g, Q, at) /\ Promotes(Q[r], at)
        BY <1>1, <1>3, <3>5 DEF Promotes
      <4>2. \A p \in Reader : Promotes(Q[p], at) => p = r
        BY <4>1, Zenon DEF BucketFull
      <4>5. b.univSketch = g
        BY <2>3, <4>1, Zenon DEF BucketFull
      <4>6. \A p \in Reader : ~ Promotes(QQ[p], at)
        <5>1. ~ Promotes(QQ[r], at)
          BY <1>6, <2>3 DEF Promotes, Writing
        <5> QED
          BY <1>7, <4>2, <5>1
      <4>7. \A p \in Reader : /\ ~ (QQ[p].pc = "drop" /\ QQ[p].at = at)
                              /\ ~ (QQ[p].pc = "flag" /\ QQ[p].at = at)
        BY <4>6 DEF Promotes, Writing
      <4> QED
        BY <3>1, <4>5, <4>6, <4>7, Zenon DEF BucketFull
    <3> QED
      BY <3>1, <3>4, <3>5, Zenon
  <2> QED
    BY <2>1, <2>2, <2>3
<1> HIDE DEF g
<1> QED
  BY <1>1, <1>8, WriteStep DEF g

(* Begin: a query starts on a cleared sketch.                              *)
LEMMA BeginStep ==
  ASSUME IsFiniteSet(Key),
         NEW B, NEW Q, NEW G, NEW P, NEW M, InStep(B, Q, G, P, M), NEW r \in Reader,
         Q[r].pc = "idle", NEW from \in 1..Len(B), NEW to, to = Len(B),
         NEW m \in BOOLEAN, m <=> \E p \in Reader : \E i \in from..to : Promotes(Q[p], i),
         NEW QQ, QQ = [Q EXCEPT ![r] = [Hybrid!NoQuery EXCEPT !.pc = "check", !.from = from,
                                                              !.at = from, !.to = to]],
         NEW MM, MM = [M EXCEPT ![r] = m]
  PROVE  InStep(B, QQ, G, P, MM)
<1> DEFINE n == Hybrid!NewHybridSketch
           x == [Hybrid!NoQuery EXCEPT !.pc = "check", !.from = from, !.at = from, !.to = to]
<1>0. /\ B \in Seq(Hyb) /\ Q \in [Reader -> Query]
      /\ G \in Seq(Counts) /\ P \in Seq(BOOLEAN) /\ M \in [Reader -> BOOLEAN]
      /\ Len(G) = Len(B) /\ Len(P) = Len(B)
  BY DEF InStep
<1>1. Sound(n) /\ All(n) = Hybrid!Nothing /\ n \in Hyb
  BY NewHolds DEF Sound
<1>2. from \in Int /\ to \in Int /\ 1 <= from /\ from <= to
  BY <1>0, LenProperties
<1>3. x.pc = "check" /\ x.res = n /\ x.from = from /\ x.at = from /\ x.to = to /\ x \in Query
  BY <1>1, <1>2 DEF Hybrid!NoQuery, Query, Pcs
<1>4. /\ QQ \in [Reader -> Query] /\ QQ[r] = x /\ \A p \in Reader \ {r} : QQ[p] = Q[p]
      /\ MM \in [Reader -> BOOLEAN] /\ MM[r] = m /\ \A p \in Reader \ {r} : MM[p] = M[p]
  BY <1>0, <1>3
<1> HIDE DEF x, n
<1>5. Taken(G, from, Behind(x)) = Hybrid!Nothing
  <2>1. Behind(x) = from - 1
    BY <1>3 DEF Behind
  <2>2. Taken(G, from, from - 1) = Hybrid!Nothing
    BY <1>0, <1>2, TakenMore
  <2> QED
    BY <2>1, <2>2
<1>6. QueryHolds(x, G, m, P)
  <2>1. Within(All(x.res), Taken(G, x.from, Behind(x)))
        /\ All(x.res) = Taken(G, x.from, Behind(x))
    BY <1>1, <1>3, <1>5, CountsAre, WithinIs
  <2> QED
    BY <1>0, <1>1, <1>2, <1>3, <2>1 DEF QueryHolds
<1>7. QuerySees(r, B, QQ, m)
  <2>1. ~ m => \A p \in Reader : \A i \in from..to : ~ Halfway(Q[p], i)
    BY DEF Halfway, Promotes, Writing
  <2>2. ~ m => \A p \in Reader \ {r}, i \in QQ[r].at..QQ[r].to : ~ Halfway(QQ[p], i)
    BY <1>3, <1>4, <2>1
  <2>3. QQ[r].pc # "univ" /\ QQ[r].pc # "range" /\ QQ[r].pc \notin {"second", "range"}
    BY <1>3, <1>4
  <2> QED
    BY <2>2, <2>3, Zenon DEF QuerySees
<1>8. Q[r].pc \notin Writing /\ QQ[r].pc \notin Writing
  BY <1>3, <1>4 DEF Writing
<1>9. QueryHolds(QQ[r], G, MM[r], P) /\ QuerySees(r, B, QQ, MM[r])
  BY <1>4, <1>6, <1>7
<1>10. /\ QQ \in [Reader -> Query] /\ MM \in [Reader -> BOOLEAN]
       /\ \A p \in Reader \ {r} : QQ[p] = Q[p] /\ MM[p] = M[p]
  BY <1>4
<1>11. InStep(B, Q, G, P, M) /\ r \in Reader
  OBVIOUS
<1> QED
  BY ONLY <1>8, <1>9, <1>10, <1>11, QuietStep

(* Absorb: the contents c of the bucket are added to the result.           *)
LEMMA AbsorbStep ==
  ASSUME IsFiniteSet(Key),
         NEW B, NEW Q, NEW G, NEW P, NEW M, InStep(B, Q, G, P, M), NEW r \in Reader,
         Q[r].pc \in {"univ", "range"}, NEW c \in Counts, NEW res, Sound(res),
         All(res) = Hybrid!Plus(All(Q[r].res), c), Within(c, G[Q[r].at]),
         ~ M[r] /\ ~ P[Q[r].at] => c = G[Q[r].at],
         NEW last \in BOOLEAN, last <=> Q[r].at = Q[r].to,
         NEW QQ, QQ = [Q EXCEPT ![r] = [Q[r] EXCEPT !.res = res,
                                          !.pc = IF last THEN "done" ELSE "check",
                                          !.at = IF last THEN Q[r].at ELSE Q[r].at + 1]]
  PROVE  InStep(B, QQ, G, P, M)
<1> DEFINE q == Q[r]
           at == q.at
           where == IF last THEN "done" ELSE "check"
           next == IF last THEN at ELSE at + 1
           x == [q EXCEPT !.res = res, !.pc = where, !.at = next]
<1>0. /\ B \in Seq(Hyb) /\ Q \in [Reader -> Query] /\ q \in Query
      /\ G \in Seq(Counts) /\ P \in Seq(BOOLEAN) /\ M \in [Reader -> BOOLEAN]
      /\ Len(G) = Len(B) /\ Len(P) = Len(B)
  BY DEF InStep
<1>1. QueryHolds(q, G, M[r], P) /\ QuerySees(r, B, Q, M[r])
  BY DEF InStep
<1>2. /\ at \in Int /\ q.from \in Int /\ q.to \in Int
      /\ 1 <= q.from /\ q.from <= at /\ at <= q.to /\ q.to <= Len(G) /\ Len(G) \in Nat
  BY <1>0, <1>1, QueryIs, LenProperties DEF QueryHolds
<1>3. x \in Query /\ x.pc = where /\ x.res = res /\ x.from = q.from /\ x.at = next /\ x.to = q.to
  <2>1. where \in Pcs /\ next \in Int /\ res \in Hyb
    BY <1>2 DEF Pcs, Sound
  <2> HIDE DEF where, next
  <2> QED
    BY <1>0, <2>1 DEF Query
<1>4. QQ \in [Reader -> Query] /\ QQ[r] = x /\ \A p \in Reader \ {r} : QQ[p] = Q[p]
  BY <1>0, <1>3
<1> HIDE DEF x
<1>5. Behind(q) = at - 1 /\ Behind(x) = at
  <2>1. CASE last
    BY <1>2, <1>3, <2>1 DEF Behind
  <2>2. CASE ~ last
    BY <1>2, <1>3, <2>2 DEF Behind
  <2> QED
    BY <2>1, <2>2
<1> DEFINE before == Taken(G, q.from, at - 1)
<1>6. /\ G[at] \in Counts /\ before \in Counts
      /\ Taken(G, q.from, at) = Hybrid!Plus(before, G[at])
  BY <1>0, <1>2, TakenMore
<1>7. /\ Within(All(q.res), before) /\ All(q.res) \in Counts
      /\ ~ M[r] /\ (\A i \in q.from..q.to : ~ P[i]) => All(q.res) = before
  <2>1. Sound(q.res)
    BY <1>1 DEF QueryHolds
  <2> QED
    BY <1>1, <1>5, <2>1, FormsAre DEF QueryHolds
<1> HIDE DEF before
<1>8. QueryHolds(x, G, M[r], P)
  <2>1. /\ 1 <= x.from /\ x.from <= x.at /\ x.at <= x.to /\ x.to <= Len(G)
        /\ x.pc = "done" => x.at = x.to
    <3>1. CASE last
      BY <1>2, <1>3, <3>1
    <3>2. CASE ~ last
      BY <1>2, <1>3, <3>2
    <3> QED
      BY <3>1, <3>2
  <2>2. Within(All(x.res), Taken(G, x.from, Behind(x)))
    BY <1>3, <1>5, <1>6, <1>7, WithinIs
  <2>3. ASSUME ~ M[r], \A i \in x.from..x.to : ~ P[i]
        PROVE  All(x.res) = Taken(G, x.from, Behind(x))
    <3>1. at \in q.from..q.to
      BY <1>2
    <3>2. c = G[at] /\ All(q.res) = before
      BY <1>3, <1>7, <2>3, <3>1
    <3> QED
      BY <1>3, <1>5, <1>6, <3>2
  <2> QED
    BY <1>3, <2>1, <2>2, <2>3, Zenon DEF QueryHolds
<1>9. QuerySees(r, B, QQ, M[r])
  <2>1. x.pc # "univ" /\ x.pc # "range" /\ x.pc \notin {"second", "range"} /\ q.pc # "done"
    BY <1>3
  <2>2. ~ M[r] => \A p \in Reader \ {r}, i \in at..q.to : ~ Halfway(Q[p], i)
    BY <1>1, <2>1, Zenon DEF QuerySees
  <2>3. \A i \in x.at..x.to : i \in at..q.to
    BY <1>2, <1>3
  <2>4. ~ M[r] => \A p \in Reader \ {r}, i \in x.at..x.to : ~ Halfway(QQ[p], i)
    BY <1>4, <2>2, <2>3
  <2> QED
    BY <1>4, <2>1, <2>4, Zenon DEF QuerySees
<1>10. Q[r].pc \notin Writing /\ QQ[r].pc \notin Writing
  BY <1>3, <1>4 DEF Writing
<1> QED
  BY <1>0, <1>4, <1>8, <1>9, <1>10, QuietStep

(* The writer has the buckets to itself.                                   *)
LEMMA RestingState ==
  ASSUME IsFiniteSet(Key),
         NEW B \in Seq(Hyb), NEW Q \in [Reader -> Query], NEW G \in Seq(Counts),
         NEW P \in Seq(BOOLEAN), NEW M \in [Reader -> BOOLEAN],
         Len(G) = Len(B), Len(P) = Len(B), \A p \in Reader : Q[p].pc = "idle"
  PROVE  InStep(B, Q, G, P, M) <=> \A i \in 1..Len(B) : Rests(B[i], G[i], P[i])
<1>1. ASSUME NEW i \in 1..Len(B)
      PROVE  BucketHolds(B[i], G[i], Q, i) /\ (~ P[i] => BucketFull(B[i], G[i], Q, i))
               <=> Rests(B[i], G[i], P[i])
  <2>1. B[i] \in Hyb /\ G[i] \in Counts /\ P[i] \in BOOLEAN
    BY ElementOfSeq
  <2> QED
    BY <2>1, RestsIs
<1> QED
  BY <1>1, Zenon DEF InStep

(* Two neighbours of s give way to x in t.                                 *)
IsJoined(t, S, s, i, x) ==
  /\ t \in Seq(S) /\ Len(t) = Len(s) - 1
  /\ \A j \in 1..Len(s)-1 : t[j] = IF j < i THEN s[j] ELSE IF j = i THEN x ELSE s[j+1]

LEMMA NeighboursJoined ==
  ASSUME NEW S, NEW s \in Seq(S), NEW i \in 1..Len(s)-1, NEW x \in S
  PROVE  IsJoined(Hybrid!Joined(s, i, x), S, s, i, x)
<1> DEFINE n == Len(s) - 1
           e(j) == CASE j < i -> s[j] [] j = i -> x [] j > i -> s[j+1]
           t == [j \in 1..n |-> e(j)]
<1>1. Len(s) \in Nat /\ n \in Nat /\ i \in Int
  BY LenProperties
<1>2. ASSUME NEW j \in 1..n
      PROVE  e(j) \in S /\ e(j) = IF j < i THEN s[j] ELSE IF j = i THEN x ELSE s[j+1]
  <2>1. s[j] \in S /\ s[j+1] \in S
    BY <1>1, ElementOfSeq
  <2>2. j < i \/ j = i \/ j > i
    BY <1>1
  <2> QED
    BY <1>1, <2>1, <2>2
<1>3. Hybrid!Joined(s, i, x) = t
  BY DEF Hybrid!Joined
<1>4. \A j \in 1..n : t[j] = e(j)
  OBVIOUS
<1> HIDE DEF e
<1>5. t \in Seq(S) /\ Len(t) = n
  BY <1>1, <1>2, IsASeq, LenProperties
<1> HIDE DEF t
<1> QED
  BY <1>2, <1>3, <1>4, <1>5 DEF IsJoined

LEMMA InvFrom ==
  ASSUME NEW B, NEW Q, NEW G, NEW P, NEW M, InStep(B, Q, G, P, M),
         hybrids' = [buckets |-> B, query |-> Q],
         counted' = [given |-> G, spoiled |-> P, met |-> M]
  PROVE  HybridInv'
BY DEF HybridInv

LEMMA HybridInit ==
  ASSUME IsFiniteSet(Key), Hybrid!Init
  PROVE  HybridInv
<1> DEFINE Q == [r \in Reader |-> Hybrid!NoQuery]
           M == [r \in Reader |-> FALSE]
<1>1. hybrids = [buckets |-> << >>, query |-> Q]
      /\ counted = [given |-> << >>, spoiled |-> << >>, met |-> M]
  BY DEF Hybrid!Init
<1>2. Hybrid!NoQuery \in Query /\ Hybrid!NoQuery.pc = "idle"
  <2>1. Hybrid!NewHybridSketch \in Hyb
    BY NewHolds DEF Sound
  <2> QED
    BY <2>1 DEF Hybrid!NoQuery, Query, Pcs
<1>3. Q \in [Reader -> Query] /\ M \in [Reader -> BOOLEAN] /\ \A p \in Reader : Q[p].pc = "idle"
  BY <1>2
<1> HIDE DEF Q, M
<1>4. << >> \in Seq(Hyb) /\ << >> \in Seq(Counts) /\ << >> \in Seq(BOOLEAN) /\ Len(<< >>) = 0
  BY EmptySeq
<1>5. InStep(<< >>, Q, << >>, << >>, M)
  BY <1>3, <1>4 DEF InStep
<1> QED
  BY <1>1, <1>5 DEF HybridInv

-----------------------------------------------------------------------------
(* The readers.                                                            *)
LEMMA GotoIs ==
  ASSUME HybridInv, NEW r \in Reader, NEW y, Hybrid!Goto(r, y)
  PROVE  hybrids' = [buckets |-> hybrids.buckets, query |-> [hybrids.query EXCEPT ![r].pc = y]]
<1>1. hybrids' = [hybrids EXCEPT !.query = [hybrids.query EXCEPT ![r].pc = y]]
  BY DEF Hybrid!Goto
<1>2. hybrids = [buckets |-> hybrids.buckets, query |-> hybrids.query]
  BY DEF HybridInv
<1> DEFINE QQ == [hybrids.query EXCEPT ![r].pc = y]
           B == hybrids.buckets
           Q == hybrids.query
<1> HIDE DEF QQ, B, Q
<1> QED
  BY <1>1, <1>2 DEF QQ, B, Q

LEMMA CountedIs ==
  ASSUME HybridInv
  PROVE  /\ counted = [given |-> counted.given, spoiled |-> counted.spoiled, met |-> counted.met]
         /\ InStep(hybrids.buckets, hybrids.query, counted.given, counted.spoiled, counted.met)
BY DEF HybridInv

LEMMA CheckKeeps ==
  ASSUME HybridInv, NEW r \in Reader, Hybrid!Check(r) \/ Hybrid!Second(r)
  PROVE  HybridInv'
<1> DEFINE B == hybrids.buckets
           Q == hybrids.query
           G == counted.given
           P == counted.spoiled
           M == counted.met
           is == B[Q[r].at].isSketch
           its == Q[r].res.isSketch
<1>1. InStep(B, Q, G, P, M) /\ counted' = [given |-> G, spoiled |-> P, met |-> M]
  BY CountedIs DEF Hybrid!Check, Hybrid!Second
<1>2. ~ M[r] /\ Q[r].pc = "second" => ~ is
  BY <1>1, Zenon DEF InStep, QuerySees
<1>3. PICK y \in {"second", "promote", "univ", "range"} :
        /\ Hybrid!Goto(r, y) /\ Q[r].pc \in {"check", "second", "promote"}
        /\ y = "univ" => is
        /\ y = "range" /\ its => is
        /\ ~ M[r] /\ y \in {"second", "range"} => ~ is
  <2>1. CASE Hybrid!Check(r)
    <3>1. Q[r].pc = "check" /\ Hybrid!Goto(r, IF is THEN "univ" ELSE IF its THEN "second" ELSE "range")
      BY <2>1 DEF Hybrid!Check, Hybrid!At, Hybrid!Source
    <3> HIDE DEF is, its
    <3>2. CASE is
      BY <3>1, <3>2
    <3>3. CASE ~ is /\ its
      BY <3>1, <3>3
    <3>4. CASE ~ is /\ ~ its
      BY <3>1, <3>4
    <3> QED
      BY <3>2, <3>3, <3>4
  <2>2. CASE Hybrid!Second(r)
    <3>1. Q[r].pc = "second" /\ Hybrid!Goto(r, IF is THEN "range" ELSE "promote")
      BY <2>2 DEF Hybrid!Second, Hybrid!At, Hybrid!Source
    <3> HIDE DEF is, its
    <3>2. CASE is
      BY <1>2, <3>1, <3>2
    <3>3. CASE ~ is
      BY <3>1, <3>3
    <3> QED
      BY <3>2, <3>3
  <2> QED
    BY <2>1, <2>2
<1>4. hybrids' = [buckets |-> B, query |-> [Q EXCEPT ![r].pc = y]]
  BY <1>3, GotoIs
<1>5. InStep(B, [Q EXCEPT ![r].pc = y], G, P, M)
  <2> HIDE DEF B, Q, G, P, M
  <2> QED
    BY <1>1, <1>3, GotoStep
<1> HIDE DEF B, Q, G, P, M
<1> QED
  BY <1>1, <1>4, <1>5, InvFrom

LEMMA StartKeeps ==
  ASSUME HybridInv, NEW r \in Reader, Hybrid!Promote(r)
  PROVE  HybridInv'
<1> DEFINE B == hybrids.buckets
           Q == hybrids.query
           G == counted.given
           P == counted.spoiled
           M == counted.met
           at == Q[r].at
           is == B[at].isSketch
           others == \E p \in Reader \ {r} : Promotes(Q[p], at)
           PP == IF others THEN [P EXCEPT ![at] = TRUE] ELSE P
<1>1. InStep(B, Q, G, P, M) /\ counted = [given |-> G, spoiled |-> P, met |-> M]
  BY CountedIs
<1>2. /\ Q[r].pc = "promote" /\ Hybrid!Goto(r, IF is THEN "univ" ELSE "build")
      /\ counted' = IF ~ is /\ others THEN [counted EXCEPT !.spoiled = [P EXCEPT ![at] = TRUE]]
                    ELSE counted
  <2>1. \A p \in Reader : Hybrid!Promoting(p, at) <=> Promotes(Q[p], at)
    BY DEF Hybrid!Promoting, Hybrid!At, Promotes, Writing
  <2> QED
    BY <2>1 DEF Hybrid!Promote, Hybrid!At, Hybrid!Source
<1>3. CASE is
  <2>1. hybrids' = [buckets |-> B, query |-> [Q EXCEPT ![r].pc = "univ"]]
    BY <1>2, <1>3, GotoIs
  <2>2. counted' = [given |-> G, spoiled |-> P, met |-> M]
    BY <1>1, <1>2, <1>3
  <2>3. InStep(B, [Q EXCEPT ![r].pc = "univ"], G, P, M)
    <3> HIDE DEF B, Q, G, P, M
    <3> QED
      BY <1>1, <1>2, <1>3, GotoStep
  <2> HIDE DEF B, Q, G, P, M
  <2> QED
    BY <2>1, <2>2, <2>3, InvFrom
<1>4. CASE ~ is
  <2>1. hybrids' = [buckets |-> B, query |-> [Q EXCEPT ![r].pc = "build"]]
    BY <1>2, <1>4, GotoIs
  <2>2. counted' = [given |-> G, spoiled |-> PP, met |-> M]
    <3> DEFINE s == [P EXCEPT ![at] = TRUE]
    <3>1. CASE others
      <4>1. counted' = [counted EXCEPT !.spoiled = s]
        BY <1>2, <1>4, <3>1
      <4> HIDE DEF s, G, P, M
      <4>2. counted' = [given |-> G, spoiled |-> s, met |-> M]
        BY <1>1, <4>1
      <4> QED
        BY <3>1, <4>2 DEF s
    <3>2. CASE ~ others
      BY <1>1, <1>2, <1>4, <3>2
    <3> QED
      BY <3>1, <3>2
  <2>3. InStep(B, [Q EXCEPT ![r].pc = "build"], G, PP, M)
    <3> HIDE DEF B, Q, G, P, M
    <3> QED
      BY <1>1, <1>2, <1>4, StartStep
  <2> HIDE DEF B, Q, G, PP, M
  <2> QED
    BY <2>1, <2>2, <2>3, InvFrom
<1> QED
  BY <1>3, <1>4

LEMMA WriteKeeps ==
  ASSUME HybridInv, NEW r \in Reader, Hybrid!Write(r)
  PROVE  HybridInv'
<1> DEFINE B == hybrids.buckets
           Q == hybrids.query
           G == counted.given
           P == counted.spoiled
           M == counted.met
           at == Q[r].at
           b == B[at]
           QQ(y) == [Q EXCEPT ![r].pc = y]
           BB(bb) == [B EXCEPT ![at] = bb]
<1>1. InStep(B, Q, G, P, M) /\ counted = [given |-> G, spoiled |-> P, met |-> M]
      /\ hybrids = [buckets |-> B, query |-> Q]
  BY CountedIs DEF HybridInv
<1>2. counted' = [given |-> G, spoiled |-> P, met |-> Met(Q, M, r)]
  <2>1. counted' = [counted EXCEPT !.met = Hybrid!Meets(r)]
    BY DEF Hybrid!Write
  <2>2. Hybrid!Meets(r) = Met(Q, M, r)
    BY DEF Hybrid!Meets, Met, Hybrid!At
  <2> DEFINE m == Met(Q, M, r)
  <2> HIDE DEF m, G, P, M, Q
  <2>3. counted' = [counted EXCEPT !.met = m]
    BY <2>1, <2>2 DEF m
  <2>4. counted' = [given |-> G, spoiled |-> P, met |-> m]
    BY <1>1, <2>3
  <2> QED
    BY <2>4 DEF m
<1>3. PICK y, bb :
        /\ \/ Q[r].pc = "build" /\ y = "drop" /\ bb = [b EXCEPT !.univSketch = b.mapCounts]
           \/ Q[r].pc = "drop" /\ y = "flag" /\ bb = [b EXCEPT !.mapCounts = Hybrid!Nothing]
           \/ Q[r].pc = "flag" /\ y = "univ" /\ bb = [b EXCEPT !.isSketch = TRUE]
        /\ hybrids' = [hybrids EXCEPT !.query = QQ(y), !.buckets = BB(bb)]
  <2>1. CASE /\ Q[r].pc = "build"
             /\ hybrids' = [hybrids EXCEPT !.query[r].pc = "drop",
                                           !.buckets[at].univSketch = b.mapCounts]
    <3>1. hybrids' = [hybrids EXCEPT !.query = QQ("drop"),
                                     !.buckets = BB([b EXCEPT !.univSketch = b.mapCounts])]
      BY <1>1, <2>1
    <3> QED
      BY <2>1, <3>1
  <2>2. CASE /\ Q[r].pc = "drop"
             /\ hybrids' = [hybrids EXCEPT !.query[r].pc = "flag",
                                           !.buckets[at].mapCounts = Hybrid!Nothing]
    <3>1. hybrids' = [hybrids EXCEPT !.query = QQ("flag"),
                                     !.buckets = BB([b EXCEPT !.mapCounts = Hybrid!Nothing])]
      BY <1>1, <2>2
    <3> QED
      BY <2>2, <3>1
  <2>3. CASE /\ Q[r].pc = "flag"
             /\ hybrids' = [hybrids EXCEPT !.query[r].pc = "univ",
                                           !.buckets[at].isSketch = TRUE]
    <3>1. hybrids' = [hybrids EXCEPT !.query = QQ("univ"),
                                     !.buckets = BB([b EXCEPT !.isSketch = TRUE])]
      BY <1>1, <2>3
    <3> QED
      BY <2>3, <3>1
  <2> QED
    BY <2>1, <2>2, <2>3 DEF Hybrid!Write, Hybrid!At, Hybrid!Source
<1>4. hybrids' = [buckets |-> BB(bb), query |-> QQ(y)]
  <2> HIDE DEF QQ, BB, B, Q
  <2> QED
    BY <1>1, <1>3
<1>5. InStep(BB(bb), QQ(y), G, P, Met(Q, M, r))
  <2> HIDE DEF B, Q, G, P, M
  <2> QED
    BY <1>1, <1>3, PromotionSteps
<1> HIDE DEF B, Q, G, P, M, BB, QQ
<1> QED
  BY <1>2, <1>4, <1>5, InvFrom

LEMMA AbsorbKeeps ==
  ASSUME IsFiniteSet(Key), HybridInv, NEW r \in Reader, Hybrid!Absorb(r)
  PROVE  HybridInv'
<1> DEFINE B == hybrids.buckets
           Q == hybrids.query
           G == counted.given
           P == counted.spoiled
           M == counted.met
           q == Q[r]
           at == q.at
           b == B[at]
           g == G[at]
           last == q.at = q.to
           x(res) == [q EXCEPT !.res = res, !.pc = IF last THEN "done" ELSE "check",
                               !.at = IF last THEN q.at ELSE q.at + 1]
<1>1. InStep(B, Q, G, P, M) /\ counted = [given |-> G, spoiled |-> P, met |-> M]
      /\ hybrids = [buckets |-> B, query |-> Q]
  BY CountedIs DEF HybridInv
<1>2. counted' = [given |-> G, spoiled |-> P, met |-> M]
  BY <1>1 DEF Hybrid!Absorb
<1>3. /\ B \in Seq(Hyb) /\ Q \in [Reader -> Query] /\ q \in Query
      /\ G \in Seq(Counts) /\ P \in Seq(BOOLEAN) /\ M \in [Reader -> BOOLEAN]
      /\ Len(G) = Len(B) /\ Len(P) = Len(B)
  BY <1>1 DEF InStep
<1>4. q.pc \in {"univ", "range"}
  BY DEF Hybrid!Absorb, Hybrid!At
<1>5. QueryHolds(q, G, M[r], P) /\ QuerySees(r, B, Q, M[r])
  BY <1>1, <1>4 DEF InStep
<1>6. at \in 1..Len(B)
  BY <1>3, <1>5, QueryIs DEF QueryHolds
<1>7. BucketHolds(b, g, Q, at) /\ (~ P[at] => BucketFull(b, g, Q, at))
  BY <1>1, <1>6 DEF InStep
<1>8. /\ b \in Hyb /\ g \in Counts /\ b.mapCounts \in Counts /\ b.univSketch \in Counts
  BY <1>3, <1>6, ElementOfSeq, HybIs
<1>9. Sound(q.res)
  BY <1>5 DEF QueryHolds
<1>10. PICK c, res :
         /\ c \in Counts /\ Sound(res) /\ All(res) = Hybrid!Plus(All(q.res), c)
         /\ Within(c, g) /\ (~ M[r] /\ ~ P[at] => c = g)
         /\ Hybrid!Onward(r, res)
  <2>1. CASE q.pc = "univ" /\ Hybrid!Onward(r, Hybrid!MergeSketches(q.res, b.univSketch))
    <3> DEFINE c == b.univSketch
               res == Hybrid!MergeSketches(q.res, c)
    <3>1. Sound(res) /\ All(res) = Hybrid!Plus(All(q.res), c)
      BY <1>8, <1>9, MergeSketchesMakes
    <3>2. Within(c, g)
      BY <1>7 DEF BucketHolds
    <3>3. b.isSketch
      BY <1>5, <2>1, Zenon DEF QuerySees
    <3>4. ~ P[at] => c = g
      BY <1>7, <3>3, Zenon DEF BucketFull
    <3> HIDE DEF c
    <3>5. Hybrid!Onward(r, res) /\ c \in Counts
      BY <1>8, <2>1 DEF c
    <3> HIDE DEF res
    <3> QED
      BY <3>1, <3>2, <3>4, <3>5
  <2>2. CASE q.pc = "range" /\ Hybrid!Onward(r, Hybrid!MergeMaps(q.res, b.mapCounts))
    <3> DEFINE c == b.mapCounts
               res == Hybrid!MergeMaps(q.res, c)
    <3>1. ~ q.res.isSketch \/ c = Hybrid!Nothing
      <4>1. q.res.isSketch => b.isSketch
        BY <1>5, <2>2, Zenon DEF QuerySees
      <4> QED
        BY <1>7, <4>1, Zenon DEF BucketHolds
    <3>2. Sound(res) /\ All(res) = Hybrid!Plus(All(q.res), c)
      BY <1>8, <1>9, <3>1, MergeMapsMakes
    <3>3. Within(c, g)
      BY <1>7 DEF BucketHolds
    <3>4. ASSUME ~ M[r], ~ P[at]
          PROVE  c = g
      <4>1. ~ b.isSketch
        <5>1. q.pc \in {"second", "range"}
          BY <2>2
        <5> QED
          BY <1>5, <3>4, <5>1, Zenon DEF QuerySees
      <4>2. Quiet(Q, at)
        <5>1. at \in at..q.to
          BY <1>3, <1>5, QueryIs DEF QueryHolds
        <5>2. q.pc # "done"
          BY <2>2
        <5>3. \A p \in Reader \ {r} : ~ Halfway(Q[p], at)
          BY <1>5, <3>4, <5>1, <5>2, Zenon DEF QuerySees
        <5>4. ~ Halfway(Q[r], at)
          BY <2>2 DEF Halfway
        <5> QED
          BY <5>3, <5>4 DEF Quiet
      <4> QED
        BY <1>7, <3>4, <4>1, <4>2, Zenon DEF BucketFull
    <3> HIDE DEF c
    <3>5. Hybrid!Onward(r, res) /\ c \in Counts
      BY <1>8, <2>2 DEF c
    <3> HIDE DEF res
    <3> QED
      BY <3>2, <3>3, <3>4, <3>5
  <2> QED
    BY <2>1, <2>2 DEF Hybrid!Absorb, Hybrid!At, Hybrid!Source
<1> DEFINE QQ == [Q EXCEPT ![r] = x(res)]
<1>11. hybrids' = [buckets |-> B, query |-> QQ]
  <2>1. hybrids' = [hybrids EXCEPT !.query = QQ]
    BY <1>10 DEF Hybrid!Onward
  <2> HIDE DEF QQ, B, Q
  <2> QED
    BY <1>1, <2>1
<1>12. InStep(B, QQ, G, P, M)
  <2>1. last \in BOOLEAN /\ (last <=> q.at = q.to)
    OBVIOUS
  <2> HIDE DEF B, Q, G, P, M, last
  <2> QED
    BY <1>1, <1>4, <1>10, <2>1, AbsorbStep
<1> HIDE DEF B, Q, G, P, M, QQ
<1> QED
  BY <1>2, <1>11, <1>12, InvFrom

LEMMA BeginKeeps ==
  ASSUME IsFiniteSet(Key), HybridInv, NEW r \in Reader,
         NEW from \in DOMAIN hybrids.buckets, Hybrid!Begin(r, from, Hybrid!Present)
  PROVE  HybridInv'
<1> DEFINE B == hybrids.buckets
           Q == hybrids.query
           G == counted.given
           P == counted.spoiled
           M == counted.met
           to == Len(B)
           e == \E p \in Reader, i \in from..to : Hybrid!Promoting(p, i)
           QQ == [Q EXCEPT ![r] = [Hybrid!NoQuery EXCEPT !.pc = "check", !.from = from,
                                                         !.at = from, !.to = to]]
<1>1. InStep(B, Q, G, P, M) /\ counted = [given |-> G, spoiled |-> P, met |-> M]
      /\ hybrids = [buckets |-> B, query |-> Q]
  BY CountedIs DEF HybridInv
<1>2. B \in Seq(Hyb) /\ from \in 1..Len(B)
  BY <1>1, LenProperties DEF InStep
<1>3. /\ Q[r].pc = "idle"
      /\ hybrids' = [hybrids EXCEPT !.query = QQ]
      /\ counted' = [counted EXCEPT !.met = [M EXCEPT ![r] = e]]
  BY DEF Hybrid!Begin, Hybrid!Present
<1>4. PICK m \in BOOLEAN :
        /\ m <=> \E p \in Reader : \E i \in from..to : Promotes(Q[p], i)
        /\ counted' = [counted EXCEPT !.met = [M EXCEPT ![r] = m]]
  <2>1. \A p \in Reader, i \in from..to : Hybrid!Promoting(p, i) <=> Promotes(Q[p], i)
    BY DEF Hybrid!Promoting, Hybrid!At, Promotes, Writing
  <2>2. e <=> \E p \in Reader : \E i \in from..to : Promotes(Q[p], i)
    BY <2>1
  <2>3. CASE e
    <3>1. e = TRUE
      BY <2>3
    <3>2. counted' = [counted EXCEPT !.met = [M EXCEPT ![r] = TRUE]]
      BY <1>3, <3>1
    <3> QED
      BY <2>2, <2>3, <3>2
  <2>4. CASE ~ e
    <3>1. e = FALSE
      BY <2>4
    <3>2. counted' = [counted EXCEPT !.met = [M EXCEPT ![r] = FALSE]]
      BY <1>3, <3>1
    <3> QED
      BY <2>2, <2>4, <3>2
  <2> QED
    BY <2>3, <2>4
<1> DEFINE MM == [M EXCEPT ![r] = m]
<1>5. hybrids' = [buckets |-> B, query |-> QQ] /\ counted' = [given |-> G, spoiled |-> P, met |-> MM]
  <2> HIDE DEF B, Q, G, P, M, QQ, MM
  <2>1. counted' = [counted EXCEPT !.met = MM]
    BY <1>4 DEF MM
  <2> QED
    BY <1>1, <1>3, <2>1
<1>6. InStep(B, QQ, G, P, MM)
  <2>1. to = Len(B)
    OBVIOUS
  <2> HIDE DEF B, Q, G, P, M, to
  <2> QED
    BY <1>1, <1>2, <1>3, <1>4, <2>1, BeginStep
<1> HIDE DEF B, Q, G, P, M, QQ, MM
<1> QED
  BY <1>5, <1>6, InvFrom

LEMMA ReturnKeeps ==
  ASSUME IsFiniteSet(Key), HybridInv, NEW r \in Reader, Hybrid!Return(r)
  PROVE  HybridInv'
<1> DEFINE B == hybrids.buckets
           Q == hybrids.query
           G == counted.given
           P == counted.spoiled
           M == counted.met
           QQ == [Q EXCEPT ![r] = Hybrid!NoQuery]
           MM == [M EXCEPT ![r] = FALSE]
<1>1. InStep(B, Q, G, P, M) /\ counted = [given |-> G, spoiled |-> P, met |-> M]
      /\ hybrids = [buckets |-> B, query |-> Q]
  BY CountedIs DEF HybridInv
<1>2. /\ Q[r].pc = "done"
      /\ hybrids' = [hybrids EXCEPT !.query = QQ]
      /\ counted' = [counted EXCEPT !.met = MM]
  BY DEF Hybrid!Return, Hybrid!At
<1>3. hybrids' = [buckets |-> B, query |-> QQ] /\ counted' = [given |-> G, spoiled |-> P, met |-> MM]
  <2> HIDE DEF B, Q, G, P, M, QQ, MM
  <2> QED
    BY <1>1, <1>2
<1>4. Hybrid!NoQuery \in Query /\ Hybrid!NoQuery.pc = "idle"
  <2>1. Hybrid!NewHybridSketch \in Hyb
    BY NewHolds DEF Sound
  <2> QED
    BY <2>1 DEF Hybrid!NoQuery, Query, Pcs
<1>5. Q \in [Reader -> Query] /\ M \in [Reader -> BOOLEAN]
  BY <1>1 DEF InStep
<1>6. /\ QQ \in [Reader -> Query] /\ MM \in [Reader -> BOOLEAN] /\ QQ[r].pc = "idle"
      /\ \A p \in Reader \ {r} : QQ[p] = Q[p] /\ MM[p] = M[p]
  <2> HIDE DEF Q, M
  <2> QED
    BY <1>4, <1>5
<1>7. Q[r].pc \notin Writing /\ QQ[r].pc \notin Writing
  BY <1>2, <1>6 DEF Writing
<1>8. InStep(B, QQ, G, P, MM)
  <2> HIDE DEF B, Q, G, P, M, QQ, MM
  <2> QED
    BY <1>1, <1>6, <1>7, QuietStep
<1> HIDE DEF B, Q, G, P, M, QQ, MM
<1> QED
  BY <1>3, <1>8, InvFrom

-----------------------------------------------------------------------------
(* The writer: what it leaves behind is in order, bucket by bucket.        *)
LEMMA WriterKeeps ==
  ASSUME IsFiniteSet(Key), HybridInv, Hybrid!Unread,
         NEW BB \in Seq(Hyb), NEW GG \in Seq(Counts), NEW PP \in Seq(BOOLEAN),
         Len(GG) = Len(BB), Len(PP) = Len(BB),
         \A i \in 1..Len(BB) : Rests(BB[i], GG[i], PP[i]),
         hybrids' = [hybrids EXCEPT !.buckets = BB],
         counted' = [counted EXCEPT !.given = GG, !.spoiled = PP]
  PROVE  HybridInv'
<1> DEFINE Q == hybrids.query
           M == counted.met
           B == hybrids.buckets
           G == counted.given
           P == counted.spoiled
<1>1. /\ counted = [given |-> G, spoiled |-> P, met |-> M]
      /\ hybrids = [buckets |-> B, query |-> Q]
      /\ Q \in [Reader -> Query] /\ M \in [Reader -> BOOLEAN]
  BY DEF HybridInv, InStep
<1>2. \A p \in Reader : Q[p].pc = "idle"
  BY DEF Hybrid!Unread
<1> HIDE DEF Q, M, B, G, P
<1>3. hybrids' = [buckets |-> BB, query |-> Q] /\ counted' = [given |-> GG, spoiled |-> PP, met |-> M]
  <2>1. hybrids' = [buckets |-> BB, query |-> Q]
    BY <1>1
  <2>2. counted' = [given |-> GG, spoiled |-> PP, met |-> M]
    BY <1>1
  <2> QED
    BY <2>1, <2>2
<1>4. InStep(BB, Q, GG, PP, M)
  BY <1>1, <1>2, RestingState
<1> QED
  BY <1>3, <1>4, InvFrom

LEMMA BucketsRest ==
  ASSUME IsFiniteSet(Key), HybridInv, Hybrid!Unread
  PROVE  /\ hybrids.buckets \in Seq(Hyb) /\ counted.given \in Seq(Counts)
         /\ counted.spoiled \in Seq(BOOLEAN)
         /\ Len(counted.given) = Len(hybrids.buckets) /\ Len(counted.spoiled) = Len(hybrids.buckets)
         /\ \A i \in 1..Len(hybrids.buckets) :
              Rests(hybrids.buckets[i], counted.given[i], counted.spoiled[i])
<1> DEFINE B == hybrids.buckets
           Q == hybrids.query
           G == counted.given
           P == counted.spoiled
           M == counted.met
<1>1. InStep(B, Q, G, P, M)
  BY DEF HybridInv
<1>2. /\ B \in Seq(Hyb) /\ Q \in [Reader -> Query]
      /\ G \in Seq(Counts) /\ P \in Seq(BOOLEAN) /\ M \in [Reader -> BOOLEAN]
      /\ Len(G) = Len(B) /\ Len(P) = Len(B)
  BY <1>1 DEF InStep
<1>3. \A p \in Reader : Q[p].pc = "idle"
  BY DEF Hybrid!Unread
<1> HIDE DEF B, Q, G, P, M
<1>4. \A i \in 1..Len(B) : Rests(B[i], G[i], P[i])
  BY <1>1, <1>2, <1>3, RestingState
<1> QED
  BY <1>2, <1>4 DEF B, G, P

LEMMA UpdateKeeps ==
  ASSUME IsFiniteSet(Key), HybridInv, NEW k \in Key, Hybrid!UpdateItem(k)
  PROVE  HybridInv'
<1> DEFINE B == hybrids.buckets
           G == counted.given
           P == counted.spoiled
           b == Hybrid!InsertWithHash(Hybrid!NewHybridSketch, k)
           g == [Hybrid!Nothing EXCEPT ![k] = 1]
           no == FALSE
           BB == Append(B, b)
           GG == Append(G, g)
           PP == Append(P, no)
<1>1. /\ Hybrid!Unread /\ hybrids' = [hybrids EXCEPT !.buckets = BB]
      /\ counted' = [counted EXCEPT !.given = GG, !.spoiled = PP]
  BY DEF Hybrid!UpdateItem
<1>2. /\ B \in Seq(Hyb) /\ G \in Seq(Counts) /\ P \in Seq(BOOLEAN)
      /\ Len(G) = Len(B) /\ Len(P) = Len(B)
      /\ \A i \in 1..Len(B) : Rests(B[i], G[i], P[i])
  BY <1>1, BucketsRest
<1>3. Sound(b) /\ All(b) = g
  BY NewHolds
<1>4. b \in Hyb /\ g \in Counts
  <2>1. b \in Hyb
    BY <1>3 DEF Sound
  <2>2. All(b) \in Counts
    BY <1>3, FormsAre
  <2> QED
    BY <1>3, <2>1, <2>2
<1>5. Rests(b, g, no) /\ no \in BOOLEAN
  BY <1>3, <1>4, WithinIs DEF Rests
<1> HIDE DEF B, G, P, b, g, no
<1>6. /\ BB \in Seq(Hyb) /\ Len(BB) = Len(B) + 1 /\ BB[Len(B) + 1] = b
      /\ \A i \in 1..Len(B) : BB[i] = B[i]
  BY <1>2, <1>4, AppendProperties
<1>7. /\ GG \in Seq(Counts) /\ Len(GG) = Len(B) + 1 /\ GG[Len(B) + 1] = g
      /\ \A i \in 1..Len(B) : GG[i] = G[i]
  BY <1>2, <1>4, AppendProperties
<1>8. /\ PP \in Seq(BOOLEAN) /\ Len(PP) = Len(B) + 1 /\ PP[Len(B) + 1] = no
      /\ \A i \in 1..Len(B) : PP[i] = P[i]
  BY <1>2, <1>5, AppendProperties
<1> HIDE DEF BB, GG, PP
<1>9. ASSUME NEW i \in 1..Len(BB)
      PROVE  Rests(BB[i], GG[i], PP[i])
  <2>1. Len(B) \in Nat
    BY <1>2, LenProperties
  <2>2. CASE i \in 1..Len(B)
    BY <1>2, <1>6, <1>7, <1>8, <2>2
  <2>3. CASE i = Len(B) + 1
    BY <1>5, <1>6, <1>7, <1>8, <2>3
  <2> QED
    BY <1>6, <2>1, <2>2, <2>3
<1> QED
  BY <1>1, <1>6, <1>7, <1>8, <1>9, WriterKeeps

(* Two neighbours that rest make one that rests.                           *)
LEMMA MergeRests ==
  ASSUME IsFiniteSet(Key),
         NEW a, NEW f, NEW v \in BOOLEAN, Rests(a, f, v), f \in Counts,
         NEW b, NEW g, NEW w \in BOOLEAN, Rests(b, g, w), g \in Counts,
         NEW u \in BOOLEAN, u <=> v \/ w
  PROVE  Rests(Hybrid!Merge(a, b), Hybrid!Plus(f, g), u)
<1> DEFINE s == Hybrid!Merge(a, b)
<1>1. Sound(a) /\ Within(All(a), f) /\ (~ v => All(a) = f)
  BY DEF Rests
<1>2. Sound(b) /\ Within(All(b), g) /\ (~ w => All(b) = g)
  BY DEF Rests
<1>3. Sound(s) /\ All(s) = Hybrid!Plus(All(a), All(b))
  BY <1>1, <1>2, HybridMergeMakes
<1>4. All(a) \in Counts /\ All(b) \in Counts
  BY <1>1, <1>2, FormsAre
<1> HIDE DEF s
<1>5. Within(All(s), Hybrid!Plus(f, g))
  BY <1>1, <1>2, <1>3, <1>4, WithinIs
<1>6. ~ u => All(s) = Hybrid!Plus(f, g)
  BY <1>1, <1>2, <1>3
<1>7. Rests(s, Hybrid!Plus(f, g), u)
  BY <1>3, <1>5, <1>6 DEF Rests
<1> QED
  BY <1>7 DEF s

LEMMA MergeAtKeeps ==
  ASSUME IsFiniteSet(Key), HybridInv, NEW i \in 1..Len(hybrids.buckets)-1, Hybrid!MergeAt(i)
  PROVE  HybridInv'
<1> DEFINE B == hybrids.buckets
           G == counted.given
           P == counted.spoiled
           b == Hybrid!Merge(B[i], B[i+1])
           g == Hybrid!Plus(G[i], G[i+1])
           u == P[i] \/ P[i+1]
           BB == Hybrid!Joined(B, i, b)
           GG == Hybrid!Joined(G, i, g)
           PP == Hybrid!Joined(P, i, u)
<1>1. /\ Hybrid!Unread /\ hybrids' = [hybrids EXCEPT !.buckets = BB]
      /\ counted' = [counted EXCEPT !.given = GG, !.spoiled = PP]
  BY DEF Hybrid!MergeAt
<1>2. /\ B \in Seq(Hyb) /\ G \in Seq(Counts) /\ P \in Seq(BOOLEAN)
      /\ Len(G) = Len(B) /\ Len(P) = Len(B)
      /\ \A j \in 1..Len(B) : Rests(B[j], G[j], P[j])
  BY <1>1, BucketsRest
<1>3. Len(B) \in Nat /\ i \in 1..Len(B)-1 /\ i \in 1..Len(B) /\ i+1 \in 1..Len(B)
  BY <1>2, LenProperties
<1> HIDE DEF B, G, P
<1>4. G[i] \in Counts /\ G[i+1] \in Counts /\ P[i] \in BOOLEAN /\ P[i+1] \in BOOLEAN
  BY <1>2, <1>3, ElementOfSeq
<1>5. u \in BOOLEAN /\ (u <=> P[i] \/ P[i+1])
  BY <1>4
<1> HIDE DEF u
<1>6. Rests(b, g, u)
  BY <1>2, <1>3, <1>4, <1>5, MergeRests
<1>7. b \in Hyb /\ g \in Counts
  BY <1>4, <1>6, CountsAre DEF Rests, Sound
<1> HIDE DEF b, g
<1>8. /\ BB \in Seq(Hyb) /\ Len(BB) = Len(B) - 1
      /\ \A j \in 1..Len(B)-1 : BB[j] = IF j < i THEN B[j] ELSE IF j = i THEN b ELSE B[j+1]
  <2>1. IsJoined(BB, Hyb, B, i, b)
    BY <1>2, <1>3, <1>7, NeighboursJoined
  <2> QED
    BY <2>1, Zenon DEF IsJoined
<1>9. /\ GG \in Seq(Counts) /\ Len(GG) = Len(B) - 1
      /\ \A j \in 1..Len(B)-1 : GG[j] = IF j < i THEN G[j] ELSE IF j = i THEN g ELSE G[j+1]
  <2>1. IsJoined(GG, Counts, G, i, g)
    BY <1>2, <1>3, <1>7, NeighboursJoined
  <2> QED
    BY <1>2, <2>1, Zenon DEF IsJoined
<1>10. /\ PP \in Seq(BOOLEAN) /\ Len(PP) = Len(B) - 1
       /\ \A j \in 1..Len(B)-1 : PP[j] = IF j < i THEN P[j] ELSE IF j = i THEN u ELSE P[j+1]
  <2>1. IsJoined(PP, BOOLEAN, P, i, u)
    BY <1>2, <1>3, <1>5, NeighboursJoined
  <2> QED
    BY <1>2, <2>1, Zenon DEF IsJoined
<1> HIDE DEF BB, GG, PP
<1>11. ASSUME NEW j \in 1..Len(BB)
       PROVE  Rests(BB[j], GG[j], PP[j])
  <2>0. j \in 1..Len(B)-1 /\ j \in 1..Len(B) /\ j+1 \in 1..Len(B)
    BY <1>3, <1>8
  <2>1. CASE j < i
    <3>1. BB[j] = B[j] /\ GG[j] = G[j] /\ PP[j] = P[j]
      BY <1>8, <1>9, <1>10, <2>0, <2>1
    <3> QED
      BY <1>2, <2>0, <3>1
  <2>2. CASE j = i
    <3>1. BB[j] = b /\ GG[j] = g /\ PP[j] = u
      BY <1>3, <1>8, <1>9, <1>10, <2>0, <2>2
    <3> QED
      BY <1>6, <3>1
  <2>3. CASE ~ (j < i) /\ j # i
    <3>1. BB[j] = B[j+1] /\ GG[j] = G[j+1] /\ PP[j] = P[j+1]
      BY <1>8, <1>9, <1>10, <2>0, <2>3
    <3> QED
      BY <1>2, <2>0, <3>1
  <2> QED
    BY <2>1, <2>2, <2>3
<1> QED
  BY <1>1, <1>8, <1>9, <1>10, <1>11, WriterKeeps

LEMMA ExpireKeeps ==
  ASSUME IsFiniteSet(Key), HybridInv, Hybrid!Expire
  PROVE  HybridInv'
<1> DEFINE B == hybrids.buckets
           G == counted.given
           P == counted.spoiled
           BB == Tail(B)
           GG == Tail(G)
           PP == Tail(P)
<1>1. /\ Hybrid!Unread /\ B # << >> /\ hybrids' = [hybrids EXCEPT !.buckets = BB]
      /\ counted' = [counted EXCEPT !.given = GG, !.spoiled = PP]
  BY DEF Hybrid!Expire
<1>2. /\ B \in Seq(Hyb) /\ G \in Seq(Counts) /\ P \in Seq(BOOLEAN)
      /\ Len(G) = Len(B) /\ Len(P) = Len(B)
      /\ \A j \in 1..Len(B) : Rests(B[j], G[j], P[j])
  BY <1>1, BucketsRest
<1> HIDE DEF B, G, P
<1>3. Len(B) \in Nat \ {0} /\ G # << >> /\ P # << >>
  BY <1>1, <1>2, EmptySeq
<1>4. BB \in Seq(Hyb) /\ Len(BB) = Len(B) - 1 /\ \A j \in 1..Len(BB) : BB[j] = B[j+1]
  BY <1>1, <1>2, HeadTailProperties
<1>5. GG \in Seq(Counts) /\ Len(GG) = Len(B) - 1 /\ \A j \in 1..Len(GG) : GG[j] = G[j+1]
  BY <1>2, <1>3, HeadTailProperties
<1>6. PP \in Seq(BOOLEAN) /\ Len(PP) = Len(B) - 1 /\ \A j \in 1..Len(PP) : PP[j] = P[j+1]
  BY <1>2, <1>3, HeadTailProperties
<1> HIDE DEF BB, GG, PP
<1>7. ASSUME NEW j \in 1..Len(BB)
      PROVE  Rests(BB[j], GG[j], PP[j])
  <2>1. j+1 \in 1..Len(B)
    BY <1>3, <1>4
  <2>2. BB[j] = B[j+1] /\ GG[j] = G[j+1] /\ PP[j] = P[j+1]
    BY <1>4, <1>5, <1>6
  <2> QED
    BY <1>2, <2>1, <2>2
<1> QED
  BY <1>1, <1>4, <1>5, <1>6, <1>7, WriterKeeps

LEMMA HybridNext ==
  ASSUME IsFiniteSet(Key), HybridInv, [Hybrid!Next]_(Hybrid!vars)
  PROVE  HybridInv'
<1>1. ASSUME NEW k \in Key, Hybrid!UpdateItem(k)
      PROVE  HybridInv'
  BY <1>1, UpdateKeeps
<1>2. ASSUME NEW i \in 1..Len(hybrids.buckets)-1, Hybrid!MergeAt(i)
      PROVE  HybridInv'
  BY <1>2, MergeAtKeeps
<1>3. CASE Hybrid!Expire
  BY <1>3, ExpireKeeps
<1>4. ASSUME NEW r \in Reader, NEW from \in DOMAIN hybrids.buckets,
             Hybrid!Begin(r, from, Hybrid!Present)
      PROVE  HybridInv'
  BY <1>4, BeginKeeps
<1>5. ASSUME NEW r \in Reader, Hybrid!Check(r) \/ Hybrid!Second(r)
      PROVE  HybridInv'
  BY <1>5, CheckKeeps
<1>6. ASSUME NEW r \in Reader, Hybrid!Promote(r)
      PROVE  HybridInv'
  BY <1>6, StartKeeps
<1>7. ASSUME NEW r \in Reader, Hybrid!Write(r)
      PROVE  HybridInv'
  BY <1>7, WriteKeeps
<1>8. ASSUME NEW r \in Reader, Hybrid!Absorb(r)
      PROVE  HybridInv'
  BY <1>8, AbsorbKeeps
<1>9. ASSUME NEW r \in Reader, Hybrid!Return(r)
      PROVE  HybridInv'
  BY <1>9, ReturnKeeps
<1>10. CASE UNCHANGED Hybrid!vars
  <2>1. hybrids' = hybrids /\ counted' = counted
    BY <1>10 DEF Hybrid!vars
  <2> QED
    BY <2>1 DEF HybridInv
<1> QED
  BY <1>1, <1>2, <1>3, <1>4, <1>5, <1>6, <1>7, <1>8, <1>9, <1>10 DEF Hybrid!Next

(* The contents of a sketch in order are all that it holds.                *)
LEMMA ContentIs ==
  ASSUME NEW h, Sound(h)
  PROVE  Hybrid!Content(h) = All(h) /\ All(h) \in Counts
<1>1. h.mapCounts \in Counts /\ h.univSketch \in Counts /\ InForm(h)
  BY HybIs DEF Sound
<1>2. CASE h.mapCounts = Hybrid!Nothing
  BY <1>1, <1>2, CountsAre DEF Hybrid!Content, All
<1>3. CASE h.mapCounts # Hybrid!Nothing
  <2>1. h.univSketch = Hybrid!Nothing
    BY <1>1, <1>3 DEF InForm
  <2> QED
    BY <1>1, <1>3, <2>1, CountsAre DEF Hybrid!Content, All
<1> QED
  BY <1>2, <1>3

LEMMA HybridHolds ==
  ASSUME IsFiniteSet(Key), HybridInv
  PROVE  Hybrid!QueriesComplete
<1> DEFINE B == hybrids.buckets
           Q == hybrids.query
           G == counted.given
           P == counted.spoiled
           M == counted.met
<1>1. InStep(B, Q, G, P, M)
  BY DEF HybridInv
<1>2. /\ B \in Seq(Hyb) /\ Q \in [Reader -> Query]
      /\ G \in Seq(Counts) /\ P \in Seq(BOOLEAN) /\ M \in [Reader -> BOOLEAN]
      /\ Len(G) = Len(B) /\ Len(P) = Len(B)
  BY <1>1 DEF InStep
<1>3. ASSUME NEW i \in DOMAIN B
      PROVE  LET b == B[i]
             IN  /\ ~ P[i] => Hybrid!Content(b) = G[i]
                 /\ ~ b.isSketch /\ b.mapCounts # Hybrid!Nothing
                      => b.l2 = Hybrid!Energy(b.mapCounts)
  <2> DEFINE b == B[i]
             g == G[i]
  <2>1. i \in 1..Len(B)
    BY <1>2, LenProperties
  <2>2. BucketHolds(b, g, Q, i) /\ (~ P[i] => BucketFull(b, g, Q, i))
    BY <1>1, <2>1 DEF InStep
  <2>3. ~ b.isSketch /\ b.mapCounts # Hybrid!Nothing => b.l2 = Hybrid!Energy(b.mapCounts)
    BY <2>2, Zenon DEF BucketHolds
  <2>4. ASSUME ~ P[i]
        PROVE  Hybrid!Content(b) = g
    <3>1. BucketFull(b, g, Q, i)
      BY <2>2, <2>4
    <3>2. CASE b.isSketch
      <4>1. b.univSketch = g /\ b.mapCounts = Hybrid!Nothing
        BY <2>2, <3>1, <3>2, Zenon DEF BucketHolds, BucketFull
      <4> QED
        BY <4>1 DEF Hybrid!Content
    <3>3. CASE ~ b.isSketch /\ Quiet(Q, i)
      <4>1. b.mapCounts = g
        BY <3>1, <3>3, Zenon DEF BucketFull
      <4>2. b.univSketch = Hybrid!Nothing
        BY <2>2, <3>3, Zenon DEF BucketHolds, InForm
      <4> QED
        BY <4>1, <4>2 DEF Hybrid!Content
    <3>4. CASE ~ Quiet(Q, i)
      <4>1. PICK p \in Reader : Halfway(Q[p], i)
        BY <3>4 DEF Quiet
      <4>2. CASE Q[p].pc = "drop" /\ Q[p].at = i
        <5>1. b.mapCounts = g /\ b.univSketch = g
          BY <3>1, <4>2, Zenon DEF BucketFull
        <5> QED
          BY <5>1 DEF Hybrid!Content
      <4>3. CASE Q[p].pc = "flag" /\ Q[p].at = i
        <5>1. b.univSketch = g
          BY <3>1, <4>3, Zenon DEF BucketFull
        <5>2. b.mapCounts = Hybrid!Nothing
          BY <2>2, <4>3, Zenon DEF BucketHolds
        <5> QED
          BY <5>1, <5>2 DEF Hybrid!Content
      <4> QED
        BY <4>1, <4>2, <4>3 DEF Halfway
    <3> QED
      BY <3>2, <3>3, <3>4
  <2> QED
    BY <2>3, <2>4
<1>4. ASSUME NEW r \in Reader
      PROVE  LET q == Q[r]
             IN  /\ q.pc = "done" =>
                      /\ \A k \in Key : Hybrid!Content(q.res)[k] <= Hybrid!Given(r)[k]
                      /\ ~ M[r] /\ (\A i \in q.from..q.to : ~ P[i])
                           => Hybrid!Content(q.res) = Hybrid!Given(r)
                 /\ q.pc = "range" /\ q.res.isSketch => B[q.at].mapCounts = Hybrid!Nothing
  <2> DEFINE q == Q[r]
  <2>1. ASSUME q.pc = "done"
        PROVE  /\ \A k \in Key : Hybrid!Content(q.res)[k] <= Hybrid!Given(r)[k]
               /\ ~ M[r] /\ (\A i \in q.from..q.to : ~ P[i])
                    => Hybrid!Content(q.res) = Hybrid!Given(r)
    <3>1. QueryHolds(q, G, M[r], P)
      BY <1>1, <2>1 DEF InStep
    <3>2. Behind(q) = q.to
      BY <2>1, <3>1 DEF Behind, QueryHolds
    <3>3. Hybrid!Given(r) = Taken(G, q.from, q.to)
      BY DEF Hybrid!Given, Taken
    <3>4. Hybrid!Content(q.res) = All(q.res)
      BY <3>1, ContentIs DEF QueryHolds
    <3> QED
      BY <3>1, <3>2, <3>3, <3>4 DEF QueryHolds, Within
  <2>2. ASSUME q.pc = "range", q.res.isSketch
        PROVE  B[q.at].mapCounts = Hybrid!Nothing
    <3>1. QueryHolds(q, G, M[r], P) /\ QuerySees(r, B, Q, M[r])
      BY <1>1, <2>2 DEF InStep
    <3>2. q.at \in 1..Len(B)
      <4>1. q \in Query
        BY <1>2
      <4> QED
        BY <1>2, <3>1, <4>1, QueryIs DEF QueryHolds
    <3>3. B[q.at].isSketch
      BY <2>2, <3>1, Zenon DEF QuerySees
    <3>4. BucketHolds(B[q.at], G[q.at], Q, q.at)
      BY <1>1, <3>2 DEF InStep
    <3> QED
      BY <3>3, <3>4, Zenon DEF BucketHolds
  <2> QED
    BY <2>1, <2>2
<1> QED
  BY <1>3, <1>4, Zenon DEF Hybrid!QueriesComplete, Hybrid!At, Hybrid!Source

(***************************************************************************)
(* Merge of a bucket by readers that share the lock: whatever two or more  *)
(* queries do to a bucket between each other's steps, a bucket that two of *)
(* them did not promote at once keeps what it was given; a query that no   *)
(* promotion met returns all of it, and no query returns anything twice or *)
(* writes to a map that is gone.                                           *)
(***************************************************************************)
THEOREM QueriesAreComplete ==
  ASSUME Hybrid!Dimensions
  PROVE  Hybrid!Spec => []Hybrid!QueriesComplete
<1>0. IsFiniteSet(Key)
  BY DEF Hybrid!Dimensions, Hybrid!IsFiniteSet, IsFiniteSet
<1>1. Hybrid!Init => HybridInv
  BY <1>0, HybridInit
<1>2. HybridInv /\ [Hybrid!Next]_(Hybrid!vars) => HybridInv'
  BY <1>0, HybridNext
<1>3. HybridInv => Hybrid!QueriesComplete
  BY <1>0, HybridHolds
<1> QED
  BY <1>1, <1>2, <1>3, PTL DEF Hybrid!Spec

=============================================================================
