------------------------- MODULE OctoCountersProofs -------------------------
(***************************************************************************)
(* Proofs about an OctoSketch system over counter sketches, for any number *)
(* of workers, any sketch dimensions and hash, any capacities and any      *)
(* behaviour of the adaptive threshold.                                    *)
(***************************************************************************)
EXTENDS OctoCounters, SumsProofs, SequenceTheorems, FiniteSetTheorems, TLAPS

Proofs == INSTANCE DeltaPipeProofs

-----------------------------------------------------------------------------
(* Weights of batches and of queues of batches *)

(* What a batch adds to a cell is an integer.                              *)
LEMMA BatchWeightType ==
  ASSUME NEW b \in Seq(Delta), NEW c
  PROVE  BatchWeight(b, c) \in Int
<1> DEFINE f == [i \in 1..Len(b) |-> IF b[i].cell = c THEN b[i].value ELSE 0]
<1>1. Len(b) \in Nat /\ \A i \in 1..Len(b) : b[i] \in Delta
  BY LenProperties, ElementOfSeq
<1>2. \A i \in 1..Len(b) : f[i] \in Int
  BY <1>1, OctoAssumption DEF Delta
<1>3. PrefixSum(f, Len(b)) \in Int
  BY <1>1, <1>2, PrefixSumType
<1> QED
  BY <1>3 DEF BatchWeight

(* An empty batch adds nothing.                                            *)
LEMMA BatchWeightEmpty ==
  ASSUME NEW c
  PROVE  BatchWeight(<< >>, c) = 0
BY PrefixSumZero DEF BatchWeight

(* One more delta adds its value to its cell.                              *)
LEMMA BatchWeightAppend ==
  ASSUME NEW b \in Seq(Delta), NEW d \in Delta, NEW c
  PROVE  BatchWeight(Append(b, d), c)
           = BatchWeight(b, c) + (IF d.cell = c THEN d.value ELSE 0)
<1> DEFINE n == Len(b)
           a == Append(b, d)
           f == [i \in 1..n |-> IF b[i].cell = c THEN b[i].value ELSE 0]
           g == [i \in 1..n+1 |-> IF a[i].cell = c THEN a[i].value ELSE 0]
<1>1. /\ n \in Nat /\ Len(a) = n + 1
      /\ \A i \in 1..n : a[i] = b[i]
      /\ a[n+1] = d
  BY LenProperties, AppendProperties
<1>2. \A i \in 1..n : f[i] = g[i]
  BY <1>1
<1>3. g[n+1] = IF d.cell = c THEN d.value ELSE 0
  BY <1>1
<1>4. PrefixSum(f, n) = PrefixSum(g, n)
  <2> HIDE DEF f, g, n
  <2> QED BY <1>1, <1>2, PrefixSumExt
<1>5. PrefixSum(g, n+1) = PrefixSum(g, n) + g[n+1]
  <2> HIDE DEF g, n
  <2> QED BY <1>1, PrefixSumStep
<1>6. BatchWeight(b, c) = PrefixSum(f, n)
  BY DEF BatchWeight
<1>7. BatchWeight(a, c) = PrefixSum(g, n+1)
  BY <1>1 DEF BatchWeight
<1> HIDE DEF f, g, n, a
<1> QED
  BY <1>3, <1>4, <1>5, <1>6, <1>7 DEF a

(* What a queue of batches adds to a cell is an integer.                   *)
LEMMA QueueWeightType ==
  ASSUME NEW q \in Seq(Seq(Delta)), NEW c
  PROVE  QueueWeight(q, c) \in Int
<1> DEFINE f == [i \in 1..Len(q) |-> BatchWeight(q[i], c)]
<1>1. Len(q) \in Nat /\ \A i \in 1..Len(q) : q[i] \in Seq(Delta)
  BY LenProperties, ElementOfSeq
<1>2. \A i \in 1..Len(q) : f[i] \in Int
  BY <1>1, BatchWeightType
<1>3. PrefixSum(f, Len(q)) \in Int
  BY <1>1, <1>2, PrefixSumType
<1> QED
  BY <1>3 DEF QueueWeight

(* An empty queue adds nothing.                                            *)
LEMMA QueueWeightEmpty ==
  ASSUME NEW c
  PROVE  QueueWeight(<< >>, c) = 0
BY PrefixSumZero DEF QueueWeight

(* A batch sent adds its weight to the queue's.                            *)
LEMMA QueueWeightAppend ==
  ASSUME NEW q \in Seq(Seq(Delta)), NEW b \in Seq(Delta), NEW c
  PROVE  QueueWeight(Append(q, b), c) = QueueWeight(q, c) + BatchWeight(b, c)
<1> DEFINE n == Len(q)
           a == Append(q, b)
           f == [i \in 1..n |-> BatchWeight(q[i], c)]
           g == [i \in 1..n+1 |-> BatchWeight(a[i], c)]
<1>1. /\ n \in Nat /\ Len(a) = n + 1
      /\ \A i \in 1..n : a[i] = q[i]
      /\ a[n+1] = b
  BY LenProperties, AppendProperties
<1>2. \A i \in 1..n : f[i] = g[i]
  BY <1>1
<1>3. g[n+1] = BatchWeight(b, c)
  BY <1>1
<1>4. PrefixSum(f, n) = PrefixSum(g, n)
  <2> HIDE DEF f, g, n
  <2> QED BY <1>1, <1>2, PrefixSumExt
<1>5. PrefixSum(g, n+1) = PrefixSum(g, n) + g[n+1]
  <2> HIDE DEF g, n
  <2> QED BY <1>1, PrefixSumStep
<1>6. QueueWeight(q, c) = PrefixSum(f, n)
  BY DEF QueueWeight
<1>7. QueueWeight(a, c) = PrefixSum(g, n+1)
  BY <1>1 DEF QueueWeight
<1> HIDE DEF f, g, n, a
<1> QED
  BY <1>3, <1>4, <1>5, <1>6, <1>7 DEF a

(* A batch received takes its weight out of the queue's.                   *)
LEMMA QueueWeightTail ==
  ASSUME NEW q \in Seq(Seq(Delta)), q # << >>, NEW c
  PROVE  QueueWeight(q, c)
           = BatchWeight(Head(q), c) + QueueWeight(Tail(q), c)
<1> DEFINE n == Len(Tail(q))
           f == [i \in 1..n+1 |-> BatchWeight(q[i], c)]
           g == [i \in 1..n |-> BatchWeight(Tail(q)[i], c)]
<1>1. /\ n \in Nat /\ Len(q) = n + 1
      /\ Head(q) = q[1]
      /\ \A i \in 1..n : Tail(q)[i] = q[i+1]
  BY LenProperties, HeadTailProperties, EmptySeq
<1>2. \A i \in 1..n+1 : f[i] \in Int
  <2>1. \A i \in 1..n+1 : q[i] \in Seq(Delta)
    BY <1>1, ElementOfSeq
  <2> QED BY <2>1, BatchWeightType
<1>3. \A i \in 1..n : g[i] = f[i+1]
  BY <1>1
<1>4. PrefixSum(f, n+1) = f[1] + PrefixSum(g, n)
  <2> HIDE DEF f, g, n
  <2> QED BY <1>1, <1>2, <1>3, PrefixSumShift
<1>5. f[1] = BatchWeight(Head(q), c)
  BY <1>1
<1>6. QueueWeight(q, c) = PrefixSum(f, n+1)
  BY <1>1 DEF QueueWeight
<1>7. QueueWeight(Tail(q), c) = PrefixSum(g, n)
  BY DEF QueueWeight
<1> HIDE DEF f, g, n
<1> QED
  BY <1>4, <1>5, <1>6, <1>7

-----------------------------------------------------------------------------
(* The workers use the transport as it is meant to be used *)

(* The transport is the one DeltaPipeProofs speaks of.                     *)
LEMMA SamePipe ==
  /\ Pipe!Init => Proofs!Init
  /\ [Pipe!Next]_pipeVars => [Proofs!Next]_Proofs!pipeVars
  /\ Proofs!TypeOK => Pipe!TypeOK
<1>1. Pipe!Init => Proofs!Init
  BY DEF Pipe!Init, Proofs!Init, Pipe!Worker, Proofs!Worker
<1>2. [Pipe!Next]_pipeVars => [Proofs!Next]_Proofs!pipeVars
  BY Zenon
  DEF pipeVars, Proofs!pipeVars, Pipe!pipeVars, Pipe!Worker, Proofs!Worker,
      Pipe!Next, Proofs!Next, Pipe!Emit, Proofs!Emit,
      Pipe!BeginFlushBatch, Proofs!BeginFlushBatch,
      Pipe!SendBatch, Proofs!SendBatch, Pipe!TakeBatch, Proofs!TakeBatch,
      Pipe!CloseBatchCh, Proofs!CloseBatchCh,
      Pipe!ShardStep, Proofs!ShardStep,
      Pipe!ShardReceive, Proofs!ShardReceive,
      Pipe!MergeBatch, Proofs!MergeBatch,
      Pipe!RecycleBatch, Proofs!RecycleBatch,
      Pipe!ShardExit, Proofs!ShardExit, Pipe!Terminated, Proofs!Terminated
<1>3. Proofs!TypeOK => Pipe!TypeOK
  BY DEF Pipe!TypeOK, Proofs!TypeOK, Pipe!Worker, Proofs!Worker, Pipe!Batch,
         Proofs!Batch
<1> QED
  BY <1>1, <1>2, <1>3

(* A cell that reached the threshold is not far above it.                  *)
LEMMA RowFacts ==
  ASSUME TypeOK, Withheld, NEW w \in Worker
  PROVE  LET c == <<row[w], ColOf[item[w]][row[w]]>>
             sign == SignOf[item[w]][row[w]]
             newVal == local[w][c] + sign
         IN  /\ c \in Cell
             /\ sign \in {1, -1}
             /\ local[w][c] \in Int
             /\ newVal \in -TauMax..TauMax
             /\ [cell |-> c, value |-> newVal] \in Delta
             /\ ~ ShouldEmit(newVal, tauSeen[w]) => AbsVal(newVal) < TauMax
<1> DEFINE c == <<row[w], ColOf[item[w]][row[w]]>>
           sign == SignOf[item[w]][row[w]]
           newVal == local[w][c] + sign
<1>1. c \in Cell /\ sign \in {1, -1}
  <2>1. row[w] \in 1..Rows /\ item[w] \in Key
    BY DEF TypeOK
  <2> QED
    BY <2>1, OctoAssumption DEF Cell
<1>2. local[w][c] \in Int
  BY <1>1 DEF TypeOK, Sketch
<1>3. local[w][c] < TauMax /\ -TauMax < local[w][c]
  BY <1>1, <1>2, OctoAssumption DEF Withheld, AbsVal
<1>4. newVal \in -TauMax..TauMax
  BY <1>1, <1>2, <1>3, OctoAssumption
<1>5. [cell |-> c, value |-> newVal] \in Delta
  BY <1>1, <1>4 DEF Delta
<1>6. ~ ShouldEmit(newVal, tauSeen[w]) => AbsVal(newVal) < TauMax
  <2>1. tauSeen[w] \in Int /\ tauSeen[w] <= TauMax /\ TauMax \in Int
    BY OctoAssumption DEF TypeOK
  <2> HIDE DEF newVal
  <2> QED BY <1>4, <2>1 DEF ShouldEmit, AbsVal
<1> HIDE DEF c, sign, newVal
<1> QED
  BY <1>1, <1>2, <1>4, <1>5, <1>6 DEF c, sign, newVal

(* What Flush sends is a delta too.                                        *)
LEMMA FlushFacts ==
  ASSUME TypeOK, Withheld, NEW w \in Worker, NEW c \in Cell
  PROVE  /\ local[w][c] \in Int
         /\ [cell |-> c, value |-> local[w][c]] \in Delta
<1>1. local[w][c] \in Int
  BY DEF TypeOK, Sketch
<1>2. local[w][c] \in -TauMax..TauMax
  BY <1>1, OctoAssumption DEF Withheld, AbsVal
<1> QED
  BY <1>1, <1>2 DEF Delta

(* Every step of the system is a step of the transport or leaves it alone. *)
LEMMA TransportStep ==
  TypeOK /\ Withheld /\ [Next]_vars => [Pipe!Next]_pipeVars
<1> SUFFICES ASSUME TypeOK, Withheld, [Next]_vars
             PROVE  [Pipe!Next]_pipeVars
  OBVIOUS
<1>0. Pipe!Worker = Worker
  BY SMTT(30) DEF Pipe!Worker, Worker
<1>1. ASSUME NEW w \in Worker, ProcessRow(w)
      PROVE  [Pipe!Next]_pipeVars
  BY <1>0, <1>1, RowFacts DEF ProcessRow, Pipe!Next, pipeVars
<1>2. ASSUME NEW w \in Worker, FlushCell(w)
      PROVE  [Pipe!Next]_pipeVars
  BY <1>0, <1>2, FlushFacts DEF FlushCell, Pipe!Next, pipeVars
<1>3. ASSUME NEW w \in Worker, \/ FlushRest(w) \/ CloseBatchCh(w)
                               \/ HandOver(w) \/ ShardStep(w)
      PROVE  [Pipe!Next]_pipeVars
  BY <1>0, <1>3
  DEF FlushRest, CloseBatchCh, HandOver, ShardStep, MergeBatch, Pipe!Next,
      Pipe!ShardStep, pipeVars
<1>4. ASSUME UNCHANGED pipeVars
      PROVE  [Pipe!Next]_pipeVars
  BY <1>4
<1>5. ASSUME NEW w \in Worker,
             \/ \E k \in Key : Send(w, k)
             \/ CloseInput(w) \/ Receive(w) \/ InputEnds(w) \/ CloseDoneCh(w)
      PROVE  UNCHANGED pipeVars
  BY <1>5 DEF Send, CloseInput, Receive, InputEnds, CloseDoneCh
<1>6. ASSUME AdjustTau \/ MergeShard \/ AggregatorExit \/ Terminated
      PROVE  UNCHANGED pipeVars
  BY <1>6 DEF AdjustTau, MergeShard, AggregatorExit, Terminated, vars
<1>7. ASSUME UNCHANGED vars
      PROVE  UNCHANGED pipeVars
  BY <1>7 DEF vars
<1> QED
  BY <1>1, <1>2, <1>3, <1>4, <1>5, <1>6, <1>7 DEF Next, WorkerStep
-----------------------------------------------------------------------------
(* Types, and what a worker keeps back *)

SysInv == TypeOK /\ Withheld /\ Proofs!PipeInv

(* The system starts well typed, with nothing kept back.                   *)
LEMMA SysInit == Init => SysInv
<1> SUFFICES ASSUME Init PROVE SysInv
  OBVIOUS
<1>1. Proofs!PipeInv
  <2>1. Proofs!PipeAssumption
    BY OctoAssumption DEF Proofs!PipeAssumption
  <2> QED
    BY <2>1, SamePipe, Proofs!PipeInit DEF Init
<1>2. Pipe!TypeOK
  BY <1>1, SamePipe DEF Proofs!PipeInv
<1>3. EmptySketch \in Sketch
  BY DEF EmptySketch, Sketch
<1>4. TypeOK
  <2>1. PICK k \in Key : item = [w \in Worker |-> k]
    BY OctoAssumption DEF Init
  <2>2. item \in [Worker -> Key]
    BY <2>1
  <2>3. /\ inputCh \in [Worker -> Seq(Key)]
        /\ row \in [Worker -> 1..Rows]
        /\ sent \in 0..MaxItems /\ merged \in 0..NumWorkers
    BY OctoAssumption DEF Init
  <2>4. /\ tau \in TauMin..TauMax
        /\ tauSeen \in [Worker -> TauMin..TauMax]
    BY OctoAssumption DEF Init
  <2> QED
    BY <1>2, <1>3, <2>2, <2>3, <2>4 DEF Init, TypeOK
<1>5. Withheld
  BY OctoAssumption DEF Init, Withheld, EmptySketch, AbsVal
<1> QED
  BY <1>1, <1>4, <1>5 DEF SysInv

(* Every step keeps it so.                                                 *)
LEMMA SysStep == SysInv /\ [Next]_vars => SysInv'
<1> SUFFICES ASSUME SysInv, [Next]_vars
             PROVE  SysInv'
  OBVIOUS
<1> USE OctoAssumption
<1>0. TypeOK /\ Withheld /\ Proofs!PipeInv
  BY DEF SysInv
<1>1. Proofs!PipeInv'
  <2>1. Proofs!PipeAssumption
    BY DEF Proofs!PipeAssumption
  <2> QED
    BY <1>0, <2>1, TransportStep, SamePipe, Proofs!PipeStep
<1>2. Pipe!TypeOK'
  BY <1>1, SamePipe, PTL DEF Proofs!PipeInv
<1>3. ASSUME NEW w \in Worker, NEW k \in Key, Send(w, k)
      PROVE  TypeOK' /\ Withheld'
  BY <1>0, <1>2, <1>3
  DEF Send, TypeOK, Withheld, workerVars, aggVars
<1>4. ASSUME NEW w \in Worker, CloseInput(w)
      PROVE  TypeOK' /\ Withheld'
  BY <1>0, <1>2, <1>4
  DEF CloseInput, TypeOK, Withheld, workerVars, aggVars
<1>5. ASSUME NEW w \in Worker, Receive(w)
      PROVE  TypeOK' /\ Withheld'
  <2>1. Head(inputCh[w]) \in Key /\ Tail(inputCh[w]) \in Seq(Key)
    BY <1>0, <1>5, HeadTailProperties DEF TypeOK, Receive
  <2>2. 1 \in 1..Rows
    OBVIOUS
  <2>3. inputCh' \in [Worker -> Seq(Key)]
    BY <1>0, <1>5, <2>1 DEF TypeOK, Receive
  <2>4. /\ pc' \in [Worker -> {"range", "rows", "flush", "close", "closed",
                               "done"}]
        /\ item' \in [Worker -> Key]
        /\ row' \in [Worker -> 1..Rows]
        /\ tauSeen' \in [Worker -> TauMin..TauMax]
    <3>1. CASE Head(inputCh[w]) \in Ignored
      BY <1>0, <1>5, <3>1 DEF TypeOK, Receive
    <3>2. CASE Head(inputCh[w]) \notin Ignored
      <4>1. /\ pc' = [pc EXCEPT ![w] = "rows"]
            /\ item' = [item EXCEPT ![w] = Head(inputCh[w])]
            /\ row' = [row EXCEPT ![w] = 1]
            /\ tauSeen' = [tauSeen EXCEPT ![w] = tau]
        BY <1>5, <3>2 DEF Receive
      <4>2. tau \in TauMin..TauMax
        BY <1>0 DEF TypeOK
      <4> QED
        BY <1>0, <2>1, <2>2, <4>1, <4>2 DEF TypeOK
    <3> QED
      BY <3>1, <3>2
  <2> QED
    BY <1>0, <1>2, <1>5, <2>3, <2>4
    DEF Receive, TypeOK, Withheld, aggVars
<1>6. ASSUME NEW w \in Worker, ProcessRow(w)
      PROVE  TypeOK' /\ Withheld'
  <2> DEFINE c == <<row[w], ColOf[item[w]][row[w]]>>
             sign == SignOf[item[w]][row[w]]
             newVal == local[w][c] + sign
             rc == <<row[w], RefColOf[item[w]][row[w]]>>
  <2>1. /\ c \in Cell /\ sign \in {1, -1} /\ newVal \in Int
        /\ ~ ShouldEmit(newVal, tauSeen[w]) => AbsVal(newVal) < TauMax
    <3>1. newVal \in -TauMax..TauMax
      BY <1>0, RowFacts
    <3>2. newVal \in Int
      BY <3>1
    <3> QED
      BY <1>0, <3>2, RowFacts
  <2>2. AbsVal(0) < TauMax
    BY DEF AbsVal
  <2>3. /\ local' \in [Worker -> Sketch]
        /\ Withheld'
    <3>0. PICK n \in Int : /\ local' = [local EXCEPT ![w][c] = n]
                           /\ AbsVal(n) < TauMax
      <4>1. \/ local' = [local EXCEPT ![w][c] = 0]
            \/ /\ local' = [local EXCEPT ![w][c] = newVal]
               /\ ~ ShouldEmit(newVal, tauSeen[w])
        BY <1>6 DEF ProcessRow
      <4>2. /\ newVal \in Int
            /\ ~ ShouldEmit(newVal, tauSeen[w]) => AbsVal(newVal) < TauMax
        BY <2>1
      <4> HIDE DEF c, newVal, sign
      <4>3. CASE local' = [local EXCEPT ![w][c] = 0]
        <5>1. 0 \in Int
          OBVIOUS
        <5> QED BY <2>2, <4>3, <5>1
      <4>4. CASE /\ local' = [local EXCEPT ![w][c] = newVal]
                 /\ ~ ShouldEmit(newVal, tauSeen[w])
        BY <4>2, <4>4, Zenon
      <4> QED
        BY <4>1, <4>3, <4>4
    <3>1. local' \in [Worker -> Sketch]
      BY <1>0, <2>1, <3>0 DEF TypeOK, Sketch
    <3>2. \A v \in Worker, d \in Cell :
            local'[v][d] = IF v = w /\ d = c THEN n ELSE local[v][d]
      BY <1>0, <2>1, <3>0 DEF TypeOK, Sketch
    <3> QED
      BY <1>0, <3>0, <3>1, <3>2 DEF Withheld
  <2>4. ref' \in [Worker -> Sketch]
    <3>1. row[w] \in 1..Rows /\ item[w] \in Key
      BY <1>0 DEF TypeOK
    <3>2. rc \in Cell
      BY <3>1 DEF Cell
    <3>3. ref[w][rc] + sign \in Int
      BY <1>0, <2>1, <3>2, SMTT(30) DEF TypeOK, Sketch
    <3>4. ref' = [ref EXCEPT ![w][rc] = ref[w][rc] + sign]
      BY <1>6 DEF ProcessRow
    <3> HIDE DEF rc, sign
    <3> QED
      BY <1>0, <3>2, <3>3, <3>4 DEF TypeOK, Sketch
  <2>5. /\ pc' \in [Worker -> {"range", "rows", "flush", "close", "closed",
                               "done"}]
        /\ row' \in [Worker -> 1..Rows]
    <3>1. /\ row \in [Worker -> 1..Rows] /\ row[w] \in 1..Rows
          /\ pc \in [Worker -> {"range", "rows", "flush", "close", "closed",
                                "done"}]
      BY <1>0 DEF TypeOK
    <3>2. CASE row[w] < Rows
      <4>1. row' = [row EXCEPT ![w] = row[w] + 1] /\ pc' = pc
        BY <1>6, <3>2 DEF ProcessRow
      <4>2. row[w] + 1 \in 1..Rows
        BY <3>1, <3>2
      <4> QED
        BY <3>1, <4>1, <4>2
    <3>3. CASE ~ (row[w] < Rows)
      <4>1. pc' = [pc EXCEPT ![w] = "range"] /\ row' = row
        BY <1>6, <3>3 DEF ProcessRow
      <4> QED
        BY <3>1, <4>1
    <3> QED
      BY <3>2, <3>3
  <2> HIDE DEF c, sign, newVal, rc
  <2> QED
    BY <1>0, <1>2, <1>6, <2>3, <2>4, <2>5, SMTT(30)
    DEF ProcessRow, TypeOK, callerVars, aggVars
<1>7. ASSUME NEW w \in Worker, InputEnds(w)
      PROVE  TypeOK' /\ Withheld'
  BY <1>0, <1>2, <1>7
  DEF InputEnds, TypeOK, Withheld, callerVars, aggVars
<1>8. ASSUME NEW w \in Worker, FlushCell(w)
      PROVE  TypeOK' /\ Withheld'
  <2>1. PICK c \in Cell : local' = [local EXCEPT ![w][c] = 0]
    BY <1>8 DEF FlushCell
  <2>2. local' \in [Worker -> Sketch]
    BY <1>0, <2>1 DEF TypeOK, Sketch
  <2>3. \A v \in Worker, d \in Cell :
          local'[v][d] = IF v = w /\ d = c THEN 0 ELSE local[v][d]
    BY <1>0, <2>1 DEF TypeOK, Sketch
  <2>4. Withheld'
    BY <1>0, <2>3 DEF Withheld, AbsVal
  <2> QED
    BY <1>0, <1>2, <1>8, <2>2, <2>4
    DEF FlushCell, TypeOK, callerVars, aggVars
<1>9. ASSUME NEW w \in Worker,
             FlushRest(w) \/ CloseBatchCh(w) \/ CloseDoneCh(w)
      PROVE  TypeOK' /\ Withheld'
  BY <1>0, <1>2, <1>9
  DEF FlushRest, CloseBatchCh, CloseDoneCh, TypeOK, Withheld, callerVars,
      aggVars
<1>10. ASSUME NEW w \in Worker, MergeBatch(w)
       PROVE  TypeOK' /\ Withheld'
  <2>1. shardBatch[w] \in Seq(Delta)
    BY <1>0 DEF TypeOK, Pipe!TypeOK, Pipe!Batch, Pipe!Worker, Worker
  <2>2. \A c \in Cell : BatchWeight(shardBatch[w], c) \in Int
    BY <2>1, BatchWeightType
  <2>3. [c \in Cell |-> shard[w][c] + BatchWeight(shardBatch[w], c)] \in Sketch
    BY <1>0, <2>2 DEF TypeOK, Sketch
  <2>4. shard' \in [Worker -> Sketch]
    BY <1>0, <1>10, <2>3 DEF MergeBatch, TypeOK
  <2> QED
    BY <1>0, <1>2, <1>10, <2>4
    DEF MergeBatch, TypeOK, Withheld, callerVars, workerVars, aggVars
<1>11. ASSUME UNCHANGED <<callerVars, workerVars, tau, shard, aggVars>>
       PROVE  TypeOK' /\ Withheld'
  BY <1>0, <1>2, <1>11
  DEF TypeOK, Withheld, callerVars, workerVars, aggVars
<1>12. ASSUME AdjustTau
       PROVE  TypeOK' /\ Withheld'
  BY <1>0, <1>2, <1>12
  DEF AdjustTau, TypeOK, Withheld, callerVars, workerVars, aggVars
<1>13. ASSUME MergeShard
       PROVE  TypeOK' /\ Withheld'
  <2>1. merged + 1 \in Worker
    BY <1>0, <1>13 DEF MergeShard, TypeOK, Worker
  <2>2. global' \in Sketch
    BY <1>0, <1>13, <2>1 DEF MergeShard, TypeOK, Sketch
  <2>3. merged' \in 0..NumWorkers
    BY <1>13, <2>1 DEF MergeShard, Worker
  <2>4. UNCHANGED <<callerVars, workerVars, tau, shard, aggDone>>
    BY <1>13 DEF MergeShard
  <2>5. Withheld'
    BY <1>0, <2>4 DEF Withheld, workerVars
  <2>6. TypeOK'
    BY <1>0, <1>2, <2>2, <2>3, <2>4 DEF TypeOK, callerVars, workerVars
  <2> QED
    BY <2>5, <2>6
<1>14. ASSUME AggregatorExit
       PROVE  TypeOK' /\ Withheld'
  BY <1>0, <1>2, <1>14
  DEF AggregatorExit, TypeOK, Withheld, callerVars, workerVars
<1> QED
  BY <1>0, <1>1, <1>3, <1>4, <1>5, <1>6, <1>7, <1>8, <1>9, <1>10, <1>11,
     <1>12, <1>13, <1>14
  DEF SysInv, Next, WorkerStep, ShardStep, HandOver, Terminated, vars

(* Together.                                                               *)
LEMMA SysInvariant == Spec => []SysInv
<1>1. Init => SysInv
  BY SysInit
<1>2. SysInv /\ [Next]_vars => SysInv'
  BY SysStep
<1> QED
  BY <1>1, <1>2, PTL DEF Spec

(* All variables always have their types.                                  *)
THEOREM TypeCorrect == Spec => []TypeOK
<1>1. SysInv => TypeOK
  BY DEF SysInv
<1> QED
  BY <1>1, SysInvariant, PTL

(* The delay bound at the worker: however the threshold is adjusted, no    *)
(* cell of a worker's sketch ever holds TauMax or more, in absolute value, *)
(* between two rows of ProcessInput.                                       *)
THEOREM DelayIsBounded == Spec => []Withheld
<1>1. SysInv => Withheld
  BY DEF SysInv
<1> QED
  BY <1>1, SysInvariant, PTL

(* The system implements the transport: every step of Worker and           *)
(* Aggregator is one of the transport's or leaves it alone.                *)
THEOREM ImplementsTransport == Spec => Transport
<1>1. Init => Pipe!Init
  BY DEF Init
<1>2. SysInv /\ [Next]_vars => [Pipe!Next]_Pipe!pipeVars
  BY TransportStep DEF SysInv, pipeVars, Pipe!pipeVars
<1> QED
  BY <1>1, <1>2, SysInvariant, PTL DEF Spec, Transport, Pipe!Spec

-----------------------------------------------------------------------------
(* Nothing is lost: conservation, cell by cell *)

(* NothingLost speaks of ref, which follows RefColOf.                      *)
SameCols == RefColOf = ColOf

Account(w, c) == Unsent(w, c) + InFlight(w, c) + shard[w][c]

(* The quantities of Account are integers.                                 *)
LEMMA AccountTypes ==
  ASSUME SysInv, NEW w \in Worker, NEW c \in Cell
  PROVE  /\ batchBuf[w] \in Seq(Delta)
         /\ batchCh[w] \in Seq(Seq(Delta))
         /\ shardBatch[w] \in Seq(Delta)
         /\ BatchWeight(batchBuf[w], c) \in Int
         /\ BatchWeight(shardBatch[w], c) \in Int
         /\ QueueWeight(batchCh[w], c) \in Int
         /\ local[w][c] \in Int
         /\ shard[w][c] \in Int
         /\ ref[w][c] \in Int
<1>1. /\ batchBuf[w] \in Seq(Delta)
      /\ batchCh[w] \in Seq(Seq(Delta))
      /\ shardBatch[w] \in Seq(Delta)
  BY DEF SysInv, TypeOK, Pipe!TypeOK, Pipe!Batch, Pipe!Worker, Worker
<1>2. /\ local[w][c] \in Int /\ shard[w][c] \in Int /\ ref[w][c] \in Int
  BY DEF SysInv, TypeOK, Sketch
<1> QED
  BY <1>1, <1>2, BatchWeightType, QueueWeightType

(* Where nothing changes, the account stays.                               *)
LEMMA AccountFrame ==
  ASSUME NEW w, NEW c,
         /\ local'[w][c] = local[w][c] /\ batchBuf'[w] = batchBuf[w]
         /\ batchCh'[w] = batchCh[w] /\ shardBatch'[w] = shardBatch[w]
         /\ shard'[w][c] = shard[w][c]
  PROVE  Account(w, c)' = Account(w, c)
BY DEF Account, Unsent, InFlight

(* A worker or shard step only touches the account of its own pair.        *)
OthersSame(w) ==
  \A v \in Worker \ {w} :
    /\ local'[v] = local[v] /\ batchBuf'[v] = batchBuf[v]
    /\ batchCh'[v] = batchCh[v] /\ shardBatch'[v] = shardBatch[v]
    /\ shard'[v] = shard[v] /\ ref'[v] = ref[v]

(* A step that leaves a worker's share alone keeps its account balanced.   *)
LEMMA OthersBalance ==
  ASSUME NothingLost, NEW w \in Worker, OthersSame(w),
         \A c \in Cell : Account(w, c)' = ref'[w][c]
  PROVE  NothingLost'
<1>1. ASSUME NEW v \in Worker \ {w}, NEW c \in Cell
      PROVE  Account(v, c)' = ref'[v][c]
  <2>1. Account(v, c)' = Account(v, c)
    BY AccountFrame DEF OthersSame
  <2>2. Account(v, c) = ref[v][c]
    BY DEF NothingLost, Account
  <2> QED
    BY <2>1, <2>2 DEF OthersSame
<1> QED
  BY <1>1 DEF NothingLost, Account

(* What the conservation argument needs of the transport: a batch that is  *)
(* reused is empty.                                                        *)
LEMMA ReusedBatchesAreEmpty ==
  ASSUME SysInv, NEW w \in Worker
  PROVE  /\ handoff[w] = "take" => batchBuf[w] = << >>
         /\ shardPc[w] # "merge" => shardBatch[w] = << >>
         /\ recycleCh[w] # << >> => Head(recycleCh[w]) = << >>
<1>1. Proofs!BatchesOf(w)
  BY DEF SysInv, Proofs!PipeInv, Proofs!BatchDiscipline, Proofs!Worker, Worker
<1>2. recycleCh[w] \in Seq({<< >>})
  BY <1>1 DEF Proofs!BatchesOf
<1>3. recycleCh[w] # << >> => Head(recycleCh[w]) \in {<< >>}
  BY <1>2, HeadTailProperties
<1> QED
  BY <1>1, <1>3 DEF Proofs!BatchesOf

(* The row loop: what is added to the sketch is added to the reference,    *)
(* and what leaves the sketch joins the batch.                             *)
LEMMA ProcessRowBalance ==
  ASSUME SysInv, NothingLost, SameCols, NEW w \in Worker, ProcessRow(w)
  PROVE  NothingLost'
<1> DEFINE c == <<row[w], ColOf[item[w]][row[w]]>>
           sign == SignOf[item[w]][row[w]]
           newVal == local[w][c] + sign
           d == [cell |-> c, value |-> newVal]
<1>1. /\ c \in Cell /\ sign \in {1, -1} /\ newVal \in -TauMax..TauMax
      /\ d \in Delta
  BY RowFacts DEF SysInv
<1>2. sign \in Int
  BY <1>1
<1>3. local \in [Worker -> [Cell -> Int]] /\ ref \in [Worker -> [Cell -> Int]]
  BY DEF SysInv, TypeOK, Sketch
<1>4. ref' = [ref EXCEPT ![w][c] = ref[w][c] + sign]
  BY DEF ProcessRow, SameCols
<1>5. /\ shard' = shard
      /\ \/ /\ local' = [local EXCEPT ![w][c] = newVal]
            /\ UNCHANGED pipeVars
         \/ /\ local' = [local EXCEPT ![w][c] = 0]
            /\ Pipe!Emit(w, d)
  BY DEF ProcessRow
<1> HIDE DEF c, sign, d
<1>6. ASSUME NEW e \in Cell
      PROVE  Account(w, e)' = ref'[w][e]
  <2>0. /\ Account(w, e) = ref[w][e]
        /\ local[w][e] \in Int /\ shard[w][e] \in Int /\ ref[w][e] \in Int
        /\ BatchWeight(batchBuf[w], e) \in Int
        /\ BatchWeight(shardBatch[w], e) \in Int
        /\ QueueWeight(batchCh[w], e) \in Int
        /\ batchBuf[w] \in Seq(Delta)
    BY AccountTypes DEF NothingLost, Account
  <2>1. ref'[w][e] = ref[w][e] + (IF e = c THEN sign ELSE 0)
    BY <1>1, <1>3, <1>4
  <2>2. CASE /\ local' = [local EXCEPT ![w][c] = newVal]
             /\ UNCHANGED pipeVars
    <3>1. local'[w][e] = local[w][e] + (IF e = c THEN sign ELSE 0)
      BY <1>1, <1>2, <1>3, <2>0, <2>2
    <3>2. /\ batchBuf' = batchBuf /\ batchCh' = batchCh
          /\ shardBatch' = shardBatch /\ shard' = shard
      BY <1>5, <2>2 DEF pipeVars
    <3> HIDE DEF newVal
    <3>3. Account(w, e)' = local'[w][e] + BatchWeight(batchBuf[w], e)
             + (QueueWeight(batchCh[w], e) + BatchWeight(shardBatch[w], e))
             + shard[w][e]
      BY <3>2 DEF Account, Unsent, InFlight
    <3>4. Account(w, e) = local[w][e] + BatchWeight(batchBuf[w], e)
             + (QueueWeight(batchCh[w], e) + BatchWeight(shardBatch[w], e))
             + shard[w][e]
      BY DEF Account, Unsent, InFlight
    <3> QED
      BY <1>2, <2>0, <2>1, <3>1, <3>3, <3>4
  <2>3. CASE /\ local' = [local EXCEPT ![w][c] = 0]
             /\ Pipe!Emit(w, d)
    <3>1. local'[w][e] = IF e = c THEN 0 ELSE local[w][e]
      BY <1>1, <1>3, <2>3
    <3>2. /\ batchBuf'[w] = Append(batchBuf[w], d)
          /\ batchCh' = batchCh /\ shardBatch' = shardBatch /\ shard' = shard
      <4>1. batchBuf \in [Worker -> Seq(Delta)]
        BY DEF SysInv, TypeOK, Pipe!TypeOK, Pipe!Batch, Pipe!Worker, Worker
      <4> QED
        BY <1>5, <2>3, <4>1 DEF Pipe!Emit
    <3>3. BatchWeight(batchBuf'[w], e)
            = BatchWeight(batchBuf[w], e) + (IF e = c THEN newVal ELSE 0)
      <4>1. d.cell = c /\ d.value = newVal
        BY DEF d
      <4> HIDE DEF newVal
      <4> QED
        BY <1>1, <2>0, <3>2, <4>1, BatchWeightAppend
    <3>4. e = c => newVal = local[w][e] + sign
      OBVIOUS
    <3>5. newVal \in Int
      BY <1>1
    <3> HIDE DEF newVal
    <3>6. Account(w, e)' = local'[w][e] + BatchWeight(batchBuf'[w], e)
             + (QueueWeight(batchCh[w], e) + BatchWeight(shardBatch[w], e))
             + shard[w][e]
      BY <3>2 DEF Account, Unsent, InFlight
    <3>7. Account(w, e) = local[w][e] + BatchWeight(batchBuf[w], e)
             + (QueueWeight(batchCh[w], e) + BatchWeight(shardBatch[w], e))
             + shard[w][e]
      BY DEF Account, Unsent, InFlight
    <3>8. CASE e = c
      <4>1. /\ local'[w][e] = 0
            /\ BatchWeight(batchBuf'[w], e)
                 = BatchWeight(batchBuf[w], e) + newVal
            /\ ref'[w][e] = ref[w][e] + sign
        BY <2>1, <3>1, <3>3, <3>8
      <4>2. newVal = local[w][e] + sign
        BY <3>4, <3>8
      <4>3. Account(w, e)' = 0 + (BatchWeight(batchBuf[w], e) + newVal)
             + (QueueWeight(batchCh[w], e) + BatchWeight(shardBatch[w], e))
             + shard[w][e]
        BY <3>6, <4>1
      <4>4. 0 + (BatchWeight(batchBuf[w], e) + newVal)
             + (QueueWeight(batchCh[w], e) + BatchWeight(shardBatch[w], e))
             + shard[w][e] = ref[w][e] + sign
        <5> DEFINE B == BatchWeight(batchBuf[w], e)
                   L == local[w][e]
                   Q == QueueWeight(batchCh[w], e)
                   S == BatchWeight(shardBatch[w], e)
                   H == shard[w][e]
                   R == ref[w][e]
        <5>1. /\ B \in Int /\ L \in Int /\ Q \in Int /\ S \in Int
              /\ H \in Int /\ R \in Int /\ L + B + (Q + S) + H = R
          BY <2>0, <3>7
        <5>2. newVal = L + sign /\ sign \in Int
          BY <1>2, <4>2
        <5> HIDE DEF B, L, Q, S, H, R
        <5>3. 0 + (B + newVal) + (Q + S) + H = R + sign
          BY <5>1, <5>2
        <5> QED
          BY <5>3 DEF B, Q, S, H, R
      <4> QED
        BY <4>1, <4>3, <4>4
    <3>9. CASE e # c
      BY <1>2, <2>0, <2>1, <3>1, <3>3, <3>6, <3>7, <3>9
    <3> QED
      BY <3>8, <3>9
  <2> QED
    BY <1>5, <2>2, <2>3
<1>7. OthersSame(w)
  <2>1. \A v \in Worker \ {w} : local'[v] = local[v] /\ ref'[v] = ref[v]
    BY <1>3, <1>4, <1>5
  <2>2. \A v \in Worker \ {w} : batchBuf'[v] = batchBuf[v]
    <3>1. batchBuf \in [Worker -> Seq(Delta)]
      BY DEF SysInv, TypeOK, Pipe!TypeOK, Pipe!Batch, Pipe!Worker, Worker
    <3> QED
      BY <1>5, <3>1 DEF pipeVars, Pipe!Emit
  <2>3. batchCh' = batchCh /\ shardBatch' = shardBatch
    BY <1>5 DEF pipeVars, Pipe!Emit
  <2> QED
    BY <1>5, <2>1, <2>2, <2>3 DEF OthersSame
<1> QED
  BY <1>6, <1>7, OthersBalance

(* Flush: what leaves the sketch joins the batch.                          *)
LEMMA FlushCellBalance ==
  ASSUME SysInv, NothingLost, NEW w \in Worker, FlushCell(w)
  PROVE  NothingLost'
<1>1. PICK c \in Cell :
        /\ Pipe!Emit(w, [cell |-> c, value |-> local[w][c]])
        /\ local' = [local EXCEPT ![w][c] = 0]
  BY DEF FlushCell
<1> DEFINE d == [cell |-> c, value |-> local[w][c]]
<1>2. d \in Delta
  BY FlushFacts DEF SysInv
<1>3. /\ local \in [Worker -> [Cell -> Int]]
      /\ batchBuf \in [Worker -> Seq(Delta)]
  BY DEF SysInv, TypeOK, Sketch, Pipe!TypeOK, Pipe!Batch, Pipe!Worker, Worker
<1>4. /\ batchBuf' = [batchBuf EXCEPT ![w] = Append(batchBuf[w], d)]
      /\ batchCh' = batchCh /\ shardBatch' = shardBatch
  BY <1>1, <1>3 DEF Pipe!Emit
<1>5. shard' = shard /\ ref' = ref
  BY DEF FlushCell
<1>6. ASSUME NEW e \in Cell
      PROVE  Account(w, e)' = ref'[w][e]
  <2>0. /\ Account(w, e) = ref[w][e]
        /\ local[w][e] \in Int /\ shard[w][e] \in Int /\ ref[w][e] \in Int
        /\ BatchWeight(batchBuf[w], e) \in Int
        /\ BatchWeight(shardBatch[w], e) \in Int
        /\ QueueWeight(batchCh[w], e) \in Int
        /\ batchBuf[w] \in Seq(Delta)
    BY AccountTypes DEF NothingLost, Account
  <2>1. local'[w][e] = IF e = c THEN 0 ELSE local[w][e]
    BY <1>1, <1>3
  <2>2. d.cell = c /\ d.value = local[w][c]
    OBVIOUS
  <2>3. batchBuf'[w] = Append(batchBuf[w], d)
    BY <1>3, <1>4
  <2> HIDE DEF d
  <2>4. BatchWeight(batchBuf'[w], e)
          = BatchWeight(batchBuf[w], e) + (IF e = c THEN local[w][e] ELSE 0)
    BY <1>2, <2>0, <2>2, <2>3, BatchWeightAppend
  <2> QED
    BY <1>4, <1>5, <2>0, <2>1, <2>4 DEF Account, Unsent, InFlight
<1>7. OthersSame(w)
  BY <1>1, <1>3, <1>4, <1>5 DEF OthersSame
<1> QED
  BY <1>6, <1>7, OthersBalance

(* Both halves of flushBatch move a batch along.                           *)
LEMMA HandOverBalance ==
  ASSUME SysInv, NothingLost, NEW w \in Worker, HandOver(w)
  PROVE  NothingLost'
<1>1. /\ batchBuf \in [Worker -> Seq(Delta)]
      /\ batchCh \in [Worker -> Seq(Seq(Delta))]
  BY DEF SysInv, TypeOK, Pipe!TypeOK, Pipe!Batch, Pipe!Worker, Worker
<1>2. local' = local /\ shard' = shard /\ ref' = ref
  BY DEF HandOver, workerVars
<1>3. shardBatch' = shardBatch
  BY DEF HandOver, Pipe!SendBatch, Pipe!TakeBatch
<1>4. ASSUME NEW e \in Cell
      PROVE  Account(w, e)' = ref'[w][e]
  <2>0. /\ Account(w, e) = ref[w][e]
        /\ local[w][e] \in Int /\ shard[w][e] \in Int
        /\ BatchWeight(batchBuf[w], e) \in Int
        /\ BatchWeight(shardBatch[w], e) \in Int
        /\ QueueWeight(batchCh[w], e) \in Int
        /\ batchBuf[w] \in Seq(Delta)
        /\ batchCh[w] \in Seq(Seq(Delta))
    BY AccountTypes DEF NothingLost, Account
  <2>1. CASE Pipe!SendBatch(w)
    <3>1. /\ batchBuf'[w] = << >>
          /\ batchCh'[w] = Append(batchCh[w], batchBuf[w])
      BY <1>1, <2>1 DEF Pipe!SendBatch
    <3>2. /\ BatchWeight(batchBuf'[w], e) = 0
          /\ QueueWeight(batchCh'[w], e)
               = QueueWeight(batchCh[w], e) + BatchWeight(batchBuf[w], e)
      BY <2>0, <3>1, BatchWeightEmpty, QueueWeightAppend
    <3> QED
      BY <1>2, <1>3, <2>0, <3>2 DEF Account, Unsent, InFlight
  <2>2. CASE Pipe!TakeBatch(w)
    <3>1. batchBuf[w] = << >> /\ Head(recycleCh[w]) = << >>
      BY <2>2, ReusedBatchesAreEmpty DEF Pipe!TakeBatch
    <3>2. batchBuf'[w] = batchBuf[w] /\ batchCh' = batchCh
      BY <1>1, <2>2, <3>1 DEF Pipe!TakeBatch
    <3> QED
      BY <1>2, <1>3, <2>0, <3>2, AccountFrame
  <2> QED
    BY <2>1, <2>2 DEF HandOver
<1>5. OthersSame(w)
  BY <1>1, <1>2, <1>3
  DEF OthersSame, HandOver, Pipe!SendBatch, Pipe!TakeBatch
<1> QED
  BY <1>4, <1>5, OthersBalance

(* The shard takes a batch, applies it, and returns it empty.              *)
LEMMA ShardStepBalance ==
  ASSUME SysInv, NothingLost, NEW w \in Worker, ShardStep(w)
  PROVE  NothingLost'
<1>1. /\ batchCh \in [Worker -> Seq(Seq(Delta))]
      /\ shardBatch \in [Worker -> Seq(Delta)]
      /\ shard \in [Worker -> [Cell -> Int]]
  BY DEF SysInv, TypeOK, Sketch, Pipe!TypeOK, Pipe!Batch, Pipe!Worker, Worker
<1>2. local' = local /\ ref' = ref
  BY DEF ShardStep, MergeBatch, workerVars
<1>3. batchBuf' = batchBuf
  BY DEF ShardStep, MergeBatch, Pipe!MergeBatch, Pipe!ShardReceive,
         Pipe!RecycleBatch, Pipe!ShardExit
<1>4. ASSUME NEW e \in Cell
      PROVE  Account(w, e)' = ref'[w][e]
  <2>0. /\ Account(w, e) = ref[w][e]
        /\ local[w][e] \in Int /\ shard[w][e] \in Int
        /\ BatchWeight(batchBuf[w], e) \in Int
        /\ BatchWeight(shardBatch[w], e) \in Int
        /\ QueueWeight(batchCh[w], e) \in Int
        /\ batchCh[w] \in Seq(Seq(Delta))
    BY AccountTypes DEF NothingLost, Account
  <2>1. CASE MergeBatch(w)
    <3>1. /\ shardBatch'[w] = << >> /\ batchCh' = batchCh
          /\ shard'[w][e] = shard[w][e] + BatchWeight(shardBatch[w], e)
      BY <1>1, <2>1 DEF MergeBatch, Pipe!MergeBatch
    <3>2. BatchWeight(shardBatch'[w], e) = 0
      BY <3>1, BatchWeightEmpty
    <3> QED
      BY <1>2, <1>3, <2>0, <3>1, <3>2 DEF Account, Unsent, InFlight
  <2>2. CASE Pipe!ShardReceive(w) /\ shard' = shard
    <3>1. /\ batchCh[w] # << >>
          /\ batchCh'[w] = Tail(batchCh[w])
          /\ shardBatch'[w] = Head(batchCh[w])
      BY <1>1, <2>2 DEF Pipe!ShardReceive
    <3>2. Head(batchCh[w]) \in Seq(Delta) /\ Tail(batchCh[w]) \in Seq(Seq(Delta))
      BY <2>0, <3>1, HeadTailProperties
    <3>3. /\ BatchWeight(shardBatch'[w], e) \in Int
          /\ QueueWeight(batchCh'[w], e) \in Int
      BY <3>1, <3>2, BatchWeightType, QueueWeightType
    <3>4. QueueWeight(batchCh[w], e)
            = BatchWeight(shardBatch'[w], e) + QueueWeight(batchCh'[w], e)
      BY <2>0, <3>1, QueueWeightTail
    <3>5. BatchWeight(shardBatch[w], e) = 0
      BY <2>2, ReusedBatchesAreEmpty, BatchWeightEmpty DEF Pipe!ShardReceive
    <3> QED
      BY <1>2, <1>3, <2>0, <2>2, <3>3, <3>4, <3>5
      DEF Account, Unsent, InFlight
  <2>3. CASE Pipe!RecycleBatch(w) /\ shard' = shard
    <3>1. shardBatch[w] = << >> /\ shardBatch'[w] = << >> /\ batchCh' = batchCh
      BY <1>1, <2>3, ReusedBatchesAreEmpty DEF Pipe!RecycleBatch
    <3> QED
      BY <1>2, <1>3, <2>0, <2>3, <3>1, AccountFrame
  <2>4. CASE Pipe!ShardExit(w) /\ shard' = shard
    BY <1>2, <1>3, <2>0, <2>4, AccountFrame DEF Pipe!ShardExit
  <2> QED
    BY <2>1, <2>2, <2>3, <2>4 DEF ShardStep
<1>5. OthersSame(w)
  BY <1>1, <1>2, <1>3
  DEF OthersSame, ShardStep, MergeBatch, Pipe!MergeBatch, Pipe!ShardReceive,
      Pipe!RecycleBatch, Pipe!ShardExit
<1> QED
  BY <1>4, <1>5, OthersBalance

(* No other step touches a sketch or a batch.                              *)
LEMMA ConservationStep ==
  ASSUME SysInv, NothingLost, SameCols, [Next]_vars
  PROVE  NothingLost'
<1>1. ASSUME UNCHANGED <<local, batchBuf, batchCh, shardBatch, shard, ref>>
      PROVE  NothingLost'
  <2>1. ASSUME NEW w \in Worker, NEW c \in Cell
        PROVE  Account(w, c)' = ref'[w][c]
    BY <1>1, AccountFrame DEF NothingLost, Account
  <2> QED
    BY <2>1 DEF NothingLost, Account
<1>2. ASSUME NEW w \in Worker,
             \/ \E k \in Key : Send(w, k)
             \/ CloseInput(w) \/ Receive(w) \/ InputEnds(w) \/ CloseDoneCh(w)
             \/ FlushRest(w) \/ CloseBatchCh(w)
      PROVE  UNCHANGED <<local, batchBuf, batchCh, shardBatch, shard, ref>>
  BY <1>2
  DEF Send, CloseInput, Receive, InputEnds, CloseDoneCh, FlushRest,
      CloseBatchCh, Pipe!BeginFlushBatch, Pipe!CloseBatchCh, pipeVars,
      workerVars
<1>3. ASSUME \/ AdjustTau \/ MergeShard \/ AggregatorExit \/ Terminated
             \/ UNCHANGED vars
      PROVE  UNCHANGED <<local, batchBuf, batchCh, shardBatch, shard, ref>>
  BY <1>3
  DEF AdjustTau, MergeShard, AggregatorExit, Terminated, vars, pipeVars,
      workerVars
<1> QED
  BY <1>1, <1>2, <1>3, ProcessRowBalance, FlushCellBalance, HandOverBalance,
     ShardStepBalance
  DEF Next, WorkerStep

(* Guarantee 3 while the system runs, for every configuration in which the *)
(* workers hash as Update does: whatever the scheduler, the caller and the *)
(* threshold do, each count a worker was given is in its sketch, in the    *)
(* transport or in its shard, exactly once.                                *)
THEOREM CountsAreConserved ==
  ASSUME SameCols
  PROVE  Spec => []NothingLost
<1>1. Init => NothingLost
  <2> SUFFICES ASSUME Init, NEW w \in Worker, NEW c \in Cell
               PROVE  Account(w, c) = ref[w][c]
    BY DEF NothingLost, Account
  <2>1. /\ local[w][c] = 0 /\ shard[w][c] = 0 /\ ref[w][c] = 0
        /\ batchBuf[w] = << >> /\ batchCh[w] = << >> /\ shardBatch[w] = << >>
    BY DEF Init, EmptySketch, Pipe!Init, Pipe!Worker, Worker
  <2> QED
    BY <2>1, BatchWeightEmpty, QueueWeightEmpty DEF Account, Unsent, InFlight
<1>2. SysInv /\ NothingLost /\ [Next]_vars => NothingLost'
  BY ConservationStep
<1> QED
  BY <1>1, <1>2, SysInvariant, PTL DEF Spec

-----------------------------------------------------------------------------
(* The end of a run *)

(* How far a worker is with its shutdown.                                  *)
EndOf(w) ==
  /\ pc[w] \in {"flush", "close", "closed", "done"} =>
       inputClosed[w] /\ inputCh[w] = << >>
  /\ pc[w] \in {"close", "closed", "done"} =>
       /\ local[w] = EmptySketch
       /\ handoff[w] = "none" => batchBuf[w] = << >>
  /\ batchClosed[w] <=> pc[w] \in {"closed", "done"}
  /\ batchClosed[w] => handoff[w] = "none"

(* What the aggregator has merged.                                         *)
MergedSoFar ==
  /\ merged > 0 \/ aggDone => \A w \in Worker : shardPc[w] = "done"
  /\ aggDone => merged = NumWorkers
  /\ \A c \in Cell :
       global[c] = PrefixSum([w \in Worker |-> shard[w][c]], merged)

EndInv == (\A w \in Worker : EndOf(w)) /\ MergedSoFar

(* A worker step concerns only that worker's shutdown.                     *)
LEMMA EndOthers ==
  ASSUME NEW w \in Worker, \A v \in Worker : EndOf(v), EndOf(w)',
         \A v \in Worker \ {w} :
           /\ pc'[v] = pc[v] /\ inputClosed'[v] = inputClosed[v]
           /\ inputCh'[v] = inputCh[v] /\ local'[v] = local[v]
           /\ handoff'[v] = handoff[v] /\ batchBuf'[v] = batchBuf[v]
           /\ batchClosed'[v] = batchClosed[v]
  PROVE  \A v \in Worker : EndOf(v)'
BY DEF EndOf

(* A worker shuts down in order.                                           *)
LEMMA EndOfStep ==
  ASSUME SysInv, \A v \in Worker : EndOf(v), [Next]_vars
  PROVE  \A v \in Worker : EndOf(v)'
<1>0. /\ pc \in [Worker -> {"range", "rows", "flush", "close", "closed", "done"}]
      /\ inputClosed \in [Worker -> BOOLEAN]
      /\ inputCh \in [Worker -> Seq(Key)]
      /\ local \in [Worker -> Sketch]
      /\ handoff \in [Worker -> {"none", "send", "take"}]
      /\ batchBuf \in [Worker -> Seq(Delta)]
      /\ batchClosed \in [Worker -> BOOLEAN]
  BY DEF SysInv, TypeOK, Pipe!TypeOK, Pipe!Batch, Pipe!Worker, Worker
<1>1. ASSUME NEW w \in Worker, NEW k \in Key, Send(w, k)
      PROVE  \A v \in Worker : EndOf(v)'
  BY <1>0, <1>1, EndOthers DEF Send, EndOf, pipeVars, workerVars
<1>2. ASSUME NEW w \in Worker, CloseInput(w)
      PROVE  \A v \in Worker : EndOf(v)'
  BY <1>0, <1>2, EndOthers DEF CloseInput, EndOf, pipeVars, workerVars
<1>3. ASSUME NEW w \in Worker, Receive(w)
      PROVE  \A v \in Worker : EndOf(v)'
  BY <1>0, <1>3, EndOthers DEF Receive, EndOf, pipeVars
<1>4. ASSUME NEW w \in Worker, ProcessRow(w)
      PROVE  \A v \in Worker : EndOf(v)'
  <2>1. EndOf(w)'
    BY <1>0, <1>4 DEF ProcessRow, EndOf, pipeVars, callerVars, Pipe!Emit
  <2>2. \A v \in Worker \ {w} :
           /\ pc'[v] = pc[v] /\ inputClosed'[v] = inputClosed[v]
           /\ inputCh'[v] = inputCh[v] /\ local'[v] = local[v]
           /\ handoff'[v] = handoff[v] /\ batchBuf'[v] = batchBuf[v]
           /\ batchClosed'[v] = batchClosed[v]
    BY <1>0, <1>4 DEF ProcessRow, pipeVars, callerVars, Pipe!Emit
  <2> QED
    BY <2>1, <2>2, EndOthers
<1>5. ASSUME NEW w \in Worker, InputEnds(w)
      PROVE  \A v \in Worker : EndOf(v)'
  BY <1>0, <1>5, EndOthers DEF InputEnds, EndOf, pipeVars, callerVars
<1>6. ASSUME NEW w \in Worker, FlushCell(w)
      PROVE  \A v \in Worker : EndOf(v)'
  BY <1>0, <1>6, EndOthers DEF FlushCell, EndOf, callerVars, Pipe!Emit
<1>7. ASSUME NEW w \in Worker, FlushRest(w)
      PROVE  \A v \in Worker : EndOf(v)'
  BY <1>0, <1>7, EndOthers
  DEF FlushRest, EndOf, callerVars, Pipe!BeginFlushBatch
<1>8. ASSUME NEW w \in Worker, CloseBatchCh(w)
      PROVE  \A v \in Worker : EndOf(v)'
  BY <1>0, <1>8, EndOthers
  DEF CloseBatchCh, EndOf, callerVars, Pipe!CloseBatchCh
<1>9. ASSUME NEW w \in Worker, CloseDoneCh(w)
      PROVE  \A v \in Worker : EndOf(v)'
  BY <1>0, <1>9, EndOthers DEF CloseDoneCh, EndOf, pipeVars, callerVars
<1>10. ASSUME NEW w \in Worker, HandOver(w)
       PROVE  \A v \in Worker : EndOf(v)'
  <2>1. Pipe!TakeBatch(w) => Head(recycleCh[w]) = << >>
    BY ReusedBatchesAreEmpty DEF Pipe!TakeBatch
  <2>2. EndOf(w)'
    BY <1>0, <1>10, <2>1
    DEF HandOver, EndOf, callerVars, workerVars, Pipe!SendBatch, Pipe!TakeBatch
  <2> QED
    BY <1>0, <1>10, <2>2, EndOthers
    DEF HandOver, callerVars, workerVars, Pipe!SendBatch, Pipe!TakeBatch
<1>11. ASSUME UNCHANGED <<pc, inputClosed, inputCh, local, handoff, batchBuf,
                          batchClosed>>
       PROVE  \A v \in Worker : EndOf(v)'
  BY <1>11 DEF EndOf
<1>12. ASSUME NEW w \in Worker, ShardStep(w)
       PROVE  UNCHANGED <<pc, inputClosed, inputCh, local, handoff, batchBuf,
                          batchClosed>>
  BY <1>12
  DEF ShardStep, MergeBatch, callerVars, workerVars, Pipe!MergeBatch,
      Pipe!ShardReceive, Pipe!RecycleBatch, Pipe!ShardExit
<1>13. ASSUME \/ AdjustTau \/ MergeShard \/ AggregatorExit \/ Terminated
              \/ UNCHANGED vars
       PROVE  UNCHANGED <<pc, inputClosed, inputCh, local, handoff, batchBuf,
                          batchClosed>>
  BY <1>13
  DEF AdjustTau, MergeShard, AggregatorExit, Terminated, vars, pipeVars,
      callerVars, workerVars
<1> QED
  BY <1>1, <1>2, <1>3, <1>4, <1>5, <1>6, <1>7, <1>8, <1>9, <1>10, <1>11,
     <1>12, <1>13
  DEF Next, WorkerStep

(* The aggregator merges shards that no longer change.                     *)
LEMMA MergedStep ==
  ASSUME SysInv, MergedSoFar, [Next]_vars
  PROVE  MergedSoFar'
<1>0. merged \in 0..NumWorkers /\ NumWorkers \in Nat \ {0}
  BY OctoAssumption DEF SysInv, TypeOK
<1>1. ASSUME UNCHANGED <<shardPc, shard, aggVars>>
      PROVE  MergedSoFar'
  BY <1>1 DEF MergedSoFar, aggVars
<1>2. ASSUME NEW w \in Worker,
             \/ \E k \in Key : Send(w, k)
             \/ CloseInput(w) \/ WorkerStep(w)
      PROVE  UNCHANGED <<shardPc, shard, aggVars>>
  <2>1. \/ \E k \in Key : Send(w, k)
        \/ CloseInput(w) \/ Receive(w) \/ InputEnds(w) \/ CloseDoneCh(w)
        => UNCHANGED <<shardPc, shard, aggVars>>
    BY DEF Send, CloseInput, Receive, InputEnds, CloseDoneCh, pipeVars
  <2>2. ProcessRow(w) \/ FlushCell(w) => UNCHANGED <<shardPc, shard, aggVars>>
    BY DEF ProcessRow, FlushCell, pipeVars, Pipe!Emit
  <2>3. FlushRest(w) \/ CloseBatchCh(w) \/ HandOver(w)
        => UNCHANGED <<shardPc, shard, aggVars>>
    BY DEF FlushRest, CloseBatchCh, HandOver, Pipe!BeginFlushBatch,
           Pipe!CloseBatchCh, Pipe!SendBatch, Pipe!TakeBatch
  <2> QED
    BY <1>2, <2>1, <2>2, <2>3 DEF WorkerStep
<1>3. ASSUME AdjustTau \/ Terminated \/ UNCHANGED vars
      PROVE  UNCHANGED <<shardPc, shard, aggVars>>
  BY <1>3 DEF AdjustTau, Terminated, vars, pipeVars
<1>4. ASSUME NEW w \in Worker, ShardStep(w)
      PROVE  MergedSoFar'
  <2>1. shardPc[w] # "done" /\ UNCHANGED aggVars
    BY <1>4
    DEF ShardStep, MergeBatch, Pipe!MergeBatch, Pipe!ShardReceive,
        Pipe!RecycleBatch, Pipe!ShardExit
  <2>2. merged = 0 /\ ~ aggDone
    BY <1>0, <2>1 DEF MergedSoFar
  <2>3. \A c \in Cell : global[c] = 0
    BY <2>2, PrefixSumZero DEF MergedSoFar
  <2>4. \A c \in Cell :
          global'[c] = PrefixSum([v \in Worker |-> shard'[v][c]], merged')
    BY <2>1, <2>2, <2>3, PrefixSumZero DEF aggVars
  <2> QED
    BY <2>1, <2>2, <2>4 DEF MergedSoFar, aggVars
<1>5. ASSUME MergeShard
      PROVE  MergedSoFar'
  <2>1. /\ shardPc' = shardPc /\ shard' = shard /\ aggDone' = aggDone
        /\ merged < NumWorkers /\ merged' = merged + 1
        /\ \A w \in Worker : shardPc[w] = "done"
        /\ \A c \in Cell : global'[c] = global[c] + shard[merged+1][c]
    BY <1>5 DEF MergeShard, pipeVars
  <2>2. ~ aggDone
    BY <1>0, <2>1 DEF MergedSoFar
  <2>3. ASSUME NEW c \in Cell
        PROVE  global'[c] = PrefixSum([v \in Worker |-> shard'[v][c]], merged')
    <3> DEFINE f == [v \in Worker |-> shard[v][c]]
    <3>1. f[merged+1] = shard[merged+1][c]
      BY <1>0, <2>1 DEF Worker
    <3>2. global[c] = PrefixSum(f, merged)
      BY DEF MergedSoFar
    <3> HIDE DEF f
    <3>3. PrefixSum(f, merged+1) = PrefixSum(f, merged) + f[merged+1]
      BY <1>0, PrefixSumStep
    <3>4. global'[c] = PrefixSum(f, merged+1)
      BY <2>1, <3>1, <3>2, <3>3
    <3> QED
      BY <2>1, <3>4 DEF f
  <2> QED
    BY <2>1, <2>2, <2>3 DEF MergedSoFar
<1>6. ASSUME AggregatorExit
      PROVE  MergedSoFar'
  BY <1>0, <1>6 DEF AggregatorExit, MergedSoFar, pipeVars
<1> QED
  BY <1>1, <1>2, <1>3, <1>4, <1>5, <1>6 DEF Next

(* The end condition holds in every behaviour.                             *)
LEMMA EndInvariant == Spec => []EndInv
<1>1. Init => EndInv
  <2> SUFFICES ASSUME Init PROVE EndInv
    OBVIOUS
  <2>1. \A w \in Worker : EndOf(w)
    BY DEF Init, EndOf, Pipe!Init, Pipe!Worker, Worker
  <2>2. MergedSoFar
    BY PrefixSumZero DEF Init, MergedSoFar, EmptySketch
  <2> QED
    BY <2>1, <2>2 DEF EndInv
<1>2. SysInv /\ EndInv /\ [Next]_vars => EndInv'
  BY EndOfStep, MergedStep DEF EndInv
<1> QED
  BY <1>1, <1>2, SysInvariant, PTL DEF Spec

(* Done() of a worker means that Flush is complete: its sketch and its     *)
(* batch are empty and its batchCh is closed.                              *)
THEOREM DoneIsFlushed == Spec => []DoneMeansFlushed
<1>1. SysInv /\ EndInv => DoneMeansFlushed
  <2> SUFFICES ASSUME SysInv, EndInv, NEW w \in Worker,
                      pc[w] \in {"closed", "done"}
               PROVE  /\ batchClosed[w]
                      /\ \A c \in Cell : Unsent(w, c) = 0
                      /\ inputCh[w] = << >>
    BY DEF DoneMeansFlushed
  <2>1. /\ batchClosed[w] /\ inputCh[w] = << >>
        /\ local[w] = EmptySketch /\ batchBuf[w] = << >>
    BY DEF EndInv, EndOf
  <2>2. ASSUME NEW c \in Cell PROVE Unsent(w, c) = 0
    <3>1. local[w][c] = 0
      BY <2>1 DEF EmptySketch
    <3>2. BatchWeight(batchBuf[w], c) = 0
      BY <2>1, BatchWeightEmpty
    <3> QED
      BY <3>1, <3>2 DEF Unsent
  <2> QED
    BY <2>1, <2>2
<1> QED
  BY <1>1, SysInvariant, EndInvariant, PTL

(* Guarantee 3, equivalence: when the aggregator is done, its sketch is    *)
(* cell by cell the sum of the sketches that were given each worker's      *)
(* stream directly, and every stream was read to its end.                  *)
THEOREM AggregatorConverges ==
  ASSUME SameCols
  PROVE  Spec => []Converged
<1>1. SysInv /\ EndInv /\ NothingLost => Converged
  <2> SUFFICES ASSUME SysInv, EndInv, NothingLost, aggDone
               PROVE  /\ \A w \in Worker : inputClosed[w] /\ inputCh[w] = << >>
                      /\ \A c \in Cell : global[c] =
                           PrefixSum([w \in Worker |-> ref[w][c]], NumWorkers)
    BY DEF Converged
  <2>1. merged = NumWorkers /\ \A w \in Worker : shardPc[w] = "done"
    BY DEF EndInv, MergedSoFar
  <2>2. ASSUME NEW w \in Worker
        PROVE  /\ batchClosed[w] /\ batchCh[w] = << >>
               /\ shardBatch[w] = << >>
    <3>1. Proofs!ShutdownOf(w)
      BY DEF SysInv, Proofs!PipeInv, Proofs!CleanShutdown, Proofs!Worker, Worker
    <3> QED
      BY <2>1, <3>1 DEF Proofs!ShutdownOf
  <2>3. ASSUME NEW w \in Worker
        PROVE  /\ inputClosed[w] /\ inputCh[w] = << >>
               /\ local[w] = EmptySketch /\ batchBuf[w] = << >>
    BY <2>2 DEF EndInv, EndOf
  <2>4. ASSUME NEW w \in Worker, NEW c \in Cell
        PROVE  shard[w][c] = ref[w][c]
    <3>1. Account(w, c) = ref[w][c] /\ shard[w][c] \in Int
      BY AccountTypes DEF NothingLost, Account
    <3>2. local[w][c] = 0
      BY <2>3 DEF EmptySketch
    <3>3. /\ BatchWeight(batchBuf[w], c) = 0
          /\ BatchWeight(shardBatch[w], c) = 0
          /\ QueueWeight(batchCh[w], c) = 0
      BY <2>2, <2>3, BatchWeightEmpty, QueueWeightEmpty
    <3> QED
      BY <3>1, <3>2, <3>3 DEF Account, Unsent, InFlight
  <2>5. ASSUME NEW c \in Cell
        PROVE  global[c] = PrefixSum([w \in Worker |-> ref[w][c]], NumWorkers)
    <3>1. [w \in Worker |-> shard[w][c]] = [w \in Worker |-> ref[w][c]]
      BY <2>4
    <3>2. global[c] = PrefixSum([w \in Worker |-> shard[w][c]], NumWorkers)
      BY <2>1 DEF EndInv, MergedSoFar
    <3> QED
      BY <3>1, <3>2
  <2> QED
    BY <2>3, <2>5
<1> QED
  BY <1>1, SysInvariant, EndInvariant, CountsAreConserved, PTL

-----------------------------------------------------------------------------
(* The delay bound: how far a shard lags behind its worker's stream *)

(* Products grow with their factors.                                       *)
LEMMA ProductMonotone ==
  ASSUME NEW m \in Nat, NEW a \in Nat, NEW b \in Nat, a <= b
  PROVE  m * a <= m * b /\ m * a \in Nat /\ m * b \in Nat
<1>1. PICK d \in Nat : b = a + d
  <2>1. b - a \in Nat /\ b = a + (b - a)
    OBVIOUS
  <2> QED
    BY <2>1
<1>2. m * b = m * a + m * d
  BY <1>1
<1>3. m * a \in Nat /\ m * d \in Nat
  BY <1>1
<1> QED
  BY <1>2, <1>3

(* A batch of n deltas carries at most n * TauMax to a cell, either way.   *)
LEMMA BatchWeightBound ==
  ASSUME NEW b \in Seq(Delta), Len(b) <= BatchCap, NEW c
  PROVE  /\ BatchWeight(b, c) \in Int
         /\ -(TauMax * BatchCap) <= BatchWeight(b, c)
         /\ BatchWeight(b, c) <= TauMax * BatchCap
<1> DEFINE f == [i \in 1..Len(b) |-> IF b[i].cell = c THEN b[i].value ELSE 0]
           n == Len(b)
<1>1. n \in Nat /\ \A i \in 1..n : b[i] \in Delta
  BY LenProperties, ElementOfSeq
<1>2. TauMax \in Nat /\ BatchCap \in Nat
  BY OctoAssumption
<1>3. \A i \in 1..n : f[i] \in Int /\ -TauMax <= f[i] /\ f[i] <= TauMax
  BY <1>1, <1>2 DEF Delta
<1>4. BatchWeight(b, c) = PrefixSum(f, n)
  BY DEF BatchWeight
<1> HIDE DEF f
<1>5. PrefixSum(f, n) \in Int
  BY <1>1, <1>3, PrefixSumType
<1>6. (-TauMax) * n <= PrefixSum(f, n) /\ PrefixSum(f, n) <= TauMax * n
  <2> DEFINE lo == -TauMax
  <2>1. lo \in Int /\ TauMax \in Int
    BY <1>2
  <2>2. \A i \in 1..n : f[i] \in Int /\ lo <= f[i] /\ f[i] <= TauMax
    BY <1>3
  <2> HIDE DEF n, lo
  <2>3. lo * n <= PrefixSum(f, n) /\ PrefixSum(f, n) <= TauMax * n
    BY <1>1, <2>1, <2>2, PrefixSumBounds
  <2> QED
    BY <2>3 DEF lo
<1>7. TauMax * n <= TauMax * BatchCap
  BY <1>1, <1>2, ProductMonotone
<1>8. (-TauMax) * n = -(TauMax * n) /\ TauMax * n \in Int
  BY <1>1, <1>2
<1>9. TauMax * BatchCap \in Int
  BY <1>2
<1> HIDE DEF n
<1> QED
  BY <1>4, <1>5, <1>6, <1>7, <1>8, <1>9

(* ... and a queue of such batches that much per batch.                    *)
LEMMA QueueWeightBound ==
  ASSUME NEW q \in Seq(Seq(Delta)),
         \A i \in 1..Len(q) : Len(q[i]) <= BatchCap, NEW c
  PROVE  /\ QueueWeight(q, c) \in Int
         /\ -((TauMax * BatchCap) * Len(q)) <= QueueWeight(q, c)
         /\ QueueWeight(q, c) <= (TauMax * BatchCap) * Len(q)
<1> DEFINE f == [i \in 1..Len(q) |-> BatchWeight(q[i], c)]
           n == Len(q)
           m == TauMax * BatchCap
<1>1. n \in Nat /\ \A i \in 1..n : q[i] \in Seq(Delta)
  BY LenProperties, ElementOfSeq
<1>2. m \in Int
  BY OctoAssumption
<1>3. \A i \in 1..n : f[i] \in Int /\ -m <= f[i] /\ f[i] <= m
  BY <1>1, BatchWeightBound
<1>4. QueueWeight(q, c) = PrefixSum(f, n)
  BY DEF QueueWeight
<1> HIDE DEF f, m
<1>5. PrefixSum(f, n) \in Int
  BY <1>1, <1>3, PrefixSumType
<1>6. (-m) * n <= PrefixSum(f, n) /\ PrefixSum(f, n) <= m * n
  <2>1. -m \in Int
    BY <1>2
  <2> HIDE DEF n
  <2> QED
    BY <1>1, <1>2, <1>3, <2>1, PrefixSumBounds
<1>7. (-m) * n = -(m * n)
  BY <1>1, <1>2
<1> QED
  BY <1>4, <1>5, <1>6, <1>7 DEF m

(* What the transport can hold for one cell: the pool of a worker is       *)
(* PoolSize + 1 batches, and a batch outside it is empty.                  *)
LEMMA TransitBound ==
  ASSUME SysInv, NEW w \in Worker, NEW c \in Cell
  PROVE  LET t == BatchWeight(batchBuf[w], c) + InFlight(w, c)
             m == TauMax * BatchCap
         IN  /\ t \in Int
             /\ -(m * (PoolSize + 1)) <= t
             /\ t <= m * (PoolSize + 1)
<1> DEFINE m == TauMax * BatchCap
           n == Len(batchCh[w])
           A == BatchWeight(batchBuf[w], c)
           Q == QueueWeight(batchCh[w], c)
           S == BatchWeight(shardBatch[w], c)
           WH == Proofs!WorkerHolds(w)
           SH == Proofs!ShardHolds(w)
<1>1. /\ Proofs!BatchesOf(w)
      /\ Proofs!PoolOf(w) = PoolSize + 1
  BY DEF SysInv, Proofs!PipeInv, Proofs!BatchDiscipline,
         Proofs!PoolConserved, Proofs!Worker, Worker
<1>2. /\ batchBuf[w] \in Seq(Delta) /\ Len(batchBuf[w]) <= BatchCap
      /\ shardBatch[w] \in Seq(Delta) /\ Len(shardBatch[w]) <= BatchCap
      /\ batchCh[w] \in Seq(Seq(Delta))
  BY <1>1, AccountTypes DEF Proofs!BatchesOf
<1>3. \A i \in 1..n : Len(batchCh[w][i]) <= BatchCap
  <2>1. batchCh[w] \in Seq(Proofs!SentBatch)
    BY <1>1 DEF Proofs!BatchesOf
  <2>2. \A i \in 1..n : batchCh[w][i] \in Proofs!SentBatch
    BY <2>1, ElementOfSeq
  <2> QED
    BY <2>2, OctoAssumption DEF Proofs!SentBatch
<1>4. m \in Nat
  BY OctoAssumption
<1>5. /\ n \in Nat /\ WH \in {0, 1} /\ SH \in {0, 1}
      /\ WH + n + SH <= PoolSize + 1 /\ PoolSize \in Nat
  <2>1. recycleCh[w] \in Seq(Seq(Delta))
    BY DEF SysInv, TypeOK, Pipe!TypeOK, Pipe!Batch, Pipe!Worker, Worker
  <2>2. n \in Nat /\ Len(recycleCh[w]) \in Nat
    BY <1>2, <2>1, LenProperties
  <2>3. WH \in {0, 1} /\ SH \in {0, 1}
    BY DEF Proofs!WorkerHolds, Proofs!ShardHolds
  <2>4. WH + n + SH + Len(recycleCh[w]) = PoolSize + 1
    BY <1>1 DEF Proofs!PoolOf
  <2> DEFINE r == Len(recycleCh[w])
  <2>5. PoolSize \in Nat
    BY OctoAssumption
  <2>6. r \in Nat /\ WH + n + SH + r = PoolSize + 1
    BY <2>2, <2>4
  <2> HIDE DEF n, r, WH, SH
  <2>7. WH + n + SH <= PoolSize + 1
    BY <2>2, <2>3, <2>5, <2>6
  <2> QED
    BY <2>2, <2>3, <2>5, <2>7
<1>6. A \in Int /\ -(m * WH) <= A /\ A <= m * WH
  <2>1. CASE handoff[w] = "take"
    <3>1. A = 0 /\ WH = 0
      BY <2>1, ReusedBatchesAreEmpty, BatchWeightEmpty DEF Proofs!WorkerHolds
    <3> HIDE DEF A, WH
    <3> QED
      BY <1>4, <3>1
  <2>2. CASE handoff[w] # "take"
    <3>1. WH = 1
      BY <2>2 DEF Proofs!WorkerHolds
    <3>2. A \in Int /\ -m <= A /\ A <= m
      BY <1>2, BatchWeightBound
    <3> HIDE DEF A, WH, m
    <3> QED
      BY <1>4, <3>1, <3>2
  <2> QED
    BY <2>1, <2>2
<1>7. S \in Int /\ -(m * SH) <= S /\ S <= m * SH
  <2>1. CASE shardPc[w] \notin {"merge", "recycle"}
    <3>1. S = 0 /\ SH = 0
      BY <2>1, ReusedBatchesAreEmpty, BatchWeightEmpty DEF Proofs!ShardHolds
    <3> HIDE DEF S, SH
    <3> QED
      BY <1>4, <3>1
  <2>2. CASE shardPc[w] \in {"merge", "recycle"}
    <3>1. SH = 1
      BY <2>2 DEF Proofs!ShardHolds
    <3>2. S \in Int /\ -m <= S /\ S <= m
      BY <1>2, BatchWeightBound
    <3> HIDE DEF S, SH, m
    <3> QED
      BY <1>4, <3>1, <3>2
  <2> QED
    BY <2>1, <2>2
<1>8. Q \in Int /\ -(m * n) <= Q /\ Q <= m * n
  BY <1>2, <1>3, QueueWeightBound
<1>9. BatchWeight(batchBuf[w], c) + InFlight(w, c) = A + (Q + S)
  BY DEF InFlight
<1> HIDE DEF m, n, A, Q, S, WH, SH
<1>10. m * (WH + n + SH) = m * WH + m * n + m * SH
  BY <1>4, <1>5
<1>11. m * (WH + n + SH) <= m * (PoolSize + 1)
  <2>1. WH + n + SH \in Nat /\ PoolSize + 1 \in Nat
    BY <1>5
  <2> QED
    BY <1>4, <1>5, <2>1, ProductMonotone
<1>12. m * WH \in Int /\ m * n \in Int /\ m * SH \in Int
       /\ m * (PoolSize + 1) \in Int
  BY <1>4, <1>5
<1>13. /\ A + (Q + S) \in Int
       /\ -(m * (PoolSize + 1)) <= A + (Q + S)
       /\ A + (Q + S) <= m * (PoolSize + 1)
  BY <1>6, <1>7, <1>8, <1>10, <1>11, <1>12
<1> QED
  BY <1>9, <1>13 DEF m

(* The delay bound of guarantees_test.go: a shard is never further from    *)
(* what its worker was given than one threshold kept back and a pool of    *)
(* full batches on the way, whatever the threshold does meanwhile.         *)
THEOREM DelayBounded ==
  ASSUME SameCols
  PROVE  Spec => []DelayBound
<1>1. ASSUME SysInv, NothingLost, NEW w \in Worker, NEW c \in Cell
      PROVE  AbsVal(ref[w][c] - shard[w][c]) <= Lag
  <2> DEFINE L == local[w][c]
             H == shard[w][c]
             R == ref[w][c]
             T == BatchWeight(batchBuf[w], c) + InFlight(w, c)
             p == TauMax * BatchCap * (PoolSize + 1)
  <2>1. /\ L \in Int /\ H \in Int /\ R \in Int
        /\ BatchWeight(batchBuf[w], c) \in Int
        /\ InFlight(w, c) \in Int
    BY <1>1, AccountTypes DEF InFlight
  <2>2. T \in Int /\ -p <= T /\ T <= p
    BY <1>1, TransitBound
  <2>3. L < TauMax /\ -TauMax < L
    BY <1>1, <2>1, OctoAssumption DEF SysInv, Withheld, AbsVal
  <2>4. L + T + H = R
    <3>1. L + BatchWeight(batchBuf[w], c) + InFlight(w, c) + H = R
      BY <1>1 DEF NothingLost, Unsent
    <3> QED
      BY <2>1, <3>1
  <2>5. p \in Int /\ TauMax \in Int
    BY OctoAssumption
  <2>6. Lag = TauMax - 1 + p
    BY DEF Lag
  <2> HIDE DEF L, H, R, T, p
  <2>7. R - H = L + T
    BY <2>1, <2>2, <2>4
  <2>8. AbsVal(R - H) <= TauMax - 1 + p
    BY <2>1, <2>2, <2>3, <2>5, <2>7 DEF AbsVal
  <2> QED
    BY <2>6, <2>8 DEF R, H
<1>2. SysInv /\ NothingLost => DelayBound
  BY <1>1 DEF SysInv, DelayBound
<1> QED
  BY <1>2, SysInvariant, CountsAreConserved, PTL

-----------------------------------------------------------------------------
(* Communication reduction: how many small deltas are on the way *)

(* The small deltas of a batch can be counted, ...                         *)
LEMMA SmallDeltasType ==
  ASSUME NEW b \in Seq(Delta), NEW c
  PROVE  /\ IsFiniteSet({i \in 1..Len(b) :
                          b[i].cell = c /\ AbsVal(b[i].value) < TauMin})
         /\ SmallDeltas(b, c) \in Nat
<1> DEFINE S == {i \in 1..Len(b) :
                  b[i].cell = c /\ AbsVal(b[i].value) < TauMin}
<1>1. Len(b) \in Int /\ 1 \in Int
  BY LenProperties
<1>2. IsFiniteSet(1..Len(b))
  BY <1>1, FS_Interval
<1>3. S \in SUBSET (1..Len(b))
  OBVIOUS
<1>4. IsFiniteSet(S)
  BY <1>2, <1>3, FS_Subset
<1>5. Cardinality(S) \in Nat
  BY <1>4, FS_CardinalityType
<1> QED
  BY <1>4, <1>5 DEF SmallDeltas

(* ... an empty batch has none, ...                                        *)
LEMMA SmallDeltasEmpty ==
  ASSUME NEW c
  PROVE  SmallDeltas(<< >>, c) = 0
<1> DEFINE e == << >>
           S == {i \in 1..Len(e) :
                  e[i].cell = c /\ AbsVal(e[i].value) < TauMin}
<1>1. 1..Len(e) = {}
  OBVIOUS
<1>2. S = {}
  BY <1>1
<1>3. Cardinality(S) = 0
  BY <1>2, FS_EmptySet
<1> QED
  BY <1>3 DEF SmallDeltas

(* ... and one more delta adds itself if it is small.                      *)
LEMMA SmallDeltasAppend ==
  ASSUME NEW b \in Seq(Delta), NEW d \in Delta, NEW c
  PROVE  SmallDeltas(Append(b, d), c)
           = SmallDeltas(b, c)
             + (IF d.cell = c /\ AbsVal(d.value) < TauMin THEN 1 ELSE 0)
<1> DEFINE n == Len(b)
           a == Append(b, d)
           S == {i \in 1..n : b[i].cell = c /\ AbsVal(b[i].value) < TauMin}
           T == {i \in 1..n+1 : a[i].cell = c /\ AbsVal(a[i].value) < TauMin}
           small == d.cell = c /\ AbsVal(d.value) < TauMin
<1>1. /\ n \in Nat /\ Len(a) = n + 1
      /\ \A i \in 1..n : a[i] = b[i]
      /\ a[n+1] = d
  BY LenProperties, AppendProperties
<1>2. IsFiniteSet(S)
  BY SmallDeltasType
<1>3. \A i \in 1..n+1 : i \in 1..n \/ i = n+1
  BY <1>1
<1>4. n+1 \notin S /\ n+1 \in 1..n+1 /\ 1..n \subseteq 1..n+1
  BY <1>1
<1>5. \A i \in 1..n : i \in T <=> i \in S
  BY <1>1
<1>6. n+1 \in T <=> small
  BY <1>1
<1>7. SmallDeltas(b, c) = Cardinality(S)
  BY DEF SmallDeltas
<1>8. SmallDeltas(a, c) = Cardinality(T)
  BY <1>1 DEF SmallDeltas
<1>9. S \subseteq 1..n /\ T \subseteq 1..n+1
  OBVIOUS
<1> HIDE DEF S, T, n, a, small
<1>10. CASE small
  <2>1. T = S \cup {n+1}
    BY <1>3, <1>4, <1>5, <1>6, <1>9, <1>10
  <2>2. Cardinality(T) = Cardinality(S) + 1
    BY <1>2, <1>4, <2>1, FS_AddElement
  <2> QED
    BY <1>7, <1>8, <1>10, <2>2 DEF a, small
<1>11. CASE ~ small
  <2>1. T = S
    BY <1>3, <1>4, <1>5, <1>6, <1>9, <1>11
  <2>2. Cardinality(S) \in Nat
    BY <1>2, FS_CardinalityType
  <2>3. SmallDeltas(b, c) + 0 = SmallDeltas(b, c)
    BY <1>7, <2>2
  <2> QED
    BY <1>7, <1>8, <1>11, <2>1, <2>3 DEF a, small
<1> QED
  BY <1>10, <1>11

(* The small deltas in batchCh, as a sum over its batches.                 *)
SmallOf(c) == [b \in Seq(Delta) |-> SmallDeltas(b, c)]

SmallQueued(q, c) ==
  PrefixSum([i \in 1..Len(q) |-> SmallDeltas(q[i], c)], Len(q))

LEMMA SmallQueuedSum ==
  ASSUME NEW q \in Seq(Seq(Delta)), NEW c
  PROVE  /\ SmallQueued(q, c) = SeqSum(SmallOf(c), q)
         /\ SmallQueued(q, c) \in Int
         /\ \A b \in Seq(Delta) : SmallOf(c)[b] \in Int
<1>1. \A b \in Seq(Delta) : SmallOf(c)[b] = SmallDeltas(b, c)
  BY DEF SmallOf
<1>2. \A b \in Seq(Delta) : SmallOf(c)[b] \in Int
  <2>1. ASSUME NEW b \in Seq(Delta) PROVE SmallDeltas(b, c) \in Int
    <3>1. SmallDeltas(b, c) \in Nat
      BY SmallDeltasType
    <3> QED
      BY <3>1
  <2> QED
    BY <1>1, <2>1
<1>3. \A i \in 1..Len(q) : q[i] \in Seq(Delta)
  BY ElementOfSeq
<1>4. [i \in 1..Len(q) |-> SmallDeltas(q[i], c)]
        = [i \in 1..Len(q) |-> SmallOf(c)[q[i]]]
  BY <1>1, <1>3
<1>5. SmallQueued(q, c) = SeqSum(SmallOf(c), q)
  BY <1>4 DEF SmallQueued, SeqSum
<1>6. SeqSum(SmallOf(c), q) \in Int
  BY <1>2, SeqSumType
<1> QED
  BY <1>2, <1>5, <1>6

(* A batch sent joins it, ...                                              *)
LEMMA SmallQueuedAppend ==
  ASSUME NEW q \in Seq(Seq(Delta)), NEW b \in Seq(Delta), NEW c
  PROVE  SmallQueued(Append(q, b), c) = SmallQueued(q, c) + SmallDeltas(b, c)
<1>1. Append(q, b) \in Seq(Seq(Delta))
  BY AppendProperties
<1>2. SeqSum(SmallOf(c), Append(q, b)) = SeqSum(SmallOf(c), q) + SmallOf(c)[b]
  BY SeqSumAppend
<1>3. SmallOf(c)[b] = SmallDeltas(b, c)
  BY DEF SmallOf
<1> QED
  BY <1>1, <1>2, <1>3, SmallQueuedSum

(* ... and a batch received leaves it.                                     *)
LEMMA SmallQueuedTail ==
  ASSUME NEW q \in Seq(Seq(Delta)), q # << >>, NEW c
  PROVE  SmallQueued(q, c) = SmallDeltas(Head(q), c) + SmallQueued(Tail(q), c)
<1>1. Head(q) \in Seq(Delta) /\ Tail(q) \in Seq(Seq(Delta))
  BY HeadTailProperties
<1>2. \A b \in Seq(Delta) : SmallOf(c)[b] \in Int
  BY SmallQueuedSum
<1>3. SeqSum(SmallOf(c), q)
        = SmallOf(c)[Head(q)] + SeqSum(SmallOf(c), Tail(q))
  BY <1>2, SeqSumTail
<1>4. SmallOf(c)[Head(q)] = SmallDeltas(Head(q), c)
  BY <1>1 DEF SmallOf
<1> QED
  BY <1>1, <1>3, <1>4, SmallQueuedSum

(* What CommunicationReduced says of one worker and one cell.              *)
SmallOnTheWay(w, c) ==
  SmallDeltas(shardBatch[w], c) + SmallDeltas(batchBuf[w], c)
    + SmallQueued(batchCh[w], c)

SmallAllowed(w, c) ==
  IF pc[w] \in {"range", "rows"} \/ local[w][c] # 0 THEN 0 ELSE 1

LEMMA SmallTypes ==
  ASSUME SysInv, NEW w \in Worker, NEW c
  PROVE  /\ SmallDeltas(shardBatch[w], c) \in Nat
         /\ SmallDeltas(batchBuf[w], c) \in Nat
         /\ SmallQueued(batchCh[w], c) \in Int
         /\ batchBuf[w] \in Seq(Delta) /\ shardBatch[w] \in Seq(Delta)
         /\ batchCh[w] \in Seq(Seq(Delta))
<1>1. /\ batchBuf[w] \in Seq(Delta) /\ shardBatch[w] \in Seq(Delta)
      /\ batchCh[w] \in Seq(Seq(Delta))
  BY DEF SysInv, TypeOK, Pipe!TypeOK, Pipe!Batch, Pipe!Worker, Worker
<1> QED
  BY <1>1, SmallDeltasType, SmallQueuedSum

Reduced(w) == \A c \in Cell : SmallOnTheWay(w, c) <= SmallAllowed(w, c)

LEMMA ReducedEverywhere ==
  CommunicationReduced <=> \A w \in Worker : Reduced(w)
BY DEF CommunicationReduced, Reduced, SmallOnTheWay, SmallAllowed, SmallQueued

(* A step of w or its shard is no other worker's business.                 *)
SmallUnchanged(v) ==
  /\ local'[v] = local[v] /\ pc'[v] = pc[v]
  /\ batchBuf'[v] = batchBuf[v] /\ batchCh'[v] = batchCh[v]
  /\ shardBatch'[v] = shardBatch[v]

LEMMA ReducedOthers ==
  ASSUME NEW v \in Worker, Reduced(v), SmallUnchanged(v)
  PROVE  Reduced(v)'
BY DEF Reduced, SmallUnchanged, SmallOnTheWay, SmallAllowed

(* The row loop emits what has reached tau, which is at least TauMin.      *)
LEMMA ProcessRowReduced ==
  ASSUME SysInv, NEW w \in Worker, Reduced(w), ProcessRow(w)
  PROVE  Reduced(w)' /\ \A v \in Worker \ {w} : SmallUnchanged(v)
<1> DEFINE c == <<row[w], ColOf[item[w]][row[w]]>>
           newVal == local[w][c] + SignOf[item[w]][row[w]]
           d == [cell |-> c, value |-> newVal]
<1>1. /\ c \in Cell /\ newVal \in -TauMax..TauMax /\ d \in Delta
  BY RowFacts DEF SysInv
<1>2. /\ local \in [Worker -> [Cell -> Int]]
      /\ batchBuf \in [Worker -> Seq(Delta)]
      /\ pc \in [Worker -> {"range", "rows", "flush", "close", "closed",
                            "done"}]
  BY DEF SysInv, TypeOK, Sketch, Pipe!TypeOK, Pipe!Batch, Pipe!Worker, Worker
<1>3. /\ pc[w] = "rows" /\ pc'[w] \in {"rows", "range"}
      /\ \A v \in Worker \ {w} : pc'[v] = pc[v]
  <2>1. pc[w] = "rows" /\ (pc' = pc \/ pc' = [pc EXCEPT ![w] = "range"])
    BY DEF ProcessRow
  <2> QED
    BY <1>2, <2>1
<1>4. \/ UNCHANGED pipeVars /\ local' = [local EXCEPT ![w][c] = newVal]
      \/ /\ Pipe!Emit(w, d) /\ ShouldEmit(newVal, tauSeen[w])
         /\ local' = [local EXCEPT ![w][c] = 0]
  BY DEF ProcessRow
<1>5. AbsVal(newVal) >= TauMin \/ ~ ShouldEmit(newVal, tauSeen[w])
  <2>1. tauSeen[w] \in TauMin..TauMax
    BY DEF SysInv, TypeOK
  <2>2. newVal \in Int
    BY <1>1
  <2> HIDE DEF newVal
  <2>3. AbsVal(newVal) \in Int
    BY <2>2 DEF AbsVal
  <2> QED
    BY <2>1, <2>3, OctoAssumption DEF ShouldEmit
<1>6. d.cell = c /\ d.value = newVal
  OBVIOUS
<1>7. newVal \in Int
  BY <1>1
<1> HIDE DEF c, newVal, d
<1>8. /\ \A v \in Worker \ {w} : local'[v] = local[v]
      /\ batchCh' = batchCh /\ shardBatch' = shardBatch
      /\ \A v \in Worker \ {w} : batchBuf'[v] = batchBuf[v]
      /\ \/ batchBuf'[w] = batchBuf[w]
         \/ batchBuf'[w] = Append(batchBuf[w], d) /\ AbsVal(newVal) >= TauMin
  <2>1. CASE UNCHANGED pipeVars /\ local' = [local EXCEPT ![w][c] = newVal]
    BY <1>2, <2>1 DEF pipeVars
  <2>2. CASE /\ Pipe!Emit(w, d) /\ ShouldEmit(newVal, tauSeen[w])
             /\ local' = [local EXCEPT ![w][c] = 0]
    BY <1>2, <1>5, <2>2 DEF Pipe!Emit
  <2> QED
    BY <1>4, <2>1, <2>2
<1>9. ASSUME NEW e \in Cell
      PROVE  SmallOnTheWay(w, e)' <= SmallAllowed(w, e)'
  <2>1. SmallAllowed(w, e) = 0 /\ SmallAllowed(w, e)' = 0
    BY <1>3 DEF SmallAllowed
  <2>2. SmallDeltas(batchBuf'[w], e) = SmallDeltas(batchBuf[w], e)
    <3>1. CASE batchBuf'[w] = batchBuf[w]
      BY <3>1
    <3>2. CASE batchBuf'[w] = Append(batchBuf[w], d)
               /\ AbsVal(newVal) >= TauMin
      <4>1. ~ (AbsVal(d.value) < TauMin)
        <5>1. AbsVal(newVal) \in Int
          BY <1>7 DEF AbsVal
        <5> QED
          BY <1>6, <3>2, <5>1, OctoAssumption
      <4>2. SmallDeltas(batchBuf'[w], e) = SmallDeltas(batchBuf[w], e) + 0
        BY <1>1, <1>2, <3>2, <4>1, SmallDeltasAppend
      <4>3. SmallDeltas(batchBuf[w], e) \in Int
        BY SmallTypes
      <4> QED
        BY <4>2, <4>3
    <3> QED
      BY <1>8, <3>1, <3>2
  <2>3. SmallOnTheWay(w, e)' = SmallOnTheWay(w, e)
    BY <1>8, <2>2 DEF SmallOnTheWay
  <2> QED
    BY <2>1, <2>3 DEF Reduced
<1> QED
  BY <1>3, <1>8, <1>9 DEF Reduced, SmallUnchanged

(* Flush may emit a small delta for a cell, once: the cell is zero then.   *)
LEMMA FlushCellReduced ==
  ASSUME SysInv, NEW w \in Worker, Reduced(w), FlushCell(w)
  PROVE  Reduced(w)' /\ \A v \in Worker \ {w} : SmallUnchanged(v)
<1>1. PICK c \in Cell :
        /\ local[w][c] # 0
        /\ Pipe!Emit(w, [cell |-> c, value |-> local[w][c]])
        /\ local' = [local EXCEPT ![w][c] = 0]
  BY DEF FlushCell
<1> DEFINE d == [cell |-> c, value |-> local[w][c]]
<1>2. d \in Delta /\ d.cell = c
  BY FlushFacts DEF SysInv
<1>3. /\ local \in [Worker -> [Cell -> Int]]
      /\ batchBuf \in [Worker -> Seq(Delta)]
  BY DEF SysInv, TypeOK, Sketch, Pipe!TypeOK, Pipe!Batch, Pipe!Worker, Worker
<1>4. /\ batchBuf' = [batchBuf EXCEPT ![w] = Append(batchBuf[w], d)]
      /\ batchCh' = batchCh /\ shardBatch' = shardBatch
  BY <1>1, <1>3 DEF Pipe!Emit
<1>5. pc' = pc /\ pc[w] = "flush"
  BY DEF FlushCell
<1> HIDE DEF d
<1>6. ASSUME NEW e \in Cell
      PROVE  SmallOnTheWay(w, e)' <= SmallAllowed(w, e)'
  <2>1. /\ SmallDeltas(shardBatch[w], e) \in Int
        /\ SmallDeltas(batchBuf[w], e) \in Int
        /\ SmallQueued(batchCh[w], e) \in Int
        /\ batchBuf[w] \in Seq(Delta)
    <3>1. SmallDeltas(shardBatch[w], e) \in Nat
          /\ SmallDeltas(batchBuf[w], e) \in Nat
      BY SmallTypes
    <3> QED
      BY <3>1, SmallTypes
  <2>2. batchBuf'[w] = Append(batchBuf[w], d)
    BY <1>3, <1>4
  <2>3. SmallDeltas(batchBuf'[w], e)
          = SmallDeltas(batchBuf[w], e)
            + (IF d.cell = e /\ AbsVal(d.value) < TauMin THEN 1 ELSE 0)
    BY <1>2, <2>1, <2>2, SmallDeltasAppend
  <2>4. SmallOnTheWay(w, e)'
          = SmallDeltas(shardBatch[w], e) + SmallDeltas(batchBuf'[w], e)
              + SmallQueued(batchCh[w], e)
    BY <1>4 DEF SmallOnTheWay
  <2>5. SmallOnTheWay(w, e)
          = SmallDeltas(shardBatch[w], e) + SmallDeltas(batchBuf[w], e)
              + SmallQueued(batchCh[w], e)
    BY DEF SmallOnTheWay
  <2>6. SmallOnTheWay(w, e) <= SmallAllowed(w, e)
    BY DEF Reduced
  <2>7. CASE e = c
    <3>1. SmallAllowed(w, e) = 0
      BY <1>1, <2>7 DEF SmallAllowed
    <3>2. SmallAllowed(w, e)' = 1
      <4>1. local'[w][e] = 0
        BY <1>1, <1>3, <2>7
      <4> QED
        BY <1>5, <4>1 DEF SmallAllowed
    <3>3. \/ SmallDeltas(batchBuf'[w], e) = SmallDeltas(batchBuf[w], e) + 1
          \/ SmallDeltas(batchBuf'[w], e) = SmallDeltas(batchBuf[w], e) + 0
      BY <2>3
    <3> QED
      BY <2>1, <2>4, <2>5, <2>6, <3>1, <3>2, <3>3
  <2>8. CASE e # c
    <3>1. SmallAllowed(w, e)' = SmallAllowed(w, e)
      <4>1. local'[w][e] = local[w][e]
        BY <1>1, <1>3, <2>8
      <4> QED
        BY <1>5, <4>1 DEF SmallAllowed
    <3>2. SmallDeltas(batchBuf'[w], e) = SmallDeltas(batchBuf[w], e)
      BY <1>2, <2>1, <2>3, <2>8
    <3> QED
      BY <2>4, <2>5, <2>6, <3>1, <3>2
  <2> QED
    BY <2>7, <2>8
<1> QED
  BY <1>1, <1>3, <1>4, <1>5, <1>6 DEF Reduced, SmallUnchanged

(* flushBatch passes the batch on; what it takes back is empty.            *)
LEMMA HandOverReduced ==
  ASSUME SysInv, NEW w \in Worker, Reduced(w), HandOver(w)
  PROVE  Reduced(w)' /\ \A v \in Worker \ {w} : SmallUnchanged(v)
<1>1. /\ batchBuf \in [Worker -> Seq(Delta)]
      /\ batchCh \in [Worker -> Seq(Seq(Delta))]
  BY DEF SysInv, TypeOK, Pipe!TypeOK, Pipe!Batch, Pipe!Worker, Worker
<1>2. local' = local /\ pc' = pc /\ shardBatch' = shardBatch
  BY DEF HandOver, workerVars, Pipe!SendBatch, Pipe!TakeBatch
<1>3. /\ \A v \in Worker \ {w} : batchBuf'[v] = batchBuf[v]
      /\ \A v \in Worker \ {w} : batchCh'[v] = batchCh[v]
  BY <1>1 DEF HandOver, Pipe!SendBatch, Pipe!TakeBatch
<1>4. ASSUME NEW e \in Cell
      PROVE  SmallOnTheWay(w, e)' = SmallOnTheWay(w, e)
  <2>1. /\ SmallDeltas(shardBatch[w], e) \in Int
        /\ SmallDeltas(batchBuf[w], e) \in Int
        /\ SmallQueued(batchCh[w], e) \in Int
        /\ batchBuf[w] \in Seq(Delta)
        /\ batchCh[w] \in Seq(Seq(Delta))
    <3>1. SmallDeltas(shardBatch[w], e) \in Nat
          /\ SmallDeltas(batchBuf[w], e) \in Nat
      BY SmallTypes
    <3> QED
      BY <3>1, SmallTypes
  <2>2. CASE Pipe!SendBatch(w)
    <3>1. /\ batchBuf'[w] = << >>
          /\ batchCh'[w] = Append(batchCh[w], batchBuf[w])
      BY <1>1, <2>2 DEF Pipe!SendBatch
    <3>2. /\ SmallDeltas(batchBuf'[w], e) = 0
          /\ SmallQueued(batchCh'[w], e)
               = SmallQueued(batchCh[w], e) + SmallDeltas(batchBuf[w], e)
      BY <2>1, <3>1, SmallDeltasEmpty, SmallQueuedAppend
    <3>3. SmallOnTheWay(w, e)'
            = SmallDeltas(shardBatch[w], e) + SmallDeltas(batchBuf'[w], e)
                + SmallQueued(batchCh'[w], e)
      BY <1>2 DEF SmallOnTheWay
    <3> QED
      BY <2>1, <3>2, <3>3 DEF SmallOnTheWay
  <2>3. CASE Pipe!TakeBatch(w)
    <3>1. batchBuf[w] = << >> /\ Head(recycleCh[w]) = << >>
      BY <2>3, ReusedBatchesAreEmpty DEF Pipe!TakeBatch
    <3>2. batchBuf'[w] = batchBuf[w] /\ batchCh' = batchCh
      BY <1>1, <2>3, <3>1 DEF Pipe!TakeBatch
    <3> QED
      BY <1>2, <3>2 DEF SmallOnTheWay
  <2> QED
    BY <2>2, <2>3 DEF HandOver
<1>5. ASSUME NEW e \in Cell
      PROVE  SmallAllowed(w, e)' = SmallAllowed(w, e)
  BY <1>2 DEF SmallAllowed
<1> QED
  BY <1>2, <1>3, <1>4, <1>5 DEF Reduced, SmallUnchanged

(* The shard takes deltas off the way.                                     *)
LEMMA ShardStepReduced ==
  ASSUME SysInv, NEW w \in Worker, Reduced(w), ShardStep(w)
  PROVE  Reduced(w)' /\ \A v \in Worker \ {w} : SmallUnchanged(v)
<1>1. /\ batchCh \in [Worker -> Seq(Seq(Delta))]
      /\ shardBatch \in [Worker -> Seq(Delta)]
  BY DEF SysInv, TypeOK, Pipe!TypeOK, Pipe!Batch, Pipe!Worker, Worker
<1>2. local' = local /\ pc' = pc
  BY DEF ShardStep, MergeBatch, workerVars
<1>3. batchBuf' = batchBuf
  BY DEF ShardStep, MergeBatch, Pipe!MergeBatch, Pipe!ShardReceive,
         Pipe!RecycleBatch, Pipe!ShardExit
<1>4. /\ \A v \in Worker \ {w} : batchCh'[v] = batchCh[v]
      /\ \A v \in Worker \ {w} : shardBatch'[v] = shardBatch[v]
  BY <1>1
  DEF ShardStep, MergeBatch, Pipe!MergeBatch, Pipe!ShardReceive,
      Pipe!RecycleBatch, Pipe!ShardExit
<1>5. ASSUME NEW e \in Cell
      PROVE  SmallOnTheWay(w, e)' <= SmallOnTheWay(w, e)
  <2>1. /\ SmallDeltas(shardBatch[w], e) \in Nat
        /\ SmallDeltas(batchBuf[w], e) \in Nat
        /\ SmallQueued(batchCh[w], e) \in Int
        /\ batchCh[w] \in Seq(Seq(Delta))
    BY SmallTypes
  <2>2. SmallOnTheWay(w, e)'
          = SmallDeltas(shardBatch'[w], e) + SmallDeltas(batchBuf[w], e)
              + SmallQueued(batchCh'[w], e)
    BY <1>3 DEF SmallOnTheWay
  <2>3. CASE MergeBatch(w)
    <3>1. shardBatch'[w] = << >> /\ batchCh' = batchCh
      BY <1>1, <2>3 DEF MergeBatch, Pipe!MergeBatch
    <3>2. SmallDeltas(shardBatch'[w], e) = 0
      BY <3>1, SmallDeltasEmpty
    <3> QED
      BY <2>1, <2>2, <3>1, <3>2 DEF SmallOnTheWay
  <2>4. CASE Pipe!ShardReceive(w)
    <3>1. /\ shardBatch[w] = << >> /\ batchCh[w] # << >>
          /\ shardBatch'[w] = Head(batchCh[w])
          /\ batchCh'[w] = Tail(batchCh[w])
      BY <1>1, <2>4, ReusedBatchesAreEmpty DEF Pipe!ShardReceive
    <3>2. /\ SmallDeltas(shardBatch[w], e) = 0
          /\ SmallQueued(batchCh[w], e)
               = SmallDeltas(Head(batchCh[w]), e)
                   + SmallQueued(Tail(batchCh[w]), e)
      BY <2>1, <3>1, SmallDeltasEmpty, SmallQueuedTail
    <3>3. /\ SmallDeltas(Head(batchCh[w]), e) \in Nat
          /\ SmallQueued(Tail(batchCh[w]), e) \in Int
      <4>1. /\ Head(batchCh[w]) \in Seq(Delta)
            /\ Tail(batchCh[w]) \in Seq(Seq(Delta))
        BY <2>1, <3>1, HeadTailProperties
      <4> QED
        BY <4>1, SmallDeltasType, SmallQueuedSum
    <3> QED
      BY <2>1, <2>2, <3>1, <3>2, <3>3 DEF SmallOnTheWay
  <2>5. CASE Pipe!RecycleBatch(w) \/ Pipe!ShardExit(w)
    <3>1. shardPc[w] # "merge"
      BY <2>5 DEF Pipe!RecycleBatch, Pipe!ShardExit
    <3>2. shardBatch[w] = << >>
      BY <3>1, ReusedBatchesAreEmpty
    <3>3. shardBatch'[w] = shardBatch[w] /\ batchCh' = batchCh
      BY <1>1, <2>5, <3>2 DEF Pipe!RecycleBatch, Pipe!ShardExit
    <3> QED
      BY <2>1, <2>2, <3>3 DEF SmallOnTheWay
  <2> QED
    BY <2>3, <2>4, <2>5 DEF ShardStep
<1>6. ASSUME NEW e \in Cell
      PROVE  /\ SmallAllowed(w, e)' = SmallAllowed(w, e)
             /\ SmallAllowed(w, e) \in Int
             /\ SmallOnTheWay(w, e) \in Int
             /\ SmallOnTheWay(w, e)' \in Int
  <2>1. /\ SmallDeltas(shardBatch[w], e) \in Nat
        /\ SmallDeltas(batchBuf[w], e) \in Nat
        /\ SmallQueued(batchCh[w], e) \in Int
    BY SmallTypes
  <2>2. /\ SmallDeltas(shardBatch'[w], e) \in Nat
        /\ SmallQueued(batchCh'[w], e) \in Int
    <3>1. shardBatch'[w] \in Seq(Delta) /\ batchCh'[w] \in Seq(Seq(Delta))
      <4>1. << >> \in Seq(Delta)
        OBVIOUS
      <4>2. batchCh[w] # << >> => /\ Head(batchCh[w]) \in Seq(Delta)
                                  /\ Tail(batchCh[w]) \in Seq(Seq(Delta))
        BY <1>1, HeadTailProperties
      <4> QED
        BY <1>1, <4>1, <4>2
        DEF ShardStep, MergeBatch, Pipe!MergeBatch, Pipe!ShardReceive,
            Pipe!RecycleBatch, Pipe!ShardExit
    <3> QED
      BY <3>1, SmallDeltasType, SmallQueuedSum
  <2>3. SmallAllowed(w, e)' = SmallAllowed(w, e) /\ SmallAllowed(w, e) \in Int
    BY <1>2 DEF SmallAllowed
  <2>4. SmallOnTheWay(w, e)'
          = SmallDeltas(shardBatch'[w], e) + SmallDeltas(batchBuf[w], e)
              + SmallQueued(batchCh'[w], e)
    BY <1>3 DEF SmallOnTheWay
  <2> QED
    BY <2>1, <2>2, <2>3, <2>4 DEF SmallOnTheWay
<1>7. ASSUME NEW e \in Cell
      PROVE  SmallOnTheWay(w, e)' <= SmallAllowed(w, e)'
  BY <1>5, <1>6 DEF Reduced
<1> QED
  BY <1>2, <1>3, <1>4, <1>7 DEF Reduced, SmallUnchanged

(* A step that only moves the worker towards its Flush allows no less.     *)
LEMMA MovingOnReduced ==
  ASSUME SysInv, NEW w \in Worker, Reduced(w),
         UNCHANGED <<local, batchBuf, batchCh, shardBatch>>,
         \A v \in Worker \ {w} : pc'[v] = pc[v],
         pc'[w] \in {"range", "rows"} => pc[w] \in {"range", "rows"}
  PROVE  Reduced(w)' /\ \A v \in Worker \ {w} : SmallUnchanged(v)
<1>1. ASSUME NEW e \in Cell
      PROVE  SmallOnTheWay(w, e)' <= SmallAllowed(w, e)'
  <2>1. /\ SmallDeltas(shardBatch[w], e) \in Nat
        /\ SmallDeltas(batchBuf[w], e) \in Nat
        /\ SmallQueued(batchCh[w], e) \in Int
    BY SmallTypes
  <2>2. SmallOnTheWay(w, e)' = SmallOnTheWay(w, e)
    BY DEF SmallOnTheWay
  <2>3. SmallOnTheWay(w, e) \in Int
    BY <2>1 DEF SmallOnTheWay
  <2>4. SmallAllowed(w, e) <= SmallAllowed(w, e)'
    <3>1. CASE pc'[w] \in {"range", "rows"} \/ local[w][e] # 0
      <4>1. SmallAllowed(w, e) = 0 /\ SmallAllowed(w, e)' = 0
        BY <3>1 DEF SmallAllowed
      <4> QED
        BY <4>1
    <3>2. CASE ~ (pc'[w] \in {"range", "rows"} \/ local[w][e] # 0)
      <4>1. SmallAllowed(w, e) \in {0, 1} /\ SmallAllowed(w, e)' = 1
        BY <3>2 DEF SmallAllowed
      <4> QED
        BY <4>1
    <3> QED
      BY <3>1, <3>2
  <2>5. SmallAllowed(w, e) \in Int /\ SmallAllowed(w, e)' \in Int
    BY DEF SmallAllowed
  <2>6. SmallOnTheWay(w, e) <= SmallAllowed(w, e)
    BY DEF Reduced
  <2> QED
    BY <2>2, <2>3, <2>4, <2>5, <2>6
<1> QED
  BY <1>1 DEF Reduced, SmallUnchanged

(* Every step keeps the count of small deltas within what is allowed.      *)
LEMMA ReducedStep ==
  ASSUME SysInv, CommunicationReduced, [Next]_vars
  PROVE  CommunicationReduced'
<1>0. \A w \in Worker : Reduced(w)
  BY ReducedEverywhere
<1>1. ASSUME NEW w \in Worker, Reduced(w)',
             \A v \in Worker \ {w} : SmallUnchanged(v)
      PROVE  CommunicationReduced'
  <2>1. \A v \in Worker \ {w} : Reduced(v)'
    BY <1>0, <1>1, ReducedOthers
  <2>2. \A v \in Worker : Reduced(v)'
    BY <1>1, <2>1
  <2> QED
    BY <2>2
    DEF CommunicationReduced, Reduced, SmallOnTheWay, SmallAllowed, SmallQueued
<1>2. ASSUME NEW w \in Worker,
             \/ \E k \in Key : Send(w, k)
             \/ CloseInput(w) \/ Receive(w) \/ InputEnds(w) \/ FlushRest(w)
             \/ CloseBatchCh(w) \/ CloseDoneCh(w)
      PROVE  Reduced(w)' /\ \A v \in Worker \ {w} : SmallUnchanged(v)
  <2>1. UNCHANGED <<local, batchBuf, batchCh, shardBatch>>
    BY <1>2
    DEF Send, CloseInput, Receive, InputEnds, FlushRest, CloseBatchCh,
        CloseDoneCh, Pipe!BeginFlushBatch, Pipe!CloseBatchCh, pipeVars,
        workerVars
  <2>2. pc \in [Worker -> {"range", "rows", "flush", "close", "closed",
                           "done"}]
    BY DEF SysInv, TypeOK
  <2>3. /\ \A v \in Worker \ {w} : pc'[v] = pc[v]
        /\ pc'[w] \in {"range", "rows"} => pc[w] \in {"range", "rows"}
    BY <1>2, <2>2
    DEF Send, CloseInput, Receive, InputEnds, FlushRest, CloseBatchCh,
        CloseDoneCh, workerVars
  <2> QED
    BY <1>0, <2>1, <2>3, MovingOnReduced
<1>3. ASSUME \/ AdjustTau \/ MergeShard \/ AggregatorExit \/ Terminated
             \/ UNCHANGED vars
      PROVE  CommunicationReduced'
  <2>1. UNCHANGED <<local, pc, batchBuf, batchCh, shardBatch>>
    BY <1>3
    DEF AdjustTau, MergeShard, AggregatorExit, Terminated, vars, pipeVars,
        workerVars
  <2>2. \A v \in Worker : Reduced(v)'
    BY <1>0, <2>1, ReducedOthers DEF SmallUnchanged
  <2> QED
    BY <2>2
    DEF CommunicationReduced, Reduced, SmallOnTheWay, SmallAllowed, SmallQueued
<1> QED
  BY <1>0, <1>1, <1>2, <1>3, ProcessRowReduced, FlushCellReduced,
     HandOverReduced, ShardStepReduced
  DEF Next, WorkerStep

(* Guarantee 2, communication reduction: whatever the threshold does and   *)
(* whatever the stream is, a delta below TauMin is on its way to a shard   *)
(* only after Flush began, and then one at most for a cell.                *)
THEOREM CommunicationIsReduced == Spec => []CommunicationReduced
<1>1. Init => CommunicationReduced
  <2> SUFFICES ASSUME Init, NEW w \in Worker, NEW c \in Cell
               PROVE  SmallOnTheWay(w, c) <= SmallAllowed(w, c)
    BY ReducedEverywhere DEF Reduced
  <2>1. /\ batchBuf[w] = << >> /\ batchCh[w] = << >> /\ shardBatch[w] = << >>
        /\ pc[w] = "range"
    BY DEF Init, Pipe!Init, Pipe!Worker, Worker
  <2>2. SmallQueued(<< >>, c) = 0
    BY PrefixSumZero DEF SmallQueued
  <2>3. SmallOnTheWay(w, c) = 0 + 0 + 0
    BY <2>1, <2>2, SmallDeltasEmpty DEF SmallOnTheWay
  <2>4. SmallAllowed(w, c) = 0
    BY <2>1 DEF SmallAllowed
  <2> QED
    BY <2>3, <2>4
<1>2. SysInv /\ CommunicationReduced /\ [Next]_vars => CommunicationReduced'
  BY ReducedStep
<1> QED
  BY <1>1, <1>2, SysInvariant, PTL DEF Spec
=============================================================================
