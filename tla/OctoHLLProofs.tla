---------------------------- MODULE OctoHLLProofs ----------------------------
(***************************************************************************)
(* Proofs about an OctoSketch system over HyperLogLog, for any number of   *)
(* workers and registers, any capacities and any behaviour of the adaptive *)
(* threshold.                                                              *)
(***************************************************************************)
EXTENDS OctoHLL, SumsProofs, SequenceTheorems, FiniteSetTheorems, TLAPS

Proofs == INSTANCE DeltaPipeProofs

-----------------------------------------------------------------------------
(* The greatest value of a set of naturals *)

(* An upper bound that is attained is the greatest value.                  *)
LEMMA GreatestIs ==
  ASSUME NEW S \in SUBSET Nat, NEW n \in S \union {0}, \A m \in S : m <= n
  PROVE  Greatest(S) = n
<1> DEFINE g == Greatest(S)
<1>1. g \in S \union {0} /\ \A m \in S : m <= g
  BY DEF Greatest
<1> HIDE DEF g
<1>2. g \in Nat /\ n \in Nat
  BY <1>1
<1>3. g <= n
  BY <1>1, <1>2
<1>4. n <= g
  BY <1>1, <1>2
<1>5. g = n
  BY <1>2, <1>3, <1>4
<1> QED
  BY <1>5 DEF g

(* A bounded set has one.                                                  *)
LEMMA GreatestExists ==
  ASSUME NEW S \in SUBSET Nat, NEW b \in Nat, \A m \in S : m <= b
  PROVE  /\ Greatest(S) \in S \union {0}
         /\ Greatest(S) \in Nat
         /\ \A m \in S : m <= Greatest(S)
<1> DEFINE T == {u \in Nat : \A m \in S : m <= u}
<1>1. PICK u \in T : \A k \in T : u <= k
  <2>1. T \subseteq Nat /\ b \in T
    OBVIOUS
  <2> QED
    BY <2>1, LeastNatural
<1>2. u \in S \union {0}
  <2> SUFFICES ASSUME u # 0 PROVE u \in S
    OBVIOUS
  <2>1. u-1 \in Nat /\ u-1 \notin T
    BY <1>1
  <2>2. PICK m \in S : ~ (m <= u-1)
    BY <2>1
  <2>3. m <= u /\ m \in Nat
    BY <1>1
  <2>4. m = u
    BY <1>1, <2>2, <2>3
  <2> QED
    BY <2>4
<1>3. \A m \in S : m <= u
  BY <1>1
<1>4. Greatest(S) = u
  BY <1>2, <1>3, GreatestIs
<1> QED
  BY <1>1, <1>2, <1>3, <1>4

(* The values a batch carries for a register.                              *)
LEMMA ValuesInType ==
  ASSUME NEW b \in Seq(Delta), NEW i
  PROVE  ValuesIn(b, i) \subseteq 1..MaxRank
<1>1. \A j \in 1..Len(b) : b[j] \in Delta
  BY ElementOfSeq
<1> QED
  BY <1>1 DEF ValuesIn, Delta

LEMMA ValuesInEmpty ==
  ASSUME NEW i
  PROVE  ValuesIn(<< >>, i) = {}
BY DEF ValuesIn

LEMMA ValuesInAppend ==
  ASSUME NEW b \in Seq(Delta), NEW d \in Delta, NEW i
  PROVE  ValuesIn(Append(b, d), i)
           = ValuesIn(b, i) \union (IF d.col = i THEN {d.value} ELSE {})
<1> DEFINE a == Append(b, d)
           n == Len(b)
<1>1. /\ n \in Nat /\ Len(a) = n + 1
      /\ \A j \in 1..n : a[j] = b[j]
      /\ a[n+1] = d
  BY LenProperties, AppendProperties
<1>2. \A j : j \in 1..n+1 <=> (j \in 1..n \/ j = n+1)
  BY <1>1
<1> HIDE DEF a, n
<1>3. ValuesIn(a, i) = {a[j].value : j \in {k \in 1..n+1 : a[k].col = i}}
  BY <1>1 DEF ValuesIn
<1>4. ValuesIn(b, i) = {b[j].value : j \in {k \in 1..n : b[k].col = i}}
  BY DEF ValuesIn, n
<1>5. ASSUME NEW v
      PROVE  v \in ValuesIn(a, i)
               <=> v \in ValuesIn(b, i) \/ (d.col = i /\ v = d.value)
  <2>1. v \in ValuesIn(a, i)
          <=> \E j \in 1..n+1 : a[j].col = i /\ v = a[j].value
    BY <1>3
  <2>2. v \in ValuesIn(b, i)
          <=> \E j \in 1..n : b[j].col = i /\ v = b[j].value
    BY <1>4
  <2> QED
    BY <1>1, <1>2, <2>1, <2>2
<1> QED
  BY <1>5 DEF a

(* The values on their way in batchCh.                                     *)
QueueValues(q, i) == UNION {ValuesIn(q[j], i) : j \in 1..Len(q)}

LEMMA QueueValuesType ==
  ASSUME NEW q \in Seq(Seq(Delta)), NEW i
  PROVE  QueueValues(q, i) \subseteq 1..MaxRank
<1>1. \A j \in 1..Len(q) : q[j] \in Seq(Delta)
  BY ElementOfSeq
<1> QED
  BY <1>1, ValuesInType DEF QueueValues

LEMMA QueueValuesEmpty ==
  ASSUME NEW i
  PROVE  QueueValues(<< >>, i) = {}
BY DEF QueueValues

LEMMA QueueValuesAppend ==
  ASSUME NEW q \in Seq(Seq(Delta)), NEW b \in Seq(Delta), NEW i
  PROVE  QueueValues(Append(q, b), i) = QueueValues(q, i) \union ValuesIn(b, i)
<1> DEFINE a == Append(q, b)
           n == Len(q)
<1>1. /\ n \in Nat /\ Len(a) = n + 1
      /\ \A j \in 1..n : a[j] = q[j]
      /\ a[n+1] = b
  BY LenProperties, AppendProperties
<1>2. \A j : j \in 1..n+1 <=> (j \in 1..n \/ j = n+1)
  BY <1>1
<1> HIDE DEF a, n
<1>3. ASSUME NEW v
      PROVE  v \in QueueValues(a, i)
               <=> v \in QueueValues(q, i) \/ v \in ValuesIn(b, i)
  <2>1. v \in QueueValues(a, i) <=> \E j \in 1..n+1 : v \in ValuesIn(a[j], i)
    BY <1>1 DEF QueueValues
  <2>2. v \in QueueValues(q, i) <=> \E j \in 1..n : v \in ValuesIn(q[j], i)
    BY DEF QueueValues, n
  <2> QED
    BY <1>1, <1>2, <2>1, <2>2
<1> QED
  BY <1>3 DEF a

LEMMA QueueValuesTail ==
  ASSUME NEW q \in Seq(Seq(Delta)), q # << >>, NEW i
  PROVE  QueueValues(q, i) = ValuesIn(Head(q), i) \union QueueValues(Tail(q), i)
<1> DEFINE n == Len(Tail(q))
<1>1. /\ n \in Nat /\ Len(q) = n + 1
      /\ Head(q) = q[1]
      /\ \A j \in 1..n : Tail(q)[j] = q[j+1]
  BY LenProperties, HeadTailProperties, EmptySeq
<1>3. ASSUME NEW v
      PROVE  v \in QueueValues(q, i)
               <=> v \in ValuesIn(Head(q), i) \/ v \in QueueValues(Tail(q), i)
  <2>1. v \in QueueValues(q, i) <=> \E j \in 1..n+1 : v \in ValuesIn(q[j], i)
    BY <1>1 DEF QueueValues
  <2>2. v \in QueueValues(Tail(q), i)
          <=> \E j \in 1..n : v \in ValuesIn(Tail(q)[j], i)
    BY DEF QueueValues
  <2>3. (\E j \in 1..n : v \in ValuesIn(q[j+1], i))
          <=> \E j \in 2..n+1 : v \in ValuesIn(q[j], i)
    <3>1. ASSUME NEW j \in 1..n, v \in ValuesIn(q[j+1], i)
          PROVE  \E k \in 2..n+1 : v \in ValuesIn(q[k], i)
      BY <1>1, <3>1
    <3>2. ASSUME NEW k \in 2..n+1, v \in ValuesIn(q[k], i)
          PROVE  \E j \in 1..n : v \in ValuesIn(q[j+1], i)
      <4>1. k-1 \in 1..n /\ (k-1)+1 = k
        BY <1>1
      <4> QED
        BY <3>2, <4>1
    <3> QED
      BY <3>1, <3>2
  <2>4. (\E j \in 1..n+1 : v \in ValuesIn(q[j], i))
          <=> v \in ValuesIn(q[1], i) \/ \E j \in 2..n+1 : v \in ValuesIn(q[j], i)
    <3>1. \A j : j \in 1..n+1 <=> (j = 1 \/ j \in 2..n+1)
      BY <1>1
    <3> QED
      BY <3>1
  <2> HIDE DEF n
  <2> QED
    BY <1>1, <2>1, <2>2, <2>3, <2>4
<1> QED
  BY <1>3

-----------------------------------------------------------------------------
(* The workers use the transport as it is meant to be used *)

(* The transport is the one DeltaPipeProofs speaks of.                     *)
LEMMA SamePipe ==
  /\ Pipe!Init => Proofs!Init
  /\ [Pipe!Next]_pipeVars => [Proofs!Next]_Proofs!pipeVars
  /\ Proofs!TypeOK => Pipe!TypeOK
<1>1. Pipe!Init => Proofs!Init
  BY DEF Pipe!Init, Proofs!Init, Pipe!Worker, Proofs!Worker
<1>2. [Pipe!Next]_pipeVars => [Proofs!Next]_Proofs!pipeVars
  BY Zenon
  DEF pipeVars, Proofs!pipeVars, Pipe!pipeVars, Pipe!Worker, Proofs!Worker,
      Pipe!Next, Proofs!Next, Pipe!Emit, Proofs!Emit,
      Pipe!BeginFlushBatch, Proofs!BeginFlushBatch,
      Pipe!SendBatch, Proofs!SendBatch, Pipe!TakeBatch, Proofs!TakeBatch,
      Pipe!CloseBatchCh, Proofs!CloseBatchCh,
      Pipe!ShardStep, Proofs!ShardStep,
      Pipe!ShardReceive, Proofs!ShardReceive,
      Pipe!MergeBatch, Proofs!MergeBatch,
      Pipe!RecycleBatch, Proofs!RecycleBatch,
      Pipe!ShardExit, Proofs!ShardExit, Pipe!Terminated, Proofs!Terminated
<1>3. Proofs!TypeOK => Pipe!TypeOK
  BY DEF Pipe!TypeOK, Proofs!TypeOK, Pipe!Worker, Proofs!Worker, Pipe!Batch,
         Proofs!Batch
<1> QED
  BY <1>1, <1>2, <1>3

(* A register that is marked or still to be sent has been raised.          *)
RaisedOf(w) == \A i \in pending[w] \union todo[w] : local[w][i] # 0

Raised == \A w \in Worker : RaisedOf(w)

SysInv == TypeOK /\ Raised /\ Proofs!PipeInv

(* The types of one worker's part of the state.                            *)
LEMMA WorkerTypes ==
  ASSUME TypeOK, NEW w \in Worker
  PROVE  /\ local[w] \in [Reg -> 0..MaxRank]
         /\ shard[w] \in [Reg -> 0..MaxRank]
         /\ pending[w] \subseteq Reg /\ todo[w] \subseteq Reg
         /\ pendingCount[w] \in Nat
         /\ changes[w] \in Nat /\ emitted[w] \in Nat
         /\ inputCh[w] \in Seq(Item)
         /\ batchBuf[w] \in Seq(Delta)
         /\ batchCh[w] \in Seq(Seq(Delta))
         /\ shardBatch[w] \in Seq(Delta)
<1>1. /\ batchBuf[w] \in Seq(Delta)
      /\ batchCh[w] \in Seq(Seq(Delta))
      /\ shardBatch[w] \in Seq(Delta)
  BY DEF TypeOK, Pipe!TypeOK, Pipe!Batch, Pipe!Worker, Worker
<1> QED
  BY <1>1 DEF TypeOK, Sketch

(* So the loops of ProcessInput and Flush send deltas.                     *)
LEMMA EmitFacts ==
  ASSUME TypeOK, Raised, NEW w \in Worker, NEW i \in todo[w]
  PROVE  /\ i \in Reg
         /\ local[w][i] \in 1..MaxRank
         /\ [col |-> i, value |-> local[w][i]] \in Delta
<1>1. i \in Reg /\ local[w][i] \in 0..MaxRank /\ local[w][i] # 0
  BY WorkerTypes DEF Raised, RaisedOf
<1>2. local[w][i] \in 1..MaxRank
  BY <1>1
<1> QED
  BY <1>1, <1>2 DEF Delta

(* Every step of the system is a step of the transport or leaves it alone. *)
LEMMA TransportStep ==
  TypeOK /\ Raised /\ [Next]_vars => [Pipe!Next]_pipeVars
<1> SUFFICES ASSUME TypeOK, Raised, [Next]_vars
             PROVE  [Pipe!Next]_pipeVars
  OBVIOUS
<1>0. Pipe!Worker = Worker
  BY DEF Pipe!Worker, Worker
<1>1. ASSUME NEW w \in Worker, EmitRegister(w)
      PROVE  [Pipe!Next]_pipeVars
  BY <1>0, <1>1, EmitFacts DEF EmitRegister, Pipe!Next, pipeVars
<1>2. ASSUME NEW w \in Worker, \/ FlushRest(w) \/ CloseBatchCh(w)
                               \/ HandOver(w) \/ ShardStep(w)
      PROVE  [Pipe!Next]_pipeVars
  BY <1>0, <1>2
  DEF FlushRest, CloseBatchCh, HandOver, ShardStep, MergeBatch, Pipe!Next,
      Pipe!ShardStep, pipeVars
<1>3. ASSUME UNCHANGED pipeVars
      PROVE  [Pipe!Next]_pipeVars
  BY <1>3
<1>4. ASSUME NEW w \in Worker,
             \/ \E x \in Item : Send(w, x)
             \/ CloseInput(w) \/ Receive(w) \/ EmitDone(w) \/ InputEnds(w)
             \/ CloseDoneCh(w)
      PROVE  UNCHANGED pipeVars
  BY <1>4 DEF Send, CloseInput, Receive, EmitDone, InputEnds, CloseDoneCh
<1>5. ASSUME AdjustTau \/ MergeShard \/ AggregatorExit \/ Terminated
      PROVE  UNCHANGED pipeVars
  BY <1>5 DEF AdjustTau, MergeShard, AggregatorExit, Terminated, vars
<1>6. ASSUME UNCHANGED vars
      PROVE  UNCHANGED pipeVars
  BY <1>6 DEF vars
<1> QED
  BY <1>1, <1>2, <1>3, <1>4, <1>5, <1>6 DEF Next, WorkerStep

-----------------------------------------------------------------------------
(* Types *)

(* The system starts well typed, with no register raised.                  *)
LEMMA SysInit == Init => SysInv
<1> SUFFICES ASSUME Init PROVE SysInv
  OBVIOUS
<1>1. Proofs!PipeInv
  <2>1. Proofs!PipeAssumption
    BY HLLAssumption DEF Proofs!PipeAssumption
  <2> QED
    BY <2>1, SamePipe, Proofs!PipeInit DEF Init
<1>2. Pipe!TypeOK
  BY <1>1, SamePipe DEF Proofs!PipeInv
<1>3. EmptySketch \in Sketch
  BY HLLAssumption DEF EmptySketch, Sketch
<1>4. TypeOK
  <2>1. /\ inputCh \in [Worker -> Seq(Item)]
        /\ sent \in 0..MaxItems /\ merged \in 0..NumWorkers
        /\ tau \in TauMin..TauMax
    BY HLLAssumption DEF Init
  <2>2. /\ inputClosed \in [Worker -> BOOLEAN] /\ aggDone \in BOOLEAN
    BY DEF Init
  <2>3. /\ local \in [Worker -> Sketch] /\ shard \in [Worker -> Sketch]
        /\ global \in Sketch
    BY <1>3 DEF Init
  <2>4. /\ pc \in [Worker -> {"range", "emit", "flush", "close", "closed",
                              "done"}]
        /\ pending \in [Worker -> SUBSET Reg]
        /\ pendingCount \in [Worker -> Nat]
        /\ todo \in [Worker -> SUBSET Reg]
        /\ changes \in [Worker -> Nat]
        /\ emitted \in [Worker -> Nat]
    BY DEF Init
  <2> QED
    BY <1>2, <2>1, <2>2, <2>3, <2>4 DEF TypeOK
<1>5. Raised
  BY DEF Init, Raised, RaisedOf
<1> QED
  BY <1>1, <1>4, <1>5 DEF SysInv

(* What raising a register does.                                           *)
LEMMA RaiseFacts ==
  ASSUME SysInv, NEW w \in Worker, NEW x \in Item, Raise(w, x)
  PROVE  /\ local' \in [Worker -> Sketch]
         /\ pending' \in [Worker -> SUBSET Reg]
         /\ pendingCount' \in [Worker -> Nat]
         /\ changes' \in [Worker -> Nat]
         /\ \A v \in Worker \ {w} :
              /\ local'[v] = local[v] /\ pending'[v] = pending[v]
              /\ pendingCount'[v] = pendingCount[v] /\ changes'[v] = changes[v]
         /\ \/ /\ local'[w] = local[w] /\ pending'[w] = pending[w]
               /\ pendingCount'[w] = pendingCount[w] /\ changes'[w] = changes[w]
            \/ /\ x.lz > local[w][x.index]
               /\ local'[w] = [local[w] EXCEPT ![x.index] = x.lz]
               /\ local'[w] # local[w]
               /\ pending'[w] = pending[w] \union {x.index}
               /\ pendingCount'[w] = pendingCount[w] + 1
               /\ changes'[w] = changes[w] + 1
<1>1. /\ local \in [Worker -> [Reg -> 0..MaxRank]]
      /\ pending \in [Worker -> SUBSET Reg]
      /\ pendingCount \in [Worker -> Nat]
      /\ changes \in [Worker -> Nat]
  BY DEF SysInv, TypeOK, Sketch
<1>2. x.index \in Reg /\ x.lz \in 1..MaxRank
  BY DEF Item
<1>3. CASE x.lz > local[w][x.index]
  <2>1. /\ local' = [local EXCEPT ![w][x.index] = x.lz]
        /\ pending' = [pending EXCEPT ![w] = @ \union {x.index}]
        /\ pendingCount' = [pendingCount EXCEPT ![w] = @ + 1]
        /\ changes' = [changes EXCEPT ![w] = @ + 1]
    BY <1>3 DEF Raise
  <2>2. x.lz \in 0..MaxRank
    BY <1>2
  <2>3. local'[w] = [local[w] EXCEPT ![x.index] = x.lz]
    BY <1>1, <2>1
  <2>4. local'[w][x.index] = x.lz /\ local[w][x.index] # x.lz
    BY <1>1, <1>2, <1>3, <2>3
  <2>5. local' \in [Worker -> Sketch]
    BY <1>1, <1>2, <2>1, <2>2 DEF Sketch
  <2>6. /\ pending' \in [Worker -> SUBSET Reg]
        /\ pendingCount' \in [Worker -> Nat]
        /\ changes' \in [Worker -> Nat]
    BY <1>1, <1>2, <2>1
  <2> QED
    BY <1>1, <1>3, <2>1, <2>3, <2>4, <2>5, <2>6
<1>4. CASE ~ (x.lz > local[w][x.index])
  BY <1>1, <1>4 DEF Raise, sketchVars, Sketch
<1> QED
  BY <1>3, <1>4

(* Receive reads an input and raises its register.                         *)
LEMMA ReceiveFacts ==
  ASSUME SysInv, NEW w \in Worker, Receive(w)
  PROVE  /\ Head(inputCh[w]) \in Item
         /\ inputCh' \in [Worker -> Seq(Item)]
         /\ \/ pc'[w] = "emit" /\ todo'[w] = pending'[w]
            \/ /\ pc'[w] = "range" /\ todo'[w] = todo[w]
               /\ ~ (local'[w] # local[w] /\ pendingCount'[w] >= tau)
         /\ \A v \in Worker \ {w} : pc'[v] = pc[v] /\ todo'[v] = todo[v]
         /\ pc' \in [Worker -> {"range", "emit", "flush", "close", "closed",
                                "done"}]
         /\ todo' \in [Worker -> SUBSET Reg]
<1>1. /\ inputCh \in [Worker -> Seq(Item)]
      /\ pc \in [Worker -> {"range", "emit", "flush", "close", "closed",
                            "done"}]
      /\ todo \in [Worker -> SUBSET Reg]
  BY DEF SysInv, TypeOK
<1>2. inputCh[w] # << >> /\ inputCh' = [inputCh EXCEPT ![w] = Tail(@)]
  BY DEF Receive
<1>3. Head(inputCh[w]) \in Item /\ Tail(inputCh[w]) \in Seq(Item)
  BY <1>1, <1>2, HeadTailProperties
<1>4. pending'[w] \in SUBSET Reg
  BY <1>3, RaiseFacts DEF Receive
<1>5. pc[w] = "range"
  BY DEF Receive
<1>6. CASE local'[w] # local[w] /\ pendingCount'[w] >= tau
  <2>1. /\ pc' = [pc EXCEPT ![w] = "emit"]
        /\ todo' = [todo EXCEPT ![w] = pending'[w]]
    BY <1>6 DEF Receive
  <2> QED
    BY <1>1, <1>2, <1>3, <1>4, <2>1
<1>7. CASE ~ (local'[w] # local[w] /\ pendingCount'[w] >= tau)
  <2>1. pc' = pc /\ todo' = todo
    BY <1>7 DEF Receive
  <2> QED
    BY <1>1, <1>2, <1>3, <1>5, <1>7, <2>1
<1> QED
  BY <1>6, <1>7

(* Every step keeps the types, and marks raised registers only.            *)
LEMMA SysStep == SysInv /\ [Next]_vars => SysInv'
<1> SUFFICES ASSUME SysInv, [Next]_vars
             PROVE  SysInv'
  OBVIOUS
<1> USE HLLAssumption
<1>0. TypeOK /\ Raised /\ Proofs!PipeInv
  BY DEF SysInv
<1>1. Proofs!PipeInv'
  <2>1. Proofs!PipeAssumption
    BY DEF Proofs!PipeAssumption
  <2> QED
    BY <1>0, <2>1, TransportStep, SamePipe, Proofs!PipeStep
<1>2. Pipe!TypeOK'
  BY <1>1, SamePipe, PTL DEF Proofs!PipeInv
<1>3. ASSUME NEW w \in Worker, NEW x \in Item, Send(w, x)
      PROVE  TypeOK' /\ Raised'
  BY <1>0, <1>2, <1>3
  DEF Send, TypeOK, Raised, RaisedOf, workerVars, sketchVars, aggVars
<1>4. ASSUME NEW w \in Worker, CloseInput(w)
      PROVE  TypeOK' /\ Raised'
  BY <1>0, <1>2, <1>4
  DEF CloseInput, TypeOK, Raised, RaisedOf, workerVars, sketchVars, aggVars
<1>5. ASSUME NEW w \in Worker, Receive(w)
      PROVE  TypeOK' /\ Raised'
  <2> DEFINE x == Head(inputCh[w])
  <2>1. x \in Item /\ Raise(w, x)
    BY <1>5, ReceiveFacts DEF Receive
  <2>2. /\ local' \in [Worker -> Sketch]
        /\ pending' \in [Worker -> SUBSET Reg]
        /\ pendingCount' \in [Worker -> Nat]
        /\ changes' \in [Worker -> Nat]
    BY <2>1, RaiseFacts
  <2>3. TypeOK'
    BY <1>0, <1>2, <1>5, <2>2, ReceiveFacts DEF Receive, TypeOK, aggVars
  <2>4. RaisedOf(w)'
    <3>1. /\ local[w] \in [Reg -> 0..MaxRank]
          /\ pending[w] \subseteq Reg /\ todo[w] \subseteq Reg
          /\ x.index \in Reg /\ x.lz \in 1..MaxRank
      BY <1>0, <2>1, WorkerTypes DEF Item
    <3>2. todo'[w] = pending'[w] \/ todo'[w] = todo[w]
      BY <1>5, ReceiveFacts
    <3>3. \/ local'[w] = local[w] /\ pending'[w] = pending[w]
          \/ /\ local'[w] = [local[w] EXCEPT ![x.index] = x.lz]
             /\ pending'[w] = pending[w] \union {x.index}
      BY <2>1, RaiseFacts
    <3> HIDE DEF x
    <3>4. ASSUME NEW i \in pending'[w] \union todo'[w]
          PROVE  local'[w][i] # 0
      <4>1. CASE local'[w] = local[w] /\ pending'[w] = pending[w]
        BY <1>0, <3>2, <4>1 DEF Raised, RaisedOf
      <4>2. CASE /\ local'[w] = [local[w] EXCEPT ![x.index] = x.lz]
                 /\ pending'[w] = pending[w] \union {x.index}
        <5>1. i = x.index \/ i \in pending[w] \union todo[w]
          BY <3>2, <4>2
        <5>2. CASE i = x.index
          BY <3>1, <4>2, <5>2
        <5>3. CASE i \in pending[w] \union todo[w] /\ i # x.index
          <6>1. local[w][i] # 0 /\ i \in Reg
            BY <1>0, <3>1, <5>3 DEF Raised, RaisedOf
          <6> QED
            BY <3>1, <4>2, <5>3, <6>1
        <5> QED
          BY <5>1, <5>2, <5>3
      <4> QED
        BY <3>3, <4>1, <4>2
    <3> QED
      BY <3>4 DEF RaisedOf
  <2>5. \A v \in Worker \ {w} : RaisedOf(v)'
    <3>1. \A v \in Worker \ {w} :
            /\ local'[v] = local[v] /\ pending'[v] = pending[v]
            /\ todo'[v] = todo[v]
      BY <1>5, <2>1, RaiseFacts, ReceiveFacts
    <3> QED
      BY <1>0, <3>1 DEF Raised, RaisedOf
  <2> QED
    BY <2>3, <2>4, <2>5 DEF Raised
<1>6. ASSUME NEW w \in Worker, EmitRegister(w)
      PROVE  TypeOK' /\ Raised'
  <2>1. PICK i \in todo[w] :
          /\ todo' = [todo EXCEPT ![w] = @ \ {i}]
          /\ emitted' = [emitted EXCEPT ![w] =
                           IF pc[w] = "emit" THEN @ + 1 ELSE @]
    BY <1>6 DEF EmitRegister
  <2>2. todo' \in [Worker -> SUBSET Reg] /\ emitted' \in [Worker -> Nat]
    BY <1>0, <2>1 DEF TypeOK
  <2>3. \A v \in Worker : todo'[v] \subseteq todo[v]
    BY <1>0, <2>1 DEF TypeOK
  <2>4. UNCHANGED <<callerVars, pc, sketchVars, tau, shard, aggVars>>
    BY <1>6 DEF EmitRegister
  <2>5. TypeOK'
    BY <1>0, <1>2, <2>2, <2>4 DEF TypeOK, callerVars, sketchVars, aggVars
  <2>6. Raised'
    BY <1>0, <2>3, <2>4 DEF Raised, RaisedOf, sketchVars
  <2> QED
    BY <2>5, <2>6
<1>7. ASSUME NEW w \in Worker, EmitDone(w) \/ FlushRest(w)
      PROVE  TypeOK' /\ Raised'
  <2>1. /\ pending' = [pending EXCEPT ![w] = {}]
        /\ pendingCount' = [pendingCount EXCEPT ![w] = 0]
        /\ pc' = [pc EXCEPT ![w] = "range"] \/ pc' = [pc EXCEPT ![w] = "close"]
        /\ UNCHANGED <<callerVars, todo, emitted, tau, shard, aggVars, local,
                       changes>>
    BY <1>7 DEF EmitDone, FlushRest, ClearPending
  <2>2. /\ pending' \in [Worker -> SUBSET Reg]
        /\ pendingCount' \in [Worker -> Nat]
        /\ pc' \in [Worker -> {"range", "emit", "flush", "close", "closed",
                               "done"}]
        /\ \A v \in Worker : pending'[v] \subseteq pending[v]
    BY <1>0, <2>1 DEF TypeOK
  <2>3. TypeOK'
    BY <1>0, <1>2, <2>1, <2>2 DEF TypeOK, callerVars, aggVars
  <2>4. Raised'
    BY <1>0, <2>1, <2>2 DEF Raised, RaisedOf
  <2> QED
    BY <2>3, <2>4
<1>8. ASSUME NEW w \in Worker, InputEnds(w)
      PROVE  TypeOK' /\ Raised'
  <2>1. /\ pc' = [pc EXCEPT ![w] = "flush"]
        /\ todo' = [todo EXCEPT ![w] = {i \in Reg : local[w][i] > 0}]
        /\ UNCHANGED <<callerVars, sketchVars, emitted, tau, shard, aggVars>>
    BY <1>8 DEF InputEnds
  <2>2. /\ todo' \in [Worker -> SUBSET Reg]
        /\ pc' \in [Worker -> {"range", "emit", "flush", "close", "closed",
                               "done"}]
    BY <1>0, <2>1 DEF TypeOK
  <2>3. TypeOK'
    BY <1>0, <1>2, <2>1, <2>2 DEF TypeOK, callerVars, sketchVars, aggVars
  <2>4. todo'[w] = {i \in Reg : local[w][i] > 0}
        /\ \A v \in Worker \ {w} : todo'[v] = todo[v]
    BY <1>0, <2>1 DEF TypeOK
  <2>5. ASSUME NEW v \in Worker, NEW i \in pending'[v] \union todo'[v]
        PROVE  local'[v][i] # 0
    <3>1. local'[v][i] = local[v][i] /\ pending'[v] = pending[v]
      BY <2>1 DEF sketchVars
    <3>2. CASE i \in pending[v] \union todo[v]
      BY <1>0, <3>1, <3>2 DEF Raised, RaisedOf
    <3>3. CASE i \notin pending[v] \union todo[v]
      <4>1. v = w /\ i \in Reg /\ local[w][i] > 0
        BY <2>4, <3>1, <3>3
      <4> QED
        BY <3>1, <4>1
    <3> QED
      BY <3>2, <3>3
  <2> QED
    BY <2>3, <2>5 DEF Raised, RaisedOf
<1>9. ASSUME NEW w \in Worker, CloseBatchCh(w) \/ CloseDoneCh(w)
      PROVE  TypeOK' /\ Raised'
  BY <1>0, <1>2, <1>9
  DEF CloseBatchCh, CloseDoneCh, TypeOK, Raised, RaisedOf, callerVars,
      sketchVars, aggVars
<1>10. ASSUME NEW w \in Worker, MergeBatch(w)
       PROVE  TypeOK' /\ Raised'
  <2>1. shardBatch[w] \in Seq(Delta) /\ shard \in [Worker -> Sketch]
    BY <1>0, WorkerTypes DEF TypeOK
  <2>2. ASSUME NEW i \in Reg
        PROVE  Greater(shard[w][i], Greatest(ValuesIn(shardBatch[w], i)))
                 \in 0..MaxRank
    <3> DEFINE S == ValuesIn(shardBatch[w], i)
    <3>1. S \subseteq 1..MaxRank
      BY <2>1, ValuesInType
    <3>2. S \in SUBSET Nat /\ (\A m \in S : m <= MaxRank) /\ MaxRank \in Nat
      BY <3>1
    <3>3. Greatest(S) \in S \union {0}
      <4> HIDE DEF S
      <4> QED BY <3>2, GreatestExists
    <3>4. Greatest(S) \in 0..MaxRank
      BY <3>1, <3>3
    <3>5. shard[w][i] \in 0..MaxRank
      BY <2>1 DEF Sketch
    <3> HIDE DEF S
    <3> QED
      BY <3>4, <3>5 DEF Greater, S
  <2>3. shard' \in [Worker -> Sketch]
    BY <1>10, <2>1, <2>2 DEF MergeBatch, Sketch
  <2> QED
    BY <1>0, <1>2, <1>10, <2>3
    DEF MergeBatch, TypeOK, Raised, RaisedOf, callerVars, workerVars,
        sketchVars, aggVars
<1>11. ASSUME UNCHANGED <<callerVars, workerVars, tau, shard, aggVars>>
       PROVE  TypeOK' /\ Raised'
  BY <1>0, <1>2, <1>11
  DEF TypeOK, Raised, RaisedOf, callerVars, workerVars, sketchVars, aggVars
<1>12. ASSUME AdjustTau
       PROVE  TypeOK' /\ Raised'
  BY <1>0, <1>2, <1>12
  DEF AdjustTau, TypeOK, Raised, RaisedOf, callerVars, workerVars, sketchVars,
      aggVars
<1>13. ASSUME MergeShard
       PROVE  TypeOK' /\ Raised'
  <2>1. merged + 1 \in Worker /\ merged + 1 \in 0..NumWorkers
    BY <1>0, <1>13 DEF MergeShard, TypeOK, Worker
  <2>2. global' \in Sketch
    BY <1>0, <1>13, <2>1 DEF MergeShard, TypeOK, Sketch, Greater
  <2> QED
    BY <1>0, <1>2, <1>13, <2>1, <2>2
    DEF MergeShard, TypeOK, Raised, RaisedOf, callerVars, workerVars,
        sketchVars
<1>14. ASSUME AggregatorExit
       PROVE  TypeOK' /\ Raised'
  BY <1>0, <1>2, <1>14
  DEF AggregatorExit, TypeOK, Raised, RaisedOf, callerVars, workerVars,
      sketchVars
<1> QED
  BY <1>0, <1>1, <1>3, <1>4, <1>5, <1>6, <1>7, <1>8, <1>9, <1>10, <1>11,
     <1>12, <1>13, <1>14
  DEF SysInv, Next, WorkerStep, ShardStep, HandOver, Terminated, vars

(* Together.                                                               *)
LEMMA SysInvariant == Spec => []SysInv
<1>1. Init => SysInv
  BY SysInit
<1>2. SysInv /\ [Next]_vars => SysInv'
  BY SysStep
<1> QED
  BY <1>1, <1>2, PTL DEF Spec

(* All variables always have their types.                                  *)
THEOREM TypeCorrect == Spec => []TypeOK
<1>1. SysInv => TypeOK
  BY DEF SysInv
<1> QED
  BY <1>1, SysInvariant, PTL

-----------------------------------------------------------------------------
(* Marks and deltas, counted *)

(* Marks never outnumber changes, fewer than tau are held back between two *)
(* inputs, and the deltas sent and still to be sent are paid for.          *)
CountOf(w) ==
  /\ Cardinality(pending[w]) <= pendingCount[w]
  /\ pc[w] = "range" => pendingCount[w] < TauMax
  /\ pc[w] = "emit" => todo[w] \subseteq pending[w]
  /\ emitted[w] + Cardinality(IF pc[w] = "emit" THEN todo[w] ELSE pending[w])
       <= changes[w]

CountInv == \A w \in Worker : CountOf(w)

(* Sets of registers can be counted.                                       *)
LEMMA RegisterSets ==
  ASSUME NEW S \in SUBSET Reg
  PROVE  IsFiniteSet(S) /\ Cardinality(S) \in Nat
<1>1. IsFiniteSet(Reg)
  <2>1. 1 \in Int /\ NumRegs \in Int
    BY HLLAssumption
  <2> QED
    BY <2>1, FS_Interval DEF Reg
<1>2. IsFiniteSet(S)
  BY <1>1, FS_Subset
<1> QED
  BY <1>2, FS_CardinalityType

(* What a step leaves alone stays counted.                                 *)
LEMMA CountFrame ==
  ASSUME NEW v \in Worker, CountOf(v),
         pending'[v] = pending[v], pendingCount'[v] = pendingCount[v],
         pc'[v] = pc[v], todo'[v] = todo[v], emitted'[v] = emitted[v],
         changes'[v] = changes[v]
  PROVE  CountOf(v)'
BY DEF CountOf

(* A change is one mark more at most, and one delta more to pay for.       *)
LEMMA ReceiveCount ==
  ASSUME SysInv, CountInv, NEW w \in Worker, Receive(w)
  PROVE  CountInv'
<1> DEFINE x == Head(inputCh[w])
<1>1. x \in Item /\ Raise(w, x) /\ pc[w] = "range" /\ emitted' = emitted
  BY ReceiveFacts DEF Receive
<1>2. /\ pending[w] \in SUBSET Reg /\ pendingCount[w] \in Nat
      /\ changes[w] \in Nat /\ emitted[w] \in Nat /\ x.index \in Reg
      /\ tau \in TauMin..TauMax /\ TauMin \in Nat /\ TauMax \in Nat
  BY <1>1, WorkerTypes, HLLAssumption DEF SysInv, TypeOK, Item
<1>3. ASSUME NEW v \in Worker \ {w}
      PROVE  CountOf(v)'
  <2>1. /\ pending'[v] = pending[v] /\ pendingCount'[v] = pendingCount[v]
        /\ changes'[v] = changes[v]
    <3> HIDE DEF x
    <3> QED
      BY <1>1, RaiseFacts
  <2>2. pc'[v] = pc[v] /\ todo'[v] = todo[v]
    BY ReceiveFacts
  <2> QED
    BY <1>1, <2>1, <2>2, CountFrame DEF CountInv
<1>4. /\ Cardinality(pending[w]) <= pendingCount[w]
      /\ pendingCount[w] < TauMax
      /\ emitted[w] + Cardinality(pending[w]) <= changes[w]
      /\ Cardinality(pending[w]) \in Nat
  BY <1>1, <1>2, RegisterSets DEF CountInv, CountOf
<1>5. \/ pc'[w] = "emit" /\ todo'[w] = pending'[w]
      \/ pc'[w] = "range" /\ ~ (local'[w] # local[w] /\ pendingCount'[w] >= tau)
  BY ReceiveFacts
<1> HIDE DEF x
<1>6. /\ Cardinality(pending'[w]) <= pendingCount'[w]
      /\ pc'[w] = "range" => pendingCount'[w] < TauMax
      /\ emitted'[w] + Cardinality(pending'[w]) <= changes'[w]
  <2>1. CASE /\ local'[w] = local[w] /\ pending'[w] = pending[w]
             /\ pendingCount'[w] = pendingCount[w] /\ changes'[w] = changes[w]
    BY <1>1, <1>4, <2>1
  <2>2. CASE /\ local'[w] # local[w]
             /\ pending'[w] = pending[w] \union {x.index}
             /\ pendingCount'[w] = pendingCount[w] + 1
             /\ changes'[w] = changes[w] + 1
    <3>1. Cardinality(pending[w] \union {x.index})
            <= Cardinality(pending[w]) + 1
      <4>1. IsFiniteSet(pending[w])
        BY <1>2, RegisterSets
      <4>2. Cardinality(pending[w] \union {x.index})
              = IF x.index \in pending[w] THEN Cardinality(pending[w])
                ELSE Cardinality(pending[w]) + 1
        BY <4>1, FS_AddElement
      <4> QED
        BY <1>4, <4>2
    <3>2. Cardinality(pending'[w]) \in Nat
      BY <1>2, <2>2, RegisterSets
    <3>3. pc'[w] = "range" => pendingCount'[w] < TauMax
      BY <1>2, <1>5, <2>2
    <3> QED
      BY <1>1, <1>2, <1>4, <2>2, <3>1, <3>2, <3>3
  <2> QED
    BY <1>1, <2>1, <2>2, RaiseFacts
<1>7. CountOf(w)'
  BY <1>5, <1>6 DEF CountOf
<1> QED
  BY <1>3, <1>7 DEF CountInv

(* A delta sent is one less to send.                                       *)
LEMMA EmitRegisterCount ==
  ASSUME SysInv, CountInv, NEW w \in Worker, EmitRegister(w)
  PROVE  CountInv'
<1>1. PICK i \in todo[w] :
        /\ todo' = [todo EXCEPT ![w] = @ \ {i}]
        /\ emitted' = [emitted EXCEPT ![w] = IF pc[w] = "emit" THEN @ + 1 ELSE @]
  BY DEF EmitRegister
<1>2. /\ todo \in [Worker -> SUBSET Reg] /\ emitted \in [Worker -> Nat]
      /\ todo[w] \in SUBSET Reg /\ emitted[w] \in Nat /\ changes[w] \in Nat
  BY DEF SysInv, TypeOK
<1>3. /\ pc' = pc /\ pending' = pending /\ pendingCount' = pendingCount
      /\ changes' = changes /\ pc[w] \in {"emit", "flush"}
  BY DEF EmitRegister, sketchVars
<1>4. ASSUME NEW v \in Worker \ {w}
      PROVE  CountOf(v)'
  BY <1>1, <1>2, <1>3, CountFrame DEF CountInv
<1>5. CountOf(w)
  BY DEF CountInv
<1>6. CASE pc[w] = "emit"
  <2>1. todo'[w] = todo[w] \ {i} /\ emitted'[w] = emitted[w] + 1
    BY <1>1, <1>2, <1>6
  <2>2. /\ Cardinality(todo[w] \ {i}) = Cardinality(todo[w]) - 1
        /\ Cardinality(todo[w]) \in Nat
    BY <1>2, RegisterSets, FS_RemoveElement
  <2>3. emitted[w] + Cardinality(todo[w]) <= changes[w]
    BY <1>5, <1>6 DEF CountOf
  <2>4. emitted'[w] + Cardinality(todo'[w]) <= changes[w]
    BY <1>2, <2>1, <2>2, <2>3
  <2> QED
    BY <1>3, <1>4, <1>5, <1>6, <2>1, <2>4 DEF CountOf, CountInv
<1>7. CASE pc[w] = "flush"
  <2>1. emitted'[w] = emitted[w]
    BY <1>1, <1>2, <1>7
  <2> QED
    BY <1>3, <1>4, <1>5, <1>7, <2>1 DEF CountOf, CountInv
<1> QED
  BY <1>3, <1>6, <1>7

(* Clearing the marks leaves nothing to count.                             *)
LEMMA ClearCount ==
  ASSUME SysInv, CountInv, NEW w \in Worker, EmitDone(w) \/ FlushRest(w)
  PROVE  CountInv'
<1>1. /\ pending' = [pending EXCEPT ![w] = {}]
      /\ pendingCount' = [pendingCount EXCEPT ![w] = 0]
      /\ \/ pc[w] = "emit" /\ todo[w] = {} /\ pc' = [pc EXCEPT ![w] = "range"]
         \/ pc[w] = "flush" /\ pc' = [pc EXCEPT ![w] = "close"]
      /\ todo' = todo /\ emitted' = emitted /\ changes' = changes
  BY DEF EmitDone, FlushRest, ClearPending
<1>2. /\ pending \in [Worker -> SUBSET Reg]
      /\ pendingCount \in [Worker -> Nat]
      /\ pc \in [Worker -> {"range", "emit", "flush", "close", "closed",
                            "done"}]
      /\ pending[w] \in SUBSET Reg
      /\ changes[w] \in Nat /\ emitted[w] \in Nat
  BY DEF SysInv, TypeOK
<1>3. ASSUME NEW v \in Worker \ {w}
      PROVE  CountOf(v)'
  BY <1>1, <1>2, CountFrame DEF CountInv
<1>4. /\ pending'[w] = {} /\ pendingCount'[w] = 0
      /\ pc'[w] \in {"range", "close"}
  BY <1>1, <1>2
<1>5. Cardinality({}) = 0
  BY FS_EmptySet
<1>6. emitted[w] + 0 <= changes[w]
  <2>1. CASE pc[w] = "emit" /\ todo[w] = {}
    BY <1>5, <2>1 DEF CountInv, CountOf
  <2>2. CASE pc[w] = "flush"
    <3>1. emitted[w] + Cardinality(pending[w]) <= changes[w]
      BY <2>2 DEF CountInv, CountOf
    <3>2. Cardinality(pending[w]) \in Nat
      BY <1>2, RegisterSets
    <3> QED
      BY <1>2, <3>1, <3>2
  <2> QED
    BY <1>1, <2>1, <2>2
<1>7. CountOf(w)'
  BY <1>1, <1>4, <1>5, <1>6, HLLAssumption DEF CountOf
<1> QED
  BY <1>3, <1>7 DEF CountInv

(* Nobody else counts.                                                     *)
LEMMA CountStep ==
  ASSUME SysInv, CountInv, [Next]_vars
  PROVE  CountInv'
<1>1. ASSUME UNCHANGED <<pc, todo, emitted, sketchVars>>
      PROVE  CountInv'
  BY <1>1, CountFrame DEF CountInv, sketchVars
<1>2. ASSUME NEW w \in Worker,
             InputEnds(w) \/ CloseBatchCh(w) \/ CloseDoneCh(w)
      PROVE  CountInv'
  <2>1. /\ pc \in [Worker -> {"range", "emit", "flush", "close", "closed",
                              "done"}]
        /\ todo \in [Worker -> SUBSET Reg]
    BY DEF SysInv, TypeOK
  <2>2. /\ \A v \in Worker \ {w} : pc'[v] = pc[v] /\ todo'[v] = todo[v]
        /\ pc[w] \in {"range", "close", "closed"}
        /\ pc'[w] \in {"flush", "closed", "done"}
        /\ UNCHANGED <<emitted, sketchVars>>
    BY <1>2, <2>1 DEF InputEnds, CloseBatchCh, CloseDoneCh
  <2>3. ASSUME NEW v \in Worker \ {w} PROVE CountOf(v)'
    BY <2>2, CountFrame DEF CountInv, sketchVars
  <2>4. CountOf(w)'
    BY <2>2 DEF CountInv, CountOf, sketchVars
  <2> QED
    BY <2>3, <2>4 DEF CountInv
<1>3. ASSUME NEW w \in Worker,
             \/ \E x \in Item : Send(w, x)
             \/ CloseInput(w) \/ HandOver(w) \/ ShardStep(w)
      PROVE  UNCHANGED <<pc, todo, emitted, sketchVars>>
  BY <1>3 DEF Send, CloseInput, HandOver, ShardStep, MergeBatch, workerVars
<1>4. ASSUME \/ AdjustTau \/ MergeShard \/ AggregatorExit \/ Terminated
             \/ UNCHANGED vars
      PROVE  UNCHANGED <<pc, todo, emitted, sketchVars>>
  BY <1>4
  DEF AdjustTau, MergeShard, AggregatorExit, Terminated, vars, workerVars
<1> QED
  BY <1>1, <1>2, <1>3, <1>4, ReceiveCount, EmitRegisterCount, ClearCount
  DEF Next, WorkerStep

LEMMA CountInvariant == Spec => []CountInv
<1>1. Init => CountInv
  BY FS_EmptySet, HLLAssumption DEF Init, CountInv, CountOf
<1>2. SysInv /\ CountInv /\ [Next]_vars => CountInv'
  BY CountStep
<1> QED
  BY <1>1, <1>2, SysInvariant, PTL DEF Spec

(* Before Flush a change costs at most one delta, for every threshold and  *)
(* however it moves: a register is sent again only when it has grown.      *)
THEOREM ChangesPayForDeltas == Spec => []OneDeltaPerChange
<1>1. CountInv => OneDeltaPerChange
  BY DEF CountInv, CountOf, OneDeltaPerChange
<1> QED
  BY <1>1, CountInvariant, PTL

-----------------------------------------------------------------------------
(* Nothing is lost: what was sent, register by register *)

(* The values of register i that worker w has sent; Sent is their greatest.*)
AllSent(w, i) ==
  {shard[w][i]} \union ValuesIn(shardBatch[w], i)
    \union QueueValues(batchCh[w], i) \union ValuesIn(batchBuf[w], i)

(* Register i is marked, and a loop over the marks has not reached it.     *)
Behind(w, i) ==
  i \in pending[w] /\ (pc[w] \in {"emit", "flush"} => i \in todo[w])

(* Nothing too great has been sent, and what was not sent is still marked. *)
(* Unlike NothingLost this looks into the loops: a mark is of no use once  *)
(* the loop is past its register.                                          *)
SentOf(w) ==
  \A i \in Reg : /\ \A v \in AllSent(w, i) : v <= local[w][i]
                 /\ Behind(w, i) \/ local[w][i] \in AllSent(w, i)

SentInv == \A w \in Worker : SentOf(w)

LEMMA AllSentType ==
  ASSUME TypeOK, NEW w \in Worker, NEW i \in Reg
  PROVE  AllSent(w, i) \subseteq 0..MaxRank /\ local[w][i] \in 0..MaxRank
<1>1. /\ shard[w][i] \in 0..MaxRank /\ local[w][i] \in 0..MaxRank
      /\ batchBuf[w] \in Seq(Delta) /\ shardBatch[w] \in Seq(Delta)
      /\ batchCh[w] \in Seq(Seq(Delta))
  BY WorkerTypes
<1>2. /\ ValuesIn(shardBatch[w], i) \subseteq 1..MaxRank
      /\ ValuesIn(batchBuf[w], i) \subseteq 1..MaxRank
      /\ QueueValues(batchCh[w], i) \subseteq 1..MaxRank
  BY <1>1, ValuesInType, QueueValuesType
<1> QED
  BY <1>1, <1>2 DEF AllSent

(* A step that leaves a worker's registers, marks and batches alone ...    *)
PipeSame(v) ==
  /\ batchBuf'[v] = batchBuf[v] /\ batchCh'[v] = batchCh[v]
  /\ shardBatch'[v] = shardBatch[v] /\ shard'[v] = shard[v]

LEMMA AllSentFrame ==
  ASSUME NEW v \in Worker, PipeSame(v), NEW i \in Reg
  PROVE  AllSent(v, i)' = AllSent(v, i)
BY DEF PipeSame, AllSent

LEMMA SentFrame ==
  ASSUME NEW v \in Worker, SentOf(v), PipeSame(v),
         local'[v] = local[v], pending'[v] = pending[v], todo'[v] = todo[v],
         pc'[v] = pc[v]
  PROVE  SentOf(v)'
<1>1. \A i \in Reg : Behind(v, i)' <=> Behind(v, i)
  BY DEF Behind
<1> QED
  BY <1>1, AllSentFrame DEF SentOf

(* A register that is raised is behind.                                    *)
LEMMA ReceiveSent ==
  ASSUME SysInv, SentInv, NEW w \in Worker, Receive(w)
  PROVE  SentInv'
<1> DEFINE x == Head(inputCh[w])
<1>1. /\ x \in Item /\ Raise(w, x) /\ pc[w] = "range"
      /\ \A v \in Worker : PipeSame(v)
  BY ReceiveFacts DEF Receive, PipeSame, pipeVars
<1>2. ASSUME NEW v \in Worker \ {w}
      PROVE  SentOf(v)'
  <2>1. local'[v] = local[v] /\ pending'[v] = pending[v]
    <3> HIDE DEF x
    <3> QED
      BY <1>1, RaiseFacts
  <2>2. pc'[v] = pc[v] /\ todo'[v] = todo[v]
    BY ReceiveFacts
  <2> QED
    BY <1>1, <2>1, <2>2, SentFrame DEF SentInv
<1>3. \/ pc'[w] = "emit" /\ todo'[w] = pending'[w]
      \/ pc'[w] = "range"
  BY ReceiveFacts
<1>4. x.index \in Reg /\ x.lz \in 1..MaxRank
  BY <1>1 DEF Item
<1> HIDE DEF x
<1>5. \/ local'[w] = local[w] /\ pending'[w] = pending[w]
      \/ /\ x.lz > local[w][x.index]
         /\ local'[w] = [local[w] EXCEPT ![x.index] = x.lz]
         /\ pending'[w] = pending[w] \union {x.index}
  BY <1>1, RaiseFacts
<1>6. ASSUME NEW i \in Reg
      PROVE  /\ \A v \in AllSent(w, i)' : v <= local'[w][i]
             /\ Behind(w, i)' \/ local'[w][i] \in AllSent(w, i)'
  <2>1. /\ AllSent(w, i)' = AllSent(w, i)
        /\ AllSent(w, i) \subseteq 0..MaxRank /\ local[w][i] \in 0..MaxRank
        /\ local[w] \in [Reg -> 0..MaxRank]
    BY <1>1, AllSentFrame, AllSentType, WorkerTypes DEF SysInv
  <2>2. /\ \A v \in AllSent(w, i) : v <= local[w][i]
        /\ i \in pending[w] \/ local[w][i] \in AllSent(w, i)
    BY DEF SentInv, SentOf, Behind
  <2>3. Behind(w, i)' <=> i \in pending'[w]
    BY <1>3 DEF Behind
  <2>4. CASE local'[w] = local[w] /\ pending'[w] = pending[w]
    BY <2>1, <2>2, <2>3, <2>4
  <2>5. CASE /\ x.lz > local[w][x.index]
             /\ local'[w] = [local[w] EXCEPT ![x.index] = x.lz]
             /\ pending'[w] = pending[w] \union {x.index}
    <3>1. CASE i = x.index
      <4>1. local'[w][i] = x.lz /\ x.lz > local[w][i] /\ i \in pending'[w]
        BY <1>4, <2>1, <2>5, <3>1
      <4> QED
        BY <1>4, <2>1, <2>2, <2>3, <4>1
    <3>2. CASE i # x.index
      <4>1. local'[w][i] = local[w][i] /\ (i \in pending[w] => i \in pending'[w])
        BY <2>1, <2>5, <3>2
      <4> QED
        BY <2>1, <2>2, <2>3, <4>1
    <3> QED
      BY <3>1, <3>2
  <2> QED
    BY <1>5, <2>4, <2>5
<1>7. SentOf(w)'
  BY <1>6 DEF SentOf
<1> QED
  BY <1>2, <1>7 DEF SentInv

(* A loop that passes a register has sent its value.                       *)
LEMMA EmitRegisterSent ==
  ASSUME SysInv, SentInv, NEW w \in Worker, EmitRegister(w)
  PROVE  SentInv'
<1>1. PICK i \in todo[w] :
        /\ Pipe!Emit(w, [col |-> i, value |-> local[w][i]])
        /\ todo' = [todo EXCEPT ![w] = @ \ {i}]
  BY DEF EmitRegister
<1> DEFINE d == [col |-> i, value |-> local[w][i]]
<1>2. i \in Reg /\ d \in Delta
  BY EmitFacts DEF SysInv
<1>3. /\ todo \in [Worker -> SUBSET Reg]
      /\ batchBuf \in [Worker -> Seq(Delta)]
  BY DEF SysInv, TypeOK, Pipe!TypeOK, Pipe!Batch, Pipe!Worker, Worker
<1>4. /\ batchBuf' = [batchBuf EXCEPT ![w] = Append(batchBuf[w], d)]
      /\ batchCh' = batchCh /\ shardBatch' = shardBatch
  BY <1>1 DEF Pipe!Emit
<1>5. /\ shard' = shard /\ local' = local /\ pending' = pending /\ pc' = pc
      /\ pc[w] \in {"emit", "flush"}
  BY DEF EmitRegister, sketchVars
<1>6. ASSUME NEW v \in Worker \ {w}
      PROVE  SentOf(v)'
  BY <1>1, <1>3, <1>4, <1>5, SentFrame DEF SentInv, PipeSame
<1>7. d.col = i /\ d.value = local[w][i]
  OBVIOUS
<1> HIDE DEF d
<1>8. ASSUME NEW j \in Reg
      PROVE  /\ \A v \in AllSent(w, j)' : v <= local'[w][j]
             /\ Behind(w, j)' \/ local'[w][j] \in AllSent(w, j)'
  <2>1. batchBuf'[w] = Append(batchBuf[w], d) /\ batchBuf[w] \in Seq(Delta)
    BY <1>3, <1>4
  <2>2. ValuesIn(batchBuf'[w], j)
          = ValuesIn(batchBuf[w], j)
              \union (IF i = j THEN {local[w][i]} ELSE {})
    BY <1>2, <1>7, <2>1, ValuesInAppend
  <2>3. AllSent(w, j)'
          = AllSent(w, j) \union (IF i = j THEN {local[w][i]} ELSE {})
    BY <1>4, <1>5, <2>2 DEF AllSent
  <2>4. /\ \A v \in AllSent(w, j) : v <= local[w][j]
        /\ Behind(w, j) \/ local[w][j] \in AllSent(w, j)
    BY DEF SentInv, SentOf
  <2>5. local[w][j] \in 0..MaxRank
    BY AllSentType DEF SysInv
  <2>6. CASE i = j
    BY <1>5, <2>3, <2>4, <2>5, <2>6
  <2>7. CASE i # j
    <3>1. todo'[w] = todo[w] \ {i}
      BY <1>1, <1>3
    <3>2. Behind(w, j)' <=> Behind(w, j)
      BY <1>5, <2>7, <3>1 DEF Behind
    <3> QED
      BY <1>5, <2>3, <2>4, <2>7, <3>2
  <2> QED
    BY <2>6, <2>7
<1>9. SentOf(w)'
  BY <1>8 DEF SentOf
<1> QED
  BY <1>6, <1>9 DEF SentInv

(* When a loop is over nothing is behind, and the marks may go; when Flush *)
(* begins, what is marked is not zero and will be sent.                    *)
LEMMA LoopEndsSent ==
  ASSUME SysInv, SentInv, NEW w \in Worker,
         EmitDone(w) \/ FlushRest(w) \/ InputEnds(w)
  PROVE  SentInv'
<1>1. /\ pending \in [Worker -> SUBSET Reg]
      /\ todo \in [Worker -> SUBSET Reg]
      /\ pc \in [Worker -> {"range", "emit", "flush", "close", "closed",
                            "done"}]
  BY DEF SysInv, TypeOK
<1>2. local' = local /\ \A v \in Worker : PipeSame(v)
  BY DEF EmitDone, FlushRest, InputEnds, ClearPending, PipeSame, sketchVars,
         pipeVars, Pipe!BeginFlushBatch
<1>3. ASSUME NEW v \in Worker \ {w}
      PROVE  SentOf(v)'
  <2>1. pending'[v] = pending[v] /\ todo'[v] = todo[v] /\ pc'[v] = pc[v]
    BY <1>1 DEF EmitDone, FlushRest, InputEnds, ClearPending, sketchVars
  <2> QED
    BY <1>2, <2>1, SentFrame DEF SentInv
<1>4. ASSUME NEW i \in Reg
      PROVE  Behind(w, i) => Behind(w, i)'
  <2>1. CASE EmitDone(w) \/ FlushRest(w)
    BY <2>1 DEF EmitDone, FlushRest, Behind
  <2>2. CASE InputEnds(w)
    <3>1. /\ todo'[w] = {j \in Reg : local[w][j] > 0}
          /\ pending' = pending
      BY <1>1, <2>2 DEF InputEnds, sketchVars
    <3>2. i \in pending[w] => local[w][i] # 0 /\ local[w][i] \in 0..MaxRank
      BY AllSentType DEF SysInv, Raised, RaisedOf
    <3>3. i \in pending[w] => local[w][i] > 0
      BY <3>2
    <3> QED
      BY <3>1, <3>3 DEF Behind
  <2> QED
    BY <2>1, <2>2
<1>5. SentOf(w)'
  BY <1>2, <1>4, AllSentFrame DEF SentInv, SentOf
<1> QED
  BY <1>3, <1>5 DEF SentInv

(* A batch that is reused is empty.                                        *)
LEMMA ReusedBatchesAreEmpty ==
  ASSUME SysInv, NEW w \in Worker
  PROVE  /\ handoff[w] = "take" => batchBuf[w] = << >>
         /\ shardPc[w] # "merge" => shardBatch[w] = << >>
         /\ recycleCh[w] # << >> => Head(recycleCh[w]) = << >>
<1>1. Proofs!BatchesOf(w)
  BY DEF SysInv, Proofs!PipeInv, Proofs!BatchDiscipline, Proofs!Worker, Worker
<1>2. recycleCh[w] \in Seq({<< >>})
  BY <1>1 DEF Proofs!BatchesOf
<1>3. recycleCh[w] # << >> => Head(recycleCh[w]) \in {<< >>}
  BY <1>2, HeadTailProperties
<1> QED
  BY <1>1, <1>3 DEF Proofs!BatchesOf

(* flushBatch moves values along.                                          *)
LEMMA HandOverSent ==
  ASSUME SysInv, SentInv, NEW w \in Worker, HandOver(w)
  PROVE  SentInv'
<1>1. /\ batchBuf \in [Worker -> Seq(Delta)]
      /\ batchCh \in [Worker -> Seq(Seq(Delta))]
  BY DEF SysInv, TypeOK, Pipe!TypeOK, Pipe!Batch, Pipe!Worker, Worker
<1>2. /\ local' = local /\ shard' = shard /\ pending' = pending
      /\ todo' = todo /\ pc' = pc /\ shardBatch' = shardBatch
  BY DEF HandOver, workerVars, sketchVars, Pipe!SendBatch, Pipe!TakeBatch
<1>3. ASSUME NEW v \in Worker \ {w}
      PROVE  SentOf(v)'
  <2>1. batchBuf'[v] = batchBuf[v] /\ batchCh'[v] = batchCh[v]
    BY <1>1 DEF HandOver, Pipe!SendBatch, Pipe!TakeBatch
  <2> QED
    BY <1>2, <2>1, SentFrame DEF SentInv, PipeSame
<1>4. ASSUME NEW i \in Reg
      PROVE  AllSent(w, i)' = AllSent(w, i)
  <2>1. CASE Pipe!SendBatch(w)
    <3>1. /\ batchBuf'[w] = << >>
          /\ batchCh'[w] = Append(batchCh[w], batchBuf[w])
          /\ batchBuf[w] \in Seq(Delta) /\ batchCh[w] \in Seq(Seq(Delta))
      BY <1>1, <2>1 DEF Pipe!SendBatch
    <3>2. /\ ValuesIn(batchBuf'[w], i) = {}
          /\ QueueValues(batchCh'[w], i)
               = QueueValues(batchCh[w], i) \union ValuesIn(batchBuf[w], i)
      BY <3>1, ValuesInEmpty, QueueValuesAppend
    <3> QED
      BY <1>2, <3>2 DEF AllSent
  <2>2. CASE Pipe!TakeBatch(w)
    <3>1. batchBuf[w] = << >> /\ Head(recycleCh[w]) = << >>
      BY <2>2, ReusedBatchesAreEmpty DEF Pipe!TakeBatch
    <3>2. batchBuf'[w] = batchBuf[w] /\ batchCh' = batchCh
      BY <1>1, <2>2, <3>1 DEF Pipe!TakeBatch
    <3> QED
      BY <1>2, <3>2 DEF AllSent
  <2> QED
    BY <2>1, <2>2 DEF HandOver
<1>5. SentOf(w)'
  BY <1>2, <1>4 DEF SentInv, SentOf, Behind
<1> QED
  BY <1>3, <1>5 DEF SentInv

(* A shard that takes the maximum of a batch loses what is smaller only.   *)
LEMMA MergeBatchSent ==
  ASSUME SysInv, SentInv, NEW w \in Worker, MergeBatch(w), NEW i \in Reg
  PROVE  /\ \A v \in AllSent(w, i)' : v <= local[w][i]
         /\ local[w][i] \in AllSent(w, i) => local[w][i] \in AllSent(w, i)'
<1> DEFINE S == ValuesIn(shardBatch[w], i)
           g == Greatest(S)
           h == shard[w][i]
           l == local[w][i]
           rest == QueueValues(batchCh[w], i) \union ValuesIn(batchBuf[w], i)
<1>1. shardBatch[w] \in Seq(Delta) /\ shard \in [Worker -> [Reg -> 0..MaxRank]]
  BY WorkerTypes DEF SysInv, TypeOK, Sketch
<1>2. S \subseteq 1..MaxRank /\ h \in 0..MaxRank /\ l \in 0..MaxRank
  BY <1>1, ValuesInType, AllSentType DEF SysInv
<1>3. AllSent(w, i) = {h} \union S \union rest
  BY DEF AllSent
<1>4. AllSent(w, i)' = {Greater(h, g)} \union rest
  <2>1. /\ shardBatch'[w] = << >> /\ batchCh' = batchCh /\ batchBuf' = batchBuf
        /\ shard'[w][i] = Greater(h, g)
    BY <1>1 DEF MergeBatch, Pipe!MergeBatch, Pipe!TypeOK, SysInv, TypeOK,
                Pipe!Worker, Worker
  <2>2. ValuesIn(shardBatch'[w], i) = {}
    BY <2>1, ValuesInEmpty
  <2> HIDE DEF g, h
  <2> QED
    BY <2>1, <2>2 DEF AllSent
<1>5. /\ \A v \in AllSent(w, i) : v <= l
  BY DEF SentInv, SentOf
<1>6. /\ g \in S \union {0} /\ g \in Nat
      /\ \A m \in S : m <= g
  <2>1. S \in SUBSET Nat /\ (\A m \in S : m <= MaxRank) /\ MaxRank \in Nat
    BY <1>2, HLLAssumption
  <2> HIDE DEF S
  <2> QED
    BY <2>1, GreatestExists
<1> HIDE DEF S, g, h, l, rest
<1>7. g <= l /\ h <= l
  BY <1>2, <1>3, <1>5, <1>6
<1>8. Greater(h, g) <= l /\ (Greater(h, g) = h \/ Greater(h, g) = g)
  BY <1>7 DEF Greater
<1>9. \A v \in AllSent(w, i)' : v <= l
  BY <1>3, <1>4, <1>5, <1>8
<1>10. l \in AllSent(w, i) => l \in AllSent(w, i)'
  <2>1. CASE l \in rest
    BY <1>4, <2>1
  <2>2. CASE l \in {h} \union S
    <3>1. l <= h \/ l <= g
      BY <1>2, <1>6, <2>2
    <3>2. Greater(h, g) = l
      BY <1>2, <1>6, <1>7, <3>1 DEF Greater
    <3> QED
      BY <1>4, <3>2
  <2> QED
    BY <1>3, <2>1, <2>2
<1> QED
  BY <1>9, <1>10 DEF l

(* The shard takes a batch, applies it, and returns it empty.              *)
LEMMA ShardStepSent ==
  ASSUME SysInv, SentInv, NEW w \in Worker, ShardStep(w)
  PROVE  SentInv'
<1>1. /\ batchCh \in [Worker -> Seq(Seq(Delta))]
      /\ shardBatch \in [Worker -> Seq(Delta)]
      /\ shard \in [Worker -> Sketch]
  BY DEF SysInv, TypeOK, Pipe!TypeOK, Pipe!Batch, Pipe!Worker, Worker
<1>2. /\ local' = local /\ pending' = pending /\ todo' = todo /\ pc' = pc
  BY DEF ShardStep, MergeBatch, workerVars, sketchVars
<1>3. batchBuf' = batchBuf
  BY DEF ShardStep, MergeBatch, Pipe!MergeBatch, Pipe!ShardReceive,
         Pipe!RecycleBatch, Pipe!ShardExit
<1>4. ASSUME NEW v \in Worker \ {w}
      PROVE  SentOf(v)'
  <2>1. PipeSame(v)
    <3>1. CASE MergeBatch(w)
      BY <1>1, <1>3, <3>1 DEF MergeBatch, Pipe!MergeBatch, PipeSame
    <3>2. CASE /\ Pipe!ShardReceive(w) \/ Pipe!RecycleBatch(w)
                    \/ Pipe!ShardExit(w)
               /\ shard' = shard
      BY <1>1, <1>3, <3>2
      DEF Pipe!ShardReceive, Pipe!RecycleBatch, Pipe!ShardExit, PipeSame
    <3> QED
      BY <3>1, <3>2 DEF ShardStep
  <2> QED
    BY <1>2, <2>1, SentFrame DEF SentInv
<1>5. ASSUME NEW i \in Reg
      PROVE  /\ \A v \in AllSent(w, i)' : v <= local[w][i]
             /\ local[w][i] \in AllSent(w, i) => local[w][i] \in AllSent(w, i)'
  <2>1. CASE MergeBatch(w)
    BY <2>1, MergeBatchSent
  <2>2. CASE Pipe!ShardReceive(w) /\ shard' = shard
    <3>1. /\ shardBatch[w] = << >> /\ batchCh[w] # << >>
          /\ batchCh[w] \in Seq(Seq(Delta))
          /\ shardBatch'[w] = Head(batchCh[w])
          /\ batchCh'[w] = Tail(batchCh[w])
      BY <1>1, <2>2, ReusedBatchesAreEmpty DEF Pipe!ShardReceive
    <3>2. /\ ValuesIn(shardBatch[w], i) = {}
          /\ QueueValues(batchCh[w], i)
               = ValuesIn(shardBatch'[w], i) \union QueueValues(batchCh'[w], i)
      BY <3>1, ValuesInEmpty, QueueValuesTail
    <3>3. AllSent(w, i)' = AllSent(w, i)
      BY <1>3, <2>2, <3>2 DEF AllSent
    <3> QED
      BY <3>3 DEF SentInv, SentOf
  <2>3. CASE (Pipe!RecycleBatch(w) \/ Pipe!ShardExit(w)) /\ shard' = shard
    <3>1. shardPc[w] # "merge"
      BY <2>3 DEF Pipe!RecycleBatch, Pipe!ShardExit
    <3>2. shardBatch[w] = << >>
      BY <3>1, ReusedBatchesAreEmpty
    <3>3. shardBatch'[w] = shardBatch[w] /\ batchCh' = batchCh
      BY <1>1, <2>3, <3>2 DEF Pipe!RecycleBatch, Pipe!ShardExit
    <3>4. AllSent(w, i)' = AllSent(w, i)
      BY <1>3, <2>3, <3>3 DEF AllSent
    <3> QED
      BY <3>4 DEF SentInv, SentOf
  <2> QED
    BY <2>1, <2>2, <2>3 DEF ShardStep
<1>6. SentOf(w)'
  BY <1>2, <1>5 DEF SentInv, SentOf, Behind
<1> QED
  BY <1>4, <1>6 DEF SentInv

(* No other step sends or raises anything.                                 *)
LEMMA SentStep ==
  ASSUME SysInv, SentInv, [Next]_vars
  PROVE  SentInv'
<1>1. ASSUME UNCHANGED <<local, pending, todo, pc>>,
             UNCHANGED <<batchBuf, batchCh, shardBatch, shard>>
      PROVE  SentInv'
  BY <1>1, SentFrame DEF SentInv, PipeSame
<1>2. ASSUME NEW w \in Worker, CloseBatchCh(w) \/ CloseDoneCh(w)
      PROVE  SentInv'
  <2>1. /\ UNCHANGED <<local, pending, todo>>
        /\ UNCHANGED <<batchBuf, batchCh, shardBatch, shard>>
    BY <1>2 DEF CloseBatchCh, CloseDoneCh, sketchVars, pipeVars,
                Pipe!CloseBatchCh
  <2>2. pc \in [Worker -> {"range", "emit", "flush", "close", "closed",
                           "done"}]
    BY DEF SysInv, TypeOK
  <2>3. \A v \in Worker, i \in Reg : Behind(v, i)' <=> Behind(v, i)
    BY <1>2, <2>1, <2>2 DEF CloseBatchCh, CloseDoneCh, Behind
  <2>4. \A v \in Worker, i \in Reg : AllSent(v, i)' = AllSent(v, i)
    BY <2>1, AllSentFrame DEF PipeSame
  <2> QED
    BY <2>1, <2>3, <2>4 DEF SentInv, SentOf
<1>3. ASSUME NEW w \in Worker, (\E x \in Item : Send(w, x)) \/ CloseInput(w)
      PROVE  /\ UNCHANGED <<local, pending, todo, pc>>
             /\ UNCHANGED <<batchBuf, batchCh, shardBatch, shard>>
  BY <1>3 DEF Send, CloseInput, workerVars, sketchVars, pipeVars
<1>4. ASSUME \/ AdjustTau \/ MergeShard \/ AggregatorExit \/ Terminated
             \/ UNCHANGED vars
      PROVE  /\ UNCHANGED <<local, pending, todo, pc>>
             /\ UNCHANGED <<batchBuf, batchCh, shardBatch, shard>>
  BY <1>4
  DEF AdjustTau, MergeShard, AggregatorExit, Terminated, vars, workerVars,
      sketchVars, pipeVars
<1> QED
  BY <1>1, <1>2, <1>3, <1>4, ReceiveSent, EmitRegisterSent, LoopEndsSent,
     HandOverSent, ShardStepSent
  DEF Next, WorkerStep

LEMMA SentInvariant == Spec => []SentInv
<1>1. Init => SentInv
  <2> SUFFICES ASSUME Init, NEW w \in Worker, NEW i \in Reg
               PROVE  AllSent(w, i) = {0} /\ local[w][i] = 0
    BY DEF SentInv, SentOf
  <2>1. /\ batchBuf[w] = << >> /\ batchCh[w] = << >> /\ shardBatch[w] = << >>
        /\ shard[w][i] = 0 /\ local[w][i] = 0
    BY DEF Init, EmptySketch, Pipe!Init, Pipe!Worker, Worker
  <2>2. ValuesIn(<< >>, i) = {} /\ QueueValues(<< >>, i) = {}
    BY ValuesInEmpty, QueueValuesEmpty
  <2> QED
    BY <2>1, <2>2 DEF AllSent
<1>2. SysInv /\ SentInv /\ [Next]_vars => SentInv'
  BY SentStep
<1> QED
  BY <1>1, <1>2, SysInvariant, PTL DEF Spec

(* Whatever the threshold does, the greatest value a worker has sent for a *)
(* register is the one it holds, or the register is marked: clearPending   *)
(* never forgets a change.                                                 *)
THEOREM ChangesAreSent == Spec => []NothingLost
<1>1. ASSUME SysInv, SentInv, NEW w \in Worker, NEW i \in Reg
      PROVE  /\ Sent(w, i) <= local[w][i]
             /\ i \notin pending[w] => Sent(w, i) = local[w][i]
  <2> DEFINE S == AllSent(w, i)
             l == local[w][i]
  <2>1. Sent(w, i) = Greatest(S)
    BY DEF Sent, AllSent, QueueValues
  <2>2. S \subseteq 0..MaxRank /\ l \in 0..MaxRank
    BY <1>1, AllSentType DEF SysInv
  <2>3. (\A v \in S : v <= l) /\ (i \notin pending[w] => l \in S)
    BY <1>1 DEF SentInv, SentOf, Behind
  <2> HIDE DEF S, l
  <2>4. S \in SUBSET Nat /\ l \in Nat
    BY <2>2
  <2>5. Greatest(S) \in S \union {0}
    BY <2>3, <2>4, GreatestExists
  <2>6. Greatest(S) <= l
    <3>1. CASE Greatest(S) \in S
      BY <2>3, <3>1
    <3>2. CASE Greatest(S) = 0
      BY <2>4, <3>2
    <3> QED
      BY <2>5, <3>1, <3>2
  <2>7. ASSUME i \notin pending[w] PROVE Greatest(S) = l
    BY <2>3, <2>4, <2>7, GreatestIs
  <2> QED
    BY <2>1, <2>6, <2>7 DEF l
<1>2. SysInv /\ SentInv /\ CountInv => NothingLost
  BY <1>1 DEF NothingLost, CountInv, CountOf
<1> QED
  BY <1>2, SysInvariant, SentInvariant, CountInvariant, PTL

-----------------------------------------------------------------------------
(* The end of a run *)

(* How far a worker is with its shutdown.                                  *)
EndOf(w) ==
  /\ pc[w] \in {"flush", "close", "closed", "done"} =>
       inputClosed[w] /\ inputCh[w] = << >>
  /\ pc[w] \in {"close", "closed", "done"} =>
       /\ pending[w] = {}
       /\ handoff[w] = "none" => batchBuf[w] = << >>
  /\ batchClosed[w] <=> pc[w] \in {"closed", "done"}
  /\ batchClosed[w] => handoff[w] = "none"

(* What the aggregator has merged.                                         *)
MergedSoFar ==
  /\ merged > 0 \/ aggDone => \A w \in Worker : shardPc[w] = "done"
  /\ aggDone => merged = NumWorkers
  /\ \A i \in Reg :
       /\ \A w \in Worker : w <= merged => shard[w][i] <= global[i]
       /\ \/ global[i] = 0
          \/ \E w \in Worker : w <= merged /\ shard[w][i] = global[i]

EndInv == (\A w \in Worker : EndOf(w)) /\ MergedSoFar

(* A worker step concerns only that worker's shutdown.                     *)
LEMMA EndOthers ==
  ASSUME NEW w \in Worker, \A v \in Worker : EndOf(v), EndOf(w)',
         \A v \in Worker \ {w} :
           /\ pc'[v] = pc[v] /\ inputClosed'[v] = inputClosed[v]
           /\ inputCh'[v] = inputCh[v] /\ pending'[v] = pending[v]
           /\ handoff'[v] = handoff[v] /\ batchBuf'[v] = batchBuf[v]
           /\ batchClosed'[v] = batchClosed[v]
  PROVE  \A v \in Worker : EndOf(v)'
BY DEF EndOf

(* A worker shuts down in order.                                           *)
LEMMA EndOfStep ==
  ASSUME SysInv, \A v \in Worker : EndOf(v), [Next]_vars
  PROVE  \A v \in Worker : EndOf(v)'
<1>0. /\ pc \in [Worker -> {"range", "emit", "flush", "close", "closed",
                            "done"}]
      /\ inputClosed \in [Worker -> BOOLEAN]
      /\ inputCh \in [Worker -> Seq(Item)]
      /\ pending \in [Worker -> SUBSET Reg]
      /\ handoff \in [Worker -> {"none", "send", "take"}]
      /\ batchBuf \in [Worker -> Seq(Delta)]
      /\ batchClosed \in [Worker -> BOOLEAN]
  BY DEF SysInv, TypeOK, Pipe!TypeOK, Pipe!Batch, Pipe!Worker, Worker
<1>1. ASSUME NEW w \in Worker, NEW x \in Item, Send(w, x)
      PROVE  \A v \in Worker : EndOf(v)'
  BY <1>0, <1>1, EndOthers DEF Send, EndOf, pipeVars, workerVars, sketchVars
<1>2. ASSUME NEW w \in Worker, CloseInput(w)
      PROVE  \A v \in Worker : EndOf(v)'
  BY <1>0, <1>2, EndOthers
  DEF CloseInput, EndOf, pipeVars, workerVars, sketchVars
<1>3. ASSUME NEW w \in Worker, Receive(w)
      PROVE  \A v \in Worker : EndOf(v)'
  <2> DEFINE x == Head(inputCh[w])
  <2>1. /\ x \in Item /\ Raise(w, x) /\ pc[w] = "range"
        /\ pc'[w] \in {"emit", "range"}
        /\ inputClosed' = inputClosed /\ UNCHANGED pipeVars
        /\ \A v \in Worker \ {w} : inputCh'[v] = inputCh[v]
    BY <1>0, <1>3, ReceiveFacts DEF Receive
  <2>2. EndOf(w)'
    BY <2>1 DEF EndOf, pipeVars
  <2>3. \A v \in Worker \ {w} : pending'[v] = pending[v]
    <3> HIDE DEF x
    <3> QED
      BY <2>1, RaiseFacts
  <2>4. \A v \in Worker \ {w} : pc'[v] = pc[v]
    BY <1>3, ReceiveFacts
  <2> QED
    BY <2>1, <2>2, <2>3, <2>4, EndOthers DEF pipeVars
<1>4. ASSUME NEW w \in Worker, EmitRegister(w)
      PROVE  \A v \in Worker : EndOf(v)'
  <2>1. EndOf(w)'
    BY <1>0, <1>4 DEF EmitRegister, EndOf, sketchVars, callerVars, Pipe!Emit
  <2>2. \A v \in Worker \ {w} :
           /\ pc'[v] = pc[v] /\ inputClosed'[v] = inputClosed[v]
           /\ inputCh'[v] = inputCh[v] /\ pending'[v] = pending[v]
           /\ handoff'[v] = handoff[v] /\ batchBuf'[v] = batchBuf[v]
           /\ batchClosed'[v] = batchClosed[v]
    BY <1>0, <1>4 DEF EmitRegister, sketchVars, callerVars, Pipe!Emit
  <2> QED
    BY <2>1, <2>2, EndOthers
<1>5. ASSUME NEW w \in Worker, EmitDone(w)
      PROVE  \A v \in Worker : EndOf(v)'
  BY <1>0, <1>5, EndOthers
  DEF EmitDone, ClearPending, EndOf, pipeVars, callerVars
<1>6. ASSUME NEW w \in Worker, InputEnds(w)
      PROVE  \A v \in Worker : EndOf(v)'
  BY <1>0, <1>6, EndOthers
  DEF InputEnds, EndOf, pipeVars, callerVars, sketchVars
<1>7. ASSUME NEW w \in Worker, FlushRest(w)
      PROVE  \A v \in Worker : EndOf(v)'
  BY <1>0, <1>7, EndOthers
  DEF FlushRest, ClearPending, EndOf, callerVars, Pipe!BeginFlushBatch
<1>8. ASSUME NEW w \in Worker, CloseBatchCh(w)
      PROVE  \A v \in Worker : EndOf(v)'
  BY <1>0, <1>8, EndOthers
  DEF CloseBatchCh, EndOf, callerVars, sketchVars, Pipe!CloseBatchCh
<1>9. ASSUME NEW w \in Worker, CloseDoneCh(w)
      PROVE  \A v \in Worker : EndOf(v)'
  BY <1>0, <1>9, EndOthers
  DEF CloseDoneCh, EndOf, pipeVars, callerVars, sketchVars
<1>10. ASSUME NEW w \in Worker, HandOver(w)
       PROVE  \A v \in Worker : EndOf(v)'
  <2>1. Pipe!TakeBatch(w) => Head(recycleCh[w]) = << >>
    BY ReusedBatchesAreEmpty DEF Pipe!TakeBatch
  <2>2. EndOf(w)'
    BY <1>0, <1>10, <2>1
    DEF HandOver, EndOf, callerVars, workerVars, sketchVars, Pipe!SendBatch,
        Pipe!TakeBatch
  <2> QED
    BY <1>0, <1>10, <2>2, EndOthers
    DEF HandOver, callerVars, workerVars, sketchVars, Pipe!SendBatch,
        Pipe!TakeBatch
<1>11. ASSUME UNCHANGED <<pc, inputClosed, inputCh, pending, handoff,
                          batchBuf, batchClosed>>
       PROVE  \A v \in Worker : EndOf(v)'
  BY <1>11 DEF EndOf
<1>12. ASSUME NEW w \in Worker, ShardStep(w)
       PROVE  UNCHANGED <<pc, inputClosed, inputCh, pending, handoff,
                          batchBuf, batchClosed>>
  BY <1>12
  DEF ShardStep, MergeBatch, callerVars, workerVars, sketchVars,
      Pipe!MergeBatch, Pipe!ShardReceive, Pipe!RecycleBatch, Pipe!ShardExit
<1>13. ASSUME \/ AdjustTau \/ MergeShard \/ AggregatorExit \/ Terminated
              \/ UNCHANGED vars
       PROVE  UNCHANGED <<pc, inputClosed, inputCh, pending, handoff,
                          batchBuf, batchClosed>>
  BY <1>13
  DEF AdjustTau, MergeShard, AggregatorExit, Terminated, vars, pipeVars,
      callerVars, workerVars, sketchVars
<1> QED
  BY <1>1, <1>2, <1>3, <1>4, <1>5, <1>6, <1>7, <1>8, <1>9, <1>10, <1>11,
     <1>12, <1>13
  DEF Next, WorkerStep

(* The aggregator merges shards that no longer change.                     *)
LEMMA MergedStep ==
  ASSUME SysInv, MergedSoFar, [Next]_vars
  PROVE  MergedSoFar'
<1>0. merged \in 0..NumWorkers /\ NumWorkers \in Nat \ {0}
  BY HLLAssumption DEF SysInv, TypeOK
<1>1. ASSUME UNCHANGED <<shardPc, shard, aggVars>>
      PROVE  MergedSoFar'
  BY <1>1 DEF MergedSoFar, aggVars
<1>2. ASSUME NEW w \in Worker,
             \/ \E x \in Item : Send(w, x)
             \/ CloseInput(w) \/ WorkerStep(w)
      PROVE  UNCHANGED <<shardPc, shard, aggVars>>
  <2>1. \/ \E x \in Item : Send(w, x)
        \/ CloseInput(w) \/ Receive(w) \/ EmitDone(w) \/ InputEnds(w)
        \/ CloseDoneCh(w)
        => UNCHANGED <<shardPc, shard, aggVars>>
    BY DEF Send, CloseInput, Receive, EmitDone, InputEnds, CloseDoneCh,
           pipeVars
  <2>2. EmitRegister(w) => UNCHANGED <<shardPc, shard, aggVars>>
    BY DEF EmitRegister, Pipe!Emit
  <2>3. FlushRest(w) \/ CloseBatchCh(w) \/ HandOver(w)
        => UNCHANGED <<shardPc, shard, aggVars>>
    BY DEF FlushRest, CloseBatchCh, HandOver, Pipe!BeginFlushBatch,
           Pipe!CloseBatchCh, Pipe!SendBatch, Pipe!TakeBatch
  <2> QED
    BY <1>2, <2>1, <2>2, <2>3 DEF WorkerStep
<1>3. ASSUME AdjustTau \/ Terminated \/ UNCHANGED vars
      PROVE  UNCHANGED <<shardPc, shard, aggVars>>
  BY <1>3 DEF AdjustTau, Terminated, vars, pipeVars
<1>4. ASSUME NEW w \in Worker, ShardStep(w)
      PROVE  MergedSoFar'
  <2>1. shardPc[w] # "done" /\ UNCHANGED aggVars
    BY <1>4
    DEF ShardStep, MergeBatch, Pipe!MergeBatch, Pipe!ShardReceive,
        Pipe!RecycleBatch, Pipe!ShardExit
  <2>2. merged = 0 /\ ~ aggDone
    BY <1>0, <2>1 DEF MergedSoFar
  <2>3. \A v \in Worker : ~ (v <= merged)
    BY <2>2 DEF Worker
  <2>4. \A i \in Reg : global[i] = 0
    BY <2>3 DEF MergedSoFar
  <2> QED
    BY <2>1, <2>2, <2>3, <2>4 DEF MergedSoFar, aggVars
<1>5. ASSUME MergeShard
      PROVE  MergedSoFar'
  <2>1. /\ shardPc' = shardPc /\ shard' = shard /\ aggDone' = aggDone
        /\ merged < NumWorkers /\ merged' = merged + 1
        /\ \A w \in Worker : shardPc[w] = "done"
        /\ \A i \in Reg : global'[i] = Greater(global[i], shard[merged+1][i])
    BY <1>5 DEF MergeShard, pipeVars
  <2>2. ~ aggDone
    BY <1>0, <2>1 DEF MergedSoFar
  <2>3. ASSUME NEW i \in Reg
        PROVE  /\ \A w \in Worker : w <= merged' => shard'[w][i] <= global'[i]
               /\ \/ global'[i] = 0
                  \/ \E w \in Worker : w <= merged' /\ shard'[w][i] = global'[i]
    <3> DEFINE g == global[i]
               n == merged + 1
               s(w) == shard[w][i]
    <3>1. n \in Worker /\ \A w \in Worker : w <= n <=> (w <= merged \/ w = n)
      BY <1>0, <2>1 DEF Worker
    <3>2. g \in Nat /\ \A w \in Worker : s(w) \in Nat
      BY DEF SysInv, TypeOK, Sketch
    <3>3. /\ \A w \in Worker : w <= merged => s(w) <= g
          /\ g = 0 \/ \E w \in Worker : w <= merged /\ s(w) = g
      BY DEF MergedSoFar
    <3>4. global'[i] = Greater(g, s(n))
      BY <2>1
    <3>5. /\ g <= global'[i] /\ s(n) <= global'[i] /\ global'[i] \in Nat
          /\ global'[i] = g \/ global'[i] = s(n)
      <4> HIDE DEF g, n, s
      <4> QED
        BY <3>1, <3>2, <3>4 DEF Greater
    <3> HIDE DEF g, n
    <3>6. \A w \in Worker : w <= n => s(w) <= global'[i]
      <4> HIDE DEF s
      <4> QED
        BY <3>1, <3>2, <3>3, <3>5
    <3>7. global'[i] = 0 \/ \E w \in Worker : w <= n /\ s(w) = global'[i]
      <4> HIDE DEF s
      <4> QED
        BY <3>1, <3>3, <3>5
    <3> QED
      BY <2>1, <3>6, <3>7 DEF n
  <2> QED
    BY <2>1, <2>2, <2>3 DEF MergedSoFar
<1>6. ASSUME AggregatorExit
      PROVE  MergedSoFar'
  BY <1>0, <1>6 DEF AggregatorExit, MergedSoFar, pipeVars
<1> QED
  BY <1>1, <1>2, <1>3, <1>4, <1>5, <1>6 DEF Next

(* The end condition holds in every behaviour.                             *)
LEMMA EndInvariant == Spec => []EndInv
<1>1. Init => EndInv
  <2> SUFFICES ASSUME Init PROVE EndInv
    OBVIOUS
  <2>1. \A w \in Worker : EndOf(w)
    BY DEF Init, EndOf, Pipe!Init, Pipe!Worker, Worker
  <2>2. MergedSoFar
    BY DEF Init, MergedSoFar, EmptySketch, Worker
  <2> QED
    BY <2>1, <2>2 DEF EndInv
<1>2. SysInv /\ EndInv /\ [Next]_vars => EndInv'
  BY EndOfStep, MergedStep DEF EndInv
<1> QED
  BY <1>1, <1>2, SysInvariant, PTL DEF Spec

(* When the aggregator is done, every stream was read to its end and each  *)
(* global register is the maximum over what the workers saw: the sketch of *)
(* the whole stream.                                                       *)
THEOREM AggregatorConverges == Spec => []Converged
<1>1. SysInv /\ EndInv /\ SentInv => Converged
  <2> SUFFICES ASSUME SysInv, EndInv, SentInv, aggDone
               PROVE  /\ \A w \in Worker : inputClosed[w] /\ inputCh[w] = << >>
                      /\ \A i \in Reg :
                           global[i] = Greatest({local[w][i] : w \in Worker})
    BY DEF Converged
  <2>1. merged = NumWorkers /\ \A w \in Worker : shardPc[w] = "done"
    BY DEF EndInv, MergedSoFar
  <2>2. ASSUME NEW w \in Worker
        PROVE  /\ batchClosed[w] /\ batchCh[w] = << >>
               /\ shardBatch[w] = << >>
    <3>1. Proofs!ShutdownOf(w)
      BY DEF SysInv, Proofs!PipeInv, Proofs!CleanShutdown, Proofs!Worker, Worker
    <3> QED
      BY <2>1, <3>1 DEF Proofs!ShutdownOf
  <2>3. ASSUME NEW w \in Worker
        PROVE  /\ inputClosed[w] /\ inputCh[w] = << >>
               /\ pending[w] = {} /\ batchBuf[w] = << >>
    BY <2>2 DEF EndInv, EndOf
  <2>4. ASSUME NEW w \in Worker, NEW i \in Reg
        PROVE  local[w][i] = shard[w][i]
    <3>1. ValuesIn(<< >>, i) = {} /\ QueueValues(<< >>, i) = {}
      BY ValuesInEmpty, QueueValuesEmpty
    <3>2. AllSent(w, i) = {shard[w][i]}
      BY <2>2, <2>3, <3>1 DEF AllSent
    <3> QED
      BY <2>3, <3>2 DEF SentInv, SentOf, Behind
  <2>5. ASSUME NEW i \in Reg
        PROVE  global[i] = Greatest({local[w][i] : w \in Worker})
    <3> DEFINE S == {local[w][i] : w \in Worker}
    <3>1. S \in SUBSET Nat
      BY DEF SysInv, TypeOK, Sketch
    <3>2. \A w \in Worker : w <= merged
      BY <2>1, HLLAssumption DEF Worker
    <3>3. \A w \in Worker : local[w][i] <= global[i]
      BY <2>4, <3>2 DEF EndInv, MergedSoFar
    <3>4. \A m \in S : m <= global[i]
      BY <3>3
    <3>5. global[i] \in S \union {0}
      BY <2>4 DEF EndInv, MergedSoFar
    <3> HIDE DEF S
    <3>6. Greatest(S) = global[i]
      BY <3>1, <3>4, <3>5, GreatestIs
    <3> QED
      BY <3>6 DEF S
  <2> QED
    BY <2>3, <2>5
<1> QED
  BY <1>1, SysInvariant, EndInvariant, SentInvariant, PTL
=============================================================================
