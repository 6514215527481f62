-------------------------- MODULE DeltaPipeProofs ---------------------------
(***************************************************************************)
(* Proofs about the batched transport, for any number of workers, any      *)
(* batch capacity and any pool size.                                       *)
(***************************************************************************)
EXTENDS DeltaPipe, SumsProofs, SequenceTheorems, TLAPS

(* The inductive invariant: the pool argument needs the channel contents   *)
(* typed, and that no empty batch is sent (BatchDiscipline).               *)
PipeInv == TypeOK /\ PoolConserved /\ BatchDiscipline /\ CleanShutdown

(* NewXxxSystem builds a transport that satisfies the invariant.           *)
LEMMA PipeInit == Init => PipeInv
<1> SUFFICES ASSUME Init PROVE PipeInv
  OBVIOUS
<1> USE PipeAssumption
<1>1. << >> \in Batch
  BY DEF Batch
<1>2. [j \in 1..PoolSize |-> << >>] \in Seq(Batch)
  BY <1>1
<1>3. TypeOK
  BY <1>1, <1>2 DEF Init, TypeOK
<1>4. PoolConserved
  BY DEF Init, PoolConserved, PoolOf, WorkerHolds, ShardHolds
<1>5. BatchDiscipline
  <2>1. << >> \in Seq(SentBatch)
    OBVIOUS
  <2>2. [j \in 1..PoolSize |-> << >>] \in Seq({<< >>})
    OBVIOUS
  <2> QED
    BY <2>1, <2>2 DEF Init, BatchDiscipline, BatchesOf
<1>6. CleanShutdown
  BY DEF Init, CleanShutdown, ShutdownOf
<1> QED
  BY <1>3, <1>4, <1>5, <1>6 DEF PipeInv

-----------------------------------------------------------------------------

(* A step of worker w or of its shard leaves the other pairs alone.        *)
OthersUnchanged(w) ==
  \A v \in Worker \ {w} :
    /\ batchBuf'[v] = batchBuf[v] /\ handoff'[v] = handoff[v]
    /\ batchCh'[v] = batchCh[v] /\ batchClosed'[v] = batchClosed[v]
    /\ recycleCh'[v] = recycleCh[v]
    /\ shardPc'[v] = shardPc[v] /\ shardBatch'[v] = shardBatch[v]

(* For such a step it is enough to look at w.                              *)
LEMMA PipeOthers ==
  ASSUME PipeInv, NEW w \in Worker, OthersUnchanged(w),
         PoolOf(w)' = PoolSize + 1, BatchesOf(w)',
         ShutdownOf(w)'
  PROVE  PoolConserved' /\ BatchDiscipline' /\ CleanShutdown'
<1>1. ASSUME NEW v \in Worker \ {w}
      PROVE  PoolOf(v)' = PoolSize + 1 /\ BatchesOf(v)' /\ ShutdownOf(v)'
  <2>1. PoolOf(v)' = PoolOf(v)
    BY DEF OthersUnchanged, PoolOf, WorkerHolds, ShardHolds
  <2>2. BatchesOf(v)' = BatchesOf(v)
    BY DEF OthersUnchanged, BatchesOf
  <2>3. ShutdownOf(v)' = ShutdownOf(v)
    BY DEF OthersUnchanged, ShutdownOf
  <2> QED
    BY <2>1, <2>2, <2>3
    DEF PipeInv, PoolConserved, BatchDiscipline, CleanShutdown
<1> QED
  BY <1>1 DEF PoolConserved, BatchDiscipline, CleanShutdown

(* Every action keeps the invariant.  Per action: what happens to the      *)
(* sequence it changes (<2>1, <2>2), what happens to the rest (<2>3), and  *)
(* then the parts of the invariant from these facts alone.                 *)
LEMMA PipeStep == PipeInv /\ [Next]_pipeVars => PipeInv'
<1> SUFFICES ASSUME PipeInv, [Next]_pipeVars
             PROVE  PipeInv'
  OBVIOUS
<1> USE PipeAssumption
<1>0. TypeOK
  BY DEF PipeInv
<1>00. ASSUME NEW w \in Worker
       PROVE  /\ PoolOf(w) = PoolSize + 1
              /\ BatchesOf(w)
              /\ ShutdownOf(w)
              /\ WorkerHolds(w) \in {0, 1}
              /\ ShardHolds(w) \in {0, 1}
              /\ Len(batchBuf[w]) \in Nat
              /\ Len(batchCh[w]) \in Nat
              /\ Len(recycleCh[w]) \in Nat
  <2>1. /\ batchBuf[w] \in Seq(Delta)
        /\ batchCh[w] \in Seq(Batch)
        /\ recycleCh[w] \in Seq(Batch)
    BY <1>0 DEF TypeOK, Batch
  <2>2. WorkerHolds(w) \in {0, 1} /\ ShardHolds(w) \in {0, 1}
    BY DEF WorkerHolds, ShardHolds
  <2> QED
    BY <2>1, <2>2, LenProperties
    DEF PipeInv, PoolConserved, BatchDiscipline, CleanShutdown
<1>1. ASSUME NEW w \in Worker, NEW d \in Delta, Emit(w, d)
      PROVE  PipeInv'
  <2>1. /\ batchBuf[w] \in Seq(Delta) /\ d \in Delta
    BY <1>1, <1>0, <1>00 DEF TypeOK, Batch, BatchesOf
  <2>2. batchBuf'[w] = Append(batchBuf[w], d)
    BY <1>1, <1>0 DEF TypeOK, Emit
  <2>3. /\ batchBuf'[w] \in Seq(Delta)
        /\ batchBuf'[w] # << >>
    BY <2>1, <2>2, AppendProperties, LenProperties
  <2>4. Len(batchBuf'[w]) = Len(batchBuf[w]) + 1
    BY <2>1, <2>2, AppendProperties
  <2>5. /\ handoff[w] = "none" /\ ~ batchClosed[w]
        /\ handoff'[w] = IF Len(batchBuf'[w]) >= BatchCap
                          THEN "send" ELSE "none"
        /\ batchCh'[w] = batchCh[w] /\ recycleCh'[w] = recycleCh[w]
        /\ shardPc'[w] = shardPc[w] /\ shardBatch'[w] = shardBatch[w]
        /\ batchClosed'[w] = batchClosed[w]
    BY <1>1, <1>0 DEF TypeOK, Emit
  <2>6. TypeOK'
    BY <1>1, <1>0, <2>1, <2>2, <2>3, <2>4, <2>5 DEF TypeOK, Batch, SentBatch, Emit
  <2>7. OthersUnchanged(w)
    BY <1>1, <1>0 DEF TypeOK, OthersUnchanged, Emit
  <2>8. PoolOf(w)' = PoolSize + 1
    <3>1. /\ WorkerHolds(w) = 1 /\ WorkerHolds(w)' = 1
          /\ ShardHolds(w)' = ShardHolds(w)
          /\ Len(batchCh'[w]) = Len(batchCh[w])
          /\ Len(recycleCh'[w]) = Len(recycleCh[w])
      BY <2>5 DEF WorkerHolds, ShardHolds
    <3>2. /\ PoolOf(w) = PoolSize + 1
          /\ WorkerHolds(w) \in Int /\ ShardHolds(w) \in Int
          /\ Len(batchCh[w]) \in Int /\ Len(recycleCh[w]) \in Int
      BY <1>00
    <3> QED
      BY <2>4, <3>1, <3>2 DEF PoolOf
  <2>9. BatchesOf(w)'
    BY <1>00, <2>1, <2>3, <2>4, <2>5 DEF BatchesOf
  <2>10. ShutdownOf(w)'
    BY <1>00, <2>1, <2>3, <2>4, <2>5 DEF ShutdownOf
  <2> QED
    BY <2>6, <2>7, <2>8, <2>9, <2>10, PipeOthers DEF PipeInv
<1>2. ASSUME NEW w \in Worker, BeginFlushBatch(w)
      PROVE  PipeInv'
  <2>1. TypeOK'
    BY <1>2, <1>0 DEF TypeOK, Batch, SentBatch, BeginFlushBatch
  <2>2. OthersUnchanged(w)
    BY <1>2, <1>0 DEF TypeOK, OthersUnchanged, BeginFlushBatch
  <2>3. PoolOf(w)' = PoolSize + 1
    BY <1>2, <1>0, <1>00 DEF TypeOK, PoolOf, WorkerHolds, ShardHolds, BeginFlushBatch
  <2>4. BatchesOf(w)'
    BY <1>2, <1>0, <1>00 DEF TypeOK, BatchesOf, BeginFlushBatch
  <2>5. ShutdownOf(w)'
    BY <1>2, <1>0, <1>00 DEF TypeOK, BatchesOf, ShutdownOf, BeginFlushBatch
  <2> QED
    BY <2>1, <2>2, <2>3, <2>4, <2>5, PipeOthers DEF PipeInv
<1>3. ASSUME NEW w \in Worker, SendBatch(w)
      PROVE  PipeInv'
  <2>1. /\ batchCh[w] \in Seq(SentBatch) /\ batchBuf[w] \in SentBatch
    <3>1. /\ batchCh[w] \in Seq(SentBatch)
          /\ batchBuf[w] \in Batch
          /\ batchBuf[w] # << >> /\ Len(batchBuf[w]) <= BatchCap
      BY <1>3, <1>0, <1>00 DEF TypeOK, BatchesOf, SendBatch
    <3>2. Len(batchBuf[w]) \in 1..BatchCap
      BY <3>1, EmptySeq, LenProperties DEF Batch
    <3> QED
      BY <3>1, <3>2 DEF SentBatch
  <2>2. batchCh'[w] = Append(batchCh[w], batchBuf[w])
    BY <1>3, <1>0 DEF TypeOK, SendBatch
  <2>3. /\ batchCh'[w] \in Seq(SentBatch)
        /\ batchCh'[w] # << >>
    BY <2>1, <2>2, AppendProperties, LenProperties
  <2>4. Len(batchCh'[w]) = Len(batchCh[w]) + 1
    BY <2>1, <2>2, AppendProperties
  <2>5. /\ handoff[w] = "send" /\ handoff'[w] = "take"
        /\ Len(batchCh[w]) < PoolSize
        /\ batchBuf'[w] = << >> /\ recycleCh'[w] = recycleCh[w]
        /\ shardPc'[w] = shardPc[w] /\ shardBatch'[w] = shardBatch[w]
        /\ batchClosed'[w] = batchClosed[w]
    BY <1>3, <1>0 DEF TypeOK, SendBatch
  <2>6. TypeOK'
    BY <1>3, <1>0, <2>1, <2>2, <2>3, <2>4, <2>5 DEF TypeOK, Batch, SentBatch, SendBatch
  <2>7. OthersUnchanged(w)
    BY <1>3, <1>0 DEF TypeOK, OthersUnchanged, SendBatch
  <2>8. PoolOf(w)' = PoolSize + 1
    <3>1. /\ WorkerHolds(w) = 1 /\ WorkerHolds(w)' = 0
          /\ ShardHolds(w)' = ShardHolds(w)
          /\ Len(recycleCh'[w]) = Len(recycleCh[w])
      BY <2>5 DEF WorkerHolds, ShardHolds
    <3>2. /\ PoolOf(w) = PoolSize + 1
          /\ WorkerHolds(w) \in Int /\ ShardHolds(w) \in Int
          /\ Len(batchCh[w]) \in Int /\ Len(recycleCh[w]) \in Int
      BY <1>00
    <3> QED
      BY <2>4, <3>1, <3>2 DEF PoolOf
  <2>9. BatchesOf(w)'
    BY <1>00, <2>1, <2>3, <2>4, <2>5 DEF BatchesOf
  <2>10. ShutdownOf(w)'
    BY <1>00, <2>1, <2>3, <2>4, <2>5 DEF ShutdownOf
  <2> QED
    BY <2>6, <2>7, <2>8, <2>9, <2>10, PipeOthers DEF PipeInv
<1>4. ASSUME NEW w \in Worker, TakeBatch(w)
      PROVE  PipeInv'
  <2>1. recycleCh[w] \in Seq({<< >>}) /\ recycleCh[w] # << >>
    BY <1>4, <1>0, <1>00 DEF BatchesOf, TakeBatch
  <2>2. recycleCh'[w] = Tail(recycleCh[w]) /\ batchBuf'[w] = Head(recycleCh[w])
    BY <1>4, <1>0 DEF TypeOK, TakeBatch
  <2>3. /\ recycleCh'[w] \in Seq({<< >>}) /\ batchBuf'[w] \in {<< >>}
    BY <2>1, <2>2, HeadTailProperties, EmptySeq, LenProperties
  <2>4. Len(recycleCh'[w]) = Len(recycleCh[w]) - 1
    BY <2>1, <2>2, HeadTailProperties
  <2>5. /\ handoff[w] = "take" /\ handoff'[w] = "none"
        /\ batchCh'[w] = batchCh[w]
        /\ shardPc'[w] = shardPc[w] /\ shardBatch'[w] = shardBatch[w]
        /\ batchClosed'[w] = batchClosed[w]
    BY <1>4, <1>0 DEF TypeOK, TakeBatch
  <2>6. TypeOK'
    BY <1>4, <1>0, <2>1, <2>2, <2>3, <2>4, <2>5 DEF TypeOK, Batch, SentBatch, TakeBatch
  <2>7. OthersUnchanged(w)
    BY <1>4, <1>0 DEF TypeOK, OthersUnchanged, TakeBatch
  <2>8. PoolOf(w)' = PoolSize + 1
    <3>1. /\ WorkerHolds(w) = 0 /\ WorkerHolds(w)' = 1
          /\ ShardHolds(w)' = ShardHolds(w)
          /\ Len(batchCh'[w]) = Len(batchCh[w])
      BY <2>5 DEF WorkerHolds, ShardHolds
    <3>2. /\ PoolOf(w) = PoolSize + 1
          /\ WorkerHolds(w) \in Int /\ ShardHolds(w) \in Int
          /\ Len(batchCh[w]) \in Int /\ Len(recycleCh[w]) \in Int
      BY <1>00
    <3> QED
      BY <2>4, <3>1, <3>2 DEF PoolOf
  <2>9. BatchesOf(w)'
    BY <1>00, <2>1, <2>3, <2>4, <2>5 DEF BatchesOf
  <2>10. ShutdownOf(w)'
    BY <1>00, <2>1, <2>3, <2>4, <2>5 DEF ShutdownOf
  <2> QED
    BY <2>6, <2>7, <2>8, <2>9, <2>10, PipeOthers DEF PipeInv
<1>5. ASSUME NEW w \in Worker, CloseBatchCh(w)
      PROVE  PipeInv'
  <2>1. TypeOK'
    BY <1>5, <1>0 DEF TypeOK, Batch, SentBatch, CloseBatchCh
  <2>2. OthersUnchanged(w)
    BY <1>5, <1>0 DEF TypeOK, OthersUnchanged, CloseBatchCh
  <2>3. PoolOf(w)' = PoolSize + 1
    BY <1>5, <1>0, <1>00 DEF TypeOK, PoolOf, WorkerHolds, ShardHolds, CloseBatchCh
  <2>4. BatchesOf(w)'
    BY <1>5, <1>0, <1>00 DEF TypeOK, BatchesOf, CloseBatchCh
  <2>5. ShutdownOf(w)'
    BY <1>5, <1>0, <1>00 DEF TypeOK, BatchesOf, ShutdownOf, CloseBatchCh
  <2> QED
    BY <2>1, <2>2, <2>3, <2>4, <2>5, PipeOthers DEF PipeInv
<1>6. ASSUME NEW w \in Worker, ShardReceive(w)
      PROVE  PipeInv'
  <2>1. batchCh[w] \in Seq(SentBatch) /\ batchCh[w] # << >>
    BY <1>6, <1>0, <1>00 DEF BatchesOf, ShardReceive
  <2>2. batchCh'[w] = Tail(batchCh[w]) /\ shardBatch'[w] = Head(batchCh[w])
    BY <1>6, <1>0 DEF TypeOK, ShardReceive
  <2>3. /\ batchCh'[w] \in Seq(SentBatch) /\ shardBatch'[w] \in SentBatch
        /\ Len(shardBatch'[w]) <= BatchCap
    <3>1. /\ batchCh'[w] \in Seq(SentBatch) /\ shardBatch'[w] \in SentBatch
      BY <2>1, <2>2, HeadTailProperties, EmptySeq, LenProperties
    <3> QED
      BY <3>1 DEF SentBatch
  <2>4. Len(batchCh'[w]) = Len(batchCh[w]) - 1
    BY <2>1, <2>2, HeadTailProperties
  <2>5. /\ shardPc[w] = "range" /\ shardPc'[w] = "merge"
        /\ batchBuf'[w] = batchBuf[w] /\ handoff'[w] = handoff[w]
        /\ recycleCh'[w] = recycleCh[w]
        /\ batchClosed'[w] = batchClosed[w]
    BY <1>6, <1>0 DEF TypeOK, ShardReceive
  <2>6. TypeOK'
    BY <1>6, <1>0, <2>1, <2>2, <2>3, <2>4, <2>5 DEF TypeOK, Batch, SentBatch, ShardReceive
  <2>7. OthersUnchanged(w)
    BY <1>6, <1>0 DEF TypeOK, OthersUnchanged, ShardReceive
  <2>8. PoolOf(w)' = PoolSize + 1
    <3>1. /\ WorkerHolds(w)' = WorkerHolds(w)
          /\ ShardHolds(w) = 0 /\ ShardHolds(w)' = 1
          /\ Len(recycleCh'[w]) = Len(recycleCh[w])
      BY <2>5 DEF WorkerHolds, ShardHolds
    <3>2. /\ PoolOf(w) = PoolSize + 1
          /\ WorkerHolds(w) \in Int /\ ShardHolds(w) \in Int
          /\ Len(batchCh[w]) \in Int /\ Len(recycleCh[w]) \in Int
      BY <1>00
    <3> QED
      BY <2>4, <3>1, <3>2 DEF PoolOf
  <2>9. BatchesOf(w)'
    BY <1>00, <2>1, <2>3, <2>4, <2>5 DEF BatchesOf
  <2>10. ShutdownOf(w)'
    BY <1>00, <2>1, <2>3, <2>4, <2>5 DEF ShutdownOf
  <2> QED
    BY <2>6, <2>7, <2>8, <2>9, <2>10, PipeOthers DEF PipeInv
<1>7. ASSUME NEW w \in Worker, MergeBatch(w)
      PROVE  PipeInv'
  <2>1. TypeOK'
    BY <1>7, <1>0 DEF TypeOK, Batch, SentBatch, MergeBatch
  <2>2. OthersUnchanged(w)
    BY <1>7, <1>0 DEF TypeOK, OthersUnchanged, MergeBatch
  <2>3. PoolOf(w)' = PoolSize + 1
    BY <1>7, <1>0, <1>00 DEF TypeOK, PoolOf, WorkerHolds, ShardHolds, MergeBatch
  <2>4. BatchesOf(w)'
    BY <1>7, <1>0, <1>00 DEF TypeOK, BatchesOf, MergeBatch
  <2>5. ShutdownOf(w)'
    BY <1>7, <1>0, <1>00 DEF TypeOK, BatchesOf, ShutdownOf, MergeBatch
  <2> QED
    BY <2>1, <2>2, <2>3, <2>4, <2>5, PipeOthers DEF PipeInv
<1>8. ASSUME NEW w \in Worker, RecycleBatch(w)
      PROVE  PipeInv'
  <2>1. /\ recycleCh[w] \in Seq({<< >>}) /\ shardBatch[w] \in {<< >>}
    BY <1>8, <1>0, <1>00 DEF TypeOK, Batch, BatchesOf, RecycleBatch
  <2>2. recycleCh'[w] = Append(recycleCh[w], shardBatch[w])
    BY <1>8, <1>0 DEF TypeOK, RecycleBatch
  <2>3. /\ recycleCh'[w] \in Seq({<< >>})
        /\ recycleCh'[w] # << >>
    BY <2>1, <2>2, AppendProperties, LenProperties
  <2>4. Len(recycleCh'[w]) = Len(recycleCh[w]) + 1
    BY <2>1, <2>2, AppendProperties
  <2>5. /\ shardPc[w] = "recycle" /\ shardPc'[w] = "range"
        /\ batchBuf'[w] = batchBuf[w] /\ handoff'[w] = handoff[w]
        /\ batchCh'[w] = batchCh[w] /\ shardBatch'[w] = << >>
        /\ batchClosed'[w] = batchClosed[w]
    BY <1>8, <1>0 DEF TypeOK, RecycleBatch
  <2>6. TypeOK'
    BY <1>8, <1>0, <2>1, <2>2, <2>3, <2>4, <2>5 DEF TypeOK, Batch, SentBatch, RecycleBatch
  <2>7. OthersUnchanged(w)
    BY <1>8, <1>0 DEF TypeOK, OthersUnchanged, RecycleBatch
  <2>8. PoolOf(w)' = PoolSize + 1
    <3>1. /\ WorkerHolds(w)' = WorkerHolds(w)
          /\ ShardHolds(w) = 1 /\ ShardHolds(w)' = 0
          /\ Len(batchCh'[w]) = Len(batchCh[w])
      BY <2>5 DEF WorkerHolds, ShardHolds
    <3>2. /\ PoolOf(w) = PoolSize + 1
          /\ WorkerHolds(w) \in Int /\ ShardHolds(w) \in Int
          /\ Len(batchCh[w]) \in Int /\ Len(recycleCh[w]) \in Int
      BY <1>00
    <3>3. WorkerHolds(w) + Len(batchCh[w]) + Len(recycleCh[w]) = PoolSize
      <4>1. ShardHolds(w) = 1
        BY <3>1
      <4> QED
        BY <4>1, <3>2 DEF PoolOf
    <3> QED
      BY <2>4, <3>1, <3>2, <3>3 DEF PoolOf
  <2>9. BatchesOf(w)'
    BY <1>00, <2>1, <2>3, <2>4, <2>5 DEF BatchesOf
  <2>10. ShutdownOf(w)'
    BY <1>00, <2>1, <2>3, <2>4, <2>5 DEF ShutdownOf
  <2> QED
    BY <2>6, <2>7, <2>8, <2>9, <2>10, PipeOthers DEF PipeInv
<1>9. ASSUME NEW w \in Worker, ShardExit(w)
      PROVE  PipeInv'
  <2>1. TypeOK'
    BY <1>9, <1>0 DEF TypeOK, Batch, SentBatch, ShardExit
  <2>2. OthersUnchanged(w)
    BY <1>9, <1>0 DEF TypeOK, OthersUnchanged, ShardExit
  <2>3. PoolOf(w)' = PoolSize + 1
    BY <1>9, <1>0, <1>00 DEF TypeOK, PoolOf, WorkerHolds, ShardHolds, ShardExit
  <2>4. BatchesOf(w)'
    BY <1>9, <1>0, <1>00 DEF TypeOK, BatchesOf, ShardExit
  <2>5. ShutdownOf(w)'
    BY <1>9, <1>0, <1>00 DEF TypeOK, BatchesOf, ShutdownOf, ShardExit
  <2> QED
    BY <2>1, <2>2, <2>3, <2>4, <2>5, PipeOthers DEF PipeInv
<1>10. CASE UNCHANGED pipeVars
  BY <1>10, <1>0 DEF pipeVars, PipeInv, TypeOK, PoolConserved, PoolOf,
                     WorkerHolds, ShardHolds, BatchDiscipline, BatchesOf,
                     CleanShutdown, ShutdownOf
<1> QED
  BY <1>1, <1>2, <1>3, <1>4, <1>5, <1>6, <1>7, <1>8, <1>9, <1>10
  DEF Next, ShardStep, Terminated

(* The invariant holds in every behaviour.                                 *)
LEMMA PipeInvariant == Spec => []PipeInv
  BY PipeInit, PipeStep, PTL DEF Spec

-----------------------------------------------------------------------------

(* The transport stays well-typed.                                         *)
THEOREM TypeCorrect == Spec => []TypeOK
<1>1. PipeInv => TypeOK
  BY DEF PipeInv
<1> QED
  BY <1>1, PipeInvariant, PTL

(* The PoolSize + 1 batches of buildBatchedWorkers are never lost and      *)
(* never in two places.                                                    *)
THEOREM PoolIsConserved == Spec => []PoolConserved
<1>1. PipeInv => PoolConserved
  BY DEF PipeInv
<1> QED
  BY <1>1, PipeInvariant, PTL

(* Batches stay within their preallocated capacity, and only empty ones    *)
(* come back to the worker.                                                *)
THEOREM BatchesAreDisciplined == Spec => []BatchDiscipline
<1>1. PipeInv => BatchDiscipline
  BY DEF PipeInv
<1> QED
  BY <1>1, PipeInvariant, PTL

(* batchCh is never closed under a sender, and no shard ends early.        *)
THEOREM ShutdownIsClean == Spec => []CleanShutdown
<1>1. PipeInv => CleanShutdown
  BY DEF PipeInv
<1> QED
  BY <1>1, PipeInvariant, PTL

(* The shard's send on recycleCh never blocks, whatever the pool size: the *)
(* batch in its hand is one of the PoolSize + 1.                           *)
THEOREM RecycleDoesNotBlock == Spec => []RecycleNeverBlocks
<1>1. ASSUME PipeInv, NEW w \in Worker
      PROVE  shardPc[w] = "recycle" => Len(recycleCh[w]) < PoolSize + 1
  <2>1. PoolOf(w) = PoolSize + 1
    BY <1>1 DEF PipeInv, PoolConserved
  <2>2. Len(batchCh[w]) \in Nat /\ Len(recycleCh[w]) \in Nat
    BY <1>1, LenProperties DEF PipeInv, TypeOK
  <2>3. /\ WorkerHolds(w) \in {0, 1}
        /\ shardPc[w] = "recycle" => ShardHolds(w) = 1
    BY DEF WorkerHolds, ShardHolds
  <2> QED
    BY <2>1, <2>2, <2>3, PipeAssumption DEF PoolOf
<1>2. PipeInv => RecycleNeverBlocks
  BY <1>1 DEF RecycleNeverBlocks
<1> QED
  BY <1>2, PipeInvariant, PTL

(* A worker inside flushBatch and its shard are never both blocked: with   *)
(* the pool conserved, a full batchCh or an empty recycleCh means that the *)
(* shard has something to do.                                              *)
THEOREM NoDeadlockInHandoff == Spec => []NoMutualWait
<1>1. ASSUME PipeInv, NEW w \in Worker, handoff[w] # "none"
      PROVE  \/ handoff[w] = "send" /\ Len(batchCh[w]) < PoolSize
             \/ handoff[w] = "take" /\ recycleCh[w] # << >>
             \/ shardPc[w] = "range" /\ batchCh[w] # << >>
             \/ shardPc[w] = "merge"
             \/ shardPc[w] = "recycle" /\ Len(recycleCh[w]) < PoolSize + 1
  <2>1. PoolOf(w) = PoolSize + 1
    BY <1>1 DEF PipeInv, PoolConserved
  <2>2. /\ handoff[w] \in {"none", "send", "take"}
        /\ shardPc[w] \in {"range", "merge", "recycle", "done"}
        /\ batchCh[w] \in Seq(Batch) /\ Len(batchCh[w]) \in Nat
        /\ recycleCh[w] \in Seq(Batch) /\ Len(recycleCh[w]) \in Nat
    BY <1>1, LenProperties DEF PipeInv, TypeOK
  <2>3. /\ shardPc[w] # "done"
        /\ Len(batchCh[w]) <= PoolSize
    BY <1>1 DEF PipeInv, CleanShutdown, ShutdownOf, BatchDiscipline, BatchesOf
  <2>4. /\ batchCh[w] = << >> => Len(batchCh[w]) = 0
        /\ recycleCh[w] = << >> => Len(recycleCh[w]) = 0
    OBVIOUS
  <2>5. /\ handoff[w] = "take" => WorkerHolds(w) = 0
        /\ shardPc[w] \in {"range", "done"} => ShardHolds(w) = 0
        /\ shardPc[w] = "recycle" => ShardHolds(w) = 1
        /\ WorkerHolds(w) \in {0, 1}
    BY DEF WorkerHolds, ShardHolds
  <2> QED
    BY <1>1, <2>1, <2>2, <2>3, <2>4, <2>5, PipeAssumption
    DEF PoolOf
<1>2. PipeInv => NoMutualWait
  BY <1>1 DEF NoMutualWait
<1> QED
  BY <1>2, PipeInvariant, PTL

-----------------------------------------------------------------------------
(* What FlattenSeq does to a channel: it takes batches up at its end and   *)
(* gives them up at its head, delta by delta.                              *)

(* The recursion that defines FlattenSeq(qs), over the first n batches.    *)
Flattened(qs, n, s) ==
  s = [i \in 1..n |-> IF i = 1 THEN qs[i] ELSE s[i-1] \o qs[i]]

TheFlat(qs) == CHOOSE s : Flattened(qs, Len(qs), s)

(* It has a solution for every n, ... *)
LEMMA FlatExists ==
  ASSUME NEW qs, NEW n \in Nat
  PROVE  \E s : Flattened(qs, n, s)
<1> DEFINE T == {k \in Nat : ~ \E s : Flattened(qs, k, s)}
<1> SUFFICES ASSUME T # {}
             PROVE  FALSE
  OBVIOUS
<1>1. PICK m \in T : \A k \in T : m <= k
  <2>1. T \subseteq Nat
    OBVIOUS
  <2> QED
    BY <2>1, LeastNatural
<1>2. m # 0
  <2>1. Flattened(qs, 0, [i \in 1..0 |-> qs[i]])
    BY DEF Flattened
  <2> QED
    BY <2>1
<1>3. PICK s : Flattened(qs, m-1, s)
  BY <1>1, <1>2
<1> DEFINE last == IF m = 1 THEN qs[m] ELSE s[m-1] \o qs[m]
           t == [i \in 1..m |-> IF i = m THEN last ELSE s[i]]
<1>4. \A i \in 1..m-1 : s[i] = IF i = 1 THEN qs[i] ELSE s[i-1] \o qs[i]
  BY <1>3 DEF Flattened
<1>5. \A i \in 1..m : t[i] = IF i = 1 THEN qs[i] ELSE t[i-1] \o qs[i]
  BY <1>2, <1>4
<1>6. Flattened(qs, m, t)
  BY <1>5 DEF Flattened
<1> QED
  BY <1>6

(* ... whose last value FlattenSeq returns, ... *)
LEMMA FlatEquation ==
  ASSUME NEW S, NEW qs \in Seq(Seq(S))
  PROVE  LET s == TheFlat(qs) IN
         /\ \A i \in 1..Len(qs) :
              s[i] = IF i = 1 THEN qs[i] ELSE s[i-1] \o qs[i]
         /\ FlattenSeq(qs) = IF qs = << >> THEN << >> ELSE s[Len(qs)]
<1>1. Len(qs) \in Nat /\ (qs = << >> <=> Len(qs) = 0)
  BY EmptySeq, LenProperties
<1>2. Flattened(qs, Len(qs), TheFlat(qs))
  BY <1>1, FlatExists DEF TheFlat
<1>3. FlattenSeq(qs) = IF Len(qs) = 0 THEN qs ELSE TheFlat(qs)[Len(qs)]
  BY DEF FlattenSeq, TheFlat, Flattened
<1> QED
  BY <1>1, <1>2, <1>3 DEF Flattened

(* ... and whose values are sequences. *)
LEMMA FlatTyped ==
  ASSUME NEW S, NEW qs \in Seq(Seq(S))
  PROVE  /\ \A i \in 1..Len(qs) : TheFlat(qs)[i] \in Seq(S)
         /\ FlattenSeq(qs) \in Seq(S)
<1> DEFINE s == TheFlat(qs)
           T == {k \in 1..Len(qs) : s[k] \notin Seq(S)}
<1>1. Len(qs) \in Nat /\ \A i \in 1..Len(qs) : qs[i] \in Seq(S)
  BY LenProperties, ElementOfSeq
<1>2. \A i \in 1..Len(qs) : s[i] = IF i = 1 THEN qs[i] ELSE s[i-1] \o qs[i]
  BY FlatEquation
<1>3. T = {}
  <2> SUFFICES ASSUME T # {}
               PROVE  FALSE
    OBVIOUS
  <2>1. PICK m \in T : \A k \in T : m <= k
    <3>1. T \subseteq Nat
      BY <1>1
    <3> QED
      BY <3>1, LeastNatural
  <2>2. m # 1
    BY <1>1, <1>2, <2>1
  <2>3. m-1 \in 1..Len(qs) /\ m-1 \notin T
    BY <1>1, <2>1, <2>2
  <2>4. s[m-1] \in Seq(S) /\ qs[m] \in Seq(S)
    BY <1>1, <2>1, <2>3
  <2>5. s[m] = s[m-1] \o qs[m]
    BY <1>2, <2>1, <2>2
  <2>6. s[m-1] \o qs[m] \in Seq(S)
    BY <2>4, ConcatProperties
  <2> QED
    BY <2>1, <2>5, <2>6
<1>4. \A i \in 1..Len(qs) : s[i] \in Seq(S)
  BY <1>3
<1>5. ASSUME qs = << >>
      PROVE  FlattenSeq(qs) \in Seq(S)
  <2>1. FlattenSeq(qs) = << >>
    BY <1>5, FlatEquation
  <2>2. << >> \in Seq(S)
    OBVIOUS
  <2> QED
    BY <2>1, <2>2
<1>6. ASSUME qs # << >>
      PROVE  FlattenSeq(qs) \in Seq(S)
  <2>1. Len(qs) \in 1..Len(qs)
    BY <1>1, <1>6, EmptySeq
  <2>2. FlattenSeq(qs) = s[Len(qs)]
    BY <1>6, FlatEquation
  <2> QED
    BY <1>4, <2>1, <2>2
<1>7. FlattenSeq(qs) \in Seq(S)
  BY <1>5, <1>6
<1> QED
  BY <1>4, <1>7

(* A batch that is sent comes last. *)
LEMMA FlatAppend ==
  ASSUME NEW S, NEW qs \in Seq(Seq(S)), NEW b \in Seq(S)
  PROVE  FlattenSeq(Append(qs, b)) = FlattenSeq(qs) \o b
<1> DEFINE n == Len(qs)
           a == Append(qs, b)
           s == TheFlat(qs)
           t == TheFlat(a)
           T == {k \in 1..n : s[k] # t[k]}
<1>1. /\ n \in Nat /\ Len(a) = n+1
      /\ a \in Seq(Seq(S)) /\ a # << >>
      /\ \A i \in 1..n : a[i] = qs[i]
      /\ a[n+1] = b
  BY LenProperties, AppendProperties
<1>2. \A i \in 1..n : s[i] = IF i = 1 THEN qs[i] ELSE s[i-1] \o qs[i]
  BY FlatEquation
<1>3. \A i \in 1..n+1 : t[i] = IF i = 1 THEN a[i] ELSE t[i-1] \o a[i]
  BY <1>1, FlatEquation
<1>4. T = {}
  <2> SUFFICES ASSUME T # {}
               PROVE  FALSE
    OBVIOUS
  <2>1. PICK m \in T : \A k \in T : m <= k
    <3>1. T \subseteq Nat
      BY <1>1
    <3> QED
      BY <3>1, LeastNatural
  <2> HIDE DEF s, t, a, n
  <2>2. m \in 1..n /\ m \in 1..n+1 /\ s[m] # t[m] /\ a[m] = qs[m]
    BY <1>1, <2>1
  <2>3. m # 1
    BY <1>2, <1>3, <2>2
  <2>4. m-1 \in 1..n /\ m-1 \notin T
    BY <1>1, <2>1, <2>2, <2>3
  <2>5. s[m-1] = t[m-1]
    BY <2>4
  <2> QED
    BY <1>2, <1>3, <2>2, <2>3, <2>5
<1>5. FlattenSeq(a) = t[n+1]
  BY <1>1, FlatEquation
<1>6. CASE qs = << >>
  <2>1. n = 0
    BY <1>6
  <2>2. t[1] = a[1]
    BY <1>3, <2>1
  <2>3. << >> \o b = b
    BY ConcatEmptySeq
  <2>4. FlattenSeq(qs) = << >>
    BY <1>6, FlatEquation
  <2> QED
    BY <1>1, <1>5, <2>1, <2>2, <2>3, <2>4
<1>7. CASE qs # << >>
  <2>1. n \in 1..n
    BY <1>1, <1>7, EmptySeq
  <2>2. FlattenSeq(qs) = s[n]
    BY <1>7, FlatEquation
  <2>3. s[n] = t[n]
    BY <1>4, <2>1
  <2>4. t[n+1] = t[n] \o b
    <3> HIDE DEF t, a, n
    <3>1. n+1 \in 1..n+1 /\ n+1 # 1 /\ (n+1)-1 = n /\ a[n+1] = b
      BY <1>1, <2>1
    <3> QED
      BY <1>3, <3>1
  <2> HIDE DEF s, t, n
  <2> QED
    BY <1>5, <2>2, <2>3, <2>4 DEF a
<1> QED
  BY <1>6, <1>7

(* A batch that is received came first. *)
LEMMA FlatTail ==
  ASSUME NEW S, NEW qs \in Seq(Seq(S)), qs # << >>
  PROVE  FlattenSeq(qs) = Head(qs) \o FlattenSeq(Tail(qs))
<1>0. \A a, b, c \in Seq(S) : (a \o b) \o c = a \o (b \o c)
  BY ConcatAssociative, SMTT(30)
<1> DEFINE n == Len(Tail(qs))
           r == Tail(qs)
           s == TheFlat(qs)
           t == TheFlat(r)
           T == {k \in 1..n : s[k+1] # qs[1] \o t[k]}
<1>1. /\ n \in Nat /\ Len(qs) = n+1
      /\ r \in Seq(Seq(S)) /\ Len(r) = n
      /\ \A i \in 1..n : r[i] = qs[i+1] /\ r[i] \in Seq(S)
      /\ Head(qs) = qs[1] /\ qs[1] \in Seq(S)
  <2>1. r \in Seq(Seq(S)) /\ Len(r) = Len(qs)-1 /\ Len(qs) \in Nat
    BY HeadTailProperties, LenProperties
  <2>2. \A i \in 1..n : r[i] = qs[i+1]
    BY HeadTailProperties
  <2>3. \A i \in 1..n : r[i] \in Seq(S)
    BY <2>1, ElementOfSeq
  <2>4. n \in Nat
    BY <2>1, LenProperties
  <2>5. Head(qs) = qs[1] /\ Head(qs) \in Seq(S)
    BY HeadTailProperties
  <2> QED
    BY <2>1, <2>2, <2>3, <2>4, <2>5
<1>2. \A i \in 1..n+1 : s[i] = IF i = 1 THEN qs[i] ELSE s[i-1] \o qs[i]
  BY <1>1, FlatEquation
<1>3. \A i \in 1..n : t[i] = IF i = 1 THEN r[i] ELSE t[i-1] \o r[i]
  BY <1>1, FlatEquation
<1>4. \A i \in 1..n : t[i] \in Seq(S)
  BY <1>1, FlatTyped
<1>5. T = {}
  <2> SUFFICES ASSUME T # {}
               PROVE  FALSE
    OBVIOUS
  <2>1. PICK m \in T : \A k \in T : m <= k
    <3>1. T \subseteq Nat
      BY <1>1
    <3> QED
      BY <3>1, LeastNatural
  <2> HIDE DEF s, t, r, n
  <2>a. m \in 1..n /\ s[m+1] # qs[1] \o t[m]
    BY <2>1
  <2>b. m+1 \in 1..n+1 /\ m+1 # 1 /\ (m+1)-1 = m
    BY <1>1, <2>a
  <2>c. r[m] = qs[m+1] /\ r[m] \in Seq(S)
    BY <1>1, <2>a
  <2>2. /\ m \in 1..n /\ m+1 \in 1..n+1 /\ m+1 # 1 /\ (m+1)-1 = m
        /\ s[m+1] # qs[1] \o t[m] /\ r[m] = qs[m+1] /\ r[m] \in Seq(S)
    BY <2>a, <2>b, <2>c
  <2>3. s[m+1] = s[m] \o r[m]
    BY <1>2, <2>2
  <2>4. CASE m = 1
    <3>1. t[m] = r[m] /\ s[m] = qs[1]
      BY <1>1, <1>2, <1>3, <2>2, <2>4
    <3> QED
      BY <2>2, <2>3, <3>1
  <2>5. CASE m # 1
    <3>a. m-1 \in 1..n /\ (m-1)+1 = m /\ ~ (m <= m-1)
      BY <1>1, <2>a, <2>5
    <3>b. m-1 \notin T
      BY <2>1, <3>a
    <3>1. m-1 \in 1..n /\ m-1 \notin T /\ (m-1)+1 = m
      BY <3>a, <3>b
    <3>2. s[m] = qs[1] \o t[m-1]
      BY <3>1
    <3>3. t[m] = t[m-1] \o r[m]
      BY <1>3, <2>2, <2>5
    <3>4. (qs[1] \o t[m-1]) \o r[m] = qs[1] \o (t[m-1] \o r[m])
      <4>1. qs[1] \in Seq(S) /\ t[m-1] \in Seq(S) /\ r[m] \in Seq(S)
        BY <1>1, <1>4, <2>2, <3>1
      <4> QED
        BY <1>0, <4>1
    <3> QED
      BY <2>2, <2>3, <3>2, <3>3, <3>4
  <2> QED
    BY <2>4, <2>5
<1>6. FlattenSeq(qs) = s[n+1]
  BY <1>1, FlatEquation
<1>7. CASE r = << >>
  <2>1. n = 0
    BY <1>1, <1>7, EmptySeq
  <2>2. s[1] = qs[1]
    BY <1>2, <2>1
  <2>3. qs[1] \o << >> = qs[1]
    BY <1>1, ConcatEmptySeq
  <2>4. FlattenSeq(r) = << >>
    BY <1>1, <1>7, FlatEquation
  <2>5. FlattenSeq(qs) = qs[1]
    <3> HIDE DEF s, n
    <3>1. n+1 = 1
      BY <2>1
    <3> QED
      BY <1>6, <2>2, <3>1
  <2>6. qs[1] \o FlattenSeq(r) = qs[1]
    BY <2>3, <2>4
  <2> QED
    BY <1>1, <2>5, <2>6
<1>8. CASE r # << >>
  <2>1. n \in 1..n
    BY <1>1, <1>8, EmptySeq
  <2>2. FlattenSeq(r) = t[n]
    BY <1>1, <1>8, FlatEquation
  <2>3. s[n+1] = qs[1] \o t[n]
    BY <1>5, <2>1
  <2> QED
    BY ONLY <1>1, <1>6, <2>2, <2>3
<1> QED
  BY <1>7, <1>8

-----------------------------------------------------------------------------
(* The transport implements a queue: a step of the code appends a delta to *)
(* what is in transit, takes some away from its front, or does not touch   *)
(* it.                                                                     *)

Queues == [w \in Worker |-> InTransit(w)]

(* The three places a delta can be in.                                     *)
LEMMA TransitTypes ==
  ASSUME PipeInv, NEW w \in Worker
  PROVE  /\ shardBatch[w] \in Batch /\ batchBuf[w] \in Batch
         /\ batchCh[w] \in Seq(Batch) /\ FlattenSeq(batchCh[w]) \in Batch
         /\ InTransit(w) \in Batch
<1>1. /\ shardBatch[w] \in Batch /\ batchBuf[w] \in Batch
      /\ batchCh[w] \in Seq(Batch)
  BY DEF PipeInv, TypeOK
<1>2. FlattenSeq(batchCh[w]) \in Batch
  BY <1>1, FlatTyped DEF Batch
<1>3. InTransit(w) \in Batch
  BY <1>1, <1>2, ConcatProperties DEF InTransit, Batch
<1> QED
  BY <1>1, <1>2, <1>3

(* A step of worker w or of its shard changes the queue of w only.         *)
LEMMA QueueOthers ==
  ASSUME NEW w \in Worker, OthersUnchanged(w), NEW q, InTransit(w)' = q
  PROVE  Queues' = [Queues EXCEPT ![w] = q]
<1>1. ASSUME NEW v \in Worker \ {w}
      PROVE  InTransit(v)' = InTransit(v)
  BY <1>1 DEF OthersUnchanged, InTransit
<1> QED
  BY <1>1 DEF Queues

(* ... and none when what w has in transit stays.                          *)
LEMMA QueueStays ==
  ASSUME NEW w \in Worker, OthersUnchanged(w), InTransit(w)' = InTransit(w)
  PROVE  Queues' = Queues
<1>1. ASSUME NEW v \in Worker \ {w}
      PROVE  InTransit(v)' = InTransit(v)
  BY <1>1 DEF OthersUnchanged, InTransit
<1> QED
  BY <1>1 DEF Queues

(* An emitted delta joins the queue.                                       *)
LEMMA EmitJoins ==
  ASSUME PipeInv, NEW w \in Worker, NEW d \in Delta, Emit(w, d)
  PROVE  Fifo!Emit(w, d)
<1> DEFINE a == shardBatch[w]
           f == FlattenSeq(batchCh[w])
           b == batchBuf[w]
<1>1. a \in Seq(Delta) /\ f \in Seq(Delta) /\ b \in Seq(Delta)
  BY TransitTypes DEF Batch
<1>2. \A x, y, z \in Seq(Delta) : (x \o y) \o z = x \o (y \o z)
  BY ConcatAssociative
<1>3. \A x \in Seq(Delta) : Append(x, d) = x \o << d >>
  BY AppendIsConcat
<1>4. << d >> \in Seq(Delta)
  OBVIOUS
<1>5. OthersUnchanged(w)
  BY DEF Emit, OthersUnchanged, PipeInv, TypeOK
<1>6. /\ shardBatch'[w] = a /\ batchCh'[w] = batchCh[w]
      /\ batchBuf'[w] = Append(b, d)
  BY DEF Emit, PipeInv, TypeOK
<1>7. InTransit(w)' = (a \o f) \o Append(b, d)
  BY <1>6 DEF InTransit
<1>8. InTransit(w) = (a \o f) \o b
  BY DEF InTransit
<1>9. (a \o f) \o Append(b, d) = Append((a \o f) \o b, d)
  <2> HIDE DEF a, f, b
  <2>1. a \o f \in Seq(Delta) /\ (a \o f) \o b \in Seq(Delta)
    BY <1>1, ConcatProperties
  <2>2. Append((a \o f) \o b, d) = ((a \o f) \o b) \o << d >>
    BY <1>3, <2>1
  <2>3. ((a \o f) \o b) \o << d >> = (a \o f) \o (b \o << d >>)
    BY <1>1, <1>2, <1>4, <2>1, SMTT(30)
  <2>4. Append(b, d) = b \o << d >>
    BY <1>1, <1>3
  <2> QED
    BY <2>2, <2>3, <2>4
<1>10. Queues' = [Queues EXCEPT ![w] = Append(InTransit(w), d)]
  <2>1. InTransit(w)' = Append(InTransit(w), d)
    BY <1>7, <1>8, <1>9
  <2> QED
    BY <1>5, <2>1, QueueOthers
<1>11. Queues[w] = InTransit(w)
  BY DEF Queues
<1> QED
  BY <1>10, <1>11 DEF Fifo!Emit, Queues

(* Sending a batch moves its deltas from the buffer into the channel.      *)
LEMMA SendKeeps ==
  ASSUME PipeInv, NEW w \in Worker, SendBatch(w)
  PROVE  Queues' = Queues
<1> DEFINE a == shardBatch[w]
           f == FlattenSeq(batchCh[w])
           b == batchBuf[w]
<1>1. a \in Seq(Delta) /\ f \in Seq(Delta) /\ b \in Seq(Delta)
  BY TransitTypes DEF Batch
<1>2. OthersUnchanged(w)
  BY DEF SendBatch, OthersUnchanged, PipeInv, TypeOK
<1>3. /\ shardBatch'[w] = a /\ batchCh'[w] = Append(batchCh[w], b)
      /\ batchBuf'[w] = << >>
  BY DEF SendBatch, PipeInv, TypeOK
<1>4. FlattenSeq(Append(batchCh[w], b)) = f \o b
  BY <1>1, TransitTypes, FlatAppend DEF Batch
<1>5. InTransit(w)' = (a \o (f \o b)) \o << >>
  BY <1>3, <1>4 DEF InTransit
<1>6. (a \o (f \o b)) \o << >> = (a \o f) \o b
  <2> HIDE DEF a, f, b
  <2>1. f \o b \in Seq(Delta) /\ a \o (f \o b) \in Seq(Delta)
    BY <1>1, ConcatProperties
  <2>2. (a \o (f \o b)) \o << >> = a \o (f \o b)
    BY <2>1, ConcatEmptySeq
  <2>3. (a \o f) \o b = a \o (f \o b)
    BY <1>1, ConcatAssociative
  <2> QED
    BY <2>2, <2>3
<1>7. InTransit(w)' = InTransit(w)
  BY <1>5, <1>6 DEF InTransit
<1> QED
  BY <1>2, <1>7, QueueStays

(* The batch a worker takes is empty, as the one it replaces.              *)
LEMMA TakeKeeps ==
  ASSUME PipeInv, NEW w \in Worker, TakeBatch(w)
  PROVE  Queues' = Queues
<1>1. OthersUnchanged(w)
  BY DEF TakeBatch, OthersUnchanged, PipeInv, TypeOK
<1>2. batchBuf[w] = << >>
  BY DEF TakeBatch, PipeInv, BatchDiscipline, BatchesOf
<1>3. recycleCh[w] \in Seq({<< >>}) /\ recycleCh[w] # << >>
  BY DEF TakeBatch, PipeInv, BatchDiscipline, BatchesOf
<1>4. Head(recycleCh[w]) \in {<< >>}
  BY <1>3, HeadTailProperties
<1>5. /\ shardBatch'[w] = shardBatch[w] /\ batchCh'[w] = batchCh[w]
      /\ batchBuf'[w] = Head(recycleCh[w])
  BY DEF TakeBatch, PipeInv, TypeOK
<1>6. InTransit(w)' = InTransit(w)
  BY <1>2, <1>4, <1>5 DEF InTransit
<1> QED
  BY <1>1, <1>6, QueueStays

(* Receiving a batch moves its deltas from the channel to the shard.       *)
LEMMA ReceiveKeeps ==
  ASSUME PipeInv, NEW w \in Worker, ShardReceive(w)
  PROVE  Queues' = Queues
<1> DEFINE h == Head(batchCh[w])
           f == FlattenSeq(Tail(batchCh[w]))
           b == batchBuf[w]
<1>1. OthersUnchanged(w)
  BY DEF ShardReceive, OthersUnchanged, PipeInv, TypeOK
<1>2. batchCh[w] \in Seq(Seq(Delta)) /\ batchCh[w] # << >>
  BY TransitTypes DEF Batch, ShardReceive
<1>3. h \in Seq(Delta) /\ Tail(batchCh[w]) \in Seq(Seq(Delta))
  BY <1>2, HeadTailProperties
<1>4. f \in Seq(Delta) /\ b \in Seq(Delta)
  BY <1>3, FlatTyped, TransitTypes DEF Batch
<1>5. shardBatch[w] = << >>
  BY DEF ShardReceive, PipeInv, BatchDiscipline, BatchesOf
<1>6. /\ shardBatch'[w] = h /\ batchCh'[w] = Tail(batchCh[w])
      /\ batchBuf'[w] = b
  BY DEF ShardReceive, PipeInv, TypeOK
<1>7. FlattenSeq(batchCh[w]) = h \o f
  BY <1>2, FlatTail
<1>8. InTransit(w)' = (h \o f) \o b
  BY <1>6 DEF InTransit
<1>9. InTransit(w) = (<< >> \o (h \o f)) \o b
  BY <1>5, <1>7 DEF InTransit
<1>10. << >> \o (h \o f) = h \o f
  <2> HIDE DEF h, f
  <2>1. h \o f \in Seq(Delta)
    BY <1>3, <1>4, ConcatProperties
  <2> QED
    BY <2>1, ConcatEmptySeq
<1>11. InTransit(w)' = InTransit(w)
  BY <1>8, <1>9, <1>10
<1> QED
  BY <1>1, <1>11, QueueStays

(* What is left of a sequence when its first part has been taken away.     *)
LEMMA DropPrefix ==
  ASSUME NEW S, NEW a \in Seq(S), NEW r \in Seq(S)
  PROVE  SubSeq(a \o r, Len(a)+1, Len(a \o r)) = r
<1>1. Len(a) \in Nat /\ Len(r) \in Nat /\ Len(a \o r) = Len(a) + Len(r)
  BY LenProperties, ConcatProperties
<1>2. CASE r = << >>
  <2>1. Len(a \o r) < Len(a)+1 /\ Len(a)+1 \in Int /\ Len(a \o r) \in Int
    BY <1>1, <1>2, EmptySeq
  <2> QED
    BY <1>2, <2>1, SubSeqEmpty
<1>3. CASE r # << >>
  <2> DEFINE m == Len(a)+1
             n == Len(a)+Len(r)
  <2>1. Len(r) # 0
    BY <1>3, EmptySeq
  <2>2. /\ m \in Len(a)+1 .. Len(a)+Len(r) /\ n \in Len(a)+1 .. Len(a)+Len(r)
        /\ m - Len(a) = 1 /\ n - Len(a) = Len(r)
    BY <1>1, <2>1
  <2>3. SubSeq(a \o r, m, n) = SubSeq(r, m - Len(a), n - Len(a))
    <3> HIDE DEF m, n
    <3> QED BY <2>2, SubSeqOfConcat2
  <2>4. SubSeq(r, 1, Len(r)) = r
    BY SubSeqFull
  <2> QED
    BY <1>1, <2>2, <2>3, <2>4
<1> QED
  BY <1>2, <1>3

(* Merging applies the whole batch, which is the front of the queue.       *)
LEMMA MergeApplies ==
  ASSUME PipeInv, NEW w \in Worker, MergeBatch(w)
  PROVE  \/ Queues' = Queues
         \/ \E n \in 1..Len(Queues[w]) : Fifo!Apply(w, n)
<1> DEFINE a == shardBatch[w]
           f == FlattenSeq(batchCh[w])
           b == batchBuf[w]
           r == f \o b
           q == InTransit(w)
<1>1. a \in Seq(Delta) /\ f \in Seq(Delta) /\ b \in Seq(Delta)
  BY TransitTypes DEF Batch
<1>2. OthersUnchanged(w)
  BY DEF MergeBatch, OthersUnchanged, PipeInv, TypeOK
<1>3. /\ shardBatch'[w] = << >> /\ batchCh'[w] = batchCh[w]
      /\ batchBuf'[w] = b
  BY DEF MergeBatch, PipeInv, TypeOK
<1>4. InTransit(w)' = (<< >> \o f) \o b
  BY <1>3 DEF InTransit
<1>5. q = (a \o f) \o b
  BY DEF InTransit
<1>6. Queues[w] = q
  BY DEF Queues
<1> HIDE DEF a, f, b, q
<1>7. r \in Seq(Delta)
  BY <1>1, ConcatProperties
<1>8. (a \o f) \o b = a \o r
  BY <1>1, ConcatAssociative
<1>9. << >> \o f = f
  BY <1>1, ConcatEmptySeq
<1>10. InTransit(w)' = r /\ q = a \o r
  BY <1>4, <1>5, <1>8, <1>9
<1> HIDE DEF r
<1>11. CASE a = << >>
  <2>1. << >> \o r = r
    BY <1>7, ConcatEmptySeq
  <2>2. InTransit(w)' = InTransit(w)
    BY <1>10, <1>11, <2>1 DEF q
  <2> QED
    BY <1>2, <2>2, QueueStays
<1>12. CASE a # << >>
  <2>1. Len(a) \in Nat /\ Len(a) # 0 /\ Len(r) \in Nat
    BY <1>1, <1>7, <1>12, EmptySeq, LenProperties
  <2>2. Len(q) = Len(a) + Len(r)
    BY <1>1, <1>7, <1>10, ConcatProperties
  <2>3. Len(a) \in 1..Len(q)
    BY <2>1, <2>2
  <2>4. SubSeq(q, Len(a)+1, Len(q)) = r
    BY <1>1, <1>7, <1>10, DropPrefix
  <2>5. Queues' = [Queues EXCEPT ![w] = r]
    BY <1>2, <1>10, QueueOthers
  <2>6. Fifo!Apply(w, Len(a))
    BY <1>6, <2>4, <2>5 DEF Fifo!Apply, Queues
  <2> QED
    BY <1>6, <2>3, <2>6
<1> QED
  BY <1>11, <1>12

(* The other steps move no delta.                                          *)
LEMMA OtherStepsKeep ==
  ASSUME PipeInv, NEW w \in Worker,
         \/ BeginFlushBatch(w) \/ CloseBatchCh(w)
         \/ RecycleBatch(w) \/ ShardExit(w)
  PROVE  Queues' = Queues
<1>1. OthersUnchanged(w)
  BY DEF BeginFlushBatch, CloseBatchCh, RecycleBatch, ShardExit,
         OthersUnchanged, PipeInv, TypeOK
<1>2. RecycleBatch(w) => shardBatch[w] = << >> /\ shardBatch'[w] = << >>
  BY DEF RecycleBatch, PipeInv, BatchDiscipline, BatchesOf, TypeOK
<1>3. /\ shardBatch'[w] = shardBatch[w] /\ batchCh'[w] = batchCh[w]
      /\ batchBuf'[w] = batchBuf[w]
  BY <1>2 DEF BeginFlushBatch, CloseBatchCh, RecycleBatch, ShardExit
<1>4. InTransit(w)' = InTransit(w)
  BY <1>3 DEF InTransit
<1> QED
  BY <1>1, <1>4, QueueStays

(* The refinement: every delta is applied exactly once and in the order of *)
(* emission, although batches are reused, sent over one channel and        *)
(* recycled over another.                                                  *)
THEOREM ImplementsFifo == Spec => ExactlyOnceInOrder
<1>1. Init => Fifo!Init
  <2> SUFFICES ASSUME Init
               PROVE  Fifo!Init
    OBVIOUS
  <2>1. FlattenSeq(<< >>) = << >>
    <3>1. << >> \in Seq(Seq(Delta))
      OBVIOUS
    <3> QED
      BY <3>1, FlatEquation
  <2>2. << >> \o << >> = << >>
    <3>1. << >> \in Seq(Delta)
      OBVIOUS
    <3> QED
      BY <3>1, ConcatEmptySeq
  <2>3. \A w \in Worker : InTransit(w) = << >>
    BY <2>1, <2>2 DEF Init, InTransit
  <2> QED
    BY <2>3 DEF Fifo!Init
<1>2. PipeInv /\ [Next]_pipeVars => [Fifo!Next]_Queues
  <2> SUFFICES ASSUME PipeInv, [Next]_pipeVars
               PROVE  [Fifo!Next]_Queues
    OBVIOUS
  <2>1. ASSUME NEW w \in Worker, NEW d \in Delta, Emit(w, d)
        PROVE  Fifo!Next
    BY <2>1, EmitJoins DEF Fifo!Next
  <2>2. ASSUME NEW w \in Worker, MergeBatch(w)
        PROVE  [Fifo!Next]_Queues
    BY <2>2, MergeApplies DEF Fifo!Next, Queues
  <2>3. ASSUME NEW w \in Worker,
               SendBatch(w) \/ TakeBatch(w) \/ ShardReceive(w)
        PROVE  Queues' = Queues
    BY <2>3, SendKeeps, TakeKeeps, ReceiveKeeps
  <2>4. ASSUME NEW w \in Worker,
               \/ BeginFlushBatch(w) \/ CloseBatchCh(w)
               \/ RecycleBatch(w) \/ ShardExit(w)
        PROVE  Queues' = Queues
    BY <2>4, OtherStepsKeep
  <2>5. CASE UNCHANGED pipeVars
    BY <2>5 DEF pipeVars, Queues, InTransit
  <2> QED
    BY <2>1, <2>2, <2>3, <2>4, <2>5 DEF Next, ShardStep, Terminated
<1>3. PipeInv /\ [Next]_pipeVars
        => [Fifo!Next]_([w \in Worker |-> InTransit(w)])
  BY <1>2 DEF Queues
<1> QED
  BY <1>1, <1>3, PipeInvariant, PTL
  DEF Spec, ExactlyOnceInOrder, Fifo!Spec
=============================================================================
