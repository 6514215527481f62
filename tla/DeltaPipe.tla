----------------------------- MODULE DeltaPipe ------------------------------
(***************************************************************************)
(* The batched delta transport of OctoSketch (worker.go, aggregator.go).   *)
(* Worker w fills a batch, hands it to shard goroutine w over batchCh and  *)
(* takes an empty one from recycleCh; the shard applies the batch, empties *)
(* it and returns it.  A fixed pool of PoolSize + 1 batches per worker     *)
(* circulates, so both parties can block.  This module leaves open what    *)
(* the deltas mean: the component modules conjoin its actions with what    *)
(* happens to the sketches.                                                *)
(***************************************************************************)
EXTENDS Integers, Sequences, SequencesExt

CONSTANTS
  NumWorkers,  \* workers, one shard goroutine each
  BatchCap,    \* capacity of a batch (defaultDeltaBatchSize, 64)
  PoolSize,    \* capacity of batchCh (DefaultBatchPoolSize, 8)
  Delta        \* what a worker can emit

ASSUME PipeAssumption ==
  /\ NumWorkers \in Nat
  /\ BatchCap \in Nat \ {0}
  /\ PoolSize \in Nat \ {0}

Worker == 1..NumWorkers

VARIABLES
  batchBuf,     \* the batch worker w is filling
  handoff,      \* where w is in flushBatch: "none", "send" or "take"
  batchCh,      \* full batches on their way to shard w
  batchClosed,  \* w has closed batchCh
  recycleCh,    \* batches on their way back
  shardPc,      \* shard goroutine w: "range", "merge", "recycle", "done"
  shardBatch    \* the batch shard w received last

pipeVars ==
  <<batchBuf, handoff, batchCh, batchClosed, recycleCh, shardPc, shardBatch>>

Batch == Seq(Delta)

TypeOK ==
  /\ batchBuf \in [Worker -> Batch]
  /\ handoff \in [Worker -> {"none", "send", "take"}]
  /\ batchCh \in [Worker -> Seq(Batch)]
  /\ batchClosed \in [Worker -> BOOLEAN]
  /\ recycleCh \in [Worker -> Seq(Batch)]
  /\ shardPc \in [Worker -> {"range", "merge", "recycle", "done"}]
  /\ shardBatch \in [Worker -> Batch]

(* recycleCh is filled to its capacity; newBatchedWorker takes the first.  *)
Init ==
  /\ batchBuf = [w \in Worker |-> << >>]
  /\ handoff = [w \in Worker |-> "none"]
  /\ batchCh = [w \in Worker |-> << >>]
  /\ batchClosed = [w \in Worker |-> FALSE]
  /\ recycleCh = [w \in Worker |-> [j \in 1..PoolSize |-> << >>]]
  /\ shardPc = [w \in Worker |-> "range"]
  /\ shardBatch = [w \in Worker |-> << >>]

-----------------------------------------------------------------------------
(* Worker side *)

(* A delta joins the batch; a full batch makes the worker enter flushBatch,*)
(* which it must leave before it does anything else.  A worker whose       *)
(* goroutine has closed batchCh has returned.                              *)
Emit(w, d) ==
  LET buf == Append(batchBuf[w], d) IN
  /\ handoff[w] = "none"
  /\ ~ batchClosed[w]
  /\ batchBuf' = [batchBuf EXCEPT ![w] = buf]
  /\ handoff' = [handoff EXCEPT ![w] =
                   IF Len(buf) >= BatchCap THEN "send" ELSE "none"]
  /\ UNCHANGED <<batchCh, batchClosed, recycleCh, shardPc, shardBatch>>

(* The flushBatch at the end of Flush: nothing to do for an empty batch.   *)
BeginFlushBatch(w) ==
  /\ handoff[w] = "none"
  /\ ~ batchClosed[w]
  /\ handoff' = [handoff EXCEPT ![w] =
                   IF batchBuf[w] = << >> THEN "none" ELSE "send"]
  /\ UNCHANGED <<batchBuf, batchCh, batchClosed, recycleCh, shardPc,
                 shardBatch>>

(* w.batchCh <- w.batchBuf, blocked while the channel is full.             *)
SendBatch(w) ==
  /\ handoff[w] = "send"
  /\ Len(batchCh[w]) < PoolSize
  /\ batchCh' = [batchCh EXCEPT ![w] = Append(@, batchBuf[w])]
  /\ batchBuf' = [batchBuf EXCEPT ![w] = << >>]
  /\ handoff' = [handoff EXCEPT ![w] = "take"]
  /\ UNCHANGED <<batchClosed, recycleCh, shardPc, shardBatch>>

(* Mutant: a new batch is allocated instead of taking one from the pool.   *)
TakeFresh(w) ==
  /\ handoff[w] = "take"
  /\ handoff' = [handoff EXCEPT ![w] = "none"]
  /\ UNCHANGED <<batchBuf, batchCh, batchClosed, recycleCh, shardPc,
                 shardBatch>>

(* w.batchBuf = <-w.recycleCh, blocked while the channel is empty.         *)
TakeBatch(w) ==
  /\ handoff[w] = "take"
  /\ recycleCh[w] # << >>
  /\ batchBuf' = [batchBuf EXCEPT ![w] = Head(recycleCh[w])]
  /\ recycleCh' = [recycleCh EXCEPT ![w] = Tail(@)]
  /\ handoff' = [handoff EXCEPT ![w] = "none"]
  /\ UNCHANGED <<batchCh, batchClosed, shardPc, shardBatch>>

(* The deferred close(w.batchCh) of a worker that has finished Flush.      *)
CloseBatchCh(w) ==
  /\ handoff[w] = "none"
  /\ ~ batchClosed[w]
  /\ batchClosed' = [batchClosed EXCEPT ![w] = TRUE]
  /\ UNCHANGED <<batchBuf, handoff, batchCh, recycleCh, shardPc, shardBatch>>

-----------------------------------------------------------------------------
(* Shard side *)

ShardReceive(w) ==
  /\ shardPc[w] = "range"
  /\ batchCh[w] # << >>
  /\ shardBatch' = [shardBatch EXCEPT ![w] = Head(batchCh[w])]
  /\ batchCh' = [batchCh EXCEPT ![w] = Tail(@)]
  /\ shardPc' = [shardPc EXCEPT ![w] = "merge"]
  /\ UNCHANGED <<batchBuf, handoff, batchClosed, recycleCh>>

(* Mutants: batch.deltas is not truncated; an error ends the goroutine.    *)
MergeBatchKeeps(w) ==
  /\ shardPc[w] = "merge"
  /\ shardPc' = [shardPc EXCEPT ![w] = "recycle"]
  /\ UNCHANGED <<batchBuf, handoff, batchCh, batchClosed, recycleCh,
                 shardBatch>>

MergeBatchStops(w) ==
  /\ shardPc[w] = "merge"
  /\ shardPc' = [shardPc EXCEPT ![w] = "done"]
  /\ UNCHANGED <<batchBuf, handoff, batchCh, batchClosed, recycleCh,
                 shardBatch>>

(* MergeDelta for every delta of the batch, then batch.deltas[:0].  The    *)
(* shard sketch belongs to this goroutine: one step.                       *)
MergeBatch(w) ==
  /\ shardPc[w] = "merge"
  /\ shardBatch' = [shardBatch EXCEPT ![w] = << >>]
  /\ shardPc' = [shardPc EXCEPT ![w] = "recycle"]
  /\ UNCHANGED <<batchBuf, handoff, batchCh, batchClosed, recycleCh>>

(* Mutant: the batch is left to the garbage collector.                     *)
RecycleDrops(w) ==
  /\ shardPc[w] = "recycle"
  /\ shardPc' = [shardPc EXCEPT ![w] = "range"]
  /\ UNCHANGED <<batchBuf, handoff, batchCh, batchClosed, recycleCh,
                 shardBatch>>

(* recycleCh <- batch, which would block on a full channel.                *)
RecycleBatch(w) ==
  /\ shardPc[w] = "recycle"
  /\ Len(recycleCh[w]) < PoolSize + 1
  /\ recycleCh' = [recycleCh EXCEPT ![w] = Append(@, shardBatch[w])]
  /\ shardBatch' = [shardBatch EXCEPT ![w] = << >>]
  /\ shardPc' = [shardPc EXCEPT ![w] = "range"]
  /\ UNCHANGED <<batchBuf, handoff, batchCh, batchClosed>>

(* The range loop ends: channel closed and drained; wg.Done.               *)
ShardExit(w) ==
  /\ shardPc[w] = "range"
  /\ batchCh[w] = << >>
  /\ batchClosed[w]
  /\ shardPc' = [shardPc EXCEPT ![w] = "done"]
  /\ UNCHANGED <<batchBuf, handoff, batchCh, batchClosed, recycleCh,
                 shardBatch>>

ShardStep(w) ==
  ShardReceive(w) \/ MergeBatch(w) \/ RecycleBatch(w) \/ ShardExit(w)

-----------------------------------------------------------------------------
(* The transport by itself, under workers that emit anything and close     *)
(* their channel at any time they are not inside flushBatch.               *)

Terminated ==
  /\ \A w \in Worker : shardPc[w] = "done"
  /\ UNCHANGED pipeVars

Next ==
  \/ \E w \in Worker :
       \/ \E d \in Delta : Emit(w, d)
       \/ BeginFlushBatch(w)
       \/ SendBatch(w)
       \/ TakeBatch(w)
       \/ CloseBatchCh(w)
       \/ ShardStep(w)
  \/ Terminated

Spec == Init /\ [][Next]_pipeVars

(* The scheduler runs goroutines that can run; emitting is up to the       *)
(* stream.                                                                 *)
Fairness ==
  \A w \in Worker : /\ WF_pipeVars(SendBatch(w))
                    /\ WF_pipeVars(TakeBatch(w))
                    /\ WF_pipeVars(ShardStep(w))

FairSpec == Spec /\ Fairness

-----------------------------------------------------------------------------
(* Properties *)

WorkerHolds(w) == IF handoff[w] = "take" THEN 0 ELSE 1
ShardHolds(w) == IF shardPc[w] \in {"merge", "recycle"} THEN 1 ELSE 0

(* No batch of a worker's pool is ever lost or duplicated: the PoolSize + 1*)
(* batches buildBatchedWorkers allocates are with the worker, in batchCh,  *)
(* with the shard or in recycleCh.                                         *)
PoolOf(w) ==
  WorkerHolds(w) + Len(batchCh[w]) + ShardHolds(w) + Len(recycleCh[w])

PoolConserved == \A w \in Worker : PoolOf(w) = PoolSize + 1

(* A shard that returns a batch never blocks on recycleCh, whose capacity  *)
(* is the size of the pool.                                                *)
RecycleNeverBlocks ==
  \A w \in Worker :
    shardPc[w] = "recycle" => Len(recycleCh[w]) < PoolSize + 1

(* emitDelta never appends beyond the capacity of the preallocated slice   *)
(* (which would reallocate it), a batch is handed over as soon as it is    *)
(* full, no empty batch is sent, and every batch in recycleCh is empty:    *)
(* nothing a shard applied can be sent a second time.  batchCh respects its *)
(* capacity.                                                               *)
SentBatch == {b \in Batch : Len(b) \in 1..BatchCap}

BatchesOf(w) ==
  /\ Len(batchBuf[w]) <= BatchCap
  /\ Len(batchBuf[w]) = BatchCap => handoff[w] = "send"
  /\ handoff[w] = "send" => batchBuf[w] # << >>
  /\ handoff[w] = "take" => batchBuf[w] = << >>
  /\ Len(batchCh[w]) <= PoolSize
  /\ batchCh[w] \in Seq(SentBatch)
  /\ shardPc[w] # "merge" => shardBatch[w] = << >>
  /\ Len(shardBatch[w]) <= BatchCap
  /\ recycleCh[w] \in Seq({<< >>})

BatchDiscipline == \A w \in Worker : BatchesOf(w)

(* batchCh is closed only outside flushBatch (a send on it would panic),   *)
(* and a shard goroutine ends only when nothing can reach it any more.     *)
ShutdownOf(w) ==
  /\ batchClosed[w] => handoff[w] = "none"
  /\ shardPc[w] = "done" =>
       batchClosed[w] /\ batchCh[w] = << >> /\ shardBatch[w] = << >>

CleanShutdown == \A w \in Worker : ShutdownOf(w)

(* A worker inside flushBatch and its shard never wait for each other: one *)
(* of the two can move.  Stated without ENABLED, by the guards.            *)
NoMutualWait ==
  \A w \in Worker : handoff[w] # "none" =>
    \/ handoff[w] = "send" /\ Len(batchCh[w]) < PoolSize
    \/ handoff[w] = "take" /\ recycleCh[w] # << >>
    \/ shardPc[w] = "range" /\ batchCh[w] # << >>
    \/ shardPc[w] = "merge"
    \/ shardPc[w] = "recycle" /\ Len(recycleCh[w]) < PoolSize + 1

(* Emitted and not yet applied, oldest first.                              *)
InTransit(w) == shardBatch[w] \o FlattenSeq(batchCh[w]) \o batchBuf[w]

(* Every delta is applied exactly once and in order: the transport         *)
(* implements a queue per worker, although batches are reused.             *)
Fifo == INSTANCE DeltaFifo WITH queue <- [w \in Worker |-> InTransit(w)]
ExactlyOnceInOrder == Fifo!Spec

(* emitDelta returns: flushBatch does not block a worker for ever.         *)
HandoffCompletes ==
  \A w \in Worker : handoff[w] # "none" ~> handoff[w] = "none"

=============================================================================
