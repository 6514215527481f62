------------------------------ MODULE OctoHLL -------------------------------
(***************************************************************************)
(* An OctoSketch system over HyperLogLog (NewHLLSystem and its Adaptive    *)
(* form).  Registers only grow, so nothing is zeroed when it is sent: a    *)
(* worker marks the registers it changed as pending and, once tau changes  *)
(* have happened, emits the value of every pending register.  Flush emits  *)
(* all non-zero registers again.  Shards and aggregator take the maximum.  *)
(* Caller, transport and shutdown are those of OctoCounters.               *)
(***************************************************************************)
EXTENDS Integers, Sequences, FiniteSets

CONSTANTS
  NumWorkers, BatchCap, PoolSize,   \* see DeltaPipe
  InputCap,    \* capacity of an input channel (1024)
  MaxItems,    \* model bound: items sent in all
  NumRegs,     \* registers (HLLRegisterCount, 16384)
  MaxRank,     \* greatest leading-zero count (HLLRegisterBits + 1, 51)
  TauMin, TauMax, TauStep, TauInitial  \* normalised TauConfig

ASSUME HLLAssumption ==
  /\ NumWorkers \in Nat \ {0}
  /\ BatchCap \in Nat \ {0}
  /\ PoolSize \in Nat \ {0}
  /\ InputCap \in Nat \ {0}
  /\ MaxItems \in Nat
  /\ NumRegs \in Nat \ {0}
  /\ MaxRank \in Nat \ {0}
  /\ TauMin \in Nat \ {0}
  /\ TauMax \in Nat /\ TauMin <= TauMax
  /\ TauStep \in Nat
  /\ TauInitial \in TauMin..TauMax

Worker == 1..NumWorkers
Reg == 1..NumRegs
Sketch == [Reg -> 0..MaxRank]
EmptySketch == [i \in Reg |-> 0]

(* An input, as IndexAndLZ splits its CanonicalHash.                       *)
Item == [index : Reg, lz : 1..MaxRank]
Delta == [col : Reg, value : 1..MaxRank]

VARIABLES
  batchBuf, handoff, batchCh, batchClosed, recycleCh, shardPc, shardBatch,
  inputCh,       \* items sent to worker w and not yet received
  inputClosed,   \* the caller has closed inputCh[w]
  sent,          \* how many items the caller has sent
  pc,            \* worker goroutine: "range", "emit" (the pending registers),
                 \*   "flush", "close", "closed" (batchCh), "done" (doneCh)
  local,         \* the registers of worker w
  pending,       \* pendingMask
  pendingCount,
  todo,          \* registers the loop of "emit" or "flush" has not reached
  tau,           \* the shared AdaptiveTau
  shard, global, merged, aggDone,   \* see OctoCounters
  changes, emitted  \* history: registers raised, deltas emitted before Flush

Pipe == INSTANCE DeltaPipe

pipeVars ==
  <<batchBuf, handoff, batchCh, batchClosed, recycleCh, shardPc, shardBatch>>
callerVars == <<inputCh, inputClosed, sent>>
sketchVars == <<local, pending, pendingCount, changes>>
workerVars == <<pc, todo, emitted, sketchVars>>
aggVars == <<global, merged, aggDone>>
vars == <<pipeVars, callerVars, workerVars, tau, shard, aggVars>>

TypeOK ==
  /\ Pipe!TypeOK
  /\ inputCh \in [Worker -> Seq(Item)]
  /\ inputClosed \in [Worker -> BOOLEAN]
  /\ sent \in 0..MaxItems
  /\ pc \in [Worker -> {"range", "emit", "flush", "close", "closed", "done"}]
  /\ local \in [Worker -> Sketch]
  /\ pending \in [Worker -> SUBSET Reg]
  /\ pendingCount \in [Worker -> Nat]
  /\ todo \in [Worker -> SUBSET Reg]
  /\ tau \in TauMin..TauMax
  /\ shard \in [Worker -> Sketch]
  /\ global \in Sketch
  /\ merged \in 0..NumWorkers
  /\ aggDone \in BOOLEAN
  /\ changes \in [Worker -> Nat]
  /\ emitted \in [Worker -> Nat]

Init ==
  /\ Pipe!Init
  /\ inputCh = [w \in Worker |-> << >>]
  /\ inputClosed = [w \in Worker |-> FALSE]
  /\ sent = 0
  /\ pc = [w \in Worker |-> "range"]
  /\ local = [w \in Worker |-> EmptySketch]
  /\ pending = [w \in Worker |-> {}]
  /\ pendingCount = [w \in Worker |-> 0]
  /\ todo = [w \in Worker |-> {}]
  /\ tau = TauInitial
  /\ shard = [w \in Worker |-> EmptySketch]
  /\ global = EmptySketch
  /\ merged = 0
  /\ aggDone = FALSE
  /\ changes = [w \in Worker |-> 0]
  /\ emitted = [w \in Worker |-> 0]

-----------------------------------------------------------------------------
(* The caller and the TauController, as in OctoCounters                    *)

Send(w, x) ==
  /\ ~ inputClosed[w]
  /\ Len(inputCh[w]) < InputCap
  /\ sent < MaxItems
  /\ inputCh' = [inputCh EXCEPT ![w] = Append(@, x)]
  /\ sent' = sent + 1
  /\ UNCHANGED <<pipeVars, inputClosed, workerVars, tau, shard, aggVars>>

CloseInput(w) ==
  /\ ~ inputClosed[w]
  /\ inputClosed' = [inputClosed EXCEPT ![w] = TRUE]
  /\ UNCHANGED <<pipeVars, inputCh, sent, workerVars, tau, shard, aggVars>>

AdjustTau ==
  /\ tau' \in {IF tau + TauStep > TauMax THEN TauMax ELSE tau + TauStep,
               IF tau - TauStep < TauMin THEN TauMin ELSE tau - TauStep}
  /\ UNCHANGED <<pipeVars, callerVars, workerVars, shard, aggVars>>

-----------------------------------------------------------------------------
(* The worker goroutine *)

Greater(m, n) == IF m > n THEN m ELSE n

(* Mutant: the register is not marked.                                     *)
RaiseUnmarked(w, x) ==
  IF x.lz > local[w][x.index]
  THEN /\ local' = [local EXCEPT ![w][x.index] = x.lz]
       /\ pendingCount' = [pendingCount EXCEPT ![w] = @ + 1]
       /\ changes' = [changes EXCEPT ![w] = @ + 1]
       /\ UNCHANGED pending
  ELSE UNCHANGED sketchVars

(* UpdateRegister, and the marks ProcessInput makes when it changed.       *)
Raise(w, x) ==
  IF x.lz > local[w][x.index]
  THEN /\ local' = [local EXCEPT ![w][x.index] = x.lz]
       /\ pending' = [pending EXCEPT ![w] = @ \union {x.index}]
       /\ pendingCount' = [pendingCount EXCEPT ![w] = @ + 1]
       /\ changes' = [changes EXCEPT ![w] = @ + 1]
  ELSE UNCHANGED sketchVars

(* Process: the threshold is loaded and the register raised; when that was *)
(* the tau-th change, the loop over pendingMask begins.                    *)
Receive(w) ==
  /\ pc[w] = "range"
  /\ inputCh[w] # << >>
  /\ inputCh' = [inputCh EXCEPT ![w] = Tail(@)]
  /\ Raise(w, Head(inputCh[w]))
  /\ IF local'[w] # local[w] /\ pendingCount'[w] >= tau
     THEN /\ pc' = [pc EXCEPT ![w] = "emit"]
          /\ todo' = [todo EXCEPT ![w] = pending'[w]]
     ELSE UNCHANGED <<pc, todo>>
  /\ UNCHANGED <<pipeVars, inputClosed, sent, emitted, tau, shard, aggVars>>

(* One round of the loop of ProcessInput or Flush: registers in ascending  *)
(* order, with the values they have now.                                   *)
EmitRegister(w) ==
  \E i \in todo[w] :
    /\ pc[w] \in {"emit", "flush"}
    /\ \A j \in todo[w] : i <= j
    /\ Pipe!Emit(w, [col |-> i, value |-> local[w][i]])
    /\ todo' = [todo EXCEPT ![w] = @ \ {i}]
    /\ emitted' = [emitted EXCEPT ![w] = IF pc[w] = "emit" THEN @ + 1 ELSE @]
    /\ UNCHANGED <<callerVars, pc, sketchVars, tau, shard, aggVars>>

(* Mutant: one half of clearPending is missing.                            *)
ClearCountOnly(w) ==
  pendingCount' = [pendingCount EXCEPT ![w] = 0] /\ UNCHANGED <<local, changes, pending>>

ClearPending(w) ==
  /\ pending' = [pending EXCEPT ![w] = {}]
  /\ pendingCount' = [pendingCount EXCEPT ![w] = 0]
  /\ UNCHANGED <<local, changes>>

(* The last emit has returned.                                             *)
EmitDone(w) ==
  /\ pc[w] = "emit"
  /\ todo[w] = {}
  /\ handoff[w] = "none"
  /\ ClearPending(w)
  /\ pc' = [pc EXCEPT ![w] = "range"]
  /\ UNCHANGED <<pipeVars, callerVars, todo, emitted, tau, shard, aggVars>>

(* The range loop over the input ends and Flush begins.                    *)
InputEnds(w) ==
  /\ pc[w] = "range"
  /\ inputCh[w] = << >>
  /\ inputClosed[w]
  /\ pc' = [pc EXCEPT ![w] = "flush"]
  /\ todo' = [todo EXCEPT ![w] = {i \in Reg : local[w][i] > 0}]
  /\ UNCHANGED <<pipeVars, callerVars, sketchVars, emitted, tau, shard,
                 aggVars>>

(* clearPending, and the flushBatch at the end of Worker.Flush.            *)
FlushRest(w) ==
  /\ pc[w] = "flush"
  /\ todo[w] = {}
  /\ Pipe!BeginFlushBatch(w)
  /\ ClearPending(w)
  /\ pc' = [pc EXCEPT ![w] = "close"]
  /\ UNCHANGED <<callerVars, todo, emitted, tau, shard, aggVars>>

CloseBatchCh(w) ==
  /\ pc[w] = "close"
  /\ Pipe!CloseBatchCh(w)
  /\ pc' = [pc EXCEPT ![w] = "closed"]
  /\ UNCHANGED <<callerVars, todo, emitted, sketchVars, tau, shard, aggVars>>

CloseDoneCh(w) ==
  /\ pc[w] = "closed"
  /\ pc' = [pc EXCEPT ![w] = "done"]
  /\ UNCHANGED <<pipeVars, callerVars, todo, emitted, sketchVars, tau, shard,
                 aggVars>>

HandOver(w) ==
  /\ Pipe!SendBatch(w) \/ Pipe!TakeBatch(w)
  /\ UNCHANGED <<callerVars, workerVars, tau, shard, aggVars>>

WorkerStep(w) ==
  \/ Receive(w) \/ EmitRegister(w) \/ EmitDone(w) \/ InputEnds(w)
  \/ FlushRest(w) \/ CloseBatchCh(w) \/ CloseDoneCh(w) \/ HandOver(w)

-----------------------------------------------------------------------------
(* Shards and aggregator *)

(* The greatest value of the naturals in S, 0 when there is none.          *)
Greatest(S) == CHOOSE n \in S \union {0} : \A m \in S : m <= n

ValuesIn(b, i) == {b[j].value : j \in {n \in 1..Len(b) : b[n].col = i}}

(* MergeDelta for each delta of the batch.                                 *)
MergeBatch(w) ==
  /\ Pipe!MergeBatch(w)
  /\ shard' = [shard EXCEPT ![w] =
                 [i \in Reg |-> Greater(@[i], Greatest(ValuesIn(shardBatch[w], i)))]]
  /\ UNCHANGED <<callerVars, workerVars, tau, aggVars>>

ShardStep(w) ==
  \/ MergeBatch(w)
  \/ /\ Pipe!ShardReceive(w) \/ Pipe!RecycleBatch(w) \/ Pipe!ShardExit(w)
     /\ UNCHANGED <<callerVars, workerVars, tau, shard, aggVars>>

(* Mutant: the last shard wins.                                            *)
MergeShardReplaces ==
  /\ \A w \in Worker : shardPc[w] = "done"
  /\ merged < NumWorkers
  /\ merged' = merged + 1
  /\ global' = shard[merged+1]
  /\ UNCHANGED <<pipeVars, callerVars, workerVars, tau, shard, aggDone>>

MergeShard ==
  /\ \A w \in Worker : shardPc[w] = "done"
  /\ merged < NumWorkers
  /\ merged' = merged + 1
  /\ global' = [i \in Reg |-> Greater(global[i], shard[merged+1][i])]
  /\ UNCHANGED <<pipeVars, callerVars, workerVars, tau, shard, aggDone>>

AggregatorExit ==
  /\ merged = NumWorkers
  /\ ~ aggDone
  /\ aggDone' = TRUE
  /\ UNCHANGED <<pipeVars, callerVars, workerVars, tau, shard, global, merged>>

-----------------------------------------------------------------------------

Terminated == aggDone /\ UNCHANGED vars

Next ==
  \/ \E w \in Worker : \/ \E x \in Item : Send(w, x)
                       \/ CloseInput(w)
                       \/ WorkerStep(w)
                       \/ ShardStep(w)
  \/ AdjustTau
  \/ MergeShard
  \/ AggregatorExit
  \/ Terminated

Spec == Init /\ [][Next]_vars

-----------------------------------------------------------------------------
(* Properties *)

(* The greatest value of register i that worker w has sent.                *)
Sent(w, i) ==
  Greatest(  {shard[w][i]}
      \union ValuesIn(shardBatch[w], i)
      \union (UNION {ValuesIn(batchCh[w][j], i) : j \in 1..Len(batchCh[w])})
      \union ValuesIn(batchBuf[w], i))

(* What has been sent never exceeds the worker's register, and falls short *)
(* of it only while the register is pending: a mark is never cleared       *)
(* before the value is on its way.  And between two inputs fewer than tau  *)
(* changes are held back, however the threshold moved meanwhile.           *)
NothingLost ==
  \A w \in Worker :
    /\ \A i \in Reg : /\ Sent(w, i) <= local[w][i]
                       /\ i \notin pending[w] => Sent(w, i) = local[w][i]
    /\ Cardinality(pending[w]) <= pendingCount[w]
    /\ pc[w] = "range" => pendingCount[w] < TauMax
    /\ pc[w] = "emit" => todo[w] \subseteq pending[w]

(* Before Flush a change costs at most one delta: a register is sent again *)
(* only when it has grown again.                                           *)
OneDeltaPerChange ==
  \A w \in Worker :
    emitted[w] + Cardinality(IF pc[w] = "emit" THEN todo[w] ELSE pending[w])
      <= changes[w]

(* When the aggregator is done, its registers are the maximum over what    *)
(* the workers saw: the sketch of the whole stream.                        *)
Converged ==
  aggDone => /\ \A w \in Worker : inputClosed[w] /\ inputCh[w] = << >>
             /\ \A i \in Reg :
                  global[i] = Greatest({local[w][i] : w \in Worker})

=============================================================================
