---------------------------- MODULE OctoCounters ----------------------------
(***************************************************************************)
(* An OctoSketch system over counter sketches: Count-Min, Count Sketch and *)
(* DDSketch workers (NewCountMinSystem, NewCountSketchSystem,              *)
(* NewDDSketchSystem and their Adaptive forms).  Each worker keeps a local *)
(* sketch, sends a cell through the transport of DeltaPipe once it reaches *)
(* the threshold tau and zeroes it; each shard adds what arrives; when all *)
(* shards are done the aggregator merges them into the global sketch.      *)
(*                                                                         *)
(* A sketch is a function from cells to integers.  Count-Min cells go up   *)
(* by 1, Count Sketch cells by 1 or -1; a DDSketch is one row whose        *)
(* columns are the buckets.  tau is a float64 in the code; a count is an   *)
(* integer, and reaches tau when it reaches the next integer.              *)
(***************************************************************************)
EXTENDS Integers, Sequences, FiniteSets, Sums

CONSTANTS
  NumWorkers, BatchCap, PoolSize,   \* see DeltaPipe
  InputCap,    \* capacity of an input channel (1024)
  MaxItems,    \* model bound: items sent in all
  Key,         \* distinct inputs of the stream
  Ignored,     \* inputs ProcessInput returns from at once: nil, and for a
               \*   DDSketch what is not a finite positive number
  Rows,        \* rows of the sketch
  Col,         \* its columns
  ColOf,       \* ColOf[k][r]: column of key k in row r, from input.Hash
  SignOf,      \* SignOf[k][r]: what k adds in row r, 1 or -1
  RefColOf,    \* the column Update, Insert and Estimate use
  TauMin, TauMax, TauStep, TauInitial  \* normalised TauConfig

ASSUME OctoAssumption ==
  /\ NumWorkers \in Nat \ {0}
  /\ BatchCap \in Nat \ {0}
  /\ PoolSize \in Nat \ {0}
  /\ InputCap \in Nat \ {0}
  /\ MaxItems \in Nat
  /\ Rows \in Nat \ {0}
  /\ Key # {} /\ Ignored \subseteq Key
  /\ ColOf \in [Key -> [1..Rows -> Col]]
  /\ RefColOf \in [Key -> [1..Rows -> Col]]
  /\ SignOf \in [Key -> [1..Rows -> {1, -1}]]
  /\ TauMin \in Nat \ {0}
  /\ TauMax \in Nat /\ TauMin <= TauMax
  /\ TauStep \in Nat
  /\ TauInitial \in TauMin..TauMax

Worker == 1..NumWorkers
Cell == (1..Rows) \X Col
Sketch == [Cell -> Int]
EmptySketch == [c \in Cell |-> 0]

Delta == [cell : Cell, value : -TauMax..TauMax]

VARIABLES
  batchBuf, handoff, batchCh, batchClosed, recycleCh, shardPc, shardBatch,
  inputCh,      \* items sent to worker w and not yet received
  inputClosed,  \* the caller has closed inputCh[w]
  sent,         \* how many items the caller has sent
  pc,           \* worker goroutine: "range", "rows", "flush", "close",
                \*   "closed" (batchCh is), "done" (doneCh is)
  item, row,    \* the input w processes and the next row to update
  tauSeen,      \* the threshold Process loaded for it
  local,        \* the sketch of worker w
  tau,          \* the shared AdaptiveTau
  shard,        \* the sketch of shard w
  global,       \* the sketch of the aggregator
  merged,       \* how many shards it has merged
  aggDone,      \* its doneCh is closed
  ref           \* history: a single sketch per worker that was given the
                \*   same items directly

Pipe == INSTANCE DeltaPipe

pipeVars ==
  <<batchBuf, handoff, batchCh, batchClosed, recycleCh, shardPc, shardBatch>>
callerVars == <<inputCh, inputClosed, sent>>
workerVars == <<pc, item, row, tauSeen, local, ref>>
aggVars == <<global, merged, aggDone>>
vars == <<pipeVars, callerVars, workerVars, tau, shard, aggVars>>

TypeOK ==
  /\ Pipe!TypeOK
  /\ inputCh \in [Worker -> Seq(Key)]
  /\ inputClosed \in [Worker -> BOOLEAN]
  /\ sent \in 0..MaxItems
  /\ pc \in [Worker -> {"range", "rows", "flush", "close", "closed", "done"}]
  /\ item \in [Worker -> Key]
  /\ row \in [Worker -> 1..Rows]
  /\ tauSeen \in [Worker -> TauMin..TauMax]
  /\ local \in [Worker -> Sketch]
  /\ tau \in TauMin..TauMax
  /\ shard \in [Worker -> Sketch]
  /\ global \in Sketch
  /\ merged \in 0..NumWorkers
  /\ aggDone \in BOOLEAN
  /\ ref \in [Worker -> Sketch]

Init ==
  /\ Pipe!Init
  /\ inputCh = [w \in Worker |-> << >>]
  /\ inputClosed = [w \in Worker |-> FALSE]
  /\ sent = 0
  /\ pc = [w \in Worker |-> "range"]
  /\ item = [w \in Worker |-> CHOOSE k \in Key : TRUE]  \* not read before set
  /\ row = [w \in Worker |-> 1]
  /\ tauSeen = [w \in Worker |-> TauInitial]
  /\ local = [w \in Worker |-> EmptySketch]
  /\ tau = TauInitial
  /\ shard = [w \in Worker |-> EmptySketch]
  /\ global = EmptySketch
  /\ merged = 0
  /\ aggDone = FALSE
  /\ ref = [w \in Worker |-> EmptySketch]

-----------------------------------------------------------------------------
(* The caller.  RunDirect, which is given a slice instead of a channel, has*)
(* the behaviours in which every Send and the CloseInput come before the   *)
(* first Receive.                                                          *)

Send(w, k) ==
  /\ ~ inputClosed[w]
  /\ Len(inputCh[w]) < InputCap
  /\ sent < MaxItems
  /\ inputCh' = [inputCh EXCEPT ![w] = Append(@, k)]
  /\ sent' = sent + 1
  /\ UNCHANGED <<pipeVars, inputClosed, workerVars, tau, shard, aggVars>>

CloseInput(w) ==
  /\ ~ inputClosed[w]
  /\ inputClosed' = [inputClosed EXCEPT ![w] = TRUE]
  /\ UNCHANGED <<pipeVars, inputCh, sent, workerVars, tau, shard, aggVars>>

(* One Adjust of the TauController, which samples the channels one after   *)
(* the other while they change: any direction is possible.                 *)
AdjustTau ==
  /\ tau' \in {IF tau + TauStep > TauMax THEN TauMax ELSE tau + TauStep,
               IF tau - TauStep < TauMin THEN TauMin ELSE tau - TauStep}
  /\ UNCHANGED <<pipeVars, callerVars, workerVars, shard, aggVars>>

-----------------------------------------------------------------------------
(* The worker goroutine.  It is inside emitDelta while handoff is not      *)
(* "none" and takes no other step then.                                    *)

Receive(w) ==
  /\ pc[w] = "range"
  /\ inputCh[w] # << >>
  /\ inputCh' = [inputCh EXCEPT ![w] = Tail(@)]
  /\ handoff[w] = "none"
  /\ IF Head(inputCh[w]) \in Ignored
     THEN UNCHANGED <<pc, item, row, tauSeen>>
     ELSE /\ pc' = [pc EXCEPT ![w] = "rows"]
          /\ item' = [item EXCEPT ![w] = Head(inputCh[w])]
          /\ row' = [row EXCEPT ![w] = 1]
          /\ tauSeen' = [tauSeen EXCEPT ![w] = tau]
  /\ UNCHANGED <<pipeVars, inputClosed, sent, local, ref, tau, shard, aggVars>>

AbsVal(n) == IF n < 0 THEN -n ELSE n

(* Mutants: the sign is forgotten; the test is off by one.                 *)
ShouldEmitSigned(newVal, t) == newVal >= t
ShouldEmitEarly(newVal, t) == AbsVal(newVal) >= t - 1

(* |newVal| >= tau; Count-Min and DDSketch cells are never negative.       *)
ShouldEmit(newVal, t) == AbsVal(newVal) >= t

(* One round of the row loop of ProcessInput: count, and at the threshold  *)
(* emit the cell and zero it.                                              *)
ProcessRow(w) ==
  LET c == <<row[w], ColOf[item[w]][row[w]]>>
      sign == SignOf[item[w]][row[w]]
      newVal == local[w][c] + sign
  IN  /\ pc[w] = "rows"
      /\ handoff[w] = "none"
      /\ IF ShouldEmit(newVal, tauSeen[w])
         THEN /\ Pipe!Emit(w, [cell |-> c, value |-> newVal])
              /\ local' = [local EXCEPT ![w][c] = 0]
         ELSE /\ local' = [local EXCEPT ![w][c] = newVal]
              /\ UNCHANGED pipeVars
      /\ IF row[w] < Rows
         THEN row' = [row EXCEPT ![w] = @ + 1] /\ UNCHANGED pc
         ELSE pc' = [pc EXCEPT ![w] = "range"] /\ UNCHANGED row
      /\ ref' = [ref EXCEPT
                   ![w][<<row[w], RefColOf[item[w]][row[w]]>>] = @ + sign]
      /\ UNCHANGED <<callerVars, item, tauSeen, tau, shard, aggVars>>

(* The range loop ends and Flush begins.                                   *)
InputEnds(w) ==
  /\ pc[w] = "range"
  /\ inputCh[w] = << >>
  /\ inputClosed[w]
  /\ handoff[w] = "none"
  /\ pc' = [pc EXCEPT ![w] = "flush"]
  /\ UNCHANGED <<pipeVars, callerVars, item, row, tauSeen, local, ref, tau,
                 shard, aggVars>>

(* Mutant: Flush zeroes the sketch only after the last cell.               *)
FlushCellKeeps(w) ==
  \E c \in Cell :
    /\ pc[w] = "flush"
    /\ local[w][c] # 0
    /\ Pipe!Emit(w, [cell |-> c, value |-> local[w][c]])
    /\ UNCHANGED <<callerVars, workerVars, tau, shard, aggVars>>

(* sketch.Flush emits and zeroes every non-zero cell, in any order.        *)
FlushCell(w) ==
  \E c \in Cell :
    /\ pc[w] = "flush"
    /\ local[w][c] # 0
    /\ Pipe!Emit(w, [cell |-> c, value |-> local[w][c]])
    /\ local' = [local EXCEPT ![w][c] = 0]
    /\ UNCHANGED <<callerVars, pc, item, row, tauSeen, ref, tau, shard,
                   aggVars>>

(* Mutant: Worker.Flush without its flushBatch.                            *)
FlushRestKeeps(w) ==
  /\ pc[w] = "flush"
  /\ local[w] = EmptySketch
  /\ handoff[w] = "none"
  /\ pc' = [pc EXCEPT ![w] = "close"]
  /\ UNCHANGED <<pipeVars, callerVars, item, row, tauSeen, local, ref, tau,
                 shard, aggVars>>

(* The flushBatch at the end of Worker.Flush.                              *)
FlushRest(w) ==
  /\ pc[w] = "flush"
  /\ local[w] = EmptySketch
  /\ Pipe!BeginFlushBatch(w)
  /\ pc' = [pc EXCEPT ![w] = "close"]
  /\ UNCHANGED <<callerVars, item, row, tauSeen, local, ref, tau, shard,
                 aggVars>>

(* Mutant: batchCh is closed by somebody who does not wait for the handoff.*)
CloseBatchChEarly(w) ==
  /\ pc[w] = "close"
  /\ batchClosed' = [batchClosed EXCEPT ![w] = TRUE]
  /\ pc' = [pc EXCEPT ![w] = "closed"]
  /\ UNCHANGED <<batchBuf, handoff, batchCh, recycleCh, shardPc, shardBatch,
                 callerVars, item, row, tauSeen, local, ref, tau, shard,
                 aggVars>>

(* Deferred calls run last in, first out: batchCh is closed before doneCh. *)
CloseBatchCh(w) ==
  /\ pc[w] = "close"
  /\ Pipe!CloseBatchCh(w)
  /\ pc' = [pc EXCEPT ![w] = "closed"]
  /\ UNCHANGED <<callerVars, item, row, tauSeen, local, ref, tau, shard,
                 aggVars>>

CloseDoneCh(w) ==
  /\ pc[w] = "closed"
  /\ pc' = [pc EXCEPT ![w] = "done"]
  /\ UNCHANGED <<pipeVars, callerVars, item, row, tauSeen, local, ref, tau,
                 shard, aggVars>>

(* The two halves of flushBatch.                                           *)
HandOver(w) ==
  /\ Pipe!SendBatch(w) \/ Pipe!TakeBatch(w)
  /\ UNCHANGED <<callerVars, workerVars, tau, shard, aggVars>>

WorkerStep(w) ==
  \/ Receive(w) \/ ProcessRow(w) \/ InputEnds(w) \/ FlushCell(w)
  \/ FlushRest(w) \/ CloseBatchCh(w) \/ CloseDoneCh(w) \/ HandOver(w)

-----------------------------------------------------------------------------
(* Shards and aggregator *)

(* What the deltas of a batch add to cell c.                               *)
BatchWeight(b, c) ==
  PrefixSum([i \in 1..Len(b) |-> IF b[i].cell = c THEN b[i].value ELSE 0],
            Len(b))

MergeBatch(w) ==
  /\ Pipe!MergeBatch(w)
  /\ shard' = [shard EXCEPT ![w] =
                 [c \in Cell |-> @[c] + BatchWeight(shardBatch[w], c)]]
  /\ UNCHANGED <<callerVars, workerVars, tau, aggVars>>

ShardStep(w) ==
  \/ MergeBatch(w)
  \/ /\ Pipe!ShardReceive(w) \/ Pipe!RecycleBatch(w) \/ Pipe!ShardExit(w)
     /\ UNCHANGED <<callerVars, workerVars, tau, shard, aggVars>>

(* Mutant: a merge that fails is tried again.                              *)
MergeShardRetries ==
  /\ \A w \in Worker : shardPc[w] = "done"
  /\ merged < NumWorkers
  /\ UNCHANGED vars

(* After wg.Wait, the shards are merged in order.  Merge fails only for    *)
(* sketches of different dimensions or accuracy, which the constructors    *)
(* rule out.                                                               *)
MergeShard ==
  /\ \A w \in Worker : shardPc[w] = "done"
  /\ merged < NumWorkers
  /\ merged' = merged + 1
  /\ global' = [c \in Cell |-> global[c] + shard[merged+1][c]]
  /\ UNCHANGED <<pipeVars, callerVars, workerVars, tau, shard, aggDone>>

AggregatorExit ==
  /\ merged = NumWorkers
  /\ ~ aggDone
  /\ aggDone' = TRUE
  /\ UNCHANGED <<pipeVars, callerVars, workerVars, tau, shard, global, merged>>

-----------------------------------------------------------------------------

Terminated == aggDone /\ UNCHANGED vars

Next ==
  \/ \E w \in Worker : \/ \E k \in Key : Send(w, k)
                       \/ CloseInput(w)
                       \/ WorkerStep(w)
                       \/ ShardStep(w)
  \/ AdjustTau
  \/ MergeShard
  \/ AggregatorExit
  \/ Terminated

Spec == Init /\ [][Next]_vars

(* Goroutines that can run do; callers and ticker owe us nothing.          *)
Fairness ==
  /\ \A w \in Worker : WF_vars(WorkerStep(w)) /\ WF_vars(ShardStep(w))
  /\ WF_vars(MergeShard)
  /\ WF_vars(AggregatorExit)

FairSpec == Spec /\ Fairness

-----------------------------------------------------------------------------
(* Properties *)

(* What the deltas in batchCh[w] add to cell c.                            *)
QueueWeight(q, c) ==
  PrefixSum([i \in 1..Len(q) |-> BatchWeight(q[i], c)], Len(q))

Unsent(w, c) == local[w][c] + BatchWeight(batchBuf[w], c)
InFlight(w, c) == QueueWeight(batchCh[w], c) + BatchWeight(shardBatch[w], c)

(* Guarantee 3 of guarantees_test.go while the system runs: what worker w  *)
(* was given is in its sketch, on its way or in its shard, once.           *)
NothingLost ==
  \A w \in Worker, c \in Cell :
    Unsent(w, c) + InFlight(w, c) + shard[w][c] = ref[w][c]

(* ... and when the aggregator is done: the global sketch equals a single  *)
(* sketch that was given the whole stream.                                 *)
Converged ==
  aggDone => /\ \A w \in Worker : inputClosed[w] /\ inputCh[w] = << >>
             /\ \A c \in Cell : global[c] =
                  PrefixSum([w \in Worker |-> ref[w][c]], NumWorkers)

(* The delay bound of guarantees_test.go: no worker keeps tau or more back *)
(* in one cell, and no cell's shard lags behind the stream by more than    *)
(* that and what the batches of the pool can carry.                        *)
Lag == (TauMax - 1) + TauMax * BatchCap * (PoolSize + 1)

Withheld == \A w \in Worker, c \in Cell : AbsVal(local[w][c]) < TauMax

DelayBound ==
  /\ Withheld
  /\ \A w \in Worker, c \in Cell : AbsVal(ref[w][c] - shard[w][c]) <= Lag

(* Guarantee 2, communication reduction: before Flush every delta on its   *)
(* way carries at least TauMin; Flush adds at most one smaller delta per   *)
(* cell.                                                                   *)
SmallDeltas(b, c) ==
  Cardinality({i \in 1..Len(b) : b[i].cell = c /\ AbsVal(b[i].value) < TauMin})

CommunicationReduced ==
  \A w \in Worker, c \in Cell :
    SmallDeltas(shardBatch[w], c) + SmallDeltas(batchBuf[w], c)
      + PrefixSum([i \in 1..Len(batchCh[w]) |-> SmallDeltas(batchCh[w][i], c)],
                  Len(batchCh[w]))
    <= IF pc[w] \in {"range", "rows"} \/ local[w][c] # 0 THEN 0 ELSE 1

(* Done() of a worker promises that Flush is complete: the caller may rely *)
(* on the shard to end with everything in it.                              *)
DoneMeansFlushed ==
  \A w \in Worker : pc[w] \in {"closed", "done"} =>
    /\ batchClosed[w]
    /\ \A c \in Cell : Unsent(w, c) = 0
    /\ inputCh[w] = << >>

(* Guarantee 4 as guarantees_test.go states it: "the aggregator estimate   *)
(* should stay close to the true count at intermediate points in the       *)
(* stream, not only at the end".  The sharded aggregator breaks it: its    *)
(* sketch is empty until every worker is done.                             *)
OnlineAccuracy ==
  \A c \in Cell :
    AbsVal(global[c] - PrefixSum([w \in Worker |-> ref[w][c]], NumWorkers))
      <= NumWorkers * Lag

(* The workers use the transport as it is meant to be used.                *)
Transport == Pipe!Spec

(* Closing the inputs ends the workers, and then the aggregator.           *)
Shutdown ==
  /\ \A w \in Worker : inputClosed[w] ~> pc[w] = "done"
  /\ (\A w \in Worker : inputClosed[w]) ~> aggDone
=============================================================================
