----------------------------- MODULE DeltaFifo ------------------------------
(***************************************************************************)
(* What the batched transport between an OctoSketch worker and its         *)
(* aggregator shard promises: each worker has a queue of deltas; every     *)
(* delta it emits is applied by its shard once, in emission order, any     *)
(* number of them at a time.                                               *)
(***************************************************************************)
EXTENDS Integers, Sequences

CONSTANTS Worker,  \* the workers of one system
          Delta    \* the updates a worker can emit

VARIABLE queue     \* queue[w]: emitted by w, not yet applied by its shard

Init == queue = [w \in Worker |-> << >>]

Emit(w, d) == queue' = [queue EXCEPT ![w] = Append(@, d)]

Apply(w, n) == queue' = [queue EXCEPT ![w] = SubSeq(@, n+1, Len(@))]

Next == \E w \in Worker : \/ \E d \in Delta : Emit(w, d)
                          \/ \E n \in 1..Len(queue[w]) : Apply(w, n)

Spec == Init /\ [][Next]_queue
=============================================================================
