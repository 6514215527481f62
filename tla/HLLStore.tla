------------------------------ MODULE HLLStore ------------------------------
(***************************************************************************)
(* The registers of a HyperLogLog.  A sketch that is born sparse keeps its *)
(* non-zero registers in a list with one entry per register (sorted, here  *)
(* a function) and a buffer of recent entries (temp); it promotes itself   *)
(* to a dense array when Threshold registers are in use, and goes back     *)
(* only when it is reset.  The registers that grew since a snapshot are    *)
(* packed into a delta, which a transport may deliver late, twice or in    *)
(* another order; a sketch that was serialized comes back dense.           *)
(***************************************************************************)
EXTENDS Integers, Sequences, FiniteSets, Functions, FiniteSetsExt

CONSTANTS
  Node,
  Index,      \* the registers, integers from 0
  Rho,        \* the values above 0 that a register can take
  TempCap,    \* sparseTempCap
  Threshold,  \* SparsePromoteThreshold
  Crossover,  \* SparseCrossoverNonZero
  Sender,     \* the nodes that send deltas
  MaxDeltas   \* bound on the deltas one node sends

VARIABLES
  sk,    \* the sketch of each node, its caller's snapshot and the deltas sent
  seen   \* history: the maxima each node should hold, the deltas it was given

vars == <<sk, seen>>

(* What a sketch is built from: 2^p registers, values that a hash can have. *)
Dimensions ==
  /\ IsFiniteSet(Index) /\ Index \subseteq Nat
  /\ IsFiniteSet(Rho) /\ Rho \subseteq Nat \ {0}
  /\ Threshold \in Nat \ {0} /\ Sender \subseteq Node

Zeros == [i \in Index |-> 0]
NoEntries == [i \in {} |-> 0]
BornSparse == [born |-> TRUE, sparse |-> TRUE, sorted |-> NoEntries, temp |-> <<>>,
               regs |-> Zeros, snapshot |-> Zeros, sent |-> <<>>]
BornDense == [BornSparse EXCEPT !.born = FALSE, !.sparse = FALSE]

Init ==
  /\ sk \in [Node -> {BornSparse, BornDense}]
  /\ seen = [regs |-> [n \in Node |-> Zeros], got |-> [n \in Node |-> {}]]

MaxOf(a, b) == IF a > b THEN a ELSE b
At(f, i) == IF i \in DOMAIN f THEN f[i] ELSE 0

(* Some registers in the order of their indices.                           *)
Ascending(S) ==
  CHOOSE q \in [1..Cardinality(S) -> S] : \A j, k \in DOMAIN q : j < k => q[j] < q[k]

-----------------------------------------------------------------------------
(* The sparse store.                                                       *)

(* Mutant: the buffered entries replace the listed ones.                   *)
flushReplaces(h) ==
  LET buffered == [i \in {e[1] : e \in Range(h.temp)} |->
                     Max({e[2] : e \in {x \in Range(h.temp) : x[1] = i}})]
  IN  [h EXCEPT !.sorted = [i \in DOMAIN buffered \cup DOMAIN @ |->
                              IF i \in DOMAIN buffered THEN buffered[i] ELSE @[i]],
                !.temp = <<>>]

(* The buffer is merged into the list, the greater value kept.             *)
flush(h) ==
  LET entries == Range(h.temp) \cup {<<i, h.sorted[i]>> : i \in DOMAIN h.sorted}
  IN  [h EXCEPT !.sorted = [i \in {e[1] : e \in entries} |->
                              Max({e[2] : e \in {x \in entries : x[1] = i}})],
                !.temp = <<>>]

insert(h, i, rho) ==
  LET s == [h EXCEPT !.temp = Append(@, <<i, rho>>)]
  IN  IF Len(s.temp) >= TempCap THEN flush(s) ELSE s

promote(h) ==
  IF h.sparse
  THEN [h EXCEPT !.sparse = FALSE, !.sorted = NoEntries, !.temp = <<>>,
                 !.regs = [i \in Index |-> At(flush(h).sorted, i)]]
  ELSE h

(* The exact count of registers, a flush, is taken only when the two lists *)
(* together could reach the threshold.                                     *)
sparseInsert(h, i, rho) ==
  LET s == insert(h, i, rho)
  IN  IF Cardinality(DOMAIN s.sorted) + Len(s.temp) < Threshold THEN s
      ELSE IF Cardinality(DOMAIN flush(s).sorted) < Threshold THEN flush(s)
      ELSE promote(s)

applyRegister(h, i, rho) ==
  IF h.sparse THEN sparseInsert(h, i, rho)
  ELSE [h EXCEPT !.regs[i] = MaxOf(@, rho)]

-----------------------------------------------------------------------------
InsertWithHash(n, i, rho) ==
  /\ sk' = [sk EXCEPT ![n] = applyRegister(@, i, rho)]
  /\ seen' = [seen EXCEPT !.regs[n][i] = MaxOf(@, rho)]

(* UpdateRegister, SetRegisterIfGreater and the worker and delta paths     *)
(* that use them: a sparse sketch promotes first.                          *)
UpdateRegister(n, i, rho) ==
  /\ sk' = [sk EXCEPT ![n] = applyRegister(promote(@), i, rho)]
  /\ seen' = [seen EXCEPT !.regs[n][i] = MaxOf(@, rho)]

(* Estimate, Merge's forEach and the snapshots flush the list they read.   *)
Estimate(n) ==
  /\ sk[n].sparse
  /\ sk' = [sk EXCEPT ![n] = flush(@)]
  /\ UNCHANGED seen

(* The entries of m, in the order of their registers, one after the other: *)
(* n may promote in the middle.                                            *)
applyAll(h, from) ==
  LET order == Ascending(DOMAIN from)
      after[k \in 0..Len(order)] ==
        IF k = 0 THEN h ELSE applyRegister(after[k-1], order[k], from[order[k]])
  IN  after[Len(order)]

MergeSparse(n, m) ==
  LET other == flush(sk[m])
      into == IF n = m THEN other ELSE sk[n]
  IN  [sk EXCEPT ![m] = other, ![n] = applyAll(into, other.sorted)]

MergeDense(n, m) ==
  LET into == promote(sk[n])
      from == IF sk[m].sparse THEN flush(sk[m]).sorted ELSE sk[m].regs
  IN  [sk EXCEPT
         ![m] = IF sk[m].sparse THEN flush(sk[m]) ELSE sk[m],
         ![n] = [into EXCEPT !.regs = [i \in Index |-> MaxOf(into.regs[i], At(from, i))]]]

Merge(n, m) ==
  /\ sk' = IF sk[n].sparse /\ sk[m].sparse THEN MergeSparse(n, m) ELSE MergeDense(n, m)
  /\ seen' = [seen EXCEPT !.regs[n] = [i \in Index |-> MaxOf(@[i], seen.regs[m][i])]]

Reset(n) ==
  /\ sk' = [sk EXCEPT ![n] = [(IF sk[n].born THEN BornSparse ELSE BornDense) EXCEPT
                                !.snapshot = sk[n].snapshot, !.sent = sk[n].sent]]
  /\ seen' = [seen EXCEPT !.regs[n] = Zeros, !.got[n] = {}]

-----------------------------------------------------------------------------
(* The packed form of some registers, in states and in deltas: in the      *)
(* order of the indices, the distance from the one before, and the value.  *)
RegisterSlice(h) == promote(h).regs
NonZero(regs) == {i \in Index : regs[i] > 0}

pack(f) ==
  LET order == Ascending(DOMAIN f)
  IN  [k \in DOMAIN order |->
         <<order[k] - (IF k = 1 THEN 0 ELSE order[k-1]), f[order[k]]>>]

(* A distance of 0 is refused, but for the first.                          *)
Readable(packed) == \A k \in 2..Len(packed) : packed[k][1] > 0

unpack(packed) ==
  LET index[k \in 0..Len(packed)] == IF k = 0 THEN 0 ELSE index[k-1] + packed[k][1]
  IN  [i \in {index[k] : k \in DOMAIN packed} |->
         packed[CHOOSE k \in DOMAIN packed : index[k] = i][2]]

(* The portable state: packed below Crossover, whole from there.           *)
setStateRegisters(regs) ==
  IF Cardinality(NonZero(regs)) < Crossover
  THEN [packed |-> TRUE, registers |-> pack([i \in NonZero(regs) |-> regs[i]])]
  ELSE [packed |-> FALSE, registers |-> regs]

registersFromState(st) ==
  IF st.packed THEN [i \in Index |-> At(unpack(st.registers), i)] ELSE st.registers

(* Every form is read back into a dense sketch, whatever was written.      *)
Restart(n, form) ==
  LET regs == RegisterSlice(sk[n])
      st == setStateRegisters(regs)
  IN  /\ form = "portable" /\ st.packed => Readable(st.registers)
      /\ sk' = [sk EXCEPT ![n] =
                  [BornDense EXCEPT !.regs = IF form = "portable" THEN registersFromState(st)
                                             ELSE regs,
                                    !.snapshot = sk[n].snapshot, !.sent = sk[n].sent]]
      /\ UNCHANGED seen

-----------------------------------------------------------------------------
(* Deltas.                                                                 *)

ComputeRegisterDelta(h) ==
  LET current == RegisterSlice(h)
  IN  [i \in {j \in Index : current[j] > h.snapshot[j]} |-> current[i]]

(* The caller takes its next snapshot with the delta.                      *)
SendDelta(n) ==
  /\ Len(sk[n].sent) < MaxDeltas
  /\ LET h == IF sk[n].sparse THEN flush(sk[n]) ELSE sk[n]
     IN  sk' = [sk EXCEPT ![n] = [h EXCEPT
                  !.sent = Append(h.sent, pack(ComputeRegisterDelta(sk[n]))),
                  !.snapshot = RegisterSlice(sk[n])]]
  /\ UNCHANGED seen

(* Any delta of n, whenever, however often.                                *)
ApplyRegisterDelta(n, k, m) ==
  LET delta == unpack(sk[n].sent[k])
      into == promote(sk[m])
  IN  /\ Readable(sk[n].sent[k])
      /\ sk' = [sk EXCEPT ![m] =
                  [into EXCEPT !.regs = [i \in Index |-> MaxOf(into.regs[i], At(delta, i))]]]
      /\ seen' = [seen EXCEPT !.regs[m] = [i \in Index |-> MaxOf(@[i], At(delta, i))],
                              !.got[m] = @ \cup {<<n, k>>}]

Next ==
  \/ \E n \in Node, i \in Index, rho \in Rho :
       InsertWithHash(n, i, rho) \/ UpdateRegister(n, i, rho)
  \/ \E n \in Node : Estimate(n) \/ Reset(n)
  \/ \E n \in Node, form \in {"gob", "portable", "msgpack"} : Restart(n, form)
  \/ \E n, m \in Node : Merge(n, m)
  \/ \E n \in Sender : SendDelta(n)
  \/ \E n \in Sender, m \in Node : \E k \in DOMAIN sk[n].sent : ApplyRegisterDelta(n, k, m)

Spec == Init /\ [][Next]_vars

-----------------------------------------------------------------------------
(* In either form, and however it was reached, the registers are the       *)
(* maxima of what was inserted and merged; and a sketch that is still      *)
(* sparse has fewer than Threshold registers in use, so that its estimate  *)
(* by linear counting never sees a full sketch.                            *)
RegistersAreMaxima ==
  \A n \in Node :
    /\ RegisterSlice(sk[n]) = seen.regs[n]
    /\ sk[n].sparse => Cardinality(NonZero(seen.regs[n])) < Threshold

(* A node that was given every delta of a sender, in any order and some    *)
(* of them twice, since it was last reset itself, holds all that the       *)
(* sender held at the last of them.                                        *)
DeltasCover ==
  \A n \in Sender, m \in Node :
    {<<n, k>> : k \in DOMAIN sk[n].sent} \subseteq seen.got[m]
      => \A i \in Index : RegisterSlice(sk[m])[i] >= sk[n].snapshot[i]
=============================================================================
