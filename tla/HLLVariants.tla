---------------------------- MODULE HLLVariants ----------------------------
(***************************************************************************)
(* The HyperLogLogs with another estimator: HyperLogLogVariant, whose      *)
(* variant only selects the formula, and HyperLogLogHIP, which keeps the   *)
(* sum of 2^-register as it goes, in two halves of different magnitude,    *)
(* and adds to its estimate whenever a register grows.  All numbers here   *)
(* are binary fractions and exact: the sums are counted in units of        *)
(* 2^-MaxRho, the estimate in units of 1/Unit.                             *)
(***************************************************************************)
EXTENDS Integers, FiniteSets, Functions

CONSTANTS
  Node,
  Index,    \* the registers
  MaxRho,   \* the greatest value of a register
  Split,    \* values below it count in kxq0, the others in kxq1 (32)
  Unit      \* a multiple of every sum that divides

VARIABLES
  sk,    \* the sketch of each node
  seen   \* history: the maxima, and the insertions that raised one

vars == <<sk, seen>>

Zeros == [i \in Index |-> 0]
Share(rho) == 2^(MaxRho - rho)
Whole == Cardinality(Index) * Share(0)

NewVariant(v) == [variant |-> v, regs |-> Zeros]
NewHIP == [variant |-> "hip", regs |-> Zeros, kxq0 |-> Whole, kxq1 |-> 0, est |-> 0]

Init ==
  /\ sk \in [Node -> {NewVariant("regular"), NewVariant("datafusion"), NewHIP}]
  /\ seen = [n \in Node |-> [regs |-> Zeros, raised |-> 0]]

MaxOf(a, b) == IF a > b THEN a ELSE b

-----------------------------------------------------------------------------
(* Mutant: both shares go to the half of the old value.                    *)
MoveShareWithin(h, old, new) ==
  IF old < Split THEN [h EXCEPT !.kxq0 = @ - Share(old) + Share(new)]
  ELSE [h EXCEPT !.kxq1 = @ - Share(old) + Share(new)]

MoveShare(h, old, new) ==
  [h EXCEPT !.kxq0 = @ - (IF old < Split THEN Share(old) ELSE 0)
                       + (IF new < Split THEN Share(new) ELSE 0),
            !.kxq1 = @ - (IF old < Split THEN 0 ELSE Share(old))
                       + (IF new < Split THEN 0 ELSE Share(new))]

(* The estimate takes the sum from before the register grows.              *)
InsertHIP(h, i, rho) ==
  IF rho > h.regs[i]
  THEN MoveShare([h EXCEPT !.regs[i] = rho,
                           !.est = @ + (Whole * Unit) \div (h.kxq0 + h.kxq1)],
                 h.regs[i], rho)
  ELSE h

InsertVariant(h, i, rho) == [h EXCEPT !.regs[i] = MaxOf(@, rho)]

InsertWithHash(n, i, rho) ==
  /\ sk' = [sk EXCEPT ![n] = IF @.variant = "hip" THEN InsertHIP(@, i, rho)
                             ELSE InsertVariant(@, i, rho)]
  /\ seen' = [seen EXCEPT ![n].regs[i] = MaxOf(@, rho),
                          ![n].raised = IF rho > seen[n].regs[i] THEN @ + 1 ELSE @]

(* Another variant is refused, and a HIP sketch by a HIP sketch too.       *)
Merge(n, m) ==
  /\ sk[n].variant = sk[m].variant
  /\ sk[n].variant # "hip"
  /\ sk' = [sk EXCEPT ![n].regs = [i \in Index |-> MaxOf(@[i], sk[m].regs[i])]]
  /\ seen' = [seen EXCEPT ![n].regs = [i \in Index |-> MaxOf(@[i], seen[m].regs[i])]]

Snapshot(h) ==
  IF h.variant = "hip" THEN [regs |-> h.regs, kxq0 |-> h.kxq0, kxq1 |-> h.kxq1, est |-> h.est]
  ELSE [regs |-> h.regs, variant |-> h.variant]

RestoredHIP(snap) ==
  [variant |-> "hip", regs |-> snap.regs, kxq0 |-> snap.kxq0, kxq1 |-> snap.kxq1,
   est |-> snap.est]
RestoredVariant(snap) == [variant |-> snap.variant, regs |-> snap.regs]

Restart(n) ==
  /\ sk' = [sk EXCEPT ![n] = IF @.variant = "hip" THEN RestoredHIP(Snapshot(@))
                             ELSE RestoredVariant(Snapshot(@))]
  /\ UNCHANGED seen

Next ==
  \/ \E n \in Node, i \in Index, rho \in 1..MaxRho : InsertWithHash(n, i, rho)
  \/ \E n, m \in Node : Merge(n, m)
  \/ \E n \in Node : Restart(n)

-----------------------------------------------------------------------------
ShareOf(h, I) == FoldFunctionOnSet(LAMBDA r, sum : Share(r) + sum, 0, h.regs, I)

(* Every variant holds the maxima of what it was given; and the two halves *)
(* that a HIP sketch keeps as it goes are what its registers say, each for *)
(* its own range of values, so that no share is lost in the change of half *)
(* and the sum it divides by never reaches 0; each growth of a register    *)
(* counts for at least one element.                                        *)
VariantsExact ==
  \A n \in Node :
    LET h == sk[n]
        low == {i \in Index : h.regs[i] < Split}
    IN  /\ h.regs = seen[n].regs
        /\ h.variant = "hip" =>
             /\ h.kxq0 = ShareOf(h, low)
             /\ h.kxq1 = ShareOf(h, Index \ low)
             /\ h.est >= seen[n].raised * Unit
=============================================================================
