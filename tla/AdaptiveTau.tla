----------------------------- MODULE AdaptiveTau ----------------------------
(***************************************************************************)
(* The adaptive threshold of OctoSketch (adaptive_tau.go) and the          *)
(* TauControllers that adjust it: Run and Stop of each controller, and     *)
(* Adjust, atomic access by atomic access, by several controllers at once. *)
(* The threshold is a float64 in the code; its arithmetic is that of       *)
(* integers here (Step, Min and Max in the same unit).                     *)
(***************************************************************************)
EXTENDS Integers, Sequences

CONSTANTS
  Controller,
  MaxDepth,    \* most batches the observed channels hold together
  MaxAdjusts,  \* model bound: calls of Adjust
  CfgInitial, CfgMin, CfgMax, CfgStep, CfgTarget, CfgDeadband  \* TauConfig

ASSUME TauAssumption ==
  /\ MaxDepth \in Nat /\ MaxAdjusts \in Nat
  /\ CfgInitial \in Int /\ CfgMin \in Int /\ CfgMax \in Int
  /\ CfgStep \in Int /\ CfgTarget \in Int /\ CfgDeadband \in Int

(* normalizeTauConfig; the deprecated bounds are unset.                    *)
Min == IF CfgMin <= 0 THEN 1 ELSE CfgMin
Max == IF CfgMax < Min THEN Min ELSE CfgMax
Clamp(x) == IF x < Min THEN Min ELSE IF x > Max THEN Max ELSE x
Initial == Clamp(CfgInitial)
Step == IF CfgStep < 0 THEN -CfgStep ELSE CfgStep
Target == IF CfgTarget <= 0 THEN 10 ELSE CfgTarget
Deadband == IF CfgDeadband < 0 THEN 0 ELSE CfgDeadband

Depth == 0..MaxDepth

VARIABLES
  current,   \* the threshold
  prevQ, hasPrev,
  pc,        \* goroutine of a controller: "off" before Run, "select",
             \*   in Adjust "prev", "predict", "has", "load" or "cas",
             \*   and "exited" when doneCh is closed
  stopCh,    \* closed by Stop
  stopped,   \* Stop has returned
  queueLen, prev, predicted, cur,  \* local variables of Adjust
  seen, moves, adjusts  \* history: depths observed, moves made, calls begun

adjustVars == <<queueLen, prev, predicted, cur>>
vars == <<current, prevQ, hasPrev, pc, stopCh, stopped, adjustVars,
          seen, moves, adjusts>>

TypeOK ==
  /\ current \in Int
  /\ prevQ \in Depth
  /\ hasPrev \in BOOLEAN
  /\ pc \in [Controller -> {"off", "select", "prev", "predict", "has", "load",
                            "cas", "exited"}]
  /\ stopCh \in [Controller -> BOOLEAN]
  /\ stopped \in [Controller -> BOOLEAN]
  /\ queueLen \in [Controller -> Depth]
  /\ prev \in [Controller -> Depth]
  /\ predicted \in [Controller -> Int]
  /\ cur \in [Controller -> Int]
  /\ seen \subseteq Depth
  /\ moves \in Seq({1, -1})
  /\ adjusts \in 0..MaxAdjusts

Init ==
  /\ current = Initial
  /\ prevQ = 0
  /\ hasPrev = FALSE
  /\ pc = [p \in Controller |-> "off"]
  /\ stopCh = [p \in Controller |-> FALSE]
  /\ stopped = [p \in Controller |-> FALSE]
  /\ queueLen = [p \in Controller |-> 0]
  /\ prev = [p \in Controller |-> 0]
  /\ predicted = [p \in Controller |-> 0]
  /\ cur = [p \in Controller |-> 0]
  /\ seen = {}
  /\ moves = << >>
  /\ adjusts = 0

Goto(p, l) == pc' = [pc EXCEPT ![p] = l]

-----------------------------------------------------------------------------
(* Life of a controller *)

(* Run; calling it twice is misuse (doneCh would be closed twice).         *)
Run(p) ==
  /\ pc[p] = "off"
  /\ Goto(p, "select")
  /\ UNCHANGED <<current, prevQ, hasPrev, stopCh, stopped, adjustVars, seen,
                 moves, adjusts>>

(* Stop closes stopCh (a second Stop would panic) ...                      *)
Stop(p) ==
  /\ ~ stopCh[p]
  /\ stopCh' = [stopCh EXCEPT ![p] = TRUE]
  /\ UNCHANGED <<current, prevQ, hasPrev, pc, stopped, adjustVars, seen,
                 moves, adjusts>>

(* ... and waits for doneCh.                                               *)
StopReturn(p) ==
  /\ stopCh[p]
  /\ pc[p] = "exited"
  /\ stopped' = [stopped EXCEPT ![p] = TRUE]
  /\ UNCHANGED <<current, prevQ, hasPrev, pc, stopCh, adjustVars, seen, moves,
                 adjusts>>

(* The stopCh branch of the select.                                        *)
Exit(p) ==
  /\ pc[p] = "select"
  /\ stopCh[p]
  /\ Goto(p, "exited")
  /\ UNCHANGED <<current, prevQ, hasPrev, stopCh, stopped, adjustVars, seen,
                 moves, adjusts>>

-----------------------------------------------------------------------------
(* Adjust *)

(* Mutant: hasPrev.Swap(true), before there is a prevQ.                    *)
AdjustSwaps(p, q) ==
  /\ pc[p] = "select"
  /\ adjusts < MaxAdjusts
  /\ Step # 0
  /\ adjusts' = adjusts + 1
  /\ seen' = seen \cup {q}
  /\ queueLen' = [queueLen EXCEPT ![p] = q]
  /\ prev' = [prev EXCEPT ![p] = q]
  /\ hasPrev' = TRUE
  /\ Goto(p, IF hasPrev THEN "prev" ELSE "predict")
  /\ UNCHANGED <<current, prevQ, stopCh, stopped, predicted, cur, moves>>

(* The ticker branch: Adjust is called with the observed depth q, a sum of *)
(* channel lengths; with Step 0 it returns at once.  hasPrev.Load decides  *)
(* where prev comes from.                                                  *)
Adjust(p, q) ==
  /\ pc[p] = "select"
  /\ adjusts < MaxAdjusts
  /\ Step # 0
  /\ adjusts' = adjusts + 1
  /\ seen' = seen \cup {q}
  /\ queueLen' = [queueLen EXCEPT ![p] = q]
  /\ prev' = [prev EXCEPT ![p] = q]
  /\ Goto(p, IF hasPrev THEN "prev" ELSE "predict")
  /\ UNCHANGED <<current, prevQ, hasPrev, stopCh, stopped, predicted, cur, moves>>

LoadPrevQ(p) ==
  /\ pc[p] = "prev"
  /\ prev' = [prev EXCEPT ![p] = prevQ]
  /\ Goto(p, "predict")
  /\ UNCHANGED <<current, prevQ, hasPrev, stopCh, stopped, queueLen,
                 predicted, cur, seen, moves, adjusts>>

(* predicted is computed and prevQ stored.                                 *)
StorePrevQ(p) ==
  /\ pc[p] = "predict"
  /\ predicted' = [predicted EXCEPT ![p] = 2 * queueLen[p] - prev[p]]
  /\ prevQ' = queueLen[p]
  /\ Goto(p, "has")
  /\ UNCHANGED <<current, hasPrev, stopCh, stopped, queueLen, prev, cur, seen,
                 moves, adjusts>>

(* 1 to raise the threshold, -1 to lower it, 0 inside the deadband.        *)
Dir(x) == IF x > Target + Deadband THEN 1
          ELSE IF x < Target - Deadband THEN -1 ELSE 0

StoreHasPrev(p) ==
  /\ pc[p] = "has"
  /\ hasPrev' = TRUE
  /\ Goto(p, IF Dir(predicted[p]) = 0 THEN "select" ELSE "load")
  /\ UNCHANGED <<current, prevQ, stopCh, stopped, adjustVars, seen, moves,
                 adjusts>>

Moved(x, dir) ==
  IF dir > 0 THEN (IF x + Step > Max THEN Max ELSE x + Step)
             ELSE (IF x - Step < Min THEN Min ELSE x - Step)

(* Mutant: the call does not return when there is no room to move.         *)
LoadCurrentSpins(p) ==
  /\ pc[p] = "load"
  /\ cur' = [cur EXCEPT ![p] = current]
  /\ Goto(p, IF Moved(current, Dir(predicted[p])) = current
             THEN "load" ELSE "cas")
  /\ UNCHANGED <<current, prevQ, hasPrev, stopCh, stopped, queueLen, prev,
                 predicted, seen, moves, adjusts>>

(* The CAS loop: the call returns when there is no room to move.           *)
LoadCurrent(p) ==
  /\ pc[p] = "load"
  /\ cur' = [cur EXCEPT ![p] = current]
  /\ Goto(p, IF Moved(current, Dir(predicted[p])) = current
             THEN "select" ELSE "cas")
  /\ UNCHANGED <<current, prevQ, hasPrev, stopCh, stopped, queueLen, prev,
                 predicted, seen, moves, adjusts>>

(* Mutant: a plain store.                                                  *)
StoreCurrent(p) ==
  /\ pc[p] = "cas"
  /\ current' = Moved(cur[p], Dir(predicted[p]))
  /\ moves' = Append(moves, Dir(predicted[p]))
  /\ Goto(p, "select")
  /\ UNCHANGED <<prevQ, hasPrev, stopCh, stopped, adjustVars, seen, adjusts>>

CompareAndSwap(p) ==
  /\ pc[p] = "cas"
  /\ IF current = cur[p]
     THEN /\ current' = Moved(cur[p], Dir(predicted[p]))
          /\ moves' = Append(moves, Dir(predicted[p]))
          /\ Goto(p, "select")
     ELSE /\ Goto(p, "load")
          /\ UNCHANGED <<current, moves>>
  /\ UNCHANGED <<prevQ, hasPrev, stopCh, stopped, adjustVars, seen, adjusts>>

InAdjust(p) ==
  \/ LoadPrevQ(p) \/ StorePrevQ(p) \/ StoreHasPrev(p)
  \/ LoadCurrent(p) \/ CompareAndSwap(p)

-----------------------------------------------------------------------------

Next ==
  \E p \in Controller :
    \/ Run(p) \/ Stop(p) \/ StopReturn(p) \/ Exit(p)
    \/ \E q \in Depth : Adjust(p, q)
    \/ InAdjust(p)

Spec == Init /\ [][Next]_vars

(* select picks among ready branches at random: a stop request is seen in  *)
(* the end although ticks keep coming, hence strong fairness of Exit.      *)
Fairness ==
  \A p \in Controller :
    WF_vars(InAdjust(p)) /\ SF_vars(Exit(p)) /\ WF_vars(StopReturn(p))

FairSpec == Spec /\ Fairness

-----------------------------------------------------------------------------
(* Properties *)

(* The threshold never leaves [Min, Max], whoever adjusts it: Process sees *)
(* no threshold below 1 and none above the delay bound.                    *)
InBounds == current \in Min..Max

(* The threshold after the first n of the moves ms, one after the other.   *)
Replay(ms, n) ==
  LET r[i \in 0..n] == IF i = 0 THEN Initial ELSE Moved(r[i-1], ms[i])
  IN  r[n]

(* No adjustment is lost: the threshold is the result of all the moves     *)
(* made, one after the other, although load and store are two accesses.    *)
NoLostMove == current = Replay(moves, Len(moves))

(* A prediction is never computed from a depth nobody observed: prevQ is   *)
(* stored before hasPrev announces it.                                     *)
PrevIsReal ==
  \A p \in Controller : pc[p] \in {"predict", "has"} => prev[p] \in seen

(* A call of Adjust returns, and Stop returns when Run has been called.    *)
CallsReturn ==
  \A p \in Controller :
    /\ pc[p] \in {"prev", "predict", "has", "load", "cas"} ~> pc[p] = "select"
    /\ stopCh[p] /\ pc[p] # "off" ~> stopped[p]
=============================================================================
