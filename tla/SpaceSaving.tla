---------------------------- MODULE SpaceSaving ----------------------------
(***************************************************************************)
(* Weighted Space Saving (space_saving.go): a table of at most K keys in   *)
(* which a newcomer takes over the count of a key with the least count.    *)
(* This is what the tracker promises, without the heap that finds the      *)
(* least count; SpaceSavingHeap has the heap.                              *)
(***************************************************************************)
EXTENDS Sums, FiniteSets

CONSTANTS
  NumKeys,  \* keys are numbers from 1
  K,        \* capacity of the table
  Weight    \* weights inserted; one that is not positive changes nothing

SpaceSavingAssumption ==
  NumKeys \in Nat \ {0} /\ K \in Nat \ {0} /\ Weight \subseteq Nat \ {0}

Key == 1..NumKeys

VARIABLES
  count,     \* the count of each key, 0 when it is not in the table
  maxError,  \* how much of the count a key may have taken over
  weight     \* history: the weight inserted for each key

vars == <<count, maxError, weight>>

Tracked == {k \in Key : count[k] > 0}

NoWeight == [k \in Key |-> 0]

Init ==
  /\ count = NoWeight
  /\ maxError = NoWeight
  /\ weight = NoWeight

Insert(k, w) == weight' = [weight EXCEPT ![k] = @ + w]

UpdateTracked(k, w) ==
  /\ k \in Tracked
  /\ Insert(k, w)
  /\ count' = [count EXCEPT ![k] = @ + w]
  /\ UNCHANGED maxError

AddEntry(k, w) ==
  /\ k \notin Tracked /\ Cardinality(Tracked) < K
  /\ Insert(k, w)
  /\ count' = [count EXCEPT ![k] = w]
  /\ UNCHANGED maxError

(* Key m, one of the least, leaves the table to k.                         *)
Evict(k, w) ==
  \E m \in Tracked :
    /\ k \notin Tracked /\ Cardinality(Tracked) >= K
    /\ \A j \in Tracked : count[m] <= count[j]
    /\ Insert(k, w)
    /\ count' = [count EXCEPT ![m] = 0, ![k] = count[m] + w]
    /\ maxError' = [maxError EXCEPT ![m] = 0, ![k] = count[m]]

Reset ==
  /\ count' = NoWeight
  /\ maxError' = NoWeight
  /\ weight' = NoWeight

Update(k, w) == UpdateTracked(k, w) \/ AddEntry(k, w) \/ Evict(k, w)

Next == (\E k \in Key, w \in Weight : Update(k, w)) \/ Reset

Spec == Init /\ [][Next]_vars

-----------------------------------------------------------------------------

(* "Any item whose total weight exceeds W/k (W = sum of all weights        *)
(* inserted) is guaranteed to appear in the table."                        *)
HeavyTracked ==
  \A k \in Key : weight[k] * K > PrefixSum(weight, NumKeys) => k \in Tracked

(* A count never falls short of the true weight, and exceeds it by         *)
(* maxError at most ("true_weight >= count - maxError").                   *)
Bracketed ==
  \A k \in Tracked : /\ weight[k] <= count[k]
                     /\ count[k] - maxError[k] <= weight[k]

(* What makes it so: the counts add up to all the weight, and a key that   *)
(* is not in the table weighs no more than any that is.                    *)
TypeOK ==
  /\ count \in [Key -> Nat]
  /\ maxError \in [Key -> Nat]
  /\ weight \in [Key -> Nat]

Conserved == PrefixSum(count, NumKeys) = PrefixSum(weight, NumKeys)

UntrackedLight ==
  \A k \in Key \ Tracked :
    weight[k] > 0 => /\ Cardinality(Tracked) >= K
                     /\ \A j \in Tracked : weight[k] <= count[j]

IInv == TypeOK /\ Conserved /\ Bracketed /\ UntrackedLight
=============================================================================
