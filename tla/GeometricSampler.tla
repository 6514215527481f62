-------------------------- MODULE GeometricSampler --------------------------
(***************************************************************************)
(* common/sampling.go: admission of candidates by geometric gaps.  The     *)
(* candidates are the rows of one item after the other.  A sketch either   *)
(* calls Admit for each row or AdmitRows for all rows of an item, and may  *)
(* mix the two.  The random numbers of a seed are the gaps they turn into. *)
(***************************************************************************)
EXTENDS Integers, Sequences, FiniteSets

CONSTANTS
  Gap,        \* gaps nextGap may return
  TapeLen,    \* model bound: gaps a sampler draws
  RowCount,   \* row counts AdmitRows is called with
  MaskWidth,  \* bits of a mask (64)
  MaxSkip     \* math.MaxInt64: no gap, and no skip, is larger

VARIABLES
  sk,    \* the sampler and the gaps its seed stands for
  seen   \* history: candidates it was given and those it admitted

vars == <<sk, seen>>

(* What a sampler is used with.                                            *)
Parameters ==
  /\ TapeLen \in Nat \ {0} /\ MaskWidth \in Nat /\ MaxSkip \in Nat
  /\ Gap \subseteq 0..MaxSkip
  /\ RowCount \subseteq Int

(* Reset reads the first gap at once; rate 1 has no generator.             *)
Reset(tape, exact) ==
  [tape |-> tape, exact |-> exact, skip |-> IF exact THEN 0 ELSE tape[1],
   drawn |-> IF exact THEN 0 ELSE 1]

NoCandidates == [at |-> 0, admitted |-> {}]

Init ==
  /\ \E tape \in [1..TapeLen -> Gap], exact \in BOOLEAN : sk = Reset(tape, exact)
  /\ seen = NoCandidates

Clamped(rows) == IF rows > MaskWidth THEN MaskWidth ELSE IF rows < 0 THEN 0 ELSE rows

(* Mutant: an admitted candidate is not counted itself.                    *)
PlaceOfGaps(s, n) ==
  LET place[i \in 0..n] == IF i = 0 THEN s.skip ELSE place[i-1] + s.tape[s.drawn+i]
  IN  place

(* Where in the item, counted from its first row, the candidate is that    *)
(* follows i more gaps.                                                    *)
Place(s, n) ==
  LET place[i \in 0..n] == IF i = 0 THEN s.skip ELSE place[i-1] + 1 + s.tape[s.drawn+i]
  IN  place

(* The gaps that AdmitRows uses up: one for each place within the item.    *)
Used(s, rows) ==
  LET left == TapeLen - s.drawn
      place == Place(s, left)
  IN  CHOOSE m \in 0..left+1 :
        /\ \A i \in 0..m-1 : i <= left => place[i] < rows
        /\ m <= left => place[m] >= rows

AdmitRows(rows) ==
  LET n == Clamped(rows)
      m == Used(sk, n)
      place == Place(sk, m)
      rest == place[m] - n
  IN  IF sk.exact
      THEN /\ UNCHANGED sk
           /\ seen' = [at |-> seen.at + n, admitted |-> seen.admitted \cup seen.at..seen.at+n-1]
      ELSE /\ sk.drawn + m <= TapeLen
           /\ sk' = [sk EXCEPT !.skip = IF rest > MaxSkip THEN MaxSkip ELSE rest,
                               !.drawn = @ + m]
           /\ seen' = [at |-> seen.at + n,
                       admitted |-> seen.admitted \cup {seen.at + place[i] : i \in 0..m-1}]

Admit ==
  IF ~sk.exact /\ sk.skip > 0
  THEN /\ sk' = [sk EXCEPT !.skip = @ - 1]
       /\ seen' = [seen EXCEPT !.at = @ + 1]
  ELSE /\ ~sk.exact => sk.drawn < TapeLen
       /\ sk' = IF sk.exact THEN sk
                ELSE [sk EXCEPT !.skip = sk.tape[sk.drawn+1], !.drawn = @ + 1]
       /\ seen' = [at |-> seen.at + 1, admitted |-> seen.admitted \cup {seen.at}]

Reconfigure(exact) ==
  /\ seen.at > 0
  /\ sk' = Reset(sk.tape, exact)
  /\ seen' = NoCandidates

Next ==
  /\ \/ \E rows \in RowCount : AdmitRows(rows)
     \/ Admit
     \/ \E exact \in BOOLEAN : Reconfigure(exact)
  /\ seen'.at <= 2 * MaskWidth + 1

Spec == Init /\ [][Next]_vars

-----------------------------------------------------------------------------
(* Whatever the mix of calls, the gaps of the seed decide: the candidates  *)
(* admitted are those the gaps lead to, one after the other, none twice    *)
(* and none passed over where two items meet, and skip is what is left of  *)
(* the gap under way.  So AdmitRows is, seed for seed, rows times Admit.   *)
GapsDecide ==
  LET start[i \in 1..TapeLen] == IF i = 1 THEN sk.tape[1] ELSE start[i-1] + 1 + sk.tape[i]
      hit == {start[i] : i \in 1..sk.drawn}
  IN  IF sk.exact THEN seen.admitted = 0..seen.at-1
      ELSE /\ seen.admitted = {p \in hit : p < seen.at}
           /\ sk.skip = start[sk.drawn] - seen.at
=============================================================================
