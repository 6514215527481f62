-------------------------- MODULE MCOctoCountMin ----------------------------
(* Two Count-Min workers, two rows; the keys collide in row 1 only.  tau   *)
(* moves between 1 and 2.                                                  *)
EXTENDS OctoCounters

CONSTANTS k1, k2

MCKey == {k1, k2}
MCCol == {1, 2}
MCColOf ==
  [k \in MCKey |-> [r \in 1..Rows |-> IF r > 1 \/ k = k1 THEN 1 ELSE 2]]
MCSignOf == [k \in MCKey |-> [r \in 1..Rows |-> 1]]
=============================================================================
