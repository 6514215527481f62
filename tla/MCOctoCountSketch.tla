------------------------- MODULE MCOctoCountSketch --------------------------
(* One Count Sketch worker on a longer stream.  "up" and "down" share a    *)
(* cell of row 1 with opposite signs; in row 2 they have a cell each.  A   *)
(* nil input is ignored.                                                   *)
EXTENDS OctoCounters

CONSTANTS up, down, nil

MCKey == {up, down, nil}
MCIgnored == {nil}
MCCol == {1, 2}
MCColOf ==
  [k \in MCKey |-> [r \in 1..Rows |-> IF r = 2 /\ k = down THEN 2 ELSE 1]]
MCSignOf ==
  [k \in MCKey |-> [r \in 1..Rows |-> IF k = down THEN -1 ELSE 1]]
=============================================================================
