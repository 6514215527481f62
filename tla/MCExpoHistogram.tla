-------------------------- MODULE MCExpoHistogram ---------------------------
(* NormL1 with late timestamps, NormL1 with gaps between timestamps and    *)
(* the smallest k, and NormL2 over two keys.                               *)
EXTENDS ExpoHistogram

MCConfig ==
  { [norm |-> "L1", k |-> 2, windowSize |-> 3,
     numKeys |-> 1, lastTime |-> 5, lateness |-> 1, items |-> 8],
    [norm |-> "L1", k |-> 1, windowSize |-> 4,
     numKeys |-> 1, lastTime |-> 6, lateness |-> 0, items |-> 8],
    [norm |-> "L2", k |-> 1, windowSize |-> 2,
     numKeys |-> 2, lastTime |-> 3, lateness |-> 0, items |-> 8] }
=============================================================================
