--------------------------- MODULE MCOctoHashMode ---------------------------
(* A Count-Min system whose rows need more bits than one word has (with    *)
(* 64-bit words: more than 5 rows of 2048 columns): words of 4 bits, three *)
(* rows of two columns, so HashModeForMatrix gives "packed128".            *)
EXTENDS OctoCounters

CONSTANT key

H == INSTANCE MatrixHash WITH WordBits <- 4

MCKey == {key}
MCRows == 3
MCCol == {0, 1}
MCHash == [k \in MCKey |-> [hash |-> 5, hi |-> 9, lo |-> 2, seeded |-> <<3, 6>>]]
MCSignOf == [k \in MCKey |-> [r \in 1..MCRows |-> 1]]
MCColOf ==
  [k \in MCKey |-> [r \in 1..MCRows |-> H!deriveIndex(MCHash[k], r-1, 2)]]
MCRefColOf ==
  [k \in MCKey |-> [r \in 1..MCRows |-> H!MatrixCol(MCHash[k], r-1, MCRows, 2)]]
=============================================================================
