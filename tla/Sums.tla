-------------------------------- MODULE Sums --------------------------------
(***************************************************************************)
(* Finite sums of integer functions.  Counters of the sketches travel      *)
(* through batches, queues and shards, and what the specifications promise *)
(* is that a sum over these places does not change.  The sum is a          *)
(* recursive function and not a fold of the community modules because its  *)
(* recursion equation is what module SumsProofs proves.                    *)
(***************************************************************************)
EXTENDS Integers, Sequences

(* f[1] + ... + f[n]. *)
PrefixSum(f, n) ==
  LET s[i \in 0..n] == IF i = 0 THEN 0 ELSE s[i-1] + f[i]
  IN  s[n]
=============================================================================
