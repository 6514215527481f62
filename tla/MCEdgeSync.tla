----------------------------- MODULE MCEdgeSync -----------------------------
(* Three rows of two columns in which four keys collide in different ways. *)
EXTENDS EdgeSync

MCColOf(r, k) == CASE r = 1 -> 1 + (k % 2)
                   [] r = 2 -> 1 + ((k \div 2) % 2)
                   [] r = 3 -> IF k = 4 THEN 2 ELSE 1
MCSignOf(r, k) == IF (r + k) % 3 = 0 THEN -1 ELSE 1

Use(sketch, sync, threshold, scale, edges, n, deltas) ==
  [sketch |-> sketch, sync |-> sync, threshold |-> threshold, scale |-> scale,
   edges |-> edges, items |-> n, syncs |-> deltas]

MCConfig ==
  { Use("cs", "window", 1, 1, 1, 4, 2),   \* lossless snapshots
    Use("cs", "window", 2, 1, 2, 3, 2),   \* two edges, small changes dropped
    Use("cs", "window", 1, 1, 1, 6, 0),   \* the tracker alone
    Use("cs", "gos", 2, 1, 1, 4, 0),
    Use("cs", "gos", 3, 2, 1, 2, 0),      \* half of the rows sampled
    Use("cms", "gos", 2, 1, 2, 3, 0),
    Use("cms", "reset", 3, 2, 1, 2, 2),
    Use("cms", "reset", 2, 1, 2, 3, 2) }
=============================================================================
