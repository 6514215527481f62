----------------------------- MODULE MCDDSketch -----------------------------
(* Uncapped and capped stores, and the usages that send deltas; with four  *)
(* values, or with three and every serialized form between them.           *)
EXTENDS DDSketch

MCConfig ==
  { [usage |-> "plain", maxBins |-> 0, values |-> 3, forms |-> Form],
    [usage |-> "plain", maxBins |-> 3, values |-> 3, forms |-> Form],
    [usage |-> "plain", maxBins |-> 3, values |-> 4, forms |-> {}],
    [usage |-> "delta", maxBins |-> 0, values |-> 3, forms |-> Form],
    [usage |-> "gos", maxBins |-> 0, values |-> 4, forms |-> {"state"}],
    [usage |-> "octo", maxBins |-> 0, values |-> 3, forms |-> Form],
    [usage |-> "octo", maxBins |-> 0, values |-> 4, forms |-> {}] }

MCCappedGOS == { [usage |-> "gos", maxBins |-> 3, values |-> 4, forms |-> {}] }
=============================================================================
