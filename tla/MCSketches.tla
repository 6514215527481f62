----------------------------- MODULE MCSketches -----------------------------
(***************************************************************************)
(* The single-process sketch families, one after the other on small        *)
(* instances: a behaviour picks a family and stays in it.  The families    *)
(* share no state, so this is their disjoint union.                        *)
(***************************************************************************)
EXTENDS Integers, Sequences, TLC, MatrixHash

VARIABLES
  kind,  \* the family
  sk,    \* its sketches
  seen   \* its history

vars == <<kind, sk, seen>>

Fold == INSTANCE FoldSketch WITH
  Node <- {"a", "b"}, Row <- {1, 2}, FullBits <- 2, Key <- {"x", "y"},
  ColOf <- [x |-> <<0, 1>>, y |-> <<2, 1>>],
  SignOf <- [x |-> <<1, -1>>, y |-> <<-1, 1>>],
  Weights <- {2, -1}, MaxTotal <- 4

Store == INSTANCE HLLStore WITH
  Node <- {"a", "b"}, Index <- 0..2, Rho <- {1, 2}, TempCap <- 2, Threshold <- 3,
  Crossover <- 2, Sender <- {}, MaxDeltas <- 0

Deltas == INSTANCE HLLStore WITH
  Node <- {"a", "b"}, Index <- 0..1, Rho <- {1, 2}, TempCap <- 1, Threshold <- 2,
  Crossover <- 1, Sender <- {"a"}, MaxDeltas <- 2

Variants == INSTANCE HLLVariants WITH
  Node <- {"a", "b"}, Index <- 1..2, MaxRho <- 3, Split <- 2, Unit <- 720720

Hybrid == INSTANCE HybridSketch WITH
  Key <- {"x", "y"}, Reader <- {"q1", "q2"}, maxMapSize <- 4, MaxItems <- 3

Elastic == INSTANCE ElasticSketch WITH
  Node <- {"a", "b"}, Key <- {"x", "y", "z"}, NoKey <- "none", Bucket <- {1, 2},
  BucketOf <- [x |-> 1, y |-> 1, z |-> 2], Row <- {1, 2}, Col <- {1, 2},
  ColOf <- [x |-> <<1, 1>>, y |-> <<1, 2>>, z |-> <<2, 2>>],
  VoteFactor <- 2, MaxTotal <- 7

Coco == INSTANCE CocoSketch WITH
  Node <- {"a", "b"}, Key <- {"x", "y", "z"}, d <- 2, length <- 2,
  ColOf <- [x |-> <<1, 1>>, y |-> <<1, 2>>, z |-> <<1, 1>>],
  Weights <- {1, 2}, MaxTotal <- 6

Kll == INSTANCE KLLSketch WITH
  Node <- {"a", "b"}, Value <- 1..2, Units <- <<30, 31>>, Digits <- 1,
  K <- [a |-> 3, b |-> 4], M <- 2, MaxCacheableK <- 26602, CacheLen <- 20,
  MaxItems <- 9, MaxTotal <- 10

Univ == INSTANCE UnivMon WITH
  Node <- {"a", "b"}, Key <- {"x", "y"}, Layers <- 3, Bottom <- [x |-> 1, y |-> 2],
  Col <- {1, 2}, ColOf <- [x |-> <<1, 1, 1>>, y |-> <<1, 2, 2>>],
  SignOf <- [x |-> <<1, -1, 1>>, y |-> <<-1, 1, 1>>],
  HeapSize <- 2, Values <- {2, -1}, MaxVolume <- 4

Labels == {<<"p">>, <<"q">>, <<"p", "q">>, <<"q", "p">>, <<"", "p">>, <<"p", "p">>}
Places == [s \in Labels |->
             CASE s = <<"p">> -> <<0, 0, 1>> [] s = <<"q">> -> <<0, 1, 0>>
               [] s = <<"p", "q">> -> <<1, 0, 0>> [] OTHER -> <<1, 1, 0>>]

Hydra == INSTANCE HydraSketch WITH
  Value <- 1..2, FloatOf <- <<2, 1>>, Row <- 1..3, W <- 2, PosOf <- Places,
  HashPos <- <<<<0, 1, 1>>, <<1, 1, 0>>>>,
  Config <- {[type |-> "", topK |-> TRUE, fanout |-> TRUE, global |-> TRUE],
             [type |-> "hll", topK |-> TRUE, fanout |-> TRUE, global |-> TRUE],
             [type |-> "kll", topK |-> FALSE, fanout |-> TRUE, global |-> FALSE],
             [type |-> "universal", topK |-> FALSE, fanout |-> FALSE, global |-> TRUE]},
  Key <- {<<"p">>, <<"p", "q">>, <<"", "p">>, <<"p", "p">>},
  ValueOf <- [k \in Labels |-> IF Len(k) = 1 THEN 1 ELSE 2], Delta <- {0, 2},
  Jobs <- <<[key |-> <<"p", "q">>, count |-> 1], [key |-> <<"p">>, count |-> 2]>>,
  Worker <- {"w1", "w2"}, ChanCap <- 1, MaxUpdates <- 2

Multi == INSTANCE MultiHeadHydra WITH
  Value <- 1..2, FloatOf <- <<2, 1>>, Row <- 1..3, W <- 2, PosOf <- Places,
  HashPos <- << >>,
  Dims <- <<[name |-> "size", type |-> "kll"], [name |-> "user", type |-> "hll"],
            [name |-> "user", type |-> "cm"]>>,
  Key <- {<<"p", "q">>, <<"q", "p">>, <<"", "p">>},
  Batch <- {<<[v |-> 1, dims |-> <<"size", "user">>]>>,
            <<[v |-> 1, dims |-> <<"user">>], [v |-> 2, dims |-> <<"size", "none">>]>>,
            <<[v |-> 2, dims |-> <<"user", "user">>]>>},
  Count <- {0, 2}, MaxUpdates <- 3

Matrix == INSTANCE MatrixSketch WITH
  Node <- {"a", "b"}, Kind <- {"cms", "cs"}, NumRows <- 3, Col <- 1..2, Key <- 1..2,
  ColOf <- <<<<1, 1, 2>>, <<1, 2, 2>>>>, SignOf <- <<<<1, -1, 1>>, <<-1, 1, 1>>>>,
  One <- 2, Many <- {0, 2}, Scaled <- 3, Mask <- {{}, {2, 3}}, Threshold <- {0, 5},
  MaxSampledRows <- 64, HeapSize <- 1, MaxItems <- 2

Sampler == INSTANCE GeometricSampler WITH
  Gap <- {0, 1, 3, 12}, TapeLen <- 4, RowCount <- {-1, 2, 3, 5}, MaskWidth <- 4, MaxSkip <- 12

Nitro == INSTANCE NitroSketch WITH
  Node <- {"a", "b"}, Kind <- {"cm", "cs"}, NumRows <- 2, Col <- 1..2, Key <- {"x", "y"},
  NoInput <- "nil", ColOf <- [x |-> <<1, 1>>, y |-> <<1, 2>>],
  SignOf <- [x |-> <<1, -1>>, y |-> <<-1, 1>>], RateInverse <- {1, 3}, Gap <- {1, 2},
  Table <- (0 :> 2 @@ 1 :> 1), TableSize <- 2,
  Batch <- {<<>>, <<"y", "x">>, <<"x", "nil", "y", "x">>}, MaxItems <- 6

(* The instances are such as the theorems about these components assume.   *)
ASSUME SketchesAreProper ==
  /\ Fold!Dimensions /\ Elastic!Dimensions /\ Sampler!Parameters
  /\ Store!Dimensions /\ Deltas!Dimensions /\ Coco!Dimensions /\ Hybrid!Dimensions

-----------------------------------------------------------------------------
(* Matrix hashing: dimensions up to 4 x 8, the hashes of one key, and a    *)
(* step to a key whose hashes differ from them in one bit.  The 128-bit    *)
(* and the seeded hashes are unrelated to the 64-bit one: the complement   *)
(* stands for any other word.                                              *)
HashInit ==
  /\ sk \in [rows : 1..4, cols : 1..8]
  /\ \E h \in Word :
       seen = [hash |-> h, hi |-> h, lo |-> 2^WordBits - 1 - h,
               seeded |-> [r \in 1..3 |-> (h + r) % 2^WordBits]]

Flip ==
  /\ seen.hi = seen.hash
  /\ seen.lo = 2^WordBits - 1 - seen.hi
  /\ \E f \in {"hash", "hi", "lo"}, b \in 0..WordBits-1 :
       seen' = [seen EXCEPT ![f] = IF Bits(@, b, 1) = 1 THEN @ - 2^b ELSE @ + 2^b]
  /\ UNCHANGED sk

Changed ==
  LET maskBits == maskBitsForCols(sk.cols)
      hashed == BuildMatrixHashFromInput(seen, sk.rows, sk.cols)
  IN  {<<r, "col">> : r \in {r \in 0..sk.rows-1 :
          RowHash(hashed, r, maskBits) # RowHash(hashed', r, maskBits)}}
      \cup {<<r, "sign">> : r \in {r \in 0..sk.rows-1 :
          SignForRow(hashed, r) # SignForRow(hashed', r)}}

-----------------------------------------------------------------------------
Init ==
  \/ kind = "fold" /\ Fold!Init
  \/ kind = "store" /\ Store!Init
  \/ kind = "deltas" /\ Deltas!Init
  \/ kind = "variants" /\ Variants!Init
  \/ kind = "hybrid" /\ Hybrid!Init
  \/ kind = "elastic" /\ Elastic!Init
  \/ kind = "coco" /\ Coco!Init
  \/ kind = "univ" /\ Univ!Init
  \/ kind = "kll" /\ Kll!Init
  \/ kind = "hydra" /\ Hydra!Init
  \/ kind = "multi" /\ Multi!Init
  \/ kind = "matrix" /\ Matrix!Init
  \/ kind = "sampler" /\ Sampler!Init
  \/ kind = "nitro" /\ Nitro!Init
  \/ kind = "hash" /\ HashInit

Next ==
  /\ UNCHANGED kind
  /\ \/ kind = "fold" /\ Fold!Next
     \/ kind = "store" /\ Store!Next
     \/ kind = "deltas" /\ Deltas!Next
     \/ kind = "variants" /\ Variants!Next
     \/ kind = "hybrid" /\ Hybrid!Next
     \/ kind = "elastic" /\ Elastic!Next
     \/ kind = "coco" /\ Coco!Next
     \/ kind = "univ" /\ Univ!Next
     \/ kind = "kll" /\ Kll!Next
     \/ kind = "hydra" /\ Hydra!Next
     \/ kind = "multi" /\ Multi!Next
     \/ kind = "matrix" /\ Matrix!Next
     \/ kind = "sampler" /\ Sampler!Next
     \/ kind = "nitro" /\ Nitro!Next
     \/ kind = "hash" /\ Flip

Spec == Init /\ [][Next]_vars

-----------------------------------------------------------------------------
(* One hash feeds all rows, yet rows stay independent: in the packed modes *)
(* a bit of the word decides on the column of one row or on the sign of    *)
(* one row, never on two of them.                                          *)
OneRowPerBit ==
  [][kind = "hash" /\ HashModeForMatrix(sk.rows, sk.cols) # "rows" =>
       \A x, y \in Changed : x = y]_vars

(* Folding and unfolding lose nothing (FoldSketch).                        *)
FoldedIsFull == kind = "fold" => Fold!FoldedIsFull

(* Sparse or dense, the registers are the maxima; deltas in any order      *)
(* bring a receiver to what the sender had (HLLStore); and every variant   *)
(* keeps to its registers (HLLVariants).                                   *)
RegistersAreMaxima ==
  /\ kind = "store" => Store!RegistersAreMaxima
  /\ kind = "deltas" => Deltas!RegistersAreMaxima /\ Deltas!DeltasCover
  /\ kind = "variants" => Variants!VariantsExact

(* Queries are complete, but for those that promote the same buckets       *)
(* (HybridSketch).                                                         *)
QueriesComplete == kind = "hybrid" => Hybrid!QueriesComplete

(* Evictions and merges lose no vote (ElasticSketch).                      *)
VotesConserved == kind = "elastic" => Elastic!VotesConserved

(* Keys sit in one bucket each and share out the total (CocoSketch).       *)
EstimatesAddUp == kind = "coco" => Coco!EstimatesAddUp

(* Ranks and quantiles keep within the compactions' slack (KLLSketch).     *)
RankError == kind = "kll" => Kll!RankError

(* Layers, heaps and G-sums are those of the merged stream (UnivMon).      *)
GSumExact == kind = "univ" => Univ!GSumExact

(* Cells hold the records of the sub-tuples kept in them (HydraSketch,     *)
(* MultiHeadHydra).                                                        *)
SubpopulationsExact ==
  /\ kind = "hydra" => Hydra!SubpopulationsExact
  /\ kind = "multi" => Multi!DimensionsApart

(* The gaps decide who is admitted, however the sampler is asked, and      *)
(* batches share their inputs out among the rows (GeometricSampler,        *)
(* NitroSketch).                                                           *)
SamplingExact ==
  /\ kind = "sampler" => Sampler!GapsDecide
  /\ kind = "nitro" => Nitro!RowsShareOut

(* Cells, sums and norms hold what was given, through every form           *)
(* (MatrixSketch).                                                         *)
WeightConserved == kind = "matrix" => Matrix!WeightConserved
=============================================================================
