# Specifications of sketchlib-go

TLA+ models of sketchlib-go, checked with TLC on small instances and, where it
matters most, proved with TLAPS for every value of the constants. Paths are
relative to the repository; `PROJECT.json` maps every definition to the lines
it models.

To check a model: `tlc -config <run>.cfg <module>`; to check proofs:
`tlapm <module>.tla`. The runs and their modules are listed below.

## 1. The system

sketchlib-go is a library of mergeable sketches. Three things in it have
behaviour, as opposed to formulas:

* **OctoSketch** (`sketch_framework/OctoSketch`) runs any cell sketch on many
  goroutines. Each worker owns a local sketch, withholds small changes, and
  sends a cell to its shard once the cell reaches a threshold tau. Workers and
  shards exchange a fixed pool of batches over two bounded channels. When all
  inputs have been closed, the aggregator merges the shards.
* **Edge synchronisation** (GOS, `delta.go`): an edge sketch sends a backend
  what has changed, either at insert time (a cell that reaches a threshold is
  reported and reset) or by comparing with a snapshot.
* **Sketches with histories**: stores that grow, collapse, merge, expire and
  promote, in which a sequence of legal calls must not lose or double counts.

### Components, state, operations, hazards

| Component | State | Operations | What is hard | What makes it correct |
|---|---|---|---|---|
| Delta transport (`worker.go`, `aggregator.go`) | batchBuf, batchCh, recycleCh of each worker | emitDelta, flushBatch, shard loop, close | two bounded channels in a cycle; buffers are reused; close against send | the pool is conserved; deltas arrive once, in order; nobody blocks for ever; no send on a closed channel |
| OctoSketch over counters | inputs, worker sketches, shards, global sketch, tau | Process, Run, Flush, shard merge, aggregator merge, Query | tau moves under the row loop; residuals at shutdown; goroutines waiting for goroutines | counts conserved at every step; delay bounded; the result equals a sketch of the whole stream; shutdown ends |
| OctoSketch over HLL | registers, pendingMask, pendingCount | ProcessInput, UpdateRegister, Flush, merge by maximum | a register raised again while its value travels | registers never behind; one delta per change |
| AdaptiveTau, TauController | bits (threshold), prevQ, hasPrev; tickers, stop channels | Adjust, Run, Stop | lock-free read and compare-and-swap by several controllers | in bounds, no move lost, predictions from observed depths, calls return |
| Matrix hashing (`matrix_storage.go`) | none | BuildMatrixHash, RowHash, SignForRow, deriveIndex | slices of one word; modes by dimension | rows are independent; one column per key and row, whoever computes it |
| Exponential histogram | bucket list | Update (expire, insert, compress), QueryInterval | merges while walking; late timestamps | what is held is a suffix that covers the window; error within the guarantee |
| HybridSketch (its NormL2 buckets) | map of counts, energy, or a UnivSketch | InsertWithHash, Merge, promoteToSketch; queries under a shared lock | a query promotes the bucket it reads, in place | buckets and results lose nothing, but for queries that promote the same bucket |
| DDSketch | bucket store with offset and cap, count, min, max, gosPopulated | Update, UpdateGOS, ProcessInput, DrainBuckets, AddToBucket, Merge, Clear, Quantile, ComputeDelta, ApplyDelta, the serialized forms | growth, collapse, reset, delivery and restart in any order | count conserved; high end exact; cap kept; quantiles exact up to the floor |
| Count-Min, CountSketch at the edge | cells, row norms, candidate tracker; snapshot; backend cells, norms, top-K heap | weighted and sampled inserts, GOS inserts, ComputeDelta, Reset, ApplyDelta, queries | report and reset; thresholds that drop changes; estimates that move under the heap | every cell accounted for; norms are those of the cells; heap current |
| Count-Min, CountSketch as stores (`sampled.go`, `delta_codec.go`, `portable.go`, `msgpack.go`) | cells, sums, norms, tracker, heap | every way to insert, Merge, every serialized form | fractions among integers, columns that are reset in one array and kept in another | weight is conserved to the last fraction, through every form |
| Space Saving, TopKHeap | binary heap, index | Update, Candidates, Reset; Find, Update, Insert | heap and index must move together | every heavy key is a candidate; heap order |
| HyperLogLog store (`inmemory_sparse.go`) | sorted list and buffer of entries, or dense registers | insert, UpdateRegister, reads, Merge, Reset, register deltas, the serialized forms | promotion in the middle of a merge; reads that flush; deltas late, twice, out of order | registers are the maxima in either form; a sparse sketch is below the threshold; deltas bring all of the sender |
| HyperLogLog variants (`variants.go`) | registers; for HIP two partial sums and an estimate | InsertWithHash, Merge, the serialized form | shares that move from one sum to the other | the sums are those of the registers |
| Fold sketches | cells with entries, level, norms | UpdateWeight, MergeSameLevel, UnfoldTo, UnfoldMerge, HierarchicalMerge, Reset | splitting folded cells; norms after merges across levels | at every level the sketch of the full width |
| ElasticSketch | heavy buckets with votes, light counters | insert, Merge, Query | evictions; what a merge moves under a bucket | votes and light counts are the insertions; no underestimate but one |
| CocoSketch | rows of key and value | insert with random replacement, Merge, Clear | a key in two rows | estimates share out the total |
| KLL | levels of values | pushValue, compactions, merge, Clear; ranks, quantiles | random and odd compactions, cascades, new top levels | ranks stay within the compactions' slack; capacities kept without merges |
| UnivMon | layers of counters, norms and heaps | Update with and without a key, Merge, Free; recursive sum | layers cut off by hash bits, heaps that merge item by item | sums telescope to the exact ones while the heaps hold every key |
| HydraSketch, MultiHeadHydra | D x W counters, a global counter; jobs in a channel | Update, UpdateWithHash, SetTopKEnabled, ParallelUpdate, snapshots, queries by sub-tuple | 2^n - 1 sub-tuples by bit masks; workers in any order beside other callers | a cell holds the records of the sub-tuples kept in it, no more and no less |
| GeometricSampler | skip, counter of draws | Admit, AdmitRows, Reset | a gap that reaches over several items and both kinds of calls | the gaps of the seed decide |
| NitroSketch | matrix, sampling rate, cursor of the cached gaps | batches with drawn and with cached gaps, Merge | positions across batches and rows | rows share the stream out; no input counts twice |
| Storage, hash functions, wire formats, portable states, generated code, benchmarks | | | | not modelled, see section 7 |

Components interact by calls within one goroutine, except in OctoSketch: there
by channels (inputs, batchCh, recycleCh, closing of done channels) and by the
atomics of AdaptiveTau. Edge and backend interact by deltas that the caller
carries.

## 2. Modules

| Module | Models | State and actions against the code |
|---|---|---|
| `DeltaPipe` | `emitDelta`, `flushBatch`, the shard goroutine | Every channel operation is an action: `SendBatch`, `TakeBatch` (worker blocked in flushBatch, `handoff`), `ShardReceive`, `MergeBatch`, `RecycleBatch`, `CloseBatchCh`, `ShardExit`. What a delta means is left open. |
| `DeltaFifo` | what the transport promises: a FIFO of deltas per worker | `DeltaPipe` implements it (`ExactlyOnceInOrder`). |
| `OctoCounters` | a whole system over Count-Min, CountSketch or DDSketch cells | Conjoins the actions of `DeltaPipe` with what they do to sketches; the row loop of ProcessInput is a step per row, Flush a step per cell. |
| `OctoHLL` | the same over HyperLogLog | Registers, pending marks and pending count. |
| `AdaptiveTau` | `Adjust`, atomic access by atomic access, `Run`, `Stop` | one program counter per controller. |
| `MatrixHash` | columns and signs from hashes | operators over words of `WordBits` bits; `MCSketches` compares a key with its one-bit neighbours. |
| `ExpoHistogram` | `Update`, both compressions, `QueryInterval` | Update holds the write lock, so its compression loop is a sequence of steps with `pc = "compress"`; the query is an operator. |
| `DDSketch` | the store and everything that uses it | A store is a function from an interval of bucket indices to counts; `Ensured` is `ensure`, `Collapsed` is `collapseTo`, `Slot` the index ensure returns. The usages "plain", "delta", "gos" and "octo" are chosen at the start. `Restart` writes a sketch in one of four forms (clone, gob, portable state, MessagePack) and continues with what is read back; the portable state is dense or sparse by how full the store is. |
| `EdgeSync` | Count-Min and CountSketch from edge to backend | `Update` covers InsertWithHashGOS, UpdateString, UpdateStringGOS and their row-sampled forms; `Sync` is ComputeDelta with what the caller does to its snapshot or sketch; `ApplyDelta` rebuilds the top-K heap. |
| `HybridSketch` | the buckets' sketches of the NormL2 histogram, and concurrent queries | Updates and bucket merges need the write lock and are single actions. A query merges bucket by bucket; each read of `isSketch` (`Check`, `Second`, `Promote`) and each write of `promoteToSketch` (`Write`) is a step. |
| `MatrixSketch` | Count-Min and CountSketch as stores of weight | `Insert`, `SampledPerRow`, `AtRows` are the update methods, `Merge` both merges; a restart or a delta goes through `SerializePortable`, the frequency-only form, MessagePack, gob or the delta codec. |
| `SpaceSaving` | what the candidate tracker promises | keys with counts, no heap. |
| `SpaceSavingHeap`, `TopKHeap` | the two binary heaps | operators that return the heap after a call. `EdgeSync` shows the first to implement `SpaceSaving`. |
| `FoldSketch` | `FoldCommon`, `FoldCountMinSketch`, `FoldCountSketch` | A cell is a function from full columns to counts: empty, single and collided are its sizes. `scatterInto` and `recomputeNorms` are the code's; both merges across levels leave their result with the node; `Restart` rebuilds columns and norms as `rehydrate` does. |
| `HLLStore` | the two forms of a HyperLogLog | `sorted` and `temp` as in the sparse store; every read that flushes is an action. `pack` and `unpack` are the index distances of the sparse state and of deltas; `SendDelta` and `ApplyRegisterDelta` deliver any delta at any time, any number of times; `Restart` comes back dense. |
| `HLLVariants` | HyperLogLogVariant and HyperLogLogHIP | binary fractions are counted in units of the smallest, so HIP's sums are exact. |
| `ElasticSketch`, `CocoSketch` | insertion, merge, query | The randomness of Coco's replacement is a choice. Both keep a history of what was inserted. |
| `KLLSketch` | compactors | A level is a multiset, a coin a choice; `compressWhileNeeded` returns every sketch the cascade may end in. `Restart` writes gob or the portable form, whose values are offsets at the coarsest scale that is exact. |
| `UnivMon` | pyramid of Count Sketches with `TopKHeap` heaps | `calcGSum` is the recursion from the last layer to the first; `QueryTopK` and a restart are there too. |
| `HydraCounter` | what the two Hydras share: counters, expansion into sub-tuples, medians | A counter is the weight it was given by value. |
| `HydraSketch`, `MultiHeadHydra` | the two Hydras | `ParStart` ... `ParReturn` are ParallelUpdate, its channel and its workers, interleaved with the other callers, who share the sketch's lock. |
| `GeometricSampler` | `common/sampling.go` | A seed is a tape of gaps; `Admit` asks for one candidate, `AdmitRows` for all rows of an item. |
| `NitroSketch` | `NitroSketch/nitro.go` | `Insert` draws gaps, `InsertCachedStep` takes them from the table. |
| `MCSketches` | the disjoint union of the single-process families, two sketches each, and the hash comparison | `kind` picks the family and never changes. |
| `Sums` | finite sums | a recursive function, so that proofs can use it. |
| `*Proofs` | the theorems of section 6 | |
| `MC*` | keys, columns, signs and configurations for TLC | |

Modules that are proved about contain no RECURSIVE operator. An operator whose
comment begins with "Mutant" is a variant with a plausible bug; no specification
uses it, and each property has been seen to fail when such a variant takes the
place of its original (`PROJECT.json`, "mutants").

Common abstractions: keys are numbers or model values, a hash function is an
arbitrary table, float64 counts and thresholds are integers, and a value of a
DDSketch is the index of its bucket.

## 3. Runs

| Run | Module, cfg | Shows | Bounds |
|---|---|---|---|
| `delta_pipe` | `DeltaPipe` | `PoolConserved`, `NoMutualWait`, `ExactlyOnceInOrder` (refinement), `HandoffCompletes` (liveness) | 2 workers, batches of 2, PoolSize 1: with one batch in the channel, one in the shard's hand and one being filled, every blocking pattern occurs |
| `octo_count_min` | `MCOctoCountMin` | `Converged`: the final sketch is that of the whole stream; `Transport`: the system uses the transport as specified; `Shutdown` (liveness) | 2 workers, 2 items, colliding keys in one row, tau moving between 1 and 2 |
| `octo_count_sketch` | `MCOctoCountSketch` | `NothingLost` at every step, `DelayBound` between stream and shard, `CommunicationReduced` | 1 worker, 11 items with opposite signs in one cell, so full batches, full channels and cancelling counts occur |
| `octo_hll` | `OctoHLL` | `NothingLost`: stream, worker, transport and shard never part by more than the threshold allows; `Converged`, `OneDeltaPerChange` | 2 workers, 3 items, 2 registers of rank at most 2, tau 1 or 2 |
| `adaptive_tau` | `AdaptiveTau` | `NoLostMove`, `PrevIsReal`, `CallsReturn` (liveness) | 2 controllers, 3 calls of Adjust, depths to 3, limits not normalised |
| `sketches` | `MCSketches` | `FoldedIsFull`, `RegistersAreMaxima`, `QueriesComplete`, `VotesConserved`, `EstimatesAddUp`, `RankError`, `GSumExact`, `SubpopulationsExact`, `WeightConserved`, `SamplingExact`, `OneRowPerBit` | two sketches per family, merged in both directions, and so often that counts double; see below |
| `expo_histogram` | `MCExpoHistogram` | `SuffixHeld`, `WindowHeld`, `BucketsExact`, `ErrorBound`, `QueryTail`, `UpdateEnds` | 8 items; three configurations: L1 with late timestamps, L1 with gaps and k = 1, L2 over two keys |
| `ddsketch` | `MCDDSketch` | `StoreAccounted` (counts, cap, populated buckets and deltas), `HighEndExact`, `QuantileExact` | seven configurations of 3 or 4 values with 5 indices, chunks of 2, cap 3: collapses with and without buffer, after merges, Clear and restarts through every form; thresholds 1 and 2; a sparsity divisor at which both forms of the state occur |
| `edge_sync` | `MCEdgeSync` | `CellsAccounted`, `NormsExact`, `TopKCurrent`, `TrackerKeeps` (refinement of `SpaceSaving`) | 3 x 2 cells, 4 keys, 1 or 2 edges, heaps of 3 and 2; eight usages, to 6 items |

The bounds of `sketches`, family by family:

* Fold: 2 rows of 4 columns at levels 2 to 0, two keys that collide in a row,
  weights 2 and -1, total weight 4: cells of every form are split at every level.
* HLL: 3 registers of rank 2, a buffer of 2, promotion at 3 and the portable
  crossover at 2: a merge promotes at its first or second entry, or not at all,
  and states are written packed and whole. Deltas, in an instance of their own: 2
  registers, one sender, 2 deltas, delivered to either node: late, twice, swapped,
  before and after resets. Variants: 2 registers of rank 3, with HIP's sums
  split at the value 2: registers stand in the first sum, in the second, and move.
* HybridSketch: 2 keys, a map of size 4 (so promotion at 2 keys), 3 items and two
  queries that end at the newest bucket: one query finds a promoted bucket and
  then a map that another is reading or promoting.
* Elastic: 3 keys on 2 buckets with vote factor 2 and 7 insertions: an evicted
  flow comes back and is evicted again.
* Coco: 2 x 2 buckets, 3 keys, total 6: full rows, replacements and merges with
  itself.
* KLL: K = 3 and 4, M = 2, 10 values: up to three levels, cascades, merges of
  unequal height and capacity, and offsets at both scales.
* UnivMon: 3 layers, 2 keys with bottoms 1 and 2, heaps that hold both, updates
  by 2 and -1.
* Hydra: 3 rows of 2 cells; keys with one and two labels, an empty label and a
  label twice; four configurations of counter types and switches; 2 updates, two
  jobs and two workers over a channel of 1. MultiHeadHydra: three dimensions,
  two of the same name, values that name a dimension twice or an unknown one.
* Count-Min and CountSketch as stores: 3 x 2 cells, 2 keys, 2 items, weights of
  a half, whole and scaled, every form between any two of them.
* Sampler: 4 gaps of 0, 1, 3 or 12 over rows of 2, 3 and 5 with masks of 4 bits:
  gaps end in the same item, the next one and several further on. Nitro: gaps of
  1 and 2, full and one-in-three sampling, batches with nil inputs, 6 items.
* Hashing: all dimensions to 4 x 8 and all words of 6 bits: all three modes occur.

The families are one run because they share a question: whether a sketch after
any order of legal calls is the sketch of what was given to it.

Three runs end in a violation, each a disagreement between the code and what the
repository says of it:

| Run | Property | Finding |
|---|---|---|
| `octo_online` | `OnlineAccuracy` | `guarantees_test.go` calls "Online accuracy" a guarantee: the aggregator's estimate stays close while the stream runs. With shards, nothing reaches the sketch that Query reads before every worker has ended. |
| `octo_hash_mode` | `Converged` | `ProcessInput` of Count-Min slices the columns of all rows out of one 64-bit hash; Update and Estimate change to wider hashes when the rows need more bits. Counts then sit where nobody looks. |
| `dd_gos` | `InRange` | The comment of `ensure` obliges callers to use the index it returns; `addOneGOS` computes `k - offset` again, and panics on a capped store when a low value follows a high one. |

Deadlock is checked except where a system may stop: bounded histories
(`AdaptiveTau`, `ExpoHistogram`, `DDSketch`, `EdgeSync`, `MCSketches`). In the OctoSketch runs a system that is done
stutters explicitly, and any other stop is reported.

Model bounds are constants named as such (`MaxItems`,
`MaxAdjusts`, `MaxTotal`, `MaxVolume`, `MaxUpdates`, `MaxDeltas`, `TapeLen`, `Present`,
and `items`, `values`, `syncs`, `lastTime` in the configurations); they stand
in the guards of the actions that extend a history.

## 4. Fairness

* `DeltaPipe`, `OctoCounters`: weak fairness of each goroutine's steps, which is
  what the Go scheduler gives a runnable goroutine. The caller's sends are not
  fair. A worker's and a shard's steps are separate conjuncts; in
  `DeltaPipe` the worker owes only the two channel operations of flushBatch.
* `AdaptiveTau`: weak fairness inside Adjust and of Stop's return; strong
  fairness of the exit, because `select` chooses at random between a tick and
  the stop channel, and does not take the same branch for ever. CompareAndSwap
  loops end because the calls of Adjust are bounded, as ticks are in time.
* `ExpoHistogram`: weak fairness of the steps inside Update.

No liveness property is stated where the code leaves the next step to a caller.

## 5. What the properties say, and the hazards they are for

`PROJECT.json` lists the hazards with their lines. In short: the pool of batches
and two bounded channels (`NoMutualWait`, `PoolConserved`), reused buffers
(`ExactlyOnceInOrder`, and `BatchDiscipline`, which is proved), a threshold that moves while it is
used (`DelayBound`, and `NothingLost` over HLL), shutdown (`Shutdown`, `Transport`), marks that are
cleared too early (`OneDeltaPerChange`), lost updates (`NoLostMove`), stores
that are collapsed, reset, merged, sent and restored in any order
(`StoreAccounted`, `HighEndExact`, `WeightConserved`, `FoldedIsFull`), counters kept by
steps of one (`StoreAccounted`, `NormsExact`), heaps with an index (`TrackerKeeps`,
`TopKCurrent`), shared cells and workers (`SubpopulationsExact`), gaps that cross
calls (`SamplingExact`), and queries that write under a read lock (`QueriesComplete`).

Restarts: every sketch that can be serialized may at any time be replaced by what
is read back from one of its forms. What a form leaves out is part of the model:
the portable HLL state restores registers and no sampling, gob of Space Saving
restores a capacity, a frequency-only Count-Min frame restores no sums.

Preconditions and why they are there:

* `CellsAccounted` allows less than the threshold per delta and cell for
  ComputeDelta: the snapshot moves on whether a change was sent or not.
* `NormsExact` speaks of the backend's L2 only for one edge without losses: L2
  rows are added, and the cross terms of several edges are not in them.
* `TopKCurrent` leaves out the deltas that lower the estimate of a key in the
  heap (`fell`): the loop in ApplyDelta may turn a key away against a count that
  it lowers afterwards. The code does lose keys that way, five items and two
  deltas of one edge suffice.
* `CapRespected` leaves merge results out, as the comment on Merge does.
* `DeltasAddUp` is about an uncapped DDSketch that is only added to: after a
  collapse or a reset the difference of two stores is not what happened between
  them (hazard).
* `QueriesComplete` excuses a query when another one promotes, while it runs, a
  bucket that it has yet to finish with; and a bucket that two queries promoted
  at once, whose UnivSketch may have been overwritten by an empty one for good.
  Both happen in the model: `Merge` in ExponentialHistogram.go calls
  `o.promoteToSketch()` on a bucket that is only locked for reading. The
  writes of a promotion reach other readers in program order; a machine
  that reorders them can do worse.
* `WeightConserved` speaks of sums and norms as long as no form on the way leaves
  them out (`sums`, `norms`), and of an estimate as at least what the row that was
  given least was given, since rows are sampled apart.
* `SamplingExact` bounds what a Nitro row holds; that the sample is fair is a
  statement about distributions.
* `VotesConserved` allows one underestimate: a flow that takes a bucket anew after
  a merge has no eviction mark, so Query leaves out what the merge moved to the
  light part. `NoUnderestimate`, what the merge tests look for right after a
  merge, is stated in `ElasticSketch` and does not hold later on.
* `RankError` states the drift of the total that compactions of odd levels cause
  as part of the slack, and capacities only for sketches that were not merged: a
  merge stops at the first level that fits.
* `GSumExact` speaks of keys the heaps were told of (`known`), and its heaps hold
  every key; second moments are exact for layer 0 alone, as in the code.
* `PopulatedExact` is checked for thresholds above 0. A threshold of 0 skips the
  bookkeeping, so toggling it lets gosPopulated pass below 0 (hazard).

## 6. Proofs

All proofs hold for every value of the constants that satisfies the named
assumption of the module or of the theorem. Eight modules hold them: six are
about one component each, `ComponentProofs` is about seven, one after the other, and
`SumsProofs` is about finite sums. TLC evaluates every assumption on the
instances of the runs (`TauAssumption` and its like where they are declared,
`SketchesAreProper` in `MCSketches`).

Induction on numbers and on the length of sequences is written as an argument by
least counterexample (`LeastNatural`), which needs no theorem with an operator
as its parameter. This is how recursive functions (PrefixSum, `Replay`,
FlattenSeq) get the equations that proofs use.

* `DeltaPipeProofs`. The inductive invariant `PipeInv` joins the type
  invariant, conservation of the pool (batches in the channels, in the hands of
  worker and shard add up to PoolSize + 1), the discipline of batches and a clean
  shutdown. Conservation is why nobody blocks: if the worker waits for room or
  for an empty batch, then the other batches are where the shard can move
  (`NoDeadlockInHandoff`, `RecycleDoesNotBlock`). `ImplementsFifo` is the
  refinement `ExactlyOnceInOrder`: what is in transit is the shard's batch, then
  the channel's, then the buffer. Emit appends a delta to it, MergeBatch takes
  its front away, every other step moves a batch within it or leaves it alone
  (one lemma each); that a recycled batch is empty comes from `BatchDiscipline`.
* `OctoCountersProofs`. `ImplementsTransport` shows that every step of the
  system is a step of the transport or leaves it alone, so the invariants of
  `DeltaPipe` carry over. `DelayIsBounded`: no cell of a worker reaches
  TauMax between two rows. `CountsAreConserved`: an equation per worker and
  cell, true sketch = worker + transport + shard, with one balance lemma per
  action. `AggregatorConverges` and `DoneIsFlushed` follow with an invariant on
  what is already over when a goroutine has ended. `DelayBounded` adds that a
  batch has at most BatchCap deltas of at most TauMax, and that no more than the
  PoolSize + 1 batches of the pool are with worker, channel and shard.
  `CommunicationIsReduced`: a delta of the row loop carries at least the
  threshold that was read, thus TauMin; only Flush sends less, and Flush comes
  to a cell once.
  The theorems on counts assume `SameCols`: worker path and reference use the
  same columns. Where they do not, run `octo_hash_mode` shows what happens.
* `OctoHLLProofs`. The transport's invariants carry over as above.
  `ChangesPayForDeltas`: marks and deltas of a register together do not exceed
  its changes. `ChangesAreSent`: the greatest value that was sent is the
  worker's register, unless the register is marked and, while a loop sends the
  marked ones, still ahead of the loop (`SentInv`, `Behind`). `AggregatorConverges` joins this
  with what is over when a goroutine has ended (`EndInv`): no marks, empty
  channels, shards and worker equal.
* `DDSketchProofs`. One inductive invariant (`DDInv`) ties the store to the history:
  the total of the buckets is the number of values; above the floor (the index
  that the last collapse folded into) every bucket holds the count of its
  values; no bucket outside the store's indices has any, but for what was folded
  to the floor or below; minimum and maximum are those of the values. Every
  operator on stores (`Ensured`, `Collapsed`, `Slot`, the merge, the four written
  forms) has a lemma that says what it does to totals and to counts above the
  floor, and each action is a few of them. `StoreIsAccounted`, `HighEndIsExact`
  and `QuantileIsExact` are the properties of the run; `StoreInvariance`,
  `TypesAreKept` and `InsertsStayInRange` are what they rest on. Two hypotheses
  say which sketches this is about. `CapsArePlain`: the worker path
  and the snapshots of deltas use stores without a cap, as NewDDSketchOcto
  builds them, and so does GOS, whose capped store is the finding `InRange`.
  `CountingOn`: a GOS threshold of 0 turns the bookkeeping of gosPopulated off
  (hazard). The proof showed one thing that the runs had not: after a
  Merge into a capped sketch, a later collapse can fold counts into a bucket above
  values that are still to come, so the type invariant says no more of minimum and
  maximum than that they are values.
* `ComponentProofs`, the adaptive threshold. `TypeCorrect`, `TauInBounds` and
  `PredictionsAreReal`; the last needs the set of observed depths tied to the program
  counters, since prevQ is stored before hasPrev. `MovesAreKept`: the threshold is the
  replay (`Replay`, a recursive function) of all successful moves from the start, for
  any number of controllers between their loads and their compare-and-swaps.
* `ComponentProofs`, ElasticSketch. `VotesAreConserved`, by `ElasticInv`: a bucket that
  is free has no votes; in every row, votes and light counters add up to the
  insertions; in every row, the votes a key holds and its light counter are at
  least its count; and as long as nothing was merged, a flow whose
  bucket has no eviction mark has all its count in votes. Spilling the heavy part
  moves the buckets' votes to the light cells they are hashed to, which is a sum over
  fibres (`FiberSum`). The hypothesis (`Dimensions`) is that keys, buckets and columns are
  finite and the hash functions total.
* `ComponentProofs`, GeometricSampler. `GapsAlwaysDecide`: the skip is the start
  of the gap under way, less the candidates seen, and what was admitted are the
  starts before. AdmitRows runs over several gaps in one step; lemma `PlaceIs`
  shows that its loop meets the same starts that Admit would. The invariant bounds what is
  left over by the largest gap, so the clamp to MaxInt64 at the end of
  AdmitRows is never taken. The hypothesis (`Parameters`) is what nextGap returns:
  0 to MaxInt64.
* `ComponentProofs`, the fold sketches. `FoldingLosesNothing`, by `Exact`: every entry is in
  the cell its column folds into (`RowPlaced`), holds what its column was given, and the
  norms are those of the full columns. Unfolding rests on arithmetic: a smaller
  power of two divides a greater one (`PowersDivide`), so the remainder of a
  remainder is the remainder (`RemainderTwice`), and a column's cell at
  one level lies within its cell at the next (`ColumnsFold`). Norms are sums
  over cells of sums over entries, again fibres (`RowSum`); an update changes
  one summand. That an update's weight may be negative, and leave an entry of 0 in a cell,
  is why counts and not entries are compared.
* `ComponentProofs`, the registers of HyperLogLog. `StoreKeepsMaxima`, by `StoreInv`.
  A register's value is the greatest of its entries, in the sorted list or in the
  buffer (`IsTop`, and `TopIsUnique`), so a flush or a promotion changes none, and an
  insertion raises one. The lists bound the registers in use (`ListsBound`): a
  sparse sketch is below its threshold without counting. Merging two sparse sketches
  goes entry by entry and may promote on the way (`ApplyAllJoins`). The packed form of
  a delta is a list of distances and values, which unpacking inverts (`UnpackIs`).
  For deltas: what a snapshot holds was in some delta (`Covered`), and a delta that was
  given since the last Reset shows in the receiver's registers (`Shows`). The
  hypothesis (`Dimensions`) is that registers and values are finitely many, values
  above 0, and the promotion threshold too.
* `ComponentProofs`, CocoSketch. `EstimatesShareTheTotal`, by `Settled`: a bucket that is
  not empty is one of its key's, and the scan for the key comes as far as there,
  since none of its buckets above is empty or has the key. A new key takes a bucket
  only where its scan has ended, and buckets are never emptied, so
  this stays true whoever wins a replacement (`PutKeeps`), and every insertion adds to one
  bucket. Merge inserts bucket by bucket (`AbsorbTableHolds`), in tables that its
  own choices lead to.
* `ComponentProofs`, the HybridSketch. `QueriesAreComplete`, for any number of queries
  that interleave (`InStep`). Of a bucket (`BucketHolds`, `BucketFull`): neither form of
  it ever exceeds what it was given; when nobody is half way through its promotion it is
  in one form; and while it has never had two promoters, its counts are, at each step of
  the one it has, in the map, in both, or in the UnivSketch. Of a query
  (`QueryHolds`, `QuerySees`): its result is what the buckets behind it were given, and
  the flag it has read is still what it acts on, unless another one promoted that
  bucket meanwhile. A step of a query either leaves promotions alone (`QuietStep`),
  starts one (`StartStep`) or is a write of one (`WriteStep`). The writer finds every bucket
  at rest (`RestsIs`), and merges of sketches at rest add up what they hold
  (`HybridMergeMakes`), with the energy of a map kept key by key (`EnergyMore`). The
  hypothesis (`Dimensions`) is that keys are finitely many.
* `ExpoHistogramProofs`. `Sized` types the buckets and places the compression
  loop. `SuffixIsHeld`: expiry drops a prefix, insertion appends, a merge joins
  neighbours. `WindowIsHeld`: a bucket is expired by its newest time, so what it
  holds is out of the window by then. `HistogramIsExact` ties times, counts and energy
  of a bucket to its items. These two and `QueriesAreExact` assume `InOrderL2`: an L2
  histogram gets its items in order. The code's NormL2 merge takes minTime from the older and
  maxTime from the newer bucket, which is right for such streams only; L1
  histograms may have late timestamps. `ErrorIsBounded` is the guarantee of the
  exponential histogram. Its inductive invariant (`BoundInv`) says of every
  suffix of the sizes that they fall, are powers of two, that runs of one size
  are short, and that the sum of what follows bounds each; while the loop of
  compressL1 walks, the one run that ends at its index may be too long, and a
  merge there moves the exception to the run its result joins.
* `EdgeSyncProofs`. `NothingIsMissing`: for one cell the error (`Missing`: given
  minus what edges, deltas and backend hold) does not change by Update and
  ApplyDelta, and changes by less than the threshold with ComputeDelta, only
  when a change was left out. `NormsAreExact` follows the row norms through the
  increments of Update, the snapshots, the deltas and the backend (`NormInv`);
  the backend's part (`Follows`) is stated for one edge without losses, for the reason
  given in section 5. The sums run over edges, keys and deltas, so the lemmas of
  `SumsProofs` for sequences (`SeqSum`) do most of the work.
  `TrackerKept` is a refinement: the heap and index of SpaceSavingHeap implement
  `SpaceSaving`. Its invariant (`Trackers`, for every edge) says that the index
  inverts the heap (`Indexed`) and that the heap is in order; the loops of heapifyUp
  and heapifyDown are treated by the place at which the order may be broken, and an
  update is one of the three steps of the table (`UpdateIsStep`). The table
  itself keeps this invariant: counts add up to the whole weight, each count
  brackets the true weight, and a key outside a full table weighs no more than
  any count in it. A key with more than a K-th of the weight outside the
  table would need K counts of at least its own weight in the total
  (`HeavyKeysAreTracked`; lemma `SumAtLeast`). Over the refinement mapping follows
  `HeavyKeysAreCandidates`, the guarantee in the comment of `space_saving.go`: it
  holds of the keys that a delta carries.
  `TopKIsCurrent` follows the backend's heap key by key through the loop of
  ApplyDelta (`AtStage`: the keys that were looked at have their estimates, and a key
  that was turned away faces K counts that are no smaller). That a later key
  does not undo this needs that no estimate fell below its count (`fell`), and
  so the theorem has that condition where the code has that weakness.
* `SumsProofs`. PrefixSum is defined by a recursive function; its recursion
  equation is proved by least counterexample, then typing, bounds, updates,
  addition of sums and both ends; the same for the sum over a sequence that
  grows at its end and shrinks at its head. SumFunctionOnSet of the community
  modules chooses an element at each step; that its result does not depend
  on the choice (`SetSumTake`) gives typing, sums of parts, of fibres, and what
  a change of one summand does.

Only model-checked: all liveness (fairness and ENABLED are beyond the prover);
`MatrixHash`; and of the families of `MCSketches` those that no paragraph above
names.

## 7. Not modelled

* Storage classes: arrays with accessors. Functions take their place.
* Hash functions and hashlayer: arbitrary functions.
* `wire/` and generated protobuf code: frames of whole states, field by field,
  held by golden-byte tests. The forms the sketches convert their state to and
  from are modelled with them; portable forms that are only ever written
  (Elastic, Coco, UnivMon, the HLL variants) are not, nor are gob forms that
  carry every field (Elastic, Coco), for which a restart changes nothing.
* The index mapping of DDSketch: logarithms of float64. Accuracy of
  arithmetic is out of scope.
* Randomised accuracy bounds (Count-Min's epsilon and delta, HLL's error):
  statements about probabilities.
* Inside modelled components: the unsharded channel path of NewWorker and
  NewAggregator, mix64 and the storage of matrices, the adapters that pair the
  exponential histogram with one sketch type each, per-cell thresholds and the
  heavy-hitter hooks of Count-Min, the sampling of hashes by an HLL, a
  UnivMon pyramid merged with itself, two Elastic sketches merged into each
  other at once (their locks are taken in opposite orders and may deadlock).

## 8. Plan

What is left of the model:

1. The unsharded OctoSketch path of NewWorker and NewAggregator.
2. Abstract specifications: a register map that `HLLStore` implements, the
   sketch of the full width that `FoldSketch` implements.
3. Two more disagreements as runs of their own: `NoUnderestimate` after Elastic
   merges, and the global cardinality of Hydra after updates by hash.

Proofs to follow: `WeightConserved` of `MatrixSketch`, then `GSumExact` of `UnivMon`
and `RankError` of `KLLSketch`.
