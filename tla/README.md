# A TLA+ development for perturbation-kernel

`perturbation-kernel` estimates how robust an observation is to random
perturbations of a state. A run draws `n` perturbed copies of a state, observes
each one, and reduces the observations to one number. Its contract (the SCHEMA)
is about reproducibility: the number is a function of the config alone, bit for
bit, whatever the vector unit, the number of threads or (for one family) the
device that computed it.

This directory models the code that has to keep that promise, checks it with
TLC on small instances, and proves part of it for every size with TLAPS.

All paths below are relative to the repository; `reduce/mod.rs` stands for
`src/reduce/mod.rs` and so on.

## 1. The system

| Component | State it keeps | Operations | Hard behaviour |
|---|---|---|---|
| Host reductions (`reduce/`) | one scratch buffer, reused over calls | `tree_sum_into`, `sum_sq_dev_into`, `dot`, on the scalar, AVX2 or NEON path | levels collapsed in place, lane permutation, odd tails, stale scratch |
| Draw loops (`engine.rs`, `family.rs`) | the ensemble, the rayon tasks in flight | `Engine::run`, `Engine::run_sequential`, `Family::run` | draws in any order on any thread, panics half-way, the join |
| Admission and report (`config.rs`, `engine.rs`, `family.rs`, `report.rs`) | none (a pure path from config to report) | version, n, null parameter, sample floor, reduction policy, backend; the error bound; provenance | the checks are written twice, in two orders |
| C ABI (`abi.rs`) | report handles | `pk_run`, `pk_run_family`, accessors, `pk_free_report` | a result split into a handle and a code, the panic boundary |
| Device context (`gpu/mod.rs`) | one process-wide `OnceLock` | `context`, `map_and_read` | racing initialisations, callbacks run by another thread's poll |
| `gpu_f32` estimate (`gpu/mod.rs`, `draw.wgsl`, `reduce.wgsl`) | ensemble, two scratch buffers, staging, the queue | `Context::evaluate` | invocations with no order between them, ping-pong, folded grids, two dependent reductions |
| Exact Markov run (`gpu/mod.rs`, `markov_exact.wgsl`) | workgroup memory, one atomic | `evaluate_markov_exact`, `draw_markov` | barriers, atomics, overshoot of the grid |
| Device arithmetic and random stream (`common.wgsl`, `f64.wgsl`) | a cached keystream block | 64-bit and f64 emulation, ChaCha20, `gen_range` | rounding, cached block, rejection |
| Host substreams, examples and traits (`engine.rs`, `examples.rs`, `perturbation.rs`, ...) | the position in a substream | `fork_rng`, the worked components | bit identity with the device |
| Bindings (`python/`, `bindings/`) | report handles of the C ABI | build the two payloads, call, read, free | partial accuracy claims, handle ownership, eight forms of the same error |
| Lean, benches, scripts, docs | none | | |

How they interact: the bindings format a config and call the C ABI or
`Family::run`; these admit the config, then either run the draw loop and the
host reductions on the caller's thread and the rayon pool, or take the device
context, submit commands and wait for a readback; the value and the config
become a report.

What makes each correct:

- *reductions*: every path makes exactly the additions of the reference tree;
  no access leaves its slice; no in-place store clobbers an unread input;
- *draw loops*: the value does not depend on the schedule; rows have one owner;
  no row is forgotten or overwritten; a panic fails the whole call;
- *admission*: on no entry point is anything drawn for a config that breaks the
  contract in version, size, null parameter or sample floor, nor, on those that
  read it, in the reduction policy (the family's entry points do not: see section
  5); a report says truly how its value was computed; a bound is published
  only when it is backed; the C handle and the C code agree;
- *bindings*: every language gives the same answer to the same request; a handle
  is freed once, on every path; a part of a claim is never taken for a claim;
- *device*: one context; no lost callback; every call returns; no data race
  inside a dispatch; the value is that of the host's tree (`gpu_f32`) or the
  number of hits (`gpu`);
- *exact draw*: from the same seed and index the device takes the same words,
  computes the same intensity and variate bit for bit, and makes the same
  decision; the words are never stale, the label is uniform, the intensity stays
  in its interval.

## 2. The modules

| Module | Models | Role |
|---|---|---|
| `TreeReduction` | `reduce::reference` | abstract: a reduction as fresh levels |
| `HostReduction` | `reduce/*.rs` | detailed: in-place, vectorised, fused; implements `TreeReduction` |
| `HostReductionProof` | | theorems about `HostReduction` |
| `DyadicTree` | the closed form of the tree | reference for host and device |
| `Ensemble` | SCHEMA D1 to D3 | abstract: a run returns the value of its config or fails as a whole |
| `DrawPool` | `engine.rs`, `family.rs` | detailed: implements `Ensemble` |
| `DrawPoolProof` | | theorems about `DrawPool` |
| `DispatchGrid` | `gpu/mod.rs` `grid`, the index fold of the shaders | operators shared by the two device models |
| `DispatchGridProof` | | theorems about the folded grid; lemmas about quotients, powers of two and least elements |
| `DeviceEstimate` | `Context::evaluate`, `draw.wgsl`, `reduce.wgsl` | detailed: implements `Ensemble` |
| `DeviceEstimateProof` | | theorems about `DeviceEstimate` |
| `MarkovExact` | `Context::count_hits`, `markov_exact.wgsl` | detailed: implements `Ensemble` |
| `MarkovExactProof` | | theorems about `MarkovExact` |
| `DeviceQueue` | `gpu::context`, `Context::map_and_read` | threads sharing one device |
| `DeviceQueueProof` | | theorems about `DeviceQueue` |
| `ForkRng`, `HostDraw` | `engine.rs` `fork_rng` and `draw_one`, the Markov example, the `rand` crate | abstract: one Markov draw on the host |
| `DeviceWord`, `DeviceFloat` | `common.wgsl`, `f64.wgsl` | operators: 64-bit and binary64 arithmetic on words |
| `DeviceDraw` | `uniform_inclusive_params`, `markov_exact.wgsl`, the stream of `common.wgsl` | detailed: implements `HostDraw` |
| `DeviceDrawProof` | | theorems about the three |
| `SampleFloor` | `config::sample_floor` | operators: the floor, and what it is for |
| `Admission` | `config.rs`, `engine.rs`, `family.rs`, `report.rs`, `abi.rs` | config to report, on every entry point |
| `Bindings` | `python/`, `bindings/` | composed with `Admission`: the languages that call it |
| `BindingsProof` | | theorems about `Bindings`, `Admission` and `SampleFloor` |
| `MCHostReduction`, `MCDrawPool`, `MCDeviceEstimate`, `MCDeviceDraw`, `MCBindings` | | instances for TLC |

### Values

"Bit-identical" is a statement about which floating-point operations are made,
on which operands, in which order: IEEE addition is deterministic and not
associative. The models leave arithmetic uninterpreted (`Add`, `Mul`, `Drawn`,
... are operator constants). TLC gets free terms for them (a sum is the tuple
`<<"+", a, b>>`), so two values are equal exactly when they were computed by the
same operations; the proofs hold for every interpretation.

### HostReduction

`path` is what `active_backend` selects. A call enters with `Call` (any kernel,
any length), takes an early return, or copies its input (`CopyIn`, the sum) or
resizes the scratch buffer (`Allocate`, the two fused kernels). A level is
`VectorStep`s, then `ScalarStep`s, then `Carry`; `Descend` is the head of the
`while len > 1` loop. `VectorStep` goes through the instructions: `HaddPd`
interleaves as `_mm256_hadd_pd` does, `Permute4x64` decodes the immediate
`DEINTERLEAVE`, `Vpaddq` is NEON's. `start` is a history variable, the operands
of the level in progress, which the refinement mapping needs. Capacity of the
scratch buffer is not modelled; its contents between calls are.

### DrawPool

One run from a config chosen in `Init` (entry point, family kind, n, backend,
`parallel` feature, the draws that panic). rayon is external: a loop is a set of
index ranges which `Split` and `Take` distribute in any order, `Cancel` may drop
once a draw has panicked, and `Join` ends. A draw is `Fork`, `SampleTheta`, one
`Apply` per coordinate, and `Emit`; rows are written in place for
`Family::run` and stored by the indexed collect for the engine. `Measure`
reduces one column, `Finish` fills in the execution block.

### DeviceEstimate and MarkovExact

The host records commands and the device executes its queue in order, the
invocations of a command in any order; a load and the store that depends on it
are separate steps. That order between passes is WebGPU's and is taken as
external. `DispatchGrid` gives every invocation the linear index the shader
computes, modulo 2^32 (`U32`), over the folded grid the host dispatches, and the
sizes and offsets of `DeviceEstimate` are modulo `U32` too.
In `MarkovExact` a workgroup passes a barrier when all its invocations have
reached it, and whether draw i is a hit is a function of i fixed in `Init`.
`DeviceDraw` is what decides it.

### HostDraw and DeviceDraw

Here arithmetic is not uninterpreted: rounding is what can go wrong. A binary64
number is its bit pattern, an integer on the host and two words on the device,
and the width of a word and of a mantissa are constants. `HostDraw` computes with
integers (`Product` rounds an exact product once, gradual underflow included);
`DeviceFloat` goes through the limbs, carries, guard and sticky bits of
`f64_mul`, and `DeviceWord` through the halves of `mul32`, every `u32` operation
wrapping. `DeviceDraw` has the two host actions that derive the scale (`Divide`,
`WalkDown`), `Launch`, and one action per word the invocation takes. A keystream
word is abstracted to its position (what `chacha_block` caches), and its value is
chosen from a set when it is taken; the refinement maps the stream of the device
to the key and position of the host's.

### DeviceQueue

Threads call `context` (a `OnceLock`, whose initialisation may succeed, fail for
good, or panic and leave the cell empty), then make one or two readbacks: submit,
`map_async`, `poll`, `recv`. `poll` waits for the thread's own submission and then
runs every ready callback, so that `RunCallback(t)` may send on the channel of
another thread. Polls, maps and submissions may fail.

### Admission

A config is a record of the answers its checks get. `Checks(s)` is the list of
checks entry point `s` makes, in its order; `CheckNext` and `CheckFails` walk it.
Then the run (host, device, refusal, device error, panic), `Finish` for the
report, and `Return` or `ReturnC`. An accuracy claim is a record of scaled
integers, and `SampleFloor` computes its floor as the code does, from a table of
the rate ln(n + 1) / sqrt(n) up to n = 64.

### Bindings

`Bindings` extends `Admission` with the caller's side: `caller`, how much of an
accuracy claim was `supplied`, and the `phase` of the call. `Refuse` or `Build`
make the payload, `Calling` is any step of `Admission`, and then the answer comes
back: `Answer` (Python, TypeScript and Rust hold the report itself), `Throw` for a
null handle, or `Take`, `Read` and `Release`, with the failures in between.
"rust" and "c" are the callers of the entry points themselves, so that the
properties of `Admission` are checked on all of them here.

## 3. The runs

| Run | Instance | What it shows |
|---|---|---|
| `host_reduction` | lengths 0..19, 3 kernels, 3 paths, any sequence of calls | `SafeAccess`, `DyadicShape`, implements `TreeReduction`, every call returns |
| `draw_pool` | 2 workers, n up to 3, 2 coordinates, threshold 2 | `RowsAreOwned`, `NoDrawIsLost`, `PoolIsReported`, implements `Ensemble`, the run ends |
| `device_estimate` | n up to 9, up to 2 columns, workgroups of 2, grids 2 wide, u32 of 16, a cap of 14 | `RaceFree`, implements `Ensemble` |
| `markov_exact` | n in {1, 4, 5, 8}, workgroups of 4, grids 1 wide, 2^32 as 8 | `NoWorkgroupRace`, `HitsConserved`, implements `Ensemble` |
| `device_queue` | 2 threads, calls of 1 or 2 readbacks, 3 readbacks each | `OneContext`, `OutcomeIsFinal`, `CallbackNotLost`, every call returns |
| `device_draw` | words of 4 bits, a mantissa of 6, blocks of 3 words, at most 7 words a draw | implements `HostDraw`, `WordsInOrder`, `NeverOvershoots`, `WalksAtMostOnce`, `LabelsEquallyLikely` |
| `bindings` | every config record, 8 sizes, 7 claims or none, 8 callers | `OnlyAdmittedRuns`, `BoundIsBacked`, `NoSilentSubstitution`, `HandleMatchesCode`, `HandlesAreReleased`, `AnswersAgree`, `NoBoundFromPart` |

Every passing run also checks the type invariants. Five more runs are expected
to find a violation, each of one sentence of the repository:

| Run | Property | The sentence | What the code does |
|---|---|---|---|
| `draw_pool_threaded` | `ThreadedMeansPool` | `src/report.rs:53`: `threaded` is "`true` when the draw loop was spread across a thread pool" | `Execution::host` decides from n and the backend alone; `run_sequential` (so every `pk_run`) reports `true` for a sequential loop above the threshold |
| `admission_order` | `AggregationFollowsConfig` | `src/invariance.rs:16`: "Any aggregation MUST follow the reduction order declared in Config" | `pk_run` sums one by one under `tree`, the library's functionals use the tree under `sequential` |
| `admission_floor` | `TighterNeedsMore` | `tests/sample_complexity.rs:121`: "tighter epsilon must require more samples" | a floor that is not a finite f64 becomes 1: with 240 dimensions, epsilon 0.2 asks for 10^240 and epsilon 0.1 for one draw |
| `device_draw_tiny` | `SameDecision` | `gpu/shaders/f64.wgsl:14`: "no subnormals ... `family::Family::validate` is what guarantees it" | it accepts every `theta_max` in [0, 1]; with a tiny one the emulated product is wrong, and the device decides otherwise than the host |
| `bindings_partial` | `PartialIsRejected` | `perturbation_kernel.hpp:60`: "supplying some but not all is rejected by the engine" (also Zig, Julia) | the payload leaves the claim out, and the engine never sees it |

### Why the bounds are enough

- Length 19: an AVX2 level takes 8 inputs per iteration. Up to 19 there are
  levels of zero, one and two vector iterations, with every remainder of scalar
  iterations, with and without an odd tail, at the first level and below it, and
  chains of up to five levels. `HostReductionProof` removes the bound.
- Two workers and n = 3 with a threshold of 2: sequential and pooled runs, a
  range split unevenly, a range cancelled, two draws in flight, any subset of
  faulty draws.
- n up to 9 with workgroups of 2 and grids 2 wide: one and two dimensional
  grids, overshoot in both, n = 1 (no level at all), up to four levels (each
  scratch buffer is written twice), and ensembles over the
  binding limit of 14 elements.
- `markov_exact`: a workgroup of 4 has two rounds of the tree; n = 4 fills one
  group, 5 makes two groups with an overshoot of 3, and 8 is the size that u32
  refuses. The modulus is scaled as the real one is: the code's
  `MAX_GRID_X * WORKGROUP` = 2^21 divides 2^32, here 4 divides 8.
- `device_draw`: every mantissa of one binade is a `theta_max`, against words that
  reach every rounding case; the exponents down to the last whose products are
  normal; every alphabet of up to 15 labels; three words to a block, so that a
  draw crosses two block boundaries. In every layout the shader's shifts have to
  stay within a word, as 20 and 21 do in 32 (`LimbAssumption`); words of 4
  bits with 2 mantissa bits in the high one are among the smallest such.
- `bindings`: the sizes are on either side of the floors of the claims (32, 40, 64),
  one claim is out of reach of all of them, two have a floor that is not finite, and
  one has an epsilon within the hump of the rate: its floor is 1, and the size 4
  passes it with a rate above epsilon / 2 (`HumpIsMet`, which TLC evaluates).
  `HUGE` = 10^5 stands for the largest f64 and 12 dimensions for a few hundred.
- Two threads and three readbacks each: a second call after a completed or a
  failed one, callbacks run by the other thread's poll, an initialisation taken
  over after a panic. Three threads exceed a million states.

### Fairness

- `HostReduction!FairSpec`: a call in progress runs on its caller's thread and
  does not stop half-way (`WF(Progress)`). Calls themselves are not fair.
- `DrawPool!FairSpec`: the calling thread and each rayon worker are scheduled by
  the operating system (`WF` of `Drive` and of each `Run(t)`). Splitting and
  cancelling are rayon's choice and get no fairness.
- `DeviceQueue!FairSpec`: a thread inside a call is scheduled, and the device
  executes its queue. Nothing makes a poll succeed rather than fail.
- The other runs check no liveness.

`CHECK_DEADLOCK FALSE` appears only for `DrawPool`, whose run ends. The other
terminating models have an explicit stuttering action at their end, so a
deadlock anywhere else (a barrier nobody completes, a `recv` nobody answers) is
reported.

## 4. What is proved

Eight modules hold theorems. Each is about every value of the constants, under
the named assumptions only, and those on a draw's products under a hypothesis that
is stated with them (`NormalProducts`).

### The reductions: `HostReductionProof`

For every `MaxLen`, every input and every interpretation of the arithmetic:

- `TypeCorrect`: `Spec => []TypeOK`;
- `AccessesAreSafe`: `Spec => []SafeAccess`, the SAFETY comments of `avx2.rs` and
  `neon.rs`: loads stay in the live prefix, stores in the buffer, and the
  in-place store never clobbers an input of a later iteration;
- `Implements`: `Spec => ImplementsTree`, the vectorised, fused, in-place
  code makes the additions of `reference::tree_sum`, step for step;
- `ShapeIsDyadic`: `Spec => []DyadicShape`, the result is the tree of SCHEMA
  section 8 in closed form (`DyadicTree`).

The only assumption is `MaxLenAssumption` (`MaxLen \in Nat`).

Neither `SafeAccess` nor the refinement is inductive. The inductive invariant
`IInv` adds to `TypeOK`:

- at entry `len = n` and `start` is the vector of leaves of the call
  (`StartIsInput`);
- at the head of the loop the first `len` cells of the buffer are `start`;
- inside a level, outputs `0 .. k-1` are already the sums of pairs of `start`
  (`Computed`), and the cells from `k` on still hold the operands of `start`,
  which is what "never clobbers an unread input" means for the values;
- the buffer is long enough for the level.

The argument: `NeonLanes` and `Avx2Lanes` show that lane j of the stored register
is the sum of pair k + j (for AVX2 by decoding the immediate, 216); from them
`VectorOutputs`, `ScalarOutputs` and `CarryOutputs` say what one iteration does;
then there is one lemma per action that it preserves `IInv` and maps to an action of
`TreeReduction` or to a stutter (only `Carry` maps to `Collapse`).

`DyadicShape` compares with a recursive function and with powers of two, about which
the provers know nothing. `LevelsUnfold` gets the recursion from a solution of
it (`TreesExist`, by a least counterexample as all inductions here), and
`PowerDoubles` gets 2^(m+1) = 2 * 2^m from counting subsets. The invariant `Shaped` is
that `start`, of length `len`, is some level L of the closed form with
2^L (len - 1) < n <= 2^L len (`Covers`), which is to say that `len` is n / 2^L
rounded up; `LevelAbove` is the step of `Carry`, odd tail included.

### The draw loops: `DrawPoolProof`

For any set of workers, any bound on n, any dimension and every interpretation of
the arithmetic (`SizeAssumption`: there is at least one draw and one coordinate):

- `TypeCorrect`: `Spec => []TypeOK`;
- `RowsOwned`: `Spec => []RowsAreOwned`, for every way of splitting the indices;
- `DrawsAreKept`: `Spec => []NoDrawIsLost`: every index is with a thread, on offer, or
  made, with its own draw intact in its row, unless a draw panicked, and then no
  value is computed;
- `ReportIsTrue`: `Spec => []PoolIsReported`;
- `DrawPoolImplementsEnsemble`: `Spec => ImplementsEnsemble`. The schedule
  disappears: whatever it was, the run returns the value of its config, or fails
  as a whole when one of its draws panics.

That the value does not depend on the schedule is not a property of any state of
the loop but of what is left when it ends, so the invariant `IInv` says at every
point how much of it is there:

- `Jobs`: a thread is idle, or is at a draw of its range with exactly the
  substream, theta and prefix of the row that the index determines (`ForkAt`,
  `ThetaAt`, `ApplyAt`), and no coordinate of a draw that panics was computed;
- `Rows`: the family path, which writes in place, has written that prefix;
- `Drawn`: every index is held by a thread, offered, made (its row holds it and it
  does not panic) or lost to a panic. At the join nothing is held or offered, so
  without a panic all are made;
- `RowsAreOwned`, so that a range taken or split stays apart from the others;
- `Sums`: after `col` columns, `total` is entry `col` of every accumulation of all
  columns, and an accumulation of the first `col` exists;
- `Basic`: types and the bookkeeping of `pc`, `col`, `pooled` and `crashed`.

`Sums` replaces an induction over the recursive function of `ValueOf`: the run itself is
the induction, one `Measure` per column, and at `Finish` the accumulation that
`ValueOf` chooses is one of those `Sums` speaks of (`Unfolds`). `JobStep`, `OfferStep`
and `CallStep` say once what a step of a thread, of the pool and of the call leaves alone;
then there is one lemma per action.

### The shared device: `DeviceQueueProof`

For any set of threads and any number of readbacks (`ReadbacksAssumption`: a call
makes at least one, and the bound on tickets leaves room for one call):

- `TypeCorrect`: `Spec => []TypeOK`, which includes that no submission is in the
  queue twice;
- `ContextIsUnique`: `Spec => []OneContext`;
- `OutcomeIsKept`: `Spec => OutcomeIsFinal`, an action property;
- `NoCallbackLost`: `Spec => []CallbackNotLost`.

`CallbackNotLost` speaks of the threads in `recv`. To be inductive it needs what
came before that point, so `IInv` has six parts, with one lemma that a step
preserves each:

- `Types`, the state in its type;
- `Counters`: a call in progress has a readback to make and a ticket for it;
- `Cell`: only the thread in `Context::new` sees "initialising", and there is
  a context exactly when the cell is "ready";
- `Submissions`: what is queued, completed or registered was begun by its thread,
  and what is queued is not yet completed. A new ticket is therefore unknown
  everywhere, which is what a fresh buffer and a fresh channel give the code;
- `Callbacks`: a callback is registered, collected by one poll or sent, never two
  of these, and the last two happen only to readbacks that have completed;
- `Expected`: in `map` nothing is registered for the thread's readback; in `poll`
  its callback is registered or on its way, because another thread's poll may
  have taken it; after its own poll it is on its way.

The step that matters is `Poll(t)`: its guard (the thread's own submission has
completed) is what turns the disjunction of `poll` into the certainty of `recv`.

### The folded grid: `DispatchGridProof`

For every number of threads from 1 to `U32`:

- `EveryIndexTaken`: every index of the range is the linear index of some
  invocation, so no draw and no pair of a level is left out;
- `NoIndexTakenTwice`: since `MAX_GRID_X * WORKGROUP` divides `U32`
  (`RowDividesU32`: in the code 32768 * 64 = 2^21 divides 2^32), no two
  invocations, those of the overshoot included, have the same linear index, so an
  index that wrapped around in u32 cannot count a draw again.

The second theorem needs the divisibility: rounding up may add almost one row of
workgroups; `GridFits` shows that the whole grid still has
at most `U32` invocations, `NoWrap` that the shader's modular arithmetic is then
exact, and the rest is that mixed-radix digits are unique (`Digits`).

### The single-precision run: `DeviceEstimateProof`

For every bound on n and d, grid width and workgroup size:

- `TypeCorrect`: `Spec => []TypeOK`;
- `DispatchRaceFree`: `Spec => []RaceFree`. No two invocations of a draw or of a level
  touch one element when one of them writes it, and none leaves its buffers;
- `EstimateImplementsEnsemble`: `Spec => ImplementsEnsemble`. In whatever order the
  device runs the invocations, `evaluate` returns the host's tree over the draws, or
  refuses the config.

`LevelsEnd` first shows that the loop of `reduce_columns` ends: each round shortens
the columns (`Shortens`). The invariant is that every command in the queue is one of
`Commands` (so a level reads one buffer and writes another), that the invocations
under way are those of the head of the queue, and that the host has no more in
flight than it should. `RaceFree` is then a fact about one command: two live
invocations have different indices (`Indices`, from the grid), hence different
columns or places (`CollapseLane`), hence different offsets (`OffsetsDiffer`); and
`Offsets` shows that none wraps around in u32, because the ensemble passed the cap
and the cap is below 2^32 elements (`BindingFitsU32`). That assumption is external:
the adapter reports the limit, and the code takes it as it is.

The refinement needs to know what the buffers hold, which `Contents` says of a batch
under way. `Turn` is the place in the batch of the head of the queue:

- `InOrder`: the queue is what is left of the batch, from `Turn` on;
- `Stored`: once the draw is over, `ensemble` has every draw, and keeps them for the
  second reduction; in that one, `means` has the means of the first; after level t the
  buffer it wrote has the nodes of level t, and the staging buffer has the tops;
- `LanesHold`: an invocation that has loaded has the node of its output, and one that
  has ended has stored what its command computes.

Nodes are those of `DyadicTree`, the closed form that `Ensemble` sums by: `LevelAbove`
says that one round of `collapse` is one level of it, a leftover carried, and
`NodeTop` that the last level is the sum. When a command retires, all its elements are
there (`AllDrawn`, `AllCollapsed`), by `EveryIndexTaken`: an index that no invocation
took would be a hole. That `Store` spoils no other lane's result is `RaceFree` again
(`Apart`). The total that `Accumulate` defines by a function exists and is unique by
least counterexample (`AccumulationExists`, `AccumulationUnique`).

### The exact Markov run: `MarkovExactProof`

For every set of sizes, grid width and workgroup size (`WorkgroupIsPowerOfTwo`: 1 is
its only odd divisor):

- `TypeCorrect`: `Spec => []TypeOK`;
- `WorkgroupRaceFree`: `Spec => []NoWorkgroupRace`;
- `MarkovImplementsEnsemble`: `Spec => ImplementsEnsemble`. Whatever the schedule, the
  count is the number of hits;
- `NoHitLost`: `Spec => []HitsConserved`. At every step each hit is in exactly one of
  the places that still count.

The invariant says what the memory of a workgroup holds in each phase. `Share(c, g,
s, l)` is the number of hits among the invocations of workgroup g whose local id
is l modulo s:

- `Drawing`: a lane that has drawn holds its own hit, which is its share modulo
  the workgroup (`ShareOfLane`);
- `Summing(g, s)`: element l holds its share modulo 2s, and modulo s once lane l < s
  has stored. A lane reads its partner's element, which no lane of that round
  writes, and the share modulo s is the sum of the two (`ShareSum`);
- `Adding`: element 0 holds the share modulo 1, all the hits of the workgroup;
- `Phases`: every workgroup is in one of these, which is what the barriers give
  (`NextPhase`; `Halves` needs the power of two, so that no element is dropped when
  the stride is halved);
- `Counting`: the counter is the number of hits of the workgroups whose lane 0 has
  added; `Control` ties the host's place to the rest.

Every sum is at most n < `U32`, so no addition wraps. At the readback all lanes
have ended, and `HitsFound` turns the hits of invocations into hits of draws: the
linear index is a bijection between the two, by the theorems about the grid.

`NoHitLost` is about all lanes at once, in the middle of a round too. Every hit whose
workgroup has not added gets one `Owner`, the lane whose partial sum has it: its own
lane while drawing, in round s the lane of its local id modulo s or 2s, depending on
whether that lane has stored, and lane 0 at the end. In each phase the number a lane
holds is the number of hits it owns (`HeldDrawing`, `HeldSumming`, `HeldAdding`), and
`SumIsCount` turns the sum over the lanes into a count.

### The device arithmetic and the keystream: `DeviceDrawProof`

TLC compares the emulation with exact arithmetic on 4-bit words; the proofs are
for every width (`HalfAssumption`, `LimbAssumption`: the divisibilities that
powers of two have).

- `Mul32Exact`: no partial product and no carry of `mul32` wraps, and its two
  words are the product;
- `U64AddWraps`, `U64MulWraps`, `U64ShrDivides`: the 64-bit operations are those of
  u64; hence `KeysAgree`: for every seed and index, `stream_new` makes the key
  that `fork_rng` makes;
- `F64MulRoundsToNearestEven`: of two normal numbers whose result has an exponent
  in range, `f64_mul` returns the number nearest to the product, the even one of
  two. `LimbsExact` shows that the limbs with their carries are the product of
  the significands, `TopBit` that bit 105 tells its binade, `KeptIsQuotient` and
  `GuardAndSticky` that what is kept and what is dropped are a quotient and its
  remainder compared with half, `RoundingIsNearest` that the increment rounds,
  and `HalvedIsOne` and `OverflowTest` that a carry out of the significand is
  seen and moves the exponent.

The hypothesis on the exponents is what `device_draw_tiny` shows to be needed.

The keystream, for every block length, alphabet and bound on the words:

- `TakenInOrder`: `Spec => []WordsInOrder`. The invariant is that a loaded block
  holds the positions of the block it is named for (`CacheIsFresh`);
- `ReadsTheHostKeystream`: the key is the host's (from `KeysAgree`) and the
  position is the host's, throughout the draw.

The values of a draw, for every layout of words and patterns:

- `LabelsUniform`: `Spec => []LabelsEquallyLikely`. The zone is k times a power of two
  and fits a word (`ZoneFits`), so that the words accepted for a label are one run
  of consecutive words of that length (`AcceptedInARow`), whatever the label;
- `WalksOnce`: `Spec => []WalksAtMostOnce`, which the code only says of practice. The
  invariant is `Walking`: the scale is the quotient, or one step below a quotient that
  overshoots. `OneStepDown` is why there is no second step: the quotient is rounded by
  less than one step of its own binade (`RoundBounds`), so one step below it the
  product with the largest sample is at most theta_max before it is rounded, and
  rounding keeps the order (`LargestDraw`, `BelowQuotient`). `BiasAssumption` says that
  the least nonzero sample, 2^-52, is a normal number, and that no product of numbers
  up to 1 leaves the exponents at the top (52 and 1023, with 2048 exponents);
- `TypeCorrect`: `Spec => []TypeOK`. `ProductType` and `ScaledType` hold outside the
  normal range too: there `f64_mul` may return a wrong number but never a malformed
  one.

The draw is the host's. Two theorems are about the arithmetic alone:

- `F64MulIsHostProduct`: where the factors are normal and the exponent of the result is
  in range, `f64_mul` is the host's product, bit for bit; the nearest number is unique
  (`NearestIsRoundEven`);
- `ScaledIsHostScaled`: `f64_from_scaled_int` is the host's exact conversion, for every
  integer that fits a significand; its three shifts are one product by a power of two.

The other two are about a draw whose products are normal: `NormalProducts`, which says of
every draw that theta_max is 0 or at least 53 * 2^52 as a pattern, 2^-970.
The run `device_draw` satisfies it and `device_draw_tiny` shows that it is needed:
`f64_mul` has no subnormal results. `NormalAssumption` of `MCDeviceDraw` has TLC evaluate both.

- `DrawIsHosts`: `Spec => ImplementsHost`, the refinement of `HostDraw`, "bit-identically to
  the host" of `config.rs`, for every layout, alphabet, seed, index, block length and
  sequence of rejections. The device's own steps (`Divide`, `WalkDown`) stutter. A word
  taken is the host's next word (`TakeIsHosts`, from the keystream's invariant); the
  intensity is the host's because a sample is 0 or a normal number from 2^-52 to just
  below 1 (`UnitSample`), the scale is 0 or normal (`ScaleIsNormal`) and is the one the
  host's walk finds (`ScaleIsHosts`: the recursion exists, and one step of it is
  enough); comparing pairs of words is comparing the numbers (`LessIsLess`); the zone,
  the rejection and the label are the host's (`RangeIsHosts`);
- `EndIsRespected`: `Spec => []NeverOvershoots`. A sample is at most the largest one, for
  which the scale was walked down until its product does not exceed theta_max, and a
  smaller sample never rounds to more (`SmallerSample`, across binades).

### The call and its languages: `BindingsProof`

For every set of sizes and of claims. The first invariant, `IInv`, says what a call
owns and reports, whatever its checks answered:

- `HandlesMatchCodes`, `NoSubstitution`, `HandlesReleased` and `PartsAreNotBounds`
  state `HandleMatchesCode`, `NoSilentSubstitution`, `HandlesAreReleased` and
  `NoBoundFromPart`. `IInv` has a part for each (`Codes`, `Provenance`, `Ownership`,
  `Wholeness`) and `Progress`, which ties the phase of the caller to the state of
  the call: nothing is run, returned or held before the payload is built, and a
  handle exists only once a C entry point has returned.

The second, `Told`, says what the answer rests on. `Position`: the call stands after
the first k checks of its entry point, all of which passed, `used` is set only after
the last, and an error is that of check k + 1. `Outcome` and `Answered`: which
verdicts, reports and answers go with which position.

- `CallTypes`, `CallerTypes`: the type invariants of `Admission` and of `Bindings`;
- `RunsMeetTheContract`: `BindingSpec => []OnlyAdmittedRuns`. The contract has five
  rules: version, size, null parameter, sample floor, reduction policy. By
  `ChecksAreRanked` every one of the entry points' lists has the first four, in
  their order, and by `PolicyIsLast` those of the engine end with the fifth and
  those of families do not have it, so that a run has passed them all. The
  property says so: it speaks of the config `AsRead`, with the one field that a
  family's entry point never looks at replaced by what it does whatever the
  field says. That the floor check is enough is `FloorSecures`: `RoundedUp` (the
  quotient that is rounded up), `PowerIsNumber` (the recursive power), `SearchEnds` and
  `SearchStops` (where the doubling search ends) give that an n at or above the
  floor has the concentration of the claim, that the rate is small enough at n or
  at some smaller size, and that it is so at n itself outside the hump;
- `BoundsAreBacked`: `[]BoundIsBacked`, since a bound is only published by a run;
- `LanguagesAgree`: `[]AnswersAgree`, unknown reduction policies included.
  `VerdictIsContract` finds the contract's error in
  the first failing check, and each caller's translation of it is its own form.

The attempt to prove `FloorSecures` showed that it was false as first stated, in
three ways. A claim whose *concentration* floor is not finite gets the floor 1,
like one whose bias floor is not; and an epsilon so small that the search ends at
its cap is not backed by the cap. `Representable` excludes these two from what
`Supports` promises (that n is at or above the floor holds of them too), and the run
`admission_floor` shows what comes of the first. Third, the rate rises until n = 4
before it falls, and the search, which starts at 1 and doubles, takes it to fall
throughout: for an epsilon of 1.39 to 1.61 (`InHump`) it stops at 1, which satisfies
the rate as sizes up to 16 may not. These claims are not excluded: `Supports` says of
them what the floor does secure, the concentration at n and the bias at some size
up to n.

### Only model-checked

Every liveness property (`CallReturns`, `RunEnds`, `CallsReturn`): liveness under
fairness and `ENABLED` are out of this prover's reach and stay with TLC.
Every other property of a passing run is stated by a theorem, some under a
hypothesis on the constants that their section names.

## 5. What is not modelled, and why

- floating-point rounding outside the Markov draw, and the epsilon that a bound
  publishes (`engine.rs:211-252`);
- JSON decoding and the formatting of numbers: `Admission` starts from the answers
  of the checks. So the values that a caller checks itself before the call are not
  represented: the ranges of epsilon and eta in Python (`python/src/lib.rs:109-113`);
- a null `out_err` at the C boundary (`abi.rs:178`), which is then left alone;
- the rounds of ChaCha20, the ziggurat and Box-Muller deviates, and the maps of the
  Gaussian and bistable examples: symbols of the seed, the index and the position
  in the substream;
- the getters of the bindings' report objects, and a C++ `Report` after a move;
- the debug hooks of the device, which reuse the modelled dispatch and readback;
- WebGPU's own guarantees (order of passes, barriers, buffer mapping) and
  rayon's: external, modelled from how the code relies on them;
- the Lean development, benchmarks, scripts and documentation.

Divergences seen while reading that no run covers: the `simd_path` of a report
follows the config's backend while the reductions always resolve
`Backend::Auto`, so a `scalar` run can report `scalar` and use the vector path
(the value is the same, by `Implements`); `Family::run` never looks at the
reduction policy, so a config with an unknown one runs there and is refused by
`Engine::run` (`OnlyAdmittedRuns` and `AnswersAgree` state this as the one difference
of the two lists, through `AsRead`); the doubling search of
`sample_floor` never bisects, so that its floor is a power of two and not "the
smallest N" (`config.rs:277`), and for an epsilon between 1.39 and 1.61 it
stops at n = 1 on the rising part of the rate, so that it accepts sizes, such as 4,
whose rate is above epsilon / 2; a published epsilon adds the
stochastic and the bias term (`engine.rs:229`), so that it may exceed the one
claimed; R loses the handle when an allocation fails between the call and the
free; the Python getter `execution` (`python/src/lib.rs:274`) and
`docs/backends.md:211` say that a device result carries `precision` "f32", which holds
of `'gpu_f32'` only.

## 6. Plan

Done, in this order: `TreeReduction`, `HostReduction` and their proof;
`Ensemble`, `DrawPool`; `DispatchGrid`, `DyadicTree`, `DeviceEstimate`;
`MarkovExact`; `DeviceQueue`; the proofs of `DeviceQueue`, `DrawPool`, the grid, `MarkovExact` and `DeviceEstimate`;
`ForkRng`, `HostDraw`, `DeviceWord`, `DeviceFloat`, `DeviceDraw` and their proofs;
`SampleFloor`, `Admission`, `Bindings` and its proof.

To do, proofs: the product of `f64_mul` at the edge of its range, to weaken
`NormalProducts` of `DeviceDraw` to the draws whose products do not underflow although
their scale is smaller (the sample is 0, or large enough).
