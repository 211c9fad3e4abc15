------------------------------ MODULE DrawPool ------------------------------
(***************************************************************************)
(* One host run of the estimator: the draw loop, spread over a thread pool *)
(* or not, and the reduction of what was drawn.  It models the three ways  *)
(* the library draws: Engine::run (draw_ensemble collects into a Vec),     *)
(* Engine::run_sequential (draw_sequential) and Family::run (run_gaussian  *)
(* and run_scalar write rows of one flat allocation in place).             *)
(*                                                                         *)
(* rayon is external: a parallel loop over 0 .. n - 1 is a set of index    *)
(* ranges that idle workers take, or that are split first, in any order;   *)
(* the caller blocks until every range is finished, and a panic in one     *)
(* range may cancel ranges nobody has taken yet.                           *)
(*                                                                         *)
(* Arithmetic is uninterpreted: Word(i, p) is what the p-th sample taken   *)
(* from the substream of fork_rng(seed, i) reads (one sample may read      *)
(* several words), and the other operators build values from it.           *)
(***************************************************************************)
EXTENDS Integers, Sequences, FiniteSets

CONSTANTS Workers,          \* the threads of the rayon pool
          Caller,           \* the thread that calls run
          MaxN,             \* bound on the ensemble size
          Dim,              \* the dimension of the Gaussian family
          PARALLEL_MIN,
          Word(_, _),
          Theta(_),         \* sample_theta of a word
          Shifted(_, _, _), \* coordinate j of the state perturbed by theta
          Column(_, _, _),  \* what measure adds for one column (order matters)
          Zero, NoValue

ASSUME CallerAssumption == Caller \notin Workers
ASSUME SizeAssumption == MaxN \in Nat \ {0} /\ Dim \in Nat \ {0}

VARIABLES
    config,     \* the run: entry point, family kind, n, backend, feature, faults
    pc,         \* "start", "drawing", "measuring", "done" or "panicked"
    pooled,     \* the draw loop was handed to the pool
    tasks,      \* index ranges <<lo, hi>> that no thread has taken
    job,        \* what each thread is doing
    cells,      \* the ensemble: coordinate j of draw i at i * d + j
    crashed,    \* a draw panicked
    col,        \* the next column to reduce
    total,      \* what measure has accumulated
    threaded    \* report.execution.threaded

vars == <<config, pc, pooled, tasks, job, cells, crashed, col, total, threaded>>

Entries  == {"run", "run_sequential", "family"}
Kinds    == {"gaussian", "scalar"}
Backends == {"auto", "simd", "scalar"}

\* Draws that panic are part of the config: sample_theta, apply and eval are
\* functions of (s, theta, rng), so whether draw i panics depends on i alone.
Configs ==
    UNION {[entry : Entries, kind : Kinds, n : {m}, backend : Backends,
            parallel : BOOLEAN, faulty : SUBSET (0 .. m - 1)] : m \in 1 .. MaxN}

d == IF config.kind = "gaussian" THEN Dim ELSE 1
n == config.n

Threads == Workers \cup {Caller}
Idle == [stage |-> "idle"]

-----------------------------------------------------------------------------
(* The threshold: engine.rs draw_ensemble and family.rs threaded.          *)
UsesPool ==
    /\ config.parallel
    /\ n >= PARALLEL_MIN
    /\ config.backend # "scalar"
    /\ config.entry # "run_sequential"

\* Execution::host: what a report says of the draw loop.
ReportThreadedNever == FALSE
ReportThreaded ==
    /\ config.parallel
    /\ n >= PARALLEL_MIN
    /\ config.backend # "scalar"

Init ==
    /\ config \in Configs
    /\ pc = "start"
    /\ pooled = FALSE
    /\ tasks = {}
    /\ job = [t \in Threads |-> Idle]
    /\ cells = [x \in {} |-> Zero]
    /\ crashed = FALSE
    /\ col = 0
    /\ total = Zero
    /\ threaded = FALSE

\* The ensemble is allocated and the whole range is offered.
Start ==
    /\ pc = "start"
    /\ pc' = "drawing"
    /\ pooled' = UsesPool
    /\ tasks' = {<<0, n>>}
    /\ cells' = [x \in 0 .. n * d - 1 |-> Zero]
    /\ UNCHANGED <<config, job, crashed, col, total, threaded>>

\* rayon halves a range that nobody has started.
SplitOverlapping ==
    /\ pc = "drawing"
    /\ pooled
    /\ \E r \in tasks :
          LET mid == (r[1] + r[2]) \div 2
          IN  /\ r[2] - r[1] > 1
              /\ tasks' = (tasks \ {r}) \cup {<<r[1], mid + 1>>, <<mid, r[2]>>}
    /\ UNCHANGED <<config, pc, pooled, job, cells, crashed, col, total, threaded>>

Split ==
    /\ pc = "drawing"
    /\ pooled
    /\ \E r \in tasks :
          LET mid == (r[1] + r[2]) \div 2
          IN  /\ r[2] - r[1] > 1
              /\ tasks' = (tasks \ {r}) \cup {<<r[1], mid>>, <<mid, r[2]>>}
    /\ UNCHANGED <<config, pc, pooled, job, cells, crashed, col, total, threaded>>

\* A worker, or the caller itself when the loop is sequential, takes a range.
Take(t) ==
    /\ pc = "drawing"
    /\ t \in (IF pooled THEN Workers ELSE {Caller})
    /\ job[t] = Idle
    /\ \E r \in tasks :
          /\ tasks' = tasks \ {r}
          /\ job' = [job EXCEPT ![t] = [stage |-> "fork", at |-> r[1], hi |-> r[2]]]
    /\ UNCHANGED <<config, pc, pooled, cells, crashed, col, total, threaded>>

\* let mut sub = fork_rng(seed, i)
ForkByArrival(t) ==
    /\ job[t].stage = "fork"
    /\ job' = [job EXCEPT ![t] =
                  [stage |-> "theta", at |-> @.at, hi |-> @.hi,
                   rng |-> [index |-> Cardinality(tasks), word |-> 0]]]
    /\ UNCHANGED <<config, pc, pooled, tasks, cells, crashed, col, total, threaded>>

Fork(t) ==
    /\ job[t].stage = "fork"
    /\ job' = [job EXCEPT ![t] =
                  [stage |-> "theta", at |-> @.at, hi |-> @.hi,
                   rng |-> [index |-> @.at, word |-> 0]]]
    /\ UNCHANGED <<config, pc, pooled, tasks, cells, crashed, col, total, threaded>>

\* let theta = fam.sample_theta(&mut sub)
SampleTheta(t) ==
    /\ job[t].stage = "theta"
    /\ job' = [job EXCEPT ![t] =
                  [stage |-> "apply", at |-> @.at, hi |-> @.hi,
                   rng |-> [index |-> @.rng.index, word |-> @.rng.word + 1],
                   theta |-> Theta(Word(@.rng.index, @.rng.word)),
                   row |-> << >>]]
    /\ UNCHANGED <<config, pc, pooled, tasks, cells, crashed, col, total, threaded>>

\* A component panics: the thread abandons the rest of its range.
PanicHoldsRange(t) ==
    /\ job[t].stage = "apply"
    /\ job[t].at \in config.faulty
    /\ crashed' = TRUE
    /\ UNCHANGED <<config, pc, pooled, tasks, job, cells, col, total, threaded>>

Panic(t) ==
    /\ job[t].stage = "apply"
    /\ job[t].at \in config.faulty
    /\ job' = [job EXCEPT ![t] = Idle]
    /\ crashed' = TRUE
    /\ UNCHANGED <<config, pc, pooled, tasks, cells, col, total, threaded>>

\* The next coordinate of the perturbed state: run_gaussian writes it straight
\* into its row, the trait implementations into a buffer of their own.
ApplyPacked(t) ==
    LET J == job[t]
        j == Len(J.row)
        y == Shifted(j, J.theta, Word(J.rng.index, J.rng.word))
    IN  /\ J.stage = "apply"
        /\ J.at \notin config.faulty
        /\ j < d
        /\ job' = [job EXCEPT ![t] =
                      [stage |-> "apply", at |-> J.at, hi |-> J.hi,
                       rng |-> [index |-> J.rng.index, word |-> J.rng.word + 1],
                       theta |-> J.theta, row |-> Append(J.row, y)]]
        /\ cells' = IF config.entry = "family"
                    THEN [cells EXCEPT ![J.at + j] = y] ELSE cells
        /\ UNCHANGED <<config, pc, pooled, tasks, crashed, col, total, threaded>>

Apply(t) ==
    LET J == job[t]
        j == Len(J.row)
        y == Shifted(j, J.theta, Word(J.rng.index, J.rng.word))
    IN  /\ J.stage = "apply"
        /\ J.at \notin config.faulty
        /\ j < d
        /\ job' = [job EXCEPT ![t] =
                      [stage |-> "apply", at |-> J.at, hi |-> J.hi,
                       rng |-> [index |-> J.rng.index, word |-> J.rng.word + 1],
                       theta |-> J.theta, row |-> Append(J.row, y)]]
        /\ cells' = IF config.entry = "family"
                    THEN [cells EXCEPT ![J.at * d + j] = y] ELSE cells
        /\ UNCHANGED <<config, pc, pooled, tasks, crashed, col, total, threaded>>

\* eval: draw i is complete; the indexed collect stores it at slot i.
EmitOnePast(t) ==
    LET J == job[t]
    IN  /\ J.stage = "apply"
        /\ Len(J.row) = d
        /\ job' = [job EXCEPT ![t] =
                     IF J.at + 1 <= J.hi
                     THEN [stage |-> "fork", at |-> J.at + 1, hi |-> J.hi] ELSE Idle]
        /\ UNCHANGED <<config, pc, pooled, tasks, cells, crashed, col, total, threaded>>

Emit(t) ==
    LET J == job[t]
    IN  /\ J.stage = "apply"
        /\ Len(J.row) = d
        /\ cells' = IF config.entry = "family" THEN cells
                    ELSE [x \in DOMAIN cells |->
                            IF x \div d = J.at THEN J.row[(x % d) + 1] ELSE cells[x]]
        /\ job' = [job EXCEPT ![t] =
                     IF J.at + 1 < J.hi
                     THEN [stage |-> "fork", at |-> J.at + 1, hi |-> J.hi] ELSE Idle]
        /\ UNCHANGED <<config, pc, pooled, tasks, crashed, col, total, threaded>>

\* rayon cancels a range that nobody has taken once some draw has panicked.
Cancel ==
    /\ pc = "drawing"
    /\ crashed
    /\ pooled
    /\ \E r \in tasks : tasks' = tasks \ {r}
    /\ UNCHANGED <<config, pc, pooled, job, cells, crashed, col, total, threaded>>

\* The parallel loop returns, or resumes the panic, when no thread is in it.
Join ==
    /\ pc = "drawing"
    /\ tasks = {}
    /\ \A t \in Threads : job[t] = Idle
    /\ pc' = IF crashed THEN "panicked" ELSE "measuring"
    /\ UNCHANGED <<config, pooled, tasks, job, cells, crashed, col, total, threaded>>

\* measure: gather column col and accumulate its second moment, or its mean.
Gather == [i \in 0 .. n - 1 |-> cells[i * d + col]]

Measure ==
    /\ pc = "measuring"
    /\ col < d
    /\ total' = Column(config.kind, total, Gather)
    /\ col' = col + 1
    /\ UNCHANGED <<config, pc, pooled, tasks, job, cells, crashed, threaded>>

\* finish_report stamps the execution block and the report is returned.
Finish ==
    /\ pc = "measuring"
    /\ col = d
    /\ pc' = "done"
    /\ threaded' = ReportThreaded
    /\ UNCHANGED <<config, pooled, tasks, job, cells, crashed, col, total>>

\* The steps of one thread: a thread that can move is eventually scheduled.
Run(t) == Take(t) \/ Fork(t) \/ SampleTheta(t) \/ Panic(t) \/ Apply(t) \/ Emit(t)

\* The steps of the call itself, on its caller's thread.
Drive == Start \/ Join \/ Measure \/ Finish

Next == Drive \/ Split \/ Cancel \/ \E t \in Threads : Run(t)

Spec == Init /\ [][Next]_vars

FairSpec ==
    /\ Spec
    /\ WF_vars(Drive)
    /\ \A t \in Threads : WF_vars(Run(t))

-----------------------------------------------------------------------------
(* Properties                                                              *)

Busy(t) == job[t] # Idle

\* The type invariant.
TypeOK ==
    /\ config \in Configs
    /\ pc \in {"start", "drawing", "measuring", "done", "panicked"}
    /\ pooled \in BOOLEAN /\ crashed \in BOOLEAN /\ threaded \in BOOLEAN
    /\ \A r \in tasks : r[1] \in 0 .. n - 1 /\ r[2] \in r[1] + 1 .. n
    /\ \A t \in Threads :
          Busy(t) => /\ job[t].stage \in {"fork", "theta", "apply"}
                     /\ job[t].at \in 0 .. n - 1
                     /\ job[t].hi \in job[t].at + 1 .. n
    /\ DOMAIN cells \in {{}, 0 .. n * d - 1}
    /\ col \in 0 .. d

\* The draws that some thread or some range still has to make.
Left(t)   == IF Busy(t) THEN job[t].at .. job[t].hi - 1 ELSE {}
Offered(r) == r[1] .. r[2] - 1

\* No two threads own the same rows, so that the writes of par_chunks_mut and
\* of the indexed collect never race and no index is drawn twice.
RowsAreOwned ==
    /\ \A t, u \in Threads : t # u => Left(t) \cap Left(u) = {}
    /\ \A r, q \in tasks : r # q => Offered(r) \cap Offered(q) = {}
    /\ \A t \in Threads, r \in tasks : Left(t) \cap Offered(r) = {}

\* The value of draw i, coordinate j, and of a run, as a function of the
\* config: the reference the schema defines (D1, D2, D3).
Draw(i, j) == Shifted(j, Theta(Word(i, 0)), Word(i, j + 1))

\* Draw i is made: it did not panic and its row holds it.
Made(i) == i \notin config.faulty /\ \A j \in 0 .. d - 1 : cells[i * d + j] = Draw(i, j)

\* From the start of the loop to the end of the run every index is with a
\* thread, on offer, or made, with the row of that index intact whatever the
\* other threads write, unless a draw has panicked: an index that a panic or a
\* cancelled range loses always takes the call down with it, so that a value is
\* never computed from a partial ensemble.
NoDrawIsLost ==
    pc # "start" =>
        \A i \in 0 .. n - 1 :
            \/ crashed /\ pc \in {"drawing", "panicked"}
            \/ \E t \in Threads : i \in Left(t)
            \/ \E r \in tasks : i \in Offered(r)
            \/ Made(i)

ValueOf(c) ==
    LET dc == IF c.kind = "gaussian" THEN Dim ELSE 1
        acc[x \in 0 .. dc] ==
          IF x = 0 THEN Zero
          ELSE Column(c.kind, acc[x - 1], [i \in 0 .. c.n - 1 |-> Draw(i, x - 1)])
    IN  acc[dc]

SoundConfig(c) == c.faulty = {}

\* Every entry point, every backend, every number of threads and every
\* schedule of them returns the same value, and a panic in any draw reaches
\* the caller: the run implements Ensemble.
Reference == INSTANCE Ensemble WITH
    Sound   <- SoundConfig,
    Value   <- ValueOf,
    outcome <- IF pc = "panicked" THEN "failed"
               ELSE IF pc = "done" THEN "done" ELSE "running",
    value   <- IF pc = "done" THEN total ELSE NoValue

ImplementsEnsemble == Reference!Spec

\* Execution::host recomputes the threshold on its own: for the entry points
\* that may use the pool, the report says "threaded" exactly when they did.
PoolIsReported ==
    pc = "done" /\ config.entry # "run_sequential" => (threaded <=> pooled)

\* report.rs: threaded is "true when the draw loop was spread across a thread
\* pool".  run_sequential never uses the pool and reports the same block.
ThreadedMeansPool == pc = "done" /\ threaded => pooled

\* A run ends: no range is forgotten and the join is reached.
RunEnds == <>(pc \in {"done", "panicked"})
=============================================================================
