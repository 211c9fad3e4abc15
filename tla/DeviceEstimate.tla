--------------------------- MODULE DeviceEstimate ---------------------------
(***************************************************************************)
(* A single-precision run on a compute device: Context::evaluate, which    *)
(* draws the ensemble with draw.wgsl and reduces its columns with          *)
(* reduce.wgsl, once for the sums and, for the Gaussian family, once more  *)
(* for the squared deviations from the means of the first reduction.       *)
(*                                                                         *)
(* The host records commands and submits them in batches; the device       *)
(* executes the commands of its queue in order, one at a time, the         *)
(* invocations of a command in any order and without any other             *)
(* synchronisation.  That ordering between compute passes is external: it  *)
(* is what WebGPU guarantees for passes that share a storage buffer.       *)
(*                                                                         *)
(* Buffers are functions on offsets.  Column j of draw i is at j * n + i,  *)
(* and sizes and offsets on the device are u32: they wrap around.          *)
(***************************************************************************)
EXTENDS DispatchGrid, Sequences

CONSTANTS MaxN, MaxD,         \* bounds on the ensemble
          MaxBinding,         \* the largest ensemble a binding holds (elements)
          Drawn(_, _),        \* Drawn(j, i): coordinate j of draw i
          Add(_, _), Sub(_, _), Mul(_, _),
          MeanOf(_, _),       \* MeanOf(s, n): s / n as f32
          Accumulate(_, _, _),\* Accumulate(t, s, n): t + s as f64 / n
          Zero, Stale, NoValue

ASSUME BoundsAssumption == MaxN \in Nat \ {0} /\ MaxD \in Nat \ {0}

\* The largest binding has fewer elements than 2^32: external, the adapter
\* reports the limit and the code compares the ensemble with it alone.
ASSUME BindingFitsU32 == MaxBinding \in Nat /\ MaxBinding < U32

VARIABLES
    config,     \* the family kind, n and d
    pc,         \* "start", "drawn", "sums", "squares", "done" or "failed"
    queue,      \* the commands the device has not retired
    lanes,      \* the invocations of the head command, once it has begun
    mem,        \* the contents of the buffers, by name
    means,      \* the mean buffer of the reduction in flight
    value       \* what evaluate returned

vars == <<config, pc, queue, lanes, mem, means, value>>

\* n draws of d coordinates; the scalar families have one coordinate.
Configs ==
    [kind : {"gaussian"}, n : 1 .. MaxN, d : 1 .. MaxD] \cup
    [kind : {"scalar"}, n : 1 .. MaxN, d : {1}]

n == config.n
d == config.d

Buffers  == {"ensemble", "even", "odd", "staging"}
Fresh    == [x \in 0 .. n * d - 1 |-> Stale]
NotBegun == [inv \in {} |-> "done"]

-----------------------------------------------------------------------------
(* What reduce_columns records: one collapse per level, then a copy.       *)

OutLen(len) == (len \div 2) + (len % 2)

\* The length of the columns before each level, and the number of levels.
LevelLen[i \in 0 .. MaxN] == IF i = 0 THEN n ELSE OutLen(LevelLen[i - 1])
Levels ==
    CHOOSE m \in 0 .. MaxN :
        LevelLen[m] = 1 /\ \A i \in 0 .. m - 1 : LevelLen[i] > 1

\* Level 0 reads the ensemble and level i what level i - 1 wrote; the two
\* scratch buffers alternate.
Source(i) == IF i = 0 THEN "ensemble" ELSE IF i % 2 = 1 THEN "even" ELSE "odd"
TargetOne(i) == "even"
Target(i) == IF i % 2 = 0 THEN "even" ELSE "odd"

\* Only the first level centres and squares.
ModeOf(i, mode) == IF i = 0 THEN mode ELSE 0

Collapse(i, mode) ==
    [op |-> "collapse", len |-> LevelLen[i], mode |-> ModeOf(i, mode),
     read |-> Source(i), write |-> Target(i), threads |-> (OutLen(LevelLen[i]) * d) % U32]

Copy == [op |-> "copy", len |-> 1, mode |-> 0,
         read |-> Source(Levels), write |-> "staging", threads |-> d]

Reduction(mode) ==
    [i \in 1 .. Levels + 1 |-> IF i <= Levels THEN Collapse(i - 1, mode) ELSE Copy]

DrawAll == [op |-> "draw", len |-> n, mode |-> 0,
            read |-> "ensemble", write |-> "ensemble", threads |-> n]

-----------------------------------------------------------------------------
(* What one invocation of a command does.                                  *)

Index(cmd, inv) == LinearIndex(cmd.threads, inv)

\* The bounds check that drops the overshoot of the grid.
Live(cmd, inv) == Index(cmd, inv) < cmd.threads

\* reduce.wgsl: output k of column col.
Col(cmd, inv) == Index(cmd, inv) \div OutLen(cmd.len)
K(cmd, inv)   == Index(cmd, inv) - Col(cmd, inv) * OutLen(cmd.len)
Off(cmd, inv) == (Col(cmd, inv) * n) % U32
At(cmd, inv, k) == (Off(cmd, inv) + k) % U32

\* The offsets an invocation reads, and the ones it writes.
Reads(cmd, inv) ==
    IF cmd.op = "draw" THEN {}
    ELSE IF K(cmd, inv) < cmd.len \div 2
         THEN {At(cmd, inv, 2 * K(cmd, inv)), At(cmd, inv, 2 * K(cmd, inv) + 1)}
         ELSE {At(cmd, inv, cmd.len - 1)}

Writes(cmd, inv) ==
    IF cmd.op = "draw" THEN {(j * n + Index(cmd, inv)) % U32 : j \in 0 .. d - 1}
    ELSE {At(cmd, inv, K(cmd, inv))}

\* An element as the level reads it: mode 1 centres and squares it.
Operand(cmd, inv, x) ==
    LET dv == Sub(mem[cmd.read][x], means[Col(cmd, inv)])
    IN  IF cmd.mode = 1 THEN Mul(dv, dv) ELSE mem[cmd.read][x]

\* dst[off + k]
Output(cmd, inv) ==
    LET k == K(cmd, inv)
    IN  IF k < cmd.len \div 2
        THEN Add(Operand(cmd, inv, At(cmd, inv, 2 * k)),
                 Operand(cmd, inv, At(cmd, inv, 2 * k + 1)))
        ELSE Operand(cmd, inv, At(cmd, inv, cmd.len - 1))

-----------------------------------------------------------------------------
Init ==
    /\ config \in Configs
    /\ pc = "start"
    /\ queue = << >>
    /\ lanes = NotBegun
    /\ mem = [b \in Buffers |-> Fresh]
    /\ means = [c \in 0 .. d - 1 |-> Zero]
    /\ value = NoValue

\* evaluate: a number of draws that is not a u32 is refused, and so is an
\* ensemble that no binding can hold.
Admitted == n < U32 /\ n * d <= MaxBinding

Refuse ==
    /\ pc = "start"
    /\ ~Admitted
    /\ pc' = "failed"
    /\ UNCHANGED <<config, queue, lanes, mem, means, value>>

\* draw_ensemble submits and returns without waiting.
SubmitDraw ==
    /\ pc = "start"
    /\ Admitted
    /\ pc' = "drawn"
    /\ queue' = Append(queue, DrawAll)
    /\ UNCHANGED <<config, lanes, mem, means, value>>

\* The first reduce_columns, up to the wait of its readback.
SubmitSums ==
    /\ pc = "drawn"
    /\ pc' = "sums"
    /\ queue' = queue \o Reduction(0)
    /\ UNCHANGED <<config, lanes, mem, means, value>>

\* The readback returns.  For the Gaussian family the means are computed and
\* the second reduce_columns, with scratch buffers of its own, is submitted.
ReadSumsAtOnce ==
    /\ pc = "sums"
    /\ config.kind = "gaussian"
    /\ means' = [c \in 0 .. d - 1 |-> MeanOf(mem["staging"][c], n)]
    /\ mem' = [mem EXCEPT !["even"] = Fresh, !["odd"] = Fresh, !["staging"] = Fresh]
    /\ queue' = queue \o Reduction(1)
    /\ pc' = "squares"
    /\ UNCHANGED <<config, lanes, value>>

ReadSums ==
    /\ pc = "sums"
    /\ queue = << >>
    /\ config.kind = "gaussian"
    /\ means' = [c \in 0 .. d - 1 |-> MeanOf(mem["staging"][c], n)]
    /\ mem' = [mem EXCEPT !["even"] = Fresh, !["odd"] = Fresh, !["staging"] = Fresh]
    /\ queue' = Reduction(1)
    /\ pc' = "squares"
    /\ UNCHANGED <<config, lanes, value>>

\* For the other families the mean of the single column is the value.
ReturnMean ==
    /\ pc = "sums"
    /\ queue = << >>
    /\ config.kind = "scalar"
    /\ value' = Accumulate(Zero, mem["staging"][0], n)
    /\ pc' = "done"
    /\ UNCHANGED <<config, queue, lanes, mem, means>>

\* The second readback.  With a single draw no level has run, and the host
\* does the centring that the first level would have done.
Centred(c) ==
    LET dv == Sub(mem["staging"][c], means[c])
    IN  IF Levels = 0 THEN Mul(dv, dv) ELSE mem["staging"][c]

ReturnVariance ==
    /\ pc = "squares"
    /\ queue = << >>
    /\ LET total[c \in 0 .. d] ==
             IF c = 0 THEN Zero ELSE Accumulate(total[c - 1], Centred(c - 1), n)
       IN  value' = total[d]
    /\ pc' = "done"
    /\ UNCHANGED <<config, queue, lanes, mem, means>>

-----------------------------------------------------------------------------
(* The device.                                                             *)

Begin ==
    /\ queue # << >>
    /\ lanes = NotBegun
    /\ Head(queue).op # "copy"
    /\ lanes' = [inv \in Invocations(Head(queue).threads) |->
                    [at |-> "ready", result |-> Stale]]
    /\ UNCHANGED <<config, pc, queue, mem, means, value>>

\* An invocation beyond the range returns at once.
Overshoot(inv) ==
    /\ lanes[inv].at = "ready"
    /\ ~Live(Head(queue), inv)
    /\ lanes' = [lanes EXCEPT ![inv] = [at |-> "done", result |-> Stale]]
    /\ UNCHANGED <<config, pc, queue, mem, means, value>>

\* An invocation of draw.wgsl writes its row of the ensemble.
DrawRow(inv) ==
    LET cmd == Head(queue)
    IN  /\ cmd.op = "draw"
        /\ lanes[inv].at = "ready"
        /\ Live(cmd, inv)
        /\ mem' = [mem EXCEPT !["ensemble"] = [x \in DOMAIN @ |->
                      IF x \in Writes(cmd, inv) THEN Drawn(x \div n, x % n) ELSE @[x]]]
        /\ lanes' = [lanes EXCEPT ![inv] = [at |-> "done", result |-> Stale]]
        /\ UNCHANGED <<config, pc, queue, means, value>>

\* An invocation of reduce.wgsl loads its operands, and later stores.
Load(inv) ==
    LET cmd == Head(queue)
    IN  /\ cmd.op = "collapse"
        /\ lanes[inv].at = "ready"
        /\ Live(cmd, inv)
        /\ lanes' = [lanes EXCEPT ![inv] = [at |-> "loaded", result |-> Output(cmd, inv)]]
        /\ UNCHANGED <<config, pc, queue, mem, means, value>>

Store(inv) ==
    LET cmd == Head(queue)
    IN  /\ lanes[inv].at = "loaded"
        /\ mem' = [mem EXCEPT ![cmd.write] = [x \in DOMAIN @ |->
                      IF x \in Writes(cmd, inv) THEN lanes[inv].result ELSE @[x]]]
        /\ lanes' = [lanes EXCEPT ![inv] = [at |-> "done", result |-> Stale]]
        /\ UNCHANGED <<config, pc, queue, means, value>>

\* A command retires when all its invocations have ended.
Retire ==
    /\ lanes # NotBegun
    /\ \A inv \in DOMAIN lanes : lanes[inv].at = "done"
    /\ queue' = Tail(queue)
    /\ lanes' = NotBegun
    /\ UNCHANGED <<config, pc, mem, means, value>>

\* Column c's total sits at offset c * stride.
CopyToStaging ==
    /\ queue # << >>
    /\ Head(queue).op = "copy"
    /\ mem' = [mem EXCEPT !["staging"] =
                  [c \in 0 .. d - 1 |-> mem[Head(queue).read][c * n]]]
    /\ queue' = Tail(queue)
    /\ UNCHANGED <<config, pc, lanes, means, value>>

Ended == pc \in {"done", "failed"} /\ UNCHANGED vars

Host == Refuse \/ SubmitDraw \/ SubmitSums \/ ReadSums \/ ReturnMean \/ ReturnVariance

Device ==
    \/ Begin \/ Retire \/ CopyToStaging
    \/ \E inv \in DOMAIN lanes : Overshoot(inv) \/ DrawRow(inv) \/ Load(inv) \/ Store(inv)

Next == Host \/ Device \/ Ended

Spec == Init /\ [][Next]_vars

-----------------------------------------------------------------------------
(* Properties                                                              *)

\* The type invariant: the host never has more in flight than one draw and
\* one reduction, and every command is in the range of its buffers.
TypeOK ==
    /\ config \in Configs
    /\ pc \in {"start", "drawn", "sums", "squares", "done", "failed"}
    /\ Len(queue) <= Levels + 2
    /\ \A i \in 1 .. Len(queue) :
          queue[i].len \in 1 .. n /\ queue[i].threads \in 1 .. n * d
    /\ \A inv \in DOMAIN lanes : lanes[inv].at \in {"ready", "loaded", "done"}
    /\ DOMAIN mem = Buffers
    /\ \A b \in Buffers \ {"staging"} : DOMAIN mem[b] = 0 .. n * d - 1

\* reduce.wgsl: "no invocation can read a slot another invocation has already
\* overwritten", and no two write the same slot: two live invocations of a
\* dispatch never touch the same element when one of them writes it, and none
\* leaves its buffers.
Touched(cmd, inv) ==
    {<<cmd.read, x>> : x \in Reads(cmd, inv)} \cup {<<cmd.write, x>> : x \in Writes(cmd, inv)}

RaceFree ==
    lanes # NotBegun =>
        LET cmd  == Head(queue)
            live == {inv \in DOMAIN lanes : Live(cmd, inv)}
        IN  \A inv \in live :
              /\ Reads(cmd, inv) \cup Writes(cmd, inv) \subseteq 0 .. n * d - 1
              /\ \A other \in live \ {inv} :
                    {<<cmd.write, x>> : x \in Writes(cmd, inv)} \cap Touched(cmd, other) = {}

\* The value of a run, from the draws alone: the reduction tree of the host
\* (DyadicTree), column by column, whatever the grid, the ping-pong of the
\* buffers and the order in which the device runs the invocations.
Tree == INSTANCE DyadicTree WITH Sum <- Add

SumOf(c, j) == Tree!TreeSum([i \in 0 .. c.n - 1 |-> Drawn(j, i)], c.n)

SquaresOf(c, j) ==
    LET dev(i) == Sub(Drawn(j, i), MeanOf(SumOf(c, j), c.n))
    IN  Tree!TreeSum([i \in 0 .. c.n - 1 |-> Mul(dev(i), dev(i))], c.n)

ValueOf(c) ==
    LET total[j \in 0 .. c.d] ==
          IF j = 0 THEN Zero ELSE Accumulate(total[j - 1], SquaresOf(c, j - 1), c.n)
    IN  IF c.kind = "gaussian" THEN total[c.d]
        ELSE Accumulate(Zero, SumOf(c, 0), c.n)

Fits(c) == c.n < U32 /\ c.n * c.d <= MaxBinding

\* A device run returns the one value its config allows, or is refused.
Reference == INSTANCE Ensemble WITH
    Sound   <- Fits,
    Value   <- ValueOf,
    outcome <- IF pc \in {"done", "failed"} THEN pc ELSE "running"

ImplementsEnsemble == Reference!Spec
=============================================================================
