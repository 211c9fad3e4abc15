---------------------------- MODULE MarkovExact ----------------------------
(***************************************************************************)
(* The bit-exact Markov run: Context::count_hits and the entry point       *)
(* draw_markov of markov_exact.wgsl.  Each invocation makes one draw and   *)
(* writes 0 or 1 into its workgroup's memory; a tree of workgroup barriers *)
(* sums that memory, and one atomic per workgroup adds the sum to the      *)
(* total that the host reads back and divides by n.                        *)
(*                                                                         *)
(* Between two barriers the invocations of a workgroup run in any order,   *)
(* and a read-modify-write of workgroup memory is a load and a later       *)
(* store.  Workgroups run in any order.  Integers are u32.                 *)
(***************************************************************************)
EXTENDS DispatchGrid, FiniteSets, FiniteSetsExt

CONSTANTS Sizes,        \* the ensemble sizes considered (a bound)
          Stale,        \* what workgroup memory holds before it is written
          NoValue

ASSUME SizesAssumption == Sizes \subseteq Nat \ {0}

\* A power of two: 1 is its only odd divisor.
ASSUME WorkgroupIsPowerOfTwo ==
    \A k \in 2 .. WORKGROUP : WORKGROUP % k = 0 => k % 2 = 0

VARIABLES
    config,   \* n, and which draws keep the base label (a pure function of i)
    pc,       \* the host: "start", "waiting", "done" or "failed"
    at,       \* where each invocation is
    acc,      \* the value an invocation has loaded and not stored yet
    stride,   \* the loop variable of each invocation
    partial,  \* partial[g][l]: the workgroup memory
    total,    \* the atomic counter
    value     \* the count the host reads back

vars == <<config, pc, at, acc, stride, partial, total, value>>

Configs == UNION {[n : {m}, hits : SUBSET (0 .. m - 1)] : m \in Sizes}

n == config.n

Invs == Invocations(n)
Workgroups == (0 .. GridX(n) - 1) \X (0 .. GridY(n) - 1)
Locals == 0 .. WORKGROUP - 1

Group(inv) == <<inv[1], inv[2]>>
Lid(inv)   == inv[3]
Peers(g) == {inv \in Invs : Group(inv) = g}

\* hit: an invocation beyond n draws nothing and counts nothing.
HitUnchecked(inv) == IF LinearIndex(n, inv) % n \in config.hits THEN 1 ELSE 0
Hit(inv) ==
    IF LinearIndex(n, inv) < n /\ LinearIndex(n, inv) \in config.hits THEN 1 ELSE 0

Init ==
    /\ config \in Configs
    /\ pc = "start"
    /\ at = [inv \in Invs |-> "draw"]
    /\ acc = [inv \in Invs |-> 0]
    /\ stride = [inv \in Invs |-> WORKGROUP \div 2]
    /\ partial = [g \in Workgroups |-> [l \in Locals |-> Stale]]
    /\ total = 0
    /\ value = NoValue

\* u32::try_from(cfg.n)
Refuse ==
    /\ pc = "start"
    /\ n >= U32
    /\ pc' = "failed"
    /\ UNCHANGED <<config, at, acc, stride, partial, total, value>>

Submit ==
    /\ pc = "start"
    /\ n < U32
    /\ pc' = "waiting"
    /\ UNCHANGED <<config, at, acc, stride, partial, total, value>>

\* partial[lid.x] = hit, up to the first barrier.
DrawMarkov(inv) ==
    /\ pc = "waiting"
    /\ at[inv] = "draw"
    /\ partial' = [partial EXCEPT ![Group(inv)][Lid(inv)] = Hit(inv)]
    /\ at' = [at EXCEPT ![inv] = "barrier"]
    /\ UNCHANGED <<config, pc, acc, stride, total, value>>

\* The invocations of a workgroup leave a barrier when all have reached it.
AfterBarrier(inv) == IF stride[inv] > 0 THEN "load" ELSE "add"

PassOneByOne(g) ==
    \E inv \in Peers(g) :
        /\ at[inv] = "barrier"
        /\ at' = [at EXCEPT ![inv] = AfterBarrier(inv)]
        /\ UNCHANGED <<config, pc, acc, stride, partial, total, value>>

PassBarrier(g) ==
    /\ \A inv \in Peers(g) : at[inv] = "barrier"
    /\ at' = [inv \in Invs |-> IF inv \in Peers(g) THEN AfterBarrier(inv) ELSE at[inv]]
    /\ UNCHANGED <<config, pc, acc, stride, partial, total, value>>

\* The body of the loop: the lower half of the live lanes adds the upper half.
Load(inv) ==
    /\ at[inv] = "load"
    /\ Lid(inv) < stride[inv]
    /\ acc' = [acc EXCEPT ![inv] = (partial[Group(inv)][Lid(inv)]
                                    + partial[Group(inv)][Lid(inv) + stride[inv]]) % U32]
    /\ at' = [at EXCEPT ![inv] = "store"]
    /\ UNCHANGED <<config, pc, stride, partial, total, value>>

\* stride = stride >> 1u at the end of the body.
NextStrideSkipsOne(s) == IF s = 2 THEN 0 ELSE s \div 2
NextStride(s) == s \div 2

Store(inv) ==
    /\ at[inv] = "store"
    /\ partial' = [partial EXCEPT ![Group(inv)][Lid(inv)] = acc[inv]]
    /\ acc' = [acc EXCEPT ![inv] = 0]
    /\ stride' = [stride EXCEPT ![inv] = NextStride(@)]
    /\ at' = [at EXCEPT ![inv] = "barrier"]
    /\ UNCHANGED <<config, pc, total, value>>

\* The upper half goes straight to the barrier.
Skip(inv) ==
    /\ at[inv] = "load"
    /\ Lid(inv) >= stride[inv]
    /\ stride' = [stride EXCEPT ![inv] = NextStride(@)]
    /\ at' = [at EXCEPT ![inv] = "barrier"]
    /\ UNCHANGED <<config, pc, acc, partial, total, value>>

\* if (lid.x == 0u) atomicAdd(&total, partial[0])
AddEveryLane(inv) ==
    /\ at[inv] = "add"
    /\ total' = (total + partial[Group(inv)][Lid(inv)]) % U32
    /\ at' = [at EXCEPT ![inv] = "end"]
    /\ UNCHANGED <<config, pc, acc, stride, partial, value>>

AddToTotal(inv) ==
    /\ at[inv] = "add"
    /\ total' = IF Lid(inv) = 0 THEN (total + partial[Group(inv)][0]) % U32 ELSE total
    /\ at' = [at EXCEPT ![inv] = "end"]
    /\ UNCHANGED <<config, pc, acc, stride, partial, value>>

\* The copy, the readback and count as f64 / n.
ReadCount ==
    /\ pc = "waiting"
    /\ \A inv \in Invs : at[inv] = "end"
    /\ value' = total
    /\ pc' = "done"
    /\ UNCHANGED <<config, at, acc, stride, partial, total>>

Ended == pc \in {"done", "failed"} /\ UNCHANGED vars

Invocation(inv) ==
    DrawMarkov(inv) \/ Load(inv) \/ Store(inv) \/ Skip(inv) \/ AddToTotal(inv)

Next ==
    \/ Refuse \/ Submit \/ ReadCount \/ Ended
    \/ \E inv \in Invs : Invocation(inv)
    \/ \E g \in Workgroups : PassBarrier(g)

Spec == Init /\ [][Next]_vars

-----------------------------------------------------------------------------
(* Properties                                                              *)

\* The type invariant.
TypeOK ==
    /\ config \in Configs
    /\ pc \in {"start", "waiting", "done", "failed"}
    /\ at \in [Invs -> {"draw", "barrier", "load", "store", "add", "end"}]
    /\ \A inv \in Invs : acc[inv] \in 0 .. n
    /\ \A inv \in Invs : stride[inv] \in 0 .. WORKGROUP \div 2
    /\ \A g \in Workgroups, l \in Locals : partial[g][l] \in 0 .. n \cup {Stale}
    /\ total \in 0 .. n

\* Two invocations of a workgroup between the same two barriers never touch
\* one element of its memory when one of them stores to it.
Storing(inv) ==
    IF at[inv] = "draw" \/ (at[inv] \in {"load", "store"} /\ Lid(inv) < stride[inv])
    THEN {Lid(inv)} ELSE {}

Loading(inv) ==
    IF at[inv] \in {"load", "store"} /\ Lid(inv) < stride[inv]
    THEN {Lid(inv), Lid(inv) + stride[inv]}
    ELSE IF at[inv] = "add" /\ Lid(inv) = 0 THEN {0} ELSE {}

NoWorkgroupRace ==
    \A inv \in Invs : \A other \in Peers(Group(inv)) \ {inv} :
        Storing(inv) \cap (Storing(other) \cup Loading(other)) = {}

\* No draw is lost and none is counted twice on its way: what the draws still
\* to be made, the live elements of workgroup memory and the counter hold adds
\* up to the hits, between any two steps of any invocations.
Lane(g, l) == <<g[1], g[2], l>>

\* Element l of g still counts: it is below the stride of the round, or its
\* partner below the stride has not stored the sum of the two yet.
StillCounts(g, l) ==
    LET s == Max({stride[Lane(g, m)] : m \in Locals})
    IN  \/ l < s
        \/ s > 0 /\ l < 2 * s /\ stride[Lane(g, l - s)] = s
        \/ s = 0 /\ l = 0 /\ at[Lane(g, 0)] # "end"

Held(inv) ==
    IF at[inv] = "draw" THEN Hit(inv)
    ELSE IF StillCounts(Group(inv), Lid(inv)) THEN partial[Group(inv)][Lid(inv)] ELSE 0

HitsConserved ==
    n < U32 => MapThenSumSet(Held, Invs) + total = Cardinality(config.hits)

\* The count that is read back is the number of hits, which is what the host's
\* tree sum of the indicators is, whatever the device schedules.
FitsU32(c)  == c.n < U32
CountOf(c) == Cardinality(c.hits)

Reference == INSTANCE Ensemble WITH
    Sound   <- FitsU32,
    Value   <- CountOf,
    outcome <- IF pc \in {"done", "failed"} THEN pc ELSE "running"

ImplementsEnsemble == Reference!Spec
=============================================================================
