--------------------------- MODULE HostReduction ---------------------------
(***************************************************************************)
(* The host reductions of src/reduce: tree_sum_into, sum_sq_dev_on and     *)
(* dot_on, called one after the other on one reused scratch buffer, on the *)
(* vector path the build and the CPU select.                               *)
(*                                                                         *)
(* A level is collapsed in place: a vector loop that loads, adds           *)
(* horizontally, permutes and stores LANES outputs at a time, a scalar     *)
(* loop for what is left, and the carry of an odd last element.            *)
(* sum_sq_dev and dot fuse the first level with the computation of its     *)
(* operands and write it to the scratch buffer out of place.               *)
(*                                                                         *)
(* Slices are functions on 0 .. length - 1, as in the code.  Element i of  *)
(* the inputs is X(i) and Y(i), whatever they are; arithmetic is           *)
(* uninterpreted (see TreeReduction).                                      *)
(***************************************************************************)
EXTENDS Integers

CONSTANTS MaxLen,                         \* bound on the length of a slice
          X(_), Y(_), M,                  \* the inputs: xs (or a), b, and m
          Add(_, _), Sub(_, _), Mul(_, _), Zero,
          Stale,                          \* what a reused scratch buffer holds
          NoResult, Panicked

ASSUME MaxLenAssumption == MaxLen \in Nat

VARIABLES
    path,      \* SimdPath: "scalar", "neon" or "avx2"
    pc,        \* "idle", "entry", "fused", "loop" or "collapse"
    kernel,    \* the entry point called: "sum", "sqdev" or "dot"
    n,         \* xs.len()
    len,       \* the length of the level being collapsed
    k,         \* the loop index: the next output to compute
    buf,       \* the scratch buffer
    ret,       \* what the last call returned
    start      \* history: the operands of the level being collapsed

vars == <<path, pc, kernel, n, len, k, buf, ret, start>>
args == <<path, kernel, n>>

Kernels == {"sum", "sqdev", "dot"}
Paths   == {"scalar", "neon", "avx2"}

\* active_backend: NEON is in every aarch64 CPU, AVX2 is probed for.
ActiveBackend(simd, arch, avx2) ==
    IF simd /\ arch = "aarch64" THEN "neon"
    ELSE IF simd /\ arch = "x86_64" /\ avx2 THEN "avx2" ELSE "scalar"

\* Element i of the vector a kernel sums.
Leaf(kern, i) ==
    IF kern = "sum" THEN X(i)
    ELSE IF kern = "sqdev" THEN Mul(Sub(X(i), M), Sub(X(i), M))
    ELSE Mul(X(i), Y(i))

-----------------------------------------------------------------------------
(* The vector units.  A register is a function on its lanes.               *)

\* LANES.  The scalar path has no vector loop.
Lanes(p) == IF p = "neon" THEN 2 ELSE 4

\* vpaddq_f64
Vpaddq(v0, v1) ==
    [j \in 0 .. 1 |-> IF j = 0 THEN Add(v0[0], v0[1]) ELSE Add(v1[0], v1[1])]

\* _mm256_hadd_pd interleaves its operands across the 128-bit boundary.
HaddPd(a, b) ==
    [j \in 0 .. 3 |-> IF j = 0 THEN Add(a[0], a[1])
                      ELSE IF j = 1 THEN Add(b[0], b[1])
                      ELSE IF j = 2 THEN Add(a[2], a[3]) ELSE Add(b[2], b[3])]

\* 0b11_01_10_00, which takes lanes (0, 2, 1, 3).
NoDeinterleave == 228
DEINTERLEAVE == 216

\* Result lane j of _mm256_permute4x64_pd is source lane (imm >> 2j) & 3.
Selected(imm, j) ==
    IF j = 0 THEN imm % 4
    ELSE IF j = 1 THEN (imm \div 4) % 4
    ELSE IF j = 2 THEN (imm \div 16) % 4 ELSE (imm \div 64) % 4

Permute4x64(h, imm) == [j \in 0 .. 3 |-> h[Selected(imm, j)]]

-----------------------------------------------------------------------------
Half == len \div 2

\* The length of the next level: an odd last element is carried.
Carried == Half + (len % 2)

\* What a level reads at i: the fused levels compute their operands.
Operand(i) == IF pc = "fused" THEN Leaf(kernel, i) ELSE buf[i]

Load(i, w) == [j \in 0 .. w - 1 |-> Operand(i + j)]

\* The register the vector loop stores at k.
Stored ==
    IF path = "neon"
    THEN Vpaddq(Load(2 * k, 2), Load(2 * k + 2, 2))
    ELSE Permute4x64(HaddPd(Load(2 * k, 4), Load(2 * k + 4, 4)), DEINTERLEAVE)

\* while k + LANES <= half
VectorFitsLate == path # "scalar" /\ k + Lanes(path) <= Half + 1
VectorFits == path # "scalar" /\ k + Lanes(path) <= Half

Collapsing == pc \in {"fused", "collapse"}

-----------------------------------------------------------------------------
Init ==
    /\ \E simd, avx2 \in BOOLEAN, arch \in {"aarch64", "x86_64", "other"} :
          path = ActiveBackend(simd, arch, avx2)
    /\ pc = "idle"
    /\ kernel = "sum"
    /\ n = 0
    /\ len = 0
    /\ k = 0
    /\ buf = [i \in 0 .. MaxLen |-> Stale]
    /\ ret = NoResult
    /\ start = [i \in 0 .. -1 |-> Zero]

\* A caller enters tree_sum_into, sum_sq_dev_on or dot_on with equal lengths.
Call(kern, m) ==
    /\ pc = "idle"
    /\ pc' = "entry"
    /\ kernel' = kern
    /\ n' = m
    /\ len' = m
    /\ start' = [i \in 0 .. m - 1 |-> Leaf(kern, i)]
    /\ ret' = NoResult
    /\ UNCHANGED <<path, k, buf>>

\* dot's assert_eq! on slices of different lengths.
Mismatch ==
    /\ pc = "idle"
    /\ ret' = Panicked
    /\ UNCHANGED <<path, pc, kernel, n, len, k, buf, start>>

\* The early returns for an empty slice and for a single element.
ReturnEarly ==
    /\ pc = "entry"
    /\ n <= 1
    /\ ret' = IF n = 0 THEN Zero ELSE Leaf(kernel, 0)
    /\ pc' = "idle"
    /\ UNCHANGED <<args, len, k, buf, start>>

\* scratch.clear(); scratch.extend_from_slice(xs)
CopyIn ==
    /\ pc = "entry"
    /\ n > 1
    /\ kernel = "sum"
    /\ buf' = [i \in 0 .. n - 1 |-> X(i)]
    /\ pc' = "loop"
    /\ UNCHANGED <<args, len, k, ret, start>>

\* scratch.clear(); scratch.resize(half + (n & 1), 0.0); let mut k = 0
AllocateKeepingIndex ==
    /\ pc = "entry"
    /\ n > 1
    /\ kernel # "sum"
    /\ buf' = [i \in 0 .. Carried - 1 |-> Zero]
    /\ pc' = "fused"
    /\ UNCHANGED <<args, len, k, ret, start>>

Allocate ==
    /\ pc = "entry"
    /\ n > 1
    /\ kernel # "sum"
    /\ buf' = [i \in 0 .. Carried - 1 |-> Zero]
    /\ k' = 0
    /\ pc' = "fused"
    /\ UNCHANGED <<args, len, ret, start>>

\* One iteration of the vector loop: both loads, then the store.
VectorStep ==
    /\ Collapsing
    /\ VectorFits
    /\ buf' = [i \in DOMAIN buf |->
                  IF i \in k .. k + Lanes(path) - 1 THEN Stored[i - k] ELSE buf[i]]
    /\ k' = k + Lanes(path)
    /\ UNCHANGED <<args, pc, len, ret, start>>

\* One iteration of the scalar loop over what is left.
ScalarStep ==
    /\ Collapsing
    /\ ~VectorFits
    /\ k < Half
    /\ buf' = [buf EXCEPT ![k] = Add(Operand(2 * k), Operand(2 * k + 1))]
    /\ k' = k + 1
    /\ UNCHANGED <<args, pc, len, ret, start>>

\* The end of collapse and of the fused first level: the odd tail.
Carry ==
    /\ Collapsing
    /\ k >= Half
    /\ buf' = IF len % 2 = 1 THEN [buf EXCEPT ![Half] = Operand(len - 1)] ELSE buf
    /\ len' = Carried
    /\ start' = [i \in 0 .. len' - 1 |-> buf'[i]]
    /\ pc' = "loop"
    /\ UNCHANGED <<args, k, ret>>

\* The head of reduce_in_place's loop: while len > 1.
DescendKeepingIndex ==
    /\ pc = "loop"
    /\ len > 1
    /\ pc' = "collapse"
    /\ UNCHANGED <<args, len, k, buf, ret, start>>

DescendFromOne ==
    /\ pc = "loop"
    /\ len >= 1
    /\ k' = 0
    /\ pc' = "collapse"
    /\ UNCHANGED <<args, len, buf, ret, start>>

Descend ==
    /\ pc = "loop"
    /\ len > 1
    /\ k' = 0
    /\ pc' = "collapse"
    /\ UNCHANGED <<args, len, buf, ret, start>>

Return ==
    /\ pc = "loop"
    /\ len <= 1
    /\ ret' = buf[0]
    /\ pc' = "idle"
    /\ UNCHANGED <<args, len, k, buf, start>>

\* The steps of a call in progress.
Progress ==
    \/ ReturnEarly \/ CopyIn \/ Allocate
    \/ VectorStep \/ ScalarStep \/ Carry
    \/ Descend \/ Return

Next ==
    \/ \E kern \in Kernels, m \in 0 .. MaxLen : Call(kern, m)
    \/ Mismatch
    \/ Progress

Spec == Init /\ [][Next]_vars

\* A call runs on its caller's thread: it does not stop half-way.
FairSpec == Spec /\ WF_vars(Progress)

-----------------------------------------------------------------------------
(* Properties                                                              *)

\* The type invariant: where each index is at each point of a call.
TypeOK ==
    /\ path \in Paths
    /\ pc \in {"idle", "entry", "fused", "loop", "collapse"}
    /\ kernel \in Kernels
    /\ n \in 0 .. MaxLen
    /\ len \in 0 .. n
    /\ k \in 0 .. MaxLen
    /\ Collapsing => k <= Half
    /\ start = [i \in 0 .. len - 1 |-> start[i]]
    /\ \E c \in 0 .. MaxLen + 1 : buf = [i \in 0 .. c - 1 |-> buf[i]]

\* What the next iteration of a level reads and writes, and what later
\* iterations of that level still have to read.
Width       == IF VectorFits THEN Lanes(path) ELSE 1
Reads       == 2 * k .. 2 * k + 2 * Width - 1
Writes      == k .. k + Width - 1
StillToRead == 2 * k + 2 * Width .. len - 1

\* The SAFETY arguments of the vector kernels (avx2.rs, neon.rs): a load never
\* leaves the slice, a store never leaves the scratch buffer, and a store into
\* the buffer that is being read never clobbers an input not read yet.
SafeAccess ==
    Collapsing /\ k < Half =>
        /\ Reads \subseteq 0 .. len - 1
        /\ Writes \subseteq DOMAIN buf
        /\ pc = "collapse" =>
              /\ Reads \subseteq DOMAIN buf
              /\ Writes \cap StillToRead = {}

\* Every path, every kernel and every sequence of calls on one scratch buffer
\* computes the reference reduction, term for term: the in-place, vectorised
\* and fused code implements TreeReduction (SCHEMA section 8, D3).
Tree == INSTANCE TreeReduction WITH
            status <- IF pc = "idle" THEN "idle" ELSE "busy",
            size   <- len,
            level  <- start

ImplementsTree == Tree!Spec

\* The closed form of the reduction tree over the operands of the call.
Closed == INSTANCE DyadicTree WITH Sum <- Add

Node(L, i) == Closed!Levels([x \in 0 .. n - 1 |-> Leaf(kernel, x)], n)[L][i]

\* The shape every implementation of the schema must reproduce (D3): at the end
\* of every level the buffer holds the aligned dyadic blocks of that level, so
\* the association of the additions depends on the index and the length alone,
\* never on the vector width that computed it.
DyadicShape ==
    pc = "loop" =>
        \E L \in 0 .. n :
            /\ len = (n + 2 ^ L - 1) \div 2 ^ L
            /\ \A i \in 0 .. len - 1 : buf[i] = Node(L, i)

\* A call that was made returns: each level is shorter than the one before.
CallReturns == pc # "idle" ~> pc = "idle"
=============================================================================
