--------------------------- MODULE TreeReduction ---------------------------
(***************************************************************************)
(* What every reduction of the library promises: a call reduces a vector   *)
(* level by level, each level a fresh array in which element i is the sum  *)
(* of elements 2i and 2i+1 of the level below, an odd last element being   *)
(* carried.  This is reference::tree_sum, and reference::sum_sq_dev and    *)
(* reference::dot are the same reduction of a materialised vector of       *)
(* squares or of products: Leaf(kernel, i) is element i of that vector.    *)
(*                                                                         *)
(* Add is uninterpreted.  Rounding makes the addition of IEEE doubles      *)
(* non-associative, so "bit-identical" is equality of the terms that the   *)
(* additions build, which is what an uninterpreted Add compares.           *)
(***************************************************************************)
EXTENDS Integers

CONSTANTS MaxLen,       \* the longest vector a caller passes (a bound)
          Leaf(_, _),   \* Leaf(kernel, i): element i of the reduced vector
          Add(_, _),    \* one IEEE-754 addition
          Zero,         \* 0.0, the sum of an empty slice
          NoResult,     \* no call has returned yet
          Panicked      \* the call panicked

VARIABLES status,       \* "idle" or "busy"
          size,         \* the length of the current level
          level,        \* the current level, a function on 0 .. size - 1
          ret           \* what the last call returned

vars == <<status, size, level, ret>>

Kernels == {"sum", "sqdev", "dot"}

\* One level of the reduction of the s elements of b.
NextLevel(b, s) ==
    [i \in 0 .. ((s + 1) \div 2) - 1 |->
        IF i < s \div 2 THEN Add(b[2 * i], b[2 * i + 1]) ELSE b[s - 1]]

Init ==
    /\ status = "idle"
    /\ size = 0
    /\ level = [i \in 0 .. -1 |-> Zero]
    /\ ret = NoResult

Call ==
    /\ status = "idle"
    /\ \E kernel \in Kernels, n \in 0 .. MaxLen :
          /\ size' = n
          /\ level' = [i \in 0 .. n - 1 |-> Leaf(kernel, i)]
    /\ status' = "busy"
    /\ ret' = NoResult

\* dot panics on slices of different lengths.
Refuse ==
    /\ status = "idle"
    /\ ret' = Panicked
    /\ UNCHANGED <<status, size, level>>

Collapse ==
    /\ status = "busy"
    /\ size > 1
    /\ level' = NextLevel(level, size)
    /\ size' = (size + 1) \div 2
    /\ UNCHANGED <<status, ret>>

Return ==
    /\ status = "busy"
    /\ size <= 1
    /\ ret' = IF size = 0 THEN Zero ELSE level[0]
    /\ status' = "idle"
    /\ UNCHANGED <<size, level>>

Next == Call \/ Refuse \/ Collapse \/ Return

Spec == Init /\ [][Next]_vars
=============================================================================
