----------------------------- MODULE DyadicTree -----------------------------
(***************************************************************************)
(* The closed form of the reduction tree (SCHEMA section 8, D3): node i of *)
(* level L spans the elements i * 2^L up to the next multiple of 2^L, cut  *)
(* at the length of the vector.  It is stated without levels of buffers,   *)
(* so that the host and the device reductions are both compared with it.   *)
(***************************************************************************)
EXTENDS Integers

CONSTANT Sum(_, _)      \* one floating-point addition

\* The levels of the tree over the vector f of length len.  Level len, and any
\* other that is deep enough, has all of f in its first node.
Levels(f, len) ==
    LET level[L \in 0 .. len] ==
          IF L = 0 THEN f
          ELSE [i \in Nat |->
                  IF (2 * i + 1) * 2 ^ (L - 1) < len
                  THEN Sum(level[L - 1][2 * i], level[L - 1][2 * i + 1])
                  ELSE level[L - 1][2 * i]]
    IN  level

\* The whole vector.
TreeSum(f, len) == Levels(f, len)[len][0]
=============================================================================
