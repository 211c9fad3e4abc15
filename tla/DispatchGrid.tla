---------------------------- MODULE DispatchGrid ----------------------------
(***************************************************************************)
(* How a compute dispatch covers a range of invocations: gpu/mod.rs grid   *)
(* chooses a two-dimensional grid of workgroups and every shader folds the *)
(* workgroup and local ids back to a linear index in u32 arithmetic.       *)
(***************************************************************************)
EXTENDS Integers

CONSTANTS WORKGROUP,    \* invocations per workgroup
          MAX_GRID_X,   \* the widest grid that is dispatched
          U32           \* 2^32, the modulus of the shaders' integers

ASSUME GridAssumption ==
    /\ WORKGROUP \in Nat \ {0}
    /\ MAX_GRID_X \in Nat \ {0}
    /\ U32 \in Nat \ {0}

\* A full row of workgroups divides the range of u32 (2^21 divides 2^32).
ASSUME RowDividesU32 == U32 % (MAX_GRID_X * WORKGROUP) = 0

CeilDiv(a, b) == (a + b - 1) \div b

\* The number of workgroups: at least one, even for an empty range.
Groups(threads) ==
    IF threads = 0 THEN 1 ELSE CeilDiv(threads, WORKGROUP)

\* grid: everything beyond MAX_GRID_X is folded into the y axis.
GridX(threads) ==
    IF Groups(threads) <= MAX_GRID_X THEN Groups(threads) ELSE MAX_GRID_X
GridYFloor(threads) == Groups(threads) \div GridX(threads)
GridY(threads) == CeilDiv(Groups(threads), GridX(threads))

\* The invocations of the grid: workgroup (wx, wy), local id lid.
Invocations(threads) ==
    (0 .. GridX(threads) - 1) \X (0 .. GridY(threads) - 1) \X (0 .. WORKGROUP - 1)

\* (wid.y * params.grid_x + wid.x) * WG + lid.x
LinearIndex(threads, inv) ==
    ((inv[2] * GridX(threads) + inv[1]) * WORKGROUP + inv[3]) % U32
=============================================================================
