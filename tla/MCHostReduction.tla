-------------------------- MODULE MCHostReduction --------------------------
(***************************************************************************)
(* HostReduction on free terms: a value is the tuple of the operation that *)
(* produced it, so two results are equal exactly when the same additions   *)
(* were made of the same operands in the same order.                       *)
(***************************************************************************)
EXTENDS HostReduction

MCX(i)      == <<"x", i>>
MCY(i)      == <<"y", i>>
MCAdd(a, b) == <<"+", a, b>>
MCSub(a, b) == <<"-", a, b>>
MCMul(a, b) == <<"*", a, b>>
=============================================================================
