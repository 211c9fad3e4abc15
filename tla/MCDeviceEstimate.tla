-------------------------- MODULE MCDeviceEstimate --------------------------
(***************************************************************************)
(* DeviceEstimate on free terms, with a workgroup of two invocations and a *)
(* grid that folds after two workgroups.                                   *)
(***************************************************************************)
EXTENDS DeviceEstimate

MCDrawn(j, i)         == <<"y", j, i>>
MCAdd(a, b)           == <<"+", a, b>>
MCSub(a, b)           == <<"-", a, b>>
MCMul(a, b)           == <<"*", a, b>>
MCMeanOf(s, m)        == <<"mean", s, m>>
MCAccumulate(t, s, m) == <<"acc", t, s, m>>
=============================================================================
