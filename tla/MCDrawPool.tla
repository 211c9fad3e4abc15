----------------------------- MODULE MCDrawPool -----------------------------
(***************************************************************************)
(* DrawPool on free terms: a value is the tuple of what it was built from, *)
(* so two values are equal exactly when they were computed alike.          *)
(***************************************************************************)
EXTENDS DrawPool

MCWord(i, p)        == <<"word", i, p>>
MCTheta(w)          == <<"theta", w>>
MCShifted(j, th, w) == <<"shift", j, th, w>>
MCColumn(k, acc, c) == <<"+", k, acc, c>>
=============================================================================
