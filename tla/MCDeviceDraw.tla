---------------------------- MODULE MCDeviceDraw ----------------------------
(***************************************************************************)
(* DeviceDraw on words of 4 bits: a mantissa of 6 bits, 2 of them in the   *)
(* high word, and exponents below 32 with a bias of 15.                    *)
(***************************************************************************)
EXTENDS DeviceDraw, Bitwise

XorWords(x, y) == x ^^ y

Golden      == [lo |-> 5, hi |-> 9]
Multiplier1 == [lo |-> 9, hi |-> 11]
Multiplier2 == [lo |-> 11, hi |-> 9]

OneBits == BIAS * 64
Theta0(exponent, mantissa) == exponent * 64 + mantissa

Default == [theta_max |-> OneBits, k |-> 1, start |-> 0, base |-> 0,
            seed |-> [lo |-> 3, hi |-> 0], i |-> [lo |-> 1, hi |-> 0],
            words |-> 0 .. 15]

\* Every mantissa of one binade, the ends of [0, 1], and exponents down to the
\* least whose products are still normal, against words that reach every
\* rounding case.
Mantissas == {Theta0(14, m) : m \in 0 .. 63}
Exponents == {Theta0(e, m) : e \in {7, 8, 13}, m \in {0, 1, 42, 63}} \cup {0, OneBits}
IntensityDraws ==
    {[Default EXCEPT !.theta_max = t, !.words = {0, 4, 6, 11, 15}] :
        t \in Mantissas}
    \cup {[Default EXCEPT !.theta_max = t, !.words = {0, 1, 4, 7, 8, 11, 14, 15}] :
        t \in Exponents}

\* Every alphabet of up to 15 labels.
LabelDraws ==
    {[Default EXCEPT !.theta_max = Theta0(14, 0), !.k = n, !.start = n - 1,
                     !.words = {0, 3, 7, 8, 12, 15}] : n \in 1 .. 15}

\* Seeds and indices, for the keys.
KeyDraws ==
    {[Default EXCEPT !.seed = [lo |-> x, hi |-> y], !.i = [lo |-> j, hi |-> 0],
                     !.words = {9}] : x \in 0 .. 15, y \in {0, 7, 15}, j \in 0 .. 15}

ValidDraws == IntensityDraws \cup LabelDraws \cup KeyDraws

\* Intensities Family::validate accepts whose scale is subnormal, or normal
\* with products that are not.
TinyDraws ==
    {[Default EXCEPT !.theta_max = t, !.words = {0, 4, 15}] :
        t \in {Theta0(0, 9), Theta0(2, 0)}}

\* The first are what the theorems about a draw suppose, the second are not.
ASSUME NormalAssumption ==
    /\ \A d \in ValidDraws : HasNormalProducts(d)
    /\ \A d \in TinyDraws : ~HasNormalProducts(d)
=============================================================================
