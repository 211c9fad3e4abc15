---------------------------- MODULE SampleFloor ----------------------------
(***************************************************************************)
(* config::sample_floor: the ensemble size that an accuracy claim asks     *)
(* for, as the code computes it, and the two requirements of the theorem   *)
(* that it is meant to secure, as the doc comment states them.             *)
(*                                                                         *)
(* Reals are scaled: epsilon is in units of 1/SCALE, and spread is         *)
(* Lambda^2 D^2 / 2 * ln(2/eta) rounded up, the numerator of the           *)
(* stochastic term.  A value above HUGE is an f64 infinity, so that        *)
(* HUGE = 10^5 and a dimension of 12 stand for 10^308 and one of a few     *)
(* hundred.                                                                *)
(***************************************************************************)
EXTENDS Integers, Sequences

SCALE == 100
HUGE  == 100000
CAP   == 64      \* the 1e18 of the doubling search, at the end of the table

\* 2 * ln(n + 1) / sqrt(n) in units of 1/SCALE, rounded up, for n = 1 .. CAP.
\* It rises until n = 4 and falls from there.
TwiceRate ==
    <<139, 156, 161, 161, 161, 159, 158, 156, 154, 152, 150, 149, 147, 145, 144, 142,
      141, 139, 138, 137, 135, 134, 133, 132, 131, 130, 129, 128, 127, 126, 125, 124,
      123, 122, 122, 121, 120, 119, 119, 118, 117, 117, 116, 115, 115, 114, 113, 113,
      112, 112, 111, 111, 110, 110, 109, 109, 108, 108, 107, 107, 106, 106, 105, 105>>

CeilDiv(a, b) == (a + b - 1) \div b
AtLeast(a, b) == IF a >= b THEN a ELSE b

\* (2 / epsilon)^d, rounded up at each factor, and infinite above HUGE.
Infinite == HUGE + 1
Power(epsilon, d) ==
    LET p[k \in 0 .. d] ==
            IF k = 0 THEN 1
            ELSE LET q == CeilDiv(2 * SCALE * p[k - 1], epsilon)
                 IN IF q > HUGE THEN Infinite ELSE q
    IN p[d]

\* The search doubles n from 1 while the rate is above epsilon / 2.
Doubled(epsilon) ==
    LET from[n \in {1, 2, 4, 8, 16, 32, CAP}] ==
            IF n < CAP /\ TwiceRate[n] > epsilon THEN from[2 * n] ELSE n
    IN from[1]

BiasFloor(claim) ==
    IF claim.obs_dim <= 2 THEN Doubled(claim.epsilon)
                          ELSE Power(claim.epsilon, claim.obs_dim)

StochasticFloor(claim) ==
    CeilDiv(claim.spread * SCALE * SCALE, claim.epsilon * claim.epsilon)

\* The larger of the two, and 1 when that is not finite or not positive.
sample_floor(claim) ==
    LET raw == AtLeast(StochasticFloor(claim), BiasFloor(claim))
    IN IF raw > 0 /\ raw <= HUGE THEN raw ELSE 1

-----------------------------------------------------------------------------
(* What the floor is for.  McDiarmid: spread / n <= epsilon^2.  Fournier   *)
(* and Guillin: the rate at n is at most epsilon / 2.                      *)

ConcentratesAt(n, claim) ==
    claim.spread * SCALE * SCALE <= n * claim.epsilon * claim.epsilon

BiasIsSmallAt(n, claim) ==
    IF claim.obs_dim <= 2 THEN n <= CAP => TwiceRate[n] <= claim.epsilon
    ELSE n >= Power(claim.epsilon, claim.obs_dim)

\* The claims the f64 arithmetic can represent a floor for, and whose search
\* ends before its cap.
Representable(claim) ==
    /\ StochasticFloor(claim) <= HUGE /\ BiasFloor(claim) <= HUGE
    /\ claim.obs_dim <= 2 => TwiceRate[CAP] <= claim.epsilon

\* The claims whose epsilon lies within the hump of the rate: the search stops
\* at n = 1, where the rate is small enough but about to rise above epsilon.
InHump(claim) ==
    /\ claim.obs_dim <= 2
    /\ TwiceRate[1] <= claim.epsilon
    /\ \E m \in 1 .. CAP : claim.epsilon < TwiceRate[m]

\* What an ensemble of n has.  Outside the hump the bias is small at n.  Inside
\* it that is known of some smaller ensemble only: the rate at n may be above
\* epsilon / 2 again.
Supports(n, claim) ==
    /\ ConcentratesAt(n, claim)
    /\ \E m \in 1 .. n : BiasIsSmallAt(m, claim)
    /\ ~InHump(claim) => BiasIsSmallAt(n, claim)
=============================================================================
