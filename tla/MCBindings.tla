----------------------------- MODULE MCBindings -----------------------------
(* The instance of Bindings that TLC checks.                               *)
EXTENDS Bindings

Claim(epsilon, spread, obs_dim) ==
    [epsilon |-> epsilon, spread |-> spread, obs_dim |-> obs_dim]

\* The bias decides (floors 32 and 64), the search stops in the hump of the rate
\* (1), the concentration decides (40), no ensemble of the run is large enough
\* (4096), and the floor is not finite, the bias's or the concentration's.
AccuracyClaims ==
    {Claim(130, 1, 1), Claim(120, 1, 1), Claim(145, 1, 2), Claim(100, 40, 3),
     Claim(100, 1, 12), Claim(40, 1, 12), Claim(100, HUGE + 1, 3)}

\* The exception that Supports makes for the hump is met, and needed: an ensemble
\* of the run passes the floor and has a rate above epsilon / 2.
ASSUME HumpIsMet ==
    \E claim \in AccuracyClaims, m \in Sizes :
        InHump(claim) /\ m >= sample_floor(claim) /\ ~BiasIsSmallAt(m, claim)
=============================================================================
