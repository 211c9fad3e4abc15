------------------------------ MODULE Ensemble ------------------------------
(***************************************************************************)
(* What a run of the kernel promises (SCHEMA section 8, D1 to D3): the     *)
(* value it returns is a function of the config alone.  Drawing is a       *)
(* single step here: there are no threads, no order of draws and no        *)
(* storage, only the value every schedule must produce.                    *)
(***************************************************************************)
CONSTANTS Configs,
          Sound(_),     \* Sound(c): a run of config c can succeed
          Value(_),     \* Value(c): the value reduced from the draws of c
          NoValue

VARIABLES config,
          outcome,      \* "running", "done" or "failed"
          value         \* what the run returned

vars == <<config, outcome, value>>

Init ==
    /\ config \in Configs
    /\ outcome = "running"
    /\ value = NoValue

\* The run returns the one value its config allows.
Return ==
    /\ outcome = "running"
    /\ Sound(config)
    /\ outcome' = "done"
    /\ value' = Value(config)
    /\ UNCHANGED config

\* A run that cannot succeed fails as a whole: no partial ensemble is ever
\* reduced.
Fail ==
    /\ outcome = "running"
    /\ ~Sound(config)
    /\ outcome' = "failed"
    /\ UNCHANGED <<config, value>>

Next == Return \/ Fail

Spec == Init /\ [][Next]_vars
=============================================================================
