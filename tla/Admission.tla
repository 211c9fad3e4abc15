----------------------------- MODULE Admission -----------------------------
(***************************************************************************)
(* From a config to a report: what each entry point of the library checks, *)
(* in which order, what it then runs, and what it tells its caller.  The   *)
(* entry points are Engine::run and Engine::run_sequential (engine.rs),    *)
(* Family::run (family.rs), run_family, which parses a family and a config *)
(* for it (WebAssembly), and the two C functions pk_run and pk_run_family  *)
(* (abi.rs).  Bindings adds the languages that call them.                  *)
(*                                                                         *)
(* A config is abstracted to the answers its checks get.  The values the   *)
(* run computes are the business of DrawPool, HostReduction,               *)
(* DeviceEstimate and MarkovExact.                                         *)
(***************************************************************************)
EXTENDS SampleFloor

CONSTANTS Sizes,    \* the ensemble sizes
          Claims,   \* the accuracy claims
          NoClaim   \* no accuracy target is set

ASSUME ClaimsAssumption ==
    /\ Sizes \subseteq Nat
    /\ Claims \subseteq [epsilon : Nat \ {0}, spread : Nat, obs_dim : Nat \ {0}]
    /\ NoClaim \notin Claims

VARIABLES
    config,     \* the config, the family and the other arguments of the call
    surface,    \* the entry point called
    todo,       \* the checks it has still to make
    pc,         \* "checking", "finishing", "returning" or "ended"
    verdict,    \* "none", "Ok", "Panic" or the error
    used,       \* how the value was computed
    report,     \* the fields of the report that say how it was computed
    handle,     \* C: the pointer returned is not null
    err         \* C: *out_err

vars == <<config, surface, todo, pc, verdict, used, report, handle, err>>

DeviceBackends == {"gpu", "gpu_f32"}
Backends == {"auto", "simd", "scalar"} \cup DeviceBackends

\* gpu: the crate has the gpu feature.  family: what Family::validate answers.
Configs ==
    [arguments : BOOLEAN,                       \* pointers, UTF-8 and JSON
     family    : {"markov", "other", "invalid"},
     version   : {"same major", "other major"},
     n         : Sizes,
     backend   : Backends,
     null      : BOOLEAN,                       \* null parameters agree
     claim     : Claims \cup {NoClaim},         \* the accuracy target
     lambda    : BOOLEAN,                       \* invariance_lambda is declared
     order     : {"tree", "sequential", "other"},
     gpu       : BOOLEAN]

IsDevice == config.backend \in DeviceBackends

\* Config::sample_floor: no floor without both the target and Lambda.
NoFloor == 0
HasFloor == config.claim # NoClaim /\ config.lambda
DimensionIgnored == IF HasFloor THEN StochasticFloor(config.claim) ELSE NoFloor
Floor == IF HasFloor THEN sample_floor(config.claim) ELSE NoFloor

-----------------------------------------------------------------------------
(* The checks of each entry point, in order.                               *)

EngineChecksNoPolicy == <<"version", "n", "host only", "null", "floor">>
EngineChecks == <<"version", "n", "host only", "null", "floor", "reduction">>
FamilyChecks == <<"family", "version", "n", "null", "floor", "gpu feature">>

\* Config::from_json checks the version too.
Arguments == <<"arguments", "version">>

Parsing == {"run_family", "pk_run_family"}
Checks(s) ==
    IF s = "pk_run" THEN Arguments \o EngineChecks
    ELSE IF s \in Parsing THEN Arguments \o FamilyChecks
    ELSE IF s = "Family::run" THEN FamilyChecks ELSE EngineChecks

Surfaces    == {"Engine::run", "Engine::run_sequential", "Family::run",
                "run_family", "pk_run", "pk_run_family"}
CSurfaces   == {"pk_run", "pk_run_family"}
OfFamilies  == Parsing \cup {"Family::run"}

BadArguments      == ~config.arguments
InvalidFamily     == config.family = "invalid"
OtherMajor        == config.version = "other major"
NullMismatch      == ~config.null
BelowFloor        == config.n < Floor
UnknownReduction  == config.order = "other"
NoDeviceSupport   == IsDevice /\ ~config.gpu

Rejects(check) ==
    \/ check = "arguments"   /\ BadArguments
    \/ check = "family"      /\ InvalidFamily
    \/ check = "version"     /\ OtherMajor
    \/ check = "n"           /\ config.n = 0
    \/ check = "host only"   /\ IsDevice
    \/ check = "null"        /\ NullMismatch
    \/ check = "floor"       /\ BelowFloor
    \/ check = "reduction"   /\ UnknownReduction
    \/ check = "gpu feature" /\ NoDeviceSupport

ErrorOf(check) ==
    CASE check = "arguments" -> "Arguments"
      [] check = "family"    -> "InvalidFamily"
      [] check = "version"   -> "SchemaVersion"
      [] check = "n"         -> "EmptyEnsemble"
      [] check = "null"      -> "NullParameterMismatch"
      [] check = "floor"     -> "SampleFloor"
      [] check = "reduction" -> "Json"
      [] OTHER               -> "UnsupportedBackend"

\* PkErr: the code of an error at the C boundary.
PkErr(v) ==
    IF v \in {"Ok", "NullParameterMismatch", "SampleFloor", "EmptyEnsemble", "Panic"}
    THEN v ELSE "InvalidConfig"

NotRun == [where |-> "nowhere", precision |-> "none", order |-> "none"]
NoReport == [backend |-> "none", precision |-> "none", order |-> "none", bound |-> FALSE]

-----------------------------------------------------------------------------
Init ==
    /\ config \in Configs
    /\ surface \in Surfaces
    /\ surface \notin CSurfaces \cup Parsing => config.arguments
    /\ surface \notin OfFamilies => config.family = "other"
    /\ todo = Checks(surface)
    /\ pc = "checking"
    /\ verdict = "none"
    /\ used = NotRun
    /\ report = NoReport
    /\ handle = FALSE
    /\ err = "stale"

Fail(e) ==
    /\ verdict' = e
    /\ pc' = "returning"
    /\ UNCHANGED <<config, surface, todo, used, report, handle, err>>

\* The next check passes, or returns its error.
CheckNext ==
    /\ pc = "checking"
    /\ todo # << >>
    /\ ~Rejects(Head(todo))
    /\ todo' = Tail(todo)
    /\ UNCHANGED <<config, surface, pc, verdict, used, report, handle, err>>

CheckIgnored ==
    /\ pc = "checking"
    /\ todo # << >>
    /\ Rejects(Head(todo))
    /\ pc' = "finishing"
    /\ UNCHANGED <<config, surface, todo, verdict, used, report, handle, err>>

CheckFails ==
    /\ pc = "checking"
    /\ todo # << >>
    /\ Rejects(Head(todo))
    /\ Fail(ErrorOf(Head(todo)))

Admitted == pc = "checking" /\ todo = << >>

\* A host run.  The functionals of the library sum in tree order whatever the
\* config asks for; the functional that wraps a C vtable accumulates one by one.
RunHost ==
    /\ Admitted
    /\ ~IsDevice
    /\ used' = [where |-> "host", precision |-> "f64",
                order |-> IF surface = "pk_run" THEN "sequential" ELSE "tree"]
    /\ pc' = "finishing"
    /\ UNCHANGED <<config, surface, todo, verdict, report, handle, err>>

\* A component, an allocation for n draws or a shader's validation panics; the
\* null check of the engine already calls a component.  The C boundary catches
\* the panic.
AsksForNull ==
    /\ pc = "checking"
    /\ surface \in {"Engine::run", "Engine::run_sequential"}
    /\ todo # << >>
    /\ Head(todo) = "null"

Panics ==
    /\ Admitted \/ AsksForNull
    /\ Fail("Panic")

\* gpu::run_family: no adapter, no device, or an ensemble the device cannot hold.
DeviceFails ==
    /\ Admitted
    /\ IsDevice
    /\ Fail("Gpu")

\* The exact path exists for one family only, and there is no fallback.
DeviceRefuses ==
    /\ Admitted
    /\ config.backend = "gpu"
    /\ config.family # "markov"
    /\ Fail("UnsupportedBackend")

DegradeToF32 == [where |-> "device", precision |-> "f32", order |-> "tree"]
OnDevice ==
    [where |-> "device", order |-> "tree",
     precision |-> IF config.backend = "gpu" THEN "f64" ELSE "f32"]

RunDevice ==
    /\ Admitted
    /\ IsDevice
    /\ config.backend = "gpu" => config.family = "markov"
    /\ used' = OnDevice
    /\ pc' = "finishing"
    /\ UNCHANGED <<config, surface, todo, verdict, report, handle, err>>

\* finish_report: provenance, and the error bound when its constants are there.
BoundFromLambda == config.lambda
BoundAvailable == config.lambda /\ config.claim # NoClaim

Finish ==
    /\ pc = "finishing"
    /\ report' = [backend |-> config.backend,
                  precision |-> IF config.backend = "gpu_f32" THEN "f32" ELSE "f64",
                  order |-> config.order,
                  bound |-> BoundAvailable]
    /\ verdict' = "Ok"
    /\ pc' = "returning"
    /\ UNCHANGED <<config, surface, todo, used, handle, err>>

\* Rust: the Result.  C: a handle or null, and the code.
Return ==
    /\ pc = "returning"
    /\ surface \notin CSurfaces
    /\ pc' = "ended"
    /\ UNCHANGED <<config, surface, todo, verdict, used, report, handle, err>>

SetErrOnFailure(v) == IF v = "Ok" THEN err ELSE PkErr(v)
SetErr(v) == PkErr(v)

ReturnC ==
    /\ pc = "returning"
    /\ surface \in CSurfaces
    /\ handle' = (verdict = "Ok")
    /\ err' = SetErr(verdict)
    /\ pc' = "ended"
    /\ UNCHANGED <<config, surface, todo, verdict, used, report>>

Ended == pc = "ended" /\ UNCHANGED vars

Next ==
    \/ CheckNext \/ CheckFails
    \/ RunHost \/ Panics \/ DeviceFails \/ DeviceRefuses \/ RunDevice
    \/ Finish \/ Return \/ ReturnC \/ Ended

Spec == Init /\ [][Next]_vars

-----------------------------------------------------------------------------
(* Properties                                                              *)

\* The type invariant: the run is one of those that its surface can make.
TypeOK ==
    /\ config \in Configs
    /\ surface \in Surfaces
    /\ pc \in {"checking", "finishing", "returning", "ended"}
    /\ \E k \in 0 .. Len(Checks(surface)) :
          todo = SubSeq(Checks(surface), k + 1, Len(Checks(surface)))
    /\ used.where \in {"nowhere", "host", "device"}
    /\ handle \in BOOLEAN
    /\ verdict = "Ok" => used # NotRun /\ report # NoReport

\* The sizes that the theorem asks of an ensemble with this claim.
Backs(n, claim) == Representable(claim) => Supports(n, claim)

\* What SCHEMA sections 5, 7 and 10 ask of a config, entry points apart.
MeetsContract(c) ==
    /\ c.version = "same major"
    /\ c.n > 0
    /\ c.null
    /\ c.claim # NoClaim /\ c.lambda =>
          c.n >= sample_floor(c.claim) /\ Backs(c.n, c.claim)
    /\ c.order # "other"

\* The config as the entry point reads it: Family::run, and all that goes
\* through it, never looks at the reduction policy and sums in tree order.
AsRead(c) == IF surface \in OfFamilies THEN [c EXCEPT !.order = "tree"] ELSE c

\* The checks are listed twice, in two orders.  On no entry point and no backend
\* is anything drawn for a config that does not meet the whole contract, but for
\* this difference of the two lists: a family runs under any reduction policy,
\* an unknown one included.
OnlyAdmittedRuns == used # NotRun => MeetsContract(AsRead(config))

\* An error bound is published only for an ensemble that has the concentration
\* that the claim it is computed from asks for, and the bias as far as the search
\* of the floor secures it, the hump included (config.rs and engine.rs decide
\* independently when each applies).
BoundIsBacked ==
    report.bound => config.claim # NoClaim /\ Backs(config.n, config.claim)

\* "Silently returning a different number under a backend flag would be the
\* worst outcome available" (gpu/mod.rs): a value is computed where and in the
\* precision that the config asks for and the report says.
NoSilentSubstitution ==
    verdict = "Ok" =>
        /\ used.where = IF IsDevice THEN "device" ELSE "host"
        /\ used.precision = report.precision
        /\ config.backend # "gpu_f32" => used.precision = "f64"

\* The two C functions and Rust agree: a handle is returned exactly when the
\* code is Ok, and the code is that of this call's verdict, whatever the cell
\* held before.
HandleMatchesCode ==
    pc = "ended" /\ surface \in CSurfaces =>
        /\ handle <=> (err = "Ok")
        /\ err = PkErr(verdict)

\* The first rule of the contract a config breaks, in the engine's order.
Contract(c) ==
    IF c.version = "other major" THEN "SchemaVersion"
    ELSE IF c.n = 0 THEN "EmptyEnsemble"
    ELSE IF ~c.null THEN "NullParameterMismatch"
    ELSE IF c.claim # NoClaim /\ c.lambda /\ c.n < sample_floor(c.claim)
    THEN "SampleFloor"
    ELSE IF c.order = "other" THEN "Json" ELSE "Ok"

\* invariance.rs: "Any aggregation MUST follow the reduction order declared in
\* Config", when that is one of the two orders there are.
AggregationFollowsConfig ==
    verdict = "Ok" /\ ~IsDevice /\ config.order # "other" => used.order = config.order

\* tests/sample_complexity.rs: "tighter epsilon must require more samples".  An
\* ensemble accepted for a claim is large enough for every claim that differs
\* from it by a looser epsilon.
Looser(c, d) == d.epsilon > c.epsilon /\ [d EXCEPT !.epsilon = c.epsilon] = c
TighterNeedsMore ==
    verdict = "Ok" /\ config.lambda /\ config.claim # NoClaim =>
        \A d \in Claims : Looser(config.claim, d) => config.n >= sample_floor(d)
=============================================================================
