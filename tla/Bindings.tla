------------------------------ MODULE Bindings ------------------------------
(***************************************************************************)
(* The languages over Admission: what each builds out of its caller's      *)
(* arguments, what it does with the report handle it gets, and what its    *)
(* caller sees.                                                            *)
(*                                                                         *)
(* C++, Zig, Julia and R go through pk_run_family, format the config       *)
(* themselves and own the handle for the length of the call (R, Julia) or  *)
(* of a Report object (C++, Zig).  Python and TypeScript hold a Rust       *)
(* report and have no handle.  "rust" and "c" are callers that use the     *)
(* entry points themselves.                                                *)
(***************************************************************************)
EXTENDS Admission

VARIABLES
    caller,     \* the language
    supplied,   \* "none", "some" or "all" of the four fields of a claim
    phase,      \* "building", "calling", "holding", "releasing" or "done"
    copy,       \* what was read through the handle
    frees,      \* calls of pk_free_report
    answer      \* what the caller gets: "value" or an error

bindingVars == <<caller, supplied, phase, copy, frees, answer>>
allVars == <<vars, bindingVars>>

Languages == {"rust", "c", "cpp", "zig", "julia", "r", "python", "ts"}

\* Those that format the payload of pk_run_family and drop a partial claim.
Droppers == {"cpp", "zig", "julia"}
OverC == Droppers \cup {"r"}

EntryPoints(l) ==
    CASE l = "rust"   -> {"Engine::run", "Engine::run_sequential", "Family::run"}
      [] l = "c"      -> CSurfaces
      [] l \in OverC  -> {"pk_run_family"}
      [] l = "python" -> {"Family::run", "run_family"}
      [] l = "ts"     -> {"run_family"}

\* The binding writes these parts of the payload itself.
FixedByBinding(l, s, c) ==
    /\ l \in OverC \cup {"ts"} => c.version = "same major"
    /\ l \in OverC \cup {"ts"} \/ (l = "python" /\ s = "Family::run") =>
          c.null /\ c.order = "tree"
    /\ l = "ts" => c.backend = "auto" /\ ~c.gpu

\* The config is the one the caller has in mind until the payload is built.
BindingInit ==
    /\ Init
    /\ caller \in Languages
    /\ surface \in EntryPoints(caller)
    /\ FixedByBinding(caller, surface, config)
    /\ supplied \in {"none", "some", "all"}
    /\ supplied = "none" <=> config.claim = NoClaim
    /\ supplied = "some" => caller \notin {"rust", "c"}
    /\ phase = "building"
    /\ copy = "none"
    /\ frees = 0
    /\ answer = "none"

-----------------------------------------------------------------------------
(* Building the payload.                                                   *)

KeepsPart(claim) == claim
InPayload(claim) == IF supplied = "all" THEN claim ELSE NoClaim

\* PyConfig::new, .pk_config_json and config() refuse a partial claim; R also
\* refuses a number that is not finite, one of the arguments that do not parse.
PartRefused == supplied = "some" /\ caller \notin Droppers
NumberRefused == caller = "r" /\ ~config.arguments

RefusedWith ==
    IF caller = "python" THEN "ValueError"
    ELSE IF caller = "ts" THEN "PerturbationKernelError" ELSE "stop"

Refuse ==
    /\ phase = "building"
    /\ PartRefused \/ NumberRefused
    /\ answer' = RefusedWith
    /\ phase' = "done"
    /\ UNCHANGED <<vars, caller, supplied, copy, frees>>

Build ==
    /\ phase = "building"
    /\ ~PartRefused
    /\ config' = [config EXCEPT !.claim = InPayload(@)]
    /\ phase' = "calling"
    /\ UNCHANGED <<surface, todo, pc, verdict, used, report, handle, err,
                   caller, supplied, copy, frees, answer>>

\* The call itself, step by step.
Calling ==
    /\ phase = "calling"
    /\ \/ CheckNext \/ CheckFails
       \/ RunHost \/ Panics \/ DeviceFails \/ DeviceRefuses \/ RunDevice
       \/ Finish \/ Return \/ ReturnC
    /\ UNCHANGED bindingVars

-----------------------------------------------------------------------------
(* What comes back.                                                        *)

\* to_py: missing hardware is not the caller's mistake.
ToPy(v) ==
    IF v = "Panic" THEN "PanicException"
    ELSE IF v \in {"Gpu", "UnsupportedBackend"} THEN "RuntimeError" ELSE "ValueError"

Raised ==
    IF caller = "python" THEN ToPy(verdict)
    ELSE IF caller = "ts" THEN "PerturbationKernelError" ELSE verdict

Answer ==
    /\ phase = "calling"
    /\ pc = "ended"
    /\ surface \notin CSurfaces
    /\ answer' = IF verdict = "Ok" THEN "value" ELSE Raised
    /\ phase' = "done"
    /\ UNCHANGED <<vars, caller, supplied, copy, frees>>

\* A null handle becomes an exception that carries the code.
Throw ==
    /\ phase = "calling"
    /\ pc = "ended"
    /\ surface \in CSurfaces
    /\ ~handle
    /\ answer' = err
    /\ phase' = "done"
    /\ UNCHANGED <<vars, caller, supplied, copy, frees>>

TakeAndFree ==
    /\ phase = "calling"
    /\ pc = "ended"
    /\ handle
    /\ phase' = "holding"
    /\ frees' = frees + 1
    /\ UNCHANGED <<vars, caller, supplied, copy, answer>>

Take ==
    /\ phase = "calling"
    /\ pc = "ended"
    /\ handle
    /\ phase' = "holding"
    /\ UNCHANGED <<vars, caller, supplied, copy, frees, answer>>

\* pk_report_value and pk_report_json.
Read ==
    /\ phase = "holding"
    /\ copy' = IF frees = 0 THEN "live" ELSE "dangling"
    /\ answer' = "value"
    /\ phase' = "releasing"
    /\ UNCHANGED <<vars, caller, supplied, frees>>

LeaksOnFailure ==
    /\ phase = "holding"
    /\ caller \in {"cpp", "julia"}
    /\ answer' = "out of memory"
    /\ phase' = "done"
    /\ UNCHANGED <<vars, caller, supplied, copy, frees>>

\* Copying the JSON runs out of memory: the destructor (C++) or the finally
\* block (Julia) still frees the handle.
CopyFails ==
    /\ phase = "holding"
    /\ caller \in {"cpp", "julia"}
    /\ answer' = "out of memory"
    /\ phase' = "releasing"
    /\ UNCHANGED <<vars, caller, supplied, copy, frees>>

\* R's allocations leave the C function by longjmp, past its pk_free_report.
AllocationFailsInR ==
    /\ phase = "holding"
    /\ caller = "r"
    /\ answer' = "out of memory"
    /\ phase' = "done"
    /\ UNCHANGED <<vars, caller, supplied, copy, frees>>

\* ~unique_ptr, deinit, finally, the last lines of C_pk_run_family; a C caller
\* frees its own.
Release ==
    /\ phase = "releasing"
    /\ frees' = frees + 1
    /\ phase' = "done"
    /\ UNCHANGED <<vars, caller, supplied, copy, answer>>

Done == phase = "done" /\ UNCHANGED allVars

BindingNext ==
    \/ Refuse \/ Build \/ Calling
    \/ Answer \/ Throw \/ Take \/ Read \/ CopyFails \/ AllocationFailsInR \/ Release
    \/ Done

BindingSpec == BindingInit /\ [][BindingNext]_allVars

-----------------------------------------------------------------------------
(* Properties                                                              *)

\* The type invariant of the calling side.
BindingTypeOK ==
    /\ caller \in Languages
    /\ surface \in EntryPoints(caller)
    /\ supplied \in {"none", "some", "all"}
    /\ phase \in {"building", "calling", "holding", "releasing", "done"}
    /\ phase \in {"holding", "releasing"} => handle /\ pc = "ended"
    /\ frees \in 0 .. 1
    /\ copy \in {"none", "live", "dangling"}
    /\ phase = "done" <=> answer # "none" /\ phase # "releasing"

\* Every handle that a call returns is freed once before the caller goes on, and
\* none is read after that: on the error paths too, except R's.
HandlesAreReleased ==
    /\ copy # "dangling"
    /\ phase = "done" /\ ~(caller = "r" /\ answer = "out of memory") =>
          frees = IF handle THEN 1 ELSE 0

\* scripts/check_binding_agreement.py compares the bits of a good run; the same
\* holds of a bad one.  For the same request on a host backend, with a claim
\* that is whole or absent, every language answers with the value or with its
\* own form of the same first error, where the request is what the entry point
\* reads of it: an unknown reduction policy is an error of the engine's callers
\* and nothing to the families'.
FormOf(v) ==
    CASE v = "Ok" -> "value"
      [] v # "Ok" /\ caller = "ts" -> "PerturbationKernelError"
      [] v = "Panic" /\ caller = "python" -> "PanicException"
      [] v # "Ok" /\ v # "Panic" /\ caller = "python" -> "ValueError"
      [] v \in {"SchemaVersion", "Json"} /\ surface \in CSurfaces -> "InvalidConfig"
      [] OTHER -> v

AnswersAgree ==
    phase = "done" /\ supplied # "some" /\ answer \notin {"out of memory", "stop"}
    /\ config.arguments /\ config.family # "invalid" /\ ~IsDevice =>
        answer \in {FormOf(Contract(AsRead(config))), FormOf("Panic")}

\* A claim of which the caller gave a part never comes back as an error bound.
NoBoundFromPart == report.bound => supplied = "all"

\* perturbation_kernel.hpp: "supplying some but not all is rejected by the
\* engine, because a partial claim would silently disable the sample-complexity
\* floor".
PartialIsRejected == supplied = "some" => answer # "value"
=============================================================================
