--------------------------- MODULE BindingsProof ---------------------------
(***************************************************************************)
(* The invariants of Admission and Bindings, for every set of sizes and of *)
(* accuracy claims and every language.                                     *)
(*                                                                         *)
(* First what does not depend on the checks: handles, codes, provenance    *)
(* (IInv).  Then what the checks secure (Told): the first k of the         *)
(* surface's list have passed, a run is made when k is the length of the   *)
(* list, and the error of a host run is that of check k + 1.  The list of  *)
(* every surface has the rules of the contract in their order              *)
(* (ChecksAreRanked), and an ensemble that passes the check of the floor   *)
(* has the concentration and the bias that the theorem asks for            *)
(* (FloorSecures).                                                         *)
(***************************************************************************)
EXTENDS Bindings, SequenceTheorems, NaturalsInduction, WellFoundedInduction, TLAPS

Before == {"checking", "finishing", "returning"}

\* Where the call stands: until it is made nothing has happened, and only a C
\* entry point that has returned hands out a handle.
Progress ==
    /\ config \in Configs
    /\ pc \in Before \cup {"ended"}
    /\ phase \in {"building", "calling", "holding", "releasing", "done"}
    /\ phase = "building" => pc = "checking"
    /\ pc \in Before => ~handle
    /\ surface \notin CSurfaces => ~handle

\* The handle and the code of a call that has returned.
Codes ==
    pc = "ended" /\ surface \in CSurfaces =>
        handle = (verdict = "Ok") /\ err = PkErr(verdict)

\* How a value was computed, from the time there is one.
AsAsked ==
    /\ used.where = IF IsDevice THEN "device" ELSE "host"
    /\ used.precision = IF config.backend = "gpu_f32" THEN "f32" ELSE "f64"

Provenance ==
    /\ pc = "checking" => verdict = "none"
    /\ pc = "finishing" => verdict = "none" /\ AsAsked
    /\ verdict = "Ok" => AsAsked /\ report.precision = used.precision

\* The handle is held from Take to Release.
Ownership ==
    /\ phase \in {"building", "calling", "holding", "releasing"} => frees = 0
    /\ phase \in {"holding", "releasing"} => handle
    /\ copy # "dangling"
    /\ phase = "done" /\ ~(caller = "r" /\ answer = "out of memory") =>
          frees = IF handle THEN 1 ELSE 0

\* Once the payload is built, a claim in it is a whole one.
Wholeness ==
    /\ pc = "checking" => ~report.bound
    /\ phase = "calling" /\ config.claim # NoClaim => supplied = "all"
    /\ report.bound => supplied = "all"

IInv == Progress /\ Codes /\ Provenance /\ Ownership /\ Wholeness

-----------------------------------------------------------------------------
\* The initial states: nothing is run, returned or held.
LEMMA Initially == BindingInit => IInv
<1> SUFFICES ASSUME BindingInit PROVE IInv
    OBVIOUS
<1> USE DEF BindingInit, Init, Before
<1>1. Progress
    BY DEF Progress
<1>2. Codes
    BY DEF Codes
<1>3. Provenance
    BY DEF Provenance
<1>4. Ownership
    BY DEF Ownership
<1>5. Wholeness
    BY DEF Wholeness, NoReport
<1> QED
    BY <1>1, <1>2, <1>3, <1>4, <1>5 DEF IInv

\* Only the code "Ok" means that there is no error.
LEMMA OkIsOk == \A v : PkErr(v) = "Ok" <=> v = "Ok"
BY DEF PkErr

\* No check fails with the verdict of a run.
LEMMA ErrorsAreNotOk == \A check : ErrorOf(check) # "Ok"
BY DEF ErrorOf

\* A verdict is given once: a call that has one does no further check.
LEMMA Failing ==
    ASSUME IInv, NEW e, e # "Ok", Fail(e), UNCHANGED bindingVars, pc \in Before,
           phase = "calling"
    PROVE  IInv'
<1> USE DEF IInv, Fail, bindingVars, Before
<1>1. Progress'
    BY DEF Progress
<1>2. Codes'
    BY DEF Codes
<1>3. Provenance'
    BY DEF Provenance
<1>4. Ownership'
    BY DEF Ownership
<1>5. Wholeness'
    BY DEF Wholeness
<1> QED
    BY <1>1, <1>2, <1>3, <1>4, <1>5

\* The steps that start or end a run, and those that return.
LEMMA Called == ASSUME IInv, Calling PROVE IInv'
<1> USE DEF Calling
<1>1. CASE CheckNext
    BY <1>1 DEF CheckNext, IInv, Progress, Codes, Provenance, AsAsked, Ownership,
                Wholeness, bindingVars, Before, IsDevice
<1>2. CASE CheckFails
    <2>1. pc \in Before /\ Fail(ErrorOf(Head(todo)))
        BY <1>2 DEF CheckFails, Before
    <2> QED
        BY <2>1, ErrorsAreNotOk, Failing
<1>3. CASE RunHost
    <2> USE <1>3 DEF RunHost, Admitted, IInv, bindingVars, Before
    <2>1. Progress'
        BY DEF Progress
    <2>2. Codes'
        BY DEF Codes, Progress
    <2>3. Provenance'
        BY DEF Provenance, AsAsked, IsDevice, DeviceBackends
    <2>4. Ownership'
        BY DEF Ownership
    <2>5. Wholeness'
        BY DEF Wholeness
    <2> QED
        BY <2>1, <2>2, <2>3, <2>4, <2>5
<1>4. CASE Panics
    <2>1. pc \in Before /\ Fail("Panic")
        BY <1>4 DEF Panics, Admitted, AsksForNull, Before
    <2> QED
        BY <2>1, Failing
<1>5. CASE DeviceFails
    <2>1. pc \in Before /\ Fail("Gpu")
        BY <1>5 DEF DeviceFails, Admitted, Before
    <2> QED
        BY <2>1, Failing
<1>6. CASE DeviceRefuses
    <2>1. pc \in Before /\ Fail("UnsupportedBackend")
        BY <1>6 DEF DeviceRefuses, Admitted, Before
    <2> QED
        BY <2>1, Failing
<1>7. CASE RunDevice
    <2> USE <1>7 DEF RunDevice, Admitted, IInv, bindingVars, Before
    <2>1. Progress'
        BY DEF Progress
    <2>2. Codes'
        BY DEF Codes, Progress
    <2>3. Provenance'
        BY DEF Provenance, AsAsked, IsDevice, DeviceBackends, OnDevice
    <2>4. Ownership'
        BY DEF Ownership
    <2>5. Wholeness'
        BY DEF Wholeness
    <2> QED
        BY <2>1, <2>2, <2>3, <2>4, <2>5
<1>8. CASE Finish
    <2> USE <1>8 DEF Finish, IInv, bindingVars, Before
    <2>1. Progress'
        BY DEF Progress
    <2>2. Codes'
        BY DEF Codes
    <2>3. Provenance'
        BY DEF Provenance, AsAsked, IsDevice
    <2>4. Ownership'
        BY DEF Ownership
    <2>5. Wholeness'
        BY DEF Wholeness, BoundAvailable
    <2> QED
        BY <2>1, <2>2, <2>3, <2>4, <2>5
<1>9. CASE Return
    BY <1>9 DEF Return, IInv, Progress, Codes, Provenance, AsAsked, Ownership,
                Wholeness, bindingVars, Before, IsDevice
<1>10. CASE ReturnC
    <2> USE <1>10 DEF ReturnC, IInv, bindingVars, Before
    <2>1. Progress'
        BY DEF Progress
    <2>2. Codes'
        BY DEF Codes, SetErr
    <2>3. Provenance'
        BY DEF Provenance, AsAsked, IsDevice
    <2>4. Ownership'
        BY DEF Ownership
    <2>5. Wholeness'
        BY DEF Wholeness
    <2> QED
        BY <2>1, <2>2, <2>3, <2>4, <2>5
<1> QED
    BY <1>1, <1>2, <1>3, <1>4, <1>5, <1>6, <1>7, <1>8, <1>9, <1>10

\* The payload: only the claim may change, and to no claim.
LEMMA Built == ASSUME IInv, Build PROVE IInv'
<1> USE DEF Build, IInv
<1>1. config' = [config EXCEPT !.claim = InPayload(config.claim)]
    OBVIOUS
<1>2. InPayload(config.claim) \in Claims \cup {NoClaim}
    BY DEF InPayload, Progress, Configs
<1>3. config' \in Configs
    BY <1>1, <1>2 DEF Progress, Configs
<1>4. config'.backend = config.backend /\ config'.claim = InPayload(config.claim)
    BY <1>1 DEF Progress, Configs
<1>5. Progress'
    BY <1>3 DEF Progress, Before
<1>6. Codes'
    BY DEF Codes
<1>7. Provenance'
    BY <1>4 DEF Provenance, AsAsked, IsDevice
<1>8. Ownership'
    BY DEF Ownership
<1>9. Wholeness'
    BY <1>4 DEF Wholeness, InPayload
<1> QED
    BY <1>5, <1>6, <1>7, <1>8, <1>9

\* The caller's steps that leave the call alone: they may release the handle.
LEMMA Held ==
    ASSUME IInv,
           Refuse \/ Answer \/ Throw \/ Take \/ Read \/ CopyFails \/ AllocationFailsInR
             \/ Release
    PROVE  IInv'
<1> USE DEF IInv
<1>1. UNCHANGED <<vars, caller, supplied>>
    BY DEF Refuse, Answer, Throw, Take, Read, CopyFails, AllocationFailsInR, Release
<1> USE <1>1 DEF vars
<1>2. phase' \in {"holding", "releasing", "done"} /\ phase' # "building"
    BY DEF Refuse, Answer, Throw, Take, Read, CopyFails, AllocationFailsInR, Release
<1>3. Progress'
    BY <1>2 DEF Progress
<1>4. Codes'
    BY DEF Codes
<1>5. Provenance'
    BY DEF Provenance, AsAsked, IsDevice
<1>6. Ownership'
    <2> USE DEF Ownership, Progress, Before
    <2>1. CASE Refuse
        BY <2>1 DEF Refuse
    <2>2. CASE Answer
        BY <2>2 DEF Answer
    <2>3. CASE Throw
        BY <2>3 DEF Throw
    <2>4. CASE Take
        BY <2>4 DEF Take
    <2>5. CASE Read
        BY <2>5 DEF Read
    <2>6. CASE CopyFails
        <3>1. /\ phase = "holding" /\ phase' = "releasing"
              /\ frees' = frees /\ copy' = copy /\ handle' = handle
            BY <2>6 DEF CopyFails
        <3> QED
            BY <3>1
    <2>7. CASE AllocationFailsInR
        BY <2>7 DEF AllocationFailsInR
    <2>8. CASE Release
        BY <2>8 DEF Release
    <2> QED
        BY <2>1, <2>2, <2>3, <2>4, <2>5, <2>6, <2>7, <2>8
<1>7. Wholeness'
    BY <1>2 DEF Wholeness
<1> QED
    BY <1>3, <1>4, <1>5, <1>6, <1>7

\* The invariant holds throughout.
LEMMA Always == BindingSpec => []IInv
<1>1. IInv /\ [BindingNext]_allVars => IInv'
    <2> SUFFICES ASSUME IInv, [BindingNext]_allVars PROVE IInv'
        OBVIOUS
    <2>1. CASE Build
        BY <2>1, Built
    <2>2. CASE Calling
        BY <2>2, Called
    <2>3. CASE Refuse \/ Answer \/ Throw \/ Take \/ Read \/ CopyFails
                 \/ AllocationFailsInR \/ Release
        BY <2>3, Held
    <2>4. CASE UNCHANGED allVars
        BY <2>4 DEF allVars, vars, bindingVars, IInv, Progress, Codes, Provenance,
                    AsAsked, IsDevice, Ownership, Wholeness
    <2> QED
        BY <2>1, <2>2, <2>3, <2>4 DEF BindingNext, Done
<1> QED
    BY Initially, <1>1, PTL DEF BindingSpec

-----------------------------------------------------------------------------
\* A C call returns a handle exactly when its code is Ok, and the code is that of
\* its own verdict.
THEOREM HandlesMatchCodes == BindingSpec => []HandleMatchesCode
<1>1. IInv => HandleMatchesCode
    BY OkIsOk DEF IInv, Codes, HandleMatchesCode
<1> QED
    BY Always, <1>1, PTL

\* A value is computed where and in the precision that its config asks for and
\* its report says.
THEOREM NoSubstitution == BindingSpec => []NoSilentSubstitution
<1>1. IInv => NoSilentSubstitution
    BY DEF IInv, Provenance, AsAsked, NoSilentSubstitution
<1> QED
    BY Always, <1>1, PTL

\* In every language a handle is freed once, on the error paths too, and never
\* read after that.
THEOREM HandlesReleased == BindingSpec => []HandlesAreReleased
<1>1. IInv => HandlesAreReleased
    BY DEF IInv, Ownership, HandlesAreReleased
<1> QED
    BY Always, <1>1, PTL

\* No language turns a part of a claim into an error bound.
THEOREM PartsAreNotBounds == BindingSpec => []NoBoundFromPart
<1>1. IInv => NoBoundFromPart
    BY DEF IInv, Wholeness, NoBoundFromPart
<1> QED
    BY Always, <1>1, PTL
-----------------------------------------------------------------------------
(* How far the checks have come, and what the caller has been told.        *)

\* The first k checks passed.  A run is made after the last one, and an error of
\* a host run is that of the check after them.
At(k) ==
    /\ todo = SubSeq(Checks(surface), k + 1, Len(Checks(surface)))
    /\ phase = "building" => k = 0
    /\ \A i \in 1 .. k : ~Rejects(Checks(surface)[i])
    /\ used # NotRun => k = Len(Checks(surface))
    /\ verdict \notin {"none", "Ok", "Panic"} /\ ~IsDevice =>
          /\ k < Len(Checks(surface))
          /\ Rejects(Checks(surface)[k + 1])
          /\ verdict = ErrorOf(Checks(surface)[k + 1])

Position == \E k \in 0 .. Len(Checks(surface)) : At(k)

\* What a call that has come so far has made.
Outcome ==
    /\ surface \in Surfaces /\ surface \in EntryPoints(caller)
    /\ caller \in Languages /\ supplied \in {"none", "some", "all"}
    /\ used.where \in {"nowhere", "host", "device"}
    /\ handle \in BOOLEAN
    /\ pc = "finishing" \/ verdict = "Ok" => used # NotRun
    /\ pc \in {"checking", "finishing"} <=> verdict = "none"
    /\ report.bound => verdict = "Ok" /\ config.claim # NoClaim /\ config.lambda
    /\ verdict = "Ok" => report # NoReport

\* What a caller has been told, and what that rests on.
Answered ==
    /\ frees \in 0 .. 1 /\ copy \in {"none", "live", "dangling"}
    /\ phase \in {"holding", "releasing"} => handle /\ pc = "ended"
    /\ phase \in {"building", "calling", "holding"} <=> answer = "none"
    /\ phase \in {"releasing", "done"} =>
          \/ answer = "out of memory"
          \/ answer = "value" /\ verdict = "Ok"
          \/ phase = "done" /\ answer = RefusedWith /\ (PartRefused \/ NumberRefused)
          \/ /\ phase = "done" /\ verdict \notin {"none", "Ok"}
             /\ answer = IF surface \in CSurfaces THEN PkErr(verdict) ELSE Raised

Told == Position /\ Outcome /\ Answered

-----------------------------------------------------------------------------
(* The lists of checks.                                                    *)

CheckNames == {"arguments", "family", "version", "n", "host only", "null", "floor",
               "reduction", "gpu feature"}

\* In this list the four rules of the contract come in the contract's order.
Ranked(s, v, z, n, f) ==
    /\ v \in 1 .. Len(s) /\ z \in 1 .. Len(s) /\ n \in 1 .. Len(s) /\ f \in 1 .. Len(s)
    /\ v < z /\ z < n /\ n < f
    /\ s[v] = "version" /\ s[z] = "n" /\ s[n] = "null" /\ s[f] = "floor"
    /\ \A i \in 1 .. Len(s) :
          (s[i] = "n" => i = z) /\ (s[i] = "null" => i = n) /\ (s[i] = "floor" => i = f)

\* A list of six.
LEMMA Sextuple ==
    ASSUME NEW S, NEW a \in S, NEW b \in S, NEW c \in S, NEW d \in S, NEW e \in S,
           NEW g \in S
    PROVE  <<a, b, c, d, e, g>> \in Seq(S) /\ Len(<<a, b, c, d, e, g>>) = 6
OBVIOUS

\* A list of two.
LEMMA Couple ==
    ASSUME NEW S, NEW a \in S, NEW b \in S
    PROVE  /\ <<a, b>> \in Seq(S) /\ Len(<<a, b>>) = 2
           /\ <<a, b>>[1] = a /\ <<a, b>>[2] = b
OBVIOUS

\* Two checks before a list of six.
LEMMA Prefixed ==
    ASSUME NEW S, NEW a \in S, NEW b \in S, NEW t \in Seq(S), Len(t) = 6
    PROVE  /\ <<a, b>> \o t \in Seq(S) /\ Len(<<a, b>> \o t) = 8
           /\ (<<a, b>> \o t)[1] = a /\ (<<a, b>> \o t)[2] = b
           /\ \A i \in 1 .. 6 : (<<a, b>> \o t)[i + 2] = t[i]
<1> DEFINE p == <<a, b>>
<1>1. p \in Seq(S) /\ Len(p) = 2 /\ p[1] = a /\ p[2] = b
    BY Couple
<1> HIDE DEF p
<1>2. \A i \in 1 .. Len(p) + Len(t) :
          (p \o t)[i] = IF i <= Len(p) THEN p[i] ELSE t[i - Len(p)]
    BY <1>1, ConcatProperties, Zenon
<1>3. p \o t \in Seq(S) /\ Len(p \o t) = Len(p) + Len(t)
    BY <1>1, ConcatProperties, Zenon
<1>4. \A i \in 1 .. 6 :
          i + 2 \in 1 .. Len(p) + Len(t) /\ ~(i + 2 <= Len(p)) /\ (i + 2) - Len(p) = i
    BY <1>1
<1>5. \A i \in 1 .. 6 : (p \o t)[i + 2] = t[i]
    BY <1>2, <1>4
<1>6. 1 \in 1 .. Len(p) + Len(t) /\ 2 \in 1 .. Len(p) + Len(t) /\ 1 <= Len(p) /\ 2 <= Len(p)
    BY <1>1
<1>7. (p \o t)[1] = p[1] /\ (p \o t)[2] = p[2]
    BY <1>2, <1>6
<1> QED
    BY <1>1, <1>3, <1>5, <1>7 DEF p

\* The engine's list and the family's.
LEMMA UnparsedLists ==
    /\ EngineChecks \in Seq(CheckNames) /\ Len(EngineChecks) = 6
    /\ FamilyChecks \in Seq(CheckNames) /\ Len(FamilyChecks) = 6
    /\ Ranked(EngineChecks, 1, 2, 4, 5) /\ Ranked(FamilyChecks, 2, 3, 4, 5)
<1>0. /\ "version" \in CheckNames /\ "n" \in CheckNames /\ "host only" \in CheckNames
      /\ "null" \in CheckNames /\ "floor" \in CheckNames /\ "reduction" \in CheckNames
      /\ "family" \in CheckNames /\ "gpu feature" \in CheckNames
    BY DEF CheckNames
<1>1. EngineChecks \in Seq(CheckNames) /\ Len(EngineChecks) = 6
    BY <1>0, Sextuple, Zenon DEF EngineChecks
<1>2. FamilyChecks \in Seq(CheckNames) /\ Len(FamilyChecks) = 6
    BY <1>0, Sextuple, Zenon DEF FamilyChecks
<1>3. /\ EngineChecks[1] = "version" /\ EngineChecks[2] = "n"
      /\ EngineChecks[3] = "host only" /\ EngineChecks[4] = "null"
      /\ EngineChecks[5] = "floor" /\ EngineChecks[6] = "reduction"
    BY DEF EngineChecks
<1>4. /\ FamilyChecks[1] = "family" /\ FamilyChecks[2] = "version"
      /\ FamilyChecks[3] = "n" /\ FamilyChecks[4] = "null"
      /\ FamilyChecks[5] = "floor" /\ FamilyChecks[6] = "gpu feature"
    BY DEF FamilyChecks
<1>5. \A i \in 1 .. 6 : i = 1 \/ i = 2 \/ i = 3 \/ i = 4 \/ i = 5 \/ i = 6
    OBVIOUS
<1>6. Ranked(EngineChecks, 1, 2, 4, 5)
    <2>1. ASSUME NEW i \in 1 .. 6
          PROVE  /\ EngineChecks[i] = "n" => i = 2
                 /\ EngineChecks[i] = "null" => i = 4
                 /\ EngineChecks[i] = "floor" => i = 5
        BY <1>3, <1>5
    <2>2. 1 .. Len(EngineChecks) = 1 .. 6
        BY <1>1
    <2>3. \A i \in 1 .. Len(EngineChecks) :
              /\ EngineChecks[i] = "n" => i = 2
              /\ EngineChecks[i] = "null" => i = 4
              /\ EngineChecks[i] = "floor" => i = 5
        BY <2>1, <2>2, Zenon
    <2>4. 1 \in 1 .. 6 /\ 2 \in 1 .. 6 /\ 4 \in 1 .. 6 /\ 5 \in 1 .. 6
          /\ 1 < 2 /\ 2 < 4 /\ 4 < 5
        OBVIOUS
    <2> QED
        BY <1>3, <2>2, <2>3, <2>4, Zenon DEF Ranked
<1>7. Ranked(FamilyChecks, 2, 3, 4, 5)
    <2>1. ASSUME NEW i \in 1 .. 6
          PROVE  /\ FamilyChecks[i] = "n" => i = 3
                 /\ FamilyChecks[i] = "null" => i = 4
                 /\ FamilyChecks[i] = "floor" => i = 5
        BY <1>4, <1>5
    <2>2. 1 .. Len(FamilyChecks) = 1 .. 6
        BY <1>2
    <2>3. \A i \in 1 .. Len(FamilyChecks) :
              /\ FamilyChecks[i] = "n" => i = 3
              /\ FamilyChecks[i] = "null" => i = 4
              /\ FamilyChecks[i] = "floor" => i = 5
        BY <2>1, <2>2, Zenon
    <2>4. 2 \in 1 .. 6 /\ 3 \in 1 .. 6 /\ 4 \in 1 .. 6 /\ 5 \in 1 .. 6
          /\ 2 < 3 /\ 3 < 4 /\ 4 < 5
        OBVIOUS
    <2> QED
        BY <1>4, <2>2, <2>3, <2>4, Zenon DEF Ranked
<1> QED
    BY <1>1, <1>2, <1>6, <1>7

\* Parsing the arguments first moves the rest back by two.
LEMMA ParsedLists ==
    ASSUME NEW t \in Seq(CheckNames), Len(t) = 6, NEW v, NEW z, NEW n, NEW f,
           Ranked(t, v, z, n, f)
    PROVE  /\ Arguments \o t \in Seq(CheckNames)
           /\ Len(Arguments \o t) = 8
           /\ Ranked(Arguments \o t, v + 2, z + 2, n + 2, f + 2)
<1> DEFINE p == Arguments \o t
<1>1. /\ p \in Seq(CheckNames) /\ Len(p) = 8
      /\ p[1] = "arguments" /\ p[2] = "version"
      /\ \A i \in 1 .. 6 : p[i + 2] = t[i]
    <2>1. "arguments" \in CheckNames /\ "version" \in CheckNames
        BY DEF CheckNames
    <2> QED
        BY <2>1, Prefixed DEF Arguments
<1> HIDE DEF p
<1>2. /\ v \in 1 .. 6 /\ z \in 1 .. 6 /\ n \in 1 .. 6 /\ f \in 1 .. 6
      /\ v < z /\ z < n /\ n < f
      /\ t[v] = "version" /\ t[z] = "n" /\ t[n] = "null" /\ t[f] = "floor"
      /\ \A i \in 1 .. 6 :
          (t[i] = "n" => i = z) /\ (t[i] = "null" => i = n) /\ (t[i] = "floor" => i = f)
    BY DEF Ranked
<1>3. ASSUME NEW i \in 1 .. 8
      PROVE  (p[i] = "n" => i = z + 2) /\ (p[i] = "null" => i = n + 2)
             /\ (p[i] = "floor" => i = f + 2)
    <2>1. CASE i = 1 \/ i = 2
        BY <2>1, <1>1
    <2>2. CASE i # 1 /\ i # 2
        <3>1. i - 2 \in 1 .. 6 /\ (i - 2) + 2 = i
            BY <2>2
        <3>2. p[i] = t[i - 2]
            BY <3>1, <1>1
        <3> QED
            BY <3>1, <3>2, <1>2
    <2> QED
        BY <2>1, <2>2
<1>4. /\ p[v + 2] = "version" /\ p[z + 2] = "n" /\ p[n + 2] = "null"
      /\ p[f + 2] = "floor"
    BY <1>1, <1>2
<1>5. Ranked(p, v + 2, z + 2, n + 2, f + 2)
    BY <1>1, <1>2, <1>3, <1>4 DEF Ranked
<1> QED
    BY <1>1, <1>5 DEF p

\* Whatever the surface, its list has the rules of the contract in their order.
LEMMA ChecksAreRanked ==
    ASSUME NEW s
    PROVE  /\ Checks(s) \in Seq(CheckNames)
           /\ Len(Checks(s)) \in Nat
           /\ \E v, z, n, f \in 1 .. Len(Checks(s)) : Ranked(Checks(s), v, z, n, f)
<1> DEFINE Good(c) == /\ c \in Seq(CheckNames) /\ Len(c) \in Nat
                      /\ \E v, z, n, f \in 1 .. Len(c) : Ranked(c, v, z, n, f)
<1>1. Good(EngineChecks)
    BY UnparsedLists
<1>2. Good(FamilyChecks)
    BY UnparsedLists
<1>3. Good(Arguments \o EngineChecks)
    <2>1. Ranked(Arguments \o EngineChecks, 1 + 2, 2 + 2, 4 + 2, 5 + 2)
          /\ Arguments \o EngineChecks \in Seq(CheckNames)
          /\ Len(Arguments \o EngineChecks) = 8
        BY UnparsedLists, ParsedLists
    <2> QED
        BY <2>1
<1>4. Good(Arguments \o FamilyChecks)
    <2>1. Ranked(Arguments \o FamilyChecks, 2 + 2, 3 + 2, 4 + 2, 5 + 2)
          /\ Arguments \o FamilyChecks \in Seq(CheckNames)
          /\ Len(Arguments \o FamilyChecks) = 8
        BY UnparsedLists, ParsedLists
    <2> QED
        BY <2>1
<1>5. \/ Checks(s) = EngineChecks \/ Checks(s) = FamilyChecks
      \/ Checks(s) = Arguments \o EngineChecks \/ Checks(s) = Arguments \o FamilyChecks
    BY DEF Checks
<1> HIDE DEF Good
<1>6. Good(Checks(s))
    BY <1>1, <1>2, <1>3, <1>4, <1>5, Zenon
<1> QED
    BY <1>6 DEF Good

\* The engine's list ends with the reduction policy; the family's does not have it.
LEMMA PolicyIsLast ==
    ASSUME NEW s
    PROVE  LET c == Checks(s)
           IN  /\ s \in OfFamilies => \A i \in 1 .. Len(c) : c[i] # "reduction"
               /\ s \notin OfFamilies =>
                     /\ Len(c) \in 1 .. Len(c)
                     /\ \A i \in 1 .. Len(c) : c[i] = "reduction" <=> i = Len(c)
<1>1. /\ EngineChecks \in Seq(CheckNames) /\ Len(EngineChecks) = 6
      /\ FamilyChecks \in Seq(CheckNames) /\ Len(FamilyChecks) = 6
    BY UnparsedLists
<1>0. \A i \in 1 .. 6 : i = 1 \/ i = 2 \/ i = 3 \/ i = 4 \/ i = 5 \/ i = 6
    OBVIOUS
<1>2. \A i \in 1 .. 6 : EngineChecks[i] = "reduction" <=> i = 6
    <2>1. /\ EngineChecks[1] = "version" /\ EngineChecks[2] = "n"
          /\ EngineChecks[3] = "host only" /\ EngineChecks[4] = "null"
          /\ EngineChecks[5] = "floor" /\ EngineChecks[6] = "reduction"
        BY DEF EngineChecks
    <2> QED
        BY <1>0, <2>1
<1>3. \A i \in 1 .. 6 : FamilyChecks[i] # "reduction"
    <2>1. /\ FamilyChecks[1] = "family" /\ FamilyChecks[2] = "version"
          /\ FamilyChecks[3] = "n" /\ FamilyChecks[4] = "null"
          /\ FamilyChecks[5] = "floor" /\ FamilyChecks[6] = "gpu feature"
        BY DEF FamilyChecks
    <2> QED
        BY <1>0, <2>1
<1>4. ASSUME NEW t \in Seq(CheckNames), Len(t) = 6
      PROVE  /\ Len(Arguments \o t) = 8
             /\ \A i \in 1 .. 8 :
                   (Arguments \o t)[i] = "reduction" =>
                       i - 2 \in 1 .. 6 /\ t[i - 2] = "reduction"
             /\ (Arguments \o t)[8] = t[6]
    <2> DEFINE p == Arguments \o t
    <2>1. /\ Len(p) = 8 /\ p[1] = "arguments" /\ p[2] = "version"
          /\ \A i \in 1 .. 6 : p[i + 2] = t[i]
        <3>1. "arguments" \in CheckNames /\ "version" \in CheckNames
            BY DEF CheckNames
        <3> QED
            BY <1>4, <3>1, Prefixed DEF Arguments
    <2> HIDE DEF p
    <2>2. ASSUME NEW i \in 1 .. 8, p[i] = "reduction"
          PROVE  i - 2 \in 1 .. 6 /\ t[i - 2] = "reduction"
        <3>1. i # 1 /\ i # 2
            BY <2>1, <2>2
        <3>2. i - 2 \in 1 .. 6 /\ (i - 2) + 2 = i
            BY <3>1
        <3> QED
            BY <2>1, <2>2, <3>2
    <2>3. 6 \in 1 .. 6 /\ 6 + 2 = 8
        OBVIOUS
    <2>4. p[8] = t[6]
        BY <2>1, <2>3
    <2> QED
        BY <2>1, <2>2, <2>4 DEF p
<1>5. CASE s = "Family::run"
    <2>1. Checks(s) = FamilyChecks /\ s \in OfFamilies
        BY <1>5 DEF Checks, Parsing, OfFamilies
    <2> QED
        BY <1>1, <1>3, <2>1
<1>6. CASE s \in Parsing
    <2>1. Checks(s) = Arguments \o FamilyChecks /\ s \in OfFamilies
        BY <1>6 DEF Checks, Parsing, OfFamilies
    <2> QED
        BY <1>1, <1>3, <1>4, <2>1
<1>7. CASE s = "pk_run"
    <2>1. Checks(s) = Arguments \o EngineChecks /\ s \notin OfFamilies
        BY <1>7 DEF Checks, Parsing, OfFamilies
    <2>2. \A i \in 1 .. 8 : (Arguments \o EngineChecks)[i] = "reduction" <=> i = 8
        BY <1>1, <1>2, <1>4
    <2> QED
        BY <1>1, <1>4, <2>1, <2>2
<1>8. CASE s \notin OfFamilies /\ s # "pk_run"
    <2>1. Checks(s) = EngineChecks
        BY <1>8 DEF Checks, Parsing, OfFamilies
    <2>2. Len(Checks(s)) = 6 /\ s \notin OfFamilies /\ 6 \in 1 .. 6
        BY <1>1, <1>8, <2>1
    <2>3. \A i \in 1 .. 6 : Checks(s)[i] = "reduction" <=> i = 6
        BY <1>2, <2>1
    <2> QED
        BY <2>2, <2>3
<1> QED
    BY <1>5, <1>6, <1>7, <1>8 DEF OfFamilies, Parsing

\* What is left of a list after its first k elements.
LEMMA Rest ==
    ASSUME NEW s \in Seq(CheckNames), NEW k \in 0 .. Len(s)
    PROVE  /\ SubSeq(s, k + 1, Len(s)) = << >> <=> k = Len(s)
           /\ k < Len(s) =>
                 /\ Head(SubSeq(s, k + 1, Len(s))) = s[k + 1]
                 /\ Tail(SubSeq(s, k + 1, Len(s))) = SubSeq(s, k + 2, Len(s))
           /\ SubSeq(s, 1, Len(s)) = s
<1> DEFINE S == CheckNames
<1>1. s \in Seq(S)
    OBVIOUS
<1> HIDE DEF S
<1> QED
    BY <1>1

-----------------------------------------------------------------------------
(* The floor.                                                              *)

\* A nonempty set of natural numbers has a least element.
LEMMA Least ==
    ASSUME NEW T \in SUBSET Nat, T # {}
    PROVE  \E k \in T : \A j \in T : k <= j
<1>1. \E k \in T : \A j \in T : ~ (<<j, k>> \in OpToRel(<, Nat))
    BY NatLessThanWellFounded, WFMin, Zenon
<1>2. PICK k \in T : \A j \in T : ~ (<<j, k>> \in OpToRel(<, Nat))
    BY <1>1
<1>3. \A j \in T : ~(j < k)
    BY <1>2 DEF OpToRel
<1> QED
    BY <1>3

\* What is at least a quotient rounded up, times the divisor, is at least the
\* dividend.
LEMMA RoundedUp ==
    ASSUME NEW a \in Nat, NEW b \in Nat \ {0}
    PROVE  /\ CeilDiv(a, b) \in Nat
           /\ \A n \in Nat : n >= CeilDiv(a, b) => a <= n * b
<1> DEFINE x == a + b - 1
<1>1. x \in Nat
    OBVIOUS
<1>2. x \div b \in Nat /\ x % b \in 0 .. b - 1 /\ x = b * (x \div b) + (x % b)
    <2> HIDE DEF x
    <2> QED
        BY <1>1
<1> DEFINE q == x \div b
           r == x % b
<1>3. q \in Nat /\ r \in 0 .. b - 1 /\ a + b - 1 = b * q + r
    BY <1>2
<1>4. CeilDiv(a, b) = q
    BY DEF CeilDiv
<1> HIDE DEF q, r, x
<1>5. a <= b * q
    BY <1>3
<1>6. ASSUME NEW n \in Nat, n >= q PROVE a <= n * b
    <2>1. q * b <= n * b /\ q * b = b * q
        BY <1>3, <1>6
    <2>2. b * q \in Int /\ n * b \in Int
        BY <1>3
    <2> QED
        BY <1>5, <2>1, <2>2
<1> QED
    BY <1>3, <1>4, <1>6

\* One factor of (2 / epsilon)^d.
Grown(epsilon, x) ==
    LET q == CeilDiv(2 * SCALE * x, epsilon) IN IF q > HUGE THEN Infinite ELSE q

\* The powers up to the k-th.
IsPowers(epsilon, k, p) ==
    p = [i \in 0 .. k |-> IF i = 0 THEN 1 ELSE Grown(epsilon, p[i - 1])]

\* The powers of any number of dimensions exist.
LEMMA PowersExist ==
    ASSUME NEW epsilon
    PROVE  \A k \in Nat : \E p : IsPowers(epsilon, k, p)
<1> DEFINE T == {k \in Nat : ~ \E p : IsPowers(epsilon, k, p)}
<1>1. ASSUME T # {} PROVE FALSE
    <2>1. PICK k \in T : \A j \in T : k <= j
        BY <1>1, Least
    <2>2. k \in Nat /\ ~ \E p : IsPowers(epsilon, k, p)
        BY <2>1
    <2>3. CASE k = 0
        <3>1. IsPowers(epsilon, 0, [i \in 0 .. 0 |-> 1])
            BY DEF IsPowers
        <3> QED
            BY <2>2, <2>3, <3>1
    <2>4. CASE k # 0
        <3>1. k - 1 \in Nat /\ k - 1 \notin T
            BY <2>1, <2>2, <2>4
        <3>2. PICK p : IsPowers(epsilon, k - 1, p)
            BY <3>1
        <3> DEFINE g == [i \in 0 .. k |-> IF i = 0 THEN 1 ELSE Grown(epsilon, p[i - 1])]
        <3>3. ASSUME NEW i \in 0 .. k - 1 PROVE g[i] = p[i]
            BY <2>2, <3>2, <3>3 DEF IsPowers
        <3>4. IsPowers(epsilon, k, g)
            <4>1. ASSUME NEW i \in 0 .. k
                  PROVE  g[i] = IF i = 0 THEN 1 ELSE Grown(epsilon, g[i - 1])
                <5>1. CASE i = 0
                    BY <5>1
                <5>2. CASE i # 0
                    <6>1. i - 1 \in 0 .. k - 1
                        BY <2>2, <5>2
                    <6>2. g[i - 1] = p[i - 1]
                        BY <3>3, <6>1
                    <6>3. g[i] = Grown(epsilon, p[i - 1])
                        BY <5>2
                    <6> QED
                        BY <5>2, <6>2, <6>3
                <5> QED
                    BY <5>1, <5>2
            <4>2. g = [i \in 0 .. k |-> g[i]]
                OBVIOUS
            <4> HIDE DEF g
            <4> QED
                BY <4>1, <4>2 DEF IsPowers
        <3> QED
            BY <2>2, <3>4
    <2> QED
        BY <2>3, <2>4
<1> QED
    BY <1>1

\* So the power is a number.
LEMMA PowerIsNumber ==
    ASSUME NEW epsilon \in Nat \ {0}, NEW dim \in Nat
    PROVE  Power(epsilon, dim) \in Nat
<1> DEFINE p == CHOOSE p : p = [i \in 0 .. dim |->
                              IF i = 0 THEN 1 ELSE Grown(epsilon, p[i - 1])]
<1>1. Power(epsilon, dim) = p[dim]
    BY DEF Power, Grown
<1>2. \E f : f = [i \in 0 .. dim |-> IF i = 0 THEN 1 ELSE Grown(epsilon, f[i - 1])]
    BY PowersExist DEF IsPowers
<1>3. p = [i \in 0 .. dim |-> IF i = 0 THEN 1 ELSE Grown(epsilon, p[i - 1])]
    BY <1>2
<1> HIDE DEF p
<1>4. ASSUME NEW x \in Nat PROVE Grown(epsilon, x) \in Nat
    <2>1. 2 * SCALE * x \in Nat
        BY DEF SCALE
    <2>2. CeilDiv(2 * SCALE * x, epsilon) \in Nat
        BY <2>1, RoundedUp
    <2> QED
        BY <2>2 DEF Grown, Infinite, HUGE
<1> DEFINE T == {i \in 0 .. dim : p[i] \notin Nat}
<1>5. ASSUME T # {} PROVE FALSE
    <2>0. T \in SUBSET Nat
        OBVIOUS
    <2>1. PICK k \in T : \A j \in T : k <= j
        <3> HIDE DEF T
        <3> QED
            BY <1>5, <2>0, Least
    <2>2. k \in 0 .. dim /\ p[k] \notin Nat
        BY <2>1
    <2>3. p[0] = 1
        BY <1>3
    <2>4. k # 0
        BY <2>2, <2>3
    <2>5. k - 1 \in 0 .. dim /\ k - 1 \notin T
        BY <2>1, <2>2, <2>4
    <2>6. p[k - 1] \in Nat
        BY <2>5
    <2>7. p[k] = Grown(epsilon, p[k - 1])
        BY <1>3, <2>2, <2>4
    <2> QED
        BY <1>4, <2>2, <2>6, <2>7
<1> QED
    BY <1>1, <1>5

\* The entries of the table that the search looks at, and that it falls after them.
LEMMA Table ==
    /\ TwiceRate[1] = 139 /\ TwiceRate[2] = 156 /\ TwiceRate[4] = 161 /\ TwiceRate[8] = 156
    /\ TwiceRate[16] = 142 /\ TwiceRate[32] = 124 /\ TwiceRate[64] = 105
    /\ \A n \in 32 .. 64 : TwiceRate[n] \in Int /\ TwiceRate[n] <= TwiceRate[32]
<1>1. /\ TwiceRate[1] = 139 /\ TwiceRate[2] = 156 /\ TwiceRate[4] = 161 /\ TwiceRate[8] = 156
      /\ TwiceRate[16] = 142 /\ TwiceRate[32] = 124 /\ TwiceRate[64] = 105
    BY DEF TwiceRate
<1>2. ASSUME NEW n \in 32 .. 64 PROVE TwiceRate[n] \in Int /\ TwiceRate[n] <= 124
    <2>1. CASE n \in 32 .. 40
        BY <2>1 DEF TwiceRate
    <2>2. CASE n \in 41 .. 50
        BY <2>2 DEF TwiceRate
    <2>3. CASE n \in 51 .. 60
        BY <2>3 DEF TwiceRate
    <2>4. CASE n \in 61 .. 64
        BY <2>4 DEF TwiceRate
    <2> QED
        BY <2>1, <2>2, <2>3, <2>4
<1>3. \A n \in 32 .. 64 : TwiceRate[n] \in Int /\ TwiceRate[n] <= TwiceRate[32]
    <2>1. TwiceRate[32] = 124
        BY <1>1
    <2>2. \A n \in 32 .. 64 : TwiceRate[n] \in Int /\ TwiceRate[n] <= 124
        BY <1>2, Zenon
    <2> QED
        BY <2>1, <2>2, Zenon
<1> QED
    BY <1>1, <1>3, Zenon

\* From the hump up the search stops at once.
LEMMA SearchStops ==
    ASSUME NEW epsilon \in Nat, TwiceRate[1] <= epsilon
    PROVE  Doubled(epsilon) = 1
<1> DEFINE S == {1, 2, 4, 8, 16, 32, CAP}
           from == CHOOSE from : from = [n \in S |->
                      IF n < CAP /\ TwiceRate[n] > epsilon THEN from[2 * n] ELSE n]
           f16 == IF TwiceRate[16] > epsilon THEN 32 ELSE 16
           f8 == IF TwiceRate[8] > epsilon THEN f16 ELSE 8
           f4 == IF TwiceRate[4] > epsilon THEN f8 ELSE 4
           f2 == IF TwiceRate[2] > epsilon THEN f4 ELSE 2
           g == [n \in S |-> IF n = 2 THEN f2 ELSE IF n = 4 THEN f4
                             ELSE IF n = 8 THEN f8 ELSE IF n = 16 THEN f16 ELSE n]
<1>0. CAP = 64
    BY DEF CAP
<1>1. ~(TwiceRate[1] > epsilon) /\ ~(TwiceRate[32] > epsilon)
    BY Table
<1>2. g = [n \in S |-> IF n < CAP /\ TwiceRate[n] > epsilon THEN g[2 * n] ELSE n]
    <2>1. /\ g[1] = 1 /\ g[2] = f2 /\ g[4] = f4 /\ g[8] = f8 /\ g[16] = f16
          /\ g[32] = 32 /\ g[64] = 64
        BY <1>0
    <2>2. ASSUME NEW n \in S
          PROVE  g[n] = IF n < CAP /\ TwiceRate[n] > epsilon THEN g[2 * n] ELSE n
        <3> HIDE DEF g
        <3> QED
            BY <1>0, <1>1, <2>1
    <2>3. g = [n \in S |-> g[n]]
        OBVIOUS
    <2> HIDE DEF g
    <2> QED
        BY <2>2, <2>3
<1>3. from = [n \in S |-> IF n < CAP /\ TwiceRate[n] > epsilon THEN from[2 * n] ELSE n]
    <2> HIDE DEF g
    <2> QED
        BY <1>2
<1>4. Doubled(epsilon) = from[1]
    BY DEF Doubled
<1> HIDE DEF from, g
<1>5. from[1] = 1
    BY <1>1, <1>3
<1> QED
    BY <1>4, <1>5

\* Below the hump it stops where the rate is below epsilon, or at its cap.
LEMMA SearchEnds ==
    ASSUME NEW epsilon \in Nat, epsilon < TwiceRate[1]
    PROVE  Doubled(epsilon) = IF TwiceRate[32] > epsilon THEN 64 ELSE 32
<1> DEFINE S == {1, 2, 4, 8, 16, 32, CAP}
           from == CHOOSE from : from = [n \in S |->
                      IF n < CAP /\ TwiceRate[n] > epsilon THEN from[2 * n] ELSE n]
           f32 == IF TwiceRate[32] > epsilon THEN 64 ELSE 32
           g == [n \in S |-> IF n = 64 THEN 64 ELSE f32]
<1>0. CAP = 64
    BY DEF CAP
<1>1. /\ TwiceRate[1] > epsilon /\ TwiceRate[2] > epsilon /\ TwiceRate[4] > epsilon
      /\ TwiceRate[8] > epsilon /\ TwiceRate[16] > epsilon
    BY Table
<1>2. g = [n \in S |-> IF n < CAP /\ TwiceRate[n] > epsilon THEN g[2 * n] ELSE n]
    <2>1. /\ g[1] = f32 /\ g[2] = f32 /\ g[4] = f32 /\ g[8] = f32 /\ g[16] = f32
          /\ g[32] = f32 /\ g[64] = 64
        BY <1>0
    <2>2. ASSUME NEW n \in S
          PROVE  g[n] = IF n < CAP /\ TwiceRate[n] > epsilon THEN g[2 * n] ELSE n
        <3> HIDE DEF g
        <3> QED
            BY <1>0, <1>1, <2>1
    <2>3. g = [n \in S |-> g[n]]
        OBVIOUS
    <2> HIDE DEF g
    <2> QED
        BY <2>2, <2>3
<1>3. from = [n \in S |-> IF n < CAP /\ TwiceRate[n] > epsilon THEN from[2 * n] ELSE n]
    <2> HIDE DEF g
    <2> QED
        BY <1>2
<1>4. Doubled(epsilon) = from[1]
    BY DEF Doubled
<1> HIDE DEF from, g
<1>5. \A n \in S : from[n] = IF n < CAP /\ TwiceRate[n] > epsilon THEN from[2 * n] ELSE n
    BY <1>3
<1>6. from[64] = 64
    BY <1>5, <1>0
<1>7. from[32] = f32
    BY <1>5, <1>6, <1>0
<1>8. from[16] = f32
    BY <1>5, <1>7, <1>0, <1>1
<1>9. from[8] = f32
    BY <1>5, <1>8, <1>0, <1>1
<1>10. from[4] = f32
    BY <1>5, <1>9, <1>0, <1>1
<1>11. from[2] = f32
    BY <1>5, <1>10, <1>0, <1>1
<1> QED
    BY <1>4, <1>5, <1>11, <1>0, <1>1

\* The floor is a number.
LEMMA FloorIsNumber == ASSUME NEW claim \in Claims PROVE sample_floor(claim) \in Nat
<1> DEFINE e == claim.epsilon
           stochastic == StochasticFloor(claim)
           bias == BiasFloor(claim)
<1>1. e \in Nat \ {0} /\ claim.spread \in Nat /\ claim.obs_dim \in Nat \ {0}
    BY ClaimsAssumption
<1>2. claim.spread * SCALE * SCALE \in Nat /\ e * e \in Nat \ {0}
    BY <1>1 DEF SCALE
<1>3. stochastic \in Nat
    BY <1>2, RoundedUp DEF StochasticFloor
<1>4. Doubled(e) \in Nat
    <2>1. CASE e < TwiceRate[1]
        BY <1>1, <2>1, SearchEnds
    <2>2. CASE ~(e < TwiceRate[1])
        BY <1>1, <2>2, SearchStops, Table
    <2> QED
        BY <2>1, <2>2
<1>5. Power(e, claim.obs_dim) \in Nat
    BY <1>1, PowerIsNumber
<1>6. bias \in Nat
    BY <1>4, <1>5 DEF BiasFloor
<1>7. sample_floor(claim) = LET raw == AtLeast(stochastic, bias)
                            IN IF raw > 0 /\ raw <= HUGE THEN raw ELSE 1
    BY DEF sample_floor
<1> HIDE DEF stochastic, bias
<1> QED
    BY <1>3, <1>6, <1>7 DEF AtLeast

\* An ensemble at or above its floor has the concentration and, as far as the hump
\* allows, the bias that the theorem asks for, where the floor can be represented.
LEMMA FloorSecures ==
    ASSUME NEW claim \in Claims, NEW n \in Nat, ~(n < sample_floor(claim))
    PROVE  Backs(n, claim)
<1> SUFFICES ASSUME Representable(claim) PROVE Supports(n, claim)
    BY DEF Backs
<1> DEFINE e == claim.epsilon
           stochastic == StochasticFloor(claim)
           bias == BiasFloor(claim)
<1>1. e \in Nat \ {0} /\ claim.spread \in Nat /\ claim.obs_dim \in Nat \ {0}
    BY ClaimsAssumption
<1>2. stochastic <= HUGE /\ bias <= HUGE
    BY DEF Representable
<1>3. claim.spread * SCALE * SCALE \in Nat /\ e * e \in Nat \ {0}
    BY <1>1 DEF SCALE
<1>4. stochastic \in Nat
    BY <1>3, RoundedUp DEF StochasticFloor
<1>5. claim.obs_dim > 2 => bias = Power(e, claim.obs_dim)
    BY <1>1 DEF BiasFloor
<1>6. claim.obs_dim <= 2 =>
          /\ bias = IF e < TwiceRate[1] THEN IF TwiceRate[32] > e THEN 64 ELSE 32 ELSE 1
          /\ TwiceRate[64] <= e
    <2>1. e < TwiceRate[1] => Doubled(e) = IF TwiceRate[32] > e THEN 64 ELSE 32
        BY <1>1, SearchEnds
    <2>2. ~(e < TwiceRate[1]) => Doubled(e) = 1
        BY <1>1, SearchStops, Table
    <2> QED
        BY <2>1, <2>2 DEF BiasFloor, Representable, CAP
<1>7. bias \in Nat
    <2>1. Power(e, claim.obs_dim) \in Nat
        BY <1>1, PowerIsNumber
    <2> HIDE DEF bias
    <2> QED
        BY <1>1, <1>5, <1>6, <2>1
<1>8. n >= stochastic /\ n >= bias /\ n >= 1
    <2>1. sample_floor(claim) = LET raw == AtLeast(stochastic, bias)
                                IN IF raw > 0 /\ raw <= HUGE THEN raw ELSE 1
        BY DEF sample_floor
    <2> HIDE DEF stochastic, bias
    <2> QED
        BY <1>2, <1>4, <1>7, <2>1 DEF AtLeast, HUGE
<1>9. ConcentratesAt(n, claim)
    <2>1. claim.spread * SCALE * SCALE <= n * (e * e)
        BY <1>3, <1>8, RoundedUp DEF StochasticFloor
    <2>2. n * (e * e) = n * e * e
        BY <1>1
    <2> QED
        BY <2>1, <2>2 DEF ConcentratesAt
<1>10. BiasIsSmallAt(n, claim) \/ (BiasIsSmallAt(1, claim) /\ InHump(claim))
    <2>1. CASE claim.obs_dim > 2
        BY <1>1, <1>5, <1>8, <2>1 DEF BiasIsSmallAt
    <2>3. CASE claim.obs_dim <= 2 /\ ~(e < TwiceRate[1])
        <3>1. TwiceRate[1] <= e
            BY <1>1, <2>3, Table
        <3>2. BiasIsSmallAt(1, claim)
            BY <2>3, <3>1 DEF BiasIsSmallAt, CAP
        <3>3. CASE \E m \in 1 .. CAP : e < TwiceRate[m]
            BY <2>3, <3>1, <3>2, <3>3 DEF InHump
        <3>4. CASE ~(\E m \in 1 .. CAP : e < TwiceRate[m])
            <4>1. ASSUME n <= CAP PROVE TwiceRate[n] <= e
                <5>1. n \in 1 .. CAP
                    BY <1>8, <4>1 DEF CAP
                <5>2. ~(e < TwiceRate[n])
                    BY <3>4, <5>1
                <5>3. TwiceRate[n] \in Nat
                    BY <5>1 DEF TwiceRate, CAP
                <5> QED
                    BY <1>1, <5>2, <5>3
            <4> QED
                BY <2>3, <4>1 DEF BiasIsSmallAt
        <3> QED
            BY <3>3, <3>4
    <2>2. CASE claim.obs_dim <= 2 /\ e < TwiceRate[1]
        <3> HIDE DEF bias
        <3>1. ASSUME n <= 64 PROVE TwiceRate[n] <= e
            <4>1. CASE TwiceRate[32] > e
                <5>1. n = 64
                    BY <1>6, <1>8, <2>2, <3>1, <4>1
                <5> QED
                    BY <5>1, <1>6, <2>2
            <4>2. CASE ~(TwiceRate[32] > e)
                <5>1. n \in 32 .. 64
                    BY <1>6, <1>8, <2>2, <3>1, <4>2
                <5> QED
                    BY <5>1, <4>2, <1>1, Table
            <4> QED
                BY <4>1, <4>2
        <3> QED
            BY <3>1, <2>2 DEF BiasIsSmallAt, CAP
    <2> QED
        BY <1>1, <2>1, <2>2, <2>3
<1>11. \E m \in 1 .. n : BiasIsSmallAt(m, claim)
    <2>1. 1 \in 1 .. n /\ n \in 1 .. n
        BY <1>8
    <2> QED
        BY <1>10, <2>1
<1> QED
    BY <1>9, <1>10, <1>11 DEF Supports

-----------------------------------------------------------------------------
(* Every step keeps Told.                                                  *)

\* The initial states: no check is made.
LEMMA FirstTold == BindingInit => Told
<1> SUFFICES ASSUME BindingInit PROVE Told
    OBVIOUS
<1> USE DEF BindingInit, Init
<1>1. Position
    <2>1. /\ Len(Checks(surface)) \in Nat /\ Checks(surface) \in Seq(CheckNames)
        BY ChecksAreRanked
    <2>2. SubSeq(Checks(surface), 0 + 1, Len(Checks(surface))) = Checks(surface)
        BY <2>1, Rest
    <2>3. At(0)
        BY <2>2 DEF At
    <2> QED
        BY <2>1, <2>3 DEF Position
<1>2. Outcome
    <2>1. Surfaces \cap EntryPoints(caller) = EntryPoints(caller)
        BY DEF Surfaces, EntryPoints, Languages, CSurfaces, OverC, Droppers
    <2> QED
        BY <2>1 DEF Outcome, NotRun, NoReport
<1>3. Answered
    BY DEF Answered
<1> QED
    BY <1>1, <1>2, <1>3 DEF Told

\* What the checks have found is still so while config, surface, todo, used and
\* verdict are.
LEMMA SamePosition ==
    ASSUME Position, UNCHANGED <<config, surface, todo, used, verdict>>,
           phase' = "building" => phase = "building"
    PROVE  Position'
<1> SUFFICES ASSUME NEW k \in 0 .. Len(Checks(surface)), At(k) PROVE At(k)'
    BY DEF Position
<1>1. \A check : Rejects(check)' = Rejects(check)
    BY DEF Rejects, BadArguments, InvalidFamily, OtherMajor, IsDevice, NullMismatch,
           BelowFloor, Floor, HasFloor, UnknownReduction, NoDeviceSupport
<1> QED
    BY <1>1 DEF At, IsDevice

\* The length of a list of checks, and what is left after k of them.
LEMMA Left ==
    ASSUME NEW k \in 0 .. Len(Checks(surface)),
           todo = SubSeq(Checks(surface), k + 1, Len(Checks(surface)))
    PROVE  /\ Len(Checks(surface)) \in Nat
           /\ todo = << >> => k = Len(Checks(surface))
           /\ todo # << >> =>
                 /\ k < Len(Checks(surface))
                 /\ Head(todo) = Checks(surface)[k + 1]
                 /\ Tail(todo) = SubSeq(Checks(surface), k + 2, Len(Checks(surface)))
<1>1. /\ Len(Checks(surface)) \in Nat /\ Checks(surface) \in Seq(CheckNames)
    BY ChecksAreRanked
<1> QED
    BY <1>1, Rest

\* A run's step leaves the config, and with it what the checks answer.
LEMMA SameAnswers ==
    ASSUME UNCHANGED <<config, surface>>
    PROVE  /\ \A check : Rejects(check)' = Rejects(check)
           /\ IsDevice' = IsDevice
BY DEF Rejects, BadArguments, InvalidFamily, OtherMajor, IsDevice, NullMismatch,
       BelowFloor, Floor, HasFloor, UnknownReduction, NoDeviceSupport

\* A step of the call itself tells the caller nothing yet.
LEMMA SameAnswer ==
    ASSUME Answered, phase = "calling", UNCHANGED bindingVars
    PROVE  Answered'
BY DEF Answered, bindingVars

\* A check passes: one more of them is done.
LEMMA Passing ==
    ASSUME IInv, Told, CheckNext, phase = "calling", UNCHANGED bindingVars
    PROVE  Told'
<1> USE DEF CheckNext, bindingVars
<1>1. Position'
    <2>1. PICK k \in 0 .. Len(Checks(surface)) : At(k)
        BY DEF Told, Position
    <2>2. /\ Len(Checks(surface)) \in Nat /\ k < Len(Checks(surface))
          /\ Head(todo) = Checks(surface)[k + 1]
          /\ todo' = SubSeq(Checks(surface), (k + 1) + 1, Len(Checks(surface)))
        BY <2>1, Left DEF At
    <2>3. ~Rejects(Checks(surface)[k + 1])
        BY <2>2
    <2>4. verdict = "none" /\ used = NotRun
        BY <2>1, <2>2 DEF Told, Outcome, At
    <2>5. k + 1 \in 0 .. Len(Checks(surface))
        BY <2>2
    <2>6. \A i \in 1 .. k + 1 : ~Rejects(Checks(surface)[i])
        BY <2>1, <2>2, <2>3 DEF At
    <2>7. At(k + 1)'
        BY <2>2, <2>4, <2>6, SameAnswers DEF At
    <2> QED
        BY <2>5, <2>7 DEF Position
<1>2. Outcome'
    BY DEF Told, Outcome
<1>3. Answered'
    BY SameAnswer DEF Told
<1> QED
    BY <1>1, <1>2, <1>3 DEF Told

\* No error is an error message for nothing or for success.
LEMMA ErrorsAreErrors == \A check : ErrorOf(check) \notin {"none", "Ok", "Panic"}
BY DEF ErrorOf

\* The call fails for a reason other than a check of a host config.
LEMMA FailsOtherwise ==
    ASSUME IInv, Told, NEW e, e \notin {"none", "Ok"}, e = "Panic" \/ IsDevice,
           Fail(e), phase = "calling", pc \in {"checking", "finishing"},
           UNCHANGED bindingVars
    PROVE  Told'
<1> USE DEF Fail, bindingVars
<1>1. Position'
    <2>1. PICK k \in 0 .. Len(Checks(surface)) : At(k)
        BY DEF Told, Position
    <2>2. At(k)'
        BY <2>1, SameAnswers DEF At
    <2> QED
        BY <2>1, <2>2 DEF Position
<1>2. Outcome'
    BY DEF Told, Outcome
<1>3. Answered'
    BY SameAnswer DEF Told
<1> QED
    BY <1>1, <1>2, <1>3 DEF Told

\* A check fails, and the verdict is its error.
LEMMA FailsCheck ==
    ASSUME IInv, Told, CheckFails, phase = "calling", UNCHANGED bindingVars
    PROVE  Told'
<1> USE DEF CheckFails, Fail, bindingVars
<1>1. Position'
    <2>1. PICK k \in 0 .. Len(Checks(surface)) : At(k)
        BY DEF Told, Position
    <2>2. /\ Len(Checks(surface)) \in Nat /\ k < Len(Checks(surface))
          /\ Head(todo) = Checks(surface)[k + 1]
        BY <2>1, Left DEF At
    <2>3. Rejects(Checks(surface)[k + 1]) /\ verdict' = ErrorOf(Checks(surface)[k + 1])
        BY <2>2
    <2>4. At(k)'
        BY <2>1, <2>2, <2>3, SameAnswers DEF At
    <2> QED
        BY <2>1, <2>4 DEF Position
<1>2. Outcome'
    BY ErrorsAreErrors DEF Told, Outcome
<1>3. Answered'
    BY SameAnswer DEF Told
<1> QED
    BY <1>1, <1>2, <1>3 DEF Told

\* A run is made once every check has passed.
LEMMA Running ==
    ASSUME IInv, Told, RunHost \/ RunDevice, phase = "calling", UNCHANGED bindingVars
    PROVE  Told'
<1> USE DEF RunHost, RunDevice, Admitted, bindingVars
<1>1. Position'
    <2>1. PICK k \in 0 .. Len(Checks(surface)) : At(k)
        BY DEF Told, Position
    <2>2. Len(Checks(surface)) \in Nat /\ k = Len(Checks(surface))
        BY <2>1, Left DEF At
    <2>3. verdict' = "none" /\ UNCHANGED <<config, surface, todo>>
        BY DEF Told, Outcome
    <2>4. At(k)'
        BY <2>1, <2>2, <2>3, SameAnswers DEF At
    <2> QED
        BY <2>1, <2>3, <2>4 DEF Position
<1>2. Outcome'
    <2>1. used'.where \in {"host", "device"} /\ used' # NotRun
        BY DEF OnDevice, NotRun
    <2> QED
        BY <2>1 DEF Told, Outcome
<1>3. Answered'
    BY SameAnswer DEF Told
<1> QED
    BY <1>1, <1>2, <1>3 DEF Told

\* The report is made, or the call returns.
LEMMA Reporting ==
    ASSUME IInv, Told, Finish \/ Return \/ ReturnC, phase = "calling",
           UNCHANGED bindingVars
    PROVE  Told'
<1>0. /\ UNCHANGED <<config, surface, todo, used>> /\ UNCHANGED bindingVars
      /\ verdict' = verdict \/ verdict' = "Ok"
    BY DEF Finish, Return, ReturnC
<1>1. Position'
    <2>1. PICK k \in 0 .. Len(Checks(surface)) : At(k)
        BY DEF Told, Position
    <2>2. At(k)'
        BY <1>0, <2>1, SameAnswers DEF At, bindingVars
    <2> QED
        BY <1>0, <2>1, <2>2 DEF Position
<1>2. Outcome'
    <2>1. CASE Finish
        <3>1. report'.backend \in Backends /\ report'.bound = BoundAvailable
            BY <2>1 DEF Finish, IInv, Progress, Configs
        <3>2. report' # NoReport
            BY <3>1 DEF NoReport, Backends, DeviceBackends
        <3> QED
            BY <2>1, <3>1, <3>2 DEF Finish, Told, Outcome, BoundAvailable, bindingVars
    <2>2. CASE Return
        BY <2>2 DEF Return, Told, Outcome, bindingVars
    <2>3. CASE ReturnC
        BY <2>3 DEF ReturnC, Told, Outcome, bindingVars
    <2> QED
        BY <2>1, <2>2, <2>3
<1>3. Answered'
    BY SameAnswer DEF Told
<1> QED
    BY <1>1, <1>2, <1>3 DEF Told

\* The steps of the call.
LEMMA CallTold == ASSUME IInv, Told, Calling PROVE Told'
<1>0. phase = "calling" /\ UNCHANGED bindingVars
    BY DEF Calling
<1>1. CASE CheckNext
    BY <1>0, <1>1, Passing
<1>2. CASE CheckFails
    BY <1>0, <1>2, FailsCheck
<1>3. CASE RunHost \/ RunDevice
    BY <1>0, <1>3, Running
<1>4. CASE Panics
    <2>1. Fail("Panic") /\ pc = "checking"
        BY <1>4 DEF Panics, Admitted, AsksForNull
    <2> QED
        BY <1>0, <2>1, FailsOtherwise
<1>5. CASE DeviceFails
    <2>1. Fail("Gpu") /\ IsDevice /\ pc = "checking"
        BY <1>5 DEF DeviceFails, Admitted
    <2> QED
        BY <1>0, <2>1, FailsOtherwise
<1>6. CASE DeviceRefuses
    <2>1. Fail("UnsupportedBackend") /\ IsDevice /\ pc = "checking"
        BY <1>6 DEF DeviceRefuses, Admitted, IsDevice, DeviceBackends
    <2> QED
        BY <1>0, <2>1, FailsOtherwise
<1>7. CASE Finish \/ Return \/ ReturnC
    BY <1>0, <1>7, Reporting
<1> QED
    BY <1>1, <1>2, <1>3, <1>4, <1>5, <1>6, <1>7 DEF Calling

\* The payload: no check is made before it is built.
LEMMA BuildTold == ASSUME IInv, Told, Build PROVE Told'
<1> USE DEF Build
<1>1. Position'
    <2>1. PICK k \in 0 .. Len(Checks(surface)) : At(k)
        BY DEF Told, Position
    <2>2. k = 0 /\ pc = "checking" /\ verdict = "none"
        BY <2>1 DEF At, IInv, Progress, Told, Outcome
    <2>3. /\ todo' = SubSeq(Checks(surface), 0 + 1, Len(Checks(surface)))
          /\ verdict' = "none" /\ surface' = surface /\ used' = used
          /\ used # NotRun => 0 = Len(Checks(surface))
        BY <2>1, <2>2 DEF At
    <2>4. At(0)'
        BY <2>3 DEF At
    <2> QED
        BY <2>1, <2>2, <2>3, <2>4 DEF Position
<1>2. Outcome'
    <2>1. verdict # "Ok"
        BY DEF IInv, Progress, Told, Outcome
    <2> QED
        BY <2>1 DEF Told, Outcome
<1>3. Answered'
    BY DEF Told, Answered
<1> QED
    BY <1>1, <1>2, <1>3 DEF Told

\* What a caller is told is never "nothing", nor a mere phase of a call.
LEMMA Words ==
    /\ RefusedWith # "none"
    /\ verdict # "none" => Raised # "none" /\ PkErr(verdict) # "none"
BY DEF RefusedWith, Raised, ToPy, PkErr

\* The caller's own steps.
LEMMA HeldTold ==
    ASSUME IInv, Told,
           Refuse \/ Answer \/ Throw \/ Take \/ Read \/ CopyFails \/ AllocationFailsInR
             \/ Release
    PROVE  Told'
<1>1. UNCHANGED <<vars, caller, supplied>>
    BY DEF Refuse, Answer, Throw, Take, Read, CopyFails, AllocationFailsInR, Release
<1>2. phase' \in {"holding", "releasing", "done"}
    BY DEF Refuse, Answer, Throw, Take, Read, CopyFails, AllocationFailsInR, Release
<1>3. Position'
    BY <1>1, <1>2, SamePosition DEF vars, Told
<1>4. Outcome'
    BY <1>1 DEF vars, Told, Outcome
<1>5. Answered'
    <2> USE DEF Told
    <2>0. /\ RefusedWith' = RefusedWith /\ PartRefused' = PartRefused
          /\ NumberRefused' = NumberRefused /\ Raised' = Raised
        BY <1>1 DEF vars, RefusedWith, PartRefused, NumberRefused, Raised, ToPy
    <2> USE <1>1 DEF vars
    <2>1. CASE Refuse
        <3>1. answer' = RefusedWith /\ answer' # "none" /\ phase' = "done"
              /\ (PartRefused \/ NumberRefused)
            BY <2>1, Words DEF Refuse
        <3>2. UNCHANGED <<frees, copy>>
            BY <2>1 DEF Refuse
        <3> QED
            BY <2>0, <3>1, <3>2 DEF Answered
    <2>2. CASE Answer
        <3>1. verdict # "none" /\ surface \notin CSurfaces /\ phase' = "done"
            BY <2>2 DEF Answer, Outcome
        <3>2. IF verdict = "Ok" THEN answer' = "value" ELSE answer' = Raised /\ Raised # "none"
            BY <2>2, <3>1, Words DEF Answer
        <3>3. UNCHANGED <<frees, copy>>
            BY <2>2 DEF Answer
        <3> QED
            BY <2>0, <3>1, <3>2, <3>3 DEF Answered
    <2>3. CASE Throw
        <3>1. /\ verdict # "none" /\ surface \in CSurfaces /\ phase' = "done"
              /\ verdict # "Ok" /\ answer' = PkErr(verdict) /\ PkErr(verdict) # "none"
            BY <2>3, Words, OkIsOk DEF Throw, Outcome, IInv, Codes
        <3>2. UNCHANGED <<frees, copy>>
            BY <2>3 DEF Throw
        <3> QED
            BY <2>0, <3>1, <3>2 DEF Answered
    <2>4. CASE Take
        BY <2>4 DEF Take, Answered
    <2>5. CASE Read
        <3>1. verdict = "Ok"
            BY <2>5 DEF Read, Answered, IInv, Progress, Codes, Before
        <3> QED
            BY <2>5, <3>1 DEF Read, Answered
    <2>6. CASE CopyFails
        <3>1. /\ phase = "holding" /\ phase' = "releasing"
              /\ answer' = "out of memory" /\ frees' = frees /\ copy' = copy
            BY <2>6 DEF CopyFails
        <3>2. handle' = handle /\ pc' = pc
            OBVIOUS
        <3>3. /\ handle /\ pc = "ended"
              /\ frees \in 0 .. 1 /\ copy \in {"none", "live", "dangling"}
            BY <3>1 DEF Answered
        <3>4. /\ frees' \in 0 .. 1 /\ copy' \in {"none", "live", "dangling"}
              /\ pc' = "ended"
            BY <3>1, <3>2, <3>3, Zenon
        <3>6. handle'
            BY <3>2, <3>3
        <3>5. ~(phase' \in {"building", "calling", "holding"}) /\ answer' # "none"
            BY <3>1
        <3> QED
            BY <3>1, <3>4, <3>5, <3>6, Zenon DEF Answered
    <2>7. CASE AllocationFailsInR
        BY <2>7 DEF AllocationFailsInR, Answered
    <2>8. CASE Release
        <3>1. frees' = 1
            BY <2>8 DEF Release, IInv, Ownership
        <3>2. answer' = answer /\ copy' = copy /\ phase = "releasing" /\ phase' = "done"
            BY <2>8 DEF Release
        <3>3. /\ answer # "none" /\ copy \in {"none", "live", "dangling"}
              /\ answer = "out of memory" \/ (answer = "value" /\ verdict = "Ok")
            BY <3>2 DEF Answered
        <3>4. verdict' = verdict
            OBVIOUS
        <3>5. frees' \in 0 .. 1 /\ copy' \in {"none", "live", "dangling"}
            <4>1. 1 \in 0 .. 1
                OBVIOUS
            <4> QED
                BY <4>1, <3>1, <3>2, <3>3, Zenon
        <3>7. /\ ~(phase' \in {"holding", "releasing"})
              /\ ~(phase' \in {"building", "calling", "holding"}) /\ answer' # "none"
            BY <3>2, <3>3, Zenon
        <3>6. answer' = "out of memory" \/ (answer' = "value" /\ verdict' = "Ok")
            BY <3>2, <3>3, <3>4
        <3> QED
            BY <3>5, <3>6, <3>7, Zenon DEF Answered
    <2> QED
        BY <2>1, <2>2, <2>3, <2>4, <2>5, <2>6, <2>7, <2>8
<1> QED
    BY <1>3, <1>4, <1>5 DEF Told

\* Told holds throughout.
LEMMA AlwaysTold == BindingSpec => []Told
<1>1. IInv /\ Told /\ [BindingNext]_allVars => Told'
    <2> SUFFICES ASSUME IInv, Told, [BindingNext]_allVars PROVE Told'
        OBVIOUS
    <2>1. CASE Build
        BY <2>1, BuildTold
    <2>2. CASE Calling
        BY <2>2, CallTold
    <2>3. CASE Refuse \/ Answer \/ Throw \/ Take \/ Read \/ CopyFails
                 \/ AllocationFailsInR \/ Release
        BY <2>3, HeldTold
    <2>4. CASE UNCHANGED allVars
        <3>1. Position'
            BY <2>4, SamePosition DEF allVars, vars, bindingVars, Told
        <3>2. Outcome'
            BY <2>4 DEF allVars, vars, bindingVars, Told, Outcome
        <3>3. Answered'
            BY <2>4 DEF allVars, vars, bindingVars, Told, Answered, RefusedWith,
                        PartRefused, NumberRefused, Raised, ToPy
        <3> QED
            BY <3>1, <3>2, <3>3 DEF Told
    <2> QED
        BY <2>1, <2>2, <2>3, <2>4 DEF BindingNext, Done
<1> QED
    BY FirstTold, Always, <1>1, PTL DEF BindingSpec

-----------------------------------------------------------------------------
(* The theorems that follow from Told.                                     *)

\* The type invariant of the call.
THEOREM CallTypes == BindingSpec => []TypeOK
<1>1. IInv /\ Told => TypeOK
    BY DEF IInv, Progress, Before, Told, Position, At, Outcome, TypeOK
<1> QED
    BY Always, AlwaysTold, <1>1, PTL

\* The type invariant of the caller.
THEOREM CallerTypes == BindingSpec => []BindingTypeOK
<1>1. IInv /\ Told => BindingTypeOK
    <2> SUFFICES ASSUME IInv, Told PROVE BindingTypeOK
        OBVIOUS
    <2>1. phase \in {"building", "calling", "holding", "releasing", "done"}
        BY DEF IInv, Progress
    <2>2. phase = "done" <=> answer # "none" /\ phase # "releasing"
        BY <2>1 DEF Told, Answered
    <2> QED
        BY <2>1, <2>2 DEF Told, Outcome, Answered, BindingTypeOK
<1> QED
    BY Always, AlwaysTold, <1>1, PTL

\* Once a value is computed, every check of the surface has passed.
LEMMA AllPassed ==
    ASSUME Told, used # NotRun
    PROVE  \A i \in 1 .. Len(Checks(surface)) : ~Rejects(Checks(surface)[i])
<1>1. PICK k \in 0 .. Len(Checks(surface)) : At(k)
    BY DEF Told, Position
<1> QED
    BY <1>1 DEF At

\* And so the config keeps the contract, as its entry point reads it.
LEMMA RunsAreAdmitted ==
    ASSUME IInv, Told, used # NotRun
    PROVE  MeetsContract(AsRead(config))
<1>0. config \in Configs
    BY DEF IInv, Progress
<1>1. PICK v \in 1 .. Len(Checks(surface)), z \in 1 .. Len(Checks(surface)),
           n \in 1 .. Len(Checks(surface)), f \in 1 .. Len(Checks(surface)) :
               Ranked(Checks(surface), v, z, n, f)
    BY ChecksAreRanked
<1>2. ~Rejects("version") /\ ~Rejects("n") /\ ~Rejects("null") /\ ~Rejects("floor")
    BY <1>1, AllPassed DEF Ranked
<1>3. /\ config.version = "same major" /\ config.null
    BY <1>0, <1>2 DEF Rejects, OtherMajor, NullMismatch, Configs
<1>4. config.n \in Nat /\ config.n # 0 /\ ~(config.n < Floor)
    BY <1>0, <1>2, ClaimsAssumption DEF Rejects, BelowFloor, Configs
<1>5. ASSUME config.claim # NoClaim, config.lambda
      PROVE  config.n >= sample_floor(config.claim) /\ Backs(config.n, config.claim)
    <2>1. config.claim \in Claims
        BY <1>0, <1>5 DEF Configs
    <2>2. ~(config.n < sample_floor(config.claim))
        BY <1>4, <1>5 DEF Floor, HasFloor
    <2>3. sample_floor(config.claim) \in Nat
        BY <2>1, FloorIsNumber
    <2> QED
        BY <1>4, <2>1, <2>2, <2>3, FloorSecures
<1>6. config.n > 0
    BY <1>4
<1>7. /\ AsRead(config).version = config.version /\ AsRead(config).n = config.n
      /\ AsRead(config).null = config.null /\ AsRead(config).claim = config.claim
      /\ AsRead(config).lambda = config.lambda
    BY <1>0 DEF AsRead, Configs
<1>8. AsRead(config).order # "other"
    <2>1. CASE surface \in OfFamilies
        BY <1>0, <2>1 DEF AsRead, Configs
    <2>2. CASE surface \notin OfFamilies
        <3>1. ~Rejects("reduction")
            <4> DEFINE c == Checks(surface)
            <4>1. Len(c) \in 1 .. Len(c) /\ c[Len(c)] = "reduction"
                BY <2>2, PolicyIsLast
            <4> QED
                BY <4>1, AllPassed
        <3> QED
            BY <2>2, <3>1 DEF Rejects, UnknownReduction, AsRead
    <2> QED
        BY <2>1, <2>2
<1> QED
    BY <1>3, <1>5, <1>6, <1>7, <1>8, Zenon DEF MeetsContract

\* Nothing is drawn on any entry point for a config that breaks the contract, the
\* reduction policy included on every entry point that reads it.
THEOREM RunsMeetTheContract == BindingSpec => []OnlyAdmittedRuns
<1>1. IInv /\ Told => OnlyAdmittedRuns
    BY RunsAreAdmitted DEF OnlyAdmittedRuns
<1> QED
    BY Always, AlwaysTold, <1>1, PTL

\* An error bound is published only for an ensemble that has the concentration of
\* its claim and, as far as the hump allows, its bias.
THEOREM BoundsAreBacked == BindingSpec => []BoundIsBacked
<1>1. IInv /\ Told => BoundIsBacked
    <2> SUFFICES ASSUME IInv, Told, report.bound
                 PROVE  config.claim # NoClaim /\ Backs(config.n, config.claim)
        BY DEF BoundIsBacked
    <2>1. used # NotRun /\ config.claim # NoClaim /\ config.lambda
        BY DEF Told, Outcome
    <2>2. MeetsContract(AsRead(config))
        BY <2>1, RunsAreAdmitted
    <2>3. /\ AsRead(config).n = config.n /\ AsRead(config).claim = config.claim
          /\ AsRead(config).lambda = config.lambda
        BY DEF IInv, Progress, AsRead, Configs
    <2> QED
        BY <2>1, <2>2, <2>3 DEF MeetsContract
<1> QED
    BY Always, AlwaysTold, <1>1, PTL

\* A host config whose arguments and family are well formed fails its first check
\* exactly where the contract says, as the entry point reads the config.
LEMMA VerdictIsContract ==
    ASSUME IInv, Told, verdict \notin {"none", "Panic"}, config.arguments,
           config.family # "invalid", ~IsDevice
    PROVE  verdict = Contract(AsRead(config))
<1>0. config \in Configs
    BY DEF IInv, Progress
<1> DEFINE c == Checks(surface)
           rejected(r) == \/ r = "version" /\ config.version = "other major"
                          \/ r = "n" /\ config.n = 0
                          \/ r = "null" /\ ~config.null
                          \/ r = "floor" /\ config.claim # NoClaim /\ config.lambda
                                /\ config.n < sample_floor(config.claim)
                          \/ r = "reduction" /\ config.order = "other"
           asRead == AsRead(config)
<1>1. \A r : Rejects(r) <=> rejected(r)
    <2>1. config.n \in Nat
        BY <1>0, ClaimsAssumption DEF Configs
    <2>2. config.n < Floor <=> /\ config.claim # NoClaim /\ config.lambda
                               /\ config.n < sample_floor(config.claim)
        BY <2>1 DEF Floor, HasFloor, NoFloor
    <2> QED
        BY <2>2 DEF Rejects, BadArguments, InvalidFamily, OtherMajor, NullMismatch,
                    BelowFloor, UnknownReduction, NoDeviceSupport
<1>2. PICK v \in 1 .. Len(c), z \in 1 .. Len(c), n \in 1 .. Len(c), f \in 1 .. Len(c) :
          Ranked(c, v, z, n, f)
    BY ChecksAreRanked
<1>3. PICK k \in 0 .. Len(c) : At(k)
    BY DEF Told, Position
<1>4. Len(c) \in Nat
    BY ChecksAreRanked
<1>9. /\ asRead.version = config.version /\ asRead.n = config.n
      /\ asRead.null = config.null /\ asRead.claim = config.claim
      /\ asRead.lambda = config.lambda
      /\ asRead.order = IF surface \in OfFamilies THEN "tree" ELSE config.order
    BY <1>0 DEF AsRead, Configs
<1>10. /\ surface \in OfFamilies => \A i \in 1 .. Len(c) : c[i] # "reduction"
       /\ surface \notin OfFamilies =>
             /\ Len(c) \in 1 .. Len(c)
             /\ \A i \in 1 .. Len(c) : c[i] = "reduction" <=> i = Len(c)
    BY PolicyIsLast
<1>5. CASE verdict = "Ok"
    <2>1. used # NotRun
        BY <1>5 DEF Told, Outcome
    <2>2. \A i \in 1 .. Len(c) : ~Rejects(c[i])
        BY <2>1, AllPassed
    <2>3. ~rejected("version") /\ ~rejected("n") /\ ~rejected("null") /\ ~rejected("floor")
        BY <1>1, <1>2, <2>2 DEF Ranked
    <2>4. asRead.order # "other"
        <3>1. CASE surface \notin OfFamilies
            BY <1>1, <1>9, <1>10, <2>2, <3>1
        <3>2. CASE surface \in OfFamilies
            BY <1>9, <3>2
        <3> QED
            BY <3>1, <3>2
    <2> HIDE DEF asRead
    <2> QED
        BY <1>5, <1>9, <2>3, <2>4 DEF Contract, asRead
<1>6. CASE verdict # "Ok"
    <2> DEFINE r == c[k + 1]
    <2>1. k < Len(c) /\ Rejects(r) /\ verdict = ErrorOf(r)
        BY <1>3, <1>6 DEF At
    <2>2. k + 1 \in 1 .. Len(c) /\ \A i \in 1 .. Len(c) : i < k + 1 => ~Rejects(c[i])
        BY <1>3, <1>4, <2>1 DEF At
    <2>3. /\ v < z /\ z < n /\ n < f
          /\ c[v] = "version" /\ c[z] = "n" /\ c[n] = "null" /\ c[f] = "floor"
          /\ r = "n" => k + 1 = z
          /\ r = "null" => k + 1 = n
          /\ r = "floor" => k + 1 = f
        BY <1>2, <2>2 DEF Ranked
    <2>4. rejected(r)
        BY <1>1, <2>1
    <2>5. r = "n" => ~Rejects("version")
        BY <1>2, <2>2, <2>3
    <2>6. r = "null" => ~Rejects("version") /\ ~Rejects("n")
        BY <1>2, <2>2, <2>3
    <2>7. r = "floor" => ~Rejects("version") /\ ~Rejects("n") /\ ~Rejects("null")
        BY <1>2, <2>2, <2>3
    <2>9. r = "reduction" =>
              /\ surface \notin OfFamilies
              /\ ~Rejects("version") /\ ~Rejects("n")
              /\ ~Rejects("null") /\ ~Rejects("floor")
        <3> SUFFICES ASSUME r = "reduction"
                     PROVE  /\ surface \notin OfFamilies
                            /\ ~Rejects("version") /\ ~Rejects("n")
                            /\ ~Rejects("null") /\ ~Rejects("floor")
            OBVIOUS
        <3>1. surface \notin OfFamilies /\ k + 1 = Len(c)
            BY <1>10, <2>2
        <3>2. v # k + 1 /\ z # k + 1 /\ n # k + 1 /\ f # k + 1
            BY <2>3
        <3>3. v < k + 1 /\ z < k + 1 /\ n < k + 1 /\ f < k + 1
            BY <1>2, <1>3, <1>4, <3>1, <3>2
        <3> QED
            BY <2>2, <2>3, <3>1, <3>3
    <2> HIDE DEF r
    <2>8. /\ r = "n" => ~rejected("version")
          /\ r = "null" => ~rejected("version") /\ ~rejected("n")
          /\ r = "floor" => ~rejected("version") /\ ~rejected("n") /\ ~rejected("null")
          /\ r = "reduction" => /\ asRead.order = config.order
                                /\ ~rejected("version") /\ ~rejected("n")
                                /\ ~rejected("null") /\ ~rejected("floor")
        BY <1>1, <1>9, <2>5, <2>6, <2>7, <2>9
    <2> HIDE DEF asRead
    <2> QED
        BY <1>9, <2>1, <2>4, <2>8 DEF Contract, ErrorOf, asRead
<1> QED
    BY <1>5, <1>6

\* For one request every language answers with the value, or with its own form of
\* the same first error.
THEOREM LanguagesAgree == BindingSpec => []AnswersAgree
<1>1. IInv /\ Told => AnswersAgree
    <2> SUFFICES ASSUME IInv, Told, phase = "done", supplied # "some",
                        answer \notin {"out of memory", "stop"}, config.arguments,
                        config.family # "invalid", ~IsDevice
                 PROVE  answer \in {FormOf(Contract(AsRead(config))), FormOf("Panic")}
        BY DEF AnswersAgree
    <2>1. ~PartRefused /\ ~NumberRefused
        BY DEF PartRefused, NumberRefused
    <2>2. \/ answer = "value" /\ verdict = "Ok"
          \/ /\ verdict \notin {"none", "Ok"}
             /\ answer = IF surface \in CSurfaces THEN PkErr(verdict) ELSE Raised
        BY <2>1 DEF Told, Answered
    <2>3. verdict = "Panic" \/ verdict = Contract(AsRead(config))
        BY <2>2, VerdictIsContract
    <2>4. answer = FormOf(verdict)
        <3>1. CASE verdict = "Ok"
            BY <2>2, <3>1 DEF FormOf
        <3>2. CASE verdict # "Ok" /\ surface \in CSurfaces
            <4>1. caller \notin {"ts", "python"}
                BY <3>2 DEF Told, Outcome, EntryPoints, CSurfaces, OverC, Droppers
            <4>2. verdict \in {"Panic", "SchemaVersion", "EmptyEnsemble",
                               "NullParameterMismatch", "SampleFloor", "Json"}
                BY <2>3, <3>2 DEF Contract
            <4> QED
                BY <2>2, <3>2, <4>1, <4>2 DEF FormOf, PkErr
        <3>3. CASE verdict # "Ok" /\ surface \notin CSurfaces
            <4>1. verdict \in {"Panic", "SchemaVersion", "EmptyEnsemble",
                               "NullParameterMismatch", "SampleFloor", "Json"}
                BY <2>3, <3>3 DEF Contract
            <4> QED
                BY <2>2, <3>3, <4>1 DEF FormOf, Raised, ToPy
        <3> QED
            BY <3>1, <3>2, <3>3
    <2> QED
        BY <2>3, <2>4
<1> QED
    BY Always, AlwaysTold, <1>1, PTL
=============================================================================
