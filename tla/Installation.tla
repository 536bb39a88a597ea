---------------------------- MODULE Installation ----------------------------
(***************************************************************************)
(* An installed copy of the program and what tools/launch.bat does with it *)
(* before the program runs: the maintenance preflight moves wheels of      *)
(* earlier releases aside, the release gate compares the files with the    *)
(* manifest, bootstrap.py retires identity files of an earlier release and *)
(* prepares the project's virtual environment.  Releases are extracted     *)
(* over one another, and a launch may fail or be killed at any step.       *)
(* One launch at a time; actions that prepare the same environment (serve, *)
(* doctor, demo) are one; the support export, which needs neither          *)
(* preflight nor gate and changes nothing that is modelled here, is left   *)
(* out.                                                                    *)
(***************************************************************************)
EXTENDS Naturals, SequencesExt

CONSTANTS
    Releases,       \* the releases somebody extracts here
    Nothing,        \* no such file
    Mixed,          \* packages left by an installation or a removal that did not end
    MaxExtracts,    \* bound: releases extracted after the first
    MaxFailures     \* bound: launches that fail or are killed

ASSUME ReleasesAssumption == Releases \subseteq Nat /\ {Nothing, Mixed} \cap Releases = {}
ASSUME BoundsAssumption   == MaxExtracts \in Nat /\ MaxFailures \in Nat

\* _GENERATED_IDENTITY_FILES, in the order in which they are moved: who the environment
\* belongs to, the endpoint record, and the stamps of the two lock files.
IdentityFiles == <<"runtime", "endpoint", "deps", "tests">>

Actions == {"serve", "test", "repair"}

VARIABLES
    release,        \* VERSION.txt, PACKAGE_METADATA.json and MANIFEST.json
    files,          \* managed files against the manifest: "whole", "changed", or
                    \* "untrusted" if one the preflight itself relies on has changed
    stray,          \* is there a file in a protected place that the manifest does not list
    packages,       \* releases with a wheel in packages/
    identity,       \* per identity file: the release that it names, or Nothing
    venv,           \* .venv: its interpreter, its pip, and the release that its locked
                    \* packages, its test packages and the application are of
    stage,          \* where the launch is, "idle" if there is none
    action,         \* the action of the launch
    pending,        \* what the pass that moves files aside has still to move
    moved,          \* what it has moved
    loose,          \* files moved aside that no retirement receipt lists yet
    extracts, failures,
    cutOff          \* has a launch ended early since the last full installation

release_vars == <<release, files, stray, packages>>
backup_vars  == <<pending, moved, loose>>
rest_vars    == <<extracts, failures, cutOff>>
vars == <<release_vars, identity, venv, stage, action, backup_vars, rest_vars>>

NoEnvironment ==
    [python |-> "none", pip |-> FALSE, deps |-> Nothing, tests |-> Nothing, app |-> Nothing]

-----------------------------------------------------------------------------
(* What happens to the installation from outside. *)

\* A release is extracted over what is there.  Files that it does not have stay.
Extract(r) ==
    /\ stage = "idle" /\ extracts < MaxExtracts
    /\ release' = r /\ files' = "whole" /\ packages' = packages \union {r}
    /\ stray' \in {stray, TRUE}
    /\ extracts' = extracts + 1
    /\ UNCHANGED <<identity, venv, stage, action, backup_vars, failures, cutOff>>

\* Somebody changes a managed file.
Change ==
    /\ stage = "idle" /\ files = "whole"
    /\ files' \in {"changed", "untrusted"}
    /\ UNCHANGED <<release, stray, packages, identity, venv, stage, action, backup_vars, rest_vars>>

-----------------------------------------------------------------------------
(* launch.bat: preflight and gate. *)

Launch(a) ==
    /\ stage = "idle"
    /\ stage' = "preflight" /\ action' = a
    /\ UNCHANGED <<release_vars, identity, venv, backup_vars, rest_vars>>

\* The launch ends with an exit code before anything of it runs.
Refused ==
    /\ \/ stage = "preflight" /\ files = "untrusted"
       \/ stage = "gate" /\ ~(files = "whole" /\ ~stray /\ packages = {release})
    /\ stage' = "idle"
    /\ UNCHANGED <<release_vars, identity, venv, action, backup_vars, rest_vars>>

\* verify_recovery_authority holds: look for wheels of other releases.
Preflight ==
    /\ stage = "preflight" /\ files # "untrusted"
    /\ pending' = {<<"wheel", r>> : r \in packages \ {release}}
    /\ stage' = IF pending' = {} THEN "gate" ELSE "wheels"
    /\ UNCHANGED <<release_vars, identity, venv, action, moved, loose, rest_vars>>

MoveWheel ==
    /\ stage = "wheels" /\ pending # {}
    /\ LET wheel == CHOOSE w \in pending : \A v \in pending : w[2] <= v[2]
       IN  /\ packages' = packages \ {wheel[2]}
           /\ pending' = pending \ {wheel}
           /\ moved' = moved \union {wheel} /\ loose' = loose \union {wheel}
    /\ UNCHANGED <<release, files, stray, identity, venv, stage, action, rest_vars>>

\* The receipt is written when all files of the pass are moved.
WriteReceipt ==
    /\ stage \in {"wheels", "identity"} /\ pending = {}
    /\ loose' = loose \ moved /\ moved' = {}
    /\ stage' = IF stage = "wheels" THEN "gate" ELSE "environment"
    /\ UNCHANGED <<release_vars, identity, venv, action, pending, rest_vars>>

\* verify_release finds nothing; bootstrap.py begins.
Gate ==
    /\ stage = "gate" /\ files = "whole" /\ ~stray /\ packages = {release}
    /\ stage' = "retire"
    /\ UNCHANGED <<release_vars, identity, venv, action, backup_vars, rest_vars>>

-----------------------------------------------------------------------------
(* bootstrap.py: retire_stale_generated_identity. *)

\* Mutant of StaleIdentity: the stamp of the test packages is not one of the files.
StaleIdentityButTests == {f \in {"runtime", "endpoint", "deps"} : identity[f] # Nothing}

StaleIdentity == {f \in ToSet(IdentityFiles) : identity[f] # Nothing}

\* Nothing is retired unless the runtime record is there and of another release.
Retire ==
    /\ stage = "retire"
    /\ IF identity["runtime"] \in {Nothing, release}
       THEN stage' = "environment" /\ UNCHANGED pending
       ELSE stage' = "identity" /\ pending' = StaleIdentity
    /\ UNCHANGED <<release_vars, identity, venv, action, moved, loose, rest_vars>>

MoveIdentity ==
    /\ stage = "identity" /\ pending # {}
    /\ LET file == SelectSeq(IdentityFiles, LAMBDA f : f \in pending)[1]
           copy == <<file, identity[file]>>
       IN  /\ identity' = [identity EXCEPT ![file] = Nothing]
           /\ pending' = pending \ {file}
           /\ moved' = moved \union {copy} /\ loose' = loose \union {copy}
    /\ UNCHANGED <<release_vars, venv, stage, action, rest_vars>>

-----------------------------------------------------------------------------
(* bootstrap.py: ensure_environment. *)

EnvStep(from, to) ==
    /\ stage = from /\ stage' = to
    /\ UNCHANGED <<release_vars, action, backup_vars, extracts, failures>>

\* Mutant of Prepare: --repair is not passed on.
PrepareOnly ==
    /\ EnvStep("environment", IF venv.python = "bad" THEN "remove"
                              ELSE IF venv.python = "none" THEN "create" ELSE "decide")
    /\ UNCHANGED <<identity, venv, cutOff>>

\* The environment is removed for a repair, or if its interpreter fails the probe.
Prepare ==
    /\ EnvStep("environment",
               IF (action = "repair" /\ venv # NoEnvironment) \/ venv.python = "bad" THEN "remove"
               ELSE IF venv.python = "none" THEN "create" ELSE "decide")
    /\ UNCHANGED <<identity, venv, cutOff>>

RemoveTree ==
    /\ EnvStep("remove", "create")
    /\ venv' = NoEnvironment
    /\ UNCHANGED <<identity, cutOff>>

\* EnvBuilder(with_pip=True, clear=False): what is there besides stays.
Create ==
    /\ EnvStep("create", "decide")
    /\ venv' = [venv EXCEPT !.python = "good", !.pip = TRUE]
    /\ UNCHANGED <<identity, cutOff>>

\* Mutant of MayBeValid: the application is not asked for its version.
MayImport == venv.deps # Nothing

\* What environment_valid may say: it imports packages, and asks the application only for
\* its version.
MayBeValid  == venv.app = release /\ venv.deps # Nothing
MustBeValid == venv.app = release /\ venv.deps = release

Stamp == IF action = "test" THEN "tests" ELSE "deps"

\* The stamp is that of this release's lock files and the environment passes the check.
Reuse ==
    /\ EnvStep("decide", "command")
    /\ identity[Stamp] = release /\ MayBeValid
    /\ UNCHANGED <<identity, venv, cutOff>>

\* Otherwise the stamp is removed before anything is installed.
Reinstall ==
    /\ EnvStep("decide", "pip deps")
    /\ identity[Stamp] # release \/ ~MustBeValid
    /\ identity' = [identity EXCEPT ![Stamp] = Nothing]
    /\ UNCHANGED <<venv, cutOff>>

\* An environment without pip cannot be installed into.
NoPip ==
    /\ EnvStep("pip deps", "idle") /\ ~venv.pip
    /\ UNCHANGED <<identity, venv, cutOff>>

PipDeps ==
    /\ EnvStep("pip deps", IF action = "test" THEN "pip tests" ELSE "pip app") /\ venv.pip
    /\ venv' = [venv EXCEPT !.deps = release]
    /\ UNCHANGED <<identity, cutOff>>

PipTests ==
    /\ EnvStep("pip tests", "pip app")
    /\ venv' = [venv EXCEPT !.tests = release]
    /\ UNCHANGED <<identity, cutOff>>

\* The wheel is installed again, and environment_valid has to agree.
PipApp ==
    /\ EnvStep("pip app", "stamp")
    /\ venv' = [venv EXCEPT !.app = release]
    /\ UNCHANGED <<identity, cutOff>>

WriteStamp ==
    /\ EnvStep("stamp", "runtime")
    /\ identity' = [identity EXCEPT ![Stamp] = release]
    /\ UNCHANGED <<venv, cutOff>>

WriteRuntime ==
    /\ EnvStep("runtime", "command")
    /\ identity' = [identity EXCEPT !["runtime"] = release]
    /\ cutOff' = FALSE
    /\ UNCHANGED venv

\* The program runs, and ends; serve leaves its endpoint record.
Run ==
    /\ EnvStep("command", "idle")
    /\ identity' = IF action = "serve" THEN [identity EXCEPT !["endpoint"] = release] ELSE identity
    /\ UNCHANGED <<venv, cutOff>>

-----------------------------------------------------------------------------
(* An exception, or the end of the process, in the middle of a step. *)

Left(whole, current) == IF whole = current THEN {whole} ELSE {whole, Mixed}

\* What a step that changes the environment may leave.
Remains ==
    \/ UNCHANGED venv
    \/ /\ stage = "remove"
       /\ venv' \in [python : {venv.python, "bad", "none"}, pip : {venv.pip, FALSE},
                     deps   : {Nothing} \union Left(venv.deps, Nothing),
                     tests  : {Nothing} \union Left(venv.tests, Nothing),
                     app    : {venv.app, Nothing}]
    \/ stage = "create" /\ \E p \in {"bad", "good"} : venv' = [venv EXCEPT !.python = p, !.pip = FALSE]
    \/ stage = "pip deps"  /\ \E d \in Left(venv.deps, release)  : venv' = [venv EXCEPT !.deps = d]
    \/ stage = "pip tests" /\ \E t \in Left(venv.tests, release) : venv' = [venv EXCEPT !.tests = t]
    \/ stage = "pip app"   /\ venv' = [venv EXCEPT !.app = Nothing]

\* What had been moved by then stays in the backup, without a receipt.
CutOff ==
    /\ stage # "idle" /\ failures < MaxFailures
    /\ Remains
    /\ stage' = "idle" /\ pending' = {} /\ moved' = {}
    /\ failures' = failures + 1 /\ cutOff' = TRUE
    /\ UNCHANGED <<release_vars, identity, action, loose, extracts>>

-----------------------------------------------------------------------------
\* The first release, freshly extracted.
Init ==
    /\ release \in Releases /\ files = "whole" /\ stray = FALSE /\ packages = {release}
    /\ identity = [f \in ToSet(IdentityFiles) |-> Nothing]
    /\ venv = NoEnvironment
    /\ stage = "idle" /\ action \in Actions
    /\ pending = {} /\ moved = {} /\ loose = {}
    /\ extracts = 0 /\ failures = 0 /\ cutOff = FALSE

Bootstrap ==
    \/ Retire \/ MoveIdentity \/ Prepare \/ RemoveTree \/ Create \/ Reuse \/ Reinstall
    \/ NoPip \/ PipDeps \/ PipTests \/ PipApp \/ WriteStamp \/ WriteRuntime \/ Run

Launcher == Refused \/ Preflight \/ MoveWheel \/ WriteReceipt \/ Gate \/ Bootstrap

Next ==
    \/ \E r \in Releases : Extract(r)
    \/ Change
    \/ \E a \in Actions : Launch(a)
    \/ Launcher
    \/ CutOff

Spec == Init /\ [][Next]_vars

\* A launch that began goes on; nobody has to begin one.
FairSpec == Spec /\ WF_vars(Launcher)

-----------------------------------------------------------------------------
\* What an environment may be.
Environments ==
    LET Of == Releases \union {Nothing}
    IN  [python : {"none", "bad", "good"}, pip : BOOLEAN, deps : Of \union {Mixed},
         tests : Of \union {Mixed}, app : Of]

\* Every variable holds what the files it stands for may say.
TypeOK ==
    /\ release \in Releases /\ packages \subseteq Releases
    /\ files \in {"whole", "changed", "untrusted"} /\ stray \in BOOLEAN
    /\ identity \in [ToSet(IdentityFiles) -> Releases \union {Nothing}]
    /\ venv \in Environments
    /\ stage \in {"idle", "preflight", "wheels", "gate", "retire", "identity", "environment",
                  "remove", "create", "decide", "pip deps", "pip tests", "pip app", "stamp",
                  "runtime", "command"}
    /\ action \in Actions
    /\ extracts \in Nat /\ failures \in Nat /\ cutOff \in BOOLEAN

\* The program only ever runs from files that match the manifest and as the release that
\* is installed, and with the packages that release locks unless a launch was cut off
\* since they were installed.  The stamp alone does not say so: it is the order of
\* removing it, installing, checking and writing it that does.
CommandRunsTheRelease ==
    stage = "command" =>
        /\ files = "whole" /\ ~stray /\ packages = {release}
        /\ venv.python = "good" /\ venv.app = release
        /\ venv.deps = release \/ cutOff

\* As long as no launch is cut off, an overlay upgrade leaves no identity file of an
\* earlier release to the program that runs, and each file moved aside is in a receipt.
RetirementIsComplete ==
    stage = "command" /\ failures = 0 =>
        /\ \A f \in DOMAIN identity : identity[f] \in {Nothing, release}
        /\ loose = {}

\* A repair needs nothing of what it finds: whatever cut-off launches have left, repeated
\* repairs of an intact release end in a complete environment.
RepairRecovers ==
    /\ <>[](files = "whole" /\ ~stray)
    /\ []<><<Launch("repair")>>_vars
    => []<>(stage = "command" /\ venv.pip /\ venv.deps = release /\ venv.app = release)
=============================================================================
