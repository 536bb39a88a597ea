------------------------ MODULE Installation_proofs ------------------------
(***************************************************************************)
(* Theorems about Installation, for any releases, any number of            *)
(* extractions and any number of launches that are cut off.                *)
(*                                                                         *)
(* The inductive invariant has three parts: the types, what the order of   *)
(* the gate, the installation and the checks establishes step by step, and *)
(* what retirement keeps up while no launch is cut off.  One lemma per     *)
(* part says that every step keeps it.                                     *)
(***************************************************************************)
EXTENDS Installation, TLAPS

-----------------------------------------------------------------------------
(* The inductive invariant. *)

\* The stages of ensure_environment and of the program.
Prepared == {"decide", "pip deps", "pip tests", "pip app", "stamp", "runtime", "command"}

\* The stages behind the retirement of identity files.
Cleared == {"environment", "remove", "create"} \union Prepared

\* What a stage may rely on: the gate, the probe of the interpreter, the installation.
StagesOK ==
    /\ stage \in {"retire", "identity"} \union Cleared =>
           files = "whole" /\ ~stray /\ packages = {release}
    /\ stage \in Prepared => venv.python = "good"
    /\ stage \in {"pip tests", "pip app", "stamp", "runtime"} => venv.deps = release
    /\ stage \in {"stamp", "runtime", "command"} => venv.app = release

\* Packages and application are installed together unless something is cut off between.
TogetherOK ==
    /\ ~cutOff /\ stage \notin {"pip tests", "pip app"} => venv.deps = venv.app
    /\ stage = "command" => venv.deps = release \/ cutOff

\* What is moved aside is known to the pass that moves it.
PassOK ==
    /\ stage \notin {"wheels", "identity"} => pending = {} /\ moved = {}
    /\ failures = 0 => loose = moved

\* Without a cut-off launch the identity files agree with the runtime record, except while
\* they are moved aside and until the record is written again.
AgreedOK ==
    failures = 0 =>
        /\ stage \notin {"identity", "runtime"} =>
               \A f \in DOMAIN identity : identity[f] \in {Nothing, identity["runtime"]}
        /\ stage \in Cleared => \A f \in DOMAIN identity : identity[f] \in {Nothing, release}
        /\ stage = "identity" => \A f \in DOMAIN identity \ pending : identity[f] = Nothing
        /\ stage = "command" => identity["runtime"] = release

IInv == TypeOK /\ StagesOK /\ TogetherOK /\ PassOK /\ AgreedOK

-----------------------------------------------------------------------------
(* Lemmas about the operators. *)

\* The names of the identity files.
LEMMA FileNames == ToSet(IdentityFiles) = {"runtime", "endpoint", "deps", "tests"}
  BY DEF ToSet, IdentityFiles

\* What counters do.
LEMMA Counters ==
  ASSUME TypeOK
  PROVE  /\ \A r \in Releases : Extract(r) => extracts' \in Nat
         /\ CutOff => failures' \in Nat /\ failures' # 0
  <1>1. extracts \in Nat /\ failures \in Nat
    BY DEF TypeOK
  <1>2. ASSUME NEW r \in Releases, Extract(r) PROVE extracts' \in Nat
    BY <1>1, <1>2 DEF Extract
  <1>3. ASSUME CutOff PROVE failures' \in Nat /\ failures' # 0
    BY <1>1, <1>3 DEF CutOff
  <1> QED BY <1>2, <1>3

\* The environment before there is one, and whatever a step that is cut off leaves.
LEMMA NoEnvironmentIsOne == NoEnvironment \in Environments
  BY DEF NoEnvironment, Environments

LEMMA WhatRemains == ASSUME TypeOK, Remains PROVE venv' \in Environments
  <1> USE DEF TypeOK, Environments, Left
  <1>1. CASE UNCHANGED venv
    BY <1>1
  <1>2. CASE stage = "remove"
    BY <1>2 DEF Remains
  <1>3. CASE stage = "create"
    BY <1>3 DEF Remains
  <1>4. CASE stage = "pip deps"
    BY <1>4 DEF Remains
  <1>5. CASE stage = "pip tests"
    BY <1>5 DEF Remains
  <1>6. CASE stage = "pip app"
    BY <1>6 DEF Remains
  <1> QED BY <1>1, <1>2, <1>3, <1>4, <1>5, <1>6 DEF Remains

-----------------------------------------------------------------------------
(* Each step preserves each part of the invariant. *)

\* Types are preserved.
LEMMA TypeStep == ASSUME TypeOK, [Next]_vars PROVE TypeOK'
  <1> USE DEF TypeOK, Actions, EnvStep, release_vars, backup_vars, rest_vars
  <1>1. CASE UNCHANGED vars
    BY <1>1, FileNames DEF vars
  <1>2. ASSUME NEW r \in Releases, Extract(r) PROVE TypeOK'
    BY <1>2, Counters DEF Extract
  <1>3. ASSUME NEW a \in Actions, Launch(a) PROVE TypeOK'
    BY <1>3, FileNames DEF Launch
  <1>4. CASE Change
    BY <1>4, FileNames DEF Change
  <1>5. CASE Refused
    BY <1>5, FileNames DEF Refused
  <1>6. CASE Preflight
    BY <1>6, FileNames DEF Preflight
  <1>7. CASE MoveWheel
    BY <1>7, FileNames DEF MoveWheel
  <1>8. CASE WriteReceipt
    BY <1>8, FileNames DEF WriteReceipt
  <1>9. CASE Gate
    BY <1>9, FileNames DEF Gate
  <1>10. CASE Retire
    BY <1>10, FileNames DEF Retire
  <1>11. CASE MoveIdentity
    <2> DEFINE file == SelectSeq(IdentityFiles, LAMBDA f : f \in pending)[1]
    <2>1. identity' = [identity EXCEPT ![file] = Nothing]
      BY <1>11 DEF MoveIdentity
    <2>2. identity' \in [ToSet(IdentityFiles) -> Releases \union {Nothing}]
      <3> HIDE DEF file
      <3> QED BY <2>1
    <2> QED BY <1>11, <2>2 DEF MoveIdentity
  <1>12. CASE Prepare
    BY <1>12, FileNames DEF Prepare
  <1>13. CASE RemoveTree
    BY <1>13, NoEnvironmentIsOne DEF RemoveTree
  <1>14. CASE Create
    BY <1>14 DEF Create, Environments
  <1>15. CASE Reuse
    BY <1>15, FileNames DEF Reuse
  <1>16. CASE Reinstall
    BY <1>16, FileNames DEF Reinstall, Stamp
  <1>17. CASE NoPip
    BY <1>17, FileNames DEF NoPip
  <1>18. CASE PipDeps
    BY <1>18 DEF PipDeps, Environments
  <1>19. CASE PipTests
    BY <1>19 DEF PipTests, Environments
  <1>20. CASE PipApp
    BY <1>20 DEF PipApp, Environments
  <1>21. CASE WriteStamp
    BY <1>21, FileNames DEF WriteStamp, Stamp
  <1>22. CASE WriteRuntime
    BY <1>22, FileNames DEF WriteRuntime
  <1>23. CASE Run
    BY <1>23, FileNames DEF Run
  <1>24. CASE CutOff
    BY <1>24, WhatRemains, Counters DEF CutOff
  <1> QED
    BY <1>1, <1>2, <1>3, <1>4, <1>5, <1>6, <1>7, <1>8, <1>9, <1>10, <1>11, <1>12,
       <1>13, <1>14, <1>15, <1>16, <1>17, <1>18, <1>19, <1>20, <1>21, <1>22, <1>23, <1>24
    DEF Next, Launcher, Bootstrap

\* What the stages rely on is preserved.
LEMMA StagesStep == ASSUME TypeOK, StagesOK, [Next]_vars PROVE StagesOK'
  <1> USE DEF StagesOK, Prepared, Cleared, EnvStep, release_vars, backup_vars, rest_vars
  <1>1. CASE UNCHANGED vars
    BY <1>1 DEF vars
  <1>2. ASSUME NEW r \in Releases, Extract(r) PROVE StagesOK'
    BY <1>2 DEF Extract
  <1>3. ASSUME NEW a \in Actions, Launch(a) PROVE StagesOK'
    BY <1>3 DEF Launch
  <1>4. CASE Change
    BY <1>4 DEF Change
  <1>5. CASE Refused
    BY <1>5 DEF Refused
  <1>6. CASE Preflight
    BY <1>6 DEF Preflight
  <1>7. CASE MoveWheel
    BY <1>7 DEF MoveWheel
  <1>8. CASE WriteReceipt
    BY <1>8 DEF WriteReceipt
  <1>9. CASE Gate
    BY <1>9 DEF Gate
  <1>10. CASE Retire
    BY <1>10 DEF Retire
  <1>11. CASE MoveIdentity
    BY <1>11 DEF MoveIdentity
  <1>12. CASE Prepare
    BY <1>12 DEF Prepare, TypeOK, Environments
  <1>13. CASE RemoveTree
    BY <1>13 DEF RemoveTree
  <1>14. CASE Create
    BY <1>14 DEF Create, TypeOK, Environments
  <1>15. CASE Reuse
    BY <1>15 DEF Reuse, MayBeValid
  <1>16. CASE Reinstall
    BY <1>16 DEF Reinstall
  <1>17. CASE NoPip
    BY <1>17 DEF NoPip
  <1>18. CASE PipDeps
    BY <1>18 DEF PipDeps, TypeOK, Environments
  <1>19. CASE PipTests
    BY <1>19 DEF PipTests, TypeOK, Environments
  <1>20. CASE PipApp
    BY <1>20 DEF PipApp, TypeOK, Environments
  <1>21. CASE WriteStamp
    BY <1>21 DEF WriteStamp
  <1>22. CASE WriteRuntime
    BY <1>22 DEF WriteRuntime
  <1>23. CASE Run
    BY <1>23 DEF Run
  <1>24. CASE CutOff
    BY <1>24 DEF CutOff
  <1> QED
    BY <1>1, <1>2, <1>3, <1>4, <1>5, <1>6, <1>7, <1>8, <1>9, <1>10, <1>11, <1>12,
       <1>13, <1>14, <1>15, <1>16, <1>17, <1>18, <1>19, <1>20, <1>21, <1>22, <1>23, <1>24
    DEF Next, Launcher, Bootstrap

\* Packages and application stay together.
LEMMA TogetherStep == ASSUME TypeOK, StagesOK, TogetherOK, [Next]_vars PROVE TogetherOK'
  <1> USE DEF StagesOK, TogetherOK, Prepared, Cleared, EnvStep, release_vars, backup_vars, rest_vars
  <1>1. CASE UNCHANGED vars
    BY <1>1 DEF vars
  <1>2. ASSUME NEW r \in Releases, Extract(r) PROVE TogetherOK'
    BY <1>2 DEF Extract
  <1>3. ASSUME NEW a \in Actions, Launch(a) PROVE TogetherOK'
    BY <1>3 DEF Launch
  <1>4. CASE Change
    BY <1>4 DEF Change
  <1>5. CASE Refused
    BY <1>5 DEF Refused
  <1>6. CASE Preflight
    BY <1>6 DEF Preflight
  <1>7. CASE MoveWheel
    BY <1>7 DEF MoveWheel
  <1>8. CASE WriteReceipt
    BY <1>8 DEF WriteReceipt
  <1>9. CASE Gate
    BY <1>9 DEF Gate
  <1>10. CASE Retire
    BY <1>10 DEF Retire
  <1>11. CASE MoveIdentity
    BY <1>11 DEF MoveIdentity
  <1>12. CASE Prepare
    BY <1>12 DEF Prepare
  <1>13. CASE RemoveTree
    BY <1>13 DEF RemoveTree, NoEnvironment
  <1>14. CASE Create
    BY <1>14 DEF Create, TypeOK, Environments
  <1>15. CASE Reuse
    BY <1>15 DEF Reuse, MayBeValid
  <1>16. CASE Reinstall
    BY <1>16 DEF Reinstall
  <1>17. CASE NoPip
    BY <1>17 DEF NoPip
  <1>18. CASE PipDeps
    BY <1>18 DEF PipDeps, TypeOK, Environments
  <1>19. CASE PipTests
    BY <1>19 DEF PipTests, TypeOK, Environments
  <1>20. CASE PipApp
    BY <1>20 DEF PipApp, TypeOK, Environments
  <1>21. CASE WriteStamp
    BY <1>21 DEF WriteStamp
  <1>22. CASE WriteRuntime
    BY <1>22 DEF WriteRuntime
  <1>23. CASE Run
    BY <1>23 DEF Run
  <1>24. CASE CutOff
    BY <1>24 DEF CutOff
  <1> QED
    BY <1>1, <1>2, <1>3, <1>4, <1>5, <1>6, <1>7, <1>8, <1>9, <1>10, <1>11, <1>12,
       <1>13, <1>14, <1>15, <1>16, <1>17, <1>18, <1>19, <1>20, <1>21, <1>22, <1>23, <1>24
    DEF Next, Launcher, Bootstrap

\* What is moved aside stays known.
LEMMA PassStep == ASSUME TypeOK, PassOK, [Next]_vars PROVE PassOK'
  <1> USE DEF PassOK, EnvStep, release_vars, backup_vars, rest_vars
  <1>1. CASE UNCHANGED vars
    BY <1>1 DEF vars
  <1>2. ASSUME NEW r \in Releases, Extract(r) PROVE PassOK'
    BY <1>2 DEF Extract
  <1>3. ASSUME NEW a \in Actions, Launch(a) PROVE PassOK'
    BY <1>3 DEF Launch
  <1>4. CASE Change
    BY <1>4 DEF Change
  <1>5. CASE Refused
    BY <1>5 DEF Refused
  <1>6. CASE Preflight
    BY <1>6 DEF Preflight
  <1>7. CASE MoveWheel
    BY <1>7 DEF MoveWheel
  <1>8. CASE WriteReceipt
    BY <1>8 DEF WriteReceipt
  <1>9. CASE Gate
    BY <1>9 DEF Gate
  <1>10. CASE Retire
    BY <1>10 DEF Retire
  <1>11. CASE MoveIdentity
    BY <1>11 DEF MoveIdentity
  <1>12. CASE Prepare
    BY <1>12 DEF Prepare
  <1>13. CASE RemoveTree
    BY <1>13 DEF RemoveTree
  <1>14. CASE Create
    BY <1>14 DEF Create
  <1>15. CASE Reuse
    BY <1>15 DEF Reuse
  <1>16. CASE Reinstall
    BY <1>16 DEF Reinstall
  <1>17. CASE NoPip
    BY <1>17 DEF NoPip
  <1>18. CASE PipDeps
    BY <1>18 DEF PipDeps
  <1>19. CASE PipTests
    BY <1>19 DEF PipTests
  <1>20. CASE PipApp
    BY <1>20 DEF PipApp
  <1>21. CASE WriteStamp
    BY <1>21 DEF WriteStamp
  <1>22. CASE WriteRuntime
    BY <1>22 DEF WriteRuntime
  <1>23. CASE Run
    BY <1>23 DEF Run
  <1>24. CASE CutOff
    BY <1>24, Counters DEF CutOff
  <1> QED
    BY <1>1, <1>2, <1>3, <1>4, <1>5, <1>6, <1>7, <1>8, <1>9, <1>10, <1>11, <1>12,
       <1>13, <1>14, <1>15, <1>16, <1>17, <1>18, <1>19, <1>20, <1>21, <1>22, <1>23, <1>24
    DEF Next, Launcher, Bootstrap

\* The identity files go on to agree.
LEMMA AgreedStep == ASSUME TypeOK, StagesOK, TogetherOK, PassOK, AgreedOK, [Next]_vars PROVE AgreedOK'
  <1> USE DEF TypeOK, AgreedOK, Prepared, Cleared, EnvStep, release_vars, backup_vars, rest_vars
  <1>1. CASE UNCHANGED vars
    BY <1>1, FileNames DEF vars
  <1>2. ASSUME NEW r \in Releases, Extract(r) PROVE AgreedOK'
    BY <1>2, FileNames DEF Extract
  <1>3. ASSUME NEW a \in Actions, Launch(a) PROVE AgreedOK'
    BY <1>3, FileNames DEF Launch
  <1>4. CASE Change
    BY <1>4, FileNames DEF Change
  <1>5. CASE Refused
    BY <1>5, FileNames DEF Refused
  <1>6. CASE Preflight
    BY <1>6, FileNames DEF Preflight
  <1>7. CASE MoveWheel
    BY <1>7, FileNames DEF MoveWheel
  <1>8. CASE WriteReceipt
    BY <1>8, FileNames DEF WriteReceipt, PassOK
  <1>9. CASE Gate
    BY <1>9, FileNames DEF Gate
  <1>10. CASE Retire
    BY <1>10, FileNames DEF Retire, StaleIdentity
  <1>11. CASE MoveIdentity
    <2> DEFINE file == SelectSeq(IdentityFiles, LAMBDA f : f \in pending)[1]
    <2>1. identity' = [identity EXCEPT ![file] = Nothing] /\ pending' = pending \ {file}
      BY <1>11 DEF MoveIdentity
    <2>2. failures = 0 => \A f \in DOMAIN identity' \ pending' : identity'[f] = Nothing
      <3> HIDE DEF file
      <3> QED BY <1>11, <2>1 DEF MoveIdentity
    <2> QED BY <1>11, <2>2 DEF MoveIdentity
  <1>12. CASE Prepare
    BY <1>12, FileNames DEF Prepare
  <1>13. CASE RemoveTree
    BY <1>13, FileNames DEF RemoveTree
  <1>14. CASE Create
    BY <1>14, FileNames DEF Create
  <1>15. CASE Reuse
    BY <1>15, FileNames DEF Reuse, Stamp
  <1>16. CASE Reinstall
    BY <1>16, FileNames DEF Reinstall, Stamp
  <1>17. CASE NoPip
    BY <1>17, FileNames DEF NoPip
  <1>18. CASE PipDeps
    BY <1>18, FileNames DEF PipDeps
  <1>19. CASE PipTests
    BY <1>19, FileNames DEF PipTests
  <1>20. CASE PipApp
    BY <1>20, FileNames DEF PipApp
  <1>21. CASE WriteStamp
    BY <1>21, FileNames DEF WriteStamp, Stamp
  <1>22. CASE WriteRuntime
    BY <1>22, FileNames DEF WriteRuntime
  <1>23. CASE Run
    BY <1>23, FileNames DEF Run
  <1>24. CASE CutOff
    BY <1>24, Counters DEF CutOff
  <1> QED
    BY <1>1, <1>2, <1>3, <1>4, <1>5, <1>6, <1>7, <1>8, <1>9, <1>10, <1>11, <1>12,
       <1>13, <1>14, <1>15, <1>16, <1>17, <1>18, <1>19, <1>20, <1>21, <1>22, <1>23, <1>24
    DEF Next, Launcher, Bootstrap

-----------------------------------------------------------------------------
(* The theorems. *)

\* The strengthening of the safety properties, for any number of releases, extractions and
\* launches that are cut off.
THEOREM InstallationInvariant == Spec => []IInv
  <1>1. ASSUME Init PROVE IInv
    <2> USE <1>1 DEF Init
    <2>1. TypeOK
      BY NoEnvironmentIsOne DEF TypeOK, Actions
    <2>2. StagesOK /\ TogetherOK /\ PassOK
      BY DEF StagesOK, TogetherOK, PassOK, Prepared, Cleared, NoEnvironment
    <2>3. AgreedOK
      BY FileNames DEF AgreedOK, Prepared, Cleared
    <2> QED BY <2>1, <2>2, <2>3 DEF IInv
  <1>2. IInv /\ [Next]_vars => IInv'
    BY TypeStep, StagesStep, TogetherStep, PassStep, AgreedStep DEF IInv
  <1> QED BY <1>1, <1>2, PTL DEF Spec

\* Every variable of the installation keeps its type.
THEOREM InstallationTypeCorrect == Spec => []TypeOK
  BY InstallationInvariant, PTL DEF IInv

\* What runs is the release that is installed, from files that match its manifest and with
\* the packages it locks, unless a launch was cut off since they were installed.
THEOREM CommandsRunTheRelease == Spec => []CommandRunsTheRelease
  <1>1. IInv => CommandRunsTheRelease
    BY DEF IInv, StagesOK, TogetherOK, Prepared, Cleared, CommandRunsTheRelease
  <1> QED BY <1>1, InstallationInvariant, PTL

\* While no launch is cut off nothing of an earlier release is left to the program, and all
\* that was moved aside is in a receipt.
THEOREM RetirementsComplete == Spec => []RetirementIsComplete
  <1>1. IInv => RetirementIsComplete
    BY DEF IInv, PassOK, AgreedOK, Prepared, Cleared, RetirementIsComplete
  <1> QED BY <1>1, InstallationInvariant, PTL
=============================================================================
