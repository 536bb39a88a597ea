----------------------- MODULE DiagnosticsExport_proofs -----------------------
(***************************************************************************)
(* Theorems about DiagnosticsExport, for every number of threads and       *)
(* processes, every retention, and any number of calls and faults.         *)
(*                                                                         *)
(* The inductive invariant says what a call that is on its way knows, and  *)
(* how often its context was written; then one lemma per action, and the   *)
(* theorems.                                                               *)
(***************************************************************************)
EXTENDS DiagnosticsExport, FiniteSetTheorems, TLAPS

-----------------------------------------------------------------------------
(* The inductive invariant. *)

Points == {"idle", "entered", "dedupe", "add", "context", "lock", "pack", "unlock", "report",
           "list", "sort", "remove", "leave"}

Fingerprints == Failures \union {Support}
Seconds      == 1..MaxSeconds

Export == [of : Fingerprints, second : Seconds, asked : Seconds, order : Nat \ {0}]

Names == Fingerprints \X (0..MaxSeconds)
Files == Export \union {Aged}

Call == [at : Points, of : Fingerprints, second : 0..MaxSeconds, export : BOOLEAN,
         listed : SUBSET Names, todo : SUBSET Files]

TypeOK ==
    /\ call \in [Threads -> Call]
    /\ capturing \in [Processes -> BOOLEAN]
    /\ seen \in [Processes -> SUBSET Fingerprints]
    /\ capsules \in [Failures \X Seconds -> {"none", "capsule-written", "completed", "capsule-only"}]
    /\ written \in [Fingerprints \X Seconds -> Nat]
    /\ lock \in Threads \union {Free}
    /\ made \subseteq Export /\ IsFiniteSet(made)
    /\ exports \subseteq made \union {Aged}
    /\ now \in Seconds /\ calls \in 0..MaxCalls /\ faults \in 0..MaxFaults
    /\ orphaned \in BOOLEAN /\ stuck \subseteq Processes

\* The exports that are newer than one.
Newer(e) == {d \in made : d.order > e.order}

\* Where a call is and what it has: it begins with nothing, and its context has a second
\* for as long as it needs it.
AtOK(t) ==
    /\ call[t].at \in {"entered", "dedupe", "add", "context"} => ~call[t].export /\ call[t].todo = {}
    /\ call[t].at \in {"lock", "pack", "unlock", "report"} => call[t].second \in Seconds
    /\ call[t].at \in {"dedupe", "add", "report"} => call[t].of # Support

\* A call that wrote its context was counted.
CountedOK(t) ==
    call[t].second \in Seconds => written[<<call[t].of, call[t].second>>] >= 1

\* It knows whether there is an export for the capsule it has written.
OutcomeOK(t) ==
    /\ call[t].export => \E e \in made : e.of = call[t].of /\ e.asked = call[t].second
    /\ ~call[t].export /\ call[t].of # Support =>
          \A e \in made : e.of = call[t].of /\ e.asked = call[t].second =>
              written[<<e.of, e.asked>>] > 1

\* What retention is about to remove is aged or has enough newer ones.
TodoOK(t) == \A e \in call[t].todo : \/ e = Aged
                                     \/ e \in made /\ Cardinality(Newer(e)) >= Keep

\* Two calls that have written the context of the same name have both been counted.
PairOK(t, u) ==
    t # u /\ call[t].second \in Seconds /\ call[u].second = call[t].second
          /\ call[u].of = call[t].of =>
        written[<<call[t].of, call[t].second>>] > 1

\* An export is of a context that was counted.
MadeOK(e) ==
    /\ written[<<e.of, e.asked>>] >= 1
    /\ e.order <= Cardinality(made)

\* A capsule that was written once is of no call any more when it says "capsule-only".
CapsuleOK(f, s) ==
    /\ capsules[<<f, s>>] = "completed" => \E e \in made : e.of = f /\ e.asked = s
    /\ capsules[<<f, s>>] = "capsule-only" /\ written[<<f, s>>] = 1 =>
          /\ \A e \in made : ~(e.of = f /\ e.asked = s)
          /\ \A t \in Threads : ~(call[t].of = f /\ call[t].second = s)

Calls    == \A t \in Threads : AtOK(t)
Counts   == /\ \A t \in Threads : CountedOK(t) /\ OutcomeOK(t) /\ TodoOK(t)
            /\ \A t, u \in Threads : PairOK(t, u)
            /\ \A e \in made : MadeOK(e)
            /\ \A f \in Failures, s \in Seconds : CapsuleOK(f, s)

IInv == TypeOK /\ GuardsHaveHolders /\ Calls /\ Counts /\ NewestAreKept

-----------------------------------------------------------------------------
(* What the steps have in common. *)

USE ThreadsAssumption, FailuresAssumption, NumbersAssumption DEF Fingerprints, Seconds

LEMMA NoCallType ==
  /\ NoCall \in Call /\ NoCall.at = "idle" /\ NoCall.of = Support /\ NoCall.second = 0
  /\ NoCall.export = FALSE /\ NoCall.todo = {}
  BY DEF NoCall, Call, Points

\* The step of one call leaves the others.
Alone(t) == /\ call' \in [Threads -> Call]
            /\ \A u \in Threads \ {t} : call'[u] = call[u]

\* A call goes on with the same context...
Same(t) == /\ call'[t].of = call[t].of /\ call'[t].second = call[t].second
           /\ call'[t].export = call[t].export
           /\ call'[t].todo = call[t].todo

LEMMA Advance ==
  ASSUME TypeOK, NEW t \in Threads, NEW next \in Call, call' = [call EXCEPT ![t] = next]
  PROVE  Alone(t) /\ call'[t] = next
  BY DEF TypeOK, Alone

LEMMA Moved ==
  ASSUME NEW r \in Call, NEW there \in Points
  PROVE  LET next == [r EXCEPT !.at = there]
         IN  /\ next \in Call /\ next.at = there /\ next.of = r.of /\ next.second = r.second
             /\ next.export = r.export /\ next.todo = r.todo
  BY DEF Call

LEMMA AdvanceTo ==
  ASSUME TypeOK, NEW t \in Threads, NEW there \in Points,
         call' = [call EXCEPT ![t] = [call[t] EXCEPT !.at = there]]
  PROVE  Alone(t) /\ Same(t) /\ call'[t].at = there
<1> DEFINE next == [call[t] EXCEPT !.at = there]
<1>1. /\ next \in Call /\ next.at = there /\ next.of = call[t].of /\ next.second = call[t].second
      /\ next.export = call[t].export /\ next.todo = call[t].todo
  BY Moved DEF TypeOK
<1> HIDE DEF next
<1>2. Alone(t) /\ call'[t] = next
  BY <1>1, Advance DEF next
<1> QED
  BY <1>1, <1>2 DEF Same

\* ... or with what is left of it, or with none; the archives and capsules are not touched.
Quiet(t) ==
    \/ /\ call'[t].of = call[t].of /\ call'[t].second = call[t].second
       /\ call'[t].export = call[t].export \/ (~call'[t].export /\ call[t].of = Support)
       /\ call'[t].todo \subseteq call[t].todo \/ TodoOK(t)'
    \/ call'[t].second = 0 /\ ~call'[t].export /\ call'[t].todo = {}

LEMMA QuietStep ==
  ASSUME IInv, call' \in [Threads -> Call], UNCHANGED <<capsules, written, made>>,
         \A t \in Threads : Quiet(t)
  PROVE  Counts'
<1>1. ASSUME NEW t \in Threads PROVE CountedOK(t)' /\ OutcomeOK(t)' /\ TodoOK(t)'
  <2>1. CountedOK(t) /\ OutcomeOK(t) /\ TodoOK(t) /\ Quiet(t)
    BY DEF IInv, Counts
  <2>2. CountedOK(t)'
    BY <2>1 DEF CountedOK, Quiet
  <2>3. OutcomeOK(t)'
    <3>1. \A e \in made : e.asked # 0
      BY DEF IInv, TypeOK, Export
    <3> QED
      BY <2>1, <3>1 DEF OutcomeOK, Quiet
  <2>4. CASE call'[t].todo \subseteq call[t].todo
    <3>1. \A e : Newer(e)' = Newer(e)
      BY DEF Newer
    <3> QED
      BY <2>1, <2>2, <2>3, <2>4, <3>1, Zenon DEF TodoOK
  <2>5. CASE TodoOK(t)'
    BY <2>2, <2>3, <2>5
  <2> QED
    BY <2>1, <2>4, <2>5 DEF Quiet
<1>2. ASSUME NEW t \in Threads, NEW u \in Threads PROVE PairOK(t, u)'
  BY DEF IInv, Counts, PairOK, Quiet
<1>3. ASSUME NEW e \in made' PROVE MadeOK(e)'
  BY DEF IInv, Counts, MadeOK
<1>4. ASSUME NEW f \in Failures, NEW s \in Seconds PROVE CapsuleOK(f, s)'
  BY DEF IInv, Counts, CapsuleOK, Quiet
<1> QED
  BY <1>1, <1>2, <1>3, <1>4 DEF Counts

\* The step of one call that goes on.
LEMMA GoesOn ==
  ASSUME IInv, NEW t \in Threads, Alone(t), Quiet(t), UNCHANGED <<capsules, written, made>>
  PROVE  Counts'
<1>1. \A u \in Threads : Quiet(u)
  BY DEF Alone, Quiet
<1> QED
  BY <1>1, QuietStep DEF Alone

\* A step of a call that takes no flag and no lock, and gives none back, leaves their holders.
LEMMA GuardsStay ==
  ASSUME GuardsHaveHolders, NEW t \in Threads, Alone(t), NEW e,
         call[t].at \notin {"idle", "entered"}, call'[t].at = e, e \notin {"idle", "entered"},
         e \in {"pack", "unlock"} <=> call[t].at \in {"pack", "unlock"},
         UNCHANGED <<capturing, lock, orphaned, stuck>>
  PROVE  GuardsHaveHolders'
<1>1. Exporting' = Exporting
  BY DEF Exporting, Alone
<1>2. ASSUME NEW p \in Processes, capturing[p]
      PROVE  \/ \E u \in Threads : ProcessOf[u] = p /\ call'[u].at \notin {"idle", "entered"}
             \/ p \in stuck
  <2>1. CASE p \in stuck
    BY <2>1
  <2>2. CASE \E u \in Threads : ProcessOf[u] = p /\ call[u].at \notin {"idle", "entered"}
    BY <2>2 DEF Alone
  <2> QED
    BY <1>2, <2>1, <2>2 DEF GuardsHaveHolders
<1> QED
  BY <1>1, <1>2 DEF GuardsHaveHolders

\* The others stay where they are.
LEMMA OthersStay ==
  ASSUME IInv, NEW t \in Threads, Alone(t), NEW u \in Threads \ {t}
  PROVE  AtOK(u)'
  BY DEF IInv, Calls, Alone, AtOK

LEMMA ExportsStay ==
  ASSUME NewestAreKept, UNCHANGED <<made, exports>>
  PROVE  NewestAreKept'
  BY DEF NewestAreKept

\* The step of one call that makes no export and writes no capsule.
LEMMA QuietCall ==
  ASSUME IInv, NEW t \in Threads, Alone(t), Quiet(t), AtOK(t)',
         UNCHANGED <<capsules, written, made, exports>>,
         TypeOK', GuardsHaveHolders'
  PROVE  IInv'
<1>1. Calls'
  BY OthersStay DEF Calls
<1>2. Counts'
  BY GoesOn
<1>3. NewestAreKept'
  BY ExportsStay DEF IInv
<1> QED
  BY <1>1, <1>2, <1>3 DEF IInv

-----------------------------------------------------------------------------
(* The actions. Those that only move a call: *)

LEMMA SetCapturingStep ==
  ASSUME IInv, NEW t \in Threads, SetCapturing(t)
  PROVE  IInv'
<1>1. /\ call[t].at = "entered" /\ call'[t].at = IF call[t].of = Support THEN "context" ELSE "dedupe"
      /\ Alone(t) /\ Same(t)
      /\ UNCHANGED <<seen, capsules, written, lock, exports, made, bound_vars, left_vars>>
  BY AdvanceTo DEF IInv, SetCapturing, Goes, Points, IsSupport, capsule_vars, export_vars
<1>2. capturing' = [capturing EXCEPT ![ProcessOf[t]] = TRUE] /\ ProcessOf[t] \in Processes
  BY DEF SetCapturing, Processes
<1>3. TypeOK'
  BY <1>1, <1>2 DEF IInv, TypeOK, Alone, bound_vars, left_vars
<1>4. GuardsHaveHolders'
  BY <1>1, <1>2 DEF IInv, TypeOK, GuardsHaveHolders, Exporting, Alone, bound_vars, left_vars
<1>5. AtOK(t)' /\ Quiet(t)
  BY <1>1, <1>2 DEF IInv, Calls, AtOK, IsSupport, Same, Quiet
<1> QED
  BY <1>1, <1>3, <1>4, <1>5, QuietCall

LEMMA DedupeStep ==
  ASSUME IInv, NEW t \in Threads, Dedupe(t)
  PROVE  IInv'
<1>1. /\ call[t].at = "dedupe" /\ call'[t].at \in {"leave", "add"}
      /\ Alone(t) /\ Same(t)
      /\ UNCHANGED <<capturing, seen, capsules, written, lock, exports, made, bound_vars, left_vars>>
  BY AdvanceTo DEF IInv, Dedupe, Goes, Points, process_vars, capsule_vars, export_vars
<1>2. TypeOK'
  BY <1>1 DEF IInv, TypeOK, Alone, bound_vars, left_vars
<1>3. GuardsHaveHolders'
  BY <1>1, GuardsStay DEF IInv, left_vars
<1>4. AtOK(t)' /\ Quiet(t)
  BY <1>1 DEF IInv, Calls, AtOK, Same, Quiet
<1> QED
  BY <1>1, <1>2, <1>3, <1>4, QuietCall

LEMMA AddSeenStep ==
  ASSUME IInv, NEW t \in Threads, AddSeen(t)
  PROVE  IInv'
<1>1. /\ call[t].at = "add" /\ call'[t].at = "context"
      /\ Alone(t) /\ Same(t)
      /\ UNCHANGED <<capturing, capsules, written, lock, exports, made, bound_vars, left_vars>>
  BY AdvanceTo DEF IInv, AddSeen, Goes, Points, capsule_vars, export_vars
<1>2. seen' = [seen EXCEPT ![ProcessOf[t]] = @ \union {call[t].of}] /\ call[t].of \in Fingerprints
  BY DEF IInv, TypeOK, Call, AddSeen
<1>3. TypeOK'
  BY <1>1, <1>2 DEF IInv, TypeOK, Alone, bound_vars, left_vars
<1>4. GuardsHaveHolders'
  BY <1>1, GuardsStay DEF IInv, left_vars
<1>5. AtOK(t)' /\ Quiet(t)
  BY <1>1 DEF IInv, Calls, AtOK, Same, Quiet
<1> QED
  BY <1>1, <1>3, <1>4, <1>5, QuietCall

LEMMA TakeLockStep ==
  ASSUME IInv, NEW t \in Threads, TakeLock(t)
  PROVE  IInv'
<1>1. /\ call[t].at = "lock" /\ call'[t].at = "pack"
      /\ Alone(t) /\ Same(t)
      /\ UNCHANGED <<capturing, seen, capsules, written, exports, made, bound_vars, left_vars>>
  BY AdvanceTo DEF IInv, TakeLock, Goes, Points, process_vars, capsule_vars, export_vars
<1>2. lock = Free /\ lock' = t
  BY DEF TakeLock
<1>3. TypeOK'
  BY <1>1, <1>2 DEF IInv, TypeOK, Alone, bound_vars, left_vars
<1>4. GuardsHaveHolders'
  BY <1>1, <1>2 DEF IInv, TypeOK, GuardsHaveHolders, Exporting, Alone, bound_vars, left_vars
<1>5. AtOK(t)' /\ Quiet(t)
  BY <1>1, <1>2 DEF IInv, Calls, AtOK, IsSupport, Same, Quiet
<1> QED
  BY <1>1, <1>3, <1>4, <1>5, QuietCall

LEMMA PackNothingStep ==
  ASSUME IInv, NEW t \in Threads, PackNothing(t)
  PROVE  IInv'
<1>1. /\ call[t].at = "pack" /\ call'[t].at = "unlock"
      /\ Alone(t) /\ Same(t)
      /\ UNCHANGED <<capturing, seen, capsules, written, lock, exports, made,
                     bound_vars, left_vars>>
  BY AdvanceTo DEF IInv, PackNothing, Goes, Points, process_vars, capsule_vars, export_vars
<1>3. TypeOK'
  BY <1>1 DEF IInv, TypeOK, Alone, bound_vars, left_vars
<1>4. GuardsHaveHolders'
  BY <1>1 DEF IInv, TypeOK, GuardsHaveHolders, Exporting, Alone, bound_vars, left_vars
<1>5. AtOK(t)' /\ Quiet(t)
  BY <1>1 DEF IInv, Calls, AtOK, IsSupport, Same, Quiet
<1> QED
  BY <1>1, <1>3, <1>4, <1>5, QuietCall

\* Of a call that is about to return, and of a support export that has been made, no more is
\* needed than what it is.
NothingLeft(t) == call'[t].second = 0 /\ ~call'[t].export /\ call'[t].todo = {}

LEMMA OutType ==
  ASSUME TypeOK, NEW t \in Threads
  PROVE  /\ Out(t) \in Call /\ Out(t).at = "leave" /\ Out(t).of = call[t].of
         /\ Out(t).second = 0 /\ Out(t).export = FALSE /\ Out(t).todo = {}
<1>1. call[t].of \in Fingerprints /\ "leave" \in Points
  BY DEF TypeOK, Call, Points
<1> DEFINE r == NoCall
           f == call[t].of
<1>2. /\ r \in Call /\ r.second = 0 /\ r.export = FALSE /\ r.todo = {}
      /\ Out(t) = [r EXCEPT !.at = "leave", !.of = f] /\ f \in Fingerprints
  BY <1>1, NoCallType DEF Out
<1> HIDE DEF r, f
<1>3. /\ Out(t) \in Call /\ Out(t).at = "leave" /\ Out(t).of = f
      /\ Out(t).second = 0 /\ Out(t).export = FALSE /\ Out(t).todo = {}
  BY <1>1, <1>2 DEF Call
<1> QED
  BY <1>3 DEF f

\* What comes back from the archive: for a capsule, whether there is an export.
LEMMA BackType ==
  ASSUME TypeOK, NEW t \in Threads
  PROVE  /\ Back(t) \in Call /\ Back(t).at = (IF IsSupport(t) THEN "list" ELSE "report")
         /\ ~IsSupport(t) => /\ Back(t).of = call[t].of /\ Back(t).second = call[t].second
                             /\ Back(t).export = call[t].export /\ Back(t).todo = call[t].todo
         /\ IsSupport(t) => Back(t).second = 0 /\ Back(t).export = FALSE /\ Back(t).todo = {}
<1> DEFINE r == IF IsSupport(t) THEN NoCall ELSE call[t]
           there == IF IsSupport(t) THEN "list" ELSE "report"
<1>1. r \in Call /\ there \in Points /\ Back(t) = [r EXCEPT !.at = there]
  BY NoCallType DEF TypeOK, Points, Back
<1>2. IsSupport(t) => r.second = 0 /\ r.export = FALSE /\ r.todo = {}
  BY NoCallType
<1>3. ~IsSupport(t) => r = call[t]
  OBVIOUS
<1> HIDE DEF r, there
<1>4. /\ Back(t) \in Call /\ Back(t).at = there /\ Back(t).of = r.of /\ Back(t).second = r.second
      /\ Back(t).export = r.export /\ Back(t).todo = r.todo
  BY <1>1, Moved
<1> QED
  BY <1>2, <1>3, <1>4 DEF there

LEMMA NoExportStep ==
  ASSUME IInv, NEW t \in Threads, NoExport(t)
  PROVE  IInv'
<1>1. /\ call[t].at = "lock" /\ call'[t] = Back(t) /\ Alone(t)
      /\ UNCHANGED <<capturing, seen, capsules, written, lock, exports, made, bound_vars, left_vars>>
  BY BackType, Advance DEF IInv, NoExport, Goes, process_vars, capsule_vars, export_vars
<1>2. /\ call'[t].at = IF call[t].of = Support THEN "list" ELSE "report"
      /\ call[t].of # Support => Same(t)
      /\ call[t].of = Support => NothingLeft(t)
  BY <1>1, BackType DEF IInv, IsSupport, Same, NothingLeft
<1>3. TypeOK'
  BY <1>1, <1>2 DEF IInv, TypeOK, Alone, bound_vars, left_vars
<1>4. GuardsHaveHolders'
  BY <1>1, <1>2 DEF IInv, TypeOK, GuardsHaveHolders, Exporting, Alone, left_vars
<1>5. AtOK(t)' /\ Quiet(t)
  BY <1>1, <1>2 DEF IInv, Calls, AtOK, Same, NothingLeft, Quiet
<1> QED
  BY <1>1, <1>3, <1>4, <1>5, QuietCall

LEMMA UnlockStep ==
  ASSUME IInv, NEW t \in Threads, Unlock(t)
  PROVE  IInv'
<1>1. /\ call[t].at = "unlock" /\ call'[t] = Back(t) /\ Alone(t)
      /\ UNCHANGED <<capturing, seen, capsules, written, exports, made, bound_vars, left_vars>>
      /\ lock' = Free
  BY BackType, Advance DEF IInv, Unlock, Goes, process_vars, capsule_vars, export_vars
<1>2. /\ call'[t].at = IF call[t].of = Support THEN "list" ELSE "report"
      /\ call[t].of # Support => Same(t)
      /\ call[t].of = Support => NothingLeft(t)
  BY <1>1, BackType DEF IInv, IsSupport, Same, NothingLeft
<1>3. TypeOK'
  BY <1>1, <1>2 DEF IInv, TypeOK, Alone, bound_vars, left_vars
<1>4. GuardsHaveHolders'
  BY <1>1, <1>2 DEF IInv, TypeOK, GuardsHaveHolders, Exporting, Alone, left_vars
<1>5. AtOK(t)' /\ Quiet(t)
  BY <1>1, <1>2 DEF IInv, Calls, AtOK, Same, NothingLeft, Quiet
<1> QED
  BY <1>1, <1>3, <1>4, <1>5, QuietCall

LEMMA NamesOfExports == ASSUME TypeOK PROVE {Name(e) : e \in exports} \in SUBSET Names
  BY DEF TypeOK, Export, Aged, Name, Names

LEMMA ListStep ==
  ASSUME IInv, NEW t \in Threads, List(t)
  PROVE  IInv'
<1> DEFINE r == call[t]
           names == {Name(e) : e \in exports}
           next == [r EXCEPT !.at = "sort", !.listed = names]
<1>1. names \in SUBSET Names /\ "sort" \in Points /\ r \in Call
  BY NamesOfExports DEF IInv, TypeOK, Points
<1>2. Goes(t, "list", next) /\ UNCHANGED <<capturing, seen, capsules, written,
                                           lock, exports, made, bound_vars, left_vars>>
  BY DEF List, process_vars, capsule_vars, export_vars
<1> HIDE DEF names, r
<1>3. /\ next \in Call /\ next.at = "sort" /\ next.of = r.of
      /\ next.second = r.second /\ next.export = r.export /\ next.todo = r.todo
  BY <1>1 DEF Call
<1> HIDE DEF next
<1>4. call[t].at = "list" /\ call'[t] = next /\ Alone(t)
  BY <1>2, <1>3, Advance DEF IInv, Goes, r
<1>5. TypeOK'
  BY <1>2, <1>3, <1>4 DEF r, IInv, TypeOK, Alone, bound_vars, left_vars
<1>6. GuardsHaveHolders'
  BY <1>2, <1>3, <1>4, GuardsStay DEF IInv, bound_vars, left_vars
<1>7. AtOK(t)' /\ Quiet(t)
  BY <1>2, <1>3, <1>4 DEF r, IInv, Calls, AtOK, IsSupport, Same, Quiet
<1> QED
  BY <1>2, <1>4, <1>5, <1>6, <1>7, QuietCall

\* Retention goes on, or comes to its end.
LEMMA RemovingType ==
  ASSUME TypeOK, NEW t \in Threads, NEW names \in SUBSET Names, NEW todo \in SUBSET Files
  PROVE  LET next == Removing(t, names, todo)
         IN  /\ next \in Call /\ next.at \in {"leave", "remove"} /\ next.todo = todo
             /\ todo = {} => next.second = 0 /\ ~next.export
             /\ todo # {} => /\ next.of = call[t].of /\ next.second = call[t].second
                             /\ next.export = call[t].export
<1>1. CASE todo = {}
  BY <1>1, OutType DEF Removing
<1>2. CASE todo # {}
  <2> DEFINE r == call[t]
             next == [r EXCEPT !.at = "remove", !.listed = names, !.todo = todo]
  <2>1. r \in Call /\ "remove" \in Points /\ Removing(t, names, todo) = next
    BY <1>2 DEF TypeOK, Points, Removing
  <2> HIDE DEF r
  <2>2. /\ next \in Call /\ next.at = "remove" /\ next.of = r.of
        /\ next.second = r.second /\ next.export = r.export /\ next.todo = todo
    BY <2>1 DEF Call
  <2> HIDE DEF next
  <2> QED
    BY <1>2, <2>1, <2>2 DEF r
<1> QED
  BY <1>1, <1>2

LEMMA VanishedStep ==
  ASSUME IInv, NEW t \in Threads, Vanished(t)
  PROVE  IInv'
<1>1. /\ call' = [call EXCEPT ![t] = Out(t)] /\ call[t].at \in {"sort", "remove"}
      /\ UNCHANGED <<capturing, seen, capsules, written, lock, exports, made, bound_vars, left_vars>>
  BY DEF Vanished, process_vars, capsule_vars, export_vars, left_vars
<1>2. call'[t] = Out(t) /\ call'[t].at = "leave" /\ Alone(t)
  BY <1>1, OutType, Advance DEF IInv
<1>3. TypeOK'
  BY <1>1, <1>2 DEF IInv, TypeOK, Alone, bound_vars, left_vars
<1>4. GuardsHaveHolders'
  BY <1>1, <1>2, GuardsStay DEF IInv, left_vars
<1>5. AtOK(t)' /\ Quiet(t)
  BY <1>2, OutType DEF IInv, AtOK, Quiet
<1> QED
  BY <1>1, <1>2, <1>3, <1>4, <1>5, QuietCall

LEMMA FailStep ==
  ASSUME IInv, NEW t \in Threads, Fail(t)
  PROVE  IInv'
<1>1. /\ call' = [call EXCEPT ![t] = Out(t)] /\ call[t].at \in {"context", "lock", "report", "list", "sort", "remove"}
      /\ faults < MaxFaults /\ faults' = faults + 1
      /\ UNCHANGED <<capturing, seen, capsules, written, lock, exports, made, now, calls, orphaned, stuck>>
  BY DEF Fail, Faulty, process_vars, capsule_vars, export_vars, left_vars
<1>2. call'[t] = Out(t) /\ call'[t].at = "leave" /\ Alone(t)
  BY <1>1, OutType, Advance DEF IInv
<1>3. TypeOK'
  BY <1>1, <1>2 DEF IInv, TypeOK, Alone
<1>4. GuardsHaveHolders'
  BY <1>1, <1>2, GuardsStay DEF IInv
<1>5. AtOK(t)' /\ Quiet(t)
  BY <1>2, OutType DEF IInv, AtOK, Quiet
<1> QED
  BY <1>1, <1>2, <1>3, <1>4, <1>5, QuietCall

LEMMA FailLockedStep ==
  ASSUME IInv, NEW t \in Threads, FailLocked(t)
  PROVE  IInv'
<1>1. /\ call' = [call EXCEPT ![t] = Out(t)] /\ call[t].at \in {"pack"}
      /\ faults < MaxFaults /\ faults' = faults + 1
      /\ lock' = Free
      /\ UNCHANGED <<capturing, seen, capsules, written, exports, made, now, calls, orphaned, stuck>>
  BY DEF FailLocked, Faulty, process_vars, capsule_vars, export_vars, left_vars
<1>2. call'[t] = Out(t) /\ call'[t].at = "leave" /\ Alone(t)
  BY <1>1, OutType, Advance DEF IInv
<1>3. TypeOK'
  BY <1>1, <1>2 DEF IInv, TypeOK, Alone
<1>4. GuardsHaveHolders'
  BY <1>1, <1>2 DEF IInv, TypeOK, GuardsHaveHolders, Exporting, Alone
<1>5. AtOK(t)' /\ Quiet(t)
  BY <1>2, OutType DEF IInv, AtOK, Quiet
<1> QED
  BY <1>1, <1>2, <1>3, <1>4, <1>5, QuietCall

LEMMA LockStaysStep ==
  ASSUME IInv, NEW t \in Threads, LockStays(t)
  PROVE  IInv'
<1>1. /\ call' = [call EXCEPT ![t] = Out(t)] /\ call[t].at \in {"pack", "unlock"}
      /\ faults < MaxFaults /\ faults' = faults + 1
      /\ orphaned' = TRUE
      /\ UNCHANGED <<capturing, seen, capsules, written, lock, exports, made, now, calls, stuck>>
  BY DEF LockStays, Faulty, process_vars, capsule_vars, export_vars, left_vars
<1>2. call'[t] = Out(t) /\ call'[t].at = "leave" /\ Alone(t)
  BY <1>1, OutType, Advance DEF IInv
<1>3. TypeOK'
  BY <1>1, <1>2 DEF IInv, TypeOK, Alone
<1>4. GuardsHaveHolders'
  BY <1>1, <1>2 DEF IInv, TypeOK, GuardsHaveHolders, Exporting, Alone
<1>5. AtOK(t)' /\ Quiet(t)
  BY <1>2, OutType DEF IInv, AtOK, Quiet
<1> QED
  BY <1>1, <1>2, <1>3, <1>4, <1>5, QuietCall

LEMMA EnterStep ==
  ASSUME IInv, NEW t \in Threads, NEW f \in Fingerprints, Enter(t, f)
  PROVE  IInv'
<1> DEFINE r == NoCall
           next == IF capturing[ProcessOf[t]] THEN r ELSE [r EXCEPT !.at = "entered", !.of = f]
<1>1. "entered" \in Points /\ r \in Call
  BY NoCallType DEF Points
<1>2. /\ call' = [call EXCEPT ![t] = next] /\ call[t].at = "idle"
      /\ calls < MaxCalls /\ calls' = calls + 1
      /\ UNCHANGED <<capturing, seen, capsules, written, lock, exports, made,
                     now, faults, orphaned, stuck>>
  BY DEF Enter, Goes, process_vars, capsule_vars, export_vars, left_vars
<1>3. r.at = "idle" /\ r.second = 0 /\ r.export = FALSE /\ r.todo = {}
  BY NoCallType
<1> HIDE DEF r
<1>4. /\ next \in Call /\ next.at \in {"idle", "entered"}
      /\ next.second = 0 /\ next.export = FALSE /\ next.todo = {}
  BY <1>1, <1>3 DEF Call
<1> HIDE DEF next
<1>5. call'[t] = next /\ Alone(t)
  BY <1>2, <1>4, Advance DEF IInv
<1>6. TypeOK'
  BY <1>2, <1>4, <1>5 DEF IInv, TypeOK, Alone, bound_vars, left_vars
<1>7. GuardsHaveHolders'
  BY <1>2, <1>4, <1>5 DEF IInv, TypeOK, GuardsHaveHolders, Exporting, Alone, bound_vars, left_vars
<1>8. AtOK(t)' /\ Quiet(t)
  BY <1>2, <1>4, <1>5 DEF IInv, Calls, AtOK, IsSupport, Same, Quiet
<1> QED
  BY <1>2, <1>5, <1>6, <1>7, <1>8, QuietCall

LEMMA LeaveStep ==
  ASSUME IInv, NEW t \in Threads, Leave(t)
  PROVE  IInv'
<1>1. /\ call' = [call EXCEPT ![t] = NoCall] /\ ProcessOf[t] \in Processes
      /\ call[t].at = "leave"
      /\ capturing' = [capturing EXCEPT ![ProcessOf[t]] = FALSE] /\ stuck' = stuck \ {ProcessOf[t]}
      /\ UNCHANGED <<seen, capsules, written, lock, exports, made, bound_vars, orphaned>>
  BY DEF Leave, Goes, Processes, capsule_vars, export_vars
<1>2. call'[t] = NoCall /\ call'[t].at = "idle" /\ Alone(t)
  BY <1>1, NoCallType, Advance DEF IInv
<1>3. TypeOK'
  BY <1>1, <1>2 DEF IInv, TypeOK, Alone, bound_vars
<1>4. GuardsHaveHolders'
  BY <1>1, <1>2 DEF IInv, TypeOK, GuardsHaveHolders, Exporting, Alone
<1>5. AtOK(t)' /\ Quiet(t)
  BY <1>2, NoCallType DEF AtOK, Quiet
<1> QED
  BY <1>1, <1>2, <1>3, <1>4, <1>5, QuietCall

LEMMA FlagStaysStep ==
  ASSUME IInv, NEW t \in Threads, FlagStays(t)
  PROVE  IInv'
<1>1. /\ call' = [call EXCEPT ![t] = NoCall] /\ ProcessOf[t] \in Processes
      /\ faults < MaxFaults /\ faults' = faults + 1
      /\ call[t].at = "entered"
      /\ capturing' = [capturing EXCEPT ![ProcessOf[t]] = TRUE] /\ stuck' = stuck \union {ProcessOf[t]}
      /\ UNCHANGED <<seen, capsules, written, lock, exports, made, now, calls, orphaned>>
  BY DEF FlagStays, Goes, Processes, Faulty, capsule_vars, export_vars
<1>2. call'[t] = NoCall /\ call'[t].at = "idle" /\ Alone(t)
  BY <1>1, NoCallType, Advance DEF IInv
<1>3. TypeOK'
  BY <1>1, <1>2 DEF IInv, TypeOK, Alone
<1>4. GuardsHaveHolders'
  BY <1>1, <1>2 DEF IInv, TypeOK, GuardsHaveHolders, Exporting, Alone
<1>5. AtOK(t)' /\ Quiet(t)
  BY <1>2, NoCallType DEF AtOK, Quiet
<1> QED
  BY <1>1, <1>2, <1>3, <1>4, <1>5, QuietCall

LEMMA LeaveFailsStep ==
  ASSUME IInv, NEW t \in Threads, LeaveFails(t)
  PROVE  IInv'
<1>1. /\ call' = [call EXCEPT ![t] = NoCall] /\ ProcessOf[t] \in Processes
      /\ faults < MaxFaults /\ faults' = faults + 1
      /\ call[t].at = "leave"
      /\ stuck' = stuck \union {ProcessOf[t]}
      /\ UNCHANGED <<capturing, seen, capsules, written, lock, exports, made, now, calls, orphaned>>
  BY DEF LeaveFails, Goes, Processes, Faulty, process_vars, capsule_vars, export_vars
<1>2. call'[t] = NoCall /\ call'[t].at = "idle" /\ Alone(t)
  BY <1>1, NoCallType, Advance DEF IInv
<1>3. TypeOK'
  BY <1>1, <1>2 DEF IInv, TypeOK, Alone
<1>4. GuardsHaveHolders'
  BY <1>1, <1>2 DEF IInv, TypeOK, GuardsHaveHolders, Exporting, Alone
<1>5. AtOK(t)' /\ Quiet(t)
  BY <1>2, NoCallType DEF AtOK, Quiet
<1> QED
  BY <1>1, <1>2, <1>3, <1>4, <1>5, QuietCall

LEMMA KillStep ==
  ASSUME IInv, NEW p \in Processes, Kill(p)
  PROVE  IInv'
<1>1. /\ call' = [t \in Threads |-> IF ProcessOf[t] = p THEN NoCall ELSE call[t]]
      /\ capturing' = [capturing EXCEPT ![p] = FALSE] /\ seen' = [seen EXCEPT ![p] = {}]
      /\ orphaned' = (orphaned \/ (lock # Free /\ ProcessOf[lock] = p))
      /\ faults < MaxFaults /\ faults' = faults + 1 /\ stuck' = stuck \ {p}
      /\ UNCHANGED <<capsules, written, lock, exports, made, now, calls>>
  BY DEF Kill, Faulty, capsule_vars, export_vars
<1>2. /\ call' \in [Threads -> Call]
      /\ \A t \in Threads : call'[t] = IF ProcessOf[t] = p THEN NoCall ELSE call[t]
  BY <1>1, NoCallType DEF IInv, TypeOK
<1>3. TypeOK'
  BY <1>1, <1>2 DEF IInv, TypeOK
<1>4. GuardsHaveHolders'
  <2>1. \A t \in Threads : call'[t].at = IF ProcessOf[t] = p THEN "idle" ELSE call[t].at
    BY <1>2, NoCallType
  <2>2. \A t \in Exporting' : lock' = t
    BY <1>1, <2>1 DEF IInv, GuardsHaveHolders, Exporting
  <2>3. lock' # Free => lock' \in Exporting' \/ orphaned'
    BY <1>1, <2>1 DEF IInv, TypeOK, GuardsHaveHolders, Exporting
  <2>4. ASSUME NEW q \in Processes, capturing'[q]
        PROVE  \/ \E t \in Threads : ProcessOf[t] = q /\ call'[t].at \notin {"idle", "entered"}
               \/ q \in stuck'
    <3>1. q # p /\ capturing[q]
      BY <1>1, <2>4 DEF IInv, TypeOK
    <3> QED
      BY <1>1, <2>1, <3>1 DEF IInv, GuardsHaveHolders
  <2> QED
    BY <2>2, <2>3, <2>4 DEF GuardsHaveHolders
<1>5. ASSUME NEW t \in Threads PROVE AtOK(t)'
  BY <1>1, <1>2, NoCallType DEF IInv, Calls, AtOK, IsSupport
<1>6. ASSUME NEW t \in Threads PROVE Quiet(t)
  BY <1>2, NoCallType DEF Quiet
<1>7. Counts'
  BY <1>1, <1>2, <1>6, QuietStep
<1>8. NewestAreKept'
  BY <1>1, ExportsStay DEF IInv
<1> QED
  BY <1>3, <1>4, <1>5, <1>7, <1>8 DEF IInv, Calls

-----------------------------------------------------------------------------
(* The actions that write a context, make an export or remove one. *)

LEMMA ClockType ==
  ASSUME TypeOK, ReadClock
  PROVE  now' \in Seconds /\ now' \in 0..MaxSeconds
  BY DEF TypeOK, ReadClock

LEMMA WriteContextStep ==
  ASSUME IInv, NEW t \in Threads, WriteContext(t)
  PROVE  IInv'
<1> DEFINE r == call[t]
           s0 == now'
           next == [r EXCEPT !.at = "lock", !.second = s0]
           f0 == call[t].of
<1>1. "lock" \in Points /\ r \in Call /\ s0 \in 0..MaxSeconds /\ s0 \in Seconds /\ f0 \in Fingerprints
  BY ClockType DEF IInv, TypeOK, Points, Call, WriteContext
<1>2. /\ call' = [call EXCEPT ![t] = next] /\ call[t].at = "context"
      /\ \/ f0 = Support /\ capsules' = capsules
         \/ f0 # Support /\ capsules' = [capsules EXCEPT ![<<f0, s0>>] = "capsule-written"]
      /\ written' = [written EXCEPT ![<<f0, s0>>] = @ + 1]
      /\ UNCHANGED <<capturing, seen, lock, exports, made, calls, faults, left_vars>>
  BY DEF WriteContext, ReadClock, Goes, IsSupport, process_vars, export_vars
<1> HIDE DEF r
<1>3. /\ next \in Call /\ next.at = "lock" /\ next.of = r.of
      /\ next.second = s0 /\ next.export = r.export /\ next.todo = r.todo
  BY <1>1 DEF Call
<1> HIDE DEF next
<1>4. /\ call'[t] = next /\ Alone(t)
      /\ call'[t].at = "lock" /\ call'[t].of = f0 /\ call'[t].second = s0
      /\ ~call'[t].export /\ call'[t].todo = {} /\ call[t].todo = {}
  <2>1. TypeOK /\ AtOK(t)
    BY DEF IInv, Calls
  <2>2. call'[t] = next /\ Alone(t)
    BY <1>2, <1>3, <2>1, Advance
  <2>3. ~call[t].export /\ call[t].todo = {}
    BY <1>2, <2>1 DEF AtOK
  <2> QED
    BY <1>3, <2>2, <2>3 DEF r
<1> HIDE DEF f0, s0
<1>5. \A f \in Fingerprints, s \in Seconds :
         /\ written[<<f, s>>] \in Nat
         /\ written'[<<f, s>>] = IF f = f0 /\ s = s0 THEN written[<<f, s>>] + 1 ELSE written[<<f, s>>]
  BY <1>1, <1>2 DEF IInv, TypeOK
<1>6. TypeOK'
  <2>1. written' \in [Fingerprints \X Seconds -> Nat]
    BY <1>1, <1>2 DEF IInv, TypeOK
  <2>2. capsules' \in [Failures \X Seconds -> {"none", "capsule-written", "completed", "capsule-only"}]
    BY <1>1, <1>2 DEF IInv, TypeOK
  <2> QED
    BY <1>1, <1>2, <1>4, <2>1, <2>2 DEF IInv, TypeOK, Alone, left_vars, s0
<1>7. GuardsHaveHolders'
  BY <1>2, <1>4, GuardsStay DEF IInv, bound_vars, left_vars
<1>8. \A u \in Threads : call'[u].of \in Fingerprints /\ call[u].of \in Fingerprints
  BY <1>6 DEF IInv, TypeOK, Call
<1>9. Calls'
  <2>1. AtOK(t)'
    BY <1>1, <1>2, <1>4 DEF AtOK, IsSupport
  <2>2. ASSUME NEW u \in Threads \ {t} PROVE AtOK(u)'
    BY <1>2, <1>4, <1>5, <1>8 DEF IInv, Calls, Alone, AtOK, IsSupport
  <2> QED
    BY <2>1, <2>2 DEF Calls
<1>10. \A e \in made : e.of \in Fingerprints /\ e.asked \in Seconds
  BY DEF IInv, TypeOK, Export
<1>11. Counts'
  <2>1. ASSUME NEW u \in Threads PROVE CountedOK(u)'
    BY <1>1, <1>4, <1>5, <1>8 DEF IInv, Counts, CountedOK, Alone
  <2>2. OutcomeOK(t)'
    BY <1>1, <1>2, <1>4, <1>5, <1>10 DEF IInv, Counts, OutcomeOK, MadeOK
  <2>3. ASSUME NEW u \in Threads \ {t} PROVE OutcomeOK(u)'
    BY <1>2, <1>4, <1>5, <1>10 DEF IInv, Counts, OutcomeOK, Alone
  <2>4. ASSUME NEW u \in Threads PROVE TodoOK(u)'
    <3>1. TodoOK(u) /\ call'[u].todo = call[u].todo /\ \A e : Newer(e)' = Newer(e)
      BY <1>2, <1>4 DEF IInv, Counts, Alone, Newer
    <3> QED
      BY <1>2, <3>1, Zenon DEF TodoOK
  <2>5. ASSUME NEW u \in Threads, NEW v \in Threads PROVE PairOK(u, v)'
    <3>1. CASE u = t \/ v = t
      <4> SUFFICES ASSUME NEW w \in Threads \ {t}, call'[w].second = s0, call'[w].of = f0
                   PROVE  written'[<<f0, s0>>] > 1
        BY <1>4, <3>1 DEF PairOK
      <4>1. call[w].second = s0 /\ call[w].of = f0 /\ CountedOK(w)
        BY <1>4 DEF IInv, Counts, Alone
      <4>2. written[<<f0, s0>>] >= 1
        BY <1>1, <4>1 DEF CountedOK
      <4> QED
        BY <1>1, <1>5, <4>2
    <3>2. CASE u # t /\ v # t
      BY <1>4, <1>5, <1>8, <3>2 DEF IInv, Counts, PairOK, Alone
    <3> QED
      BY <3>1, <3>2
  <2>6. ASSUME NEW e \in made' PROVE MadeOK(e)'
    BY <1>2, <1>5, <1>10 DEF IInv, Counts, MadeOK
  <2>7. ASSUME NEW f \in Failures, NEW s \in Seconds PROVE CapsuleOK(f, s)'
    <3>1. CASE f = f0 /\ s = s0
      BY <1>1, <1>2, <3>1 DEF IInv, TypeOK, CapsuleOK
    <3>2. CASE ~(f = f0 /\ s = s0)
      <4>1. capsules'[<<f, s>>] = capsules[<<f, s>>]
        BY <1>1, <1>2, <3>2 DEF IInv, TypeOK
      <4>2. written'[<<f, s>>] = written[<<f, s>>]
        BY <1>5, <3>2
      <4> QED
        BY <1>2, <1>4, <3>2, <4>1, <4>2 DEF IInv, Counts, CapsuleOK, Alone
    <3> QED
      BY <3>1, <3>2
  <2> QED
    BY <2>1, <2>2, <2>3, <2>4, <2>5, <2>6, <2>7 DEF Counts
<1>12. NewestAreKept'
  BY <1>2, ExportsStay DEF IInv
<1> QED
  BY <1>6, <1>7, <1>9, <1>11, <1>12 DEF IInv

LEMMA ReportStep ==
  ASSUME IInv, NEW t \in Threads, Report(t)
  PROVE  IInv'
<1> DEFINE r == call[t]
           next == [r EXCEPT !.at = "list", !.second = 0, !.export = FALSE]
           f0 == call[t].of
           s0 == call[t].second
<1>1. "list" \in Points /\ r \in Call /\ f0 \in Failures /\ s0 \in Seconds /\ 0 \in 0..MaxSeconds
  BY DEF IInv, TypeOK, Points, Call, Calls, AtOK, Report, Goes
<1>2. /\ call' = [call EXCEPT ![t] = next] /\ call[t].at = "report"
      /\ capsules' = [capsules EXCEPT ![<<f0, s0>>] = IF call[t].export THEN "completed" ELSE "capsule-only"]
      /\ UNCHANGED <<capturing, seen, written, lock, exports, made, bound_vars, left_vars>>
  BY DEF Report, Goes, process_vars, export_vars
<1> HIDE DEF r
<1>3. /\ next \in Call /\ next.at = "list" /\ next.of = r.of
      /\ next.second = 0 /\ next.export = FALSE /\ next.todo = r.todo
  BY <1>1 DEF Call
<1> HIDE DEF next
<1>4. /\ call'[t] = next /\ Alone(t)
      /\ call'[t].at = "list" /\ call'[t].of = f0 /\ call'[t].second = 0
      /\ ~call'[t].export /\ call'[t].todo = call[t].todo
  <2>1. TypeOK
    BY DEF IInv
  <2>2. call'[t] = next /\ Alone(t)
    BY <1>2, <1>3, <2>1, Advance
  <2> QED
    BY <1>3, <2>2 DEF r
<1>5. /\ OutcomeOK(t) /\ \A u \in Threads : PairOK(t, u)
  BY DEF IInv, Counts
<1> HIDE DEF f0, s0
<1>6. TypeOK'
  BY <1>1, <1>2, <1>4 DEF IInv, TypeOK, Alone, bound_vars, left_vars
<1>7. GuardsHaveHolders'
  BY <1>2, <1>4, GuardsStay DEF IInv, bound_vars, left_vars
<1>8. Calls'
  <2>1. AtOK(t)'
    BY <1>4 DEF AtOK
  <2> QED
    BY <1>2, <1>4, <2>1, OthersStay DEF Calls
<1>9. \A e \in made : e.asked # 0
  BY DEF IInv, TypeOK, Export
<1>10. Counts'
  <2>1. ASSUME NEW u \in Threads PROVE CountedOK(u)' /\ OutcomeOK(u)'
    BY <1>2, <1>4, <1>9 DEF IInv, Counts, CountedOK, OutcomeOK, Alone
  <2>2. ASSUME NEW u \in Threads PROVE TodoOK(u)'
    <3>1. TodoOK(u) /\ call'[u].todo = call[u].todo /\ \A e : Newer(e)' = Newer(e)
      BY <1>2, <1>4 DEF IInv, Counts, Alone, Newer
    <3> QED
      BY <1>2, <3>1, Zenon DEF TodoOK
  <2>3. ASSUME NEW u \in Threads, NEW v \in Threads PROVE PairOK(u, v)'
    BY <1>2, <1>4 DEF IInv, Counts, PairOK, Alone
  <2>4. ASSUME NEW e \in made' PROVE MadeOK(e)'
    BY <1>2 DEF IInv, Counts, MadeOK
  <2>5. ASSUME NEW f \in Failures, NEW s \in Seconds PROVE CapsuleOK(f, s)'
    <3>1. CASE f = f0 /\ s = s0
      <4>1. capsules'[<<f, s>>] = IF call[t].export THEN "completed" ELSE "capsule-only"
        BY <1>1, <1>2, <3>1 DEF IInv, TypeOK
      <4>2. call[t].export => \E e \in made : e.of = f /\ e.asked = s
        BY <1>5, <3>1 DEF OutcomeOK, f0, s0
      <4>3. ASSUME ~call[t].export, written[<<f, s>>] = 1
            PROVE  /\ \A e \in made : ~(e.of = f /\ e.asked = s)
                   /\ \A u \in Threads \ {t} : ~(call[u].of = f /\ call[u].second = s)
        BY <1>1, <1>5, <3>1, <4>3 DEF OutcomeOK, PairOK, f0, s0
      <4> QED
        BY <1>1, <1>2, <1>4, <3>1, <4>1, <4>2, <4>3 DEF CapsuleOK, Alone
    <3>2. CASE ~(f = f0 /\ s = s0)
      <4>1. capsules'[<<f, s>>] = capsules[<<f, s>>]
        BY <1>1, <1>2, <3>2 DEF IInv, TypeOK
      <4> QED
        BY <1>2, <1>4, <3>2, <4>1 DEF IInv, Counts, CapsuleOK, Alone
    <3> QED
      BY <3>1, <3>2
  <2> QED
    BY <2>1, <2>2, <2>3, <2>4, <2>5 DEF Counts
<1>11. NewestAreKept'
  BY <1>2, ExportsStay DEF IInv
<1> QED
  BY <1>6, <1>7, <1>8, <1>10, <1>11 DEF IInv

\* There are not fewer newer exports where there are more.
LEMMA MoreNewer ==
  ASSUME NEW S, NEW U, IsFiniteSet(U), S \subseteq U, Cardinality(S) >= Keep
  PROVE  Cardinality(U) >= Keep
<1>1. /\ IsFiniteSet(S) /\ Cardinality(S) <= Cardinality(U)
      /\ Cardinality(S) \in Nat /\ Cardinality(U) \in Nat
  BY FS_Subset, FS_CardinalityType
<1> QED
  BY <1>1

LEMMA SortStep ==
  ASSUME IInv, NEW t \in Threads, Sort(t)
  PROVE  IInv'
<1> DEFINE names == call[t].listed
           files == {e \in exports : Name(e) \in names}
           todo  == Beyond(files)
           next  == Removing(t, names, todo)
<1>1. /\ call[t].at = "sort" /\ call' = [call EXCEPT ![t] = next]
      /\ UNCHANGED <<capturing, seen, capsules, written, lock, exports, made,
                     bound_vars, left_vars>>
  BY DEF Sort, Goes, process_vars, capsule_vars, export_vars
<1>2. names \in SUBSET Names
  BY DEF IInv, TypeOK, Call
<1>3. files \subseteq made \union {Aged} /\ files \subseteq Files /\ IsFiniteSet(made) /\ made \subseteq Export
  BY DEF IInv, TypeOK, Files
<1> HIDE DEF names, files
<1>4. /\ todo \subseteq files
      /\ \A e \in todo : e = Aged \/ Cardinality({d \in files : d.order > e.order}) >= Keep
  BY DEF Beyond
<1> HIDE DEF todo
<1>5. todo \in SUBSET Files
  BY <1>3, <1>4
<1>6. /\ next \in Call /\ next.at \in {"leave", "remove"} /\ next.todo = todo
      /\ todo = {} => next.second = 0 /\ ~next.export
      /\ todo # {} => /\ next.of = call[t].of /\ next.second = call[t].second
                      /\ next.export = call[t].export
  BY <1>2, <1>5, RemovingType DEF IInv
<1> HIDE DEF next
<1>7. call'[t] = next /\ Alone(t)
  BY <1>1, <1>6, Advance DEF IInv
<1>8. TypeOK'
  BY <1>1, <1>6, <1>7 DEF IInv, TypeOK, Alone, bound_vars, left_vars
<1>9. GuardsHaveHolders'
  BY <1>1, <1>6, <1>7, GuardsStay DEF IInv, bound_vars, left_vars
<1>10. TodoOK(t)'
  <2>1. ASSUME NEW e \in todo, e # Aged PROVE e \in made /\ Cardinality(Newer(e)) >= Keep
    <3> DEFINE S == {d \in files : d.order > e.order}
    <3>1. e \in made
      BY <1>3, <1>4, <2>1
    <3>2. S \subseteq Newer(e)
      <4>1. e.order > 0 /\ Aged.order = 0
        BY <1>3, <3>1 DEF Export, Aged
      <4> QED
        BY <1>3, <3>1, <4>1 DEF Newer, Export
    <3>3. IsFiniteSet(Newer(e))
      BY <1>3, FS_Subset DEF Newer
    <3>4. Cardinality(S) >= Keep
      BY <1>4, <2>1
    <3> HIDE DEF S
    <3> QED
      BY <3>1, <3>2, <3>3, <3>4, MoreNewer
  <2>2. \A e : Newer(e)' = Newer(e)
    BY <1>1 DEF Newer
  <2>3. call'[t].todo = todo
    BY <1>6, <1>7
  <2> HIDE DEF todo
  <2> QED
    BY <1>1, <2>1, <2>2, <2>3, Zenon DEF TodoOK
<1>11. AtOK(t)' /\ Quiet(t)
  BY <1>1, <1>6, <1>7, <1>10 DEF AtOK, Quiet
<1> QED
  BY <1>1, <1>7, <1>8, <1>9, <1>11, QuietCall

LEMMA RemoveExportStep ==
  ASSUME IInv, NEW t \in Threads, RemoveExport(t)
  PROVE  IInv'
<1>1. PICK e \in call[t].todo :
         /\ call' = [call EXCEPT ![t] = Removing(t, call[t].listed \ {Name(e)}, call[t].todo \ {e})]
         /\ exports' = {d \in exports : Name(d) # Name(e)}
  BY DEF RemoveExport
<1> DEFINE names == call[t].listed \ {Name(e)}
           todo  == call[t].todo \ {e}
           next  == Removing(t, names, todo)
<1>2. /\ call[t].at = "remove" /\ call' = [call EXCEPT ![t] = next]
      /\ UNCHANGED <<capturing, seen, capsules, written, lock, made, bound_vars, left_vars>>
  BY <1>1 DEF RemoveExport, process_vars, capsule_vars
<1>3. names \in SUBSET Names /\ todo \in SUBSET Files /\ todo \subseteq call[t].todo
  BY DEF IInv, TypeOK, Call
<1> HIDE DEF names, todo
<1>4. /\ next \in Call /\ next.at \in {"leave", "remove"} /\ next.todo = todo
      /\ todo = {} => next.second = 0 /\ ~next.export
      /\ todo # {} => /\ next.of = call[t].of /\ next.second = call[t].second
                      /\ next.export = call[t].export
  BY <1>3, RemovingType DEF IInv
<1> HIDE DEF next
<1>5. call'[t] = next /\ Alone(t)
  BY <1>2, <1>4, Advance DEF IInv
<1>6. TypeOK'
  BY <1>1, <1>2, <1>4, <1>5 DEF IInv, TypeOK, Alone, bound_vars, left_vars
<1>7. GuardsHaveHolders'
  BY <1>2, <1>4, <1>5, GuardsStay DEF IInv, bound_vars, left_vars
<1>8. Calls'
  <2>1. AtOK(t)'
    BY <1>4, <1>5 DEF AtOK
  <2> QED
    BY <1>2, <1>5, <2>1, OthersStay DEF Calls
<1>9. Counts'
  <2>1. Quiet(t)
    BY <1>3, <1>4, <1>5 DEF Quiet
  <2> QED
    BY <1>2, <1>5, <2>1, GoesOn
<1>10. NewestAreKept'
  <2> SUFFICES ASSUME NEW d \in made, d \notin exports'
               PROVE  \/ \E c \in made : c # d /\ Name(c) = Name(d)
                      \/ Cardinality({c \in made : c.order > d.order}) >= Keep
    BY <1>2 DEF NewestAreKept
  <2>1. CASE d \notin exports
    BY <2>1 DEF IInv, NewestAreKept
  <2>2. CASE d \in exports
    <3>1. Name(d) = Name(e)
      BY <1>1, <2>2
    <3>2. TodoOK(t) /\ d \in Export
      BY DEF IInv, Counts, TypeOK
    <3>3. e # Aged
      BY <3>1, <3>2 DEF Aged, Name, Export
    <3>4. e \in made /\ Cardinality(Newer(e)) >= Keep
      BY <3>2, <3>3 DEF TodoOK
    <3>5. CASE d = e
      BY <3>4, <3>5 DEF Newer
    <3>6. CASE d # e
      BY <3>1, <3>4, <3>6
    <3> QED
      BY <3>5, <3>6
  <2> QED
    BY <2>1, <2>2
<1> QED
  BY <1>6, <1>7, <1>8, <1>9, <1>10 DEF IInv

\* The exports that are newer than one are finitely many, and never fewer.
LEMMA NewerGrows ==
  ASSUME IsFiniteSet(made'), made \subseteq made', NEW e, Cardinality(Newer(e)) >= Keep
  PROVE  Cardinality(Newer(e)') >= Keep
<1>1. Newer(e) \subseteq Newer(e)' /\ Newer(e)' \subseteq made'
  BY DEF Newer
<1>2. IsFiniteSet(Newer(e)')
  BY <1>1, FS_Subset
<1> QED
  BY <1>1, <1>2, MoreNewer

LEMMA MoveStep ==
  ASSUME IInv, NEW t \in Threads, Move(t)
  PROVE  IInv'
<1> DEFINE r == call[t]
           next == [r EXCEPT !.at = "unlock", !.export = TRUE]
           x == [of |-> call[t].of, second |-> now', asked |-> call[t].second,
                 order |-> Cardinality(made) + 1]
<1>1. "unlock" \in Points /\ r \in Call
  BY DEF IInv, TypeOK, Points
<1>2. /\ call' = [call EXCEPT ![t] = next] /\ call[t].at = "pack"
      /\ exports' = {e \in exports : Name(e) # Name(x)} \union {x}
      /\ made' = made \union {x}
      /\ UNCHANGED <<capturing, seen, capsules, written, lock, calls, faults, left_vars>>
  BY DEF Move, ReadClock, Goes, process_vars, capsule_vars
<1> HIDE DEF r
<1>3. /\ next \in Call /\ next.at = "unlock" /\ next.of = r.of
      /\ next.second = r.second /\ next.export = TRUE /\ next.todo = r.todo
  BY <1>1 DEF Call
<1> HIDE DEF next
<1>4. /\ call'[t] = next /\ Alone(t)
      /\ call'[t].at = "unlock" /\ call'[t].of = call[t].of /\ call'[t].second = call[t].second
      /\ call'[t].export = TRUE /\ call'[t].todo = call[t].todo
  <2>1. TypeOK
    BY DEF IInv
  <2>2. call'[t] = next /\ Alone(t)
    BY <1>2, <1>3, <2>1, Advance
  <2> QED
    BY <1>3, <2>2 DEF r
<1>5. \A u \in Threads : call'[u].of = call[u].of /\ call'[u].second = call[u].second
                         /\ call'[u].todo = call[u].todo
  BY <1>4 DEF Alone
<1>6. call[t].of \in Fingerprints /\ call[t].second \in Seconds /\ now' \in Seconds
  BY <1>2, ClockType DEF IInv, TypeOK, Call, Calls, AtOK, Move
<1>7. /\ IsFiniteSet(made) /\ Cardinality(made) \in Nat /\ made \subseteq Export
      /\ \A e \in made : e.order <= Cardinality(made)
  BY FS_CardinalityType DEF IInv, TypeOK, Counts, MadeOK
<1>8. /\ x \in Export /\ x.of = call[t].of /\ x.asked = call[t].second
      /\ x.order = Cardinality(made) + 1
  BY <1>6, <1>7 DEF Export
<1> HIDE DEF x
<1>9. /\ x \notin made /\ IsFiniteSet(made') /\ Cardinality(made') = Cardinality(made) + 1
      /\ made \subseteq made' /\ x \in made' /\ x \in exports'
  <2>1. x \notin made
    BY <1>7, <1>8
  <2> QED
    BY <1>2, <1>7, <2>1, FS_AddElement
<1>10. TypeOK'
  <2>1. made' \subseteq Export /\ exports' \subseteq made' \union {Aged}
    BY <1>2, <1>7, <1>8 DEF IInv, TypeOK
  <2> QED
    BY <1>2, <1>4, <1>6, <1>9, <2>1 DEF IInv, TypeOK, Alone, left_vars
<1>11. GuardsHaveHolders'
  BY <1>2, <1>4, GuardsStay DEF IInv, left_vars
<1>12. Calls'
  <2>1. AtOK(t)'
    BY <1>4, <1>6 DEF AtOK
  <2> QED
    BY <1>2, <1>4, <2>1, OthersStay DEF Calls
<1>13. Counts'
  <2>1. ASSUME NEW u \in Threads PROVE CountedOK(u)'
    BY <1>2, <1>5 DEF IInv, Counts, CountedOK
  <2>2. OutcomeOK(t)'
    BY <1>4, <1>8, <1>9 DEF OutcomeOK
  <2>3. ASSUME NEW u \in Threads \ {t} PROVE OutcomeOK(u)'
    <3>1. OutcomeOK(u) /\ PairOK(t, u) /\ call'[u] = call[u]
      BY <1>4 DEF IInv, Counts, Alone
    <3>2. call[u].export => \E e \in made' : e.of = call[u].of /\ e.asked = call[u].second
      BY <1>9, <3>1 DEF OutcomeOK
    <3>3. ASSUME ~call[u].export, call[u].of # Support,
                 NEW e \in made', e.of = call[u].of, e.asked = call[u].second
          PROVE  written[<<e.of, e.asked>>] > 1
      <4>1. CASE e = x
        \* The call has the same context: it was written twice.
        BY <1>6, <1>8, <3>1, <3>3, <4>1 DEF PairOK
      <4>2. CASE e \in made
        BY <3>1, <3>3, <4>2 DEF OutcomeOK
      <4> QED
        BY <1>2, <4>1, <4>2
    <3> QED
      BY <1>2, <3>1, <3>2, <3>3 DEF OutcomeOK
  <2>4. ASSUME NEW u \in Threads PROVE TodoOK(u)'
    <3>1. TodoOK(u)
      BY DEF IInv, Counts
    <3>2. \A e : Cardinality(Newer(e)) >= Keep => Cardinality(Newer(e)') >= Keep
      BY <1>9, NewerGrows
    <3> QED
      BY <1>5, <1>9, <3>1, <3>2 DEF TodoOK
  <2>5. ASSUME NEW u \in Threads, NEW v \in Threads PROVE PairOK(u, v)'
    BY <1>2, <1>5 DEF IInv, Counts, PairOK
  <2>6. ASSUME NEW e \in made' PROVE MadeOK(e)'
    <3>1. CASE e \in made
      BY <1>2, <1>7, <1>9, <3>1 DEF IInv, Counts, MadeOK, Export
    <3>2. CASE e = x
      <4>1. written[<<e.of, e.asked>>] >= 1
        BY <1>6, <1>8, <3>2 DEF IInv, Counts, CountedOK
      <4> QED
        BY <1>2, <1>7, <1>8, <1>9, <3>2, <4>1 DEF MadeOK
    <3> QED
      BY <1>2, <3>1, <3>2
  <2>7. ASSUME NEW f \in Failures, NEW s \in Seconds PROVE CapsuleOK(f, s)'
    <3>1. CapsuleOK(f, s)
      BY DEF IInv, Counts
    <3>2. capsules[<<f, s>>] = "completed" => \E e \in made' : e.of = f /\ e.asked = s
      BY <1>9, <3>1 DEF CapsuleOK
    <3>3. ASSUME capsules[<<f, s>>] = "capsule-only", written[<<f, s>>] = 1
          PROVE  /\ \A e \in made' : ~(e.of = f /\ e.asked = s)
                 /\ \A u \in Threads : ~(call'[u].of = f /\ call'[u].second = s)
      BY <1>2, <1>5, <1>8, <3>1, <3>3 DEF CapsuleOK
    <3> QED
      BY <1>2, <3>2, <3>3 DEF CapsuleOK
  <2> QED
    BY <2>1, <2>2, <2>3, <2>4, <2>5, <2>6, <2>7 DEF Counts
<1>14. NewestAreKept'
  <2> SUFFICES ASSUME NEW e \in made' \ exports'
               PROVE  \/ \E d \in made' : d # e /\ Name(d) = Name(e)
                      \/ Cardinality(Newer(e)') >= Keep
    BY DEF NewestAreKept, Newer
  <2>1. e \in made /\ e # x
    BY <1>2, <1>9
  <2>2. CASE e \in exports
    BY <1>2, <1>9, <2>1, <2>2
  <2>3. CASE e \notin exports
    <3>1. \/ \E d \in made : d # e /\ Name(d) = Name(e)
          \/ Cardinality(Newer(e)) >= Keep
      BY <2>1, <2>3 DEF IInv, NewestAreKept, Newer
    <3>2. CASE \E d \in made : d # e /\ Name(d) = Name(e)
      BY <1>9, <3>2
    <3>3. CASE Cardinality(Newer(e)) >= Keep
      BY <1>9, <3>3, NewerGrows
    <3> QED
      BY <3>1, <3>2, <3>3
  <2> QED
    BY <2>2, <2>3
<1> QED
  BY <1>10, <1>11, <1>12, <1>13, <1>14 DEF IInv

-----------------------------------------------------------------------------
(* The theorems. *)

LEMMA IInvInit == Init => IInv
<1> SUFFICES ASSUME Init PROVE IInv
  OBVIOUS
<1>1. /\ call = [t \in Threads |-> NoCall] /\ lock = Free
      /\ exports = {Aged} /\ made = {} /\ now = 1 /\ calls = 0 /\ faults = 0
      /\ orphaned = FALSE /\ stuck = {}
      /\ capturing = [p \in Processes |-> FALSE] /\ seen = [p \in Processes |-> {}]
      /\ capsules = [c \in Failures \X Seconds |-> "none"]
      /\ written = [c \in Fingerprints \X Seconds |-> 0]
  BY DEF Init
<1>2. \A t \in Threads : call[t] = NoCall
  BY <1>1
<1>3. TypeOK
  <2>1. call \in [Threads -> Call]
    BY <1>1, NoCallType
  <2>2. IsFiniteSet(made)
    BY <1>1, FS_EmptySet
  <2>3. 1 \in Seconds /\ 0 \in 0..MaxCalls /\ 0 \in 0..MaxFaults
    OBVIOUS
  <2>4. /\ capturing \in [Processes -> BOOLEAN] /\ seen \in [Processes -> SUBSET Fingerprints]
        /\ written \in [Fingerprints \X Seconds -> Nat]
    BY <1>1
  <2>5. capsules \in [Failures \X Seconds -> {"none", "capsule-written", "completed", "capsule-only"}]
    BY <1>1
  <2> QED
    BY <1>1, <2>1, <2>2, <2>3, <2>4, <2>5 DEF TypeOK
<1>4. GuardsHaveHolders
  BY <1>1, <1>2, NoCallType DEF GuardsHaveHolders, Exporting
<1>5. Calls
  BY <1>2, NoCallType DEF Calls, AtOK
<1>6. Counts
  BY <1>1, <1>2, NoCallType DEF Counts, CountedOK, OutcomeOK, TodoOK, PairOK, CapsuleOK
<1>7. NewestAreKept
  BY <1>1 DEF NewestAreKept
<1> QED
  BY <1>3, <1>4, <1>5, <1>6, <1>7 DEF IInv

LEMMA IInvNext == IInv /\ [Next]_vars => IInv'
<1> SUFFICES ASSUME IInv, [Next]_vars PROVE IInv'
  OBVIOUS
<1>1. ASSUME NEW t \in Threads, Step(t) PROVE IInv'
  <2>1. CASE \/ SetCapturing(t) \/ Dedupe(t) \/ AddSeen(t) \/ WriteContext(t) \/ TakeLock(t)
             \/ NoExport(t) \/ PackNothing(t) \/ Move(t)
    BY <2>1, SetCapturingStep, DedupeStep, AddSeenStep, WriteContextStep, TakeLockStep,
       NoExportStep, PackNothingStep, MoveStep
  <2>2. CASE \/ Unlock(t) \/ Report(t) \/ List(t) \/ Sort(t) \/ RemoveExport(t) \/ Vanished(t)
             \/ Leave(t)
    BY <2>2, UnlockStep, ReportStep, ListStep, SortStep, RemoveExportStep, VanishedStep,
       LeaveStep
  <2> QED
    BY <1>1, <2>1, <2>2 DEF Step
<1>2. ASSUME NEW t \in Threads, Raises(t) PROVE IInv'
  BY <1>2, FailStep, FailLockedStep, LockStaysStep, FlagStaysStep, LeaveFailsStep DEF Raises
<1>3. ASSUME NEW t \in Threads, NEW f \in Failures \union {Support}, Enter(t, f) PROVE IInv'
  BY <1>3, EnterStep
<1>4. ASSUME NEW p \in Processes, Kill(p) PROVE IInv'
  BY <1>4, KillStep
<1>5. CASE UNCHANGED vars
  <2>1. UNCHANGED <<call, capturing, seen, capsules, written, lock, exports,
                    made, now, calls, faults, orphaned, stuck>>
    BY <1>5 DEF vars, process_vars, capsule_vars, export_vars, bound_vars, left_vars
  <2>2. TypeOK' /\ GuardsHaveHolders'
    BY <2>1 DEF IInv, TypeOK, GuardsHaveHolders, Exporting
  <2>3. Calls'
    BY <2>1 DEF IInv, Calls, AtOK, IsSupport
  <2>4. Counts'
    <3>1. \A t \in Threads : Quiet(t)
      BY <2>1 DEF Quiet
    <3> QED
      BY <2>1, <3>1, QuietStep DEF IInv, TypeOK
  <2>5. NewestAreKept'
    BY <2>1, ExportsStay DEF IInv
  <2> QED
    BY <2>2, <2>3, <2>4, <2>5 DEF IInv
<1> QED
  BY <1>1, <1>2, <1>3, <1>4, <1>5 DEF Next

LEMMA Invariance == Spec => []IInv
  BY IInvInit, IInvNext, PTL DEF Spec

\* Every variable has its type; exports/ holds nothing but what was made, and an aged export.
THEOREM TypeCorrect == Spec => []TypeOK
<1>1. IInv => TypeOK
  BY DEF IInv
<1> QED
  BY <1>1, Invariance, PTL

\* One export is made at a time, under the lock, on the whole machine. The lock is of the call
\* that makes it, unless it stayed behind: its process was killed, or an unlink of the finally
\* clause raised. The flag of a process is of a call that goes on, unless an exception came
\* between setting it and try, or the context of a support export could not be removed.
THEOREM NobodyIsLockedOut == Spec => []GuardsHaveHolders
<1>1. IInv => GuardsHaveHolders
  BY DEF IInv
<1> QED
  BY <1>1, Invariance, PTL

\* _retention never removes one of the Keep newest exports, whoever lists, sorts and removes
\* at the same time.
THEOREM RetentionKeepsNewest == Spec => []NewestAreKept
<1>1. IInv => NewestAreKept
  BY DEF IInv
<1> QED
  BY <1>1, Invariance, PTL

\* A crash capsule says that there is an export, or none, only if it is so.
THEOREM CapsulesTellTheTruth == Spec => []CapsuleIsHonest
<1>1. IInv => CapsuleIsHonest
  <2> SUFFICES ASSUME IInv, NEW f \in Failures, NEW s \in Seconds
               PROVE  LET itsExports == {e \in made : e.of = f /\ e.asked = s}
                      IN  /\ capsules[<<f, s>>] = "completed" => itsExports # {}
                          /\ capsules[<<f, s>>] = "capsule-only" /\ written[<<f, s>>] = 1
                                => itsExports = {}
    BY DEF CapsuleIsHonest
  <2>1. CapsuleOK(f, s)
    BY DEF IInv, Counts
  <2> QED
    BY <2>1 DEF CapsuleOK
<1> QED
  BY <1>1, Invariance, PTL

=============================================================================
