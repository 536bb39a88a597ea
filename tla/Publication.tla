----------------------------- MODULE Publication -----------------------------
(***************************************************************************)
(* What publishing a run's reports promises to whoever reads them: a run's *)
(* folder appears at once and never changes, the store then lists it, and  *)
(* only then may the pointer to the latest run name it.  A publication     *)
(* that fails on the way stops there; nothing is taken back.               *)
(***************************************************************************)
CONSTANTS Runs, NoRun

VARIABLES shown,   \* runs whose report folder is there, whole
          listed,  \* runs whose reports the store lists
          latest   \* the run the pointer names, or NoRun

vars == <<shown, listed, latest>>

Init == shown = {} /\ listed = {} /\ latest = NoRun

Show(r) ==
    /\ r \notin shown
    /\ shown' = shown \union {r}
    /\ UNCHANGED <<listed, latest>>

List(r) ==
    /\ r \in shown \ listed
    /\ listed' = listed \union {r}
    /\ UNCHANGED <<shown, latest>>

\* Runs finish in any order: the pointer may come back to one that began earlier,
\* but each run takes it once.
Point(r) ==
    /\ r \in listed /\ latest # r
    /\ latest' = r
    /\ UNCHANGED <<shown, listed>>

Next == \E r \in Runs : Show(r) \/ List(r) \/ Point(r)

Spec == Init /\ [][Next]_vars
=============================================================================
