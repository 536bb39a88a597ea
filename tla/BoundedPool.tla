----------------------------- MODULE BoundedPool -----------------------------
(***************************************************************************)
(* What the validation queue promises, without its threads and its table:  *)
(* at most MaxWorkers + QueueCapacity jobs are admitted at a time, they    *)
(* start in the order of their admission and at most MaxWorkers run; each  *)
(* starts once and ends once.  The promise has one hole, which is the      *)
(* code's: a job whose row could not be created wastes its permit.         *)
(***************************************************************************)
EXTENDS Naturals, Sequences, FiniteSets

CONSTANTS Jobs, MaxWorkers, QueueCapacity

VARIABLES fresh,    \* jobs not admitted yet
          line,     \* jobs admitted and not started, in order
          running,  \* jobs a worker has
          wasted    \* permits that nothing will give back

vars == <<fresh, line, running, wasted>>

InFlight == Len(line) + Cardinality(running) + Cardinality(wasted)

Init == fresh = Jobs /\ line = <<>> /\ running = {} /\ wasted = {}

Admit(j) ==
    /\ j \in fresh
    /\ InFlight < MaxWorkers + QueueCapacity
    /\ fresh' = fresh \ {j}
    /\ line' = Append(line, j)
    /\ UNCHANGED <<running, wasted>>

\* The last job admitted is given up before it can start.
Waste ==
    /\ line # <<>>
    /\ line' = SubSeq(line, 1, Len(line) - 1)
    /\ wasted' = wasted \union {line[Len(line)]}
    /\ UNCHANGED <<fresh, running>>

Start ==
    /\ line # <<>>
    /\ Cardinality(running) < MaxWorkers
    /\ running' = running \union {Head(line)}
    /\ line' = Tail(line)
    /\ UNCHANGED <<fresh, wasted>>

End(j) ==
    /\ j \in running
    /\ running' = running \ {j}
    /\ UNCHANGED <<fresh, line, wasted>>

\* A new process: what was admitted is gone, and some of what was on its way.
Restart ==
    /\ line' = <<>> /\ running' = {} /\ wasted' = {}
    /\ fresh' \in SUBSET fresh

Next == \/ \E j \in Jobs : Admit(j) \/ End(j)
        \/ Waste \/ Start \/ Restart

Spec == Init /\ [][Next]_vars

\* Every admitted job is started and every started job ends.
Fairness == WF_vars(Start) /\ \A j \in Jobs : WF_vars(End(j))

FairSpec == Spec /\ Fairness
=============================================================================
