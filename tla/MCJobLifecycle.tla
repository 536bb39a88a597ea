--------------------------- MODULE MCJobLifecycle ---------------------------
(* Small instances of JobLifecycle for TLC. *)
EXTENDS JobLifecycle, TLC

\* One percent a streamed file's batch may report below, and one at, the cap of 75.
MCBatchPercents == {30, 75}

\* Jobs and callers are interchangeable; used by the runs that check safety only.
MCSymmetry == Permutations(Jobs) \union Permutations(Callers)
=============================================================================
