------------------------- MODULE MCDiagnosticsExport -------------------------
(* Small instances of DiagnosticsExport for TLC. *)
EXTENDS DiagnosticsExport, TLC

CONSTANTS t1, t2, t3, crash, other

\* Two threads of one process, and one of another.
MCProcessOf == t1 :> "p" @@ t2 :> "p" @@ t3 :> "q"

MCSymmetry == Permutations({t1, t2}) \union Permutations({crash, other})
=============================================================================
