--------------------------- MODULE MCServeCommand ---------------------------
(* Small instances of ServeCommand for TLC. *)
EXTENDS ServeCommand

CONSTANTS p1, p2

\* No file, a database whose first migration was cut off, and one of a later release.
MCDatabases == {NoDatabase, [version |-> 0, objects |-> {"validation_runs"}],
                [version |-> 4, objects |-> ObjectsOf[3] \union {"later"}]}

\* Launches differ in nothing but their name: the one that starts first is called p1.
InOrder == main[p2] # "none" => main[p1] # "none"
=============================================================================
