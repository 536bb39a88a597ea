------------------------- MODULE MCStreamedColumns -------------------------
(* Small instances of StreamedColumns for TLC. *)
EXTENDS StreamedColumns, TLC

CONSTANTS id, name, n1, n2, word

\* A column of anything, and one that may be empty.
MCCells == id :> {n1, word, Blank} @@ name :> {word, Blank}

\* A column of whole numbers that may be empty.
MCNumbers == id :> {n1, n2, Blank}

\* Three batches of two rows: whole numbers and an empty cell, whole numbers only, and an
\* empty cell; and a reference dataset that has both numbers.
MCWidened ==
    /\ file = <<[c \in {id} |-> n1], [c \in {id} |-> Blank], [c \in {id} |-> n1],
                [c \in {id} |-> n2], [c \in {id} |-> Blank]>>
    /\ lookup = <<[c \in {id} |-> n1], [c \in {id} |-> n2]>>

MCWidenedSpec == Init /\ MCWidened /\ [][Next]_vars
=============================================================================
