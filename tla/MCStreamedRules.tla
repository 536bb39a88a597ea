-------------------------- MODULE MCStreamedRules --------------------------
(* Small instances of StreamedRules for TLC. *)
EXTENDS StreamedRules

CONSTANTS a, b, MaxRows

\* Whole numbers are moments of 1970 for pandas; as text, 2 is a day and 2.0 is not.
MCDates    == ({"int", "float"} \X Numbers) \union {<<"str", 2>>}
MCDateText == {<<"int", 2>>, <<"str", 2>>}
MCAge      == [v \in MCDates |-> 5]

\* Rules for the two columns that differ from one another in one setting or two.
Open == [severity |-> ERROR, type |-> "any", strict |-> FALSE, nullable |-> TRUE, unique |-> FALSE,
         minimum |-> None, maximum |-> None, allowed |-> None, age |-> None, malformed |-> {}]
WholeText == {<<type, 1>> : type \in {"int", "str"}} \union {<<type, 2>> : type \in {"int", "str"}}
ColumnRules ==
    {Open,
     [Open EXCEPT !.type = "number", !.nullable = FALSE],
     [Open EXCEPT !.minimum = 2, !.maximum = 2],
     [Open EXCEPT !.type = "string", !.strict = TRUE],
     [Open EXCEPT !.minimum = 1, !.maximum = 2, !.unique = TRUE],
     [Open EXCEPT !.allowed = {<<"int", 1>>, <<"float", 1>>, <<"str", Word>>}, !.severity = WARNING],
     [Open EXCEPT !.allowed = {<<"str", Word>>}, !.severity = WARNING, !.malformed = Values \ WholeText],
     [Open EXCEPT !.age = 3, !.type = "date"]}

RowCount == [type |-> "row_count", name |-> "rows", severity |-> ERROR, minimum |-> 1, maximum |-> 2]
NullRatio == [type |-> "null_ratio", name |-> "nulls", severity |-> WARNING, column |-> a, ratio |-> <<1, 3>>]
Conditional == [type |-> "conditional_not_null", name |-> "cond", severity |-> CRITICAL,
                when |-> b, equals |-> {<<"int", 2>>, <<"float", 2>>}, column |-> a]
Balance == [type |-> "aggregate_reconciliation", name |-> "sum", severity |-> ERROR,
            column |-> a, right |-> b, tolerance |-> 0]

Base == [name |-> "orders", id |-> "o1", description |-> "first", required |-> {}, closed |-> FALSE,
         extraSeverity |-> WARNING, rules |-> <<>>, dataset |-> {}]

MCContracts ==
    {[Base EXCEPT !.required = {a}, !.rules = a :> rule, !.dataset = {NullRatio, Conditional}] : rule \in ColumnRules}
    \union
    {[Base EXCEPT !.required = {b}, !.closed = TRUE, !.rules = b :> rule, !.dataset = {RowCount, Balance}] :
        rule \in {Open, [Open EXCEPT !.unique = TRUE, !.nullable = FALSE, !.severity = INFO]}}
    \union
    {[Base EXCEPT !.description = "second"],
     [Base EXCEPT !.required = {a, b}, !.rules = (a :> Open) @@ (b :> Open), !.dataset = {RowCount}]}

Cells == Texts \union {Blank}

\* One column of any cells, and two of which the second holds numbers.
MCFiles ==
    [header : {<<a>>}, rows : UNION {[1..n -> [{a} -> Cells]] : n \in 0..MaxRows}]
    \union
    [header : {<<a, b>>}, rows : UNION {[1..n -> {r \in [{a, b} -> Cells] : r[b] \in Numbers}] : n \in 0..(MaxRows - 2)}]

Column(type, nullable) == [type |-> type, nullable |-> nullable]

MCRequests ==
    [contract : MCContracts, baseline : {None}] \union
    [contract : {Base},
     baseline : {a :> Column("string", FALSE) @@ b :> Column("integer", FALSE), b :> Column("string", TRUE)}]

\* A column of one number, with an empty cell in its second batch: in memory the numbers are
\* held as 1.0, and as 1 by the first batch.
MCWidenedFiles ==
    {[header |-> <<a>>, rows |-> [r \in 1..4 |-> a :> IF r = 4 THEN Blank ELSE 1]]}

MCWidenedRequests ==
    {[contract |-> [Base EXCEPT !.required = {a},
                                !.rules = a :> [Open EXCEPT !.unique = TRUE, !.malformed = Values \ WholeText]],
      baseline |-> None]}
=============================================================================
