------------------------- MODULE StreamedRules_proofs -------------------------
(***************************************************************************)
(* Theorems about StreamedRules and the rules of ContractRules, for any    *)
(* contracts, files, batches and limits.                                   *)
(***************************************************************************)
EXTENDS StreamedRules, FiniteSetTheorems, WellFoundedInduction, TLAPS

-----------------------------------------------------------------------------
(* Two contracts. *)

\* A change without a breaking or potentially breaking part has none of them.
LEMMA MaxOfClasses ==
  ASSUME NEW S, S \subseteq NONE..BREAKING, Max(S) <= NONBREAKING
  PROVE  BREAKING \notin S /\ POTENTIALLY \notin S
  <1> USE DEF NONE, NONBREAKING, POTENTIALLY, BREAKING
  <1>1. CASE 4 \in S
    <2>1. 4 \in S /\ \A y \in S : 4 >= y
      BY <1>1
    <2>2. Max(S) \in S /\ \A y \in S : Max(S) >= y
      BY <2>1 DEF Max
    <2>3. Max(S) \in 0..4 /\ Max(S) >= 4
      BY <1>1, <2>2
    <2> QED BY <2>3
  <1>2. CASE 4 \notin S /\ 3 \in S
    <2>1. 3 \in S /\ \A y \in S : 3 >= y
      BY <1>2
    <2>2. Max(S) \in S /\ \A y \in S : Max(S) >= y
      BY <2>1 DEF Max
    <2>3. Max(S) \in 0..4 /\ Max(S) >= 3
      BY <1>2, <2>2
    <2> QED BY <2>3
  <1> QED BY <1>1, <1>2

LEMMA ClassesBounded ==
  ASSUME NEW old, NEW new
  PROVE  /\ RuleClasses(old, new) \subseteq NONE..BREAKING
         /\ DatasetRuleClasses(old, new) \subseteq NONE..BREAKING
  <1> USE DEF NONE, DOCUMENTATION, NONBREAKING, POTENTIALLY, BREAKING
  <1>1. \A changed : \A class \in 0..4 : Class(changed, class) \subseteq 0..4
    BY DEF Class
  <1>2. \A x, y, inwards : BoundClass(x, y, inwards) \subseteq 0..4
    BY DEF BoundClass
  <1>3. \A x, y : MinimumClass(x, y) \subseteq 0..4 /\ MaximumClass(x, y) \subseteq 0..4
    BY <1>2 DEF MinimumClass, MaximumClass
  <1>4. \A x, y : AllowedClass(x, y) \subseteq 0..4
    BY DEF AllowedClass
  <1>5. RuleClasses(old, new) \subseteq 0..4
    BY <1>1, <1>3, <1>4 DEF RuleClasses
  <1>6. DatasetRuleClasses(old, new) \subseteq 0..4
    BY DEF DatasetRuleClasses, Class
  <1> QED BY <1>5, <1>6

\* What a compatible change leaves alone: it requires no other column and has rules for no
\* other, and each rule refuses no more; nor has it other dataset rules.
LEMMA CompatibleParts ==
  ASSUME NEW older, NEW newer, IsContract(older), IsContract(newer),
         DiffContracts(older, newer) <= NONBREAKING
  PROVE  /\ newer.required \subseteq older.required
         /\ DOMAIN newer.rules \subseteq DOMAIN older.rules
         /\ \A c \in DOMAIN newer.rules :
                LET classes == RuleClasses(older.rules[c], newer.rules[c])
                IN  BREAKING \notin classes /\ POTENTIALLY \notin classes
         /\ POTENTIALLY \notin DatasetRuleClasses(older.dataset, newer.dataset)
  <1> DEFINE shared == DOMAIN older.rules \intersect DOMAIN newer.rules
             fresh  == DOMAIN newer.rules \ DOMAIN older.rules
             S1 == Class(newer.required \ older.required # {}, BREAKING)
             S2 == Class(fresh \ newer.required # {}, POTENTIALLY)
             S3 == Class(fresh \intersect newer.required # {}, BREAKING)
             S4 == UNION {RuleClasses(older.rules[c], newer.rules[c]) : c \in shared}
             S5 == DatasetRuleClasses(older.dataset, newer.dataset)
             S6 == Class(older.name # newer.name, BREAKING)
             S7 == Class(older.id # newer.id, POTENTIALLY)
             S8 == Class(older.description # newer.description, DOCUMENTATION)
             S9 == Class(older.required \ newer.required # {}, NONBREAKING)
             S0 == Class(DOMAIN older.rules \ DOMAIN newer.rules # {}, NONBREAKING)
             S == {NONE} \union S6 \union S7 \union S8 \union S1 \union S9 \union S2 \union S3
                         \union S0 \union S4 \union S5
  <1>1. Max(S) <= NONBREAKING
    <2>1. DiffContracts(older, newer) = Max(S)
      BY Zenon DEF DiffContracts
    <2> QED BY <2>1
  <1>2. S4 \subseteq NONE..BREAKING /\ S5 \subseteq NONE..BREAKING
    BY ClassesBounded
  <1>3. /\ S1 \subseteq NONE..BREAKING /\ S2 \subseteq NONE..BREAKING /\ S3 \subseteq NONE..BREAKING
        /\ S6 \subseteq NONE..BREAKING /\ S7 \subseteq NONE..BREAKING /\ S8 \subseteq NONE..BREAKING
        /\ S9 \subseteq NONE..BREAKING /\ S0 \subseteq NONE..BREAKING /\ NONE \in NONE..BREAKING
    BY DEF Class, NONE, DOCUMENTATION, NONBREAKING, POTENTIALLY, BREAKING
  <1>4. BREAKING \notin S1 /\ POTENTIALLY \notin S2 /\ BREAKING \notin S3
        /\ BREAKING \notin S4 /\ POTENTIALLY \notin S4 /\ POTENTIALLY \notin S5
    <2> HIDE DEF S1, S2, S3, S4, S5, S6, S7, S8, S9, S0
    <2>1. S \subseteq NONE..BREAKING
      BY <1>2, <1>3
    <2>2. BREAKING \notin S /\ POTENTIALLY \notin S
      <3> HIDE DEF S
      <3> QED BY <1>1, <2>1, MaxOfClasses
    <2> QED BY <2>2
  <1>5. newer.required \ older.required = {} /\ fresh = {}
    <2>1. ~ (newer.required \ older.required # {})
      BY <1>4 DEF Class
    <2>2. ~ (fresh \ newer.required # {}) /\ ~ (fresh \intersect newer.required # {})
      <3> HIDE DEF fresh
      <3> QED BY <1>4 DEF Class
    <2> QED BY <2>1, <2>2
  <1> QED BY <1>4, <1>5

\* What to_numeric makes of a cell is a number.
LEMMA NumbersOfCells == \A v \in NumberCells : v[2] \in Int
  <1>1. \A v \in NumberCells : v[2] \in Numbers
    BY Zenon DEF NumberCells
  <1>2. \A n \in Numbers : n \in Int
    BY CellAssumption
  <1> QED BY <1>1, <1>2

\* A rule whose change is compatible refuses no more cells.
LEMMA RefusesNoMore ==
  ASSUME NEW old \in ColumnRule, NEW new \in ColumnRule, old.malformed = new.malformed, old.strict = new.strict,
         BREAKING \notin RuleClasses(old, new), POTENTIALLY \notin RuleClasses(old, new)
  PROVE  /\ new.unique => old.unique
         /\ DOMAIN Refused(new) = DOMAIN Refused(old)
         /\ \A check \in DOMAIN Refused(new) : Refused(new)[check] \subseteq Refused(old)[check]
  <1>1. /\ ~ (old.type # new.type) /\ ~ (old.nullable /\ ~ new.nullable)
        /\ ~ (~ old.unique /\ new.unique)
        /\ BREAKING \notin MinimumClass(old.minimum, new.minimum)
        /\ BREAKING \notin MaximumClass(old.maximum, new.maximum)
        /\ BREAKING \notin AllowedClass(old.allowed, new.allowed)
        /\ POTENTIALLY \notin AllowedClass(old.allowed, new.allowed)
        /\ BREAKING \notin MaximumClass(old.age, new.age)
    BY DEF RuleClasses, Class
  <1>2. /\ old.nullable \in BOOLEAN /\ new.nullable \in BOOLEAN
        /\ old.unique \in BOOLEAN /\ new.unique \in BOOLEAN
        /\ old.minimum \in Int \union {None} /\ new.minimum \in Int \union {None}
        /\ old.maximum \in Int \union {None} /\ new.maximum \in Int \union {None}
        /\ old.age \in Int \union {None} /\ new.age \in Int \union {None}
    BY DEF ColumnRule
  <1>3. new.minimum = None \/ (old.minimum # None /\ new.minimum <= old.minimum)
    BY <1>1, <1>2 DEF MinimumClass, BoundClass
  <1>4. new.maximum = None \/ (old.maximum # None /\ new.maximum >= old.maximum)
    BY <1>1, <1>2 DEF MaximumClass, BoundClass
  <1>5. new.age = None \/ (old.age # None /\ new.age >= old.age)
    BY <1>1, <1>2 DEF MaximumClass, BoundClass
  <1>6. new.allowed = None \/ new.allowed = old.allowed
    BY <1>1 DEF AllowedClass
  <1>7. DOMAIN Refused(new) = DOMAIN Refused(old)
    BY DEF Refused
  <1>8. Refused(new).nullable \subseteq Refused(old).nullable
    BY <1>1, <1>2 DEF Refused
  <1>9. Refused(new).type = Refused(old).type /\ Refused(new).malformed = Refused(old).malformed
    BY <1>1 DEF Refused
  <1>10. Refused(new).minimum \subseteq Refused(old).minimum
    <2>1. \A v \in NumberCells : v[2] \in Int
      BY NumbersOfCells
    <2>2. \A v \in NumberCells : new.minimum # None /\ v[2] < new.minimum
                                   => old.minimum # None /\ v[2] < old.minimum
      BY <1>2, <1>3, <2>1, CellAssumption
    <2> QED BY <2>2 DEF Refused
  <1>11. Refused(new).maximum \subseteq Refused(old).maximum
    <2>1. \A v \in NumberCells : v[2] \in Int
      BY NumbersOfCells
    <2>2. \A v \in NumberCells : new.maximum # None /\ v[2] > new.maximum
                                   => old.maximum # None /\ v[2] > old.maximum
      BY <1>2, <1>4, <2>1, CellAssumption
    <2> QED BY <2>2 DEF Refused
  <1>12. Refused(new).maximum_age_hours \subseteq Refused(old).maximum_age_hours
    <2>1. \A d \in Dates : Age[d] \in Int
      BY CellAssumption
    <2>2. \A d \in Dates : new.age # None /\ Age[d] > new.age => old.age # None /\ Age[d] > old.age
      BY <1>2, <1>5, <2>1, CellAssumption
    <2> QED BY <2>2 DEF Refused
  <1>13. Refused(new).allowed_values \subseteq Refused(old).allowed_values
    BY <1>6 DEF Refused
  <1>14. DOMAIN Refused(new) = {"nullable", "type", "minimum", "maximum", "malformed",
                               "allowed_values", "maximum_age_hours"}
    BY DEF Refused
  <1>15. \A check \in DOMAIN Refused(new) : Refused(new)[check] \subseteq Refused(old)[check]
    BY <1>8, <1>9, <1>10, <1>11, <1>12, <1>13, <1>14
  <1> QED BY <1>1, <1>2, <1>7, <1>15

\* Whatever a file breaks of the newer contract, it breaks something as severe of the older.
LEMMA CompatibleFindings ==
  ASSUME NEW older, NEW newer, IsContract(older), IsContract(newer), NEW f,
         DiffContracts(older, newer) <= NONBREAKING, OverlookedIsSame(older, newer), ~ older.closed
  PROVE  \A x \in InMemoryFindings(newer, f, None) :
             \E y \in InMemoryFindings(older, f, None) : y.severity = x.severity
  <1>1. SchemaFindings(newer, f) \subseteq SchemaFindings(older, f)
    <2>1. newer.required \subseteq older.required /\ ~ newer.closed
      BY CompatibleParts DEF OverlookedIsSame
    <2> QED BY <2>1 DEF SchemaFindings
  <1>2. ASSUME NEW c \in DOMAIN newer.rules
        PROVE  /\ c \in DOMAIN older.rules
               /\ newer.rules[c].severity = older.rules[c].severity
               /\ newer.rules[c].unique => older.rules[c].unique
               /\ DOMAIN Refused(newer.rules[c]) = DOMAIN Refused(older.rules[c])
               /\ \A check \in DOMAIN Refused(newer.rules[c]) :
                      Refused(newer.rules[c])[check] \subseteq Refused(older.rules[c])[check]
    <2>1. /\ c \in DOMAIN older.rules
          /\ BREAKING \notin RuleClasses(older.rules[c], newer.rules[c])
          /\ POTENTIALLY \notin RuleClasses(older.rules[c], newer.rules[c])
      BY CompatibleParts
    <2>2. /\ newer.rules[c].severity = older.rules[c].severity
          /\ newer.rules[c].malformed = older.rules[c].malformed
          /\ newer.rules[c].strict = older.rules[c].strict
      BY <2>1 DEF OverlookedIsSame
    <2>3. older.rules[c] \in ColumnRule /\ newer.rules[c] \in ColumnRule
      BY <2>1 DEF IsContract
    <2> QED BY <2>1, <2>2, <2>3, RefusesNoMore
  <1>3. ASSUME NEW x \in ColumnFindings(newer, f)
        PROVE  \E y \in ColumnFindings(older, f) : y.severity = x.severity
    <2>1. PICK c \in DOMAIN newer.rules \intersect Columns(f) :
            \E check \in DOMAIN Refused(newer.rules[c]) :
                x \in FindingOfRows(<<"column", check>>, c, newer.rules[c].severity,
                                    RowsWith(f, c, Refused(newer.rules[c])[check]))
      BY DEF ColumnFindings
    <2>2. PICK check \in DOMAIN Refused(newer.rules[c]) :
            x \in FindingOfRows(<<"column", check>>, c, newer.rules[c].severity,
                                RowsWith(f, c, Refused(newer.rules[c])[check]))
      BY <2>1
    <2> DEFINE less == RowsWith(f, c, Refused(newer.rules[c])[check])
               more == RowsWith(f, c, Refused(older.rules[c])[check])
               y == Finding(<<"column", check>>, c, older.rules[c].severity, more)
    <2>3. less # {} /\ x.severity = newer.rules[c].severity
      BY <2>2 DEF FindingOfRows, Finding
    <2>4. less \subseteq more
      BY <1>2, <2>1, <2>2 DEF RowsWith
    <2>5. y \in FindingOfRows(<<"column", check>>, c, older.rules[c].severity, more)
      BY <2>3, <2>4 DEF FindingOfRows
    <2>6. check \in DOMAIN Refused(older.rules[c]) /\ c \in DOMAIN older.rules \intersect Columns(f)
      BY <1>2, <2>1, <2>2
    <2>7. y \in ColumnFindings(older, f)
      <3>1. y \in UNION {FindingOfRows(<<"column", k>>, c, older.rules[c].severity,
                                       RowsWith(f, c, Refused(older.rules[c])[k])) :
                            k \in DOMAIN Refused(older.rules[c])}
        <4> HIDE DEF y
        <4> QED BY <2>5, <2>6
      <3> HIDE DEF y, more
      <3> QED BY <2>6, <3>1 DEF ColumnFindings
    <2>8. y.severity = x.severity
      BY <1>2, <2>1, <2>3 DEF Finding
    <2> HIDE DEF y
    <2> QED BY <2>7, <2>8
  <1>4. ASSUME NEW x \in UniqueFindings(newer, f)
        PROVE  \E y \in UniqueFindings(older, f) : y.severity = x.severity
    <2>1. UniqueFindings(newer, f) \subseteq UniqueFindings(older, f)
      <3>1. \A c \in DOMAIN newer.rules \intersect Columns(f) :
              newer.rules[c].unique =>
                /\ c \in DOMAIN older.rules \intersect Columns(f) /\ older.rules[c].unique
                /\ older.rules[c].severity = newer.rules[c].severity
        BY <1>2
      <3> QED BY <3>1 DEF UniqueFindings
    <2> QED BY <2>1
  <1>5. newer.dataset \subseteq older.dataset
    <2> SUFFICES ASSUME NEW d \in newer.dataset PROVE d \in older.dataset
      OBVIOUS
    <2>1. /\ d.name \in {rule.name : rule \in older.dataset}
          /\ RuleNamed(older.dataset, d.name) = RuleNamed(newer.dataset, d.name)
      BY CompatibleParts DEF DatasetRuleClasses, Class
    <2>2. RuleNamed(newer.dataset, d.name) = d
      BY DEF RuleNamed, IsContract
    <2>3. RuleNamed(older.dataset, d.name) \in older.dataset
      BY <2>1 DEF RuleNamed
    <2> QED BY <2>1, <2>2, <2>3
  <1>6. ValidateDatasetRules(newer.dataset, f) \subseteq ValidateDatasetRules(older.dataset, f)
    BY <1>5 DEF ValidateDatasetRules
  <1>7. \A k : InMemoryFindings(k, f, None) =
                 SchemaFindings(k, f) \union ColumnFindings(k, f) \union UniqueFindings(k, f)
                 \union ValidateDatasetRules(k.dataset, f)
    BY DEF InMemoryFindings, ValidateColumns
  <1> QED BY <1>1, <1>3, <1>4, <1>6, <1>7

\* The arguments of a run.
Arguments == contract \in {q.contract : q \in Requests} /\ file \in Files

LEMMA ArgumentsStay == Spec => []Arguments
  <1>1. Init => Arguments
    BY DEF Init, Arguments
  <1>2. Arguments /\ [Next]_vars => Arguments'
    BY DEF Next, AddBatch, Finished, vars, Arguments
  <1> QED BY <1>1, <1>2, PTL DEF Spec

\* A change classified as compatible rejects no file, when extra columns are allowed and the
\* settings the diff overlooks are the same in both contracts.
THEOREM CompatibleSafe == Spec => []CompatibleIsSafe
  <1>1. Arguments => CompatibleIsSafe
    <2> SUFFICES ASSUME Arguments,
                        NEW newer \in {q.contract : q \in Requests}, NEW failOn \in FailOn,
                        DiffContracts(contract, newer) <= NONBREAKING,
                        OverlookedIsSame(contract, newer), ~ contract.closed,
                        Passed(InMemoryFindings(contract, Whole(file), None), failOn)
                 PROVE  Passed(InMemoryFindings(newer, Whole(file), None), failOn)
      BY DEF CompatibleIsSafe
    <2>1. IsContract(contract) /\ IsContract(newer)
      BY RequestAssumption DEF Arguments
    <2>2. \A x \in InMemoryFindings(newer, Whole(file), None) :
            \E y \in InMemoryFindings(contract, Whole(file), None) : y.severity = x.severity
      BY <2>1, CompatibleFindings
    <2> QED BY <2>2 DEF Passed
  <1> QED BY <1>1, ArgumentsStay, PTL

-----------------------------------------------------------------------------
(* Sets of rows. *)

\* Some numbers have a least one.
LEMMA Least ==
  ASSUME NEW S, S \subseteq Nat, S # {}
  PROVE  \E x \in S : \A y \in S : x <= y
<1> DEFINE R == OpToRel(<, Nat)
<1>1. \E x \in S : \A y \in S : ~ (<<y, x>> \in R)
  BY NatLessThanWellFounded, WFMin
<1>2. \A x, y \in Nat : y < x => <<y, x>> \in R
  BY DEF OpToRel
<1> HIDE DEF R
<1>3. PICK x \in S : \A y \in S : ~ (<<y, x>> \in R)
  BY <1>1
<1>4. \A y \in S : ~ (y < x)
  BY <1>2, <1>3, Zenon
<1> QED
  BY <1>4

\* How many of some rows come before one.
Before(rows, r) == Cardinality({s \in rows : s < r})

LEMMA BeforeGrows ==
  ASSUME NEW rows, NEW more, IsFiniteSet(more), NEW r, \A s \in rows : s < r => s \in more
  PROVE  Before(rows, r) \in Nat /\ Before(rows, r) <= Before(more, r)
  <1>1. {s \in rows : s < r} \subseteq {s \in more : s < r}
    OBVIOUS
  <1>2. IsFiniteSet({s \in more : s < r})
    BY FS_Subset
  <1> QED BY <1>1, <1>2, FS_Subset, FS_CardinalityType DEF Before

\* The first rows of some rows are among them.
LEMMA SampleRowsOf ==
  ASSUME NEW rows, IsFiniteSet(rows)
  PROVE  SampleRows(rows) \subseteq rows /\ IsFiniteSet(SampleRows(rows))
  <1>1. SampleRows(rows) \subseteq rows
    BY DEF SampleRows
  <1> QED BY <1>1, FS_Subset

\* If there are rows that are not shown, as many as can be are shown.
LEMMA SampleRowsFull ==
  ASSUME NEW rows, IsFiniteSet(rows), rows \subseteq Nat, SampleRows(rows) # rows
  PROVE  Cardinality(SampleRows(rows)) >= SampleLimit
  <1>1. SampleRows(rows) \subseteq rows /\ IsFiniteSet(SampleRows(rows))
    BY SampleRowsOf
  <1> DEFINE hidden == rows \ SampleRows(rows)
  <1>2. PICK x \in hidden : \A y \in hidden : x <= y
    <2>1. hidden \subseteq Nat /\ hidden # {}
      BY <1>1
    <2> HIDE DEF hidden
    <2> QED BY <2>1, Least
  <1> DEFINE A == {s \in rows : s < x}
  <1>3. A \subseteq SampleRows(rows)
    <2> SUFFICES ASSUME NEW s \in A, s \notin SampleRows(rows) PROVE FALSE
      OBVIOUS
    <2>1. s \in hidden /\ s < x /\ s \in Nat /\ x \in Nat
      OBVIOUS
    <2>2. x <= s
      BY <1>2, <2>1
    <2> QED BY <2>1, <2>2
  <1>4. Cardinality(A) \in Nat /\ Cardinality(A) <= Cardinality(SampleRows(rows))
    BY <1>1, <1>3, FS_Subset, FS_CardinalityType
  <1>5. ~ (Cardinality(A) < SampleLimit)
    BY DEF SampleRows
  <1>6. Cardinality(SampleRows(rows)) \in Nat /\ SampleLimit \in Nat
    BY <1>1, FS_CardinalityType, LimitAssumption
  <1> HIDE DEF A
  <1> QED BY <1>4, <1>5, <1>6

\* The first of the first rows of two parts of a file, one after the other, are the first rows.
LEMMA SampleRowsJoin ==
  ASSUME NEW A, NEW B, IsFiniteSet(A), IsFiniteSet(B), A \subseteq Nat, B \subseteq Nat,
         \A r \in A : \A s \in B : r < s
  PROVE  SampleRows(SampleRows(A) \union SampleRows(B)) = SampleRows(A \union B)
  <1> DEFINE S == SampleRows(A) \union SampleRows(B)
             T == A \union B
  <1>1. /\ SampleRows(A) \subseteq A /\ IsFiniteSet(SampleRows(A))
        /\ SampleRows(B) \subseteq B /\ IsFiniteSet(SampleRows(B))
    BY SampleRowsOf
  <1>2. IsFiniteSet(S) /\ IsFiniteSet(T) /\ S \subseteq T /\ T \subseteq Nat
    BY <1>1, FS_Union
  <1>3. SampleLimit \in Nat
    BY LimitAssumption
  <1>4. \A X : SampleRows(X) = {r \in X : Before(X, r) < SampleLimit}
    BY DEF SampleRows, Before
  <1>5. \A X, r : IsFiniteSet(X) => Before(X, r) \in Nat
    BY BeforeGrows
  <1>6. \A X, Y, r : IsFiniteSet(X) /\ IsFiniteSet(Y) /\ (\A s \in X : s < r => s \in Y)
                       => Before(X, r) <= Before(Y, r)
    BY BeforeGrows
  <1>7. ASSUME NEW r \in SampleRows(T) PROVE r \in SampleRows(S)
    <2>1. r \in T /\ Before(T, r) < SampleLimit /\ Before(T, r) \in Nat
      BY <1>2, <1>4, <1>5
    <2>2. CASE r \in A
      <3>1. Before(A, r) <= Before(T, r) /\ Before(A, r) \in Nat
        BY <1>2, <1>5, <1>6
      <3>2. r \in SampleRows(A)
        BY <1>3, <1>4, <2>1, <2>2, <3>1
      <3>3. Before(S, r) <= Before(T, r) /\ Before(S, r) \in Nat
        BY <1>2, <1>5, <1>6
      <3> QED BY <1>3, <1>4, <2>1, <3>2, <3>3
    <2>3. CASE r \in B
      <3>1. Before(B, r) <= Before(T, r) /\ Before(B, r) \in Nat
        BY <1>2, <1>5, <1>6
      <3>2. r \in SampleRows(B)
        BY <1>3, <1>4, <2>1, <2>3, <3>1
      <3>3. Before(S, r) <= Before(T, r) /\ Before(S, r) \in Nat
        BY <1>2, <1>5, <1>6
      <3> QED BY <1>3, <1>4, <2>1, <3>2, <3>3
    <2> QED BY <2>1, <2>2, <2>3
  <1>8. ASSUME NEW r \in SampleRows(S) PROVE r \in SampleRows(T)
    <2>1. r \in S /\ r \in T /\ r \in Nat /\ Before(S, r) < SampleLimit /\ Before(S, r) \in Nat
      BY <1>2, <1>4, <1>5
    <2>2. CASE r \in A
      <3>1. r \in SampleRows(A)
        <4>1. r \notin B
          <5>1. ~ (r < r)
            BY <2>1
          <5> QED BY <2>2, <5>1
        <4> QED BY <1>1, <2>1, <4>1
      <3>2. Before(A, r) < SampleLimit /\ Before(A, r) \in Nat
        BY <1>4, <1>5, <3>1
      <3>3. \A s \in T : s < r => s \in A
        <4> SUFFICES ASSUME NEW s \in B, s < r PROVE FALSE
          OBVIOUS
        <4>1. r < s /\ r \in Nat /\ s \in Nat
          BY <2>1, <2>2
        <4> QED BY <4>1
      <3>4. Before(T, r) <= Before(A, r) /\ Before(T, r) \in Nat
        BY <1>2, <1>5, <1>6, <3>3
      <3> QED BY <1>3, <1>4, <2>1, <3>2, <3>4
    <2>3. CASE r \in B
      <3>1. r \in SampleRows(B)
        <4>1. r \notin A
          <5>1. ~ (r < r)
            BY <2>1
          <5> QED BY <2>3, <5>1
        <4> QED BY <1>1, <2>1, <4>1
      <3>2. Before(B, r) < SampleLimit /\ Before(B, r) \in Nat
        BY <1>4, <1>5, <3>1
      <3>3. SampleRows(A) = A
        <4> SUFFICES ASSUME SampleRows(A) # A PROVE FALSE
          OBVIOUS
        <4>1. Cardinality(SampleRows(A)) >= SampleLimit
          BY SampleRowsFull
        <4>2. SampleRows(A) \subseteq {s \in S : s < r}
          BY <1>1, <2>3
        <4>3. IsFiniteSet({s \in S : s < r})
          BY <1>2, FS_Subset
        <4>4. Cardinality(SampleRows(A)) <= Before(S, r) /\ Cardinality(SampleRows(A)) \in Nat
          BY <1>1, <4>2, <4>3, FS_Subset, FS_CardinalityType DEF Before
        <4> QED BY <1>3, <2>1, <4>1, <4>4
      <3>4. \A s \in B : s < r => s \in SampleRows(B)
        <4> SUFFICES ASSUME NEW s \in B, s < r PROVE s \in SampleRows(B)
          OBVIOUS
        <4>1. \A t \in B : t < s => t \in B /\ t < r
          <5> SUFFICES ASSUME NEW t \in B, t < s PROVE t < r
            OBVIOUS
          <5>1. t \in Nat /\ s \in Nat /\ r \in Nat
            BY <2>1
          <5> QED BY <5>1
        <4>2. {t \in B : t < s} \subseteq {t \in B : t < r}
          BY <4>1
        <4>3. IsFiniteSet({t \in B : t < r})
          BY FS_Subset
        <4>4. Before(B, s) <= Before(B, r) /\ Before(B, s) \in Nat
          BY <1>5, <4>2, <4>3, FS_Subset DEF Before
        <4> QED BY <1>3, <1>4, <3>2, <4>4
      <3>5. \A s \in T : s < r => s \in S
        BY <3>3, <3>4
      <3>6. Before(T, r) <= Before(S, r) /\ Before(T, r) \in Nat
        BY <1>2, <1>5, <1>6, <3>5
      <3> QED BY <1>3, <1>4, <2>1, <3>6
    <2> QED BY <2>1, <2>2, <2>3
  <1> HIDE DEF S, T
  <1>9. SampleRows(S) = SampleRows(T)
    BY <1>7, <1>8
  <1> QED BY <1>9 DEF S, T

\* Rows of a file as a batch that begins after the first n rows numbers them.
Back(rows, n) == {r - n : r \in rows}

LEMMA BackIsFinite ==
  ASSUME NEW n \in Nat, NEW rows, IsFiniteSet(rows), rows \subseteq Nat
  PROVE  IsFiniteSet(Back(rows, n)) /\ Cardinality(Back(rows, n)) = Cardinality(rows)
  <1> DEFINE f == [r \in rows |-> r - n]
  <1>1. \A r \in rows : r \in Nat
    OBVIOUS
  <1>2. f \in Bijection(rows, Back(rows, n))
    <2>1. f \in [rows -> Back(rows, n)]
      BY DEF Back
    <2>2. \A r, s \in rows : f[r] = f[s] => r = s
      BY <1>1
    <2>3. \A b \in Back(rows, n) : \E r \in rows : f[r] = b
      BY DEF Back
    <2> HIDE DEF f
    <2> QED BY <2>1, <2>2, <2>3 DEF Bijection, Injection, Surjection, IsInjective
  <1>3. ExistsBijection(rows, Back(rows, n))
    BY <1>2 DEF ExistsBijection
  <1> QED BY <1>3, FS_Bijection

\* The rows a batch shows, numbered as in the file.
LEMMA SampleRowsMoved ==
  ASSUME NEW n \in Nat, NEW rows, IsFiniteSet(rows), rows \subseteq Nat
  PROVE  {n + b : b \in SampleRows(Back(rows, n))} = SampleRows(rows)
  <1>1. ASSUME NEW r \in rows PROVE Before(Back(rows, n), r - n) = Before(rows, r)
    <2> DEFINE A == {s \in rows : s < r}
    <2>1. IsFiniteSet(A) /\ A \subseteq Nat
      BY FS_Subset
    <2>2. {b \in Back(rows, n) : b < r - n} = Back(A, n)
      <3>1. \A s \in rows : s \in Nat /\ r \in Nat /\ (s - n < r - n <=> s < r)
        OBVIOUS
      <3> QED BY <3>1 DEF Back
    <2> QED BY <2>1, <2>2, BackIsFinite DEF Before
  <1>2. \A X : SampleRows(X) = {r \in X : Before(X, r) < SampleLimit}
    BY DEF SampleRows, Before
  <1>3. \A r \in rows : n + (r - n) = r
    OBVIOUS
  <1>4. \A r \in rows : r - n \in SampleRows(Back(rows, n)) <=> r \in SampleRows(rows)
    BY <1>1, <1>2 DEF Back
  <1>5. \A b \in SampleRows(Back(rows, n)) : \E r \in rows : b = r - n
    BY <1>2 DEF Back
  <1>6. SampleRows(rows) \subseteq rows
    BY <1>2
  <1> DEFINE moved == {n + b : b \in SampleRows(Back(rows, n))}
  <1>7. ASSUME NEW x \in moved PROVE x \in SampleRows(rows)
    <2>1. PICK b \in SampleRows(Back(rows, n)) : x = n + b
      OBVIOUS
    <2>2. PICK r \in rows : b = r - n
      BY <1>5
    <2> QED BY <1>3, <1>4, <2>1, <2>2
  <1>8. ASSUME NEW r \in SampleRows(rows) PROVE r \in moved
    <2>1. r \in rows /\ r - n \in SampleRows(Back(rows, n)) /\ n + (r - n) = r
      BY <1>3, <1>4, <1>6
    <2> QED BY <2>1
  <1> HIDE DEF moved
  <1>9. moved = SampleRows(rows)
    BY <1>7, <1>8
  <1> QED BY <1>9 DEF moved

-----------------------------------------------------------------------------
(* The cells of a file as its batches hold them. *)

Frame == ByBatch(file)

\* Rows are read up to the start of a batch.
AtBatch == \E k \in Nat : done = k * BatchRows

\* What reading a file makes of its cells.
LEMMA ReadIs ==
  ASSUME NEW f, IsFile(f), NEW near, \A r \in DOMAIN f.rows : r \in near[r]
  PROVE  /\ ReadWith(f, near).header = f.header /\ Columns(ReadWith(f, near)) = Columns(f)
         /\ DOMAIN ReadWith(f, near).rows = DOMAIN f.rows
         /\ Len(ReadWith(f, near).rows) = Len(f.rows)
         /\ \A r \in DOMAIN f.rows, c \in Columns(f) :
               /\ ReadWith(f, near).rows[r][c] \in Values \union {Blank}
               /\ f.rows[r][c] = Word => ReadWith(f, near).rows[r][c] = <<"str", Word>>
  <1> DEFINE cell(r, c) == IF f.rows[r][c] = Blank THEN Blank
                           ELSE <<TypeOf({f.rows[s][c] : s \in near[r]}), f.rows[r][c]>>
             rows == [r \in DOMAIN f.rows |-> [c \in Columns(f) |-> cell(r, c)]]
  <1>1. ReadWith(f, near) = [header |-> f.header, rows |-> rows]
    BY DEF ReadWith
  <1>2. f.rows \in Seq([Columns(f) -> Texts \union {Blank}])
    BY DEF IsFile
  <1>3. DOMAIN f.rows = 1..Len(f.rows) /\ Len(f.rows) \in Nat
    BY <1>2
  <1>4. DOMAIN rows = DOMAIN f.rows
    OBVIOUS
  <1>5. Len(rows) = Len(f.rows)
    <2> HIDE DEF rows
    <2> QED BY <1>3, <1>4
  <1>6. ASSUME NEW r \in DOMAIN f.rows, NEW c \in Columns(f)
        PROVE  /\ cell(r, c) \in Values \union {Blank}
               /\ f.rows[r][c] = Word => cell(r, c) = <<"str", Word>>
    <2> DEFINE text == f.rows[r][c]
               texts == {f.rows[s][c] : s \in near[r]}
    <2>1. text \in Texts \union {Blank} /\ text \in texts
      BY <1>2, <1>3
    <2>2. Word # Blank /\ Word \in Texts
      BY CellAssumption DEF Texts
    <2>3. cell(r, c) = IF text = Blank THEN Blank ELSE <<TypeOf(texts), text>>
      OBVIOUS
    <2> HIDE DEF text, texts, cell
    <2>4. TypeOf(texts) \in {"str", "int", "float"} /\ (Word \in texts => TypeOf(texts) = "str")
      BY DEF TypeOf
    <2>5. CASE text = Word
      <3>1. cell(r, c) = <<"str", Word>>
        BY <2>1, <2>2, <2>3, <2>4, <2>5
      <3>2. <<"str", Word>> \in Values
        BY <2>2 DEF Values
      <3> QED BY <3>1, <3>2
    <2>6. CASE text = Blank
      BY <2>2, <2>3, <2>6 DEF text
    <2>7. CASE text \in Numbers
      <3>1. text # Word /\ text # Blank
        BY <2>7, CellAssumption DEF Texts
      <3>2. cell(r, c) = <<TypeOf(texts), text>>
        BY <2>3, <3>1
      <3>3. <<TypeOf(texts), text>> \in Values
        BY <2>4, <2>7 DEF Values, Texts
      <3> QED BY <3>1, <3>2, <3>3 DEF text
    <2> QED BY <2>1, <2>5, <2>6, <2>7 DEF Texts, text
  <1>7. \A r \in DOMAIN f.rows, c \in Columns(f) : rows[r][c] = cell(r, c)
    <2> HIDE DEF cell
    <2> QED OBVIOUS
  <1> HIDE DEF rows, cell
  <1> QED BY <1>1, <1>4, <1>5, <1>6, <1>7 DEF Columns

\* A row is in its batch.
LEMMA InItsBatch ==
  ASSUME Arguments
  PROVE  /\ \A r \in DOMAIN file.rows : r \in BatchOf(file, r)
         /\ Len(file.rows) \in Nat /\ DOMAIN file.rows = 1..Len(file.rows) /\ IsFile(file)
  <1>1. IsFile(file)
    BY FileAssumption DEF Arguments
  <1>2. file.rows \in Seq([Columns(file) -> Texts \union {Blank}])
    BY <1>1 DEF IsFile
  <1>3. Len(file.rows) \in Nat /\ DOMAIN file.rows = 1..Len(file.rows)
    BY <1>2
  <1>4. ASSUME NEW r \in DOMAIN file.rows PROVE r \in BatchOf(file, r)
    <2> DEFINE bad == {k \in Nat : r <= k * BatchRows}
    <2>1. BatchRows \in Nat /\ BatchRows >= 1 /\ r \in Nat /\ r >= 1
      BY <1>3, BatchAssumption
    <2>2. r <= r * BatchRows
      BY <2>1
    <2>3. PICK k \in bad : \A j \in bad : k <= j
      <3>1. bad \subseteq Nat /\ r \in bad
        BY <2>1, <2>2
      <3> HIDE DEF bad
      <3> QED BY <3>1, Least
    <2>4. k \in Nat /\ r <= k * BatchRows /\ k <= r
      BY <2>1, <2>2, <2>3
    <2>5. k # 0
      BY <2>1, <2>4
    <2>6. k - 1 \in 0..r
      BY <2>1, <2>4, <2>5
    <2>7. ~ (r <= (k - 1) * BatchRows)
      BY <2>3, <2>4, <2>5
    <2>8. k * BatchRows = (k - 1) * BatchRows + BatchRows /\ (k - 1) * BatchRows \in Nat
      BY <2>1, <2>4, <2>5
    <2>9. {r, r} \subseteq ((k - 1) * BatchRows + 1)..((k - 1) * BatchRows + BatchRows)
      BY <2>1, <2>4, <2>7, <2>8
    <2> QED BY <2>6, <2>9 DEF BatchOf
  <1> QED BY <1>1, <1>3, <1>4

LEMMA FrameIs ==
  ASSUME Arguments
  PROVE  /\ Frame.header = file.header /\ Columns(Frame) = Columns(file)
         /\ DOMAIN Frame.rows = DOMAIN file.rows /\ Len(Frame.rows) = Len(file.rows)
         /\ \A r \in DOMAIN file.rows, c \in Columns(file) :
               /\ Frame.rows[r][c] \in Values \union {Blank}
               /\ file.rows[r][c] = Word => Frame.rows[r][c] = <<"str", Word>>
  <1> DEFINE near == [r \in DOMAIN file.rows |-> BatchOf(file, r)]
  <1>1. IsFile(file) /\ \A r \in DOMAIN file.rows : r \in near[r]
    BY InItsBatch
  <1>2. Frame = ReadWith(file, near)
    BY DEF Frame, ByBatch
  <1> HIDE DEF near
  <1> QED BY <1>1, <1>2, ReadIs

LEMMA FrameCells ==
  ASSUME Arguments
  PROVE  /\ Len(Frame.rows) \in Nat /\ DOMAIN Frame.rows = 1..Len(Frame.rows)
         /\ \A r \in 1..Len(Frame.rows), c \in Columns(Frame) : Frame.rows[r][c] \in Values \union {Blank}
         /\ Len(Frame.header) \in Nat /\ DOMAIN Frame.header = 1..Len(Frame.header)
         /\ \A c : c \in Columns(Frame) <=> \E i \in 1..Len(Frame.header) : Frame.header[i] = c
         /\ \A i, j \in 1..Len(Frame.header) : Frame.header[i] = Frame.header[j] => i = j
  <1> DEFINE header == file.header
  <1>1. header \in Seq(Columns(file)) /\ IsInjective(header)
    BY InItsBatch DEF IsFile
  <1>2. Len(header) \in Nat /\ DOMAIN header = 1..Len(header)
    BY <1>1
  <1>3. \A c : c \in Columns(file) <=> \E i \in 1..Len(header) : header[i] = c
    BY <1>2 DEF Columns, ToSet
  <1>4. \A i, j \in 1..Len(header) : header[i] = header[j] => i = j
    BY <1>1, <1>2 DEF IsInjective
  <1>5. Frame.header = header /\ Columns(Frame) = Columns(file)
    BY FrameIs
  <1>6. /\ Len(Frame.rows) \in Nat /\ DOMAIN Frame.rows = 1..Len(Frame.rows)
        /\ \A r \in 1..Len(Frame.rows), c \in Columns(Frame) : Frame.rows[r][c] \in Values \union {Blank}
    BY FrameIs, InItsBatch
  <1> HIDE DEF header
  <1> QED BY <1>2, <1>3, <1>4, <1>5, <1>6

-----------------------------------------------------------------------------
(* What is looked at row by row: a rule id, a column, a severity and the rows that break it. *)

CheckNames == {"nullable", "type", "minimum", "maximum", "malformed", "allowed_values",
               "maximum_age_hours"}

RowRuleTypes == {"conditional_not_null", "aggregate_reconciliation"}

RowRules(k, f) == {d \in k.dataset : d.type \in RowRuleTypes /\ ColumnsOf(d) \subseteq Columns(f)}

ColumnCheck(k, f, c, check) ==
    [rule |-> <<"column", check>>, column |-> c, severity |-> k.rules[c].severity,
     rows |-> RowsWith(f, c, Refused(k.rules[c])[check])]

DatasetCheck(f, d) ==
    [rule |-> RuleId(d), column |-> d.column, severity |-> d.severity, rows |-> BreakingRows(d, f.rows)]

Checks(k, f) ==
    {ColumnCheck(k, f, p[1], p[2]) : p \in (DOMAIN k.rules \intersect Columns(f)) \X CheckNames}
    \union {DatasetCheck(f, d) : d \in RowRules(k, f)}

\* The rows from one to another that break a check, and what is found of them.
Between(check, from, to) == {r \in check.rows : from < r /\ r <= to}

Found(check, rows) == Finding(check.rule, check.column, check.severity, rows)

FindingsOf(checks, from, to) ==
    {Found(check, Between(check, from, to)) : check \in {l \in checks : Between(l, from, to) # {}}}

\* What the findings of a contract are, but for the rules that need the whole file.
LEMMA FindingsAreOfChecks ==
  ASSUME NEW k, NEW f
  PROVE  ColumnFindings(k, f) \union (UNION {DatasetRuleFindings(d, f) :
                                              d \in {e \in k.dataset : e.type \in RowRuleTypes}})
           = {Found(check, check.rows) : check \in {l \in Checks(k, f) : l.rows # {}}}
  <1> DEFINE found == {Found(check, check.rows) : check \in {l \in Checks(k, f) : l.rows # {}}}
             types == {e \in k.dataset : e.type \in RowRuleTypes}
             ofRules == UNION {DatasetRuleFindings(d, f) : d \in types}
  <1>1. \A c : DOMAIN Refused(k.rules[c]) = CheckNames
    BY DEF Refused, CheckNames
  <1>2. ASSUME NEW c \in DOMAIN k.rules \intersect Columns(f), NEW check \in CheckNames
        PROVE  /\ ColumnCheck(k, f, c, check) \in Checks(k, f)
               /\ FindingOfRows(<<"column", check>>, c, k.rules[c].severity,
                                RowsWith(f, c, Refused(k.rules[c])[check])) =
                    IF ColumnCheck(k, f, c, check).rows = {} THEN {}
                    ELSE {Found(ColumnCheck(k, f, c, check), ColumnCheck(k, f, c, check).rows)}
    <2>1. <<c, check>> \in (DOMAIN k.rules \intersect Columns(f)) \X CheckNames
          /\ <<c, check>>[1] = c /\ <<c, check>>[2] = check
      OBVIOUS
    <2>2. ColumnCheck(k, f, c, check) \in Checks(k, f)
      BY <2>1 DEF Checks
    <2>3. /\ ColumnCheck(k, f, c, check).rule = <<"column", check>>
          /\ ColumnCheck(k, f, c, check).column = c
          /\ ColumnCheck(k, f, c, check).severity = k.rules[c].severity
          /\ ColumnCheck(k, f, c, check).rows = RowsWith(f, c, Refused(k.rules[c])[check])
      BY DEF ColumnCheck
    <2> QED BY <2>2, <2>3 DEF FindingOfRows, Found
  <1>3. ASSUME NEW d \in types
        PROVE  /\ d \in RowRules(k, f) => DatasetCheck(f, d) \in Checks(k, f)
               /\ DatasetRuleFindings(d, f) =
                    IF d \notin RowRules(k, f) \/ DatasetCheck(f, d).rows = {} THEN {}
                    ELSE {Found(DatasetCheck(f, d), DatasetCheck(f, d).rows)}
    <2>1. d \in RowRules(k, f) => DatasetCheck(f, d) \in Checks(k, f)
      BY DEF Checks
    <2>2. d.type # "row_count" /\ d.type # "null_ratio"
      BY DEF RowRuleTypes
    <2>3. d \in RowRules(k, f) <=> ColumnsOf(d) \subseteq Columns(f)
      BY DEF RowRules
    <2>4. /\ DatasetCheck(f, d).rule = RuleId(d) /\ DatasetCheck(f, d).column = d.column
          /\ DatasetCheck(f, d).severity = d.severity
          /\ DatasetCheck(f, d).rows = BreakingRows(d, f.rows)
      BY DEF DatasetCheck
    <2> QED BY <2>1, <2>2, <2>3, <2>4 DEF DatasetRuleFindings, FindingOfRows, Found
  <1>4. ColumnFindings(k, f) \subseteq found
    <2> SUFFICES ASSUME NEW x \in ColumnFindings(k, f) PROVE x \in found
      OBVIOUS
    <2>1. PICK c \in DOMAIN k.rules \intersect Columns(f) : \E check \in DOMAIN Refused(k.rules[c]) :
            x \in FindingOfRows(<<"column", check>>, c, k.rules[c].severity,
                                RowsWith(f, c, Refused(k.rules[c])[check]))
      BY DEF ColumnFindings
    <2>2. PICK check \in CheckNames :
            x \in FindingOfRows(<<"column", check>>, c, k.rules[c].severity,
                                RowsWith(f, c, Refused(k.rules[c])[check]))
      BY <1>1, <2>1
    <2> DEFINE l == ColumnCheck(k, f, c, check)
    <2>3. l \in Checks(k, f) /\ l.rows # {} /\ x = Found(l, l.rows)
      <3>1. x \in IF l.rows = {} THEN {} ELSE {Found(l, l.rows)}
        BY <1>2, <2>2
      <3> HIDE DEF l
      <3> QED BY <1>2, <3>1 DEF l
    <2> HIDE DEF l
    <2> QED BY <2>3
  <1>5. ofRules \subseteq found
    <2> SUFFICES ASSUME NEW d \in types, NEW x \in DatasetRuleFindings(d, f) PROVE x \in found
      OBVIOUS
    <2> DEFINE l == DatasetCheck(f, d)
    <2>1. l \in Checks(k, f) /\ l.rows # {} /\ x = Found(l, l.rows)
      <3> HIDE DEF l, types
      <3> QED BY <1>3 DEF l
    <2> HIDE DEF l
    <2> QED BY <2>1
  <1>6. ASSUME NEW x \in found PROVE x \in ColumnFindings(k, f) \union ofRules
    <2>1. PICK l \in Checks(k, f) : l.rows # {} /\ x = Found(l, l.rows)
      OBVIOUS
    <2>2. CASE \E p \in (DOMAIN k.rules \intersect Columns(f)) \X CheckNames :
                  l = ColumnCheck(k, f, p[1], p[2])
      <3>1. PICK c \in DOMAIN k.rules \intersect Columns(f), check \in CheckNames :
              l = ColumnCheck(k, f, c, check)
        BY <2>2
      <3>2. x \in FindingOfRows(<<"column", check>>, c, k.rules[c].severity,
                                RowsWith(f, c, Refused(k.rules[c])[check]))
        BY <1>2, <2>1, <3>1
      <3>3. x \in UNION {FindingOfRows(<<"column", check2>>, c, k.rules[c].severity,
                                       RowsWith(f, c, Refused(k.rules[c])[check2])) :
                            check2 \in DOMAIN Refused(k.rules[c])}
        BY <1>1, <3>2
      <3>4. x \in ColumnFindings(k, f)
        BY <3>3 DEF ColumnFindings
      <3> QED BY <3>4
    <2>3. CASE \E d \in RowRules(k, f) : l = DatasetCheck(f, d)
      <3>1. PICK d \in RowRules(k, f) : l = DatasetCheck(f, d)
        BY <2>3
      <3>2. d \in types
        BY DEF RowRules
      <3>3. x \in DatasetRuleFindings(d, f)
        <4> HIDE DEF types
        <4> QED BY <1>3, <2>1, <3>1, <3>2
      <3>4. x \in ofRules
        BY <3>2, <3>3
      <3> QED BY <3>4
    <2> QED BY <2>2, <2>3 DEF Checks
  <1> HIDE DEF found, ofRules
  <1>7. ColumnFindings(k, f) \union ofRules = found
    BY <1>4, <1>5, <1>6
  <1> QED BY <1>7 DEF found, ofRules

-----------------------------------------------------------------------------
(* A batch. *)

\* Rows read, and the next batch.
LEMMA NextRowBounds ==
  ASSUME Arguments, done \in 0..Len(Frame.rows), done < Len(Frame.rows), AtBatch
  PROVE  /\ done \in Nat /\ NextRow \in Nat /\ done < NextRow /\ NextRow <= Len(Frame.rows)
         /\ Len(Frame.rows) \in Nat /\ DOMAIN Frame.rows = 1..Len(Frame.rows)
  <1>1. Len(Frame.rows) = Len(file.rows)
    BY FrameIs
  <1>2. Len(Frame.rows) \in Nat /\ DOMAIN Frame.rows = 1..Len(Frame.rows)
    BY FrameCells
  <1> QED BY <1>1, <1>2, BatchAssumption DEF NextRow

\* The rows of the next batch are those read together with any of them.
LEMMA BatchOfNext ==
  ASSUME Arguments, done \in 0..Len(Frame.rows), done < Len(Frame.rows), AtBatch,
         NEW r \in (done + 1)..NextRow
  PROVE  r \in DOMAIN file.rows /\ BatchOf(file, r) = (done + 1)..NextRow
  <1>1. /\ done \in Nat /\ NextRow \in Nat /\ done < NextRow /\ NextRow <= Len(file.rows)
        /\ Len(file.rows) \in Nat /\ DOMAIN file.rows = 1..Len(file.rows)
    BY NextRowBounds, FrameIs, InItsBatch
  <1>2. PICK k \in Nat : done = k * BatchRows
    BY DEF AtBatch
  <1>3. BatchRows \in Nat /\ BatchRows >= 1
    BY BatchAssumption
  <1>4. NextRow <= done + BatchRows
        /\ \A s \in 1..Len(file.rows) : s <= done + BatchRows => s <= NextRow
    BY <1>1, <1>3 DEF NextRow
  <1>5. r \in Nat /\ done + 1 <= r /\ r <= NextRow /\ r \in DOMAIN file.rows
    BY <1>1
  <1>6. \A j \in Nat : /\ j < k => j * BatchRows + BatchRows <= k * BatchRows
                       /\ k < j => k * BatchRows + BatchRows <= j * BatchRows
    <2>1. \A i, j \in Nat : i < j => i * BatchRows + BatchRows <= j * BatchRows
      <3> SUFFICES ASSUME NEW i \in Nat, NEW j \in Nat, i < j
                   PROVE  i * BatchRows + BatchRows <= j * BatchRows
        OBVIOUS
      <3>1. (i + 1) * BatchRows <= j * BatchRows
        BY <1>3
      <3>2. (i + 1) * BatchRows = i * BatchRows + BatchRows
        BY <1>3
      <3> QED BY <3>1, <3>2
    <2> QED BY <2>1
  <1>7. k <= k * BatchRows
    BY <1>3
  <1>8. ASSUME NEW s \in (done + 1)..NextRow PROVE s \in BatchOf(file, r)
    <2>1. s \in Nat /\ done + 1 <= s /\ s <= done + BatchRows /\ s \in DOMAIN file.rows
      BY <1>1, <1>3, <1>4
    <2>2. {r, s} \subseteq (k * BatchRows + 1)..(k * BatchRows + BatchRows)
      BY <1>1, <1>2, <1>3, <1>4, <1>5, <2>1
    <2>3. k \in 0..r
      BY <1>1, <1>2, <1>5, <1>7
    <2> QED BY <2>1, <2>2, <2>3 DEF BatchOf
  <1>9. ASSUME NEW s \in BatchOf(file, r) PROVE s \in (done + 1)..NextRow
    <2>1. PICK j \in 0..r : {r, s} \subseteq (j * BatchRows + 1)..(j * BatchRows + BatchRows)
      BY DEF BatchOf
    <2>2. s \in DOMAIN file.rows /\ j \in Nat
      BY <1>5 DEF BatchOf
    <2> DEFINE a == j * BatchRows
               b == k * BatchRows
    <2>3. a \in Nat /\ b \in Nat
      BY <1>3, <2>2
    <2>4. /\ a + 1 <= r /\ r <= a + BatchRows /\ a + 1 <= s /\ s <= a + BatchRows
      BY <1>3, <2>1, <2>3
    <2>5. ~ (j < k)
      <3>1. j < k => a + BatchRows <= b
        BY <1>6, <2>2
      <3> HIDE DEF a, b
      <3> QED BY <1>1, <1>2, <1>3, <1>5, <2>3, <2>4, <3>1 DEF b
    <2>6. ~ (k < j)
      <3>1. k < j => b + BatchRows <= a
        BY <1>6, <2>2
      <3>2. r <= b + BatchRows
        BY <1>1, <1>2, <1>3, <1>4, <1>5
      <3> HIDE DEF a, b
      <3> QED BY <1>3, <1>5, <2>3, <2>4, <3>1, <3>2
    <2>7. a = done
      BY <1>2, <2>2, <2>5, <2>6
    <2> HIDE DEF a, b
    <2> QED BY <1>1, <1>4, <2>2, <2>3, <2>4, <2>7
  <1> QED BY <1>5, <1>8, <1>9

LEMMA BatchIs ==
  ASSUME Arguments, done \in 0..Len(Frame.rows), done < Len(Frame.rows), AtBatch
  PROVE  /\ Batch.header = Frame.header /\ Columns(Batch) = Columns(Frame)
         /\ DOMAIN Batch.rows = 1 .. NextRow - done /\ Len(Batch.rows) = NextRow - done
         /\ \A i \in 1 .. NextRow - done : done + i \in DOMAIN Frame.rows
                                           /\ Batch.rows[i] = Frame.rows[done + i]
  <1> DEFINE m == NextRow
             part == SubSeq(file.rows, done + 1, m)
             f == [file EXCEPT !.rows = part]
             cell(rows, r, near, c) == IF rows[r][c] = Blank THEN Blank
                                       ELSE <<TypeOf({rows[s][c] : s \in near}), rows[r][c]>>
             r1 == [r \in DOMAIN part |-> [c \in Columns(file) |-> cell(part, r, DOMAIN part, c)]]
  <1>1. file.rows \in Seq([Columns(file) -> Texts \union {Blank}])
        /\ DOMAIN file = {"header", "rows"}
    BY InItsBatch DEF IsFile
  <1>2. done \in Nat /\ m \in Nat /\ done < m /\ m <= Len(file.rows) /\ Len(file.rows) \in Nat
        /\ DOMAIN file.rows = 1..Len(file.rows) /\ DOMAIN Frame.rows = DOMAIN file.rows
        /\ Frame.header = file.header /\ Columns(Frame) = Columns(file)
    BY NextRowBounds, FrameIs, InItsBatch
  <1>3. Batch = Whole(f) /\ f.header = file.header /\ f.rows = part
    BY <1>1 DEF Batch
  <1>4. /\ \A r \in (done + 1)..m : BatchOf(file, r) = (done + 1)..m
    BY BatchOfNext
  <1> HIDE DEF m
  <1>5. Len(part) = m - done /\ DOMAIN part = 1 .. m - done
    BY <1>1, <1>2
  <1>6. ASSUME NEW i \in 1 .. m - done
        PROVE  done + i \in (done + 1)..m /\ part[i] = file.rows[done + i]
    <2>1. i \in Nat /\ 1 <= i /\ i <= m - done
      BY <1>2
    <2>2. part[i] = file.rows[(done + 1) + i - 1]
      BY <1>1, <1>2, <2>1
    <2>3. (done + 1) + i - 1 = done + i
      BY <1>2, <2>1
    <2> QED BY <1>2, <2>1, <2>2, <2>3
  <1>7. \A r \in (done + 1)..m : r - done \in 1 .. m - done /\ done + (r - done) = r
    BY <1>2
  <1> HIDE DEF part
  <1> HIDE DEF f
  <1>8. Batch.header = file.header /\ Batch.rows = r1
    <2>1. Columns(f) = Columns(file)
      BY <1>3 DEF Columns
    <2>2. Whole(f) = [header |-> file.header, rows |-> r1]
      BY <1>3, <2>1 DEF Whole, ReadWith
    <2> HIDE DEF r1
    <2> QED BY <1>3, <2>2
  <1>9. \A r \in DOMAIN file.rows :
           Frame.rows[r] = [c \in Columns(file) |-> cell(file.rows, r, BatchOf(file, r), c)]
    BY DEF Frame, ByBatch, ReadWith
  <1>10. ASSUME NEW i \in 1 .. m - done PROVE Batch.rows[i] = Frame.rows[done + i]
    <2>1. done + i \in DOMAIN file.rows /\ BatchOf(file, done + i) = (done + 1)..m
      BY <1>2, <1>4, <1>6
    <2>2. ASSUME NEW c
          PROVE  {part[s][c] : s \in DOMAIN part} = {file.rows[s][c] : s \in (done + 1)..m}
      <3>1. \A s \in 1 .. m - done : part[s][c] \in {file.rows[t][c] : t \in (done + 1)..m}
        BY <1>6
      <3>2. ASSUME NEW t \in (done + 1)..m PROVE file.rows[t][c] \in {part[s][c] : s \in 1 .. m - done}
        <4>1. t - done \in 1 .. m - done /\ part[t - done] = file.rows[t]
          BY <1>6, <1>7
        <4> QED BY <4>1
      <3> QED BY <1>5, <3>1, <3>2
    <2>3. \A c \in Columns(file) : cell(part, i, DOMAIN part, c) = cell(file.rows, done + i, (done + 1)..m, c)
      BY <1>6, <2>2
    <2>4. Batch.rows[i] = [c \in Columns(file) |-> cell(part, i, DOMAIN part, c)]
      BY <1>5, <1>8
    <2>5. Frame.rows[done + i] = [c \in Columns(file) |-> cell(file.rows, done + i, (done + 1)..m, c)]
      BY <1>9, <2>1
    <2> HIDE DEF cell
    <2> QED BY <2>3, <2>4, <2>5
  <1>11. DOMAIN Batch.rows = 1 .. m - done
    BY <1>5, <1>8
  <1>12. Len(Batch.rows) = m - done
    BY <1>2, <1>11
  <1>13. Columns(Batch) = Columns(file)
    BY <1>8 DEF Columns
  <1> HIDE DEF cell, r1
  <1> QED BY <1>2, <1>6, <1>8, <1>10, <1>11, <1>12, <1>13 DEF m

LEMMA BackOfBatch ==
  ASSUME NEW n \in Nat, NEW m \in Nat, NEW rows, rows \subseteq Nat
  PROVE  {i \in 1 .. m - n : n + i \in rows} = Back({r \in rows : n < r /\ r <= m}, n)
  <1> DEFINE A == {i \in 1 .. m - n : n + i \in rows}
             B == Back({r \in rows : n < r /\ r <= m}, n)
  <1>1. ASSUME NEW i \in A PROVE i \in B
    <2>1. i \in Nat /\ n + i \in rows /\ n < n + i /\ n + i <= m /\ i = (n + i) - n
      OBVIOUS
    <2> QED BY <2>1 DEF Back
  <1>2. ASSUME NEW i \in B PROVE i \in A
    <2>1. PICK r \in rows : n < r /\ r <= m /\ i = r - n
      BY DEF Back
    <2>2. r \in Nat
      OBVIOUS
    <2> QED BY <2>1, <2>2
  <1> HIDE DEF A, B
  <1>3. A = B
    BY <1>1, <1>2
  <1> QED BY <1>3 DEF A, B

\* A check as it looks at the batch.
InBatch(l) == [rule |-> l.rule, column |-> l.column, severity |-> l.severity,
               rows |-> Back(Between(l, done, NextRow), done)]

LEMMA ChunkIs ==
  ASSUME Arguments
  PROVE  /\ ChunkContract.required = {} /\ ChunkContract.closed = FALSE
         /\ DOMAIN ChunkContract.rules = DOMAIN contract.rules
         /\ \A c \in DOMAIN contract.rules :
               /\ Refused(ChunkContract.rules[c]) = Refused(contract.rules[c])
               /\ ChunkContract.rules[c].severity = contract.rules[c].severity
               /\ ChunkContract.rules[c].unique = FALSE
         /\ ChunkContract.dataset = {d \in contract.dataset : d.type \in RowRuleTypes}
  <1>1. IsContract(contract)
    BY RequestAssumption DEF Arguments
  <1>2. /\ "required" \in DOMAIN contract /\ "closed" \in DOMAIN contract
        /\ "rules" \in DOMAIN contract /\ "dataset" \in DOMAIN contract
    BY <1>1 DEF IsContract
  <1> DEFINE rules == [c \in DOMAIN contract.rules |-> [contract.rules[c] EXCEPT !.unique = FALSE]]
             dataset == {rule \in contract.dataset :
                            rule.type \in {"conditional_not_null", "aggregate_reconciliation"}}
  <1>3. /\ ChunkContract.required = {} /\ ChunkContract.closed = FALSE
        /\ ChunkContract.rules = rules /\ ChunkContract.dataset = dataset
    BY <1>2 DEF ChunkContract
  <1>4. ASSUME NEW c \in DOMAIN contract.rules
        PROVE  /\ Refused(rules[c]) = Refused(contract.rules[c])
               /\ rules[c].severity = contract.rules[c].severity /\ rules[c].unique = FALSE
    <2>1. contract.rules[c] \in ColumnRule
      BY <1>1 DEF IsContract
    <2>2. /\ rules[c].severity = contract.rules[c].severity /\ rules[c].type = contract.rules[c].type
          /\ rules[c].strict = contract.rules[c].strict
          /\ rules[c].nullable = contract.rules[c].nullable /\ rules[c].unique = FALSE
          /\ rules[c].minimum = contract.rules[c].minimum /\ rules[c].maximum = contract.rules[c].maximum
          /\ rules[c].allowed = contract.rules[c].allowed /\ rules[c].age = contract.rules[c].age
          /\ rules[c].malformed = contract.rules[c].malformed
      BY <2>1 DEF ColumnRule
    <2> HIDE DEF rules
    <2>3. Refused(rules[c]) = Refused(contract.rules[c])
      BY <2>2 DEF Refused
    <2> QED BY <2>2, <2>3
  <1>5. DOMAIN rules = DOMAIN contract.rules
    OBVIOUS
  <1> HIDE DEF rules
  <1> QED BY <1>3, <1>4, <1>5 DEF RowRuleTypes

LEMMA ChecksOfBatch ==
  ASSUME Arguments, done \in 0..Len(Frame.rows), done < Len(Frame.rows), AtBatch
  PROVE  Checks(ChunkContract, Batch) = {InBatch(l) : l \in Checks(contract, Frame)}
  <1> DEFINE m == NextRow
  <1>1. done \in Nat /\ m \in Nat /\ done < m /\ m <= Len(Frame.rows)
        /\ Len(Frame.rows) \in Nat /\ DOMAIN Frame.rows = 1..Len(Frame.rows)
    BY NextRowBounds
  <1>2. DOMAIN Batch.rows = 1 .. m - done
        /\ \A i \in 1 .. m - done : done + i \in DOMAIN Frame.rows /\ Batch.rows[i] = Frame.rows[done + i]
    BY BatchIs
  <1>3. Columns(Batch) = Columns(Frame) /\ DOMAIN ChunkContract.rules = DOMAIN contract.rules
    BY BatchIs, ChunkIs
  <1>4. ASSUME NEW c \in DOMAIN contract.rules, NEW check
        PROVE  ColumnCheck(ChunkContract, Batch, c, check) = InBatch(ColumnCheck(contract, Frame, c, check))
    <2> DEFINE cells == Refused(contract.rules[c])[check]
               rows == RowsWith(Frame, c, cells)
    <2>1. RowsWith(Batch, c, cells) = {i \in 1 .. m - done : done + i \in rows}
      <3> HIDE DEF m, cells
      <3> QED BY <1>2 DEF RowsWith
    <2>2. rows \subseteq Nat
      BY <1>1 DEF RowsWith
    <2>3. RowsWith(Batch, c, cells) = Back({r \in rows : done < r /\ r <= m}, done)
      <3> HIDE DEF m, cells, rows
      <3> QED BY <1>1, <2>1, <2>2, BackOfBatch
    <2>4. Refused(ChunkContract.rules[c]) = Refused(contract.rules[c])
          /\ ChunkContract.rules[c].severity = contract.rules[c].severity
      BY ChunkIs
    <2> QED BY <2>3, <2>4 DEF ColumnCheck, InBatch, Between
  <1>5. ASSUME NEW d \in RowRules(contract, Frame)
        PROVE  DatasetCheck(Batch, d) = InBatch(DatasetCheck(Frame, d))
    <2> DEFINE rows == BreakingRows(d, Frame.rows)
    <2>1. CASE d.type = "conditional_not_null"
      <3>1. rows = {r \in DOMAIN Frame.rows : Frame.rows[r][d.when] \in d.equals
                                               /\ Frame.rows[r][d.column] = Blank}
        BY <2>1 DEF BreakingRows
      <3>2. BreakingRows(d, Batch.rows) =
              {i \in DOMAIN Batch.rows : Batch.rows[i][d.when] \in d.equals
                                           /\ Batch.rows[i][d.column] = Blank}
        BY <2>1 DEF BreakingRows
      <3> HIDE DEF m, rows
      <3>3. BreakingRows(d, Batch.rows) = {i \in 1 .. m - done : done + i \in rows}
        BY <1>2, <3>1, <3>2
      <3>4. rows \subseteq Nat
        BY <1>1, <3>1
      <3>5. BreakingRows(d, Batch.rows) = Back({r \in rows : done < r /\ r <= m}, done)
        BY <1>1, <3>3, <3>4, BackOfBatch
      <3> QED BY <3>5 DEF DatasetCheck, InBatch, Between, rows, m
    <2>2. CASE d.type = "aggregate_reconciliation"
      <3>1. rows = {r \in DOMAIN Frame.rows :
                      /\ {Frame.rows[r][d.column], Frame.rows[r][d.right]} \subseteq NumberCells
                      /\ Distance(Frame.rows[r][d.column][2], Frame.rows[r][d.right][2]) > d.tolerance}
        BY <2>2 DEF BreakingRows
      <3>2. BreakingRows(d, Batch.rows) =
              {i \in DOMAIN Batch.rows :
                 /\ {Batch.rows[i][d.column], Batch.rows[i][d.right]} \subseteq NumberCells
                 /\ Distance(Batch.rows[i][d.column][2], Batch.rows[i][d.right][2]) > d.tolerance}
        BY <2>2 DEF BreakingRows
      <3> HIDE DEF m, rows
      <3>3. BreakingRows(d, Batch.rows) = {i \in 1 .. m - done : done + i \in rows}
        BY <1>2, <3>1, <3>2
      <3>4. rows \subseteq Nat
        BY <1>1, <3>1
      <3>5. BreakingRows(d, Batch.rows) = Back({r \in rows : done < r /\ r <= m}, done)
        BY <1>1, <3>3, <3>4, BackOfBatch
      <3> QED BY <3>5 DEF DatasetCheck, InBatch, Between, rows, m
    <2> QED BY <2>1, <2>2 DEF RowRules, RowRuleTypes
  <1>6. RowRules(ChunkContract, Batch) = RowRules(contract, Frame)
    BY <1>3, ChunkIs DEF RowRules
  <1> DEFINE columns == (DOMAIN contract.rules \intersect Columns(Frame)) \X CheckNames
  <1>7. \A x : x \in Checks(contract, Frame) <=>
                 \/ \E p \in columns : x = ColumnCheck(contract, Frame, p[1], p[2])
                 \/ \E d \in RowRules(contract, Frame) : x = DatasetCheck(Frame, d)
    BY DEF Checks
  <1>8. \A x : x \in Checks(ChunkContract, Batch) <=>
                 \/ \E p \in columns : x = ColumnCheck(ChunkContract, Batch, p[1], p[2])
                 \/ \E d \in RowRules(contract, Frame) : x = DatasetCheck(Batch, d)
    BY <1>3, <1>6 DEF Checks
  <1>9. \A p \in columns : p[1] \in DOMAIN contract.rules
    OBVIOUS
  <1> HIDE DEF columns
  <1>10. ASSUME NEW x \in Checks(ChunkContract, Batch)
         PROVE  \E l \in Checks(contract, Frame) : x = InBatch(l)
    <2>1. CASE \E p \in columns : x = ColumnCheck(ChunkContract, Batch, p[1], p[2])
      BY <1>4, <1>7, <1>9, <2>1
    <2>2. CASE \E d \in RowRules(contract, Frame) : x = DatasetCheck(Batch, d)
      BY <1>5, <1>7, <2>2
    <2> QED BY <1>8, <2>1, <2>2
  <1>11. ASSUME NEW l \in Checks(contract, Frame)
         PROVE  InBatch(l) \in Checks(ChunkContract, Batch)
    <2>1. CASE \E p \in columns : l = ColumnCheck(contract, Frame, p[1], p[2])
      <3>1. PICK p \in columns : l = ColumnCheck(contract, Frame, p[1], p[2])
        BY <2>1
      <3>2. InBatch(l) = ColumnCheck(ChunkContract, Batch, p[1], p[2])
        BY <1>4, <1>9, <3>1
      <3> QED BY <1>8, <3>2
    <2>2. CASE \E d \in RowRules(contract, Frame) : l = DatasetCheck(Frame, d)
      <3>1. PICK d \in RowRules(contract, Frame) : l = DatasetCheck(Frame, d)
        BY <2>2
      <3>2. InBatch(l) = DatasetCheck(Batch, d)
        BY <1>5, <3>1
      <3> QED BY <1>8, <3>2
    <2> QED BY <1>7, <2>1, <2>2
  <1> QED BY <1>10, <1>11

\* The rows of a check are rows of the file.
LEMMA CheckRows ==
  ASSUME Arguments, NEW l \in Checks(contract, Frame)
  PROVE  /\ l.rows \subseteq DOMAIN Frame.rows /\ IsFiniteSet(l.rows) /\ l.rows \subseteq Nat
         /\ \A from, to : /\ IsFiniteSet(Between(l, from, to)) /\ Between(l, from, to) \subseteq Nat
                          /\ Between(l, from, to) \subseteq l.rows
  <1>1. DOMAIN Frame.rows = 1..Len(Frame.rows) /\ Len(Frame.rows) \in Nat
    BY FrameCells
  <1>2. l.rows \subseteq DOMAIN Frame.rows
    <2>1. CASE \E p \in (DOMAIN contract.rules \intersect Columns(Frame)) \X CheckNames :
                  l = ColumnCheck(contract, Frame, p[1], p[2])
      <3>1. PICK c, check : l = ColumnCheck(contract, Frame, c, check)
        BY <2>1
      <3>2. l.rows = RowsWith(Frame, c, Refused(contract.rules[c])[check])
        BY <3>1 DEF ColumnCheck
      <3> QED BY <3>2 DEF RowsWith
    <2>2. CASE \E d \in RowRules(contract, Frame) : l = DatasetCheck(Frame, d)
      <3>1. PICK d \in RowRules(contract, Frame) : l = DatasetCheck(Frame, d)
        BY <2>2
      <3>2. l.rows = BreakingRows(d, Frame.rows)
        BY <3>1 DEF DatasetCheck
      <3>3. CASE d.type = "conditional_not_null"
        BY <3>2, <3>3 DEF BreakingRows
      <3>4. CASE d.type = "aggregate_reconciliation"
        BY <3>2, <3>4 DEF BreakingRows
      <3> QED BY <3>3, <3>4 DEF RowRules, RowRuleTypes
    <2> QED BY <2>1, <2>2 DEF Checks
  <1>3. IsFiniteSet(l.rows) /\ l.rows \subseteq Nat
    <2>1. IsFiniteSet(1..Len(Frame.rows))
      BY <1>1, FS_Interval
    <2> QED BY <1>1, <1>2, <2>1, FS_Subset
  <1>4. \A from, to : Between(l, from, to) \subseteq l.rows
    BY DEF Between
  <1> QED BY <1>2, <1>3, <1>4, FS_Subset

\* The rows of a finding of a batch, numbered as in the file.
Forward(rows) == {done + r : r \in rows}

LEMMA MovedIs ==
  ASSUME NEW rule, NEW column, NEW severity, NEW rows
  PROVE  Moved(Finding(rule, column, severity, rows)) =
           [rule |-> rule, column |-> column, severity |-> severity,
            affected |-> Cardinality(rows), samples |-> Forward(SampleRows(rows))]
  <1> DEFINE n == Cardinality(rows)
             shown == SampleRows(rows)
             f == [rule |-> rule, column |-> column, severity |-> severity,
                   affected |-> n, samples |-> shown]
             moved == Forward(shown)
  <1>1. Finding(rule, column, severity, rows) = f
    BY DEF Finding
  <1>2. Moved(f) = [f EXCEPT !.samples = Forward(f.samples)]
    BY DEF Moved, Forward
  <1> HIDE DEF n, shown
  <1>3. f.samples = shown
    OBVIOUS
  <1>4. Moved(f) = [f EXCEPT !.samples = moved]
    BY <1>2, <1>3
  <1> HIDE DEF moved
  <1>5. [f EXCEPT !.samples = moved] =
          [rule |-> rule, column |-> column, severity |-> severity, affected |-> n, samples |-> moved]
    OBVIOUS
  <1> QED BY <1>1, <1>4, <1>5 DEF moved, n, shown

\* What a batch finds, numbered as in the file, is what the file breaks in these rows.
LEMMA BatchFindingsMoved ==
  ASSUME Arguments, done \in 0..Len(Frame.rows), done < Len(Frame.rows), AtBatch
  PROVE  {Moved(f) : f \in BatchFindings} = FindingsOf(Checks(contract, Frame), done, NextRow)
  <1> DEFINE checks == Checks(contract, Frame)
             R(l) == Between(l, done, NextRow)
  <1>1. BatchFindings = {Found(l, l.rows) : l \in {k \in Checks(ChunkContract, Batch) : k.rows # {}}}
    <2>1. SchemaFindings(ChunkContract, Batch) = {}
      BY ChunkIs DEF SchemaFindings
    <2>2. UniqueFindings(ChunkContract, Batch) = {}
      <3>1. \A d \in DOMAIN ChunkContract.rules \intersect Columns(Batch) : ~ ChunkContract.rules[d].unique
        BY ChunkIs
      <3> QED BY <3>1 DEF UniqueFindings
    <2>3. ChunkContract.dataset = {e \in ChunkContract.dataset : e.type \in RowRuleTypes}
      BY ChunkIs
    <2>4. BatchFindings = ColumnFindings(ChunkContract, Batch)
                            \union (UNION {DatasetRuleFindings(d, Batch) : d \in ChunkContract.dataset})
      BY <2>1, <2>2 DEF BatchFindings, ValidateColumns, ValidateDatasetRules
    <2> QED BY <2>3, <2>4, FindingsAreOfChecks
  <1>2. ASSUME NEW l \in checks
        PROVE  /\ InBatch(l).rows = {} <=> R(l) = {}
               /\ Moved(Found(InBatch(l), InBatch(l).rows)) = Found(l, R(l))
    <2>1. InBatch(l).rule = l.rule /\ InBatch(l).column = l.column /\ InBatch(l).severity = l.severity
          /\ InBatch(l).rows = Back(R(l), done)
      BY DEF InBatch
    <2>2. IsFiniteSet(R(l)) /\ R(l) \subseteq Nat /\ done \in Nat
      BY CheckRows, NextRowBounds
    <2>3. Cardinality(Back(R(l), done)) = Cardinality(R(l))
          /\ {done + b : b \in SampleRows(Back(R(l), done))} = SampleRows(R(l))
      BY <2>2, BackIsFinite, SampleRowsMoved
    <2>4. Back(R(l), done) = {} <=> R(l) = {}
      BY DEF Back
    <2> HIDE DEF R
    <2>6. Found(l, R(l)) =
            [rule |-> l.rule, column |-> l.column, severity |-> l.severity,
             affected |-> Cardinality(R(l)), samples |-> SampleRows(R(l))]
      BY DEF Found, Finding
    <2>7. Moved(Found(InBatch(l), InBatch(l).rows)) =
            [rule |-> l.rule, column |-> l.column, severity |-> l.severity,
             affected |-> Cardinality(Back(R(l), done)), samples |-> Forward(SampleRows(Back(R(l), done)))]
      <3>1. Found(InBatch(l), InBatch(l).rows) = Finding(l.rule, l.column, l.severity, Back(R(l), done))
        BY <2>1 DEF Found
      <3> QED BY <3>1, MovedIs
    <2>8. Forward(SampleRows(Back(R(l), done))) = SampleRows(R(l))
      BY <2>3 DEF Forward
    <2> QED BY <2>1, <2>3, <2>4, <2>6, <2>7, <2>8
  <1>3. ASSUME NEW x, x \in BatchFindings PROVE Moved(x) \in FindingsOf(checks, done, NextRow)
    <2>1. PICK k \in Checks(ChunkContract, Batch) : k.rows # {} /\ x = Found(k, k.rows)
      BY <1>1, <1>3
    <2>2. PICK l \in checks : k = InBatch(l)
      BY <2>1, ChecksOfBatch
    <2>3. R(l) # {} /\ Moved(x) = Found(l, R(l))
      BY <1>2, <2>1, <2>2
    <2> QED BY <2>3 DEF FindingsOf
  <1>4. ASSUME NEW y \in FindingsOf(checks, done, NextRow)
        PROVE  \E x \in BatchFindings : y = Moved(x)
    <2>1. PICK l \in checks : R(l) # {} /\ y = Found(l, R(l))
      BY DEF FindingsOf
    <2>2. InBatch(l) \in Checks(ChunkContract, Batch) /\ InBatch(l).rows # {}
      BY <1>2, <2>1, ChecksOfBatch
    <2>3. Found(InBatch(l), InBatch(l).rows) \in BatchFindings
      BY <1>1, <2>2
    <2>4. Moved(Found(InBatch(l), InBatch(l).rows)) = y
      BY <1>2, <2>1
    <2> QED BY <2>3, <2>4
  <1> QED BY <1>3, <1>4

\* Rule id and column tell the checks of a contract apart.
LEMMA ChecksAreKeyed ==
  ASSUME Arguments, NEW l \in Checks(contract, Frame), NEW m \in Checks(contract, Frame),
         l.rule = m.rule, l.column = m.column
  PROVE  l = m
  <1> DEFINE ofColumn(k) == \E c \in DOMAIN contract.rules, check \in CheckNames :
                               k = ColumnCheck(contract, Frame, c, check)
             ofDataset(k) == \E d \in contract.dataset :
                               d.type \in RowRuleTypes /\ k = DatasetCheck(Frame, d)
  <1>1. \A k \in Checks(contract, Frame) : ofColumn(k) \/ ofDataset(k)
    <2>1. ASSUME NEW k \in Checks(contract, Frame) PROVE ofColumn(k) \/ ofDataset(k)
      <3>1. CASE \E p \in (DOMAIN contract.rules \intersect Columns(Frame)) \X CheckNames :
                    k = ColumnCheck(contract, Frame, p[1], p[2])
        BY <3>1
      <3>2. CASE \E d \in RowRules(contract, Frame) : k = DatasetCheck(Frame, d)
        BY <3>2 DEF RowRules
      <3> QED BY <3>1, <3>2 DEF Checks
    <2> QED BY <2>1
  <1>2. \A c, check : /\ ColumnCheck(contract, Frame, c, check).rule = <<"column", check>>
                      /\ ColumnCheck(contract, Frame, c, check).column = c
    BY DEF ColumnCheck
  <1>3. \A d : DatasetCheck(Frame, d).rule = <<d.type, d.name>>
    BY DEF DatasetCheck, RuleId
  <1>4. CASE ofColumn(l) /\ ofColumn(m)
    <2>1. PICK c1 \in DOMAIN contract.rules, check1 \in CheckNames :
            l = ColumnCheck(contract, Frame, c1, check1)
      BY <1>4
    <2>2. PICK c2 \in DOMAIN contract.rules, check2 \in CheckNames :
            m = ColumnCheck(contract, Frame, c2, check2)
      BY <1>4
    <2>3. c1 = c2 /\ <<"column", check1>> = <<"column", check2>>
      BY <1>2, <2>1, <2>2
    <2>4. check1 = check2
      BY <2>3
    <2> QED BY <2>1, <2>2, <2>3, <2>4
  <1>5. CASE ofDataset(l) /\ ofDataset(m)
    <2>1. PICK d1 \in contract.dataset : l = DatasetCheck(Frame, d1)
      BY <1>5
    <2>2. PICK d2 \in contract.dataset : m = DatasetCheck(Frame, d2)
      BY <1>5
    <2>3. <<d1.type, d1.name>> = <<d2.type, d2.name>>
      BY <1>3, <2>1, <2>2
    <2>4. d1.name = d2.name
      BY <2>3
    <2>5. d1 = d2
      BY <2>4, RequestAssumption DEF Arguments, IsContract
    <2> QED BY <2>1, <2>2, <2>5
  <1>6. ASSUME NEW k, NEW n, ofColumn(k), ofDataset(n), k.rule = n.rule PROVE FALSE
    <2>1. PICK check : k.rule = <<"column", check>>
      BY <1>2, <1>6
    <2>2. PICK d \in contract.dataset : d.type \in RowRuleTypes /\ n.rule = <<d.type, d.name>>
      BY <1>3, <1>6
    <2>3. <<"column", check>> = <<d.type, d.name>>
      BY <1>6, <2>1, <2>2
    <2>4. d.type = "column"
      BY <2>3
    <2> QED BY <2>2, <2>4 DEF RowRuleTypes
  <1> HIDE DEF ofColumn, ofDataset
  <1> QED BY <1>1, <1>4, <1>5, <1>6

\* Two findings of a check, of the rows up to one and of the rows after it, joined.
LEMMA JoinedIs ==
  ASSUME NEW rule, NEW column, NEW severity, NEW P, NEW Q, IsFiniteSet(P), IsFiniteSet(Q),
         P \subseteq Nat, Q \subseteq Nat, \A r \in P : \A s \in Q : r < s
  PROVE  Joined(Finding(rule, column, severity, P), Finding(rule, column, severity, Q)) =
           Finding(rule, column, severity, P \union Q)
  <1> DEFINE np == Cardinality(P)
             nq == Cardinality(Q)
             sp == SampleRows(P)
             sq == SampleRows(Q)
             f == [rule |-> rule, column |-> column, severity |-> severity,
                   affected |-> np, samples |-> sp]
             g == [rule |-> rule, column |-> column, severity |-> severity,
                   affected |-> nq, samples |-> sq]
             n == np + nq
             shown == SampleRows(sp \union sq)
  <1>1. Finding(rule, column, severity, P) = f /\ Finding(rule, column, severity, Q) = g
    BY DEF Finding
  <1>2. n = Cardinality(P \union Q)
    <2>1. P \intersect Q = {}
      <3> SUFFICES ASSUME NEW r \in P, r \in Q PROVE FALSE
        OBVIOUS
      <3>1. r \in Nat
        OBVIOUS
      <3>2. r < r
        BY Zenon
      <3> QED BY <3>1, <3>2
    <2>2. Cardinality(P \union Q) = Cardinality(P) + Cardinality(Q) - Cardinality(P \intersect Q)
      BY FS_Union
    <2>3. Cardinality(P \intersect Q) = 0
      BY <2>1, FS_EmptySet
    <2>4. Cardinality(P) \in Nat /\ Cardinality(Q) \in Nat
      BY FS_CardinalityType
    <2> QED BY <2>2, <2>3, <2>4
  <1>3. shown = SampleRows(P \union Q)
    BY SampleRowsJoin
  <1>4. Joined(f, g) = [f EXCEPT !.affected = f.affected + g.affected,
                                 !.samples = SampleRows(f.samples \union g.samples)]
    BY DEF Joined
  <1> HIDE DEF np, nq, sp, sq
  <1>5. /\ f.affected + g.affected = n
        /\ SampleRows(f.samples \union g.samples) = shown
    OBVIOUS
  <1>6. Joined(f, g) = [f EXCEPT !.affected = n, !.samples = shown]
    BY <1>4, <1>5
  <1> HIDE DEF n, shown
  <1>7. [f EXCEPT !.affected = n, !.samples = shown] =
          [rule |-> rule, column |-> column, severity |-> severity, affected |-> n, samples |-> shown]
    <2> DEFINE h == [f EXCEPT !.affected = n, !.samples = shown]
    <2>1. DOMAIN h = {"rule", "column", "severity", "affected", "samples"}
      OBVIOUS
    <2>2. h.rule = rule /\ h.column = column /\ h.severity = severity
      OBVIOUS
    <2>3. h.affected = n
      OBVIOUS
    <2>4. h.samples = shown
      OBVIOUS
    <2>5. h = [x \in DOMAIN h |-> h[x]]
      OBVIOUS
    <2> HIDE DEF h
    <2>6. h = [rule |-> rule, column |-> column, severity |-> severity,
               affected |-> n, samples |-> shown]
      BY <2>1, <2>2, <2>3, <2>4, <2>5
    <2> QED BY <2>6 DEF h
  <1> QED BY <1>1, <1>2, <1>3, <1>6, <1>7 DEF Finding

\* The findings of the batches read, merged with those of the next one.
LEMMA MergedIs ==
  ASSUME Arguments, done \in 0..Len(Frame.rows), done < Len(Frame.rows), AtBatch,
         merged = FindingsOf(Checks(contract, Frame), 0, done)
  PROVE  Merged(BatchFindings) = FindingsOf(Checks(contract, Frame), 0, NextRow)
  <1> DEFINE checks == Checks(contract, Frame)
             m == NextRow
             P(l) == Between(l, 0, done)
             Q(l) == Between(l, done, m)
             A(l) == Between(l, 0, m)
             new == FindingsOf(checks, done, m)
             all == FindingsOf(checks, 0, m)
             kept == {f \in merged : \A g \in new : ~ SameKey(f, g)}
             added == {g \in new : \A f \in merged : ~ SameKey(f, g)}
             joined == {Joined(p[1], p[2]) : p \in {q \in merged \X new : SameKey(q[1], q[2])}}
  <1>1. Merged(BatchFindings) = kept \union added \union joined
    BY BatchFindingsMoved DEF Merged
  <1>2. done \in Nat /\ m \in Nat /\ done < m
    BY NextRowBounds
  <1>3. ASSUME NEW l \in checks
        PROVE  /\ A(l) = P(l) \union Q(l)
               /\ IsFiniteSet(P(l)) /\ IsFiniteSet(Q(l)) /\ P(l) \subseteq Nat /\ Q(l) \subseteq Nat
               /\ \A r \in P(l) : \A s \in Q(l) : r < s
    <2>1. /\ IsFiniteSet(P(l)) /\ IsFiniteSet(Q(l)) /\ P(l) \subseteq Nat /\ Q(l) \subseteq Nat
          /\ l.rows \subseteq Nat
      BY CheckRows
    <2>2. \A r \in l.rows : 0 < r /\ r <= m <=> (0 < r /\ r <= done) \/ (done < r /\ r <= m)
      BY <1>2, <2>1
    <2>3. A(l) = P(l) \union Q(l)
      BY <2>2 DEF Between
    <2>4. \A r \in P(l) : \A s \in Q(l) : r < s
      <3> SUFFICES ASSUME NEW r \in P(l), NEW s \in Q(l) PROVE r < s
        OBVIOUS
      <3>1. r <= done /\ done < s /\ r \in Nat /\ s \in Nat
        BY <2>1 DEF Between
      <3> QED BY <1>2, <3>1
    <2> QED BY <2>1, <2>3, <2>4
  <1>4. \A l, R : /\ Found(l, R).rule = l.rule /\ Found(l, R).column = l.column
    BY DEF Found, Finding
  <1>5. ASSUME NEW l \in checks, NEW k \in checks, NEW R, NEW S
        PROVE  SameKey(Found(l, R), Found(k, S)) <=> l = k
    BY <1>4, ChecksAreKeyed DEF SameKey
  <1>6. ASSUME NEW l \in checks PROVE Joined(Found(l, P(l)), Found(l, Q(l))) = Found(l, A(l))
    <2> HIDE DEF P, Q, A
    <2> QED BY <1>3, JoinedIs DEF Found
  <1>7. /\ \A x : x \in merged <=> \E l \in checks : P(l) # {} /\ x = Found(l, P(l))
        /\ \A x : x \in new <=> \E l \in checks : Q(l) # {} /\ x = Found(l, Q(l))
        /\ \A x : x \in all <=> \E l \in checks : A(l) # {} /\ x = Found(l, A(l))
    <2> HIDE DEF checks, m
    <2> QED BY DEF FindingsOf, checks
  <1> HIDE DEF checks, m, P, Q, A, new, all
  <1>8. ASSUME NEW x, x \in kept \union added \union joined PROVE x \in all
    <2>1. CASE x \in kept
      <3>1. PICK l \in checks : P(l) # {} /\ x = Found(l, P(l))
        BY <1>7, <2>1
      <3>2. Q(l) = {}
        <4> SUFFICES ASSUME Q(l) # {} PROVE FALSE
          OBVIOUS
        <4>1. Found(l, Q(l)) \in new /\ SameKey(x, Found(l, Q(l)))
          BY <1>5, <1>7, <3>1
        <4> QED BY <2>1, <4>1
      <3>3. A(l) = P(l)
        BY <1>3, <3>2
      <3> QED BY <1>7, <3>1, <3>3
    <2>2. CASE x \in added
      <3>1. PICK l \in checks : Q(l) # {} /\ x = Found(l, Q(l))
        BY <1>7, <2>2
      <3>2. P(l) = {}
        <4> SUFFICES ASSUME P(l) # {} PROVE FALSE
          OBVIOUS
        <4>1. Found(l, P(l)) \in merged /\ SameKey(Found(l, P(l)), x)
          BY <1>5, <1>7, <3>1
        <4> QED BY <2>2, <4>1
      <3>3. A(l) = Q(l)
        BY <1>3, <3>2
      <3> QED BY <1>7, <3>1, <3>3
    <2>3. CASE x \in joined
      <3>1. PICK f \in merged, g \in new : SameKey(f, g) /\ x = Joined(f, g)
        BY <2>3
      <3>2. PICK l \in checks : P(l) # {} /\ f = Found(l, P(l))
        BY <1>7
      <3>3. PICK k \in checks : Q(k) # {} /\ g = Found(k, Q(k))
        BY <1>7
      <3>4. l = k
        BY <1>5, <3>1, <3>2, <3>3
      <3>5. x = Found(l, A(l)) /\ A(l) # {}
        BY <1>3, <1>6, <3>1, <3>2, <3>3, <3>4
      <3> QED BY <1>7, <3>5
    <2> QED BY <1>8, <2>1, <2>2, <2>3
  <1>9. ASSUME NEW x, x \in all PROVE x \in kept \union added \union joined
    <2>1. PICK l \in checks : A(l) # {} /\ x = Found(l, A(l))
      BY <1>7, <1>9
    <2>2. CASE Q(l) = {}
      <3>0. A(l) = P(l)
        BY <1>3, <2>2
      <3>1. x \in merged
        BY <1>7, <2>1, <3>0
      <3>2. ASSUME NEW g \in new, SameKey(x, g) PROVE FALSE
        <4>1. PICK k \in checks : Q(k) # {} /\ g = Found(k, Q(k))
          BY <1>7
        <4>2. l = k
          BY <1>5, <2>1, <3>2, <4>1
        <4> QED BY <2>2, <4>1, <4>2
      <3> QED BY <3>1, <3>2
    <2>3. CASE P(l) = {}
      <3>0. A(l) = Q(l)
        BY <1>3, <2>3
      <3>1. x \in new
        BY <1>7, <2>1, <3>0
      <3>2. ASSUME NEW f \in merged, SameKey(f, x) PROVE FALSE
        <4>1. PICK k \in checks : P(k) # {} /\ f = Found(k, P(k))
          BY <1>7
        <4>2. l = k
          BY <1>5, <2>1, <3>2, <4>1
        <4> QED BY <2>3, <4>1, <4>2
      <3> QED BY <3>1, <3>2
    <2>4. CASE P(l) # {} /\ Q(l) # {}
      <3>1. Found(l, P(l)) \in merged /\ Found(l, Q(l)) \in new
        BY <1>7, <2>4
      <3>2. SameKey(Found(l, P(l)), Found(l, Q(l)))
        BY <1>5
      <3>3. x = Joined(Found(l, P(l)), Found(l, Q(l)))
        BY <1>6, <2>1
      <3>4. \A f \in merged, g \in new : SameKey(f, g) => Joined(f, g) \in joined
        <4> SUFFICES ASSUME NEW f \in merged, NEW g \in new, SameKey(f, g)
                     PROVE  Joined(f, g) \in joined
          OBVIOUS
        <4>1. <<f, g>> \in merged \X new /\ <<f, g>>[1] = f /\ <<f, g>>[2] = g
          OBVIOUS
        <4> QED BY <4>1
      <3>5. x \in joined
        <4> HIDE DEF joined
        <4> QED BY <3>1, <3>2, <3>3, <3>4
      <3> QED BY <3>5
    <2> QED BY <2>2, <2>3, <2>4
  <1> HIDE DEF kept, added, joined
  <1>10. kept \union added \union joined = all
    BY <1>8, <1>9
  <1> QED BY <1>1, <1>10 DEF all, checks, m

-----------------------------------------------------------------------------
(* The profile. *)

ColumnState == [seen : SUBSET Values, counts : [Values -> Nat], exact : BOOLEAN]

States(f) == [Columns(f) -> ColumnState]

RowsUpTo(f, c, v, n) == {r \in 1..n : f.rows[r][c] = v}

\* A column whose first k rows were looked at has counted the values of the first n of them:
\* of all, or, if it is not exact, up to a row with a value that did not occur before.
HonestAt(f, p, c, k) ==
    \E n \in 0..k :
        /\ \A v \in Values : p.counts[v] = Cardinality(RowsUpTo(f, c, v, n))
        /\ p.exact => n = k
        /\ ~ p.exact => /\ n < k /\ f.rows[n + 1][c] \in Values
                        /\ RowsUpTo(f, c, f.rows[n + 1][c], n) = {}

LEMMA OneMoreRow ==
  ASSUME NEW k \in Nat, NEW c, NEW v
  PROVE  /\ Cardinality(RowsUpTo(Frame, c, v, k)) \in Nat /\ IsFiniteSet(RowsUpTo(Frame, c, v, k))
         /\ Frame.rows[k + 1][c] = v =>
                Cardinality(RowsUpTo(Frame, c, v, k + 1)) = Cardinality(RowsUpTo(Frame, c, v, k)) + 1
         /\ Frame.rows[k + 1][c] # v =>
                Cardinality(RowsUpTo(Frame, c, v, k + 1)) = Cardinality(RowsUpTo(Frame, c, v, k))
  <1>1. IsFiniteSet(RowsUpTo(Frame, c, v, k))
    <2>1. IsFiniteSet(1..k)
      BY FS_Interval
    <2> QED BY <2>1, FS_Subset DEF RowsUpTo
  <1>2. \A r : r \in 1..k + 1 <=> r \in 1..k \/ r = k + 1
    OBVIOUS
  <1>3. k + 1 \notin 1..k
    OBVIOUS
  <1>4. CASE Frame.rows[k + 1][c] = v
    <2>1. RowsUpTo(Frame, c, v, k + 1) = RowsUpTo(Frame, c, v, k) \union {k + 1} /\ k + 1 \notin RowsUpTo(Frame, c, v, k)
      BY <1>2, <1>3, <1>4 DEF RowsUpTo
    <2> QED BY <1>1, <1>4, <2>1, FS_AddElement, FS_CardinalityType
  <1>5. CASE Frame.rows[k + 1][c] # v
    <2>1. RowsUpTo(Frame, c, v, k + 1) = RowsUpTo(Frame, c, v, k)
      BY <1>2, <1>5 DEF RowsUpTo
    <2> QED BY <1>1, <1>5, <2>1, FS_CardinalityType
  <1> QED BY <1>4, <1>5

\* A value more.
Bumped(counts, value) == [counts EXCEPT ![value] = @ + 1]

\* One cell.
LEMMA TrackIs ==
  ASSUME NEW s \in States(Frame), NEW c \in Columns(Frame), NEW value \in Values \union {Blank}
  PROVE  /\ Track(s, c, value) \in States(Frame)
         /\ \A d \in Columns(Frame) : d # c => Track(s, c, value)[d] = s[d]
         /\ Track(s, c, value)[c].seen = s[c].seen
         /\ \/ (value = Blank \/ ~ s[c].exact) /\ Track(s, c, value) = s
            \/ /\ value \in Values /\ s[c].exact /\ s[c].counts[value] = 0
               /\ Track(s, c, value)[c].exact = FALSE
               /\ Track(s, c, value)[c].counts = s[c].counts
            \/ /\ value \in Values /\ s[c].exact
               /\ Track(s, c, value)[c].exact = TRUE
               /\ Track(s, c, value)[c].counts = Bumped(s[c].counts, value)
  <1>1. s[c] \in ColumnState /\ DOMAIN s = Columns(Frame)
    BY DEF States
  <1>2. s[c].seen \in SUBSET Values /\ s[c].counts \in [Values -> Nat] /\ s[c].exact \in BOOLEAN
    BY <1>1 DEF ColumnState
  <1> DEFINE full == s[c].counts[value] = 0 /\ Tracked(s) >= MaxDistinct
             p == [s[c] EXCEPT !.exact = FALSE]
             counts == [s[c].counts EXCEPT ![value] = @ + 1]
             q == [s[c] EXCEPT !.counts = counts]
  <1>3. CASE value = Blank \/ ~ s[c].exact
    <2>1. Track(s, c, value) = s
      BY <1>3 DEF Track
    <2> QED BY <1>3, <2>1
  <1>4. CASE ~ (value = Blank \/ ~ s[c].exact) /\ full
    <2>1. Track(s, c, value) = [s EXCEPT ![c] = p]
      <3>1. Track(s, c, value) = [s EXCEPT ![c].exact = FALSE]
        BY <1>4 DEF Track
      <3> QED BY <3>1
    <2>2. p \in ColumnState /\ p.seen = s[c].seen /\ p.counts = s[c].counts /\ p.exact = FALSE
      BY <1>1 DEF ColumnState
    <2> HIDE DEF p
    <2>3. [s EXCEPT ![c] = p] \in States(Frame) /\ [s EXCEPT ![c] = p][c] = p
          /\ \A d \in Columns(Frame) : d # c => [s EXCEPT ![c] = p][d] = s[d]
      BY <2>2 DEF States
    <2>4. value \in Values /\ s[c].exact /\ s[c].counts[value] = 0
      BY <1>4
    <2> QED BY <2>1, <2>2, <2>3, <2>4
  <1>5. CASE ~ (value = Blank \/ ~ s[c].exact) /\ ~ full
    <2>0. value \in Values /\ s[c].exact
      BY <1>5
    <2>1. Track(s, c, value) = [s EXCEPT ![c] = q]
      <3>1. Track(s, c, value) = [s EXCEPT ![c].counts[value] = @ + 1]
        BY <1>5 DEF Track
      <3> QED BY <3>1
    <2>2. counts \in [Values -> Nat]
      <3> DEFINE g == s[c].counts
      <3>1. g \in [Values -> Nat] /\ g[value] + 1 \in Nat
        BY <1>2, <2>0
      <3> HIDE DEF g
      <3>2. [g EXCEPT ![value] = g[value] + 1] \in [Values -> Nat]
        BY <3>1
      <3> QED BY <3>2 DEF g
    <2> HIDE DEF counts
    <2>3. q \in ColumnState /\ q.seen = s[c].seen /\ q.counts = counts /\ q.exact = s[c].exact
      BY <1>1, <2>2 DEF ColumnState
    <2> HIDE DEF q
    <2>4. [s EXCEPT ![c] = q] \in States(Frame) /\ [s EXCEPT ![c] = q][c] = q
          /\ \A d \in Columns(Frame) : d # c => [s EXCEPT ![c] = q][d] = s[d]
      BY <2>3 DEF States
    <2>5. q.exact = TRUE
      BY <1>2, <2>0, <2>3
    <2> QED BY <2>0, <2>1, <2>3, <2>4, <2>5 DEF counts, Bumped
  <1> QED BY <1>3, <1>4, <1>5

\* A row more, of a column.
LEMMA TrackHonest ==
  ASSUME Arguments, NEW s \in States(Frame), NEW c \in Columns(Frame), NEW k \in Nat, k < Len(Frame.rows),
         HonestAt(Frame, s[c], c, k)
  PROVE  HonestAt(Frame, Track(s, c, Frame.rows[k + 1][c])[c], c, k + 1)
  <1> DEFINE value == Frame.rows[k + 1][c]
             t == Track(s, c, value)
  <1>1. value \in Values \union {Blank}
    BY FrameCells
  <1>2. PICK n \in 0..k :
          /\ \A v \in Values : s[c].counts[v] = Cardinality(RowsUpTo(Frame, c, v, n))
          /\ s[c].exact => n = k
          /\ ~ s[c].exact => /\ n < k /\ Frame.rows[n + 1][c] \in Values
                             /\ RowsUpTo(Frame, c, Frame.rows[n + 1][c], n) = {}
    BY DEF HonestAt
  <1>3. n \in Nat /\ n <= k /\ n \in 0..k + 1 /\ k + 1 \in 0..k + 1
    OBVIOUS
  <1>4. s[c].counts \in [Values -> Nat] /\ s[c].exact \in BOOLEAN
    BY DEF States, ColumnState
  <1>5. \A v : /\ value = v => Cardinality(RowsUpTo(Frame, c, v, k + 1)) = Cardinality(RowsUpTo(Frame, c, v, k)) + 1
               /\ value # v => Cardinality(RowsUpTo(Frame, c, v, k + 1)) = Cardinality(RowsUpTo(Frame, c, v, k))
               /\ Cardinality(RowsUpTo(Frame, c, v, k)) \in Nat /\ IsFiniteSet(RowsUpTo(Frame, c, v, k))
    BY OneMoreRow
  <1>6. CASE ~ s[c].exact
    <2>1. t = s
      BY <1>6 DEF Track
    <2>2. n < k + 1
      BY <1>3
    <2> HIDE DEF t, value
    <2>3. HonestAt(Frame, t[c], c, k + 1)
      BY <1>2, <1>3, <1>6, <2>1, <2>2 DEF HonestAt
    <2> QED BY <2>3 DEF t, value
  <1>7. CASE s[c].exact /\ value = Blank
    <2>1. t = s
      BY <1>7 DEF Track
    <2>2. \A v \in Values : s[c].counts[v] = Cardinality(RowsUpTo(Frame, c, v, k + 1))
      BY <1>2, <1>5, <1>7, CellAssumption
    <2> HIDE DEF t, value
    <2>3. HonestAt(Frame, t[c], c, k + 1)
      BY <1>3, <1>7, <2>1, <2>2 DEF HonestAt
    <2> QED BY <2>3 DEF t, value
  <1>8. CASE /\ value \in Values /\ s[c].exact /\ s[c].counts[value] = 0
             /\ t[c].exact = FALSE /\ t[c].counts = s[c].counts
    <2>1. n = k
      BY <1>2, <1>8
    <2>2. RowsUpTo(Frame, c, value, k) = {}
      BY <1>2, <1>5, <1>8, <2>1, FS_EmptySet
    <2>3. k \in 0..k + 1 /\ k < k + 1
      OBVIOUS
    <2>4. \A v \in Values : t[c].counts[v] = Cardinality(RowsUpTo(Frame, c, v, k))
      BY <1>2, <1>8, <2>1
    <2>5. ~ t[c].exact /\ Frame.rows[k + 1][c] \in Values /\ RowsUpTo(Frame, c, Frame.rows[k + 1][c], k) = {}
      BY <1>8, <2>2
    <2> HIDE DEF t, value
    <2>6. HonestAt(Frame, t[c], c, k + 1)
      BY <2>3, <2>4, <2>5 DEF HonestAt
    <2> QED BY <2>6 DEF t, value
  <1>9. CASE /\ value \in Values /\ s[c].exact /\ t[c].exact = TRUE
             /\ t[c].counts = Bumped(s[c].counts, value)
    <2>1. n = k
      BY <1>2, <1>9
    <2>2. \A v \in Values : t[c].counts[v] = Cardinality(RowsUpTo(Frame, c, v, k + 1))
      <3> HIDE DEF t, value
      <3> TAKE v \in Values
      <3>1. CASE v = value
        BY <1>2, <1>4, <1>5, <1>9, <2>1, <3>1 DEF Bumped
      <3>2. CASE v # value
        BY <1>2, <1>4, <1>5, <1>9, <2>1, <3>2 DEF Bumped
      <3> QED BY <3>1, <3>2
    <2> HIDE DEF t, value
    <2>3. HonestAt(Frame, t[c], c, k + 1)
      BY <1>3, <1>9, <2>2 DEF HonestAt
    <2> QED BY <2>3 DEF t, value
  <1> HIDE DEF t, value
  <1>10. \/ value = Blank \/ ~ s[c].exact
         \/ /\ value \in Values /\ s[c].exact /\ s[c].counts[value] = 0
            /\ t[c].exact = FALSE /\ t[c].counts = s[c].counts
         \/ /\ value \in Values /\ s[c].exact /\ t[c].exact = TRUE
            /\ t[c].counts = Bumped(s[c].counts, value)
    <2>1. \/ (value = Blank \/ ~ s[c].exact) /\ t = s
          \/ /\ value \in Values /\ s[c].exact /\ s[c].counts[value] = 0
             /\ t[c].exact = FALSE /\ t[c].counts = s[c].counts
          \/ /\ value \in Values /\ s[c].exact /\ t[c].exact = TRUE
             /\ t[c].counts = Bumped(s[c].counts, value)
      BY <1>1, TrackIs DEF t
    <2> QED BY <2>1
  <1> QED BY <1>4, <1>6, <1>7, <1>8, <1>9, <1>10 DEF t, value

\* A function that is computed value after value exists.
Computed(f, n, S, a, G) == f \in [0..n -> S] /\ f[0] = a /\ \A i \in 1..n : f[i] = G[<<f[i - 1], i>>]

LEMMA StepByStep ==
  ASSUME NEW n \in Nat, NEW S, NEW a \in S, NEW G \in [S \X (1..n) -> S]
  PROVE  \E f : Computed(f, n, S, a, G)
  <1> DEFINE Good(m) == \E f \in [0..m -> S] : f[0] = a /\ \A i \in 1..m : f[i] = G[<<f[i - 1], i>>]
             bad == {m \in 0..n : ~ Good(m)}
  <1>0. SUFFICES ASSUME ~ Good(n) PROVE FALSE
    BY DEF Computed
  <1>1. PICK m \in bad : \A l \in bad : m <= l
    <2>1. n \in 0..n /\ bad \subseteq Nat
      OBVIOUS
    <2>2. bad # {}
      <3> HIDE DEF Good
      <3> QED BY <1>0, <2>1
    <2> HIDE DEF bad
    <2> QED BY <2>1, <2>2, Least
  <1>2. m \in 0..n /\ ~ Good(m)
    OBVIOUS
  <1>3. CASE m = 0
    <2> DEFINE f == [i \in 0..0 |-> a]
    <2>1. f \in [0..0 -> S] /\ f[0] = a /\ \A i \in 1..0 : FALSE
      OBVIOUS
    <2>2. Good(0)
      <3> HIDE DEF f
      <3> QED BY <2>1
    <2> QED BY <1>2, <1>3, <2>2
  <1>4. CASE m # 0
    <2>1. m \in Nat /\ m \in 1..n /\ m - 1 \in 0..n /\ m - 1 \in Nat /\ ~ (m <= m - 1)
      BY <1>2, <1>4
    <2>2. Good(m - 1)
      BY <1>1, <2>1
    <2>3. PICK f \in [0..m - 1 -> S] : f[0] = a /\ \A i \in 1..m - 1 : f[i] = G[<<f[i - 1], i>>]
      BY <2>2
    <2> DEFINE g == [i \in 0..m |-> IF i = m THEN G[<<f[m - 1], m>>] ELSE f[i]]
    <2>4. G[<<f[m - 1], m>>] \in S
      <3>1. <<f[m - 1], m>> \in S \X (1..n)
        BY <2>1
      <3> QED BY <3>1
    <2>5. \A i \in 0..m : i # m => i \in 0..m - 1
      BY <2>1
    <2>6. g \in [0..m -> S]
      BY <2>3, <2>4, <2>5
    <2>7. \A i \in 0..m - 1 : g[i] = f[i]
      BY <2>1
    <2>8. g[m] = G[<<f[m - 1], m>>]
      BY <2>1
    <2> HIDE DEF g
    <2>9. g[0] = a
      BY <2>1, <2>3, <2>7
    <2>10. ASSUME NEW i \in 1..m PROVE g[i] = G[<<g[i - 1], i>>]
      <3>1. CASE i = m
        <4>1. m - 1 \in 0..m - 1
          BY <2>1
        <4> QED BY <2>7, <2>8, <3>1, <4>1
      <3>2. CASE i # m
        <4>1. i \in 1..m - 1 /\ i \in 0..m - 1 /\ i - 1 \in 0..m - 1
          BY <2>1, <3>2
        <4> QED BY <2>3, <2>7, <4>1
      <3> QED BY <3>1, <3>2
    <2>11. Good(m)
      BY <2>6, <2>9, <2>10
    <2> QED BY <1>2, <2>11
  <1> QED BY <1>3, <1>4

\* The rows of a batch, of a column.
LEMMA TrackColumnIs ==
  ASSUME Arguments, NEW s \in States(Frame), NEW c \in Columns(Frame), NEW rows, NEW k \in Nat,
         Len(rows) \in Nat, k + Len(rows) <= Len(Frame.rows),
         \A i \in 1..Len(rows) : rows[i] = Frame.rows[k + i]
  PROVE  /\ TrackColumn(s, c, rows) \in States(Frame)
         /\ \A d \in Columns(Frame) : d # c => TrackColumn(s, c, rows)[d] = s[d]
         /\ TrackColumn(s, c, rows)[c].seen = s[c].seen
         /\ HonestAt(Frame, s[c], c, k) => HonestAt(Frame, TrackColumn(s, c, rows)[c], c, k + Len(rows))
  <1> DEFINE n == Len(rows)
             of(h, r) == IF r = 0 THEN s ELSE Track(h[r - 1], c, rows[r][c])
             after == CHOOSE h : h = [r \in 0..n |-> of(h, r)]
             G == [p \in States(Frame) \X (1..n) |-> Track(p[1], c, rows[p[2]][c])]
             Good(r) == /\ after[r] \in States(Frame)
                        /\ \A d \in Columns(Frame) : d # c => after[r][d] = s[d]
                        /\ after[r][c].seen = s[c].seen
                        /\ HonestAt(Frame, s[c], c, k) => HonestAt(Frame, after[r][c], c, k + r)
  <1>1. n \in Nat /\ Len(Frame.rows) \in Nat
    BY FrameCells
  <1>2. \A r \in 1..n : rows[r][c] = Frame.rows[k + r][c] /\ rows[r][c] \in Values \union {Blank}
    <2> TAKE r \in 1..n
    <2>1. k + r \in 1..Len(Frame.rows)
      BY <1>1
    <2>2. Frame.rows[k + r][c] \in Values \union {Blank}
      BY <2>1, FrameCells
    <2> QED BY <2>2
  <1>3. G \in [States(Frame) \X (1..n) -> States(Frame)]
    <2>1. ASSUME NEW p \in States(Frame) \X (1..n) PROVE Track(p[1], c, rows[p[2]][c]) \in States(Frame)
      <3>1. p[1] \in States(Frame) /\ p[2] \in 1..n
        OBVIOUS
      <3>2. rows[p[2]][c] \in Values \union {Blank}
        BY <1>2, <3>1
      <3> QED BY <3>1, <3>2, TrackIs
    <2> QED BY <2>1
  <1>4. PICK f \in [0..n -> States(Frame)] : f[0] = s /\ \A i \in 1..n : f[i] = G[<<f[i - 1], i>>]
    <2> HIDE DEF n, G
    <2>1. \E f : Computed(f, n, States(Frame), s, G)
      BY <1>1, <1>3, StepByStep
    <2> QED BY <2>1 DEF Computed
  <1>5. f = [r \in 0..n |-> of(f, r)]
    <2>1. \A r \in 0..n : f[r] = of(f, r)
      <3> TAKE r \in 0..n
      <3>1. CASE r = 0
        BY <1>4, <3>1
      <3>2. CASE r # 0
        <4>1. r \in 1..n /\ r - 1 \in 0..n
          BY <1>1, <3>2
        <4>2. <<f[r - 1], r>> \in States(Frame) \X (1..n)
          BY <1>4, <4>1
        <4>3. G[<<f[r - 1], r>>] = Track(f[r - 1], c, rows[r][c])
          BY <4>2
        <4> HIDE DEF G
        <4> QED BY <1>4, <3>2, <4>1, <4>3
      <3> QED BY <3>1, <3>2
    <2> HIDE DEF of
    <2> QED BY <2>1, <1>4
  <1>6. after = [r \in 0..n |-> of(after, r)]
    <2> HIDE DEF of, n
    <2> QED BY <1>5
  <1>7. /\ after[0] = s
        /\ \A r \in 1..n : r \in 0..n /\ r - 1 \in 0..n /\ after[r] = Track(after[r - 1], c, rows[r][c])
    <2> HIDE DEF after
    <2>1. 0 \in 0..n
      BY <1>1
    <2>2. \A r \in 1..n : r \in 0..n /\ r - 1 \in 0..n /\ r # 0
      BY <1>1
    <2> QED BY <1>6, <2>1, <2>2
  <1> HIDE DEF after, of, n
  <1>8. Good(0)
    BY <1>7
  <1>9. ASSUME NEW r \in 1..n, Good(r - 1) PROVE Good(r)
    <2>1. r \in Nat /\ k + (r - 1) \in Nat /\ k + (r - 1) < Len(Frame.rows)
          /\ (k + (r - 1)) + 1 = k + r
      BY <1>1 DEF n
    <2>2. rows[r][c] = Frame.rows[(k + (r - 1)) + 1][c] /\ rows[r][c] \in Values \union {Blank}
      BY <1>2, <2>1
    <2> DEFINE old == after[r - 1]
               value == rows[r][c]
               j == k + (r - 1)
    <2>3. after[r] = Track(old, c, value) /\ old \in States(Frame)
      BY <1>7, <1>9
    <2>4. HonestAt(Frame, s[c], c, k) => HonestAt(Frame, old[c], c, j)
      BY <1>9
    <2>5. HonestAt(Frame, s[c], c, k) => HonestAt(Frame, Track(old, c, Frame.rows[j + 1][c])[c], c, j + 1)
      <3> HIDE DEF old, j
      <3> QED BY <2>1, <2>3, <2>4, TrackHonest DEF j
    <2>6. HonestAt(Frame, s[c], c, k) => HonestAt(Frame, after[r][c], c, k + r)
      <3>1. j + 1 = k + r /\ value = Frame.rows[j + 1][c]
        BY <2>1, <2>2
      <3> HIDE DEF old, j, value
      <3> QED BY <2>3, <2>5, <3>1
    <2>7. /\ Track(old, c, value) \in States(Frame)
          /\ \A d \in Columns(Frame) : d # c => Track(old, c, value)[d] = old[d]
          /\ Track(old, c, value)[c].seen = old[c].seen
      <3>1. value \in Values \union {Blank}
        BY <2>2
      <3> HIDE DEF old, value
      <3> QED BY <2>3, <3>1, TrackIs
    <2>8. (\A d \in Columns(Frame) : d # c => old[d] = s[d]) /\ old[c].seen = s[c].seen
      BY <1>9
    <2> HIDE DEF old, value
    <2> QED BY <2>3, <2>6, <2>7, <2>8
  <1>10. Good(n)
    <2> DEFINE bad == {r \in 0..n : ~ Good(r)}
    <2> SUFFICES ASSUME ~ Good(n) PROVE FALSE
      OBVIOUS
    <2> HIDE DEF Good
    <2>1. PICK m \in bad : \A l \in bad : m <= l
      <3>1. bad \subseteq Nat /\ n \in bad
        BY <1>1
      <3> HIDE DEF bad
      <3> QED BY <3>1, Least
    <2>2. m # 0 /\ m \in 0..n /\ ~ Good(m)
      BY <1>8, <2>1
    <2>3. m \in 1..n /\ m - 1 \in 0..n /\ ~ (m <= m - 1)
      BY <1>1, <2>2
    <2>4. Good(m - 1)
      BY <2>1, <2>3
    <2> QED BY <1>9, <2>2, <2>3, <2>4
  <1>11. TrackColumn(s, c, rows) = after[n]
    BY Zenon DEF TrackColumn, after, of, n
  <1> QED BY <1>10, <1>11 DEF n

\* The columns of a batch.
LEMMA UpdateIs ==
  ASSUME Arguments, done \in 0..Len(Frame.rows), done < Len(Frame.rows), AtBatch, NEW s \in States(Frame)
  PROVE  /\ Update(s, Batch) \in States(Frame)
         /\ \A c \in Columns(Frame) :
               /\ Update(s, Batch)[c].seen = s[c].seen \union (CellsOf(Batch, c) \ {Blank})
               /\ HonestAt(Frame, s[c], c, done) => HonestAt(Frame, Update(s, Batch)[c], c, NextRow)
  <1> DEFINE rows == Batch.rows
             header == Batch.header
             n == Len(header)
             m == NextRow
             seen == [c \in DOMAIN s |-> [s[c] EXCEPT !.seen = @ \union (CellsOf(Batch, c) \ {Blank})]]
             of(h, i) == IF i = 0 THEN seen ELSE TrackColumn(h[i - 1], header[i], rows)
             after == CHOOSE h : h = [i \in 0..n |-> of(h, i)]
             G == [p \in States(Frame) \X (1..n) |-> TrackColumn(p[1], header[p[2]], rows)]
  <1>1. /\ done \in Nat /\ m \in Nat /\ done + Len(rows) = m /\ m <= Len(Frame.rows)
        /\ Len(Frame.rows) \in Nat /\ Len(rows) \in Nat
        /\ \A i \in 1..Len(rows) : rows[i] = Frame.rows[done + i]
    <2>1. /\ done \in Nat /\ m \in Nat /\ done < m /\ m <= Len(Frame.rows) /\ Len(Frame.rows) \in Nat
      BY NextRowBounds
    <2>2. Len(rows) = m - done /\ \A i \in 1 .. m - done : rows[i] = Frame.rows[done + i]
      BY BatchIs
    <2> HIDE DEF m, rows
    <2> QED BY <2>1, <2>2
  <1>2. /\ header = Frame.header /\ n \in Nat
        /\ \A c : c \in Columns(Frame) <=> \E i \in 1..n : header[i] = c
        /\ \A i, j \in 1..n : header[i] = header[j] => i = j
    <2>1. header = Frame.header
      BY BatchIs
    <2> HIDE DEF header
    <2> QED BY <2>1, FrameCells
  <1> HIDE DEF rows, header, m, n
  <1>3. ASSUME NEW t \in States(Frame), NEW c \in Columns(Frame)
        PROVE  /\ TrackColumn(t, c, rows) \in States(Frame)
               /\ \A d \in Columns(Frame) : d # c => TrackColumn(t, c, rows)[d] = t[d]
               /\ TrackColumn(t, c, rows)[c].seen = t[c].seen
               /\ HonestAt(Frame, t[c], c, done) => HonestAt(Frame, TrackColumn(t, c, rows)[c], c, m)
    <2>1. done + Len(rows) <= Len(Frame.rows)
      BY <1>1
    <2>2. /\ TrackColumn(t, c, rows) \in States(Frame)
          /\ \A d \in Columns(Frame) : d # c => TrackColumn(t, c, rows)[d] = t[d]
          /\ TrackColumn(t, c, rows)[c].seen = t[c].seen
          /\ HonestAt(Frame, t[c], c, done) => HonestAt(Frame, TrackColumn(t, c, rows)[c], c, done + Len(rows))
      BY <1>1, <2>1, TrackColumnIs
    <2> QED BY <1>1, <2>2
  <1>4. /\ seen \in States(Frame)
        /\ \A c \in Columns(Frame) : /\ seen[c].seen = s[c].seen \union (CellsOf(Batch, c) \ {Blank})
                                    /\ seen[c].counts = s[c].counts /\ seen[c].exact = s[c].exact
    <2>1. ASSUME NEW c \in Columns(Frame)
          PROVE  /\ seen[c] \in ColumnState
                 /\ seen[c].seen = s[c].seen \union (CellsOf(Batch, c) \ {Blank})
                 /\ seen[c].counts = s[c].counts /\ seen[c].exact = s[c].exact
      <3> DEFINE cells == CellsOf(Batch, c) \ {Blank}
      <3>1. cells \in SUBSET Values
        <4> SUFFICES ASSUME NEW i \in DOMAIN rows PROVE rows[i][c] \in Values \union {Blank}
          BY DEF CellsOf, rows
        <4>1. i \in 1..Len(rows)
          BY BatchIs DEF rows
        <4>2. rows[i] = Frame.rows[done + i] /\ done + i \in 1..Len(Frame.rows)
          BY <1>1, <4>1
        <4> QED BY <4>2, FrameCells
      <3>2. s[c] \in ColumnState /\ c \in DOMAIN s
        BY DEF States
      <3>3. seen[c] = [s[c] EXCEPT !.seen = s[c].seen \union cells]
        BY <3>2
      <3> HIDE DEF cells, seen
      <3>4. s[c].seen \union cells \in SUBSET Values
        BY <3>1, <3>2 DEF ColumnState
      <3>5. seen[c] \in ColumnState /\ seen[c].seen = s[c].seen \union cells
            /\ seen[c].counts = s[c].counts /\ seen[c].exact = s[c].exact
        BY <3>2, <3>3, <3>4 DEF ColumnState
      <3> QED BY <3>5 DEF cells
    <2>2. DOMAIN seen = Columns(Frame) /\ seen = [c \in DOMAIN seen |-> seen[c]]
      BY DEF States
    <2> HIDE DEF seen
    <2>3. seen \in States(Frame)
      BY <2>1, <2>2 DEF States
    <2> QED BY <2>1, <2>3
  <1> HIDE DEF seen
  <1>5. G \in [States(Frame) \X (1..n) -> States(Frame)]
    <2>1. ASSUME NEW p \in States(Frame) \X (1..n) PROVE TrackColumn(p[1], header[p[2]], rows) \in States(Frame)
      <3>1. p[1] \in States(Frame) /\ p[2] \in 1..n
        OBVIOUS
      <3>2. header[p[2]] \in Columns(Frame)
        BY <1>2, <3>1
      <3> QED BY <1>3, <3>1, <3>2
    <2> QED BY <2>1
  <1>6. PICK f \in [0..n -> States(Frame)] : f[0] = seen /\ \A i \in 1..n : f[i] = G[<<f[i - 1], i>>]
    <2> HIDE DEF G
    <2>1. \E f : Computed(f, n, States(Frame), seen, G)
      BY <1>2, <1>4, <1>5, StepByStep
    <2> QED BY <2>1 DEF Computed
  <1>7. f = [i \in 0..n |-> of(f, i)]
    <2>1. \A i \in 0..n : f[i] = of(f, i)
      <3> TAKE i \in 0..n
      <3>1. CASE i = 0
        BY <1>6, <3>1
      <3>2. CASE i # 0
        <4>1. i \in 1..n /\ i - 1 \in 0..n
          BY <1>2, <3>2
        <4>2. <<f[i - 1], i>> \in States(Frame) \X (1..n)
          BY <1>6, <4>1
        <4>3. G[<<f[i - 1], i>>] = TrackColumn(f[i - 1], header[i], rows)
          BY <4>2
        <4> HIDE DEF G
        <4> QED BY <1>6, <3>2, <4>1, <4>3
      <3> QED BY <3>1, <3>2
    <2> HIDE DEF of
    <2> QED BY <2>1, <1>6
  <1>8. after = [i \in 0..n |-> of(after, i)]
    <2> HIDE DEF of, n
    <2> QED BY <1>7
  <1>9. /\ after[0] = seen
        /\ \A i \in 1..n : /\ i \in 0..n /\ i - 1 \in 0..n
                           /\ after[i] = TrackColumn(after[i - 1], header[i], rows)
    <2> HIDE DEF after
    <2>1. 0 \in 0..n
      BY <1>2
    <2>2. \A i \in 1..n : i \in 0..n /\ i - 1 \in 0..n /\ i # 0
      BY <1>2
    <2> QED BY <1>8, <2>1, <2>2
  <1> HIDE DEF after, of
  <1> DEFINE Past(c, i) == \E j \in 1..i : header[j] = c
             RowsOf(c, i) == IF Past(c, i) THEN m ELSE done
             Good(i) == /\ after[i] \in States(Frame)
                        /\ \A c \in Columns(Frame) :
                              /\ after[i][c].seen = seen[c].seen
                              /\ HonestAt(Frame, s[c], c, done) => HonestAt(Frame, after[i][c], c, RowsOf(c, i))
  <1>10. Good(0)
    <2>1. \A c : ~ Past(c, 0)
      OBVIOUS
    <2>2. \A c \in Columns(Frame) : HonestAt(Frame, s[c], c, done) => HonestAt(Frame, seen[c], c, done)
      BY <1>4 DEF HonestAt
    <2> HIDE DEF Past
    <2> QED BY <1>4, <1>9, <2>1, <2>2
  <1>11. ASSUME NEW i \in 1..n, Good(i - 1) PROVE Good(i)
    <2> DEFINE c == header[i]
               old == after[i - 1]
    <2>1. c \in Columns(Frame) /\ old \in States(Frame) /\ after[i] = TrackColumn(old, c, rows)
      BY <1>2, <1>9, <1>11
    <2>2. ~ Past(c, i - 1)
      <3>1. \A j \in 1..i - 1 : j \in 1..n /\ j # i
        BY <1>2
      <3> QED BY <1>2, <3>1
    <2>3. Past(c, i) /\ \A d : d # c => (Past(d, i) <=> Past(d, i - 1))
      <3>1. \A j : j \in 1..i <=> j \in 1..i - 1 \/ j = i
        BY <1>2
      <3> QED BY <3>1
    <2>4. RowsOf(c, i - 1) = done /\ RowsOf(c, i) = m /\ \A d : d # c => RowsOf(d, i) = RowsOf(d, i - 1)
      <3> HIDE DEF c, Past
      <3> QED BY <2>2, <2>3
    <2> HIDE DEF c, RowsOf
    <2>5. /\ TrackColumn(old, c, rows) \in States(Frame)
          /\ \A d \in Columns(Frame) : d # c => TrackColumn(old, c, rows)[d] = old[d]
          /\ TrackColumn(old, c, rows)[c].seen = old[c].seen
          /\ HonestAt(Frame, old[c], c, done) => HonestAt(Frame, TrackColumn(old, c, rows)[c], c, m)
      <3> HIDE DEF old
      <3> QED BY <1>3, <2>1
    <2>6. \A d \in Columns(Frame) :
              /\ old[d].seen = seen[d].seen
              /\ HonestAt(Frame, s[d], d, done) => HonestAt(Frame, old[d], d, RowsOf(d, i - 1))
      BY <1>11
    <2> HIDE DEF old
    <2> SUFFICES ASSUME NEW d \in Columns(Frame)
                 PROVE  /\ after[i][d].seen = seen[d].seen
                        /\ HonestAt(Frame, s[d], d, done) => HonestAt(Frame, after[i][d], d, RowsOf(d, i))
      BY <2>1, <2>5
    <2>7. CASE d = c
      BY <2>1, <2>4, <2>5, <2>6, <2>7
    <2>8. CASE d # c
      <3>1. after[i][d] = old[d] /\ RowsOf(d, i) = RowsOf(d, i - 1)
        BY <2>1, <2>4, <2>5, <2>8
      <3> QED BY <2>6, <3>1
    <2> QED BY <2>7, <2>8
  <1>12. Good(n)
    <2> DEFINE bad == {i \in 0..n : ~ Good(i)}
    <2> SUFFICES ASSUME ~ Good(n) PROVE FALSE
      OBVIOUS
    <2> HIDE DEF Good
    <2>1. PICK k \in bad : \A l \in bad : k <= l
      <3>1. bad \subseteq Nat /\ n \in bad
        BY <1>2
      <3> HIDE DEF bad
      <3> QED BY <3>1, Least
    <2>2. k # 0 /\ k \in 0..n /\ ~ Good(k)
      BY <1>10, <2>1
    <2>3. k \in 1..n /\ k - 1 \in 0..n /\ ~ (k <= k - 1)
      BY <1>2, <2>2
    <2>4. Good(k - 1)
      BY <2>1, <2>3
    <2> QED BY <1>11, <2>2, <2>3, <2>4
  <1>13. Update(s, Batch) = after[n]
    BY Zenon DEF Update, after, of, n, seen, header, rows
  <1>14. \A c \in Columns(Frame) : RowsOf(c, n) = m
    BY <1>2
  <1> HIDE DEF RowsOf
  <1> QED BY <1>4, <1>12, <1>13, <1>14 DEF m

-----------------------------------------------------------------------------
(* The inductive invariant: after some rows everything is as these rows alone make it. *)

CellsUpTo(f, c, n) == {f.rows[r][c] : r \in 1..n} \ {Blank}

RunInv ==
    /\ Arguments /\ done \in 0..Len(Frame.rows) /\ (done < Len(Frame.rows) => AtBatch)
    /\ merged = FindingsOf(Checks(contract, Frame), 0, done)
    /\ nulls = [c \in Columns(Frame) |-> Cardinality(RowsUpTo(Frame, c, Blank, done))]
    /\ profile \in States(Frame)
    /\ \A c \in Columns(Frame) : /\ profile[c].seen = CellsUpTo(Frame, c, done)
                                /\ HonestAt(Frame, profile[c], c, done)

\* The empty cells and the values of a batch are added to those before.
LEMMA CellsOfBatch ==
  ASSUME Arguments, done \in 0..Len(Frame.rows), done < Len(Frame.rows), AtBatch, NEW c \in Columns(Frame)
  PROVE  /\ Cardinality(RowsUpTo(Frame, c, Blank, NextRow)) =
                Cardinality(RowsUpTo(Frame, c, Blank, done)) + Cardinality(RowsWith(Batch, c, {Blank}))
         /\ CellsUpTo(Frame, c, NextRow) = CellsUpTo(Frame, c, done) \union (CellsOf(Batch, c) \ {Blank})
  <1> DEFINE m == NextRow
             rows == Batch.rows
  <1>1. /\ done \in Nat /\ m \in Nat /\ done < m /\ m <= Len(Frame.rows) /\ Len(Frame.rows) \in Nat
    BY NextRowBounds
  <1>2. DOMAIN rows = 1 .. m - done /\ \A i \in 1 .. m - done : rows[i] = Frame.rows[done + i]
    BY BatchIs
  <1> HIDE DEF m, rows
  <1> DEFINE A == RowsUpTo(Frame, c, Blank, m)
             B == RowsUpTo(Frame, c, Blank, done)
             C == {r \in A : done < r /\ r <= m}
             D == RowsWith(Batch, c, {Blank})
  <1>3. Cardinality(A) = Cardinality(B) + Cardinality(D)
    <2>1. IsFiniteSet(A) /\ IsFiniteSet(B) /\ IsFiniteSet(C) /\ A \subseteq Nat
      <3>1. IsFiniteSet(1..m) /\ IsFiniteSet(1..done)
        BY <1>1, FS_Interval
      <3>2. A \subseteq 1..m /\ B \subseteq 1..done /\ C \subseteq A
        BY DEF RowsUpTo
      <3>3. 1..m \subseteq Nat
        OBVIOUS
      <3> HIDE DEF A, B, C
      <3>4. IsFiniteSet(A) /\ IsFiniteSet(B)
        BY <3>1, <3>2, FS_Subset
      <3>5. IsFiniteSet(C)
        BY <3>2, <3>4, FS_Subset
      <3> QED BY <3>2, <3>3, <3>4, <3>5
    <2>2. A = B \union C /\ B \intersect C = {}
      <3>1. \A r : r \in 1..m <=> r \in 1..done \/ (r \in 1..m /\ done < r /\ r <= m)
        BY <1>1
      <3>2. \A r \in 1..done : ~ (done < r)
        BY <1>1
      <3> QED BY <3>1, <3>2 DEF RowsUpTo
    <2>3. D = {i \in 1 .. m - done : done + i \in A}
      <3>1. \A i \in 1 .. m - done : done + i \in 1..m
        BY <1>1
      <3>2. D = {i \in 1 .. m - done : Frame.rows[done + i][c] = Blank}
        BY <1>2 DEF RowsWith, rows
      <3> QED BY <3>1, <3>2 DEF RowsUpTo
    <2> HIDE DEF A, B, D
    <2>4. D = Back(C, done)
      BY <1>1, <2>1, <2>3, BackOfBatch
    <2>5. Cardinality(D) = Cardinality(C)
      <3>1. C \subseteq Nat
        BY <2>1
      <3> HIDE DEF C
      <3> QED BY <1>1, <2>1, <2>4, <3>1, BackIsFinite
    <2> HIDE DEF C
    <2>6. Cardinality(A) = Cardinality(B) + Cardinality(C) - Cardinality(B \intersect C)
      BY <2>1, <2>2, FS_Union
    <2>7. Cardinality(B \intersect C) = 0 /\ Cardinality(B) \in Nat /\ Cardinality(C) \in Nat
      BY <2>1, <2>2, FS_EmptySet, FS_CardinalityType
    <2> QED BY <2>5, <2>6, <2>7
  <1>4. CellsUpTo(Frame, c, m) = CellsUpTo(Frame, c, done) \union (CellsOf(Batch, c) \ {Blank})
    <2>1. CellsOf(Batch, c) = {rows[i][c] : i \in 1 .. m - done}
      BY <1>2 DEF CellsOf, rows
    <2>2. ASSUME NEW v, v \in CellsUpTo(Frame, c, m)
          PROVE  v \in CellsUpTo(Frame, c, done) \union (CellsOf(Batch, c) \ {Blank})
      <3>1. PICK r \in 1..m : v = Frame.rows[r][c] /\ v # Blank
        BY <2>2 DEF CellsUpTo
      <3>2. CASE r <= done
        <4>1. r \in 1..done
          BY <1>1, <3>2
        <4> QED BY <3>1, <4>1 DEF CellsUpTo
      <3>3. CASE ~ (r <= done)
        <4>1. r - done \in 1 .. m - done /\ done + (r - done) = r
          BY <1>1, <3>3
        <4>2. rows[r - done] = Frame.rows[r]
          BY <1>2, <4>1
        <4> QED BY <2>1, <3>1, <4>1, <4>2
      <3> QED BY <3>2, <3>3
    <2>3. ASSUME NEW v, v \in CellsUpTo(Frame, c, done) PROVE v \in CellsUpTo(Frame, c, m)
      <3>1. \A r \in 1..done : r \in 1..m
        BY <1>1
      <3> QED BY <2>3, <3>1 DEF CellsUpTo
    <2>4. ASSUME NEW v, v \in CellsOf(Batch, c) \ {Blank} PROVE v \in CellsUpTo(Frame, c, m)
      <3>1. PICK i \in 1 .. m - done : v = rows[i][c] /\ v # Blank
        BY <2>1, <2>4
      <3>2. done + i \in 1..m /\ rows[i] = Frame.rows[done + i]
        BY <1>1, <1>2
      <3> QED BY <3>1, <3>2 DEF CellsUpTo
    <2> QED BY <2>2, <2>3, <2>4
  <1> QED BY <1>3, <1>4 DEF m

LEMMA RunInvInit == Init => RunInv
  <1> SUFFICES ASSUME Init PROVE RunInv
    OBVIOUS
  <1>1. Arguments /\ done = 0 /\ merged = {}
    BY DEF Init, Arguments
  <1>2. done \in 0..Len(Frame.rows) /\ AtBatch /\ Columns(Frame) = Columns(file)
    <2>1. 0 = 0 * BatchRows
      BY BatchAssumption
    <2> QED BY <1>1, <2>1, FrameCells, FrameIs DEF AtBatch
  <1>3. FindingsOf(Checks(contract, Frame), 0, done) = {}
    <2>1. \A l \in Checks(contract, Frame) : Between(l, 0, 0) = {}
      <3> SUFFICES ASSUME NEW l \in Checks(contract, Frame), NEW r \in Between(l, 0, 0) PROVE FALSE
        OBVIOUS
      <3>1. r \in Nat /\ 0 < r /\ r <= 0
        BY <1>1, CheckRows DEF Between
      <3> QED BY <3>1
    <2> QED BY <1>1, <2>1 DEF FindingsOf
  <1>4. \A c, v : RowsUpTo(Frame, c, v, 0) = {} /\ Cardinality(RowsUpTo(Frame, c, v, 0)) = 0
    <2>1. \A c, v : RowsUpTo(Frame, c, v, 0) = {}
      BY DEF RowsUpTo
    <2> QED BY <2>1, FS_EmptySet
  <1>5. nulls = [c \in Columns(Frame) |-> Cardinality(RowsUpTo(Frame, c, Blank, done))]
    BY <1>1, <1>2, <1>4 DEF Init
  <1> DEFINE zero == [v \in Values |-> 0]
             fresh == [seen |-> {}, counts |-> zero, exact |-> TRUE]
  <1>6. profile = [c \in Columns(Frame) |-> fresh]
    BY <1>2 DEF Init
  <1>7. fresh \in ColumnState /\ fresh.seen = {} /\ fresh.counts = zero /\ fresh.exact = TRUE
        /\ \A v \in Values : zero[v] = 0
    BY DEF ColumnState
  <1> HIDE DEF fresh, zero
  <1>8. profile \in States(Frame)
    BY <1>6, <1>7 DEF States
  <1>9. ASSUME NEW c \in Columns(Frame)
        PROVE  profile[c].seen = CellsUpTo(Frame, c, done) /\ HonestAt(Frame, profile[c], c, done)
    <2>1. profile[c] = fresh
      BY <1>6
    <2>2. CellsUpTo(Frame, c, done) = {}
      BY <1>1 DEF CellsUpTo
    <2>3. 0 \in 0..0
      OBVIOUS
    <2>4. HonestAt(Frame, fresh, c, 0)
      BY <1>4, <1>7, <2>3 DEF HonestAt
    <2> QED BY <1>1, <1>7, <2>1, <2>2, <2>4
  <1> QED BY <1>1, <1>2, <1>3, <1>5, <1>8, <1>9 DEF RunInv

LEMMA AddBatchPreserves == ASSUME RunInv, AddBatch PROVE RunInv'
  <1>1. /\ Arguments /\ done \in 0..Len(Frame.rows) /\ done < Len(Frame.rows) /\ AtBatch
        /\ merged = FindingsOf(Checks(contract, Frame), 0, done)
        /\ profile \in States(Frame)
    <2>1. Arguments /\ done < Len(file.rows)
      BY DEF RunInv, AddBatch
    <2>2. done < Len(Frame.rows)
      BY <2>1, FrameIs
    <2> QED BY <2>2 DEF RunInv
  <1>2. contract' = contract /\ file' = file /\ Frame' = Frame
    <2>1. contract' = contract /\ file' = file
      BY DEF AddBatch
    <2> QED BY <2>1 DEF Frame
  <1>3. Arguments'
    BY <1>1, <1>2 DEF Arguments
  <1> DEFINE m == NextRow
  <1>4. done' = m /\ m \in 0..Len(Frame.rows)
    <2>1. done' = m
      BY DEF AddBatch
    <2>2. m \in Nat /\ m <= Len(Frame.rows) /\ Len(Frame.rows) \in Nat
      BY <1>1, NextRowBounds
    <2> HIDE DEF m
    <2> QED BY <2>1, <2>2
  <1>5. merged' = FindingsOf(Checks(contract, Frame), 0, m)
    BY <1>1, MergedIs DEF AddBatch
  <1>6. nulls' = [c \in Columns(Frame) |-> Cardinality(RowsUpTo(Frame, c, Blank, m))]
    <2>1. nulls = [c \in Columns(Frame) |-> Cardinality(RowsUpTo(Frame, c, Blank, done))]
      BY DEF RunInv
    <2>2. nulls' = [c \in DOMAIN nulls |-> nulls[c] + Cardinality(RowsWith(Batch, c, {Blank}))]
      BY DEF AddBatch
    <2>3. \A c \in Columns(Frame) : Cardinality(RowsUpTo(Frame, c, Blank, m)) =
              Cardinality(RowsUpTo(Frame, c, Blank, done)) + Cardinality(RowsWith(Batch, c, {Blank}))
      BY <1>1, CellsOfBatch
    <2> HIDE DEF m
    <2> QED BY <2>1, <2>2, <2>3
  <1>7. profile' = Update(profile, Batch)
    BY DEF AddBatch
  <1>8. /\ profile' \in States(Frame)
        /\ \A c \in Columns(Frame) :
              /\ profile'[c].seen = profile[c].seen \union (CellsOf(Batch, c) \ {Blank})
              /\ HonestAt(Frame, profile[c], c, done) => HonestAt(Frame, profile'[c], c, m)
    BY <1>1, <1>7, UpdateIs
  <1>9. ASSUME NEW c \in Columns(Frame)
        PROVE  profile'[c].seen = CellsUpTo(Frame, c, m) /\ HonestAt(Frame, profile'[c], c, m)
    <2>1. profile[c].seen = CellsUpTo(Frame, c, done) /\ HonestAt(Frame, profile[c], c, done)
      BY DEF RunInv
    <2>2. CellsUpTo(Frame, c, m) = CellsUpTo(Frame, c, done) \union (CellsOf(Batch, c) \ {Blank})
      BY <1>1, CellsOfBatch
    <2> QED BY <1>8, <2>1, <2>2
  <1> HIDE DEF m
  <1>10. FindingsOf(Checks(contract', Frame'), 0, done') = FindingsOf(Checks(contract, Frame), 0, m)
    BY <1>2, <1>4
  <1>11. (nulls = [c \in Columns(Frame) |-> Cardinality(RowsUpTo(Frame, c, Blank, done))])'
    BY <1>2, <1>4, <1>6
  <1>12. (\A c \in Columns(Frame) : /\ profile[c].seen = CellsUpTo(Frame, c, done)
                                   /\ HonestAt(Frame, profile[c], c, done))'
    BY <1>2, <1>4, <1>9
  <1>13. (done \in 0..Len(Frame.rows))' /\ (profile \in States(Frame))'
    BY <1>2, <1>4, <1>8
  <1>14. (merged = FindingsOf(Checks(contract, Frame), 0, done))'
    BY <1>5, <1>10
  <1>15. (done < Len(Frame.rows) => AtBatch)'
    <2> SUFFICES ASSUME m < Len(Frame.rows) PROVE \E k \in Nat : m = k * BatchRows
      BY <1>2, <1>4 DEF AtBatch
    <2>1. PICK k \in Nat : done = k * BatchRows
      BY <1>1 DEF AtBatch
    <2>2. m = done + BatchRows
      <3>1. Len(file.rows) = Len(Frame.rows)
        BY <1>1, FrameIs
      <3> QED BY <3>1 DEF NextRow, m
    <2>3. (k + 1) * BatchRows = k * BatchRows + BatchRows /\ k + 1 \in Nat
      BY BatchAssumption
    <2> QED BY <2>1, <2>2, <2>3
  <1> QED BY <1>3, <1>11, <1>12, <1>13, <1>14, <1>15 DEF RunInv

THEOREM RunInvariant == Spec => []RunInv
  <1>1. RunInv /\ [Next]_vars => RunInv'
    <2> SUFFICES ASSUME RunInv, [Next]_vars PROVE RunInv'
      OBVIOUS
    <2>1. CASE AddBatch
      BY <2>1, AddBatchPreserves
    <2>2. CASE UNCHANGED vars
      <3>1. UNCHANGED <<contract, file, done, merged, nulls, profile>>
        BY <2>2 DEF vars
      <3>2. UNCHANGED Frame
        BY <3>1 DEF Frame
      <3>3. UNCHANGED AtBatch
        BY <3>1 DEF AtBatch
      <3> QED BY <3>1, <3>2, <3>3 DEF RunInv, Arguments
    <2> QED BY <2>1, <2>2 DEF Next, Finished
  <1> QED BY <1>1, RunInvInit, PTL DEF Spec

-----------------------------------------------------------------------------
(* What a profile says of a column. *)

Total(share, S) == MapThenSumSet(LAMBDA k : share[k], S)

Under(k, R, d)    == {r \in R : d[r] = k}
UnderAny(S, R, d) == {r \in R : d[r] \in S}

\* If the share of each value is the number of the rows that hold it, the sum of the shares is
\* the number of the rows that hold any of the values.
LEMMA SumOfShares ==
  ASSUME NEW R, IsFiniteSet(R), NEW S, IsFiniteSet(S), NEW d, NEW share,
         \A k \in S : share[k] = Cardinality(Under(k, R, d))
  PROVE  Total(share, S) = Cardinality(UnderAny(S, R, d))
  <1> DEFINE n(s) == Cardinality({r \in R : d[r] \in s})
             g == [s \in SUBSET S |-> n(s)]
             of(h, s) == IF s = {} THEN 0
                         ELSE LET x == CHOOSE x \in s : TRUE IN share[x] + h[s \ {x}]
             sum == CHOOSE h : h = [s \in SUBSET S |-> of(h, s)]
  <1>1. ASSUME NEW s \in SUBSET S, NEW x \in s
        PROVE  n(s) = share[x] + n(s \ {x}) /\ share[x] \in Nat /\ n(s) \in Nat /\ n(s \ {x}) \in Nat
    <2> DEFINE A == {r \in R : d[r] = x}
               B == {r \in R : d[r] \in s \ {x}}
               C == {r \in R : d[r] \in s}
    <2>1. C = A \union B /\ A \intersect B = {}
      OBVIOUS
    <2>2. IsFiniteSet(A) /\ IsFiniteSet(B) /\ IsFiniteSet(C)
      BY FS_Subset
    <2>3. share[x] = Cardinality(A)
      BY DEF Under
    <2>4. Cardinality(A) \in Nat /\ Cardinality(B) \in Nat /\ Cardinality(C) \in Nat
      BY <2>2, FS_CardinalityType
    <2> HIDE DEF A, B, C
    <2>5. Cardinality(C) = Cardinality(A) + Cardinality(B)
      BY <2>1, <2>2, <2>4, FS_Union, FS_EmptySet
    <2> QED BY <2>3, <2>4, <2>5 DEF B, C
  <1>2. n({}) = 0
    <2>1. {r \in R : d[r] \in {}} = {}
      OBVIOUS
    <2> QED BY <2>1, FS_EmptySet
  <1> HIDE DEF n
  <1>3. \A s \in SUBSET S : g[s] = of(g, s)
    <2> TAKE s \in SUBSET S
    <2>1. CASE s = {}
      BY <1>2, <2>1
    <2>2. CASE s # {}
      <3>1. PICK x : x = (CHOOSE y \in s : TRUE) /\ x \in s
        BY <2>2
      <3>2. n(s) = share[x] + n(s \ {x}) /\ s \ {x} \in SUBSET S
        BY <1>1, <3>1
      <3> QED BY <2>2, <3>1, <3>2
    <2> QED BY <2>1, <2>2
  <1>4. g = [s \in SUBSET S |-> of(g, s)]
    BY <1>3
  <1>5. sum = [s \in SUBSET S |-> of(sum, s)]
    <2> HIDE DEF of, g
    <2> QED BY <1>4
  <1>6. \A s \in SUBSET S : sum[s] = n(s)
    <2> HIDE DEF sum
    <2> SUFFICES ASSUME NEW s0 \in SUBSET S, sum[s0] # n(s0) PROVE FALSE
      OBVIOUS
    <2> DEFINE bad == {s \in SUBSET S : sum[s] # n(s)}
               sizes == {Cardinality(s) : s \in bad}
    <2>1. \A s \in SUBSET S : IsFiniteSet(s) /\ Cardinality(s) \in Nat
      BY FS_Subset, FS_CardinalityType
    <2>2. PICK m \in sizes : \A l \in sizes : m <= l
      <3>1. sizes \subseteq Nat /\ sizes # {}
        BY <2>1
      <3> HIDE DEF sizes
      <3> QED BY <3>1, Least
    <2>3. PICK s \in bad : Cardinality(s) = m
      BY <2>2
    <2>4. s # {}
      BY <1>2, <1>5, <2>3
    <2>5. PICK x : x = (CHOOSE y \in s : TRUE) /\ x \in s
      BY <2>4
    <2>6. s \ {x} \in SUBSET S /\ Cardinality(s \ {x}) = m - 1 /\ m \in Nat
      BY <2>1, <2>3, <2>5, FS_RemoveElement
    <2>7. sum[s \ {x}] = n(s \ {x})
      <3>1. ~ (s \ {x} \in bad)
        BY <2>2, <2>6
      <3> QED BY <2>6, <3>1
    <2>8. sum[s] = share[x] + sum[s \ {x}]
      BY <1>5, <2>3, <2>4, <2>5
    <2> QED BY <1>1, <2>3, <2>5, <2>7, <2>8
  <1>7. Total(share, S) = sum[S]
    BY DEF Total, MapThenSumSet, MapThenFoldSet
  <1> HIDE DEF sum
  <1> QED BY <1>6, <1>7 DEF n, UnderAny

\* The values in the first rows of a column, and the rows among them whose value comes again.
ValuesUpTo(f, c, n) == {v \in Values : RowsUpTo(f, c, v, n) # {}}

RepeatedUpTo(f, c, n) ==
    {r \in 1..n : f.rows[r][c] # Blank /\ Cardinality(RowsUpTo(f, c, f.rows[r][c], n)) > 1}

LEMMA CountedIs ==
  ASSUME Arguments, NEW c \in Columns(Frame), NEW n \in 0..Len(Frame.rows), NEW counts,
         \A v \in Values : counts[v] = Cardinality(RowsUpTo(Frame, c, v, n))
  PROVE  /\ {v \in Values : counts[v] > 0} = ValuesUpTo(Frame, c, n)
         /\ IsFiniteSet(ValuesUpTo(Frame, c, n)) /\ IsFiniteSet(RepeatedUpTo(Frame, c, n))
         /\ Total(counts, {v \in Values : counts[v] > 1}) = Cardinality(RepeatedUpTo(Frame, c, n))
  <1> DEFINE d == [r \in 1..n |-> Frame.rows[r][c]]
             S == {v \in Values : counts[v] > 1}
  <1>1. /\ n \in Nat /\ IsFiniteSet(1..n)
        /\ \A r \in 1..n : r \in 1..Len(Frame.rows) /\ Frame.rows[r][c] \in Values \union {Blank}
    <2>1. Len(Frame.rows) \in Nat
      BY FrameCells
    <2>2. n \in Nat /\ \A r \in 1..n : r \in 1..Len(Frame.rows)
      BY <2>1
    <2>3. IsFiniteSet(1..n)
      BY <2>2, FS_Interval
    <2>4. \A r \in 1..n : Frame.rows[r][c] \in Values \union {Blank}
      BY <2>2, FrameCells
    <2> QED BY <2>2, <2>3, <2>4
  <1>2. \A v : /\ RowsUpTo(Frame, c, v, n) \subseteq 1..n /\ IsFiniteSet(RowsUpTo(Frame, c, v, n))
               /\ Cardinality(RowsUpTo(Frame, c, v, n)) \in Nat
               /\ Cardinality(RowsUpTo(Frame, c, v, n)) = 0 <=> RowsUpTo(Frame, c, v, n) = {}
    <2>1. \A v : RowsUpTo(Frame, c, v, n) \subseteq 1..n
      BY DEF RowsUpTo
    <2> QED BY <1>1, <2>1, FS_Subset, FS_CardinalityType, FS_EmptySet
  <1>3. {v \in Values : counts[v] > 0} = ValuesUpTo(Frame, c, n)
    <2>1. \A v \in Values : counts[v] > 0 <=> RowsUpTo(Frame, c, v, n) # {}
      BY <1>2
    <2> QED BY <2>1 DEF ValuesUpTo
  <1>4. IsFiniteSet(ValuesUpTo(Frame, c, n))
    <2> DEFINE R == {r \in 1..n : Frame.rows[r][c] \in Values}
               V == ValuesUpTo(Frame, c, n)
               g == [r \in R |-> Frame.rows[r][c]]
    <2>1. IsFiniteSet(R)
      BY <1>1, FS_Subset
    <2>2. \A r \in R : Frame.rows[r][c] \in V
      BY DEF ValuesUpTo, RowsUpTo
    <2>3. \A v \in V : \E r \in R : g[r] = v
      <3> TAKE v \in V
      <3>1. PICK r \in 1..n : Frame.rows[r][c] = v /\ v \in Values
        BY DEF ValuesUpTo, RowsUpTo
      <3> QED BY <3>1
    <2>4. g \in [R -> V]
      BY <2>2
    <2> HIDE DEF R, V, g
    <2>5. g \in Surjection(R, V)
      BY <2>3, <2>4 DEF Surjection
    <2>6. IsFiniteSet(V)
      BY <2>1, <2>5, FS_Surjection
    <2> QED BY <2>6 DEF V
  <1>5. S \subseteq ValuesUpTo(Frame, c, n)
    <2>1. \A v \in Values : counts[v] > 1 => RowsUpTo(Frame, c, v, n) # {}
      BY <1>2
    <2> QED BY <2>1 DEF ValuesUpTo
  <1>6. IsFiniteSet(S)
    <2> HIDE DEF S
    <2> QED BY <1>4, <1>5, FS_Subset
  <1>7. \A v : Under(v, 1..n, d) = RowsUpTo(Frame, c, v, n)
    BY DEF Under, RowsUpTo
  <1>8. UnderAny(S, 1..n, d) = RepeatedUpTo(Frame, c, n)
    <2>1. \A r \in 1..n : d[r] \in S <=>
                /\ Frame.rows[r][c] # Blank
                /\ Cardinality(RowsUpTo(Frame, c, Frame.rows[r][c], n)) > 1
      <3> TAKE r \in 1..n
      <3>1. Frame.rows[r][c] # Blank <=> Frame.rows[r][c] \in Values
        BY <1>1, CellAssumption
      <3>2. Frame.rows[r][c] \in Values =>
                counts[Frame.rows[r][c]] = Cardinality(RowsUpTo(Frame, c, Frame.rows[r][c], n))
        OBVIOUS
      <3>3. d[r] = Frame.rows[r][c]
        OBVIOUS
      <3> HIDE DEF d
      <3> QED BY <3>1, <3>2, <3>3
    <2> HIDE DEF d, S
    <2> QED BY <2>1 DEF UnderAny, RepeatedUpTo
  <1>9. IsFiniteSet(RepeatedUpTo(Frame, c, n))
    <2>1. RepeatedUpTo(Frame, c, n) \subseteq 1..n
      BY DEF RepeatedUpTo
    <2> QED BY <1>1, <2>1, FS_Subset
  <1>10. Total(counts, S) = Cardinality(RepeatedUpTo(Frame, c, n))
    <2>1. \A v \in S : counts[v] = Cardinality(Under(v, 1..n, d))
      BY <1>7
    <2> HIDE DEF d, S
    <2>2. Total(counts, S) = Cardinality(UnderAny(S, 1..n, d))
      BY <1>1, <1>6, <2>1, SumOfShares
    <2> QED BY <1>8, <2>2
  <1> QED BY <1>3, <1>4, <1>9, <1>10

\* The profile of a column marked exact is that of a profile in memory; that of any other
\* column counts no value too many, and misses one.
THEOREM ProfileHonest == Spec => []ProfileIsHonest
  <1>1. RunInv => ProfileIsHonest
    <2> SUFFICES ASSUME RunInv, NEW c \in Columns(Frame)
                 PROVE  LET distinct  == {v \in Values : RowsSoFar(Frame, c, v) # {}}
                            duplicate == {r \in 1..done :
                                            Frame.rows[r][c] # Blank
                                            /\ Cardinality(RowsSoFar(Frame, c, Frame.rows[r][c])) > 1}
                        IN  IF profile[c].exact
                            THEN DistinctCount(c) = Cardinality(distinct)
                                 /\ DuplicateCount(c) = Cardinality(duplicate)
                            ELSE DistinctCount(c) < Cardinality(distinct)
                                 /\ DuplicateCount(c) <= Cardinality(duplicate)
      <3> SUFFICES ASSUME RunInv PROVE ProfileIsHonest
        OBVIOUS
      <3>1. Columns(Frame) = Columns(file)
        BY FrameIs DEF RunInv
      <3> QED BY <3>1 DEF ProfileIsHonest, Frame
    <2> DEFINE counts == profile[c].counts
               V(n) == ValuesUpTo(Frame, c, n)
               D(n) == RepeatedUpTo(Frame, c, n)
    <2>1. Arguments /\ done \in 0..Len(Frame.rows) /\ Len(Frame.rows) \in Nat
      BY FrameCells DEF RunInv
    <2>2. HonestAt(Frame, profile[c], c, done) /\ profile[c].exact \in BOOLEAN
      BY DEF RunInv, States, ColumnState
    <2>3. PICK n \in 0..done :
            /\ \A v \in Values : counts[v] = Cardinality(RowsUpTo(Frame, c, v, n))
            /\ profile[c].exact => n = done
            /\ ~ profile[c].exact => /\ n < done /\ Frame.rows[n + 1][c] \in Values
                                     /\ RowsUpTo(Frame, c, Frame.rows[n + 1][c], n) = {}
      BY <2>2 DEF HonestAt
    <2>4. n \in 0..Len(Frame.rows) /\ n \in Nat /\ done \in Nat /\ n <= done
      BY <2>1
    <2>5. \A v : RowsSoFar(Frame, c, v) = RowsUpTo(Frame, c, v, done)
      BY DEF RowsSoFar, RowsUpTo
    <2>6. /\ {v \in Values : RowsSoFar(Frame, c, v) # {}} = V(done)
          /\ {r \in 1..done : Frame.rows[r][c] # Blank
                              /\ Cardinality(RowsSoFar(Frame, c, Frame.rows[r][c])) > 1} = D(done)
      BY <2>5 DEF ValuesUpTo, RepeatedUpTo
    <2>7. /\ {v \in Values : counts[v] > 0} = V(n)
          /\ Total(counts, {v \in Values : counts[v] > 1}) = Cardinality(D(n))
      <3> HIDE DEF counts
      <3> QED BY <2>1, <2>3, <2>4, CountedIs
    <2>8. DistinctCount(c) = Cardinality(V(n)) /\ DuplicateCount(c) = Cardinality(D(n))
      <3>1. DistinctCount(c) = Cardinality({v \in Values : counts[v] > 0})
        BY DEF DistinctCount
      <3>2. DuplicateCount(c) = Total(counts, {v \in Values : counts[v] > 1})
        BY DEF DuplicateCount, Total
      <3> QED BY <2>7, <3>1, <3>2
    <2>9. /\ IsFiniteSet(V(n)) /\ IsFiniteSet(V(done)) /\ IsFiniteSet(D(done))
      <3> DEFINE all == [v \in Values |-> Cardinality(RowsUpTo(Frame, c, v, done))]
      <3>1. \A v \in Values : all[v] = Cardinality(RowsUpTo(Frame, c, v, done))
        OBVIOUS
      <3> HIDE DEF all, counts
      <3>2. IsFiniteSet(V(n))
        BY <2>1, <2>3, <2>4, CountedIs
      <3>3. IsFiniteSet(V(done)) /\ IsFiniteSet(D(done))
        BY <2>1, <3>1, CountedIs
      <3> QED BY <3>2, <3>3
    <2>10. CASE profile[c].exact
      BY <2>3, <2>6, <2>8, <2>10
    <2>11. CASE ~ profile[c].exact
      <3> DEFINE w == Frame.rows[n + 1][c]
      <3>1. n < done /\ w \in Values /\ RowsUpTo(Frame, c, w, n) = {} /\ n + 1 \in 1..done
        BY <2>3, <2>4, <2>11
      <3>2. \A v : RowsUpTo(Frame, c, v, n) \subseteq RowsUpTo(Frame, c, v, done)
        <4>1. \A r \in 1..n : r \in 1..done
          BY <2>4
        <4> QED BY <4>1 DEF RowsUpTo
      <3>3. V(n) \subseteq V(done) /\ w \in V(done) /\ w \notin V(n)
        <4>1. n + 1 \in RowsUpTo(Frame, c, w, done)
          BY <3>1 DEF RowsUpTo
        <4> HIDE DEF w
        <4> QED BY <3>1, <3>2, <4>1 DEF ValuesUpTo
      <3>4. Cardinality(V(n)) < Cardinality(V(done))
        <4>1. V(n) \subseteq V(done) /\ V(n) # V(done)
          BY <3>3
        <4> HIDE DEF V
        <4>2. Cardinality(V(n)) <= Cardinality(V(done)) /\ Cardinality(V(n)) # Cardinality(V(done))
              /\ Cardinality(V(n)) \in Nat /\ Cardinality(V(done)) \in Nat
          BY <2>9, <4>1, FS_Subset, FS_CardinalityType
        <4> QED BY <4>2
      <3>5. D(n) \subseteq D(done)
        <4> SUFFICES ASSUME NEW r \in D(n) PROVE r \in D(done)
          OBVIOUS
        <4> DEFINE A == RowsUpTo(Frame, c, Frame.rows[r][c], n)
                   B == RowsUpTo(Frame, c, Frame.rows[r][c], done)
        <4>1. r \in 1..n /\ r \in 1..done /\ Frame.rows[r][c] # Blank /\ Cardinality(A) > 1
          BY <2>4 DEF RepeatedUpTo
        <4>2. A \subseteq B /\ IsFiniteSet(B)
          <5>1. IsFiniteSet(1..done) /\ B \subseteq 1..done
            BY <2>4, FS_Interval DEF RowsUpTo
          <5>2. A \subseteq B
            BY <3>2
          <5> HIDE DEF A, B
          <5> QED BY <5>1, <5>2, FS_Subset
        <4>3. Cardinality(B) > 1
          <5> HIDE DEF A, B
          <5>1. Cardinality(A) <= Cardinality(B) /\ Cardinality(A) \in Nat /\ Cardinality(B) \in Nat
            BY <4>2, FS_Subset, FS_CardinalityType
          <5> QED BY <4>1, <5>1
        <4> QED BY <4>1, <4>3 DEF RepeatedUpTo
      <3>6. Cardinality(D(n)) <= Cardinality(D(done))
        BY <2>9, <3>5, FS_Subset
      <3> QED BY <2>6, <2>8, <2>11, <3>4, <3>6
    <2> QED BY <2>2, <2>10, <2>11
  <1> QED BY <1>1, RunInvariant, PTL

-----------------------------------------------------------------------------
(* The findings of a run. *)

\* A finding that shows no rows.
Silent(rule, column, severity, affected) ==
    [rule |-> rule, column |-> column, severity |-> severity, affected |-> affected, samples |-> {}]

LEMMA SilentIs ==
  ASSUME NEW rule, NEW column, NEW severity, NEW rows, NEW n
  PROVE  /\ [Finding(rule, column, severity, rows) EXCEPT !.samples = {}] =
                Silent(rule, column, severity, Cardinality(rows))
         /\ [Finding(rule, column, severity, {}) EXCEPT !.affected = n] = Silent(rule, column, severity, n)
  <1>1. SampleRows({}) = {}
    BY DEF SampleRows
  <1> DEFINE k == Cardinality(rows)
             shown == SampleRows(rows)
             f == [rule |-> rule, column |-> column, severity |-> severity,
                   affected |-> k, samples |-> shown]
             z == Cardinality({})
             g == [rule |-> rule, column |-> column, severity |-> severity, affected |-> z, samples |-> {}]
  <1>2. Finding(rule, column, severity, rows) = f /\ Finding(rule, column, severity, {}) = g
    BY <1>1 DEF Finding
  <1> HIDE DEF k, shown, z
  <1>3. [f EXCEPT !.samples = {}] = Silent(rule, column, severity, k)
    BY DEF Silent
  <1>4. [g EXCEPT !.affected = n] = Silent(rule, column, severity, n)
    BY DEF Silent
  <1> HIDE DEF f, g
  <1> QED BY <1>2, <1>3, <1>4 DEF k

\* The parts of the findings: those a rule about single rows or the header has, those about the
\* number of rows, those about the share of empty cells.
RowFindings   == UNION {DatasetRuleFindings(d, Frame) :
                            d \in {e \in contract.dataset : e.type \in RowRuleTypes}}
CountFindings == UNION {RowCountFindings(d, Len(Frame.rows)) :
                            d \in {e \in contract.dataset : e.type = "row_count"}}
PlainFindings == SchemaFindings(contract, Frame) \union ColumnFindings(contract, Frame)
                 \union UniqueFindings(contract, Frame) \union RowFindings \union CountFindings

Nulls(c) == RowsWith(Frame, c, {Blank})

NullRules == {d \in contract.dataset :
                 /\ d.type = "null_ratio" /\ d.column \in Columns(Frame)
                 /\ NullRatioExceeded(d, Cardinality(Nulls(d.column)), Len(Frame.rows))}

NullFinding(d)       == Finding(RuleId(d), d.column, d.severity, Nulls(d.column))
SilentNullFinding(d) == Silent(RuleId(d), d.column, d.severity, Cardinality(Nulls(d.column)))

Drift == IF baseline = None THEN {} ELSE DriftFindings(baseline, Snapshot(Frame))

LEMMA InMemoryParts ==
  ASSUME Arguments
  PROVE  InMemoryFindings(contract, Frame, baseline) =
           PlainFindings \union {NullFinding(d) : d \in NullRules} \union Drift
  <1> DEFINE ofType(types) == {d \in contract.dataset : d.type \in types}
  <1>1. ASSUME NEW x
        PROVE  x \in ValidateDatasetRules(contract.dataset, Frame) <=>
                   x \in RowFindings \/ x \in CountFindings \/ x \in {NullFinding(d) : d \in NullRules}
    <2>1. \A d \in contract.dataset : d.type \in DatasetRuleTypes
      BY RequestAssumption DEF Arguments, IsContract
    <2>2. \A d \in contract.dataset : d.type = "row_count" =>
              DatasetRuleFindings(d, Frame) = RowCountFindings(d, Len(Frame.rows))
      BY DEF DatasetRuleFindings, ColumnsOf
    <2>3. \A d \in contract.dataset : d.type = "null_ratio" =>
              DatasetRuleFindings(d, Frame) = IF d \in NullRules THEN {NullFinding(d)} ELSE {}
      <3> TAKE d \in contract.dataset
      <3> HAVE d.type = "null_ratio"
      <3>1. ColumnsOf(d) = {d.column}
        BY DEF ColumnsOf
      <3> QED BY <3>1 DEF DatasetRuleFindings, NullRules, NullFinding, Nulls
    <2>4. x \in ValidateDatasetRules(contract.dataset, Frame) <=>
              \E d \in contract.dataset : x \in DatasetRuleFindings(d, Frame)
      BY DEF ValidateDatasetRules
    <2>5. x \in RowFindings <=>
              \E d \in contract.dataset : d.type \in RowRuleTypes /\ x \in DatasetRuleFindings(d, Frame)
      BY DEF RowFindings
    <2>6. x \in CountFindings <=>
              \E d \in contract.dataset : d.type = "row_count" /\ x \in DatasetRuleFindings(d, Frame)
      BY <2>2 DEF CountFindings
    <2>7. x \in {NullFinding(d) : d \in NullRules} <=>
              \E d \in contract.dataset : d.type = "null_ratio" /\ x \in DatasetRuleFindings(d, Frame)
      <3>1. \A d \in NullRules : d \in contract.dataset /\ d.type = "null_ratio"
        BY DEF NullRules
      <3> QED BY <2>3, <3>1
    <2>8. \A d \in contract.dataset : d.type \in RowRuleTypes \/ d.type = "row_count" \/ d.type = "null_ratio"
      BY <2>1 DEF RowRuleTypes, DatasetRuleTypes
    <2> QED BY <2>4, <2>5, <2>6, <2>7, <2>8
  <1>2. ValidateDatasetRules(contract.dataset, Frame) =
            RowFindings \union CountFindings \union {NullFinding(d) : d \in NullRules}
    BY <1>1
  <1> QED BY <1>2 DEF InMemoryFindings, ValidateColumns, PlainFindings, Drift

LEMMA StreamedParts ==
  ASSUME RunInv, done = Len(Frame.rows)
  PROVE  StreamedFindings = PlainFindings \union {SilentNullFinding(d) : d \in NullRules} \union StreamedDrift
  <1>1. Arguments /\ Len(Frame.rows) \in Nat /\ DOMAIN Frame.rows = 1..Len(Frame.rows)
    BY FrameCells DEF RunInv
  <1>2. merged = ColumnFindings(contract, Frame) \union RowFindings
    <2>1. ASSUME NEW l \in Checks(contract, Frame) PROVE Between(l, 0, done) = l.rows
      <3>1. \A r \in l.rows : r \in 1..Len(Frame.rows)
        BY <1>1, CheckRows
      <3>2. \A r \in l.rows : 0 < r /\ r <= done
        BY <1>1, <3>1
      <3> QED BY <3>2 DEF Between
    <2>2. merged = FindingsOf(Checks(contract, Frame), 0, done)
      BY DEF RunInv
    <2>3. FindingsOf(Checks(contract, Frame), 0, done) =
            {Found(check, check.rows) : check \in {l \in Checks(contract, Frame) : l.rows # {}}}
      BY <2>1 DEF FindingsOf
    <2> QED BY <2>2, <2>3, FindingsAreOfChecks DEF RowFindings
  <1>3. \A c \in Columns(Frame) : nulls[c] = Cardinality(Nulls(c))
    <2> TAKE c \in Columns(Frame)
    <2>1. nulls[c] = Cardinality(RowsUpTo(Frame, c, Blank, done))
      BY DEF RunInv
    <2>2. RowsUpTo(Frame, c, Blank, done) = Nulls(c)
      BY <1>1 DEF RowsUpTo, Nulls, RowsWith
    <2> QED BY <2>1, <2>2
  <1> DEFINE exceeded == {d \in contract.dataset :
                             /\ d.type = "null_ratio" /\ d.column \in Columns(Frame)
                             /\ NullRatioExceeded(d, nulls[d.column], done)}
             silent == {[Finding(RuleId(rule), rule.column, rule.severity, {})
                            EXCEPT !.affected = nulls[rule.column]] : rule \in exceeded}
  <1>4. exceeded = NullRules
    BY <1>3 DEF NullRules
  <1>5. \A d \in NullRules : [Finding(RuleId(d), d.column, d.severity, {})
                                 EXCEPT !.affected = nulls[d.column]] = SilentNullFinding(d)
    <2> TAKE d \in NullRules
    <2>1. nulls[d.column] = Cardinality(Nulls(d.column))
      BY <1>3 DEF NullRules
    <2> QED BY <2>1, SilentIs DEF SilentNullFinding
  <1>6. silent = {SilentNullFinding(d) : d \in NullRules}
    BY <1>4, <1>5
  <1>7. Columns(Frame) = Columns(file)
    BY <1>1, FrameIs
  <1>8. SchemaFindings(contract, file) = SchemaFindings(contract, Frame)
    BY <1>7 DEF SchemaFindings
  <1>9. WholeFileFindings = UniqueFindings(contract, Frame) \union CountFindings \union silent
    BY <1>7 DEF WholeFileFindings, CountFindings, Frame
  <1> HIDE DEF silent
  <1> QED BY <1>2, <1>6, <1>8, <1>9 DEF StreamedFindings, PlainFindings

\* A finding by its family.
LEMMA Families ==
  ASSUME Arguments
  PROVE  /\ \A f \in PlainFindings \union Drift : f.rule[1] # "null_ratio"
         /\ \A d \in NullRules : NullFinding(d).rule = RuleId(d) /\ RuleId(d)[1] = "null_ratio"
  <1>1. \A rule, column, severity, rows : Finding(rule, column, severity, rows).rule = rule
    BY DEF Finding
  <1>2. \A rule, column, severity, rows :
          \A f \in FindingOfRows(rule, column, severity, rows) : f.rule = rule
    BY <1>1 DEF FindingOfRows
  <1>3. \A f \in SchemaFindings(contract, Frame) : f.rule[1] # "null_ratio"
    BY <1>1 DEF SchemaFindings
  <1>4. \A f \in ColumnFindings(contract, Frame) : f.rule[1] # "null_ratio"
    <2> TAKE f \in ColumnFindings(contract, Frame)
    <2>1. PICK c \in DOMAIN contract.rules \intersect Columns(Frame) :
            \E check \in DOMAIN Refused(contract.rules[c]) :
                f \in FindingOfRows(<<"column", check>>, c, contract.rules[c].severity,
                                    RowsWith(Frame, c, Refused(contract.rules[c])[check]))
      BY DEF ColumnFindings
    <2>2. PICK check : f \in FindingOfRows(<<"column", check>>, c, contract.rules[c].severity,
                                           RowsWith(Frame, c, Refused(contract.rules[c])[check]))
      BY <2>1
    <2>3. f.rule = <<"column", check>>
      BY <1>2, <2>2
    <2> QED BY <2>3
  <1>5. \A f \in UniqueFindings(contract, Frame) : f.rule[1] # "null_ratio"
    <2> TAKE f \in UniqueFindings(contract, Frame)
    <2>1. PICK c : f \in FindingOfRows(<<"column", "unique">>, c, contract.rules[c].severity,
                                      Duplicated(Frame, c))
      BY DEF UniqueFindings
    <2> QED BY <1>2, <2>1
  <1>6. \A f \in RowFindings : f.rule[1] # "null_ratio"
    <2> TAKE f \in RowFindings
    <2>1. PICK d \in contract.dataset : d.type \in RowRuleTypes /\ f \in DatasetRuleFindings(d, Frame)
      BY DEF RowFindings
    <2>2. f \in FindingOfRows(RuleId(d), d.column, d.severity, BreakingRows(d, Frame.rows))
      <3>1. d.type # "row_count" /\ d.type # "null_ratio"
        BY <2>1 DEF RowRuleTypes
      <3> QED BY <2>1, <3>1 DEF DatasetRuleFindings
    <2>3. f.rule = <<d.type, d.name>>
      BY <1>2, <2>2 DEF RuleId
    <2> QED BY <2>1, <2>3 DEF RowRuleTypes
  <1>7. \A f \in CountFindings : f.rule[1] # "null_ratio"
    <2> TAKE f \in CountFindings
    <2>1. PICK d \in contract.dataset : d.type = "row_count" /\ f \in RowCountFindings(d, Len(Frame.rows))
      BY DEF CountFindings
    <2>2. f.rule = <<d.type, d.name>>
      BY <1>1, <2>1 DEF RowCountFindings, RuleId
    <2> QED BY <2>1, <2>2
  <1>8. \A f \in Drift : f.rule[1] # "null_ratio"
    BY <1>1 DEF Drift, DriftFindings
  <1>9. \A d \in NullRules : NullFinding(d).rule = RuleId(d) /\ RuleId(d)[1] = "null_ratio"
    <2> TAKE d \in NullRules
    <2>1. d.type = "null_ratio"
      BY DEF NullRules
    <2>2. RuleId(d) = <<d.type, d.name>>
      BY DEF RuleId
    <2> QED BY <1>1, <2>1, <2>2 DEF NullFinding
  <1> QED BY <1>3, <1>4, <1>5, <1>6, <1>7, <1>8, <1>9 DEF PlainFindings

LEMMA WithoutNullSamplesIs ==
  ASSUME Arguments
  PROVE  WithoutNullSamples(InMemoryFindings(contract, Frame, baseline)) =
           PlainFindings \union {SilentNullFinding(d) : d \in NullRules} \union Drift
  <1> DEFINE ids == {RuleId(d) : d \in {e \in contract.dataset : e.type = "null_ratio"}}
             strip(f) == IF f.rule \in ids THEN [f EXCEPT !.samples = {}] ELSE f
             found == InMemoryFindings(contract, Frame, baseline)
             silent == {SilentNullFinding(d) : d \in NullRules}
             loud == {NullFinding(d) : d \in NullRules}
  <1>1. \A id \in ids : id[1] = "null_ratio"
    <2> TAKE id \in ids
    <2>1. PICK d \in contract.dataset : d.type = "null_ratio" /\ id = <<d.type, d.name>>
      BY DEF RuleId
    <2> QED BY <2>1
  <1>2. \A f \in PlainFindings \union Drift : strip(f) = f
    <2> TAKE f \in PlainFindings \union Drift
    <2>1. f.rule \notin ids
      <3> HIDE DEF ids
      <3> QED BY <1>1, Families
    <2> HIDE DEF ids
    <2> QED BY <2>1
  <1>3. \A d \in NullRules : strip(NullFinding(d)) = SilentNullFinding(d)
    <2> TAKE d \in NullRules
    <2>1. NullFinding(d).rule = RuleId(d)
      BY Families
    <2>2. RuleId(d) \in ids
      BY DEF NullRules
    <2> HIDE DEF ids
    <2>3. strip(NullFinding(d)) = [NullFinding(d) EXCEPT !.samples = {}]
      BY <2>1, <2>2
    <2>4. [NullFinding(d) EXCEPT !.samples = {}] = SilentNullFinding(d)
      BY SilentIs DEF NullFinding, SilentNullFinding
    <2> QED BY <2>3, <2>4
  <1>4. WithoutNullSamples(found) = {strip(f) : f \in found}
    BY DEF WithoutNullSamples
  <1>5. found = PlainFindings \union loud \union Drift
    BY InMemoryParts
  <1> HIDE DEF strip, found
  <1>6. \A x : x \in {strip(f) : f \in found} <=> x \in PlainFindings \union silent \union Drift
    <2>1. \A x \in {strip(f) : f \in found} : x \in PlainFindings \union silent \union Drift
      BY <1>2, <1>3, <1>5
    <2>2. \A x \in PlainFindings \union Drift : x \in {strip(f) : f \in found}
      BY <1>2, <1>5
    <2>3. \A x \in silent : x \in {strip(f) : f \in found}
      BY <1>3, <1>5
    <2> QED BY <2>1, <2>2, <2>3
  <1> QED BY <1>4, <1>6 DEF found

\* The file has a word in a column.
HasWord(c) == RowsWith(file, c, {Word}) # {}

\* The type of a column with a word in it is inferred alike.
LEMMA TypesAlike ==
  ASSUME RunInv, done = Len(Frame.rows), NEW c \in Columns(Frame)
  PROVE  /\ nulls[c] > 0 <=> Blank \in CellsOf(Frame, c)
         /\ HasWord(c) => StreamedType(c) = ObservedType(Frame, c)
  <1>1. /\ Arguments /\ Len(Frame.rows) \in Nat /\ DOMAIN Frame.rows = 1..Len(Frame.rows)
        /\ \A r \in 1..Len(Frame.rows) : Frame.rows[r][c] \in Values \union {Blank}
    BY FrameCells DEF RunInv
  <1>2. nulls[c] > 0 <=> Blank \in CellsOf(Frame, c)
    <2> DEFINE N == RowsUpTo(Frame, c, Blank, done)
    <2>1. nulls[c] = Cardinality(N)
      BY DEF RunInv
    <2>2. IsFiniteSet(N) /\ Cardinality(N) \in Nat /\ (Cardinality(N) = 0 <=> N = {})
      <3>0. done \in Int /\ 1 \in Int
        <4>1. done \in Nat
          BY <1>1
        <4> QED BY <4>1
      <3>1. IsFiniteSet(1..done)
        BY <3>0, FS_Interval
      <3>2. N \subseteq 1..done
        BY DEF RowsUpTo
      <3> HIDE DEF N
      <3> QED BY <3>1, <3>2, FS_Subset, FS_CardinalityType, FS_EmptySet
    <2>3. N # {} <=> Blank \in CellsOf(Frame, c)
      BY <1>1 DEF RowsUpTo, CellsOf
    <2> HIDE DEF N
    <2> QED BY <2>1, <2>2, <2>3
  <1>3. ASSUME HasWord(c) PROVE StreamedType(c) = ObservedType(Frame, c)
    <2> DEFINE seen == CellsOf(Frame, c) \ {Blank}
               word == <<"str", Word>>
    <2>1. profile[c].seen = seen
      <3>1. profile[c].seen = CellsUpTo(Frame, c, done)
        BY DEF RunInv
      <3>2. CellsUpTo(Frame, c, done) = seen
        BY <1>1 DEF CellsUpTo, CellsOf
      <3> QED BY <3>1, <3>2
    <2>2. word \in seen /\ word[1] = "str" /\ word \notin NumberCells
      <3>1. PICK r \in DOMAIN file.rows : file.rows[r][c] = Word
        BY <1>3 DEF HasWord, RowsWith
      <3>2. Frame.rows[r][c] = word /\ r \in DOMAIN Frame.rows
        BY <1>1, <3>1, FrameIs
      <3>3. word \in CellsOf(Frame, c)
        BY <3>2 DEF CellsOf
      <3>4. word \in Values /\ Blank \notin Values
        BY CellAssumption DEF Values, Texts
      <3>5. Word \notin Numbers
        BY CellAssumption
      <3> QED BY <3>3, <3>4, <3>5 DEF NumberCells
    <2>3. ~ (seen \subseteq NumberCells)
      BY <2>2
    <2>4. StreamedType(c) = InferredFromText(seen)
      <3> HIDE DEF seen
      <3> QED BY <2>1, <2>3 DEF StreamedType
    <2> DEFINE types == {v[1] : v \in seen}
    <2>5. "str" \in types
      BY <2>2
    <2> HIDE DEF word
    <2>6. ObservedType(Frame, c) = IF types = {"int"} THEN "integer"
                                   ELSE IF seen # {} /\ types \subseteq {"int", "float"} THEN "number"
                                   ELSE InferredFromText(seen)
      BY DEF ObservedType
    <2> HIDE DEF types, seen
    <2>7. types # {"int"} /\ ~ (types \subseteq {"int", "float"})
      BY <2>5
    <2> QED BY <2>4, <2>6, <2>7
  <1> QED BY <1>2, <1>3

\* What drift is found, apart from the type of columns without words.
LEMMA DriftIsExact ==
  ASSUME RunInv, done = Len(Frame.rows), NEW f, f.rule = <<"drift", "type_changed">> => HasWord(f.column)
  PROVE  f \in StreamedDrift <=> f \in Drift
  <1> DEFINE streamed == [c \in Columns(Frame) |-> [type |-> StreamedType(c), nullable |-> nulls[c] > 0]]
             held == Snapshot(Frame)
  <1>1. CASE baseline = None
    BY <1>1 DEF StreamedDrift, Drift
  <1>2. CASE baseline # None
    <2>1. StreamedDrift = DriftFindings(baseline, streamed) /\ Drift = DriftFindings(baseline, held)
      <3>1. Columns(Frame) = Columns(file)
        BY FrameIs DEF RunInv
      <3> QED BY <1>2, <3>1 DEF StreamedDrift, Drift
    <2>2. DOMAIN streamed = Columns(Frame) /\ DOMAIN held = Columns(Frame)
      BY DEF Snapshot
    <2>3. ASSUME NEW c \in Columns(Frame)
          PROVE  /\ streamed[c].nullable <=> held[c].nullable
                 /\ HasWord(c) => streamed[c].type = held[c].type
      <3>1. streamed[c].type = StreamedType(c) /\ (streamed[c].nullable <=> nulls[c] > 0)
        OBVIOUS
      <3>2. held[c].type = ObservedType(Frame, c) /\ (held[c].nullable <=> Blank \in CellsOf(Frame, c))
        BY DEF Snapshot
      <3> HIDE DEF streamed, held
      <3> QED BY <3>1, <3>2, TypesAlike
    <2> HIDE DEF streamed, held
    <2> DEFINE added(after) == {Finding(<<"drift", "added">>, c, WARNING, {}) :
                                    c \in DOMAIN after \ DOMAIN baseline}
               removed(after) == {Finding(<<"drift", "removed">>, c, ERROR, {}) :
                                      c \in DOMAIN baseline \ DOMAIN after}
               retyped(after) == {Finding(<<"drift", "type_changed">>, c, ERROR, {}) :
                                      c \in {d \in DOMAIN baseline \intersect DOMAIN after :
                                                baseline[d].type # after[d].type}}
               emptied(after) == {Finding(<<"drift", "nullability_changed">>, c, WARNING, {}) :
                                      c \in {d \in DOMAIN baseline \intersect DOMAIN after :
                                                ~ baseline[d].nullable /\ after[d].nullable}}
    <2>4. \A after : DriftFindings(baseline, after) =
                        added(after) \union removed(after) \union retyped(after) \union emptied(after)
      BY DEF DriftFindings
    <2>5. added(streamed) = added(held) /\ removed(streamed) = removed(held)
      BY <2>2
    <2>6. emptied(streamed) = emptied(held)
      <3>1. {d \in DOMAIN baseline \intersect DOMAIN streamed :
                ~ baseline[d].nullable /\ streamed[d].nullable} =
            {d \in DOMAIN baseline \intersect DOMAIN held : ~ baseline[d].nullable /\ held[d].nullable}
        BY <2>2, <2>3
      <3> QED BY <3>1
    <2>7. f \in retyped(streamed) <=> f \in retyped(held)
      <3>1. \A c : /\ Finding(<<"drift", "type_changed">>, c, ERROR, {}).rule = <<"drift", "type_changed">>
                   /\ Finding(<<"drift", "type_changed">>, c, ERROR, {}).column = c
        BY DEF Finding
      <3>2. \A c \in DOMAIN baseline \intersect Columns(Frame) :
              f = Finding(<<"drift", "type_changed">>, c, ERROR, {}) => streamed[c].type = held[c].type
        BY <2>3, <3>1
      <3> QED BY <2>2, <3>2
    <2> HIDE DEF added, removed, retyped, emptied
    <2> QED BY <2>1, <2>4, <2>5, <2>6, <2>7
  <1> QED BY <1>1, <1>2

LEMMA FrameAgrees == ASSUME RunInv, done = Len(Frame.rows) PROVE FindingsAgree(Frame)
  <1> DEFINE compared(findings) ==
                 {f \in findings : f.rule = <<"drift", "type_changed">> => HasWord(f.column)}
             inMemory == WithoutNullSamples(InMemoryFindings(contract, Frame, baseline))
  <1> SUFFICES compared(StreamedFindings) = compared(inMemory)
    BY DEF FindingsAgree, HasWord
  <1> DEFINE common == PlainFindings \union {SilentNullFinding(d) : d \in NullRules}
  <1>1. StreamedFindings = common \union StreamedDrift
    BY StreamedParts
  <1>2. inMemory = common \union Drift
    BY WithoutNullSamplesIs DEF RunInv
  <1>3. \A f : (f.rule = <<"drift", "type_changed">> => HasWord(f.column)) =>
                   (f \in StreamedDrift <=> f \in Drift)
    BY DriftIsExact
  <1> HIDE DEF common, inMemory
  <1> QED BY <1>1, <1>2, <1>3

\* The rows of a file are read when those of the frame are.
LEMMA ReadToTheEnd == ASSUME RunInv PROVE Len(Frame.rows) = Len(file.rows) /\ Columns(Frame) = Columns(file)
  BY FrameIs DEF RunInv

\* The batches of a file add up to the findings the same cells have at once: for any contracts,
\* files, batches and approved snapshots.
THEOREM FindingsAddUp == Spec => []BatchesAddUp
  <1>1. RunInv => BatchesAddUp
    <2> SUFFICES ASSUME RunInv, done = Len(file.rows) PROVE FindingsAgree(ByBatch(file))
      BY DEF BatchesAddUp
    <2>1. FindingsAgree(Frame)
      BY ReadToTheEnd, FrameAgrees
    <2> QED BY <2>1 DEF Frame
  <1> QED BY <1>1, RunInvariant, PTL

\* More than one row is a row and another one.
LEMMA MoreThanOne ==
  ASSUME NEW S, IsFiniteSet(S), NEW r \in S
  PROVE  Cardinality(S) > 1 <=> \E s \in S : s # r
  <1>1. IsFiniteSet(S \ {r}) /\ Cardinality(S \ {r}) = Cardinality(S) - 1
    BY FS_RemoveElement
  <1>2. Cardinality(S \ {r}) = 0 <=> S \ {r} = {}
    BY <1>1, FS_EmptySet
  <1>3. Cardinality(S \ {r}) \in Nat /\ Cardinality(S) \in Nat
    BY <1>1, FS_CardinalityType
  <1> QED BY <1>1, <1>2, <1>3

LEMMA FrameCounts == ASSUME RunInv, ProfileIsHonest, done = Len(Frame.rows) PROVE CountsAgree(Frame)
  <1> SUFFICES ASSUME NEW c \in Columns(Frame), profile[c].exact
               PROVE  /\ DistinctCount(c) = Cardinality(CellsOf(Frame, c) \ {Blank})
                      /\ DuplicateCount(c) = Cardinality(Duplicated(Frame, c))
    BY ReadToTheEnd DEF CountsAgree
  <1>1. /\ Len(Frame.rows) \in Nat /\ DOMAIN Frame.rows = 1..Len(Frame.rows)
        /\ \A r \in 1..Len(Frame.rows) : Frame.rows[r][c] \in Values \union {Blank}
        /\ Blank \notin Values
    BY FrameCells, CellAssumption DEF RunInv
  <1> DEFINE distinct == {v \in Values : RowsSoFar(Frame, c, v) # {}}
             same(r) == RowsSoFar(Frame, c, Frame.rows[r][c])
             duplicate == {r \in 1..done : Frame.rows[r][c] # Blank /\ Cardinality(same(r)) > 1}
  <1>2. DistinctCount(c) = Cardinality(distinct) /\ DuplicateCount(c) = Cardinality(duplicate)
    <2>1. c \in Columns(file)
      BY ReadToTheEnd
    <2> QED BY <2>1 DEF ProfileIsHonest, Frame
  <1>3. distinct = CellsOf(Frame, c) \ {Blank}
    BY <1>1 DEF CellsOf, RowsSoFar
  <1>4. ASSUME NEW r \in 1..done
        PROVE  Cardinality(same(r)) > 1 <=> \E s \in DOMAIN Frame.rows \ {r} : Frame.rows[s][c] = Frame.rows[r][c]
    <2>1. IsFiniteSet(1..done)
      <3>1. done \in Int /\ 1 \in Int
        BY <1>1
      <3> QED BY <3>1, FS_Interval
    <2>2. same(r) \subseteq 1..done /\ r \in same(r)
      BY DEF RowsSoFar
    <2>3. \A s : s \in same(r) <=> s \in DOMAIN Frame.rows /\ Frame.rows[s][c] = Frame.rows[r][c]
      BY <1>1 DEF RowsSoFar
    <2> HIDE DEF same
    <2>4. Cardinality(same(r)) > 1 <=> \E s \in same(r) : s # r
      BY <2>1, <2>2, FS_Subset, MoreThanOne
    <2> QED BY <2>3, <2>4
  <1>5. duplicate = Duplicated(Frame, c)
    <2> HIDE DEF same
    <2> QED BY <1>1, <1>4 DEF Duplicated
  <1> HIDE DEF distinct, duplicate
  <1> QED BY <1>2, <1>3, <1>5

\* Files that are typed alike in batches and as a whole are judged and profiled as in memory.
THEOREM TypedAlikeExact == Spec => []ExactWhenTypedAlike
  <1>1. RunInv /\ ProfileIsHonest => ExactWhenTypedAlike
    <2> SUFFICES ASSUME RunInv, ProfileIsHonest, TypedAlike(file), done = Len(file.rows)
                 PROVE  FindingsAgree(Whole(file)) /\ CountsAgree(Whole(file))
      BY DEF ExactWhenTypedAlike, StreamedRunIsExact
    <2>1. Whole(file) = Frame
      BY DEF TypedAlike, Frame
    <2>2. done = Len(Frame.rows)
      BY ReadToTheEnd
    <2> QED BY <2>1, <2>2, FrameAgrees, FrameCounts
  <1> QED BY <1>1, RunInvariant, ProfileHonest, PTL

-----------------------------------------------------------------------------
(* The report. *)

\* The values of a function on a finite set are finitely many.
ImageOf(g) == {g[x] : x \in DOMAIN g}

LEMMA ImageIsFinite ==
  ASSUME NEW g, IsFiniteSet(DOMAIN g), g = [x \in DOMAIN g |-> g[x]]
  PROVE  IsFiniteSet(ImageOf(g))
  <1>1. g \in Surjection(DOMAIN g, ImageOf(g))
    BY DEF Surjection, ImageOf
  <1> QED BY <1>1, FS_Surjection

IsSeverity(n) == n \in INFO..CRITICAL

LEMMA ColumnsAreFinite ==
  ASSUME Arguments
  PROVE  IsFiniteSet(Columns(Frame))
  <1> DEFINE g == [i \in 1..Len(Frame.header) |-> Frame.header[i]]
  <1>1. IsFiniteSet(DOMAIN g)
    <2>1. Len(Frame.header) \in Nat
      BY FrameCells
    <2>2. Len(Frame.header) \in Int /\ 1 \in Int
      BY <2>1
    <2>3. IsFiniteSet(1..Len(Frame.header))
      BY <2>2, FS_Interval
    <2> QED BY <2>3
  <1>2. g = [x \in DOMAIN g |-> g[x]]
    OBVIOUS
  <1>3. Columns(Frame) = ImageOf(g)
    <2>1. \A c : c \in ImageOf(g) <=> \E i \in 1..Len(Frame.header) : Frame.header[i] = c
      BY DEF ImageOf
    <2> HIDE DEF g
    <2> QED BY <2>1, FrameCells
  <1> HIDE DEF g
  <1> QED BY <1>1, <1>2, <1>3, ImageIsFinite

LEMMA CheckNamesAreFinite == IsFiniteSet(CheckNames)
  <1>1. \A S, x : IsFiniteSet(S) => IsFiniteSet(S \union {x})
    BY FS_AddElement
  <1>2. IsFiniteSet({"nullable"})
    BY FS_Singleton
  <1>3. IsFiniteSet({"nullable", "type"})
    <2>1. {"nullable", "type"} = {"nullable"} \union {"type"}
      OBVIOUS
    <2> QED BY <1>1, <1>2, <2>1
  <1>4. IsFiniteSet({"nullable", "type", "minimum"})
    <2>1. {"nullable", "type", "minimum"} = {"nullable", "type"} \union {"minimum"}
      OBVIOUS
    <2> QED BY <1>1, <1>3, <2>1
  <1>5. IsFiniteSet({"nullable", "type", "minimum", "maximum"})
    <2>1. {"nullable", "type", "minimum", "maximum"} = {"nullable", "type", "minimum"} \union {"maximum"}
      OBVIOUS
    <2> QED BY <1>1, <1>4, <2>1
  <1> DEFINE four == {"nullable", "type", "minimum", "maximum"}
  <1>6. CheckNames = ((four \union {"malformed"}) \union {"allowed_values"}) \union {"maximum_age_hours"}
    BY DEF CheckNames
  <1> HIDE DEF four
  <1>7. IsFiniteSet(four \union {"malformed"})
    BY <1>1, <1>5 DEF four
  <1>8. IsFiniteSet((four \union {"malformed"}) \union {"allowed_values"})
    BY <1>1, <1>7
  <1> QED BY <1>1, <1>6, <1>8

\* What a contract finds of a file is finitely many findings of a severity.
LEMMA PlainIsFinite ==
  ASSUME Arguments
  PROVE  /\ IsFiniteSet(PlainFindings \union {SilentNullFinding(d) : d \in NullRules})
         /\ \A f \in PlainFindings \union {SilentNullFinding(d) : d \in NullRules} : IsSeverity(f.severity)
  <1> DEFINE rules == contract.rules
             D == DOMAIN rules
  <1>1. /\ IsFiniteSet(contract.required) /\ D \subseteq contract.required
        /\ IsFiniteSet(contract.dataset) /\ IsSeverity(contract.extraSeverity)
        /\ \A d \in contract.dataset : IsSeverity(d.severity)
        /\ \A c \in D : IsSeverity(rules[c].severity)
    <2>1. IsContract(contract)
      BY RequestAssumption DEF Arguments
    <2>2. \A c \in D : rules[c] \in ColumnRule
      BY <2>1 DEF IsContract
    <2>3. \A c \in D : IsSeverity(rules[c].severity)
      BY <2>2 DEF ColumnRule, IsSeverity
    <2> QED BY <2>1, <2>3 DEF IsContract, IsSeverity
  <1>2. IsFiniteSet(D) /\ IsFiniteSet(Columns(Frame))
    <2> HIDE DEF D
    <2> QED BY <1>1, FS_Subset, ColumnsAreFinite
  <1>3. \A rule, column, severity, rows : Finding(rule, column, severity, rows).severity = severity
    BY DEF Finding
  <1>4. /\ IsFiniteSet(SchemaFindings(contract, Frame))
        /\ \A f \in SchemaFindings(contract, Frame) : IsSeverity(f.severity)
    <2> DEFINE missing == [c \in contract.required |-> Finding(<<"schema", "required_column">>, c, CRITICAL, {})]
               extra == [c \in Columns(Frame) |->
                            Finding(<<"schema", "extra_column">>, c, contract.extraSeverity, {})]
    <2>1. SchemaFindings(contract, Frame) \subseteq ImageOf(missing) \union ImageOf(extra)
      BY DEF SchemaFindings, ImageOf
    <2>2. IsFiniteSet(DOMAIN missing) /\ missing = [x \in DOMAIN missing |-> missing[x]]
          /\ IsFiniteSet(DOMAIN extra) /\ extra = [x \in DOMAIN extra |-> extra[x]]
      BY <1>1, <1>2
    <2>3. \A f \in SchemaFindings(contract, Frame) : IsSeverity(f.severity)
      <3>1. IsSeverity(CRITICAL)
        BY DEF IsSeverity, INFO, CRITICAL
      <3> QED BY <1>1, <1>3, <3>1 DEF SchemaFindings
    <2> HIDE DEF missing, extra
    <2>4. IsFiniteSet(ImageOf(missing) \union ImageOf(extra))
      BY <2>2, ImageIsFinite, FS_Union
    <2> QED BY <2>1, <2>3, <2>4, FS_Subset
  <1>5. IsFiniteSet(Checks(contract, Frame)) /\ \A l \in Checks(contract, Frame) : IsSeverity(l.severity)
    <2> DEFINE pairs == (D \intersect Columns(Frame)) \X CheckNames
               byColumn == [p \in pairs |-> ColumnCheck(contract, Frame, p[1], p[2])]
               byRule == [d \in RowRules(contract, Frame) |-> DatasetCheck(Frame, d)]
    <2>1. Checks(contract, Frame) = ImageOf(byColumn) \union ImageOf(byRule)
      BY DEF Checks, ImageOf
    <2>2. IsFiniteSet(pairs)
      <3>1. IsFiniteSet(D \intersect Columns(Frame))
        <4> HIDE DEF D
        <4> QED BY <1>2, FS_Subset
      <3> HIDE DEF D
      <3> QED BY <3>1, CheckNamesAreFinite, FS_Product
    <2>3. IsFiniteSet(RowRules(contract, Frame))
      <3>1. RowRules(contract, Frame) \subseteq contract.dataset
        BY DEF RowRules
      <3> QED BY <1>1, <3>1, FS_Subset
    <2>4. /\ DOMAIN byColumn = pairs /\ byColumn = [x \in DOMAIN byColumn |-> byColumn[x]]
          /\ DOMAIN byRule = RowRules(contract, Frame) /\ byRule = [x \in DOMAIN byRule |-> byRule[x]]
      OBVIOUS
    <2>5. \A l \in Checks(contract, Frame) : IsSeverity(l.severity)
      <3>1. \A p \in pairs : p[1] \in D
        OBVIOUS
      <3>2. \A c \in D : \A check : IsSeverity(ColumnCheck(contract, Frame, c, check).severity)
        BY <1>1 DEF ColumnCheck
      <3>3. \A d \in RowRules(contract, Frame) : IsSeverity(DatasetCheck(Frame, d).severity)
        BY <1>1 DEF DatasetCheck, RowRules
      <3>4. \A l \in Checks(contract, Frame) :
              \/ \E p \in pairs : l = ColumnCheck(contract, Frame, p[1], p[2])
              \/ \E d \in RowRules(contract, Frame) : l = DatasetCheck(Frame, d)
        BY DEF Checks
      <3> HIDE DEF pairs, D
      <3> QED BY <3>1, <3>2, <3>3, <3>4
    <2> HIDE DEF byColumn, byRule, pairs
    <2>6. IsFiniteSet(ImageOf(byColumn)) /\ IsFiniteSet(ImageOf(byRule))
      BY <2>2, <2>3, <2>4, ImageIsFinite
    <2> QED BY <2>1, <2>5, <2>6, FS_Union
  <1>6. /\ IsFiniteSet(ColumnFindings(contract, Frame) \union RowFindings)
        /\ \A f \in ColumnFindings(contract, Frame) \union RowFindings : IsSeverity(f.severity)
    <2> DEFINE g == [l \in Checks(contract, Frame) |-> Found(l, l.rows)]
    <2>1. ColumnFindings(contract, Frame) \union RowFindings =
            {Found(check, check.rows) : check \in {l \in Checks(contract, Frame) : l.rows # {}}}
      BY FindingsAreOfChecks DEF RowFindings
    <2>2. ColumnFindings(contract, Frame) \union RowFindings \subseteq ImageOf(g)
      BY <2>1 DEF ImageOf
    <2>3. IsFiniteSet(DOMAIN g) /\ g = [x \in DOMAIN g |-> g[x]]
      BY <1>5
    <2>4. \A f \in ColumnFindings(contract, Frame) \union RowFindings : IsSeverity(f.severity)
      BY <1>3, <1>5, <2>1 DEF Found
    <2> HIDE DEF g
    <2> QED BY <2>2, <2>3, <2>4, ImageIsFinite, FS_Subset
  <1>7. /\ IsFiniteSet(UniqueFindings(contract, Frame))
        /\ \A f \in UniqueFindings(contract, Frame) : IsSeverity(f.severity)
    <2> DEFINE g == [c \in D |-> Finding(<<"column", "unique">>, c, rules[c].severity, Duplicated(Frame, c))]
    <2>1. \A f \in UniqueFindings(contract, Frame) :
            \E c \in D : f = Finding(<<"column", "unique">>, c, rules[c].severity, Duplicated(Frame, c))
      BY DEF UniqueFindings, FindingOfRows
    <2>2. UniqueFindings(contract, Frame) \subseteq ImageOf(g)
      BY <2>1 DEF ImageOf
    <2>3. IsFiniteSet(DOMAIN g) /\ g = [x \in DOMAIN g |-> g[x]]
      BY <1>2
    <2>4. \A f \in UniqueFindings(contract, Frame) : IsSeverity(f.severity)
      BY <1>1, <1>3, <2>1
    <2> HIDE DEF g
    <2> QED BY <2>2, <2>3, <2>4, ImageIsFinite, FS_Subset
  <1>8. IsFiniteSet(CountFindings) /\ \A f \in CountFindings : IsSeverity(f.severity)
    <2> DEFINE g == [d \in contract.dataset |-> Finding(RuleId(d), None, d.severity, {})]
    <2>1. \A f \in CountFindings : \E d \in contract.dataset : f = Finding(RuleId(d), None, d.severity, {})
      BY DEF CountFindings, RowCountFindings
    <2>2. CountFindings \subseteq ImageOf(g)
      BY <2>1 DEF ImageOf
    <2>3. IsFiniteSet(DOMAIN g) /\ g = [x \in DOMAIN g |-> g[x]]
      BY <1>1
    <2>4. \A f \in CountFindings : IsSeverity(f.severity)
      BY <1>1, <1>3, <2>1
    <2> HIDE DEF g
    <2> QED BY <2>2, <2>3, <2>4, ImageIsFinite, FS_Subset
  <1> DEFINE silent == {SilentNullFinding(d) : d \in NullRules}
  <1>9. IsFiniteSet(silent) /\ \A f \in silent : IsSeverity(f.severity)
    <2> DEFINE g == [d \in NullRules |-> SilentNullFinding(d)]
    <2>1. silent = ImageOf(g)
      BY DEF ImageOf
    <2>2. NullRules \subseteq contract.dataset
      BY DEF NullRules
    <2>3. IsFiniteSet(DOMAIN g) /\ g = [x \in DOMAIN g |-> g[x]]
      BY <1>1, <2>2, FS_Subset
    <2>4. \A f \in silent : IsSeverity(f.severity)
      BY <1>1, <2>2 DEF SilentNullFinding, Silent
    <2> HIDE DEF g, silent
    <2> QED BY <2>1, <2>3, <2>4, ImageIsFinite
  <1> HIDE DEF silent
  <1>10. PlainFindings \union silent =
           (SchemaFindings(contract, Frame) \union (ColumnFindings(contract, Frame) \union RowFindings))
           \union (UniqueFindings(contract, Frame) \union (CountFindings \union silent))
    BY DEF PlainFindings
  <1>11. IsFiniteSet(SchemaFindings(contract, Frame) \union (ColumnFindings(contract, Frame) \union RowFindings))
    BY <1>4, <1>6, FS_Union
  <1>12. IsFiniteSet(UniqueFindings(contract, Frame) \union (CountFindings \union silent))
    <2>1. IsFiniteSet(CountFindings \union silent)
      BY <1>8, <1>9, FS_Union
    <2> QED BY <1>7, <2>1, FS_Union
  <1>13. IsFiniteSet(PlainFindings \union silent)
    BY <1>10, <1>11, <1>12, FS_Union
  <1>14. \A f \in PlainFindings \union silent : IsSeverity(f.severity)
    BY <1>4, <1>6, <1>7, <1>8, <1>9, <1>10
  <1> QED BY <1>13, <1>14 DEF silent

\* An approved snapshot has finitely many columns.
Approved == baseline = None \/ IsFiniteSet(DOMAIN baseline)

LEMMA DriftIsFinite ==
  ASSUME Arguments, Approved
  PROVE  IsFiniteSet(StreamedDrift) /\ \A f \in StreamedDrift : IsSeverity(f.severity)
  <1> DEFINE after == [c \in Columns(Frame) |-> [type |-> StreamedType(c), nullable |-> nulls[c] > 0]]
             before == DOMAIN baseline
             g1 == [c \in Columns(Frame) |-> Finding(<<"drift", "added">>, c, WARNING, {})]
             g2 == [c \in before |-> Finding(<<"drift", "removed">>, c, ERROR, {})]
             g3 == [c \in before |-> Finding(<<"drift", "type_changed">>, c, ERROR, {})]
             g4 == [c \in before |-> Finding(<<"drift", "nullability_changed">>, c, WARNING, {})]
  <1>1. CASE baseline = None
    BY <1>1, FS_EmptySet DEF StreamedDrift
  <1>2. CASE baseline # None
    <2>1. StreamedDrift = DriftFindings(baseline, after) /\ DOMAIN after = Columns(Frame)
      <3>1. Columns(Frame) = Columns(file)
        BY FrameIs
      <3> QED BY <1>2, <3>1 DEF StreamedDrift
    <2> HIDE DEF after
    <2>2. \A f \in StreamedDrift : \/ \E c \in Columns(Frame) : f = Finding(<<"drift", "added">>, c, WARNING, {})
                                   \/ \E c \in before : f = Finding(<<"drift", "removed">>, c, ERROR, {})
                                   \/ \E c \in before : f = Finding(<<"drift", "type_changed">>, c, ERROR, {})
                                   \/ \E c \in before :
                                          f = Finding(<<"drift", "nullability_changed">>, c, WARNING, {})
      BY <2>1 DEF DriftFindings
    <2>3. StreamedDrift \subseteq (ImageOf(g1) \union ImageOf(g2)) \union (ImageOf(g3) \union ImageOf(g4))
      BY <2>2 DEF ImageOf
    <2>4. IsFiniteSet(before) /\ IsFiniteSet(Columns(Frame))
      BY <1>2, ColumnsAreFinite DEF Approved
    <2>5. /\ IsFiniteSet(DOMAIN g1) /\ g1 = [x \in DOMAIN g1 |-> g1[x]]
          /\ IsFiniteSet(DOMAIN g2) /\ g2 = [x \in DOMAIN g2 |-> g2[x]]
          /\ IsFiniteSet(DOMAIN g3) /\ g3 = [x \in DOMAIN g3 |-> g3[x]]
          /\ IsFiniteSet(DOMAIN g4) /\ g4 = [x \in DOMAIN g4 |-> g4[x]]
      BY <2>4
    <2>6. \A f \in StreamedDrift : IsSeverity(f.severity)
      <3>1. \A rule, c, severity : Finding(rule, c, severity, {}).severity = severity
        BY DEF Finding
      <3>2. IsSeverity(WARNING) /\ IsSeverity(ERROR)
        BY DEF IsSeverity, INFO, WARNING, ERROR, CRITICAL
      <3> QED BY <2>2, <3>1, <3>2
    <2> HIDE DEF g1, g2, g3, g4
    <2>7. /\ IsFiniteSet(ImageOf(g1)) /\ IsFiniteSet(ImageOf(g2))
          /\ IsFiniteSet(ImageOf(g3)) /\ IsFiniteSet(ImageOf(g4))
      BY <2>5, ImageIsFinite
    <2>8. IsFiniteSet((ImageOf(g1) \union ImageOf(g2)) \union (ImageOf(g3) \union ImageOf(g4)))
      <3>1. IsFiniteSet(ImageOf(g1) \union ImageOf(g2)) /\ IsFiniteSet(ImageOf(g3) \union ImageOf(g4))
        BY <2>7, FS_Union
      <3> QED BY <3>1, FS_Union
    <2> QED BY <2>3, <2>6, <2>8, FS_Subset
  <1> QED BY <1>1, <1>2

\* Among findings there is one that none is more severe than.
LEMMA MostSevereOne ==
  ASSUME NEW S, S # {}, \A f \in S : IsSeverity(f.severity)
  PROVE  \E x \in S : \A f \in S : f.severity <= x.severity
  <1> DEFINE less == {CRITICAL - f.severity : f \in S}
  <1>1. \A f \in S : f.severity \in Int /\ CRITICAL - f.severity \in Nat
    BY DEF IsSeverity, INFO, CRITICAL
  <1>2. PICK n \in less : \A k \in less : n <= k
    <2>1. less \subseteq Nat /\ less # {}
      BY <1>1
    <2> HIDE DEF less
    <2> QED BY <2>1, Least
  <1>3. PICK x \in S : n = CRITICAL - x.severity
    OBVIOUS
  <1>4. \A f \in S : f.severity <= x.severity
    <2> TAKE f \in S
    <2>1. n <= CRITICAL - f.severity
      BY <1>2
    <2>2. f.severity \in Int /\ x.severity \in Int /\ CRITICAL \in Int
      BY <1>1 DEF CRITICAL
    <2> QED BY <1>3, <2>1, <2>2
  <1> QED BY <1>4

\* What MostSevere chooses exists: so many findings that no other is more severe.
LEMMA MostSevereIs ==
  ASSUME NEW F, IsFiniteSet(F), \A f \in F : IsSeverity(f.severity), NEW n \in 0..Cardinality(F)
  PROVE  /\ MostSevere(n, F) \in SUBSET F /\ Cardinality(MostSevere(n, F)) = n
         /\ \A f \in F \ MostSevere(n, F), g \in MostSevere(n, F) : f.severity <= g.severity
  <1> DEFINE Kept(kept, k) == /\ kept \in SUBSET F /\ Cardinality(kept) = k
                              /\ \A f \in F \ kept, g \in kept : f.severity <= g.severity
             Good(k) == \E kept : Kept(kept, k)
             bad == {k \in 0..n : ~ Good(k)}
  <1>1. Cardinality(F) \in Nat /\ n \in Nat
    BY FS_CardinalityType
  <1>2. Good(0)
    <2>1. Kept({}, 0)
      BY FS_EmptySet
    <2> HIDE DEF Kept
    <2> QED BY <2>1
  <1>3. ASSUME NEW k \in 1..n, Good(k - 1) PROVE Good(k)
    <2>1. PICK kept : Kept(kept, k - 1)
      BY <1>3
    <2>2. k \in Nat /\ k - 1 \in Nat /\ k - 1 < Cardinality(F) /\ (k - 1) + 1 = k
      BY <1>1
    <2>3. IsFiniteSet(kept) /\ kept \subseteq F /\ Cardinality(kept) = k - 1
      BY <2>1, FS_Subset
    <2>4. F \ kept # {}
      <3>1. kept # F
        BY <2>2, <2>3
      <3> QED BY <2>3, <3>1
    <2>5. PICK x \in F \ kept : \A f \in F \ kept : f.severity <= x.severity
      BY <2>4, MostSevereOne
    <2>6. Cardinality(kept \union {x}) = k
      BY <2>2, <2>3, <2>5, FS_AddElement
    <2>7. \A f \in F \ (kept \union {x}), g \in kept \union {x} : f.severity <= g.severity
      BY <2>1, <2>5
    <2>8. Kept(kept \union {x}, k)
      BY <2>3, <2>5, <2>6, <2>7
    <2> HIDE DEF Kept
    <2> QED BY <2>8
  <1> HIDE DEF Good
  <1>4. Good(n)
    <2> SUFFICES ASSUME ~ Good(n) PROVE FALSE
      OBVIOUS
    <2>1. PICK k \in bad : \A l \in bad : k <= l
      <3>1. bad \subseteq Nat /\ n \in bad
        BY <1>1
      <3> HIDE DEF bad
      <3> QED BY <3>1, Least
    <2>2. k # 0 /\ k \in 0..n /\ ~ Good(k)
      BY <1>2, <2>1
    <2>3. k \in 1..n /\ k - 1 \in 0..n /\ ~ (k <= k - 1)
      BY <1>1, <2>2
    <2>4. Good(k - 1)
      BY <2>1, <2>3
    <2> QED BY <1>3, <2>2, <2>3, <2>4
  <1>5. MostSevere(n, F) = CHOOSE kept \in kSubset(n, F) :
                               \A f \in F \ kept, g \in kept : f.severity <= g.severity
    BY DEF MostSevere
  <1>6. \E kept \in kSubset(n, F) : \A f \in F \ kept, g \in kept : f.severity <= g.severity
    BY <1>4 DEF Good, kSubset
  <1>7. MostSevere(n, F) \in kSubset(n, F)
        /\ \A f \in F \ MostSevere(n, F), g \in MostSevere(n, F) : f.severity <= g.severity
    BY <1>5, <1>6
  <1> QED BY <1>7 DEF kSubset

LEMMA ApprovedStays == Spec => []Approved
  <1>1. Init => Approved
    BY RequestAssumption DEF Init, Approved
  <1>2. Approved /\ [Next]_vars => Approved'
    BY DEF Next, AddBatch, Finished, vars, Approved
  <1> QED BY <1>1, <1>2, PTL DEF Spec

\* A limit on the findings of a run never makes it pass, and cuts the least severe ones.
THEOREM VerdictSound == Spec => []VerdictIsSound
  <1>1. RunInv /\ Approved => VerdictIsSound
    <2> DEFINE F == StreamedFindings
               cut == F \ Reported(F)
    <2> SUFFICES ASSUME RunInv, Approved, done = Len(file.rows)
                 PROVE  /\ \A failOn \in FailOn :
                              Passed(Reported(F), failOn) <=> Passed(F, failOn) /\ cut = {}
                        /\ \A f \in cut, g \in Reported(F) : f.severity <= g.severity
      BY DEF VerdictIsSound
    <2>1. IsFiniteSet(F) /\ \A f \in F : IsSeverity(f.severity)
      <3>1. F = (PlainFindings \union {SilentNullFinding(d) : d \in NullRules}) \union StreamedDrift
        BY StreamedParts, ReadToTheEnd
      <3>2. Arguments
        BY DEF RunInv
      <3>3. /\ IsFiniteSet(PlainFindings \union {SilentNullFinding(d) : d \in NullRules})
            /\ \A f \in PlainFindings \union {SilentNullFinding(d) : d \in NullRules} : IsSeverity(f.severity)
        BY <3>2, PlainIsFinite
      <3>4. IsFiniteSet(StreamedDrift) /\ \A f \in StreamedDrift : IsSeverity(f.severity)
        BY <3>2, DriftIsFinite
      <3> HIDE DEF F
      <3> QED BY <3>1, <3>3, <3>4, FS_Union
    <2>2. Cardinality(F) \in Nat /\ MaxFindings \in Nat /\ MaxFindings > 0
      BY <2>1, FS_CardinalityType, LimitAssumption
    <2> HIDE DEF F
    <2>3. CASE Cardinality(F) <= MaxFindings
      <3>1. Reported(F) = F
        BY <2>3 DEF Reported
      <3>2. cut = {}
        BY <3>1
      <3> QED BY <3>1, <3>2
    <2>4. CASE ~ (Cardinality(F) <= MaxFindings)
      <3> DEFINE kept == MostSevere(MaxFindings - 1, F)
      <3>1. Reported(F) = kept \union {FindingLimit}
        BY <2>4 DEF Reported
      <3>2. /\ kept \in SUBSET F /\ Cardinality(kept) = MaxFindings - 1
            /\ \A f \in F \ kept, g \in kept : f.severity <= g.severity
        <4>1. MaxFindings - 1 \in 0..Cardinality(F)
          BY <2>2, <2>4
        <4> QED BY <2>1, <4>1, MostSevereIs
      <3>3. FindingLimit.severity = CRITICAL
        BY DEF FindingLimit, Finding
      <3>4. \A failOn \in FailOn : failOn \in Int /\ ~ (CRITICAL < failOn)
        <4>1. \A failOn \in FailOn : failOn \in INFO..CRITICAL
          BY FailOnAssumption
        <4> QED BY <4>1 DEF INFO, CRITICAL
      <3> HIDE DEF kept
      <3>5. \A failOn \in FailOn : ~ Passed(Reported(F), failOn)
        BY <3>1, <3>3, <3>4 DEF Passed
      <3>6. ASSUME NEW failOn \in FailOn, Passed(F, failOn), cut = {} PROVE FALSE
        <4>1. FindingLimit \notin F
          BY <3>3, <3>4, <3>6 DEF Passed
        <4>2. \A f \in F : f \in kept
          <5> TAKE f \in F
          <5>1. f \in Reported(F)
            BY <3>6
          <5>2. f # FindingLimit
            BY <4>1
          <5> QED BY <3>1, <5>1, <5>2
        <4>3. F = kept
          BY <3>2, <4>2
        <4> QED BY <2>2, <2>4, <3>2, <4>3
      <3>7. ASSUME NEW f \in cut, NEW g \in Reported(F) PROVE f.severity <= g.severity
        <4>1. f \in F \ kept
          BY <3>1
        <4>2. CASE g \in kept
          BY <3>2, <4>1, <4>2
        <4>3. CASE g = FindingLimit
          BY <2>1, <3>3, <4>1, <4>3 DEF IsSeverity, INFO, CRITICAL
        <4> QED BY <3>1, <4>2, <4>3
      <3> HIDE DEF cut
      <3> QED BY <3>5, <3>6, <3>7
    <2> QED BY <2>3, <2>4
  <1> QED BY <1>1, RunInvariant, ApprovedStays, PTL

=============================================================================
