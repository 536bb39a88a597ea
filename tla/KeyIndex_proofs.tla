--------------------------- MODULE KeyIndex_proofs ---------------------------
(***************************************************************************)
(* Theorems about KeyIndex and StreamedColumns: what is counted batch by   *)
(* batch is what would be counted in the whole file, for any keys, any     *)
(* datasets, any number of rows and any size of the batches; and with the  *)
(* keys of typed cells it is what a run in memory counts.                  *)
(***************************************************************************)
EXTENDS StreamedColumns, FiniteSetTheorems, WellFoundedInduction, TLAPS

-----------------------------------------------------------------------------
(* The inductive invariant. *)

\* The variables the counts depend on.
CountersOK ==
    /\ data \in Seq(Keys \union {NoKey}) /\ reference \in Seq(Keys \union {NoKey})
    /\ indexed \in 0..Len(reference) /\ done \in 0..Len(data)
    /\ count \in [Keys -> Nat] /\ affected \in [Keys -> Nat] /\ unmatched \in [Keys -> Nat]
    /\ first \in [Keys -> Nat] /\ samples \subseteq 1..done

\* The index knows how often each key came and where first (IndexIsExact), and which keys the
\* reference dataset has, as far as it is read.
KnownIsExact == known = {reference[r] : r \in 1..indexed} \ {NoKey}

IndexInv == /\ CountersOK /\ IndexIsExact /\ KnownIsExact
            /\ AffectedIsExact /\ UnmatchedIsExact /\ SamplesAreRepeated

-----------------------------------------------------------------------------
(* Sets of rows. *)

\* Some rows have a first one, ...
LEMMA Least ==
  ASSUME NEW S, S \subseteq Nat, S # {}
  PROVE  \E x \in S : \A y \in S : x <= y
  <1> DEFINE R == OpToRel(<, Nat)
  <1>1. \E x \in S : \A y \in S : ~ (<<y, x>> \in R)
    BY NatLessThanWellFounded, WFMin
  <1>2. \A x, y \in Nat : y < x => <<y, x>> \in R
    BY DEF OpToRel
  <1> HIDE DEF R
  <1>3. PICK x \in S : \A y \in S : ~ (<<y, x>> \in R)
    BY <1>1
  <1>4. \A y \in S : ~ (y < x)
    BY <1>2, <1>3, Zenon
  <1> QED
    BY <1>4

\* ... and, if they are no more than some number, a last one.
LEMMA Greatest ==
  ASSUME NEW S, NEW n \in Nat, S \subseteq 0..n, S # {}
  PROVE  \E x \in S : \A y \in S : y <= x
  <1> DEFINE bounds == {b \in Nat : \A y \in S : y <= b}
  <1>1. n \in bounds /\ bounds \subseteq Nat
  OBVIOUS
  <1>2. PICK b \in bounds : \A c \in bounds : b <= c
  <2> HIDE DEF bounds
  <2> QED BY <1>1, Least
  <1>3. b \in S
  <2> SUFFICES ASSUME b \notin S PROVE FALSE
    OBVIOUS
  <2>1. \A y \in S : y < b
    BY <1>2
  <2>2. b - 1 \in bounds
    <3>1. PICK y \in S : TRUE
      OBVIOUS
    <3>2. b \in Nat /\ y \in Nat /\ y < b /\ S \subseteq Nat
      BY <1>2, <2>1, <3>1
    <3> QED BY <2>1, <3>2
  <2> QED BY <1>2, <2>2
  <1> QED BY <1>2, <1>3

\* The first rows of some rows are among them, there are some if there are any rows, and no
\* more than are shown.
LEMMA SmallestOf ==
  ASSUME NEW rows, NEW n \in Nat, rows \subseteq 0..n
  PROVE  /\ Smallest(rows) \subseteq rows /\ IsFiniteSet(Smallest(rows))
         /\ rows # {} => Smallest(rows) # {}
         /\ Cardinality(Smallest(rows)) <= SampleLimit
  <1>1. IsFiniteSet(rows) /\ rows \subseteq Nat /\ Smallest(rows) \subseteq rows
  <2>1. IsFiniteSet(0..n)
    BY FS_Interval
  <2>2. IsFiniteSet(rows)
    BY <2>1, FS_Subset
  <2> QED BY <2>2 DEF Smallest
  <1>2. IsFiniteSet(Smallest(rows)) /\ Cardinality(Smallest(rows)) \in Nat
    BY <1>1, FS_Subset, FS_CardinalityType
  <1>3. rows # {} => Smallest(rows) # {}
  <2> SUFFICES ASSUME rows # {} PROVE Smallest(rows) # {}
    OBVIOUS
  <2>1. PICK x \in rows : \A y \in rows : x <= y
    BY <1>1, Least
  <2>2. {s \in rows : s < x} = {}
    <3>1. \A s \in rows : s \in Nat /\ x \in Nat /\ x <= s
      BY <1>1, <2>1
    <3>2. \A s \in rows : ~ (s < x)
      BY <3>1
    <3> QED BY <3>2, Zenon
  <2>3. Cardinality({s \in rows : s < x}) = 0
    BY <2>2, FS_EmptySet
  <2> QED BY <2>3, LimitsAssumption DEF Smallest
  <1>4. Cardinality(Smallest(rows)) <= SampleLimit
  <2> SUFFICES ASSUME Cardinality(Smallest(rows)) > SampleLimit PROVE FALSE
    BY <1>2, LimitsAssumption
  <2>1. Smallest(rows) # {}
    BY FS_EmptySet, LimitsAssumption
  <2>2. PICK x \in Smallest(rows) : \A y \in Smallest(rows) : y <= x
    BY <1>1, <2>1, Greatest
  <2> DEFINE before == {s \in rows : s < x}
  <2>3. Smallest(rows) \ {x} \subseteq before /\ before \subseteq rows
    <3>1. \A y \in Smallest(rows) : y \in Nat /\ x \in Nat /\ y <= x /\ y \in rows
      BY <1>1, <2>2
    <3> QED BY <3>1
  <2>4. Cardinality(Smallest(rows) \ {x}) = Cardinality(Smallest(rows)) - 1
    BY <1>2, FS_RemoveElement
  <2>5. Cardinality(Smallest(rows) \ {x}) <= Cardinality(before) /\ Cardinality(before) \in Nat
    BY <1>1, <2>3, FS_Subset, FS_CardinalityType
  <2>6. Cardinality(before) < SampleLimit
    BY <2>2 DEF Smallest
  <2> HIDE DEF before
  <2> QED BY <1>2, <2>4, <2>5, <2>6, LimitsAssumption
  <1> QED BY <1>1, <1>2, <1>3, <1>4

-----------------------------------------------------------------------------
(* Batches. *)

\* A batch is some of the rows that are left.
LEMMA LastRowBounds ==
  ASSUME NEW rows \in Nat, NEW from \in 0..rows, from < rows
  PROVE  LastRow(from, rows) \in from + 1 .. rows
    BY LimitsAssumption DEF LastRow

LEMMA DoneGrows ==
  ASSUME CountersOK, AddBatch
  PROVE  done \in Nat /\ done' \in Nat /\ done < done' /\ Len(data) \in Nat /\ done' <= Len(data)
    BY LastRowBounds DEF CountersOK, AddBatch

\* The rows under a key before a batch and those of the batch.
LEMMA RowsOfBatch ==
  ASSUME CountersOK, NEW k \in Keys
  PROVE  /\ IsFiniteSet(RowsOf(k)) /\ IsFiniteSet(Grouped(k)) /\ Grouped(k) \intersect RowsOf(k) = {}
         /\ Cardinality(RowsOf(k)) \in Nat /\ Incoming(k) \in Nat
         /\ Cardinality(RowsOf(k) \union Grouped(k)) = Cardinality(RowsOf(k)) + Incoming(k)
  <1>1. done \in Nat /\ LastRow(done, Len(data)) \in Int
    BY LimitsAssumption DEF CountersOK, LastRow
  <1>2. IsFiniteSet(1..done) /\ IsFiniteSet(Batch)
    BY <1>1, FS_Interval DEF Batch
  <1>3. IsFiniteSet(RowsOf(k)) /\ IsFiniteSet(Grouped(k))
    BY <1>2, FS_Subset DEF RowsOf, Grouped
  <1>4. Grouped(k) \intersect RowsOf(k) = {}
    BY <1>1 DEF RowsOf, Grouped, Batch
  <1>5. Cardinality(RowsOf(k)) \in Nat /\ Incoming(k) \in Nat
    BY <1>3, FS_CardinalityType DEF Incoming
  <1>6. Cardinality(RowsOf(k) \union Grouped(k)) = Cardinality(RowsOf(k)) + Incoming(k)
    BY <1>3, <1>4, <1>5, FS_Union, FS_EmptySet DEF Incoming
  <1> QED BY <1>3, <1>4, <1>5, <1>6

\* A batch adds its rows.
LEMMA RowsAdded ==
  ASSUME CountersOK, AddBatch, NEW k \in Keys
  PROVE  RowsOf(k)' = RowsOf(k) \union Grouped(k)
  <1>1. done' \in done + 1 .. Len(data) /\ done \in Nat /\ Len(data) \in Nat
    BY LastRowBounds DEF CountersOK, AddBatch
  <1>2. 1..done' = (1..done) \union Batch
    BY <1>1 DEF Batch, AddBatch
  <1>3. data' = data
    BY DEF AddBatch
  <1> QED BY <1>2, <1>3 DEF RowsOf, Grouped

\* The row a key is listed by is the first one.
LEMMA FirstRowIsFirst ==
  ASSUME IndexInv, NEW k \in Keys
  PROVE  LET rows == RowsOf(k) \union Grouped(k)
         IN  /\ FirstRow(k) \in Nat
             /\ rows # {} => FirstRow(k) \in rows /\ \A r \in rows : FirstRow(k) <= r
  <1>1. /\ IsFiniteSet(RowsOf(k)) /\ IsFiniteSet(Grouped(k)) /\ count[k] = Cardinality(RowsOf(k))
        /\ first[k] \in Nat /\ count[k] \in Nat /\ Incoming(k) \in Nat
    BY RowsOfBatch DEF IndexInv, CountersOK, IndexIsExact
  <1>2. done \in Nat /\ Grouped(k) \subseteq Nat /\ \A r \in Grouped(k) : done < r
    <2>1. LastRow(done, Len(data)) \in Int /\ done \in Nat
      BY LimitsAssumption DEF IndexInv, CountersOK, LastRow
    <2> QED BY <2>1 DEF Grouped, Batch
  <1>3. CASE count[k] > 0
    <2>1. RowsOf(k) # {}
      BY <1>1, <1>3, FS_EmptySet
    <2>2. first[k] \in RowsOf(k) /\ \A r \in RowsOf(k) : first[k] <= r
      BY <2>1 DEF IndexInv, IndexIsExact
    <2>3. first[k] <= done
      BY <1>2, <2>2 DEF RowsOf
    <2> QED BY <1>1, <1>2, <1>3, <2>2, <2>3 DEF FirstRow
  <1>4. CASE count[k] = 0
    <2>1. RowsOf(k) = {}
      BY <1>1, <1>4, FS_EmptySet
    <2>2. CASE Grouped(k) = {}
      <3>1. Incoming(k) = 0
        BY <2>2, FS_EmptySet DEF Incoming
      <3> QED BY <1>1, <2>1, <2>2, <3>1 DEF FirstRow
    <2>3. CASE Grouped(k) # {}
      <3>1. Incoming(k) # 0
        BY <1>1, <2>3, FS_EmptySet DEF Incoming
      <3>2. FirstRow(k) = Min(Grouped(k))
        BY <1>4, <3>1 DEF FirstRow
      <3>3. \E x \in Grouped(k) : \A y \in Grouped(k) : x <= y
        BY <1>2, <2>3, Least
      <3> QED BY <1>2, <2>1, <3>2, <3>3 DEF Min
    <2> QED BY <2>2, <2>3
  <1> QED BY <1>1, <1>3, <1>4

\* The rows a batch shows are read, each has another of its key, and there are some if a key
\* is repeated.
LEMMA ExamplesAreRepeated ==
  ASSUME IndexInv, AddBatch
  PROVE  /\ Examples \subseteq 1..done'
         /\ \A r \in Examples : \E s \in 1..done' : s # r /\ data[s] = data[r] /\ data[r] # NoKey
         /\ Repeated # {} => Examples # {}
  <1> DEFINE offered == UNION {Offered(k) : k \in Repeated}
  <1>1. ASSUME NEW k \in Repeated
        PROVE  /\ Offered(k) \subseteq RowsOf(k)' /\ Offered(k) # {}
               /\ \A r \in Offered(k) : \E s \in RowsOf(k)' : s # r
    <2>1. k \in Keys /\ Incoming(k) > 0 /\ count[k] + Incoming(k) > 1
      BY DEF Repeated
    <2>2. /\ RowsOf(k)' = RowsOf(k) \union Grouped(k)
          /\ IsFiniteSet(RowsOf(k)) /\ IsFiniteSet(Grouped(k))
          /\ count[k] = Cardinality(RowsOf(k))
          /\ Cardinality(RowsOf(k)') = count[k] + Incoming(k)
      BY <2>1, RowsOfBatch, RowsAdded DEF IndexInv, IndexIsExact
    <2>3. Grouped(k) # {}
      BY <2>1, FS_EmptySet DEF Incoming
    <2>4. count[k] = 1 => first[k] \in RowsOf(k)
      BY <2>1, <2>2, FS_EmptySet DEF IndexInv, IndexIsExact
    <2>5. ASSUME NEW r \in RowsOf(k)' PROVE \E s \in RowsOf(k)' : s # r
      <3> SUFFICES ASSUME \A s \in RowsOf(k)' : s = r PROVE FALSE
        OBVIOUS
      <3>1. RowsOf(k)' = {r}
        BY <2>5
      <3>2. Cardinality({r}) = 1
        BY FS_Singleton
      <3>3. Cardinality(RowsOf(k)') = 1
        BY <3>1, <3>2
      <3> QED BY <2>1, <2>2, <3>3
    <2> QED BY <2>2, <2>3, <2>4, <2>5 DEF Offered
  <1>2. \A k \in Keys : \A r \in RowsOf(k)' : r \in 1..done' /\ data[r] = k /\ k # NoKey
    BY KeysAssumption DEF RowsOf, AddBatch
  <1>3. Repeated \subseteq Keys
    BY DEF Repeated
  <1>4. /\ offered \subseteq 1..done'
        /\ Repeated # {} => offered # {}
        /\ \A r \in offered : /\ data[r] \in Keys
                              /\ \E s \in 1..done' : s # r /\ data[s] = data[r] /\ data[r] # NoKey
    <2>1. ASSUME NEW r \in offered
          PROVE  /\ r \in 1..done' /\ data[r] \in Keys
                 /\ \E s \in 1..done' : s # r /\ data[s] = data[r] /\ data[r] # NoKey
      <3>1. PICK k \in Repeated : r \in Offered(k)
        OBVIOUS
      <3>2. k \in Keys /\ r \in RowsOf(k)' /\ \E s \in RowsOf(k)' : s # r
        BY <1>1, <1>3, <3>1
      <3> QED BY <1>2, <3>2
    <2>2. Repeated # {} => offered # {}
      BY <1>1
    <2> HIDE DEF offered
    <2> QED BY <2>1, <2>2
  <1>5. Examples \subseteq offered
    BY DEF Examples
  <1>6. Repeated # {} => Examples # {}
    <2> HIDE DEF offered
    <2> SUFFICES ASSUME Repeated # {} PROVE Examples # {}
      OBVIOUS
    <2>1. ASSUME NEW r \in offered PROVE FirstRow(data[r]) \in Nat /\ r \in Nat
      <3>1. r \in Nat /\ data[r] \in Keys
        <4>1. done' \in Nat
          BY DoneGrows DEF IndexInv
        <4>2. r \in 1..done' /\ data[r] \in Keys
          BY <1>4
        <4> QED BY <4>1, <4>2
      <3> QED BY <3>1, FirstRowIsFirst
    <2> DEFINE firsts == {FirstRow(data[r]) : r \in offered}
    <2>2. PICK n \in firsts : \A m \in firsts : n <= m
      <3>1. firsts \subseteq Nat /\ firsts # {}
        BY <1>4, <2>1
      <3> HIDE DEF firsts
      <3> QED BY <3>1, Least
    <2> DEFINE itsRows == {r \in offered : FirstRow(data[r]) = n}
    <2>3. PICK r \in itsRows : \A s \in itsRows : r <= s
      <3>1. itsRows \subseteq Nat /\ itsRows # {}
        BY <2>1, <2>2
      <3> HIDE DEF itsRows
      <3> QED BY <3>1, Least
    <2>4. {s \in offered : Earlier(s, r)} = {}
      BY <2>1, <2>2, <2>3 DEF Earlier
    <2>5. Cardinality({s \in offered : Earlier(s, r)}) < SampleLimit
      BY <2>4, FS_EmptySet, LimitsAssumption
    <2>6. r \in offered
      BY <2>3
    <2> QED BY <2>5, <2>6 DEF Examples, offered
  <1> HIDE DEF offered
  <1>7. Examples \subseteq 1..done'
    BY <1>4, <1>5
  <1>8. \A r \in Examples : \E s \in 1..done' : s # r /\ data[s] = data[r] /\ data[r] # NoKey
    BY <1>4, <1>5
  <1> QED BY <1>6, <1>7, <1>8

-----------------------------------------------------------------------------
(* Each step preserves the invariant. *)

LEMMA AddBatchPreserves == ASSUME IndexInv, AddBatch PROVE IndexInv'
  <1> USE DEF IndexInv
  <1>1. CountersOK'
    <2>1. done' \in 0..Len(data)
      BY LastRowBounds DEF CountersOK, AddBatch
    <2>2. \A k \in Keys : Incoming(k) \in Nat
      BY RowsOfBatch
    <2>3. \A k \in Keys : count[k] \in Nat /\ affected[k] \in Nat /\ unmatched[k] \in Nat
      BY DEF CountersOK
    <2>4. count' \in [Keys -> Nat]
      BY <2>2, <2>3 DEF AddBatch
    <2>5. affected' \in [Keys -> Nat]
      <3>1. \A k \in Keys : NewlyAffected(k) \in Nat
        BY <2>2 DEF NewlyAffected
      <3> QED BY <2>3, <3>1 DEF AddBatch
    <2>6. unmatched' \in [Keys -> Nat]
      BY <2>2, <2>3 DEF AddBatch, Unmatched
    <2>7. first' \in [Keys -> Nat]
      BY FirstRowIsFirst DEF AddBatch
    <2>8. samples' \subseteq 1..done'
      <3>1. samples \subseteq 1..done /\ done \in Nat /\ done' \in Nat /\ done <= done'
        BY DoneGrows DEF CountersOK
      <3>2. samples \subseteq 1..done'
        BY <3>1
      <3>3. Examples \subseteq 1..done'
        BY ExamplesAreRepeated
      <3>4. samples' \subseteq samples \union Examples
        BY DEF AddBatch, Smallest
      <3> QED BY <3>2, <3>3, <3>4
    <2> QED BY <2>1, <2>4, <2>5, <2>6, <2>7, <2>8 DEF CountersOK, AddBatch
  <1>2. \A k \in Keys : Cardinality(RowsOf(k)') = Cardinality(RowsOf(k)) + Incoming(k)
    BY RowsOfBatch, RowsAdded
  <1>3. IndexIsExact'
    <2> SUFFICES ASSUME NEW k \in Keys
                 PROVE  /\ count'[k] = Cardinality(RowsOf(k)')
                        /\ RowsOf(k)' # {} => /\ first'[k] \in RowsOf(k)'
                                              /\ \A r \in RowsOf(k)' : first'[k] <= r
      BY DEF IndexIsExact
    <2>1. count'[k] = Cardinality(RowsOf(k)')
      BY <1>2 DEF IndexIsExact, AddBatch
    <2>2. first'[k] = FirstRow(k) /\ RowsOf(k)' = RowsOf(k) \union Grouped(k)
      BY RowsAdded DEF AddBatch
    <2> QED BY <2>1, <2>2, FirstRowIsFirst
  <1>4. KnownIsExact'
    BY DEF KnownIsExact, AddBatch
  <1>5. AffectedIsExact'
    <2> SUFFICES ASSUME NEW k \in Keys
                 PROVE  affected'[k] = IF Cardinality(RowsOf(k)') > 1 THEN Cardinality(RowsOf(k)') ELSE 0
      BY DEF AffectedIsExact
    <2> DEFINE n == Cardinality(RowsOf(k))
    <2>1. n \in Nat /\ Incoming(k) \in Nat /\ Cardinality(RowsOf(k)') = n + Incoming(k)
      BY <1>2, RowsOfBatch
    <2>2. affected[k] = (IF n > 1 THEN n ELSE 0) /\ count[k] = n
      BY DEF AffectedIsExact, IndexIsExact
    <2>3. affected'[k] = affected[k] + NewlyAffected(k)
      BY DEF AddBatch
    <2> HIDE DEF n
    <2> QED BY <2>1, <2>2, <2>3 DEF NewlyAffected
  <1>6. UnmatchedIsExact'
    <2> SUFFICES ASSUME NEW k \in Keys
                 PROVE  unmatched'[k] = IF \E r \in DOMAIN reference : reference[r] = k THEN 0
                                        ELSE Cardinality(RowsOf(k)')
      BY DEF UnmatchedIsExact, AddBatch
    <2>1. k \in known <=> \E r \in DOMAIN reference : reference[r] = k
      <3>1. DOMAIN reference = 1..indexed
        BY DEF CountersOK, AddBatch
      <3> QED BY <3>1, KeysAssumption DEF KnownIsExact
    <2>2. unmatched'[k] = unmatched[k] + IF k \in known THEN 0 ELSE Incoming(k)
      BY DEF AddBatch, Unmatched
    <2>3. unmatched[k] = IF k \in known THEN 0 ELSE Cardinality(RowsOf(k))
      BY <2>1 DEF UnmatchedIsExact
    <2> QED BY <1>2, <2>1, <2>2, <2>3, RowsOfBatch
  <1>7. SamplesAreRepeated'
    <2> DEFINE shown == samples \union Examples
    <2>1. /\ samples \subseteq 1..done' /\ Examples \subseteq 1..done'
          /\ done' \in Nat /\ done <= done' /\ data' = data /\ samples' = Smallest(shown)
      <3>1. samples \subseteq 1..done /\ done \in Nat /\ done' \in Nat /\ done <= done'
        BY DoneGrows DEF CountersOK
      <3>2. samples \subseteq 1..done'
        BY <3>1
      <3>3. Examples \subseteq 1..done'
        BY ExamplesAreRepeated
      <3> QED BY <3>1, <3>2, <3>3 DEF AddBatch
    <2>2. \A r \in shown : \E s \in 1..done' : s # r /\ data[s] = data[r] /\ data[r] # NoKey
      <3>1. \A r \in samples : \E s \in 1..done : s # r /\ data[s] = data[r] /\ data[r] # NoKey
        BY DEF SamplesAreRepeated
      <3>2. 1..done \subseteq 1..done'
        BY <2>1 DEF CountersOK
      <3> QED BY <3>1, <3>2, ExamplesAreRepeated
    <2>3. ASSUME NEW k \in Keys, affected'[k] > 0 PROVE shown # {}
      <3>1. CASE affected[k] > 0
        BY <3>1 DEF SamplesAreRepeated
      <3>2. CASE ~ (affected[k] > 0)
        <4>1. affected[k] = 0 /\ affected'[k] = affected[k] + NewlyAffected(k) /\ count[k] \in Nat
          BY <3>2 DEF CountersOK, AddBatch
        <4>2. k \in Repeated
          <5>1. Incoming(k) \in Nat
            BY RowsOfBatch
          <5>2. NewlyAffected(k) \in Nat
            BY <4>1, <5>1 DEF NewlyAffected
          <5>3. NewlyAffected(k) > 0
            BY <2>3, <4>1, <5>2
          <5> QED BY <4>1, <5>1, <5>3 DEF NewlyAffected, Repeated
        <4> QED BY <4>2, ExamplesAreRepeated
      <3> QED BY <3>1, <3>2
    <2>4. shown \subseteq 0..done'
      BY <2>1
    <2> HIDE DEF shown
    <2> QED BY <2>1, <2>2, <2>3, <2>4, SmallestOf DEF SamplesAreRepeated
  <1> QED BY <1>1, <1>3, <1>4, <1>5, <1>6, <1>7

LEMMA IndexReferencePreserves == ASSUME IndexInv, IndexReference PROVE IndexInv'
  <1> USE DEF IndexInv, IndexReference
  <1>1. indexed' \in indexed + 1 .. Len(reference) /\ indexed \in Nat /\ Len(reference) \in Nat
    BY LastRowBounds DEF CountersOK
  <1>2. CountersOK'
    BY <1>1 DEF CountersOK
  <1>3. KnownIsExact'
    <2>1. 1..indexed' = (1..indexed) \union (indexed + 1 .. indexed')
      BY <1>1
    <2> QED BY <2>1 DEF KnownIsExact
  <1>4. IndexIsExact' /\ AffectedIsExact' /\ UnmatchedIsExact' /\ SamplesAreRepeated'
    <2>1. UNCHANGED <<data, reference, done, count, first, affected, samples, unmatched>>
      OBVIOUS
    <2>2. \A k : RowsOf(k)' = RowsOf(k)
      BY <2>1 DEF RowsOf
    <2> QED
      BY <2>1, <2>2 DEF IndexIsExact, AffectedIsExact, UnmatchedIsExact, SamplesAreRepeated
  <1> QED BY <1>2, <1>3, <1>4

-----------------------------------------------------------------------------
(* The theorems. *)

LEMMA FreshIsExact ==
  ASSUME data \in Seq(Keys \union {NoKey}), reference \in Seq(Keys \union {NoKey}), Fresh
  PROVE  IndexInv
  <1> USE DEF Fresh
  <1>1. CountersOK
    BY DEF CountersOK
  <1>2. \A k \in Keys : RowsOf(k) = {} /\ Cardinality(RowsOf(k)) = 0
    <2>1. \A k \in Keys : RowsOf(k) = {}
      BY DEF RowsOf
    <2> QED BY <2>1, FS_EmptySet
  <1>3. KnownIsExact
    BY DEF KnownIsExact
  <1>4. SamplesAreRepeated
    BY FS_EmptySet, LimitsAssumption DEF SamplesAreRepeated
  <1> QED BY <1>1, <1>2, <1>3, <1>4 DEF IndexInv, IndexIsExact, AffectedIsExact, UnmatchedIsExact

LEMMA IndexInvNext == IndexInv /\ [IndexNext]_indexVars => IndexInv'
  <1>1. ASSUME IndexInv, UNCHANGED indexVars PROVE IndexInv'
    <2>1. UNCHANGED <<data, reference, indexed, done, known, count, first, affected, samples, unmatched>>
      BY <1>1 DEF indexVars
    <2>2. \A k : RowsOf(k)' = RowsOf(k)
      BY <2>1 DEF RowsOf
    <2>3. CountersOK' /\ KnownIsExact'
      BY <1>1, <2>1 DEF IndexInv, CountersOK, KnownIsExact
    <2>4. IndexIsExact' /\ AffectedIsExact' /\ UnmatchedIsExact' /\ SamplesAreRepeated'
      BY <1>1, <2>1, <2>2
      DEF IndexInv, IndexIsExact, AffectedIsExact, UnmatchedIsExact, SamplesAreRepeated
    <2> QED BY <2>3, <2>4 DEF IndexInv
  <1> QED BY <1>1, AddBatchPreserves, IndexReferencePreserves DEF IndexNext, Finished

\* The strengthening of the counts.
THEOREM IndexInvariant == IndexSpec => []IndexInv
  <1>1. IndexInit => IndexInv
    BY FreshIsExact DEF IndexInit, Datasets
  <1> QED BY <1>1, IndexInvNext, PTL DEF IndexSpec

\* The index has the count and the first row of every key of what was read.
THEOREM IndexExact == IndexSpec => []IndexIsExact
    BY IndexInvariant, PTL DEF IndexInv

\* The rows counted for a key are all the rows read under it if it is repeated, wherever the
\* batches end.
THEOREM AffectedExact == IndexSpec => []AffectedIsExact
    BY IndexInvariant, PTL DEF IndexInv

\* Exactly the rows whose key the whole reference dataset lacks are unmatched.
THEOREM UnmatchedExact == IndexSpec => []UnmatchedIsExact
    BY IndexInvariant, PTL DEF IndexInv

\* The rows shown are repeated rows, some if there is anything to show, within the limit.
THEOREM SamplesRepeated == IndexSpec => []SamplesAreRepeated
    BY IndexInvariant, PTL DEF IndexInv

-----------------------------------------------------------------------------
(* Sums over keys. *)

SumOver(share, S) == MapThenSumSet(LAMBDA k : share[k], S)

Under(k, R, d)    == {r \in R : d[r] = k}
UnderAny(S, R, d) == {r \in R : d[r] \in S}

\* If the share of each key is the number of certain rows under it, the sum of the shares is
\* the number of those rows under any of the keys.
LEMMA SumOfShares ==
  ASSUME NEW R, IsFiniteSet(R), NEW S, IsFiniteSet(S), NEW d, NEW share,
         \A k \in S : share[k] = Cardinality(Under(k, R, d))
  PROVE  SumOver(share, S) = Cardinality(UnderAny(S, R, d))
  <1> DEFINE n(s) == Cardinality({r \in R : d[r] \in s})
             g == [s \in SUBSET S |-> n(s)]
             of(h, s) == IF s = {} THEN 0
                         ELSE LET x == CHOOSE x \in s : TRUE IN share[x] + h[s \ {x}]
             sum == CHOOSE h : h = [s \in SUBSET S |-> of(h, s)]
  <1>1. ASSUME NEW s \in SUBSET S, NEW x \in s
        PROVE  n(s) = share[x] + n(s \ {x}) /\ share[x] \in Nat /\ n(s) \in Nat /\ n(s \ {x}) \in Nat
    <2> DEFINE A == {r \in R : d[r] = x}
               B == {r \in R : d[r] \in s \ {x}}
               C == {r \in R : d[r] \in s}
    <2>1. C = A \union B /\ A \intersect B = {}
      OBVIOUS
    <2>2. IsFiniteSet(A) /\ IsFiniteSet(B) /\ IsFiniteSet(C)
      BY FS_Subset
    <2>3. share[x] = Cardinality(A)
      BY DEF Under
    <2>4. Cardinality(A) \in Nat /\ Cardinality(B) \in Nat /\ Cardinality(C) \in Nat
      BY <2>2, FS_CardinalityType
    <2> HIDE DEF A, B, C
    <2>5. Cardinality(C) = Cardinality(A) + Cardinality(B)
      BY <2>1, <2>2, <2>4, FS_Union, FS_EmptySet
    <2> QED BY <2>3, <2>4, <2>5 DEF B, C
  <1>2. n({}) = 0
    <2>1. {r \in R : d[r] \in {}} = {}
      OBVIOUS
    <2> QED BY <2>1, FS_EmptySet
  <1> HIDE DEF n
  <1>3. \A s \in SUBSET S : g[s] = of(g, s)
    <2> TAKE s \in SUBSET S
    <2>1. CASE s = {}
      BY <1>2, <2>1
    <2>2. CASE s # {}
      <3>1. PICK x : x = (CHOOSE y \in s : TRUE) /\ x \in s
        BY <2>2
      <3>2. n(s) = share[x] + n(s \ {x}) /\ s \ {x} \in SUBSET S
        BY <1>1, <3>1
      <3> QED BY <2>2, <3>1, <3>2
    <2> QED BY <2>1, <2>2
  <1>4. g = [s \in SUBSET S |-> of(g, s)]
    BY <1>3
  <1>5. sum = [s \in SUBSET S |-> of(sum, s)]
    <2> HIDE DEF of, g
    <2> QED BY <1>4
  <1>6. \A s \in SUBSET S : sum[s] = n(s)
    <2> HIDE DEF sum
    <2> SUFFICES ASSUME NEW s0 \in SUBSET S, sum[s0] # n(s0) PROVE FALSE
      OBVIOUS
    <2> DEFINE bad == {s \in SUBSET S : sum[s] # n(s)}
               sizes == {Cardinality(s) : s \in bad}
    <2>1. \A s \in SUBSET S : IsFiniteSet(s) /\ Cardinality(s) \in Nat
      BY FS_Subset, FS_CardinalityType
    <2>2. PICK m \in sizes : \A l \in sizes : m <= l
      <3>1. sizes \subseteq Nat /\ sizes # {}
        BY <2>1
      <3> HIDE DEF sizes
      <3> QED BY <3>1, Least
    <2>3. PICK s \in bad : Cardinality(s) = m
      BY <2>2
    <2>4. s # {}
      BY <1>2, <1>5, <2>3
    <2>5. PICK x : x = (CHOOSE y \in s : TRUE) /\ x \in s
      BY <2>4
    <2>6. s \ {x} \in SUBSET S /\ Cardinality(s \ {x}) = m - 1 /\ m \in Nat
      BY <2>1, <2>3, <2>5, FS_RemoveElement
    <2>7. sum[s \ {x}] = n(s \ {x})
      <3>1. ~ (s \ {x} \in bad)
        BY <2>2, <2>6
      <3> QED BY <2>6, <3>1
    <2>8. sum[s] = share[x] + sum[s \ {x}]
      BY <1>5, <2>3, <2>4, <2>5
    <2> QED BY <1>1, <2>3, <2>5, <2>7, <2>8
  <1>7. SumOver(share, S) = sum[S]
    BY DEF SumOver, MapThenSumSet, MapThenFoldSet
  <1> HIDE DEF sum
  <1> QED BY <1>6, <1>7 DEF n, UnderAny

-----------------------------------------------------------------------------
(* Keys of typed cells. *)

LEMMA FileRows ==
  ASSUME NEW columns, NEW n \in Nat, NEW f \in Files(columns, n)
  PROVE  /\ \E m \in 0..n : DOMAIN f = 1..m /\ Len(f) = m
         /\ \A r \in DOMAIN f : f[r] \in [columns -> Said]
         /\ \A r \in DOMAIN f : \A c \in columns : f[r][c] \in Cells[c]
  <1>1. PICK m \in 0..n : f \in [1..m -> [columns -> Said]]
    BY DEF Files
  <1>2. m \in Nat /\ DOMAIN f = 1..m
    BY <1>1
  <1>3. Len(f) = m
    BY <1>1, <1>2
  <1>4. \A r \in DOMAIN f : f[r] \in [columns -> Said]
    BY <1>1
  <1>5. \A r \in DOMAIN f : \A c \in columns : f[r][c] \in Cells[c]
    BY DEF Files
  <1> QED BY <1>2, <1>3, <1>4, <1>5

\* A row that says something has a key of the index, the others have none.
LEMMA KeyOfRow ==
  ASSUME NEW type \in RuleTypes, NEW n \in Nat, NEW f \in Files(RuleColumns(type), n),
         NEW r \in DOMAIN f
  PROVE  IF \A c \in RuleColumns(type) : f[r][c] = Blank THEN CompositeKey(f, r) = NoKey
         ELSE CompositeKey(f, r) \in Keys
  <1> DEFINE columns == RuleColumns(type)
  <1>1. /\ f[r] \in [columns -> Said] /\ \A c \in columns : f[r][c] \in Cells[c]
    BY FileRows
  <1> DEFINE key == [c \in columns |-> ScalarKey(f, r, c)]
  <1>2. \A c \in columns : key[c] \in Scalars(c)
    <2> TAKE c \in columns
    <2>1. f[r][c] \in Cells[c]
      BY <1>1
    <2> HIDE DEF columns
    <2>2. key[c] = ScalarKey(f, r, c)
      OBVIOUS
    <2>3. CASE f[r][c] = Blank
      BY <2>2, <2>3 DEF ScalarKey, Scalars
    <2>4. CASE f[r][c] # Blank
      <3>1. key[c] = <<CellType(f, r, c), f[r][c]>>
        BY <2>2, <2>4 DEF ScalarKey
      <3>2. CellType(f, r, c) \in {"int", "float", "str"}
        BY DEF CellType
      <3>3. f[r][c] \notin Numbers => CellType(f, r, c) = "str"
        <4>1. r \in BatchOf(f, r)
          BY DEF BatchOf
        <4> QED BY <2>4, <4>1 DEF CellType
      <3>4. <<CellType(f, r, c), f[r][c]>>[1] = CellType(f, r, c) /\ <<CellType(f, r, c), f[r][c]>>[2] = f[r][c]
        OBVIOUS
      <3> QED BY <2>1, <2>4, <3>1, <3>2, <3>3, <3>4 DEF Scalars
    <2> QED BY <2>3, <2>4
  <1>3. key \in TypedKeys
    <2>1. columns \in {RuleColumns(t) : t \in RuleTypes}
      OBVIOUS
    <2>2. key \in [columns -> UNION {Scalars(c) : c \in columns}]
      <3> HIDE DEF columns
      <3>1. \A c \in columns : ScalarKey(f, r, c) \in UNION {Scalars(d) : d \in columns}
        BY <1>2
      <3> QED BY <3>1
    <2> HIDE DEF key
    <2> QED BY <1>2, <2>1, <2>2 DEF TypedKeys
  <1>4. DOMAIN f[r] = columns
    BY <1>1
  <1> HIDE DEF columns
  <1>5. CompositeKey(f, r) = IF \A c \in columns : f[r][c] = Blank THEN NoKey ELSE key
    BY <1>4 DEF CompositeKey
  <1> QED BY <1>3, <1>5, TypedKeysAssumption DEF columns

LEMMA KeysOfFile ==
  ASSUME NEW type \in RuleTypes, NEW n \in Nat, NEW f \in Files(RuleColumns(type), n)
  PROVE  [r \in DOMAIN f |-> CompositeKey(f, r)] \in Seq(Keys \union {NoKey})
  <1>1. PICK m \in 0..n : DOMAIN f = 1..m
    BY FileRows
  <1>2. \A r \in DOMAIN f : CompositeKey(f, r) \in Keys \union {NoKey}
    BY KeyOfRow
  <1> QED BY <1>1, <1>2

\* Two rows have the same key if they say the same, and it was read as the same types.
LEMMA SameKey ==
  ASSUME NEW columns, NEW n \in Nat, NEW f \in Files(columns, n), NEW r \in DOMAIN f,
         NEW m \in Nat, NEW g \in Files(columns, m), NEW s \in DOMAIN g,
         \E c \in columns : f[r][c] # Blank,
         CompositeKey(f, r) # NoKey
  PROVE  CompositeKey(g, s) = CompositeKey(f, r) <=> SameRead(f, r, g, s)
  <1>1. f[r] \in [columns -> Said] /\ g[s] \in [columns -> Said]
    BY FileRows
  <1>2. CompositeKey(f, r) = [c \in columns |-> ScalarKey(f, r, c)]
    BY <1>1 DEF CompositeKey
  <1>3. CompositeKey(g, s) # NoKey => CompositeKey(g, s) = [c \in columns |-> ScalarKey(g, s, c)]
    BY <1>1 DEF CompositeKey
  <1>4. \A c : Null[1] = "null" /\ CellType(f, r, c) # "null" /\ CellType(g, s, c) # "null"
    BY DEF Null, CellType
  <1>5. ASSUME NEW c \in columns
        PROVE  ScalarKey(g, s, c) = ScalarKey(f, r, c) <=>
                 f[r][c] = g[s][c] /\ (f[r][c] # Blank => CellType(f, r, c) = CellType(g, s, c))
    <2>1. \A t, v : <<t, v>>[1] = t /\ <<t, v>>[2] = v
      OBVIOUS
    <2>2. ScalarKey(f, r, c) = IF f[r][c] = Blank THEN Null ELSE <<CellType(f, r, c), f[r][c]>>
      BY DEF ScalarKey
    <2>3. ScalarKey(g, s, c) = IF g[s][c] = Blank THEN Null ELSE <<CellType(g, s, c), g[s][c]>>
      BY DEF ScalarKey
    <2>4. CASE f[r][c] = Blank
      BY <1>4, <2>1, <2>2, <2>3, <2>4
    <2>5. CASE f[r][c] # Blank
      BY <1>4, <2>1, <2>2, <2>3, <2>5
    <2> QED BY <2>4, <2>5
  <1>6. ASSUME CompositeKey(g, s) = CompositeKey(f, r) PROVE SameRead(f, r, g, s)
    <2>1. \A c \in columns : ScalarKey(g, s, c) = ScalarKey(f, r, c)
      <3>1. CompositeKey(g, s) = [c \in columns |-> ScalarKey(g, s, c)]
        BY <1>3, <1>6
      <3> QED BY <1>2, <1>6, <3>1
    <2>2. f[r] = g[s]
      BY <1>1, <1>5, <2>1
    <2> QED BY <1>1, <1>5, <2>1, <2>2 DEF SameRead
  <1>7. ASSUME SameRead(f, r, g, s) PROVE CompositeKey(g, s) = CompositeKey(f, r)
    <2>1. CompositeKey(g, s) = [c \in columns |-> ScalarKey(g, s, c)]
      BY <1>1, <1>7 DEF SameRead, CompositeKey
    <2>2. \A c \in columns : ScalarKey(g, s, c) = ScalarKey(f, r, c)
      BY <1>1, <1>5, <1>7 DEF SameRead
    <2> QED BY <1>2, <2>1, <2>2
  <1> QED BY <1>6, <1>7

-----------------------------------------------------------------------------
(* The rules on files of typed cells. *)

StreamInv ==
    /\ IndexInv
    /\ rule \in RuleTypes
    /\ file \in Files(RuleColumns(rule), MaxRows) /\ lookup \in Files({KeyColumn}, MaxLookup)
    /\ data = [r \in DOMAIN file |-> CompositeKey(file, r)]
    /\ reference = [r \in DOMAIN lookup |-> CompositeKey(lookup, r)]

\* The index that counts the keys of a file is the index.
LEMMA StreamInvariant == Spec => []StreamInv
  <1>1. Init => StreamInv
    <2> SUFFICES ASSUME Init PROVE StreamInv
      OBVIOUS
    <2>1. /\ rule \in RuleTypes /\ file \in Files(RuleColumns(rule), MaxRows)
          /\ data = [r \in DOMAIN file |-> CompositeKey(file, r)]
          /\ reference = [r \in DOMAIN lookup |-> CompositeKey(lookup, r)] /\ Fresh
      BY DEF Init
    <2>2. lookup \in Files({KeyColumn}, MaxLookup)
      <3>1. CASE RuleColumns(rule) = {KeyColumn}
        BY <3>1 DEF Init
      <3>2. CASE RuleColumns(rule) # {KeyColumn}
        <4>1. lookup = << >>
          BY <3>2 DEF Init
        <4>2. << >> \in [1..0 -> [{KeyColumn} -> Said]] /\ DOMAIN << >> = {}
          OBVIOUS
        <4>3. 0 \in 0..MaxLookup
          BY CellsAssumption
        <4> QED BY <4>1, <4>2, <4>3 DEF Files
      <3> QED BY <3>1, <3>2
    <2>3. data \in Seq(Keys \union {NoKey})
      BY <2>1, KeysOfFile, LimitsAssumption
    <2>4. reference \in Seq(Keys \union {NoKey})
      <3>1. CASE RuleColumns(rule) = {KeyColumn}
        BY <2>1, <2>2, <3>1, KeysOfFile, CellsAssumption
      <3>2. CASE RuleColumns(rule) # {KeyColumn}
        <4>1. lookup = << >> /\ DOMAIN lookup = {}
          BY <3>2 DEF Init
        <4>2. reference = << >>
          BY <2>1, <4>1
        <4> QED BY <4>2
      <3> QED BY <3>1, <3>2
    <2>5. IndexInv
      BY <2>1, <2>3, <2>4, FreshIsExact
    <2> QED BY <2>1, <2>2, <2>5 DEF StreamInv
  <1>2. StreamInv /\ [Next]_vars => StreamInv'
    <2> SUFFICES ASSUME StreamInv, [Next]_vars PROVE StreamInv'
      OBVIOUS
    <2>1. [IndexNext]_indexVars /\ UNCHANGED <<rule, file, lookup, data, reference>>
      BY DEF Next, vars, indexVars, IndexNext, IndexReference, AddBatch, Finished
    <2>2. IndexInv'
      BY <2>1, IndexInvNext DEF StreamInv
    <2>3. \A f, r : CompositeKey(f, r)' = CompositeKey(f, r)
      OBVIOUS
    <2> QED BY <2>1, <2>2 DEF StreamInv
  <1> QED BY <1>1, <1>2, PTL DEF Spec

\* Whatever the files say: what is counted of their keys is exact.
THEOREM CountsOfFiles ==
  Spec => [](AffectedIsExact /\ SamplesAreRepeated)
  BY StreamInvariant, PTL DEF StreamInv, IndexInv

\* The keys of a file are finitely many.
LEMMA KeysOfData ==
  ASSUME CountersOK
  PROVE  LET S == {data[r] : r \in DOMAIN data} \ {NoKey}
         IN  IsFiniteSet(DOMAIN data) /\ IsFiniteSet(S) /\ S \subseteq Keys
  <1> DEFINE T == {data[r] : r \in DOMAIN data}
  <1>1. DOMAIN data = 1..Len(data) /\ Len(data) \in Nat
    BY DEF CountersOK
  <1>2. IsFiniteSet(DOMAIN data)
    BY <1>1, FS_Interval
  <1>3. data \in Surjection(DOMAIN data, T)
    BY <1>1 DEF CountersOK, Surjection
  <1>4. IsFiniteSet(T)
    BY <1>2, <1>3, FS_Surjection
  <1>5. IsFiniteSet(T \ {NoKey})
    BY <1>4, FS_RemoveElement
  <1>6. T \ {NoKey} \subseteq Keys
    BY DEF CountersOK
  <1> QED BY <1>2, <1>5, <1>6

\* What the rows counted for the keys of a file are together.
LEMMA SumOfAffected ==
  ASSUME IndexInv, done = Len(data)
  PROVE  Total(affected) = Cardinality({r \in DOMAIN data : /\ data[r] # NoKey
                                                           /\ \E s \in DOMAIN data : s # r /\ data[s] = data[r]})
  <1> DEFINE S == {data[r] : r \in DOMAIN data} \ {NoKey}
             R == {r \in DOMAIN data : \E s \in DOMAIN data : s # r /\ data[s] = data[r]}
             shared == {r \in DOMAIN data : /\ data[r] # NoKey
                                            /\ \E s \in DOMAIN data : s # r /\ data[s] = data[r]}
  <1>1. CountersOK /\ AffectedIsExact
    BY DEF IndexInv
  <1>2. IsFiniteSet(DOMAIN data) /\ IsFiniteSet(S) /\ S \subseteq Keys
    BY <1>1, KeysOfData
  <1>3. IsFiniteSet(R)
    BY <1>2, FS_Subset
  <1>4. ASSUME NEW k \in S PROVE affected[k] = Cardinality(Under(k, R, data))
    <2>1. DOMAIN data = 1..done
      BY <1>1 DEF CountersOK
    <2>2. /\ IsFiniteSet(RowsOf(k)) /\ Cardinality(RowsOf(k)) \in Nat
          /\ affected[k] = IF Cardinality(RowsOf(k)) > 1 THEN Cardinality(RowsOf(k)) ELSE 0
      BY <1>1, <1>2, RowsOfBatch DEF AffectedIsExact
    <2>3. CASE Cardinality(RowsOf(k)) > 1
      <3>1. ASSUME NEW r \in RowsOf(k) PROVE \E s \in RowsOf(k) : s # r
        <4> SUFFICES ASSUME \A s \in RowsOf(k) : s = r PROVE FALSE
          OBVIOUS
        <4>1. RowsOf(k) = {r}
          BY <3>1
        <4>2. Cardinality({r}) = 1
          BY FS_Singleton
        <4> QED BY <2>3, <4>1, <4>2
      <3>2. \A r \in RowsOf(k) : r \in DOMAIN data /\ data[r] = k
        BY <2>1 DEF RowsOf
      <3>3. RowsOf(k) \subseteq {r \in R : data[r] = k}
        BY <3>1, <3>2
      <3>4. {r \in R : data[r] = k} \subseteq RowsOf(k)
        BY <2>1 DEF RowsOf
      <3> QED BY <2>2, <2>3, <3>3, <3>4 DEF Under
    <2>4. CASE ~ (Cardinality(RowsOf(k)) > 1)
      <3>1. ASSUME NEW r \in R, data[r] = k PROVE FALSE
        <4>1. PICK s \in DOMAIN data : s # r /\ data[s] = data[r]
          OBVIOUS
        <4>2. {r, s} \subseteq RowsOf(k)
          BY <2>1, <3>1, <4>1 DEF RowsOf
        <4>3. IsFiniteSet({r}) /\ Cardinality({r}) = 1
          BY FS_Singleton
        <4>4. Cardinality({r} \union {s}) = IF s \in {r} THEN 1 ELSE 1 + 1
          BY <4>3, FS_AddElement
        <4>5. Cardinality({r, s}) = 2
          <5>1. {r} \union {s} = {r, s} /\ s \notin {r}
            BY <4>1
          <5> QED BY <4>4, <5>1
        <4>6. Cardinality({r, s}) <= Cardinality(RowsOf(k))
          BY <2>2, <4>2, FS_Subset
        <4> QED BY <2>2, <2>4, <4>5, <4>6
      <3>2. \A r : ~ (r \in R /\ data[r] = k)
        BY <3>1
      <3> HIDE DEF R
      <3>3. {r \in R : data[r] = k} = {}
        BY <3>2, Zenon
      <3> QED BY <2>2, <2>4, <3>3, FS_EmptySet DEF Under
    <2> QED BY <2>3, <2>4
  <1>5. SumOver(affected, S) = Cardinality(UnderAny(S, R, data))
    <2> HIDE DEF R, S
    <2> QED BY <1>2, <1>3, <1>4, SumOfShares
  <1>6. UnderAny(S, R, data) = shared
    BY DEF UnderAny
  <1>7. Total(affected) = SumOver(affected, S)
    BY DEF Total, SumOver
  <1> QED BY <1>5, <1>6, <1>7

\* What the rows counted as unmatched are together.
LEMMA SumOfUnmatched ==
  ASSUME IndexInv, done = Len(data)
  PROVE  Total(unmatched) = Cardinality({r \in DOMAIN data : /\ data[r] # NoKey
                                                            /\ \A s \in DOMAIN reference : reference[s] # data[r]})
  <1> DEFINE S == {data[r] : r \in DOMAIN data} \ {NoKey}
             R == {r \in DOMAIN data : \A s \in DOMAIN reference : reference[s] # data[r]}
             missing == {r \in DOMAIN data : /\ data[r] # NoKey
                                             /\ \A s \in DOMAIN reference : reference[s] # data[r]}
  <1>1. CountersOK /\ UnmatchedIsExact
    BY DEF IndexInv
  <1>2. IsFiniteSet(DOMAIN data) /\ IsFiniteSet(S) /\ S \subseteq Keys
    BY <1>1, KeysOfData
  <1>3. IsFiniteSet(R)
    BY <1>2, FS_Subset
  <1>4. ASSUME NEW k \in S PROVE unmatched[k] = Cardinality(Under(k, R, data))
    <2>1. DOMAIN data = 1..done
      BY <1>1 DEF CountersOK
    <2>2. unmatched[k] = IF \E r \in DOMAIN reference : reference[r] = k THEN 0
                         ELSE Cardinality(RowsOf(k))
      BY <1>1, <1>2 DEF UnmatchedIsExact
    <2>3. CASE \E r \in DOMAIN reference : reference[r] = k
      <3>1. \A r : ~ (r \in R /\ data[r] = k)
        BY <2>3
      <3> HIDE DEF R
      <3>2. {r \in R : data[r] = k} = {}
        BY <3>1, Zenon
      <3> QED BY <2>2, <2>3, <3>2, FS_EmptySet DEF Under
    <2>4. CASE ~ (\E r \in DOMAIN reference : reference[r] = k)
      <3>1. {r \in R : data[r] = k} = RowsOf(k)
        BY <2>1, <2>4 DEF RowsOf
      <3> QED BY <2>2, <2>4, <3>1 DEF Under
    <2> QED BY <2>3, <2>4
  <1>5. SumOver(unmatched, S) = Cardinality(UnderAny(S, R, data))
    <2> HIDE DEF R, S
    <2> QED BY <1>2, <1>3, <1>4, SumOfShares
  <1>6. UnderAny(S, R, data) = missing
    BY DEF UnderAny
  <1>7. Total(unmatched) = SumOver(unmatched, S)
    BY DEF Total, SumOver
  <1> QED BY <1>5, <1>6, <1>7

-----------------------------------------------------------------------------
(* Streamed and in memory. *)

\* Rows of the file that have a key say something, and the same key is the same row, read alike.
LEMMA KeysOfRows ==
  ASSUME StreamInv, NEW r \in DOMAIN file
  PROVE  /\ data[r] # NoKey <=> Says(r)
         /\ data[r] # NoKey =>
              /\ \A s \in DOMAIN file : data[s] = data[r] <=> SameRead(file, r, file, s)
              /\ RuleColumns(rule) = {KeyColumn} =>
                   \A s \in DOMAIN lookup : reference[s] = data[r] <=> SameRead(file, r, lookup, s)
  <1> DEFINE columns == RuleColumns(rule)
  <1>1. /\ rule \in RuleTypes /\ file \in Files(columns, MaxRows) /\ MaxRows \in Nat
        /\ lookup \in Files({KeyColumn}, MaxLookup) /\ MaxLookup \in Nat
        /\ \A s \in DOMAIN file : data[s] = CompositeKey(file, s)
        /\ \A s \in DOMAIN lookup : reference[s] = CompositeKey(lookup, s)
    BY LimitsAssumption, CellsAssumption DEF StreamInv
  <1>2. DOMAIN file[r] = columns
    BY <1>1, FileRows
  <1>3. data[r] # NoKey <=> \E c \in columns : file[r][c] # Blank
    BY <1>1, KeyOfRow, KeysAssumption
  <1>4. data[r] # NoKey <=> Says(r)
    BY <1>2, <1>3 DEF Says
  <1> HIDE DEF columns
  <1>5. data[r] # NoKey => \A s \in DOMAIN file : data[s] = data[r] <=> SameRead(file, r, file, s)
    BY <1>1, <1>3, SameKey
  <1>6. ASSUME data[r] # NoKey, columns = {KeyColumn}, NEW s \in DOMAIN lookup
        PROVE  reference[s] = data[r] <=> SameRead(file, r, lookup, s)
    <2>1. lookup \in Files(columns, MaxLookup)
      BY <1>1, <1>6
    <2> QED BY <1>1, <1>3, <1>6, <2>1, SameKey
  <1> QED BY <1>4, <1>5, <1>6 DEF columns

\* A uniqueness rule that is streamed counts the rows of the run in memory that say something and
\* have an equal that was read alike, and shows rows that the run in memory counts: for any files
\* and batches.
THEOREM UniqueExactUpToTypes == Spec => []UniqueUpToTypes
  <1>1. StreamInv => UniqueUpToTypes
    <2> SUFFICES ASSUME StreamInv, done = Len(data)
                 PROVE  /\ Total(affected) = Cardinality({r \in InMemory :
                              Says(r) /\ \E s \in DOMAIN file : s # r /\ SameRead(file, r, file, s)})
                        /\ samples \subseteq InMemory
      BY DEF UniqueUpToTypes
    <2> DEFINE shared == {r \in DOMAIN data : /\ data[r] # NoKey
                                              /\ \E s \in DOMAIN data : s # r /\ data[s] = data[r]}
               alike == {r \in InMemory :
                           Says(r) /\ \E s \in DOMAIN file : s # r /\ SameRead(file, r, file, s)}
    <2>1. DOMAIN data = DOMAIN file /\ DOMAIN data = 1..done
      BY DEF StreamInv, IndexInv, CountersOK
    <2>2. ASSUME NEW r \in shared PROVE r \in alike
      <3>1. r \in DOMAIN file /\ data[r] # NoKey /\ Says(r)
        BY <2>1, KeysOfRows
      <3>2. PICK s \in DOMAIN file : s # r /\ data[s] = data[r]
        BY <2>1
      <3>3. SameRead(file, r, file, s) /\ file[s] = file[r]
        BY <3>1, <3>2, KeysOfRows DEF SameRead
      <3>4. rule = "unique" => file[r][KeyColumn] # Blank
        <4> SUFFICES ASSUME rule = "unique" PROVE file[r][KeyColumn] # Blank
          OBVIOUS
        <4>1. RuleColumns(rule) = {KeyColumn}
          BY DEF RuleColumns
        <4>2. DOMAIN file[r] = {KeyColumn}
          <5>1. file \in Files({KeyColumn}, MaxRows) /\ MaxRows \in Nat
            BY <4>1, LimitsAssumption DEF StreamInv
          <5>2. file[r] \in [{KeyColumn} -> Said]
            BY <3>1, <5>1, FileRows
          <5> QED BY <5>2
        <4> QED BY <3>1, <4>2 DEF Says
      <3> QED BY <3>1, <3>2, <3>3, <3>4 DEF InMemory
    <2>3. ASSUME NEW r \in alike PROVE r \in shared
      <3>1. r \in DOMAIN file /\ Says(r)
        BY DEF InMemory
      <3>2. PICK s \in DOMAIN file : s # r /\ SameRead(file, r, file, s)
        OBVIOUS
      <3> QED BY <2>1, <3>1, <3>2, KeysOfRows
    <2>4. shared = alike
      BY <2>2, <2>3
    <2>5. Total(affected) = Cardinality(shared)
      BY SumOfAffected DEF StreamInv
    <2>6. samples \subseteq shared
      <3>1. SamplesAreRepeated /\ samples \subseteq 1..done
        BY DEF StreamInv, IndexInv, CountersOK
      <3> QED BY <2>1, <3>1 DEF SamplesAreRepeated
    <2>7. alike \subseteq InMemory
      OBVIOUS
    <2> HIDE DEF shared, alike
    <2> QED BY <2>4, <2>5, <2>6, <2>7 DEF alike
  <1> QED BY <1>1, StreamInvariant, PTL

\* reference_exists reports the rows that are missing from the reference dataset and those whose
\* equals there were all read as another type: for any files and batches.
THEOREM ReferenceExactUpToTypes == Spec => []ReferenceUpToTypes
  <1>1. StreamInv => ReferenceUpToTypes
    <2> SUFFICES ASSUME StreamInv, RuleColumns(rule) = {KeyColumn}, done = Len(data)
                 PROVE  Total(unmatched) = Cardinality(Dangling \union
                          {r \in DOMAIN file : Says(r) /\
                              \A s \in DOMAIN lookup : ~SameRead(file, r, lookup, s)})
      BY DEF ReferenceUpToTypes
    <2> DEFINE missing == {r \in DOMAIN data : /\ data[r] # NoKey
                                               /\ \A s \in DOMAIN reference : reference[s] # data[r]}
               alike == {r \in DOMAIN file : Says(r) /\
                            \A s \in DOMAIN lookup : ~SameRead(file, r, lookup, s)}
    <2>1. DOMAIN data = DOMAIN file /\ DOMAIN reference = DOMAIN lookup
      BY DEF StreamInv
    <2>2. missing = alike
      BY <2>1, KeysOfRows
    <2>3. Dangling \subseteq alike
      BY DEF Dangling, SameRead
    <2>4. Total(unmatched) = Cardinality(missing)
      BY SumOfUnmatched DEF StreamInv, Total
    <2>5. Dangling \union alike = alike
      BY <2>3
    <2> HIDE DEF missing, alike
    <2> QED BY <2>2, <2>4, <2>5 DEF alike
  <1> QED BY <1>1, StreamInvariant, PTL

\* Whatever says the same was read as the same type, in the dataset and in the reference dataset,
\* and no row of a combination is empty.
ReadAlike ==
    /\ \A r, s \in DOMAIN file : file[r] = file[s] => SameRead(file, r, file, s)
    /\ \A r \in DOMAIN file, s \in DOMAIN lookup : file[r] = lookup[s] => SameRead(file, r, lookup, s)
    /\ rule = "unique_combination" => \A r \in DOMAIN file : Says(r)

\* For such files a streamed run is what the documents promise: exact.
THEOREM ExactIfReadAlike == Spec => [](ReadAlike => RowRulesAreExact)
  <1>1. StreamInv /\ UniqueUpToTypes /\ ReferenceUpToTypes => (ReadAlike => RowRulesAreExact)
    <2> SUFFICES ASSUME StreamInv, UniqueUpToTypes, ReferenceUpToTypes, ReadAlike, done = Len(data)
                 PROVE  /\ Total(affected) = Cardinality(InMemory) /\ samples \subseteq InMemory
                        /\ RuleColumns(rule) = {KeyColumn} => Total(unmatched) = Cardinality(Dangling)
      BY DEF RowRulesAreExact
    <2>1. ASSUME NEW r \in InMemory
          PROVE  Says(r) /\ \E s \in DOMAIN file : s # r /\ SameRead(file, r, file, s)
      <3>1. r \in DOMAIN file /\ (rule = "unique" => file[r][KeyColumn] # Blank)
        BY DEF InMemory
      <3>2. rule = "unique" => DOMAIN file[r] = {KeyColumn}
        BY <3>1, FileRows, LimitsAssumption DEF StreamInv, RuleColumns
      <3>3. rule \in {"unique", "unique_combination"}
        BY RuleAssumption DEF StreamInv
      <3>4. Says(r)
        BY <3>1, <3>2, <3>3 DEF Says, ReadAlike
      <3> QED BY <3>1, <3>4 DEF InMemory, ReadAlike
    <2>2. {r \in InMemory : Says(r) /\ \E s \in DOMAIN file : s # r /\ SameRead(file, r, file, s)} = InMemory
      BY <2>1
    <2>3. {r \in DOMAIN file : Says(r) /\ \A s \in DOMAIN lookup : ~SameRead(file, r, lookup, s)}
             \subseteq Dangling
      BY DEF Dangling, ReadAlike
    <2>4. Dangling \union {r \in DOMAIN file :
               Says(r) /\ \A s \in DOMAIN lookup : ~SameRead(file, r, lookup, s)} = Dangling
      BY <2>3
    <2> QED BY <2>2, <2>4 DEF UniqueUpToTypes, ReferenceUpToTypes
  <1> QED BY <1>1, StreamInvariant, UniqueExactUpToTypes, ReferenceExactUpToTypes, PTL
=============================================================================
