------------------------------ MODULE KeyIndex ------------------------------
(***************************************************************************)
(* The exact key index of streaming.py (DiskKeyStore) and the batch loop   *)
(* of engine.py (_streaming_validate) that feeds it: how many rows of a    *)
(* streamed dataset share their key with another row (unique,              *)
(* unique_combination) or have a key that a reference dataset lacks        *)
(* (reference_exists), counted a batch at a time without keeping the rows. *)
(*                                                                         *)
(* One uniqueness rule and one reference rule over the same column, each   *)
(* in a namespace of its own (compile_contract refuses rules of one name). *)
(* The counts the engine adds up over keys are kept per key.               *)
(***************************************************************************)
EXTENDS Naturals, Sequences, FiniteSetsExt

CONSTANTS
    Keys,         \* the SHA-256 keys of the values of the column
    NoKey,        \* composite_key is None: a row without a value
    MaxRows,      \* bound: rows of the dataset and of the reference dataset
    BatchRows,    \* ResourceLimits.batch_rows
    SampleLimit   \* rows a finding shows

ASSUME KeysAssumption   == NoKey \notin Keys
ASSUME LimitsAssumption == /\ MaxRows \in Nat
                           /\ BatchRows \in Nat \ {0} /\ SampleLimit \in Nat \ {0}

VARIABLES
    data,        \* per row of the dataset: its key, or NoKey
    reference,   \* per row of the reference dataset: its key, or NoKey
    indexed,     \* rows of the reference dataset read
    done,        \* rows of the dataset read
    known,       \* keys in the reference namespace of key_counts
    count,       \* key_counts.count in the uniqueness namespace, 0 without a row
    first,       \* key_counts.first_row, 0 without a row
    affected,    \* per key: its share of unique_affected
    samples,     \* unique_samples
    unmatched    \* per key: its share of reference_affected

indexVars == <<data, reference, indexed, done, known, count, first, affected, samples, unmatched>>

-----------------------------------------------------------------------------
(* Batches. *)

LastRow(from, rows) == IF from + BatchRows < rows THEN from + BatchRows ELSE rows

Batch == done + 1 .. LastRow(done, Len(data))

\* grouped: the rows of the batch under each key.
Grouped(k)  == {r \in Batch : data[r] = k}
Incoming(k) == Cardinality(Grouped(k))

-----------------------------------------------------------------------------
(* The reference namespace. *)

\* add_reference_keys, once per batch of the reference dataset: INSERT OR IGNORE.
IndexReference ==
    /\ indexed < Len(reference)
    /\ indexed' = LastRow(indexed, Len(reference))
    /\ known' = known \union ({reference[r] : r \in indexed + 1 .. indexed'} \ {NoKey})
    /\ UNCHANGED <<data, reference, done, count, first, affected, samples, unmatched>>

\* missing_reference_keys, and the rows of the batch under the missing keys.
Unmatched == [k \in Keys |-> unmatched[k] + IF k \in known THEN 0 ELSE Incoming(k)]

-----------------------------------------------------------------------------
(* add_grouped. *)

\* Mutant of NewlyAffected: the row seen first is not counted when its key comes again.
NewlyAffectedForgetful(k) ==
    IF Incoming(k) = 0 \/ (count[k] = 0 /\ Incoming(k) = 1) THEN 0 ELSE Incoming(k)

\* The rows of a repeated key that become affected: the row seen in an earlier batch,
\* which was alone until now, is one of them.
NewlyAffected(k) ==
    IF Incoming(k) = 0 \/ (count[k] = 0 /\ Incoming(k) = 1) THEN 0
    ELSE Incoming(k) + IF count[k] = 1 THEN 1 ELSE 0

\* first_row stays the one inserted first.
FirstRow(k) == IF count[k] > 0 \/ Incoming(k) = 0 THEN first[k] ELSE Min(Grouped(k))

\* Mutant of Repeated: every key of the batch.
RepeatedOrNot == {k \in Keys : Incoming(k) > 0}

\* The repeated keys of the batch, ...
Repeated == {k \in Keys : Incoming(k) > 0 /\ count[k] + Incoming(k) > 1}

\* ... the rows each offers as examples, ...
Offered(k) == Grouped(k) \union (IF count[k] = 1 THEN {first[k]} ELSE {})

\* ... those of the key first that came first, ...
Earlier(r, s) == \/ FirstRow(data[r]) < FirstRow(data[s])
                 \/ FirstRow(data[r]) = FirstRow(data[s]) /\ r < s

\* ... and the first of them.
Examples ==
    LET offered == UNION {Offered(k) : k \in Repeated}
    IN  {r \in offered : Cardinality({s \in offered : Earlier(s, r)}) < SampleLimit}

\* sorted(set([...]))[:10]
Smallest(rows) == {r \in rows : Cardinality({s \in rows : s < r}) < SampleLimit}

\* One batch of the dataset, once the reference dataset is indexed.
AddBatch ==
    /\ indexed = Len(reference) /\ done < Len(data)
    /\ done' = LastRow(done, Len(data))
    /\ count' = [k \in Keys |-> count[k] + Incoming(k)]
    /\ first' = [k \in Keys |-> FirstRow(k)]
    /\ affected' = [k \in Keys |-> affected[k] + NewlyAffected(k)]
    /\ samples' = Smallest(samples \union Examples)
    /\ unmatched' = Unmatched
    /\ UNCHANGED <<data, reference, indexed, known>>

\* Both datasets are read.
Finished == indexed = Len(reference) /\ done = Len(data) /\ UNCHANGED indexVars

-----------------------------------------------------------------------------
Datasets == UNION {[1..n -> Keys \union {NoKey}] : n \in 0..MaxRows}

\* What _streaming_validate begins with.
Fresh ==
    /\ indexed = 0 /\ done = 0 /\ known = {} /\ samples = {}
    /\ count = [k \in Keys |-> 0] /\ first = [k \in Keys |-> 0]
    /\ affected = [k \in Keys |-> 0] /\ unmatched = [k \in Keys |-> 0]

IndexInit == data \in Datasets /\ reference \in Datasets /\ Fresh

IndexNext == IndexReference \/ AddBatch \/ Finished

IndexSpec == IndexInit /\ [][IndexNext]_indexVars

-----------------------------------------------------------------------------
\* Every variable keeps the type its Python or SQLite counterpart has.
TypeOK ==
    /\ data \in Seq(Keys \union {NoKey}) /\ reference \in Seq(Keys \union {NoKey})
    /\ indexed \in 0..Len(reference) /\ done \in 0..Len(data)
    /\ known \subseteq Keys
    /\ count \in [Keys -> Nat] /\ first \in [Keys -> Nat]
    /\ affected \in [Keys -> Nat] /\ unmatched \in [Keys -> Nat]
    /\ samples \subseteq 1..done

\* The rows read so far under a key: what a validation in memory would look at.
RowsOf(k) == {r \in 1..done : data[r] = k}

\* However the dataset is cut into batches, the rows counted for a key are all the rows
\* read under it, if there are at least two: each is counted once, in the batch in which
\* it turns out to be repeated.
AffectedIsExact ==
    \A k \in Keys : affected[k] = IF Cardinality(RowsOf(k)) > 1 THEN Cardinality(RowsOf(k)) ELSE 0

\* The index knows of each key how often it came and where it came first.
IndexIsExact ==
    \A k \in Keys : /\ count[k] = Cardinality(RowsOf(k))
                    /\ RowsOf(k) # {} => first[k] \in RowsOf(k)
                                         /\ \A r \in RowsOf(k) : first[k] <= r

\* A row is counted as unmatched exactly if the whole reference dataset lacks its key.
UnmatchedIsExact ==
    \A k \in Keys : unmatched[k] =
        IF \E r \in DOMAIN reference : reference[r] = k THEN 0 ELSE Cardinality(RowsOf(k))

\* The rows a uniqueness finding shows are repeated ones, there are some when there is
\* a finding, and no more than the limit.
SamplesAreRepeated ==
    /\ \A r \in samples : \E s \in 1..done : s # r /\ data[s] = data[r] /\ data[r] # NoKey
    /\ (\E k \in Keys : affected[k] > 0) => samples # {}
    /\ Cardinality(samples) <= SampleLimit
=============================================================================
