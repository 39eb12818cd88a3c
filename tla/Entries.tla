--------------------------------- MODULE Entries ---------------------------------
(***************************************************************************)
(* Write batches, memtable entries, and what a lookup finds in a memtable  *)
(* or in a table file.                                                     *)
(*                                                                         *)
(* A key is abstracted to the pair <<length, rank>>: its length, which the *)
(* memtable order compares first, and its place in the bytewise order of   *)
(* keys, which the range of a table file is compared with.  A value is     *)
(* abstracted to its place in the memtable order of values (shorter first, *)
(* then bytewise); 0 is the empty value.                                   *)
(***************************************************************************)
EXTENDS Naturals, Sequences, FiniteSets

CONSTANTS Key, Value, NULL

ASSUME KeyAssumption ==
  /\ Key \subseteq Nat \X Nat
  /\ \A k, l \in Key : k[2] = l[2] => k = l

ASSUME ValueAssumption == Value \subseteq Nat

kTypeDeletion == 0
kTypeValue == 1

EmptyValue == 0

Op == [type : {kTypeDeletion, kTypeValue}, key : Key, value : Value \union {EmptyValue}]

PutOp(k, v) == [type |-> kTypeValue, key |-> k, value |-> v]
DeleteOp(k) == [type |-> kTypeDeletion, key |-> k, value |-> EmptyValue]

Entry == [key : Key, seq : Nat, type : {kTypeDeletion, kTypeValue},
          value : Value \union {EmptyValue}]

\* NULL is no memtable, and no result of a lookup.
ASSUME NullAssumption == NULL \notin Value \union {EmptyValue}

\* WriteBatchInternal::InsertInto: the handler numbers the operations of every
\* batch from 0, whatever sequence number the batch was given.
EntriesOf(batch) ==
  {[key |-> batch[i].key, seq |-> i - 1, type |-> batch[i].type,
    value |-> batch[i].value] : i \in DOMAIN batch}

----------------------------------------------------------------------------------
(***************************************************************************)
(* The order of a memtable: the comparator compares whole encoded entries  *)
(* as bytes, and the encoding is length of the key, key, sequence, type,   *)
(* length of the value, value, every number big-endian.                    *)
(***************************************************************************)
Encoded(e) == <<e.key[1], e.key[2], e.seq, e.type, e.value>>

Before(a, b) ==
  \E i \in 1..5 :
    /\ Encoded(a)[i] < Encoded(b)[i]
    /\ \A j \in 1..(i - 1) : Encoded(a)[j] = Encoded(b)[j]

FirstEntry(S) == CHOOSE e \in S : \A f \in S \ {e} : Before(e, f)
LastEntry(S)  == CHOOSE e \in S : \A f \in S \ {e} : Before(f, e)

\* Mutant: a lookup with the next sequence number.
LookupKeyAtOne(k) == [key |-> k, seq |-> 1, type |-> kTypeValue, value |-> EmptyValue]

\* The key DB::Get looks up: sequence 0, type value, no value.
LookupKey(k) == [key |-> k, seq |-> 0, type |-> kTypeValue, value |-> EmptyValue]

\* MemTable::Get on the entries S: the first entry not before the lookup key,
\* WHATEVER key it has; a deletion counts as not found (NULL).
MemTableGet(S, k) ==
  LET found == {e \in S : ~ Before(e, LookupKey(k))}
  IN  IF found = {} \/ FirstEntry(found).type = kTypeDeletion
      THEN NULL
      ELSE FirstEntry(found).value

\* SSTable::Get on a table file with the entries S, those of its first data block
\* being "first": the first entry of the key, a deletion reading as the empty value,
\* and so does a key that a table of one block lacks.  Past the end of the first
\* block, and in a file that is missing or without contents, the block iterator takes
\* for lengths what is none, and throws or worse (NULL).  SSTable has the bytes.
TableGet(S, first, k) ==
  LET found == {e \in S : e.key = k}
  IN  IF found # {} /\ FirstEntry(found) \in first THEN FirstEntry(found).value
      ELSE IF S # {} /\ first = S THEN EmptyValue
      ELSE NULL

----------------------------------------------------------------------------------
(***************************************************************************)
(* FileMetaData: the number of a table file and the entries it was built   *)
(* from, of which smallest and largest are the first and the last key.     *)
(* "by" is a history field: who built the table, a flush or a recovery.    *)
(***************************************************************************)
FileMetaData == [number : Nat, built : SUBSET Entry, by : {"flush", "recovery"}]

\* Mutant: the bounds of a table are taken for outside of it.
OverlapsInside(meta, k) ==
  /\ FirstEntry(meta.built).key[2] < k[2]
  /\ k[2] < LastEntry(meta.built).key[2]

\* smallest <= k <= largest, compared bytewise.
Overlaps(meta, k) ==
  /\ FirstEntry(meta.built).key[2] <= k[2]
  /\ k[2] <= LastEntry(meta.built).key[2]

\* Version::ForEachOverlapping: the LAST file whose range holds k; FileMetaData's
\* default number 0 when there is none.
FileFor(files, k) ==
  LET hits == {i \in DOMAIN files : Overlaps(files[i], k)}
  IN  IF hits = {} THEN 0
      ELSE files[CHOOSE i \in hits : \A j \in hits : j <= i].number
==================================================================================
