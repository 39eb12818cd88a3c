-------------------------------- MODULE MCMemTable --------------------------------
(***************************************************************************)
(* Values of the constants of MemTable for TLC.                            *)
(***************************************************************************)
EXTENDS MemTable

B == <<1, 1>>
AA == <<2, 2>>

TwoKeys == {B, AA}
TwoLengths == {1, 6}

\* A deletion, a Put of the empty value, which is encoded as a lookup of its key is, and
\* a large value for one key; a Put of a longer key.
SomeInserts ==
  {[key |-> B, seq |-> 0, type |-> kTypeDeletion, value |-> EmptyValue],
   [key |-> B, seq |-> 0, type |-> kTypeValue, value |-> EmptyValue],
   [key |-> B, seq |-> 1, type |-> kTypeValue, value |-> 6],
   [key |-> AA, seq |-> 0, type |-> kTypeValue, value |-> 1]}
SomeNodes == SomeInserts \union {LookupKey(k) : k \in TwoKeys}

\* With an overhead of 4, and nodes of 6, 8 and 10.
SomeSizes == {5, 7, 11, 6, 8, 10}

==================================================================================
