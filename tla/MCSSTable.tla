-------------------------------- MODULE MCSSTable --------------------------------
(***************************************************************************)
(* Values of the constants of SSTable for TLC.                             *)
(***************************************************************************)
EXTENDS SSTable

A == <<1, 1>>
B == <<1, 2>>
CC == <<2, 3>>

ThreeKeys == {A, B, CC}
TwoLengths == {1, 2}

\* Puts with values of two lengths, and a deletion, whose entry has no value.
SomeEntries ==
  {[key |-> k, seq |-> 0, type |-> kTypeValue, value |-> 2] : k \in ThreeKeys}
    \union {[key |-> B, seq |-> 0, type |-> kTypeValue, value |-> 1],
            [key |-> B, seq |-> 0, type |-> kTypeDeletion, value |-> EmptyValue]}

SomeMemTables == SUBSET SomeEntries
==================================================================================
