---------------------------------- MODULE MCDB ----------------------------------
(***************************************************************************)
(* Values of the constants of DB for TLC.                                  *)
(***************************************************************************)
EXTENDS DBDurability

\* "b" and "c", two keys of one length; "aa" comes before both bytewise and after
\* both in a memtable.
B == <<1, 2>>
C == <<1, 3>>
AA == <<2, 1>>

OneKey == {B}
SameLengthKeys == {B, C}
MixedKeys == {B, C, AA}

OneValue == {1}
TwoValues == {1, 2}

OnePut == {<<PutOp(B, 1)>>}
TwoPuts == {<<PutOp(B, 1)>>, <<PutOp(B, 2)>>}
\* Overwrites, a deletion, batches whose operations get sequence numbers 0 and 1, and
\* a batch without an operation.
ReadBatches ==
  TwoPuts \union {<<PutOp(AA, 1)>>, <<PutOp(C, 2)>>, <<DeleteOp(B)>>,
                  <<DeleteOp(C), PutOp(B, 2)>>, <<>>}
==================================================================================
