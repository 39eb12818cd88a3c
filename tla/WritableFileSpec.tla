----------------------------- MODULE WritableFileSpec -----------------------------
(***************************************************************************)
(* Clients of one WritableFile.  The bytes they append are numbered, so    *)
(* that a byte lost, doubled or out of place can be told.                  *)
(***************************************************************************)
EXTENDS WritableFile

CONSTANTS
  Sizes,     \* how much a client appends at a time
  MaxBytes   \* bound: how much is appended in all

ASSUME SizesAssumption == Sizes \subseteq Nat \ {0} /\ MaxBytes \in Nat

VARIABLES
  file,
  ok,        \* whether the last call returned OK
  given,     \* history: the number of bytes appended
  pending    \* history: the bytes appended since the last Flush or Close

fileVars == <<file, ok, given, pending>>

Init ==
  /\ file = NewFile
  /\ ok = TRUE
  /\ given = 0
  /\ pending = <<>>

Returns(outcomes) == \E r \in outcomes : file' = r.file /\ ok' = r.ok

AppendBytes(n) ==
  /\ given + n <= MaxBytes
  /\ LET data == [i \in 1..n |-> given + i]
     IN  Returns(AppendTo(file, data)) /\ pending' = pending \o data
  /\ given' = given + n

\* Flush and Sync.
Flush ==
  /\ Returns(FlushBuffer(file))
  /\ pending' = <<>>
  /\ UNCHANGED given

Close ==
  /\ file.open
  /\ Returns(CloseFile(file))
  /\ pending' = <<>>
  /\ UNCHANGED given

Next == (\E n \in Sizes : AppendBytes(n)) \/ Flush \/ Close

Spec == Init /\ [][Next]_fileVars

----------------------------------------------------------------------------------
TypeOK ==
  /\ file \in [buf : Seq(Nat), disk : Seq(Nat), open : BOOLEAN]
  /\ Len(file.buf) <= BufferSize
  /\ ok \in BOOLEAN
  /\ given \in Nat
  /\ pending \in Seq(Nat)

Increasing(s) == \A i, j \in DOMAIN s : i < j => s[i] < s[j]

\* Whatever writes fail, short or whole, no byte is written twice or out of order: a
\* flush that fails gives up the buffer and does not try it again.
InOrder == Increasing(file.disk \o file.buf)

\* A Flush or Close that returns OK has put on the disk all that was appended since
\* the one before, whatever became of that one, if it is no more than the buffer
\* takes.  This is what log::Writer relies on.
FlushedOnDisk ==
  [][pending # <<>> /\ pending' = <<>> /\ ok' /\ Len(pending) <= BufferSize
       => file'.disk = file.disk \o pending]_fileVars
==================================================================================
