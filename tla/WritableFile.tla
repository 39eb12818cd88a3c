------------------------------- MODULE WritableFile -------------------------------
(***************************************************************************)
(* util::PosixWritableFile: a buffer in front of a file descriptor.  Each  *)
(* operation is given as the set of its outcomes, [file, ok]: the file it  *)
(* leaves and whether it returns OK.                                       *)
(*                                                                         *)
(* A file is [buf, disk, open]: buf_[0 .. pos_), the bytes handed to       *)
(* write(2), and whether fd_ is an open descriptor.  The end of the        *)
(* process takes buf and leaves disk; Sync does no more than Flush.        *)
(***************************************************************************)
EXTENDS Naturals, SequencesExt

CONSTANTS
  BufferSize,    \* kWritableFileBufferSize
  WritesMayFail  \* write(2) may return an error

ASSUME BufferSizeAssumption == BufferSize \in Nat \ {0}
ASSUME WritesMayFailAssumption == WritesMayFail \in BOOLEAN

\* The constructor and Open.
NewFile == [buf |-> <<>>, disk |-> <<>>, open |-> TRUE]

\* writeUnbuffered.  write(2) may take less than it is given, so an error leaves any
\* proper prefix written; EINTR is retried.  Without a descriptor nothing is written.
WriteUnbuffered(f, data) ==
  {[file |-> [f EXCEPT !.disk = @ \o p], ok |-> p = data] :
     p \in {q \in Prefixes(data) :
              \/ q = data /\ (f.open \/ data = <<>>)
              \/ q # data /\ (IF f.open THEN WritesMayFail ELSE q = <<>>)}}

\* Mutant: pos_ is not reset.
FlushBufferKept(f) == WriteUnbuffered(f, f.buf)

\* flushBuffer: pos_ is reset whether or not the bytes were written.
FlushBuffer(f) ==
  {[file |-> [r.file EXCEPT !.buf = <<>>], ok |-> r.ok] : r \in WriteUnbuffered(f, f.buf)}

\* Mutant: the size of what is copied to buf_ is not bounded.
AppendUnbounded(f, data) == {[file |-> [f EXCEPT !.buf = @ \o data], ok |-> TRUE]}

\* Append.  When the data does not fit it fills the buffer and flushes it; if that
\* SUCCEEDS it returns, and the rest of the data is dropped.
AppendTo(f, data) ==
  LET room   == BufferSize - Len(f.buf)
      fits   == IF Len(data) <= room THEN Len(data) ELSE room
      filled == [f EXCEPT !.buf = @ \o SubSeq(data, 1, fits)]
      rest   == SubSeq(data, fits + 1, Len(data))
      AfterFlush(r) ==
        IF r.ok THEN {r}
        ELSE IF Len(rest) < BufferSize
             THEN {[file |-> [r.file EXCEPT !.buf = rest], ok |-> TRUE]}
             ELSE WriteUnbuffered(r.file, rest)
  IN  IF rest = <<>>
      THEN {[file |-> filled, ok |-> TRUE]}
      ELSE UNION {AfterFlush(r) : r \in FlushBuffer(filled)}

\* Mutant: the buffer is not flushed.
CloseUnflushed(f) == {[file |-> [f EXCEPT !.buf = <<>>, !.open = FALSE], ok |-> TRUE]}

\* Close, which the destructor calls when nobody else did.  close(2) fails without a
\* descriptor, and may fail with one.
CloseFile(f) ==
  {[file |-> [r.file EXCEPT !.open = FALSE], ok |-> r.ok /\ closed] :
     r \in FlushBuffer(f), closed \in IF f.open /\ WritesMayFail THEN BOOLEAN ELSE {f.open}}
==================================================================================
