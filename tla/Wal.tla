----------------------------------- MODULE Wal -----------------------------------
(***************************************************************************)
(* log::Writer and log::Reader, the format of the write-ahead log and of   *)
(* manifests: records are cut into fragments that do not cross a block,    *)
(* each with a header of a checksum nobody computes, a length and a type.  *)
(*                                                                         *)
(* One writer fills a file, through the buffer of WritableFile; the        *)
(* process ends, perhaps in the middle of a write; a Reader then reads     *)
(* the file to its end.                                                    *)
(*                                                                         *)
(* A byte of the file is <<n>> when the format gives it the value n, and   *)
(* <<record, position>> when it is the client's.  The two bytes of a       *)
(* length are one here.                                                    *)
(***************************************************************************)
EXTENDS WritableFile

CONSTANTS
  kBlockSize, kHeaderSize,
  Lengths,      \* the lengths of the records clients add
  MaxRecords    \* bound: how many they add

\* What AddRecord hands to the file between two flushes fits the buffer: 6 bytes of
\* padding, and a block (32768 in all, where the buffer has 65536).
ASSUME BlockAssumption ==
  /\ kBlockSize \in Nat
  /\ kHeaderSize \in 3..kBlockSize
  /\ BufferSize >= kHeaderSize - 1 + kBlockSize

ASSUME LengthsAssumption == Lengths \subseteq Nat /\ MaxRecords \in Nat

kZeroType == 0
kFullType == 1
kFirstType == 2
kMiddleType == 3
kLastType == 4
kEof == 5
kBadRecord == 6

VARIABLES
  pc,              \* "idle", "emit": AddRecord is running, "read", "done"
  file,            \* the writer's file
  block_offset,    \* block_offset_
  left, begin,     \* the locals of AddRecord
  buffer,          \* buffer_, which is part of backing_store_
  eof,             \* eof_, taken to start as false
  offset,          \* how much of the file the Reader has read
  returned,        \* history: the records ReadRecord has returned
  written,         \* history: [length, fragments] of the records AddRecord was given
  acked            \* history: how many had been added before a write failed

writerVars == <<file, block_offset, left, begin>>
readerVars == <<buffer, eof, offset, returned>>
history == <<written, acked>>
walVars == <<pc, writerVars, readerVars, history>>

Least(a, b) == IF a <= b THEN a ELSE b

----------------------------------------------------------------------------------
(***************************************************************************)
(* The writer.                                                             *)
(***************************************************************************)
Zeros(n) == [i \in 1..n |-> <<kZeroType>>]

\* The header emitPhysicalRecord puts together.
Header(type, length) == Zeros(kHeaderSize - 2) \o <<<<length>>, <<type>>>>

\* The bytes of record i from position a to position b.
Payload(i, a, b) == [k \in 1..(b - a + 1) |-> <<i, a + k - 1>>]

\* Append(header), Append(payload), Flush, until one of them fails.
EmitPhysicalRecord(f, type, payload) ==
  LET Then(rs, Op(_)) == UNION {IF r.ok THEN Op(r.file) ELSE {r} : r \in rs}
  IN  Then(Then(AppendTo(f, Header(type, Len(payload))),
                LAMBDA g : AppendTo(g, payload)),
           FlushBuffer)

FragmentType(first, last) ==
  IF first /\ last THEN kFullType
  ELSE IF first THEN kFirstType
  ELSE IF last THEN kLastType
  ELSE kMiddleType

\* Mutant: a block is never filled up.
NoPadding == <<>>

\* Fewer bytes than a header are left of the block: they are filled with zeros.
Padding ==
  IF kBlockSize - block_offset < kHeaderSize
  THEN Zeros(kBlockSize - block_offset)
  ELSE <<>>

FragmentStart == IF kBlockSize - block_offset < kHeaderSize THEN 0 ELSE block_offset

\* Mutant: the room a header takes is not counted.
FragmentLengthUnheaded == Least(left, kBlockSize - FragmentStart)

FragmentLength == Least(left, kBlockSize - FragmentStart - kHeaderSize)

\* The fragment AddRecord is about to emit.
Fragment ==
  LET total == written[Len(written)].length
      from  == total - left + 1
  IN  Payload(Len(written), from, from + FragmentLength - 1)

EmittedType == FragmentType(begin, left = FragmentLength)

AddRecord(length) ==
  /\ pc = "idle"
  /\ Len(written) < MaxRecords
  /\ pc' = "emit"
  /\ left' = length
  /\ begin' = TRUE
  /\ written' = Append(written, [length |-> length, fragments |-> 0])
  /\ UNCHANGED <<file, block_offset, readerVars, acked>>

\* One turn of the loop in AddRecord.  block_offset_ moves whether or not the write
\* succeeds, and the padding's status is not looked at.
EmitFragment ==
  /\ pc = "emit"
  /\ \E padded \in AppendTo(file, Padding) :
       \E r \in EmitPhysicalRecord(padded.file, EmittedType, Fragment) :
         /\ file' = r.file
         /\ pc' = IF r.ok /\ left > FragmentLength THEN "emit" ELSE "idle"
         /\ acked' = IF r.ok /\ left = FragmentLength /\ acked = Len(written) - 1
                     THEN acked + 1 ELSE acked
  /\ block_offset' = FragmentStart + kHeaderSize + FragmentLength
  /\ left' = left - FragmentLength
  /\ begin' = FALSE
  /\ written' = [written EXCEPT ![Len(written)].fragments = @ + 1]
  /\ UNCHANGED readerVars

\* The process ends.  If it was writing a fragment any part of it may be in the file.
WriterEnds ==
  /\ pc \in {"idle", "emit"}
  /\ \E p \in IF pc = "emit"
              THEN Prefixes(Padding \o Header(EmittedType, FragmentLength) \o Fragment)
              ELSE {<<>>} :
       file' = [file EXCEPT !.buf = <<>>, !.disk = @ \o p]
  /\ pc' = "read"
  /\ UNCHANGED <<block_offset, left, begin, readerVars, history>>

----------------------------------------------------------------------------------
(***************************************************************************)
(* The reader.                                                             *)
(***************************************************************************)
\* Mutant: a short block does not set eof_.
ReadBlockNoEof ==
  /\ pc = "read"
  /\ Len(buffer) < kHeaderSize
  /\ ~ eof
  /\ buffer' = SubSeq(file.disk, offset + 1, Least(offset + kBlockSize, Len(file.disk)))
  /\ offset' = offset + Len(buffer')
  /\ UNCHANGED <<pc, writerVars, eof, returned, history>>

\* Mutant: a whole block is taken to have been read.
ReadBlockPastEnd ==
  /\ pc = "read"
  /\ Len(buffer) < kHeaderSize
  /\ ~ eof
  /\ buffer' = SubSeq(file.disk, offset + 1, Least(offset + kBlockSize, Len(file.disk)))
  /\ offset' = offset + kBlockSize
  /\ eof' = (Len(buffer') < kHeaderSize)
  /\ UNCHANGED <<pc, writerVars, returned, history>>

\* What is left of the buffer is dropped: it is the padding of a block.
ReadBlock ==
  /\ pc = "read"
  /\ Len(buffer) < kHeaderSize
  /\ ~ eof
  /\ buffer' = SubSeq(file.disk, offset + 1, Least(offset + kBlockSize, Len(file.disk)))
  /\ offset' = offset + Len(buffer')
  /\ eof' = (Len(buffer') < kHeaderSize)
  /\ UNCHANGED <<pc, writerVars, returned, history>>

ReadEof ==
  /\ pc = "read"
  /\ Len(buffer) < kHeaderSize
  /\ eof
  /\ buffer' = <<>>
  /\ pc' = "done"
  /\ UNCHANGED <<writerVars, eof, offset, returned, history>>

\* What a byte may read as: a byte of a client's record as anything.
Values(byte, S) == IF Len(byte) = 1 THEN {byte[1]} ELSE S

BufferLengths == Values(buffer[kHeaderSize - 1], 0..kBlockSize)
BufferTypes == Values(buffer[kHeaderSize], 0..(kBadRecord + 1))

\* kBadRecord: a length that goes past the buffer is that of a fragment cut off, and a
\* header of zeros is padding nobody writes.  The buffer is dropped.  (eof_ is only
\* ever set when the buffer is shorter than a header.)
DropBlock ==
  /\ pc = "read"
  /\ Len(buffer) >= kHeaderSize
  /\ \E length \in BufferLengths, type \in BufferTypes :
       \/ kHeaderSize + length > Len(buffer)
       \/ type = kZeroType /\ length = 0
  /\ buffer' = <<>>
  /\ UNCHANGED <<pc, writerVars, eof, offset, returned, history>>

\* Mutant: the first fragment is taken for the record.
ReturnedTypesFirst == {kFullType, kFirstType, kLastType}

\* The types of fragments at whose end ReadRecord returns.  Of a record in several
\* fragments it returns the last one: the others are gathered in scratch, which
\* nobody reads.
ReturnedTypes == {kFullType, kLastType}

TakeFragment ==
  /\ pc = "read"
  /\ Len(buffer) >= kHeaderSize
  /\ \E length \in BufferLengths, type \in BufferTypes :
       /\ kHeaderSize + length <= Len(buffer)
       /\ ~ (type = kZeroType /\ length = 0)
       /\ buffer' = SubSeq(buffer, kHeaderSize + length + 1, Len(buffer))
       /\ returned' = IF type \in ReturnedTypes
                      THEN Append(returned,
                                  SubSeq(buffer, kHeaderSize + 1, kHeaderSize + length))
                      ELSE returned
       /\ pc' = IF type = kEof THEN "done" ELSE "read"
  /\ UNCHANGED <<writerVars, eof, offset, history>>

----------------------------------------------------------------------------------
Init ==
  /\ pc = "idle"
  /\ file = NewFile
  /\ block_offset = 0
  /\ left = 0
  /\ begin = FALSE
  /\ buffer = <<>>
  /\ eof = FALSE
  /\ offset = 0
  /\ returned = <<>>
  /\ written = <<>>
  /\ acked = 0

Writing == (\E length \in Lengths : AddRecord(length)) \/ EmitFragment \/ WriterEnds

Reading == ReadBlock \/ ReadEof \/ DropBlock \/ TakeFragment

Next == Writing \/ Reading

Spec == Init /\ [][Next]_walVars

\* DB::recover and VersionSet::Recover call ReadRecord until it returns false.
FairSpec == Spec /\ WF_walVars(Reading)

----------------------------------------------------------------------------------
Bytes == Seq(Seq(Nat))

TypeOK ==
  /\ pc \in {"idle", "emit", "read", "done"}
  /\ file \in [buf : Bytes, disk : Bytes, open : BOOLEAN]
  /\ block_offset \in 0..kBlockSize
  /\ left \in Nat
  /\ begin \in BOOLEAN
  /\ buffer \in Bytes
  /\ eof \in BOOLEAN
  /\ offset \in 0..Len(file.disk)
  /\ returned \in Seq(Bytes)
  /\ written \in Seq([length : Nat, fragments : Nat])
  /\ acked \in 0..Len(written)

NeverFailed == acked >= Len(written) - (IF pc = "emit" THEN 1 ELSE 0)

\* Between two fragments everything is with the kernel, and as long as no write has
\* failed block_offset_ is where the Reader will find itself in the block.
BlockAligned ==
  pc \in {"idle", "emit"} =>
    /\ file.buf = <<>>
    /\ NeverFailed => block_offset % kBlockSize = Len(file.disk) % kBlockSize

\* What AddRecord acknowledged before the first failed write is read back, in order,
\* and whatever comes after it, torn fragments and shifted blocks included, does not
\* get in between.  Of a record in several fragments it is the last one that comes back.
AckedReadBack ==
  pc = "done" =>
    /\ Len(returned) >= acked
    /\ \A i \in 1..acked :
         LET all == Payload(i, 1, written[i].length)
         IN  IF written[i].fragments = 1 THEN returned[i] = all
             ELSE IsSuffix(returned[i], all)

\* When no write but the last has failed, the torn end of a log does not turn into a
\* record: at most the record that was being written comes back besides the
\* acknowledged ones, and its end with it.
NothingInvented ==
  pc = "done" /\ acked >= Len(written) - 1 =>
    /\ Len(returned) <= Len(written)
    /\ \A i \in DOMAIN returned : IsSuffix(returned[i], Payload(i, 1, written[i].length))

\* Whatever bytes it meets, a Reader comes to the end of the file.
ReaderEnds == pc = "read" ~> pc = "done"
==================================================================================
