---------------------------------- MODULE SSTable ----------------------------------
(***************************************************************************)
(* table::SSTable, the layout of a table file.  Put writes a memtable out  *)
(* through SSTableBuilder and WritableFile:                                *)
(*                                                                         *)
(*   data block, data block, ..., filter block, meta index block, index    *)
(*   block, footer, each of them followed by a checksum nobody computes.   *)
(*                                                                         *)
(* Get has SSTableResolver follow the footer, takes all that is in front   *)
(* of the filter block for ONE data block, and walks through it.           *)
(*                                                                         *)
(* A file is a sequence of cells: a number of 32 bits, a number of 64      *)
(* bits, or a character of a text, which is known by what it is a text of  *)
(* and its place in it.  What is read as something it is not is wild.      *)
(***************************************************************************)
EXTENDS Entries, WritableFile

CONSTANTS
  BlockSize,   \* the 4 * 1024 at which Add ends a data block
  MemTables    \* the memtables a table is made of

ASSUME BlockSizeAssumption == BlockSize \in Nat
ASSUME MemTablesAssumption == \A S \in MemTables : S \subseteq Entry /\ IsFiniteSet(S)

\* NULL is no number, and there is one empty text.
ASSUME ReadAssumption ==
  /\ NULL \notin Nat
  /\ \A k, l \in Key : k[1] = 0 /\ l[1] = 0 => k = l

VARIABLES
  pc,        \* "new", "put", "finished", "closed", "seek", "done", "aborted"
  built,     \* the memtable Put is given
  left,      \* what Put's iterator has not come to
  rep,       \* SSTableBuilderRep, with two history fields: see NewRep
  file_size, \* FileMetaData::file_size
  ok,        \* the status Put returns
  key,       \* the argument of Get
  contents,  \* Block::contents_
  offset,    \* BlockIterator::offset_
  out        \* what Get returns; NULL: undefined behaviour

putVars == <<built, left, rep, file_size, ok>>
getVars == <<key, contents, offset, out>>
tableVars == <<pc, putVars, getVars>>

----------------------------------------------------------------------------------
(***************************************************************************)
(* Encodings.                                                              *)
(***************************************************************************)
U32(n) == <<[u32 |-> n]>>
U64(n) == <<[u64 |-> n]>>

Text(of, id, length) == [i \in 1..length |-> [of |-> of, id |-> id, at |-> i]]

KeyText(k) == Text("key", k[2], k[1])

\* A value's place in the order of values, which puts shorter ones first, serves as
\* its length.
ValueText(v) == Text("value", v, v)

EncodeBytes(text) == U32(Len(text)) \o text

Crc32 == Text("crc32", 0, 1)
FilterName == Text("filter", 0, 2)

\* BlockHandler::EncodeTo.
Handle(h) == U64(h.offset) \o U64(h.size)

----------------------------------------------------------------------------------
(***************************************************************************)
(* SSTableBuilder.  Operators give the set of the outcomes of a step.      *)
(***************************************************************************)
\* intact: every Append has fitted the file's buffer, and no write has failed.
\* blocks: the data blocks written, [handle, entries].
NewRep ==
  [file |-> NewFile, offset |-> 0, status |-> TRUE,
   pending_handle |-> [offset |-> 0, size |-> 0], pending_index_entry |-> FALSE,
   last_key |-> <<>>, data_block |-> <<>>, filter_block |-> <<>>, index_block |-> <<>>,
   entries |-> {}, blocks |-> <<>>, intact |-> TRUE]

HandleOf(r, block) == [offset |-> r.offset, size |-> Len(block)]

Appended(r, data) ==
  {[r EXCEPT !.file = a.file,
             !.status = a.ok,
             !.intact = @ /\ a.ok /\ Len(r.file.buf) + Len(data) <= BufferSize] :
     a \in AppendTo(r.file, data)}

Flushed(r) ==
  {[r EXCEPT !.file = f.file, !.status = f.ok, !.intact = @ /\ f.ok] :
     f \in FlushBuffer(r.file)}

\* Mutant: the checksum is not counted.
WriteRawBlockUncounted(r, block) ==
  UNION {IF ~ a.status THEN {a}
         ELSE {IF b.status THEN [b EXCEPT !.offset = @ + Len(block)] ELSE b :
                 b \in Appended(a, Crc32)} :
           a \in Appended(r, block)}

\* writeRawBlock: status is that of its own appends, whatever it was.
WriteRawBlock(r, block) ==
  UNION {IF ~ a.status THEN {a}
         ELSE {IF b.status THEN [b EXCEPT !.offset = @ + Len(block) + Len(Crc32)] ELSE b :
                 b \in Appended(a, Crc32)} :
           a \in Appended(r, block)}

\* flush(): ends the data block.  Once a write has failed it does nothing, and the
\* block grows on.
FlushBlock(r) ==
  IF ~ r.status \/ r.data_block = <<>> THEN {r}
  ELSE LET handle == HandleOf(r, r.data_block)
           begun  == [r EXCEPT !.pending_handle = handle, !.data_block = <<>>,
                               !.entries = {},
                               !.blocks = Append(@, [handle |-> handle,
                                                     entries |-> r.entries])]
       IN  UNION {IF w.status THEN Flushed([w EXCEPT !.pending_index_entry = TRUE]) ELSE {w} :
                    w \in WriteRawBlock(begun, r.data_block)}

\* The index block with the entry that is pending.
IndexBlock(r) ==
  IF r.pending_index_entry THEN r.index_block \o r.last_key \o Handle(r.pending_handle)
  ELSE r.index_block

\* Mutant: the entry of the index gets the key that follows the block.
AddedLate(r, e) ==
  LET named == [r EXCEPT !.last_key = KeyText(e.key)]
  IN  [named EXCEPT
        !.data_block = @ \o EncodeBytes(KeyText(e.key)) \o EncodeBytes(ValueText(e.value)),
        !.entries = @ \union {e},
        !.index_block = IndexBlock(named),
        !.filter_block = @ \o KeyText(e.key)]

\* What Add does before it looks at the size of the block.  pending_index_entry is not
\* reset: from the first data block on, every key gets an entry in the index.
Added(r, e) ==
  [r EXCEPT
    !.data_block = @ \o EncodeBytes(KeyText(e.key)) \o EncodeBytes(ValueText(e.value)),
    !.entries = @ \union {e},
    !.index_block = IndexBlock(r),
    !.filter_block = @ \o KeyText(e.key),
    !.last_key = KeyText(e.key)]

----------------------------------------------------------------------------------
(***************************************************************************)
(* SSTable::Put.                                                           *)
(***************************************************************************)
\* The first key is asked for before the loop: an empty memtable violates an assert.
Put(S) ==
  /\ pc = "new"
  /\ pc' = IF S = {} THEN "aborted" ELSE "put"
  /\ built' = S
  /\ left' = S
  /\ UNCHANGED <<rep, file_size, ok, getVars>>

\* One turn of the loop.
Add ==
  /\ pc = "put"
  /\ left # {}
  /\ LET e == FirstEntry(left)
         r == Added(rep, e)
     IN  /\ rep' \in IF Len(r.data_block) >= BlockSize THEN FlushBlock(r) ELSE {r}
         /\ left' = left \ {e}
  /\ UNCHANGED <<pc, built, file_size, ok, getVars>>

\* SSTableBuilder::Finish: what is left of the data, the filter block, the meta index
\* block, the index block and the footer.  Its status is OK whatever happened.
Finish ==
  /\ pc = "put"
  /\ left = {}
  /\ \E data \in FlushBlock(rep) :
     \E filter \in WriteRawBlock(data, data.filter_block) :
     LET meta_index == FilterName \o Handle(HandleOf(data, data.filter_block)) IN
     \E meta \in WriteRawBlock(filter, meta_index) :
     \E index \in WriteRawBlock(meta, IndexBlock(meta)) :
     LET footer == Handle(HandleOf(filter, meta_index))
                     \o Handle(HandleOf(meta, IndexBlock(meta))) IN
     \E foot \in WriteRawBlock(index, footer) :
       /\ rep' = [foot EXCEPT !.pending_index_entry = FALSE, !.status = TRUE]
       /\ file_size' = foot.offset
  /\ pc' = "finished"
  /\ UNCHANGED <<built, left, ok, getVars>>

\* Sync and Close; the destructor of the file closes it when Sync has failed.
Close ==
  /\ pc = "finished"
  /\ \E s \in Flushed(rep) : \E c \in CloseFile(s.file) :
       /\ rep' = [s EXCEPT !.file = c.file, !.intact = @ /\ c.ok]
       /\ ok' = (s.status /\ c.ok)
  /\ pc' = "closed"
  /\ UNCHANGED <<built, left, file_size, getVars>>

----------------------------------------------------------------------------------
(***************************************************************************)
(* SSTableResolver: what it reads of the file when it is opened again.     *)
(* NULL is a number that cannot be read, or is not one.                    *)
(***************************************************************************)
disk == rep.file.disk

\* AccessFile::Read and DecodeUInt64.
U64At(position) ==
  IF /\ position \in 0..(Len(disk) - 1)
     /\ "u64" \in DOMAIN disk[position + 1]
  THEN disk[position + 1].u64
  ELSE NULL

\* The footer is found from the end of the file.
FooterOffset == Len(disk) - Len(Crc32) - Len(Handle([offset |-> 0, size |-> 0])) * 2

MetaIndexOffset == U64At(FooterOffset)
IndexHandle == [offset |-> U64At(FooterOffset + 2), size |-> U64At(FooterOffset + 3)]

FilterOffset ==
  IF MetaIndexOffset = NULL THEN NULL ELSE U64At(MetaIndexOffset + Len(FilterName))

\* Mutant: the checksum is taken for part of the block.
DataSizeUnchecked == FilterOffset

\* All in front of the filter block's predecessor's checksum.
DataSize == IF FilterOffset = NULL THEN NULL ELSE FilterOffset - Len(Crc32)

----------------------------------------------------------------------------------
(***************************************************************************)
(* SSTable::Get and BlockIterator.                                         *)
(***************************************************************************)
\* A data block that cannot be read is empty, and an empty block looks valid to the
\* iterator: Valid() subtracts the size of a checksum from that of the block.
Get(k) ==
  /\ pc \in {"closed", "done"}
  /\ ok
  /\ key' = k
  /\ offset' = 0
  /\ IF DataSize # NULL /\ DataSize \in Len(Crc32)..Len(disk)
     THEN /\ contents' = SubSeq(disk, 1, DataSize)
          /\ pc' = "seek"
          /\ out' = <<>>
     ELSE /\ contents' = <<>>
          /\ pc' = "done"
          /\ out' = NULL
  /\ UNCHANGED putVars

Valid == offset < Len(contents) - Len(Crc32)

\* getBytesLength: how much the text that begins at a position takes with its length;
\* 0 if there is no such text.
BytesLength(position) ==
  IF /\ position < Len(contents)
     /\ "u32" \in DOMAIN contents[position + 1]
     /\ position + 1 + contents[position + 1].u32 <= Len(contents)
  THEN 1 + contents[position + 1].u32
  ELSE 0

BytesAt(position) == SubSeq(contents, position + 2, position + BytesLength(position))

ValueOffset == offset + BytesLength(offset)

AtKey == BytesLength(offset) # 0 /\ BytesAt(offset) = KeyText(key)

\* Where Next goes; offset itself if there is no entry to go past.
NextOffset ==
  IF BytesLength(offset) # 0 /\ BytesLength(ValueOffset) # 0
  THEN ValueOffset + BytesLength(ValueOffset)
  ELSE offset

\* Mutant: the iterator stays where it is.
SeekNextStuck ==
  /\ pc = "seek"
  /\ Valid
  /\ ~ AtKey
  /\ NextOffset # offset
  /\ UNCHANGED tableVars

\* One turn of Seek's loop.
SeekNext ==
  /\ pc = "seek"
  /\ Valid
  /\ ~ AtKey
  /\ NextOffset # offset
  /\ offset' = NextOffset
  /\ UNCHANGED <<pc, putVars, key, contents, out>>

\* What is no length is taken for one.
SeekWild ==
  /\ pc = "seek"
  /\ Valid
  /\ ~ AtKey
  /\ NextOffset = offset
  /\ pc' = "done"
  /\ out' = NULL
  /\ UNCHANGED <<putVars, key, contents, offset>>

\* Value, at the key or at the end of the block: past the end it is the empty string.
SeekEnds ==
  /\ pc = "seek"
  /\ Valid => AtKey
  /\ out' = IF offset = Len(contents) THEN <<>>
            ELSE IF NextOffset # offset THEN BytesAt(ValueOffset)
            ELSE NULL
  /\ pc' = "done"
  /\ UNCHANGED <<putVars, key, contents, offset>>

----------------------------------------------------------------------------------
Init ==
  /\ pc = "new"
  /\ built = {}
  /\ left = {}
  /\ rep = NewRep
  /\ file_size = 0
  /\ ok = FALSE
  /\ key = NULL
  /\ contents = <<>>
  /\ offset = 0
  /\ out = <<>>

Putting == Add \/ Finish \/ Close
Seeking == SeekNext \/ SeekWild \/ SeekEnds

Next ==
  \/ \E S \in MemTables : Put(S)
  \/ Putting
  \/ \E k \in Key : Get(k)
  \/ Seeking

Spec == Init /\ [][Next]_tableVars

\* Put and Get are loops that wait for nothing.
FairSpec == Spec /\ WF_tableVars(Putting) /\ WF_tableVars(Seeking)

----------------------------------------------------------------------------------
Handles == [offset : Nat, size : Nat]

TypeOK ==
  /\ pc \in {"new", "put", "finished", "closed", "seek", "done", "aborted"}
  /\ built \subseteq Entry /\ left \subseteq built
  /\ rep.file.open \in BOOLEAN /\ Len(rep.file.buf) <= BufferSize
  /\ rep.offset \in Nat
  /\ rep.status \in BOOLEAN /\ rep.intact \in BOOLEAN
  /\ rep.pending_handle \in Handles /\ rep.pending_index_entry \in BOOLEAN
  /\ rep.entries \subseteq Entry
  /\ rep.blocks \in Seq([handle : Handles, entries : SUBSET Entry])
  /\ file_size \in Nat
  /\ ok \in BOOLEAN
  /\ key \in Key \union {NULL}
  /\ offset \in 0..Len(contents)

\* As long as no write has failed and every Append has fitted the buffer, the builder's
\* offset, which goes into all handles and becomes file_size, is the length of the file.
OffsetExact ==
  /\ rep.intact => rep.offset = Len(disk) + Len(rep.file.buf)
  /\ pc \in {"closed", "seek", "done"} /\ rep.intact => ok /\ file_size = Len(disk)

\* Such a table is read as Entries!TableGet says, which is what DB takes a lookup for:
\* the first entry of a key in the first data block, the empty value for a key that a
\* table of one block lacks, and undefined behaviour for all other keys.
ReadsAsTableGet ==
  pc = "done" /\ rep.intact =>
    LET value == TableGet(built, rep.blocks[1].entries, key)
    IN  out = IF value = NULL THEN NULL ELSE ValueText(value)

\* The footer of such a table leads to an index that has an entry for the last key of
\* each of the data blocks, with the place of the block (and many more entries, which
\* name a block their key is not in).
IndexComplete ==
  pc \in {"closed", "seek", "done"} /\ rep.intact =>
    LET index == SubSeq(disk, IndexHandle.offset + 1, IndexHandle.offset + IndexHandle.size)
    IN  \A i \in DOMAIN rep.blocks :
          LET block == rep.blocks[i]
              entry == KeyText(LastEntry(block.entries).key) \o Handle(block.handle)
          IN  \E n \in 0..(Len(index) - Len(entry)) :
                entry = SubSeq(index, n + 1, n + Len(entry))

\* Whatever is in the file, a Put that has begun returns, and so does a Get unless it
\* meets undefined behaviour.
CallsReturn ==
  /\ pc \in {"put", "finished"} ~> pc = "closed"
  /\ pc = "seek" ~> pc = "done"

----------------------------------------------------------------------------------
\* sstable_test.cc, SSTableTest.Simple: after a Put that returned OK, Get finds the
\* value of every key of the memtable.
TableReadable ==
  pc = "done" =>
    LET mine == {e \in built : e.key = key}
    IN  mine # {} => out = ValueText(FirstEntry(mine).value)
==================================================================================
