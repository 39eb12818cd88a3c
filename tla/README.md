# A TLA+ model of amkv

amkv is a key-value store of the LevelDB family in C++. Writes go to a log and
to a memtable, a full memtable is flushed to a table file, and a manifest says
which tables make up the database. This directory holds TLA+ modules that model
the store, TLC configurations that check them on small instances, and proofs
for TLAPS. Paths below are under `src/amkv/`.

- [The system](#the-system): the parts, what each keeps and does, what is hard
- [The modules](#the-modules): which models which part, and how
- [The runs](#the-runs): what is checked, the bounds, the fairness
- [The proofs](#the-proofs)
- [What the model found](#what-the-model-found)
- [What is not modelled](#what-is-not-modelled)
- [The plan](#the-plan)

## The system

The store is single-threaded: every call runs on the thread of its caller, and
a flush runs inside the `Write` that finds the memtable full (`db.cc:169`
says it "should be placed on background task"). What makes it hard is the end
of the process. Between any two effects of a call on the disk the process may
crash, violate an assert, throw, or be closed (`DB::~DB` writes nothing), and
the next `DB::Open` has to make sense of what it finds.

| part | state | operations | talks to |
|---|---|---|---|
| `DB` (`db/db.cc`) | `mem_`, `imm_`, the log in use, `logfile_number_` | `Open` (`NewDB`, `recover`), `Put`, `Delete`, `Write`, `Get`, `makeRoomForWrite`, `removeObsoleteFiles` | everything below, by calls |
| `VersionSet` (`lsm/version_set.cc`) | counters of file numbers, `current_`, the open manifest | `Recover`, `LogAndApply`, `NewFileNumber`, `MarkFileNumberUsed` | manifests through `log::Writer`/`Reader`, `CURRENT` through `SetCurrentFile` |
| `Version`, `VersionEdit`, `Builder` | the list of tables; a change to it | `ForEachOverlapping`, `Apply`, `SaveTo` | `VersionSet`, `DB::Get` |
| `WriteBatch` and its handler | a sequence of puts and deletions, as bytes | `Iterate`, `InsertInto` | the log (as its contents), `MemTable` |
| `MemTable`, `SkipList` | entries in the order of their encodings | `Add`, `Get`, an iterator | `DB`, `SSTable::Put` |
| `SSTable`, its builder, resolver and blocks | a table file | `Put`, `Get` | `MinorCompaction`, `DB::Get` |
| `log::Writer`, `log::Reader` | position in a block; a block read | `AddRecord`, `ReadRecord` | `WritableFile`, `SequentialFile` |
| `WritableFile` (`util/writable_file.cc`) | a buffer and a descriptor | `Append`, `Flush`, `Sync`, `Close` | the kernel |
| `Arena` | blocks of memory | `AllocateAligned`, `Usage` | `MemTable`, `SkipList` |
| `SetCurrentFile`, `Env`, `util::File*` | the directory, `CURRENT` and its temporary file | set and read `CURRENT`; create, unlink, rename, list | `WritableFile`, the kernel |

**State on the disk.** `NNNNNN.log` (batches), `NNNNNN.ldb` (tables),
`MANIFEST-NNNNNN` (version edits), `CURRENT` (the name of a manifest). The
parts interact through these files across sessions, and by plain calls within
one.

**What is hard**, and what makes each part correct:

- *`DB` and `VersionSet` together.* A flush writes a table, then a record in
  the manifest, then renames `CURRENT`, then unlinks logs and old manifests; an
  open does the same after replaying the logs. Wherever that is cut short,
  `CURRENT` must name a usable manifest, no file whose contents count may be
  truncated by one of the same name, and acknowledged writes must be in a log
  that is replayed or in a table of the version. File numbers come from a
  counter that is partly persisted, so numbers may be reused by mistake; the
  table of a recovery has a number of another origin, and does meet others.
- *`DB` with failing I/O.* A flush that fails must not lose `imm_`; a failed
  `LogAndApply` must not make the caller remove logs.
- *Reads.* `mem_`, `imm_` and tables are searched by three different rules.
  Moving entries from one place to the next should not change what is found.
- *The log.* Records are cut at block boundaries; the process may end in the
  middle of a fragment. Reading must give back what was acknowledged, make no
  record of a torn tail, and come to an end.
- *`WritableFile`.* Short writes and errors must not write bytes twice or out
  of order.
- *Table files.* The builder's offsets go into handles and into the version; the
  resolver finds everything from the end of the file and treats the data as one
  block. Offsets must be exact although blocks pass through a buffer and writes
  fail, and the index must name every block.
- *`MemTable`.* Searches come down from level to level and trust the links; an
  iterator stays at its node while others are inserted; nodes and entries share
  the blocks of an arena.
- *`CURRENT`.* Setting it takes several system calls of which any may fail or be the
  last; afterwards it must be the old one or the new one, whole.
- *Progress.* `makeRoomForWrite` waits in a loop on the only thread there is.

`PROJECT.json` lists these hazards line by line with the properties that cover
them, or with the reason that none does.

## The modules

```
the store        Files, Entries <- VersionSet <- DB <- DBProperties <- DBDurability <- MCDB
                 DBDurability -- refines -> Durability
tables           Entries, WritableFile <- SSTable <- MCSSTable
memory           Arena, SkipList, Entries <- MemTable <- MCMemTable
                 MemTable -- refines -> OrderedSet
files            WritableFile <- WritableFileSpec
                 WritableFile <- Wal
                 WritableFile <- CurrentFile <- MCCurrentFile
                 CurrentFile -- refines -> Register
proofs           Entries <- EntriesLemmas
                 DBProperties, DBDurability, EntriesLemmas <- DBProofs
                 MemTable <- MemTableProofs
                 WritableFile <- WritableFileLemmas
                 WritableFileSpec, WritableFileLemmas <- WritableFileProofs
                 CurrentFile, WritableFileLemmas <- CurrentFileProofs
                 Wal, WritableFileLemmas <- WalProofs
                 SSTable, EntriesLemmas, WritableFileLemmas <- SSTableProofs
```

`A <- B` says that `B` extends `A`; `-- refines ->` is an `INSTANCE` with a
refinement mapping.

`DB` is the whole store, one level above the formats of its files and of its
memory. The modules of tables, memory and files take these formats apart, and each
of them
states, as a property of a run, what `DB` takes for granted of it:

| `DB` takes | for | shown by |
|---|---|---|
| a memtable | the set of its entries, a lookup for `MemTableGet` | `MemTable!OrderedSetSpec`, `GetsAsMemTableGet` |
| a table | the entries of its first data block and of the others, a lookup for `TableGet` | `SSTable!ReadsAsTableGet` |
| a log | a sequence of batches without torn tails | `Wal!AckedReadBack`, `NothingInvented` |
| `CURRENT` | a variable that one step sets | `CurrentFile!RegisterSpec`, `RecoverOpens` |

**`Files`.** A directory of numbered files is a function from the numbers of
the files that exist to their contents. `NewWritableFile` truncates, as
`open(O_TRUNC | O_CREAT)` does; `DeleteFile` unlinks. What was handed to
`write(2)` survives the process; the loss of the machine is not modelled, as
nothing in the code calls the one function that has `fdatasync` in it (`Sync` is a flush of the
buffer).

**`Entries`.** Keys, batches, memtable entries and what a lookup finds. A key is
the pair *(length, rank in the bytewise order)*, because the memtable compares
the length first and the range of a table is compared bytewise
(`version.cc:33`): whether the two orders agree is exactly what some properties
depend on. Entries compare by their whole encoding. `EntriesOf` numbers the
operations of every batch from 0, as `write_batch_handler.cc` does.
`MemTableGet`, `TableGet`, `FileFor` are the three lookups. `TableGet` is told
which entries are in the first data block of the table, as these are all that
can be found.

**`VersionSet`.** `LogAndApply` is one action per effect on the disk
(`CreateDescriptor`, `WriteSnapshot`, `AppendEdit`, `InstallCurrent`), with the
variable `vpc` for the place it has reached, and `ApplyFails` for an error at
any of them: the manifest is deleted, even when `CURRENT` names it, and the
status returned is that of the deletion. A manifest is abstracted to what
`Recover` has gathered when it gets to its end: whether the counters were there,
their last values, and the files added. `Builder::SaveTo` is translated with its
order: `BySmallestKey` answers "less" for every pair, so files come out in
reverse.

**`DB`.** `pc` is the next effect of the call in progress. The steps between two
effects are one action; setting `CURRENT` is one step because `CurrentFile` shows
that it may be taken for one. Open: `OpenDB`, `NewDB*`, `RecoverVersions`,
`Replay`, `RecoveryTable*`, `OpenLog`, then `Apply*` and `RemoveObsolete*`.
Write: `Write`, `RoomLeft`/`AwaitFlush`/`SwitchMemTable`, `Flush*`, again
`Apply*` and `RemoveObsolete*`, then `AppendToLog` and `InsertInto`. `Crash` may
come at any time and stands for `Close` too, as the destructor writes nothing.
`*Aborts` and `GetThrows` are the asserts and exceptions that end the process.
`imm_` being non-null is how `Apply` tells a flush from an Open. `Get` changes
nothing and is the operator `GetResult`, which properties use; it is an action
only where it throws.

A table is recorded by its entries and those of its first data block, which
`BlockEntries` ends after so many entries. Faults are switched on by kind.
`IoErrors` has `"table"` (`Sync` or `Close` of a table fails, which `Put`
reports), `"block"` (the write of a block fails, which `SSTableBuilder::Finish` forgets: the
flush goes on with a table that has lost its contents), `"wal"` (the write of a log record fails), `"manifest"` (a write
to a manifest or to `CURRENT` fails). `Indeterminate` has `"eof_"` and
`"descriptor_file_"`, the members that no constructor initialises: what they
happen to hold is a nondeterministic choice.

**`Durability`** is the abstract specification: what `DB` promises about entries
when no write fails. Its state is which entries are in logs, in tables of the
version, and visible to the process; it says when a write is logged, when a log
may go, and, frankly, when the code loses writes: after the first flush of a
session nothing is `attached` any more, and a recovery may clobber a table
(`Clobber`). `DBDurability` gives the refinement mapping, checks that `DB`
implements it, and says more of what can be clobbered than the abstract
specification does (`TablesStay`): what is lost was in the table whose name the
recovery takes (`db.cc:260`), and while there are at most four logs that is no
table of a flush.

**`WritableFile`** gives `Append`, `Flush` and `Close` as operators from a file to
the set of their outcomes: short and failed writes, a failed `close(2)`.
**`WritableFileSpec`** is a client of one file. **`Wal`** composes the writer of
the log on top of `WritableFile` with a crash and a reader. Its payload bytes are
pairs *(record, position)*, so that lost, doubled and misplaced bytes can be
told; a reader that takes a payload byte for a header (possible once blocks have
shifted after a failed write) reads an arbitrary value. Two simplifications: the
two bytes of a length are one byte of any value, and `Read` does not fail.

The agreement of `Wal` with `DB` has two limits, which `Wal` shows and `DB` does
not model: a batch of more than one block comes back as its last fragment, and
after a *failed* append, later records may be unreadable once they cross a
block. The batches of `DB` are small ones.

**`SSTable`** is one table: `Put` of a memtable through `SSTableBuilder`, its
blocks and a `WritableFile`, and then any number of `Get`s through
`SSTableResolver` and `BlockIterator`. A file is a sequence of cells, numbers of
their width or characters of a text, so that an offset that is off by one cell
reads something else than what it should; a text taken for a number is `NULL`,
undefined behaviour. The builder is a record `rep`, as `SSTableBuilderRep` is;
one turn of `Put`'s loop is `Add`, one of `Seek`'s is `SeekNext`. History fields
remember the blocks written and whether everything has fitted the buffer
(`intact`): `WritableFile::Append` drops what does not fit after a flush, and the
filter and index blocks are written without a flush between them, so the end of
a large table may be missing. The other agreement `DB` relies on,
`ReadsAsTableGet`, is for tables that are intact.

**`Arena`** cuts pieces from blocks. An address is a block and an offset.
**`SkipList`** has the towers of links and the searches of `Insert`, `Contains` and
the iterator, one turn of a loop per step; what `randomHeight` returns is any
height. **`OrderedSet`** is what a skip list with one iterator promises, a set and
a cursor. **`MemTable`** puts both together: `Add` allocates the entry, searches,
and allocates the node; `Get` seeks and does not look at the key it has found;
the iterator is used in between in every way that its interface has. A value's
place in the order of values serves as its length.

**`CurrentFile`** is `SetCurrentFile` with `Env::WriteStringToFileSync`, one action
per call on the temporary file, and `Env::ReadStringFromFileSync`, one per
`read(2)`; every call may fail and the process may end between any two. A path
is a sequence of words and slashes, as `SetCurrentFile` cuts it at its first
slash. **`Register`** is what it promises: a value that is set at once by the calls
that return OK, and by no others.

## The runs

| run | module | checks | shows |
|---|---|---|---|
| `numbers` | `MCDB` | `TypeOK`, `CurrentUsable`, `FreshFiles`, `NumbersInv`, `ReachableGrows` | With failing log and table writes, uninitialised members and crashes anywhere, the manifest `CURRENT` names stays usable, `LogAndApply`, `OpenLog` and a flush truncate no file that counts, and no entry drops out of the reach of the running process. |
| `manifest_faults` | `MCDB` | `LogsOutlived` | With failing writes to manifests and to blocks of tables, a log is removed only if the manifest that `CURRENT` names, when it can be recovered at all, calls it obsolete. |
| `durability` | `MCDB` | `Durable`, `DurabilitySpec`, `Kept`, `TablesStay` | With crashes and no write error `DB` implements `Durability`, up to a sixth open; acknowledged writes are on the disk until the first flush; an open database and its end take nothing out of tables, and an Open finds what the logs and the tables hold; a table of the version is lost only to a recovery that takes its name. |
| `reads` | `MCDB` | `FirstPutReadable`, `FlushTransparent`, `CallReturns` | The only entry of a key in `mem_` is what `Get` finds; a flush does not change what `Get` finds; every call comes back. |
| `writable_file` | `WritableFileSpec` | `TypeOK`, `InOrder`, `FlushedOnDisk` | Whatever writes fail, no byte is written twice or out of order; a flush that returns OK has written everything since the one before. |
| `wal` | `Wal` | `TypeOK`, `BlockAligned`, `AckedReadBack`, `NothingInvented`, `ReaderEnds` | Acknowledged records are read back, torn ones are not, and the reader ends. |
| `memtable` | `MCMemTable` | `TypeOK`, `PiecesSound`, `UsageCovers`, `LevelsSorted`, `GetsAsMemTableGet`, `OrderedSetSpec`, `SearchEnds` | No memory is handed out twice and `Usage` covers what is; the links are those of a skip list whenever no call is under way and while one is; the list is an ordered set, its iterator a cursor that later inserts do not disturb; every search ends. |
| `table` | `MCSSTable` | `TypeOK`, `OffsetExact`, `ReadsAsTableGet`, `IndexComplete`, `CallsReturn` | If every write succeeds and fits, all handles are right, a lookup finds what `DB` takes it for and the index names every block; whatever fails, `Put` returns and so does `Get`, unless its behaviour is undefined. |
| `current_file` | `MCCurrentFile` | `TypeOK`, `RecoverOpens`, `TmpsOfCrashes`, `RegisterSpec`, `CallsReturn` | `CURRENT` is set at once and by successful calls only; `Recover` opens the manifest that was set last, if the name of the database has no slash, and only then; temporary files are left behind by the end of the process only. |
| `read_your_write`, `asserts_hold` | `MCDB` | one each | Violated; see [below](#what-the-model-found). |
| `table_readable` | `MCSSTable` | `TableReadable` | Violated; see below. |

Deadlock is checked in `writable_file`, and in `current_file`, where a crash is
always possible and it says little. The others may stop: `MCDB` and `MCMemTable`
when the bounds are used up or an assert has failed, `Wal` when the reader is
done, `SSTable` when `Put` has failed. `CallReturns`, `ReaderEnds`, `SearchEnds` and
`CallsReturn` say what deadlock freedom would: what has begun goes on.

**Bounds.** `MaxOpens` and `MaxWrites` bound the calls, `MemLimit` the entries
that fit a memtable. They are guards of `OpenDB` and `Write` only; the steps of
a call that has begun are never cut off.

- *`MemLimit = 0`* in `numbers`, `manifest_faults` and `durability` makes every
  second write flush, so three writes give two flushes in one session; `MemLimit = 1` in
  `reads` leaves room for two entries of a key in one memtable.
- *`MaxOpens = 3`* lets an open that was cut short be followed by one that is
  itself cut short and one that runs through. *`MaxOpens = 6`* in `durability`
  is as many as it takes for the worst a recovery can do: the number it gives
  to its table, `logs.size() - 1`, grows with every Open that does not get to
  `removeObsoleteFiles`, and may be that of the first flush's table, number 4, when there
  are five logs. Without the condition on the number of logs TLC finds `TablesStay`
  violated in this run: a committed entry is overwritten. Three writes leave room for a
  flush before that and a write after it.
- *Keys and values.* What is on the disk does not depend on which key an entry
  has, so one key and two values are enough for all runs but `reads`, which has
  two keys of one length and one of another that sorts between them differently
  bytewise and in a memtable.
- *The log.* Blocks of 8 bytes and headers of 3, a buffer of 12, records of 0, 2
  and 7 bytes. With these a record fits a block exactly, leaves less room than a header,
  leaves exactly a header, or takes up to three fragments; the buffer holds what
  is given to it between two flushes, as 65536 bytes do for blocks of 32768
  (`BlockAssumption`).
- *`WritableFile`.* A buffer of 3 and appends of 1, 2, 4 and 7: within it, past
  its end, and more than twice as much.
- *Tables.* All memtables of up to five entries with keys and values of two
  lengths and a deletion, blocks that end at 6 cells and a buffer of 24: tables
  have one to five data blocks, end within a block or exactly at its end, and
  the larger ones do not fit the buffer.
- *Memtables.* Up to three entries of four (a `Put` of the empty value, which is
  encoded as a lookup of its key is, a deletion, a large value, a longer key), in any
  order, with towers of up to three levels: the levels above the old height, in
  the middle and at the ends of the list are all linked. The arena's blocks have
  40 bytes, aligned to 2, so that pieces share a block, leave a rest that is
  given up, or get a block of their own.
- *`CURRENT`.* Two numbers, so that a file of an earlier attempt may be there, a
  buffer that takes the longest name, and names of databases without a slash
  (as in the tests), with one in front and one in between.

**Fairness.** `DB!FairSpec` has weak fairness of `CallStep`, the steps of a call
in progress: the operating system runs the process as long as it lives. Nobody
has to open the database, to write, or to crash. `Wal!FairSpec` has weak
fairness of `Reading`: `recover` and `Recover` call `ReadRecord` in a loop until
it returns false, and nothing in that loop waits. The same holds of the loops of
`SSTable::Put` and `Get` (`Putting`, `Seeking`), of the searches of a skip list
(`Search` and `AddEnds`), of `SetCurrentFile` (`Setting`), and of the loop that
reads `CURRENT`, for which fairness is only of reads that succeed (`ReadChunk`): a
failing read ends the loop, so it is not needed. No strong fairness is assumed.

**Mutants.** Definitions marked "Mutant" are the code with a plausible bug (a
dropped guard, an inclusive bound, a missing reset). Each property of a passing
run is violated when one of them takes the place of the definition it mutates.

## The proofs

TLC looks at three to six opens of a small database, at a log of a few blocks,
at a memtable of three entries. The proofs hold for every value of the constants
and any number of calls. TLC checked the inductive invariants on the instance of
a run before they were proved, except those that say that some text or chain
exists (`ReadBackInv`, `LayoutInv`, `SeekInv`), which it cannot enumerate.

### The store

- **`DBProofs!TypeCorrect`**: `Spec => []TypeOK`. `TypeOK` is not inductive: that
  `InsertInto` yields a memtable needs that there is one when `pc = "insert"`.
  The invariant is `TypeInv == TypeOK /\ PhaseOK`, where `PhaseOK` says which of
  `mem_`, `imm_`, `rec` and the batch is in place in which phase.
- **`DBProofs!LogsAreOutlived`**: `Spec => LogsOutlived`, whatever fails.
  `removeObsoleteFiles` goes by `log_number_`, a copy in memory; `LogInv` says
  that this is never ahead of the manifest that `CURRENT` names if that can be
  recovered, and that no manifest or edit calls a log obsolete that is still to come.
- **`DBProofs!AcknowledgedIsOnDisk`**: `Spec => []Durable`, provided that
  `"wal" \notin IoErrors`. With failing log writes it is false, as `Write`
  acknowledges what it could not log. All other faults are allowed,
  which the run does not have. Two chains of custody make up the invariant:
  `MemLogged`, what is in `mem_` or `imm_` is in the log in use as long as that has
  a name, and `RecordInv`, the tables of the version are in the manifest that the
  next `Recover` reads.
- **`DBProofs!FirstPutAlwaysReadable`**: `Spec => []FirstPutReadable`. It needs only
  `TypeInv` of the state; the rest is about the order of encoded entries: no
  entry of another key lies between a lookup key and the first entry of its key.
- **`DBProofs!NumbersSound`, `CurrentAlwaysUsable`, `FilesAlwaysFresh`**:
  provided that `"manifest" \notin IoErrors`, `Spec` implies that `NumbersInv`,
  `CurrentUsable` and `FreshFiles` always hold. With failing manifest writes
  they do not: the code deletes a manifest that `CURRENT` names
  (`version_set.cc:79`). The argument is about numbers: the invariant says, phase
  by phase, that the numbers of the manifest, of the logs that were marked and
  of the tables are below `next_file_number`, and that a sound manifest records
  a next number above all the tables it lists and above its own. The delicate
  steps are `Recover`, which makes the recorded number the new manifest's;
  `Replay`, which marks the logs so that the new one does not meet an old one;
  and the change of `CURRENT`, where the manifest written meanwhile must already
  be sound. `Inv == TypeInv /\ NumbersInv` is what is inductive. `FreshFiles` is about
  every file that is opened for writing. The table of a recovery is the one that
  may be a table of the version, and is truncated then; that it is not a flush's while there
  are at most four logs needs `FlushNumbers`: in no manifest, version or edit does a
  flush have a number below 4, that of the first flush of all.
- **`DBProofs!ReachNeverShrinks`, `FlushIsTransparent`**: `Spec` implies
  `ReachableGrows` and `FlushTransparent`, provided that neither `"manifest"` nor
  `"block"` is in `IoErrors`. Without the first a flush may truncate a table that is
  in use, without the second it may install a table without contents. `ReachInv`
  follows `imm_` through the flush: the table is complete before `LogAndApply` is
  called, is the one table of its edit, and becomes the last of the version, which is
  the one that `ForEachOverlapping` settles on.
- **`DBProofs!AcknowledgedIsDurable`, `DurabilityKeeps`**: `DurabilitySpec` implies
  `[]Durable` and `Kept`: whatever takes the steps of the abstract specification has
  the properties it is there for, for every set of entries and sessions of any
  length. `Durable` is inductive there since nothing is attached that is not
  open: a recovery may only drop entries while no session relies on them.
- **`DBProofs!DBImplementsDurability`, `OpenDatabaseKeeps`**: `Spec` implies
  `DurabilitySpec`, and with it `Kept`, for batches, memtables and blocks of any size and
  any number of opens, writes, flushes and crashes, under one hypothesis besides
  `NullIsNoMemTable` (below). `NoFaults`: no write to a log, to a manifest or of a
  block of a table fails, and no Reader begins with a true `eof_`; creating or finishing
  a table may fail.
- **`DBProofs!OnlyRecoveryClobbers`**: `Spec => TablesStay` under the same hypothesis. What
  the theorems before leave open is how much a `Clobber` may take. `TablesGrow` says
  that a step which takes no table from the manifest and nothing out of a table keeps
  all; every step but one is of this kind (`StepKeeps`), since `LogAndApply` only adds
  tables (`AppliesFiles`) and a flush writes to a new one. The one is the
  `NewWritableFile` of the recovery's table (`ClobberKeeps`), where `FlushNumbers` sets the
  limit: without it a flush is not safe, and with five logs it is not.

  Step simulation, with one lemma per group of steps (`EndsMaps`, `OpeningMaps`, ...):

  | `DB` | `Durability` |
  |---|---|
  | `AppendToLog` | `Log` |
  | `InsertInto` | `Acknowledge` |
  | `AppendEdit`, when it appends the edit of a flush | `Commit` |
  | `RemoveObsoleteLog` | `TrimLogs` |
  | `RecoveryTableCreate` | `Clobber` |
  | `RecoveryTableWrite`, or the change of `CURRENT` in Open | `Rescue`, or a stutter |
  | `Applied`, when Open applied the edit | `Open` |
  | the end of the process, from an open database | `End` |
  | every other step | a stutter |

  The invariant is `RefInv`: `Inv`, `LogInv`, `ReachInv` and `MemLogged` of the theorems
  above, and `CustodyInv`, which says who has what between two steps that
  count. `AllOccur`: memory and tables hold nothing but entries of batches.
  `Listed`: the version in memory is what the manifest lists, but for the edit that is
  being applied. `Applier`: an edit under way is the flush's or the recovery's as
  `imm_` tells. `Rescued`, `LogsReached` and `LogInUse`: what the logs hold is in the
  table of the recovery once that is written, is in what an open database reaches, and the log
  in use is the one whose entries are replayed next. TLC checked each of them on the
  instance of `durability`, in which batches, crashes and failing tables interleave.

`FirstPutAlwaysReadable`, `ReachNeverShrinks`, `DBImplementsDurability` with what follows
from it, and `OnlyRecoveryClobbers` assume `NullIsNoMemTable`: `NULL`, which stands for a null pointer, is not also a set of entries. It is a hypothesis
of these theorems and not an `ASSUME` of a module, because TLC refuses to look for
a model value in a set of sets; for the model value that the runs use it is true.

### Memory

- **`MemTableProofs!ArenaSound`**: `ArenaSpec => []PiecesSound`, for any size of
  blocks and pieces, any alignment, and any number of allocations.
  `PiecesSound` alone is not inductive: a piece cut from the block in use must
  not meet one that was cut from it earlier. `ArenaInv` adds that the pieces of
  the block in use end at or before `alloc_ptr`, and that `alloc_ptr` and what
  remains do not exceed the block. The lemma `NewPiece` says once what is to be
  shown of each of the three outcomes of an allocation; `NextMultiple` is the
  arithmetic of the slop. **`MemorySound`** carries it over to a memtable, of which
  every step is one step of the arena or none (`StepAllocates`).
- **`MemTableProofs!ArenaUsageCovers`, `MemoryCovered`**: `memory_usage` is never less
  than the number of the bytes that the pieces take. These are a set (`Taken`), so that
  no induction over the pieces is needed. `UsageInv` says that
  these bytes and what is left of the block in use are no more than `memory_usage`.
- **`MemTableProofs!LinksAlwaysSorted`, `MemTableSorted`**: the links are right at every
  level and every moment, for keys of any total order and towers of any height.
  What `Insert` links depends on where its search has been, so `SkipInv` says of
  a search under way that it is at a node of its level that is before the
  key, and that every level it has left was left at the place of the key
  (`SearchSound`); `PredecessorsPlaced` and `LinkedRight` then show that the new tower
  splits one link of each of its levels.
- **`MemTableProofs!ListIsOrderedSet`**: `Spec => OrderedSetSpec`, the refinement that
  the run `memtable` checks, by step simulation (`StepMaps`): the first turns of a
  search stutter, the last one is the abstract operation. `SeekFinds` and `BackFinds`
  say where a search ends.
- **`MemTableProofs!GetIsMemTableGet`**: what `MemTable::Get` finds is what the
  operator says by which `DB` looks keys up. `LookInv` remembers that the search under
  way, and afterwards the iterator, is `Get`'s.

### Files

- **`WritableFileLemmas`** says of each operation of a `WritableFile` what it may
  leave in the buffer and on the disk (`FlushOutcome`, `CloseOutcome`, `AppendFits`,
  `AppendOverflows`), for bytes of any kind. The proofs below cite it and never
  look into the operators.
- **`WritableFileProofs!FileTypes`, `BytesInOrder`, `FlushIsWhole`**: for a buffer of
  any size. `InOrder` looks at the disk only; inductive is the order of disk
  and buffer together, and that the buffer still has all that is pending if
  it can have it (`PendingKept`).
- **`WalProofs`** is about blocks and headers of any size, records of any length and
  number. **`WalTypes`** and **`WriterIsAligned`** have the invariant `WriterInv`: in the
  middle of a record the room left in a block, what has been cut and what is left of it
  agree, and until the first failure `block_offset_` is the file's place in its block.
  **`AcknowledgedIsReadBack`** and **`TornIsNotRead`** say that `AckedReadBack` and
  `NothingInvented` always hold. Their invariant, `ReadBackInv`, says that there *is* a
  chain of fragments in the file, from its beginning to a position `G`: each lies
  within a block, has the right header, and leads to the next or to `G`, where exactly
  the acknowledged records are complete (`Chain`). Writing makes the chain longer or
  leaves behind it what fails. The Reader is at a place of the chain, having
  returned the records before it, or has been past its end (`ReaderAt`): since blocks of the Reader end where
  the blocks of the Writer did, its buffer is always the rest of one
  (`BufferIsRest`), and a fragment of the chain is never cut by it. If only one record is
  missing, what is behind `G` is part of one fragment of that record (`Torn`), so that the
  Reader meets a header cut off, a payload cut off, or the end of the record. The arithmetic of positions in
  blocks is in a few lemmas (`PlaceWithin`, `PlaceNext`, `AfterBound`, `RestPlace`).
- **`SSTableProofs`** is about tables of any number of entries, of keys and values of
  any length, blocks and buffers of any size. All of it looks at the file as
  what the builder has appended, whether it is on the disk or still in the buffer
  (`Content`), and argues until the first write that fails or loses data.
  **`TableTypes`** and **`OffsetIsExact`**: `TypeInv` is `TypeOK` and what
  `WritableFileLemmas` need of the file; `OffsetInv` says that the offset
  handles are made from is the length of `Content`. **`IndexIsComplete`** needs to
  know where everything is. While entries are added, `Built` says that the
  entries of the block under construction lie in it one behind the other in
  order (`Laid`), that the first data block is at the beginning of the file and
  what follows it is behind a checksum (`Headed`), and that the index so far has the
  last key of every block (`Indexed`); `FinishLays` follows the filter, the meta index,
  the index and the footer and ends in `Complete`, which says what the cells of
  the footer and of the meta index are. That the filter's handle is where the resolver
  looks for it is arithmetic from the end of the file (`ResolverReads`).
  **`ReadsAlwaysAsTableGet`** adds that the contents the iterator is given begin with the first data
  block, followed by nothing or by a checksum (`Readable`), and that the
  iterator is at an entry of that block, or at its end, with no entry of the
  key before it (`Sought`). When it has searched the block in vain, it is at the end of a
  table of one block, where `Get` finds the empty value; in any other it is at a
  checksum, which it takes for a length: undefined behaviour, `NULL` in `SSTable`
  as in `Entries`.
  The proof needs that `NULL` is no number and that there is one key of length
  0 (`ReadAssumption`, in `SSTable`): the cells of an empty text are the same
  whichever key it is of.
- **`CurrentFileProofs!CurrentIsRegister`**: `Spec => RegisterSpec`, the refinement that
  `current_file` checks, for databases of any name and numbers of any kind. The invariant says
  how far the name has got that is being written (`Written`): into the buffer, onto
  the disk, and, when the file is renamed, completely, which needs that a name
  fits the buffer (`NamesFit`). **`RecoverOpensManifest`**, **`TmpsOnlyOfCrashes`** and
  **`CurrentTypes`** follow from the same invariant; the first is about `FirstSlash`: the
  name put together from the directory and what `CURRENT` has is the manifest's
  exactly if the directory's name has no slash.

The lemmas about operators (`DirNew`, `SaveToType`, `MetasSaveTo`, `BeforeOrders`,
`BelowSaveTo`, `SliceType`, `SuffixOf`, ...) are stated once and cited by name. The
chain of what `DB` takes for granted of its parts (the table in
[The modules](#the-modules)) is thereby proved for memtables, for the log and for
`CURRENT`, and for what a lookup in a table finds.

### Model-checked only

Liveness (`CallReturns`, `ReaderEnds`, `SearchEnds`, `CallsReturn`), which needs `ENABLED`.
Of a database whose writes to logs, manifests or blocks fail, what `DBImplementsDurability`
and `OnlyRecoveryClobbers` say does not hold.


## What the model found

Each is a violation run: TLC finds the property, which the quoted line states,
violated by what the code does.

| run | the code | the repository says |
|---|---|---|
| `read_your_write` | The handler numbers operations from 0 in every batch and `Get` looks up sequence 0: of two `Put`s of a key, `Get` returns the lesser value. | `db_test.cc:43`: `Get` after `Put` finds the value. |
| `asserts_hold` | `SSTable::Put` takes the first key before it looks whether there is one: a flush of an empty memtable aborts. And the same `Put` twice gives the same encoded entry twice: the second is logged, then aborts, and so does every later replay. | The asserts of `skiplist_iter.h:73` and `skiplist.h:68`. |
| `table_readable` | The resolver takes all the data of a table for one block, so that the iterator runs into the checksum of the first block. A full memtable makes a table of about a hundred blocks. | `sstable_test.cc:65`: `Get` finds what was `Put`. |

Other behaviour that is modelled as it is and that no line of the repository
contradicts, or not clearly:

- `Write` acknowledges a batch whose log record failed (`db.cc:147` overwrites the
  status).
- The log is not rotated by a flush, so `removeObsoleteFiles` unlinks the log in
  use and what is written afterwards is lost with the process.
- After a failed flush `imm_` stays, and the next full memtable leaves `Write` in
  its loop for good (`db.cc:164`).
- `recover` names its table `logs.size() - 1` and may overwrite one that the
  version still lists: that of an earlier recovery, and from the sixth Open on that of
  a flush, if the Opens before did not get as far as `removeObsoleteFiles`.
- `SSTableBuilder::Finish` returns OK whatever its writes returned, so a flush may
  install a table without contents and drop the memtable and its log.
- When a flush in the middle of an `Append` succeeds, the rest of the data that
  does not fit the buffer is dropped (`writable_file.cc:61`); the end of a table
  with large filter and index blocks is cut off by it.
- `pending_index_entry` is never reset in `Add`: the index has an entry for
  nearly every key, most of which name a block the key is not in.
- A database whose name has a slash cannot be opened: `CURRENT` names a file that
  nobody wrote.
- `NewDB` names an empty manifest when its record could not be written; a reader
  may find a log empty by chance (`eof_`); a record of several fragments is
  returned as its last one (`log_reader.cc:49`); after a reopen the oldest table
  answers a `Get`.

## What is not modelled

- **The bytes of numbers and texts** (`util/codec.cc`, the encodings of edits and
  batches): conversions of fixed width. What matters is the order of encoded
  entries, which `Entries!Before` models, and the cells a number or a text takes
  in a table, which `SSTable` has. Alignment of 32-bit reads and the endianness
  of the machine are left out.
- **File names and the listing of a directory** (`ParseFileName`, `ListDir`): numbers
  stand for names, except in `CurrentFile`, where the path matters.
- **`SequentialFile::Skip`, `Env::NewRandomAccessFile`, `WriteStringToFileAsync`**: nobody
  calls them.
- **Memory orders** of the skip list: the store has one thread. **Reference counts**
  of memtables and versions only manage memory.
- **Status, options, logging, filter policy** have no state the store depends on;
  **`main.cc`** is one sequence of the calls `DB!Client` makes; **third-party** code is
  external.
- **Failure of the machine, of `unlink` or of a read** (but for the read of `CURRENT`):
  the store has no answer to the first, and drops the status of the others.

## The plan

In this order, each with its run and, where it says so, its proof.

1. **`RecordLog`**: the log as `DB` sees it, a sequence of whole records, and
   `Wal` shown to implement it for records of one fragment.
2. **Composition**: `DB` with failing appends over the block structure of `Wal`, so
   that the limits named above are part of the model.
