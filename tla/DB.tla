----------------------------------- MODULE DB -----------------------------------
(***************************************************************************)
(* db::DB: opening a database and recovering it, writing, flushing a full  *)
(* memtable to a table file, removing obsolete files, and reading.         *)
(*                                                                         *)
(* The store runs on the thread of its caller, so the interleavings are    *)
(* those of its steps with the end of the process: a crash, a Close (the   *)
(* destructor writes nothing), a violated assert or an exception nobody    *)
(* catches.  pc is the next effect a call in progress has on the disk or   *)
(* on the memtables; between two of them the process may end.              *)
(***************************************************************************)
EXTENDS VersionSet

CONSTANTS
  Batches,       \* the write batches clients pass to Write
  BlockEntries,  \* how many entries the first data block of a table takes
  MemLimit,      \* a memtable of more entries is full (makeRoomForWrite's 4 * 104 * 1024)
  MaxOpens,      \* bound: how often the database is opened
  MaxWrites      \* bound: how often Write is called

ASSUME BatchesAssumption == Batches \subseteq Seq(Op)

ASSUME BlockEntriesAssumption == BlockEntries \in Nat \ {0}

ASSUME BoundsAssumption == MemLimit \in Nat /\ MaxOpens \in Nat /\ MaxWrites \in Nat

VARIABLES
  pc,
  logs,             \* NNNNNN.log files: the batches in them
  tables,           \* NNNNNN.ldb files: the entries in them; {} is a file without a footer
  mem, imm,         \* mem_ and imm_
  rec,              \* the memtable recover() fills from the logs
  log_file,         \* the number of the file log_ writes to
  logfile_number,   \* logfile_number_
  batch,            \* the argument of the Write in progress
  last,             \* history: the key and value of the Put that has just returned
  opens, writes     \* calls so far

memory == <<mem, imm, rec, log_file, logfile_number, batch, last>>
calls == <<opens, writes>>
dbVars == <<pc, logs, tables, memory, calls>>
vars == <<versionVars, dbVars>>

Contents(m) == IF m = NULL THEN {} ELSE m

----------------------------------------------------------------------------------
(***************************************************************************)
(* Reading.                                                                *)
(***************************************************************************)
\* SSTable::Get of table file n; a missing file reads like an empty one.
Table(n) == IF n \in DOMAIN tables THEN tables[n] ELSE {}

\* The entries in the first data block of a table made of S.
FirstBlock(S) == {e \in S : Cardinality({f \in S : Before(f, e)}) < BlockEntries}

\* DB::Get: mem_, then imm_, then the one table file Version::ForEachOverlapping
\* settles on.  NULL: the table cannot be read and the block iterator throws.
GetResult(k) ==
  IF MemTableGet(Contents(mem), k) # NULL THEN MemTableGet(Contents(mem), k)
  ELSE IF MemTableGet(Contents(imm), k) # NULL THEN MemTableGet(Contents(imm), k)
  ELSE LET built == Table(FileFor(files, k)) IN TableGet(built, FirstBlock(built), k)

----------------------------------------------------------------------------------
(***************************************************************************)
(* The end of the process: what is in memory is gone, files stay.          *)
(***************************************************************************)
ProcessEnds ==
  /\ pc' = "down"
  /\ ForgetVersions
  /\ mem' = NULL
  /\ imm' = NULL
  /\ rec' = NULL
  /\ log_file' = NoFile
  /\ logfile_number' = NoFile
  /\ batch' = NULL
  /\ last' = NULL
  /\ UNCHANGED <<opens, writes>>

Crash ==
  /\ pc # "down"
  /\ ProcessEnds
  /\ UNCHANGED <<onDisk, logs, tables>>

\* A read that throws; any other read changes nothing.
GetThrows(k) ==
  /\ pc = "idle"
  /\ GetResult(k) = NULL
  /\ ProcessEnds
  /\ UNCHANGED <<onDisk, logs, tables>>

----------------------------------------------------------------------------------
(***************************************************************************)
(* DB::Open.                                                               *)
(***************************************************************************)
OpenDB ==
  /\ pc = "down"
  /\ opens < MaxOpens
  /\ opens' = opens + 1
  /\ NewVersionSet
  /\ pc' = IF current = NoFile THEN "newdb_create" ELSE "recover"
  /\ UNCHANGED <<onDisk, logs, tables, mem, imm, rec, log_file, logfile_number, batch,
                 last, writes>>

\* NewDB, which no CURRENT file makes recover() call.  Its status tests are
\* inverted: when AddRecord fails it goes on to name the empty manifest.
NewDBCreate ==
  /\ pc = "newdb_create"
  /\ manifests' = NewWritableFile(manifests, 1, EmptyManifest)
  /\ pc' = "newdb_record"
  /\ UNCHANGED <<current, inMemory, logs, tables, memory, calls>>

NewDBRecord ==
  /\ pc = "newdb_record"
  /\ \/ manifests' = [manifests EXCEPT
                        ![1] = WithEdit(@, [log |-> 0, next |-> 2, added |-> <<>>])]
     \/ "manifest" \in IoErrors /\ UNCHANGED manifests
  /\ pc' = "newdb_current"
  /\ UNCHANGED <<current, inMemory, logs, tables, memory, calls>>

NewDBCurrent ==
  /\ pc = "newdb_current"
  /\ current' = 1
  /\ pc' = "recover"
  /\ UNCHANGED <<manifests, inMemory, logs, tables, memory, calls>>

NewDBFails ==
  /\ pc = "newdb_current"
  /\ "manifest" \in IoErrors
  /\ ProcessEnds
  /\ UNCHANGED <<onDisk, logs, tables>>

RecoverVersions ==
  /\ pc = "recover"
  /\ Recover
  /\ pc' = "replay"
  /\ UNCHANGED <<logs, tables, memory, calls>>

\* Open returns the error and a DB without a memtable: of no use to anybody.
RecoverVersionsFails ==
  /\ pc = "recover"
  /\ RecoverFails
  /\ ProcessEnds
  /\ UNCHANGED <<onDisk, logs, tables>>

\* The batches of the log files in R, as <<log, position>>.
BatchesIn(R) == UNION {{n} \X DOMAIN logs[n] : n \in R}

EntriesAt(p) == EntriesOf(logs[p[1]][p[2]])

\* Mutant: only the newest log file is read.
ReadNewestLog == {{n \in DOMAIN logs : \A m \in DOMAIN logs : m <= n}}

\* The log files recover() gets to read: all that exist, whatever log number the
\* manifest holds, but for those whose Reader has a true eof_ by chance.
ReadLogs == IF "eof_" \in Indeterminate THEN SUBSET DOMAIN logs ELSE {DOMAIN logs}

\* No entry goes into the memtable twice: the assert of SkipList::Insert.
Replayable(R) ==
  \A p, q \in BatchesIn(R) : p # q => EntriesAt(p) \intersect EntriesAt(q) = {}

\* Every batch of the logs read goes into one memtable, which does not exist
\* when there is none.
Replay ==
  /\ pc = "replay"
  /\ \E R \in ReadLogs :
       /\ Replayable(R)
       /\ rec' = IF BatchesIn(R) = {} THEN NULL
                 ELSE UNION {EntriesAt(p) : p \in BatchesIn(R)}
  /\ \E n \in {next_file_number} \union {l + 1 : l \in DOMAIN logs} :
       /\ Marked(DOMAIN logs, n)
       /\ next_file_number' = n
  /\ pc' = IF rec' = NULL THEN "open_log" ELSE "table0_create"
  /\ UNCHANGED <<onDisk, manifest_file_number, log_number, files, descriptor_file, edit,
                 vpc, logs, tables, mem, imm, log_file, logfile_number, batch, last,
                 opens, writes>>

ReplayAborts ==
  /\ pc = "replay"
  /\ \E R \in ReadLogs : ~ Replayable(R)
  /\ ProcessEnds
  /\ UNCHANGED <<onDisk, logs, tables>>

\* What SSTable::Put may leave in the file of a table made of m when it returns OK.
\* Finish returns OK whatever its writes did; only the last of them, in Sync or Close,
\* is looked at.  When one before it fails the table cannot be read.
Built(m) == {m} \union (IF "block" \in IoErrors THEN {{}} ELSE {})

\* The number recover() gives to its table: logs.size() - 1.
RecoveryTable == Cardinality(DOMAIN logs) - 1

\* SSTable::Put truncates the file before it looks at the memtable.
RecoveryTableCreate ==
  /\ pc = "table0_create"
  /\ rec # {}
  /\ tables' = NewWritableFile(tables, RecoveryTable, {})
  /\ pc' = "table0_write"
  /\ UNCHANGED <<versionVars, logs, memory, calls>>

\* It then takes the first key; when all the batches were empty there is none
\* and the assert of the iterator fails.
RecoveryTableAborts ==
  /\ pc = "table0_create"
  /\ rec = {}
  /\ tables' = NewWritableFile(tables, RecoveryTable, {})
  /\ ProcessEnds
  /\ UNCHANGED <<onDisk, logs>>

RecoveryTableWrite ==
  /\ pc = "table0_write"
  /\ \E contents \in Built(rec) : tables' = [tables EXCEPT ![RecoveryTable] = contents]
  /\ pc' = "open_log"
  /\ UNCHANGED <<versionVars, logs, memory, calls>>

\* Open returns the error and a DB without a memtable.
RecoveryTableFails ==
  /\ pc = "table0_write"
  /\ "table" \in IoErrors
  /\ ProcessEnds
  /\ UNCHANGED <<onDisk, logs, tables>>

\* What recover() put into the edit: the table file made of the logs.
RecoveryFiles ==
  IF rec = NULL THEN <<>>
  ELSE <<[number |-> RecoveryTable, built |-> rec, by |-> "recovery"]>>

OpenLog ==
  /\ pc = "open_log"
  /\ logs' = NewWritableFile(logs, next_file_number, <<>>)
  /\ next_file_number' = next_file_number + 1
  /\ log_file' = next_file_number
  /\ logfile_number' = next_file_number
  /\ mem' = {}
  /\ rec' = NULL
  /\ LogAndApply(next_file_number, next_file_number + 1, RecoveryFiles)
  /\ pc' = "apply"
  /\ UNCHANGED <<onDisk, manifest_file_number, log_number, files, descriptor_file,
                 tables, imm, batch, last, calls>>

----------------------------------------------------------------------------------
(***************************************************************************)
(* LogAndApply and removeObsoleteFiles, which end both an Open and a       *)
(* flush.                                                                  *)
(***************************************************************************)
Apply ==
  /\ pc = "apply"
  /\ ApplyStep
  /\ UNCHANGED dbVars

\* LogAndApply writes through the pointers the constructor did not set.
ApplyWild ==
  /\ pc = "apply"
  /\ vpc = "record"
  /\ descriptor_file = "wild"
  /\ ProcessEnds
  /\ UNCHANGED <<onDisk, logs, tables>>

\* Mutant: the test of updates for nullptr is dropped.
ResumeUnchecked == "append"

\* Where makeRoomForWrite, or Open, goes back to.
Resume == IF batch = NULL THEN "idle" ELSE "append"

\* Mutant: imm_ is not reset.
AppliedKeepsImm ==
  /\ pc = "apply"
  /\ ApplyReturns("done")
  /\ pc' = "gc"
  /\ UNCHANGED <<logs, tables, memory, calls>>

Applied ==
  /\ pc = "apply"
  /\ ApplyReturns("done")
  /\ imm' = NULL
  /\ pc' = "gc"
  /\ UNCHANGED <<logs, tables, mem, rec, log_file, logfile_number, batch, last, opens,
                 writes>>

\* The error makes Open return, with a DB that works; makeRoomForWrite drops it.
NotApplied ==
  /\ pc = "apply"
  /\ ApplyReturns("failed")
  /\ pc' = Resume
  /\ UNCHANGED <<logs, tables, memory, calls>>

\* Mutants: off by one, the file in use is obsolete too.
ObsoleteLogsInclusive == {n \in DOMAIN logs : n <= log_number /\ n # PrevLogNumber}
ObsoleteManifestsInclusive == {n \in DOMAIN manifests : n <= manifest_file_number}

ObsoleteLogs == {n \in DOMAIN logs : n < log_number /\ n # PrevLogNumber}
ObsoleteManifests == {n \in DOMAIN manifests : n < manifest_file_number}

\* Table files are all kept.
RemoveObsoleteLog ==
  /\ pc = "gc"
  /\ \E n \in ObsoleteLogs : logs' = DeleteFile(logs, n)
  /\ UNCHANGED <<versionVars, pc, tables, memory, calls>>

RemoveObsoleteManifest ==
  /\ pc = "gc"
  /\ \E n \in ObsoleteManifests : manifests' = DeleteFile(manifests, n)
  /\ UNCHANGED <<current, inMemory, dbVars>>

RemovedObsoleteFiles ==
  /\ pc = "gc"
  /\ ObsoleteLogs = {}
  /\ ObsoleteManifests = {}
  /\ pc' = Resume
  /\ UNCHANGED <<versionVars, logs, tables, memory, calls>>

----------------------------------------------------------------------------------
(***************************************************************************)
(* DB::Write, of which Put and Delete are special cases.  Write(NULL) asks *)
(* for a flush.                                                            *)
(***************************************************************************)
Write(b) ==
  /\ pc = "idle"
  /\ writes < MaxWrites
  /\ writes' = writes + 1
  /\ batch' = b
  /\ last' = NULL
  /\ pc' = "room"
  /\ UNCHANGED <<versionVars, logs, tables, mem, imm, rec, log_file, logfile_number,
                 opens>>

Full(m) == Cardinality(m) > MemLimit

MustFlush == batch = NULL \/ Full(mem)

RoomLeft ==
  /\ pc = "room"
  /\ ~ MustFlush
  /\ pc' = "append"
  /\ UNCHANGED <<versionVars, logs, tables, memory, calls>>

\* makeRoomForWrite waits for as long as there is an imm_: when a flush has
\* failed the loop has no other step than this one.
AwaitFlush ==
  /\ pc = "room"
  /\ MustFlush
  /\ imm # NULL
  /\ UNCHANGED vars

\* The log goes on being log_file: the number taken here names the table file,
\* and, in the edit, the log number below which logs are obsolete.
SwitchMemTable ==
  /\ pc = "room"
  /\ MustFlush
  /\ imm = NULL
  /\ imm' = mem
  /\ mem' = {}
  /\ logfile_number' = next_file_number
  /\ next_file_number' = next_file_number + 1
  /\ pc' = "flush_create"
  /\ UNCHANGED <<onDisk, manifest_file_number, log_number, files, descriptor_file, edit,
                 vpc, logs, tables, rec, log_file, batch, last, calls>>

\* MinorCompaction::Do.
FlushCreate ==
  /\ pc = "flush_create"
  /\ imm # {}
  /\ tables' = NewWritableFile(tables, logfile_number, {})
  /\ pc' = "flush_write"
  /\ UNCHANGED <<versionVars, logs, memory, calls>>

FlushAborts ==
  /\ pc = "flush_create"
  /\ imm = {}
  /\ tables' = NewWritableFile(tables, logfile_number, {})
  /\ ProcessEnds
  /\ UNCHANGED <<onDisk, logs>>

FlushWrite ==
  /\ pc = "flush_write"
  /\ \E contents \in Built(imm) : tables' = [tables EXCEPT ![logfile_number] = contents]
  /\ LogAndApply(logfile_number, next_file_number,
                 <<[number |-> logfile_number, built |-> imm, by |-> "flush"]>>)
  /\ pc' = "apply"
  /\ UNCHANGED <<onDisk, next_file_number, manifest_file_number, log_number, files,
                 descriptor_file, logs, memory, calls>>

\* Mutant: imm_ is reset although its table was not written.
FlushFailsDropsImm ==
  /\ pc = "flush_write"
  /\ "table" \in IoErrors
  /\ imm' = NULL
  /\ pc' = Resume
  /\ UNCHANGED <<versionVars, logs, tables, mem, rec, log_file, logfile_number, batch,
                 last, calls>>

\* The error is dropped and imm_ stays.
FlushFails ==
  /\ pc = "flush_write"
  /\ "table" \in IoErrors
  /\ pc' = Resume
  /\ UNCHANGED <<versionVars, logs, tables, memory, calls>>

\* Mutant: the record stays in the buffer of the log file.
AppendToLogUnflushed ==
  /\ pc = "append"
  /\ pc' = "insert"
  /\ UNCHANGED <<versionVars, logs, tables, memory, calls>>

\* AddRecord and Sync.  Once the log file is unlinked the record goes nowhere;
\* when the write fails, the status is overwritten by that of InsertInto.  Records
\* added after a failed one are taken to be readable (Wal tells when they are not).
AppendToLog ==
  /\ pc = "append"
  /\ \/ /\ log_file \in DOMAIN logs
        /\ logs' = [logs EXCEPT ![log_file] = Append(@, batch)]
     \/ /\ log_file \notin DOMAIN logs \/ "wal" \in IoErrors
        /\ UNCHANGED logs
  /\ pc' = "insert"
  /\ UNCHANGED <<versionVars, tables, memory, calls>>

InsertInto ==
  /\ pc = "insert"
  /\ EntriesOf(batch) \intersect mem = {}
  /\ mem' = mem \union EntriesOf(batch)
  /\ last' = IF Len(batch) = 1 /\ batch[1].type = kTypeValue
             THEN [key |-> batch[1].key, value |-> batch[1].value]
             ELSE NULL
  /\ batch' = NULL
  /\ pc' = "idle"
  /\ UNCHANGED <<versionVars, logs, tables, imm, rec, log_file, logfile_number, opens,
                 writes>>

\* The assert of SkipList::Insert, after the batch has been logged.
InsertAborts ==
  /\ pc = "insert"
  /\ EntriesOf(batch) \intersect mem # {}
  /\ ProcessEnds
  /\ UNCHANGED <<onDisk, logs, tables>>

----------------------------------------------------------------------------------
Init ==
  /\ current = NoFile
  /\ manifests = NoFiles
  /\ next_file_number = 2
  /\ manifest_file_number = 0
  /\ log_number = 0
  /\ files = <<>>
  /\ descriptor_file = "null"
  /\ edit = NoEdit
  /\ vpc = "idle"
  /\ pc = "down"
  /\ logs = NoFiles
  /\ tables = NoFiles
  /\ mem = NULL
  /\ imm = NULL
  /\ rec = NULL
  /\ log_file = NoFile
  /\ logfile_number = NoFile
  /\ batch = NULL
  /\ last = NULL
  /\ opens = 0
  /\ writes = 0

Opening ==
  \/ NewDBCreate \/ NewDBRecord \/ NewDBCurrent \/ NewDBFails
  \/ RecoverVersions \/ RecoverVersionsFails
  \/ Replay \/ ReplayAborts
  \/ RecoveryTableCreate \/ RecoveryTableAborts \/ RecoveryTableWrite \/ RecoveryTableFails
  \/ OpenLog

Applying ==
  \/ Apply \/ ApplyWild \/ Applied \/ NotApplied
  \/ RemoveObsoleteLog \/ RemoveObsoleteManifest \/ RemovedObsoleteFiles

Writing ==
  \/ RoomLeft \/ AwaitFlush \/ SwitchMemTable
  \/ FlushCreate \/ FlushAborts \/ FlushWrite \/ FlushFails
  \/ AppendToLog \/ InsertInto \/ InsertAborts

\* A step of the call in progress: the program is not in the hands of its caller.
CallStep == Opening \/ Applying \/ Writing

Client ==
  \/ OpenDB
  \/ \E b \in Batches \union {NULL} : Write(b)
  \/ \E k \in Key : GetThrows(k)

Next == CallStep \/ Client \/ Crash

Spec == Init /\ [][Next]_vars

\* The operating system runs the process as long as it does not end; nobody has
\* to open the database, to write, or to crash.
FairSpec == Spec /\ WF_vars(CallStep)
==================================================================================
