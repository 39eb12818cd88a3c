------------------------------ MODULE DBProperties ------------------------------
(***************************************************************************)
(* What is expected of db::DB, as formulas over the variables of DB.       *)
(***************************************************************************)
EXTENDS DB

----------------------------------------------------------------------------------
(***************************************************************************)
(* Types.                                                                  *)
(***************************************************************************)
VersionTypeOK ==
  /\ current \in Nat
  /\ IsDirectoryOf(manifests, Manifest)
  /\ next_file_number \in Nat
  /\ manifest_file_number \in Nat
  /\ log_number \in Nat
  /\ files \in Seq(FileMetaData)
  /\ descriptor_file \in {"null", "open", "wild"}
  /\ edit \in VersionEdit
  /\ vpc \in {"idle", "create", "snapshot", "record", "current", "done", "failed"}

Steps == {"down", "newdb_create", "newdb_record", "newdb_current", "recover", "replay",
          "table0_create", "table0_write", "open_log", "apply", "gc", "idle", "room",
          "flush_create", "flush_write", "append", "insert"}

ProcessTypeOK ==
  /\ pc \in Steps
  /\ IsDirectoryOf(logs, Seq(Batches))
  /\ IsDirectoryOf(tables, SUBSET Entry)
  /\ mem \in {NULL} \union (SUBSET Entry)
  /\ imm \in {NULL} \union (SUBSET Entry)
  /\ rec \in {NULL} \union (SUBSET Entry)
  /\ log_file \in Nat
  /\ logfile_number \in Nat
  /\ batch \in Batches \union {NULL}
  /\ last \in [key : Key, value : Value \union {EmptyValue}] \union {NULL}
  /\ opens \in Nat
  /\ writes \in Nat

\* Every variable has a value of its type: file numbers are numbers, files hold
\* batches, entries or edits, and a memtable is there or NULL.
TypeOK == VersionTypeOK /\ ProcessTypeOK

----------------------------------------------------------------------------------
(***************************************************************************)
(* Which of the memtables and the batch a step finds in place.             *)
(***************************************************************************)
OpenSteps == {"apply", "gc", "idle", "room", "flush_create", "flush_write", "append",
              "insert"}

PhaseOK ==
  /\ pc \in OpenSteps => mem \in SUBSET Entry
  /\ pc \in {"flush_create", "flush_write"} => imm \in SUBSET Entry
  /\ pc \in {"table0_create", "table0_write"} => rec \in SUBSET Entry /\ DOMAIN logs # {}
  /\ pc = "open_log" /\ rec # NULL => DOMAIN logs # {}
  /\ pc \in {"append", "insert"} => batch \in Batches

----------------------------------------------------------------------------------
(***************************************************************************)
(* Files.                                                                  *)
(***************************************************************************)
\* Wherever the process ends, the manifest CURRENT names exists and holds the
\* counters Recover asks for, and the number Recover will give to the next
\* manifest is not its own: a later Open gets past VersionSet::Recover.
CurrentUsable ==
  current # NoFile =>
    /\ current \in DOMAIN manifests
    /\ manifests[current].complete
    /\ manifests[current].next > current

LiveTables == {files[i].number : i \in DOMAIN files}

\* The first flush of all takes this number, after the manifest of NewDB, that of Open,
\* and the log.
FirstFlush == 4

\* Every NewWritableFile truncates the file of that name.  LogAndApply does not open the
\* manifest that CURRENT names, Open does not open a log file that exists, and a flush
\* does not open a table of the version.  The table of a recovery is the exception: its
\* name is the number of logs less one, and it may be that of a table of the version, which it
\* then truncates.  It is not a table of a flush, as long as there are no more than four logs.
FreshFiles ==
  /\ vpc = "create" => manifest_file_number # current
  /\ pc = "open_log" => next_file_number \notin DOMAIN logs
  /\ pc = "flush_create" => logfile_number \notin LiveTables
  /\ pc = "table0_create" /\ RecoveryTable < FirstFlush =>
       \A i \in DOMAIN files : files[i].by = "flush" => files[i].number # RecoveryTable

\* A manifest that Recover would accept is not contradicted by the files: a log is
\* removed only if the manifest that CURRENT names says it is obsolete.  So it is also
\* when LogAndApply has failed and returned OK; what such a failure can cost is that
\* manifest itself, and then there is nothing to contradict.
LogsOutlived ==
  [][\A n \in DOMAIN logs \ DOMAIN logs' : Recoverable => manifests[current].log > n]_vars

(***************************************************************************)
(* Why CurrentUsable and FreshFiles hold when writes to manifests do not   *)
(* fail: an inductive invariant about the file numbers.                    *)
(***************************************************************************)
Below(fs, n) == \A i \in DOMAIN fs : fs[i].number < n

NewDBSteps == {"newdb_create", "newdb_record", "newdb_current"}
SettledSteps == OpenSteps \ {"apply"}
RecoveredSteps == OpenSteps \union {"replay", "table0_create", "table0_write", "open_log"}

\* What a manifest must be before CURRENT may name it.
Sound(n) ==
  /\ n \in DOMAIN manifests
  /\ manifests[n].complete
  /\ n < manifests[n].next
  /\ Below(manifests[n].added, manifests[n].next)

CurrentSound == current # NoFile => Sound(current)

NewDBSound ==
  /\ pc \in NewDBSteps => current = NoFile
  /\ pc \in {"newdb_record", "newdb_current"} =>
       1 \in DOMAIN manifests /\ manifests[1].added = <<>>
  /\ pc = "newdb_current" => manifests[1].complete /\ manifests[1].next = 2
  /\ pc \in NewDBSteps \union {"recover"} =>
       files = <<>> /\ descriptor_file # "open" /\ vpc = "idle"
  /\ pc = "recover" => current # NoFile

CountersSound == pc \in RecoveredSteps =>
  /\ current # NoFile
  /\ current <= manifest_file_number
  /\ manifest_file_number < next_file_number
  /\ manifests[current].next <= next_file_number
  /\ Below(files, next_file_number)
  /\ descriptor_file # "open" => current < manifest_file_number
  /\ descriptor_file = "open" => manifest_file_number \in DOMAIN manifests

\* Once Open has written its manifest, that is the one CURRENT names and edits go to.
Settled == pc \in SettledSteps => descriptor_file = "open" /\ manifest_file_number = current

LogNumbersUsed == pc \in {"table0_create", "table0_write", "open_log"} =>
  \A l \in DOMAIN logs : l < next_file_number

TableNumberNew ==
  /\ pc \in {"flush_create", "flush_write"} => logfile_number < next_file_number
  /\ pc = "flush_create" => Below(files, logfile_number)

EditSound ==
  /\ pc \in RecoveredSteps => (vpc = "idle" <=> pc # "apply")
  /\ vpc # "idle" => pc = "apply"
  /\ vpc # "failed"
  /\ pc = "open_log" \/ pc = "replay" \/ pc = "table0_create" \/ pc = "table0_write"
       => descriptor_file # "open"
  /\ vpc \in {"create", "snapshot", "record", "current"} =>
       /\ manifest_file_number < edit.next
       /\ edit.next <= next_file_number
       /\ Below(files, edit.next)
       /\ Below(edit.added, edit.next)
  /\ vpc = "create" => descriptor_file # "open"
  /\ vpc = "snapshot" => descriptor_file = "open" /\ current < manifest_file_number
  /\ vpc \in {"snapshot", "record"} /\ descriptor_file = "open" =>
       Below(manifests[manifest_file_number].added, edit.next)
  /\ vpc = "current" =>
       /\ descriptor_file = "open"
       /\ Sound(manifest_file_number)
       /\ manifests[manifest_file_number].next <= next_file_number
  /\ vpc = "done" => descriptor_file = "open" /\ manifest_file_number = current

\* The inductive invariant about file numbers behind CurrentUsable and FreshFiles:
\* in every phase of Open, of a flush and of LogAndApply the numbers of the manifests,
\* logs and tables in use are below the next number, and CURRENT names a sound manifest.
NumbersInv ==
  /\ CurrentSound
  /\ NewDBSound
  /\ CountersSound
  /\ Settled
  /\ LogNumbersUsed
  /\ TableNumberNew
  /\ EditSound

----------------------------------------------------------------------------------
(***************************************************************************)
(* Acknowledged writes.                                                    *)
(***************************************************************************)
\* The entries this process can reach: in mem_, in imm_ and in the tables of
\* the version.
Reachable == Contents(mem) \union Contents(imm) \union UNION {Table(n) : n \in LiveTables}

\* From the end of Open for as long as the process runs, no entry drops out of its
\* reach: a flush lets go of imm_ only when the table made of it is in the version,
\* whatever failed on the way, and no file is emptied under the version.
ReachableGrows ==
  [][mem # NULL /\ pc' # "down" => Reachable \subseteq (Reachable')]_vars

\* A Put that has returned is what Get of its key finds, unless the same memtable
\* holds another entry of the key: neither imm_ nor an older table hides it.
FirstPutReadable ==
  pc = "idle" /\ last # NULL
    /\ {e \in mem : e.key = last.key} = EntriesOf(<<PutOp(last.key, last.value)>>)
  => GetResult(last.key) = last.value

SameLength(S) == \A e, f \in S : e.key[1] = f.key[1]

\* A flush moves entries from a memtable to a table file, and the two are searched
\* differently.  The move does not change what Get finds for a key in imm_ whose
\* first entry there is a value and gets into the first data block, as long as the
\* keys of imm_ have one length.
FlushTransparent ==
  [][\A k \in Key :
       LET mine == {e \in Contents(imm) : e.key = k}
       IN  imm # NULL /\ imm' = NULL /\ pc' # "down" /\ SameLength(imm)
             /\ mine # {} /\ FirstEntry(mine).type = kTypeValue
             /\ FirstEntry(mine) \in FirstBlock(imm)
           => GetResult(k)' = GetResult(k)]_vars

----------------------------------------------------------------------------------
(***************************************************************************)
(* Progress.                                                               *)
(***************************************************************************)
\* When no write fails, every call of Open and of Write comes back to its caller
\* or ends with the process.
CallReturns == pc \notin {"idle", "down"} ~> pc \in {"idle", "down"}

----------------------------------------------------------------------------------
(***************************************************************************)
(* What the tests, the asserts, the comments and the log messages of the   *)
(* repository say, and the code does not do.                               *)
(***************************************************************************)
\* db_test.cc, DBTest.Simple: after a Put of a value, Get returns that value.
ReadYourWrite ==
  pc = "idle" /\ last # NULL => GetResult(last.key) = last.value

\* An entry that is inserted is not there yet.
InsertIsNew == pc = "insert" => EntriesOf(batch) \intersect mem = {}

\* The iterator stands on an entry when SSTable::Put asks for the first key of a memtable.
IteratorValid ==
  /\ pc = "flush_create" => imm # {}
  /\ pc = "table0_create" => rec # {}

\* skiplist.h, the assert in Insert, and skiplist_iter.h, the assert in Key.
AssertsHold == InsertIsNew /\ IteratorValid
==================================================================================
