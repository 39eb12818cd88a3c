--------------------------------- MODULE DBProofs ---------------------------------
(***************************************************************************)
(* Theorems about DB, for every value of its constants, and their proofs.  *)
(***************************************************************************)
EXTENDS DBProperties, DBDurability, EntriesLemmas

----------------------------------------------------------------------------------
(***************************************************************************)
(* Directories, batches and version edits.                                 *)
(***************************************************************************)
\* NewWritableFile (Env::NewWritableFile) keeps a directory a directory.
LEMMA DirNew ==
  ASSUME NEW C, NEW dir, IsDirectoryOf(dir, C), NEW n \in Nat, NEW c \in C
  PROVE  IsDirectoryOf(NewWritableFile(dir, n, c), C)
<1>1. IsFiniteSet(DOMAIN dir \union {n})
  BY FS_AddElement DEF IsDirectoryOf
<1>2. DOMAIN NewWritableFile(dir, n, c) = DOMAIN dir \union {n}
  BY DEF NewWritableFile
<1>3. NewWritableFile(dir, n, c) \in [DOMAIN dir \union {n} -> C]
  BY DEF NewWritableFile, IsDirectoryOf
<1> QED BY <1>1, <1>2, <1>3 DEF IsDirectoryOf

\* DeleteFile (util::DeleteFile) keeps a directory a directory.
LEMMA DirDelete ==
  ASSUME NEW C, NEW dir, IsDirectoryOf(dir, C), NEW n
  PROVE  IsDirectoryOf(DeleteFile(dir, n), C)
<1>1. IsFiniteSet(DOMAIN dir \ {n})
  BY FS_Subset DEF IsDirectoryOf
<1>2. DOMAIN DeleteFile(dir, n) = DOMAIN dir \ {n}
  BY DEF DeleteFile
<1>3. DeleteFile(dir, n) \in [DOMAIN dir \ {n} -> C]
  BY DEF DeleteFile, IsDirectoryOf
<1> QED BY <1>1, <1>2, <1>3 DEF IsDirectoryOf

\* Writing to a file that is there keeps a directory a directory.
LEMMA DirWrite ==
  ASSUME NEW C, NEW dir, IsDirectoryOf(dir, C), NEW n, NEW c,
         n \in DOMAIN dir => c \in C
  PROVE  IsDirectoryOf([dir EXCEPT ![n] = c], C)
<1>1. DOMAIN [dir EXCEPT ![n] = c] = DOMAIN dir
  BY DEF IsDirectoryOf
<1>2. [dir EXCEPT ![n] = c] \in [DOMAIN dir -> C]
  BY DEF IsDirectoryOf
<1> QED BY <1>1, <1>2 DEF IsDirectoryOf

\* The handler (WriteBatchHandler) makes memtable entries of the operations of a batch.
LEMMA EntriesOfType ==
  ASSUME NEW b \in Batches
  PROVE  EntriesOf(b) \subseteq Entry
<1>1. b \in Seq(Op)
  BY BatchesAssumption
<1>2. ASSUME NEW i \in DOMAIN b
      PROVE  [key |-> b[i].key, seq |-> i - 1, type |-> b[i].type,
              value |-> b[i].value] \in Entry
  <2>1. b[i] \in Op /\ i - 1 \in Nat
    BY <1>1
  <2> QED BY <2>1 DEF Op, Entry
<1> QED BY <1>2 DEF EntriesOf

\* Builder::SaveTo lists table files.
LEMMA SaveToType ==
  ASSUME NEW base \in Seq(FileMetaData), NEW added \in Seq(FileMetaData)
  PROVE  SaveTo(base, added) \in Seq(FileMetaData)
<1>1. Reverse(added) \in Seq(FileMetaData)
  BY DEF Reverse
<1> QED BY <1>1 DEF SaveTo

\* The table files a list of them names.
Metas(fs) == {fs[i] : i \in DOMAIN fs}

LEMMA MetasConcat ==
  ASSUME NEW s \in Seq(FileMetaData), NEW t \in Seq(FileMetaData)
  PROVE  Metas(s \o t) = Metas(s) \union Metas(t)
<1>1. \A i \in DOMAIN (s \o t) :
        IF i \in DOMAIN s THEN (s \o t)[i] = s[i]
        ELSE i - Len(s) \in DOMAIN t /\ (s \o t)[i] = t[i - Len(s)]
  OBVIOUS
<1>2. \A i \in DOMAIN s : i \in DOMAIN (s \o t)
  OBVIOUS
<1>3. \A i \in DOMAIN t : i + Len(s) \in DOMAIN (s \o t) /\ (s \o t)[i + Len(s)] = t[i]
  OBVIOUS
<1>4. Metas(s \o t) \subseteq Metas(s) \union Metas(t)
  BY <1>1 DEF Metas
<1>5. Metas(s) \subseteq Metas(s \o t)
  BY <1>1, <1>2 DEF Metas
<1>6. Metas(t) \subseteq Metas(s \o t)
  BY <1>3 DEF Metas
<1> QED BY <1>4, <1>5, <1>6

\* Builder::SaveTo lists the files of the base and the files of the edits, and no others.
LEMMA MetasSaveTo ==
  ASSUME NEW s \in Seq(FileMetaData), NEW t \in Seq(FileMetaData)
  PROVE  Metas(SaveTo(s, t)) = Metas(s) \union Metas(t)
<1>1. Reverse(t) \in Seq(FileMetaData)
  BY DEF Reverse
<1>2. Metas(Reverse(t)) = Metas(t)
  <2>1. \A i \in DOMAIN Reverse(t) :
          (Len(t) - i) + 1 \in DOMAIN t /\ Reverse(t)[i] = t[(Len(t) - i) + 1]
    BY DEF Reverse
  <2>2. \A i \in DOMAIN t : (Len(t) - i) + 1 \in DOMAIN Reverse(t)
                             /\ Reverse(t)[(Len(t) - i) + 1] = t[i]
    BY DEF Reverse
  <2> QED BY <2>1, <2>2 DEF Metas
<1>3. Metas(s \o Reverse(t)) = Metas(s) \union Metas(Reverse(t))
  BY <1>1, MetasConcat
<1> QED BY <1>2, <1>3 DEF SaveTo

\* A record added to a manifest leaves a manifest.
LEMMA WithEditType ==
  ASSUME NEW m \in Manifest, NEW e \in VersionEdit
  PROVE  WithEdit(m, e) \in Manifest
<1>1. m.added \o e.added \in Seq(FileMetaData)
  BY DEF Manifest, VersionEdit
<1> QED BY <1>1 DEF WithEdit, Manifest, VersionEdit

LEMMA WithSnapshotType ==
  ASSUME NEW m \in Manifest, NEW fs \in Seq(FileMetaData)
  PROVE  WithSnapshot(m, fs) \in Manifest
<1>1. m.added \o fs \in Seq(FileMetaData)
  BY DEF Manifest
<1> QED BY <1>1 DEF WithSnapshot, Manifest

LEMMA NoEditType == NoEdit \in VersionEdit /\ EmptyManifest \in Manifest
<1>1. <<>> \in Seq(FileMetaData)
  OBVIOUS
<1> QED BY <1>1 DEF NoEdit, VersionEdit, EmptyManifest, Manifest

----------------------------------------------------------------------------------
(***************************************************************************)
(* Type correctness.                                                       *)
(***************************************************************************)
TypeInv == TypeOK /\ PhaseOK

USE DEF versionVars, onDisk, inMemory, dbVars, memory, calls, NoFile, PrevLogNumber

LEMMA InitTyped == Init => TypeInv
<1> SUFFICES ASSUME Init PROVE TypeInv
  OBVIOUS
<1>1. NoFiles = [n \in {} |-> {}] /\ DOMAIN NoFiles = {}
  BY DEF NoFiles
<1>2. IsDirectoryOf(NoFiles, Manifest) /\ IsDirectoryOf(NoFiles, Seq(Batches))
        /\ IsDirectoryOf(NoFiles, SUBSET Entry)
  BY <1>1, FS_EmptySet DEF IsDirectoryOf
<1>3. VersionTypeOK
  BY <1>2, NoEditType DEF Init, VersionTypeOK
<1>4. ProcessTypeOK
  BY <1>2 DEF Init, ProcessTypeOK, Steps
<1>5. PhaseOK
  BY DEF Init, PhaseOK, OpenSteps
<1> QED BY <1>3, <1>4, <1>5 DEF TypeInv, TypeOK

\* Whatever ends the process leaves the directories behind, and nothing in memory.
LEMMA EndTyped ==
  ASSUME TypeInv, ProcessEnds, UNCHANGED <<onDisk, logs>>,
         IsDirectoryOf(tables', SUBSET Entry)
  PROVE  TypeInv'
<1>1. VersionTypeOK'
  BY NoEditType DEF TypeInv, TypeOK, VersionTypeOK, ProcessEnds, ForgetVersions
<1>2. ProcessTypeOK'
  BY DEF TypeInv, TypeOK, ProcessTypeOK, ProcessEnds, Steps
<1>3. PhaseOK'
  BY DEF PhaseOK, OpenSteps, ProcessEnds
<1> QED BY <1>1, <1>2, <1>3 DEF TypeInv, TypeOK

\* A crash or an abort that leaves all files as they are.
LEMMA CrashTyped ==
  ASSUME TypeInv, ProcessEnds, UNCHANGED <<onDisk, logs, tables>>
  PROVE  TypeInv'
<1>1. IsDirectoryOf(tables', SUBSET Entry)
  BY DEF TypeInv, TypeOK, ProcessTypeOK
<1> QED BY <1>1, EndTyped

\* The steps of LogAndApply.
LEMMA ApplyTyped == ASSUME TypeInv, Apply PROVE TypeInv'
<1> USE DEF TypeInv, TypeOK, VersionTypeOK
<1>1. ProcessTypeOK' /\ PhaseOK'
  BY DEF Apply, ProcessTypeOK, PhaseOK
<1>2. CASE CreateDescriptor
  <2>1. IsDirectoryOf(manifests', Manifest)
    BY <1>2, DirNew, NoEditType DEF CreateDescriptor
  <2> QED BY <1>1, <1>2, <2>1 DEF CreateDescriptor
<1>3. CASE WriteSnapshot
  <2>1. IsDirectoryOf(manifests', Manifest)
    <3>1. manifest_file_number \in DOMAIN manifests =>
            WithSnapshot(manifests[manifest_file_number], files) \in Manifest
      BY WithSnapshotType DEF IsDirectoryOf
    <3> QED BY <1>3, <3>1, DirWrite DEF WriteSnapshot
  <2> QED BY <1>1, <1>3, <2>1 DEF WriteSnapshot
<1>4. CASE AppendEdit
  <2>1. IsDirectoryOf(manifests', Manifest)
    <3>1. manifest_file_number \in DOMAIN manifests =>
            WithEdit(manifests[manifest_file_number], edit) \in Manifest
      BY WithEditType DEF IsDirectoryOf
    <3> QED BY <1>4, <3>1, DirWrite DEF AppendEdit
  <2> QED BY <1>1, <1>4, <2>1 DEF AppendEdit
<1>5. CASE InstallCurrent
  <2>1. files' \in Seq(FileMetaData) /\ log_number' \in Nat
    BY <1>5, SaveToType DEF InstallCurrent, VersionEdit
  <2> QED BY <1>1, <1>5, <2>1 DEF InstallCurrent
<1>6. CASE ApplyFails
  <2>1. IsDirectoryOf(manifests', Manifest)
    BY <1>6, DirDelete DEF ApplyFails
  <2> QED BY <1>1, <1>6, <2>1 DEF ApplyFails
<1> QED BY <1>2, <1>3, <1>4, <1>5, <1>6 DEF Apply, ApplyStep

\* The batches of the logs are batches, and so what they insert are entries.
LEMMA LoggedType ==
  ASSUME TypeInv, NEW R \in SUBSET DOMAIN logs, NEW p \in BatchesIn(R)
  PROVE  EntriesAt(p) \subseteq Entry /\ R # {}
<1>1. PICK n \in R : p \in {n} \X DOMAIN logs[n]
  BY DEF BatchesIn
<1>2. p[1] = n /\ p[2] \in DOMAIN logs[n]
  BY <1>1
<1>3. logs[n] \in Seq(Batches)
  BY DEF TypeInv, TypeOK, ProcessTypeOK, IsDirectoryOf
<1>4. logs[p[1]][p[2]] \in Batches
  BY <1>2, <1>3
<1> QED BY <1>1, <1>4, EntriesOfType DEF EntriesAt

\* The number of the recovery's table, logs.size() - 1, is one if there is a log.
LEMMA RecoveryTableType ==
  ASSUME TypeInv, DOMAIN logs # {}
  PROVE  RecoveryTable \in Nat
<1>1. IsFiniteSet(DOMAIN logs)
  BY DEF TypeInv, TypeOK, ProcessTypeOK, IsDirectoryOf
<1>2. Cardinality(DOMAIN logs) \in Nat /\ Cardinality(DOMAIN logs) # 0
  BY <1>1, FS_CardinalityType, FS_EmptySet
<1> QED BY <1>2 DEF RecoveryTable

LEMMA EditType ==
  ASSUME NEW l \in Nat, NEW n \in Nat, NEW meta \in FileMetaData
  PROVE  /\ [log |-> l, next |-> n, added |-> <<meta>>] \in VersionEdit
         /\ [log |-> l, next |-> n, added |-> <<>>] \in VersionEdit
<1>1. <<meta>> \in Seq(FileMetaData) /\ <<>> \in Seq(FileMetaData)
  OBVIOUS
<1> QED BY <1>1 DEF VersionEdit

LEMMA OpeningTyped == ASSUME TypeInv, Opening PROVE TypeInv'
<1> USE DEF TypeInv, TypeOK
<1>1. CASE NewDBCreate
  <2>1. IsDirectoryOf(manifests', Manifest)
    BY <1>1, DirNew, NoEditType DEF NewDBCreate, VersionTypeOK
  <2> QED BY <1>1, <2>1
          DEF NewDBCreate, VersionTypeOK, ProcessTypeOK, PhaseOK, OpenSteps, Steps
<1>2. CASE NewDBRecord
  <2> DEFINE first == [log |-> 0, next |-> 2, added |-> <<>>]
  <2>1. first \in VersionEdit
    BY DEF VersionEdit
  <2>2. 1 \in DOMAIN manifests => WithEdit(manifests[1], first) \in Manifest
    BY <2>1, WithEditType DEF VersionTypeOK, IsDirectoryOf
  <2>3. IsDirectoryOf([manifests EXCEPT ![1] = WithEdit(manifests[1], first)], Manifest)
    BY <2>2, DirWrite DEF VersionTypeOK
  <2>4. IsDirectoryOf(manifests', Manifest)
    BY <1>2, <2>3 DEF NewDBRecord, VersionTypeOK
  <2> QED BY <1>2, <2>4
          DEF NewDBRecord, VersionTypeOK, ProcessTypeOK, PhaseOK, OpenSteps, Steps
<1>3. CASE NewDBCurrent
  BY <1>3 DEF NewDBCurrent, VersionTypeOK, ProcessTypeOK, PhaseOK, OpenSteps, Steps
<1>4. CASE NewDBFails \/ RecoverVersionsFails \/ ReplayAborts \/ RecoveryTableFails
  BY <1>4, CrashTyped
  DEF NewDBFails, RecoverVersionsFails, ReplayAborts, RecoveryTableFails
<1>5. CASE RecoverVersions
  <2>1. manifests[current] \in Manifest
    BY <1>5 DEF RecoverVersions, Recover, Recoverable, VersionTypeOK, IsDirectoryOf
  <2>2. VersionTypeOK'
    BY <1>5, <2>1, SaveToType DEF RecoverVersions, Recover, VersionTypeOK, Manifest
  <2> QED BY <1>5, <2>2 DEF RecoverVersions, ProcessTypeOK, PhaseOK, OpenSteps, Steps
<1>6. CASE Replay
  <2>1. PICK R \in ReadLogs :
          rec' = IF BatchesIn(R) = {} THEN NULL
                 ELSE UNION {EntriesAt(p) : p \in BatchesIn(R)}
    BY <1>6 DEF Replay
  <2>2. R \in SUBSET DOMAIN logs
    BY <2>1 DEF ReadLogs
  <2>3. rec' # NULL => rec' \in SUBSET Entry /\ DOMAIN logs # {}
    BY <2>1, <2>2, LoggedType
  <2>4. next_file_number' \in Nat
    <3>1. DOMAIN logs \subseteq Nat
      BY DEF ProcessTypeOK, IsDirectoryOf
    <3> QED BY <1>6, <3>1 DEF Replay, Marked, VersionTypeOK
  <2>5. VersionTypeOK'
    BY <1>6, <2>4 DEF Replay, VersionTypeOK
  <2>6. ProcessTypeOK'
    BY <1>6, <2>3 DEF Replay, ProcessTypeOK, Steps
  <2>7. PhaseOK'
    BY <1>6, <2>3 DEF Replay, PhaseOK, OpenSteps
  <2> QED BY <2>5, <2>6, <2>7
<1>7. CASE RecoveryTableCreate \/ RecoveryTableAborts
  <2>1. RecoveryTable \in Nat
    BY <1>7, RecoveryTableType DEF RecoveryTableCreate, RecoveryTableAborts, PhaseOK
  <2>2. IsDirectoryOf(tables', SUBSET Entry)
    BY <1>7, <2>1, DirNew DEF RecoveryTableCreate, RecoveryTableAborts, ProcessTypeOK
  <2>3. CASE RecoveryTableCreate
    BY <2>2, <2>3
    DEF RecoveryTableCreate, VersionTypeOK, ProcessTypeOK, PhaseOK, OpenSteps, Steps
  <2>4. CASE RecoveryTableAborts
    BY <2>2, <2>4, EndTyped DEF RecoveryTableAborts
  <2> QED BY <1>7, <2>3, <2>4
<1>8. CASE RecoveryTableWrite
  <2>1. IsDirectoryOf(tables', SUBSET Entry)
    <3>1. PICK contents \in Built(rec) :
                 tables' = [tables EXCEPT ![RecoveryTable] = contents]
      BY <1>8 DEF RecoveryTableWrite
    <3>2. contents \in SUBSET Entry
      BY <1>8, <3>1 DEF RecoveryTableWrite, PhaseOK, Built
    <3> QED BY <3>1, <3>2, DirWrite DEF ProcessTypeOK
  <2> QED BY <1>8, <2>1
          DEF RecoveryTableWrite, VersionTypeOK, ProcessTypeOK, PhaseOK, OpenSteps, Steps
<1>9. CASE OpenLog
  <2>1. IsDirectoryOf(logs', Seq(Batches))
    <3>1. <<>> \in Seq(Batches)
      OBVIOUS
    <3> QED BY <1>9, <3>1, DirNew DEF OpenLog, VersionTypeOK, ProcessTypeOK
  <2>2. edit' \in VersionEdit
    <3>1. CASE rec = NULL
      <4>1. <<>> \in Seq(FileMetaData)
        OBVIOUS
      <4>2. next_file_number \in Nat /\ next_file_number + 1 \in Nat
        BY DEF VersionTypeOK
      <4> QED BY <1>9, <3>1, <4>1, <4>2
              DEF OpenLog, LogAndApply, RecoveryFiles, VersionEdit
    <3>2. CASE rec # NULL
      <4>1. [number |-> RecoveryTable, built |-> rec, by |-> "recovery"] \in FileMetaData
        BY <1>9, <3>2, RecoveryTableType DEF OpenLog, PhaseOK, ProcessTypeOK, FileMetaData
      <4>2. edit' = [log |-> next_file_number, next |-> next_file_number + 1,
                     added |-> <<[number |-> RecoveryTable, built |-> rec,
                                  by |-> "recovery"]>>]
        BY <1>9, <3>2 DEF OpenLog, LogAndApply, RecoveryFiles
      <4>3. next_file_number \in Nat /\ next_file_number + 1 \in Nat
        BY DEF VersionTypeOK
      <4> QED BY <4>1, <4>2, <4>3, EditType
    <3> QED BY <3>1, <3>2
  <2>3. VersionTypeOK'
    BY <1>9, <2>2 DEF OpenLog, LogAndApply, VersionTypeOK
  <2>4. ProcessTypeOK' /\ PhaseOK'
    BY <1>9, <2>1 DEF OpenLog, VersionTypeOK, ProcessTypeOK, PhaseOK, OpenSteps, Steps
  <2> QED BY <2>3, <2>4
<1> QED BY <1>1, <1>2, <1>3, <1>4, <1>5, <1>6, <1>7, <1>8, <1>9 DEF Opening

LEMMA ApplyingTyped == ASSUME TypeInv, Applying PROVE TypeInv'
<1> USE DEF TypeInv, TypeOK
<1>1. CASE Apply
  BY <1>1, ApplyTyped
<1>2. CASE ApplyWild
  BY <1>2, CrashTyped DEF ApplyWild
<1>3. CASE Applied \/ NotApplied
  <2>1. VersionTypeOK'
    BY <1>3, NoEditType DEF Applied, NotApplied, ApplyReturns, VersionTypeOK
  <2>2. ProcessTypeOK'
    BY <1>3 DEF Applied, NotApplied, Resume, ProcessTypeOK, Steps
  <2>3. PhaseOK'
    BY <1>3 DEF Applied, NotApplied, Resume, PhaseOK, ProcessTypeOK, OpenSteps
  <2> QED BY <2>1, <2>2, <2>3
<1>4. CASE RemoveObsoleteLog
  <2>1. IsDirectoryOf(logs', Seq(Batches))
    BY <1>4, DirDelete DEF RemoveObsoleteLog, ProcessTypeOK
  <2> QED BY <1>4, <2>1
          DEF RemoveObsoleteLog, VersionTypeOK, ProcessTypeOK, PhaseOK, OpenSteps
<1>5. CASE RemoveObsoleteManifest
  <2>1. IsDirectoryOf(manifests', Manifest)
    BY <1>5, DirDelete DEF RemoveObsoleteManifest, VersionTypeOK
  <2> QED BY <1>5, <2>1 DEF RemoveObsoleteManifest, VersionTypeOK, ProcessTypeOK, PhaseOK
<1>6. CASE RemovedObsoleteFiles
  BY <1>6 DEF RemovedObsoleteFiles, Resume, VersionTypeOK, ProcessTypeOK, PhaseOK,
              OpenSteps, Steps
<1> QED BY <1>1, <1>2, <1>3, <1>4, <1>5, <1>6 DEF Applying

LEMMA WritingTyped == ASSUME TypeInv, Writing PROVE TypeInv'
<1> USE DEF TypeInv, TypeOK
<1>1. CASE RoomLeft
  BY <1>1 DEF RoomLeft, MustFlush, VersionTypeOK, ProcessTypeOK, PhaseOK, OpenSteps, Steps
<1>2. CASE AwaitFlush
  BY <1>2 DEF AwaitFlush, vars, VersionTypeOK, ProcessTypeOK, PhaseOK
<1>3. CASE SwitchMemTable
  BY <1>3 DEF SwitchMemTable, VersionTypeOK, ProcessTypeOK, PhaseOK, OpenSteps, Steps
<1>4. CASE FlushCreate \/ FlushAborts
  <2>1. IsDirectoryOf(tables', SUBSET Entry)
    BY <1>4, DirNew DEF FlushCreate, FlushAborts, ProcessTypeOK
  <2>2. CASE FlushCreate
    BY <2>1, <2>2
    DEF FlushCreate, VersionTypeOK, ProcessTypeOK, PhaseOK, OpenSteps, Steps
  <2>3. CASE FlushAborts
    BY <2>1, <2>3, EndTyped DEF FlushAborts
  <2> QED BY <1>4, <2>2, <2>3
<1>5. CASE FlushWrite
  <2>1. IsDirectoryOf(tables', SUBSET Entry)
    <3>1. PICK contents \in Built(imm) :
                 tables' = [tables EXCEPT ![logfile_number] = contents]
      BY <1>5 DEF FlushWrite
    <3>2. contents \in SUBSET Entry
      BY <1>5, <3>1 DEF FlushWrite, PhaseOK, Built
    <3> QED BY <3>1, <3>2, DirWrite DEF ProcessTypeOK
  <2>2. edit' \in VersionEdit
    <3>1. [number |-> logfile_number, built |-> imm, by |-> "flush"] \in FileMetaData
      BY <1>5 DEF FlushWrite, PhaseOK, ProcessTypeOK, FileMetaData
    <3> QED BY <1>5, <3>1, EditType DEF FlushWrite, LogAndApply, VersionTypeOK, ProcessTypeOK
  <2>3. VersionTypeOK'
    BY <1>5, <2>2 DEF FlushWrite, LogAndApply, VersionTypeOK
  <2>4. ProcessTypeOK' /\ PhaseOK'
    BY <1>5, <2>1 DEF FlushWrite, ProcessTypeOK, PhaseOK, OpenSteps, Steps
  <2> QED BY <2>3, <2>4
<1>6. CASE FlushFails
  BY <1>6 DEF FlushFails, Resume, VersionTypeOK, ProcessTypeOK, PhaseOK, OpenSteps, Steps
<1>7. CASE AppendToLog
  <2>1. IsDirectoryOf(logs', Seq(Batches))
    <3>1. CASE UNCHANGED logs
      BY <3>1 DEF ProcessTypeOK
    <3>2. CASE logs' = [logs EXCEPT ![log_file] = Append(@, batch)]
      <4>1. log_file \in DOMAIN logs => Append(logs[log_file], batch) \in Seq(Batches)
        BY <1>7 DEF AppendToLog, PhaseOK, ProcessTypeOK, IsDirectoryOf
      <4> QED BY <3>2, <4>1, DirWrite DEF ProcessTypeOK
    <3> QED BY <1>7, <3>1, <3>2 DEF AppendToLog
  <2> QED BY <1>7, <2>1
          DEF AppendToLog, VersionTypeOK, ProcessTypeOK, PhaseOK, OpenSteps, Steps
<1>8. CASE InsertInto
  <2>1. EntriesOf(batch) \subseteq Entry
    BY <1>8, EntriesOfType DEF InsertInto, PhaseOK
  <2>2. last' \in [key : Key, value : Value \union {EmptyValue}] \union {NULL}
    <3>1. Len(batch) = 1 => batch[1] \in Op
      <4>1. batch \in Seq(Op)
        BY <1>8, BatchesAssumption DEF InsertInto, PhaseOK
      <4> QED BY <4>1
    <3> QED BY <1>8, <3>1 DEF InsertInto, Op
  <2>3. ProcessTypeOK'
    BY <1>8, <2>1, <2>2 DEF InsertInto, ProcessTypeOK, PhaseOK, OpenSteps, Steps
  <2>4. PhaseOK'
    BY <1>8, <2>1 DEF InsertInto, PhaseOK, OpenSteps
  <2> QED BY <1>8, <2>3, <2>4 DEF InsertInto, VersionTypeOK
<1>9. CASE InsertAborts
  BY <1>9, CrashTyped DEF InsertAborts
<1> QED BY <1>1, <1>2, <1>3, <1>4, <1>5, <1>6, <1>7, <1>8, <1>9 DEF Writing

LEMMA ClientTyped == ASSUME TypeInv, Client PROVE TypeInv'
<1> USE DEF TypeInv, TypeOK
<1>1. CASE OpenDB
  <2>1. VersionTypeOK'
    BY <1>1, NoEditType DEF OpenDB, NewVersionSet, VersionTypeOK
  <2>2. ProcessTypeOK' /\ PhaseOK'
    BY <1>1 DEF OpenDB, ProcessTypeOK, PhaseOK, OpenSteps, Steps
  <2> QED BY <2>1, <2>2
<1>2. ASSUME NEW b \in Batches \union {NULL}, Write(b)
      PROVE  TypeInv'
  BY <1>2 DEF Write, VersionTypeOK, ProcessTypeOK, PhaseOK, OpenSteps, Steps
<1>3. ASSUME NEW k \in Key, GetThrows(k)
      PROVE  TypeInv'
  BY <1>3, CrashTyped DEF GetThrows
<1> QED BY <1>1, <1>2, <1>3 DEF Client

LEMMA NextTyped == ASSUME TypeInv, [Next]_vars PROVE TypeInv'
<1>1. CASE Next
  <2>1. CASE Crash
    BY <2>1, CrashTyped DEF Crash
  <2> QED BY <1>1, <2>1, OpeningTyped, ApplyingTyped, WritingTyped, ClientTyped
          DEF Next, CallStep
<1>2. CASE UNCHANGED vars
  BY <1>2 DEF vars, TypeInv, TypeOK, VersionTypeOK, ProcessTypeOK, PhaseOK
<1> QED BY <1>1, <1>2

\* The type invariant holds in every state of every instance of the store.
THEOREM TypeCorrect == Spec => []TypeOK
<1>1. Init => TypeInv
  BY InitTyped
<1>2. TypeInv /\ [Next]_vars => TypeInv'
  BY NextTyped
<1>3. TypeInv => TypeOK
  BY DEF TypeInv
<1> QED BY <1>1, <1>2, <1>3, PTL DEF Spec

----------------------------------------------------------------------------------
(***************************************************************************)
(* Logs and the manifest, whatever fails.                                  *)
(***************************************************************************)
\* In every manifest the logs it calls obsolete are older than the next file.
ManifestLogs ==
  \A m \in DOMAIN manifests : manifests[m].complete => manifests[m].log < manifests[m].next

\* What an edit under way is to say about logs.
EditLogs ==
  /\ vpc \in {"create", "snapshot", "record", "current"} =>
       log_number <= edit.log /\ edit.log < edit.next /\ edit.next <= next_file_number
  /\ vpc = "current" /\ manifest_file_number \in DOMAIN manifests =>
       manifests[manifest_file_number].log = edit.log
  /\ vpc # "idle" => pc = "apply"
  /\ pc = "apply" => vpc # "idle"

\* log_number_ is never ahead of the manifest that the next Open reads.
LogNumberKept ==
  /\ pc \in RecoveredSteps => log_number < next_file_number
  /\ pc \in RecoveredSteps /\ Recoverable => log_number <= manifests[current].log
  /\ pc \in {"flush_create", "flush_write"} =>
       log_number <= logfile_number /\ logfile_number < next_file_number

LogInv == ManifestLogs /\ EditLogs /\ LogNumberKept

LEMMA InitLogs == Init => LogInv
<1> SUFFICES ASSUME Init PROVE LogInv
  OBVIOUS
<1> QED BY DEF Init, NoFiles, LogInv, ManifestLogs, EditLogs, LogNumberKept, RecoveredSteps,
               OpenSteps

LEMMA EndLogs ==
  ASSUME LogInv, ProcessEnds, UNCHANGED manifests
  PROVE  LogInv'
<1>1. pc' = "down" /\ vpc' = "idle"
  BY DEF ProcessEnds, ForgetVersions
<1> QED BY <1>1 DEF LogInv, ManifestLogs, EditLogs, LogNumberKept, RecoveredSteps, OpenSteps

\* Only the counters of logs and the place in the call matter.
LEMMA MoveLogs ==
  ASSUME LogInv, UNCHANGED <<current, manifests, manifest_file_number, log_number, edit, vpc>>,
         pc # "apply", pc' # "apply",
         pc' \in RecoveredSteps => pc \in RecoveredSteps /\ log_number < next_file_number',
         pc' \in {"flush_create", "flush_write"} =>
           log_number <= logfile_number' /\ logfile_number' < next_file_number'
  PROVE  LogInv'
<1>1. vpc = "idle"
  BY DEF LogInv, EditLogs
<1> QED BY <1>1 DEF LogInv, ManifestLogs, EditLogs, LogNumberKept, Recoverable

LEMMA ManifestLog ==
  ASSUME TypeInv, NEW n \in DOMAIN manifests
  PROVE  /\ manifests[n] \in Manifest /\ manifests[n].log \in Nat /\ manifests[n].next \in Nat
         /\ manifests[n].complete \in BOOLEAN
<1>1. manifests[n] \in Manifest
  BY DEF TypeInv, TypeOK, VersionTypeOK, IsDirectoryOf
<1> QED BY <1>1 DEF Manifest

LEMMA CounterTypes ==
  ASSUME TypeInv
  PROVE  /\ current \in Nat /\ next_file_number \in Nat /\ manifest_file_number \in Nat
         /\ log_number \in Nat /\ logfile_number \in Nat /\ log_file \in Nat
         /\ edit.log \in Nat /\ edit.next \in Nat
BY DEF TypeInv, TypeOK, VersionTypeOK, ProcessTypeOK, VersionEdit

LEMMA OpeningLogs == ASSUME TypeInv, LogInv, Opening PROVE LogInv'
<1> USE DEF RecoveredSteps, OpenSteps
<1>1. CASE NewDBCreate
  <2>1. ManifestLogs'
    <3>1. \A m \in DOMAIN manifests' :
            IF m = 1 THEN manifests'[m] = EmptyManifest
            ELSE m \in DOMAIN manifests /\ manifests'[m] = manifests[m]
      BY <1>1 DEF NewDBCreate, NewWritableFile
    <3>2. ~ EmptyManifest.complete
      BY DEF EmptyManifest
    <3> QED BY <3>1, <3>2 DEF LogInv, ManifestLogs
  <2>2. vpc' = "idle" /\ pc' = "newdb_record"
    BY <1>1 DEF NewDBCreate, LogInv, EditLogs
  <2> QED BY <2>1, <2>2 DEF LogInv, EditLogs, LogNumberKept
<1>2. CASE NewDBRecord
  <2>1. ManifestLogs'
    <3> DEFINE first == [log |-> 0, next |-> 2, added |-> <<>>]
    <3>1. WithEdit(manifests[1], first).log = 0 /\ WithEdit(manifests[1], first).next = 2
      BY DEF WithEdit
    <3>2. manifests' = manifests \/ manifests' = [manifests EXCEPT ![1] = WithEdit(@, first)]
      BY <1>2 DEF NewDBRecord
    <3>3. \A m \in DOMAIN manifests' : m \in DOMAIN manifests
            /\ (manifests'[m] = manifests[m] \/ manifests'[m] = WithEdit(manifests[1], first))
      BY <3>2 DEF TypeInv, TypeOK, VersionTypeOK, IsDirectoryOf
    <3> HIDE DEF first
    <3> QED BY <3>1, <3>3 DEF LogInv, ManifestLogs
  <2>2. vpc' = "idle" /\ pc' = "newdb_current"
    BY <1>2 DEF NewDBRecord, LogInv, EditLogs
  <2> QED BY <2>1, <2>2 DEF LogInv, EditLogs, LogNumberKept
<1>3. CASE NewDBCurrent
  <2>1. vpc' = "idle" /\ pc' = "recover" /\ manifests' = manifests
    BY <1>3 DEF NewDBCurrent, LogInv, EditLogs
  <2> QED BY <2>1 DEF LogInv, ManifestLogs, EditLogs, LogNumberKept
<1>4. CASE NewDBFails \/ RecoverVersionsFails \/ ReplayAborts \/ RecoveryTableAborts
             \/ RecoveryTableFails
  BY <1>4, EndLogs
  DEF NewDBFails, RecoverVersionsFails, ReplayAborts, RecoveryTableAborts, RecoveryTableFails
<1>5. CASE RecoverVersions
  <2>1. current \in DOMAIN manifests /\ manifests[current].complete
    BY <1>5 DEF RecoverVersions, Recover, Recoverable
  <2>2. manifests[current].log < manifests[current].next
    BY <2>1 DEF LogInv, ManifestLogs
  <2>3. /\ log_number' = manifests[current].log
        /\ next_file_number' = manifests[current].next + 1
        /\ UNCHANGED <<current, manifests, edit, vpc>> /\ pc = "recover" /\ pc' = "replay"
    BY <1>5 DEF RecoverVersions, Recover
  <2>4. log_number' < next_file_number' /\ log_number' <= manifests[current].log
    BY <2>1, <2>2, <2>3, ManifestLog
  <2>5. vpc' = "idle"
    BY <2>3 DEF LogInv, EditLogs
  <2> QED BY <2>3, <2>4, <2>5 DEF LogInv, ManifestLogs, EditLogs, LogNumberKept, Recoverable
<1>6. CASE Replay \/ RecoveryTableCreate \/ RecoveryTableWrite
  <2>1. /\ UNCHANGED <<current, manifests, manifest_file_number, log_number, edit, vpc>>
        /\ pc \in {"replay", "table0_create", "table0_write"}
        /\ pc' \in {"table0_create", "table0_write", "open_log"}
    BY <1>6 DEF Replay, RecoveryTableCreate, RecoveryTableWrite
  <2>2. next_file_number' >= next_file_number /\ next_file_number' \in Nat
    <3>1. DOMAIN logs \subseteq Nat
      BY DEF TypeInv, TypeOK, ProcessTypeOK, IsDirectoryOf
    <3> QED BY <1>6, <3>1, CounterTypes
            DEF Replay, Marked, RecoveryTableCreate, RecoveryTableWrite
  <2>3. log_number < next_file_number'
    BY <2>1, <2>2, CounterTypes DEF LogInv, LogNumberKept
  <2> QED BY <2>1, <2>3, MoveLogs
<1>7. CASE OpenLog
  <2>1. /\ pc = "open_log" /\ pc' = "apply"
        /\ next_file_number' = next_file_number + 1
        /\ edit'.log = next_file_number /\ edit'.next = next_file_number + 1
        /\ vpc' \in {"create", "record"}
        /\ UNCHANGED <<current, manifests, manifest_file_number, log_number>>
    BY <1>7 DEF OpenLog, LogAndApply
  <2>2. log_number < next_file_number
    BY <2>1 DEF LogInv, LogNumberKept
  <2> QED BY <2>1, <2>2, CounterTypes
          DEF LogInv, ManifestLogs, EditLogs, LogNumberKept, Recoverable
<1> QED BY <1>1, <1>2, <1>3, <1>4, <1>5, <1>6, <1>7 DEF Opening

\* LogAndApply writes to manifests what its edit says, and takes it over afterwards.
LEMMA ApplyLogs == ASSUME TypeInv, LogInv, Apply PROVE LogInv'
<1> USE DEF RecoveredSteps, OpenSteps
<1>1. /\ pc = "apply" /\ pc' = "apply"
      /\ UNCHANGED <<next_file_number, manifest_file_number, edit, logfile_number>>
  BY DEF Apply, ApplyStep, CreateDescriptor, WriteSnapshot, AppendEdit, InstallCurrent,
         ApplyFails
<1>2. log_number < next_file_number
  BY <1>1 DEF LogInv, LogNumberKept
<1> DEFINE mine == manifest_file_number
<1>3. CASE CreateDescriptor
  <2>1. \A m \in DOMAIN manifests' :
          IF m = mine THEN manifests'[m] = EmptyManifest
          ELSE m \in DOMAIN manifests /\ manifests'[m] = manifests[m]
    BY <1>3 DEF CreateDescriptor, NewWritableFile
  <2>2. ~ EmptyManifest.complete
    BY DEF EmptyManifest
  <2>3. vpc = "create" /\ vpc' = "snapshot" /\ UNCHANGED <<current, log_number>>
    BY <1>3 DEF CreateDescriptor
  <2> QED BY <1>1, <1>2, <2>1, <2>2, <2>3
          DEF LogInv, ManifestLogs, EditLogs, LogNumberKept, Recoverable
<1>4. CASE WriteSnapshot
  <2>1. \A m \in DOMAIN manifests' : m \in DOMAIN manifests
          /\ manifests'[m].complete = manifests[m].complete
          /\ manifests'[m].log = manifests[m].log /\ manifests'[m].next = manifests[m].next
    <3>1. manifests' = [manifests EXCEPT ![mine] = WithSnapshot(@, files)]
      BY <1>4 DEF WriteSnapshot
    <3>2. \A m \in DOMAIN manifests' : m \in DOMAIN manifests
            /\ manifests'[m] = IF m = mine THEN WithSnapshot(manifests[m], files)
                               ELSE manifests[m]
      BY <3>1 DEF TypeInv, TypeOK, VersionTypeOK, IsDirectoryOf
    <3>3. \A m \in DOMAIN manifests :
            LET w == WithSnapshot(manifests[m], files)
            IN  /\ w.complete = manifests[m].complete
                /\ w.log = manifests[m].log /\ w.next = manifests[m].next
      BY ManifestLog DEF WithSnapshot, Manifest
    <3> QED BY <3>2, <3>3
  <2>2. vpc = "snapshot" /\ vpc' = "record" /\ UNCHANGED <<current, log_number>>
          /\ DOMAIN manifests' = DOMAIN manifests
    BY <1>4 DEF WriteSnapshot, TypeInv, TypeOK, VersionTypeOK, IsDirectoryOf
  <2> QED BY <1>1, <1>2, <2>1, <2>2
          DEF LogInv, ManifestLogs, EditLogs, LogNumberKept, Recoverable
<1>5. CASE AppendEdit
  <2>1. \A m \in DOMAIN manifests' :
          /\ m \in DOMAIN manifests
          /\ m # mine => manifests'[m] = manifests[m]
          /\ m = mine => manifests'[m].log = edit.log /\ manifests'[m].next = edit.next
    <3>1. manifests' = [manifests EXCEPT ![mine] = WithEdit(@, edit)]
      BY <1>5 DEF AppendEdit
    <3>2. \A m \in DOMAIN manifests' : m \in DOMAIN manifests
            /\ manifests'[m] = IF m = mine THEN WithEdit(manifests[m], edit)
                               ELSE manifests[m]
      BY <3>1 DEF TypeInv, TypeOK, VersionTypeOK, IsDirectoryOf
    <3>3. \A m \in DOMAIN manifests :
            WithEdit(manifests[m], edit).log = edit.log
              /\ WithEdit(manifests[m], edit).next = edit.next
      BY DEF WithEdit
    <3> QED BY <3>2, <3>3
  <2>2. vpc = "record" /\ vpc' = "current" /\ UNCHANGED <<current, log_number>>
          /\ DOMAIN manifests' = DOMAIN manifests
    BY <1>5 DEF AppendEdit, TypeInv, TypeOK, VersionTypeOK, IsDirectoryOf
  <2>3. log_number <= edit.log /\ edit.log < edit.next
    BY <2>2 DEF LogInv, EditLogs
  <2>4. ManifestLogs'
    BY <2>1, <2>3 DEF LogInv, ManifestLogs
  <2>5. EditLogs'
    BY <1>1, <2>1, <2>2 DEF LogInv, EditLogs
  <2>6. Recoverable' => log_number <= manifests'[current].log
    <3>1. CASE current = mine
      BY <2>1, <2>2, <2>3, <3>1 DEF Recoverable
    <3>2. CASE current # mine
      BY <1>1, <2>1, <2>2, <3>2 DEF Recoverable, LogInv, LogNumberKept
    <3> QED BY <3>1, <3>2
  <2> QED BY <1>1, <1>2, <2>2, <2>4, <2>5, <2>6 DEF LogInv, LogNumberKept
<1>6. CASE InstallCurrent
  <2>1. /\ vpc = "current" /\ vpc' = "done" /\ UNCHANGED manifests
        /\ current' = mine /\ log_number' = edit.log
    BY <1>6 DEF InstallCurrent
  <2>2. /\ edit.log < edit.next
        /\ edit.next <= next_file_number
        /\ mine \in DOMAIN manifests => manifests[mine].log = edit.log
    BY <2>1 DEF LogInv, EditLogs
  <2>3. edit.log < next_file_number
    BY <2>2, CounterTypes
  <2> QED BY <1>1, <2>1, <2>2, <2>3, CounterTypes
          DEF LogInv, ManifestLogs, EditLogs, LogNumberKept, Recoverable
<1>7. CASE ApplyFails
  <2>1. \A m \in DOMAIN manifests' : m \in DOMAIN manifests /\ manifests'[m] = manifests[m]
    BY <1>7 DEF ApplyFails, DeleteFile
  <2>2. vpc' \in {"done", "failed"} /\ UNCHANGED <<current, log_number>>
    BY <1>7 DEF ApplyFails
  <2> QED BY <1>1, <1>2, <2>1, <2>2
          DEF LogInv, ManifestLogs, EditLogs, LogNumberKept, Recoverable
<1> QED BY <1>3, <1>4, <1>5, <1>6, <1>7 DEF Apply, ApplyStep

LEMMA ApplyingLogs == ASSUME TypeInv, LogInv, Applying PROVE LogInv'
<1> USE DEF RecoveredSteps, OpenSteps
<1>1. CASE Apply
  BY <1>1, ApplyLogs
<1>2. CASE ApplyWild
  BY <1>2, EndLogs DEF ApplyWild
<1>3. CASE Applied \/ NotApplied
  <2>1. /\ UNCHANGED <<current, manifests, log_number, next_file_number>>
        /\ pc = "apply" /\ pc' \in {"gc", "idle", "append"} /\ vpc' = "idle"
    BY <1>3 DEF Applied, NotApplied, ApplyReturns, Resume
  <2> QED BY <2>1 DEF LogInv, ManifestLogs, EditLogs, LogNumberKept, Recoverable
<1>4. CASE RemoveObsoleteLog \/ RemovedObsoleteFiles
  <2>1. UNCHANGED versionVars /\ pc = "gc" /\ pc' \in {"gc", "idle", "append"}
    BY <1>4 DEF RemoveObsoleteLog, RemovedObsoleteFiles, Resume
  <2>2. log_number < next_file_number
    BY <2>1 DEF LogInv, LogNumberKept
  <2> QED BY <2>1, <2>2, MoveLogs
<1>5. CASE RemoveObsoleteManifest
  <2>1. \A m \in DOMAIN manifests' : m \in DOMAIN manifests /\ manifests'[m] = manifests[m]
    BY <1>5 DEF RemoveObsoleteManifest, DeleteFile
  <2>2. UNCHANGED <<current, inMemory, pc, logfile_number>> /\ pc = "gc"
    BY <1>5 DEF RemoveObsoleteManifest
  <2>3. vpc = "idle"
    BY <2>2 DEF LogInv, EditLogs
  <2> QED BY <2>1, <2>2, <2>3 DEF LogInv, ManifestLogs, EditLogs, LogNumberKept, Recoverable
<1> QED BY <1>1, <1>2, <1>3, <1>4, <1>5 DEF Applying

LEMMA WritingLogs == ASSUME TypeInv, LogInv, Writing PROVE LogInv'
<1> USE DEF RecoveredSteps, OpenSteps
<1>1. CASE SwitchMemTable
  <2>1. /\ UNCHANGED <<current, manifests, manifest_file_number, log_number, edit, vpc>>
        /\ pc = "room" /\ pc' = "flush_create"
        /\ logfile_number' = next_file_number /\ next_file_number' = next_file_number + 1
    BY <1>1 DEF SwitchMemTable
  <2>2. log_number < next_file_number
    BY <2>1 DEF LogInv, LogNumberKept
  <2> QED BY <2>1, <2>2, CounterTypes, MoveLogs
<1>2. CASE FlushAborts \/ InsertAborts
  BY <1>2, EndLogs DEF FlushAborts, InsertAborts
<1>3. CASE FlushWrite
  <2>1. /\ pc = "flush_write" /\ pc' = "apply"
        /\ UNCHANGED <<current, manifests, manifest_file_number, log_number,
                       next_file_number, logfile_number>>
        /\ edit'.log = logfile_number /\ edit'.next = next_file_number
        /\ vpc' \in {"create", "record"}
    BY <1>3 DEF FlushWrite, LogAndApply
  <2>2. log_number <= logfile_number /\ logfile_number < next_file_number
          /\ log_number < next_file_number
    BY <2>1 DEF LogInv, LogNumberKept
  <2> QED BY <2>1, <2>2, CounterTypes
          DEF LogInv, ManifestLogs, EditLogs, LogNumberKept, Recoverable
<1>4. CASE FlushCreate
  <2>1. UNCHANGED <<versionVars, logfile_number>> /\ pc = "flush_create"
          /\ pc' = "flush_write"
    BY <1>4 DEF FlushCreate
  <2> QED BY <2>1, MoveLogs DEF LogInv, LogNumberKept
<1>5. CASE RoomLeft \/ AwaitFlush \/ FlushFails \/ AppendToLog \/ InsertInto
  <2>1. /\ UNCHANGED versionVars
        /\ pc \in {"room", "flush_write", "append", "insert"}
        /\ pc' \in {"room", "idle", "append", "insert"}
    BY <1>5 DEF RoomLeft, AwaitFlush, FlushFails, AppendToLog, InsertInto, Resume, vars
  <2> QED BY <2>1, MoveLogs DEF LogInv, LogNumberKept
<1> QED BY <1>1, <1>2, <1>3, <1>4, <1>5 DEF Writing

LEMMA NextLogs == ASSUME TypeInv, LogInv, [Next]_vars PROVE LogInv'
<1> USE DEF RecoveredSteps, OpenSteps
<1>1. CASE CallStep
  BY <1>1, OpeningLogs, ApplyingLogs, WritingLogs DEF CallStep
<1>2. CASE OpenDB
  <2>1. vpc' = "idle" /\ pc' \in {"newdb_create", "recover"} /\ UNCHANGED manifests
    BY <1>2 DEF OpenDB, NewVersionSet
  <2> QED BY <2>1 DEF LogInv, ManifestLogs, EditLogs, LogNumberKept
<1>3. ASSUME NEW b \in Batches \union {NULL}, Write(b) PROVE LogInv'
  <2>1. UNCHANGED versionVars /\ pc = "idle" /\ pc' = "room"
    BY <1>3 DEF Write
  <2> QED BY <2>1, MoveLogs DEF LogInv, LogNumberKept
<1>4. ASSUME NEW k \in Key, GetThrows(k) PROVE LogInv'
  BY <1>4, EndLogs DEF GetThrows
<1>5. CASE Crash
  BY <1>5, EndLogs DEF Crash
<1>6. CASE UNCHANGED vars
  BY <1>6 DEF vars, LogInv, ManifestLogs, EditLogs, LogNumberKept, Recoverable
<1> QED BY <1>1, <1>2, <1>3, <1>4, <1>5, <1>6 DEF Next, Client

\* Whatever fails, and also when LogAndApply has failed and returned OK: removeObsoleteFiles
\* goes by log_number_, which is never ahead of the manifest that the next Open reads, if it
\* can read one.
THEOREM LogsAreOutlived == Spec => LogsOutlived
<1> DEFINE Outlived == \A n \in DOMAIN logs \ DOMAIN logs' :
                         Recoverable => manifests[current].log > n
<1>1. TypeInv /\ LogInv /\ [Next]_vars => [Outlived]_vars
  <2> SUFFICES ASSUME TypeInv, LogInv, Next PROVE Outlived
    OBVIOUS
  <2>1. CASE RemoveObsoleteLog
    <3>1. PICK n \in ObsoleteLogs : logs' = DeleteFile(logs, n)
      BY <2>1 DEF RemoveObsoleteLog
    <3>2. n < log_number /\ n \in Nat /\ DOMAIN logs \ DOMAIN logs' \subseteq {n}
      BY <3>1 DEF ObsoleteLogs, DeleteFile, TypeInv, TypeOK, ProcessTypeOK, IsDirectoryOf
    <3>3. Recoverable => log_number <= manifests[current].log
      BY <2>1 DEF RemoveObsoleteLog, LogInv, LogNumberKept, RecoveredSteps, OpenSteps
    <3>4. Recoverable => manifests[current].log \in Nat
      BY ManifestLog DEF Recoverable
    <3> QED BY <3>2, <3>3, <3>4, CounterTypes
  <2>2. CASE ~ RemoveObsoleteLog
    <3>1. DOMAIN logs \subseteq DOMAIN logs'
      <4>1. ASSUME Opening PROVE DOMAIN logs \subseteq DOMAIN logs'
        BY <4>1 DEF Opening, NewDBCreate, NewDBRecord, NewDBCurrent, NewDBFails,
           RecoverVersions, RecoverVersionsFails, Replay, ReplayAborts, RecoveryTableCreate,
           RecoveryTableAborts, RecoveryTableWrite, RecoveryTableFails, OpenLog,
           NewWritableFile
      <4>2. ASSUME Applying PROVE logs' = logs
        BY <2>2, <4>2 DEF Applying, Apply, ApplyWild, Applied, NotApplied,
           RemoveObsoleteManifest, RemovedObsoleteFiles
      <4>3. ASSUME Writing PROVE DOMAIN logs \subseteq DOMAIN logs'
        <5>1. CASE AppendToLog
          BY <5>1 DEF AppendToLog
        <5> QED BY <4>3, <5>1 DEF Writing, RoomLeft, AwaitFlush, SwitchMemTable, FlushCreate,
                FlushAborts, FlushWrite, FlushFails, InsertInto, InsertAborts, vars
      <4>4. ASSUME Client \/ Crash PROVE logs' = logs
        BY <4>4 DEF Client, Crash, OpenDB, Write, GetThrows
      <4> QED BY <4>1, <4>2, <4>3, <4>4 DEF Next, CallStep
    <3> QED BY <3>1
  <2> QED BY <2>1, <2>2
<1>2. Init => TypeInv /\ LogInv
  BY InitTyped, InitLogs
<1>3. TypeInv /\ LogInv /\ [Next]_vars => (TypeInv /\ LogInv)'
  BY NextTyped, NextLogs
<1> QED BY <1>1, <1>2, <1>3, PTL DEF Spec, LogsOutlived

----------------------------------------------------------------------------------
\* There is no memtable before recover() is done (DB's constructor, ProcessEnds).
MemAbsent == pc \notin OpenSteps => mem = NULL /\ imm = NULL

LEMMA NextAbsent == ASSUME MemAbsent, [Next]_vars PROVE MemAbsent'
<1>1. CASE ProcessEnds
  BY <1>1 DEF ProcessEnds, MemAbsent
<1>2. CASE pc \notin OpenSteps /\ UNCHANGED <<mem, imm>>
  BY <1>2 DEF MemAbsent
<1>3. CASE pc' \in OpenSteps
  BY <1>3 DEF MemAbsent
<1>4. CASE Opening
  BY <1>1, <1>2, <1>3, <1>4
  DEF Opening, OpenSteps, NewDBCreate, NewDBRecord, NewDBCurrent, NewDBFails, RecoverVersions,
      RecoverVersionsFails, Replay, ReplayAborts, RecoveryTableCreate, RecoveryTableAborts,
      RecoveryTableWrite, RecoveryTableFails, OpenLog
<1>5. CASE Applying
  BY <1>1, <1>3, <1>5
  DEF Applying, OpenSteps, Apply, ApplyWild, Applied, NotApplied, RemoveObsoleteLog,
      RemoveObsoleteManifest, RemovedObsoleteFiles, Resume
<1>6. CASE Writing
  <2>1. CASE AwaitFlush
    BY <2>1, <1>3 DEF AwaitFlush, OpenSteps, vars
  <2> QED BY <1>1, <1>3, <1>6, <2>1
          DEF Writing, OpenSteps, RoomLeft, SwitchMemTable, FlushCreate, FlushAborts,
              FlushWrite, FlushFails, AppendToLog, InsertInto, InsertAborts, Resume
<1>7. CASE Client \/ Crash
  BY <1>1, <1>2, <1>3, <1>7 DEF Client, Crash, OpenDB, Write, GetThrows, OpenSteps
<1>8. CASE UNCHANGED vars
  BY <1>8 DEF vars, MemAbsent
<1> QED BY <1>4, <1>5, <1>6, <1>7, <1>8 DEF Next, CallStep

\* Memtables are finite: InsertInto adds the entries of one batch.
MemFinite == pc \in OpenSteps => IsFiniteSet(mem) /\ IsFiniteSet(Contents(imm))

LEMMA EntriesFinite == ASSUME NEW b \in Batches PROVE IsFiniteSet(EntriesOf(b))
<1> DEFINE f == [i \in 1..Len(b) |-> [key |-> b[i].key, seq |-> i - 1, type |-> b[i].type,
                                      value |-> b[i].value]]
<1>1. b \in Seq(Op) /\ IsFiniteSet(1..Len(b))
  BY BatchesAssumption, FS_Interval
<1>2. DOMAIN b = 1..Len(b)
  BY <1>1
<1>3. f \in Surjection(1..Len(b), EntriesOf(b))
  BY <1>2 DEF Surjection, EntriesOf
<1> QED BY <1>1, <1>3, FS_Surjection

LEMMA NextFinite ==
  ASSUME TypeInv, MemAbsent, MemFinite, [Next]_vars
  PROVE  MemFinite'
<1>1. CASE pc' \notin OpenSteps
  BY <1>1 DEF MemFinite
<1>2. CASE pc \in OpenSteps /\ mem' = mem /\ (imm' = imm \/ imm' = NULL)
  BY <1>2, FS_EmptySet DEF MemFinite, Contents
<1>3. CASE Opening
  <2>1. CASE OpenLog
    <3>1. mem' = {} /\ imm' = NULL
      BY <2>1 DEF OpenLog, MemAbsent, OpenSteps
    <3> QED BY <3>1, FS_EmptySet DEF MemFinite, Contents
  <2> QED BY <1>1, <1>3, <2>1
          DEF Opening, OpenSteps, NewDBCreate, NewDBRecord, NewDBCurrent, NewDBFails,
              RecoverVersions, RecoverVersionsFails, Replay, ReplayAborts,
              RecoveryTableCreate, RecoveryTableAborts, RecoveryTableWrite,
              RecoveryTableFails, ProcessEnds
<1>4. CASE Applying
  BY <1>1, <1>2, <1>4
  DEF Applying, OpenSteps, Apply, ApplyWild, Applied, NotApplied, RemoveObsoleteLog,
      RemoveObsoleteManifest, RemovedObsoleteFiles, ProcessEnds
<1>5. CASE Writing
  <2>1. CASE SwitchMemTable
    <3>1. mem' = {} /\ imm' = mem /\ pc = "room"
      BY <2>1 DEF SwitchMemTable
    <3>2. IsFiniteSet(mem)
      BY <3>1 DEF MemFinite, OpenSteps
    <3> QED BY <3>1, <3>2, FS_EmptySet DEF MemFinite, Contents
  <2>2. CASE InsertInto
    <3>1. /\ mem' = mem \union EntriesOf(batch) /\ imm' = imm
          /\ pc = "insert" /\ batch \in Batches
      BY <2>2 DEF InsertInto, TypeInv, PhaseOK
    <3>2. IsFiniteSet(mem) /\ IsFiniteSet(Contents(imm)) /\ IsFiniteSet(EntriesOf(batch))
      BY <3>1, EntriesFinite DEF MemFinite, OpenSteps
    <3>3. IsFiniteSet(mem')
      BY <3>1, <3>2, FS_Union
    <3> QED BY <3>1, <3>2, <3>3 DEF MemFinite, Contents
  <2>3. CASE AwaitFlush
    BY <2>3 DEF AwaitFlush, vars, MemFinite, Contents
  <2> QED BY <1>1, <1>2, <1>5, <2>1, <2>2, <2>3
          DEF Writing, OpenSteps, RoomLeft, FlushCreate, FlushAborts, FlushWrite, FlushFails,
              AppendToLog, InsertAborts, ProcessEnds
<1>6. CASE Client \/ Crash
  BY <1>1, <1>2, <1>6 DEF Client, Crash, OpenDB, Write, GetThrows, OpenSteps, ProcessEnds
<1>7. CASE UNCHANGED vars
  BY <1>7 DEF vars, MemFinite, Contents
<1> QED BY <1>3, <1>4, <1>5, <1>6, <1>7 DEF Next, CallStep

----------------------------------------------------------------------------------
(***************************************************************************)
(* The ranges of tables, and lookups in memtables.                         *)
(***************************************************************************)
\* The bounds of a table, taken in the order of the memtable, are right bytewise for keys
\* of one length.
LEMMA OneLengthOverlaps ==
  ASSUME NEW S \in SUBSET Entry, IsFiniteSet(S), SameLength(S), NEW e \in S,
         NEW meta, meta.built = S
  PROVE  Overlaps(meta, e.key)
<1> DEFINE first == FirstEntry(S)
           final == LastEntry(S)
<1>1. /\ first \in S /\ (first = e \/ Before(first, e))
      /\ final \in S /\ (final = e \/ Before(e, final))
  BY FirstAndLast
<1> HIDE DEF first, final
<1>2. first.key[1] = e.key[1] /\ final.key[1] = e.key[1]
  BY <1>1 DEF SameLength
<1>3. first.key[2] <= e.key[2] /\ e.key[2] <= final.key[2]
  BY <1>1, <1>2, BeforeIs, EntryFields
<1> QED BY <1>3 DEF Overlaps, first, final

\* ForEachOverlapping settles on the last file, if that overlaps.
LEMMA LastFileFor ==
  ASSUME NEW fs \in Seq(FileMetaData), fs # <<>>, NEW k, Overlaps(fs[Len(fs)], k)
  PROVE  FileFor(fs, k) = fs[Len(fs)].number
<1> DEFINE hits == {i \in DOMAIN fs : Overlaps(fs[i], k)}
<1>1. Len(fs) \in hits /\ hits \subseteq 1..Len(fs)
  OBVIOUS
<1>2. FileFor(fs, k) = IF hits = {} THEN 0
                       ELSE fs[CHOOSE i \in hits : \A j \in hits : j <= i].number
  BY DEF FileFor
<1> HIDE DEF hits
<1>3. \A j \in hits : j <= Len(fs)
  BY <1>1
<1>4. \A i \in hits : (\A j \in hits : j <= i) => i = Len(fs)
  BY <1>1
<1>5. (CHOOSE i \in hits : \A j \in hits : j <= i) = Len(fs)
  BY ONLY <1>1, <1>3, <1>4, Zenon
<1> QED BY <1>1, <1>2, <1>5

\* NULL, which stands for a null pointer, is not also a set of entries.
NullIsNoMemTable == NULL \notin SUBSET Entry

\* A Put is found by Get of its key unless the same memtable holds another entry of the
\* key, whatever else is in imm_ or in tables, and whatever has failed.
THEOREM FirstPutAlwaysReadable ==
  ASSUME NullIsNoMemTable
  PROVE  Spec => []FirstPutReadable
<1>1. TypeInv => FirstPutReadable
  <2> SUFFICES ASSUME TypeInv, pc = "idle", last # NULL,
                      {e \in mem : e.key = last.key} =
                        EntriesOf(<<PutOp(last.key, last.value)>>)
               PROVE  GetResult(last.key) = last.value
    BY DEF FirstPutReadable
  <2>1. mem \in SUBSET Entry
    BY DEF TypeInv, PhaseOK, OpenSteps
  <2>2. last.key \in Key /\ last.value \in Value \union {EmptyValue}
    BY DEF TypeInv, TypeOK, ProcessTypeOK
  <2>3. MemTableGet(mem, last.key) = last.value
    BY <2>1, <2>2, OnlyEntryFound
  <2>4. last.value # NULL /\ Contents(mem) \in {{}, mem}
    BY <2>2, NullAssumption DEF Contents
  <2>5. mem # NULL
    BY <2>1 DEF NullIsNoMemTable
  <2> QED BY <2>3, <2>4, <2>5 DEF GetResult, Contents
<1>2. Init => TypeInv
  BY InitTyped
<1>3. TypeInv /\ [Next]_vars => TypeInv'
  BY NextTyped
<1> QED BY <1>1, <1>2, <1>3, PTL DEF Spec
----------------------------------------------------------------------------------
(***************************************************************************)
(* Until the first flush of a session every acknowledged write is on the   *)
(* disk, for every value of the constants, however often the database is   *)
(* opened, and whatever fails but the writes to a log.                     *)
(***************************************************************************)

\* The entries of the batches in log n.
LogEntries(n) == UNION {EntriesOf(logs[n][i]) : i \in DOMAIN logs[n]}

----------------------------------------------------------------------------------
(***************************************************************************)
(* The files of the version are in the manifest CURRENT names: LogAndApply *)
(* installs a version when its files are in the manifest it wrote.         *)
(***************************************************************************)
\* The files Recover would find in manifest n.
Recorded(n) == Metas(manifests[n].added)

\* The manifest that is open has the version in it once writeSnapshot has run.
DescriptorRecorded == descriptor_file = "open" =>
  /\ manifest_file_number \in DOMAIN manifests
  /\ vpc # "snapshot" => Metas(files) \subseteq Recorded(manifest_file_number)

NothingLoaded ==
  pc \in NewDBSteps \union {"recover"} => files = <<>> /\ descriptor_file # "open"

FilesRecorded ==
  pc \in RecoveredSteps /\ Recoverable => Metas(files) \subseteq Recorded(current)

EditRecorded ==
  /\ vpc = "idle" <=> pc # "apply"
  /\ vpc \in {"snapshot", "current"} => descriptor_file = "open"
  /\ vpc = "current" => Metas(edit.added) \subseteq Recorded(manifest_file_number)

RecordInv == DescriptorRecorded /\ NothingLoaded /\ FilesRecorded /\ EditRecorded

\* What is in manifests is in the types of Manifest, and the version and the edit list files.
LEMMA ListTypes ==
  ASSUME TypeInv
  PROVE  /\ files \in Seq(FileMetaData)
         /\ edit.added \in Seq(FileMetaData)
         /\ \A m \in DOMAIN manifests : /\ manifests[m] \in Manifest
                                        /\ manifests[m].added \in Seq(FileMetaData)
         /\ manifest_file_number \in Nat
BY DEF TypeInv, TypeOK, VersionTypeOK, IsDirectoryOf, VersionEdit, Manifest

LEMMA InitRecorded == Init => RecordInv
BY DEF Init, RecordInv, DescriptorRecorded, NothingLoaded, FilesRecorded, EditRecorded,
       NewDBSteps, RecoveredSteps, OpenSteps

LEMMA EndRecorded == ASSUME ProcessEnds PROVE RecordInv'
BY DEF ProcessEnds, ForgetVersions, RecordInv, DescriptorRecorded, NothingLoaded,
       FilesRecorded, EditRecorded, NewDBSteps, RecoveredSteps, OpenSteps

\* A step that leaves the version set and the manifests alone.
LEMMA MoveRecorded ==
  ASSUME RecordInv, UNCHANGED versionVars,
         pc # "apply", pc' # "apply",
         pc' \in RecoveredSteps => pc \in RecoveredSteps,
         pc' \notin NewDBSteps \union {"recover"}
  PROVE  RecordInv'
BY DEF RecordInv, DescriptorRecorded, NothingLoaded, FilesRecorded, EditRecorded, Recoverable,
       Recorded

LEMMA OpeningRecorded == ASSUME TypeInv, RecordInv, Opening PROVE RecordInv'
<1> USE DEF NewDBSteps, RecoveredSteps, OpenSteps
<1>1. CASE NewDBCreate \/ NewDBRecord \/ NewDBCurrent
  <2>1. /\ pc \in NewDBSteps /\ pc' \in NewDBSteps \union {"recover"}
        /\ UNCHANGED inMemory
        /\ DOMAIN manifests \subseteq DOMAIN manifests'
    BY <1>1 DEF NewDBCreate, NewDBRecord, NewDBCurrent, NewWritableFile
  <2>2. vpc = "idle" /\ files = <<>> /\ descriptor_file # "open"
    BY <2>1 DEF RecordInv, EditRecorded, NothingLoaded
  <2> QED BY <2>1, <2>2
          DEF RecordInv, DescriptorRecorded, NothingLoaded, FilesRecorded, EditRecorded
<1>2. CASE NewDBFails \/ RecoverVersionsFails \/ ReplayAborts \/ RecoveryTableAborts
             \/ RecoveryTableFails
  BY <1>2, EndRecorded
  DEF NewDBFails, RecoverVersionsFails, ReplayAborts, RecoveryTableAborts, RecoveryTableFails
<1>3. CASE RecoverVersions
  <2>1. /\ pc = "recover" /\ pc' = "replay" /\ Recoverable
        /\ files' = SaveTo(files, manifests[current].added)
        /\ UNCHANGED <<onDisk, descriptor_file, edit, vpc>>
    BY <1>3 DEF RecoverVersions, Recover
  <2>2. files = <<>> /\ vpc = "idle" /\ descriptor_file # "open"
    BY <2>1 DEF RecordInv, NothingLoaded, EditRecorded
  <2>3. Metas(files') \subseteq Recorded(current)
    <3>1. Metas(files) = {}
      BY <2>2 DEF Metas
    <3> QED BY <2>1, <3>1, ListTypes, MetasSaveTo DEF Recoverable, Recorded
  <2> QED BY <2>1, <2>2, <2>3
          DEF RecordInv, DescriptorRecorded, NothingLoaded, FilesRecorded, EditRecorded,
              Recoverable, Recorded
<1>4. CASE Replay
  <2>1. /\ pc = "replay" /\ pc' \in {"open_log", "table0_create"}
        /\ UNCHANGED <<onDisk, manifest_file_number, files, descriptor_file, edit, vpc>>
    BY <1>4 DEF Replay
  <2> QED BY <2>1 DEF RecordInv, DescriptorRecorded, NothingLoaded, FilesRecorded, EditRecorded,
                      Recoverable, Recorded
<1>5. CASE RecoveryTableCreate \/ RecoveryTableWrite
  <2>1. /\ pc \in {"table0_create", "table0_write"} /\ pc' \in {"table0_write", "open_log"}
        /\ UNCHANGED versionVars
    BY <1>5 DEF RecoveryTableCreate, RecoveryTableWrite
  <2> QED BY <2>1, MoveRecorded
<1>6. CASE OpenLog
  <2>1. /\ pc = "open_log" /\ pc' = "apply"
        /\ vpc' = IF descriptor_file = "null" THEN "create" ELSE "record"
        /\ UNCHANGED <<onDisk, manifest_file_number, files, descriptor_file>>
    BY <1>6 DEF OpenLog, LogAndApply
  <2> QED BY <2>1
          DEF RecordInv, DescriptorRecorded, NothingLoaded, FilesRecorded, EditRecorded,
              Recoverable, Recorded
<1> QED BY <1>1, <1>2, <1>3, <1>4, <1>5, <1>6 DEF Opening

\* LogAndApply writes the files of the version and of the edit before it installs them.
LEMMA ApplyRecorded == ASSUME TypeInv, RecordInv, Apply PROVE RecordInv'
<1> USE DEF RecoveredSteps, OpenSteps
<1> DEFINE mine == manifest_file_number
<1>1. pc = "apply" /\ pc' = "apply" /\ UNCHANGED <<manifest_file_number, edit>>
  BY DEF Apply, ApplyStep, CreateDescriptor, WriteSnapshot, AppendEdit, InstallCurrent,
         ApplyFails
<1>2. NothingLoaded'
  BY <1>1 DEF NothingLoaded, NewDBSteps
<1>3. \A m \in DOMAIN manifests : m \in DOMAIN manifests' /\ manifests'[m] = manifests[m]
        => Recorded(m)' = Recorded(m)
  BY DEF Recorded
<1>4. Recoverable => Metas(files) \subseteq Recorded(current)
  BY <1>1 DEF RecordInv, FilesRecorded
<1>5. CASE CreateDescriptor
  <2>1. /\ vpc' = "snapshot" /\ descriptor_file' = "open"
        /\ UNCHANGED <<current, files>>
        /\ mine \in DOMAIN manifests' /\ manifests'[mine] = EmptyManifest
        /\ \A m \in DOMAIN manifests' \ {mine} :
             m \in DOMAIN manifests /\ manifests'[m] = manifests[m]
    BY <1>5 DEF CreateDescriptor, NewWritableFile
  <2>2. ~ EmptyManifest.complete
    BY DEF EmptyManifest
  <2>3. FilesRecorded'
    <3> SUFFICES ASSUME Recoverable' PROVE Metas(files) \subseteq Recorded(current)'
      BY <2>1 DEF FilesRecorded
    <3>1. current # mine /\ current \in DOMAIN manifests'
      BY <2>1, <2>2 DEF Recoverable
    <3>2. Recoverable /\ Recorded(current)' = Recorded(current)
      BY <2>1, <3>1 DEF Recoverable, Recorded
    <3> QED BY <1>4, <3>2
  <2> QED BY <1>1, <1>2, <2>1, <2>3 DEF RecordInv, DescriptorRecorded, EditRecorded
<1>6. CASE WriteSnapshot
  <2>1. /\ vpc = "snapshot" /\ vpc' = "record" /\ UNCHANGED <<current, files, descriptor_file>>
        /\ manifests' = [manifests EXCEPT ![mine] = WithSnapshot(@, files)]
    BY <1>6 DEF WriteSnapshot
  <2>2. descriptor_file = "open" /\ mine \in DOMAIN manifests
    BY <2>1 DEF RecordInv, EditRecorded, DescriptorRecorded
  <2>3. /\ DOMAIN manifests' = DOMAIN manifests
        /\ \A m \in DOMAIN manifests \ {mine} : manifests'[m] = manifests[m]
        /\ manifests'[mine] = WithSnapshot(manifests[mine], files)
    BY <2>1, <2>2 DEF TypeInv, TypeOK, VersionTypeOK, IsDirectoryOf
  <2>4. /\ WithSnapshot(manifests[mine], files).added = manifests[mine].added \o files
        /\ WithSnapshot(manifests[mine], files).complete = manifests[mine].complete
    BY <2>2, ListTypes DEF WithSnapshot, Manifest
  <2>5. Recorded(mine)' = Recorded(mine) \union Metas(files)
    <3>1. Recorded(mine)' = Metas(manifests[mine].added \o files)
      BY <1>1, <2>3, <2>4 DEF Recorded
    <3> QED BY <2>2, <3>1, ListTypes, MetasConcat DEF Recorded
  <2>6. FilesRecorded'
    BY <1>1, <1>4, <2>1, <2>3, <2>4, <2>5 DEF FilesRecorded, Recoverable, Recorded
  <2> QED BY <1>1, <1>2, <2>1, <2>2, <2>3, <2>5, <2>6
          DEF RecordInv, DescriptorRecorded, EditRecorded
<1>7. CASE AppendEdit
  <2>1. /\ vpc = "record" /\ vpc' = "current" /\ UNCHANGED <<current, files, descriptor_file>>
        /\ descriptor_file = "open"
        /\ manifests' = [manifests EXCEPT ![mine] = WithEdit(@, edit)]
    BY <1>7 DEF AppendEdit
  <2>2. mine \in DOMAIN manifests /\ Metas(files) \subseteq Recorded(mine)
    BY <2>1 DEF RecordInv, DescriptorRecorded
  <2>3. /\ DOMAIN manifests' = DOMAIN manifests
        /\ \A m \in DOMAIN manifests \ {mine} : manifests'[m] = manifests[m]
        /\ manifests'[mine] = WithEdit(manifests[mine], edit)
    BY <2>1, <2>2 DEF TypeInv, TypeOK, VersionTypeOK, IsDirectoryOf
  <2>4. WithEdit(manifests[mine], edit).added = manifests[mine].added \o edit.added
    BY DEF WithEdit
  <2>5. Recorded(mine)' = Recorded(mine) \union Metas(edit.added)
    <3>1. Recorded(mine)' = Metas(manifests[mine].added \o edit.added)
      BY <1>1, <2>3, <2>4 DEF Recorded
    <3> QED BY <2>2, <3>1, ListTypes, MetasConcat DEF Recorded
  <2>6. FilesRecorded'
    <3> SUFFICES ASSUME Recoverable' PROVE Metas(files) \subseteq Recorded(current)'
      BY <2>1 DEF FilesRecorded
    <3>1. CASE current = mine
      BY <1>1, <2>1, <2>2, <2>5, <3>1
    <3>2. CASE current # mine
      BY <1>4, <2>1, <2>3, <3>2 DEF Recoverable, Recorded
    <3> QED BY <3>1, <3>2
  <2> QED BY <1>1, <1>2, <2>1, <2>2, <2>3, <2>5, <2>6
          DEF RecordInv, DescriptorRecorded, EditRecorded
<1>8. CASE InstallCurrent
  <2>1. /\ vpc = "current" /\ vpc' = "done" /\ UNCHANGED <<manifests, descriptor_file>>
        /\ current' = mine /\ files' = SaveTo(files, edit.added)
    BY <1>8 DEF InstallCurrent
  <2>2. /\ descriptor_file = "open" /\ mine \in DOMAIN manifests
        /\ Metas(files) \subseteq Recorded(mine)
        /\ Metas(edit.added) \subseteq Recorded(mine)
    BY <2>1 DEF RecordInv, DescriptorRecorded, EditRecorded
  <2>3. Metas(files') \subseteq Recorded(mine)
    BY <2>1, <2>2, ListTypes, MetasSaveTo
  <2>4. Recorded(mine)' = Recorded(mine) /\ Recorded(current)' = Recorded(mine)
    BY <1>1, <2>1 DEF Recorded
  <2> QED BY <1>1, <1>2, <2>1, <2>2, <2>3, <2>4
          DEF RecordInv, DescriptorRecorded, FilesRecorded, EditRecorded
<1>9. CASE ApplyFails
  <2>1. /\ vpc' \in {"done", "failed"} /\ descriptor_file' = "null"
        /\ UNCHANGED <<current, files>>
        /\ \A m \in DOMAIN manifests' : m \in DOMAIN manifests /\ manifests'[m] = manifests[m]
    BY <1>9 DEF ApplyFails, DeleteFile
  <2>2. FilesRecorded'
    BY <1>4, <2>1 DEF FilesRecorded, Recoverable, Recorded
  <2> QED BY <1>1, <1>2, <2>1, <2>2 DEF RecordInv, DescriptorRecorded, EditRecorded
<1> QED BY <1>5, <1>6, <1>7, <1>8, <1>9 DEF Apply, ApplyStep

LEMMA ApplyingRecorded == ASSUME TypeInv, RecordInv, Applying PROVE RecordInv'
<1> USE DEF NewDBSteps, RecoveredSteps, OpenSteps
<1>1. CASE Apply
  BY <1>1, ApplyRecorded
<1>2. CASE ApplyWild
  BY <1>2, EndRecorded DEF ApplyWild
<1>3. CASE Applied \/ NotApplied
  <2>1. /\ pc = "apply" /\ pc' \in {"gc", "idle", "append"}
        /\ vpc \in {"done", "failed"} /\ vpc' = "idle"
        /\ UNCHANGED <<onDisk, manifest_file_number, files, descriptor_file>>
    BY <1>3 DEF Applied, NotApplied, ApplyReturns, Resume
  <2> QED BY <2>1
          DEF RecordInv, DescriptorRecorded, NothingLoaded, FilesRecorded, EditRecorded,
              Recoverable, Recorded
<1>4. CASE RemoveObsoleteLog \/ RemovedObsoleteFiles
  <2>1. UNCHANGED versionVars /\ pc = "gc" /\ pc' \in {"gc", "idle", "append"}
    BY <1>4 DEF RemoveObsoleteLog, RemovedObsoleteFiles, Resume
  <2> QED BY <2>1, MoveRecorded
<1>5. CASE RemoveObsoleteManifest
  <2>1. PICK n \in ObsoleteManifests : manifests' = DeleteFile(manifests, n)
    BY <1>5 DEF RemoveObsoleteManifest
  <2>2. pc = "gc" /\ pc' = "gc" /\ UNCHANGED <<current, inMemory>>
    BY <1>5 DEF RemoveObsoleteManifest
  <2>3. /\ DOMAIN manifests' = DOMAIN manifests \ {n}
        /\ \A m \in DOMAIN manifests' : manifests'[m] = manifests[m]
    BY <2>1 DEF DeleteFile
  <2>4. manifest_file_number # n
    BY ListTypes DEF ObsoleteManifests
  <2> QED BY <2>2, <2>3, <2>4
          DEF RecordInv, DescriptorRecorded, NothingLoaded, FilesRecorded, EditRecorded,
              Recoverable, Recorded
<1> QED BY <1>1, <1>2, <1>3, <1>4, <1>5 DEF Applying

LEMMA WritingRecorded == ASSUME TypeInv, RecordInv, Writing PROVE RecordInv'
<1> USE DEF NewDBSteps, RecoveredSteps, OpenSteps
<1>1. CASE SwitchMemTable
  <2>1. /\ pc = "room" /\ pc' = "flush_create"
        /\ UNCHANGED <<onDisk, manifest_file_number, files, descriptor_file, edit, vpc>>
    BY <1>1 DEF SwitchMemTable
  <2> QED BY <2>1
          DEF RecordInv, DescriptorRecorded, NothingLoaded, FilesRecorded, EditRecorded,
              Recoverable, Recorded
<1>2. CASE FlushAborts \/ InsertAborts
  BY <1>2, EndRecorded DEF FlushAborts, InsertAborts
<1>3. CASE FlushWrite
  <2>1. /\ pc = "flush_write" /\ pc' = "apply"
        /\ vpc' = IF descriptor_file = "null" THEN "create" ELSE "record"
        /\ UNCHANGED <<onDisk, manifest_file_number, files, descriptor_file>>
    BY <1>3 DEF FlushWrite, LogAndApply
  <2> QED BY <2>1
          DEF RecordInv, DescriptorRecorded, NothingLoaded, FilesRecorded, EditRecorded,
              Recoverable, Recorded
<1>4. CASE RoomLeft \/ AwaitFlush \/ FlushCreate \/ FlushFails \/ AppendToLog \/ InsertInto
  <2>1. /\ UNCHANGED versionVars
        /\ pc \in {"room", "flush_create", "flush_write", "append", "insert"}
        /\ pc' \in {"room", "flush_write", "idle", "append", "insert"}
    BY <1>4 DEF RoomLeft, AwaitFlush, FlushCreate, FlushFails, AppendToLog, InsertInto,
                Resume, vars
  <2> QED BY <2>1, MoveRecorded
<1> QED BY <1>1, <1>2, <1>3, <1>4 DEF Writing

LEMMA NextRecorded == ASSUME TypeInv, RecordInv, [Next]_vars PROVE RecordInv'
<1> USE DEF NewDBSteps, RecoveredSteps, OpenSteps
<1>1. CASE CallStep
  BY <1>1, OpeningRecorded, ApplyingRecorded, WritingRecorded DEF CallStep
<1>2. CASE OpenDB
  <2>1. /\ vpc' = "idle" /\ pc' \in {"newdb_create", "recover"}
        /\ files' = <<>> /\ descriptor_file' # "open"
    BY <1>2 DEF OpenDB, NewVersionSet
  <2> QED BY <2>1
          DEF RecordInv, DescriptorRecorded, NothingLoaded, FilesRecorded, EditRecorded
<1>3. ASSUME NEW b \in Batches \union {NULL}, Write(b) PROVE RecordInv'
  <2>1. UNCHANGED versionVars /\ pc = "idle" /\ pc' = "room"
    BY <1>3 DEF Write
  <2> QED BY <2>1, MoveRecorded
<1>4. ASSUME NEW k \in Key, GetThrows(k) PROVE RecordInv'
  BY <1>4, EndRecorded DEF GetThrows
<1>5. CASE Crash
  BY <1>5, EndRecorded DEF Crash
<1>6. CASE UNCHANGED vars
  BY <1>6 DEF vars, RecordInv, DescriptorRecorded, NothingLoaded, FilesRecorded, EditRecorded,
              Recoverable, Recorded
<1> QED BY <1>1, <1>2, <1>3, <1>4, <1>5, <1>6 DEF Next, Client

----------------------------------------------------------------------------------
(***************************************************************************)
(* What is in the memtables is in the log they are written with, for as    *)
(* long as it has a name: every batch is logged before it is inserted, and *)
(* neither a flush nor a failed flush starts another log.                  *)
(***************************************************************************)
MemLogged == pc \in OpenSteps /\ log_file \in DOMAIN logs =>
  /\ mem \union Contents(imm) \subseteq LogEntries(log_file)
  /\ pc = "insert" => EntriesOf(batch) \subseteq LogEntries(log_file)

\* A step that adds nothing to a memtable and nothing to a log.
LEMMA MoveLogged ==
  ASSUME MemLogged,
         pc' \in OpenSteps => pc \in OpenSteps /\ pc' # "insert",
         UNCHANGED log_file,
         mem' \union Contents(imm') \subseteq mem \union Contents(imm),
         \A n \in DOMAIN logs' : n \in DOMAIN logs /\ logs'[n] = logs[n]
  PROVE  MemLogged'
<1> SUFFICES ASSUME pc' \in OpenSteps, log_file \in DOMAIN logs'
             PROVE  mem' \union Contents(imm') \subseteq LogEntries(log_file)'
  BY DEF MemLogged, Contents
<1>1. LogEntries(log_file)' = LogEntries(log_file)
  BY DEF LogEntries
<1>2. mem \union Contents(imm) \subseteq LogEntries(log_file)
  BY DEF MemLogged
<1> QED BY <1>1, <1>2

LEMMA EndLogged == ASSUME ProcessEnds PROVE MemLogged'
BY DEF ProcessEnds, MemLogged, OpenSteps

\* Open starts an empty log for an empty memtable.
LEMMA OpeningLogged == ASSUME MemAbsent, Opening PROVE MemLogged'
<1>1. CASE OpenLog
  <2>1. imm' = NULL /\ mem' = {} /\ pc' = "apply"
    BY <1>1 DEF OpenLog, MemAbsent, OpenSteps
  <2> QED BY <2>1 DEF MemLogged, Contents
<1>2. CASE ProcessEnds
  BY <1>2, EndLogged
<1>3. CASE pc' \notin OpenSteps
  BY <1>3 DEF MemLogged
<1> QED BY <1>1, <1>2, <1>3
        DEF Opening, OpenSteps, NewDBCreate, NewDBRecord, NewDBCurrent, NewDBFails,
            RecoverVersions, RecoverVersionsFails, Replay, ReplayAborts, RecoveryTableCreate,
            RecoveryTableAborts, RecoveryTableWrite, RecoveryTableFails

LEMMA ApplyingLogged == ASSUME MemLogged, Applying PROVE MemLogged'
<1>1. CASE ApplyWild
  BY <1>1, EndLogged DEF ApplyWild
<1>2. CASE Apply \/ Applied \/ NotApplied \/ RemoveObsoleteManifest \/ RemovedObsoleteFiles
  <2>1. /\ pc \in OpenSteps /\ pc' # "insert"
        /\ UNCHANGED <<mem, logs, log_file>>
        /\ imm' = imm \/ imm' = NULL
    BY <1>2 DEF Apply, Applied, NotApplied, RemoveObsoleteManifest, RemovedObsoleteFiles,
                Resume, OpenSteps
  <2>2. Contents(imm') \subseteq Contents(imm)
    BY <2>1 DEF Contents
  <2> QED BY <2>1, <2>2, MoveLogged
<1>3. CASE RemoveObsoleteLog
  <2>1. /\ pc = "gc" /\ pc' = "gc" /\ UNCHANGED <<mem, imm, log_file>>
        /\ \A n \in DOMAIN logs' : n \in DOMAIN logs /\ logs'[n] = logs[n]
    BY <1>3 DEF RemoveObsoleteLog, DeleteFile
  <2> QED BY <2>1, MoveLogged DEF OpenSteps
<1> QED BY <1>1, <1>2, <1>3 DEF Applying

\* AddRecord and InsertInto, in this order.
LEMMA WritingLogged ==
  ASSUME TypeInv, MemLogged, Writing, "wal" \notin IoErrors
  PROVE  MemLogged'
<1>1. CASE AppendToLog
  <2>1. /\ pc = "append" /\ pc' = "insert" /\ batch \in Batches
        /\ UNCHANGED <<mem, imm, log_file, batch>>
    BY <1>1 DEF AppendToLog, TypeInv, PhaseOK
  <2>2. CASE log_file \notin DOMAIN logs /\ UNCHANGED logs
    BY <2>1, <2>2 DEF MemLogged
  <2>3. CASE log_file \in DOMAIN logs
               /\ logs' = [logs EXCEPT ![log_file] = Append(@, batch)]
    <3>1. logs[log_file] \in Seq(Batches)
      BY <2>3 DEF TypeInv, TypeOK, ProcessTypeOK, IsDirectoryOf
    <3>2. logs'[log_file] = Append(logs[log_file], batch)
      BY <2>3 DEF TypeInv, TypeOK, ProcessTypeOK, IsDirectoryOf
    <3> DEFINE old == logs[log_file]
               new == Append(old, batch)
    <3>3. /\ \A i \in DOMAIN old : i \in DOMAIN new /\ new[i] = old[i]
          /\ Len(old) + 1 \in DOMAIN new /\ new[Len(old) + 1] = batch
      BY <2>1, <3>1
    <3> HIDE DEF new
    <3>4. LogEntries(log_file)' = UNION {EntriesOf(new[i]) : i \in DOMAIN new}
      BY <2>1, <3>2 DEF LogEntries, new
    <3>5. /\ \A i \in DOMAIN old : EntriesOf(old[i]) \subseteq LogEntries(log_file)'
          /\ EntriesOf(batch) \subseteq LogEntries(log_file)'
      <4>1. \A i \in DOMAIN new : EntriesOf(new[i]) \subseteq LogEntries(log_file)'
        BY <3>4
      <4> QED BY <3>3, <4>1
    <3>6. mem \union Contents(imm) \subseteq UNION {EntriesOf(old[i]) : i \in DOMAIN old}
      BY <2>1, <2>3 DEF MemLogged, LogEntries, OpenSteps
    <3>7. mem \union Contents(imm) \subseteq LogEntries(log_file)'
      BY <3>5, <3>6
    <3>8. mem' \union Contents(imm') \subseteq LogEntries(log_file)'
            /\ EntriesOf(batch') \subseteq LogEntries(log_file)'
      BY <2>1, <3>5, <3>7
    <3> QED BY <2>1, <3>8 DEF MemLogged, Contents
  <2> QED BY <1>1, <2>2, <2>3 DEF AppendToLog
<1>2. CASE InsertInto
  <2>1. /\ pc = "insert" /\ pc' = "idle" /\ mem' = mem \union EntriesOf(batch)
        /\ UNCHANGED <<imm, logs, log_file>>
    BY <1>2 DEF InsertInto
  <2>2. LogEntries(log_file)' = LogEntries(log_file) /\ Contents(imm)' = Contents(imm)
    BY <2>1 DEF LogEntries, Contents
  <2> QED BY <2>1, <2>2 DEF MemLogged, OpenSteps
<1>3. CASE FlushAborts \/ InsertAborts
  BY <1>3, EndLogged DEF FlushAborts, InsertAborts
<1>4. CASE SwitchMemTable
  <2>1. /\ pc = "room" /\ pc' = "flush_create" /\ mem' = {} /\ imm' = mem
        /\ UNCHANGED <<logs, log_file>>
    BY <1>4 DEF SwitchMemTable
  <2>2. mem' \union Contents(imm') \subseteq mem \union Contents(imm)
    BY <2>1 DEF Contents
  <2> QED BY <2>1, <2>2, MoveLogged DEF OpenSteps
<1>5. CASE RoomLeft \/ AwaitFlush \/ FlushCreate \/ FlushWrite \/ FlushFails
  <2>1. /\ pc \in OpenSteps /\ pc' # "insert"
        /\ UNCHANGED <<mem, imm, logs, log_file>>
    BY <1>5 DEF RoomLeft, AwaitFlush, FlushCreate, FlushWrite, FlushFails, Resume, OpenSteps,
                vars
  <2> QED BY <2>1, MoveLogged
<1> QED BY <1>1, <1>2, <1>3, <1>4, <1>5 DEF Writing

LEMMA NextLogged ==
  ASSUME TypeInv, MemAbsent, MemLogged, [Next]_vars, "wal" \notin IoErrors
  PROVE  MemLogged'
<1>1. CASE CallStep
  BY <1>1, OpeningLogged, ApplyingLogged, WritingLogged DEF CallStep
<1>2. CASE OpenDB
  BY <1>2 DEF OpenDB, MemLogged, OpenSteps
<1>3. ASSUME NEW b \in Batches \union {NULL}, Write(b) PROVE MemLogged'
  <2>1. pc = "idle" /\ pc' = "room" /\ UNCHANGED <<mem, imm, logs, log_file>>
    BY <1>3 DEF Write
  <2> QED BY <2>1, MoveLogged DEF OpenSteps
<1>4. ASSUME NEW k \in Key, GetThrows(k) PROVE MemLogged'
  BY <1>4, EndLogged DEF GetThrows
<1>5. CASE Crash
  BY <1>5, EndLogged DEF Crash
<1>6. CASE UNCHANGED vars
  BY <1>6 DEF vars, MemLogged, LogEntries, Contents
<1> QED BY <1>1, <1>2, <1>3, <1>4, <1>5, <1>6 DEF Next, Client

----------------------------------------------------------------------------------
DurableInv == TypeInv /\ MemAbsent /\ RecordInv /\ MemLogged

LEMMA InvDurable == DurableInv => Durable
<1> SUFFICES ASSUME DurableInv, IsOpen, Attached
             PROVE  Visible \subseteq InLogs \union InTables
  <2>1. D!Durable <=>
          (IsOpen /\ Attached => (IF IsOpen THEN Visible ELSE {}) \subseteq InLogs \union InTables)
    BY DEF D!Durable
  <2> QED BY <2>1 DEF Durable
<1> USE DEF DurableInv
<1>1. pc \in OpenSteps /\ log_file \in DOMAIN logs /\ Recoverable
  BY DEF IsOpen, MemAbsent, Attached
<1>2. Contents(mem) \union Contents(imm) \subseteq LogEntries(log_file)
  BY <1>1 DEF MemLogged, Contents
<1>3. LogEntries(log_file) \subseteq InLogs
  <2> SUFFICES ASSUME NEW i \in DOMAIN logs[log_file]
               PROVE  \E p \in BatchesIn(DOMAIN logs) :
                        EntriesAt(p) = EntriesOf(logs[log_file][i])
    BY DEF LogEntries, InLogs
  <2>1. <<log_file, i>> \in BatchesIn(DOMAIN logs)
    BY <1>1 DEF BatchesIn
  <2> QED BY <2>1 DEF EntriesAt
<1>4. ASSUME NEW i \in DOMAIN files
      PROVE  Table(files[i].number) \subseteq InTables
  <2>1. files[i] \in Recorded(current)
    BY <1>1 DEF RecordInv, FilesRecorded, RecoveredSteps, Metas
  <2>2. files[i] \in LiveFiles
    BY <1>1, <2>1 DEF Recorded, Metas, LiveFiles
  <2> QED BY <2>2 DEF InTables
<1> QED BY <1>2, <1>3, <1>4 DEF Visible

\* If no write to a log fails, everything acknowledged since Open, and everything Open
\* has found, is at every moment in a log or in a table of the version on the disk, until
\* the first flush of the session has made its log obsolete: for any number of opens and
\* writes, and also when writes to tables, to manifests or to CURRENT fail.
THEOREM AcknowledgedIsOnDisk ==
  ASSUME "wal" \notin IoErrors
  PROVE  Spec => []Durable
<1>1. Init => DurableInv
  BY InitTyped, InitRecorded DEF Init, DurableInv, MemAbsent, MemLogged, OpenSteps
<1>2. DurableInv /\ [Next]_vars => DurableInv'
  BY NextTyped, NextAbsent, NextRecorded, NextLogged DEF DurableInv
<1> QED BY <1>1, <1>2, InvDurable, PTL DEF Spec

----------------------------------------------------------------------------------
(***************************************************************************)
(* What needs sound file numbers: CurrentUsable and FreshFiles, as long as *)
(* writes to manifests do not fail; and, as long as the blocks of tables   *)
(* are written as well, that no flush takes entries from reach or changes  *)
(* what Get finds.  First, bounds on the numbers of files.                 *)
(***************************************************************************)
LEMMA BelowMonotone ==
  ASSUME NEW s \in Seq(FileMetaData), NEW m \in Nat, NEW n \in Nat, Below(s, m), m <= n
  PROVE  Below(s, n)
<1> SUFFICES ASSUME NEW i \in DOMAIN s PROVE s[i].number < n
  BY DEF Below
<1>1. s[i] \in FileMetaData
  OBVIOUS
<1>2. s[i].number \in Nat
  BY <1>1 DEF FileMetaData
<1>3. s[i].number < m
  BY DEF Below
<1> QED BY <1>2, <1>3

LEMMA BelowConcat ==
  ASSUME NEW s \in Seq(FileMetaData), NEW t \in Seq(FileMetaData), NEW n \in Nat,
         Below(s, n), Below(t, n)
  PROVE  Below(s \o t, n)
<1> SUFFICES ASSUME NEW i \in DOMAIN (s \o t) PROVE (s \o t)[i].number < n
  BY DEF Below
<1>1. CASE i \in DOMAIN s
  BY <1>1 DEF Below
<1>2. CASE i \notin DOMAIN s
  <2>1. i - Len(s) \in DOMAIN t /\ (s \o t)[i] = t[i - Len(s)]
    BY <1>2
  <2> QED BY <2>1 DEF Below
<1> QED BY <1>1, <1>2

\* Builder::SaveTo lists files of the base and files of the edits, and no others.
LEMMA BelowSaveTo ==
  ASSUME NEW s \in Seq(FileMetaData), NEW t \in Seq(FileMetaData), NEW n \in Nat,
         Below(s, n), Below(t, n)
  PROVE  Below(SaveTo(s, t), n)
<1>1. Reverse(t) \in Seq(FileMetaData)
  BY DEF Reverse
<1>2. Below(Reverse(t), n)
  <2> SUFFICES ASSUME NEW i \in 1..Len(t) PROVE Reverse(t)[i].number < n
    BY DEF Below, Reverse
  <2>1. (Len(t) - i) + 1 \in DOMAIN t /\ Reverse(t)[i] = t[(Len(t) - i) + 1]
    BY DEF Reverse
  <2> QED BY <2>1 DEF Below
<1> QED BY <1>1, <1>2, BelowConcat DEF SaveTo

\* logs.size() - 1 is less than a number that exceeds the number of every log.
LEMMA RecoveryTableBelow ==
  ASSUME TypeInv, NEW n \in Nat, \A l \in DOMAIN logs : l < n
  PROVE  RecoveryTable < n
<1>1. DOMAIN logs \subseteq 0..(n - 1)
  BY DEF TypeInv, TypeOK, ProcessTypeOK, IsDirectoryOf
<1>2. IsFiniteSet(0..(n - 1)) /\ Cardinality(0..(n - 1)) = n
  <2>1. CASE n = 0
    BY <2>1, FS_EmptySet
  <2>2. CASE n # 0
    BY <2>2, FS_Interval
  <2> QED BY <2>1, <2>2
<1>3. Cardinality(DOMAIN logs) <= n /\ Cardinality(DOMAIN logs) \in Nat
  BY <1>1, <1>2, FS_Subset, FS_CardinalityType
<1> QED BY <1>3 DEF RecoveryTable

----------------------------------------------------------------------------------
(***************************************************************************)
(* The inductive invariant.                                                *)
(***************************************************************************)
Inv == TypeInv /\ NumbersInv

USE DEF versionVars, onDisk, inMemory, dbVars, memory, calls, NoFile, PrevLogNumber,
        NewDBSteps, SettledSteps, RecoveredSteps, OpenSteps

LEMMA InitNumbers == Init => Inv
<1> SUFFICES ASSUME Init PROVE Inv
  OBVIOUS
<1>1. NumbersInv
  BY DEF Init, NumbersInv, CurrentSound, NewDBSound, CountersSound, Settled,
         LogNumbersUsed, TableNumberNew, EditSound
<1> QED BY <1>1, InitTyped DEF Inv

\* The end of the process leaves CURRENT and the manifests, which are sound.
LEMMA EndNumbers ==
  ASSUME NumbersInv, ProcessEnds, UNCHANGED onDisk
  PROVE  NumbersInv'
<1>1. CurrentSound'
  BY DEF NumbersInv, CurrentSound, Sound, Below
<1>2. pc' = "down" /\ vpc' = "idle"
  BY DEF ProcessEnds, ForgetVersions
<1> QED BY <1>1, <1>2 DEF NumbersInv, NewDBSound, CountersSound, Settled, LogNumbersUsed,
                          TableNumberNew, EditSound

\* Steps that only use up the call in progress, once the database is open.
LEMMA MoveNumbers ==
  ASSUME NumbersInv, UNCHANGED versionVars,
         pc \in SettledSteps, pc' \in SettledSteps \ {"flush_create"},
         pc' = "flush_write" => pc = "flush_create" /\ UNCHANGED logfile_number
  PROVE  NumbersInv'
<1>1. CurrentSound' /\ CountersSound' /\ Settled'
  BY DEF NumbersInv, CurrentSound, CountersSound, Settled, Sound, Below
<1>2. NewDBSound' /\ LogNumbersUsed' /\ TableNumberNew'
  BY DEF NumbersInv, NewDBSound, LogNumbersUsed, TableNumberNew
<1>3. EditSound'
  BY DEF NumbersInv, EditSound
<1> QED BY <1>1, <1>2, <1>3 DEF NumbersInv

\* The manifests of a typed state, as facts the steps below need.
LEMMA ManifestType ==
  ASSUME TypeInv, NEW n \in DOMAIN manifests
  PROVE  /\ manifests[n] \in Manifest
         /\ manifests[n].next \in Nat
         /\ manifests[n].added \in Seq(FileMetaData)
<1>1. manifests[n] \in Manifest
  BY DEF TypeInv, TypeOK, VersionTypeOK, IsDirectoryOf
<1> QED BY <1>1 DEF Manifest

\* What AddRecord leaves a manifest with.
LEMMA WithEditFields ==
  ASSUME NEW m, NEW e
  PROVE  /\ WithEdit(m, e).complete
         /\ WithEdit(m, e).next = e.next
         /\ WithEdit(m, e).added = m.added \o e.added
<1>1. WithEdit(m, e).complete
  BY DEF WithEdit
<1>2. WithEdit(m, e).next = e.next
  BY DEF WithEdit
<1>3. WithEdit(m, e).added = m.added \o e.added
  BY DEF WithEdit
<1> QED BY <1>1, <1>2, <1>3

LEMMA OpenDBNumbers == ASSUME Inv, OpenDB PROVE NumbersInv'
<1> USE DEF Inv, NumbersInv
<1>1. CurrentSound'
  BY DEF OpenDB, CurrentSound, Sound, Below
<1>2. NewDBSound'
  BY DEF OpenDB, NewVersionSet, NewDBSound
<1>3. CountersSound' /\ Settled' /\ LogNumbersUsed' /\ TableNumberNew' /\ EditSound'
  BY DEF OpenDB, NewVersionSet, CountersSound, Settled, LogNumbersUsed, TableNumberNew,
         EditSound
<1> QED BY <1>1, <1>2, <1>3

LEMMA NewDBNumbers ==
  ASSUME Inv, NewDBCreate \/ NewDBRecord \/ NewDBCurrent, "manifest" \notin IoErrors
  PROVE  NumbersInv'
<1> USE DEF Inv, NumbersInv
<1>1. CurrentSound'
  <2>1. CASE NewDBCurrent
    <3>1. 1 \in DOMAIN manifests /\ manifests[1].added = <<>>
            /\ manifests[1].complete /\ manifests[1].next = 2
      BY <2>1 DEF NewDBCurrent, NewDBSound
    <3>2. Below(manifests[1].added, 2)
      BY <3>1 DEF Below
    <3> QED BY <2>1, <3>1, <3>2 DEF NewDBCurrent, CurrentSound, Sound, Below
  <2>2. CASE NewDBCreate \/ NewDBRecord
    BY <2>2 DEF NewDBCreate, NewDBRecord, CurrentSound, NewDBSound
  <2> QED BY <2>1, <2>2
<1>2. NewDBSound'
  <2>1. CASE NewDBCreate
    <3>1. 1 \in DOMAIN manifests' /\ manifests'[1] = EmptyManifest
      BY <2>1 DEF NewDBCreate, NewWritableFile
    <3> QED BY <2>1, <3>1 DEF NewDBCreate, NewDBSound, EmptyManifest
  <2>2. CASE NewDBRecord
    <3>1. 1 \in DOMAIN manifests /\ manifests[1].added = <<>>
      BY <2>2 DEF NewDBRecord, NewDBSound
    <3>2. manifests' = [manifests EXCEPT ![1] =
                          WithEdit(manifests[1], [log |-> 0, next |-> 2, added |-> <<>>])]
      BY <2>2 DEF NewDBRecord
    <3>3. 1 \in DOMAIN manifests'
            /\ manifests'[1] = WithEdit(manifests[1], [log |-> 0, next |-> 2, added |-> <<>>])
      BY <3>1, <3>2 DEF TypeInv, TypeOK, VersionTypeOK, IsDirectoryOf
    <3>4. manifests'[1].complete /\ manifests'[1].next = 2 /\ manifests'[1].added = <<>> \o <<>>
      BY <3>1, <3>3 DEF WithEdit
    <3>5. <<>> \o <<>> = <<>>
      OBVIOUS
    <3> QED BY <2>2, <3>3, <3>4, <3>5 DEF NewDBRecord, NewDBSound
  <2>3. CASE NewDBCurrent
    BY <2>3 DEF NewDBCurrent, NewDBSound
  <2> QED BY <2>1, <2>2, <2>3
<1>3. CountersSound' /\ Settled' /\ LogNumbersUsed' /\ TableNumberNew' /\ EditSound'
  <2>1. pc' \in {"newdb_record", "newdb_current", "recover"} /\ vpc' = "idle"
    BY DEF NewDBCreate, NewDBRecord, NewDBCurrent, NewDBSound
  <2> QED BY <2>1 DEF CountersSound, Settled, LogNumbersUsed, TableNumberNew, EditSound
<1> QED BY <1>1, <1>2, <1>3

LEMMA RecoverNumbers == ASSUME Inv, RecoverVersions PROVE NumbersInv'
<1> USE DEF Inv, NumbersInv
<1> DEFINE m == manifests[current]
<1>1. Sound(current) /\ current # NoFile
  BY DEF RecoverVersions, CurrentSound, NewDBSound
<1>2. m.next \in Nat /\ m.added \in Seq(FileMetaData) /\ current \in Nat
  BY <1>1, ManifestType DEF Sound, TypeInv, TypeOK, VersionTypeOK
<1>3. /\ files' = SaveTo(<<>>, m.added)
      /\ manifest_file_number' = m.next
      /\ next_file_number' = m.next + 1
      /\ descriptor_file' # "open"
      /\ vpc' = "idle"
      /\ pc' = "replay"
      /\ UNCHANGED onDisk
  BY DEF RecoverVersions, Recover, NewDBSound
<1>4. Below(files', next_file_number')
  <2>1. Below(<<>>, m.next)
    BY DEF Below
  <2>2. Below(SaveTo(<<>>, m.added), m.next)
    <3>1. <<>> \in Seq(FileMetaData)
      OBVIOUS
    <3> QED BY <1>1, <1>2, <2>1, <3>1, BelowSaveTo DEF Sound
  <2>3. SaveTo(<<>>, m.added) \in Seq(FileMetaData)
    <3>1. <<>> \in Seq(FileMetaData)
      OBVIOUS
    <3> QED BY <1>2, <3>1, SaveToType
  <2>4. m.next <= m.next + 1 /\ m.next + 1 \in Nat
    BY <1>2
  <2> QED BY <1>2, <1>3, <2>2, <2>3, <2>4, BelowMonotone
<1>5. CountersSound'
  BY <1>1, <1>2, <1>3, <1>4 DEF CountersSound, Sound
<1>6. CurrentSound'
  BY <1>1, <1>3 DEF CurrentSound, Sound, Below
<1> QED BY <1>3, <1>5, <1>6 DEF NewDBSound, Settled, LogNumbersUsed, TableNumberNew, EditSound

\* Everything between Recover and the new log only raises next_file_number_.
LEMMA ReplayNumbers ==
  ASSUME Inv, Replay \/ RecoveryTableCreate \/ RecoveryTableWrite
  PROVE  NumbersInv'
<1> USE DEF Inv, NumbersInv
<1>1. /\ UNCHANGED <<onDisk, manifest_file_number, files, descriptor_file, edit, vpc, logs>>
      /\ pc \in {"replay", "table0_create", "table0_write"}
      /\ pc' \in {"table0_create", "table0_write", "open_log"}
  BY DEF Replay, RecoveryTableCreate, RecoveryTableWrite
<1>2. /\ next_file_number' \in Nat
      /\ next_file_number <= next_file_number'
      /\ \A l \in DOMAIN logs : l < next_file_number'
  <2>1. DOMAIN logs \subseteq Nat /\ next_file_number \in Nat
    BY DEF TypeInv, TypeOK, ProcessTypeOK, VersionTypeOK, IsDirectoryOf
  <2>2. CASE Replay
    BY <2>1, <2>2 DEF Replay, Marked
  <2>3. CASE RecoveryTableCreate \/ RecoveryTableWrite
    BY <2>1, <2>3 DEF RecoveryTableCreate, RecoveryTableWrite, LogNumbersUsed
  <2> QED BY <2>2, <2>3
<1>3. CurrentSound'
  BY <1>1 DEF CurrentSound, Sound, Below
<1>4. CountersSound'
  <2>1. CountersSound!2
    BY <1>1 DEF CountersSound
  <2>2. Below(files', next_file_number')
    BY <1>1, <1>2, <2>1, BelowMonotone DEF TypeInv, TypeOK, VersionTypeOK
  <2>3. current \in DOMAIN manifests
    BY <2>1 DEF CurrentSound, Sound
  <2>4. manifests[current].next \in Nat /\ manifest_file_number \in Nat
          /\ next_file_number \in Nat
    BY <2>3, ManifestType DEF TypeInv, TypeOK, VersionTypeOK
  <2> QED BY <1>1, <1>2, <2>1, <2>2, <2>4 DEF CountersSound
<1>5. LogNumbersUsed'
  BY <1>1, <1>2 DEF LogNumbersUsed
<1>6. NewDBSound' /\ Settled' /\ TableNumberNew' /\ EditSound'
  BY <1>1 DEF NewDBSound, Settled, TableNumberNew, EditSound
<1> QED BY <1>3, <1>4, <1>5, <1>6

\* LogAndApply is called with numbers below the next one, by Open and by a flush.
LEMMA CallNumbers ==
  ASSUME Inv, NEW log \in Nat, NEW added \in Seq(FileMetaData),
         pc \in {"open_log", "flush_write"}, pc' = "apply",
         LogAndApply(log, next_file_number', added),
         UNCHANGED <<onDisk, manifest_file_number, files, descriptor_file>>,
         next_file_number' \in Nat, next_file_number <= next_file_number',
         Below(added, next_file_number')
  PROVE  NumbersInv'
<1> USE DEF Inv, NumbersInv
<1>1. CountersSound!2
  BY DEF CountersSound
<1>2. Sound(current)
  BY <1>1 DEF CurrentSound
<1>3. /\ manifest_file_number \in Nat /\ next_file_number \in Nat /\ current \in Nat
      /\ manifests[current].next \in Nat /\ files \in Seq(FileMetaData)
      /\ manifests[current].added \in Seq(FileMetaData)
  BY <1>2, ManifestType DEF Sound, TypeInv, TypeOK, VersionTypeOK
<1>4. Below(files, next_file_number')
  BY <1>1, <1>3, BelowMonotone
<1>5. /\ edit'.next = next_file_number'
      /\ edit'.added = added
      /\ vpc' = IF descriptor_file = "null" THEN "create" ELSE "record"
  BY DEF LogAndApply
<1>6. CurrentSound'
  BY <1>2 DEF CurrentSound, Sound, Below
<1>7. CountersSound'
  BY <1>1, <1>3, <1>4 DEF CountersSound, Below
<1>8. EditSound'
  <2>1. manifest_file_number < edit'.next /\ Below(files', edit'.next)
          /\ Below(edit'.added, edit'.next)
    BY <1>1, <1>3, <1>4, <1>5 DEF Below
  <2>2. descriptor_file = "open" => Below(manifests[manifest_file_number].added, edit'.next)
    <3>1. descriptor_file = "open" => manifest_file_number = current
      BY DEF EditSound, Settled
    <3>2. manifests[current].next <= next_file_number'
      BY <1>1, <1>3
    <3>3. Below(manifests[current].added, next_file_number')
      BY <1>2, <1>3, <3>2, BelowMonotone DEF Sound
    <3> QED BY <1>5, <3>1, <3>3
  <2> QED BY <1>1, <1>5, <2>1, <2>2 DEF EditSound, Below
<1> QED BY <1>6, <1>7, <1>8 DEF NewDBSound, Settled, LogNumbersUsed, TableNumberNew

LEMMA OpenLogNumbers == ASSUME Inv, OpenLog PROVE NumbersInv'
<1> USE DEF Inv, NumbersInv
<1>1. next_file_number \in Nat /\ next_file_number' = next_file_number + 1
  BY DEF OpenLog, TypeInv, TypeOK, VersionTypeOK
<1>2. RecoveryFiles \in Seq(FileMetaData) /\ Below(RecoveryFiles, next_file_number')
  <2>1. CASE rec = NULL
    <3>1. RecoveryFiles = <<>>
      BY <2>1 DEF RecoveryFiles
    <3>2. <<>> \in Seq(FileMetaData)
      OBVIOUS
    <3>3. Below(<<>>, next_file_number')
      BY DEF Below
    <3> QED BY <3>1, <3>2, <3>3
  <2>2. CASE rec # NULL
    <3> DEFINE meta == [number |-> RecoveryTable, built |-> rec, by |-> "recovery"]
    <3>1. RecoveryTable \in Nat /\ rec \in SUBSET Entry
      BY <2>2, RecoveryTableType
      DEF OpenLog, TypeInv, TypeOK, PhaseOK, ProcessTypeOK
    <3>2. RecoveryTable < next_file_number
      BY <1>1, RecoveryTableBelow DEF OpenLog, LogNumbersUsed
    <3>3. meta \in FileMetaData /\ meta.number < next_file_number'
      BY <1>1, <3>1, <3>2 DEF FileMetaData
    <3>4. RecoveryFiles = <<meta>>
      BY <2>2 DEF RecoveryFiles
    <3> HIDE DEF meta
    <3>5. <<meta>> \in Seq(FileMetaData) /\ Below(<<meta>>, next_file_number')
      BY <3>3 DEF Below
    <3> QED BY <3>4, <3>5
  <2> QED BY <2>1, <2>2
<1>3. LogAndApply(next_file_number, next_file_number', RecoveryFiles)
  BY <1>1 DEF OpenLog
<1>4. next_file_number' \in Nat /\ next_file_number <= next_file_number'
  BY <1>1
<1> QED BY <1>1, <1>2, <1>3, <1>4, CallNumbers DEF OpenLog

LEMMA FlushWriteNumbers == ASSUME Inv, FlushWrite PROVE NumbersInv'
<1> USE DEF Inv, NumbersInv
<1> DEFINE meta == [number |-> logfile_number, built |-> imm, by |-> "flush"]
<1>1. next_file_number \in Nat /\ next_file_number' = next_file_number
        /\ logfile_number \in Nat
  BY DEF FlushWrite, TypeInv, TypeOK, VersionTypeOK, ProcessTypeOK
<1>2. meta \in FileMetaData /\ meta.number < next_file_number'
  BY <1>1 DEF FlushWrite, TableNumberNew, TypeInv, PhaseOK, FileMetaData
<1>3. LogAndApply(logfile_number, next_file_number', <<meta>>)
  BY <1>1 DEF FlushWrite
<1> HIDE DEF meta
<1>4. <<meta>> \in Seq(FileMetaData) /\ Below(<<meta>>, next_file_number')
  BY <1>2 DEF Below
<1>5. next_file_number' \in Nat /\ next_file_number <= next_file_number'
  BY <1>1
<1> QED BY <1>1, <1>3, <1>4, <1>5, CallNumbers DEF FlushWrite

\* LogAndApply writes to the manifest it made, or to the one CURRENT names.
LEMMA ApplyNumbers ==
  ASSUME Inv, Apply, "manifest" \notin IoErrors
  PROVE  NumbersInv'
<1> USE DEF Inv, NumbersInv
<1>1. pc = "apply" /\ pc' = "apply" /\ ~ ApplyFails
  BY DEF Apply, ApplyFails
<1>2. CountersSound!2
  BY <1>1 DEF CountersSound
<1>3. Sound(current)
  BY <1>2 DEF CurrentSound
<1>4. /\ manifest_file_number \in Nat /\ next_file_number \in Nat /\ current \in Nat
      /\ files \in Seq(FileMetaData)
      /\ edit.next \in Nat /\ edit.added \in Seq(FileMetaData)
  BY DEF TypeInv, TypeOK, VersionTypeOK, VersionEdit
<1>5. NewDBSound' /\ Settled' /\ LogNumbersUsed' /\ TableNumberNew'
  BY <1>1 DEF NewDBSound, Settled, LogNumbersUsed, TableNumberNew
<1>6. CASE CreateDescriptor
  <2>1. current < manifest_file_number
    BY <1>2, <1>6 DEF CreateDescriptor, EditSound
  <2>2. /\ DOMAIN manifests' = DOMAIN manifests \union {manifest_file_number}
        /\ manifests'[manifest_file_number] = EmptyManifest
        /\ manifests'[current] = manifests[current]
    BY <1>3, <1>4, <1>6, <2>1 DEF CreateDescriptor, NewWritableFile, Sound
  <2>3. CurrentSound' /\ CountersSound'
    BY <1>2, <1>3, <1>6, <2>1, <2>2
    DEF CreateDescriptor, CurrentSound, CountersSound, Sound, Below
  <2>4. Below(manifests'[manifest_file_number].added, edit.next)
    BY <2>2 DEF EmptyManifest, Below
  <2>5. EditSound'
    BY <1>1, <1>6, <2>1, <2>4 DEF CreateDescriptor, EditSound, Below
  <2> QED BY <1>5, <2>3, <2>5
<1>7. CASE WriteSnapshot
  <2>1. current < manifest_file_number /\ descriptor_file = "open"
          /\ Below(manifests[manifest_file_number].added, edit.next)
          /\ Below(files, edit.next)
    BY <1>7 DEF WriteSnapshot, EditSound
  <2>2. manifest_file_number \in DOMAIN manifests
    BY <1>2, <2>1
  <2>3. /\ DOMAIN manifests' = DOMAIN manifests
        /\ manifests'[current] = manifests[current]
        /\ manifests'[manifest_file_number] =
             WithSnapshot(manifests[manifest_file_number], files)
    BY <1>4, <1>7, <2>1, <2>2 DEF WriteSnapshot, TypeInv, TypeOK, VersionTypeOK, IsDirectoryOf
  <2>4. manifests'[manifest_file_number].added =
          manifests[manifest_file_number].added \o files
    BY <2>2, <2>3, ManifestType DEF WithSnapshot, Manifest
  <2>5. Below(manifests'[manifest_file_number].added, edit.next)
    BY <1>4, <2>1, <2>2, <2>4, ManifestType, BelowConcat
  <2>6. CurrentSound' /\ CountersSound'
    BY <1>2, <1>3, <1>7, <2>1, <2>3
    DEF WriteSnapshot, CurrentSound, CountersSound, Sound, Below
  <2>7. EditSound'
    BY <1>1, <1>7, <2>1, <2>5 DEF WriteSnapshot, EditSound, Below
  <2> QED BY <1>5, <2>6, <2>7
<1>8. CASE AppendEdit
  <2>1. descriptor_file = "open" /\ vpc = "record"
          /\ Below(manifests[manifest_file_number].added, edit.next)
          /\ Below(edit.added, edit.next)
          /\ manifest_file_number < edit.next
          /\ edit.next <= next_file_number
    BY <1>8 DEF AppendEdit, EditSound
  <2>2. manifest_file_number \in DOMAIN manifests
    BY <1>2, <2>1
  <2>3. /\ DOMAIN manifests' = DOMAIN manifests
        /\ current # manifest_file_number => manifests'[current] = manifests[current]
        /\ manifests'[manifest_file_number] =
             WithEdit(manifests[manifest_file_number], edit)
    BY <1>8, <2>2 DEF AppendEdit, TypeInv, TypeOK, VersionTypeOK, IsDirectoryOf
  <2>4. /\ manifests'[manifest_file_number].complete
        /\ manifests'[manifest_file_number].next = edit.next
        /\ manifests'[manifest_file_number].added =
             manifests[manifest_file_number].added \o edit.added
    <3> DEFINE m == manifests[manifest_file_number]
    <3>1. /\ WithEdit(m, edit).complete
          /\ WithEdit(m, edit).next = edit.next
          /\ WithEdit(m, edit).added = m.added \o edit.added
      BY WithEditFields, Zenon
    <3>2. manifests'[manifest_file_number] = WithEdit(m, edit)
      BY <2>3
    <3> QED BY <3>1, <3>2, Zenon
  <2>5. Below(manifests'[manifest_file_number].added, edit.next)
    BY <1>4, <2>1, <2>2, <2>4, ManifestType, BelowConcat
  <2>6. Sound(manifest_file_number)'
    BY <1>8, <2>1, <2>2, <2>3, <2>4, <2>5 DEF AppendEdit, Sound, Below
  <2>7. CurrentSound'
    BY <1>3, <1>8, <2>3, <2>6 DEF AppendEdit, CurrentSound, Sound, Below
  <2>8. CountersSound'
    BY <1>2, <1>4, <1>8, <2>1, <2>3, <2>4 DEF AppendEdit, CountersSound, Below
  <2>9. EditSound'
    BY <1>1, <1>8, <2>1, <2>4, <2>6 DEF AppendEdit, EditSound, Below
  <2> QED BY <1>5, <2>7, <2>8, <2>9
<1>9. CASE InstallCurrent
  <2>1. descriptor_file = "open" /\ vpc = "current" /\ Sound(manifest_file_number)
          /\ manifests[manifest_file_number].next <= next_file_number
          /\ Below(files, edit.next) /\ Below(edit.added, edit.next)
          /\ edit.next <= next_file_number
    BY <1>9 DEF InstallCurrent, EditSound
  <2>2. Below(SaveTo(files, edit.added), next_file_number)
    <3>1. Below(SaveTo(files, edit.added), edit.next)
      BY <1>4, <2>1, BelowSaveTo
    <3> QED BY <1>4, <2>1, <3>1, SaveToType, BelowMonotone
  <2>3. CurrentSound'
    BY <1>9, <2>1 DEF InstallCurrent, CurrentSound, Sound, Below
  <2>4. CountersSound'
    BY <1>2, <1>4, <1>9, <2>1, <2>2 DEF InstallCurrent, CountersSound, Below
  <2>5. EditSound'
    BY <1>1, <1>9, <2>1 DEF InstallCurrent, EditSound
  <2> QED BY <1>5, <2>3, <2>4, <2>5
<1> QED BY <1>1, <1>6, <1>7, <1>8, <1>9 DEF Apply, ApplyStep

LEMMA AppliedNumbers == ASSUME Inv, Applied \/ NotApplied PROVE NumbersInv'
<1> USE DEF Inv, NumbersInv
<1>1. /\ Applied
      /\ UNCHANGED <<onDisk, next_file_number, manifest_file_number, files, descriptor_file>>
      /\ vpc = "done" /\ vpc' = "idle"
      /\ pc = "apply" /\ pc' = "gc"
  BY DEF Applied, NotApplied, ApplyReturns, EditSound
<1>2. CurrentSound' /\ CountersSound'
  BY <1>1 DEF CurrentSound, CountersSound, Sound, Below
<1>3. Settled'
  BY <1>1 DEF Settled, EditSound
<1>4. EditSound'
  BY <1>1 DEF EditSound
<1> QED BY <1>1, <1>2, <1>3, <1>4 DEF NewDBSound, LogNumbersUsed, TableNumberNew

\* removeObsoleteFiles removes manifests older than the one in use, which CURRENT names.
LEMMA RemoveManifestNumbers == ASSUME Inv, RemoveObsoleteManifest PROVE NumbersInv'
<1> USE DEF Inv, NumbersInv
<1>1. PICK n \in ObsoleteManifests : manifests' = DeleteFile(manifests, n)
  BY DEF RemoveObsoleteManifest
<1>2. pc = "gc" /\ UNCHANGED <<current, inMemory, pc, logs, logfile_number>>
  BY DEF RemoveObsoleteManifest
<1>3. manifest_file_number = current /\ current # NoFile
  BY <1>2 DEF Settled, CountersSound
<1>4. n # current
  BY <1>3 DEF ObsoleteManifests, TypeInv, TypeOK, VersionTypeOK
<1>5. current \in DOMAIN manifests => current \in DOMAIN manifests'
                                      /\ manifests'[current] = manifests[current]
  BY <1>1, <1>4 DEF DeleteFile
<1>6. CurrentSound'
  BY <1>2, <1>5 DEF CurrentSound, Sound, Below
<1>7. CountersSound'
  BY <1>2, <1>3, <1>5 DEF CountersSound, CurrentSound, Sound, Below
<1>8. vpc = "idle"
  BY <1>2 DEF EditSound
<1> QED BY <1>2, <1>6, <1>7, <1>8
        DEF NewDBSound, Settled, LogNumbersUsed, TableNumberNew, EditSound

LEMMA SwitchNumbers == ASSUME Inv, SwitchMemTable PROVE NumbersInv'
<1> USE DEF Inv, NumbersInv
<1>1. /\ UNCHANGED <<onDisk, manifest_file_number, files, descriptor_file, edit, vpc>>
      /\ pc = "room" /\ pc' = "flush_create"
      /\ logfile_number' = next_file_number
      /\ next_file_number' = next_file_number + 1
  BY DEF SwitchMemTable
<1>2. CountersSound!2
  BY <1>1 DEF CountersSound
<1>3. manifest_file_number \in Nat /\ next_file_number \in Nat
        /\ files \in Seq(FileMetaData) /\ manifests[current].next \in Nat
  BY <1>2, ManifestType DEF CurrentSound, Sound, TypeInv, TypeOK, VersionTypeOK
<1>4. Below(files, next_file_number + 1)
  BY <1>2, <1>3, BelowMonotone
<1>5. CurrentSound'
  BY <1>1 DEF CurrentSound, Sound, Below
<1>6. CountersSound'
  BY <1>1, <1>2, <1>3, <1>4 DEF CountersSound, Below
<1>7. TableNumberNew'
  BY <1>1, <1>2, <1>3 DEF TableNumberNew, Below
<1>8. Settled'
  BY <1>1 DEF Settled
<1>9. EditSound'
  BY <1>1 DEF EditSound
<1> QED BY <1>1, <1>5, <1>6, <1>7, <1>8, <1>9 DEF NewDBSound, LogNumbersUsed

----------------------------------------------------------------------------------
(***************************************************************************)
(* Every step.                                                             *)
(***************************************************************************)
LEMMA OpeningNumbers ==
  ASSUME Inv, Opening, "manifest" \notin IoErrors
  PROVE  NumbersInv'
<1> USE DEF Inv
<1>1. CASE NewDBCreate \/ NewDBRecord \/ NewDBCurrent
  BY <1>1, NewDBNumbers
<1>2. CASE NewDBFails \/ RecoverVersionsFails \/ ReplayAborts \/ RecoveryTableAborts
             \/ RecoveryTableFails
  BY <1>2, EndNumbers
  DEF NewDBFails, RecoverVersionsFails, ReplayAborts, RecoveryTableAborts, RecoveryTableFails
<1>3. CASE RecoverVersions
  BY <1>3, RecoverNumbers
<1>4. CASE Replay \/ RecoveryTableCreate \/ RecoveryTableWrite
  BY <1>4, ReplayNumbers
<1>5. CASE OpenLog
  BY <1>5, OpenLogNumbers
<1> QED BY <1>1, <1>2, <1>3, <1>4, <1>5 DEF Opening

LEMMA ApplyingNumbers ==
  ASSUME Inv, Applying, "manifest" \notin IoErrors
  PROVE  NumbersInv'
<1> USE DEF Inv
<1>1. CASE Apply
  BY <1>1, ApplyNumbers
<1>2. CASE ApplyWild
  BY <1>2, EndNumbers DEF ApplyWild
<1>3. CASE Applied \/ NotApplied
  BY <1>3, AppliedNumbers
<1>4. CASE RemoveObsoleteLog
  <2>1. UNCHANGED versionVars /\ pc = "gc" /\ pc' = "gc"
    BY <1>4 DEF RemoveObsoleteLog
  <2> QED BY <2>1, MoveNumbers
<1>5. CASE RemoveObsoleteManifest
  BY <1>5, RemoveManifestNumbers
<1>6. CASE RemovedObsoleteFiles
  <2>1. UNCHANGED versionVars /\ pc = "gc" /\ pc' \in {"idle", "append"}
    BY <1>6 DEF RemovedObsoleteFiles, Resume
  <2> QED BY <2>1, MoveNumbers
<1> QED BY <1>1, <1>2, <1>3, <1>4, <1>5, <1>6 DEF Applying

LEMMA WritingNumbers == ASSUME Inv, Writing PROVE NumbersInv'
<1> USE DEF Inv
<1>1. CASE SwitchMemTable
  BY <1>1, SwitchNumbers
<1>2. CASE FlushAborts \/ InsertAborts
  BY <1>2, EndNumbers DEF FlushAborts, InsertAborts
<1>3. CASE FlushWrite
  BY <1>3, FlushWriteNumbers
<1>4. CASE FlushCreate
  <2>1. UNCHANGED <<versionVars, logfile_number>> /\ pc = "flush_create"
          /\ pc' = "flush_write"
    BY <1>4 DEF FlushCreate
  <2> QED BY <2>1, MoveNumbers
<1>5. CASE RoomLeft \/ AwaitFlush \/ FlushFails \/ AppendToLog \/ InsertInto
  <2>1. /\ UNCHANGED versionVars
        /\ pc \in {"room", "flush_write", "append", "insert"}
        /\ pc' \in {"room", "idle", "append", "insert"}
    BY <1>5 DEF RoomLeft, AwaitFlush, FlushFails, AppendToLog, InsertInto, Resume, vars
  <2> QED BY <2>1, MoveNumbers
<1> QED BY <1>1, <1>2, <1>3, <1>4, <1>5 DEF Writing

LEMMA NextNumbers ==
  ASSUME Inv, [Next]_vars, "manifest" \notin IoErrors
  PROVE  Inv'
<1>1. TypeInv'
  BY NextTyped DEF Inv
<1>2. NumbersInv'
  <2>1. CASE CallStep
    BY <2>1, OpeningNumbers, ApplyingNumbers, WritingNumbers DEF CallStep
  <2>2. CASE OpenDB
    BY <2>2, OpenDBNumbers
  <2>3. ASSUME NEW b \in Batches \union {NULL}, Write(b)
        PROVE  NumbersInv'
    <3>1. UNCHANGED versionVars /\ pc = "idle" /\ pc' = "room"
      BY <2>3 DEF Write
    <3> QED BY <3>1, MoveNumbers DEF Inv
  <2>4. ASSUME NEW k \in Key, GetThrows(k)
        PROVE  NumbersInv'
    BY <2>4, EndNumbers DEF GetThrows, Inv
  <2>5. CASE Crash
    BY <2>5, EndNumbers DEF Crash, Inv
  <2>6. CASE UNCHANGED vars
    BY <2>6 DEF vars, Inv, NumbersInv, CurrentSound, NewDBSound, CountersSound, Settled,
                LogNumbersUsed, TableNumberNew, EditSound, Sound, Below
  <2> QED BY <2>1, <2>2, <2>3, <2>4, <2>5, <2>6 DEF Next, Client
<1> QED BY <1>1, <1>2 DEF Inv

----------------------------------------------------------------------------------
\* The invariant holds as long as writes to manifests do not fail.
THEOREM NumbersSound == ASSUME "manifest" \notin IoErrors PROVE Spec => []NumbersInv
<1>1. Init => Inv
  BY InitNumbers
<1>2. Inv /\ [Next]_vars => Inv'
  BY NextNumbers
<1>3. Inv => NumbersInv
  BY DEF Inv
<1> QED BY <1>1, <1>2, <1>3, PTL DEF Spec

\* Wherever the process ends, even in the middle of LogAndApply or of
\* removeObsoleteFiles, the manifest that CURRENT names is whole and gives the next
\* manifest another number, if writes to manifests do not fail.
THEOREM CurrentAlwaysUsable ==
  ASSUME "manifest" \notin IoErrors
  PROVE  Spec => []CurrentUsable
<1>1. NumbersInv => CurrentUsable
  BY DEF NumbersInv, CurrentSound, Sound, CurrentUsable
<1> QED BY <1>1, NumbersSound, PTL

----------------------------------------------------------------------------------
(***************************************************************************)
(* What the process can reach.                                             *)
(***************************************************************************)
\* The table a flush makes of imm_.
FlushFile == [number |-> logfile_number, built |-> imm, by |-> "flush"]

\* A flush writes to the table it made, which no version has yet.
FlushTable == pc = "flush_write" =>
  logfile_number \in DOMAIN tables /\ logfile_number \notin LiveTables

\* While LogAndApply runs for a flush the table holds what imm_ holds, and it is the one
\* table of the edit, and then the last of the version.
ImmInTable == pc = "apply" /\ imm # NULL =>
  /\ logfile_number \in DOMAIN tables
  /\ tables[logfile_number] = imm
  /\ IF vpc = "done" THEN files # <<>> /\ files[Len(files)] = FlushFile
     ELSE edit.added = <<FlushFile>>

ReachInv == MemAbsent /\ FlushTable /\ ImmInTable

LEMMA LiveTablesIs == LiveTables = {meta.number : meta \in Metas(files)}
BY DEF LiveTables, Metas

\* A step that changes neither tables nor the version, and starts no flush.
LEMMA MoveReach ==
  ASSUME ReachInv, UNCHANGED <<tables, files, logfile_number>>,
         pc' = "flush_write" => pc = "flush_write",
         pc' # "apply"
  PROVE  FlushTable' /\ ImmInTable'
BY DEF ReachInv, FlushTable, ImmInTable, LiveTables

LEMMA ApplyReach ==
  ASSUME Inv, ReachInv, Apply, "manifest" \notin IoErrors
  PROVE  /\ FlushTable' /\ ImmInTable'
         /\ LiveTables \subseteq (LiveTables')
<1>1. pc = "apply" /\ pc' = "apply" /\ UNCHANGED <<tables, imm, logfile_number, edit>>
  BY DEF Apply, ApplyStep, CreateDescriptor, WriteSnapshot, AppendEdit, InstallCurrent,
         ApplyFails
<1>2. FlushTable' /\ FlushFile' = FlushFile
  BY <1>1 DEF FlushTable, FlushFile
<1>3. CASE InstallCurrent
  <2>1. vpc = "current" /\ vpc' = "done" /\ files' = SaveTo(files, edit.added)
    BY <1>3 DEF InstallCurrent
  <2>2. files \in Seq(FileMetaData) /\ edit.added \in Seq(FileMetaData)
    BY DEF Inv, TypeInv, TypeOK, VersionTypeOK, VersionEdit
  <2>3. Metas(files') = Metas(files) \union Metas(edit.added)
    BY <2>1, <2>2, MetasSaveTo
  <2>4. LiveTables' = {meta.number : meta \in Metas(files')}
    BY DEF LiveTables, Metas
  <2>5. LiveTables \subseteq LiveTables'
    BY <2>3, <2>4, LiveTablesIs
  <2>6. imm # NULL => files' # <<>> /\ files'[Len(files')] = FlushFile
    <3> SUFFICES ASSUME imm # NULL PROVE files' # <<>> /\ files'[Len(files')] = FlushFile
      OBVIOUS
    <3>1. edit.added = <<FlushFile>>
      BY <1>1, <2>1 DEF ReachInv, ImmInTable
    <3>2. FlushFile \in FileMetaData
      BY <2>2, <3>1
    <3>3. files' = files \o <<FlushFile>>
      <4> HIDE DEF FlushFile
      <4>1. Reverse(<<FlushFile>>) = <<FlushFile>>
        BY <3>2 DEF Reverse
      <4> QED BY <2>1, <3>1, <4>1 DEF SaveTo
    <3> HIDE DEF FlushFile
    <3> QED BY <2>2, <3>2, <3>3
  <2> QED BY <1>1, <1>2, <2>1, <2>5, <2>6 DEF ReachInv, ImmInTable
<1>4. CASE CreateDescriptor \/ WriteSnapshot \/ AppendEdit
  <2>1. vpc # "done" /\ vpc' # "done" /\ UNCHANGED files
    BY <1>4 DEF CreateDescriptor, WriteSnapshot, AppendEdit
  <2> QED BY <1>1, <1>2, <2>1 DEF ReachInv, ImmInTable, LiveTables
<1> QED BY <1>3, <1>4 DEF Apply, ApplyStep, ApplyFails

\* The table of a flush is complete when none of its blocks is lost.
LEMMA FlushWriteReach ==
  ASSUME Inv, ReachInv, FlushWrite, "block" \notin IoErrors
  PROVE  /\ FlushTable' /\ ImmInTable'
         /\ DOMAIN tables' = DOMAIN tables
         /\ \A n \in LiveTables \intersect DOMAIN tables : tables'[n] = tables[n]
<1> DEFINE meta == [number |-> logfile_number, built |-> imm, by |-> "flush"]
<1>1. /\ pc = "flush_write" /\ pc' = "apply"
      /\ tables' = [tables EXCEPT ![logfile_number] = imm]
      /\ LogAndApply(logfile_number, next_file_number, <<meta>>)
      /\ UNCHANGED <<imm, logfile_number, files>>
  BY DEF FlushWrite, Built
<1>2. edit'.added = <<meta>> /\ vpc' # "done"
  BY <1>1 DEF LogAndApply
<1>3. meta = FlushFile'
  BY <1>1 DEF FlushFile
<1> HIDE DEF meta
<1>5. logfile_number \in DOMAIN tables /\ logfile_number \notin LiveTables
  BY <1>1 DEF ReachInv, FlushTable
<1>6. /\ DOMAIN tables' = DOMAIN tables
      /\ tables'[logfile_number] = imm
      /\ \A n \in DOMAIN tables \ {logfile_number} : tables'[n] = tables[n]
  BY <1>1, <1>5 DEF Inv, TypeInv, TypeOK, ProcessTypeOK, IsDirectoryOf
<1> QED BY <1>1, <1>2, <1>3, <1>5, <1>6 DEF FlushTable, ImmInTable

\* A flush empties no table of the version.
LEMMA FlushCreateReach ==
  ASSUME Inv, ReachInv, FlushCreate
  PROVE  /\ FlushTable' /\ ImmInTable'
         /\ DOMAIN tables \subseteq DOMAIN tables'
         /\ \A n \in LiveTables : n \in DOMAIN tables' =>
              n \in DOMAIN tables /\ tables'[n] = tables[n]
<1>1. /\ pc = "flush_create" /\ pc' = "flush_write"
      /\ tables' = NewWritableFile(tables, logfile_number, {})
      /\ UNCHANGED <<files, logfile_number>>
  BY DEF FlushCreate
<1>2. logfile_number \notin LiveTables
  BY <1>1 DEF Inv, NumbersInv, TableNumberNew, Below, LiveTables, TypeInv, TypeOK, ProcessTypeOK
<1>3. LiveTables' = LiveTables
  BY <1>1 DEF LiveTables
<1>4. /\ DOMAIN tables' = DOMAIN tables \union {logfile_number}
      /\ \A n \in DOMAIN tables' \ {logfile_number} : tables'[n] = tables[n]
  BY <1>1 DEF NewWritableFile
<1> QED BY <1>1, <1>2, <1>3, <1>4 DEF FlushTable, ImmInTable

LEMMA NextReach ==
  ASSUME Inv, ReachInv, [Next]_vars, "manifest" \notin IoErrors, "block" \notin IoErrors
  PROVE  ReachInv'
<1>1. SUFFICES FlushTable' /\ ImmInTable'
  BY NextAbsent DEF ReachInv
<1>2. ASSUME ProcessEnds PROVE FlushTable' /\ ImmInTable'
  BY <1>2 DEF ProcessEnds, FlushTable, ImmInTable
<1>3. CASE Opening
  <2>1. CASE OpenLog
    BY <2>1 DEF OpenLog, ReachInv, MemAbsent, OpenSteps, FlushTable, ImmInTable
  <2>2. CASE pc' \notin {"apply", "flush_write"}
    BY <2>2 DEF FlushTable, ImmInTable
  <2> QED BY <1>2, <1>3, <2>1, <2>2
          DEF Opening, NewDBCreate, NewDBRecord, NewDBCurrent, NewDBFails, RecoverVersions,
              RecoverVersionsFails, Replay, ReplayAborts, RecoveryTableCreate,
              RecoveryTableAborts, RecoveryTableWrite, RecoveryTableFails
<1>4. CASE Applying
  BY <1>2, <1>4, ApplyReach
  DEF Applying, ApplyWild, Applied, NotApplied, RemoveObsoleteLog, RemoveObsoleteManifest,
      RemovedObsoleteFiles, Resume, FlushTable, ImmInTable
<1>5. CASE Writing
  <2>1. CASE RoomLeft \/ AwaitFlush \/ SwitchMemTable \/ FlushFails \/ AppendToLog \/ InsertInto
    <3>1. pc' \notin {"apply", "flush_write"}
      BY <2>1 DEF RoomLeft, AwaitFlush, SwitchMemTable, FlushFails, AppendToLog, InsertInto,
                  Resume, vars
    <3> QED BY <3>1 DEF FlushTable, ImmInTable
  <2> QED BY <1>2, <1>5, <2>1, FlushCreateReach, FlushWriteReach
          DEF Writing, FlushAborts, InsertAborts
<1>6. CASE Client \/ Crash
  BY <1>2, <1>6 DEF Client, Crash, OpenDB, Write, GetThrows, FlushTable, ImmInTable
<1>7. CASE UNCHANGED vars
  BY <1>7 DEF vars, ReachInv, FlushTable, ImmInTable, FlushFile, LiveTables
<1> QED BY <1>3, <1>4, <1>5, <1>6, <1>7 DEF Next, CallStep

\* A step that lets go of no memtable, no file of the version and no table of it.
LEMMA ReachKept ==
  ASSUME Contents(mem) \union Contents(imm) \subseteq
           Contents(mem') \union Contents(imm') \union UNION {Table(n)' : n \in LiveTables'},
         LiveTables \subseteq (LiveTables'),
         \A n \in LiveTables : Table(n) \subseteq Table(n)'
  PROVE  Reachable \subseteq (Reachable')
BY DEF Reachable

LEMMA ReachStep ==
  ASSUME Inv, ReachInv, Next, mem # NULL, pc' # "down",
         NullIsNoMemTable, "manifest" \notin IoErrors, "block" \notin IoErrors
  PROVE  Reachable \subseteq (Reachable')
<1>1. pc \in OpenSteps /\ mem \in SUBSET Entry /\ ~ ProcessEnds
  BY DEF ReachInv, MemAbsent, ProcessEnds, Inv, TypeInv, PhaseOK
<1>2. CASE UNCHANGED <<tables, files, mem, imm>>
  BY <1>2 DEF Reachable, LiveTables, Table, Contents
<1>3. CASE Apply
  <2>1. LiveTables \subseteq (LiveTables') /\ UNCHANGED <<tables, mem, imm>>
    BY <1>3, ApplyReach DEF Apply
  <2> QED BY <2>1 DEF Reachable, Table, Contents
<1>4. CASE Applied
  <2>1. /\ pc = "apply" /\ vpc = "done" /\ imm' = NULL
        /\ UNCHANGED <<tables, files, mem>>
    BY <1>4 DEF Applied, ApplyReturns
  <2>2. /\ LiveTables' = LiveTables
        /\ \A n : Table(n)' = Table(n)
        /\ Contents(mem') = Contents(mem)
    BY <2>1 DEF LiveTables, Table, Contents
  <2>3. Contents(imm) \subseteq UNION {Table(n) : n \in LiveTables}
    <3>1. CASE imm = NULL
      BY <3>1 DEF Contents
    <3>2. CASE imm # NULL
      <4>1. /\ files # <<>> /\ files[Len(files)].number = logfile_number
            /\ Table(logfile_number) = imm
        BY <2>1, <3>2 DEF ReachInv, ImmInTable, Table, FlushFile
      <4>2. Len(files) \in DOMAIN files
        BY <4>1 DEF Inv, TypeInv, TypeOK, VersionTypeOK
      <4>3. logfile_number \in LiveTables
        BY <4>1, <4>2 DEF LiveTables
      <4> QED BY <3>2, <4>1, <4>3 DEF Contents
    <3> QED BY <3>1, <3>2
  <2> QED BY <2>2, <2>3 DEF Reachable
<1>5. CASE SwitchMemTable
  <2>1. imm = NULL /\ imm' = mem /\ UNCHANGED <<tables, files>>
    BY <1>5 DEF SwitchMemTable
  <2>2. LiveTables' = LiveTables /\ \A n : Table(n)' = Table(n)
    BY <2>1 DEF LiveTables, Table
  <2>3. Contents(imm) = {} /\ Contents(imm') = Contents(mem)
    BY <2>1 DEF Contents
  <2> QED BY <2>2, <2>3 DEF Reachable, Contents
<1>6. CASE FlushCreate
  <2>1. UNCHANGED <<files, mem, imm>>
    BY <1>6 DEF FlushCreate
  <2>2. LiveTables' = LiveTables /\ \A n \in LiveTables : Table(n)' = Table(n)
    BY <1>6, <2>1, FlushCreateReach DEF LiveTables, Table
  <2> QED BY <2>1, <2>2 DEF Reachable, Contents
<1>7. CASE FlushWrite
  <2>1. UNCHANGED <<files, mem, imm>>
    BY <1>7 DEF FlushWrite
  <2>2. LiveTables' = LiveTables /\ \A n \in LiveTables : Table(n)' = Table(n)
    BY <1>7, <2>1, FlushWriteReach DEF LiveTables, Table
  <2> QED BY <2>1, <2>2 DEF Reachable, Contents
<1>8. CASE InsertInto
  <2>1. mem' = mem \union EntriesOf(batch) /\ batch \in Batches
          /\ UNCHANGED <<tables, files, imm>>
    BY <1>8 DEF InsertInto, Inv, TypeInv, PhaseOK
  <2>2. mem' # NULL
    BY <1>1, <2>1, EntriesOfType DEF NullIsNoMemTable
  <2>3. Contents(mem) \subseteq Contents(mem')
    BY <2>1, <2>2 DEF Contents
  <2>4. LiveTables' = LiveTables /\ Contents(imm') = Contents(imm)
          /\ \A n : Table(n)' = Table(n)
    BY <2>1 DEF LiveTables, Table, Contents
  <2> QED BY <2>3, <2>4 DEF Reachable
<1>9. CASE Opening
  BY <1>1, <1>9
  DEF Opening, OpenSteps, NewDBCreate, NewDBRecord, NewDBCurrent, NewDBFails,
      RecoverVersions, RecoverVersionsFails, Replay, ReplayAborts, RecoveryTableCreate,
      RecoveryTableAborts, RecoveryTableWrite, RecoveryTableFails, OpenLog
<1>10. CASE Applying
  BY <1>1, <1>2, <1>3, <1>4, <1>10
  DEF Applying, ApplyWild, NotApplied, ApplyReturns, RemoveObsoleteLog,
      RemoveObsoleteManifest, RemovedObsoleteFiles
<1>11. CASE Writing
  <2>1. CASE AwaitFlush
    BY <1>2, <2>1 DEF AwaitFlush, vars
  <2> QED BY <1>1, <1>2, <1>5, <1>6, <1>7, <1>8, <1>11, <2>1
          DEF Writing, RoomLeft, FlushAborts, FlushFails, AppendToLog, InsertAborts
<1>12. CASE Client \/ Crash
  BY <1>1, <1>2, <1>12 DEF Client, Crash, OpenDB, Write, GetThrows, OpenSteps
<1> QED BY <1>9, <1>10, <1>11, <1>12 DEF Next, CallStep

\* Until the process ends no entry drops out of its reach, if writes to manifests do not
\* fail and no block of a table is lost: a flush installs the table before imm_ is reset,
\* and it truncates no table of the version.
THEOREM ReachNeverShrinks ==
  ASSUME NullIsNoMemTable, "manifest" \notin IoErrors, "block" \notin IoErrors
  PROVE  Spec => ReachableGrows
<1> DEFINE Grows == mem # NULL /\ pc' # "down" => Reachable \subseteq (Reachable')
<1>1. Inv /\ ReachInv /\ [Next]_vars => [Grows]_vars
  BY ReachStep
<1>2. Init => Inv /\ ReachInv
  BY InitNumbers DEF Init, ReachInv, MemAbsent, FlushTable, ImmInTable, OpenSteps
<1>3. Inv /\ ReachInv /\ [Next]_vars => (Inv /\ ReachInv)'
  BY NextNumbers, NextReach
<1> QED BY <1>1, <1>2, <1>3, PTL DEF Spec, ReachableGrows

\* A flush does not change what Get finds for a key of imm_ whose first entry there is a
\* value of the first data block, if the keys of imm_ have one length, writes to manifests
\* do not fail and no block of a table is lost.
THEOREM FlushIsTransparent ==
  ASSUME "manifest" \notin IoErrors, "block" \notin IoErrors
  PROVE  Spec => FlushTransparent
<1> DEFINE Unchanged == \A k \in Key :
             LET mine == {e \in Contents(imm) : e.key = k}
             IN  imm # NULL /\ imm' = NULL /\ pc' # "down" /\ SameLength(imm)
                   /\ mine # {} /\ FirstEntry(mine).type = kTypeValue
                   /\ FirstEntry(mine) \in FirstBlock(imm)
                 => GetResult(k)' = GetResult(k)
<1>1. Inv /\ ReachInv /\ MemFinite /\ [Next]_vars => [Unchanged]_vars
  <2> SUFFICES ASSUME Inv, ReachInv, MemFinite, Next, imm # NULL, imm' = NULL, pc' # "down",
                      NEW k \in Key, SameLength(imm),
                      NEW mine, mine = {e \in imm : e.key = k},
                      mine # {}, FirstEntry(mine).type = kTypeValue,
                      FirstEntry(mine) \in FirstBlock(imm)
               PROVE  GetResult(k)' = GetResult(k)
    BY DEF Contents
  <2> DEFINE first == FirstEntry(mine)
  <2>1. /\ pc = "apply" /\ vpc = "done"
        /\ UNCHANGED <<files, tables, mem>>
    <3>1. imm' # imm /\ ~ ProcessEnds
      BY DEF ProcessEnds
    <3>2. ~ Opening
      BY <3>1
      DEF Opening, NewDBCreate, NewDBRecord, NewDBCurrent, NewDBFails, RecoverVersions,
          RecoverVersionsFails, Replay, ReplayAborts, RecoveryTableCreate,
          RecoveryTableAborts, RecoveryTableWrite, RecoveryTableFails, OpenLog
    <3>3. ~ Writing
      BY <3>1
      DEF Writing, RoomLeft, AwaitFlush, SwitchMemTable, FlushCreate, FlushAborts,
          FlushWrite, FlushFails, AppendToLog, InsertInto, InsertAborts, vars
    <3>4. ~ Client /\ ~ Crash
      BY <3>1 DEF Client, Crash, OpenDB, Write, GetThrows
    <3>5. Applied
      BY <3>1, <3>2, <3>3, <3>4
      DEF Next, CallStep, Applying, Apply, ApplyWild, NotApplied, RemoveObsoleteLog,
          RemoveObsoleteManifest, RemovedObsoleteFiles
    <3> QED BY <3>5 DEF Applied, ApplyReturns
  <2>2. /\ imm \in SUBSET Entry /\ Contents(imm) = imm /\ IsFiniteSet(imm)
        /\ files \in Seq(FileMetaData)
    BY <2>1 DEF Inv, TypeInv, TypeOK, VersionTypeOK, ProcessTypeOK, Contents, MemFinite
  <2>3. /\ files # <<>> /\ files[Len(files)] = FlushFile
        /\ Table(logfile_number) = imm
    BY <2>1 DEF ReachInv, ImmInTable, Table
  <2>4. first \in mine
    BY <2>2, FS_Subset, FirstAndLast
  <2>5. MemTableGet(imm, k) = first.value /\ first.value # NULL
    <3>1. first.value \in Value \union {EmptyValue}
      BY <2>2, <2>4 DEF Entry
    <3> QED BY <2>2, <3>1, FirstValueFound, NullAssumption
  <2>6. FileFor(files, k) = logfile_number
    <3>1. FlushFile.built = imm /\ FlushFile.number = logfile_number
      BY DEF FlushFile
    <3>2. Overlaps(FlushFile, k)
      BY <2>2, <2>4, <3>1, OneLengthOverlaps
    <3> QED BY <2>2, <2>3, <3>1, <3>2, LastFileFor
  <2>7. TableGet(imm, FirstBlock(imm), k) = first.value
    BY DEF TableGet
  <2>8. MemTableGet({}, k) = NULL
    BY DEF MemTableGet
  <2> DEFINE inMem == MemTableGet(Contents(mem), k)
  <2>9. GetResult(k) = IF inMem # NULL THEN inMem ELSE first.value
    BY <2>2, <2>5 DEF GetResult
  <2>10. GetResult(k)' = IF inMem # NULL THEN inMem ELSE first.value
    <3>1. /\ MemTableGet(Contents(mem), k)' = inMem
          /\ MemTableGet(Contents(imm), k)' = NULL
      BY <2>1, <2>8 DEF Contents
    <3>2. FileFor(files, k)' = FileFor(files, k) /\ \A n : Table(n)' = Table(n)
      BY <2>1 DEF FileFor, Table
    <3> DEFINE found == Table(FileFor(files, k))
    <3>3. found' = imm
      BY <2>3, <2>6, <3>2
    <3> HIDE DEF found
    <3>4. GetResult(k)' = IF inMem # NULL THEN inMem ELSE TableGet(found, FirstBlock(found), k)'
      BY <3>1 DEF GetResult, found
    <3>5. TableGet(found, FirstBlock(found), k)' = TableGet(imm, FirstBlock(imm), k)
      BY <3>3 DEF TableGet, FirstBlock
    <3> QED BY <2>7, <3>4, <3>5
  <2> QED BY <2>9, <2>10
<1>2. Init => Inv /\ ReachInv /\ MemFinite
  BY InitNumbers
  DEF Init, ReachInv, MemAbsent, FlushTable, ImmInTable, MemFinite, OpenSteps
<1>3. Inv /\ ReachInv /\ MemFinite /\ [Next]_vars => (Inv /\ ReachInv /\ MemFinite)'
  BY NextNumbers, NextReach, NextFinite DEF Inv, ReachInv
<1> QED BY <1>1, <1>2, <1>3, PTL DEF Spec, FlushTransparent

----------------------------------------------------------------------------------
(***************************************************************************)
(* What follows from the promises of Durability, as DBDurability reads     *)
(* them, for sessions of any length.                                       *)
(***************************************************************************)
\* Durable is inductive here, since nothing is attached that is not open: a recovery may
\* only drop entries from a table while no session relies on them.
LEMMA DurabilityStep ==
  ASSUME Durable, [D!DurabilityNext]_(D!durabilityVars)
  PROVE  Durable'
<1> USE DEF Durable, D!Durable
<1>1. ASSUME NEW E \in SUBSET Occurring, D!Log(E) PROVE Durable'
  BY <1>1 DEF D!Log
<1>2. ASSUME NEW E \in SUBSET Occurring, D!Acknowledge(E) PROVE Durable'
  BY <1>2 DEF D!Acknowledge
<1>3. ASSUME NEW E \in SUBSET Occurring, D!Commit(E) PROVE Durable'
  BY <1>3 DEF D!Commit
<1>4. ASSUME NEW L \in SUBSET Occurring, D!TrimLogs(L) PROVE Durable'
  BY <1>4 DEF D!TrimLogs
<1>5. ASSUME NEW E \in SUBSET Occurring, D!Clobber(E) PROVE Durable'
  BY <1>5 DEF D!Clobber
<1>6. CASE D!Rescue
  BY <1>6 DEF D!Rescue
<1>7. CASE D!Open
  BY <1>7 DEF D!Open
<1>8. CASE D!End
  BY <1>8 DEF D!End
<1>9. CASE UNCHANGED D!durabilityVars
  BY <1>9 DEF D!durabilityVars
<1> QED BY <1>1, <1>2, <1>3, <1>4, <1>5, <1>6, <1>7, <1>8, <1>9 DEF D!DurabilityNext

\* The order of DB::Write (log, then insert) and of removeObsoleteFiles (table, then
\* remove) is enough: whatever takes the steps of Durability has all that is acknowledged
\* on the disk at every moment, until the first flush of a session.
THEOREM AcknowledgedIsDurable == DurabilitySpec => []Durable
<1>1. D!DurabilityInit => Durable
  BY DEF D!DurabilityInit, Durable, D!Durable
<1>2. Durable /\ [D!DurabilityNext]_(D!durabilityVars) => Durable'
  BY DurabilityStep
<1> QED BY <1>1, <1>2, PTL DEF DurabilitySpec, D!DurabilitySpec

\* Whatever takes the steps of Durability takes nothing out of the tables while it is open,
\* or by its end, and its Open makes visible whatever logs and tables hold.
THEOREM DurabilityKeeps == DurabilitySpec => Kept
<1> DEFINE inReach == IF IsOpen THEN Visible ELSE {}
           Keeps == /\ IsOpen => InTables \subseteq InTables'
                    /\ (~ IsOpen /\ IsOpen') => InLogs \union InTables \subseteq inReach'
<1>1. [D!DurabilityNext]_(D!durabilityVars) => [Keeps]_(D!durabilityVars)
  <2> SUFFICES ASSUME D!DurabilityNext PROVE Keeps
    OBVIOUS
  <2>1. ASSUME NEW E \in SUBSET Occurring,
               D!Log(E) \/ D!Acknowledge(E) \/ D!Commit(E) \/ D!TrimLogs(E) \/ D!Clobber(E)
        PROVE  Keeps
    BY <2>1 DEF D!Log, D!Acknowledge, D!Commit, D!TrimLogs, D!Clobber
  <2>2. CASE D!Rescue
    BY <2>2 DEF D!Rescue
  <2>3. CASE D!Open
    BY <2>3 DEF D!Open
  <2>4. CASE D!End
    BY <2>4 DEF D!End
  <2> QED BY <2>1, <2>2, <2>3, <2>4 DEF D!DurabilityNext
<1> QED BY <1>1, PTL DEF DurabilitySpec, D!DurabilitySpec, Kept, D!Kept
----------------------------------------------------------------------------------
(***************************************************************************)
(* DB implements Durability if no fault but crashes and failing tables     *)
(* occurs, and a recovery is all that takes something out of a table.      *)
(***************************************************************************)
\* What the promises of Durability are subject to: no write to a log, to a manifest or of
\* a block of a table fails, and the Reader of a log does not begin with a true eof_.
NoFaults ==
  /\ "wal" \notin IoErrors
  /\ "manifest" \notin IoErrors
  /\ "block" \notin IoErrors
  /\ "eof_" \notin Indeterminate

\* What all logs hold, as Open would read them.
Logged == UNION {LogEntries(n) : n \in DOMAIN logs}

\* Only entries of batches occur in memory and in tables, and no manifest has number 0.
AllOccur ==
  /\ Contents(mem) \union Contents(imm) \union Contents(rec) \subseteq Occurring
  /\ \A n \in DOMAIN tables : tables[n] \subseteq Occurring
  /\ NoFile \notin DOMAIN manifests

\* The version is what the manifest records, but for the edit that is being applied.
Listed ==
  /\ pc \in RecoveredSteps =>
       Recorded(current) =
         Metas(files) \union
           (IF vpc = "current" /\ manifest_file_number = current THEN Metas(edit.added) ELSE {})
  /\ vpc = "snapshot" => Recorded(manifest_file_number) = {}
  /\ vpc = "record" /\ descriptor_file = "open" =>
       Recorded(manifest_file_number) = Metas(files)
  /\ vpc = "current" =>
       Recorded(manifest_file_number) = Metas(files) \union Metas(edit.added)

\* Who has called LogAndApply: Open, for a manifest of its own, or a flush.
Applier ==
  /\ pc \in {"flush_create", "flush_write", "apply", "gc"} => mem = {}
  /\ pc = "gc" => imm = NULL
  /\ pc = "flush_write" => imm # {}
  /\ pc = "apply" /\ imm # NULL =>
       /\ imm # {}
       /\ descriptor_file = "open" /\ manifest_file_number = current
       /\ vpc \in {"record", "current", "done"}
  /\ pc = "apply" /\ imm = NULL /\ vpc # "done" => current < manifest_file_number

\* Open's edit adds one table, of a recovery, that holds what all logs hold; or none, when
\* they hold nothing.
AddsLogged ==
  \/ edit.added = <<>> /\ Logged = {}
  \/ \E meta \in Metas(edit.added) :
       /\ Metas(edit.added) = {meta}
       /\ meta.by = "recovery"
       /\ meta.number \in DOMAIN tables
       /\ tables[meta.number] = Logged

\* What Open does with the entries of the logs.
Rescued ==
  /\ pc \in {"table0_create", "table0_write"} => rec = Logged
  /\ pc = "table0_write" => RecoveryTable \in DOMAIN tables /\ tables[RecoveryTable] = {}
  /\ pc = "open_log" /\ rec = NULL => Logged = {}
  /\ pc = "open_log" /\ rec # NULL =>
       RecoveryTable \in DOMAIN tables /\ tables[RecoveryTable] = Logged
  /\ pc = "apply" /\ imm = NULL =>
       AddsLogged /\ (vpc = "done" => Metas(edit.added) \subseteq Metas(files))

\* An open database has all that is in the logs, or is about to insert it.
LogsReached == IsOpen =>
  Logged \subseteq Reachable \union (IF pc = "insert" THEN EntriesOf(batch) ELSE {})

\* The log in use: until a flush, recovery reads it; after the flush it has no name.
LogInUse ==
  /\ pc \in OpenSteps => 0 < log_file /\ log_file < next_file_number
  /\ pc \in {"flush_create", "flush_write"} => log_file < logfile_number
  /\ pc = "apply" /\ imm # NULL => log_file < edit.log
  /\ pc = "apply" /\ imm = NULL => edit.log = log_file /\ log_file \in DOMAIN logs
  /\ pc = "gc" \/ vpc = "done" => log_number = manifests[current].log
  /\ vpc = "done" => log_number = edit.log
  /\ pc \in OpenSteps \ {"apply", "gc"} /\ log_file \in DOMAIN logs =>
       manifests[current].log <= log_file

CustodyInv ==
  /\ AllOccur
  /\ Listed
  /\ Applier
  /\ Rescued
  /\ LogsReached
  /\ LogInUse

----------------------------------------------------------------------------------
\* The process ends, on its own accord or not; a table may have been truncated before.
Ends ==
  /\ ProcessEnds
  /\ UNCHANGED <<onDisk, logs>>
  /\ \/ UNCHANGED tables
     \/ pc = "table0_create" /\ tables' = NewWritableFile(tables, RecoveryTable, {})
     \/ pc = "flush_create" /\ tables' = NewWritableFile(tables, logfile_number, {})

\* A step of an open database that changes neither files nor memtables.
Moves ==
  /\ pc \in {"gc", "idle", "room", "flush_write"}
  /\ pc' \in {"idle", "room", "append"}
  /\ pc = "gc" => ObsoleteLogs = {}
  /\ UNCHANGED <<versionVars, logs, tables, mem, imm, rec, log_file, logfile_number, opens>>

NewDB == NewDBCreate \/ NewDBRecord \/ NewDBCurrent

Recovers == RecoverVersions \/ Replay \/ RecoveryTableCreate \/ RecoveryTableWrite

Applies ==
  /\ pc = "apply"
  /\ UNCHANGED dbVars
  /\ CreateDescriptor \/ WriteSnapshot \/ AppendEdit \/ InstallCurrent

Flushes == SwitchMemTable \/ FlushCreate \/ FlushWrite

\* The steps there are if writes to manifests do not fail.
LEMMA StepIs ==
  ASSUME Inv, "manifest" \notin IoErrors, [Next]_vars
  PROVE  \/ Ends \/ Moves \/ UNCHANGED vars
         \/ OpenDB \/ NewDB \/ Recovers \/ OpenLog
         \/ Applies \/ Applied \/ RemoveObsoleteLog \/ RemoveObsoleteManifest
         \/ Flushes \/ AppendToLog \/ InsertInto
<1>1. CASE Opening
  BY <1>1 DEF Opening, Ends, NewDB, Recovers, NewDBFails, RecoverVersionsFails,
              ReplayAborts, RecoveryTableAborts, RecoveryTableFails
<1>2. CASE Applying
  <2>1. ~ ApplyFails /\ ~ NotApplied
    BY DEF ApplyFails, NotApplied, ApplyReturns, Inv, NumbersInv, EditSound
  <2> QED BY <1>2, <2>1 DEF Applying, Apply, ApplyStep, Applies, ApplyWild, Ends, Moves,
                            RemovedObsoleteFiles, Resume
<1>3. CASE Writing
  BY <1>3 DEF Writing, Flushes, RoomLeft, AwaitFlush, FlushFails, FlushAborts, InsertAborts,
              Ends, Moves, Resume
<1>4. CASE Client \/ Crash
  BY <1>4 DEF Client, Crash, Write, GetThrows, Ends, Moves
<1> QED BY <1>1, <1>2, <1>3, <1>4 DEF Next, CallStep

----------------------------------------------------------------------------------
RefInv == Inv /\ LogInv /\ ReachInv /\ MemLogged /\ CustodyInv

LEMMA BatchOccurs == ASSUME NEW b \in Batches PROVE EntriesOf(b) \subseteq Occurring
BY DEF Occurring

LEMMA LoggedOccur == ASSUME TypeInv PROVE Logged \subseteq Occurring
<1> SUFFICES ASSUME NEW n \in DOMAIN logs, NEW i \in DOMAIN logs[n]
             PROVE  EntriesOf(logs[n][i]) \subseteq Occurring
  BY DEF Logged, LogEntries
<1>1. logs[n] \in Seq(Batches)
  BY DEF TypeInv, TypeOK, ProcessTypeOK, IsDirectoryOf
<1> QED BY <1>1, BatchOccurs

LEMMA OccurringType == Occurring \subseteq Entry
BY EntriesOfType DEF Occurring

LEMMA LoggedSame == ASSUME UNCHANGED logs PROVE Logged' = Logged
BY DEF Logged, LogEntries

LEMMA ReachableSame ==
  ASSUME UNCHANGED <<mem, imm, files, tables>> PROVE Reachable' = Reachable
BY DEF Reachable, Contents, LiveTables, Table

\* What recover() finds in the logs when it reads all of them.
LEMMA ReplayIs ==
  ASSUME Inv, NullIsNoMemTable, NoFaults, Replay
  PROVE  /\ rec' = NULL => Logged = {}
         /\ rec' # NULL => rec' = Logged
<1>1. PICK R \in ReadLogs :
        rec' = IF BatchesIn(R) = {} THEN NULL ELSE UNION {EntriesAt(p) : p \in BatchesIn(R)}
  BY DEF Replay
<1>2. R = DOMAIN logs
  BY DEF ReadLogs, NoFaults
<1>3. UNION {EntriesAt(p) : p \in BatchesIn(R)} = Logged
  <2>1. ASSUME NEW n \in DOMAIN logs, NEW i \in DOMAIN logs[n]
        PROVE  \E p \in BatchesIn(R) : EntriesAt(p) = EntriesOf(logs[n][i])
    <3>1. <<n, i>> \in BatchesIn(R)
      BY <1>2 DEF BatchesIn
    <3> QED BY <3>1 DEF EntriesAt
  <2>2. ASSUME NEW p \in BatchesIn(R)
        PROVE  \E n \in DOMAIN logs : \E i \in DOMAIN logs[n] : EntriesAt(p) = EntriesOf(logs[n][i])
    BY <1>2 DEF BatchesIn, EntriesAt
  <2> QED BY <2>1, <2>2 DEF Logged, LogEntries
<1>4. Logged # NULL
  BY LoggedOccur, OccurringType DEF NullIsNoMemTable, Inv
<1> QED BY <1>1, <1>3, <1>4

\* The end of the process leaves what is on the disk.
LEMMA EndsCustody == ASSUME RefInv, Ends PROVE CustodyInv'
<1> USE DEF RefInv, CustodyInv
<1>1. /\ pc' = "down" /\ vpc' = "idle" /\ mem' = NULL /\ imm' = NULL /\ rec' = NULL
      /\ files' = <<>> /\ edit' = NoEdit
      /\ UNCHANGED <<current, manifests, logs, opens>>
  BY DEF Ends, ProcessEnds, ForgetVersions
<1>2. AllOccur'
  <2>1. \A n \in DOMAIN tables' : tables'[n] \subseteq Occurring
    BY DEF Ends, NewWritableFile, AllOccur
  <2> QED BY <1>1, <2>1 DEF AllOccur, Contents
<1>3. Listed' /\ Applier' /\ LogInUse' /\ Rescued' /\ LogsReached'
  BY <1>1 DEF Listed, Applier, LogInUse, Rescued, LogsReached, IsOpen
<1> QED BY <1>2, <1>3

\* Between the calls, and before and after LogAndApply.
LEMMA MovesCustody == ASSUME RefInv, Moves PROVE CustodyInv'
<1> USE DEF RefInv, CustodyInv
<1>1. AllOccur' /\ Listed'
  BY DEF Moves, AllOccur, Listed, Recorded
<1>2. Applier' /\ Rescued'
  BY DEF Moves, Applier, Rescued
<1>3. LogsReached'
  <2>1. IsOpen' => IsOpen
    BY DEF Moves, IsOpen
  <2> QED BY <2>1, LoggedSame, ReachableSame DEF Moves, LogsReached
<1>4. LogInUse'
  <2>1. pc = "gc" /\ log_file \in DOMAIN logs => manifests[current].log <= log_file
    <3> SUFFICES ASSUME pc = "gc", log_file \in DOMAIN logs
                 PROVE  manifests[current].log <= log_file
      OBVIOUS
    <3>1. ~ (log_file < log_number) /\ log_number \in Nat /\ log_file \in Nat
      BY DEF Moves, ObsoleteLogs, LogInUse, Inv, TypeInv, TypeOK, VersionTypeOK, ProcessTypeOK
    <3>2. log_number = manifests[current].log
      BY DEF LogInUse
    <3> QED BY <3>1, <3>2
  <2>2. vpc # "done"
    BY DEF Moves, Inv, NumbersInv, EditSound
  <2> QED BY <2>1, <2>2 DEF Moves, LogInUse
<1> QED BY <1>1, <1>2, <1>3, <1>4

\* The other steps, for which each part of the invariant is shown in turn.
Works ==
  \/ OpenDB \/ NewDB \/ Recovers \/ OpenLog
  \/ Applies \/ Applied \/ RemoveObsoleteLog \/ RemoveObsoleteManifest
  \/ Flushes \/ AppendToLog \/ InsertInto

LEMMA OccurStep ==
  ASSUME RefInv, NullIsNoMemTable, NoFaults, Works
  PROVE  AllOccur'
<1> USE DEF RefInv, CustodyInv
<1>1. Contents(mem') \union Contents(imm') \union Contents(rec') \subseteq Occurring
  <2>1. CASE UNCHANGED <<mem, imm, rec>>
    BY <2>1 DEF AllOccur, Contents
  <2>2. CASE Replay
    <3>1. rec' = NULL \/ rec' = Logged
      BY <2>2, ReplayIs
    <3>2. UNCHANGED <<mem, imm>>
      BY <2>2 DEF Replay
    <3> QED BY <3>1, <3>2, LoggedOccur DEF AllOccur, Contents, Inv
  <2>3. CASE OpenLog \/ Applied \/ SwitchMemTable
    BY <2>3 DEF OpenLog, Applied, SwitchMemTable, AllOccur, Contents
  <2>4. CASE InsertInto
    <3>1. pc = "insert" /\ mem' = mem \union EntriesOf(batch) /\ UNCHANGED <<imm, rec>>
      BY <2>4 DEF InsertInto
    <3>2. mem \in SUBSET Entry /\ batch \in Batches
      BY <3>1 DEF Inv, TypeInv, PhaseOK
    <3>3. mem \subseteq Occurring
      BY <3>2 DEF AllOccur, Contents, NullIsNoMemTable
    <3>4. EntriesOf(batch) \subseteq Occurring
      BY <3>2, BatchOccurs
    <3> QED BY <3>1, <3>3, <3>4 DEF AllOccur, Contents
  <2> QED BY <2>1, <2>2, <2>3, <2>4
          DEF Works, OpenDB, NewDB, NewDBCreate, NewDBRecord, NewDBCurrent, Recovers,
              RecoverVersions, RecoveryTableCreate, RecoveryTableWrite, Applies,
              RemoveObsoleteLog, RemoveObsoleteManifest, Flushes, FlushCreate, FlushWrite,
              AppendToLog
<1>2. \A n \in DOMAIN tables' : tables'[n] \subseteq Occurring
  <2>1. CASE UNCHANGED tables
    BY <2>1 DEF AllOccur
  <2>2. CASE RecoveryTableCreate \/ FlushCreate
    BY <2>2 DEF RecoveryTableCreate, FlushCreate, NewWritableFile, AllOccur
  <2>3. CASE RecoveryTableWrite
    <3>1. rec \in SUBSET Entry /\ \E n : tables' = [tables EXCEPT ![n] = rec]
      BY <2>3 DEF RecoveryTableWrite, Built, NoFaults, Inv, TypeInv, PhaseOK
    <3>2. rec \subseteq Occurring
      BY <3>1 DEF AllOccur, Contents, NullIsNoMemTable
    <3> QED BY <3>1, <3>2 DEF AllOccur
  <2>4. CASE FlushWrite
    <3>1. imm \in SUBSET Entry /\ \E n : tables' = [tables EXCEPT ![n] = imm]
      BY <2>4 DEF FlushWrite, Built, NoFaults, Inv, TypeInv, PhaseOK
    <3>2. imm \subseteq Occurring
      BY <3>1 DEF AllOccur, Contents, NullIsNoMemTable
    <3> QED BY <3>1, <3>2 DEF AllOccur
  <2> QED BY <2>1, <2>2, <2>3, <2>4
          DEF Works, OpenDB, NewDB, NewDBCreate, NewDBRecord, NewDBCurrent, Recovers,
              RecoverVersions, Replay, OpenLog, Applies, Applied, RemoveObsoleteLog,
              RemoveObsoleteManifest, Flushes, SwitchMemTable, AppendToLog, InsertInto
<1>3. NoFile \notin DOMAIN manifests'
  <2>1. CASE UNCHANGED manifests
    BY <2>1 DEF AllOccur
  <2>2. CASE NewDB
    <3>1. DOMAIN manifests' \subseteq DOMAIN manifests \union {1}
      BY <2>2 DEF NewDB, NewDBCreate, NewDBRecord, NewDBCurrent, NewWritableFile
    <3> QED BY <3>1 DEF AllOccur
  <2>3. CASE RemoveObsoleteManifest
    BY <2>3 DEF RemoveObsoleteManifest, DeleteFile, AllOccur
  <2>4. CASE Applies
    <3>1. manifest_file_number # 0
      BY <2>4 DEF Applies, Inv, NumbersInv, CountersSound, TypeInv, TypeOK, VersionTypeOK
    <3> QED BY <2>4, <3>1 DEF Applies, CreateDescriptor, WriteSnapshot, AppendEdit,
                              InstallCurrent, NewWritableFile, AllOccur
  <2> QED BY <2>1, <2>2, <2>3, <2>4
          DEF Works, OpenDB, Recovers, RecoverVersions, Recover, Replay, RecoveryTableCreate,
              RecoveryTableWrite, OpenLog, Applied, ApplyReturns, RemoveObsoleteLog, Flushes,
              SwitchMemTable, FlushCreate, FlushWrite, AppendToLog, InsertInto
<1> QED BY <1>1, <1>2, <1>3 DEF AllOccur

\* What LogAndApply writes into the manifest it has open.
LEMMA AppliesRecorded ==
  ASSUME Inv, Applies
  PROVE  /\ \A m \in DOMAIN manifests' \ {manifest_file_number} :
              m \in DOMAIN manifests /\ manifests'[m] = manifests[m]
         /\ DOMAIN manifests \subseteq DOMAIN manifests'
         /\ CreateDescriptor => manifests'[manifest_file_number] = EmptyManifest
         /\ WriteSnapshot => Metas(manifests'[manifest_file_number].added) =
                               Recorded(manifest_file_number) \union Metas(files)
         /\ AppendEdit => Metas(manifests'[manifest_file_number].added) =
                            Recorded(manifest_file_number) \union Metas(edit.added)
<1> DEFINE mfn == manifest_file_number
<1>1. CASE CreateDescriptor
  <2>1. manifests' = NewWritableFile(manifests, mfn, EmptyManifest) /\ vpc = "create"
    BY <1>1 DEF CreateDescriptor
  <2>2. ~ WriteSnapshot /\ ~ AppendEdit
    BY <2>1 DEF WriteSnapshot, AppendEdit
  <2> QED BY <2>1, <2>2 DEF NewWritableFile
<1>2. ASSUME WriteSnapshot \/ AppendEdit PROVE mfn \in DOMAIN manifests
  BY <1>2 DEF WriteSnapshot, AppendEdit, Applies, Inv, NumbersInv, EditSound, CountersSound
<1>3. files \in Seq(FileMetaData) /\ edit.added \in Seq(FileMetaData)
  BY ListTypes DEF Inv
<1>4. CASE WriteSnapshot
  <2>1. /\ vpc = "snapshot"
        /\ manifests' = [manifests EXCEPT ![mfn] = WithSnapshot(@, files)]
    BY <1>4 DEF WriteSnapshot
  <2>2. ~ CreateDescriptor /\ ~ AppendEdit
    BY <2>1 DEF CreateDescriptor, AppendEdit
  <2>3. manifests'[mfn].added = manifests[mfn].added \o files
    <3>1. manifests[mfn] \in Manifest
      BY <1>2, <1>4, ListTypes DEF Inv
    <3>2. manifests'[mfn] = WithSnapshot(manifests[mfn], files)
      BY <1>2, <1>4, <2>1
    <3> QED BY <3>1, <3>2 DEF WithSnapshot, Manifest
  <2>4. manifests[mfn].added \in Seq(FileMetaData)
    BY <1>2, <1>4, ListTypes DEF Inv
  <2>5. Metas(manifests'[mfn].added) = Recorded(mfn) \union Metas(files)
    BY <1>3, <2>3, <2>4, MetasConcat DEF Recorded
  <2> QED BY <2>1, <2>2, <2>5
<1>5. CASE AppendEdit
  <2>1. /\ vpc = "record"
        /\ manifests' = [manifests EXCEPT ![mfn] = WithEdit(@, edit)]
    BY <1>5 DEF AppendEdit
  <2>2. ~ CreateDescriptor /\ ~ WriteSnapshot
    BY <2>1 DEF CreateDescriptor, WriteSnapshot
  <2>3. manifests'[mfn].added = manifests[mfn].added \o edit.added
    <3>1. manifests'[mfn] = WithEdit(manifests[mfn], edit)
      BY <1>2, <1>5, <2>1
    <3>2. WithEdit(manifests[mfn], edit).added = manifests[mfn].added \o edit.added
      BY WithEditFields
    <3> QED BY <3>1, <3>2
  <2>4. manifests[mfn].added \in Seq(FileMetaData)
    BY <1>2, <1>5, ListTypes DEF Inv
  <2>5. Metas(manifests'[mfn].added) = Recorded(mfn) \union Metas(edit.added)
    BY <1>3, <2>3, <2>4, MetasConcat DEF Recorded
  <2> QED BY <2>1, <2>2, <2>5
<1>6. CASE InstallCurrent
  BY <1>6 DEF InstallCurrent, CreateDescriptor, WriteSnapshot, AppendEdit
<1> QED BY <1>1, <1>4, <1>5, <1>6 DEF Applies

\* The files of a version that Recover or LogAndApply installs.
LEMMA InstalledFiles ==
  ASSUME Inv
  PROVE  /\ RecoverVersions => Metas(files') = Recorded(current)
         /\ InstallCurrent => Metas(files') = Metas(files) \union Metas(edit.added)
<1>1. ASSUME RecoverVersions PROVE Metas(files') = Recorded(current)
  <2>1. current \in DOMAIN manifests /\ files' = SaveTo(files, manifests[current].added)
    BY <1>1 DEF RecoverVersions, Recover, Recoverable
  <2>2. files = <<>>
    BY <1>1 DEF RecoverVersions, Inv, NumbersInv, NewDBSound
  <2>3. Metas(files) = {}
    BY <2>2 DEF Metas
  <2>4. manifests[current].added \in Seq(FileMetaData) /\ files \in Seq(FileMetaData)
    BY <2>1, ListTypes DEF Inv
  <2>5. Metas(files') = Metas(files) \union Metas(manifests[current].added)
    BY <2>1, <2>4, MetasSaveTo
  <2> QED BY <2>3, <2>5 DEF Recorded
<1>2. ASSUME InstallCurrent PROVE Metas(files') = Metas(files) \union Metas(edit.added)
  <2>1. files' = SaveTo(files, edit.added)
    BY <1>2 DEF InstallCurrent
  <2>2. files \in Seq(FileMetaData) /\ edit.added \in Seq(FileMetaData)
    BY ListTypes DEF Inv
  <2> QED BY <2>1, <2>2, MetasSaveTo
<1> QED BY <1>1, <1>2

\* The edits Open and a flush make.
LEMMA MadeEdits ==
  /\ OpenLog /\ rec = NULL => edit'.added = <<>> /\ Metas(edit'.added) = {}
  /\ OpenLog /\ rec # NULL =>
       Metas(edit'.added) = {[number |-> RecoveryTable, built |-> rec, by |-> "recovery"]}
  /\ FlushWrite => Metas(edit'.added) = {FlushFile}
<1>1. ASSUME NEW meta PROVE Metas(<<meta>>) = {meta}
  BY DEF Metas
<1>2. Metas(<<>>) = {}
  BY DEF Metas
<1>3. OpenLog => edit'.added = RecoveryFiles
  BY DEF OpenLog, LogAndApply
<1>4. FlushWrite => edit'.added = <<FlushFile>>
  BY DEF FlushWrite, LogAndApply, FlushFile
<1> HIDE DEF FlushFile
<1> QED BY <1>1, <1>2, <1>3, <1>4 DEF RecoveryFiles

----------------------------------------------------------------------------------
(***************************************************************************)
(* The numbers of flushes, and which files are opened for writing.         *)
(***************************************************************************)
\* The tables of flushes have numbers from FirstFlush on.
FlushesFrom(metas) == \A meta \in metas : meta.by = "flush" => meta.number >= FirstFlush

FlushNumbers ==
  /\ \A m \in DOMAIN manifests : FlushesFrom(Recorded(m))
  /\ FlushesFrom(Metas(files))
  /\ FlushesFrom(Metas(edit.added))
  /\ pc \in OpenSteps => next_file_number >= FirstFlush
  /\ pc \in {"flush_create", "flush_write"} => logfile_number >= FirstFlush

LEMMA FlushNumbersStep ==
  ASSUME Inv, FlushNumbers, Works
  PROVE  FlushNumbers'
<1>1. FlushesFrom({})
  BY DEF FlushesFrom
<1>2. ASSUME NEW A, NEW B, FlushesFrom(A), FlushesFrom(B) PROVE FlushesFrom(A \union B)
  BY <1>2 DEF FlushesFrom
<1>3. \A m \in DOMAIN manifests' : FlushesFrom(Metas(manifests'[m].added))
  <2>1. CASE UNCHANGED manifests
    BY <2>1 DEF FlushNumbers, Recorded
  <2>2. CASE NewDBCreate \/ NewDBRecord
    <3> SUFFICES ASSUME NEW m \in DOMAIN manifests' PROVE FlushesFrom(Metas(manifests'[m].added))
      OBVIOUS
    <3>1. CASE m # 1
      <4>1. m \in DOMAIN manifests /\ manifests'[m] = manifests[m]
        BY <2>2, <3>1 DEF NewDBCreate, NewDBRecord, NewWritableFile
      <4> QED BY <4>1 DEF FlushNumbers, Recorded
    <3>2. CASE m = 1
      <4>1. manifests'[1].added = <<>>
        <5>1. CASE NewDBCreate
          BY <5>1 DEF NewDBCreate, NewWritableFile, EmptyManifest
        <5>2. CASE NewDBRecord
          <6>1. 1 \in DOMAIN manifests /\ manifests[1].added = <<>>
            BY <5>2 DEF NewDBRecord, Inv, NumbersInv, NewDBSound
          <6> DEFINE e == [log |-> 0, next |-> 2, added |-> <<>>]
          <6>2. manifests'[1] = WithEdit(manifests[1], e) \/ manifests' = manifests
            BY <5>2, <6>1 DEF NewDBRecord
          <6>3. WithEdit(manifests[1], e).added = manifests[1].added \o e.added
            BY WithEditFields
          <6> QED BY <6>1, <6>2, <6>3
        <5> QED BY <2>2, <5>1, <5>2
      <4>2. Metas(<<>>) = {}
        BY DEF Metas
      <4> QED BY <1>1, <3>2, <4>1, <4>2
    <3> QED BY <3>1, <3>2
  <2>3. CASE Applies
    <3> SUFFICES ASSUME NEW m \in DOMAIN manifests' PROVE FlushesFrom(Metas(manifests'[m].added))
      OBVIOUS
    <3>1. CASE m # manifest_file_number
      BY <2>3, <3>1, AppliesRecorded DEF FlushNumbers, Recorded
    <3>2. CASE m = manifest_file_number
      <4>1. Metas(EmptyManifest.added) = {}
        BY DEF Metas, EmptyManifest
      <4>2. ASSUME WriteSnapshot \/ AppendEdit PROVE FlushesFrom(Recorded(manifest_file_number))
        BY <2>3, <4>2 DEF WriteSnapshot, AppendEdit, Applies, Inv, NumbersInv, EditSound,
                          CountersSound, FlushNumbers
      <4>3. FlushesFrom(Metas(files)) /\ FlushesFrom(Metas(edit.added))
        BY DEF FlushNumbers
      <4>4. CASE CreateDescriptor
        BY <1>1, <2>3, <3>2, <4>1, <4>4, AppliesRecorded
      <4>5. CASE WriteSnapshot
        BY <1>2, <2>3, <3>2, <4>2, <4>3, <4>5, AppliesRecorded
      <4>6. CASE AppendEdit
        BY <1>2, <2>3, <3>2, <4>2, <4>3, <4>6, AppliesRecorded
      <4> QED BY <2>1, <2>3, <4>4, <4>5, <4>6 DEF Applies, InstallCurrent
    <3> QED BY <3>1, <3>2
  <2>4. CASE RemoveObsoleteManifest
    BY <2>4 DEF RemoveObsoleteManifest, DeleteFile, FlushNumbers, Recorded
  <2> QED BY <2>1, <2>2, <2>3, <2>4
          DEF Works, OpenDB, NewDB, NewDBCurrent, Recovers, RecoverVersions, Recover, Replay,
              RecoveryTableCreate, RecoveryTableWrite, OpenLog, Applied, ApplyReturns,
              RemoveObsoleteLog, Flushes, SwitchMemTable, FlushCreate, FlushWrite, AppendToLog,
              InsertInto
<1>4. FlushesFrom(Metas(files'))
  <2>1. CASE UNCHANGED files
    BY <2>1 DEF FlushNumbers
  <2>2. CASE OpenDB
    <3>1. files' = <<>>
      BY <2>2 DEF OpenDB, NewVersionSet
    <3>2. Metas(<<>>) = {}
      BY DEF Metas
    <3> QED BY <1>1, <3>1, <3>2
  <2>3. CASE RecoverVersions
    BY <2>3, InstalledFiles DEF RecoverVersions, Recover, Recoverable, FlushNumbers
  <2>4. CASE InstallCurrent
    BY <1>2, <2>4, InstalledFiles DEF FlushNumbers
  <2> QED BY <2>1, <2>2, <2>3, <2>4
          DEF Works, NewDB, NewDBCreate, NewDBRecord, NewDBCurrent, Recovers, Replay,
              RecoveryTableCreate, RecoveryTableWrite, OpenLog, Applies, CreateDescriptor,
              WriteSnapshot, AppendEdit, Applied, ApplyReturns, RemoveObsoleteLog,
              RemoveObsoleteManifest, Flushes, SwitchMemTable, FlushCreate, FlushWrite,
              AppendToLog, InsertInto
<1>5. FlushesFrom(Metas(edit'.added))
  <2>1. CASE UNCHANGED edit
    BY <2>1 DEF FlushNumbers
  <2>2. CASE edit' = NoEdit
    BY <1>1, <2>2 DEF NoEdit, Metas
  <2>3. CASE OpenLog
    BY <1>1, <2>3, MadeEdits DEF FlushesFrom
  <2>4. CASE FlushWrite
    <3>1. logfile_number >= FirstFlush
      BY <2>4 DEF FlushWrite, FlushNumbers
    <3> QED BY <2>4, <3>1, MadeEdits DEF FlushesFrom, FlushFile
  <2> QED BY <2>1, <2>2, <2>3, <2>4
          DEF Works, OpenDB, NewVersionSet, NewDB, NewDBCreate, NewDBRecord, NewDBCurrent,
              Recovers, RecoverVersions, Recover, Replay, RecoveryTableCreate,
              RecoveryTableWrite, Applies, CreateDescriptor, WriteSnapshot, AppendEdit,
              InstallCurrent, Applied, ApplyReturns, RemoveObsoleteLog, RemoveObsoleteManifest,
              Flushes, SwitchMemTable, FlushCreate, AppendToLog, InsertInto
<1>6. next_file_number \in Nat /\ current \in Nat /\ manifest_file_number \in Nat
  BY DEF Inv, TypeInv, TypeOK, VersionTypeOK
<1>7. pc' \in OpenSteps => next_file_number' >= FirstFlush
  <2>1. CASE OpenLog
    <3>1. current # 0 /\ current < manifest_file_number /\ manifest_file_number < next_file_number
      BY <2>1 DEF OpenLog, Inv, NumbersInv, CountersSound, EditSound
    <3> QED BY <1>6, <2>1, <3>1 DEF OpenLog, FirstFlush
  <2>2. CASE SwitchMemTable
    BY <1>6, <2>2 DEF SwitchMemTable, FlushNumbers, FirstFlush
  <2> QED BY <2>1, <2>2
          DEF Works, FlushNumbers, OpenDB, NewDB, NewDBCreate, NewDBRecord, NewDBCurrent,
              Recovers, RecoverVersions, Replay, RecoveryTableCreate, RecoveryTableWrite,
              Applies, CreateDescriptor, WriteSnapshot, AppendEdit, InstallCurrent, Applied,
              ApplyReturns, RemoveObsoleteLog, RemoveObsoleteManifest, Flushes, FlushCreate,
              FlushWrite, AppendToLog, InsertInto
<1>8. pc' \in {"flush_create", "flush_write"} => logfile_number' >= FirstFlush
  BY DEF Works, FlushNumbers, OpenDB, NewDB, NewDBCreate, NewDBRecord, NewDBCurrent, Recovers,
         RecoverVersions, Replay, RecoveryTableCreate, RecoveryTableWrite, OpenLog, Applies,
         Applied, RemoveObsoleteLog, RemoveObsoleteManifest, Flushes, SwitchMemTable,
         FlushCreate, FlushWrite, AppendToLog, InsertInto
<1> QED BY <1>3, <1>4, <1>5, <1>7, <1>8 DEF FlushNumbers, Recorded

LEMMA FlushNumbersNext ==
  ASSUME Inv, FlushNumbers, "manifest" \notin IoErrors, [Next]_vars
  PROVE  FlushNumbers'
<1>1. CASE Ends
  <2>1. /\ pc' = "down" /\ files' = <<>> /\ edit' = NoEdit /\ UNCHANGED manifests
    BY <1>1 DEF Ends, ProcessEnds, ForgetVersions
  <2>2. FlushesFrom(Metas(files))' /\ FlushesFrom(Metas(edit.added))'
    BY <2>1 DEF FlushesFrom, Metas, NoEdit
  <2> QED BY <2>1, <2>2 DEF FlushNumbers, Recorded
<1>2. CASE Moves \/ UNCHANGED vars
  BY <1>2 DEF Moves, vars, FlushNumbers, Recorded
<1>3. CASE Works
  BY <1>3, FlushNumbersStep
<1> QED BY <1>1, <1>2, <1>3, StepIs DEF Works

LEMMA InitFlushNumbers == Init => FlushNumbers
<1>1. Init => Metas(files) = {} /\ Metas(edit.added) = {} /\ DOMAIN manifests = {}
  BY DEF Init, NoFiles, NoEdit, Metas
<1> QED BY <1>1 DEF Init, FlushNumbers, FlushesFrom

\* If writes to manifests do not fail, LogAndApply, Open and a flush never open a manifest, a
\* log or a table whose contents count, and recover() opens the table of no flush unless
\* there are more than four logs.
THEOREM FilesAlwaysFresh ==
  ASSUME "manifest" \notin IoErrors
  PROVE  Spec => []FreshFiles
<1>1. Inv /\ FlushNumbers => FreshFiles
  <2> SUFFICES ASSUME Inv, FlushNumbers PROVE FreshFiles
    OBVIOUS
  <2> USE DEF Inv, NumbersInv
  <2>1. vpc = "create" => manifest_file_number # current
    <3> SUFFICES ASSUME vpc = "create" PROVE current < manifest_file_number
      BY DEF TypeInv, TypeOK, VersionTypeOK
    <3>1. pc = "apply" /\ descriptor_file # "open"
      BY DEF EditSound
    <3> QED BY <3>1 DEF CountersSound
  <2>2. pc = "open_log" => next_file_number \notin DOMAIN logs
    BY DEF LogNumbersUsed, TypeInv, TypeOK, VersionTypeOK
  <2>3. pc = "flush_create" => logfile_number \notin LiveTables
    BY DEF TableNumberNew, Below, LiveTables, TypeInv, TypeOK, ProcessTypeOK
  <2>4. ASSUME RecoveryTable < FirstFlush, NEW i \in DOMAIN files, files[i].by = "flush"
        PROVE  files[i].number # RecoveryTable
    <3>1. files[i] \in Metas(files) /\ files[i].number \in Nat
      <4>1. files \in Seq(FileMetaData)
        BY ListTypes
      <4>2. files[i] \in FileMetaData
        BY <2>4, <4>1
      <4> QED BY <2>4, <4>2 DEF Metas, FileMetaData
    <3>2. files[i].number >= FirstFlush
      BY <2>4, <3>1 DEF FlushNumbers, FlushesFrom
    <3>3. RecoveryTable \in Int
      BY FS_CardinalityType DEF RecoveryTable, TypeInv, TypeOK, ProcessTypeOK, IsDirectoryOf
    <3> QED BY <2>4, <3>1, <3>2, <3>3 DEF FirstFlush
  <2> QED BY <2>1, <2>2, <2>3, <2>4 DEF FreshFiles
<1>2. Init => Inv /\ FlushNumbers
  BY InitNumbers, InitFlushNumbers
<1>3. Inv /\ FlushNumbers /\ [Next]_vars => (Inv /\ FlushNumbers)'
  BY NextNumbers, FlushNumbersNext
<1> QED BY <1>1, <1>2, <1>3, PTL DEF Spec

----------------------------------------------------------------------------------
LEMMA ListedStep ==
  ASSUME RefInv, Works
  PROVE  Listed'
<1> USE DEF RefInv, CustodyInv
<1>1. ASSUME UNCHANGED <<current, manifest_file_number, files, edit, descriptor_file>>,
             vpc' # "current", vpc # "current", vpc' # "snapshot",
             vpc' = "record" => vpc = "record",
             pc' \in RecoveredSteps => pc \in RecoveredSteps /\ Recorded(current)' = Recorded(current),
             vpc = "record" /\ descriptor_file = "open" =>
               Recorded(manifest_file_number)' = Recorded(manifest_file_number)
      PROVE  Listed'
  BY <1>1 DEF Listed
<1>2. CASE pc' \notin RecoveredSteps /\ vpc' = "idle"
  BY <1>2 DEF Listed
<1>3. CASE OpenDB \/ NewDB
  <2>1. vpc' = "idle" /\ pc' \notin RecoveredSteps
    BY <1>3 DEF OpenDB, NewVersionSet, NewDB, NewDBCreate, NewDBRecord, NewDBCurrent, Inv,
                NumbersInv, NewDBSound
  <2> QED BY <1>2, <2>1
<1>4. CASE RecoverVersions
  <2>1. /\ pc' = "replay" /\ UNCHANGED <<vpc, current, manifests>>
        /\ vpc = "idle"
    BY <1>4 DEF RecoverVersions, Recover, Inv, NumbersInv, NewDBSound
  <2>2. Metas(files') = Recorded(current)
    BY <1>4, InstalledFiles
  <2>3. Recorded(current)' = Recorded(current)
    BY <2>1 DEF Recorded
  <2> QED BY <2>1, <2>2, <2>3 DEF Listed
<1>5. CASE Replay \/ RecoveryTableCreate \/ RecoveryTableWrite \/ RemoveObsoleteLog
             \/ SwitchMemTable \/ FlushCreate \/ AppendToLog \/ InsertInto
  <2>1. /\ UNCHANGED <<current, manifests, manifest_file_number, files, edit, descriptor_file, vpc>>
        /\ pc \in RecoveredSteps /\ pc # "apply"
    BY <1>5 DEF Replay, RecoveryTableCreate, RecoveryTableWrite, RemoveObsoleteLog,
                SwitchMemTable, FlushCreate, AppendToLog, InsertInto
  <2>2. vpc = "idle"
    BY <2>1 DEF Inv, NumbersInv, EditSound
  <2>3. Recorded(current)' = Recorded(current)
    BY <2>1 DEF Recorded
  <2> QED BY <1>1, <2>1, <2>2, <2>3
<1>6. CASE OpenLog
  <2>1. /\ UNCHANGED <<current, manifests, manifest_file_number, files, descriptor_file>>
        /\ pc = "open_log" /\ vpc = "idle" /\ vpc' \in {"create", "record"}
    BY <1>6 DEF OpenLog, LogAndApply
  <2>2. descriptor_file # "open"
    BY <2>1 DEF Inv, NumbersInv, EditSound
  <2>3. Recorded(current)' = Recorded(current)
    BY <2>1 DEF Recorded
  <2> QED BY <2>1, <2>2, <2>3 DEF Listed
<1>7. CASE FlushWrite
  <2>1. /\ UNCHANGED <<current, manifests, manifest_file_number, files, descriptor_file>>
        /\ pc = "flush_write" /\ vpc = "idle" /\ vpc' \in {"create", "record"}
    BY <1>7 DEF FlushWrite, LogAndApply
  <2>2. manifest_file_number = current
    BY <2>1 DEF Inv, NumbersInv, Settled
  <2>3. Recorded(current)' = Recorded(current)
    BY <2>1 DEF Recorded
  <2> QED BY <2>1, <2>2, <2>3 DEF Listed
<1>8. CASE Applied
  <2>1. /\ UNCHANGED <<current, manifests, files>>
        /\ pc = "apply" /\ vpc = "done" /\ vpc' = "idle"
    BY <1>8 DEF Applied, ApplyReturns
  <2>2. Recorded(current)' = Recorded(current)
    BY <2>1 DEF Recorded
  <2> QED BY <2>1, <2>2 DEF Listed
<1>9. CASE RemoveObsoleteManifest
  <2>1. PICK n \in ObsoleteManifests : manifests' = DeleteFile(manifests, n)
    BY <1>9 DEF RemoveObsoleteManifest
  <2>2. pc = "gc" /\ pc' = "gc" /\ UNCHANGED <<current, inMemory>>
    BY <1>9 DEF RemoveObsoleteManifest
  <2>3. /\ current \in Nat /\ manifest_file_number = current /\ vpc = "idle"
        /\ current \in DOMAIN manifests
    BY <2>2 DEF Inv, TypeInv, TypeOK, VersionTypeOK, NumbersInv, Settled, EditSound,
                CountersSound, CurrentSound, Sound
  <2>4. n # current
    BY <2>1, <2>3 DEF ObsoleteManifests
  <2>5. manifests'[current] = manifests[current]
    BY <2>1, <2>3, <2>4 DEF DeleteFile
  <2>6. Recorded(current)' = Recorded(current)
    BY <2>2, <2>5 DEF Recorded
  <2> QED BY <2>2, <2>3, <2>6, <1>1
<1>10. CASE Applies
  <2>1. /\ pc = "apply" /\ pc' = "apply"
        /\ current \in DOMAIN manifests /\ current \in Nat /\ manifest_file_number \in Nat
    BY <1>10 DEF Applies, Inv, TypeInv, TypeOK, VersionTypeOK, NumbersInv, CountersSound,
                 CurrentSound, Sound
  <2> DEFINE mfn == manifest_file_number
  <2>2. CASE CreateDescriptor
    <3>1. /\ vpc = "create" /\ vpc' = "snapshot"
          /\ UNCHANGED <<current, manifest_file_number, files, edit>>
      BY <2>2 DEF CreateDescriptor
    <3>2. current # mfn
      BY <2>1, <3>1 DEF Inv, NumbersInv, EditSound, CountersSound
    <3>3. manifests'[current] = manifests[current] /\ manifests'[mfn] = EmptyManifest
      BY <1>10, <2>1, <2>2, <3>2, AppliesRecorded
    <3>4. Recorded(current)' = Recorded(current) /\ Recorded(mfn)' = {}
      BY <3>1, <3>3 DEF Recorded, EmptyManifest, Metas
    <3> QED BY <2>1, <3>1, <3>4 DEF Listed
  <2>3. CASE WriteSnapshot
    <3>1. /\ vpc = "snapshot" /\ vpc' = "record"
          /\ UNCHANGED <<current, manifest_file_number, files, edit>>
      BY <2>3 DEF WriteSnapshot
    <3>2. current # mfn
      BY <2>1, <3>1 DEF Inv, NumbersInv, EditSound
    <3>3. /\ manifests'[current] = manifests[current]
          /\ Metas(manifests'[mfn].added) = Recorded(mfn) \union Metas(files)
      BY <1>10, <2>1, <2>3, <3>2, AppliesRecorded
    <3>4. Recorded(current)' = Recorded(current) /\ Recorded(mfn)' = Metas(files)
      BY <3>1, <3>3 DEF Recorded, Listed
    <3> QED BY <2>1, <3>1, <3>4 DEF Listed
  <2>4. CASE AppendEdit
    <3>1. /\ vpc = "record" /\ vpc' = "current" /\ descriptor_file = "open"
          /\ UNCHANGED <<current, manifest_file_number, files, edit>>
      BY <2>4 DEF AppendEdit
    <3>2. /\ current # mfn => manifests'[current] = manifests[current]
          /\ Metas(manifests'[mfn].added) = Recorded(mfn) \union Metas(edit.added)
      BY <1>10, <2>1, <2>4, AppliesRecorded
    <3>3. Recorded(mfn)' = Metas(files) \union Metas(edit.added)
      BY <3>1, <3>2 DEF Recorded, Listed
    <3>4. current # mfn => Recorded(current)' = Metas(files)
      BY <2>1, <3>1, <3>2 DEF Recorded, Listed
    <3> QED BY <2>1, <3>1, <3>3, <3>4 DEF Listed
  <2>5. CASE InstallCurrent
    <3>1. /\ vpc = "current" /\ vpc' = "done" /\ current' = mfn
          /\ UNCHANGED <<manifests, manifest_file_number, edit>>
      BY <2>5 DEF InstallCurrent
    <3>2. Metas(files') = Metas(files) \union Metas(edit.added)
      BY <2>5, InstalledFiles
    <3>3. Recorded(current)' = Metas(files')
      BY <3>1, <3>2 DEF Recorded, Listed
    <3> QED BY <3>1, <3>3 DEF Listed
  <2> QED BY <1>10, <2>2, <2>3, <2>4, <2>5 DEF Applies
<1> QED BY <1>3, <1>4, <1>5, <1>6, <1>7, <1>8, <1>9, <1>10 DEF Works, Recovers, Flushes

LEMMA ApplierStep ==
  ASSUME RefInv, NullIsNoMemTable, Works
  PROVE  Applier'
<1> USE DEF RefInv, CustodyInv
<1>1. CASE pc' \notin {"flush_create", "flush_write", "apply", "gc"}
  BY <1>1 DEF Applier
<1>2. CASE OpenLog
  <2>1. /\ pc = "open_log" /\ pc' = "apply" /\ mem' = {} /\ imm' = imm
        /\ UNCHANGED <<current, manifest_file_number, descriptor_file>>
    BY <1>2 DEF OpenLog
  <2>2. imm = NULL
    BY <2>1 DEF ReachInv, MemAbsent
  <2>3. current < manifest_file_number
    BY <2>1 DEF Inv, NumbersInv, EditSound, CountersSound
  <2> QED BY <2>1, <2>2, <2>3 DEF Applier
<1>3. CASE Applies
  <2>1. /\ pc = "apply" /\ pc' = "apply"
        /\ UNCHANGED <<mem, imm, manifest_file_number>>
    BY <1>3 DEF Applies, CreateDescriptor, WriteSnapshot, AppendEdit, InstallCurrent
  <2>2. CASE InstallCurrent
    <3>1. vpc' = "done" /\ current' = manifest_file_number /\ descriptor_file' = descriptor_file
      BY <2>2 DEF InstallCurrent
    <3> QED BY <2>1, <3>1 DEF Applier
  <2>3. CASE AppendEdit
    <3>1. vpc' = "current" /\ vpc # "done" /\ current' = current
            /\ descriptor_file' = descriptor_file
      BY <2>3 DEF AppendEdit
    <3> QED BY <2>1, <3>1 DEF Applier
  <2>4. CASE CreateDescriptor \/ WriteSnapshot
    <3>1. vpc \in {"create", "snapshot"} /\ current' = current
      BY <2>4 DEF CreateDescriptor, WriteSnapshot
    <3>2. imm = NULL
      BY <2>1, <3>1 DEF Applier
    <3> QED BY <2>1, <3>1, <3>2 DEF Applier
  <2> QED BY <1>3, <2>2, <2>3, <2>4 DEF Applies
<1>4. CASE Applied \/ RemoveObsoleteLog \/ RemoveObsoleteManifest
  <2>1. /\ pc \in {"apply", "gc"} /\ pc' = "gc" /\ mem' = mem
        /\ imm' = NULL \/ (pc = "gc" /\ imm' = imm)
    BY <1>4 DEF Applied, RemoveObsoleteLog, RemoveObsoleteManifest
  <2> QED BY <2>1 DEF Applier
<1>5. CASE SwitchMemTable
  BY <1>5 DEF SwitchMemTable, Applier
<1>6. CASE FlushCreate
  BY <1>6 DEF FlushCreate, Applier
<1>7. CASE FlushWrite
  <2>1. /\ pc = "flush_write" /\ pc' = "apply" /\ UNCHANGED <<mem, imm>>
        /\ UNCHANGED <<current, manifest_file_number, descriptor_file>>
    BY <1>7 DEF FlushWrite
  <2>2. imm # {} /\ imm # NULL /\ mem = {}
    BY <2>1 DEF Applier, Inv, TypeInv, PhaseOK, NullIsNoMemTable
  <2>3. descriptor_file = "open" /\ manifest_file_number = current
    BY <2>1 DEF Inv, NumbersInv, Settled
  <2>4. vpc' = "record"
    BY <1>7, <2>3 DEF FlushWrite, LogAndApply
  <2> QED BY <2>1, <2>2, <2>3, <2>4 DEF Applier
<1> QED BY <1>1, <1>2, <1>3, <1>4, <1>5, <1>6, <1>7
        DEF Works, OpenDB, NewDB, NewDBCreate, NewDBRecord, NewDBCurrent, Recovers,
            RecoverVersions, Replay, RecoveryTableCreate, RecoveryTableWrite, Flushes,
            AppendToLog, InsertInto

\* What the logs hold changes only when a batch is appended or a log is removed.
LEMMA LoggedOpenLog == ASSUME Inv, OpenLog PROVE Logged' = Logged
<1>1. /\ pc = "open_log"
      /\ logs' = NewWritableFile(logs, next_file_number, <<>>)
  BY DEF OpenLog
<1>2. next_file_number \notin DOMAIN logs
  BY <1>1 DEF Inv, NumbersInv, LogNumbersUsed, TypeInv, TypeOK, VersionTypeOK
<1>3. /\ DOMAIN logs' = DOMAIN logs \union {next_file_number}
      /\ \A n \in DOMAIN logs : logs'[n] = logs[n]
      /\ logs'[next_file_number] = <<>>
  BY <1>1, <1>2 DEF NewWritableFile
<1>4. \A n \in DOMAIN logs : LogEntries(n)' = LogEntries(n)
  BY <1>3 DEF LogEntries
<1>5. {EntriesOf(logs'[next_file_number][i]) : i \in DOMAIN logs'[next_file_number]} = {}
  BY <1>3
<1>6. \A n \in DOMAIN logs' \ DOMAIN logs : UNION {EntriesOf(logs'[n][i]) : i \in DOMAIN logs'[n]} = {}
  BY <1>3, <1>5
<1>7. Logged' = UNION {UNION {EntriesOf(logs'[n][i]) : i \in DOMAIN logs'[n]} : n \in DOMAIN logs'}
  BY DEF Logged, LogEntries
<1>8. \A n \in DOMAIN logs : UNION {EntriesOf(logs'[n][i]) : i \in DOMAIN logs'[n]} = LogEntries(n)
  BY <1>3 DEF LogEntries
<1> QED BY <1>3, <1>6, <1>7, <1>8 DEF Logged

LEMMA EntriesAppended ==
  ASSUME NEW s \in Seq(Batches), NEW b \in Batches
  PROVE  UNION {EntriesOf(Append(s, b)[i]) : i \in DOMAIN Append(s, b)} =
           EntriesOf(b) \union UNION {EntriesOf(s[i]) : i \in DOMAIN s}
<1> DEFINE t == Append(s, b)
           before == {EntriesOf(s[i]) : i \in DOMAIN s}
           after == {EntriesOf(t[i]) : i \in DOMAIN t}
<1>1. /\ DOMAIN t = DOMAIN s \union {Len(s) + 1}
      /\ \A i \in DOMAIN s : t[i] = s[i]
      /\ t[Len(s) + 1] = b
  OBVIOUS
<1> HIDE DEF t
<1>2. after = before \union {EntriesOf(b)}
  BY <1>1
<1> HIDE DEF before, after
<1>3. UNION after = EntriesOf(b) \union UNION before
  BY <1>2
<1> QED BY <1>3 DEF before, after, t

LEMMA LoggedAppend ==
  ASSUME Inv, AppendToLog, log_file \in DOMAIN logs, "wal" \notin IoErrors
  PROVE  /\ Logged' = Logged \union EntriesOf(batch)
         /\ DOMAIN logs' = DOMAIN logs
<1> DEFINE later(n) == UNION {EntriesOf(logs'[n][i]) : i \in DOMAIN logs'[n]}
<1>1. logs' = [logs EXCEPT ![log_file] = Append(logs[log_file], batch)] /\ batch \in Batches
  BY DEF AppendToLog, Inv, TypeInv, PhaseOK
<1>2. logs \in [DOMAIN logs -> Seq(Batches)]
  BY DEF Inv, TypeInv, TypeOK, ProcessTypeOK, IsDirectoryOf
<1>3. /\ DOMAIN logs' = DOMAIN logs
      /\ logs'[log_file] = Append(logs[log_file], batch)
      /\ \A n \in DOMAIN logs \ {log_file} : logs'[n] = logs[n]
  BY <1>1, <1>2
<1>4. later(log_file) = LogEntries(log_file) \union EntriesOf(batch)
  <2>1. logs[log_file] \in Seq(Batches)
    BY <1>2
  <2> QED BY <1>1, <1>3, <2>1, EntriesAppended DEF LogEntries
<1>5. \A n \in DOMAIN logs \ {log_file} : later(n) = LogEntries(n)
  BY <1>3 DEF LogEntries
<1>6. Logged' = UNION {later(n) : n \in DOMAIN logs'}
  BY DEF Logged, LogEntries
<1> HIDE DEF later
<1> QED BY <1>3, <1>4, <1>5, <1>6 DEF Logged

LEMMA LoggedRemove == ASSUME RemoveObsoleteLog PROVE Logged' \subseteq Logged
<1>1. PICK n \in ObsoleteLogs : logs' = DeleteFile(logs, n)
  BY DEF RemoveObsoleteLog
<1>2. DOMAIN logs' \subseteq DOMAIN logs /\ \A m \in DOMAIN logs' : logs'[m] = logs[m]
  BY <1>1 DEF DeleteFile
<1>3. \A m \in DOMAIN logs' :
        UNION {EntriesOf(logs'[m][i]) : i \in DOMAIN logs'[m]} = LogEntries(m)
  BY <1>2 DEF LogEntries
<1>4. Logged' = UNION {UNION {EntriesOf(logs'[m][i]) : i \in DOMAIN logs'[m]} : m \in DOMAIN logs'}
  BY DEF Logged, LogEntries
<1> QED BY <1>2, <1>3, <1>4 DEF Logged

LEMMA RescuedStep ==
  ASSUME RefInv, NullIsNoMemTable, NoFaults, Works
  PROVE  Rescued'
<1> USE DEF RefInv, CustodyInv
<1>1. CASE pc' \notin {"table0_create", "table0_write", "open_log", "apply"}
  BY <1>1 DEF Rescued
<1>2. CASE Replay
  <2>1. pc' = IF rec' = NULL THEN "open_log" ELSE "table0_create"
    BY <1>2 DEF Replay
  <2>2. Logged' = Logged
    BY <1>2, LoggedSame DEF Replay
  <2> QED BY <1>2, <2>1, <2>2, ReplayIs DEF Rescued
<1>3. CASE RecoveryTableCreate
  <2>1. /\ pc = "table0_create" /\ pc' = "table0_write" /\ UNCHANGED <<logs, rec>>
        /\ tables' = NewWritableFile(tables, RecoveryTable, {})
    BY <1>3 DEF RecoveryTableCreate
  <2>2. RecoveryTable' = RecoveryTable /\ Logged' = Logged
    BY <2>1, LoggedSame DEF RecoveryTable
  <2>3. RecoveryTable \in DOMAIN tables' /\ tables'[RecoveryTable] = {}
    BY <2>1 DEF NewWritableFile
  <2> QED BY <2>1, <2>2, <2>3 DEF Rescued
<1>4. CASE RecoveryTableWrite
  <2>1. /\ pc = "table0_write" /\ pc' = "open_log" /\ UNCHANGED <<logs, rec>>
        /\ tables' = [tables EXCEPT ![RecoveryTable] = rec]
    BY <1>4 DEF RecoveryTableWrite, Built, NoFaults
  <2>2. RecoveryTable' = RecoveryTable /\ Logged' = Logged
    BY <2>1, LoggedSame DEF RecoveryTable
  <2>3. RecoveryTable \in DOMAIN tables /\ rec = Logged
    BY <2>1 DEF Rescued
  <2>4. RecoveryTable \in DOMAIN tables' /\ tables'[RecoveryTable] = Logged
    BY <2>1, <2>3
  <2>5. rec # NULL
    BY <2>1 DEF Inv, TypeInv, PhaseOK, NullIsNoMemTable
  <2> QED BY <2>1, <2>2, <2>4, <2>5 DEF Rescued
<1>5. CASE OpenLog
  <2>1. pc = "open_log" /\ pc' = "apply" /\ tables' = tables /\ vpc' \in {"create", "record"}
    BY <1>5 DEF OpenLog, LogAndApply
  <2>2. Logged' = Logged
    BY <1>5, LoggedOpenLog
  <2>3. AddsLogged'
    <3>1. CASE rec = NULL
      BY <1>5, <2>1, <2>2, <3>1, MadeEdits DEF Rescued, AddsLogged
    <3>2. CASE rec # NULL
      <4> DEFINE made == [number |-> RecoveryTable, built |-> rec, by |-> "recovery"]
      <4>1. Metas(edit'.added) = {made}
        BY <1>5, <3>2, MadeEdits
      <4>2. made.by = "recovery" /\ made.number = RecoveryTable
        OBVIOUS
      <4>3. RecoveryTable \in DOMAIN tables /\ tables[RecoveryTable] = Logged
        BY <2>1, <3>2 DEF Rescued
      <4>4. Metas(edit.added)' = {made}
        BY <4>1 DEF Metas
      <4> HIDE DEF made
      <4> QED BY <2>1, <2>2, <4>2, <4>3, <4>4 DEF AddsLogged
    <3> QED BY <3>1, <3>2
  <2> QED BY <2>1, <2>3 DEF Rescued
<1>6. CASE Applies
  <2>1. pc = "apply" /\ pc' = "apply" /\ UNCHANGED <<logs, tables, imm, edit>>
    BY <1>6 DEF Applies, CreateDescriptor, WriteSnapshot, AppendEdit, InstallCurrent
  <2>2. AddsLogged' = AddsLogged
    BY <2>1, LoggedSame DEF AddsLogged, Metas
  <2>3. CASE InstallCurrent
    <3>1. Metas(edit'.added) \subseteq Metas(files')
      BY <2>1, <2>3, InstalledFiles
    <3> QED BY <2>1, <2>2, <3>1 DEF Rescued, Metas
  <2>4. CASE vpc' # "done"
    BY <2>1, <2>2, <2>4 DEF Rescued
  <2> QED BY <1>6, <2>3, <2>4 DEF Applies, CreateDescriptor, WriteSnapshot, AppendEdit
<1>7. CASE FlushWrite
  <2>1. pc = "flush_write" /\ pc' = "apply" /\ imm' = imm
    BY <1>7 DEF FlushWrite
  <2>2. imm # NULL
    BY <2>1 DEF Inv, TypeInv, PhaseOK, NullIsNoMemTable
  <2> QED BY <2>1, <2>2 DEF Rescued
<1> QED BY <1>1, <1>2, <1>3, <1>4, <1>5, <1>6, <1>7
        DEF Works, OpenDB, NewDB, NewDBCreate, NewDBRecord, NewDBCurrent, Recovers,
            RecoverVersions, Applied, RemoveObsoleteLog, RemoveObsoleteManifest, Flushes,
            SwitchMemTable, FlushCreate, AppendToLog, InsertInto

LEMMA LogInUseStep ==
  ASSUME RefInv, NullIsNoMemTable, NoFaults, Works
  PROVE  LogInUse'
<1> USE DEF RefInv, CustodyInv
<1>1. /\ next_file_number \in Nat /\ log_file \in Nat /\ logfile_number \in Nat
      /\ log_number \in Nat /\ current \in Nat /\ manifest_file_number \in Nat
  BY DEF Inv, TypeInv, TypeOK, VersionTypeOK, ProcessTypeOK
<1>2. pc # "apply" => vpc = "idle"
  BY DEF LogInv, EditLogs
<1>3. CASE OpenDB \/ NewDB \/ Recovers
  <2>1. pc' \notin OpenSteps /\ pc # "apply" /\ (vpc' = vpc \/ vpc' = "idle")
    BY <1>3 DEF OpenDB, NewVersionSet, NewDB, NewDBCreate, NewDBRecord, NewDBCurrent, Recovers,
                RecoverVersions, Recover, Replay, RecoveryTableCreate, RecoveryTableWrite
  <2> QED BY <1>2, <2>1 DEF LogInUse
<1>4. CASE OpenLog
  <2>1. /\ pc = "open_log" /\ pc' = "apply" /\ imm' = imm
        /\ log_file' = next_file_number /\ next_file_number' = next_file_number + 1
        /\ logs' = NewWritableFile(logs, next_file_number, <<>>)
        /\ edit'.log = next_file_number /\ vpc' # "done"
    BY <1>4 DEF OpenLog, LogAndApply
  <2>2. imm = NULL
    BY <2>1 DEF ReachInv, MemAbsent
  <2>3. next_file_number > 0
    BY <1>1, <2>1 DEF Inv, NumbersInv, CountersSound
  <2>4. log_file' \in DOMAIN logs'
    BY <2>1 DEF NewWritableFile
  <2> QED BY <1>1, <2>1, <2>2, <2>3, <2>4 DEF LogInUse
<1>5. CASE Applies
  <2>1. /\ pc = "apply" /\ pc' = "apply"
        /\ UNCHANGED <<imm, log_file, logfile_number, logs, edit, next_file_number>>
    BY <1>5 DEF Applies, CreateDescriptor, WriteSnapshot, AppendEdit, InstallCurrent
  <2>2. CASE InstallCurrent
    <3>1. /\ vpc = "current" /\ log_number' = edit.log
          /\ current' = manifest_file_number /\ manifests' = manifests
      BY <2>2 DEF InstallCurrent
    <3>2. manifests[manifest_file_number].log = edit.log
      BY <3>1 DEF Inv, NumbersInv, EditSound, Sound, LogInv, EditLogs
    <3> QED BY <2>1, <3>1, <3>2 DEF LogInUse
  <2>3. CASE vpc' # "done"
    BY <2>1, <2>3 DEF LogInUse
  <2> QED BY <1>5, <2>2, <2>3 DEF Applies, CreateDescriptor, WriteSnapshot, AppendEdit
<1>6. CASE Applied \/ RemoveObsoleteLog
  <2>1. /\ pc \in {"apply", "gc"} /\ pc' = "gc" /\ vpc' = "idle"
        /\ pc = "apply" => vpc = "done"
        /\ UNCHANGED <<log_file, next_file_number, log_number, current, manifests>>
    BY <1>2, <1>6 DEF Applied, ApplyReturns, RemoveObsoleteLog
  <2> QED BY <2>1 DEF LogInUse
<1>7. CASE RemoveObsoleteManifest
  <2>1. PICK n \in ObsoleteManifests : manifests' = DeleteFile(manifests, n)
    BY <1>7 DEF RemoveObsoleteManifest
  <2>2. pc = "gc" /\ pc' = "gc" /\ UNCHANGED <<current, inMemory, dbVars>>
    BY <1>7 DEF RemoveObsoleteManifest
  <2>3. manifest_file_number = current /\ current \in DOMAIN manifests
    BY <2>2 DEF Inv, NumbersInv, Settled, CountersSound, CurrentSound, Sound
  <2>4. manifests'[current] = manifests[current]
    BY <1>1, <2>1, <2>3 DEF DeleteFile, ObsoleteManifests
  <2> QED BY <1>2, <2>2, <2>4 DEF LogInUse
<1>8. CASE SwitchMemTable
  <2>1. /\ pc = "room" /\ pc' = "flush_create"
        /\ logfile_number' = next_file_number /\ next_file_number' = next_file_number + 1
        /\ UNCHANGED <<log_file, logs, current, manifests, vpc>>
    BY <1>8 DEF SwitchMemTable
  <2> QED BY <1>1, <1>2, <2>1 DEF LogInUse
<1>9. CASE FlushCreate \/ InsertInto
  <2>1. /\ pc \in {"flush_create", "insert"} /\ pc' \in {"flush_write", "idle"}
        /\ pc' = "flush_write" => pc = "flush_create"
        /\ UNCHANGED <<log_file, logs, logfile_number, current, manifests, vpc,
                       next_file_number>>
    BY <1>9 DEF FlushCreate, InsertInto
  <2> QED BY <1>2, <2>1 DEF LogInUse
<1>10. CASE FlushWrite
  <2>1. /\ pc = "flush_write" /\ pc' = "apply" /\ imm' = imm
        /\ UNCHANGED <<log_file, next_file_number>>
        /\ edit'.log = logfile_number /\ vpc' # "done"
    BY <1>10 DEF FlushWrite, LogAndApply
  <2>2. imm # NULL
    BY <2>1 DEF Inv, TypeInv, PhaseOK, NullIsNoMemTable
  <2> QED BY <2>1, <2>2 DEF LogInUse
<1>11. CASE AppendToLog
  <2>1. /\ pc = "append" /\ pc' = "insert"
        /\ UNCHANGED <<log_file, next_file_number, current, manifests, vpc>>
    BY <1>11 DEF AppendToLog
  <2>2. DOMAIN logs' = DOMAIN logs
    BY <1>11, LoggedAppend DEF AppendToLog, NoFaults
  <2> QED BY <1>2, <2>1, <2>2 DEF LogInUse
<1> QED BY <1>3, <1>4, <1>5, <1>6, <1>7, <1>8, <1>9, <1>10, <1>11 DEF Works, Flushes

\* Open ends with all that the logs hold in tables of the version.
LEMMA RescuedReachable ==
  ASSUME RefInv, pc = "apply", imm = NULL, vpc = "done"
  PROVE  Logged \subseteq Reachable
<1>1. AddsLogged /\ Metas(edit.added) \subseteq Metas(files)
  BY DEF RefInv, CustodyInv, Rescued
<1>2. CASE Logged = {}
  BY <1>2
<1>3. ASSUME NEW meta \in Metas(edit.added), meta.number \in DOMAIN tables,
             tables[meta.number] = Logged
      PROVE  Logged \subseteq Reachable
  <2>1. meta.number \in LiveTables
    BY <1>1, <1>3, LiveTablesIs
  <2>2. Table(meta.number) = Logged
    BY <1>3 DEF Table
  <2> QED BY <2>1, <2>2 DEF Reachable
<1> QED BY <1>1, <1>2, <1>3 DEF AddsLogged

LEMMA LogsReachedStep ==
  ASSUME RefInv, NullIsNoMemTable, NoFaults, Next, Works
  PROVE  LogsReached'
<1> USE DEF RefInv, CustodyInv
<1> SUFFICES ASSUME IsOpen'
             PROVE  Logged' \subseteq
                      Reachable' \union (IF pc' = "insert" THEN EntriesOf(batch') ELSE {})
  BY DEF LogsReached
<1>1. pc # "down" \/ mem = NULL
  BY DEF ReachInv, MemAbsent
<1>2. pc' # "down" /\ mem' # NULL
  BY DEF Works, IsOpen, OpenDB, NewDB, NewDBCreate, NewDBRecord, NewDBCurrent, Recovers,
         RecoverVersions, Replay, RecoveryTableCreate, RecoveryTableWrite, OpenLog, Applies,
         Applied, RemoveObsoleteLog, RemoveObsoleteManifest, Flushes, SwitchMemTable,
         FlushCreate, FlushWrite, AppendToLog, InsertInto
<1>3. mem # NULL
  <2>1. ~ OpenLog
    BY DEF OpenLog, ReachInv, MemAbsent, IsOpen
  <2>2. CASE pc \in OpenSteps
    BY <2>2 DEF Inv, TypeInv, PhaseOK, NullIsNoMemTable
  <2> QED BY <1>2, <2>1, <2>2
          DEF Works, OpenDB, NewDB, NewDBCreate, NewDBRecord, NewDBCurrent, Recovers,
              RecoverVersions, Replay, RecoveryTableCreate, RecoveryTableWrite, Applies,
              Applied, RemoveObsoleteLog, RemoveObsoleteManifest, Flushes, SwitchMemTable,
              FlushCreate, FlushWrite, AppendToLog, InsertInto
<1>4. Reachable \subseteq (Reachable')
  BY <1>2, <1>3, ReachStep DEF NoFaults
<1>5. CASE AppendToLog
  <2>1. pc = "append" /\ pc' = "insert" /\ UNCHANGED <<mem, imm, batch>>
    BY <1>5 DEF AppendToLog
  <2>2. Logged' \subseteq Logged \union EntriesOf(batch)
    <3>1. CASE log_file \in DOMAIN logs
      BY <1>5, <3>1, LoggedAppend DEF NoFaults
    <3>2. CASE log_file \notin DOMAIN logs
      BY <1>5, <3>2, LoggedSame DEF AppendToLog
    <3> QED BY <3>1, <3>2
  <2>3. Logged \subseteq Reachable
    BY <1>3, <2>1 DEF LogsReached, IsOpen
  <2> QED BY <1>4, <2>1, <2>2, <2>3
<1>6. CASE InsertInto
  <2>1. pc = "insert" /\ mem' = mem \union EntriesOf(batch) /\ UNCHANGED logs
    BY <1>6 DEF InsertInto
  <2>2. EntriesOf(batch) \subseteq Reachable'
    BY <1>2, <2>1 DEF Reachable, Contents
  <2>3. Logged \subseteq Reachable \union EntriesOf(batch)
    BY <1>3, <2>1 DEF LogsReached, IsOpen
  <2> QED BY <1>4, <2>1, <2>2, <2>3, LoggedSame
<1>7. CASE Applied
  <2>1. pc = "apply" /\ vpc = "done" /\ UNCHANGED <<logs, mem>>
    BY <1>7 DEF Applied, ApplyReturns
  <2>2. Logged \subseteq Reachable
    <3>1. CASE imm = NULL
      BY <2>1, <3>1, RescuedReachable
    <3>2. CASE imm # NULL
      BY <1>3, <2>1, <3>2 DEF LogsReached, IsOpen
    <3> QED BY <3>1, <3>2
  <2> QED BY <1>4, <2>1, <2>2, LoggedSame
<1>8. CASE Applies \/ RemoveObsoleteLog \/ RemoveObsoleteManifest \/ Flushes
  <2>1. pc # "insert" /\ IsOpen
    <3>1. CASE Applies
      BY <3>1 DEF Applies, IsOpen
    <3>2. CASE RemoveObsoleteLog \/ RemoveObsoleteManifest \/ Flushes
      BY <1>3, <3>2 DEF RemoveObsoleteLog, RemoveObsoleteManifest, Flushes, SwitchMemTable,
                        FlushCreate, FlushWrite, IsOpen
    <3> QED BY <1>8, <3>1, <3>2
  <2>2. Logged' \subseteq Logged
    BY <1>8, LoggedRemove, LoggedSame
    DEF Applies, RemoveObsoleteManifest, Flushes, SwitchMemTable, FlushCreate, FlushWrite
  <2>3. Logged \subseteq Reachable
    BY <2>1 DEF LogsReached
  <2> QED BY <1>4, <2>2, <2>3
<1>9. ~ (OpenDB \/ NewDB \/ Recovers \/ OpenLog)
  BY <1>3 DEF ReachInv, MemAbsent, OpenDB, NewDB, NewDBCreate, NewDBRecord, NewDBCurrent,
              Recovers, RecoverVersions, Replay, RecoveryTableCreate, RecoveryTableWrite,
              OpenLog
<1> QED BY <1>5, <1>6, <1>7, <1>8, <1>9 DEF Works

LEMMA InitRef == Init => RefInv
<1> SUFFICES ASSUME Init PROVE RefInv
  OBVIOUS
<1>1. Inv /\ LogInv /\ ReachInv /\ MemLogged
  BY InitNumbers, InitLogs
  DEF Init, ReachInv, MemAbsent, FlushTable, ImmInTable, MemLogged
<1>2. Metas(files) = {} /\ Metas(edit.added) = {}
  BY DEF Init, NoEdit, Metas
<1>3. DOMAIN logs = {} /\ DOMAIN tables = {} /\ DOMAIN manifests = {}
  BY DEF Init, NoFiles
<1>4. AllOccur
  BY <1>3 DEF Init, AllOccur, Contents
<1>5. Listed /\ Applier /\ Rescued /\ LogsReached /\ LogInUse
  BY DEF Init, Listed, Applier, Rescued, LogsReached, IsOpen, LogInUse
<1> QED BY <1>1, <1>4, <1>5 DEF RefInv, CustodyInv

LEMMA NextRef ==
  ASSUME RefInv, NullIsNoMemTable, NoFaults, [Next]_vars
  PROVE  RefInv'
<1>1. Inv' /\ LogInv' /\ ReachInv' /\ MemLogged'
  BY NextNumbers, NextLogs, NextReach, NextLogged DEF RefInv, NoFaults, Inv, ReachInv
<1>2. CustodyInv'
  <2>1. CASE Ends
    BY <2>1, EndsCustody
  <2>2. CASE Moves
    BY <2>2, MovesCustody
  <2>3. CASE Works /\ Next
    BY <2>3, OccurStep, ListedStep, ApplierStep, RescuedStep,
       LogsReachedStep, LogInUseStep DEF CustodyInv
  <2>4. CASE UNCHANGED vars
    <3>1. AllOccur'
      BY <2>4 DEF vars, RefInv, CustodyInv, AllOccur
    <3>2. Listed' /\ Applier' /\ LogInUse'
      BY <2>4 DEF vars, RefInv, CustodyInv, Listed, Recorded, Applier, LogInUse
    <3>3. Logged' = Logged /\ Reachable' = Reachable
      BY <2>4, LoggedSame, ReachableSame DEF vars
    <3>4. Rescued' /\ LogsReached'
      BY <2>4, <3>3 DEF vars, RefInv, CustodyInv, Rescued, RecoveryTable, AddsLogged,
                        LogsReached, IsOpen
    <3> QED BY <3>1, <3>2, <3>4 DEF CustodyInv
  <2>5. Ends \/ Moves \/ UNCHANGED vars \/ Works
    BY StepIs DEF Works, RefInv, NoFaults
  <2> QED BY <2>1, <2>2, <2>3, <2>4, <2>5
<1> QED BY <1>1, <1>2 DEF RefInv

----------------------------------------------------------------------------------
(***************************************************************************)
(* The steps of DB as steps of Durability.                                 *)
(***************************************************************************)
LEMMA FlattenLogs ==
  ASSUME NEW L
  PROVE  UNION {EntriesOf(L[p[1]][p[2]]) : p \in UNION {{n} \X DOMAIN L[n] : n \in DOMAIN L}} =
           UNION {UNION {EntriesOf(L[n][i]) : i \in DOMAIN L[n]} : n \in DOMAIN L}
<1> DEFINE P == UNION {{n} \X DOMAIN L[n] : n \in DOMAIN L}
<1>1. ASSUME NEW n \in DOMAIN L, NEW i \in DOMAIN L[n]
      PROVE  <<n, i>> \in P
  OBVIOUS
<1>2. ASSUME NEW p \in P
      PROVE  p[1] \in DOMAIN L /\ p[2] \in DOMAIN L[p[1]]
  OBVIOUS
<1> HIDE DEF P
<1>3. UNION {EntriesOf(L[p[1]][p[2]]) : p \in P} \subseteq
        UNION {UNION {EntriesOf(L[n][i]) : i \in DOMAIN L[n]} : n \in DOMAIN L}
  BY <1>2
<1>4. ASSUME NEW n \in DOMAIN L, NEW i \in DOMAIN L[n]
      PROVE  EntriesOf(L[n][i]) \subseteq UNION {EntriesOf(L[p[1]][p[2]]) : p \in P}
  <2>1. <<n, i>> \in P /\ <<n, i>>[1] = n /\ <<n, i>>[2] = i
    BY <1>1
  <2> QED BY <2>1
<1> QED BY <1>3, <1>4 DEF P

LEMMA MappedLogs == InLogs = Logged /\ InLogs' = Logged'
<1>1. InLogs = Logged
  BY FlattenLogs DEF InLogs, EntriesAt, BatchesIn, Logged, LogEntries
<1>2. InLogs' = Logged'
  BY FlattenLogs DEF InLogs, EntriesAt, BatchesIn, Logged, LogEntries
<1> QED BY <1>1, <1>2

LEMMA MappedVisible == Visible = Reachable /\ Visible' = Reachable'
<1>1. Visible = Reachable
  BY DEF Visible, Reachable, LiveTables
<1>2. Visible' = Reachable'
  BY DEF Visible, Reachable, LiveTables
<1> QED BY <1>1, <1>2

LEMMA MappedFiles ==
  /\ LiveFiles = IF Recoverable THEN Recorded(current) ELSE {}
  /\ LiveFiles' = IF Recoverable' THEN Metas(manifests'[current'].added) ELSE {}
BY DEF LiveFiles, Recorded, Metas

\* From Recover on the manifest that CURRENT names can be recovered.
LEMMA RecoveredFiles ==
  ASSUME RefInv, pc \in RecoveredSteps
  PROVE  /\ Recoverable /\ LiveFiles = Recorded(current)
         /\ Metas(files) \subseteq LiveFiles
         /\ vpc # "current" => LiveFiles = Metas(files)
<1>1. Recoverable
  BY DEF RefInv, Inv, NumbersInv, CountersSound, CurrentSound, Sound, Recoverable
<1> QED BY <1>1, MappedFiles DEF RefInv, CustodyInv, Listed

\* LogAndApply takes no table out of the manifest that CURRENT names.
LEMMA AppliesFiles == ASSUME RefInv, Applies PROVE LiveFiles \subseteq LiveFiles'
<1> USE DEF RefInv, CustodyInv
<1>1. /\ pc = "apply" /\ Recoverable /\ current \in DOMAIN manifests
      /\ LiveFiles = Recorded(current) /\ Metas(files) \subseteq LiveFiles
  BY RecoveredFiles DEF Applies, Recoverable
<1>2. CASE InstallCurrent
  <2>1. /\ vpc = "current" /\ current' = manifest_file_number /\ manifests' = manifests
    BY <1>2 DEF InstallCurrent
  <2>2. LiveFiles' = Metas(files) \union Metas(edit.added)
    <3>1. Sound(manifest_file_number)
      BY <2>1 DEF Inv, NumbersInv, EditSound
    <3>2. Recoverable'
      BY <2>1, <3>1 DEF Sound, Recoverable
    <3> QED BY <2>1, <3>2, MappedFiles DEF Recorded, Listed
  <2>3. LiveFiles \subseteq Metas(files) \union Metas(edit.added)
    BY <1>1, <2>1 DEF Listed
  <2> QED BY <2>2, <2>3
<1>3. CASE ~ InstallCurrent /\ current # manifest_file_number
  <2>1. manifests'[current] = manifests[current] /\ current \in DOMAIN manifests'
          /\ current' = current
    BY <1>1, <1>3, AppliesRecorded DEF Applies, CreateDescriptor, WriteSnapshot, AppendEdit
  <2>2. Recoverable'
    BY <1>1, <2>1 DEF Recoverable
  <2> QED BY <1>1, <2>1, <2>2, MappedFiles DEF Recorded
<1>4. CASE ~ InstallCurrent /\ current = manifest_file_number
  <2>1. vpc # "done" /\ current \in Nat
    BY <1>4 DEF Applies, CreateDescriptor, WriteSnapshot, AppendEdit, Inv, TypeInv, TypeOK,
                VersionTypeOK
  <2>2. imm # NULL
    BY <1>1, <1>4, <2>1 DEF Applier
  <2>3. AppendEdit
    BY <1>1, <1>4, <2>2 DEF Applies, CreateDescriptor, WriteSnapshot, Applier
  <2>4. /\ manifests' = [manifests EXCEPT ![current] = WithEdit(@, edit)]
        /\ current' = current
    BY <1>4, <2>3 DEF AppendEdit
  <2>5. manifests'[current] = WithEdit(manifests[current], edit) /\ current \in DOMAIN manifests'
    BY <1>1, <2>4
  <2>6. Recoverable'
    BY <1>1, <2>4, <2>5, WithEditFields DEF Recoverable
  <2>7. Metas(manifests'[current].added) = Recorded(current) \union Metas(edit.added)
    BY <1>4, <2>3, AppliesRecorded
  <2> QED BY <1>1, <2>4, <2>6, <2>7, MappedFiles
<1> QED BY <1>2, <1>3, <1>4

\* A step that leaves the tables of the manifest alone.
LEMMA TablesSame ==
  ASSUME LiveFiles' = LiveFiles,
         \A f \in LiveFiles : Table(f.number)' = Table(f.number)
  PROVE  /\ InTables' = InTables
         /\ InTablesBy("flush")' = InTablesBy("flush")
BY DEF InTables, InTablesBy

LEMMA FilesSame ==
  ASSUME UNCHANGED <<current, manifests>> PROVE LiveFiles' = LiveFiles
BY DEF LiveFiles, Recoverable

\* The tables of a manifest have entries of batches only.
LEMMA TablesOccur ==
  ASSUME RefInv, NEW n
  PROVE  Table(n) \subseteq Occurring
BY DEF Table, RefInv, CustodyInv, AllOccur

\* Before Open is done the database is not up, so that only tables count.
LEMMA ClosedStutter ==
  ASSUME ~ IsOpen, ~ IsOpen', UNCHANGED logs,
         InTables' = InTables
  PROVE  UNCHANGED D!durabilityVars
<1>1. InLogs' = InLogs
  BY MappedLogs, LoggedSame
<1> QED BY <1>1 DEF D!durabilityVars, IsOpen, Attached

LEMMA OpenStutter ==
  ASSUME IsOpen, IsOpen', UNCHANGED logs, Reachable' = Reachable,
         Attached' <=> Attached,
         InTables' = InTables
  PROVE  UNCHANGED D!durabilityVars
<1>1. InLogs' = InLogs /\ Visible' = Visible
  BY MappedLogs, LoggedSame, MappedVisible
<1> QED BY <1>1 DEF D!durabilityVars, IsOpen, Attached

LEMMA ClobberStep ==
  ASSUME RefInv, pc = "table0_create", ~ IsOpen',
         tables' = NewWritableFile(tables, RecoveryTable, {}), UNCHANGED <<onDisk, logs>>
  PROVE  \E E \in SUBSET Occurring : D!Clobber(E)
<1>1. ~ IsOpen
  BY DEF IsOpen, RefInv, ReachInv, MemAbsent
<1>2. LiveFiles' = LiveFiles
  BY FilesSame
<1>3. \A n : Table(n)' = IF n = RecoveryTable THEN {} ELSE Table(n)
  BY DEF Table, NewWritableFile
<1>4. InTables' \subseteq InTables
  BY <1>2, <1>3 DEF InTables
<1>5. InTables \subseteq Occurring
  BY TablesOccur DEF InTables
<1>6. InLogs' = InLogs
  BY MappedLogs, LoggedSame
<1> DEFINE E == InTables \ InTables'
<1>7. E \in SUBSET Occurring /\ InTables' = InTables \ E
  BY <1>4, <1>5
<1> HIDE DEF E
<1>8. D!Clobber(E)
  BY <1>1, <1>6, <1>7 DEF D!Clobber, IsOpen
<1> QED BY <1>7, <1>8

\* A step of Durability, or none.
Simulated == D!DurabilityNext \/ UNCHANGED D!durabilityVars

LEMMA AttachedSame ==
  ASSUME UNCHANGED <<log_file, logs, current, manifests>> PROVE Attached' <=> Attached
BY DEF Attached, Recoverable

LEMMA FlushFileIsNew ==
  ASSUME RefInv, pc \in {"flush_create", "flush_write"}
  PROVE  /\ \A f \in LiveFiles : f.number # logfile_number
         /\ logfile_number \notin LiveTables
<1>1. logfile_number \notin LiveTables
  <2>1. CASE pc = "flush_create"
    BY <2>1 DEF RefInv, Inv, NumbersInv, TableNumberNew, Below, LiveTables, TypeInv, TypeOK,
                ProcessTypeOK
  <2>2. CASE pc = "flush_write"
    BY <2>2 DEF RefInv, ReachInv, FlushTable
  <2> QED BY <2>1, <2>2
<1>2. LiveFiles = Metas(files)
  <2>1. vpc # "current"
    BY DEF RefInv, Inv, NumbersInv, EditSound
  <2> QED BY <2>1, RecoveredFiles
<1> QED BY <1>1, <1>2, LiveTablesIs

LEMMA EndsMaps == ASSUME RefInv, Ends PROVE Simulated
<1>1. ~ IsOpen' /\ UNCHANGED <<current, manifests, logs>>
  BY DEF Ends, ProcessEnds, IsOpen
<1>2. CASE pc = "table0_create" /\ tables' = NewWritableFile(tables, RecoveryTable, {})
  BY <1>1, <1>2, ClobberStep DEF Simulated, D!DurabilityNext
<1>3. CASE \/ UNCHANGED tables
           \/ pc = "flush_create" /\ tables' = NewWritableFile(tables, logfile_number, {})
  <2>1. LiveFiles' = LiveFiles
    BY <1>1, FilesSame
  <2>2. \A f \in LiveFiles : Table(f.number)' = Table(f.number)
    <3>1. CASE UNCHANGED tables
      BY <3>1 DEF Table
    <3>2. CASE pc = "flush_create" /\ tables' = NewWritableFile(tables, logfile_number, {})
      BY <3>2, FlushFileIsNew DEF Table, NewWritableFile
    <3> QED BY <1>3, <3>1, <3>2
  <2>3. InTables' = InTables
    BY <2>1, <2>2, TablesSame
  <2>4. InLogs' = InLogs
    BY <1>1, MappedLogs, LoggedSame
  <2>5. CASE IsOpen
    <3>1. D!End
      BY <1>1, <2>3, <2>4, <2>5 DEF D!End, IsOpen
    <3> QED BY <3>1 DEF Simulated, D!DurabilityNext
  <2>6. CASE ~ IsOpen
    BY <1>1, <2>3, <2>6, ClosedStutter DEF Simulated
  <2> QED BY <2>5, <2>6
<1> QED BY <1>2, <1>3 DEF Ends

\* Until there is a CURRENT there are no tables.
LEMMA NewDBFiles ==
  ASSUME RefInv, NewDB
  PROVE  LiveFiles = {} /\ LiveFiles' = {}
<1>1. current = NoFile
  BY DEF NewDB, NewDBCreate, NewDBRecord, NewDBCurrent, RefInv, Inv, NumbersInv, NewDBSound
<1>2. LiveFiles = {}
  BY <1>1 DEF LiveFiles, Recoverable, RefInv, CustodyInv, AllOccur
<1>3. CASE NewDBCreate \/ NewDBRecord
  <2>1. current' = NoFile /\ DOMAIN manifests' \subseteq DOMAIN manifests \union {1}
    BY <1>1, <1>3 DEF NewDBCreate, NewDBRecord, NewWritableFile
  <2>2. NoFile \notin DOMAIN manifests'
    BY <2>1 DEF RefInv, CustodyInv, AllOccur
  <2> QED BY <1>2, <2>1, <2>2 DEF LiveFiles, Recoverable
<1>4. CASE NewDBCurrent
  <2>1. current' = 1 /\ manifests' = manifests /\ manifests[1].added = <<>>
    BY <1>4 DEF NewDBCurrent, RefInv, Inv, NumbersInv, NewDBSound
  <2>2. LiveFiles' = {}
    BY <2>1 DEF LiveFiles
  <2> QED BY <1>2, <2>2
<1> QED BY <1>3, <1>4 DEF NewDB

\* The steps of Open up to the new log: nothing but the table made of the logs counts.
LEMMA OpeningMaps ==
  ASSUME RefInv, NoFaults, OpenDB \/ NewDB \/ Recovers \/ OpenLog
  PROVE  Simulated
<1>1. ~ IsOpen /\ ~ IsOpen'
  <2>1. pc \notin OpenSteps /\ mem = NULL /\ imm = NULL
    BY DEF RefInv, ReachInv, MemAbsent, OpenDB, NewDB, NewDBCreate, NewDBRecord, NewDBCurrent,
           Recovers, RecoverVersions, Replay, RecoveryTableCreate, RecoveryTableWrite, OpenLog
  <2>2. mem' = NULL \/ (pc' = "apply" /\ imm' = NULL)
    BY <2>1 DEF OpenDB, NewDB, NewDBCreate, NewDBRecord, NewDBCurrent, Recovers,
           RecoverVersions, Replay, RecoveryTableCreate, RecoveryTableWrite, OpenLog
  <2> QED BY <2>1, <2>2 DEF IsOpen
<1>2. CASE NewDB
  <2>1. UNCHANGED <<logs, tables>>
    BY <1>2 DEF NewDB, NewDBCreate, NewDBRecord, NewDBCurrent
  <2> QED BY <1>1, <1>2, <2>1, NewDBFiles, TablesSame, ClosedStutter DEF Simulated
<1>3. CASE OpenDB \/ RecoverVersions \/ Replay
  <2>1. UNCHANGED <<logs, tables, current, manifests>>
    BY <1>3 DEF OpenDB, RecoverVersions, Recover, Replay
  <2> QED BY <1>1, <2>1, FilesSame, TablesSame, ClosedStutter DEF Simulated, Table
<1>4. CASE RecoveryTableCreate
  <2>1. \E E \in SUBSET Occurring : D!Clobber(E)
    BY <1>1, <1>4, ClobberStep DEF RecoveryTableCreate
  <2> QED BY <2>1 DEF Simulated, D!DurabilityNext
<1>5. CASE RecoveryTableWrite
  <2>1. /\ pc = "table0_write"
        /\ tables' = [tables EXCEPT ![RecoveryTable] = rec]
        /\ UNCHANGED <<logs, current, manifests>>
    BY <1>5 DEF RecoveryTableWrite, Built, NoFaults
  <2>2. /\ RecoveryTable \in DOMAIN tables /\ tables[RecoveryTable] = {} /\ rec = Logged
    BY <2>1 DEF RefInv, CustodyInv, Rescued
  <2>3. \A n : Table(n)' = IF n = RecoveryTable THEN Logged ELSE Table(n)
    BY <2>1, <2>2 DEF Table
  <2>4. Table(RecoveryTable) = {}
    BY <2>2 DEF Table
  <2>5. LiveFiles' = LiveFiles /\ InLogs' = InLogs /\ InLogs = Logged
    BY <2>1, FilesSame, MappedLogs, LoggedSame
  <2>6. CASE \E f \in LiveFiles : f.number = RecoveryTable
    <3>1. InTables' = InTables \union InLogs
      <4>1. InTables' \subseteq InTables \union Logged
        BY <2>3, <2>5 DEF InTables
      <4>2. InTables \subseteq InTables'
        BY <2>3, <2>4, <2>5 DEF InTables
      <4>3. Logged \subseteq InTables'
        BY <2>3, <2>5, <2>6 DEF InTables
      <4> QED BY <2>5, <4>1, <4>2, <4>3
    <3>2. D!Rescue
      BY <1>1, <2>5, <3>1 DEF D!Rescue, IsOpen
    <3> QED BY <3>2 DEF Simulated, D!DurabilityNext
  <2>7. CASE ~ \E f \in LiveFiles : f.number = RecoveryTable
    <3>1. InTables' = InTables
      BY <2>3, <2>5, <2>7 DEF InTables
    <3> QED BY <1>1, <2>1, <3>1, ClosedStutter DEF Simulated
  <2> QED BY <2>6, <2>7
<1>6. CASE OpenLog
  <2>1. UNCHANGED <<tables, current, manifests>>
    BY <1>6 DEF OpenLog
  <2>2. InTables' = InTables
    BY <2>1, FilesSame, TablesSame DEF Table
  <2>3. InLogs' = InLogs
    BY <1>6, LoggedOpenLog, MappedLogs DEF RefInv
  <2>4. UNCHANGED D!durabilityVars
    BY <1>1, <2>2, <2>3 DEF D!durabilityVars, IsOpen, Attached
  <2> QED BY <2>4 DEF Simulated
<1> QED BY <1>2, <1>3, <1>4, <1>5, <1>6 DEF Recovers

\* What an open database reaches in tables is in the tables of its manifest, and the other
\* way round but for the edit of a flush, whose entries are in imm_.
LEMMA ReachableInTables ==
  ASSUME RefInv, pc \in RecoveredSteps
  PROVE  UNION {Table(n) : n \in LiveTables} \subseteq InTables
<1>1. Metas(files) \subseteq LiveFiles
  BY RecoveredFiles
<1> SUFFICES ASSUME NEW f \in Metas(files) PROVE Table(f.number) \subseteq InTables
  BY LiveTablesIs
<1> QED BY <1>1 DEF InTables

\* AddRecord(edit) in a flush is the moment the entries of imm_ are committed.
LEMMA CommitMaps ==
  ASSUME RefInv, NullIsNoMemTable, Applies, AppendEdit, imm # NULL
  PROVE  D!DurabilityNext
<1> USE DEF RefInv, CustodyInv
<1>1. /\ pc = "apply" /\ vpc = "record" /\ descriptor_file = "open"
      /\ manifests' = [manifests EXCEPT ![manifest_file_number] = WithEdit(@, edit)]
      /\ UNCHANGED <<current, files, edit, dbVars>>
  BY DEF Applies, AppendEdit
<1>2. /\ manifest_file_number = current /\ imm # {} /\ mem = {} /\ log_file < edit.log
      /\ logfile_number \in DOMAIN tables /\ tables[logfile_number] = imm
      /\ edit.added = <<FlushFile>>
  BY <1>1 DEF Applier, LogInUse, ReachInv, ImmInTable
<1>3. Recoverable /\ LiveFiles = Metas(files) /\ Recorded(current) = Metas(files)
  BY <1>1, RecoveredFiles
<1>4. /\ manifests'[current] = WithEdit(manifests[current], edit)
      /\ Metas(manifests'[current].added) = Recorded(current) \union Metas(edit.added)
  BY <1>1, <1>2, <1>3, AppliesRecorded DEF Recoverable
<1>5. Recoverable' /\ LiveFiles' = LiveFiles \union {FlushFile}
  <2>1. current \in DOMAIN manifests' /\ manifests'[current].complete
    BY <1>1, <1>3, <1>4, WithEditFields DEF Recoverable
  <2>2. Recoverable'
    BY <1>1, <2>1 DEF Recoverable
  <2>3. Metas(edit.added) = {FlushFile}
    <3> HIDE DEF FlushFile
    <3> QED BY <1>2 DEF Metas
  <2> QED BY <1>1, <1>3, <1>4, <2>2, <2>3, MappedFiles
<1>6. ~ Attached'
  <2>1. manifests'[current].log = edit.log
    BY <1>4 DEF WithEdit
  <2>2. edit.log \in Nat /\ log_file \in Nat
    BY DEF Inv, TypeInv, TypeOK, VersionTypeOK, VersionEdit, ProcessTypeOK
  <2> QED BY <1>1, <1>2, <2>1, <2>2 DEF Attached
<1>7. \A n : Table(n)' = Table(n)
  BY <1>1 DEF Table
<1>8. Table(FlushFile.number) = imm
  BY <1>2 DEF FlushFile, Table
<1>9. InTables' = InTables \union imm
  <2> HIDE DEF FlushFile
  <2>1. InTables' = UNION {Table(f.number) : f \in LiveFiles'}
    BY <1>7 DEF InTables
  <2> QED BY <1>5, <1>8, <2>1 DEF InTables
<1>10. InLogs' = InLogs /\ Visible' = Visible /\ Visible = Reachable
  BY <1>1, MappedLogs, LoggedSame, MappedVisible, ReachableSame
<1>11. IsOpen /\ IsOpen'
  BY <1>1, <1>2 DEF IsOpen, NullIsNoMemTable
<1>12. imm \subseteq Visible /\ imm \in SUBSET Occurring
  <2>1. Contents(imm) = imm
    BY DEF Contents
  <2> QED BY <1>10, <2>1 DEF Reachable, AllOccur
<1>13. Visible \subseteq InTables'
  <2>1. UNION {Table(n) : n \in LiveTables} \subseteq InTables
    BY <1>1, ReachableInTables
  <2>2. Contents(mem) = {} /\ Contents(imm) = imm
    BY <1>2 DEF Contents
  <2> QED BY <1>9, <1>10, <2>1, <2>2 DEF Reachable
<1>14. D!Commit(imm)
  BY <1>2, <1>6, <1>9, <1>10, <1>11, <1>12, <1>13 DEF D!Commit, IsOpen
<1> QED BY <1>12, <1>14 DEF D!DurabilityNext

LEMMA AppliesMaps ==
  ASSUME RefInv, NullIsNoMemTable, Applies
  PROVE  Simulated
<1> USE DEF RefInv, CustodyInv
<1>1. pc = "apply" /\ UNCHANGED dbVars
  BY DEF Applies
<1>2. (IsOpen <=> imm # NULL) /\ (IsOpen' <=> imm # NULL)
  BY <1>1 DEF IsOpen, Inv, TypeInv, PhaseOK, NullIsNoMemTable
<1>3. \A n : Table(n)' = Table(n)
  BY <1>1 DEF Table
<1>4. Recoverable /\ LiveFiles = Recorded(current) /\ current \in DOMAIN manifests
  BY <1>1, RecoveredFiles DEF Recoverable
<1>5. ASSUME current # manifest_file_number, ~ InstallCurrent, imm = NULL
      PROVE  Simulated
  <2>1. manifests'[current] = manifests[current] /\ current \in DOMAIN manifests'
          /\ current' = current
    BY <1>4, <1>5, AppliesRecorded DEF Applies, CreateDescriptor, WriteSnapshot, AppendEdit
  <2>2. LiveFiles' = LiveFiles
    <3>1. Recoverable'
      BY <1>4, <2>1 DEF Recoverable
    <3> QED BY <1>4, <2>1, <3>1, MappedFiles DEF Recorded
  <2> QED BY <1>1, <1>2, <1>3, <1>5, <2>2, TablesSame, ClosedStutter DEF Simulated
<1>6. ASSUME ~ InstallCurrent, imm = NULL
      PROVE  current # manifest_file_number
  <2>1. vpc # "done" /\ current \in Nat /\ manifest_file_number \in Nat
    BY <1>6 DEF Applies, CreateDescriptor, WriteSnapshot, AppendEdit, Inv, TypeInv, TypeOK,
                VersionTypeOK
  <2> QED BY <1>1, <1>6, <2>1 DEF Applier
<1>7. ASSUME imm # NULL, ~ AppendEdit PROVE InstallCurrent
  BY <1>1, <1>7 DEF Applies, CreateDescriptor, WriteSnapshot, Applier
<1>8. CASE InstallCurrent
  <2>1. /\ vpc = "current" /\ current' = manifest_file_number /\ manifests' = manifests
        /\ edit' = edit
    BY <1>8 DEF InstallCurrent
  <2>2. Recorded(manifest_file_number) = Metas(files) \union Metas(edit.added)
    BY <2>1 DEF Listed
  <2>3. Recoverable' /\ LiveFiles' = Metas(files) \union Metas(edit.added)
    <3>1. Sound(manifest_file_number)
      BY <2>1 DEF Inv, NumbersInv, EditSound
    <3>2. Recoverable'
      BY <2>1, <3>1 DEF Sound, Recoverable
    <3> QED BY <2>1, <2>2, <3>2, MappedFiles DEF Recorded
  <2>4. CASE imm # NULL
    <3>1. manifest_file_number = current
      BY <1>1, <2>4 DEF Applier
    <3>2. LiveFiles' = LiveFiles
      BY <1>4, <2>2, <2>3, <3>1
    <3>3. Reachable' = Reachable
      <4>1. LiveTables' = LiveTables \union {logfile_number}
        <5>1. Metas(edit.added) = {FlushFile} /\ FlushFile.number = logfile_number
          <6>1. edit.added = <<FlushFile>> /\ FlushFile.number = logfile_number
            BY <1>1, <2>1, <2>4 DEF ReachInv, ImmInTable, FlushFile
          <6> HIDE DEF FlushFile
          <6> QED BY <6>1 DEF Metas
        <5>2. LiveTables' = {meta.number : meta \in Metas(files')}
          BY DEF LiveTables, Metas
        <5>3. Metas(files') = Metas(files) \union {FlushFile}
          BY <1>8, <5>1, InstalledFiles
        <5> HIDE DEF FlushFile
        <5> QED BY <5>1, <5>2, <5>3, LiveTablesIs
      <4>2. Table(logfile_number) = Contents(imm)
        BY <1>1, <2>4 DEF ReachInv, ImmInTable, Table, Contents
      <4>3. UNION {Table(n)' : n \in LiveTables'} =
              Contents(imm) \union UNION {Table(n) : n \in LiveTables}
        BY <1>3, <4>1, <4>2
      <4>4. Contents(mem)' = Contents(mem) /\ Contents(imm)' = Contents(imm)
        BY <1>1 DEF Contents
      <4> QED BY <4>3, <4>4 DEF Reachable
    <3>4. Attached' <=> Attached
      BY <1>1, <2>1, <3>1, AttachedSame
    <3> QED BY <1>1, <1>2, <1>3, <2>4, <3>2, <3>3, <3>4, TablesSame, OpenStutter DEF Simulated
  <2>5. CASE imm = NULL
    <3>1. LiveFiles = Metas(files)
      <4>1. current < manifest_file_number
        BY <1>1, <2>1, <2>5 DEF Applier
      <4>2. current # manifest_file_number
        BY <4>1 DEF Inv, TypeInv, TypeOK, VersionTypeOK
      <4> QED BY <1>1, <1>4, <4>2 DEF Listed
    <3>2. AddsLogged
      BY <1>1, <2>5 DEF Rescued
    <3>3. InLogs' = InLogs /\ InLogs = Logged
      BY <1>1, MappedLogs, LoggedSame
    <3>4. CASE Metas(edit.added) = {}
      BY <1>1, <1>2, <1>3, <2>3, <2>5, <3>1, <3>4, TablesSame, ClosedStutter DEF Simulated
    <3>5. ASSUME NEW meta, Metas(edit.added) = {meta}, meta.by = "recovery",
                 meta.number \in DOMAIN tables, tables[meta.number] = Logged
          PROVE  Simulated
      <4>1. Table(meta.number) = Logged
        BY <3>5 DEF Table
      <4>2. InTables' = InTables \union InLogs
        <5>1. InTables' = UNION {Table(f.number) : f \in LiveFiles'}
          BY <1>3 DEF InTables
        <5> QED BY <2>3, <3>1, <3>3, <3>5, <4>1, <5>1 DEF InTables
      <4>3. D!Rescue
        BY <1>2, <2>5, <3>3, <4>2 DEF D!Rescue, IsOpen
      <4> QED BY <4>3 DEF Simulated, D!DurabilityNext
    <3>6. edit.added = <<>> => Metas(edit.added) = {}
      BY DEF Metas
    <3> QED BY <3>2, <3>4, <3>5, <3>6 DEF AddsLogged
  <2> QED BY <2>4, <2>5
<1> QED BY <1>5, <1>6, <1>7, <1>8, CommitMaps DEF Simulated

\* Open is done when LogAndApply has returned to it; a flush lets go of imm_.
LEMMA AppliedMaps ==
  ASSUME RefInv, NullIsNoMemTable, Applied
  PROVE  Simulated
<1> USE DEF RefInv, CustodyInv
<1>1. /\ pc = "apply" /\ vpc = "done" /\ pc' = "gc" /\ imm' = NULL
      /\ UNCHANGED <<current, manifests, files, logs, tables, mem, log_file>>
  BY DEF Applied, ApplyReturns
<1>2. mem = {} /\ IsOpen' /\ Contents(mem) = {} /\ Contents(mem)' = {} /\ Contents(imm)' = {}
  BY <1>1 DEF Applier, IsOpen, NullIsNoMemTable, Contents
<1>3. Recoverable /\ LiveFiles = Metas(files)
  BY <1>1, RecoveredFiles
<1>4. /\ InTables' = InTables
      /\ InLogs' = InLogs /\ InLogs = Logged
      /\ \A n : Table(n)' = Table(n)
      /\ LiveTables' = LiveTables
      /\ Attached' <=> Attached
  BY <1>1, FilesSame, TablesSame, MappedLogs, LoggedSame, AttachedSame DEF Table, LiveTables
<1>5. Reachable' = UNION {Table(n) : n \in LiveTables}
  BY <1>2, <1>4 DEF Reachable
<1>6. CASE imm # NULL
  <2>1. IsOpen
    BY <1>1, <1>2, <1>6 DEF IsOpen, NullIsNoMemTable
  <2>2. Contents(imm) \subseteq UNION {Table(n) : n \in LiveTables}
    <3>1. /\ files # <<>> /\ files[Len(files)].number = logfile_number
          /\ Table(logfile_number) = imm
      BY <1>1, <1>6 DEF ReachInv, ImmInTable, Table, FlushFile
    <3>2. Len(files) \in DOMAIN files
      BY <3>1 DEF Inv, TypeInv, TypeOK, VersionTypeOK
    <3>3. logfile_number \in LiveTables
      BY <3>1, <3>2 DEF LiveTables
    <3> QED BY <1>6, <3>1, <3>3 DEF Contents
  <2>3. Reachable' = Reachable
    BY <1>2, <1>5, <2>2 DEF Reachable
  <2> QED BY <1>1, <1>2, <1>4, <2>1, <2>3, OpenStutter DEF Simulated
<1>7. CASE imm = NULL
  <2>1. ~ IsOpen
    BY <1>1, <1>7 DEF IsOpen
  <2>2. Logged \subseteq InTables
    <3>1. Logged \subseteq Reachable
      BY <1>1, <1>7, RescuedReachable
    <3>2. Reachable = UNION {Table(n) : n \in LiveTables}
      BY <1>2, <1>7 DEF Reachable, Contents
    <3> QED BY <1>1, <3>1, <3>2, ReachableInTables
  <2>3. Visible' = InTables
    <3>1. InTables \subseteq UNION {Table(n) : n \in LiveTables}
      BY <1>3, LiveTablesIs DEF InTables
    <3> QED BY <1>1, <1>5, <3>1, ReachableInTables, MappedVisible
  <2>4. Attached'
    <3>1. manifests[current].log = edit.log /\ edit.log = log_file /\ log_file \in DOMAIN logs
      BY <1>1, <1>7 DEF LogInUse
    <3>2. log_file \in Nat
      BY DEF Inv, TypeInv, TypeOK, ProcessTypeOK
    <3> QED BY <1>3, <1>4, <3>1, <3>2 DEF Attached
  <2>5. D!Open
    <3> HIDE DEF RefInv, CustodyInv
    <3> QED BY <1>2, <1>4, <2>1, <2>2, <2>3, <2>4 DEF D!Open, IsOpen, Attached
  <2> QED BY <2>5 DEF Simulated, D!DurabilityNext
<1> QED BY <1>6, <1>7

\* removeObsoleteFiles leaves the manifest that CURRENT names.
LEMMA RemovedFiles ==
  ASSUME RefInv, RemoveObsoleteManifest
  PROVE  /\ Recoverable /\ Recoverable' /\ LiveFiles' = LiveFiles
         /\ manifests'[current] = manifests[current]
<1>1. pc = "gc" /\ current' = current
  BY DEF RemoveObsoleteManifest
<1>2. Recoverable
  BY <1>1, RecoveredFiles
<1>3. PICK n \in ObsoleteManifests : manifests' = DeleteFile(manifests, n)
  BY DEF RemoveObsoleteManifest
<1>4. manifest_file_number = current /\ current \in DOMAIN manifests /\ current \in Nat
  BY <1>1, <1>2 DEF RefInv, Inv, NumbersInv, Settled, Recoverable, TypeInv, TypeOK, VersionTypeOK
<1>5. manifests'[current] = manifests[current] /\ current \in DOMAIN manifests'
  BY <1>3, <1>4 DEF DeleteFile, ObsoleteManifests
<1>6. Recoverable'
  BY <1>1, <1>2, <1>5 DEF Recoverable
<1> QED BY <1>1, <1>2, <1>5, <1>6, MappedFiles DEF Recorded

\* removeObsoleteFiles: all that a removed log held is in tables.
LEMMA RemoveMaps ==
  ASSUME RefInv, NullIsNoMemTable, RemoveObsoleteLog \/ RemoveObsoleteManifest
  PROVE  Simulated
<1> USE DEF RefInv, CustodyInv
<1>1. /\ pc = "gc" /\ pc' = "gc"
      /\ UNCHANGED <<current, files, tables, mem, imm, log_file>>
  BY DEF RemoveObsoleteLog, RemoveObsoleteManifest
<1>2. IsOpen /\ IsOpen'
  BY <1>1 DEF IsOpen, Applier, NullIsNoMemTable
<1>3. Recoverable /\ Reachable' = Reachable
  BY <1>1, RecoveredFiles, ReachableSame
<1>4. \A n : Table(n)' = Table(n)
  BY <1>1 DEF Table
<1>5. CASE RemoveObsoleteManifest
  <2>1. UNCHANGED logs
    BY <1>5 DEF RemoveObsoleteManifest
  <2>2. Attached' <=> Attached
    BY <1>1, <1>5, <2>1, RemovedFiles DEF Attached
  <2> QED BY <1>2, <1>3, <1>4, <1>5, <2>1, <2>2, RemovedFiles, TablesSame, OpenStutter
          DEF Simulated
<1>6. CASE RemoveObsoleteLog
  <2>1. PICK n \in ObsoleteLogs : logs' = DeleteFile(logs, n)
    BY <1>6 DEF RemoveObsoleteLog
  <2>2. UNCHANGED manifests
    BY <1>6 DEF RemoveObsoleteLog
  <2>3. InTables' = InTables
    BY <1>1, <1>4, <2>2, FilesSame, TablesSame
  <2>4. Attached' <=> Attached
    <3>1. log_number = manifests[current].log /\ n < log_number
      BY <1>1, <2>1 DEF LogInUse, ObsoleteLogs
    <3>2. log_number \in Nat /\ log_file \in Nat /\ n \in DOMAIN logs /\ DOMAIN logs \subseteq Nat
      BY <2>1 DEF ObsoleteLogs, Inv, TypeInv, TypeOK, VersionTypeOK, ProcessTypeOK,
                  IsDirectoryOf
    <3>3. DOMAIN logs' = DOMAIN logs \ {n}
      BY <2>1 DEF DeleteFile
    <3>4. Recoverable' <=> Recoverable
      BY <1>1, <2>2 DEF Recoverable
    <3>5. manifests[current].log <= log_file => n # log_file
      BY <3>1, <3>2
    <3> QED BY <1>1, <2>2, <3>3, <3>4, <3>5 DEF Attached
  <2>5. Logged' \subseteq Logged /\ Logged \subseteq InTables
    <3>1. Logged \subseteq Reachable
      BY <1>1, <1>2 DEF LogsReached
    <3>2. Reachable = UNION {Table(n_1) : n_1 \in LiveTables}
      BY <1>1 DEF Applier, Reachable, Contents
    <3> QED BY <1>1, <1>6, <3>1, <3>2, ReachableInTables, LoggedRemove
  <2>6. Logged' \in SUBSET Occurring
    BY <2>5, LoggedOccur DEF Inv
  <2>7. InLogs = Logged /\ InLogs' = Logged' /\ Visible' = Visible
    BY <1>3, MappedLogs, MappedVisible
  <2>8. D!TrimLogs(Logged')
    <3> HIDE DEF RefInv, CustodyInv
    <3> QED BY <1>2, <2>3, <2>4, <2>5, <2>7 DEF D!TrimLogs, IsOpen, Attached
  <2> QED BY <2>6, <2>8 DEF Simulated, D!DurabilityNext
<1> QED BY <1>5, <1>6

\* A flush changes nothing until its table is in the manifest.
LEMMA FlushesMaps ==
  ASSUME RefInv, NullIsNoMemTable, Flushes
  PROVE  Simulated
<1> USE DEF RefInv, CustodyInv
<1>1. /\ pc \in {"room", "flush_create", "flush_write"}
      /\ UNCHANGED <<current, manifests, files, logs, log_file>>
  BY DEF Flushes, SwitchMemTable, FlushCreate, FlushWrite
<1>2. IsOpen
  BY <1>1 DEF IsOpen, Inv, TypeInv, PhaseOK, NullIsNoMemTable
<1>3. IsOpen'
  BY <1>1, <1>2 DEF IsOpen, Flushes, SwitchMemTable, FlushCreate, FlushWrite, Inv, TypeInv,
                    PhaseOK, NullIsNoMemTable
<1>4. (Attached' <=> Attached) /\ LiveFiles' = LiveFiles
  BY <1>1, AttachedSame, FilesSame
<1>5. CASE SwitchMemTable
  <2>1. mem' = {} /\ imm' = mem /\ imm = NULL /\ UNCHANGED tables
    BY <1>5 DEF SwitchMemTable
  <2>2. Reachable' = Reachable
    BY <1>1, <2>1 DEF Reachable, Contents, LiveTables, Table
  <2> QED BY <1>1, <1>2, <1>3, <1>4, <2>1, <2>2, TablesSame, OpenStutter DEF Simulated, Table
<1>6. CASE FlushCreate \/ FlushWrite
  <2>1. pc \in {"flush_create", "flush_write"} /\ UNCHANGED <<mem, imm>>
    BY <1>6 DEF FlushCreate, FlushWrite
  <2>2. \A n : n # logfile_number => Table(n)' = Table(n)
    BY <1>6 DEF FlushCreate, FlushWrite, Table, NewWritableFile
  <2>3. \A f \in LiveFiles : Table(f.number)' = Table(f.number)
    BY <2>1, <2>2, FlushFileIsNew
  <2>4. LiveTables' = LiveTables /\ \A n \in LiveTables : Table(n)' = Table(n)
    BY <1>1, <2>1, <2>2, FlushFileIsNew DEF LiveTables
  <2>5. Reachable' = Reachable
    BY <2>1, <2>4 DEF Reachable, Contents
  <2> QED BY <1>1, <1>2, <1>3, <1>4, <2>3, <2>5, TablesSame, OpenStutter DEF Simulated
<1> QED BY <1>5, <1>6 DEF Flushes

\* A Write logs its batch and then acknowledges it.
LEMMA WriteMaps ==
  ASSUME RefInv, NullIsNoMemTable, NoFaults, AppendToLog \/ InsertInto
  PROVE  Simulated
<1> USE DEF RefInv, CustodyInv
<1>1. /\ pc \in {"append", "insert"} /\ pc' \in {"insert", "idle"}
      /\ UNCHANGED <<current, manifests, files, tables, imm, log_file>>
  BY DEF AppendToLog, InsertInto
<1>2. mem \in SUBSET Entry /\ batch \in Batches /\ Recoverable
  BY <1>1, RecoveredFiles DEF Inv, TypeInv, PhaseOK
<1>3. EntriesOf(batch) \in SUBSET Occurring /\ EntriesOf(batch) \subseteq Entry
  BY <1>2, BatchOccurs, EntriesOfType
<1>4. IsOpen /\ IsOpen' /\ mem # NULL /\ mem' # NULL
  BY <1>1, <1>2, <1>3 DEF IsOpen, AppendToLog, InsertInto, NullIsNoMemTable
<1>5. InTables' = InTables
  BY <1>1, FilesSame, TablesSame DEF Table
<1>6. CASE AppendToLog
  <2>1. pc = "append" /\ UNCHANGED mem
    BY <1>6 DEF AppendToLog
  <2>2. Reachable' = Reachable
    BY <1>1, <2>1, ReachableSame
  <2>3. CASE log_file \notin DOMAIN logs
    <3>1. UNCHANGED logs
      BY <1>6, <2>3 DEF AppendToLog
    <3>2. Attached' <=> Attached
      BY <1>1, <3>1, AttachedSame
    <3> QED BY <1>4, <1>5, <2>2, <3>1, <3>2, OpenStutter DEF Simulated
  <2>4. CASE log_file \in DOMAIN logs
    <3>1. Logged' = Logged \union EntriesOf(batch) /\ DOMAIN logs' = DOMAIN logs
      BY <1>6, <2>4, LoggedAppend DEF NoFaults
    <3>2. manifests[current].log <= log_file
      BY <2>1, <2>4 DEF LogInUse
    <3>3. Attached /\ Attached'
      BY <1>1, <1>2, <2>4, <3>1, <3>2 DEF Attached, Recoverable
    <3>4. InLogs' = InLogs \union EntriesOf(batch) /\ Visible' = Visible
      BY <2>2, <3>1, MappedLogs, MappedVisible
    <3>5. D!Log(EntriesOf(batch))
      <4> HIDE DEF RefInv, CustodyInv
      <4> QED BY <1>4, <1>5, <3>3, <3>4 DEF D!Log, IsOpen
    <3> QED BY <1>3, <3>5 DEF Simulated, D!DurabilityNext
  <2> QED BY <2>3, <2>4
<1>7. CASE InsertInto
  <2>1. pc = "insert" /\ mem' = mem \union EntriesOf(batch) /\ UNCHANGED logs
    BY <1>7 DEF InsertInto
  <2>2. Visible' = Visible \union EntriesOf(batch)
    BY <1>1, <1>4, <2>1 DEF Visible, Contents, Table
  <2>3. Attached' <=> Attached
    BY <1>1, <2>1, AttachedSame
  <2>4. InLogs' = InLogs /\ InLogs = Logged
    BY <2>1, MappedLogs, LoggedSame
  <2>5. Attached => EntriesOf(batch) \subseteq InLogs
    <3>1. Attached => EntriesOf(batch) \subseteq LogEntries(log_file) /\ log_file \in DOMAIN logs
      BY <2>1 DEF MemLogged, Attached
    <3> QED BY <2>4, <3>1 DEF Logged
  <2>6. D!Acknowledge(EntriesOf(batch))
    <3> HIDE DEF RefInv, CustodyInv
    <3> QED BY <1>4, <1>5, <2>2, <2>3, <2>4, <2>5 DEF D!Acknowledge, IsOpen, Attached
  <2> QED BY <1>3, <2>6 DEF Simulated, D!DurabilityNext
<1> QED BY <1>6, <1>7

LEMMA MovesMap ==
  ASSUME RefInv, NullIsNoMemTable, Moves \/ UNCHANGED vars
  PROVE  Simulated
<1>1. UNCHANGED <<current, manifests, files, logs, tables, mem, imm, log_file>>
  BY DEF Moves, vars
<1>2. IsOpen' <=> IsOpen
  BY DEF Moves, vars, IsOpen
<1>3. /\ InTables' = InTables
      /\ Attached' <=> Attached
      /\ Reachable' = Reachable
  BY <1>1, FilesSame, TablesSame, AttachedSame, ReachableSame DEF Table
<1>4. CASE IsOpen
  BY <1>1, <1>2, <1>3, <1>4, OpenStutter DEF Simulated
<1>5. CASE ~ IsOpen
  BY <1>1, <1>2, <1>3, <1>5, ClosedStutter DEF Simulated
<1> QED BY <1>4, <1>5

\* DB::Open, Write, the flush, removeObsoleteFiles and crashes implement the operations of
\* Durability step by step, for batches, keys, values and memtables of any size and any
\* number of opens and writes.
THEOREM DBImplementsDurability ==
  ASSUME NullIsNoMemTable, NoFaults
  PROVE  Spec => DurabilitySpec
<1>1. Init => D!DurabilityInit
  <2> SUFFICES ASSUME Init PROVE D!DurabilityInit
    OBVIOUS
  <2>1. ~ IsOpen
    BY DEF Init, IsOpen
  <2>2. LiveFiles = {}
    BY DEF Init, NoFiles, LiveFiles, Recoverable
  <2>3. InTables = {}
    BY <2>2 DEF InTables
  <2>4. InLogs = {}
    BY MappedLogs DEF Init, NoFiles, Logged
  <2> QED BY <2>1, <2>3, <2>4 DEF D!DurabilityInit, IsOpen
<1>2. RefInv /\ [Next]_vars => [D!DurabilityNext]_(D!durabilityVars)
  <2> SUFFICES ASSUME RefInv, [Next]_vars PROVE Simulated
    BY DEF Simulated
  <2>1. \/ Ends \/ Moves \/ UNCHANGED vars
        \/ OpenDB \/ NewDB \/ Recovers \/ OpenLog
        \/ Applies \/ Applied \/ RemoveObsoleteLog \/ RemoveObsoleteManifest
        \/ Flushes \/ AppendToLog \/ InsertInto
    BY StepIs DEF RefInv, NoFaults
  <2> QED BY <2>1, EndsMaps, MovesMap, OpeningMaps, AppliesMaps, AppliedMaps, RemoveMaps,
             FlushesMaps, WriteMaps
<1>3. Init => RefInv
  BY InitRef
<1>4. RefInv /\ [Next]_vars => RefInv'
  BY NextRef
<1> QED BY <1>1, <1>2, <1>3, <1>4, PTL DEF Spec, DurabilitySpec, D!DurabilitySpec

\* Nothing drops out of the tables while the database is open or when it ends, and every
\* Open finds all that is in the logs, however often it is opened.
THEOREM OpenDatabaseKeeps ==
  ASSUME NullIsNoMemTable, NoFaults
  PROVE  Spec => Kept
BY DBImplementsDurability, DurabilityKeeps, PTL
----------------------------------------------------------------------------------
(***************************************************************************)
(* What the version has in tables.                                         *)
(***************************************************************************)
TablesKept ==
  /\ InTables \ (InTables') \subseteq Clobbered
  /\ RecoveryTable < FirstFlush => InTablesBy("flush") \subseteq (InTablesBy("flush")')

\* A step that takes no table from the manifest and nothing out of one of its tables.
LEMMA TablesGrow ==
  ASSUME LiveFiles \subseteq LiveFiles',
         \A f \in LiveFiles : Table(f.number) \subseteq Table(f.number)'
  PROVE  TablesKept
<1>1. InTables \subseteq InTables'
  BY DEF InTables
<1>2. InTablesBy("flush") \subseteq InTablesBy("flush")'
  BY DEF InTablesBy
<1> QED BY <1>1, <1>2 DEF TablesKept

\* recover() truncates the table of its choice.
LEMMA ClobberKeeps ==
  ASSUME RefInv, FlushNumbers, pc = "table0_create",
         tables' = NewWritableFile(tables, RecoveryTable, {}), UNCHANGED <<current, manifests>>
  PROVE  TablesKept
<1>1. LiveFiles' = LiveFiles
  BY FilesSame
<1>2. \A n : Table(n)' = IF n = RecoveryTable THEN {} ELSE Table(n)
  BY DEF Table, NewWritableFile
<1>3. InTables \ (InTables') \subseteq Clobbered
  <2> SUFFICES ASSUME NEW f \in LiveFiles, NEW e \in Table(f.number), e \notin InTables'
               PROVE  e \in Table(RecoveryTable)
    BY DEF InTables, Clobbered
  <2>1. e \notin Table(f.number)'
    BY <1>1 DEF InTables
  <2> QED BY <1>2, <2>1
<1>4. ASSUME RecoveryTable < FirstFlush
      PROVE  InTablesBy("flush") \subseteq InTablesBy("flush")'
  <2>1. ASSUME NEW f \in LiveFiles, f.by = "flush" PROVE f.number # RecoveryTable
    <3>1. LiveFiles = Recorded(current) /\ current \in DOMAIN manifests
      BY RecoveredFiles DEF Recoverable
    <3>2. f.number >= FirstFlush
      BY <2>1, <3>1 DEF FlushNumbers, FlushesFrom
    <3>3. f.number \in Nat
      <4>1. manifests[current].added \in Seq(FileMetaData)
        BY <3>1, ListTypes DEF RefInv, Inv
      <4>2. PICK i \in DOMAIN manifests[current].added : f = manifests[current].added[i]
        BY <2>1, <3>1 DEF Recorded, Metas
      <4>3. f \in FileMetaData
        BY <4>1, <4>2
      <4> QED BY <4>3 DEF FileMetaData
    <3>4. RecoveryTable \in Int
      BY FS_CardinalityType
      DEF RecoveryTable, RefInv, Inv, TypeInv, TypeOK, ProcessTypeOK, IsDirectoryOf
    <3> QED BY <1>4, <3>2, <3>3, <3>4 DEF FirstFlush
  <2> QED BY <1>1, <1>2, <2>1 DEF InTablesBy
<1> QED BY <1>3, <1>4 DEF TablesKept

LEMMA AppliesKeeps == ASSUME RefInv, Applies PROVE TablesKept
<1>1. LiveFiles \subseteq LiveFiles'
  BY AppliesFiles
<1>2. \A n : Table(n)' = Table(n)
  BY DEF Applies, Table
<1> QED BY <1>1, <1>2, TablesGrow

LEMMA StepKeeps ==
  ASSUME RefInv, FlushNumbers, NoFaults, [Next]_vars
  PROVE  TablesKept
<1>1. CASE UNCHANGED <<current, manifests, tables>>
  BY <1>1, FilesSame, TablesGrow DEF Table
<1>2. CASE NewDB
  <2>1. LiveFiles = {} /\ UNCHANGED tables
    BY <1>2, NewDBFiles DEF NewDB, NewDBCreate, NewDBRecord, NewDBCurrent
  <2> QED BY <2>1, TablesGrow
<1>3. CASE \/ RecoveryTableCreate
           \/ Ends /\ pc = "table0_create" /\ tables' = NewWritableFile(tables, RecoveryTable, {})
  BY <1>3, ClobberKeeps DEF RecoveryTableCreate, Ends
<1>4. CASE RecoveryTableWrite
  <2>1. Table(RecoveryTable) = {}
    BY <1>4 DEF RecoveryTableWrite, RefInv, CustodyInv, Rescued, Table
  <2>2. \A n : n # RecoveryTable => Table(n)' = Table(n)
    BY <1>4 DEF RecoveryTableWrite, Table
  <2>3. LiveFiles' = LiveFiles
    BY <1>4, FilesSame DEF RecoveryTableWrite
  <2> QED BY <2>1, <2>2, <2>3, TablesGrow
<1>5. CASE \/ FlushCreate \/ FlushWrite
           \/ Ends /\ pc = "flush_create" /\ tables' = NewWritableFile(tables, logfile_number, {})
  <2>1. pc \in {"flush_create", "flush_write"} /\ UNCHANGED <<current, manifests>>
    BY <1>5 DEF FlushCreate, FlushWrite, Ends
  <2>2. \A n : n # logfile_number => Table(n)' = Table(n)
    BY <1>5 DEF FlushCreate, FlushWrite, Table, NewWritableFile
  <2>3. \A f \in LiveFiles : f.number # logfile_number
    BY <2>1, FlushFileIsNew
  <2> QED BY <2>1, <2>2, <2>3, FilesSame, TablesGrow
<1>6. CASE Applies
  BY <1>6, AppliesKeeps
<1>7. CASE RemoveObsoleteManifest
  <2>1. LiveFiles' = LiveFiles /\ UNCHANGED tables
    BY <1>7, RemovedFiles DEF RemoveObsoleteManifest
  <2> QED BY <2>1, TablesGrow DEF Table
<1>8. \/ Ends \/ Moves \/ UNCHANGED vars
      \/ OpenDB \/ NewDB \/ Recovers \/ OpenLog
      \/ Applies \/ Applied \/ RemoveObsoleteLog \/ RemoveObsoleteManifest
      \/ Flushes \/ AppendToLog \/ InsertInto
  BY StepIs DEF RefInv, NoFaults
<1>9. CASE \/ Moves \/ UNCHANGED vars \/ OpenDB \/ RecoverVersions \/ Replay \/ OpenLog
           \/ Applied \/ RemoveObsoleteLog \/ SwitchMemTable \/ AppendToLog \/ InsertInto
  BY <1>1, <1>9 DEF Moves, vars, OpenDB, RecoverVersions, Recover, Replay, OpenLog, Applied,
     ApplyReturns, RemoveObsoleteLog, SwitchMemTable, AppendToLog, InsertInto
<1>10. CASE Ends
  BY <1>1, <1>3, <1>5, <1>10 DEF Ends
<1> QED BY <1>2, <1>3, <1>4, <1>5, <1>6, <1>7, <1>8, <1>9, <1>10 DEF Recovers, Flushes

\* Whatever is lost of what the version has in tables was in the table whose name a recovery
\* has taken, and nothing is lost of what a flush has committed unless there are more than
\* four logs, for any number of opens and writes.
THEOREM OnlyRecoveryClobbers ==
  ASSUME NullIsNoMemTable, NoFaults
  PROVE  Spec => TablesStay
<1> DEFINE I == RefInv /\ FlushNumbers
<1>1. Init => I
  BY InitRef, InitFlushNumbers
<1>2. I /\ [Next]_vars => I'
  BY NextRef, FlushNumbersNext DEF RefInv, NoFaults
<1>3. I /\ [Next]_vars => [TablesKept]_vars
  BY StepKeeps
<1> QED BY <1>1, <1>2, <1>3, PTL DEF Spec, TablesStay, TablesKept
==================================================================================
