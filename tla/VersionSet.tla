------------------------------- MODULE VersionSet -------------------------------
(***************************************************************************)
(* version::VersionSet: which table files make up the database, the file   *)
(* numbers it hands out, and the manifest that records both.               *)
(*                                                                         *)
(* LogAndApply changes several files in turn and a crash may come between  *)
(* any two of them, so it is one action per effect on the disk; vpc says   *)
(* which comes next.  A manifest file is abstracted to what Recover has    *)
(* gathered when it reaches the end of it.                                 *)
(***************************************************************************)
EXTENDS Files, Entries, SequencesExt

CONSTANTS
  IoErrors,      \* the kinds of file whose writes may fail
  Indeterminate  \* the members no constructor initialises

ASSUME IoErrorsAssumption == IoErrors \subseteq {"wal", "table", "block", "manifest"}

ASSUME IndeterminateAssumption == Indeterminate \subseteq {"eof_", "descriptor_file_"}

VARIABLES
  current,               \* the number of the manifest that CURRENT names
  manifests,             \* MANIFEST-NNNNNN files
  next_file_number, manifest_file_number, log_number,
  files,                 \* current_->files_[0]; no file is on another level
  descriptor_file,       \* "null", "open" or "wild", a pointer nobody set
  edit,                  \* the VersionEdit LogAndApply was called with
  vpc                    \* what LogAndApply does next

onDisk == <<current, manifests>>
inMemory == <<next_file_number, manifest_file_number, log_number, files,
              descriptor_file, edit, vpc>>
versionVars == <<onDisk, inMemory>>

\* prev_log_number_ is 0 and every edit carries 0.
PrevLogNumber == 0

----------------------------------------------------------------------------------
\* VersionEdit: LogAndApply fills in the counters; files are only ever added.
VersionEdit == [log : Nat, next : Nat, added : Seq(FileMetaData)]
NoEdit == [log |-> 0, next |-> 0, added |-> <<>>]

\* Recover's have_* flags (every edit that sets one sets all of them), its
\* counters, and the files its Builder was given, in the order of the records.
Manifest == [complete : BOOLEAN, log : Nat, next : Nat, added : Seq(FileMetaData)]
EmptyManifest == [complete |-> FALSE, log |-> 0, next |-> 0, added |-> <<>>]

\* AddRecord(edit) at the end of a manifest.
WithEdit(m, e) ==
  [complete |-> TRUE, log |-> e.log, next |-> e.next, added |-> m.added \o e.added]

\* Mutant: the snapshot is left out.
WithoutSnapshot(m, fs) == m

\* writeSnapshot: an edit with the files of the version and no counters.
WithSnapshot(m, fs) == [m EXCEPT !.added = @ \o fs]

\* Builder::SaveTo.  BySmallestKey says "less" of every pair, so each file Apply
\* inserts goes to the front of added_files; the files of the base come first.
SaveTo(base, added) == base \o Reverse(added)

----------------------------------------------------------------------------------
\* The constructor, which leaves the descriptor pointers to whatever the
\* allocation holds.
NewVersionSet ==
  /\ next_file_number' = 2
  /\ manifest_file_number' = 0
  /\ log_number' = 0
  /\ files' = <<>>
  /\ descriptor_file' \in {"null"} \union
       (IF "descriptor_file_" \in Indeterminate THEN {"wild"} ELSE {})
  /\ edit' = NoEdit
  /\ vpc' = "idle"

\* The process ends and takes the version set with it.
ForgetVersions ==
  /\ next_file_number' = 2
  /\ manifest_file_number' = 0
  /\ log_number' = 0
  /\ files' = <<>>
  /\ descriptor_file' = "null"
  /\ edit' = NoEdit
  /\ vpc' = "idle"

\* Recover reads the manifest CURRENT names, and gives the next manifest the
\* number after the last one recorded.
Recoverable == current \in DOMAIN manifests /\ manifests[current].complete

\* Mutant: the number given to the next manifest is not taken.
RecoverNumberReused ==
  /\ Recoverable
  /\ files' = SaveTo(files, manifests[current].added)
  /\ manifest_file_number' = manifests[current].next
  /\ next_file_number' = manifests[current].next
  /\ log_number' = manifests[current].log
  /\ UNCHANGED <<onDisk, descriptor_file, edit, vpc>>

Recover ==
  /\ Recoverable
  /\ files' = SaveTo(files, manifests[current].added)
  /\ manifest_file_number' = manifests[current].next
  /\ next_file_number' = manifests[current].next + 1
  /\ log_number' = manifests[current].log
  /\ UNCHANGED <<onDisk, descriptor_file, edit, vpc>>

\* No such manifest, or none of the counters in it ("no meta-nextfile entry in
\* descriptor"), which is also what a Reader whose eof_ happens to be true finds.
RecoverFails == ~ Recoverable \/ "eof_" \in Indeterminate

\* Mutant: the numbers of the logs are not marked as used.
NotMarked(S, n) == n = next_file_number

\* MarkFileNumberUsed for every number in S, which leaves n as the next one.
Marked(S, n) ==
  /\ n \in {next_file_number} \union {s + 1 : s \in S}
  /\ n >= next_file_number
  /\ \A s \in S : n > s

----------------------------------------------------------------------------------
\* LogAndApply is called with an edit that sets the log number; next is the
\* value of next_file_number_ at the call.
LogAndApply(log, next, added) ==
  /\ vpc = "idle"
  /\ edit' = [log |-> log, next |-> next, added |-> added]
  /\ vpc' = IF descriptor_file = "null" THEN "create" ELSE "record"

CreateDescriptor ==
  /\ vpc = "create"
  /\ manifests' = NewWritableFile(manifests, manifest_file_number, EmptyManifest)
  /\ descriptor_file' = "open"
  /\ vpc' = "snapshot"
  /\ UNCHANGED <<current, next_file_number, manifest_file_number, log_number, files, edit>>

WriteSnapshot ==
  /\ vpc = "snapshot"
  /\ manifests' = [manifests EXCEPT ![manifest_file_number] = WithSnapshot(@, files)]
  /\ vpc' = "record"
  /\ UNCHANGED <<current, next_file_number, manifest_file_number, log_number, files,
                 descriptor_file, edit>>

\* Mutant: the log number is taken over before CURRENT is written.
AppendEditEarlyLogNumber ==
  /\ vpc = "record"
  /\ descriptor_file = "open"
  /\ manifests' = [manifests EXCEPT ![manifest_file_number] = WithEdit(@, edit)]
  /\ log_number' = edit.log
  /\ vpc' = "current"
  /\ UNCHANGED <<current, next_file_number, manifest_file_number, files,
                 descriptor_file, edit>>

AppendEdit ==
  /\ vpc = "record"
  /\ descriptor_file = "open"
  /\ manifests' = [manifests EXCEPT ![manifest_file_number] = WithEdit(@, edit)]
  /\ vpc' = "current"
  /\ UNCHANGED <<current, next_file_number, manifest_file_number, log_number, files,
                 descriptor_file, edit>>

\* SetCurrentFile writes a temporary file and renames it, which is atomic; the
\* new version is installed with it, as nothing can observe the moment between.
InstallCurrent ==
  /\ vpc = "current"
  /\ current' = manifest_file_number
  /\ files' = SaveTo(files, edit.added)
  /\ log_number' = edit.log
  /\ vpc' = "done"
  /\ UNCHANGED <<manifests, next_file_number, manifest_file_number, descriptor_file, edit>>

\* A write to the manifest or to CURRENT fails.  The manifest is deleted, also
\* when CURRENT names it, and the status returned is that of the deletion.
ApplyFails ==
  /\ "manifest" \in IoErrors
  /\ vpc \in {"snapshot", "record", "current"}
  /\ descriptor_file = "open"
  /\ descriptor_file' = "null"
  /\ \/ /\ manifests' = DeleteFile(manifests, manifest_file_number)
        /\ vpc' = "done"
     \/ /\ UNCHANGED manifests
        /\ vpc' = "failed"
  /\ UNCHANGED <<current, next_file_number, manifest_file_number, log_number, files, edit>>

ApplyStep ==
  CreateDescriptor \/ WriteSnapshot \/ AppendEdit \/ InstallCurrent \/ ApplyFails

\* LogAndApply has returned.
ApplyReturns(status) ==
  /\ vpc = status
  /\ vpc' = "idle"
  /\ edit' = NoEdit
  /\ UNCHANGED <<onDisk, next_file_number, manifest_file_number, log_number, files,
                 descriptor_file>>
==================================================================================
