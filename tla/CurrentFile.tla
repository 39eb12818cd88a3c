-------------------------------- MODULE CurrentFile --------------------------------
(***************************************************************************)
(* The file CURRENT, which names the manifest a database starts from.      *)
(* SetCurrentFile writes the name into a temporary file, through Env and   *)
(* WritableFile, and renames that; VersionSet::Recover reads it back in    *)
(* chunks and opens what it names.  The process may end between any two    *)
(* calls of the system.                                                    *)
(*                                                                         *)
(* A text is a sequence of words, of which "/" is one.                     *)
(***************************************************************************)
EXTENDS WritableFile

CONSTANTS
  NULL,
  Words,     \* what texts are made of
  DbNames,   \* the names a database may have
  Numbers,   \* the numbers of manifests, as they are printed
  ChunkSize  \* kBufferSize, what is read at a time

ASSUME WordsAssumption == {"/", "MANIFEST-"} \subseteq Words
ASSUME NamesAssumption == \A d \in DbNames : d \in Seq(Words) /\ d # <<>>
ASSUME NumbersAssumption == Numbers \subseteq Words /\ NULL \notin Numbers
ASSUME ChunkAssumption == ChunkSize \in Nat \ {0}

VARIABLES
  dbname,   \* the name it was opened with
  tmps,     \* NNNNNN.dbtmp: from the numbers of those that exist to their contents
  current,  \* CURRENT; NULL: no such file
  pc,       \* "idle", "append", "sync", "close", "delete", "rename", "cleanup", "read"
  number,   \* the argument of the SetCurrentFile under way; NULL: there is none
  file,     \* its WritableFile
  status,   \* what the last SetCurrentFile returned
  got,      \* what ReadStringFromFileSync returns, and, while it reads, has so far
  named,    \* history: the number of the last SetCurrentFile that returned OK
  cut       \* history: the numbers of those that the end of the process cut off

currentVars == <<dbname, tmps, current, pc, number, file, status, got, named, cut>>

----------------------------------------------------------------------------------
DescriptorFileName(d, n) == d \o <<"/", "MANIFEST-", n>>

FirstSlash(text) == SelectInSeq(text, LAMBDA word : word = "/")

\* Mutant: from the slash on, not from behind it.
ManifestNameSlashed(d, n) ==
  LET name == DescriptorFileName(d, n) IN SubSeq(name, FirstSlash(name), Len(name))

\* The name CURRENT is to have: what is behind the FIRST slash, which is in the name of
\* the database when that has any.
ManifestName(d, n) ==
  LET name == DescriptorFileName(d, n) IN SubSeq(name, FirstSlash(name) + 1, Len(name))

\* NULL is no name.
ASSUME NullAssumption == \A d \in DbNames, n \in Numbers : ManifestName(d, n) # NULL

\* All that is written at once fits the buffer, which in the code has 64 KiB.
ASSUME NamesFit == \A d \in DbNames : Len(d) + 3 <= BufferSize

\* What VersionSet::Recover opens.
Opened == dbname \o <<"/">> \o got.data

Without(n) == [m \in DOMAIN tmps \ {n} |-> tmps[m]]
WithTmp(n, contents) == [m \in DOMAIN tmps \union {n} |-> IF m = n THEN contents ELSE tmps[m]]

----------------------------------------------------------------------------------
(***************************************************************************)
(* SetCurrentFile and Env::WriteStringToFileSync.                          *)
(***************************************************************************)
\* A temporary file of that name is emptied.  That it cannot be opened shows when it
\* is written.
SetCurrentFile(n) ==
  /\ pc = "idle"
  /\ pc' = "append"
  /\ number' = n
  /\ \/ tmps' = WithTmp(n, <<>>) /\ file' = NewFile
     \/ WritesMayFail /\ UNCHANGED tmps /\ file' = [NewFile EXCEPT !.open = FALSE]
  /\ UNCHANGED <<dbname, current, status, got, named, cut>>

\* A call on the temporary file, after which the next one is made if it was OK, and
\* the file is given up otherwise.  Its destructor then has nothing left to write.
Call(outcomes, next) ==
  /\ \E r \in outcomes :
       /\ file' = r.file
       /\ tmps' = IF file.open THEN WithTmp(number, r.file.disk) ELSE tmps
       /\ pc' = IF r.ok THEN next ELSE "delete"
  /\ UNCHANGED <<dbname, current, number, status, got, named, cut>>

AppendName == pc = "append" /\ Call(AppendTo(file, ManifestName(dbname, number)), "sync")

\* Mutant: the status of Sync is not looked at.
SyncTmpUnchecked ==
  /\ pc = "sync"
  /\ Call({[r EXCEPT !.ok = TRUE] : r \in FlushBuffer(file)}, "close")

SyncTmp == pc = "sync" /\ Call(FlushBuffer(file), "close")

CloseTmp == pc = "close" /\ Call(CloseFile(file), "rename")

\* WriteStringToFileSync removes what it could not write.
DeleteTmp ==
  /\ pc = "delete"
  /\ tmps' = Without(number)
  /\ pc' = "cleanup"
  /\ UNCHANGED <<dbname, current, number, file, status, got, named, cut>>

\* A call comes to its end, and what was read before is no longer asked for.
Returns(ok) ==
  /\ pc' = "idle"
  /\ number' = NULL
  /\ file' = NewFile
  /\ status' = ok
  /\ got' = [ok |-> FALSE, data |-> <<>>]
  /\ cut' = cut \ {number}

RenameTmp ==
  /\ pc = "rename"
  /\ number \in DOMAIN tmps
  /\ current' = tmps[number]
  /\ tmps' = Without(number)
  /\ named' = number
  /\ Returns(TRUE)
  /\ UNCHANGED dbname

RenameFails ==
  /\ pc = "rename"
  /\ WritesMayFail
  /\ pc' = "cleanup"
  /\ UNCHANGED <<dbname, tmps, current, number, file, status, got, named, cut>>

\* Mutant: the temporary file stays.
CleanupKept ==
  /\ pc = "cleanup"
  /\ Returns(FALSE)
  /\ UNCHANGED <<dbname, tmps, current, named>>

\* SetCurrentFile removes the file as well.
Cleanup ==
  /\ pc = "cleanup"
  /\ tmps' = Without(number)
  /\ Returns(FALSE)
  /\ UNCHANGED <<dbname, current, named>>

----------------------------------------------------------------------------------
(***************************************************************************)
(* Env::ReadStringFromFileSync.                                            *)
(***************************************************************************)
\* Recover asks for a CURRENT that exists.
ReadCurrent ==
  /\ pc = "idle"
  /\ current # NULL
  /\ pc' = "read"
  /\ got' = [ok |-> FALSE, data |-> <<>>]
  /\ UNCHANGED <<dbname, tmps, current, number, file, status, named, cut>>

\* Mutant: that there is no more is not noticed.
ReadChunkOnly ==
  /\ pc = "read"
  /\ LET rest == SubSeq(current, Len(got.data) + 1, Len(current)) IN
     \E p \in Prefixes(rest) :
       /\ p = <<>> <=> rest = <<>>
       /\ Len(p) <= ChunkSize
       /\ got' = [got EXCEPT !.data = @ \o p]
  /\ UNCHANGED <<dbname, tmps, current, pc, number, file, status, named, cut>>

\* read(2) returns what is left, or less; nothing at the end only, and that ends the loop.
ReadChunk ==
  /\ pc = "read"
  /\ LET rest == SubSeq(current, Len(got.data) + 1, Len(current)) IN
     \E p \in Prefixes(rest) :
       /\ p = <<>> <=> rest = <<>>
       /\ Len(p) <= ChunkSize
       /\ got' = [ok |-> p = <<>>, data |-> got.data \o p]
       /\ pc' = IF p = <<>> THEN "idle" ELSE "read"
  /\ UNCHANGED <<dbname, tmps, current, number, file, status, named, cut>>

\* The error is returned and the part that was read stays in the string; Recover asks
\* for no status.
ReadFails ==
  /\ pc = "read"
  /\ pc' = "idle"
  /\ UNCHANGED <<dbname, tmps, current, number, file, status, got, named, cut>>

----------------------------------------------------------------------------------
\* The end of the process.
Crash ==
  /\ pc' = "idle"
  /\ number' = NULL
  /\ file' = NewFile
  /\ got' = [ok |-> FALSE, data |-> <<>>]
  /\ cut' = IF number = NULL THEN cut ELSE cut \union {number}
  /\ UNCHANGED <<dbname, tmps, current, status, named>>

Init ==
  /\ dbname \in DbNames
  /\ tmps = [n \in {} |-> <<>>]
  /\ current = NULL
  /\ pc = "idle"
  /\ number = NULL
  /\ file = NewFile
  /\ status = TRUE
  /\ got = [ok |-> FALSE, data |-> <<>>]
  /\ named = NULL
  /\ cut = {}

Setting == AppendName \/ SyncTmp \/ CloseTmp \/ DeleteTmp \/ RenameTmp \/ RenameFails \/ Cleanup
Reading == ReadChunk \/ ReadFails

Next == (\E n \in Numbers : SetCurrentFile(n)) \/ Setting \/ ReadCurrent \/ Reading \/ Crash

Spec == Init /\ [][Next]_currentVars

\* Both calls go on by themselves.
FairSpec == Spec /\ WF_currentVars(Setting) /\ WF_currentVars(ReadChunk)

----------------------------------------------------------------------------------
TypeOK ==
  /\ dbname \in DbNames
  /\ DOMAIN tmps \subseteq Numbers /\ \A n \in DOMAIN tmps : tmps[n] \in Seq(Words)
  /\ current = NULL \/ current \in Seq(Words)
  /\ pc \in {"idle", "append", "sync", "close", "delete", "rename", "cleanup", "read"}
  /\ number \in Numbers \union {NULL}
  /\ number = NULL <=> pc \in {"idle", "read"}
  /\ file \in [buf : Seq(Words), disk : Seq(Words), open : BOOLEAN]
  /\ pc \in {"close", "delete", "rename", "cleanup"} => file.buf = <<>>
  /\ status \in BOOLEAN
  /\ got \in [ok : BOOLEAN, data : Seq(Words)]
  /\ pc = "read" => IsPrefix(got.data, current)
  /\ named \in Numbers \union {NULL}
  /\ cut \subseteq Numbers

\* CURRENT is a register: set at once, by the calls that return OK and by no other,
\* whatever write, Close or rename fails and wherever the process ends; and read as a
\* whole.  DB relies on it where one step installs a manifest.
R == INSTANCE Register WITH
       Values <- {ManifestName(d, n) : d \in DbNames, n \in Numbers},
       value <- current,
       attempt <- IF number = NULL THEN NULL ELSE ManifestName(dbname, number),
       got <- IF pc = "read" THEN [ok |-> FALSE, data |-> <<>>] ELSE got

RegisterSpec == R!Spec

\* What Recover opens, after it has read CURRENT without an error, is the manifest that
\* SetCurrentFile was given last among those that returned OK; if the name of the
\* database has no slash, that is.  With one it is a file nobody has written.
RecoverOpens ==
  got.ok => (Opened = DescriptorFileName(dbname, named) <=> FirstSlash(dbname) = 0)

\* A temporary file is left behind by the end of the process only.  Nothing else ever
\* removes it but a later SetCurrentFile of the same number.
TmpsOfCrashes == pc = "idle" => DOMAIN tmps \subseteq cut

\* Every SetCurrentFile comes to an end, and every read without an error.
CallsReturn == pc # "idle" ~> pc = "idle"
===================================================================================
