------------------------------ MODULE DBDurability ------------------------------
(***************************************************************************)
(* DB implements Durability: the refinement mapping.                       *)
(***************************************************************************)
EXTENDS DBProperties

\* Open has come to its end: the version with the recovered table is installed.
\* While LogAndApply runs for Open there is no imm_, and while it runs for a
\* flush there is one.
IsOpen == mem # NULL /\ (pc = "apply" => imm # NULL)

LiveFiles ==
  IF Recoverable
  THEN {manifests[current].added[i] : i \in DOMAIN manifests[current].added}
  ELSE {}

InTables == UNION {Table(meta.number) : meta \in LiveFiles}

InTablesBy(who) == UNION {Table(meta.number) : meta \in {f \in LiveFiles : f.by = who}}

Visible ==
  Contents(mem) \union Contents(imm) \union
  UNION {Table(files[i].number) : i \in DOMAIN files}

\* The log has a name, and recovery will not take it for obsolete.
Attached ==
  /\ log_file \in DOMAIN logs
  /\ Recoverable
  /\ manifests[current].log <= log_file

\* What the logs hold, as recover() would read it.
InLogs == UNION {EntriesAt(p) : p \in BatchesIn(DOMAIN logs)}

\* Only entries that occur, so that TLC can enumerate the sets of them.
Occurring == UNION {EntriesOf(b) : b \in Batches}

D == INSTANCE Durability WITH
  Entry    <- Occurring,
  up       <- IsOpen,
  attached <- IsOpen /\ Attached,
  visible  <- IF IsOpen THEN Visible ELSE {},
  logged   <- InLogs,
  inTables <- InTables

\* DB::Open, Write and the flush implement the abstract operations of Durability
\* step by step, crashes included.
DurabilitySpec == D!DurabilitySpec

\* Until the first flush of a session every acknowledged write is in a log or in a
\* table of the version on the disk.
Durable == D!Durable

\* An open database and its end lose nothing that the version has in tables, and an Open
\* finds all that is in the logs and all that its recovery has left in the tables.
Kept == D!Kept

\* SSTable::Put truncates the file of the name that recover() chooses.
Clobbered == IF pc = "table0_create" THEN Table(RecoveryTable) ELSE {}

\* What a table of the version on the disk holds is lost in one way only: a recovery takes
\* the table's name for its own.  What a flush has committed is lost by it only when there
\* are more than four logs, since no flush has a lower number.
TablesStay ==
  [][/\ InTables \ (InTables') \subseteq Clobbered
     /\ RecoveryTable < FirstFlush => InTablesBy("flush") \subseteq (InTablesBy("flush")')]_vars
==================================================================================
