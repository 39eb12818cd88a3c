------------------------------- MODULE Durability -------------------------------
(***************************************************************************)
(* What db::DB promises about the entries it was given, when no write to a *)
(* file fails: which of them survive the end of the process.  Entries are  *)
(* in two places on the disk: in the logs, and in the tables of the        *)
(* version, which a flush or a recovery has made.                          *)
(***************************************************************************)
CONSTANT Entry

VARIABLES
  up,         \* the database is open
  attached,   \* writes go to a log file that the next Open will replay
  visible,    \* what the process can reach
  logged, inTables

durabilityVars == <<up, attached, visible, logged, inTables>>

DurabilityInit ==
  /\ up = FALSE
  /\ attached = FALSE
  /\ visible = {}
  /\ logged = {}
  /\ inTables = {}

\* A write is logged, until the first flush ...
Log(E) ==
  /\ up
  /\ attached
  /\ logged' = logged \union E
  /\ UNCHANGED <<up, attached, visible, inTables>>

\* ... and then becomes visible.
Acknowledge(E) ==
  /\ up
  /\ attached => E \subseteq logged
  /\ visible' = visible \union E
  /\ UNCHANGED <<up, attached, logged, inTables>>

\* A flush: all that is visible is in tables, and the log in use is given up.  No
\* other takes its place, so what is acknowledged from here on is not logged.
Commit(E) ==
  /\ up
  /\ E # {}
  /\ E \subseteq visible
  /\ inTables' = inTables \union E
  /\ visible \subseteq inTables'
  /\ attached' = FALSE
  /\ UNCHANGED <<up, visible, logged>>

\* Logs go away, but not with entries no table has.
TrimLogs(L) ==
  /\ up
  /\ L \subseteq logged
  /\ logged \ L \subseteq inTables
  /\ logged' = L
  /\ UNCHANGED <<up, attached, visible, inTables>>

\* A recovery gives its table a name that a table of the version may have: what that
\* one held, and no log holds any more, is lost.
Clobber(D) ==
  /\ ~ up
  /\ inTables' = inTables \ D
  /\ UNCHANGED <<up, attached, visible, logged>>

\* The entries of all logs are in a table.
Rescue ==
  /\ ~ up
  /\ inTables' = inTables \union logged
  /\ UNCHANGED <<up, attached, visible, logged>>

Open ==
  /\ ~ up
  /\ logged \subseteq inTables
  /\ up' = TRUE
  /\ attached' = TRUE
  /\ visible' = inTables
  /\ UNCHANGED <<logged, inTables>>

End ==
  /\ up
  /\ up' = FALSE
  /\ attached' = FALSE
  /\ visible' = {}
  /\ UNCHANGED <<logged, inTables>>

DurabilityNext ==
  \/ \E E \in SUBSET Entry :
       Log(E) \/ Acknowledge(E) \/ Commit(E) \/ TrimLogs(E) \/ Clobber(E)
  \/ Rescue \/ Open \/ End

DurabilitySpec == DurabilityInit /\ [][DurabilityNext]_durabilityVars

----------------------------------------------------------------------------------
\* Until the first flush of a session, all that has been acknowledged is on the disk
\* (DB::Write logs a batch before it inserts it).
Durable == attached => visible \subseteq logged \union inTables

\* An open database takes nothing out of its tables, nor does its end
\* (removeObsoleteFiles, writeSnapshot), and an Open makes visible all that the logs
\* hold and all that its recovery has left in the tables (DB::recover).
Kept == [][/\ up => inTables \subseteq (inTables')
           /\ (~ up /\ up') => logged \union inTables \subseteq (visible')]_durabilityVars
==================================================================================
