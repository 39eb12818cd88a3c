--------------------------------- MODULE Register ---------------------------------
(***************************************************************************)
(* What SetCurrentFile makes of the file CURRENT: a register.  A call to   *)
(* set it either succeeds, and the register has the new value, or fails,   *)
(* or is cut off by the end of the process, and it has the old one; a call *)
(* that reads it gets the value, or an error and a part of the value.      *)
(***************************************************************************)
EXTENDS SequencesExt

CONSTANTS Values, NULL

VARIABLES
  value,    \* NULL: never set
  attempt,  \* what the call under way is to set; NULL: there is none
  status,   \* whether the last call to set it succeeded
  got       \* what was read last

registerVars == <<value, attempt, status, got>>

Nothing == [ok |-> FALSE, data |-> <<>>]

Init ==
  /\ value = NULL
  /\ attempt = NULL
  /\ status = TRUE
  /\ got = Nothing

Set(v) ==
  /\ attempt = NULL
  /\ attempt' = v
  /\ UNCHANGED <<value, status, got>>

Ends(ok) ==
  /\ attempt # NULL
  /\ attempt' = NULL
  /\ value' = IF ok THEN attempt ELSE value
  /\ status' = ok
  /\ got' = Nothing

Crash ==
  /\ attempt' = NULL
  /\ got' = Nothing
  /\ UNCHANGED <<value, status>>

\* Nothing is read while nothing has been set.
Read ==
  /\ attempt = NULL
  /\ \/ got' = Nothing
     \/ value # NULL /\ got' = [ok |-> TRUE, data |-> value]
     \/ value # NULL /\ \E p \in Prefixes(value) : got' = [ok |-> FALSE, data |-> p]
  /\ UNCHANGED <<value, attempt, status>>

Next == (\E v \in Values : Set(v)) \/ (\E ok \in BOOLEAN : Ends(ok)) \/ Crash \/ Read

Spec == Init /\ [][Next]_registerVars
===================================================================================
