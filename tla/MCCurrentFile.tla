------------------------------- MODULE MCCurrentFile -------------------------------
(***************************************************************************)
(* Values of the constants of CurrentFile for TLC.                         *)
(***************************************************************************)
EXTENDS CurrentFile

\* "t_db", as in the tests, "tmp/t_db" and "/t_db".
SomeNames == {<<"t_db">>, <<"tmp", "/", "t_db">>, <<"/", "t_db">>}

SomeWords == {"/", "MANIFEST-", "t_db", "tmp", "000001", "000002"}

TwoNumbers == {"000001", "000002"}
====================================================================================
