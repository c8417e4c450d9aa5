----------------------------- MODULE MC_SqliteLog -----------------------------
(***************************************************************************)
(* An instance of SqliteLog: four messages, two kept, two faults.          *)
(***************************************************************************)
EXTENDS SqliteLog
===============================================================================
