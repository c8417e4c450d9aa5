------------------------------ MODULE MC_Watchdog ------------------------------
(***************************************************************************)
(* An instance of Watchdog: two threads of Cnoda.                          *)
(***************************************************************************)
EXTENDS Watchdog

CONSTANTS a, b
===============================================================================
