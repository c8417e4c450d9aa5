---------------------------- MODULE MC_Supervision ----------------------------
(***************************************************************************)
(* An instance of Supervision: one thread of Cnoda, one immortal setting.  *)
(***************************************************************************)
EXTENDS Supervision

CONSTANTS a, f
===============================================================================
