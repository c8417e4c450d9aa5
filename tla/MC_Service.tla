------------------------------ MODULE MC_Service ------------------------------
(***************************************************************************)
(* Instances of Service.                                                   *)
(***************************************************************************)
EXTENDS Service
=============================================================================
