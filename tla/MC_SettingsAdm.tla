---------------------------- MODULE MC_SettingsAdm ----------------------------
(***************************************************************************)
(* Instances of SettingsAdm: what the threads of a run are asked to do.    *)
(***************************************************************************)
EXTENDS SettingsAdm

CONSTANTS t1, t2, v0, v1, v2

\* One thread, or each of several, does everything.
AskedAll == [t \in Threads |-> {"load", "sync", "save"}]

\* Concurrent savers.
AskedSave == [t \in Threads |-> {"save"}]
=============================================================================
