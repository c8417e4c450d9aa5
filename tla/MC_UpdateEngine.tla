--------------------------- MODULE MC_UpdateEngine ---------------------------
(***************************************************************************)
(* Instances of UpdateEngine: two images, the second one newer.            *)
(***************************************************************************)
EXTENDS UpdateEngine

CONSTANTS i1, i2

TwoVersions == [v \in Images |-> IF v = i1 THEN 1 ELSE 2]
=============================================================================
