----------------------------- MODULE MC_FifoBus -----------------------------
(* A copying reader, and an object with two names that reads into buffers. *)
EXTENDS FifoBus

TwoObjects == {"loop", "mbus"}
ThreeNames == {"loop", "mbus", "mbus2"}
OwnsOf == [o \in TwoObjects |-> IF o = "loop" THEN {"loop"} ELSE {"mbus", "mbus2"}]
MainOf == [o \in TwoObjects |-> o]
Sizes == [short |-> 1, middle |-> 2, long |-> 3]
AllSizes == DOMAIN Sizes
=============================================================================
