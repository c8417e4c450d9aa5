----------------------------- MODULE NecronConfig -----------------------------
(***************************************************************************)
(* What the configuration gives Factory_reset and necron.                  *)
(***************************************************************************)
EXTENDS Integers

CONSTANTS
  Immortal,      \* JnodaCfg["factory"]["immortal"]
  Configured,    \* BOOLEAN: JnodaCfg has a member "factory"
  Detect,        \* detectinterval
  Width          \* the counter of Factory_reset is u32: 2^32

ASSUME NecronAssumption ==
  /\ Configured \in BOOLEAN
  /\ Detect \in Nat \ {0} /\ Width \in Nat /\ Detect < Width
===============================================================================
