-------------------------------- MODULE Necron --------------------------------
(***************************************************************************)
(* The return to the factory settings.  Factory_reset (loop/               *)
(* factory_reset.cxx), a thread of Cnoda, counts the turns the key is held *)
(* and writes the stump rollOutToFactory; necron (minisw/necron/) polls    *)
(* for it in a process of its own, factoryLoop, that saves the immortal    *)
(* settings in memory, kills the programs, formats the drives and brings   *)
(* the settings back, while necron itself restarts node whenever it ends.  *)
(*                                                                         *)
(* Left out: Xorg and electron, signals, the image that is neither emmc    *)
(* nor nand (its script formats nothing).  killall is taken to kill.       *)
(***************************************************************************)
EXTENDS NecronConfig

VARIABLES
  cnoda,         \* the process: "up", "down"
  key,           \* the key is held
  counter,       \* factory_rst_counter
  trig,          \* trigResetDeviceToFactory
  stump,         \* /run/necron/rollOutToFactory exists
  main,          \* necron: "up", "gone"
  child,         \* its child nodePID: what it is at, or "dead"
  roll,          \* factoryLoop: what it is at
  todo,          \* settings not yet copied in this phase
  sys,           \* the settings in PathFirst
  tmp            \* the settings in /run/necron/immortal, in memory

reset == <<key, counter, trig, stump>>
files == <<todo, sys, tmp>>
vars == <<cnoda, reset, main, child, roll, files>>

Children == {"dead", "slogger", "node", "after", "killing"}
Rolls == {"poll", "save", "kill_node", "kill_cnoda", "wipe", "restore", "ended"}

TypeOK ==
  /\ cnoda \in {"up", "down"}
  /\ key \in BOOLEAN /\ trig \in BOOLEAN /\ stump \in BOOLEAN
  /\ counter \in 0..Width - 1
  /\ main \in {"up", "gone"} /\ child \in Children /\ roll \in Rolls
  /\ todo \subseteq Immortal
  /\ sys \in [Immortal -> {"none", "whole", "open", "torn"}]
  /\ tmp \in [Immortal -> {"none", "whole", "torn"}]

Init ==
  /\ cnoda = "down" /\ key = FALSE /\ counter = Detect /\ trig = FALSE /\ stump = FALSE
  /\ main = "up" /\ child = "dead" /\ roll = "poll" /\ todo = {}
  /\ sys \in [Immortal -> {"none", "whole"}]
  /\ tmp = [f \in Immortal |-> "none"]

-----------------------------------------------------------------------------
(***************************************************************************)
(* Factory_reset, in Cnoda.                                                *)
(***************************************************************************)
KeyMoves ==
  /\ key' = ~key
  /\ UNCHANGED <<cnoda, counter, trig, stump, main, child, roll, files>>

KeyFree ==
  /\ cnoda = "up" /\ ~key
  /\ counter' = Detect
  /\ UNCHANGED <<cnoda, key, trig, stump, main, child, roll, files>>

\* Deviation: a signed counter.
DownSigned == counter - 1
\* factory_rst_counter--, past 0 while the key stays down
Down == IF counter = 0 THEN Width - 1 ELSE counter - 1

KeyHeld ==
  /\ cnoda = "up" /\ key
  /\ Down # 0
  /\ counter' = Down
  /\ UNCHANGED <<cnoda, key, trig, stump, main, child, roll, files>>

\* ResetDeviceToFactory.  That the stump could not be written goes unnoticed.
ResetDeviceToFactory ==
  /\ cnoda = "up" /\ key
  /\ Down = 0 /\ counter' = 0
  /\ IF trig THEN UNCHANGED stump ELSE stump' \in {stump, TRUE}
  /\ trig' = TRUE
  /\ UNCHANGED <<cnoda, key, main, child, roll, files>>

-----------------------------------------------------------------------------
(***************************************************************************)
(* necron's loop and the child that runs node.  Cnoda is started from node *)
(* (Jnoda, not in this repository).                                        *)
(***************************************************************************)
\* Deviation: node is restarted whatever goes on.
MainRestartsAlways ==
  /\ main = "up" /\ child = "dead"
  /\ child' = "slogger"
  /\ UNCHANGED <<cnoda, reset, main, roll, files>>

MainRestarts ==
  /\ main = "up" /\ child = "dead" /\ ~stump
  /\ child' = "slogger"
  /\ UNCHANGED <<cnoda, reset, main, roll, files>>

\* exit(1)
MainExits ==
  /\ main = "up" /\ child = "dead" /\ stump
  /\ main' = "gone"
  /\ UNCHANGED <<cnoda, reset, child, roll, files>>

ChildRunsNode ==
  /\ child = "slogger" /\ child' = "node"
  /\ UNCHANGED <<cnoda, reset, main, roll, files>>

NodeEnds ==
  /\ child = "node" /\ child' = "after"
  /\ UNCHANGED <<cnoda, reset, main, roll, files>>

ChildLooks ==
  /\ child = "after"
  /\ child' = IF stump THEN "dead" ELSE "killing"
  /\ UNCHANGED <<cnoda, reset, main, roll, files>>

CnodaStarts ==
  /\ cnoda = "down" /\ child = "node"
  /\ cnoda' = "up" /\ counter' = Detect /\ trig' = FALSE
  /\ sys' = [f \in Immortal |-> IF sys[f] = "open" THEN "whole" ELSE sys[f]]
  /\ UNCHANGED <<key, stump, main, child, roll, todo, tmp>>

\* A file Cnoda is writing stays "open": the reserve has its values until it starts again.
CnodaDies ==
  /\ cnoda = "up" /\ cnoda' = "down"
  /\ UNCHANGED <<reset, main, child, roll, files>>

\* killAllBase
ChildKills ==
  /\ child = "killing" /\ child' = "dead"
  /\ cnoda' = "down"
  /\ UNCHANGED <<reset, main, roll, files>>

\* A save of the settings storage rewrites the file in place.
CnodaOpens(f) ==
  /\ cnoda = "up" /\ sys[f] = "whole"
  /\ sys' = [sys EXCEPT ![f] = "open"]
  /\ UNCHANGED <<cnoda, reset, main, child, roll, todo, tmp>>

CnodaCloses(f) ==
  /\ cnoda = "up" /\ sys[f] = "open"
  /\ sys' = [sys EXCEPT ![f] = "whole"]
  /\ UNCHANGED <<cnoda, reset, main, child, roll, todo, tmp>>

-----------------------------------------------------------------------------
(***************************************************************************)
(* factoryLoop and factoryRollBack.                                        *)
(***************************************************************************)
Others == <<cnoda, reset, main, child>>

\* Deviation: factoryLoop ends with the process it was forked from.
RollsWhileMainUp ==
  /\ roll = "poll" /\ stump /\ main = "up"
  /\ roll' = IF Configured THEN "save" ELSE "ended"
  /\ todo' = IF Configured THEN Immortal ELSE {}
  /\ UNCHANGED <<Others, sys, tmp>>

RollBegins ==
  /\ roll = "poll" /\ stump
  /\ roll' = IF Configured THEN "save" ELSE "ended"
  /\ todo' = IF Configured THEN Immortal ELSE {}
  /\ UNCHANGED <<Others, sys, tmp>>

\* What a copy gets of a file: one that is being written may be read half.
Read(state) == IF state = "open" THEN {"whole", "torn"} ELSE {state}

\* CopyFile of one setting, if there is such a file
Save(f) ==
  /\ roll = "save" /\ f \in todo
  /\ IF sys[f] = "none" THEN UNCHANGED tmp
     ELSE \E c \in Read(sys[f]) : tmp' = [tmp EXCEPT ![f] = c]
  /\ todo' = todo \ {f}
  /\ UNCHANGED <<Others, roll, sys>>

\* Deviation: the next file is tried when one is not copied.
SaveGoesOn(f) ==
  /\ roll = "save" /\ f \in todo /\ sys[f] # "none"
  /\ todo' = todo \ {f}
  /\ UNCHANGED <<Others, roll, sys, tmp>>

\* A copy that fails: nothing has been touched, and nothing more is done.
SaveFails(f) ==
  /\ roll = "save" /\ f \in todo /\ sys[f] # "none"
  /\ roll' = "ended" /\ todo' = {}
  /\ UNCHANGED <<Others, sys, tmp>>

\* The script cannot be written: nothing is killed, and the roll-back ends without a word.
ScriptFails ==
  /\ roll = "save" /\ todo = {}
  /\ roll' = "ended"
  /\ UNCHANGED <<Others, files>>

\* The script is written; node is killed first, then Cnoda.
KillsNode ==
  /\ roll = "save" /\ todo = {}
  /\ child' = IF child = "node" THEN "after" ELSE child
  /\ roll' = "kill_cnoda"
  /\ UNCHANGED <<cnoda, reset, main, files>>

KillsCnoda ==
  /\ roll = "kill_cnoda"
  /\ cnoda' = "down"
  /\ roll' = "wipe"
  /\ UNCHANGED <<reset, main, child, files>>

\* The script: the drives are formatted and the defaults deployed.
Wipe ==
  /\ roll = "wipe"
  /\ sys' = [f \in Immortal |-> "none"]
  /\ roll' = "restore" /\ todo' = Immortal
  /\ UNCHANGED <<Others, tmp>>

Restore(f) ==
  /\ roll = "restore" /\ f \in todo
  /\ sys' = IF tmp[f] = "none" THEN sys ELSE [sys EXCEPT ![f] = tmp[f]]
  /\ todo' = todo \ {f}
  /\ UNCHANGED <<Others, roll, tmp>>

\* "go to service center"
RestoreFails(f) ==
  /\ roll = "restore" /\ f \in todo /\ tmp[f] # "none"
  /\ \E c \in {"none", "torn"} : sys' = [sys EXCEPT ![f] = c]
  /\ roll' = "ended" /\ todo' = {}
  /\ UNCHANGED <<Others, tmp>>

-----------------------------------------------------------------------------
\* The device starts: memory is empty.
Boot ==
  /\ cnoda' = "down" /\ counter' = Detect /\ trig' = FALSE /\ stump' = FALSE
  /\ main' = "up" /\ child' = "dead" /\ roll' = "poll" /\ todo' = {}
  /\ tmp' = [f \in Immortal |-> "none"]
  /\ UNCHANGED <<key, sys>>

Reboots == roll = "restore" /\ todo = {} /\ Boot

PowerFails == Boot

Main == MainRestarts \/ MainExits
Child == ChildRunsNode \/ ChildLooks \/ ChildKills
Factory ==
  \/ RollBegins \/ ScriptFails \/ KillsNode \/ KillsCnoda \/ Wipe \/ Reboots
  \/ \E f \in Immortal : Save(f) \/ SaveFails(f) \/ Restore(f) \/ RestoreFails(f)
Key == KeyFree \/ KeyHeld \/ ResetDeviceToFactory

Next ==
  \/ Main \/ Child \/ Factory \/ Key
  \/ KeyMoves \/ NodeEnds \/ CnodaStarts \/ CnodaDies \/ PowerFails
  \/ \E f \in Immortal : CnodaOpens(f) \/ CnodaCloses(f)

Spec == Init /\ [][Next]_vars

-----------------------------------------------------------------------------
\* While the drives are formatted and the settings brought back no program of the device
\* runs and none is started, whatever the order in which necron's three processes look at
\* the stump.
AppsDown == roll \in {"wipe", "restore"} => cnoda = "down" /\ child \notin {"slogger", "node"}

Kept(f) == sys[f] \in {"whole", "open"} \/ tmp[f] = "whole"

\* No step but a loss of power loses an immortal setting, the roll-back's own reboot
\* included.  The exception is a setting that was copied while Cnoda was writing it:
\* Cnoda is killed only after the copies are made.
ImmortalKept ==
  [][\/ PowerFails /\ ~Reboots
     \/ \A f \in Immortal : Kept(f) /\ tmp[f] # "torn" => Kept(f)']_vars

\* A stump is acted upon, also when necron itself ends over it.
RollsBack == stump ~> roll = "ended" \/ ~stump
===============================================================================
