--------------------------- MODULE SupervisionProofs ---------------------------
(***************************************************************************)
(* What is proved of necron, here, and of the watchdogs, in WatchdogProofs,*)
(* holds of the device that has both: every step of Supervision is a step, *)
(* or no step, of either of them.                                          *)
(***************************************************************************)
EXTENDS Supervision, TLAPS

WP == INSTANCE WatchdogProofs

-----------------------------------------------------------------------------
(***************************************************************************)
(* Necron by itself, for any immortal settings and any interval of the     *)
(* key: no program runs while the drives are formatted and the settings    *)
(* brought back, and the roll-back loses no immortal setting.              *)
(***************************************************************************)
SysStates == {"none", "whole", "open", "torn"}
TmpStates == {"none", "whole", "torn"}

\* The Boolean variables, and the control states, in steps of their own.
Flags == {key, trig, stump}
Places == cnoda \in {"up", "down"} /\ main \in {"up", "gone"} /\ child \in N!Children /\ roll \in N!Rolls

\* Cnoda runs under node, or survives a node that ended over the stump.
CnodaUnderNode == cnoda = "up" => child \in {"node", "after", "killing"} \/ stump

\* Node is never about to be started while there is a stump.
NoStart == stump => child # "slogger"

\* Once the roll-back has begun the stump stays.
StumpStays == roll # "poll" => stump

\* The programs, from the time each is killed.
NodeKilled == roll \in {"kill_cnoda", "wipe", "restore"} => child \notin {"slogger", "node"}
CnodaKilled == roll \in {"wipe", "restore"} => cnoda = "down"

Order == CnodaUnderNode /\ NoStart /\ StumpStays /\ NodeKilled /\ CnodaKilled

\* What a setting that is there needs before the drive is formatted.
Safe(f) == sys[f] \in {"whole", "open"} => tmp[f] # "none"

\* The copies, in each phase.
Unsaved ==
  /\ roll = "poll" => \A f \in Immortal : tmp[f] = "none"
  /\ roll = "save" => \A f \in todo : tmp[f] = "none"
Saving == roll = "save" => \A f \in Immortal \ todo : Safe(f)
Saved == roll \in {"kill_cnoda", "wipe"} => \A f \in Immortal : Safe(f)
Wiped == roll = "restore" => \A f \in todo : sys[f] = "none"
Restored ==
  roll = "restore" => \A f \in Immortal \ todo : tmp[f] # "none" => sys[f] = tmp[f]

Copied == Unsaved /\ Saving /\ Saved /\ Wiped /\ Restored
IInv == N!TypeOK /\ Order /\ Copied

\* The counter stays in its width.
LEMMA DownType ==
  ASSUME N!TypeOK
  PROVE  N!Down \in 0..Width - 1
BY NecronAssumption DEF N!TypeOK, N!Down

\* The invariant holds when the device starts.
LEMMA InitIInv == N!Init => IInv
<1> SUFFICES ASSUME N!Init PROVE IInv
  OBVIOUS
<1>1. Flags \subseteq BOOLEAN
  BY DEF N!Init, Flags
<1>2. Places
  BY DEF N!Init, Places, N!Children, N!Rolls
<1>3. counter \in 0..Width - 1
  BY NecronAssumption DEF N!Init
<1>4. sys \in [Immortal -> SysStates] /\ tmp \in [Immortal -> TmpStates] /\ todo \subseteq Immortal
  BY DEF N!Init, SysStates, TmpStates
<1>5. N!TypeOK
  BY <1>1, <1>2, <1>3, <1>4 DEF N!TypeOK, Flags, Places, SysStates, TmpStates
<1>6. Order
  BY DEF N!Init, Order, CnodaUnderNode, NoStart, StumpStays, NodeKilled, CnodaKilled
<1>7. Copied
  BY DEF N!Init, Copied, Unsaved, Saving, Saved, Wiped, Restored
<1> QED
  BY <1>5, <1>6, <1>7 DEF IInv

\* Every action keeps the types.
LEMMA TypeStep == N!TypeOK /\ [N!Next]_(N!vars) => N!TypeOK'
<1> SUFFICES ASSUME N!TypeOK, [N!Next]_(N!vars) PROVE N!TypeOK'
  OBVIOUS
<1> USE NecronAssumption DEF N!TypeOK
<1>1. CASE N!Main
  BY <1>1 DEF N!Main, N!MainRestarts, N!MainExits, N!reset, N!files, N!Children
<1>2. CASE N!Child
  BY <1>2 DEF N!Child, N!ChildRunsNode, N!ChildLooks, N!ChildKills, N!reset, N!files, N!Children
<1>3. CASE N!RollBegins \/ N!ScriptFails \/ N!KillsNode \/ N!KillsCnoda
  BY <1>3 DEF N!RollBegins, N!ScriptFails, N!KillsNode, N!KillsCnoda, N!Others, N!reset, N!files, N!Children, N!Rolls
<1>4. CASE N!Wipe
  BY <1>4 DEF N!Wipe, N!Others, N!reset, N!Rolls
<1>5. CASE N!PowerFails \/ N!Reboots
  <2>1. Flags' \subseteq BOOLEAN
    BY <1>5 DEF N!PowerFails, N!Reboots, N!Boot, Flags
  <2>2. Places'
    BY <1>5 DEF N!PowerFails, N!Reboots, N!Boot, Places, N!Children, N!Rolls
  <2>3. tmp' \in [Immortal -> TmpStates] /\ counter' \in 0..Width - 1
    BY <1>5 DEF N!PowerFails, N!Reboots, N!Boot, TmpStates
  <2> QED
    BY <1>5, <2>1, <2>2, <2>3 DEF N!PowerFails, N!Reboots, N!Boot, Flags, Places, TmpStates
<1>6. ASSUME NEW f \in Immortal, N!Save(f) PROVE N!TypeOK'
  <2>1. tmp' \in [Immortal -> TmpStates]
    BY <1>6 DEF N!Save, N!Read, TmpStates
  <2> QED
    BY <1>6, <2>1 DEF N!Save, N!Others, N!reset, TmpStates
<1>7. ASSUME NEW f \in Immortal, N!SaveFails(f) PROVE N!TypeOK'
  BY <1>7 DEF N!SaveFails, N!Others, N!reset, N!Rolls
<1>8. ASSUME NEW f \in Immortal, N!Restore(f) PROVE N!TypeOK'
  <2>1. sys' \in [Immortal -> SysStates]
    BY <1>8 DEF N!Restore, SysStates
  <2> QED
    BY <1>8, <2>1 DEF N!Restore, N!Others, N!reset, SysStates
<1>9. ASSUME NEW f \in Immortal, N!RestoreFails(f) PROVE N!TypeOK'
  <2>1. sys' \in [Immortal -> SysStates]
    BY <1>9 DEF N!RestoreFails, SysStates
  <2> QED
    BY <1>9, <2>1 DEF N!RestoreFails, N!Others, N!reset, SysStates, N!Rolls
<1>10. CASE N!Key
  <2>1. Flags' \subseteq BOOLEAN
    BY <1>10 DEF N!Key, N!KeyFree, N!KeyHeld, N!ResetDeviceToFactory, Flags
  <2>2. counter' \in 0..Width - 1
    <3>1. Detect \in 0..Width - 1 /\ 0 \in 0..Width - 1
      OBVIOUS
    <3>2. counter' \in {Detect, N!Down, 0}
      BY <1>10 DEF N!Key, N!KeyFree, N!KeyHeld, N!ResetDeviceToFactory
    <3> QED
      BY <3>1, <3>2, DownType
  <2> QED
    BY <1>10, <2>1, <2>2 DEF N!Key, N!KeyFree, N!KeyHeld, N!ResetDeviceToFactory, N!files, Flags
<1>11. CASE N!KeyMoves \/ N!NodeEnds \/ N!CnodaDies
  BY <1>11 DEF N!KeyMoves, N!NodeEnds, N!CnodaDies, N!reset, N!files, N!Children
<1>12. CASE N!CnodaStarts
  <2>1. sys' \in [Immortal -> SysStates]
    BY <1>12 DEF N!CnodaStarts, SysStates
  <2>2. Flags' \subseteq BOOLEAN
    BY <1>12 DEF N!CnodaStarts, Flags
  <2>3. Places' /\ counter' \in 0..Width - 1
    BY <1>12 DEF N!CnodaStarts, Places
  <2> QED
    BY <1>12, <2>1, <2>2, <2>3 DEF N!CnodaStarts, SysStates, Flags, Places
<1>13. ASSUME NEW f \in Immortal, N!CnodaOpens(f) \/ N!CnodaCloses(f) PROVE N!TypeOK'
  <2>1. sys' \in [Immortal -> SysStates]
    BY <1>13 DEF N!CnodaOpens, N!CnodaCloses, SysStates
  <2> QED
    BY <1>13, <2>1 DEF N!CnodaOpens, N!CnodaCloses, N!reset, SysStates
<1>14. CASE UNCHANGED N!vars
  BY <1>14 DEF N!vars, N!reset, N!files
<1> QED
  BY <1>1, <1>2, <1>3, <1>4, <1>5, <1>6, <1>7, <1>8, <1>9, <1>10, <1>11, <1>12, <1>13, <1>14
     DEF N!Next, N!Factory

\* The order in which the processes look at the stump, kill and start.
LEMMA OrderStep == N!TypeOK /\ Order /\ [N!Next]_(N!vars) => Order'
<1> SUFFICES ASSUME N!TypeOK, Order, [N!Next]_(N!vars) PROVE Order'
  OBVIOUS
<1> USE DEF Order, CnodaUnderNode, NoStart, StumpStays, NodeKilled, CnodaKilled
<1>1. CASE N!Main
  BY <1>1 DEF N!Main, N!MainRestarts, N!MainExits, N!reset
<1>2. CASE N!Child
  BY <1>2 DEF N!Child, N!ChildRunsNode, N!ChildLooks, N!ChildKills, N!reset
<1>3. CASE N!RollBegins \/ N!ScriptFails \/ N!KillsNode \/ N!KillsCnoda \/ N!Wipe
  BY <1>3 DEF N!RollBegins, N!ScriptFails, N!KillsNode, N!KillsCnoda, N!Wipe, N!Others, N!reset
<1>4. CASE N!PowerFails \/ N!Reboots
  BY <1>4 DEF N!PowerFails, N!Reboots, N!Boot
<1>5. ASSUME NEW f \in Immortal, N!Save(f) \/ N!SaveFails(f) \/ N!Restore(f) \/ N!RestoreFails(f)
      PROVE  Order'
  BY <1>5 DEF N!Save, N!SaveFails, N!Restore, N!RestoreFails, N!Others, N!reset
<1>6. CASE N!Key
  BY <1>6 DEF N!Key, N!KeyFree, N!KeyHeld, N!ResetDeviceToFactory, N!TypeOK
<1>7. CASE N!KeyMoves \/ N!NodeEnds \/ N!CnodaDies
  BY <1>7 DEF N!KeyMoves, N!NodeEnds, N!CnodaDies, N!reset
<1>8. CASE N!CnodaStarts
  BY <1>8 DEF N!CnodaStarts
<1>9. ASSUME NEW f \in Immortal, N!CnodaOpens(f) \/ N!CnodaCloses(f) PROVE Order'
  BY <1>9 DEF N!CnodaOpens, N!CnodaCloses, N!reset
<1>10. CASE UNCHANGED N!vars
  BY <1>10 DEF N!vars, N!reset
<1> QED
  BY <1>1, <1>2, <1>3, <1>4, <1>5, <1>6, <1>7, <1>8, <1>9, <1>10 DEF N!Next, N!Factory

\* What Cnoda does to its files while it runs.
LEMMA CopiesCnoda ==
  ASSUME IInv, N!CnodaStarts \/ (\E f \in Immortal : N!CnodaOpens(f) \/ N!CnodaCloses(f))
  PROVE  Copied'
<1>1. roll' = roll /\ todo' = todo /\ tmp' = tmp /\ roll # "restore"
  BY DEF IInv, Order, NodeKilled, CnodaKilled, N!CnodaStarts, N!CnodaOpens, N!CnodaCloses
<1>2. \A f \in Immortal : sys'[f] \in {"whole", "open"} => sys[f] \in {"whole", "open"}
  BY DEF IInv, N!TypeOK, N!CnodaStarts, N!CnodaOpens, N!CnodaCloses
<1> QED
  BY <1>1, <1>2 DEF IInv, Copied, Unsaved, Saving, Saved, Wiped, Restored, Safe

\* A copy, there and back.
LEMMA CopiesFile ==
  ASSUME IInv, NEW f \in Immortal, N!Save(f) \/ N!SaveFails(f) \/ N!Restore(f) \/ N!RestoreFails(f)
  PROVE  Copied'
<1> USE DEF IInv, N!TypeOK, Copied, Unsaved, Saving, Saved, Wiped, Restored, Safe
<1>1. CASE N!Save(f)
  <2>1. sys[f] \in {"whole", "open"} => tmp'[f] # "none"
    BY <1>1 DEF N!Save, N!Read
  <2>2. \A g \in Immortal \ {f} : tmp'[g] = tmp[g]
    BY <1>1 DEF N!Save
  <2> QED
    BY <1>1, <2>1, <2>2 DEF N!Save
<1>2. CASE N!SaveFails(f)
  BY <1>2 DEF N!SaveFails
<1>3. CASE N!Restore(f)
  <2>1. tmp[f] # "none" => sys'[f] = tmp[f]
    BY <1>3 DEF N!Restore
  <2>2. \A g \in Immortal \ {f} : sys'[g] = sys[g]
    BY <1>3 DEF N!Restore
  <2> QED
    BY <1>3, <2>1, <2>2 DEF N!Restore
<1>4. CASE N!RestoreFails(f)
  BY <1>4 DEF N!RestoreFails
<1> QED
  BY <1>1, <1>2, <1>3, <1>4

\* Every action keeps what is known of the copies.
LEMMA CopiesStep == IInv /\ [N!Next]_(N!vars) => Copied'
<1> SUFFICES ASSUME IInv, [N!Next]_(N!vars) PROVE Copied'
  OBVIOUS
<1> USE DEF IInv, N!TypeOK, Copied, Unsaved, Saving, Saved, Wiped, Restored, Safe
<1>1. CASE N!Main
  BY <1>1 DEF N!Main, N!MainRestarts, N!MainExits, N!files
<1>2. CASE N!Child
  BY <1>2 DEF N!Child, N!ChildRunsNode, N!ChildLooks, N!ChildKills, N!files
<1>3. CASE N!RollBegins \/ N!ScriptFails \/ N!KillsNode \/ N!KillsCnoda
  BY <1>3 DEF N!RollBegins, N!ScriptFails, N!KillsNode, N!KillsCnoda, N!files
<1>4. CASE N!Wipe
  BY <1>4 DEF N!Wipe
<1>5. CASE N!PowerFails \/ N!Reboots
  BY <1>5 DEF N!PowerFails, N!Reboots, N!Boot
<1>6. ASSUME NEW f \in Immortal, N!Save(f) \/ N!SaveFails(f) \/ N!Restore(f) \/ N!RestoreFails(f)
      PROVE  Copied'
  BY <1>6, CopiesFile
<1>7. CASE N!Key
  BY <1>7 DEF N!Key, N!KeyFree, N!KeyHeld, N!ResetDeviceToFactory, N!files
<1>8. CASE N!KeyMoves \/ N!NodeEnds \/ N!CnodaDies
  BY <1>8 DEF N!KeyMoves, N!NodeEnds, N!CnodaDies, N!files
<1>9. CASE N!CnodaStarts \/ (\E f \in Immortal : N!CnodaOpens(f) \/ N!CnodaCloses(f))
  BY <1>9, CopiesCnoda
<1>10. CASE UNCHANGED N!vars
  BY <1>10 DEF N!vars, N!files
<1> QED
  BY <1>1, <1>2, <1>3, <1>4, <1>5, <1>6, <1>7, <1>8, <1>9, <1>10 DEF N!Next, N!Factory

\* The inductive invariant.
LEMMA Inductive == N!Spec => []IInv
<1>1. IInv /\ [N!Next]_(N!vars) => IInv'
  BY TypeStep, OrderStep, CopiesStep DEF IInv
<1> QED
  BY InitIInv, <1>1, PTL DEF N!Spec

\* The press counter never leaves its width and every process is at a known place.
THEOREM NecronTypeCorrect == N!Spec => []N!TypeOK
BY Inductive, PTL DEF IInv

\* No program runs, and none is started, from the time the drives are formatted until the
\* device starts again or the roll-back gives up.
THEOREM ProgramsStayDown == N!Spec => []N!AppsDown
<1>1. IInv => N!AppsDown
  BY DEF IInv, Order, NodeKilled, CnodaKilled, N!AppsDown
<1> QED
  BY Inductive, <1>1, PTL

\* The disjunct of ImmortalKept for one setting.
KeptNext(f) == N!Kept(f) /\ tmp[f] # "torn" => N!Kept(f)'

\* No step of the program but the reboot that follows the copies back can lose a setting.
LEMMA KeptStep ==
  ASSUME IInv, [N!Next]_(N!vars), ~N!PowerFails, NEW f \in Immortal
  PROVE  KeptNext(f)
<1> USE DEF IInv, N!TypeOK, N!Kept, KeptNext
<1>1. CASE N!Main \/ N!Child \/ N!Key \/ N!KeyMoves \/ N!NodeEnds \/ N!CnodaDies
  BY <1>1 DEF N!Main, N!MainRestarts, N!MainExits, N!Child, N!ChildRunsNode, N!ChildLooks, N!ChildKills, N!Key,
     N!KeyFree, N!KeyHeld, N!ResetDeviceToFactory, N!KeyMoves, N!NodeEnds, N!CnodaDies, N!files
<1>2. CASE N!RollBegins \/ N!ScriptFails \/ N!KillsNode \/ N!KillsCnoda
  BY <1>2 DEF N!RollBegins, N!ScriptFails, N!KillsNode, N!KillsCnoda, N!files
<1>3. CASE N!Wipe
  BY <1>3 DEF N!Wipe, Copied, Saved, Safe
<1>4. ASSUME NEW g \in Immortal, N!Save(g) PROVE KeptNext(f)
  <2>1. CASE g = f
    <3>1. sys' = sys
      BY <1>4 DEF N!Save
    <3>2. sys[f] \in {"whole", "open"} \/ tmp'[f] = tmp[f] \/ tmp'[f] = "torn"
      BY <1>4, <2>1 DEF N!Save, N!Read
    <3>3. tmp[f] = "none"
      BY <1>4, <2>1 DEF N!Save, Copied, Unsaved
    <3> QED
      BY <3>1, <3>2, <3>3
  <2>2. CASE g # f
    BY <1>4, <2>2 DEF N!Save
  <2> QED
    BY <2>1, <2>2
<1>5. ASSUME NEW g \in Immortal, N!SaveFails(g) PROVE KeptNext(f)
  BY <1>5 DEF N!SaveFails
<1>6. ASSUME NEW g \in Immortal, N!Restore(g) PROVE KeptNext(f)
  <2>1. sys[g] = "none"
    BY <1>6 DEF N!Restore, Copied, Wiped
  <2> QED
    BY <1>6, <2>1 DEF N!Restore
<1>7. ASSUME NEW g \in Immortal, N!RestoreFails(g) PROVE KeptNext(f)
  <2>1. sys[g] = "none"
    BY <1>7 DEF N!RestoreFails, Copied, Wiped
  <2> QED
    BY <1>7, <2>1 DEF N!RestoreFails
<1>8. CASE N!CnodaStarts
  BY <1>8 DEF N!CnodaStarts
<1>9. ASSUME NEW g \in Immortal, N!CnodaOpens(g) \/ N!CnodaCloses(g) PROVE KeptNext(f)
  BY <1>9 DEF N!CnodaOpens, N!CnodaCloses
<1>10. CASE UNCHANGED N!vars
  BY <1>10 DEF N!vars, N!files
<1>11. ~N!Reboots
  BY DEF N!Reboots, N!PowerFails
<1> QED
  BY <1>1, <1>2, <1>3, <1>4, <1>5, <1>6, <1>7, <1>8, <1>9, <1>10, <1>11 DEF N!Next, N!Factory

\* A setting that is whole on the drive or in memory stays so, through the formatting, the
\* failures of either copy and the reboot, unless power fails or the copy was read half.
THEOREM RollBackKeeps == N!Spec => N!ImmortalKept
<1>1. IInv /\ [N!Next]_(N!vars) =>
        [\/ N!PowerFails /\ ~N!Reboots
         \/ \A f \in Immortal : N!Kept(f) /\ tmp[f] # "torn" => N!Kept(f)']_(N!vars)
  <2> SUFFICES ASSUME IInv, [N!Next]_(N!vars), ~(N!PowerFails /\ ~N!Reboots), NEW f \in Immortal
               PROVE  KeptNext(f)
    BY DEF KeptNext
  <2>1. CASE N!Reboots
    BY <2>1 DEF N!Reboots, N!Boot, IInv, N!TypeOK, Copied, Restored, N!Kept, KeptNext
  <2> QED
    BY <2>1, KeptStep
<1> QED
  BY Inductive, <1>1, PTL DEF N!Spec, N!ImmortalKept

-----------------------------------------------------------------------------
(***************************************************************************)
(* The device.                                                             *)
(***************************************************************************)
\* The instance of the proof module has the definitions of W.
LEMMA SameWatchdog ==
  /\ W!Init <=> WP!Init
  /\ UNCHANGED W!vars <=> UNCHANGED WP!vars
  /\ W!Next <=> WP!Next
<1>1. W!Init <=> WP!Init
  BY DEF W!Init, WP!Init, W!Unknown, WP!Unknown
<1>2. UNCHANGED W!vars <=> UNCHANGED WP!vars
  BY DEF W!vars, WP!vars, W!admin, WP!admin, W!stub, WP!stub
<1>3. W!Next <=> WP!Next
  BY DEF W!Next, WP!Next, W!Unknown, WP!Unknown, W!admin, WP!admin, W!stub, WP!stub, W!Fresh, WP!Fresh,
         W!Gone, WP!Gone, W!Looping, WP!Looping, W!Hung, WP!Hung, W!Beat, WP!Beat,
         W!ChecksDrives, WP!ChecksDrives, W!Ticks, WP!Ticks, W!Punctual, WP!Punctual, W!Ready, WP!Ready, W!Turn,
         WP!Turn, W!AdminTurn, WP!AdminTurn, W!AdminExits, WP!AdminExits, W!AdminEnds,
         WP!AdminEnds, W!AdminStarts, WP!AdminStarts, W!StubInTime, WP!StubInTime,
         W!StubRemoves, WP!StubRemoves, W!Count, WP!Count, W!StubTurn, WP!StubTurn, W!Send,
         WP!Send, W!Trouble, WP!Trouble, W!GoesQuiet, WP!GoesQuiet, W!AdminHangs,
         WP!AdminHangs, W!DriveBreaks, WP!DriveBreaks, W!DriveMends, WP!DriveMends,
         W!CnodaStarts, WP!CnodaStarts, W!CnodaDies, WP!CnodaDies, W!Boot, WP!Boot,
         W!HardwareResets, WP!HardwareResets, W!Stub, WP!Stub, W!Admin, WP!Admin
<1> QED
  BY <1>1, <1>2, <1>3

\* Every step of the device is a step of the watchdogs, or leaves them alone.
LEMMA WatchdogStep == [Next]_vars => W!Next \/ UNCHANGED W!vars
<1> SUFFICES ASSUME [Next]_vars PROVE W!Next \/ UNCHANGED W!vars
  OBVIOUS
<1>1. UNCHANGED <<cnoda, watchdogs>> => UNCHANGED W!vars
  BY DEF watchdogs, W!vars, W!admin, W!stub
<1>2. CASE Admin \/ Stub
  BY <1>2 DEF Admin, Stub, W!Next, W!Admin
<1>3. CASE Main \/ Key
  <2>1. UNCHANGED cnoda
    BY <1>3 DEF Main, Key, N!Main, N!MainRestarts, N!MainExits, N!Key, N!KeyFree, N!KeyHeld,
       N!ResetDeviceToFactory
  <2> QED
    BY <1>1, <1>3, <2>1 DEF Main, Key
<1>4. CASE Kill(N!ChildKills) \/ Kill(N!KillsCnoda)
  BY <1>1, <1>4 DEF Kill, W!Next
<1>5. CASE Child
  <2>1. N!ChildRunsNode \/ N!ChildLooks => UNCHANGED cnoda
    BY DEF N!ChildRunsNode, N!ChildLooks
  <2> QED
    BY <1>1, <1>4, <1>5, <2>1 DEF Child
<1>6. CASE Factory
  <2>1. N!RollBegins \/ N!ScriptFails \/ N!KillsNode \/ N!Wipe \/ Copies => UNCHANGED cnoda
    BY DEF N!RollBegins, N!ScriptFails, N!KillsNode, N!Wipe, Copies, N!Save, N!SaveFails, N!Restore,
       N!RestoreFails, N!Others
  <2> QED
    BY <1>1, <1>4, <1>6, <2>1 DEF Factory, W!Next
<1>7. ASSUME NEW t \in Threads, Send(t) \/ W!GoesQuiet(t) PROVE W!Next
  BY <1>7 DEF Send, W!Next
<1>8. CASE W!AdminEnds \/ W!AdminStarts \/ W!AdminHangs \/ W!DriveBreaks \/ W!DriveMends
  BY <1>8 DEF W!Next
<1>9. CASE (N!KeyMoves \/ N!NodeEnds) /\ UNCHANGED watchdogs
  BY <1>1, <1>9 DEF N!KeyMoves, N!NodeEnds
<1>10. ASSUME NEW f \in Immortal, (N!CnodaOpens(f) \/ N!CnodaCloses(f)) /\ UNCHANGED watchdogs
       PROVE  UNCHANGED W!vars
  BY <1>1, <1>10 DEF N!CnodaOpens, N!CnodaCloses
<1>11. CASE CnodaStarts \/ CnodaDies \/ HardwareResets \/ PowerFails
  BY <1>11 DEF CnodaStarts, CnodaDies, HardwareResets, PowerFails, W!HardwareResets, W!Next
<1>12. CASE UNCHANGED vars
  BY <1>1, <1>12 DEF vars
<1> QED
  BY <1>2, <1>3, <1>5, <1>6, <1>7, <1>8, <1>9, <1>10, <1>11, <1>12 DEF Next

\* Every step of the device is a step of necron, or leaves it alone.
LEMMA NecronStep == [Next]_vars => N!Next \/ UNCHANGED N!vars
<1> SUFFICES ASSUME [Next]_vars PROVE N!Next \/ UNCHANGED N!vars
  OBVIOUS
<1>1. UNCHANGED <<cnoda, necron>> => UNCHANGED N!vars
  BY DEF necron, N!vars, N!reset, N!files
<1>2. CASE Admin
  BY <1>1, <1>2 DEF Admin, W!AdminTurn, N!Next
<1>3. CASE Stub
  BY <1>1, <1>3 DEF Stub, W!Stub, W!StubRemoves, W!StubTurn
<1>4. CASE Main \/ Key
  BY <1>4 DEF Main, Key, N!Next
<1>5. CASE Child
  BY <1>5 DEF Child, Kill, N!Next, N!Child
<1>6. CASE Factory
  <2>1. CASE N!RollBegins \/ N!ScriptFails \/ N!KillsNode \/ N!Wipe \/ N!KillsCnoda \/ N!Reboots
    BY <2>1 DEF N!Next, N!Factory
  <2>2. CASE Copies
    BY <2>2 DEF Copies, N!Next, N!Factory
  <2> QED
    BY <1>6, <2>1, <2>2 DEF Factory, Kill
<1>7. ASSUME NEW t \in Threads, Send(t) \/ (W!GoesQuiet(t) /\ UNCHANGED necron)
      PROVE  UNCHANGED N!vars
  BY <1>1, <1>7 DEF Send, W!Send, W!GoesQuiet
<1>8. CASE (W!AdminEnds \/ W!AdminStarts \/ W!AdminHangs \/ W!DriveBreaks \/ W!DriveMends)
           /\ UNCHANGED necron
  BY <1>1, <1>8 DEF W!AdminEnds, W!AdminStarts, W!AdminHangs, W!DriveBreaks, W!DriveMends
<1>9. CASE N!KeyMoves \/ N!NodeEnds
  BY <1>9 DEF N!Next
<1>10. ASSUME NEW f \in Immortal, N!CnodaOpens(f) \/ N!CnodaCloses(f) PROVE N!Next
  BY <1>10 DEF N!Next
<1>11. CASE CnodaStarts \/ CnodaDies \/ PowerFails
  BY <1>11 DEF CnodaStarts, CnodaDies, PowerFails, N!Next
<1>12. CASE HardwareResets
  BY <1>12 DEF HardwareResets, N!PowerFails, N!Next
<1>13. CASE UNCHANGED vars
  BY <1>1, <1>13 DEF vars
<1> QED
  BY <1>2, <1>3, <1>4, <1>5, <1>6, <1>7, <1>8, <1>9, <1>10, <1>11, <1>12, <1>13 DEF Next

\* The device implements the three watchdogs.
LEMMA WatchdogSpec == Spec => WP!Spec
<1>1. Init => WP!Init
  BY SameWatchdog DEF Init
<1>2. [Next]_vars => [WP!Next]_(WP!vars)
  BY SameWatchdog, WatchdogStep
<1> QED
  BY <1>1, <1>2, PTL DEF Spec, WP!Spec

\* The device implements the return to the factory settings.
LEMMA NecronSpec == Spec => N!Spec
<1>1. Init => N!Init
  BY DEF Init
<1>2. [Next]_vars => [N!Next]_(N!vars)
  BY NecronStep
<1> QED
  BY <1>1, <1>2, PTL DEF Spec, N!Spec

\* Whatever necron does to Cnoda, every variable keeps its range: no thread served in time
\* is counted past its limit.
THEOREM DeviceTypeCorrect == Spec => []TypeOK
<1>1. Spec => []WP!TypeOK
  BY WatchdogSpec, WP!WatchdogTypeCorrect, SupervisionAssumption, PTL
<1>2. Spec => []N!TypeOK
  BY NecronSpec, NecronTypeCorrect, PTL
<1>3. WP!TypeOK /\ N!TypeOK => TypeOK
  BY DEF TypeOK, W!TypeOK, WP!TypeOK, W!Unknown, WP!Unknown
<1> QED
  BY <1>1, <1>2, <1>3, PTL

\* No reset by a watchdog lets a program run while the drives are formatted.
THEOREM DeviceAppsDown == Spec => []AppsDown
BY NecronSpec, ProgramsStayDown, PTL DEF AppsDown

\* No step of the watchdogs but the reset itself loses an immortal setting.
THEOREM DeviceImmortalKept == Spec => ImmortalKept
BY NecronSpec, RollBackKeeps, PTL DEF ImmortalKept

\* A Cnoda whose watchdog thread runs and was heard keeps the hardware alive, also after
\* necron has killed it and started it again.
THEOREM DeviceKeptAlive == Spec => []W!KeptAlive
<1>1. Spec => []WP!KeptAlive
  BY WatchdogSpec, WP!HealthyKeptAlive, SupervisionAssumption, PTL
<1>2. WP!KeptAlive => W!KeptAlive
  BY DEF W!KeptAlive, WP!KeptAlive, W!Looping, WP!Looping
<1> QED
  BY <1>1, <1>2, PTL
===============================================================================
