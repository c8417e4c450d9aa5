------------------------------ MODULE Supervision ------------------------------
(***************************************************************************)
(* The device as the watchdogs and necron see it: Watchdog and Necron, who *)
(* share the process Cnoda and the power.  killAllBase kills Cnoda without *)
(* a word to watchdog_stub, and a reset of the hardware ends a return to   *)
(* the factory settings wherever it is.                                    *)
(***************************************************************************)
EXTENDS Integers, Sequences, NecronConfig

CONSTANTS
  Threads, MaxTick, Interval, Lag, MaxCtr, HwTurns, MaxTroubles, MaxPipe

VARIABLES
  cnoda,
  waad, beat, unblocked, silence, mail, quiet, drive, pipe, ctr, hw, heard, late, troubles,
  key, counter, trig, stump, main, child, roll, todo, sys, tmp

W == INSTANCE Watchdog
N == INSTANCE Necron

ASSUME SupervisionAssumption == W!WatchdogAssumption

watchdogs == <<waad, beat, unblocked, silence, mail, quiet, drive, pipe, ctr, hw, heard,
               late, troubles>>
necron == <<key, counter, trig, stump, main, child, roll, todo, sys, tmp>>
vars == <<cnoda, watchdogs, necron>>

Init == W!Init /\ N!Init

-----------------------------------------------------------------------------
\* Steps of one side that leave the process as it is.
Admin == (W!AdminTurn /\ UNCHANGED necron) \/ (W!AdminExits /\ N!CnodaDies)
Stub == W!Stub /\ UNCHANGED necron
Send(t) == W!Send(t) /\ UNCHANGED necron

Main == N!Main /\ UNCHANGED watchdogs
Key == N!Key /\ UNCHANGED watchdogs

\* killall -9 Cnoda, should it run.
Kill(killer) ==
  /\ killer
  /\ IF cnoda = "up" THEN W!CnodaDies ELSE UNCHANGED <<cnoda, watchdogs>>

Child ==
  \/ (N!ChildRunsNode \/ N!ChildLooks) /\ UNCHANGED watchdogs
  \/ Kill(N!ChildKills)

Copies == \E f \in Immortal : N!Save(f) \/ N!SaveFails(f) \/ N!Restore(f) \/ N!RestoreFails(f)

Factory ==
  \/ (N!RollBegins \/ N!ScriptFails \/ N!KillsNode \/ N!Wipe \/ Copies) /\ UNCHANGED watchdogs
  \/ Kill(N!KillsCnoda)
  \/ N!Reboots /\ W!Boot

CnodaStarts == N!CnodaStarts /\ W!CnodaStarts
CnodaDies == N!CnodaDies /\ W!CnodaDies

HardwareResets == W!HardwareResets /\ N!Boot
PowerFails == N!PowerFails /\ W!Boot

Next ==
  \/ Admin \/ Stub \/ Main \/ Key \/ Child \/ Factory
  \/ \E t \in Threads : Send(t) \/ (W!GoesQuiet(t) /\ UNCHANGED necron)
  \/ W!AdminEnds /\ UNCHANGED necron
  \/ W!AdminStarts /\ UNCHANGED necron
  \/ (W!AdminHangs \/ W!DriveBreaks \/ W!DriveMends) /\ UNCHANGED necron
  \/ (N!KeyMoves \/ N!NodeEnds) /\ UNCHANGED watchdogs
  \/ \E f \in Immortal : (N!CnodaOpens(f) \/ N!CnodaCloses(f)) /\ UNCHANGED watchdogs
  \/ CnodaStarts \/ CnodaDies \/ HardwareResets \/ PowerFails

Spec == Init /\ [][Next]_vars

\* Less than the scheduler gives: one of necron's three processes may starve the others,
\* and nothing is asked of Cnoda.
FairSpec ==
  /\ Spec
  /\ WF_vars(Stub \/ HardwareResets) /\ WF_vars(Main \/ Child \/ Factory)

-----------------------------------------------------------------------------
TypeOK == W!TypeOK /\ N!TypeOK

\* No program runs or is started while the drives are formatted (see Necron), whatever the
\* watchdogs do meanwhile.
AppsDown == N!AppsDown

\* No step but a start of the device out of turn loses an immortal setting (see Necron); the
\* reset by the hardware is such a start.
ImmortalKept == N!ImmortalKept

\* A stump is acted upon although a watchdog may end Cnoda or reset the device.
RollsBack == N!RollsBack

\* When necron has ended over a stump nothing starts Cnoda again: then the watchdogs
\* start the device, unless Cnoda lives on or the stub was told to forget it.
Recovers == main = "gone" /\ cnoda = "down" /\ ctr # -1 ~> main = "up" \/ ctr = -1
===============================================================================
