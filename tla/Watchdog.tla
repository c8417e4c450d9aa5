------------------------------- MODULE Watchdog -------------------------------
(***************************************************************************)
(* Three watchdogs, one behind the other: Watchdog_admin (loop/            *)
(* watchdog_admin.cxx), a thread of Cnoda that ends the process when one   *)
(* of its other threads is silent; watchdog_stub (minisw/), a process that *)
(* counts the time since Cnoda last wrote into its pipe; and the hardware, *)
(* which resets the device when the stub no longer keeps it alive.         *)
(*                                                                         *)
(* Modelled is the device with a pipe (pipe_wdt).  Without one there is no *)
(* stub to feed: Watchdog_admin keeps the hardware alive itself.           *)
(*                                                                         *)
(* The unit of time is a turn of the stub (100 ms).                        *)
(***************************************************************************)
EXTENDS Integers, Sequences

CONSTANTS
  Threads,       \* threads of Cnoda that send srvmWDT
  MaxTick,       \* TimeoutThreadWDT_InTick, in turns of Watchdog_admin
  Interval,      \* waad_interval, in turns of Watchdog_admin
  Lag,           \* turns of the stub between two turns of Watchdog_admin, at most
  MaxCtr,        \* TimeoutWDT in turns of the stub
  HwTurns,       \* the timeout of the hardware in turns of the stub
  MaxTroubles,   \* bound: threads and drives that fail, deliberate stops
  MaxPipe        \* bound: messages in the pipe

\* TimeoutWDT is longer than Watchdog_admin takes from one message to the next.
ASSUME WatchdogAssumption ==
  /\ MaxTick \in Nat \ {0} /\ Interval \in Nat /\ Lag \in Nat \ {0}
  /\ MaxCtr \in Nat /\ HwTurns \in Nat \ {0}
  /\ MaxTroubles \in Nat /\ MaxPipe \in Nat
  /\ (Interval + 1) * Lag <= MaxCtr

Unknown == -1    \* of a thread or of Cnoda: not registered

VARIABLES
  cnoda,         \* the process: "up", "down"
  waad,          \* Watchdog_admin: "loop", "stuck", "ended"
  beat,          \* set_wdt_cntr
  unblocked,     \* unblock_wdt
  silence,       \* source_tick of each thread
  mail,          \* threads whose srvmWDT waits in the queue
  quiet,         \* threads that hang, or have been stopped
  drive,         \* every one of DrivesWDT can be opened
  pipe,          \* /run/wdt
  ctr,           \* thr_map["cnoda"] of the stub
  hw,            \* turns of the stub since the last keepalive
  heard,         \* history: the stub has read a message since Loop began
  late,          \* turns of the stub since the last turn of Watchdog_admin
  troubles

admin == <<waad, beat, unblocked, silence>>
stub == <<ctr, hw, heard>>
vars == <<cnoda, admin, mail, quiet, drive, pipe, stub, late, troubles>>

TypeOK ==
  /\ cnoda \in {"up", "down"} /\ waad \in {"loop", "stuck", "ended"}
  /\ beat \in 0..Interval /\ unblocked \in BOOLEAN
  /\ silence \in [Threads -> Unknown..MaxTick]
  /\ mail \subseteq Threads /\ quiet \subseteq Threads
  /\ drive \in BOOLEAN /\ heard \in BOOLEAN
  /\ pipe \in Seq({"cnoda", "-cnoda"}) /\ Len(pipe) <= MaxPipe + 2
  /\ ctr \in Unknown..MaxCtr + 1 /\ hw \in 0..HwTurns
  /\ late \in 0..Lag /\ troubles \in 0..MaxTroubles

\* Loop's local variables at its start.
Fresh ==
  /\ waad' = "loop" /\ beat' = 0 /\ unblocked' = TRUE
  /\ silence' = [t \in Threads |-> Unknown]
  /\ late' = 0 /\ heard' = FALSE

\* Nothing of the process is left.
Gone == cnoda' = "down" /\ Fresh /\ mail' = {} /\ quiet' = {}

\* The stub runs with an empty map, and necron registers Cnoda before anything else.
Init ==
  /\ cnoda = "down" /\ waad = "loop" /\ beat = 0 /\ unblocked = TRUE
  /\ silence = [t \in Threads |-> Unknown]
  /\ mail = {} /\ quiet = {} /\ drive = TRUE
  /\ pipe = <<"cnoda">> /\ ctr = Unknown /\ hw = 0
  /\ heard = FALSE /\ late = 0 /\ troubles = 0

Looping == cnoda = "up" /\ waad = "loop"

-----------------------------------------------------------------------------
(***************************************************************************)
(* Watchdog_admin::Loop: one turn.                                         *)
(***************************************************************************)
\* A thread that is neither hung nor stopped has its message in time.
Punctual == \A t \in Threads \ quiet : silence[t] >= MaxTick => t \in mail

\* Deviation: one tick too late.
HungLater == {t \in Threads \ mail : silence[t] > MaxTick}
Hung == {t \in Threads \ mail : silence[t] >= MaxTick}

\* The message every Interval + 1 turns, unless a drive is, or was, broken.
Beat == IF beat >= Interval /\ unblocked /\ drive THEN <<"cnoda">> ELSE << >>

\* Deviation: the fact that a drive was broken is not kept.
ChecksDrivesNow ==
  /\ unblocked' = drive
  /\ beat' = IF beat >= Interval THEN 0 ELSE beat + 1

\* fs_check orders a reboot, and blocks the keepalive for ever in case it hangs.
ChecksDrives ==
  /\ unblocked' = (unblocked /\ drive)
  /\ beat' = IF beat >= Interval THEN 0 ELSE beat + 1

\* Deviation: a message clears the ticks of the first entry it meets.
TicksOfAny ==
  [t \in Threads |-> IF t \in mail \/ (mail # {} /\ silence[t] # Unknown) THEN 1
                     ELSE IF silence[t] # Unknown THEN silence[t] + 1 ELSE Unknown]

\* A message registers its thread or clears its ticks; then every entry ticks.
Ticks ==
  [t \in Threads |-> IF t \in mail THEN 1
                     ELSE IF silence[t] # Unknown THEN silence[t] + 1 ELSE Unknown]

Ready == Looping /\ Punctual /\ Len(pipe) <= MaxPipe

Turn ==
  /\ Ready /\ Hung = {}
  /\ ChecksDrives
  /\ mail' = {} /\ late' = 0
  /\ silence' = Ticks

AdminTurn ==
  /\ Turn
  /\ pipe' = pipe \o Beat
  /\ UNCHANGED <<cnoda, waad, quiet, drive, stub, troubles>>

\* exit(1), a thread being hung.
AdminExits ==
  /\ Ready /\ Hung # {}
  /\ pipe' = pipe \o Beat
  /\ Gone
  /\ UNCHANGED <<drive, ctr, hw, troubles>>

\* The same turn with TERMReq set.
AdminEnds ==
  /\ Turn /\ troubles < MaxTroubles
  /\ pipe' = pipe \o Beat \o <<"-cnoda">>
  /\ waad' = "ended" /\ troubles' = troubles + 1
  /\ UNCHANGED <<cnoda, quiet, drive, stub>>

\* The collector starts the thread again.
AdminStarts ==
  /\ cnoda = "up" /\ waad = "ended"
  /\ Fresh
  /\ UNCHANGED <<cnoda, mail, quiet, drive, pipe, ctr, hw, troubles>>

-----------------------------------------------------------------------------
(***************************************************************************)
(* watchdog_stub: one turn reads all that is in the pipe, as one string    *)
(* that ends at the first zero byte.  "-cnoda" is written without one.     *)
(***************************************************************************)
StubInTime == Looping => late < Lag

\* A removal takes no time; with anything behind it, the name is another one.
StubRemoves ==
  /\ pipe # << >> /\ Head(pipe) = "-cnoda"
  /\ pipe' = << >>
  /\ ctr' = IF Len(pipe) = 1 THEN Unknown ELSE ctr
  /\ UNCHANGED <<cnoda, admin, mail, quiet, drive, hw, heard, late, troubles>>

\* Deviation: the counter of an object that writes is not reset.
CountOnly == IF pipe # << >> /\ ctr = Unknown THEN 0 ELSE ctr
\* A message registers Cnoda or resets its counter, and keeps the hardware alive.
Count == IF pipe # << >> THEN 0 ELSE ctr

\* Deviation: wdt_clear is left as the turn before set it.
StubTurnAlways ==
  /\ pipe # << >> => Head(pipe) = "cnoda"
  /\ StubInTime /\ hw < HwTurns
  /\ pipe' = << >>
  /\ ctr' = IF Count = Unknown THEN Unknown ELSE IF Count > MaxCtr THEN Count ELSE Count + 1
  /\ hw' = 0
  /\ heard' = (heard \/ (Looping /\ pipe # << >>))
  /\ late' = IF Looping THEN late + 1 ELSE late
  /\ UNCHANGED <<cnoda, admin, mail, quiet, drive, troubles>>

StubTurn ==
  /\ pipe # << >> => Head(pipe) = "cnoda"
  /\ StubInTime /\ hw < HwTurns
  /\ pipe' = << >>
  /\ ctr' = IF Count = Unknown THEN Unknown ELSE IF Count > MaxCtr THEN Count ELSE Count + 1
  /\ hw' = IF Count > MaxCtr THEN hw + 1 ELSE 0
  /\ heard' = (heard \/ (Looping /\ pipe # << >>))
  /\ late' = IF Looping THEN late + 1 ELSE late
  /\ UNCHANGED <<cnoda, admin, mail, quiet, drive, troubles>>

-----------------------------------------------------------------------------
(***************************************************************************)
(* The threads of Cnoda, what starts and ends the process, and the device. *)
(***************************************************************************)
\* srvmWDT
Send(t) ==
  /\ cnoda = "up" /\ t \notin quiet \cup mail
  /\ mail' = mail \cup {t}
  /\ UNCHANGED <<cnoda, admin, quiet, drive, pipe, stub, late, troubles>>

Trouble == troubles < MaxTroubles /\ troubles' = troubles + 1

\* A thread hangs, or the collector stops it: it sends no more, and stays registered.
GoesQuiet(t) ==
  /\ Trouble /\ cnoda = "up" /\ t \notin quiet
  /\ quiet' = quiet \cup {t}
  /\ UNCHANGED <<cnoda, admin, mail, drive, pipe, stub, late>>

AdminHangs ==
  /\ Trouble /\ Looping
  /\ waad' = "stuck"
  /\ UNCHANGED <<cnoda, beat, unblocked, silence, mail, quiet, drive, pipe, stub, late>>

DriveBreaks ==
  /\ Trouble /\ drive
  /\ drive' = FALSE
  /\ UNCHANGED <<cnoda, admin, mail, quiet, pipe, stub, late>>

\* What made the drive unreadable has passed.
DriveMends ==
  /\ ~drive /\ drive' = TRUE
  /\ UNCHANGED <<cnoda, admin, mail, quiet, pipe, stub, late, troubles>>

CnodaStarts ==
  /\ cnoda = "down" /\ cnoda' = "up"
  /\ UNCHANGED <<admin, mail, quiet, drive, pipe, stub, late, troubles>>

\* Killed, or ended by itself, without a word to the stub.
CnodaDies ==
  /\ cnoda = "up" /\ Gone
  /\ UNCHANGED <<drive, pipe, ctr, hw, troubles>>

\* A start of the device, on whatever drives it finds.
Boot ==
  /\ Gone /\ drive' = TRUE
  /\ pipe' = <<"cnoda">> /\ ctr' = Unknown /\ hw' = 0
  /\ UNCHANGED troubles

HardwareResets == hw >= HwTurns /\ Boot

Stub == StubRemoves \/ StubTurn
Admin == AdminTurn \/ AdminExits

Next ==
  \/ Admin \/ AdminEnds \/ AdminStarts \/ Stub
  \/ \E t \in Threads : Send(t) \/ GoesQuiet(t)
  \/ AdminHangs \/ DriveBreaks \/ DriveMends \/ CnodaStarts \/ CnodaDies
  \/ Boot

Spec == Init /\ [][Next]_vars

\* The threads and the two watchdogs are scheduled, and the hardware keeps time.
FairSpec ==
  /\ Spec
  /\ WF_vars(Admin) /\ WF_vars(Stub) /\ WF_vars(HardwareResets)
  /\ \A t \in Threads : WF_vars(Send(t))

-----------------------------------------------------------------------------
\* While Watchdog_admin runs, no drive was broken and the stub hears it, the hardware is
\* kept alive: no order of messages, losses in the pipe included, resets the device.
KeptAlive == Looping /\ unblocked /\ heard => hw = 0

\* A thread that has sent srvmWDT and then is silent ends Cnoda, whatever the others
\* send; also one that was stopped on purpose, which stays registered.
SilentEnds ==
  \A t \in Threads : Looping /\ silence[t] # Unknown /\ t \in quiet ~> ~Looping

\* A Cnoda that is down, or whose Watchdog_admin hangs, comes back or the device is reset,
\* once the stub knows of it and until "-cnoda" takes it out.
DeadResets ==
  (cnoda = "down" \/ waad = "stuck") /\ ctr # Unknown
    ~> Looping \/ hw >= HwTurns \/ ctr = Unknown

\* A broken drive resets the device although the reboot that was ordered hangs, and
\* although the drive comes back.
BrokenResets == ~unblocked /\ Looping /\ heard ~> hw >= HwTurns \/ ~Looping
===============================================================================
