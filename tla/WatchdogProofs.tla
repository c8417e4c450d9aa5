---------------------------- MODULE WatchdogProofs ----------------------------
(***************************************************************************)
(* For any threads and timeouts that satisfy WatchdogAssumption: while     *)
(* Watchdog_admin runs and no drive was broken, the hardware is kept alive *)
(* once the stub has heard it.                                             *)
(***************************************************************************)
EXTENDS Watchdog, TLAPS

Beats == {"cnoda", "-cnoda"}

\* A process that is down has not been heard.
HeardUp == heard => cnoda = "up"

\* Nothing but messages is in the pipe of a Loop that was heard.
OnlyBeats == Looping /\ heard => \A i \in 1..Len(pipe) : pipe[i] = "cnoda"

\* The stub's count since the last message stays behind Loop's own.
Behind ==
  Looping /\ unblocked /\ heard /\ pipe = << >> => ctr <= beat * Lag + late

IInv == TypeOK /\ HeardUp /\ OnlyBeats /\ Behind /\ KeptAlive

\* What the products of the turns and Lag come to.
LEMMA TurnProducts ==
  ASSUME TypeOK
  PROVE  /\ (beat + 1) * Lag = beat * Lag + Lag
         /\ beat * Lag \in Nat
         /\ beat * Lag + Lag <= (Interval + 1) * Lag
<1>1. beat \in Nat /\ Lag \in Nat /\ Interval \in Nat /\ beat <= Interval
  BY WatchdogAssumption DEF TypeOK
<1>2. \A x, y, l \in Nat : x <= y => x * l \in Nat /\ (x + 1) * l = x * l + l /\ x * l <= y * l
  OBVIOUS
<1>3. (Interval + 1) * Lag = Interval * Lag + Lag /\ beat * Lag <= Interval * Lag
  BY <1>1, <1>2
<1>4. beat * Lag \in Nat /\ Interval * Lag \in Nat
  BY <1>1, <1>2
<1>5. (beat + 1) * Lag = beat * Lag + Lag
  BY <1>1, <1>2
<1> QED
  BY <1>1, <1>3, <1>4, <1>5

\* The message of a turn.
LEMMA BeatType == Beat \in Seq(Beats) /\ Len(Beat) <= 1
<1>1. <<"cnoda">> \in Seq(Beats) /\ Len(<<"cnoda">>) = 1
  BY DEF Beats
<1>2. << >> \in Seq(Beats) /\ Len(<< >>) = 0
  OBVIOUS
<1> QED
  BY <1>1, <1>2 DEF Beat

\* The invariant holds when the device starts.
LEMMA InitIInv == Init => IInv
<1> SUFFICES ASSUME Init PROVE IInv
  OBVIOUS
<1>1. pipe \in Seq(Beats) /\ Len(pipe) = 1
  BY DEF Init, Beats
<1>2. /\ 0 \in 0..Interval /\ 0 \in 0..HwTurns /\ 0 \in 0..Lag /\ 0 \in 0..MaxTroubles
      /\ Unknown \in Unknown..MaxCtr + 1 /\ Unknown \in Unknown..MaxTick /\ 1 <= MaxPipe + 2
  BY WatchdogAssumption DEF Unknown
<1>3. silence \in [Threads -> Unknown..MaxTick]
  BY <1>2 DEF Init
<1>4. {unblocked, drive, heard} \subseteq BOOLEAN
  BY DEF Init
<1>5. TypeOK
  BY <1>1, <1>2, <1>3, <1>4 DEF Init, TypeOK, Beats
<1> QED
  BY <1>5 DEF Init, IInv, HeardUp, OnlyBeats, Behind, KeptAlive, Looping

\* A turn of Watchdog_admin that finds no thread hung.
LEMMA TurnType ==
  ASSUME TypeOK, Turn
  PROVE  /\ beat' \in 0..Interval /\ unblocked' \in BOOLEAN /\ late' = 0 /\ mail' = {}
         /\ silence' \in [Threads -> Unknown..MaxTick]
<1>1. beat' \in 0..Interval
  BY WatchdogAssumption DEF TypeOK, Turn, ChecksDrives
<1>2. unblocked' \in BOOLEAN
  BY DEF TypeOK, Turn, ChecksDrives
<1>3. \A t \in Threads : silence[t] \in Unknown..MaxTick /\ (t \notin mail => silence[t] < MaxTick)
  BY WatchdogAssumption DEF TypeOK, Turn, Hung, Unknown
<1>4. silence' \in [Threads -> Unknown..MaxTick]
  BY <1>3, WatchdogAssumption DEF Turn, Ticks, Unknown
<1> QED
  BY <1>1, <1>2, <1>4 DEF Turn

\* Loop's variables as it begins.
LEMMA FreshType ==
  ASSUME TypeOK, Fresh
  PROVE  /\ waad' \in {"loop", "stuck", "ended"} /\ beat' \in 0..Interval
         /\ unblocked' \in BOOLEAN /\ heard' \in BOOLEAN
         /\ silence' \in [Threads -> Unknown..MaxTick] /\ late' \in 0..Lag
<1>1. 0 \in 0..Interval /\ 0 \in 0..Lag /\ Unknown \in Unknown..MaxTick
  BY WatchdogAssumption DEF Unknown
<1> QED
  BY <1>1 DEF Fresh

\* Every action keeps the types.
LEMMA TypeStep == TypeOK /\ [Next]_vars => TypeOK'
<1> SUFFICES ASSUME TypeOK, [Next]_vars PROVE TypeOK'
  OBVIOUS
<1> USE DEF TypeOK
<1>1. CASE AdminTurn
  <2>1. pipe' \in Seq(Beats) /\ Len(pipe') <= MaxPipe + 2
    BY <1>1, BeatType, WatchdogAssumption DEF AdminTurn, Turn, Ready, Beats
  <2>2. 0 \in 0..Lag
    BY WatchdogAssumption
  <2> QED
    BY <1>1, <2>1, <2>2, TurnType DEF AdminTurn, stub, Beats
<1>2. CASE AdminExits
  <2>1. pipe' \in Seq(Beats) /\ Len(pipe') <= MaxPipe + 2
    BY <1>2, BeatType, WatchdogAssumption DEF AdminExits, Ready, Beats
  <2> QED
    BY <1>2, <2>1, FreshType DEF AdminExits, Gone, Beats
<1>3. CASE AdminEnds
  <2>1. pipe' \in Seq(Beats) /\ Len(pipe') <= MaxPipe + 2
    <3>1. <<"-cnoda">> \in Seq(Beats) /\ Len(<<"-cnoda">>) = 1
      BY DEF Beats
    <3> QED
      BY <1>3, <3>1, BeatType, WatchdogAssumption DEF AdminEnds, Turn, Ready, Beats
  <2>2. 0 \in 0..Lag /\ troubles' \in 0..MaxTroubles
    BY <1>3, WatchdogAssumption DEF AdminEnds
  <2> QED
    BY <1>3, <2>1, <2>2, TurnType DEF AdminEnds, stub, Beats
<1>4. CASE AdminStarts
  BY <1>4, FreshType DEF AdminStarts
<1>5. CASE StubRemoves
  <2>1. ctr' \in Unknown..MaxCtr + 1
    BY <1>5, WatchdogAssumption DEF StubRemoves, Unknown
  <2>2. << >> \in Seq(Beats) /\ Len(<< >>) = 0
    OBVIOUS
  <2> QED
    BY <1>5, <2>1, <2>2, WatchdogAssumption DEF StubRemoves, admin, Beats
<1>6. CASE StubTurn
  <2>1. ctr' \in Unknown..MaxCtr + 1 /\ hw' \in 0..HwTurns
    BY <1>6, WatchdogAssumption DEF StubTurn, Count, Unknown
  <2>2. late' \in 0..Lag
    BY <1>6, WatchdogAssumption DEF StubTurn, StubInTime
  <2>3. << >> \in Seq(Beats) /\ Len(<< >>) = 0
    OBVIOUS
  <2>4. heard' \in BOOLEAN
    BY <1>6 DEF StubTurn
  <2> QED
    BY <1>6, <2>1, <2>2, <2>3, <2>4, WatchdogAssumption DEF StubTurn, admin, Beats
<1>7. ASSUME NEW t \in Threads, Send(t) PROVE TypeOK'
  BY <1>7 DEF Send, admin, stub
<1>8. ASSUME NEW t \in Threads, GoesQuiet(t) PROVE TypeOK'
  <2>1. troubles' \in 0..MaxTroubles
    BY <1>8, WatchdogAssumption DEF GoesQuiet, Trouble
  <2> QED
    BY <1>8, <2>1 DEF GoesQuiet, admin, stub
<1>9. CASE AdminHangs \/ DriveBreaks
  <2>1. troubles' \in 0..MaxTroubles
    BY <1>9, WatchdogAssumption DEF AdminHangs, DriveBreaks, Trouble
  <2> QED
    BY <1>9, <2>1 DEF AdminHangs, DriveBreaks, admin, stub
<1>10. CASE DriveMends \/ CnodaStarts
  BY <1>10 DEF DriveMends, CnodaStarts, admin, stub
<1>11. CASE CnodaDies
  BY <1>11, FreshType DEF CnodaDies, Gone
<1>12. CASE Boot
  <2>1. <<"cnoda">> \in Seq(Beats) /\ Len(<<"cnoda">>) = 1
    BY DEF Beats
  <2>2. 0 \in 0..HwTurns /\ Unknown \in Unknown..MaxCtr + 1 /\ 1 <= MaxPipe + 2
    BY WatchdogAssumption DEF Unknown
  <2> QED
    BY <1>12, <2>1, <2>2, FreshType DEF Boot, Gone, Beats
<1>13. CASE UNCHANGED vars
  BY <1>13 DEF vars, admin, stub
<1> QED
  BY <1>1, <1>2, <1>3, <1>4, <1>5, <1>6, <1>7, <1>8, <1>9, <1>10, <1>11, <1>12, <1>13
     DEF Next, Admin, Stub

Heard == HeardUp /\ OnlyBeats /\ Behind /\ KeptAlive

\* A turn of Watchdog_admin that goes on.
LEMMA HeardTurn ==
  ASSUME IInv, AdminTurn
  PROVE  Heard'
<1> USE DEF IInv, TypeOK, AdminTurn, Turn, Ready, stub
<1>1. HeardUp' /\ KeptAlive'
  BY DEF HeardUp, KeptAlive, Looping, ChecksDrives
<1>2. OnlyBeats'
  <2>1. CASE Beat = << >>
    BY <2>1 DEF OnlyBeats, Looping
  <2>2. CASE Beat = <<"cnoda">>
    BY <2>2 DEF OnlyBeats, Looping
  <2> QED
    BY <2>1, <2>2 DEF Beat
<1>3. Behind'
  <2> SUFFICES ASSUME Looping', unblocked', heard', pipe' = << >>
               PROVE  ctr' <= beat' * Lag + late'
    BY DEF Behind
  <2>1. unblocked /\ drive
    BY DEF ChecksDrives
  <2>2. Beat = << >> /\ pipe = << >>
    <3>1. Beat \in Seq(Beats) /\ pipe \in Seq(Beats) /\ pipe \o Beat = << >>
      BY BeatType DEF Beats
    <3> QED
      BY <3>1
  <2>3. beat < Interval
    BY <2>1, <2>2, WatchdogAssumption DEF Beat
  <2>4. beat' = beat + 1 /\ late' = 0 /\ ctr' = ctr
    BY <2>3, WatchdogAssumption DEF ChecksDrives
  <2>5. ctr <= beat * Lag + late
    BY <2>1, <2>2 DEF Behind, Looping
  <2>6. late <= Lag /\ late \in Nat /\ Lag \in Nat /\ ctr \in Int
    BY WatchdogAssumption DEF Unknown
  <2>7. beat' * Lag = beat * Lag + Lag /\ beat * Lag \in Nat
    BY <2>4, TurnProducts
  <2> QED
    BY <2>4, <2>5, <2>6, <2>7
<1> QED
  BY <1>1, <1>2, <1>3 DEF Heard

\* A turn of the stub.
LEMMA HeardStub ==
  ASSUME IInv, StubTurn
  PROVE  Heard'
<1> USE DEF IInv, TypeOK, StubTurn, admin
<1>1. HeardUp' /\ OnlyBeats'
  BY DEF HeardUp, OnlyBeats, Looping
<1> SUFFICES ASSUME Looping', unblocked', heard'
             PROVE  hw' = 0 /\ ctr' <= beat' * Lag + late'
  BY <1>1 DEF Heard, Behind, KeptAlive
<1>2. Looping /\ unblocked /\ late' = late + 1 /\ late < Lag /\ beat' = beat
  BY WatchdogAssumption DEF Looping, StubInTime
<1>3. beat * Lag \in Nat /\ beat * Lag + Lag <= MaxCtr
  BY TurnProducts, WatchdogAssumption
<1>4. late \in Nat /\ Lag \in Nat /\ MaxCtr \in Nat /\ ctr \in Int
  BY WatchdogAssumption DEF Unknown
<1>5. CASE pipe # << >>
  <2>1. Count = 0
    BY <1>5 DEF Count
  <2> QED
    BY <1>2, <1>3, <1>4, <2>1 DEF Unknown
<1>6. CASE pipe = << >>
  <2>1. heard /\ Count = ctr
    BY <1>6 DEF Count
  <2>2. ctr <= beat * Lag + late
    BY <1>2, <1>6, <2>1 DEF Behind
  <2>3. hw' = 0 /\ ctr' <= ctr + 1
    BY <1>2, <1>3, <1>4, <2>1, <2>2 DEF Unknown
  <2>4. ctr' \in Int
    BY <1>4, <2>1 DEF Unknown
  <2> QED
    BY <1>2, <1>3, <1>4, <2>2, <2>3, <2>4
<1> QED
  BY <1>5, <1>6

\* Every action keeps what is known of a Loop that was heard.
LEMMA HeardStep == IInv /\ [Next]_vars => Heard'
<1> SUFFICES ASSUME IInv, [Next]_vars PROVE Heard'
  OBVIOUS
<1> USE DEF IInv, TypeOK, Heard, HeardUp, OnlyBeats, Behind, KeptAlive, Looping
<1>1. CASE AdminTurn
  BY <1>1, HeardTurn
<1>2. CASE AdminExits \/ CnodaDies \/ Boot
  BY <1>2 DEF AdminExits, CnodaDies, Boot, Gone, Fresh
<1>3. CASE AdminEnds
  BY <1>3 DEF AdminEnds, stub
<1>4. CASE AdminStarts
  BY <1>4 DEF AdminStarts, Fresh
<1>5. CASE StubRemoves
  <2>1. ~(Looping /\ heard)
    BY <1>5 DEF StubRemoves
  <2> QED
    BY <1>5, <2>1 DEF StubRemoves, admin
<1>6. CASE StubTurn
  BY <1>6, HeardStub
<1>7. ASSUME NEW t \in Threads, Send(t) \/ GoesQuiet(t) PROVE Heard'
  BY <1>7 DEF Send, GoesQuiet, admin, stub
<1>8. CASE AdminHangs
  BY <1>8 DEF AdminHangs, stub
<1>9. CASE DriveBreaks \/ DriveMends
  BY <1>9 DEF DriveBreaks, DriveMends, admin, stub
<1>10. CASE CnodaStarts
  BY <1>10 DEF CnodaStarts, admin, stub
<1>11. CASE UNCHANGED vars
  BY <1>11 DEF vars, admin, stub
<1> QED
  BY <1>1, <1>2, <1>3, <1>4, <1>5, <1>6, <1>7, <1>8, <1>9, <1>10, <1>11 DEF Next, Admin, Stub

\* The inductive invariant.
LEMMA Inductive == Spec => []IInv
<1>1. IInv /\ [Next]_vars => IInv'
  BY TypeStep, HeardStep DEF IInv, Heard
<1> QED
  BY InitIInv, <1>1, PTL DEF Spec

\* The ticks, the counters and the pipe stay in their bounds: no thread that is served in
\* time is ever counted past its limit.
THEOREM WatchdogTypeCorrect == Spec => []TypeOK
BY Inductive, PTL DEF IInv

\* TimeoutWDT being no shorter than Watchdog_admin's interval, the hardware is never left
\* without a keepalive by a Cnoda whose watchdog thread runs and was heard.
THEOREM HealthyKeptAlive == Spec => []KeptAlive
BY Inductive, PTL DEF IInv
===============================================================================
