------------------------ MODULE ThreadCollectorProofs ------------------------
(***************************************************************************)
(* For any threads and number of messages, and any entries that do not     *)
(* have RunAll and a message start the same thread (StartersApart): no     *)
(* thread object ever has two pthreads in its Loop.  The inductive         *)
(* invariant ties the number of pthreads of a thread to TERMState and to   *)
(* the handle (Handled), says that what StartPthread saw of the handle is  *)
(* still so when it creates (Pending), and that between the wait for       *)
(* TERMState and the start nobody else starts the thread (Stopped).  The   *)
(* last two are where StartersApart is needed: StartPthread has no lock.   *)
(***************************************************************************)
EXTENDS ThreadCollector, TLAPS

\* RunAll looks and creates only for the entry it has just marked.
MainAt ==
  mainNext \in {"look", "create"} =>
    mainPc \in Index /\ Entries[mainPc].type = "ONCE_ALWAYS"

\* The collector runs and restarts only threads that RunAll leaves alone.
Busy == {"look", "create", "wait", "cancel", "start"}
CollectorAt ==
  pc \in Busy =>
    entry \in Index /\ Current.type # "ONCE_ALWAYS"

\* A thread with a pthread is marked active, has a handle, and has one only.
Handles(t) ==
  inLoop[t] + leaving[t] # 0 =>
    active[t] /\ thr[t] /\ inLoop[t] + leaving[t] = 1
Handled == \A t \in Threads : Handles(t)

\* A thread StartPthread looks at is marked active, or has a handle; one it is about
\* to create a pthread for is marked active, and has none.
Ready(t) == active[t] \/ thr[t]
Bare(t) == active[t] /\ ~thr[t]
Pending ==
  /\ mainNext = "look" => Ready(Entries[mainPc].thr)
  /\ pc = "look" => Ready(Current.thr)
Creating ==
  /\ mainNext = "create" => Bare(Entries[mainPc].thr)
  /\ pc = "create" => Bare(Current.thr)

\* TERMState stays set from the end of the wait to the start.
Stopped == pc \in {"cancel", "start"} => ~active[Current.thr]

IInv == TypeOK /\ MainAt /\ CollectorAt /\ Handled /\ Pending /\ Creating /\ Stopped

LEMMA EntryTypes ==
  \A n \in Index :
    /\ n \in 1..Len(Entries) /\ n + 1 \in 1..Len(Entries) + 1
    /\ Entries[n].thr \in Threads /\ Entries[n].type \in Types
    /\ Entries[n].wdt \in BOOLEAN
<1>1. Entries \in Seq(EntryType)
  BY CollectorAssumption
<1>2. Len(Entries) \in Nat /\ Index = 1..Len(Entries)
  BY <1>1 DEF Index
<1>3. \A n \in 1..Len(Entries) : Entries[n] \in EntryType
  BY <1>1
<1> QED
  BY <1>2, <1>3 DEF EntryType

LEMMA NoEntryZero == 0 \notin Index
BY EntryTypes

LEMMA InitIInv == Init => IInv
<1> SUFFICES ASSUME Init PROVE IInv
  OBVIOUS
<1>1. Len(Entries) \in Nat /\ MaxMessages \in Nat
  BY CollectorAssumption DEF CollectorAssumption
<1>2. /\ mainPc \in 0..Len(Entries) + 1 /\ entry \in 1..Len(Entries) + 1
      /\ arrived \in 0..MaxMessages
  BY <1>1 DEF Init
<1>3. enAatWDT \in [Index -> BOOLEAN]
  BY EntryTypes DEF Init
<1>4. inbox \in Seq(Messages)
  BY DEF Init
<1>5. TypeOK
  BY <1>2, <1>3, <1>4, Zenon DEF Init, TypeOK
<1> QED
  BY <1>5 DEF Init, IInv, MainAt, CollectorAt, Handled, Handles, Pending, Creating, Stopped, Busy

LEMMA CreateTypes ==
  ASSUME TypeOK, NEW t \in Threads, PthreadCreate(t)
  PROVE  /\ thr' \in [Threads -> BOOLEAN] /\ inLoop' \in [Threads -> Nat]
         /\ failed' \subseteq Threads
<1>0. /\ thr \in [Threads -> BOOLEAN] /\ inLoop \in [Threads -> Nat]
      /\ failed \subseteq Threads
  BY DEF TypeOK
<1>1. ASSUME thr' = [thr EXCEPT ![t] = TRUE], failed' = failed,
             inLoop' = [inLoop EXCEPT ![t] = inLoop[t] + 1]
      PROVE  /\ thr' \in [Threads -> BOOLEAN] /\ inLoop' \in [Threads -> Nat]
             /\ failed' \subseteq Threads
  <2>1. inLoop[t] + 1 \in Nat
    BY <1>0
  <2> QED
    BY <1>0, <1>1, <2>1, Zenon
<1>2. ASSUME NEW h \in BOOLEAN, thr' = [thr EXCEPT ![t] = h], inLoop' = inLoop,
             failed' = failed \cup {t}
      PROVE  /\ thr' \in [Threads -> BOOLEAN] /\ inLoop' \in [Threads -> Nat]
             /\ failed' \subseteq Threads
  BY <1>0, <1>2, Zenon
<1> QED
  BY <1>1, <1>2 DEF PthreadCreate

LEMMA TypeStep == TypeOK /\ MainAt /\ CollectorAt /\ [Next]_vars => TypeOK'
<1> SUFFICES ASSUME TypeOK, MainAt, CollectorAt, [Next]_vars PROVE TypeOK'
  OBVIOUS
<1>0. Len(Entries) \in Nat /\ Index = 1..Len(Entries) /\ MaxMessages \in Nat
  BY CollectorAssumption DEF CollectorAssumption, Index
<1> USE <1>0 DEF TypeOK, threads, main, collector, timers
<1>1. CASE UNCHANGED vars
  BY <1>1 DEF vars
<1>2. ASSUME NEW t \in Threads, LoopReturns(t) PROVE TypeOK'
  BY <1>2 DEF LoopReturns
<1>3. ASSUME NEW t \in Threads, ThrWrapperEnds(t) PROVE TypeOK'
  BY <1>3 DEF ThrWrapperEnds
<1>4. CASE RunCollector
  BY <1>4 DEF RunCollector
<1>5. CASE RunAllMarks
  <2>1. CASE Entries[mainPc].type = "ONCE_ALWAYS"
    BY <1>5, <2>1 DEF RunAllMarks, Mark
  <2>2. CASE Entries[mainPc].type # "ONCE_ALWAYS"
    BY <1>5, <2>2 DEF RunAllMarks
  <2> QED
    BY <2>1, <2>2
<1>6. CASE RunAllCreates
  <2>1. mainPc \in Index /\ PthreadCreate(Entries[mainPc].thr)
    BY <1>6 DEF RunAllCreates, MainAt
  <2>2. /\ thr' \in [Threads -> BOOLEAN] /\ inLoop' \in [Threads -> Nat]
        /\ failed' \subseteq Threads
    BY <2>1, EntryTypes, CreateTypes
  <2>3. mainPc' \in 0..Len(Entries) + 1
    BY <1>6, <2>1 DEF RunAllCreates
  <2> QED
    BY <1>6, <2>2, <2>3 DEF RunAllCreates
<1>7. CASE CheckAlarms \/ Sleep
  BY <1>7 DEF CheckAlarms, Sleep
<1>8. CASE GetMessage
  BY <1>8 DEF GetMessage
<1>9. CASE PassEntry \/ MessageDone
  BY <1>9 DEF PassEntry, MessageDone
<1>10. CASE RunStopped
  BY <1>10 DEF RunStopped, Accept, Mark
<1>11. CASE SkipRunning
  BY <1>11 DEF SkipRunning, Accept
<1>12. CASE StopRequest
  BY <1>12 DEF StopRequest, Accept
<1>13. CASE StopWaits
  BY <1>13 DEF StopWaits
<1>14. CASE StopPthread
  BY <1>14 DEF StopPthread
<1>15. CASE Start
  BY <1>15 DEF Start, Mark
<1>16. CASE Create
  <2>1. entry \in Index /\ PthreadCreate(Current.thr)
    BY <1>16 DEF Create, CollectorAt, Busy
  <2>2. /\ thr' \in [Threads -> BOOLEAN] /\ inLoop' \in [Threads -> Nat]
        /\ failed' \subseteq Threads
    BY <2>1, EntryTypes, CreateTypes DEF Current
  <2>3. entry' \in 1..Len(Entries) + 1
    BY <1>16, <2>1 DEF Create
  <2> QED
    BY <1>16, <2>2, <2>3 DEF Create
<1>19. CASE RunAllLooks
  <2>1. CASE thr[Entries[mainPc].thr]
    BY <1>19, <2>1 DEF RunAllLooks, MainAt
  <2>2. CASE ~thr[Entries[mainPc].thr]
    BY <1>19, <2>2 DEF RunAllLooks, MainAt
  <2> QED
    BY <2>1, <2>2
<1>20. CASE Look
  <2>1. entry \in Index
    BY <1>20 DEF Look, CollectorAt, Busy
  <2>2. CASE thr[Current.thr]
    BY <1>20, <2>1, <2>2 DEF Look
  <2>3. CASE ~thr[Current.thr]
    BY <1>20, <2>3 DEF Look
  <2> QED
    BY <2>2, <2>3
<1>17. ASSUME NEW m \in Messages, Arrive(m) PROVE TypeOK'
  BY <1>17 DEF Arrive
<1>18. ASSUME NEW n \in Index, DelayOver(n) \/ TimeoutOver(n) PROVE TypeOK'
  BY <1>18 DEF DelayOver, TimeoutOver
<1> QED
  BY <1>1, <1>2, <1>3, <1>4, <1>5, <1>6, <1>7, <1>8, <1>9, <1>10, <1>11,
     <1>12, <1>13, <1>14, <1>15, <1>16, <1>17, <1>18, <1>19, <1>20
  DEF Next, RunAll, Loop

LEMMA ControlStep ==
  TypeOK /\ MainAt /\ CollectorAt /\ [Next]_vars => MainAt' /\ CollectorAt'
<1> SUFFICES ASSUME TypeOK, MainAt, CollectorAt, [Next]_vars
             PROVE MainAt' /\ CollectorAt'
  OBVIOUS
<1> USE DEF MainAt, CollectorAt, Current, Busy, main, collector
<1>1. CASE UNCHANGED vars
  BY <1>1 DEF vars
<1>2. ASSUME NEW t \in Threads, LoopReturns(t) \/ ThrWrapperEnds(t)
      PROVE MainAt' /\ CollectorAt'
  BY <1>2 DEF LoopReturns, ThrWrapperEnds
<1>3. CASE RunCollector
  BY <1>3, NoEntryZero DEF RunCollector
<1>10. CASE RunAllLooks \/ RunAllCreates
  BY <1>10 DEF RunAllLooks, RunAllCreates
<1>9. CASE RunAllMarks
  <2>1. CASE Entries[mainPc].type = "ONCE_ALWAYS"
    BY <1>9, <2>1 DEF RunAllMarks
  <2>2. CASE Entries[mainPc].type # "ONCE_ALWAYS"
    BY <1>9, <2>2 DEF RunAllMarks
  <2> QED
    BY <2>1, <2>2
<1>4. CASE CheckAlarms \/ GetMessage \/ Sleep \/ PassEntry \/ MessageDone
  BY <1>4 DEF CheckAlarms, GetMessage, Sleep, PassEntry, MessageDone
<1>5. CASE RunStopped \/ SkipRunning \/ StopRequest
  BY <1>5 DEF RunStopped, SkipRunning, StopRequest, Accept, Concerned
<1>6. CASE StopWaits \/ StopPthread \/ Start \/ Look \/ Create
  BY <1>6 DEF StopWaits, StopPthread, Start, Look, Create
<1>7. ASSUME NEW m \in Messages, Arrive(m) PROVE MainAt' /\ CollectorAt'
  BY <1>7 DEF Arrive
<1>8. ASSUME NEW n \in Index, DelayOver(n) \/ TimeoutOver(n)
      PROVE MainAt' /\ CollectorAt'
  BY <1>8 DEF DelayOver, TimeoutOver
<1> QED
  BY <1>1, <1>2, <1>3, <1>4, <1>5, <1>6, <1>7, <1>8, <1>9, <1>10 DEF Next, RunAll, Loop

LEMMA HandledStep == IInv /\ [Next]_vars => Handled'
<1> SUFFICES ASSUME IInv, [Next]_vars, NEW t \in Threads PROVE Handles(t)'
  BY DEF Handled
<1>0. /\ Handles(t) /\ inLoop[t] \in Nat /\ leaving[t] \in Nat
      /\ active \in [Threads -> BOOLEAN] /\ thr \in [Threads -> BOOLEAN]
      /\ inLoop \in [Threads -> Nat] /\ leaving \in [Threads -> Nat]
  BY DEF IInv, TypeOK, Handled
<1> USE <1>0 DEF Handles
<1>1. CASE UNCHANGED threads
  BY <1>1 DEF threads
<1>2. CASE UNCHANGED vars \/ RunCollector \/ CheckAlarms \/ GetMessage \/ Sleep \/
           PassEntry \/ MessageDone \/ StopWaits \/ SkipRunning \/ RunAllLooks \/ Look
  BY <1>1, <1>2
  DEF vars, RunCollector, CheckAlarms, GetMessage, Sleep, PassEntry,
      MessageDone, StopWaits, SkipRunning, Accept, RunAllLooks, Look, threads
<1>3. ASSUME NEW s \in Threads, LoopReturns(s) PROVE Handles(t)'
  BY <1>3 DEF LoopReturns
<1>4. ASSUME NEW s \in Threads, ThrWrapperEnds(s) PROVE Handles(t)'
  BY <1>4 DEF ThrWrapperEnds
<1>5. CASE RunAllMarks \/ RunStopped \/ Start \/ StopRequest
  BY <1>5 DEF RunAllMarks, RunStopped, Start, StopRequest, Accept, Mark
<1>6. ASSUME NEW s \in Threads, PthreadCreate(s), Bare(s),
             UNCHANGED <<active, leaving>>
      PROVE Handles(t)'
  BY <1>6 DEF PthreadCreate, Bare, IInv, Handled
<1>7. CASE RunAllCreates
  <2>1. Entries[mainPc].thr \in Threads /\ Bare(Entries[mainPc].thr)
    BY <1>7, EntryTypes DEF RunAllCreates, IInv, MainAt, Creating
  <2> QED
    BY <1>6, <1>7, <2>1 DEF RunAllCreates
<1>8. CASE Create
  <2>1. Current.thr \in Threads /\ Bare(Current.thr)
    BY <1>8, EntryTypes DEF Create, IInv, CollectorAt, Busy, Creating, Current
  <2> QED
    BY <1>6, <1>8, <2>1 DEF Create
<1>9. CASE StopPthread
  BY <1>9 DEF StopPthread, IInv, Stopped
<1>10. ASSUME NEW m \in Messages, Arrive(m) PROVE Handles(t)'
  BY <1>1, <1>10 DEF Arrive
<1>11. ASSUME NEW n \in Index, DelayOver(n) \/ TimeoutOver(n) PROVE Handles(t)'
  BY <1>1, <1>11 DEF DelayOver, TimeoutOver
<1> QED
  BY <1>2, <1>3, <1>4, <1>5, <1>7, <1>8, <1>9, <1>10, <1>11
  DEF Next, RunAll, Loop

\* RunAll and the collector are never at the same thread.
LEMMA Apart ==
  ASSUME StartersApart, IInv, mainNext \in {"look", "create"}, pc \in Busy
  PROVE  Current.thr # Entries[mainPc].thr
BY DEF StartersApart, IInv, MainAt, CollectorAt, Current, Index

LEMMA Targets ==
  ASSUME IInv
  PROVE  /\ mainNext \in {"look", "create"} => Entries[mainPc].thr \in Threads
         /\ pc \in Busy => Current.thr \in Threads
BY EntryTypes DEF IInv, MainAt, CollectorAt, Current

LEMMA ReadyAfterMark ==
  ASSUME TypeOK, NEW s \in Threads, NEW r \in Threads, Mark(s), thr' = thr
  PROVE  /\ Ready(r) \/ r = s => Ready(r)'
         /\ Bare(r) => Bare(r)'
<1>1. active \in [Threads -> BOOLEAN]
  BY DEF TypeOK
<1> QED
  BY <1>1 DEF Mark, Ready, Bare

LEMMA OthersAfterCreate ==
  ASSUME TypeOK, NEW s \in Threads, NEW r \in Threads, r # s, PthreadCreate(s),
         active' = active
  PROVE  /\ Ready(r) => Ready(r)'
         /\ Bare(r) => Bare(r)'
<1>1. thr \in [Threads -> BOOLEAN]
  BY DEF TypeOK
<1> QED
  BY <1>1 DEF PthreadCreate, Ready, Bare

\* What StartPthread was told, and what it saw, stays so until it acts.
LEMMA PendingStep ==
  ASSUME StartersApart, IInv, [Next]_vars PROVE Pending' /\ Creating'
<1>0. /\ active \in [Threads -> BOOLEAN] /\ thr \in [Threads -> BOOLEAN]
      /\ inLoop \in [Threads -> Nat] /\ leaving \in [Threads -> Nat]
      /\ TypeOK /\ Pending /\ Creating
  BY DEF IInv, TypeOK
<1> DEFINE m == Entries[mainPc].thr
           c == Current.thr
<1>1. CASE UNCHANGED <<active, thr, mainPc, mainNext, pc, entry>>
  BY <1>0, <1>1 DEF Pending, Creating, Ready, Bare, Current
<1>12. CASE UNCHANGED vars
  BY <1>1, <1>12 DEF vars, threads, main, collector
<1>13. CASE RunCollector
  BY <1>0, <1>13, NoEntryZero
  DEF RunCollector, IInv, MainAt, Pending, Creating, threads
<1>2. CASE CheckAlarms \/ GetMessage \/ Sleep \/ PassEntry \/ MessageDone \/
           StopWaits \/ SkipRunning \/ StopRequest
  <2>1. pc' \notin {"look", "create"} /\ UNCHANGED <<active, thr, mainPc, mainNext>>
    BY <1>2
    DEF CheckAlarms, GetMessage, Sleep, PassEntry, MessageDone, StopWaits,
        SkipRunning, StopRequest, Accept, threads, main
  <2> QED
    BY <1>0, <2>1 DEF Pending, Creating, Ready, Bare
<1>3. ASSUME NEW s \in Threads, LoopReturns(s) PROVE Pending' /\ Creating'
  BY <1>1, <1>3 DEF LoopReturns, main, collector
<1>4. ASSUME NEW s \in Threads, ThrWrapperEnds(s) PROVE Pending' /\ Creating'
  <2>1. inLoop[s] + leaving[s] # 0
    BY <1>0, <1>4 DEF ThrWrapperEnds
  <2>2. thr[s]
    BY <2>1 DEF IInv, Handled, Handles
  <2>3. ASSUME NEW r \in Threads PROVE (Ready(r) => Ready(r)') /\ (Bare(r) => Bare(r)')
    BY <1>0, <1>4, <2>2, <2>3 DEF ThrWrapperEnds, Ready, Bare
  <2>4. UNCHANGED <<mainPc, mainNext, pc, entry>>
    BY <1>4 DEF ThrWrapperEnds, main, collector
  <2> QED
    BY <1>0, <2>3, <2>4, Targets DEF Pending, Creating, Current, Busy, Ready, Bare
<1>5. CASE RunAllMarks
  <2>1. UNCHANGED <<thr, pc, entry>> /\ mainPc \in Index /\ mainNext = "run"
    BY <1>5 DEF RunAllMarks, collector
  <2>2. CASE Entries[mainPc].type = "ONCE_ALWAYS"
    <3>1. Mark(m) /\ mainPc' = mainPc /\ mainNext' = "look" /\ m \in Threads
      BY <1>5, <2>1, <2>2, EntryTypes DEF RunAllMarks
    <3>2. Ready(m)'
      BY <1>0, <2>1, <3>1, ReadyAfterMark DEF Ready
    <3>3. /\ pc = "look" => Ready(c)'
          /\ pc = "create" => Bare(c)'
      BY <1>0, <2>1, <3>1, Targets, ReadyAfterMark
      DEF Pending, Creating, Ready, Bare, Current, Busy
    <3> QED
      BY <2>1, <3>1, <3>2, <3>3 DEF Pending, Creating, Ready, Bare, Current
  <2>3. CASE Entries[mainPc].type # "ONCE_ALWAYS"
    BY <1>0, <1>5, <2>1, <2>3
    DEF RunAllMarks, Pending, Creating, Ready, Bare, Current
  <2> QED
    BY <2>2, <2>3
<1>14. CASE RunAllLooks
  <2>1. /\ mainNext = "look" /\ UNCHANGED <<active, thr, pc, entry>>
        /\ mainNext' = "create" => mainPc' = mainPc /\ ~thr[m]
        /\ mainNext' \in {"run", "create"}
    BY <1>14 DEF RunAllLooks, threads, collector
  <2> QED
    BY <1>0, <2>1 DEF Pending, Creating, Ready, Bare, Current
<1>15. CASE Look
  <2>1. /\ pc = "look" /\ UNCHANGED <<active, thr, mainPc, mainNext>>
        /\ pc' = "create" => entry' = entry /\ ~thr[c]
        /\ pc' \in {"scan", "create"}
    BY <1>15 DEF Look, threads, main
  <2> QED
    BY <1>0, <2>1 DEF Pending, Creating, Ready, Bare, Current
<1>6. CASE RunAllCreates
  <2>1. /\ PthreadCreate(m) /\ mainNext = "create" /\ mainNext' = "run"
        /\ UNCHANGED <<active, pc, entry>>
    BY <1>6 DEF RunAllCreates, collector
  <2>2. pc \in {"look", "create"} => c # m
    BY <2>1, Apart DEF Busy
  <2>3. /\ pc = "look" => Ready(c)'
        /\ pc = "create" => Bare(c)'
    BY <1>0, <2>1, <2>2, Targets, OthersAfterCreate
    DEF Pending, Creating, Ready, Bare, Current, Busy
  <2> QED
    BY <2>1, <2>3 DEF Pending, Creating, Ready, Bare, Current
<1>7. CASE RunStopped \/ Start
  <2>1. entry \in Index
    BY <1>7 DEF RunStopped, Accept, Start, IInv, CollectorAt, Busy
  <2>2. c \in Threads
    BY <2>1, EntryTypes DEF Current
  <2>3. /\ Mark(c) /\ entry' = entry /\ pc' = "look"
        /\ UNCHANGED <<thr, mainPc, mainNext>>
    BY <1>7 DEF RunStopped, Accept, Start, main
  <2>4. Ready(c)'
    BY <1>0, <2>2, <2>3, ReadyAfterMark DEF Ready, Current
  <2>5. /\ mainNext = "look" => Ready(m)'
        /\ mainNext = "create" => Bare(m)'
    BY <1>0, <2>2, <2>3, Targets, ReadyAfterMark
    DEF Pending, Creating, Ready, Bare
  <2> QED
    BY <2>3, <2>4, <2>5 DEF Pending, Creating, Ready, Bare, Current
<1>8. CASE Create
  <2>1. /\ PthreadCreate(c) /\ pc = "create" /\ pc' = "scan"
        /\ UNCHANGED <<active, mainPc, mainNext>>
    BY <1>8 DEF Create, main
  <2>2. mainNext \in {"look", "create"} => m # c
    BY <2>1, Apart DEF Busy
  <2>3. /\ mainNext = "look" => Ready(m)'
        /\ mainNext = "create" => Bare(m)'
    BY <1>0, <2>1, <2>2, Targets, OthersAfterCreate
    DEF Pending, Creating, Ready, Bare, Busy
  <2> QED
    BY <2>1, <2>3 DEF Pending, Creating, Ready, Bare
<1>9. CASE StopPthread
  <2>1. mainNext \in {"look", "create"} => c # m
    BY <1>9, Apart DEF StopPthread, Busy
  <2> QED
    BY <1>0, <1>9, <2>1
    DEF StopPthread, Pending, Creating, Ready, Bare, Current, main
<1>10. ASSUME NEW k \in Messages, Arrive(k) PROVE Pending' /\ Creating'
  BY <1>1, <1>10 DEF Arrive, threads, main, collector
<1>11. ASSUME NEW n \in Index, DelayOver(n) \/ TimeoutOver(n)
       PROVE Pending' /\ Creating'
  BY <1>1, <1>11 DEF DelayOver, TimeoutOver, threads, main, collector
<1> QED
  BY <1>2, <1>3, <1>4, <1>5, <1>6, <1>7, <1>8, <1>9, <1>10, <1>11, <1>12, <1>13,
     <1>14, <1>15
  DEF Next, RunAll, Loop

LEMMA StoppedStep ==
  ASSUME StartersApart, IInv, [Next]_vars PROVE Stopped'
<1>0. active \in [Threads -> BOOLEAN]
  BY DEF IInv, TypeOK
<1> USE DEF Stopped, Current
<1>1. CASE UNCHANGED <<active, pc, entry>>
  BY <1>1 DEF IInv
<1>2. CASE UNCHANGED vars \/ RunAllLooks \/ RunAllCreates
  BY <1>1, <1>2 DEF vars, RunAllLooks, RunAllCreates, collector, threads
<1>3. ASSUME NEW s \in Threads, LoopReturns(s) PROVE Stopped'
  BY <1>1, <1>3 DEF LoopReturns, collector
<1>4. ASSUME NEW s \in Threads, ThrWrapperEnds(s) PROVE Stopped'
  BY <1>0, <1>4 DEF ThrWrapperEnds, collector, IInv
<1>5. CASE RunAllMarks
  <2>1. CASE Entries[mainPc].type = "ONCE_ALWAYS" /\ pc \in {"cancel", "start"}
    <3>1. Current.thr # Entries[mainPc].thr
      BY <1>5, <2>1 DEF RunAllMarks, StartersApart, IInv, CollectorAt, Busy, Current, Index
    <3>2. Current.thr \in Threads
      BY <2>1, Targets DEF Busy
    <3> QED
      BY <1>0, <1>5, <2>1, <3>1, <3>2 DEF RunAllMarks, Mark, collector, IInv
  <2>2. CASE Entries[mainPc].type # "ONCE_ALWAYS"
    BY <1>1, <1>5, <2>2 DEF RunAllMarks, collector
  <2> QED
    BY <1>5, <2>1, <2>2 DEF RunAllMarks, collector
<1>6. CASE RunCollector \/ CheckAlarms \/ GetMessage \/ Sleep \/ PassEntry \/
           MessageDone \/ SkipRunning \/ StopRequest \/ RunStopped \/ Start \/ Look \/ Create
  BY <1>6
  DEF RunCollector, CheckAlarms, GetMessage, Sleep, PassEntry, MessageDone,
      SkipRunning, StopRequest, RunStopped, Accept, Start, Look, Create
<1>7. CASE StopWaits \/ StopPthread
  BY <1>7 DEF StopWaits, StopPthread, threads, IInv
<1>8. ASSUME NEW m \in Messages, Arrive(m) PROVE Stopped'
  BY <1>1, <1>8 DEF Arrive, threads, collector
<1>9. ASSUME NEW n \in Index, DelayOver(n) \/ TimeoutOver(n) PROVE Stopped'
  BY <1>1, <1>9 DEF DelayOver, TimeoutOver, threads, collector
<1> QED
  BY <1>2, <1>3, <1>4, <1>5, <1>6, <1>7, <1>8, <1>9 DEF Next, RunAll, Loop

LEMMA StepIInv ==
  ASSUME StartersApart PROVE IInv /\ [Next]_vars => IInv'
BY TypeStep, ControlStep, HandledStep, PendingStep, StoppedStep DEF IInv

\* For any table of entries every variable keeps its type, so that no entry is read
\* past the end of coll_params.
THEOREM CollectorTypeCorrect == Spec => []TypeOK
<1> DEFINE TInv == TypeOK /\ MainAt /\ CollectorAt
<1>1. Init => TInv
  BY InitIInv DEF IInv
<1>2. TInv /\ [Next]_vars => TInv'
  BY TypeStep, ControlStep
<1> QED
  BY <1>1, <1>2, PTL DEF Spec

\* When the table has no thread started both by RunAll and by a message: however
\* messages, restarts, delays, threads that stop by themselves and failing
\* pthread_creates interleave, the Loop of an object is run by one pthread at most.
THEOREM OneLoopEach == ASSUME StartersApart PROVE Spec => []OneLoop
<1>1. IInv => OneLoop
  <2> SUFFICES ASSUME IInv, NEW t \in Threads
               PROVE inLoop[t] + leaving[t] <= 1
    BY DEF OneLoop
  <2>1. CASE inLoop[t] + leaving[t] = 0
    BY <2>1
  <2>2. CASE inLoop[t] + leaving[t] # 0
    BY <2>2 DEF IInv, Handled, Handles
  <2> QED
    BY <2>1, <2>2
<1>2. IInv /\ [Next]_vars => IInv'
  BY StepIInv
<1> QED
  BY <1>1, <1>2, InitIInv, PTL DEF Spec
=============================================================================
