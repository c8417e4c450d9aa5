---------------------------- MODULE ServiceProofs ----------------------------
(***************************************************************************)
(* For any numbers of children and commands, which may come at any time:   *)
(* the main thread and the worker never use the pipes at once, and the     *)
(* killer strikes only a child that was asked to end, or one that a        *)
(* command started while the killer was armed for another.                 *)
(***************************************************************************)
EXTENDS Service, TLAPS

\* The worker has told that it is stopped only while it is outside ReadLog.
ToldOutside == workerStopped => wpc \in {"top", "claim", "exited"}

\* Told stopped and yet about to read, or free to: only while StartWorker waits for it.
FreeOnlyInRun ==
  workerStopped /\ (wpc = "claim" \/ (wpc = "top" /\ ~stopWorker)) => pc = "run"

\* StopWorker has asked, and at Exe has been answered.
HaltAsked == pc \in {"haltExe", "haltReap", "haltExit", "exe"} => stopWorker
HaltAnswered == pc = "exe" => workerStopped

Handshake == ToldOutside /\ FreeOnlyInRun /\ HaltAsked /\ HaltAnswered
IInv == TypeOK /\ Handshake

\* The invariant holds when svc starts.
LEMMA InitIInv == Init => IInv
<1> SUFFICES ASSUME Init PROVE IInv
  OBVIOUS
<1>1. 0 \in 0..StopTime /\ 0 \in 0..MaxCommands
  BY ServiceAssumption
<1>2. proc \in [Pids -> {"up", "asked", "zombie", "free"}]
  BY DEF Init
<1>3. TypeOK
  BY <1>1, <1>2 DEF Init, TypeOK, Commands
<1> QED
  BY <1>3 DEF Init, IInv, Handshake, ToldOutside, FreeOnlyInRun, HaltAsked, HaltAnswered

\* The actions that ask for the end of a child leave the types of proc alone.
LEMMA SignalledType ==
  ASSUME proc \in [Pids -> {"up", "asked", "zombie", "free"}], NEW p
  PROVE  Signalled(p) \in [Pids -> {"up", "asked", "zombie", "free"}]
BY DEF Signalled

\* A command that is taken is one that can be sent.
LEMMA TakeType ==
  ASSUME TypeOK, Take
  PROVE  command' \in Commands \cup {NoCommand} /\ oldCmd' \in Commands
BY DEF TypeOK, Take

\* The Boolean variables, and the control states, in steps of their own.
Flags == {runKiller, stopWorker, workerStopped, exitWorker, doExit}
Places ==
  /\ pc \in {"top", "wait", "haltExe", "haltReap", "haltExit", "exe", "run", "end",
            "exited", "failed"}
  /\ back \in {"top", "wait"} /\ stat \in {"START", "STOP", "RESTART", "EXIT", "NONE"}

\* Every action keeps the types.
LEMMA TypeStep == TypeOK /\ [Next]_vars => TypeOK'
<1> SUFFICES ASSUME TypeOK, [Next]_vars PROVE TypeOK'
  OBVIOUS
<1> USE DEF TypeOK
<1>1. CASE Main
  <2>1. CASE DropRepeated
    BY <2>1 DEF DropRepeated, main, worker, flags
  <2>2. CASE NothingToDo
    BY <2>2, TakeType DEF NothingToDo, Take, worker, flags
  <2>3. CASE Stop
    <3>1. proc' \in [Pids -> {"up", "asked", "zombie", "free"}]
      BY <2>3, SignalledType DEF Stop, AskToEnd
    <3>2. Flags' \subseteq BOOLEAN
      BY <2>3 DEF Stop, Take, AskToEnd, worker, Flags
    <3>3. Places'
      BY <2>3 DEF Stop, Take, AskToEnd, Places
    <3> QED
      BY <2>3, <3>1, <3>2, <3>3, TakeType DEF Stop, Take, AskToEnd, worker, Flags, Places
  <2>4. CASE Exit
    <3>1. proc' \in [Pids -> {"up", "asked", "zombie", "free"}]
      BY <2>4, SignalledType DEF Exit, AskToEnd
    <3>2. Flags' \subseteq BOOLEAN
      BY <2>4 DEF Exit, Take, AskToEnd, worker, Flags
    <3>3. Places'
      BY <2>4 DEF Exit, Take, AskToEnd, Places
    <3> QED
      BY <2>4, <3>1, <3>2, <3>3, TakeType DEF Exit, Take, AskToEnd, worker, Flags, Places
  <2>5. CASE Start
    BY <2>5, TakeType DEF Start, Take, CallExe, worker
  <2>6. CASE Restart
    <3>1. proc' \in [Pids -> {"up", "asked", "zombie", "free"}]
      BY <2>6, SignalledType DEF Restart, AskToEnd
    <3>2. Flags' \subseteq BOOLEAN
      BY <2>6 DEF Restart, Take, CallExe, AskToEnd, worker, Flags
    <3>3. Places'
      BY <2>6 DEF Restart, Take, CallExe, AskToEnd, Places
    <3> QED
      BY <2>6, <3>1, <3>2, <3>3, TakeType DEF Restart, Take, AskToEnd, worker, Flags, Places
  <2>7. CASE NoChild \/ ChildRuns
    BY <2>7 DEF NoChild, ChildRuns, worker, flags, world
  <2>8. CASE Reap
    <3>1. proc' \in [Pids -> {"up", "asked", "zombie", "free"}]
      BY <2>8 DEF Reap
    <3>2. Flags' \subseteq BOOLEAN
      BY <2>8 DEF Reap, worker, Flags
    <3>3. Places'
      BY <2>8 DEF Reap, Places
    <3> QED
      BY <2>8, <3>1, <3>2, <3>3 DEF Reap, worker, Flags, Places
  <2>9. CASE Reaped
    <3>1. Flags' \subseteq BOOLEAN
      BY <2>9 DEF Reaped, CallExe, world, Flags
    <3>2. Places' /\ oldCmd' \in Commands
      BY <2>9 DEF Reaped, CallExe, Places, Commands
    <3> QED
      BY <2>9, <3>1, <3>2 DEF Reaped, worker, world, Flags, Places
  <2>10. CASE ExitHalted \/ ExeHalted \/ ForkFails \/ Ended
    BY <2>10 DEF ExitHalted, ExeHalted, ForkFails, Ended, worker, flags, world
  <2>11. CASE Fork
    <3>1. PICK p \in Pids \ {pID, childPid} :
            /\ proc' = [proc EXCEPT ![p] = "up"] /\ pID' = p
            /\ overtaken' = IF back = "wait" /\ runKiller THEN overtaken \cup {p}
                            ELSE overtaken \ {p}
      BY <2>11 DEF Fork
    <3>2. /\ proc' \in [Pids -> {"up", "asked", "zombie", "free"}] /\ pID' \in Pids
          /\ overtaken' \subseteq Pids
      BY <3>1
    <3>3. Flags' \subseteq BOOLEAN
      BY <2>11 DEF Fork, Flags
    <3> QED
      BY <2>11, <3>2, <3>3 DEF Fork, worker, Flags
  <2>12. CASE WorkerStarted
    BY <2>12 DEF WorkerStarted, worker, world
  <2> QED
    BY <1>1, <2>1, <2>2, <2>3, <2>4, <2>5, <2>6, <2>7, <2>8, <2>9, <2>10, <2>11, <2>12 DEF Main
<1>2. CASE Worker
  <2>1. CASE WorkerTop \/ WorkerClaims
    BY <2>1 DEF WorkerTop, WorkerClaims, main, world
  <2>2. CASE WorkerTurn
    <3>1. /\ StopTime \in Nat /\ 0 \in 0..StopTime
          /\ (Turns < StopTime => Turns \in 0..StopTime) /\ StopTime \in 0..StopTime
      BY ServiceAssumption DEF Turns
    <3>2. waited' \in 0..StopTime
      BY <2>2, <3>1 DEF WorkerTurn
    <3>3. proc' \in [Pids -> {"up", "asked", "zombie", "free"}]
      BY <2>2, SignalledType DEF WorkerTurn
    <3>4. wpc' \in {"top", "claim", "read", "kill", "exited"}
      BY <2>2 DEF WorkerTurn
    <3> QED
      BY <2>2, <3>2, <3>3, <3>4 DEF WorkerTurn, main, flags
  <2>3. CASE WorkerKills
    <3>1. proc' \in [Pids -> {"up", "asked", "zombie", "free"}]
      BY <2>3 DEF WorkerKills
    <3> QED
      BY <2>3, <3>1 DEF WorkerKills, main, flags
  <2> QED
    BY <1>2, <2>1, <2>2, <2>3 DEF Worker
<1>3. ASSUME NEW p \in Pids, ChildEnds(p) PROVE TypeOK'
  BY <1>3 DEF ChildEnds, main, worker, flags
<1>4. ASSUME NEW c \in Commands, Type(c) PROVE TypeOK'
  BY <1>4, ServiceAssumption DEF Type, MayAsk, main, worker, flags
<1>5. CASE Signal
  BY <1>5, ServiceAssumption DEF Signal, MayAsk, main, worker, flags
<1>6. CASE UNCHANGED vars
  BY <1>6 DEF vars, main, worker, flags, world
<1> QED
  BY <1>1, <1>2, <1>3, <1>4, <1>5, <1>6 DEF Next

\* Every action keeps the handshake of the main thread and the worker.
LEMMA HandshakeStep == IInv /\ [Next]_vars => Handshake'
<1> SUFFICES ASSUME IInv, [Next]_vars PROVE Handshake'
  OBVIOUS
<1> USE DEF IInv, Handshake, ToldOutside, FreeOnlyInRun, HaltAsked, HaltAnswered
<1>1. CASE Main
  <2>1. CASE DropRepeated \/ NothingToDo
    BY <2>1 DEF DropRepeated, NothingToDo, Take, main, worker, flags
  <2>2. CASE Stop \/ Exit
    BY <2>2 DEF Stop, Exit, Take, AskToEnd, worker
  <2>3. CASE Start \/ Restart
    BY <2>3 DEF Start, Restart, Take, CallExe, AskToEnd, worker
  <2>4. CASE NoChild \/ ChildRuns \/ ExitHalted \/ ExeHalted \/ ForkFails \/ Ended
    BY <2>4 DEF NoChild, ChildRuns, ExitHalted, ExeHalted, ForkFails, Ended, worker, flags
  <2>5. CASE Reap \/ Reaped
    BY <2>5 DEF Reap, Reaped, CallExe, worker
  <2>6. CASE Fork \/ WorkerStarted
    BY <2>6 DEF Fork, WorkerStarted, worker, TypeOK
  <2> QED
    BY <1>1, <2>1, <2>2, <2>3, <2>4, <2>5, <2>6 DEF Main
<1>2. CASE Worker
  BY <1>2 DEF Worker, WorkerTop, WorkerClaims, WorkerTurn, WorkerKills, main, flags
<1>3. CASE (\E p \in Pids : ChildEnds(p)) \/ (\E c \in Commands : Type(c)) \/ Signal
  BY <1>3 DEF ChildEnds, Type, Signal, main, worker, flags
<1>4. CASE UNCHANGED vars
  BY <1>4 DEF vars, main, worker, flags
<1> QED
  BY <1>1, <1>2, <1>3, <1>4 DEF Next

\* The inductive invariant.
LEMMA SpecIInv == Spec => []IInv
<1>1. IInv /\ [Next]_vars => IInv'
  BY TypeStep, HandshakeStep DEF IInv
<1> QED
  BY <1>1, InitIInv, PTL DEF Spec

\* svc stays well typed, for any number of children and commands; in particular no
\* command ever leaves the main thread waiting at a place the code does not have.
THEOREM ServiceTypeCorrect == Spec => []TypeOK
<1>1. IInv => TypeOK
  BY DEF IInv
<1> QED
  BY <1>1, SpecIInv, PTL

\* The flags stopWorker and workerStopped keep the worker out of ReadLog while the main
\* thread closes or replaces the pipes, however fast the commands come.
THEOREM PipesHaveOneUser == Spec => []OneUser
<1>1. IInv => OneUser
  BY DEF IInv, OneUser, Handshake, ToldOutside, FreeOnlyInRun, HaltAsked, HaltAnswered
<1> QED
  BY <1>1, SpecIInv, PTL

-----------------------------------------------------------------------------
\* The killer knows of the child the main thread waits for, except in StartWorker.
SameChild == pc \notin {"run", "failed"} => childPid = pID

\* A child that has ended by itself is replaced with the killer not armed, ...
StartsUnarmed ==
  pc = "haltReap" \/ (pc \in {"haltExe", "exe"} /\ back = "top") => ~runKiller

\* ... so that a new child under an armed killer has come by a command, ...
NewChild == pc = "run" /\ runKiller => pID \in overtaken

\* ... and an armed killer aims at such a child or at one that has been asked.
Aimed == runKiller => State(childPid) # "up" \/ childPid \in overtaken

KillerInv == SameChild /\ StartsUnarmed /\ NewChild /\ Aimed

\* Every action keeps what is known of the killer.
LEMMA KillerStep ==
  ASSUME TypeOK, KillerInv, [Next]_vars
  PROVE  KillerInv'
<1> USE DEF KillerInv, SameChild, StartsUnarmed, NewChild, Aimed, State
<1>1. CASE Main
  <2>1. CASE DropRepeated \/ NothingToDo
    BY <2>1 DEF DropRepeated, NothingToDo, Take, main, worker, flags
  <2>2. CASE Stop \/ Exit
    BY <2>2 DEF Stop, Exit, Take, AskToEnd, SaidAlive, Signalled, worker, TypeOK
  <2>3. CASE Start
    BY <2>3 DEF Start, Take, CallExe, worker
  <2>8. CASE Restart
    BY <2>8 DEF Restart, Take, CallExe, AskToEnd, SaidAlive, Signalled, worker, TypeOK
  <2>4. CASE NoChild \/ ChildRuns \/ ExitHalted \/ ExeHalted \/ ForkFails \/ Ended
    BY <2>4
    DEF NoChild, ChildRuns, ExitHalted, ExeHalted, ForkFails, Ended, worker, flags, world
  <2>5. CASE Reap \/ Reaped
    BY <2>5 DEF Reap, Reaped, CallExe, worker, world, TypeOK
  <2>6. CASE Fork
    <3>1. PICK p \in Pids \ {pID, childPid} :
            /\ proc' = [proc EXCEPT ![p] = "up"] /\ pID' = p
            /\ overtaken' = IF back = "wait" /\ runKiller THEN overtaken \cup {p}
                            ELSE overtaken \ {p}
      BY <2>6 DEF Fork
    <3>2. pc = "exe" /\ pc' = "run" /\ UNCHANGED <<childPid, runKiller, back>>
      BY <2>6 DEF Fork
    <3>3. childPid \in Pids => (proc'[childPid] = proc[childPid])
      BY <3>1 DEF TypeOK
    <3>4. childPid \in overtaken => childPid \in overtaken'
      BY <3>1
    <3>5. back \in {"top", "wait"}
      BY DEF TypeOK
    <3>6. Aimed'
      BY <3>2, <3>3, <3>4
    <3>7. NewChild'
      BY <3>1, <3>2, <3>5
    <3> QED
      BY <3>2, <3>6, <3>7
  <2>7. CASE WorkerStarted
    BY <2>7 DEF WorkerStarted, worker, world, TypeOK
  <2> QED
    BY <1>1, <2>1, <2>2, <2>3, <2>4, <2>5, <2>6, <2>7, <2>8 DEF Main
<1>2. CASE Worker
  <2>1. CASE WorkerTop \/ WorkerClaims
    BY <2>1 DEF WorkerTop, WorkerClaims, main, world
  <2>2. CASE WorkerTurn
    <3>1. proc' = proc \/ proc' = Signalled(childPid)
      BY <2>2 DEF WorkerTurn
    <3>2. \A p \in Pids : proc'[p] = "up" => proc[p] = "up"
      BY <3>1 DEF Signalled, TypeOK
    <3> QED
      BY <2>2, <3>2 DEF WorkerTurn, main, flags
  <2>3. CASE WorkerKills
    BY <2>3 DEF WorkerKills, Live, main, flags, TypeOK
  <2> QED
    BY <1>2, <2>1, <2>2, <2>3 DEF Worker
<1>3. ASSUME NEW p \in Pids, ChildEnds(p) PROVE KillerInv'
  BY <1>3 DEF ChildEnds, main, worker, flags, TypeOK
<1>4. ASSUME NEW c \in Commands, Type(c) PROVE KillerInv'
  BY <1>4 DEF Type, main, worker, flags
<1>5. CASE Signal
  BY <1>5 DEF Signal, main, worker, flags
<1>6. CASE UNCHANGED vars
  BY <1>6 DEF vars, main, worker, flags, world
<1> QED
  BY <1>1, <1>2, <1>3, <1>4, <1>5, <1>6 DEF Next

\* Only the worker's turn arms the signals, and only when the killer is armed.
LEMMA KillStep ==
  ASSUME TypeOK, KillerInv, Next
  PROVE  wpc' = "kill" /\ wpc # "kill"
           => State(childPid) # "up" \/ childPid \in overtaken
<1> SUFFICES ASSUME wpc' = "kill", wpc # "kill"
             PROVE  State(childPid) # "up" \/ childPid \in overtaken
  OBVIOUS
<1>1. WorkerTurn
  <2>1. ~Main
    BY DEF Main, DropRepeated, NothingToDo, Stop, Exit, Start, Restart, NoChild, ChildRuns, Reap,
       Reaped, ExitHalted, ExeHalted, Fork, ForkFails, WorkerStarted, Ended, Take, worker
  <2>2. ~WorkerTop /\ ~WorkerClaims /\ ~WorkerKills
    BY DEF WorkerTop, WorkerClaims, WorkerKills
  <2>3. /\ \A p \in Pids : ~ChildEnds(p)
        /\ \A c \in Commands : ~Type(c)
        /\ ~Signal
    BY DEF ChildEnds, Type, Signal, worker
  <2> QED
    BY <2>1, <2>2, <2>3 DEF Next, Worker
<1>2. Turns >= StopTime
  BY <1>1 DEF WorkerTurn
<1>3. runKiller
  BY <1>2, ServiceAssumption DEF Turns
<1> QED
  BY <1>3 DEF KillerInv, Aimed

\* However fast the commands come: "Child process is hung" is said only of a child that
\* somebody asked to end, or of one that a command started in the place of another while
\* svc was still waiting to kill that.  In particular a child that svc itself starts
\* again, its predecessor having ended, is never struck for its predecessor.
THEOREM KillerRestrained == Spec => KillsOnlyHung
<1>1. Init => KillerInv
  BY DEF Init, KillerInv, SameChild, StartsUnarmed, NewChild, Aimed
<1>2. IInv /\ KillerInv /\ [Next]_vars => KillerInv'
  BY KillerStep DEF IInv
<1>3. IInv /\ KillerInv /\ [Next]_vars
        => [wpc' = "kill" /\ wpc # "kill"
              => State(childPid) # "up" \/ childPid \in overtaken]_vars
  BY KillStep DEF IInv
<1> QED
  BY <1>1, <1>2, <1>3, SpecIInv, PTL DEF Spec, KillsOnlyHung
=============================================================================
