------------------------------- MODULE Service -------------------------------
(***************************************************************************)
(* svc (minisw/service/svc.cxx): the program that runs one other program   *)
(* as a service.  The main thread obeys the commands that come by stdin,   *)
(* starts the child and reaps it; the worker reads the child's output and, *)
(* when it has been asked to end and does not, kills it.  The two agree    *)
(* over two flags on who may use the pipes.                                *)
(***************************************************************************)
EXTENDS Integers

CONSTANTS
  Pids,         \* process numbers of the children, reused when reaped
  LogModes,     \* whether "log" may be in the argument
  StopTime,     \* "stop_time", in turns of the worker
  MaxCommands   \* bound: commands and signals

ASSUME ServiceAssumption ==
  /\ Pids \subseteq Nat \ {0}
  /\ LogModes \subseteq BOOLEAN
  /\ StopTime \in Nat \ {0} /\ MaxCommands \in Nat

NoPid == -1
NoCommand == "no command"
Commands == {"start", "stop", "restart", "exit"}

VARIABLES
  \* main thread
  pc,            \* where it is: "halt..." waits in StopWorker, "run" in StartWorker
  back,          \* where Exe returns to
  stat, oldCmd,
  lpID,          \* the last waitpid: "alive" (0), "none" (-1), "reaped" (a pid), "unset"
  pID,
  logEnable,     \* from the argument, never changed
  \* worker
  wpc,
  waited,        \* turns since stime was taken
  \* shared by the two
  childPid, runKiller, stopWorker, workerStopped, exitWorker,
  \* the world
  command, doExit,
  proc,          \* the children: "up", "asked" (to end), "zombie", "free"
  overtaken,     \* children a command started while the killer was armed for another
  typed

main == <<pc, back, stat, oldCmd, lpID, pID>>
worker == <<wpc, waited, logEnable>>
flags == <<childPid, runKiller, stopWorker, workerStopped, exitWorker>>
world == <<command, doExit, proc, overtaken, typed>>
vars == <<main, worker, flags, world>>

TypeOK ==
  /\ pc \in {"top", "wait", "haltExe", "haltReap", "haltExit", "exe", "run", "end",
            "exited", "failed"}
  /\ back \in {"top", "wait"}
  /\ stat \in {"START", "STOP", "RESTART", "EXIT", "NONE"}
  /\ oldCmd \in Commands
  /\ lpID \in {"alive", "none", "reaped", "unset"}
  /\ pID \in Pids \cup {NoPid} /\ childPid \in Pids \cup {NoPid}
  /\ wpc \in {"top", "claim", "read", "kill", "exited"}
  /\ waited \in 0..StopTime /\ logEnable \in LogModes
  /\ runKiller \in BOOLEAN /\ stopWorker \in BOOLEAN
  /\ workerStopped \in BOOLEAN /\ exitWorker \in BOOLEAN
  /\ command \in Commands \cup {NoCommand} /\ doExit \in BOOLEAN
  /\ proc \in [Pids -> {"up", "asked", "zombie", "free"}]
  /\ overtaken \subseteq Pids
  /\ typed \in 0..MaxCommands

\* The process has not ended.
Runs == pc \notin {"exited", "failed"}

\* RunWorker has been called, and the first Exe is at its StopWorker.
Init ==
  /\ pc = "haltExe" /\ back = "top"
  /\ stat = "START" /\ oldCmd = "start"
  /\ lpID = "unset"
  /\ pID = NoPid /\ childPid = NoPid
  /\ wpc = "top" /\ waited = 0 /\ logEnable \in LogModes
  /\ runKiller = FALSE /\ exitWorker = FALSE
  /\ stopWorker = TRUE /\ workerStopped = TRUE
  /\ command = NoCommand /\ doExit = FALSE
  /\ proc = [p \in Pids |-> "free"]
  /\ overtaken = {} /\ typed = 0

-----------------------------------------------------------------------------
(***************************************************************************)
(* The main thread: one pass of its loop is a command, a waitpid and a     *)
(* sleep.                                                                  *)
(***************************************************************************)
Live(p) == p \in Pids /\ proc[p] \in {"up", "asked"}
State(p) == IF p \in Pids THEN proc[p] ELSE "free"

\* kill with a signal that a process may ignore.
Signalled(p) == [q \in Pids |-> IF q = p /\ proc[q] = "up" THEN "asked" ELSE proc[q]]

\* A command equal to the one before it is dropped, with what is left of the pass.
Repeated == command = oldCmd /\ command # "exit"
Cmd == IF doExit THEN "exit" ELSE command
Take ==
  /\ pc = "top" /\ ~Repeated
  /\ command' = NoCommand
  /\ oldCmd' = IF command = NoCommand THEN oldCmd ELSE command
  /\ UNCHANGED <<worker, doExit, overtaken, typed>>

\* What the last waitpid said of the pid: the first pass of the loop uses lpID before
\* it has been assigned, and it may say either.
SaidAlive == lpID # "none" /\ pID \in Pids
SaidDead == lpID \in {"none", "unset"} \/ pID = NoPid

\* Deviation: the killer is not armed.
AskOnly ==
  /\ proc' = Signalled(pID)
  /\ UNCHANGED <<childPid, runKiller, workerStopped, exitWorker>>

\* SIGINT, and the killer is armed.
AskToEnd ==
  /\ proc' = Signalled(pID)
  /\ runKiller' = TRUE
  /\ UNCHANGED <<childPid, workerStopped, exitWorker>>

DropRepeated ==
  /\ pc = "top" /\ Repeated
  /\ command' = NoCommand
  /\ UNCHANGED <<main, worker, flags, doExit, proc, overtaken, typed>>

NothingToDo ==
  /\ Take /\ Cmd = NoCommand
  /\ pc' = "wait"
  /\ UNCHANGED <<back, stat, lpID, pID, flags, proc>>

Stop ==
  /\ Take /\ Cmd = "stop"
  /\ \/ SaidAlive /\ stat' = "STOP" /\ AskToEnd
     \/ /\ SaidDead /\ stat' = "NONE"
        /\ UNCHANGED <<childPid, runKiller, workerStopped, exitWorker, proc>>
  /\ pc' = "wait"
  /\ UNCHANGED <<back, lpID, pID, stopWorker>>

\* With logging, the output is not read any more: the worker is stopped, the killer
\* it would be with it.
Exit ==
  /\ Take /\ Cmd = "exit"
  /\ stat' = "EXIT"
  /\ \/ /\ SaidAlive /\ AskToEnd
        /\ \/ logEnable /\ stopWorker' = TRUE /\ pc' = "haltExit"
           \/ ~logEnable /\ UNCHANGED stopWorker /\ pc' = "wait"
     \/ /\ SaidDead /\ exitWorker' = TRUE /\ pc' = "end"
        /\ UNCHANGED <<childPid, runKiller, stopWorker, workerStopped, proc>>
  /\ UNCHANGED <<back, lpID, pID>>

\* Exe begins with StopWorker.
CallExe(return) ==
  /\ pc' = "haltExe" /\ back' = return
  /\ stopWorker' = TRUE

Start ==
  /\ Take /\ Cmd = "start"
  /\ stat' = "START" /\ CallExe("wait")
  /\ UNCHANGED <<lpID, pID, childPid, runKiller, workerStopped, exitWorker, proc>>

Restart ==
  /\ Take /\ Cmd = "restart"
  /\ \/ /\ SaidAlive /\ stat' = "RESTART" /\ AskToEnd
        /\ pc' = "wait" /\ UNCHANGED <<back, stopWorker>>
     \/ /\ SaidDead /\ stat' = "NONE" /\ CallExe("wait")
        /\ UNCHANGED <<childPid, runKiller, workerStopped, exitWorker, proc>>
  /\ UNCHANGED <<lpID, pID>>

\* waitpid: no such child; it runs; it has ended.
NoChild ==
  /\ pc = "wait" /\ State(pID) = "free"
  /\ lpID' = "none" /\ pc' = "top"
  /\ UNCHANGED <<back, stat, oldCmd, pID, worker, flags, world>>

ChildRuns ==
  /\ pc = "wait" /\ Live(pID)
  /\ lpID' = "alive" /\ pc' = "top"
  /\ UNCHANGED <<back, stat, oldCmd, pID, worker, flags, world>>

\* Deviation: the killer stays armed.
ReapArmed ==
  /\ pc = "wait" /\ State(pID) = "zombie"
  /\ proc' = [proc EXCEPT ![pID] = "free"]
  /\ lpID' = "reaped"
  /\ stopWorker' = TRUE /\ pc' = "haltReap"
  /\ UNCHANGED <<back, stat, oldCmd, pID, worker, childPid, runKiller, workerStopped,
                 exitWorker, command, doExit, overtaken, typed>>

Reap ==
  /\ pc = "wait" /\ State(pID) = "zombie"
  /\ proc' = [proc EXCEPT ![pID] = "free"]
  /\ lpID' = "reaped"
  /\ runKiller' = FALSE /\ stopWorker' = TRUE
  /\ pc' = "haltReap"
  /\ UNCHANGED <<back, stat, oldCmd, pID, worker, childPid, workerStopped, exitWorker,
                 command, doExit, overtaken, typed>>

\* A child that has ended is started again, unless a stop or an exit was the reason.
Reaped ==
  /\ pc = "haltReap" /\ workerStopped
  /\ oldCmd' = IF stat = "RESTART" THEN "start" ELSE oldCmd
  /\ CASE stat = "EXIT" ->
            exitWorker' = TRUE /\ pc' = "end" /\ UNCHANGED <<back, stopWorker>>
       [] stat \in {"START", "RESTART"} -> CallExe("top") /\ UNCHANGED exitWorker
       [] OTHER -> pc' = "top" /\ UNCHANGED <<back, stopWorker, exitWorker>>
  /\ UNCHANGED <<stat, lpID, pID, worker, childPid, runKiller, workerStopped, world>>

\* StopWorker waits for the worker, then the pipes are closed.
ExitHalted ==
  /\ pc = "haltExit" /\ workerStopped
  /\ pc' = "wait"
  /\ UNCHANGED <<back, stat, oldCmd, lpID, pID, worker, flags, world>>

\* Deviation: StopWorker does not wait.
ExeAtOnce ==
  /\ pc = "haltExe"
  /\ pc' = "exe"
  /\ UNCHANGED <<back, stat, oldCmd, lpID, pID, worker, flags, world>>

ExeHalted ==
  /\ pc = "haltExe" /\ workerStopped
  /\ pc' = "exe"
  /\ UNCHANGED <<back, stat, oldCmd, lpID, pID, worker, flags, world>>

\* New pipes, fork; StartWorker lets the worker go.
Fork ==
  /\ pc = "exe"
  /\ \E p \in Pids \ {pID, childPid} :
       /\ proc[p] = "free"
       /\ proc' = [proc EXCEPT ![p] = "up"]
       /\ pID' = p
       /\ overtaken' = IF back = "wait" /\ runKiller THEN overtaken \cup {p}
                       ELSE overtaken \ {p}
  /\ stopWorker' = FALSE
  /\ pc' = "run"
  /\ UNCHANGED <<back, stat, oldCmd, lpID, worker, childPid, runKiller, workerStopped,
                 exitWorker, command, doExit, typed>>

\* fork() has failed, for the child or, the first time, for its logger: exit(-1).
ForkFails ==
  /\ \/ pc = "exe"
     \/ pc = "run" /\ (~workerStopped \/ wpc = "exited") /\ logEnable /\ childPid = NoPid
  /\ pc' = "failed"
  /\ UNCHANGED <<back, stat, oldCmd, lpID, pID, worker, flags, world>>

\* Only now does the killer know of the new child.
WorkerStarted ==
  /\ pc = "run" /\ (~workerStopped \/ wpc = "exited")
  /\ childPid' = pID
  /\ pc' = back
  /\ UNCHANGED <<back, stat, oldCmd, lpID, pID, worker, runKiller, stopWorker,
                 workerStopped, exitWorker, world>>

Ended ==
  /\ pc = "end" /\ wpc = "exited"
  /\ pc' = "exited"
  /\ UNCHANGED <<back, stat, oldCmd, lpID, pID, worker, flags, world>>

Main ==
  \/ DropRepeated \/ NothingToDo \/ Stop \/ Exit \/ Start \/ Restart
  \/ NoChild \/ ChildRuns \/ Reap \/ Reaped
  \/ ExitHalted \/ ExeHalted \/ Fork \/ ForkFails \/ WorkerStarted \/ Ended

-----------------------------------------------------------------------------
(***************************************************************************)
(* WorkerThread                                                            *)
(***************************************************************************)
WorkerTop ==
  /\ wpc = "top" /\ Runs
  /\ IF exitWorker \/ doExit THEN wpc' = "exited" /\ workerStopped' = TRUE
     ELSE IF stopWorker THEN workerStopped' = TRUE /\ UNCHANGED wpc
     ELSE wpc' = "claim" /\ UNCHANGED workerStopped
  /\ UNCHANGED <<main, waited, logEnable, childPid, runKiller, stopWorker, exitWorker,
                 world>>

WorkerClaims ==
  /\ wpc = "claim" /\ Runs
  /\ wpc' = "read" /\ workerStopped' = FALSE
  /\ UNCHANGED <<main, waited, logEnable, childPid, runKiller, stopWorker, exitWorker,
                 world>>

\* The output has been read.  stime stands still while the killer is armed; once
\* stop_time has passed, five signals are sent, and a second later SIGKILL.
Turns == IF runKiller THEN waited + 1 ELSE 0

\* Deviation: stime is not taken anew after the signals.
WorkerTurnNoReset ==
  /\ wpc = "read" /\ Runs
  /\ waited' = Turns
  /\ IF Turns >= StopTime /\ childPid # NoPid
     THEN wpc' = "kill" /\ proc' = Signalled(childPid)
     ELSE wpc' = "top" /\ UNCHANGED proc
  /\ UNCHANGED <<main, logEnable, flags, command, doExit, overtaken, typed>>

WorkerTurn ==
  /\ wpc = "read" /\ Runs
  /\ IF Turns >= StopTime /\ childPid # NoPid
     THEN /\ waited' = 0 /\ wpc' = "kill"
          /\ proc' = Signalled(childPid)
     ELSE /\ waited' = IF Turns < StopTime THEN Turns ELSE StopTime
          /\ wpc' = "top"
          /\ UNCHANGED proc
  /\ UNCHANGED <<main, logEnable, flags, command, doExit, overtaken, typed>>

WorkerKills ==
  /\ wpc = "kill" /\ Runs
  /\ wpc' = "top"
  /\ proc' = IF Live(childPid) THEN [proc EXCEPT ![childPid] = "zombie"] ELSE proc
  /\ UNCHANGED <<main, waited, logEnable, flags, command, doExit, overtaken, typed>>

Worker == WorkerTop \/ WorkerClaims \/ WorkerTurn \/ WorkerKills

-----------------------------------------------------------------------------
(***************************************************************************)
(* The children, which may end at any time and need not when asked to, and *)
(* whoever gives the commands.                                             *)
(***************************************************************************)
ChildEnds(p) ==
  /\ proc[p] \in {"up", "asked"}
  /\ proc' = [proc EXCEPT ![p] = "zombie"]
  /\ UNCHANGED <<main, worker, flags, command, doExit, overtaken, typed>>

MayAsk == Runs /\ typed < MaxCommands

\* IsThread puts a command, at any time, where the last one may still be.
Type(c) ==
  /\ MayAsk
  /\ command' = c /\ typed' = typed + 1
  /\ UNCHANGED <<main, worker, flags, doExit, proc, overtaken>>

\* A signal (forward_handler, which has no pid to pass it on to), or the end of stdin.
Signal ==
  /\ MayAsk
  /\ doExit' = TRUE /\ typed' = typed + 1
  /\ UNCHANGED <<main, worker, flags, command, proc, overtaken>>

Next ==
  \/ Main \/ Worker
  \/ \E p \in Pids : ChildEnds(p)
  \/ \E c \in Commands : Type(c)
  \/ Signal

Spec == Init /\ [][Next]_vars

\* The two threads run.  Nothing is promised of the children.
FairSpec == Spec /\ WF_vars(Main) /\ WF_vars(Worker)

-----------------------------------------------------------------------------
\* While the main thread closes the pipes (the end of StopWorker) or makes new ones, the
\* worker is outside ReadLog and kills nothing: it never reads a descriptor, nor strikes
\* at a pid, that has become another's.
OneUser ==
  pc = "exe" \/ (pc \in {"haltExe", "haltReap", "haltExit"} /\ workerStopped)
    => wpc \notin {"claim", "read", "kill"}

\* "Child process is hung..., force kill" (the worker's log): the killer strikes only a
\* child that has been asked to end and has not, or one that a start or restart gave the
\* place of another while the killer was still armed for that: commands that overtook the
\* end of the child.
KillsOnlyHung ==
  [][wpc' = "kill" /\ wpc # "kill"
       => State(childPid) # "up" \/ childPid \in overtaken]_vars

\* However fast the commands come, what was asked last happens once they cease, as long
\* as no fork fails: a child that was asked to stop is gone for good even if it ignores
\* SIGINT; a started one that ends is up again and again; a restart that finds a child
\* brings it up; an exit that finds one, and every signal, ends svc.  Once an exit with
\* logging has stopped the worker, or a signal has ended it, the killer is gone before
\* the child is, and svc waits for a child that ignores SIGINT.
Obeys ==
  /\ <>[](Runs /\ stat = "STOP" /\ ~doExit => ~Live(pID) \/ stopWorker)
  /\ []<>(Runs /\ oldCmd = "start" /\ ~doExit => State(pID) = "up")
  /\ stat = "RESTART" /\ State(pID) # "free"
       ~> \/ ~Runs \/ stat # "RESTART" \/ doExit \/ State(pID) = "up"
          \/ stopWorker /\ Live(pID)
  /\ stat = "EXIT" /\ (doExit \/ State(pID) # "free")
       ~> ~Runs \/ stat # "EXIT" \/ ((logEnable \/ doExit) /\ Live(pID))
=============================================================================
