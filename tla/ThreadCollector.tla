--------------------------- MODULE ThreadCollector ---------------------------
(***************************************************************************)
(* ThreadCollector (engine.cxx) and the threads it runs (thread.cxx,       *)
(* thread_basic.cxx).  The main thread runs RunAll once; the collector's   *)
(* own Loop then runs or restarts threads when the messages come for which *)
(* AddModule and AddAction made an entry.  Thread_baseT::Run is three      *)
(* steps without a lock: it marks the thread active, looks whether there   *)
(* is a handle of an earlier pthread, and if not creates one, which may    *)
(* fail without anybody taking notice.                                     *)
(*                                                                         *)
(* Timers are reduced to "the interval is over".  RemoveAll is not         *)
(* modelled: its only caller is disabled (#if 0, global.cxx).              *)
(***************************************************************************)
EXTENDS Naturals, Sequences, FiniteSets

CONSTANTS Threads,       \* keys of coll
          Entries,       \* coll_params, in order
          Messages,      \* message types
          SelfStopping,  \* threads whose Loop may return without TERMReq
          MaxMessages,   \* bound on the messages that arrive
          MaxFailed      \* bound on the threads whose pthread_create fails

Types == {"ONCE_ALWAYS", "ONCE_ONMSG", "RESTART_ONMSG"}

EntryType == [thr : Threads, type : Types, msg : Messages, wdt : BOOLEAN]

ASSUME CollectorAssumption ==
  /\ Entries \in Seq(EntryType)
  /\ SelfStopping \subseteq Threads
  /\ MaxMessages \in Nat /\ MaxFailed \in Nat

\* No thread is started both by RunAll and by a message.  AddModule and AddAction do
\* not see to it: it is for who fills the table.
StartersApart ==
  \A m, n \in DOMAIN Entries :
    Entries[m].type = "ONCE_ALWAYS" /\ Entries[n].type # "ONCE_ALWAYS"
      => Entries[m].thr # Entries[n].thr

VARIABLES active,      \* active[t]: TERMState is ACTIVE_STATE_RISE
          TERMReq,     \* TERMReq[t]
          thr,         \* thr[t]: the handle is not 0
          inLoop,      \* inLoop[t]: number of t's pthreads in LoopServer
          leaving,     \* leaving[t]: number of those that have just left it
          failed,      \* threads a pthread_create has failed for
          mainPc,      \* entry RunAll looks at
          mainNext,    \* what RunAll does next
          pc,          \* what the collector does next
          entry,       \* entry the collector looks at
          msg,         \* message it is handling
          inbox,       \* its queue
          firstStart, enAatWDT,
          rtOver,      \* rtOver[n]: repeated_thread_delay is over
          wdtOver,     \* wdtOver[n]: anyActionTimeoutWDT is over
          restart,     \* SendRestartNecron was called
          arrived      \* number of messages that have come

threads == <<active, TERMReq, thr, inLoop, leaving, failed>>
main == <<mainPc, mainNext>>
collector == <<pc, entry, msg, firstStart, enAatWDT>>
timers == <<rtOver, wdtOver>>
vars == <<threads, main, collector, inbox, timers, restart, arrived>>

Index == DOMAIN Entries
NoMessage == "none"

TypeOK ==
  /\ active \in [Threads -> BOOLEAN] /\ TERMReq \in [Threads -> BOOLEAN]
  /\ thr \in [Threads -> BOOLEAN]
  /\ inLoop \in [Threads -> Nat] /\ leaving \in [Threads -> Nat]
  /\ failed \subseteq Threads
  /\ mainPc \in 0..Len(Entries) + 1 /\ mainNext \in {"run", "look", "create"}
  /\ pc \in {"off", "alarm", "get", "scan", "look", "create", "wait", "cancel", "start"}
  /\ entry \in 1..Len(Entries) + 1
  /\ msg \in Messages \cup {NoMessage}
  /\ inbox \in Seq(Messages)
  /\ firstStart \in [Index -> BOOLEAN] /\ enAatWDT \in [Index -> BOOLEAN]
  /\ rtOver \in [Index -> BOOLEAN] /\ wdtOver \in [Index -> BOOLEAN]
  /\ restart \in BOOLEAN
  /\ arrived \in 0..MaxMessages

Init ==
  /\ active = [t \in Threads |-> FALSE]
  /\ TERMReq = [t \in Threads |-> FALSE]
  /\ thr = [t \in Threads |-> FALSE]
  /\ inLoop = [t \in Threads |-> 0]
  /\ leaving = [t \in Threads |-> 0]
  /\ failed = {}
  /\ mainPc = 0 /\ mainNext = "run"
  /\ pc = "off" /\ entry = 1 /\ msg = NoMessage /\ inbox = << >>
  /\ firstStart = [n \in Index |-> TRUE]
  /\ enAatWDT = [n \in Index |-> Entries[n].wdt]
  /\ rtOver = [n \in Index |-> FALSE]
  /\ wdtOver = [n \in Index |-> FALSE]
  /\ restart = FALSE
  /\ arrived = 0

(***************************************************************************)
(* Thread_baseT.                                                           *)
(***************************************************************************)
\* First step of Run.
Mark(t) == active' = [active EXCEPT ![t] = TRUE]

\* StartPthread when there was no handle.  A pthread_create that fails leaves the
\* handle undefined; Run looks at no result, and the thread stays active.
PthreadCreate(t) ==
  \/ /\ thr' = [thr EXCEPT ![t] = TRUE]
     /\ inLoop' = [inLoop EXCEPT ![t] = @ + 1]
     /\ UNCHANGED failed
  \/ /\ Cardinality(failed) < MaxFailed
     /\ \E h \in BOOLEAN : thr' = [thr EXCEPT ![t] = h]
     /\ failed' = failed \cup {t}
     /\ UNCHANGED inLoop

\* ThrWrapper: Loop returns, and then TERMState is set.
LoopReturns(t) ==
  /\ inLoop[t] > 0 /\ (TERMReq[t] \/ t \in SelfStopping)
  /\ inLoop' = [inLoop EXCEPT ![t] = @ - 1]
  /\ leaving' = [leaving EXCEPT ![t] = @ + 1]
  /\ UNCHANGED <<active, TERMReq, thr, failed, main, collector, inbox, timers, restart, arrived>>

ThrWrapperEnds(t) ==
  /\ leaving[t] > 0
  /\ leaving' = [leaving EXCEPT ![t] = @ - 1]
  /\ active' = [active EXCEPT ![t] = FALSE]
  /\ UNCHANGED <<TERMReq, thr, inLoop, failed, main, collector, inbox, timers, restart, arrived>>

(***************************************************************************)
(* RunAll, on the main thread.                                             *)
(***************************************************************************)
RunCollector ==
  /\ mainPc = 0
  /\ mainPc' = 1 /\ pc' = "alarm"
  /\ UNCHANGED <<threads, mainNext, entry, msg, firstStart, enAatWDT,
                 inbox, timers, restart, arrived>>

RunAllMarks ==
  /\ mainPc \in Index /\ mainNext = "run"
  /\ IF Entries[mainPc].type = "ONCE_ALWAYS"
     THEN Mark(Entries[mainPc].thr) /\ mainNext' = "look" /\ UNCHANGED mainPc
     ELSE mainPc' = mainPc + 1 /\ UNCHANGED <<active, mainNext>>
  /\ UNCHANGED <<TERMReq, thr, inLoop, leaving, failed, collector, inbox, timers,
                 restart, arrived>>

RunAllLooks ==
  /\ mainNext = "look"
  /\ IF thr[Entries[mainPc].thr]
     THEN mainNext' = "run" /\ mainPc' = mainPc + 1
     ELSE mainNext' = "create" /\ UNCHANGED mainPc
  /\ UNCHANGED <<threads, collector, inbox, timers, restart, arrived>>

RunAllCreates ==
  /\ mainNext = "create"
  /\ PthreadCreate(Entries[mainPc].thr)
  /\ mainNext' = "run" /\ mainPc' = mainPc + 1
  /\ UNCHANGED <<active, TERMReq, leaving, collector, inbox, timers, restart, arrived>>

(***************************************************************************)
(* ThreadCollector::Loop.                                                  *)
(***************************************************************************)
\* Deviation: the timeout is looked at for entries that have been started.
AlarmedStarted(n) == enAatWDT[n] /\ ~firstStart[n] /\ wdtOver[n]

Alarmed(n) == enAatWDT[n] /\ firstStart[n] /\ wdtOver[n]

\* aatWDT_RTC rings once; SendRestartNecron for each that does.
CheckAlarms ==
  /\ pc = "alarm"
  /\ restart' = (restart \/ \E n \in Index : Alarmed(n))
  /\ pc' = "get"
  /\ UNCHANGED <<threads, main, entry, msg, firstStart, enAatWDT, inbox, timers, arrived>>

GetMessage ==
  /\ pc = "get" /\ inbox # << >>
  /\ msg' = Head(inbox) /\ inbox' = Tail(inbox)
  /\ entry' = 1 /\ pc' = "scan"
  /\ UNCHANGED <<threads, main, firstStart, enAatWDT, timers, restart, arrived>>

\* The queue is empty: mdelay and the next turn of the loop.
Sleep ==
  /\ pc = "get" /\ inbox = << >>
  /\ pc' = "alarm"
  /\ UNCHANGED <<threads, main, entry, msg, firstStart, enAatWDT,
                 inbox, timers, restart, arrived>>

Current == Entries[entry]
Concerned == Current.type # "ONCE_ALWAYS" /\ Current.msg = msg
Due == rtOver[entry] \/ firstStart[entry]

\* The entry is not for this message, or the "delay [is] not sustained".
PassEntry ==
  /\ pc = "scan" /\ entry \in Index /\ ~(Concerned /\ Due)
  /\ entry' = entry + 1
  /\ UNCHANGED <<threads, main, pc, msg, firstStart, enAatWDT, inbox, timers, restart, arrived>>

\* rt.alarm() starts the delay again, but only when it was over.
Accept ==
  /\ pc = "scan" /\ entry \in Index /\ Concerned /\ Due
  /\ rtOver' = [rtOver EXCEPT ![entry] = FALSE]
  /\ firstStart' = [firstStart EXCEPT ![entry] = FALSE]
  /\ enAatWDT' = [enAatWDT EXCEPT ![entry] = FALSE]
  /\ UNCHANGED <<thr, inLoop, leaving, failed, main, msg, inbox, wdtOver, restart, arrived>>

RunStopped ==
  /\ Accept /\ ~active[Current.thr]
  /\ Mark(Current.thr)
  /\ pc' = "look"
  /\ UNCHANGED <<TERMReq, entry>>

SkipRunning ==
  /\ Accept /\ active[Current.thr] /\ Current.type = "ONCE_ONMSG"
  /\ entry' = entry + 1
  /\ UNCHANGED <<active, TERMReq, pc>>

\* Stop: the request, the wait for TERMState, and Thread_baseT::Stop.
StopRequest ==
  /\ Accept /\ active[Current.thr] /\ Current.type = "RESTART_ONMSG"
  /\ TERMReq' = [TERMReq EXCEPT ![Current.thr] = TRUE]
  /\ pc' = "wait"
  /\ UNCHANGED <<active, entry>>

\* Deviation: TERMState is not waited for.
StopAtOnce ==
  /\ pc = "wait"
  /\ pc' = "cancel"
  /\ UNCHANGED <<threads, main, entry, msg, firstStart, enAatWDT,
                 inbox, timers, restart, arrived>>

StopWaits ==
  /\ pc = "wait" /\ ~active[Current.thr]
  /\ pc' = "cancel"
  /\ UNCHANGED <<threads, main, entry, msg, firstStart, enAatWDT,
                 inbox, timers, restart, arrived>>

\* Deviation: the pthread is taken to be in its Loop still.
StopPthreadKills ==
  /\ pc = "cancel"
  /\ thr' = [thr EXCEPT ![Current.thr] = FALSE]
  /\ inLoop' = [inLoop EXCEPT ![Current.thr] = @ - 1]
  /\ pc' = "start"
  /\ UNCHANGED <<active, TERMReq, leaving, failed, main, entry, msg, firstStart,
                 enAatWDT, inbox, timers, restart, arrived>>

\* Deviation: the handle is left as it is.
StopPthreadKeeps ==
  /\ pc = "cancel"
  /\ pc' = "start"
  /\ UNCHANGED <<threads, main, entry, msg, firstStart, enAatWDT,
                 inbox, timers, restart, arrived>>

\* StopPthread: the pthread is detached, so that pthread_join does not wait
\* for it; the handle is cleared in any case.
StopPthread ==
  /\ pc = "cancel"
  /\ thr' = [thr EXCEPT ![Current.thr] = FALSE]
  /\ pc' = "start"
  /\ UNCHANGED <<active, TERMReq, inLoop, leaving, failed, main, entry, msg, firstStart,
                 enAatWDT, inbox, timers, restart, arrived>>

Start ==
  /\ pc = "start"
  /\ TERMReq' = [TERMReq EXCEPT ![Current.thr] = FALSE]
  /\ Mark(Current.thr)
  /\ pc' = "look"
  /\ UNCHANGED <<thr, inLoop, leaving, failed, main, entry, msg, firstStart, enAatWDT,
                 inbox, timers, restart, arrived>>

Look ==
  /\ pc = "look"
  /\ IF thr[Current.thr]
     THEN entry' = entry + 1 /\ pc' = "scan"
     ELSE pc' = "create" /\ UNCHANGED entry
  /\ UNCHANGED <<threads, main, msg, firstStart, enAatWDT, inbox, timers, restart, arrived>>

Create ==
  /\ pc = "create"
  /\ PthreadCreate(Current.thr)
  /\ entry' = entry + 1 /\ pc' = "scan"
  /\ UNCHANGED <<active, TERMReq, leaving, main, msg, firstStart, enAatWDT,
                 inbox, timers, restart, arrived>>

MessageDone ==
  /\ pc = "scan" /\ entry = Len(Entries) + 1
  /\ pc' = "get"
  /\ UNCHANGED <<threads, main, entry, msg, firstStart, enAatWDT,
                 inbox, timers, restart, arrived>>

(***************************************************************************)
(* Messages come and time passes.                                          *)
(***************************************************************************)
Arrive(m) ==
  /\ arrived < MaxMessages
  /\ inbox' = Append(inbox, m)
  /\ arrived' = arrived + 1
  /\ UNCHANGED <<threads, main, collector, timers, restart>>

DelayOver(n) ==
  /\ ~rtOver[n] /\ Entries[n].type # "ONCE_ALWAYS"
  /\ rtOver' = [rtOver EXCEPT ![n] = TRUE]
  /\ UNCHANGED <<threads, main, collector, inbox, wdtOver, restart, arrived>>

TimeoutOver(n) ==
  /\ ~wdtOver[n] /\ Entries[n].wdt
  /\ wdtOver' = [wdtOver EXCEPT ![n] = TRUE]
  /\ UNCHANGED <<threads, main, collector, inbox, rtOver, restart, arrived>>

RunAll == RunCollector \/ RunAllMarks \/ RunAllLooks \/ RunAllCreates

Loop ==
  \/ CheckAlarms \/ GetMessage \/ Sleep \/ PassEntry
  \/ RunStopped \/ SkipRunning \/ StopRequest
  \/ StopWaits \/ StopPthread \/ Start \/ Look \/ Create \/ MessageDone

Next ==
  \/ RunAll
  \/ Loop
  \/ \E t \in Threads : LoopReturns(t) \/ ThrWrapperEnds(t)
  \/ \E m \in Messages : Arrive(m)
  \/ \E n \in Index : DelayOver(n) \/ TimeoutOver(n)

Spec == Init /\ [][Next]_vars

\* The threads are scheduled, a Loop looks at TERMReq once per turn, and the
\* clock runs.  Nothing is assumed of the messages.
Fairness ==
  /\ WF_vars(RunAll) /\ WF_vars(Loop)
  /\ \A t \in Threads :
       WF_vars(TERMReq[t] /\ LoopReturns(t)) /\ WF_vars(ThrWrapperEnds(t))
  /\ \A n \in Index : WF_vars(TimeoutOver(n))

FairSpec == Spec /\ Fairness

-----------------------------------------------------------------------------
(***************************************************************************)
(* Properties                                                              *)
(***************************************************************************)
\* Two pthreads never run the Loop of one object: they would share its FifoPreBuf and
\* its members.  Stop and Start rely on TERMState for it, and StartPthread on nobody
\* else starting the object (StartersApart).
OneLoop == \A t \in Threads : inLoop[t] + leaving[t] <= 1

\* t has been started, by RunAll or by a message.
Started(t) ==
  \E n \in Index :
    /\ Entries[n].thr = t
    /\ IF Entries[n].type = "ONCE_ALWAYS" THEN mainPc > n ELSE ~firstStart[n]

\* However messages, restarts and delays interleave, once the messages cease every
\* thread that was ever started is running and stays so, but for those that end by
\* themselves or that a pthread_create failed for, and whatever becomes of the collector
\* that waits for one of these.
StaysUp ==
  <>[](\A t \in Threads \ (failed \cup SelfStopping) : Started(t) => inLoop[t] = 1)

\* Stop waits for TERMState of a thread that has no pthread left to set it: Run marked
\* it active and found a handle, or pthread_create failed.  The collector is lost.
Stuck == pc = "wait" /\ active[Current.thr] /\ inLoop[Current.thr] + leaving[Current.thr] = 0

\* The comment on AddModule (engine.h): when a thread has not started within its
\* timeout necron is restarted, a guaranteed start should the message not come.  This
\* is so unless pthread_create fails for it or the collector is lost on another.
GuaranteedStart ==
  \A n \in Index : Entries[n].wdt =>
    <>(restart \/ inLoop[Entries[n].thr] = 1 \/ Entries[n].thr \in failed \/ Stuck)
=============================================================================
