------------------------------- MODULE FifoBus -------------------------------
(***************************************************************************)
(* The in-process message bus: FifoTObj (fifo.cxx), a map from names to    *)
(* fragfifo queues (memadmin.cxx), and the FifoEngineT objects that send   *)
(* to it and read from it.  Every method of FifoEngineT holds              *)
(* FifoTObj.mutex from its first to its last use of the map, so each is    *)
(* one step.  A fragfifo keeps the element it handed out last at the front *)
(* of its list; a new queue starts with an empty one there.                *)
(*                                                                         *)
(* Size[m] is the length of m with its header, Limit the longest message   *)
(* that fits a FifoPreBuf with it.                                         *)
(***************************************************************************)
EXTENDS Integers, Sequences

CONSTANTS Objects,     \* the FifoEngineT objects
          Names,       \* names of queues
          Owns,        \* Owns[o]: the names in o.oname
          Main,        \* Main[o]: o.objname, the first of them
          Copying,     \* objects that read into their FifoPreBuf
          Messages, Size,
          Capacity,    \* qcount_max_bsize
          Limit,       \* room of a FifoPreBuf and a header
          Nothing,     \* no message
          MaxSends,    \* bound on the messages sent
          MaxDestroy   \* bound on the objects destroyed

ASSUME BusAssumption ==
  /\ Main \in [Objects -> Names] /\ Owns \in [Objects -> SUBSET Names]
  /\ \A o \in Objects : Main[o] \in Owns[o]
  /\ \A o, p \in Objects : o # p => Owns[o] \cap Owns[p] = {}
  /\ Copying \subseteq Objects
  /\ Size \in [Messages -> Nat]
  /\ Capacity \in Nat /\ Limit \in Nat
  /\ Nothing \notin Messages
  /\ MaxSends \in Nat /\ MaxDestroy \in Nat

VARIABLES live,      \* objects constructed and not destroyed
          item,      \* keys of FifoTObj.fifo_item
          fifo,      \* fifo[n]: the list of elements of n's queue
          qcount,    \* qcount[n], qcount_bsize[n]: its counters
          qcount_bsize,
          last,      \* last[n]: what the last reading of n returned
          sends, destroyed

queues == <<fifo, qcount, qcount_bsize>>
vars == <<live, item, queues, last, sends, destroyed>>

TypeOK ==
  /\ live \subseteq Objects /\ item \subseteq Names
  /\ fifo \in [Names -> Seq(Messages \cup {Nothing})]
  /\ qcount \in [Names -> Nat]
  /\ qcount_bsize \in [Names -> Int]
  /\ \A n \in Names : qcount_bsize[n] <= Capacity
  /\ last \in [Names -> Messages \cup {Nothing}]
  /\ sends \in 0..MaxSends /\ destroyed \in 0..MaxDestroy

\* fragfifo::fragfifo
NewFifo == <<Nothing>>

Init ==
  /\ live = {} /\ item = {}
  /\ fifo = [n \in Names |-> NewFifo]
  /\ qcount = [n \in Names |-> 0]
  /\ qcount_bsize = [n \in Names |-> 0]
  /\ last = [n \in Names |-> Nothing]
  /\ sends = 0 /\ destroyed = 0

\* FifoEngineT::FifoEngineT: emplace leaves an item that exists as it is.
Construct(o) ==
  /\ o \notin live
  /\ live' = live \cup {o}
  /\ item' = item \cup Owns[o]
  /\ UNCHANGED <<queues, last, sends, destroyed>>

\* Deviation: the queues are left as they are for the next object.
DestroyKeepingQueues(o) ==
  /\ o \in live /\ destroyed < MaxDestroy
  /\ live' = live \ {o}
  /\ item' = item \ Owns[o]
  /\ destroyed' = destroyed + 1
  /\ UNCHANGED <<queues, last, sends>>

\* FifoEngineT::~FifoEngineT drains and erases the items of the object.
Destroy(o) ==
  /\ o \in live /\ destroyed < MaxDestroy
  /\ live' = live \ {o}
  /\ item' = item \ Owns[o]
  /\ fifo' = [n \in Names |-> IF n \in Owns[o] THEN NewFifo ELSE fifo[n]]
  /\ qcount' = [n \in Names |-> IF n \in Owns[o] THEN 0 ELSE qcount[n]]
  /\ qcount_bsize' = [n \in Names |-> IF n \in Owns[o] THEN 0 ELSE qcount_bsize[n]]
  /\ destroyed' = destroyed + 1
  /\ UNCHANGED <<last, sends>>

\* Deviation: the length of the new message is not counted in.
FitsBefore(n, m) == qcount_bsize[n] <= Capacity

Fits(n, m) == qcount_bsize[n] + Size[m] <= Capacity

\* fragfifo::PushBuf on every queue of D; a full queue refuses the message,
\* and neither sender looks at that result.
PushBuf(D, m) ==
  LET Takes(n) == n \in D /\ Fits(n, m)
  IN  /\ fifo' = [n \in Names |-> IF Takes(n) THEN Append(fifo[n], m) ELSE fifo[n]]
      /\ qcount' = [n \in Names |-> IF Takes(n) THEN qcount[n] + 1 ELSE qcount[n]]
      /\ qcount_bsize' =
           [n \in Names |-> IF Takes(n) THEN qcount_bsize[n] + Size[m] ELSE qcount_bsize[n]]

SendUcastFifoMessage(m, dest) == dest \in item /\ PushBuf({dest}, m)

\* Only the queue of objname is left out, not the other names of o.
SendMcastFifoMessage(o, m) == PushBuf(item \ {Main[o]}, m)

\* SendSharedFifoMessage; a unicast to an unknown name returns ERROR.
Send(o, m) ==
  /\ o \in live /\ sends < MaxSends
  /\ SendMcastFifoMessage(o, m) \/ \E dest \in Names : SendUcastFifoMessage(m, dest)
  /\ sends' = sends + 1
  /\ UNCHANGED <<live, item, last, destroyed>>

\* Deviation: the length subtracted is that of the element that is deleted.
FrontDeleted(n) ==
  /\ qcount[n] > 0
  /\ fifo' = [fifo EXCEPT ![n] = Tail(@)]
  /\ qcount' = [qcount EXCEPT ![n] = @ - 1]
  /\ qcount_bsize' =
       [qcount_bsize EXCEPT ![n] =
          @ - (IF Head(fifo[n]) = Nothing THEN 0 ELSE Size[Head(fifo[n])])]

\* fragfifo::GetLastBuf: the front element is deleted, the next one is handed
\* out and stays at the front.
GetLastBuf(n) ==
  /\ qcount[n] > 0
  /\ fifo' = [fifo EXCEPT ![n] = Tail(@)]
  /\ qcount' = [qcount EXCEPT ![n] = @ - 1]
  /\ qcount_bsize' = [qcount_bsize EXCEPT ![n] = @ - Size[Head(Tail(fifo[n]))]]

\* The two GetUcastFifoMessage: into a buffer that grows, from any queue of
\* the object ...
GetBuffer(o, n) ==
  /\ o \in live \ Copying /\ n \in Owns[o]
  /\ GetLastBuf(n)
  /\ last' = [last EXCEPT ![n] = Head(Tail(fifo[n]))]
  /\ UNCHANGED <<live, item, sends, destroyed>>

\* Deviation: a message that does not fit stays in the queue.
GetLeavingTooLong(o) ==
  LET n == Main[o]
  IN  /\ o \in live \cap Copying
      /\ GetLastBuf(n)
      /\ Size[Head(Tail(fifo[n]))] <= Limit
      /\ last' = [last EXCEPT ![n] = Head(Tail(fifo[n]))]
      /\ UNCHANGED <<live, item, sends, destroyed>>

\* ... or into the FifoPreBuf, from the queue of objname; a message that does
\* not fit is gone and the call returns ERROR.
GetPreBuf(o) ==
  LET n == Main[o]
      m == Head(Tail(fifo[n]))
  IN  /\ o \in live \cap Copying
      /\ GetLastBuf(n)
      /\ last' = [last EXCEPT ![n] = IF Size[m] <= Limit THEN m ELSE Nothing]
      /\ UNCHANGED <<live, item, sends, destroyed>>

Get(o, n) == GetBuffer(o, n) \/ (n = Main[o] /\ GetPreBuf(o))

Next ==
  \E o \in Objects :
    \/ Construct(o)
    \/ Destroy(o)
    \/ \E m \in Messages : Send(o, m)
    \/ \E n \in Names : Get(o, n)

Spec == Init /\ [][Next]_vars

\* Every thread polls its queues once per turn of its loop, for ever.
Polling == \A o \in Objects, n \in Names : WF_vars(Get(o, n))
FairSpec == Spec /\ Polling

-----------------------------------------------------------------------------
(***************************************************************************)
(* Properties                                                              *)
(***************************************************************************)
\* Bytes in the elements of a queue.
Weight(s) ==
  LET w[i \in 0..Len(s)] == IF i = 0 THEN 0 ELSE w[i - 1] + Size[s[i]]
  IN  w[Len(s)]

\* A queue counts one element less than it keeps: the one handed out last.
Counted == \A n \in Names : fifo[n] # << >> /\ qcount[n] = Len(fifo[n]) - 1

\* The counters of fragfifo stay true to its list over any sequence of pushes
\* and reads: a drift of qcount_bsize would close the queue for ever, or wrap
\* below zero, since the test for that in GetLastBuf is on an unsigned number.
Accounting ==
  Counted /\ \A n \in Names : qcount_bsize[n] = Weight(Tail(fifo[n]))

\* The bus keeps the promises of Mailboxes: order, at most once, no loss but
\* for want of room, and queues of destroyed objects start empty again.
Boxes == INSTANCE Mailboxes WITH
  open <- item,
  box <- [n \in Names |-> Tail(fifo[n])],
  room <- [n \in Names |-> Capacity - qcount_bsize[n]]
MailboxesSpec == Boxes!Spec

\* No message blocks those behind it: a reader that goes on polling empties
\* its queue, also when a message in it is too long for its FifoPreBuf.
Empties ==
  \A o \in Objects :
    (o \in live /\ qcount[Main[o]] > 0) ~> (o \notin live \/ qcount[Main[o]] = 0)
=============================================================================
