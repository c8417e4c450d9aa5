------------------------------ MODULE Mailboxes ------------------------------
(***************************************************************************)
(* What the message bus of fifo.cxx promises to the threads that use it:   *)
(* one mailbox per name, read in the order it was filled, every message at *)
(* most once.  A message is lost only when the mailbox has no room for it, *)
(* or when its reader cannot hold it.                                      *)
(***************************************************************************)
EXTENDS Naturals, Sequences

CONSTANTS Names, Messages, Size, Capacity, Limit, Nothing

VARIABLES open,    \* names that have a mailbox
          box,     \* box[n]: messages waiting in n
          room,    \* room[n]: bytes n can still take
          last     \* last[n]: what the last reading of n gave

Init ==
  /\ open = {}
  /\ box = [n \in Names |-> << >>]
  /\ room = [n \in Names |-> Capacity]
  /\ last = [n \in Names |-> Nothing]

\* Names that are open already keep what waits in them.
Open(N) == open' = open \cup N /\ UNCHANGED <<box, room, last>>

Close(N) ==
  /\ open' = open \ N
  /\ box' = [n \in Names |-> IF n \in N THEN << >> ELSE box[n]]
  /\ room' = [n \in Names |-> IF n \in N THEN Capacity ELSE room[n]]
  /\ UNCHANGED last

\* m reaches every mailbox of D that has room for it.
Post(D, m) ==
  LET Gets(n) == n \in D /\ Size[m] <= room[n]
  IN  /\ box' = [n \in Names |-> IF Gets(n) THEN Append(box[n], m) ELSE box[n]]
      /\ room' = [n \in Names |-> IF Gets(n) THEN room[n] - Size[m] ELSE room[n]]
      /\ UNCHANGED <<open, last>>

\* The oldest message leaves; a reader that copies may be too small for it.
Take(n) ==
  /\ n \in open /\ box[n] # << >>
  /\ box' = [box EXCEPT ![n] = Tail(@)]
  /\ room' = [room EXCEPT ![n] = @ + Size[Head(box[n])]]
  /\ \/ last' = [last EXCEPT ![n] = Head(box[n])]
     \/ Size[Head(box[n])] > Limit /\ last' = [last EXCEPT ![n] = Nothing]
  /\ UNCHANGED open

Next ==
  \/ \E N \in SUBSET Names : Open(N) \/ Close(N)
  \/ \E n \in Names, m \in Messages :
       n \in open /\ (Post({n}, m) \/ Post(open \ {n}, m))
  \/ \E n \in Names : Take(n)

Spec == Init /\ [][Next]_<<open, box, room, last>>
=============================================================================
