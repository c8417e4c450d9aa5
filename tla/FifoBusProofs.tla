---------------------------- MODULE FifoBusProofs ----------------------------
(***************************************************************************)
(* For any objects, names, messages, lengths and capacity: the bus         *)
(* implements Mailboxes.  The inductive invariant says that behind the     *)
(* element handed out last every queue holds messages and counts them      *)
(* (Waiting, Counted), and that a living object has all its queues         *)
(* (Served), for which no two objects may share a name.  The counter of    *)
(* bytes is the weight of what waits (Weighed), for which three lemmas     *)
(* say what Weight makes of an element more or less.                       *)
(***************************************************************************)
EXTENDS FifoBus, SequenceTheorems, WellFoundedInduction, TLAPS

Waiting == \A n \in Names : Tail(fifo[n]) \in Seq(Messages)
Served == \A o \in live : Owns[o] \subseteq item

BusInv == TypeOK /\ Counted /\ Waiting /\ Served

\* What the elements of a queue look like to GetLastBuf and PushBuf.
LEMMA Elements ==
  ASSUME BusInv, NEW n \in Names
  PROVE  /\ fifo[n] \in Seq(Messages \cup {Nothing}) /\ fifo[n] # << >>
         /\ Tail(fifo[n]) \in Seq(Messages)
         /\ Len(Tail(fifo[n])) = qcount[n]
         /\ qcount[n] \in Nat /\ qcount_bsize[n] \in Int
         /\ qcount[n] > 0 <=> Tail(fifo[n]) # << >>
<1>1. /\ fifo[n] \in Seq(Messages \cup {Nothing}) /\ fifo[n] # << >>
      /\ Tail(fifo[n]) \in Seq(Messages)
      /\ qcount[n] = Len(fifo[n]) - 1
      /\ qcount[n] \in Nat /\ qcount_bsize[n] \in Int
  BY DEF BusInv, TypeOK, Counted, Waiting
<1>2. Len(Tail(fifo[n])) = Len(fifo[n]) - 1
  BY <1>1
<1>3. Tail(fifo[n]) = << >> <=> Len(Tail(fifo[n])) = 0
  BY <1>1, EmptySeq
<1> QED
  BY <1>1, <1>2, <1>3

LEMMA HeadMessage ==
  ASSUME BusInv, NEW n \in Names, qcount[n] > 0
  PROVE  Head(Tail(fifo[n])) \in Messages
BY Elements

LEMMA InitBusInv == Init => BusInv
BY BusAssumption
DEF BusAssumption, Init, BusInv, TypeOK, Counted, Waiting, Served, NewFifo

\* One push, seen from one queue.
LEMMA PushOne ==
  ASSUME BusInv, NEW D, NEW m \in Messages, PushBuf(D, m), NEW n \in Names
  PROVE  \/ /\ n \in D /\ Fits(n, m)
            /\ fifo'[n] = Append(fifo[n], m)
            /\ Tail(fifo'[n]) = Append(Tail(fifo[n]), m)
            /\ qcount'[n] = qcount[n] + 1
            /\ qcount_bsize'[n] = qcount_bsize[n] + Size[m]
         \/ /\ ~(n \in D /\ Fits(n, m))
            /\ fifo'[n] = fifo[n] /\ qcount'[n] = qcount[n]
            /\ qcount_bsize'[n] = qcount_bsize[n]
<1>1. fifo[n] \in Seq(Messages \cup {Nothing}) /\ fifo[n] # << >>
  BY Elements
<1>2. Tail(Append(fifo[n], m)) = Append(Tail(fifo[n]), m)
  BY <1>1, HeadTailAppend
<1>3. CASE n \in D /\ Fits(n, m)
  BY <1>2, <1>3 DEF PushBuf
<1>4. CASE ~(n \in D /\ Fits(n, m))
  BY <1>4 DEF PushBuf
<1> QED
  BY <1>3, <1>4

LEMMA PushKeeps ==
  ASSUME BusInv, NEW D, NEW m \in Messages, PushBuf(D, m)
  PROVE  /\ fifo' \in [Names -> Seq(Messages \cup {Nothing})]
         /\ qcount' \in [Names -> Nat]
         /\ qcount_bsize' \in [Names -> Int]
         /\ \A n \in Names : qcount_bsize'[n] <= Capacity
         /\ Counted' /\ Waiting'
<1>1. Size[m] \in Nat
  BY BusAssumption DEF BusAssumption
<1>2. DOMAIN fifo' = Names /\ fifo' = [n \in Names |-> fifo'[n]]
  BY DEF PushBuf
<1>3. qcount' = [n \in Names |-> qcount'[n]]
      /\ qcount_bsize' = [n \in Names |-> qcount_bsize'[n]]
  BY DEF PushBuf
<1>4. ASSUME NEW n \in Names
      PROVE  /\ fifo'[n] \in Seq(Messages \cup {Nothing}) /\ fifo'[n] # << >>
             /\ Tail(fifo'[n]) \in Seq(Messages)
             /\ qcount'[n] \in Nat /\ qcount'[n] = Len(fifo'[n]) - 1
             /\ qcount_bsize'[n] \in Int /\ qcount_bsize'[n] <= Capacity
  <2>1. /\ fifo[n] \in Seq(Messages \cup {Nothing}) /\ fifo[n] # << >>
        /\ Tail(fifo[n]) \in Seq(Messages)
        /\ qcount[n] = Len(fifo[n]) - 1 /\ qcount[n] \in Nat
        /\ qcount_bsize[n] \in Int /\ qcount_bsize[n] <= Capacity
    BY Elements DEF BusInv, Counted, TypeOK
  <2>2. CASE n \in D /\ Fits(n, m)
    <3>1. /\ fifo'[n] = Append(fifo[n], m)
          /\ Tail(fifo'[n]) = Append(Tail(fifo[n]), m)
          /\ qcount'[n] = qcount[n] + 1
          /\ qcount_bsize'[n] = qcount_bsize[n] + Size[m]
          /\ qcount_bsize[n] + Size[m] <= Capacity
      BY <2>2, PushOne DEF Fits
    <3>2. /\ Append(fifo[n], m) \in Seq(Messages \cup {Nothing})
          /\ Append(fifo[n], m) # << >>
          /\ Len(Append(fifo[n], m)) = Len(fifo[n]) + 1
          /\ Append(Tail(fifo[n]), m) \in Seq(Messages)
      BY <2>1, AppendProperties
    <3> QED
      BY <1>1, <2>1, <3>1, <3>2
  <2>3. CASE ~(n \in D /\ Fits(n, m))
    BY <2>1, <2>3, PushOne
  <2> QED
    BY <2>2, <2>3
<1> QED
  BY <1>2, <1>3, <1>4 DEF Counted, Waiting

LEMMA GetKeeps ==
  ASSUME BusInv, NEW n \in Names, GetLastBuf(n)
  PROVE  /\ fifo' \in [Names -> Seq(Messages \cup {Nothing})]
         /\ qcount' \in [Names -> Nat]
         /\ qcount_bsize' \in [Names -> Int]
         /\ \A k \in Names : qcount_bsize'[k] <= Capacity
         /\ Counted' /\ Waiting'
<1>1. /\ fifo \in [Names -> Seq(Messages \cup {Nothing})]
      /\ qcount \in [Names -> Nat]
      /\ qcount_bsize \in [Names -> Int]
      /\ \A k \in Names : qcount_bsize[k] <= Capacity
      /\ Capacity \in Int
  BY BusAssumption DEF BusInv, TypeOK, BusAssumption
<1>2. /\ qcount[n] > 0
      /\ fifo' = [fifo EXCEPT ![n] = Tail(fifo[n])]
      /\ qcount' = [qcount EXCEPT ![n] = qcount[n] - 1]
      /\ qcount_bsize' = [qcount_bsize EXCEPT ![n] =
                            qcount_bsize[n] - Size[Head(Tail(fifo[n]))]]
  BY DEF GetLastBuf
<1>3. PICK size \in Nat : size = Size[Head(Tail(fifo[n]))]
  BY <1>2, HeadMessage, BusAssumption DEF BusAssumption
<1>4. /\ Tail(fifo[n]) \in Seq(Messages) /\ Tail(fifo[n]) # << >>
      /\ Len(Tail(fifo[n])) = qcount[n]
  BY <1>2, Elements
<1>5. /\ Tail(fifo[n]) \in Seq(Messages \cup {Nothing})
      /\ Tail(Tail(fifo[n])) \in Seq(Messages)
  BY <1>4
<1>6. /\ fifo' \in [Names -> Seq(Messages \cup {Nothing})]
      /\ qcount' \in [Names -> Nat]
      /\ qcount_bsize' \in [Names -> Int]
  <2>0. qcount[n] \in Nat /\ qcount[n] > 0 /\ qcount_bsize[n] \in Int
    BY <1>2, Elements
  <2>1. qcount[n] - 1 \in Nat /\ qcount_bsize[n] - size \in Int
    BY <2>0
  <2> QED
    BY <1>1, <1>2, <1>3, <1>5, <2>1, Zenon
<1>7. \A k \in Names : qcount_bsize'[k] <= Capacity
  <2> SUFFICES ASSUME NEW k \in Names PROVE qcount_bsize'[k] <= Capacity
    OBVIOUS
  <2>0. qcount_bsize[k] \in Int /\ qcount_bsize[k] <= Capacity
    BY <1>1
  <2>1. CASE k = n
    <3>1. qcount_bsize'[k] = qcount_bsize[k] - size
      BY <1>1, <1>2, <1>3, <2>1
    <3>2. Capacity \in Int
      BY <1>1
    <3> QED
      BY <2>0, <3>1, <3>2
  <2>2. CASE k # n
    BY <1>1, <1>2, <2>0, <2>2
  <2> QED
    BY <2>1, <2>2
<1>8. Counted'
  BY <1>1, <1>2, <1>4 DEF BusInv, Counted
<1>9. Waiting'
  BY <1>1, <1>2, <1>5 DEF BusInv, Waiting
<1> QED
  BY <1>6, <1>7, <1>8, <1>9

LEMMA DestroyKeeps ==
  ASSUME BusInv, NEW o \in Objects, Destroy(o)
  PROVE  BusInv'
<1>1. \A n \in Names :
        /\ n \in Owns[o] => fifo'[n] = NewFifo /\ qcount'[n] = 0 /\ qcount_bsize'[n] = 0
        /\ n \notin Owns[o] => /\ fifo'[n] = fifo[n] /\ qcount'[n] = qcount[n]
                               /\ qcount_bsize'[n] = qcount_bsize[n]
  BY DEF Destroy
<1>2. /\ NewFifo \in Seq(Messages \cup {Nothing}) /\ NewFifo # << >>
      /\ Tail(NewFifo) \in Seq(Messages) /\ Len(NewFifo) = 1
  BY DEF NewFifo
<1>3. TypeOK'
  <2>1. /\ fifo' \in [Names -> Seq(Messages \cup {Nothing})]
        /\ qcount' \in [Names -> Nat] /\ qcount_bsize' \in [Names -> Int]
    BY <1>2 DEF Destroy, BusInv, TypeOK
  <2>2. \A n \in Names : qcount_bsize'[n] <= Capacity
    <3>1. Capacity \in Nat /\ \A n \in Names : qcount_bsize[n] <= Capacity
      BY BusAssumption DEF BusInv, TypeOK, BusAssumption
    <3>2. 0 <= Capacity
      BY <3>1
    <3> SUFFICES ASSUME NEW n \in Names PROVE qcount_bsize'[n] <= Capacity
      OBVIOUS
    <3>3. CASE n \in Owns[o]
      BY <1>1, <3>2, <3>3
    <3>4. CASE n \notin Owns[o]
      BY <1>1, <3>1, <3>4
    <3> QED
      BY <3>3, <3>4
  <2>3. destroyed' \in 0..MaxDestroy
    BY BusAssumption DEF BusAssumption, Destroy, BusInv, TypeOK
  <2> QED
    BY <2>1, <2>2, <2>3 DEF Destroy, BusInv, TypeOK
<1>4. ASSUME NEW n \in Names
      PROVE  /\ fifo'[n] # << >> /\ qcount'[n] = Len(fifo'[n]) - 1
             /\ Tail(fifo'[n]) \in Seq(Messages)
  <2>1. CASE n \in Owns[o]
    <3>1. fifo'[n] = NewFifo /\ qcount'[n] = 0
      BY <1>1, <2>1
    <3>2. qcount'[n] = Len(fifo'[n]) - 1
      BY <1>2, <3>1
    <3> QED
      BY <1>2, <3>1, <3>2
  <2>2. CASE n \notin Owns[o]
    BY <1>1, <2>2 DEF BusInv, Counted, Waiting
  <2> QED
    BY <2>1, <2>2
<1>5. Served'
  BY BusAssumption DEF BusAssumption, BusInv, TypeOK, Destroy, Served
<1> QED
  BY <1>3, <1>4, <1>5 DEF BusInv, Counted, Waiting

LEMMA StepBusInv == BusInv /\ [Next]_vars => BusInv'
<1> SUFFICES ASSUME BusInv, [Next]_vars PROVE BusInv'
  OBVIOUS
<1>1. CASE UNCHANGED vars
  BY <1>1 DEF vars, queues, BusInv, TypeOK, Counted, Waiting, Served
<1>2. ASSUME NEW o \in Objects, Construct(o) PROVE BusInv'
  BY <1>2, BusAssumption
  DEF BusAssumption, Construct, queues, BusInv, TypeOK, Counted, Waiting, Served
<1>3. ASSUME NEW o \in Objects, Destroy(o) PROVE BusInv'
  BY <1>3, DestroyKeeps
<1>4. ASSUME NEW o \in Objects, NEW m \in Messages, Send(o, m) PROVE BusInv'
  <2>1. PICK D : PushBuf(D, m)
    BY <1>4 DEF Send, SendMcastFifoMessage, SendUcastFifoMessage
  <2>2. /\ fifo' \in [Names -> Seq(Messages \cup {Nothing})]
        /\ qcount' \in [Names -> Nat]
        /\ qcount_bsize' \in [Names -> Int]
        /\ \A n \in Names : qcount_bsize'[n] <= Capacity
        /\ Counted' /\ Waiting'
    BY <2>1, PushKeeps
  <2>3. sends' \in 0..MaxSends
    BY <1>4, BusAssumption DEF BusAssumption, Send, BusInv, TypeOK
  <2> QED
    BY <1>4, <2>2, <2>3 DEF Send, BusInv, TypeOK, Served
<1>5. ASSUME NEW o \in Objects, NEW n \in Names, Get(o, n) PROVE BusInv'
  <2>1. /\ GetLastBuf(n) /\ UNCHANGED <<live, item, sends, destroyed>>
        /\ \E x \in {Head(Tail(fifo[n])), Nothing} : last' = [last EXCEPT ![n] = x]
    BY <1>5 DEF Get, GetBuffer, GetPreBuf
  <2>2. /\ fifo' \in [Names -> Seq(Messages \cup {Nothing})]
        /\ qcount' \in [Names -> Nat]
        /\ qcount_bsize' \in [Names -> Int]
        /\ \A k \in Names : qcount_bsize'[k] <= Capacity
        /\ Counted' /\ Waiting'
    BY <2>1, GetKeeps
  <2>3. Head(Tail(fifo[n])) \in Messages
    BY <2>1, HeadMessage DEF GetLastBuf
  <2>4. last' \in [Names -> Messages \cup {Nothing}]
    BY <2>1, <2>3 DEF BusInv, TypeOK
  <2> QED
    BY <2>1, <2>2, <2>4 DEF BusInv, TypeOK, Served
<1> QED
  BY <1>1, <1>2, <1>3, <1>4, <1>5 DEF Next

\* The types of the bus, the bound on the bytes of a queue among them.
THEOREM BusTypeCorrect == Spec => []TypeOK
<1>1. BusInv => TypeOK
  BY DEF BusInv
<1> QED
  BY <1>1, InitBusInv, StepBusInv, PTL DEF Spec

-----------------------------------------------------------------------------
(***************************************************************************)
(* The counters.  Weight is a recursive function, so that it has its       *)
(* values at all is a lemma (SumsExist), by induction on the length.       *)
(***************************************************************************)
\* A set that holds 0 and with a number the next one holds them all.
LEMMA Counting ==
  ASSUME NEW S, 0 \in S, \A n \in Nat : n \in S => n + 1 \in S
  PROVE  Nat \subseteq S
<1> SUFFICES ASSUME Nat \ S # {} PROVE FALSE
  OBVIOUS
<1>1. PICK k \in Nat \ S : \A y \in Nat \ S : <<y, k>> \notin OpToRel(<, Nat)
  BY WFMin, NatLessThanWellFounded
<1>2. \A y \in Nat \ S : ~(y < k)
  BY <1>1 DEF OpToRel
<1>3. k # 0 /\ k - 1 \in Nat /\ k - 1 < k /\ (k - 1) + 1 = k
  OBVIOUS
<1>4. k - 1 \in S
  BY <1>2, <1>3
<1> QED
  BY <1>3, <1>4

\* w is the running sum of the lengths of s up to n.
Sums(w, s, n) == w = [i \in 0..n |-> IF i = 0 THEN 0 ELSE w[i - 1] + Size[s[i]]]

LEMMA SumsExist ==
  ASSUME NEW s
  PROVE  \A n \in Nat : \E w : Sums(w, s, n)
<1> DEFINE S == {n \in Nat : \E w : Sums(w, s, n)}
<1>1. 0 \in S
  <2>1. Sums([i \in 0..0 |-> 0], s, 0)
    BY DEF Sums
  <2> QED
    BY <2>1
<1>2. ASSUME NEW n \in Nat, n \in S PROVE n + 1 \in S
  <2>1. PICK w : Sums(w, s, n)
    BY <1>2
  <2> DEFINE v == [i \in 0..n + 1 |-> IF i = n + 1 THEN w[n] + Size[s[n + 1]] ELSE w[i]]
  <2>2. ASSUME NEW i \in 0..n + 1
        PROVE  v[i] = IF i = 0 THEN 0 ELSE v[i - 1] + Size[s[i]]
    <3>1. CASE i = n + 1
      BY <3>1
    <3>2. CASE i \in 0..n
      BY <2>1, <3>2 DEF Sums
    <3> QED
      BY <3>1, <3>2
  <2>3. Sums(v, s, n + 1)
    BY <2>2 DEF Sums
  <2> QED
    BY <2>3
<1>3. Nat \subseteq S
  <2> HIDE DEF S
  <2> QED
    BY <1>1, <1>2, Counting
<1> QED
  BY <1>3

LEMMA WeightSums ==
  ASSUME NEW s \in Seq(Messages)
  PROVE  \E w : Sums(w, s, Len(s)) /\ Weight(s) = w[Len(s)]
<1>1. \E w : Sums(w, s, Len(s))
  BY SumsExist
<1> QED
  BY <1>1 DEF Weight, Sums

\* From its element k + 1 on, s goes like t.
Along(s, t, k, n) == \A i \in 1..n : s[i + k] = t[i] /\ Size[t[i]] \in Nat

\* Two running sums that go along the same lengths keep their distance.
LEMMA SumsAgree ==
  ASSUME NEW s, NEW t, NEW v, NEW w, NEW k \in Nat, NEW n \in Nat, NEW m \in Nat,
         Sums(v, s, m), Sums(w, t, n), m = n + k, Along(s, t, k, n),
         v[k] \in Nat
  PROVE  \A i \in 0..n : v[i + k] = w[i] + v[k] /\ w[i] \in Nat
<1> DEFINE S == {i \in Nat : i <= n => v[i + k] = w[i] + v[k] /\ w[i] \in Nat}
<1>1. 0 \in S
  BY DEF Sums
<1>2. ASSUME NEW i \in Nat, i \in S PROVE i + 1 \in S
  <2> SUFFICES ASSUME i + 1 <= n
               PROVE  v[i + 1 + k] = w[i + 1] + v[k] /\ w[i + 1] \in Nat
    OBVIOUS
  <2>1. v[i + k] = w[i] + v[k] /\ w[i] \in Nat
    BY <1>2
  <2>2. i + 1 \in 0..n /\ i + 1 # 0 /\ (i + 1) - 1 = i
    OBVIOUS
  <2>3. w[i + 1] = w[i] + Size[t[i + 1]]
    BY <2>2 DEF Sums
  <2>4. i + 1 + k \in 0..(n + k) /\ i + 1 + k # 0 /\ (i + 1 + k) - 1 = i + k
    OBVIOUS
  <2>5. v[i + 1 + k] = v[i + k] + Size[s[i + 1 + k]]
    BY <2>4 DEF Sums
  <2>6. s[i + 1 + k] = t[i + 1] /\ Size[t[i + 1]] \in Nat
    BY DEF Along
  <2> QED
    BY <2>1, <2>3, <2>5, <2>6
<1>3. Nat \subseteq S
  <2> HIDE DEF S
  <2> QED
    BY <1>1, <1>2, Counting
<1> QED
  BY <1>3

LEMMA WeightEmpty == Weight(<< >>) = 0
<1>1. << >> \in Seq(Messages) /\ Len(<< >>) = 0
  OBVIOUS
<1>2. PICK w : Sums(w, << >>, 0) /\ Weight(<< >>) = w[0]
  BY <1>1, WeightSums
<1> QED
  BY <1>2 DEF Sums

LEMMA WeightAppend ==
  ASSUME NEW s \in Seq(Messages), NEW m \in Messages
  PROVE  Weight(Append(s, m)) = Weight(s) + Size[m] /\ Weight(s) \in Nat
<1> DEFINE t == Append(s, m)
           n == Len(s)
<1>1. /\ t \in Seq(Messages) /\ Len(t) = n + 1 /\ n \in Nat
      /\ \A i \in 1..n : t[i] = s[i] /\ s[i] \in Messages
      /\ t[n + 1] = m
  OBVIOUS
<1>2. \A k \in Messages : Size[k] \in Nat
  BY BusAssumption DEF BusAssumption
<1>3. PICK v : Sums(v, t, n + 1) /\ Weight(t) = v[n + 1]
  <2> HIDE DEF t
  <2> QED
    BY <1>1, WeightSums
<1>4. PICK w : Sums(w, s, n) /\ Weight(s) = w[n]
  BY WeightSums
<1> HIDE DEF t, n
<1>5. DOMAIN v = 0..n + 1
  BY <1>3 DEF Sums
<1> DEFINE u == [i \in 0..n |-> v[i]]
<1>6. Sums(u, t, n) /\ u[0] = 0
  <2>1. \A i \in 0..n : v[i] = IF i = 0 THEN 0 ELSE v[i - 1] + Size[t[i]]
    BY <1>1, <1>3 DEF Sums
  <2>2. ASSUME NEW i \in 0..n
        PROVE  u[i] = IF i = 0 THEN 0 ELSE u[i - 1] + Size[t[i]]
    BY <1>1, <2>1
  <2>3. u = [i \in 0..n |-> u[i]] /\ 0 \in 0..n
    BY <1>1
  <2> HIDE DEF u
  <2>4. u[0] = 0
    BY <2>2, <2>3
  <2>5. Sums(u, t, n)
    BY <2>2, <2>3 DEF Sums
  <2> QED
    BY <2>4, <2>5
<1>7. \A i \in 0..n : u[i + 0] = w[i] + u[0] /\ w[i] \in Nat
  <2>1. /\ Along(t, s, 0, n) /\ n = n + 0 /\ 0 \in Nat /\ n \in Nat
        /\ u[0] \in Nat
    BY <1>1, <1>2, <1>6 DEF Along
  <2> HIDE DEF u
  <2> QED
    BY <1>4, <1>6, <2>1, SumsAgree
<1>8. v[n] = w[n] /\ w[n] \in Nat
  <2>1. n \in 0..n /\ n + 0 = n /\ u[n] = v[n]
    BY <1>1
  <2> QED
    BY <1>6, <1>7, <2>1
<1>9. v[n + 1] = v[n] + Size[t[n + 1]]
  BY <1>1, <1>3 DEF Sums
<1> QED
  BY <1>1, <1>3, <1>4, <1>8, <1>9 DEF t

LEMMA WeightTail ==
  ASSUME NEW s \in Seq(Messages), s # << >>
  PROVE  Weight(s) = Size[Head(s)] + Weight(Tail(s))
<1> DEFINE t == Tail(s)
           n == Len(t)
<1>1. /\ t \in Seq(Messages) /\ Len(s) = n + 1 /\ n \in Nat
      /\ \A i \in 1..n : s[i + 1] = t[i] /\ t[i] \in Messages
      /\ Head(s) = s[1] /\ s[1] \in Messages
  OBVIOUS
<1>2. \A k \in Messages : Size[k] \in Nat
  BY BusAssumption DEF BusAssumption
<1>3. PICK v : Sums(v, s, n + 1) /\ Weight(s) = v[n + 1]
  BY <1>1, WeightSums
<1>4. PICK w : Sums(w, t, n) /\ Weight(t) = w[n]
  <2> HIDE DEF t
  <2> QED
    BY <1>1, WeightSums
<1> HIDE DEF t, n
<1>5. v[1] = Size[s[1]]
  <2>1. v[0] = 0 /\ v[1] = v[0] + Size[s[1]]
    BY <1>1, <1>3 DEF Sums
  <2> QED
    BY <1>1, <1>2, <2>1
<1>6. \A i \in 0..n : v[i + 1] = w[i] + v[1] /\ w[i] \in Nat
  <2>1. /\ Along(s, t, 1, n) /\ n + 1 \in Nat /\ 1 \in Nat /\ n \in Nat
        /\ v[1] \in Nat
    BY <1>1, <1>2, <1>5 DEF Along
  <2> QED
    BY <1>3, <1>4, <2>1, SumsAgree
<1> QED
  BY <1>1, <1>2, <1>3, <1>4, <1>5, <1>6 DEF t

Weighed == \A n \in Names : qcount_bsize[n] = Weight(Tail(fifo[n]))

LEMMA InitAccounting == Init => Accounting
<1> SUFFICES ASSUME Init PROVE Accounting
  OBVIOUS
<1>1. Tail(NewFifo) = << >>
  BY DEF NewFifo
<1>2. Weighed
  BY <1>1, WeightEmpty DEF Init, Weighed
<1> QED
  BY <1>2, InitBusInv DEF Accounting, Weighed, BusInv

LEMMA StepAccounting == BusInv /\ Accounting /\ [Next]_vars => Accounting'
<1> SUFFICES ASSUME BusInv, Weighed, [Next]_vars PROVE Weighed'
  BY StepBusInv DEF Accounting, Weighed, BusInv
<1>1. CASE UNCHANGED queues
  BY <1>1 DEF queues, Weighed
<1>2. ASSUME NEW o \in Objects, Destroy(o) PROVE Weighed'
  <2> SUFFICES ASSUME NEW n \in Names PROVE qcount_bsize'[n] = Weight(Tail(fifo'[n]))
    BY DEF Weighed
  <2>1. CASE n \in Owns[o]
    <3>1. fifo'[n] = NewFifo /\ qcount_bsize'[n] = 0 /\ Tail(NewFifo) = << >>
      BY <1>2, <2>1 DEF Destroy, NewFifo
    <3> QED
      BY <3>1, WeightEmpty
  <2>2. CASE n \notin Owns[o]
    BY <1>2, <2>2 DEF Destroy, Weighed
  <2> QED
    BY <2>1, <2>2
<1>3. ASSUME NEW D, NEW m \in Messages, PushBuf(D, m) PROVE Weighed'
  <2> SUFFICES ASSUME NEW n \in Names PROVE qcount_bsize'[n] = Weight(Tail(fifo'[n]))
    BY DEF Weighed
  <2>1. Tail(fifo[n]) \in Seq(Messages) /\ qcount_bsize[n] = Weight(Tail(fifo[n]))
    BY Elements DEF Weighed
  <2>2. Weight(Append(Tail(fifo[n]), m)) = Weight(Tail(fifo[n])) + Size[m]
    BY <2>1, WeightAppend
  <2> QED
    BY <1>3, <2>1, <2>2, PushOne
<1>4. ASSUME NEW n \in Names, GetLastBuf(n) PROVE Weighed'
  <2> SUFFICES ASSUME NEW k \in Names PROVE qcount_bsize'[k] = Weight(Tail(fifo'[k]))
    BY DEF Weighed
  <2>0. /\ fifo' = [fifo EXCEPT ![n] = Tail(fifo[n])]
        /\ qcount_bsize' = [qcount_bsize EXCEPT ![n] =
                              qcount_bsize[n] - Size[Head(Tail(fifo[n]))]]
        /\ n \in DOMAIN fifo /\ n \in DOMAIN qcount_bsize
        /\ qcount[n] > 0
    BY <1>4 DEF GetLastBuf, BusInv, TypeOK
  <2>1. CASE k = n
    <3> DEFINE s == Tail(fifo[n])
    <3>1. s \in Seq(Messages) /\ s # << >> /\ qcount_bsize[n] = Weight(s)
      BY <2>0, Elements DEF Weighed
    <3>2. Head(s) \in Messages /\ Tail(s) \in Seq(Messages)
      BY <3>1
    <3>3. Size[Head(s)] \in Nat
      BY <3>2, BusAssumption DEF BusAssumption
    <3>4. fifo'[n] = s /\ qcount_bsize'[n] = qcount_bsize[n] - Size[Head(s)]
      BY <2>0
    <3> HIDE DEF s
    <3>5. Weight(s) = Size[Head(s)] + Weight(Tail(s)) /\ Weight(Tail(s)) \in Nat
      <4>1. Weight(s) = Size[Head(s)] + Weight(Tail(s))
        BY <3>1, WeightTail
      <4>2. Weight(Tail(s)) \in Nat
        BY <3>2, WeightAppend
      <4> QED
        BY <4>1, <4>2
    <3> QED
      BY <2>1, <3>1, <3>3, <3>4, <3>5
  <2>2. CASE k # n
    BY <2>0, <2>2 DEF Weighed
  <2> QED
    BY <2>1, <2>2
<1>5. ASSUME NEW o \in Objects, NEW m \in Messages, Send(o, m) PROVE Weighed'
  BY <1>3, <1>5 DEF Send, SendMcastFifoMessage, SendUcastFifoMessage
<1>6. ASSUME NEW o \in Objects, NEW n \in Names, Get(o, n) PROVE Weighed'
  BY <1>4, <1>6 DEF Get, GetBuffer, GetPreBuf
<1>7. ASSUME NEW o \in Objects, Construct(o) PROVE Weighed'
  BY <1>1, <1>7 DEF Construct
<1> QED
  BY <1>1, <1>2, <1>5, <1>6, <1>7 DEF Next, vars

\* The byte counter of every queue is the length of the messages that wait in
\* it, after any sequence of pushes, reads and destructors.
THEOREM CountersStayTrue == Spec => []Accounting
BY InitBusInv, StepBusInv, InitAccounting, StepAccounting, PTL DEF Spec

-----------------------------------------------------------------------------
(***************************************************************************)
(* Refinement: what waits in a mailbox is what is behind the element that  *)
(* was handed out last, its room what qcount_bsize leaves of the capacity. *)
(***************************************************************************)
box == [n \in Names |-> Tail(fifo[n])]
room == [n \in Names |-> Capacity - qcount_bsize[n]]

LEMMA InitBoxes == Init => Boxes!Init
<1> SUFFICES ASSUME Init PROVE Boxes!Init
  OBVIOUS
<1>1. ASSUME NEW n \in Names
      PROVE Tail(fifo[n]) = << >> /\ Capacity - qcount_bsize[n] = Capacity
  <2>1. fifo[n] = <<Nothing>> /\ qcount_bsize[n] = 0 /\ Capacity \in Nat
    BY BusAssumption DEF BusAssumption, Init, NewFifo
  <2>2. Tail(<<Nothing>>) = << >>
    OBVIOUS
  <2> QED
    BY <2>1, <2>2
<1> QED
  BY <1>1 DEF Init, Boxes!Init

LEMMA PushPosts ==
  ASSUME BusInv, NEW D, NEW m \in Messages, PushBuf(D, m), UNCHANGED <<item, last>>
  PROVE  Boxes!Post(D, m)
<1>1. Size[m] \in Nat /\ Capacity \in Nat
  BY BusAssumption DEF BusAssumption
<1>2. ASSUME NEW n \in Names
      PROVE  /\ box[n] = Tail(fifo[n]) /\ box'[n] = Tail(fifo'[n])
             /\ room[n] = Capacity - qcount_bsize[n]
             /\ room'[n] = Capacity - qcount_bsize'[n]
             /\ Fits(n, m) <=> Size[m] <= room[n]
  <2>1. qcount_bsize[n] \in Int
    BY Elements
  <2> QED
    BY <1>1, <2>1 DEF box, room, Fits
<1>3. ASSUME NEW n \in Names
      PROVE  /\ box'[n] = IF n \in D /\ Size[m] <= room[n] THEN Append(box[n], m) ELSE box[n]
             /\ room'[n] = IF n \in D /\ Size[m] <= room[n] THEN room[n] - Size[m] ELSE room[n]
  <2>1. CASE n \in D /\ Fits(n, m)
    <3>1. Tail(fifo'[n]) = Append(Tail(fifo[n]), m)
          /\ qcount_bsize'[n] = qcount_bsize[n] + Size[m]
      BY <2>1, PushOne
    <3>2. qcount_bsize[n] \in Int
      BY Elements
    <3>3. room'[n] = room[n] - Size[m]
      BY <1>1, <1>2, <3>1, <3>2
    <3> QED
      BY <1>2, <2>1, <3>1, <3>3
  <2>2. CASE ~(n \in D /\ Fits(n, m))
    BY <1>2, <2>2, PushOne
  <2> QED
    BY <2>1, <2>2
<1>4. box' = [n \in Names |-> box'[n]] /\ room' = [n \in Names |-> room'[n]]
  BY DEF box, room
<1> QED
  BY <1>3, <1>4 DEF Boxes!Post, box, room

LEMMA GetTakes ==
  ASSUME BusInv, NEW o \in Objects, NEW n \in Names, Get(o, n)
  PROVE  Boxes!Take(n)
<1>1. /\ GetLastBuf(n) /\ n \in Owns[o] /\ o \in live /\ item' = item
      /\ \/ last' = [last EXCEPT ![n] = Head(Tail(fifo[n]))]
         \/ /\ ~(Size[Head(Tail(fifo[n]))] <= Limit)
            /\ last' = [last EXCEPT ![n] = Nothing]
  BY BusAssumption DEF Get, GetBuffer, GetPreBuf, BusAssumption
<1>2. n \in item
  BY <1>1 DEF BusInv, Served
<1>3. qcount[n] > 0 /\ Tail(fifo[n]) # << >>
  BY <1>1, Elements DEF GetLastBuf
<1>4. PICK size \in Nat : size = Size[Head(Tail(fifo[n]))]
  BY <1>3, HeadMessage, BusAssumption DEF BusAssumption
<1>5. ~(size <= Limit) => size > Limit
  <2>1. Limit \in Nat
    BY BusAssumption DEF BusAssumption
  <2> QED
    BY <2>1
<1>6. /\ fifo' = [fifo EXCEPT ![n] = Tail(fifo[n])]
      /\ qcount_bsize' = [qcount_bsize EXCEPT ![n] = qcount_bsize[n] - size]
  BY <1>1, <1>4 DEF GetLastBuf
<1>7. box' = [box EXCEPT ![n] = Tail(box[n])]
  BY <1>6 DEF box, BusInv, TypeOK
<1>8. room' = [room EXCEPT ![n] = room[n] + size]
  <2>1. qcount_bsize \in [Names -> Int] /\ Capacity \in Int
    BY BusAssumption DEF BusInv, TypeOK, BusAssumption
  <2>2. Capacity - (qcount_bsize[n] - size) = (Capacity - qcount_bsize[n]) + size
    BY <2>1
  <2> QED
    BY <1>6, <2>1, <2>2, Zenon DEF room
<1>9. box[n] = Tail(fifo[n])
  BY DEF box
<1> QED
  BY <1>1, <1>2, <1>3, <1>4, <1>5, <1>7, <1>8, <1>9 DEF Boxes!Take, box, room

LEMMA DestroyCloses ==
  ASSUME BusInv, NEW o \in Objects, Destroy(o)
  PROVE  Boxes!Close(Owns[o])
<1>1. Capacity \in Nat
  BY BusAssumption DEF BusAssumption
<1>2. \A n \in Names :
        /\ n \in Owns[o] => fifo'[n] = NewFifo /\ qcount_bsize'[n] = 0
        /\ n \notin Owns[o] => fifo'[n] = fifo[n] /\ qcount_bsize'[n] = qcount_bsize[n]
  BY DEF Destroy
<1>3. Tail(NewFifo) = << >> /\ Capacity - 0 = Capacity
  BY <1>1 DEF NewFifo
<1> QED
  BY <1>2, <1>3 DEF Destroy, Boxes!Close

LEMMA StepBoxes ==
  BusInv /\ [Next]_vars => [Boxes!Next]_<<item, box, room, last>>
<1> SUFFICES ASSUME BusInv, [Next]_vars
             PROVE  Boxes!Next \/ UNCHANGED <<item, box, room, last>>
  OBVIOUS
<1>0. /\ \A o \in Objects : Owns[o] \in SUBSET Names /\ Main[o] \in Owns[o]
      /\ \A o \in live : Main[o] \in item /\ Main[o] \in Names
  BY BusAssumption DEF BusAssumption, BusInv, Served, TypeOK
<1>1. CASE UNCHANGED vars
  BY <1>1 DEF vars, queues, box, room
<1>2. ASSUME NEW o \in Objects, Construct(o) PROVE Boxes!Next
  <2>1. Boxes!Open(Owns[o])
    BY <1>2 DEF Construct, queues, Boxes!Open
  <2> QED
    BY <1>0, <2>1 DEF Boxes!Next
<1>3. ASSUME NEW o \in Objects, Destroy(o) PROVE Boxes!Next
  BY <1>0, <1>3, DestroyCloses DEF Boxes!Next
<1>4. ASSUME NEW o \in Objects, NEW m \in Messages, Send(o, m) PROVE Boxes!Next
  <2>1. UNCHANGED <<item, last>> /\ o \in live
    BY <1>4 DEF Send
  <2>2. CASE SendMcastFifoMessage(o, m)
    <3>1. Boxes!Post(item \ {Main[o]}, m)
      BY <2>1, <2>2, PushPosts DEF SendMcastFifoMessage
    <3> QED
      BY <1>0, <2>1, <3>1 DEF Boxes!Next
  <2>3. ASSUME NEW dest \in Names, SendUcastFifoMessage(m, dest) PROVE Boxes!Next
    <3>1. dest \in item /\ Boxes!Post({dest}, m)
      BY <2>1, <2>3, PushPosts DEF SendUcastFifoMessage
    <3> QED
      BY <3>1 DEF Boxes!Next
  <2> QED
    BY <1>4, <2>2, <2>3 DEF Send
<1>5. ASSUME NEW o \in Objects, NEW n \in Names, Get(o, n) PROVE Boxes!Next
  BY <1>5, GetTakes DEF Boxes!Next
<1> QED
  BY <1>1, <1>2, <1>3, <1>4, <1>5 DEF Next

\* The bus keeps the promises of Mailboxes, for any threads, names, message
\* lengths and capacity, and any number of messages sent and objects destroyed.
THEOREM BusIsMailboxes == Spec => MailboxesSpec
<1>1. Init => Boxes!Init
  BY InitBoxes
<1>2. BusInv /\ [Next]_vars => [Boxes!Next]_<<item, box, room, last>>
  BY StepBoxes
<1>3. Spec => Boxes!Init /\ [][Boxes!Next]_<<item, box, room, last>>
  BY <1>1, <1>2, InitBusInv, StepBusInv, PTL DEF Spec
<1> QED
  BY <1>3, PTL DEF MailboxesSpec, Boxes!Spec, box, room
=============================================================================
