--------------------------- MODULE SqliteLogProofs ---------------------------
(***************************************************************************)
(* For any lengths of the tables and of the queue and any number of        *)
(* messages: the store stays well typed, and no single fault between two   *)
(* starts loses a row, but for those that FaultTolerant excuses.           *)
(***************************************************************************)
EXTENDS SqliteLog, FiniteSetTheorems, SequenceTheorems, WellFoundedInduction, TLAPS

Request == Row \union {Delete}

LEMMA Bounds ==
  /\ MaxRows \in Nat /\ MaxItems \in Nat /\ RemoveItems \in Nat /\ MaxReplic \in Nat
  /\ MaxItems > 0 /\ RemoveItems > 0 /\ MaxReplic > 0 /\ MaxFaults \in Nat
  /\ Row \subseteq Nat /\ 0 \notin Row
BY SqliteLogAssumption DEF SqliteLogAssumption, Row

-----------------------------------------------------------------------------
(***************************************************************************)
(* The newest and the oldest rows of a table.                              *)
(***************************************************************************)
\* A set that holds 0 and with a number the next one holds them all.
LEMMA Counting ==
  ASSUME NEW S, 0 \in S, \A n \in Nat : n \in S => n + 1 \in S
  PROVE  Nat \subseteq S
<1> SUFFICES ASSUME Nat \ S # {} PROVE FALSE
  OBVIOUS
<1>1. PICK k \in Nat \ S : \A y \in Nat \ S : <<y, k>> \notin OpToRel(<, Nat)
  BY WFMin, NatLessThanWellFounded
<1>2. \A y \in Nat \ S : ~(y < k)
  BY <1>1 DEF OpToRel
<1>3. k # 0 /\ k - 1 \in Nat /\ k - 1 < k /\ (k - 1) + 1 = k
  OBVIOUS
<1>4. k - 1 \in S
  BY <1>2, <1>3
<1> QED
  BY <1>3, <1>4

LEMMA NewestIsMax ==
  ASSUME NEW s \in SUBSET Row
  PROVE  /\ Newest(s) \in Nat
         /\ s = {} <=> Newest(s) = 0
         /\ s # {} => Newest(s) \in s
         /\ \A x \in s : x <= Newest(s)
<1>1. CASE s = {}
  BY <1>1 DEF Newest
<1>2. CASE s # {}
  <2> DEFINE T == {MaxRows - x : x \in s}
  <2>1. T # {} /\ T \subseteq Nat
    <3>1. \A x \in s : MaxRows - x \in Nat
      BY Bounds DEF Row
    <3> QED
      BY <1>2, <3>1
  <2>2. PICK k \in T : \A y \in T : <<y, k>> \notin OpToRel(<, Nat)
    <3> HIDE DEF T
    <3> QED
      BY <2>1, WFMin, NatLessThanWellFounded
  <2>3. PICK x \in s : k = MaxRows - x
    OBVIOUS
  <2>4. \A y \in s : x >= y
    <3> SUFFICES ASSUME NEW y \in s PROVE x >= y
      OBVIOUS
    <3>1. MaxRows - y \in Nat /\ MaxRows - x \in Nat /\ ~(MaxRows - y < MaxRows - x)
      BY <2>1, <2>2, <2>3 DEF OpToRel
    <3>2. x \in Int /\ y \in Int /\ MaxRows \in Int
      BY Bounds
    <3> HIDE DEF T
    <3> QED
      BY <3>1, <3>2
  <2>5. Max(s) \in s /\ \A y \in s : Max(s) >= y
    BY <2>4 DEF Max
  <2>6. Newest(s) = Max(s)
    BY <1>2 DEF Newest
  <2> QED
    BY <1>2, <2>5, <2>6, Bounds
<1> QED
  BY <1>1, <1>2

\* Of the rows of a smaller table those go that go of a larger one, or more.
LEMMA OldestAntitone ==
  ASSUME NEW t \in SUBSET Row, NEW s \in SUBSET t
  PROVE  s \ Oldest(s) \subseteq t \ Oldest(t)
<1> SUFFICES ASSUME NEW r \in s, r \in Oldest(t) PROVE r \in Oldest(s)
  OBVIOUS
<1> DEFINE A == {q \in s : q < r}
           B == {q \in t : q < r}
<1>1. IsFiniteSet(Row)
  BY FS_Interval, Bounds DEF Row
<1>2. IsFiniteSet(B)
  BY <1>1, FS_Subset
<1>3. A \in SUBSET B
  OBVIOUS
<1>4. Cardinality(A) \in Nat /\ Cardinality(B) \in Nat /\ Cardinality(A) <= Cardinality(B)
  <2> HIDE DEF A, B
  <2> QED
    BY <1>2, <1>3, FS_Subset, FS_CardinalityType
<1>5. Cardinality(B) < RemoveItems
  BY DEF Oldest
<1>6. Cardinality(A) < RemoveItems
  <2> HIDE DEF A, B
  <2> QED
    BY <1>4, <1>5, Bounds
<1> QED
  BY <1>6 DEF Oldest

-----------------------------------------------------------------------------
(***************************************************************************)
(* The replay.  Replayed is a recursive function, so that it has its       *)
(* values at all is a lemma (AfterExists), by induction on the length.     *)
(***************************************************************************)
\* The rows after all the requests of q.
Play(s, q) == Replayed(s, q)[Len(q)]

\* a is what the first n requests of q make of s, one after the other.
After(a, s, q, n) == a = [i \in 0..n |-> IF i = 0 THEN s ELSE Execute(q[i], a[i - 1])]

LEMMA AfterExists ==
  ASSUME NEW s, NEW q
  PROVE  \A n \in Nat : \E a : After(a, s, q, n)
<1> DEFINE S == {n \in Nat : \E a : After(a, s, q, n)}
<1>1. 0 \in S
  <2>1. After([i \in 0..0 |-> s], s, q, 0)
    BY DEF After
  <2> QED
    BY <2>1
<1>2. ASSUME NEW n \in Nat, n \in S PROVE n + 1 \in S
  <2>1. PICK a : After(a, s, q, n)
    BY <1>2
  <2> DEFINE b == [i \in 0..n + 1 |-> IF i = n + 1 THEN Execute(q[n + 1], a[n]) ELSE a[i]]
  <2>2. ASSUME NEW i \in 0..n + 1
        PROVE  b[i] = IF i = 0 THEN s ELSE Execute(q[i], b[i - 1])
    <3>1. CASE i = n + 1
      BY <3>1
    <3>2. CASE i \in 0..n
      BY <2>1, <3>2 DEF After
    <3> QED
      BY <3>1, <3>2
  <2>3. After(b, s, q, n + 1)
    BY <2>2 DEF After
  <2> QED
    BY <2>3
<1>3. Nat \subseteq S
  <2> HIDE DEF S
  <2> QED
    BY <1>1, <1>2, Counting
<1> QED
  BY <1>3

LEMMA ReplayedSteps ==
  ASSUME NEW s, NEW q \in Seq(Request)
  PROVE  /\ Replayed(s, q)[0] = s
         /\ \A i \in 1..Len(q) : Replayed(s, q)[i] = Execute(q[i], Replayed(s, q)[i - 1])
<1>1. Len(q) \in Nat
  OBVIOUS
<1>2. \E a : After(a, s, q, Len(q))
  BY <1>1, AfterExists
<1>3. After(Replayed(s, q), s, q, Len(q))
  BY <1>2 DEF Replayed, After
<1> HIDE DEF Replayed
<1> QED
  BY <1>1, <1>3 DEF After

LEMMA PlayNothing ==
  ASSUME NEW s
  PROVE  Play(s, << >>) = s
<1>1. << >> \in Seq(Request) /\ Len(<< >>) = 0
  OBVIOUS
<1> QED
  BY <1>1, ReplayedSteps DEF Play

\* A request more leaves what the others do as it is.
LEMMA ReplayedPrefix ==
  ASSUME NEW s, NEW q \in Seq(Request), NEW r \in Request
  PROVE  \A i \in 0..Len(q) : Replayed(s, Append(q, r))[i] = Replayed(s, q)[i]
<1> DEFINE p == Append(q, r)
<1>1. /\ p \in Seq(Request) /\ Len(p) = Len(q) + 1 /\ Len(q) \in Nat
      /\ \A i \in 1..Len(q) : p[i] = q[i]
  OBVIOUS
<1> HIDE DEF p
<1> DEFINE S == {i \in Nat : i <= Len(q) => Replayed(s, p)[i] = Replayed(s, q)[i]}
<1>2. 0 \in S
  BY <1>1, ReplayedSteps
<1>3. ASSUME NEW i \in Nat, i \in S PROVE i + 1 \in S
  <2> SUFFICES ASSUME i + 1 <= Len(q)
               PROVE  Replayed(s, p)[i + 1] = Replayed(s, q)[i + 1]
    OBVIOUS
  <2>1. Replayed(s, p)[i] = Replayed(s, q)[i]
    BY <1>1, <1>3
  <2>2. i + 1 \in 1..Len(q) /\ i + 1 \in 1..Len(p) /\ (i + 1) - 1 = i
    BY <1>1
  <2>3. Replayed(s, q)[i + 1] = Execute(q[i + 1], Replayed(s, q)[i])
    BY <2>2, ReplayedSteps
  <2>4. Replayed(s, p)[i + 1] = Execute(p[i + 1], Replayed(s, p)[i])
    BY <1>1, <2>2, ReplayedSteps
  <2> QED
    BY <1>1, <2>1, <2>2, <2>3, <2>4
<1>4. Nat \subseteq S
  <2> HIDE DEF S
  <2> QED
    BY <1>2, <1>3, Counting
<1>5. \A i \in 0..Len(q) : Replayed(s, p)[i] = Replayed(s, q)[i]
  BY <1>1, <1>4
<1> QED
  BY <1>5 DEF p

LEMMA PlayAppend ==
  ASSUME NEW s, NEW q \in Seq(Request), NEW r \in Request
  PROVE  Play(s, Append(q, r)) = Execute(r, Play(s, q))
<1> DEFINE p == Append(q, r)
           n == Len(q)
<1>1. p \in Seq(Request) /\ Len(p) = n + 1 /\ n \in Nat /\ p[n + 1] = r
  OBVIOUS
<1>2. Replayed(s, p)[n] = Replayed(s, q)[n]
  BY ReplayedPrefix
<1> HIDE DEF p, n
<1>3. n + 1 \in 1..Len(p) /\ (n + 1) - 1 = n
  BY <1>1
<1>4. Replayed(s, p)[n + 1] = Execute(p[n + 1], Replayed(s, p)[n])
  BY <1>1, <1>3, ReplayedSteps
<1>5. Replayed(s, p)[Len(p)] = Execute(r, Replayed(s, q)[n])
  BY <1>1, <1>2, <1>4
<1> QED
  BY <1>5 DEF Play, p, n

\* What is there later was there before, or one of the requests since put it there.
LEMMA ReplayedLater ==
  ASSUME NEW s, NEW q \in Seq(Request), NEW n \in 0..Len(q)
  PROVE  \A k \in n..Len(q) : \A x \in Replayed(s, q)[k] :
           x \in Replayed(s, q)[n] \/ \E j \in n + 1..k : q[j] = x /\ q[j] # Delete
<1> DEFINE Came(k) == \A x \in Replayed(s, q)[k] :
             x \in Replayed(s, q)[n] \/ \E j \in n + 1..k : q[j] = x /\ q[j] # Delete
           S == {k \in Nat : n + k <= Len(q) => Came(n + k)}
<1>1. 0 \in S
  BY DEF S
<1>2. ASSUME NEW k \in Nat, k \in S PROVE k + 1 \in S
  <2> DEFINE m == n + k
  <2> SUFFICES ASSUME m + 1 <= Len(q) PROVE Came(m + 1)
    OBVIOUS
  <2>1. Came(m) /\ m \in Nat
    BY <1>2
  <2>2. m + 1 \in 1..Len(q) /\ (m + 1) - 1 = m /\ m + 1 \in n + 1..m + 1
    OBVIOUS
  <2>3. Replayed(s, q)[m + 1] = Execute(q[m + 1], Replayed(s, q)[m])
    BY <2>2, ReplayedSteps
  <2>4. ASSUME NEW x \in Replayed(s, q)[m + 1]
        PROVE  x \in Replayed(s, q)[m] \/ (x = q[m + 1] /\ x # Delete)
    BY <2>3 DEF Execute
  <2> QED
    BY <2>1, <2>2, <2>4
<1>3. Nat \subseteq S
  <2> HIDE DEF S
  <2> QED
    BY <1>1, <1>2, Counting
<1>4. ASSUME NEW k \in n..Len(q) PROVE Came(k)
  <2>1. k - n \in Nat /\ n + (k - n) = k
    OBVIOUS
  <2> QED
    BY <1>3, <2>1
<1> QED
  BY <1>4

\* A replay brings nothing but rows.
LEMMA ReplayedRows ==
  ASSUME NEW s \in SUBSET Row, NEW q \in Seq(Request), NEW n \in 0..Len(q)
  PROVE  Replayed(s, q)[n] \in SUBSET Row
<1>1. 0 \in 0..Len(q) /\ n \in 0..Len(q) /\ \A j \in 1..n : q[j] \in Request
  OBVIOUS
<1>2. \A x \in Replayed(s, q)[n] :
        x \in Replayed(s, q)[0] \/ \E j \in 0 + 1..n : q[j] = x /\ q[j] # Delete
  BY <1>1, ReplayedLater
<1>3. Replayed(s, q)[0] = s
  BY ReplayedSteps
<1> QED
  BY <1>1, <1>2, <1>3 DEF Request

-----------------------------------------------------------------------------
(***************************************************************************)
(* Types.                                                                  *)
(***************************************************************************)
\* A statement is only prepared for a message the program was given.
Given == pc = "insert" => next <= MaxRows
Typed == TypeOK /\ Given

Luck == {"calm", "struck", "excused"}

LEMMA InitTyped == Init => Typed
<1> SUFFICES ASSUME Init PROVE Typed
  OBVIOUS
<1>1. rows \in [Db -> SUBSET Row] /\ replic \in Seq(Request) /\ Len(replic) = 0
  BY DEF Init
<1>2. 1 \in 1..MaxRows + 1 /\ 0 \in 0..MaxFaults /\ 0 <= MaxReplic
  BY Bounds
<1> QED
  BY <1>1, <1>2 DEF Init, Typed, TypeOK, Given, Request

LEMMA TroubleType ==
  ASSUME Typed
  PROVE  /\ \A d : Fails(d) => faults' \in 0..MaxFaults /\ open' \in SUBSET Db
         /\ Struck \/ Excused => luck' \in Luck
         /\ Fault \/ Faultless => faults' \in 0..MaxFaults
<1>1. Fault \/ Faultless => faults' \in 0..MaxFaults
  BY Bounds DEF Typed, TypeOK, Fault, Faultless
<1>2. \A d : Fails(d) => open' \in SUBSET Db /\ (Fault \/ Faultless)
  BY DEF Typed, TypeOK, Fails
<1>3. Struck \/ Excused => luck' \in Luck
  BY DEF Struck, Excused, Luck, Typed, TypeOK
<1> QED
  BY <1>1, <1>2, <1>3

LEMMA ReplayType ==
  ASSUME Typed, Replay
  PROVE  /\ rows' \in [Db -> SUBSET Row] /\ rows'["main"] = rows["main"]
         /\ faults' \in 0..MaxFaults /\ open' \in SUBSET Db
         /\ replic' \in Seq(Request) /\ Len(replic') = 0
<1>1. replic' \in Seq(Request) /\ Len(replic') = 0
  BY DEF Replay
<1>2. PICK n \in 0..Len(replic) :
        /\ rows' = [rows EXCEPT !["rsv"] = Replayed(rows["rsv"], replic)[n]]
        /\ \/ Faultless /\ open' = open
           \/ Fails("rsv")
  BY DEF Replay
<1>3. rows["rsv"] \in SUBSET Row /\ replic \in Seq(Request)
  BY DEF Typed, TypeOK, Request, Db
<1>4. Replayed(rows["rsv"], replic)[n] \in SUBSET Row
  BY <1>3, ReplayedRows
<1>5. rows' \in [Db -> SUBSET Row] /\ rows'["main"] = rows["main"]
  BY <1>2, <1>4 DEF Typed, TypeOK, Db
<1>6. faults' \in 0..MaxFaults /\ open' \in SUBSET Db
  BY <1>2, TroubleType DEF Typed, TypeOK
<1> QED
  BY <1>1, <1>5, <1>6

LEMMA ReserveType ==
  ASSUME Typed, NEW r \in Request, Reserve(r)
  PROVE  /\ rows' \in [Db -> SUBSET Row] /\ faults' \in 0..MaxFaults /\ open' \in SUBSET Db
         /\ replic' \in Seq(Request) /\ Len(replic') <= MaxReplic /\ luck' \in Luck
<1>1. CASE Len(replic) < MaxReplic
  <2>1. replic \in Seq(Request)
    BY DEF Typed, TypeOK, Request
  <2>2. replic' = Append(replic, r)
    BY <1>1 DEF Reserve
  <2>3. replic' \in Seq(Request) /\ Len(replic') <= MaxReplic
    BY <1>1, <2>1, <2>2, Bounds
  <2> QED
    BY <1>1, <2>3 DEF Reserve, Typed, TypeOK, Luck
<1>2. CASE ~(Len(replic) < MaxReplic)
  BY <1>2, ReplayType, TroubleType, Bounds DEF Reserve
<1> QED
  BY <1>1, <1>2

LEMMA TypedStep == Typed /\ [Next]_vars => Typed'
<1> SUFFICES ASSUME Typed, [Next]_vars PROVE Typed'
  OBVIOUS
<1>0. Len(<< >>) = 0 /\ << >> \in Seq(Request) /\ 0 <= MaxReplic
  BY Bounds
<1>1. CASE Save
  <2>1. next \in Request
    BY <1>1 DEF Save, Typed, TypeOK, Row, Request
  <2> QED
    BY <1>1, <2>1, ReserveType DEF Save, Typed, TypeOK, Given, Luck, Request
<1>2. CASE SaveRefused
  BY <1>2, Bounds DEF SaveRefused, store, Typed, TypeOK, Given
<1>3. CASE InsertDone
  <2>1. next \in Row /\ next + 1 \in 1..MaxRows + 1
    BY <1>3, Bounds DEF InsertDone, Typed, TypeOK, Given, Row
  <2>2. rows' \in [Db -> SUBSET Row] /\ saved' \in SUBSET Row
    BY <1>3, <2>1 DEF InsertDone, Typed, TypeOK, Db
  <2> QED
    BY <1>3, <2>1, <2>2 DEF InsertDone, Typed, TypeOK, Given
<1>4. CASE InsertFails
  <2>1. next + 1 \in 1..MaxRows + 1
    BY <1>4, Bounds DEF InsertFails, Typed, TypeOK, Given
  <2> QED
    BY <1>4, <2>1, TroubleType DEF InsertFails, Typed, TypeOK, Given, Luck
<1>5. CASE CountFails
  BY <1>5, TroubleType DEF CountFails, Typed, TypeOK, Given, Luck
<1>6. CASE CleanEnds
  BY <1>6 DEF CleanEnds, store, Typed, TypeOK, Given
<1>7. CASE CleanBegins
  <2>1. Delete \in Request
    BY DEF Request
  <2>2. removed' \in SUBSET Row
    BY <1>7 DEF CleanBegins, Oldest, Typed, TypeOK, Db
  <2> QED
    BY <1>7, <2>1, <2>2, ReserveType DEF CleanBegins, Typed, TypeOK, Given, Luck, Request
<1>8. CASE DeleteDone
  <2>1. rows' \in [Db -> SUBSET Row]
    BY <1>8 DEF DeleteDone, Typed, TypeOK, Db
  <2>2. faults' \in 0..MaxFaults /\ open' \in SUBSET Db /\ luck' \in Luck
    BY <1>8, TroubleType DEF DeleteDone, Typed, TypeOK
  <2> QED
    BY <1>8, <2>1, <2>2 DEF DeleteDone, Typed, TypeOK, Given, Luck
<1>9. CASE DeleteFails
  BY <1>9, TroubleType DEF DeleteFails, Typed, TypeOK, Given, Luck
<1>10. CASE Timer \/ Restart \/ Stop
  <2>1. luck' \in Luck
    BY <1>10, TroubleType DEF Timer, Restart, Stop, Destroy, Replication
  <2>2. Replay
    BY <1>10 DEF Timer, Restart, Stop, Destroy, Replication
  <2> QED
    BY <1>0, <1>10, <2>1, <2>2, ReplayType
    DEF Timer, Restart, Stop, Destroy, Typed, TypeOK, Given, Luck, Request
<1>11. CASE Start
  <2>1. \A d \in Db : Readable(d) \in SUBSET Row
    BY DEF Readable, Typed, TypeOK
  <2>2. rows' \in [Db -> SUBSET Row]
    <3>1. CASE Construct
      <4>1. ASSUME NEW d \in Db PROVE rows'[d] \in SUBSET Row
        <5>1. CASE MainIsNewer
          BY <2>1, <3>1, <5>1 DEF Construct, Db
        <5>2. CASE ~MainIsNewer /\ RsvIsNewer
          BY <2>1, <3>1, <5>2 DEF Construct, Db
        <5>3. CASE ~MainIsNewer /\ ~RsvIsNewer
          BY <2>1, <3>1, <5>3 DEF Construct
        <5> QED
          BY <5>1, <5>2, <5>3
      <4>2. rows' = [d \in Db |-> rows'[d]]
        BY <3>1 DEF Construct
      <4> QED
        BY <4>1, <4>2
    <3>2. CASE BackupFails
      BY <2>1, <3>2 DEF BackupFails, Db
    <3>3. CASE ConstructFails
      BY <3>3 DEF ConstructFails, Typed, TypeOK
    <3> QED
      BY <1>11, <3>1, <3>2, <3>3 DEF Start
  <2>3. faults' \in 0..MaxFaults
    BY <1>11, TroubleType DEF Start, Construct, BackupFails, ConstructFails, Faultless
  <2>4. luck' \in Luck
    BY <1>11, TroubleType
    DEF Start, Construct, BackupFails, ConstructFails, Typed, TypeOK, Luck
  <2>5. open' \in SUBSET Db /\ damaged' \in SUBSET Db
    BY <1>11 DEF Start, Construct, BackupFails, ConstructFails, Fresh, Typed, TypeOK, Db
  <2>6. pc' \in {"clean", "idle"} /\ replic' = << >> /\ doClean' = FALSE
        /\ UNCHANGED <<next, saved, removed>>
    BY <1>11 DEF Start, Construct, BackupFails, ConstructFails, Fresh, Cleans
  <2> QED
    BY <1>0, <2>2, <2>3, <2>4, <2>5, <2>6 DEF Typed, TypeOK, Given, Luck, Request
<1>12. CASE Crash
  BY <1>0, <1>12, TroubleType DEF Crash, store, Typed, TypeOK, Given, Luck, Request
<1>13. CASE Damage
  BY <1>13, TroubleType DEF Damage, Typed, TypeOK, Given, Luck
<1>14. CASE UNCHANGED vars
  BY <1>14 DEF vars, Typed, TypeOK, Given
<1> QED
  BY <1>1, <1>2, <1>3, <1>4, <1>5, <1>6, <1>7, <1>8, <1>9, <1>10, <1>11, <1>12, <1>13, <1>14
  DEF Next, Statement

\* The queue of the reserve never holds more than max_replic_size requests,
\* and the tables and the queue hold nothing but rows and requests.
THEOREM LogTypeCorrect == Spec => []TypeOK
BY InitTyped, TypedStep, PTL DEF Spec, Typed

-----------------------------------------------------------------------------
(***************************************************************************)
(* The order of the rows: those in a database are older than those in the  *)
(* queue, which are in order, and the message to come is newer than all.   *)
(***************************************************************************)
Silent == pc = "down" => replic = << >>

Past == \A d \in Db : \A x \in rows[d] : x < next

InOrder ==
  \A i \in 1..Len(replic) :
    replic[i] # Delete =>
      /\ replic[i] <= next /\ (replic[i] = next => pc = "insert")
      /\ \A x \in rows["rsv"] : x < replic[i]
      /\ \A j \in 1..i - 1 : replic[j] < replic[i]

Order == Silent /\ Past /\ InOrder

LEMMA OrderTypes ==
  ASSUME Typed
  PROVE  /\ next \in Nat /\ next > 0 /\ Db = {"main", "rsv"}
         /\ replic \in Seq(Request) /\ Len(replic) \in Nat /\ Request \subseteq Nat
         /\ \A i \in 1..Len(replic) : replic[i] \in Request
         /\ rows \in [Db -> SUBSET Row] /\ rows["main"] \subseteq Nat
         /\ rows["rsv"] \subseteq Nat /\ rows["rsv"] \in SUBSET Row
         /\ rows["main"] \in SUBSET Row
<1>1. replic \in Seq(Request) /\ next \in Nat /\ next > 0 /\ rows \in [Db -> SUBSET Row]
  BY Bounds DEF Typed, TypeOK, Request
<1>2. Request \subseteq Nat
  BY Bounds DEF Request, Delete
<1>3. Len(replic) \in Nat /\ \A i \in 1..Len(replic) : replic[i] \in Request
  BY <1>1
<1> QED
  BY <1>1, <1>2, <1>3, Bounds DEF Db

LEMMA EmptyInOrder ==
  ASSUME replic' = << >>
  PROVE  Silent' /\ InOrder'
<1>1. Len(replic') = 0
  OBVIOUS
<1> QED
  BY <1>1 DEF Silent, InOrder

\* A replay puts nothing on the reserve that is not older than the next message.
LEMMA ReplayOrder ==
  ASSUME Typed, Order, Replay, pc # "insert", next' = next
  PROVE  Order'
<1>1. PICK n \in 0..Len(replic) :
        rows' = [rows EXCEPT !["rsv"] = Replayed(rows["rsv"], replic)[n]]
  BY DEF Replay
<1>2. \A x \in Replayed(rows["rsv"], replic)[n] : x < next
  <2> SUFFICES ASSUME NEW x \in Replayed(rows["rsv"], replic)[n] PROVE x < next
    OBVIOUS
  <2>1. 0 \in 0..Len(replic) /\ n \in 0..Len(replic) /\ replic \in Seq(Request)
        /\ Replayed(rows["rsv"], replic)[0] = rows["rsv"]
    BY OrderTypes, ReplayedSteps
  <2>2. x \in rows["rsv"] \/ \E j \in 0 + 1..n : replic[j] = x /\ replic[j] # Delete
    BY <2>1, ReplayedLater
  <2>3. CASE x \in rows["rsv"]
    BY <2>3 DEF Order, Past, Db
  <2>4. ASSUME NEW j \in 1..n, replic[j] = x, replic[j] # Delete PROVE x < next
    <3>1. replic[j] <= next /\ replic[j] # next /\ replic[j] \in Nat
      BY <2>4, OrderTypes DEF Order, InOrder
    <3> QED
      BY <2>4, <3>1, OrderTypes
  <2> QED
    BY <2>2, <2>3, <2>4
<1>3. Past'
  BY <1>1, <1>2, OrderTypes DEF Order, Past
<1> QED
  BY <1>3, EmptyInOrder DEF Replay, Order

LEMMA ReserveOrder ==
  ASSUME Typed, Order, NEW r \in Request, Reserve(r), pc # "insert", pc # "down", pc' # "down",
         next' = next, r = Delete \/ (r = next /\ pc' = "insert")
  PROVE  Order'
<1>1. CASE Len(replic) < MaxReplic
  <2>1. replic' = Append(replic, r) /\ rows' = rows
    BY <1>1 DEF Reserve
  <2>2. Past' /\ Silent'
    BY <2>1 DEF Order, Past, Silent
  <2>3. ASSUME NEW i \in 1..Len(replic'), replic'[i] # Delete
        PROVE  /\ replic'[i] <= next /\ (replic'[i] = next => pc' = "insert")
               /\ \A x \in rows["rsv"] : x < replic'[i]
               /\ \A j \in 1..i - 1 : replic'[j] < replic'[i]
    <3>1. /\ Len(replic') = Len(replic) + 1 /\ Len(replic) \in Nat
          /\ replic'[Len(replic) + 1] = r
          /\ \A j \in 1..Len(replic) : replic'[j] = replic[j]
      BY <2>1, OrderTypes
    <3>2. CASE i \in 1..Len(replic)
      <4>1. \A j \in 1..i - 1 : j \in 1..Len(replic)
        BY <3>1, <3>2
      <4> QED
        BY <2>3, <3>1, <3>2, <4>1 DEF Order, InOrder
    <3>3. CASE i = Len(replic) + 1
      <4>1. replic'[i] = next /\ r = next /\ pc' = "insert"
        BY <2>3, <3>1, <3>3
      <4>2. \A j \in 1..Len(replic) : replic[j] < next
        <5> SUFFICES ASSUME NEW j \in 1..Len(replic) PROVE replic[j] < next
          OBVIOUS
        <5>1. CASE replic[j] = Delete
          BY <5>1, OrderTypes DEF Delete
        <5>2. CASE replic[j] # Delete
          <6>1. replic[j] <= next /\ replic[j] # next /\ replic[j] \in Nat
            BY <5>2, OrderTypes DEF Order, InOrder
          <6> QED
            BY <6>1, OrderTypes
        <5> QED
          BY <5>1, <5>2
      <4>3. \A j \in 1..i - 1 : replic'[j] < next
        BY <3>1, <3>3, <4>2
      <4>4. \A x \in rows["rsv"] : x < next
        BY OrderTypes DEF Order, Past
      <4> QED
        BY <4>1, <4>3, <4>4, OrderTypes
    <3> QED
      BY <3>1, <3>2, <3>3
  <2> QED
    BY <2>1, <2>2, <2>3 DEF Order, InOrder
<1>2. CASE ~(Len(replic) < MaxReplic)
  BY <1>2, ReplayOrder DEF Reserve
<1> QED
  BY <1>1, <1>2

LEMMA InitOrder == Init => Order
<1> SUFFICES ASSUME Init PROVE Order
  OBVIOUS
<1>1. Len(replic) = 0
  BY DEF Init
<1> QED
  BY <1>1 DEF Init, Order, Silent, Past, InOrder

LEMMA OrderStep == Typed /\ Order /\ [Next]_vars => Order'
<1> SUFFICES ASSUME Typed, Order, [Next]_vars PROVE Order'
  OBVIOUS
<1>1. CASE Save
  BY <1>1, ReserveOrder DEF Save, Request, Row, Typed, TypeOK
<1>2. CASE SaveRefused
  BY <1>2, OrderTypes DEF SaveRefused, store, Order, Silent, Past, InOrder
<1>3. CASE InsertDone
  BY <1>3, OrderTypes DEF InsertDone, Order, Silent, Past, InOrder
<1>4. CASE InsertFails
  BY <1>4, OrderTypes DEF InsertFails, Order, Silent, Past, InOrder
<1>5. CASE CountFails \/ CleanEnds \/ DeleteFails
  BY <1>5, OrderTypes
  DEF CountFails, CleanEnds, DeleteFails, store, Order, Silent, Past, InOrder
<1>6. CASE CleanBegins
  BY <1>6, ReserveOrder DEF CleanBegins, Request
<1>7. CASE DeleteDone
  BY <1>7, OrderTypes DEF DeleteDone, Order, Silent, Past, InOrder
<1>8. CASE Timer \/ Restart \/ Stop
  BY <1>8, ReplayOrder DEF Timer, Restart, Stop, Destroy, Replication
<1>9. CASE Start
  <2>1. replic' = << >> /\ next' = next
    BY <1>9 DEF Start, Construct, BackupFails, ConstructFails, Fresh
  <2>2. \A d \in Db : \A x \in Readable(d) : x < next
    BY DEF Readable, Order, Past
  <2>3. \A d \in Db : rows'[d] \in {{}, rows[d], Readable("main"), Readable("rsv")}
    BY <1>9 DEF Start, Construct, BackupFails, ConstructFails, Db, Typed, TypeOK
  <2>4. Past'
    BY <2>1, <2>2, <2>3 DEF Order, Past, Db
  <2> QED
    BY <2>1, <2>4, EmptyInOrder DEF Order
<1>10. CASE Crash
  BY <1>10, EmptyInOrder DEF Crash, store, Order, Past
<1>11. CASE Damage
  BY <1>11 DEF Damage, Order, Silent, Past, InOrder
<1>12. CASE UNCHANGED vars
  BY <1>12 DEF vars, Order, Silent, Past, InOrder
<1> QED
  BY <1>1, <1>2, <1>3, <1>4, <1>5, <1>6, <1>7, <1>8, <1>9, <1>10, <1>11, <1>12
  DEF Next, Statement

-----------------------------------------------------------------------------
(***************************************************************************)
(* Where the rows are that the program has not asked to be removed.  As    *)
(* long as no fault has struck both databases hold them, the reserve with  *)
(* what is queued for it; one fault leaves one of them, and the            *)
(* constructor, which sees nothing but the newest rows, never copies the   *)
(* other one over it.                                                      *)
(***************************************************************************)
Fine == luck # "excused"
Held == saved \ removed

\* The main database when the DELETE that was asked for is done.
Staying == IF pc = "delete" THEN rows["main"] \ Oldest(rows["main"]) ELSE rows["main"]

Both ==
  /\ damaged = {} /\ (pc # "down" => "rsv" \in open)
  /\ Held \subseteq rows["main"] /\ Staying \subseteq Play(rows["rsv"], replic)

OnlyMain ==
  /\ "main" \notin damaged /\ Held \subseteq rows["main"]
  /\ pc = "down" \/ ~Works("rsv")

OnlyRsv ==
  /\ "rsv" \notin damaged /\ Held \subseteq Play(rows["rsv"], replic)
  /\ "main" \in damaged \/ (rows["main"] = {} /\ "main" \notin open)
  /\ pc = "down" \/ "rsv" \in open \/ (replic = << >> /\ "main" \notin open)

Whole == Both \/ (luck = "struck" /\ (OnlyMain \/ OnlyRsv))

\* The main database has no row older than the newest of the reserve that
\* the reserve does not have.
Prefix ==
  "main" \notin damaged =>
    \A x \in rows["main"], y \in rows["rsv"] : x <= y => x \in rows["rsv"]

Announced == pc = "insert" => replic # << >> /\ replic[Len(replic)] = next

Asked == pc = "delete" => "main" \in open /\ Oldest(rows["main"]) \subseteq removed

\* A removal is only repeated after a fault.
Again ==
  doClean /\ (pc \in {"insert", "clean"} \/ (pc = "idle" /\ "main" \in open)) =>
    luck = "struck" /\ "main" \notin damaged /\ "main" \in open

Good == Announced /\ Prefix /\ Asked /\ Again /\ Whole
IInv == Typed /\ Order /\ (Fine => Good)

\* A fault is excused unless it is the first.
LEMMA FaultCounts ==
  ASSUME Typed, Fault
  PROVE  faults' # faults
BY Bounds DEF Typed, TypeOK, Fault

LEMMA FirstFault ==
  ASSUME Typed, Struck, Fine'
  PROVE  /\ Fine
         /\ \/ Faultless /\ luck' = luck
            \/ ~Faultless /\ luck = "calm" /\ luck' = "struck"
BY DEF Typed, TypeOK, Struck, Fine, Faultless

LEMMA MainFails ==
  ASSUME Typed, Fails("main"), Struck, Fine'
  PROVE  /\ Fine
         /\ \/ /\ Works("main") /\ luck = "calm" /\ luck' = "struck"
               /\ open' \in {open, open \ {"main"}}
            \/ /\ "main" \in open /\ "main" \in damaged /\ luck' = luck
               /\ open' = open \ {"main"}
            \/ "main" \notin open /\ luck' = luck /\ open' = open
BY FirstFault, FaultCounts DEF Fails, Faultless

LEMMA InitIInv == Init => IInv
<1> SUFFICES ASSUME Init PROVE IInv
  OBVIOUS
<1>1. Play(rows["rsv"], replic) = {} /\ rows["main"] = {}
  BY PlayNothing DEF Init, Db
<1> QED
  BY <1>1, InitTyped, InitOrder
  DEF Init, IInv, Good, Announced, Prefix, Asked, Again, Whole, Both, Held, Staying

LEMMA InsertGood ==
  ASSUME IInv, Fine', Save \/ SaveRefused \/ InsertDone \/ InsertFails
  PROVE  Good'
<1> USE DEF Good, Announced, Asked, Again
<1>1. CASE Save
  <2>1. Fine /\ Good /\ luck' = luck /\ next \in Request
    BY <1>1 DEF IInv, Save, Reserve, Excused, Fine, Request, Typed, TypeOK, Row
  <2>2. /\ replic' = Append(replic, next) /\ UNCHANGED <<rows, open, damaged, saved, removed>>
        /\ pc = "idle" /\ pc' = "insert" /\ "main" \in open /\ next' = next /\ doClean' = doClean
    BY <1>1 DEF Save, Reserve, Excused, Fine
  <2>3. replic' # << >> /\ replic'[Len(replic')] = next'
    BY <2>1, <2>2, OrderTypes DEF IInv
  <2>4. Play(rows["rsv"], replic)  \subseteq Play(rows'["rsv"], replic')
    BY <2>1, <2>2, OrderTypes, PlayAppend DEF IInv, Execute, Delete
  <2>5. Whole'
    BY <2>1, <2>2, <2>4 DEF Whole, Both, OnlyMain, OnlyRsv, Held, Staying, Works
  <2> QED
    BY <2>1, <2>2, <2>3, <2>5 DEF Prefix
<1>2. CASE SaveRefused
  <2>1. Fine /\ Good
    BY <1>2 DEF IInv, SaveRefused, Fine
  <2> QED
    BY <1>2, <2>1
    DEF SaveRefused, store, Prefix, Whole, Both, OnlyMain, OnlyRsv, Held, Staying, Works
<1>3. CASE InsertDone
  <2>1. Fine /\ Good
    BY <1>3 DEF IInv, InsertDone, Fine
  <2>2. /\ rows'["main"] = rows["main"] \union {next} /\ rows'["rsv"] = rows["rsv"]
        /\ Held' \subseteq Held \union {next}
        /\ pc = "insert" /\ pc' = "clean"
        /\ UNCHANGED <<replic, damaged, open, doClean, luck>> /\ Works("main")
    BY <1>3, OrderTypes DEF InsertDone, IInv, Held
  <2>3. next \in Play(rows["rsv"], replic)
    <3> DEFINE n == Len(replic)
    <3>1. n \in 1..Len(replic) /\ replic[n] = next /\ next # Delete
      BY <2>1, <2>2, OrderTypes DEF IInv, Delete
    <3>2. Replayed(rows["rsv"], replic)[n] = Execute(replic[n], Replayed(rows["rsv"], replic)[n - 1])
      BY <3>1, OrderTypes, ReplayedSteps DEF IInv
    <3> QED
      BY <3>1, <3>2 DEF Play, Execute
  <2>4. Whole'
    BY <2>1, <2>2, <2>3 DEF Whole, Both, OnlyMain, OnlyRsv, Staying, Works
  <2>5. Prefix'
    <3>1. \A y \in rows["rsv"] : ~(next <= y)
      BY OrderTypes DEF IInv, Order, Past
    <3> QED
      BY <2>1, <2>2, <3>1 DEF Prefix
  <2> QED
    BY <2>1, <2>2, <2>4, <2>5
<1>4. CASE InsertFails
  <2>1. Fails("main") /\ Struck
    BY <1>4 DEF InsertFails
  <2>2. Fine /\ Good
    BY <2>1, MainFails DEF IInv
  <2>3. UNCHANGED <<rows, damaged, replic, doClean, saved, removed>>
        /\ pc = "insert" /\ pc' = "idle"
    BY <1>4 DEF InsertFails
  <2>4. Whole'
    BY <2>1, <2>2, <2>3, MainFails
    DEF IInv, Whole, Both, OnlyMain, OnlyRsv, Held, Staying, Works
  <2>5. Again'
    BY <2>1, <2>2, <2>3, MainFails DEF IInv, Works
  <2> QED
    BY <2>2, <2>3, <2>4, <2>5 DEF Prefix
<1> QED
  BY <1>1, <1>2, <1>3, <1>4

LEMMA CleanGood ==
  ASSUME IInv, Fine', CountFails \/ CleanEnds \/ CleanBegins \/ DeleteDone \/ DeleteFails
  PROVE  Good'
<1> USE DEF Good, Announced, Asked, Again
<1>1. CASE CountFails
  <2>1. Fails("main") /\ Struck
    BY <1>1 DEF CountFails
  <2>2. Fine /\ Good
    BY <2>1, MainFails DEF IInv
  <2>3. /\ UNCHANGED <<rows, damaged, replic, doClean, saved, removed>>
        /\ pc = "clean" /\ pc' \in {"clean", "idle"} /\ "main" \in open
        /\ pc' = "clean" \/ ~doClean
    BY <1>1 DEF CountFails
  <2>4. Whole'
    BY <2>1, <2>2, <2>3, MainFails
    DEF IInv, Whole, Both, OnlyMain, OnlyRsv, Held, Staying, Works
  <2>5. ~doClean
    BY <2>1, <2>2, <2>3, MainFails DEF IInv
  <2> QED
    BY <2>2, <2>3, <2>4, <2>5 DEF Prefix
<1>2. CASE CleanEnds
  <2>1. Fine /\ Good
    BY <1>2 DEF IInv, CleanEnds, Fine
  <2> QED
    BY <1>2, <2>1
    DEF CleanEnds, store, Prefix, Whole, Both, OnlyMain, OnlyRsv, Held, Staying, Works
<1>3. CASE CleanBegins
  <2>1. Fine /\ Good /\ luck' = luck
    BY <1>3 DEF IInv, CleanBegins, Reserve, Excused, Fine
  <2>2. /\ replic' = Append(replic, Delete) /\ UNCHANGED <<rows, open, damaged, saved>>
        /\ pc = "clean" /\ pc' = "delete" /\ doClean' = TRUE
        /\ removed' = removed \union Oldest(rows["main"])
    BY <1>3 DEF CleanBegins, Reserve, Excused, Fine
  <2>3. "main" \in open
    <3>1. CASE doClean
      BY <2>1, <2>2, <3>1
    <3>2. CASE ~doClean
      <4>1. Total # 0
        BY <1>3, <3>2, Bounds DEF CleanBegins, Total
      <4> QED
        BY <4>1 DEF Total
    <3> QED
      BY <3>1, <3>2
  <2>4. Works("main")
    BY <1>3, <2>3 DEF CleanBegins, Counted
  <2>5. Play(rows["rsv"], replic') =
          Play(rows["rsv"], replic) \ Oldest(Play(rows["rsv"], replic))
    BY <2>2, OrderTypes, PlayAppend DEF IInv, Execute, Request
  <2>6. Whole'
    <3>1. Held' \subseteq Held
      BY <2>2 DEF Held
    <3>2. CASE Both
      <4>1. rows["main"] \subseteq Play(rows["rsv"], replic)
        BY <2>2, <3>2 DEF Both, Staying
      <4>2. Play(rows["rsv"], replic) \in SUBSET Row
        <5>1. Len(replic) \in 0..Len(replic)
          BY OrderTypes DEF IInv
        <5> QED
          BY <5>1, OrderTypes, ReplayedRows DEF IInv, Play
      <4>3. Staying' \subseteq Play(rows'["rsv"], replic')
        BY <2>2, <2>5, <4>1, <4>2, OldestAntitone DEF Staying
      <4> QED
        BY <2>1, <2>2, <3>1, <3>2, <4>3 DEF Whole, Both
    <3>3. CASE luck = "struck" /\ OnlyMain
      BY <2>1, <2>2, <3>1, <3>3 DEF Whole, OnlyMain, Works
    <3>4. ~OnlyRsv
      BY <2>4 DEF OnlyRsv, Works
    <3> QED
      BY <2>1, <3>2, <3>3, <3>4 DEF Whole
  <2> QED
    BY <2>1, <2>2, <2>3, <2>6 DEF Prefix
<1>4. CASE DeleteDone
  <2>1. Struck /\ Works("main") /\ pc = "delete"
    BY <1>4 DEF DeleteDone
  <2>2. Fine /\ Good
    BY <2>1, FirstFault DEF IInv
  <2>3. /\ rows'["main"] = rows["main"] \ Oldest(rows["main"]) /\ rows'["rsv"] = rows["rsv"]
        /\ UNCHANGED <<damaged, replic, saved, removed>> /\ pc' \in {"clean", "idle"}
        /\ \/ doClean' = FALSE /\ open' = open /\ Faultless
           \/ Fails("main") /\ pc' = "idle"
    BY <1>4, OrderTypes DEF DeleteDone, IInv
  <2>4. Held' = Held /\ Staying' = Staying
        /\ (Held \subseteq rows["main"] => Held' \subseteq rows'["main"])
    BY <2>1, <2>2, <2>3 DEF Held, Staying
  <2>5. \/ doClean' = FALSE /\ open' = open /\ luck' = luck
        \/ luck = "calm" /\ luck' = "struck" /\ open' \in {open, open \ {"main"}}
    BY <2>1, <2>2, <2>3, FirstFault, MainFails DEF IInv, Works, Faultless
  <2>6. Whole'
    BY <2>1, <2>2, <2>3, <2>4, <2>5 DEF Whole, Both, OnlyMain, OnlyRsv, Works
  <2>7. Again'
    BY <2>1, <2>3, <2>5 DEF Works
  <2>8. Prefix'
    BY <2>2, <2>3 DEF Prefix
  <2> QED
    BY <2>3, <2>6, <2>7, <2>8
<1>5. CASE DeleteFails
  <2>1. Fails("main") /\ Struck /\ Faultless
    BY <1>5 DEF DeleteFails, Excused, Fine, Faultless
  <2>2. Fine /\ Good /\ luck' = luck
    BY <2>1, FirstFault DEF IInv
  <2>3. UNCHANGED <<rows, damaged, replic, doClean, saved, removed>>
        /\ pc = "delete" /\ pc' = "idle"
    BY <1>5 DEF DeleteFails
  <2>4. "main" \in damaged /\ open' = open \ {"main"}
    BY <2>1, <2>2, <2>3, FaultCounts DEF IInv, Fails, Faultless
  <2>5. Whole'
    BY <2>2, <2>3, <2>4 DEF Whole, Both, OnlyMain, OnlyRsv, Held
  <2> QED
    BY <2>2, <2>3, <2>4, <2>5 DEF Prefix
<1> QED
  BY <1>1, <1>2, <1>3, <1>4, <1>5

\* What a replay leaves: everything on the reserve, or an error the reserve
\* will be built anew for.
LEMMA ReplayOutcome ==
  ASSUME IInv, Fine', Replication, pc = "idle"
  PROVE  /\ Fine /\ replic' = << >> /\ rows'["main"] = rows["main"]
         /\ open' \in {open, open \ {"rsv"}}
         /\ \E n \in 0..Len(replic) : rows'["rsv"] = Replayed(rows["rsv"], replic)[n]
         /\ Works("rsv") \/ rows'["rsv"] = rows["rsv"]
         /\ \/ /\ rows'["rsv"] = Play(rows["rsv"], replic)
               /\ open' = open /\ luck' = luck
            \/ /\ Works("rsv") /\ luck = "calm" /\ luck' = "struck" /\ "rsv" \notin open'
            \/ "rsv" \in damaged /\ "rsv" \notin open' /\ luck' = luck
            \/ "rsv" \notin open /\ luck' = luck /\ replic # << >> /\ open' = open
<1>1. PICK n \in 0..Len(replic) :
        /\ n > 0 => Works("rsv")
        /\ rows' = [rows EXCEPT !["rsv"] = Replayed(rows["rsv"], replic)[n]]
        /\ IF n = Len(replic) THEN Faultless /\ open' = open ELSE Fails("rsv")
  BY DEF Replication, Replay
<1>2. rows'["main"] = rows["main"] /\ rows'["rsv"] = Replayed(rows["rsv"], replic)[n]
  BY <1>1, OrderTypes DEF IInv
<1>3. Struck /\ (Faultless \/ "rsv" \notin open')
  BY DEF Replication, Excused, Fine, Faultless
<1>4. Fine /\ (Faultless => luck' = luck)
        /\ (~Faultless => luck = "calm" /\ luck' = "struck")
  BY <1>3, FirstFault DEF IInv
<1>5. replic' = << >>
  BY DEF Replication, Replay
<1>6. Works("rsv") \/ rows'["rsv"] = rows["rsv"]
  <2>1. CASE n = 0
    BY <1>2, <2>1, OrderTypes, ReplayedSteps DEF IInv
  <2>2. CASE n # 0
    BY <1>1, <2>2
  <2> QED
    BY <2>1, <2>2
<1>7. CASE n = Len(replic)
  BY <1>1, <1>2, <1>4, <1>5, <1>7, <1>6 DEF Play
<1>8. CASE n # Len(replic)
  <2>1. Fails("rsv") /\ replic # << >>
    <3>1. Len(replic) \in Nat /\ Len(replic) # 0
      BY <1>8, OrderTypes DEF IInv
    <3> QED
      BY <1>1, <1>8, <3>1
  <2>2. CASE Works("rsv") /\ Fault
    BY <1>2, <1>3, <1>4, <1>5, <1>6, <2>1, <2>2, FaultCounts DEF Fails, Faultless, IInv, Works
  <2>3. CASE ~(Works("rsv") /\ Fault)
    <3>1. ~Works("rsv") /\ Faultless
      BY <2>1, <2>3 DEF Fails, Works
    <3> QED
      BY <1>2, <1>4, <1>5, <1>6, <2>1, <3>1 DEF Fails, Works
  <2> QED
    BY <2>2, <2>3
<1> QED
  BY <1>7, <1>8

\* A replay that stops half way has brought the older rows over.
LEMMA ReplayPrefix ==
  ASSUME IInv, Both, pc = "idle", NEW n \in 0..Len(replic),
         NEW x \in rows["main"], NEW y \in Replayed(rows["rsv"], replic)[n], x <= y
  PROVE  x \in Replayed(rows["rsv"], replic)[n]
<1> DEFINE R(i) == Replayed(rows["rsv"], replic)[i]
<1>1. replic \in Seq(Request) /\ Len(replic) \in Nat
  BY OrderTypes DEF IInv
<1>2. /\ Len(replic) \in n..Len(replic) /\ 0 \in 0..Len(replic) /\ n \in 0..Len(replic)
      /\ 0 + 1 = 1
  BY <1>1
<1>3. x \in R(Len(replic))
  BY DEF Both, Staying, Play
<1>4. x \in R(n) \/ \E j \in n + 1..Len(replic) : replic[j] = x /\ replic[j] # Delete
  BY <1>1, <1>2, <1>3, ReplayedLater
<1>5. R(0) = rows["rsv"]
  BY <1>1, ReplayedSteps
<1>6. y \in R(0) \/ \E j \in 0 + 1..n : replic[j] = y /\ replic[j] # Delete
  BY <1>1, <1>2, ReplayedLater
<1> HIDE DEF R
<1>7. ASSUME NEW j \in n + 1..Len(replic), replic[j] = x, replic[j] # Delete
      PROVE  y < x
  <2>1. j \in 1..Len(replic)
    OBVIOUS
  <2>2. /\ \A z \in rows["rsv"] : z < replic[j]
        /\ \A i \in 1..j - 1 : replic[i] < replic[j]
    BY <1>7, <2>1 DEF IInv, Order, InOrder
  <2>3. \A i \in 1..n : i \in 1..j - 1
    BY <1>1
  <2> QED
    BY <1>2, <1>5, <1>6, <1>7, <2>2, <2>3
<1>8. x \in Nat /\ y \in Nat
  <2>1. R(n) \in SUBSET Row
    BY <1>1, OrderTypes, ReplayedRows DEF IInv, R
  <2> QED
    BY <2>1, OrderTypes, Bounds DEF IInv, R
<1>9. x \in R(n)
  BY <1>4, <1>7, <1>8
<1> QED
  BY <1>9 DEF R

LEMMA ReplicationGood ==
  ASSUME IInv, Fine', Timer \/ Restart \/ Stop
  PROVE  Good'
<1>1. /\ Replication /\ pc = "idle" /\ pc' \in {"idle", "down"}
      /\ UNCHANGED <<damaged, doClean, next, saved, removed>>
  BY DEF Timer, Restart, Stop, Destroy
<1>2. Fine /\ Good
  BY <1>1, ReplayOutcome DEF IInv
<1>3. Held' = Held /\ Staying = rows["main"] /\ Staying' = rows'["main"]
  BY <1>1 DEF Held, Staying
<1>4. replic' = << >> /\ rows'["main"] = rows["main"]
      /\ Play(rows'["rsv"], replic') = rows'["rsv"]
  BY <1>1, ReplayOutcome, PlayNothing
<1>5. Announced' /\ Asked'
  BY <1>1 DEF Announced, Asked
<1>6. Again'
  BY <1>1, <1>2, ReplayOutcome DEF Good, Again
<1>7. Prefix'
  <2>1. PICK n \in 0..Len(replic) : rows'["rsv"] = Replayed(rows["rsv"], replic)[n]
    BY <1>1, ReplayOutcome
  <2>2. Works("rsv") \/ rows'["rsv"] = rows["rsv"]
    BY <1>1, ReplayOutcome
  <2>3. CASE Both
    BY <1>1, <1>4, <2>1, <2>3, ReplayPrefix DEF Prefix
  <2>4. CASE OnlyMain
    BY <1>1, <1>2, <1>4, <2>2, <2>4 DEF OnlyMain, Good, Prefix
  <2>5. CASE OnlyRsv
    BY <1>1, <1>4, <2>5 DEF OnlyRsv, Prefix
  <2> QED
    BY <1>2, <2>3, <2>4, <2>5 DEF Good, Whole
<1>8. Whole'
  <2> USE DEF Whole, Both, OnlyMain, OnlyRsv, Works
  <2>1. CASE /\ rows'["rsv"] = Play(rows["rsv"], replic)
             /\ open' = open /\ luck' = luck
    BY <1>1, <1>2, <1>3, <1>4, <2>1 DEF Good
  <2>2. CASE /\ Works("rsv") /\ luck = "calm" /\ luck' = "struck" /\ "rsv" \notin open'
    BY <1>1, <1>2, <1>3, <1>4, <2>2 DEF Good
  <2>3. CASE "rsv" \in damaged /\ "rsv" \notin open' /\ luck' = luck
    BY <1>1, <1>2, <1>3, <1>4, <2>3 DEF Good
  <2>4. CASE "rsv" \notin open /\ luck' = luck /\ replic # << >> /\ open' = open
    BY <1>1, <1>2, <1>3, <1>4, <2>4 DEF Good
  <2> QED
    BY <1>1, <2>1, <2>2, <2>3, <2>4, ReplayOutcome
<1> QED
  BY <1>5, <1>6, <1>7, <1>8 DEF Good

\* What the comparison of the newest rows says.
LEMMA Newer ==
  ASSUME Typed
  PROVE  /\ MainIsNewer => ~RsvIsNewer /\ Readable("main") # {}
         /\ RsvIsNewer => Readable("rsv") # {}
         /\ ~MainIsNewer /\ "main" \notin damaged =>
              \A x \in rows["main"] : \E y \in Readable("rsv") : x <= y
         /\ ~MainIsNewer /\ ~RsvIsNewer /\ Readable("main") = {} => Readable("rsv") = {}
<1> DEFINE m == Newest(Readable("main"))
           r == Newest(Readable("rsv"))
<1>1. Readable("main") \in SUBSET Row /\ Readable("rsv") \in SUBSET Row
  BY OrderTypes DEF Readable
<1>2. /\ m \in Nat /\ r \in Nat
      /\ Readable("main") = {} <=> m = 0
      /\ Readable("rsv") = {} <=> r = 0
      /\ Readable("rsv") # {} => r \in Readable("rsv")
      /\ \A x \in Readable("main") : x <= m
  BY <1>1, NewestIsMax
<1>3. (MainIsNewer <=> m > r) /\ (RsvIsNewer <=> r > m)
  BY DEF MainIsNewer, RsvIsNewer
<1> HIDE DEF m, r
<1>4. ASSUME ~MainIsNewer, "main" \notin damaged, NEW x \in rows["main"]
      PROVE  \E y \in Readable("rsv") : x <= y
  <2>1. x \in Readable("main") /\ x \in Nat
    BY <1>4, OrderTypes DEF Readable
  <2>2. x <= m /\ m # 0 /\ m <= r
    BY <1>2, <1>3, <1>4, <2>1
  <2>3. r \in Readable("rsv") /\ x <= r
    BY <1>2, <2>1, <2>2
  <2> QED
    BY <2>3
<1> QED
  BY <1>2, <1>3, <1>4

\* The constructor that finds no more than one fault behind it brings the two
\* databases together again.
LEMMA ConstructGood ==
  ASSUME IInv, Fine', Construct
  PROVE  Good'
<1>1. Fine /\ Good /\ luck' = "calm"
  BY DEF Construct, IInv, Fine, Typed, TypeOK
<1>2. /\ pc = "down" /\ pc' \in {"clean", "idle"} /\ replic = << >> /\ replic' = << >>
      /\ damaged' = {} /\ open' = Db /\ doClean' = FALSE /\ Held' = Held
  BY DEF Construct, Cleans, Fresh, IInv, Order, Silent, Held
<1>3. Play(rows["rsv"], replic) = rows["rsv"] /\ Play(rows'["rsv"], replic') = rows'["rsv"]
  BY <1>2, PlayNothing
<1>4. Staying = rows["main"] /\ Staying' = rows'["main"]
  BY <1>2 DEF Staying
<1>5. Held \subseteq rows'["main"] /\ rows'["main"] \subseteq rows'["rsv"]
  <2>1. CASE MainIsNewer
    <3>1. rows'["main"] = Readable("main") /\ rows'["rsv"] = Readable("main")
      BY <2>1, Newer DEF Construct, Db, IInv
    <3>2. ~OnlyRsv
      BY <2>1, Newer DEF OnlyRsv, Readable, IInv
    <3> QED
      BY <1>1, <3>1, <3>2 DEF Good, Whole, Both, OnlyMain, Readable
  <2>2. CASE ~MainIsNewer
    <3>1. CASE "main" \in damaged
      <4>1. "rsv" \notin damaged /\ Held \subseteq rows["rsv"]
        BY <1>1, <1>3, <3>1 DEF Good, Whole, Both, OnlyMain, OnlyRsv
      <4>2. Readable("main") = {} /\ Readable("rsv") = rows["rsv"]
        BY <3>1, <4>1 DEF Readable
      <4>3. CASE RsvIsNewer
        BY <2>2, <4>1, <4>2, <4>3 DEF Construct, Db
      <4>4. CASE ~RsvIsNewer
        <5>1. Readable("rsv") = {}
          BY <2>2, <4>2, <4>4, Newer DEF IInv
        <5> QED
          BY <2>2, <4>1, <4>2, <4>4, <5>1 DEF Construct, Db
      <4> QED
        BY <4>3, <4>4
    <3>2. CASE "main" \notin damaged
      <4>1. rows["main"] \subseteq Readable("rsv") /\ Readable("rsv") \subseteq rows["rsv"]
        <5> SUFFICES ASSUME NEW x \in rows["main"] PROVE x \in Readable("rsv")
          BY DEF Readable
        <5>1. PICK y \in Readable("rsv") : x <= y
          BY <2>2, <3>2, Newer DEF IInv
        <5>2. Readable("rsv") = rows["rsv"]
          BY <5>1 DEF Readable
        <5> QED
          BY <1>1, <3>2, <5>1, <5>2 DEF Good, Prefix
      <4>2. Held \subseteq rows["main"] \/ (Held \subseteq Readable("rsv") /\ rows["main"] = {})
        BY <1>1, <1>3, <3>2 DEF Good, Whole, Both, OnlyMain, OnlyRsv, Readable
      <4>3. Readable("main") = rows["main"]
        BY <3>2 DEF Readable
      <4>4. CASE RsvIsNewer
        BY <2>2, <4>1, <4>2, <4>4 DEF Construct, Db
      <4>5. CASE ~RsvIsNewer
        <5>1. rows'["main"] = Readable("main") /\ rows'["rsv"] = Readable("rsv")
          BY <2>2, <4>5 DEF Construct, Db
        <5>2. rows["main"] = {} => Readable("rsv") = {}
          BY <2>2, <4>3, <4>5, Newer DEF IInv
        <5> QED
          BY <4>1, <4>2, <4>3, <5>1, <5>2
      <4> QED
        BY <4>4, <4>5
    <3> QED
      BY <3>1, <3>2
  <2> QED
    BY <2>1, <2>2
<1>6. Both'
  BY <1>2, <1>3, <1>4, <1>5 DEF Both, Db
<1> QED
  BY <1>2, <1>5, <1>6 DEF Good, Whole, Announced, Asked, Again, Prefix

\* The first fault since the last start, or the first of all.
LEMMA FirstGood ==
  ASSUME IInv, Fine', BackupFails \/ ConstructFails \/ Crash \/ Damage
  PROVE  Good'
<1>1. Struck /\ Fault
  BY DEF BackupFails, ConstructFails, Crash, Damage
<1>2. Fine /\ luck = "calm" /\ luck' = "struck"
  BY <1>1, FirstFault, FaultCounts DEF IInv, Faultless
<1>3. Good /\ Both
  BY <1>2 DEF IInv, Good, Whole
<1>4. Readable("main") = rows["main"] /\ Readable("rsv") = rows["rsv"]
  BY <1>3 DEF Both, Readable
<1>5. Held' = Held
  BY DEF BackupFails, ConstructFails, Crash, Damage, Fresh, Held
<1>6. Held \subseteq Staying /\ Held \subseteq Play(rows["rsv"], replic)
  BY <1>3 DEF Good, Asked, Both, Staying, Held
<1> USE DEF Good, Announced, Asked, Again, Prefix
<1>7. CASE BackupFails \/ ConstructFails
  <2>1. /\ pc' \in {"clean", "idle"} /\ replic' = << >> /\ replic = << >> /\ doClean' = FALSE
        /\ damaged' = {}
    BY <1>3, <1>7 DEF BackupFails, ConstructFails, Cleans, Fresh, Both, IInv, Order, Silent
  <2>2. Play(rows["rsv"], replic) = rows["rsv"] /\ Play(rows'["rsv"], replic') = rows'["rsv"]
    BY <2>1, PlayNothing
  <2>3. \/ rows'["main"] = rows["main"] /\ rows'["rsv"] = {} /\ "rsv" \notin open'
        \/ rows'["main"] = {} /\ rows'["rsv"] = rows["rsv"] /\ "main" \notin open'
    BY <1>4, <1>7, OrderTypes DEF BackupFails, ConstructFails, IInv, Db
  <2>4. OnlyMain' \/ OnlyRsv'
    BY <1>3, <1>5, <1>6, <2>1, <2>2, <2>3 DEF Both, OnlyMain, OnlyRsv, Works
  <2>5. Prefix'
    BY <2>3
  <2> QED
    BY <1>2, <2>1, <2>4, <2>5 DEF Whole
<1>8. CASE Crash
  <2>1. pc' = "down" /\ replic' = << >> /\ UNCHANGED <<rows, damaged, open, doClean>>
    BY <1>8 DEF Crash, store
  <2>2. OnlyMain'
    BY <1>3, <1>5, <2>1 DEF Both, OnlyMain
  <2> QED
    BY <1>2, <1>3, <2>1, <2>2 DEF Whole
<1>9. CASE Damage
  <2>1. PICK d \in Db : damaged' = damaged \union {d}
    BY <1>9 DEF Damage
  <2>2. UNCHANGED <<rows, open, replic, doClean, pc, next, removed>>
    BY <1>9 DEF Damage
  <2>3. OnlyMain' \/ OnlyRsv'
    <3>1. CASE d = "main"
      <4>1. damaged' = {"main"}
        BY <1>3, <2>1, <3>1 DEF Both
      <4> QED
        BY <1>3, <1>5, <1>6, <2>2, <4>1 DEF Both, OnlyRsv
    <3>2. CASE d = "rsv"
      <4>1. damaged' = {"rsv"}
        BY <1>3, <2>1, <3>2 DEF Both
      <4> QED
        BY <1>3, <1>5, <2>2, <4>1 DEF Both, OnlyMain, Works
    <3> QED
      BY <3>1, <3>2 DEF Db
  <2> QED
    BY <1>2, <1>3, <2>1, <2>2, <2>3 DEF Whole
<1> QED
  BY <1>7, <1>8, <1>9

\* The inductive invariant.
LEMMA StepIInv == IInv /\ [Next]_vars => IInv'
<1> SUFFICES ASSUME IInv, [Next]_vars PROVE IInv'
  OBVIOUS
<1>1. Typed' /\ Order'
  BY TypedStep, OrderStep DEF IInv
<1>2. ASSUME Fine' PROVE Good'
  <2>1. CASE Save \/ SaveRefused \/ InsertDone \/ InsertFails
    BY <1>2, <2>1, InsertGood
  <2>2. CASE CountFails \/ CleanEnds \/ CleanBegins \/ DeleteDone \/ DeleteFails
    BY <1>2, <2>2, CleanGood
  <2>3. CASE Timer \/ Restart \/ Stop
    BY <1>2, <2>3, ReplicationGood
  <2>4. CASE Construct
    BY <1>2, <2>4, ConstructGood
  <2>5. CASE BackupFails \/ ConstructFails \/ Crash \/ Damage
    BY <1>2, <2>5, FirstGood
  <2>6. CASE UNCHANGED vars
    BY <1>2, <2>6
    DEF vars, IInv, Fine, Good, Announced, Prefix, Asked, Again, Whole, Both, OnlyMain, OnlyRsv,
        Held, Staying, Works
  <2> QED
    BY <2>1, <2>2, <2>3, <2>4, <2>5, <2>6 DEF Next, Statement, Start
<1> QED
  BY <1>1, <1>2 DEF IInv

\* For any number of messages, and wherever it strikes between two starts: one damaged
\* file, one failed statement, one failed backup or constructor or one end of the process
\* loses no row that the main database took and the program has not asked to be removed.
\* Not covered, as FaultTolerant says: an overflow of the queue, a reserve that stays busy
\* in a replay, and a DELETE that fails in the main database only.
THEOREM NoRowLost == Spec => []FaultTolerant
<1>1. IInv => FaultTolerant
  <2> SUFFICES ASSUME IInv, Fine
               PROVE  Held \subseteq Readable("main") \union Readable("rsv") \union ToSet(replic)
    BY DEF FaultTolerant, Fine, Held
  <2>1. CASE "main" \notin damaged /\ Held \subseteq rows["main"]
    BY <2>1 DEF Readable
  <2>2. CASE "rsv" \notin damaged /\ Held \subseteq Play(rows["rsv"], replic)
    <3>1. replic \in Seq(Request) /\ Len(replic) \in 0..Len(replic) /\ 0 \in 0..Len(replic)
          /\ Replayed(rows["rsv"], replic)[0] = rows["rsv"] /\ 0 + 1 = 1
      BY OrderTypes, ReplayedSteps DEF IInv
    <3>2. \A x \in Play(rows["rsv"], replic) :
            x \in rows["rsv"] \/ \E j \in 1..Len(replic) : replic[j] = x
      BY <3>1, ReplayedLater DEF Play
    <3>3. \A j \in 1..Len(replic) : replic[j] \in ToSet(replic)
      BY DEF ToSet
    <3> QED
      BY <2>2, <3>2, <3>3 DEF Readable
  <2> QED
    BY <2>1, <2>2 DEF IInv, Good, Whole, Both, OnlyMain, OnlyRsv
<1> QED
  BY <1>1, InitIInv, StepIInv, PTL DEF Spec
=============================================================================
