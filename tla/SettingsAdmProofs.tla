-------------------------- MODULE SettingsAdmProofs --------------------------
(***************************************************************************)
(* Theorems about SettingsAdm, for every set of contents and every bound   *)
(* on saves and retries.  What they ask of the threads, the write errors   *)
(* and the crashes is named before each group: Commissioned, OnlySavers,   *)
(* Alone, Creatable.                                                       *)
(***************************************************************************)
EXTENDS SettingsAdm, TLAPS

-----------------------------------------------------------------------------
(***************************************************************************)
(* What the scripts of file operations are made of.                        *)
(***************************************************************************)

\* A single removal, copy or write between copies is a file operation.
LEMMA OpsType ==
  /\ \A c \in Copies : Rm(Data(c)) \in FileOps /\ Rm(Crc(c)) \in FileOps
  /\ \A c \in Copies : Wr(Data(c)) \in FileOps /\ Wr(Crc(c)) \in FileOps
  /\ \A c \in Copies \cup {Default}, d \in Copies :
       Cp(Data(c), Data(d)) \in FileOps /\ Cp(Crc(c), Crc(d)) \in FileOps
BY DEF Rm, Wr, Cp, Data, Crc, FileOps, Files, Copies, Default

\* The scripts of both Syncs are sequences of file operations.
LEMMA ScriptsType ==
  /\ \A c \in Copies \cup {Default}, d \in Copies : CopyPair(c, d) \in Seq(FileOps)
  /\ \A c \in Copies : Drop(c) \in Seq(FileOps)
  /\ \A c \in Copies : Restore(c) \in Seq(FileOps)
  /\ LazyFactory \in Seq(FileOps)
  /\ Factory4 \in Seq(FileOps)
  /\ RemoveAllCrc \in Seq(FileOps)
<1>1. \A c \in Copies \cup {Default}, d \in Copies : CopyPair(c, d) \in Seq(FileOps)
  BY OpsType DEF CopyPair
<1>2. \A c \in Copies : Drop(c) \in Seq(FileOps)
  BY OpsType DEF Drop
<1>3. \A c \in Copies : Restore(c) \in Seq(FileOps)
  BY <1>1 DEF Restore, Copies
<1>4. LazyFactory \in Seq(FileOps) /\ Factory4 \in Seq(FileOps)
  BY <1>1 DEF LazyFactory, Factory4, Copies
<1>5. RemoveAllCrc \in Seq(FileOps)
  BY OpsType DEF RemoveAllCrc, Copies
<1>6. QED
  BY <1>1, <1>2, <1>3, <1>4, <1>5

\* As long as one copy is good, FirstGood finds a good one.
LEMMA FirstGoodIsGood ==
  ASSUME NEW failed \in SUBSET Copies, failed # Copies
  PROVE  FirstGood(failed) \in Copies \ failed
<1> DEFINE P(i) == /\ Order[i] \notin failed
                   /\ \A j \in 1..(i-1) : Order[j] \in failed
<1>1. Order[1] = "sys" /\ Order[2] = "ex" /\ Order[3] = "rsv" /\ Order[4] = "exrsv"
  BY DEF Order
<1>2. \E i \in 1..4 : P(i)
  <2>1. CASE "sys" \notin failed
    BY <1>1, <2>1
  <2>2. CASE "sys" \in failed /\ "ex" \notin failed
    BY <1>1, <2>2
  <2>3. CASE "sys" \in failed /\ "ex" \in failed /\ "rsv" \notin failed
    BY <1>1, <2>3
  <2>4. CASE "sys" \in failed /\ "ex" \in failed /\ "rsv" \in failed /\ "exrsv" \notin failed
    BY <1>1, <2>4
  <2>5. QED
    BY <2>1, <2>2, <2>3, <2>4 DEF Copies
<1>3. PICK i \in 1..4 : FirstGood(failed) = Order[i] /\ P(i)
  BY <1>2 DEF FirstGood
<1>4. QED
  BY <1>1, <1>3 DEF Copies

LEMMA FixAllType ==
  ASSUME NEW failed \in SUBSET Copies, failed # Copies
  PROVE  FixAll(failed) \in Seq(FileOps)
<1> DEFINE good == FirstGood(failed)
           one(c) == IF c \in failed THEN Fix(good, c) ELSE << >>
<1>1. good \in Copies
  BY FirstGoodIsGood
<1>2. \A c \in Copies : Fix(good, c) \in Seq(FileOps)
  BY <1>1, OpsType, ScriptsType DEF Fix
<1>3. \A c \in Copies : one(c) \in Seq(FileOps)
  BY <1>2
<1> HIDE DEF one
<1>4. one("sys") \o one("ex") \o one("rsv") \o one("exrsv") \in Seq(FileOps)
  BY <1>3 DEF Copies
<1>5. QED
  BY <1>4 DEF FixAll, one, good

-----------------------------------------------------------------------------
(***************************************************************************)
(* Type correctness.  TypeOK is not inductive alone: a copy is looked up   *)
(* in Order at pos[t], and what a save acknowledges is what it was given.  *)
(***************************************************************************)
InOrder == \A t \in Threads : phase[t] \in {"lazy", "check4"} => pos[t] \in 1..4

SavesValue ==
  \A t \in Threads : phase[t] \in {"lock", "write1", "write2", "crc"} => data[t] \in Values

TypeInv == TypeOK /\ InOrder /\ SavesValue

\* The copy under check is one of the four.
LEMMA CheckedType ==
  ASSUME TypeInv, NEW t \in Threads
  PROVE  /\ Checked(t) \in Copies
         /\ phase[t] \in {"lazy", "check4"} => Order[pos[t]] \in Copies
<1>1. \A i \in 1..4 : Order[i] \in Copies
  BY DEF Order, Copies
<1>2. phase[t] \in {"lazy", "check4"} => Order[pos[t]] \in Copies
  BY <1>1 DEF TypeInv, InOrder
<1>3. QED
  BY <1>2 DEF Checked, Copies

\* The names of the files of a copy.
LEMMA NamesType ==
  /\ \A c \in Copies : Data(c) \in Files /\ Crc(c) \in Files
  /\ \A f \in FileOps : f.dst \in Files /\ (f.src \in Files \/ f.src[1] = Default)
  /\ \A f \in FileOps : f.src[1] = Default <=> f.src \notin Files
BY DEF Data, Crc, Files, FileOps, Copies, Default

\* What is read of a file, shipped or not, is a content.
LEMMA ReadType ==
  ASSUME TypeInv, NEW f \in FileOps
  PROVE  Read(f.src) \in Content
BY SettingsAssumption, NamesType DEF TypeInv, TypeOK, Read, Shipped, Content

LEMMA TargetType ==
  ASSUME TypeInv, NEW t \in Threads, todo[t] # << >>
  PROVE  /\ Head(todo[t]) \in FileOps
         /\ Target(t) \in Files
         /\ Tail(todo[t]) \in Seq(FileOps)
<1>1. todo[t] \in Seq(FileOps)
  BY DEF TypeInv, TypeOK
<1>2. Head(todo[t]) \in FileOps /\ Tail(todo[t]) \in Seq(FileOps)
  BY <1>1
<1>3. QED
  BY <1>2, NamesType DEF Target

\* What is written through a handle is a content.
LEMMA FilledType ==
  ASSUME TypeInv, NEW t \in Threads, todo[t] # << >>, NEW v \in Content
  PROVE  Filled(t, v) \subseteq Content
BY TargetType DEF TypeInv, TypeOK, Filled, Content

LEMMA TypeInit == Init => TypeInv
<1> SUFFICES ASSUME Init PROVE TypeInv
  OBVIOUS
<1> USE SettingsAssumption
<1>1. fs \in [Files -> Content] /\ disk \in [Files -> Content]
  <2>1. \A f \in Files : Shipped(f[2]) \in Content /\ Absent \in Content
    BY DEF Shipped, Content
  <2>2. QED
    BY <2>1 DEF Init
<1>2. /\ todo \in [Threads -> Seq(FileOps)]
      /\ seen \in [Threads -> Content] /\ data \in [Threads -> Content]
  BY DEF Init, Content
<1>3. /\ owner \in Threads \cup {NoThread} /\ booted \in BOOLEAN
      /\ phase \in [Threads -> Phases] /\ step \in [Threads -> {"crc", "data", "judge"}]
      /\ pos \in [Threads -> Nat] /\ bad \in [Threads -> SUBSET Copies]
      /\ opened \in [Threads -> {"no", "yes", "orphan"}]
      /\ loading \in [Threads -> BOOLEAN]
  BY DEF Init, Phases, NoThread
<1>4. /\ out \in Content \cup {NoResult, LoadError} /\ acked \in Values
      /\ saves \in 0..MaxSaves /\ faults \in 0..MaxFault /\ crashes \in 0..MaxCrash
  BY DEF Init, NoResult<1>5. InOrder /\ SavesValue
  BY DEF Init, InOrder, SavesValue
<1>6. QED
  BY <1>1, <1>2, <1>3, <1>4, <1>5 DEF TypeInv, TypeOK

\* Where a move of t leaves the control state, whatever the rest of the step does.
LEMMA MoveType ==
  ASSUME TypeInv, NEW t \in Threads, NEW p \in Phases, NEW i \in Nat,
         Enter(t, p, i),
         p \in {"lazy", "check4"} => i \in 1..4,
         Forget(t) \/ UNCHANGED <<seen, data>>,
         p \in {"lock", "write1", "write2", "crc"} => data'[t] \in Values
  PROVE  /\ phase' \in [Threads -> Phases]
         /\ step' \in [Threads -> {"crc", "data", "judge"}]
         /\ pos' \in [Threads -> Nat]
         /\ seen' \in [Threads -> Content] /\ data' \in [Threads -> Content]
         /\ InOrder' /\ SavesValue'
<1>1. /\ phase' \in [Threads -> Phases] /\ phase'[t] = p
      /\ pos' \in [Threads -> Nat] /\ pos'[t] = i
      /\ step' \in [Threads -> {"crc", "data", "judge"}]
      /\ \A u \in Threads \ {t} : phase'[u] = phase[u] /\ pos'[u] = pos[u]
  BY DEF Enter, TypeInv, TypeOK
<1>2. /\ seen' \in [Threads -> Content] /\ data' \in [Threads -> Content]
      /\ \A u \in Threads \ {t} : data'[u] = data[u]
  BY DEF Forget, TypeInv, TypeOK, Content
<1>3. InOrder'
  BY <1>1 DEF TypeInv, InOrder
<1>4. SavesValue'
  BY <1>1, <1>2 DEF TypeInv, SavesValue
<1>5. QED
  BY <1>1, <1>2, <1>3, <1>4

\* What SaveSetting writes.
LEMMA WritesType ==
  /\ <<Wr(Data("sys"))>> \in Seq(FileOps)
  /\ <<Wr(Data("ex"))>> \in Seq(FileOps)
  /\ <<Wr(Crc("sys")), Wr(Crc("ex"))>> \in Seq(FileOps)
BY OpsType DEF Copies

LEMMA TypeStep == TypeInv /\ [Next]_vars => TypeInv'
<1> SUFFICES ASSUME TypeInv, [Next]_vars PROVE TypeInv'
  OBVIOUS
<1> USE SettingsAssumption
<1>1. ASSUME NEW t \in Threads, Remove(t) PROVE TypeInv'
  BY <1>1, TargetType DEF Remove, Doing, control, Content, TypeInv, TypeOK, InOrder, SavesValue
<1>2. ASSUME NEW t \in Threads, CopyOpen(t) PROVE TypeInv'
  <2>1. Target(t) \in Files /\ Tail(todo[t]) \in Seq(FileOps)
    BY <1>2, TargetType DEF CopyOpen, Doing
  <2>2. fs' \in [Files -> Content]
    BY <1>2, <2>1 DEF CopyOpen, Content, TypeInv, TypeOK
  <2>3. todo' \in [Threads -> Seq(FileOps)]
    BY <1>2, <2>1 DEF CopyOpen, TypeInv, TypeOK
  <2>4. opened' \in [Threads -> {"no", "yes", "orphan"}]
    <3>1. UNCHANGED opened \/ opened' = [opened EXCEPT ![t] = "yes"]
      BY <1>2 DEF CopyOpen
    <3>2. QED
      BY <3>1 DEF TypeInv, TypeOK
  <2>5. QED
    BY <1>2, <2>2, <2>3, <2>4 DEF CopyOpen, control, TypeInv, TypeOK, InOrder, SavesValue
<1>3. ASSUME NEW t \in Threads, CopyFill(t) PROVE TypeInv'
  <2>1. Target(t) \in Files /\ Head(todo[t]) \in FileOps /\ Tail(todo[t]) \in Seq(FileOps)
    BY <1>3, TargetType DEF CopyFill, Doing
  <2>2. PICK v \in Content : \E c \in Filled(t, v) : fs' = [fs EXCEPT ![Target(t)] = c]
    BY <1>3, <2>1, ReadType DEF CopyFill, Content
  <2>3. fs' \in [Files -> Content]
    BY <1>3, <2>1, <2>2, FilledType DEF CopyFill, Doing, TypeInv, TypeOK
  <2>4. QED
    BY <1>3, <2>1, <2>3 DEF CopyFill, control, TypeInv, TypeOK, InOrder, SavesValue
<1>c. ASSUME NEW t \in Threads, CopyFails(t) PROVE TypeInv'
  <2>1. Target(t) \in Files /\ Head(todo[t]) \in FileOps /\ Tail(todo[t]) \in Seq(FileOps)
    BY <1>c, TargetType DEF CopyFails, Doing
  <2>2. fs' \in [Files -> Content]
    <3>1. CASE UNCHANGED fs
      BY <3>1 DEF TypeInv, TypeOK
    <3>2. CASE \E c \in Filled(t, Torn) : fs' = [fs EXCEPT ![Target(t)] = c]
      BY <1>c, <2>1, <3>2, FilledType DEF CopyFails, Doing, Content, TypeInv, TypeOK
    <3>3. QED
      BY <1>c, <3>1, <3>2 DEF CopyFails
  <2>3. faults' \in 0..MaxFault
    BY <1>c DEF CopyFails, Fault, TypeInv, TypeOK
  <2>4. QED
    BY <1>c, <2>1, <2>2, <2>3 DEF CopyFails, control, TypeInv, TypeOK, InOrder, SavesValue
<1>4. ASSUME NEW t \in Threads, WriteOpen(t) PROVE TypeInv'
  BY <1>4, TargetType DEF WriteOpen, Doing, control, Content, TypeInv, TypeOK, InOrder, SavesValue
<1>5. ASSUME NEW t \in Threads, WriteFill(t) PROVE TypeInv'
  <2>1. Target(t) \in Files /\ Tail(todo[t]) \in Seq(FileOps)
    BY <1>5, TargetType DEF WriteFill, Doing
  <2>2. PICK v \in Content : \E c \in Filled(t, v) : fs' = [fs EXCEPT ![Target(t)] = c]
    BY <1>5 DEF WriteFill, Content, TypeInv, TypeOK
  <2>3. fs' \in [Files -> Content]
    BY <1>5, <2>1, <2>2, FilledType DEF WriteFill, Doing, TypeInv, TypeOK
  <2>4. faults' \in 0..MaxFault
    BY <1>5 DEF WriteFill, Fault, TypeInv, TypeOK
  <2>5. QED
    BY <1>5, <2>1, <2>3, <2>4 DEF WriteFill, control, TypeInv, TypeOK, InOrder, SavesValue
<1>6. ASSUME NEW t \in Threads, DataOpenFails(t) PROVE TypeInv'
  BY <1>6 DEF DataOpenFails, Fault, Enter, Forget, Content, Phases, NoThread, TypeInv, TypeOK, InOrder, SavesValue
<1>7. ASSUME NEW t \in Threads, CrcOpenFails(t) PROVE TypeInv'
  BY <1>7, TargetType DEF CrcOpenFails, Doing, Fault, control, TypeInv, TypeOK, InOrder, SavesValue
<1>8. ASSUME NEW t \in Threads, CheckCrc(t) PROVE TypeInv'
  <2>1. Checked(t) \in Copies /\ Data(Checked(t)) \in Files /\ Crc(Checked(t)) \in Files
    BY CheckedType, NamesType
  <2>2. <<Rm(Crc(Checked(t))), Rm(Data(Checked(t)))>> \in Seq(FileOps)
    BY <2>1, OpsType
  <2>3. /\ todo' \in [Threads -> Seq(FileOps)]
        /\ data' \in [Threads -> Content] /\ step' \in [Threads -> {"crc", "data", "judge"}]
        /\ \A u \in Threads \ {t} : data'[u] = data[u]
    <3>1. CASE fs[Crc(Checked(t))] = Empty
      <4>1. /\ data' = [data EXCEPT ![t] = Absent] /\ step' = [step EXCEPT ![t] = "judge"]
            /\ todo' = [todo EXCEPT ![t] = <<Rm(Crc(Checked(t))), Rm(Data(Checked(t)))>>]
        BY <1>8, <3>1 DEF CheckCrc
      <4>2. QED
        BY <2>2, <4>1 DEF Content, TypeInv, TypeOK
    <3>2. CASE fs[Crc(Checked(t))] # Empty
      BY <1>8, <3>2 DEF CheckCrc, TypeInv, TypeOK
    <3>3. QED
      BY <3>1, <3>2
  <2>4. seen' \in [Threads -> Content]
    BY <1>8, <2>1 DEF CheckCrc, TypeInv, TypeOK
  <2>5. SavesValue' /\ InOrder'
    BY <1>8, <2>3 DEF CheckCrc, Checking, TypeInv, InOrder, SavesValue
  <2>6. QED
    BY <1>8, <2>3, <2>4, <2>5 DEF CheckCrc, files, counters, TypeInv, TypeOK
<1>9. ASSUME NEW t \in Threads, CheckData(t) PROVE TypeInv'
  <2>1. Checked(t) \in Copies
    BY CheckedType
  <2>2. /\ seen' \in [Threads -> Content] /\ data' \in [Threads -> Content]
        /\ \A u \in Threads \ {t} : data'[u] = data[u]
    BY <1>9, <2>1, NamesType DEF CheckData, Content, TypeInv, TypeOK
  <2>3. todo' \in [Threads -> Seq(FileOps)]
    BY <1>9, <2>1, OpsType DEF CheckData, TypeInv, TypeOK
  <2>4. SavesValue' /\ InOrder'
    BY <1>9, <2>2 DEF CheckData, Checking, TypeInv, InOrder, SavesValue
  <2>5. QED
    BY <1>9, <2>2, <2>3, <2>4 DEF CheckData, files, counters, TypeInv, TypeOK
<1>10. ASSUME NEW t \in Threads, LoadFirst(t) PROVE TypeInv'
  <2>1. CASE Passed(t)
    <3>1. Return(t, data[t]) /\ UNCHANGED todo /\ UNCHANGED bad
      BY <1>10, <2>1 DEF LoadFirst, Return
    <3>2. QED
      BY <3>1, MoveType DEF Return, files, counters, Phases, Content, TypeInv, TypeOK
  <2>2. CASE ~Passed(t)
    <3>1. /\ Enter(t, "equal", 1) /\ Forget(t)
          /\ UNCHANGED <<files, owner, booted, bad, todo, loading, out, acked, counters>>
      BY <1>10, <2>2 DEF LoadFirst
    <3>2. QED
      BY <3>1, MoveType DEF files, counters, Phases, TypeInv, TypeOK
  <2>3. QED
    BY <2>1, <2>2
<1>11. ASSUME NEW t \in Threads, LoadSecond(t) PROVE TypeInv'
  BY <1>11 DEF LoadSecond, Return, Enter, Forget, files, counters, Phases, Content, TypeInv, TypeOK, InOrder, SavesValue
<1>12. ASSUME NEW t \in Threads, EqualFiles(t) PROVE TypeInv'
  <2>1. \E p \in Phases, i \in Nat :
          /\ Enter(t, p, i) /\ (p \in {"lazy", "check4"} => i \in 1..4)
          /\ Forget(t) \/ UNCHANGED <<seen, data>>
          /\ p \in {"lock", "write1", "write2", "crc"} => data'[t] \in Values
    BY <1>12 DEF EqualFiles, Phases, Caller, TypeInv, TypeOK, InOrder, SavesValue, Ready, Judging
  <2>2. todo' \in [Threads -> Seq(FileOps)] /\ bad' \in [Threads -> SUBSET Copies]
    BY <1>12 DEF EqualFiles, Judging, TypeInv, TypeOK
  <2>3. QED
    BY <1>12, <2>1, <2>2, MoveType DEF EqualFiles, files, counters, TypeInv, TypeOK
<1>13. ASSUME NEW t \in Threads, LazyJudge(t) PROVE TypeInv'
  <2> DEFINE c == Order[pos[t]]
  <2>1. phase[t] = "lazy" /\ pos[t] \in 1..4 /\ c \in Copies
    BY <1>13, CheckedType DEF LazyJudge, Judging, Ready, TypeInv, InOrder
  <2>2. Len(Order) = 4 /\ Caller(t) \in {"reload", "idle"}
    BY DEF Order, Caller
  <2>3. CASE Passed(t)
    <3>1. todo' = [todo EXCEPT ![t] = Restore(c)] /\ Enter(t, Caller(t), 1)
      BY <1>13, <2>3 DEF LazyJudge
    <3>2. Restore(c) \in Seq(FileOps)
      BY <2>1, ScriptsType
    <3> HIDE DEF c
    <3>3. todo' \in [Threads -> Seq(FileOps)]
      BY <3>1, <3>2 DEF TypeInv, TypeOK
    <3>4. QED
      BY <1>13, <2>2, <3>1, <3>3, MoveType
      DEF LazyJudge, files, counters, Phases, TypeInv, TypeOK
  <2>4. CASE ~Passed(t) /\ pos[t] < 4
    <3>1. todo' = [todo EXCEPT ![t] = Drop(c)] /\ Enter(t, "lazy", pos[t] + 1)
      BY <1>13, <2>2, <2>4 DEF LazyJudge
    <3>2. pos[t] + 1 \in 1..4
      BY <2>1, <2>4
    <3>3. todo' \in [Threads -> Seq(FileOps)]
      <4>1. Drop(c) \in Seq(FileOps)
        BY <2>1, ScriptsType
      <4> HIDE DEF c
      <4>2. QED
        BY <3>1, <4>1 DEF TypeInv, TypeOK
    <3>4. QED
      BY <1>13, <3>1, <3>2, <3>3, MoveType
      DEF LazyJudge, files, counters, Phases, TypeInv, TypeOK
  <2>5. CASE ~Passed(t) /\ ~(pos[t] < 4)
    <3>1. todo' = [todo EXCEPT ![t] = Drop(c) \o LazyFactory] /\ Enter(t, "restored", 1)
      BY <1>13, <2>2, <2>5 DEF LazyJudge
    <3>2. Drop(c) \o LazyFactory \in Seq(FileOps)
      BY <2>1, ScriptsType
    <3>3. QED
      BY <1>13, <3>1, <3>2, MoveType DEF LazyJudge, files, counters, Phases, TypeInv, TypeOK
  <2>6. QED
    BY <2>3, <2>4, <2>5
<1>14. ASSUME NEW t \in Threads, LazyRestored(t) PROVE TypeInv'
  <2>1. << >> \in Seq(FileOps) /\ Drop("sys") \in Seq(FileOps)
    BY ScriptsType DEF Copies
  <2>2. Enter(t, Caller(t), 1) /\ Caller(t) \in Phases \ {"lazy", "check4", "lock", "write1", "write2", "crc"}
    BY <1>14 DEF LazyRestored, Caller, Phases
  <2>3. \E w \in Seq(FileOps) : todo' = [todo EXCEPT ![t] = w]
    BY <1>14, <2>1 DEF LazyRestored
  <2>4. todo' \in [Threads -> Seq(FileOps)]
    BY <2>3 DEF TypeInv, TypeOK
  <2>5. QED
    BY <1>14, <2>2, <2>4, MoveType DEF LazyRestored, files, counters, TypeInv, TypeOK
<1>15. ASSUME NEW t \in Threads, InitGset(t) PROVE TypeInv'
  <2>1. CASE fs[Data("sys")] = Absent
    BY <1>15, <2>1 DEF InitGset, files, counters, TypeInv, TypeOK, InOrder, SavesValue
  <2>2. CASE fs[Data("sys")] # Absent
    <3>1. Enter(t, "check4", 1) /\ UNCHANGED booted
      BY <1>15, <2>2 DEF InitGset
    <3>2. QED
      BY <1>15, <3>1, MoveType DEF InitGset, files, counters, Phases, TypeInv, TypeOK
  <2>3. QED
    BY <2>1, <2>2
<1>16. ASSUME NEW t \in Threads, Judge4x4(t) PROVE TypeInv'
  <2> DEFINE failed == IF Passed(t) THEN bad[t] ELSE bad[t] \cup {Order[pos[t]]}
  <2>1. /\ pos[t] \in 1..4 /\ Len(Order) = 4
        /\ failed \in SUBSET Copies
    BY <1>16, CheckedType DEF Judge4x4, Judging, Ready, Order, TypeInv, TypeOK, InOrder
  <2>2. CASE pos[t] < 4
    <3>1. /\ bad' = [bad EXCEPT ![t] = failed] /\ UNCHANGED todo
          /\ Enter(t, "check4", pos[t] + 1)
      BY <1>16, <2>1, <2>2 DEF Judge4x4
    <3>2. pos[t] + 1 \in 1..4
      BY <2>1, <2>2
    <3> HIDE DEF failed
    <3>3. QED
      BY <1>16, <2>1, <3>1, <3>2, MoveType DEF Judge4x4, files, counters, Phases, TypeInv, TypeOK
  <2>3. CASE ~(pos[t] < 4) /\ failed = Copies
    <3>1. /\ bad' = [bad EXCEPT ![t] = {}] /\ todo' = [todo EXCEPT ![t] = Factory4]
          /\ Enter(t, "factory4", 1)
      BY <1>16, <2>1, <2>3 DEF Judge4x4
    <3>2. QED
      BY <1>16, <3>1, MoveType, ScriptsType
      DEF Judge4x4, files, counters, Phases, TypeInv, TypeOK
  <2>4. CASE ~(pos[t] < 4) /\ failed # Copies
    <3>1. /\ bad' = [bad EXCEPT ![t] = {}] /\ todo' = [todo EXCEPT ![t] = FixAll(failed)]
          /\ Enter(t, "fix", 1)
      BY <1>16, <2>1, <2>4 DEF Judge4x4
    <3> HIDE DEF failed
    <3>2. FixAll(failed) \in Seq(FileOps)
      BY <2>1, <2>4, FixAllType
    <3>3. QED
      BY <1>16, <3>1, <3>2, MoveType DEF Judge4x4, files, counters, Phases, TypeInv, TypeOK
  <2>5. QED
    BY <2>2, <2>3, <2>4
<1>17. ASSUME NEW t \in Threads, InitGsetReturns(t) PROVE TypeInv'
  BY <1>17 DEF InitGsetReturns, Enter, Forget, files, counters, Phases, Content, TypeInv, TypeOK, InOrder, SavesValue
<1>18. ASSUME NEW t \in Threads, Lock(t) PROVE TypeInv'
  BY <1>18, OpsType DEF Lock, Enter, files, counters, Phases, Copies, TypeInv, TypeOK, InOrder, SavesValue
<1>19. ASSUME NEW t \in Threads, Verify1(t) PROVE TypeInv'
  <2>1. \E p \in Phases, i \in Nat :
          /\ Enter(t, p, i) /\ (p \in {"lazy", "check4"} => i \in 1..4)
          /\ Forget(t) \/ UNCHANGED <<seen, data>>
          /\ p \in {"lock", "write1", "write2", "crc"} => data'[t] \in Values
    BY <1>19 DEF Verify1, Copies, Phases, Caller, TypeInv, TypeOK, InOrder, SavesValue, Ready, Judging
  <2>2. todo' \in [Threads -> Seq(FileOps)] /\ bad' \in [Threads -> SUBSET Copies]
    <3>1. \/ todo' = [todo EXCEPT ![t] = <<Wr(Data("ex"))>>]
          \/ todo' = [todo EXCEPT ![t] = <<Wr(Data("sys"))>>]
      BY <1>19 DEF Verify1
    <3>2. \E w \in Seq(FileOps) : todo' = [todo EXCEPT ![t] = w]
      BY <3>1, WritesType
    <3>3. UNCHANGED bad
      BY <1>19 DEF Verify1
    <3>4. QED
      BY <3>2, <3>3 DEF TypeInv, TypeOK
  <2>3. QED
    BY <1>19, <2>1, <2>2, MoveType DEF Verify1, Copies, files, counters, TypeInv, TypeOK
<1>20. ASSUME NEW t \in Threads, Verify2(t) PROVE TypeInv'
  <2>1. \E p \in Phases, i \in Nat :
          /\ Enter(t, p, i) /\ (p \in {"lazy", "check4"} => i \in 1..4)
          /\ Forget(t) \/ UNCHANGED <<seen, data>>
          /\ p \in {"lock", "write1", "write2", "crc"} => data'[t] \in Values
    BY <1>20 DEF Verify2, Copies, Phases, Caller, TypeInv, TypeOK, InOrder, SavesValue, Ready, Judging
  <2>2. todo' \in [Threads -> Seq(FileOps)] /\ bad' \in [Threads -> SUBSET Copies]
    <3>1. \/ todo' = [todo EXCEPT ![t] = <<Wr(Crc("sys")), Wr(Crc("ex"))>>]
          \/ todo' = [todo EXCEPT ![t] = <<Wr(Data("ex"))>>]
      BY <1>20 DEF Verify2
    <3>2. \E w \in Seq(FileOps) : todo' = [todo EXCEPT ![t] = w]
      BY <3>1, WritesType
    <3>3. UNCHANGED bad
      BY <1>20 DEF Verify2
    <3>4. QED
      BY <3>2, <3>3 DEF TypeInv, TypeOK
  <2>3. QED
    BY <1>20, <2>1, <2>2, MoveType DEF Verify2, Copies, files, counters, TypeInv, TypeOK
<1>21. ASSUME NEW t \in Threads, SaveReturns(t) PROVE TypeInv'
  BY <1>21 DEF SaveReturns, Ready, Enter, Forget, counters, Phases, Content, NoThread, TypeInv, TypeOK, InOrder, SavesValue
<1>22. ASSUME NEW t \in Threads, LoadSetting(t) PROVE TypeInv'
  BY <1>22 DEF LoadSetting, Enter, files, counters, Phases, TypeInv, TypeOK, InOrder, SavesValue
<1>23. ASSUME NEW t \in Threads, SyncGsetSettings(t) PROVE TypeInv'
  BY <1>23 DEF SyncGsetSettings, Enter, files, counters, Phases, TypeInv, TypeOK, InOrder, SavesValue
<1>24. ASSUME NEW t \in Threads, SaveSetting(t) PROVE TypeInv'
  <2>1. PICK v \in Values : data' = [data EXCEPT ![t] = v]
    BY <1>24 DEF SaveSetting
  <2>2. saves' \in 0..MaxSaves
    BY <1>24 DEF SaveSetting, TypeInv, TypeOK
  <2>3. QED
    BY <1>24, <2>1, <2>2 DEF SaveSetting, Enter, files, Phases, Content, TypeInv, TypeOK, InOrder, SavesValue
<1>25. ASSUME Restart, fs' \in [Files -> Content], disk' \in [Files -> Content] PROVE TypeInv'
  <2>1. /\ seen' \in [Threads -> Content] /\ data' \in [Threads -> Content]
        /\ todo' \in [Threads -> Seq(FileOps)] /\ bad' \in [Threads -> SUBSET Copies]
    BY <1>25 DEF Restart, Content
  <2>2. crashes' \in 0..MaxCrash
    BY <1>25 DEF Restart, TypeInv, TypeOK
  <2>3. InOrder' /\ SavesValue'
    BY <1>25 DEF Restart, InOrder, SavesValue
  <2>4. QED
    BY <1>25, <2>1, <2>2, <2>3 DEF Restart, Phases, NoThread, TypeInv, TypeOK
<1>26. CASE Kill
  BY <1>25, <1>26 DEF Kill, TypeInv, TypeOK
<1>27. CASE PowerFailure
  <2>1. fs' \in [Files -> Content]
    BY <1>27 DEF PowerFailure, Content, TypeInv, TypeOK
  <2>2. QED
    BY <1>25, <1>27, <2>1 DEF PowerFailure
<1>28. CASE UNCHANGED vars
  BY <1>28 DEF vars, local, TypeInv, TypeOK, InOrder, SavesValue
<1>29. QED
  BY <1>1, <1>2, <1>3, <1>4, <1>5, <1>6, <1>7, <1>8, <1>9, <1>10, <1>11, <1>12, <1>13,
     <1>14, <1>15, <1>16, <1>17, <1>18, <1>19, <1>20, <1>21, <1>22, <1>23, <1>24,
     <1>26, <1>27, <1>28, <1>c DEF Next, Work, FileStep, Request

\* The files, the threads and their scripts keep to their types for any number of
\* threads, crashes and write errors.
THEOREM TypeCorrect == Spec => []TypeOK
<1>1. TypeInv => TypeOK
  BY DEF TypeInv
<1>2. QED
  BY <1>1, TypeInit, TypeStep, PTL DEF Spec

-----------------------------------------------------------------------------
(***************************************************************************)
(* The fourth copy.  ExrsvIntact is not inductive: what keeps the copy is  *)
(* that no script has a step that would harm it, and what keeps the        *)
(* scripts harmless is that every check of the copy passes.                *)
(***************************************************************************)
SafeOps == {op \in FileOps : /\ op.dst # Data("exrsv")
                             /\ op.dst = Crc("exrsv") => op.op = "rm"}

\* The bytes of the copy, the same on the medium as in the cache.
Held == /\ ExrsvIntact
        /\ disk[Data("exrsv")] = fs[Data("exrsv")]
        /\ disk[Crc("exrsv")] = fs[Crc("exrsv")]

Harmless == \A t \in Threads : todo[t] \in Seq(SafeOps)

\* A thread that checks the copy has read what is there.
ReadsFactory ==
  \A t \in Threads : phase[t] \in {"lazy", "check4"} /\ pos[t] = 4 =>
    /\ step[t] \in {"data", "judge"} => seen[t] \in {Factory, Absent}
    /\ step[t] = "judge" => data[t] = Factory

NotBad == \A t \in Threads : "exrsv" \notin bad[t]

ExrsvInv == TypeInv /\ Held /\ Harmless /\ ReadsFactory /\ NotBad /\ NeverReset

\* The factory content is none of the ways a file can be damaged.
LEMMA FactoryWhole == Factory \notin {Absent, Empty, Torn}
BY SettingsAssumption

\* A removal is safe except of the data; a copy or a write, to any other copy.
LEMMA SafeOpsAre ==
  /\ \A c \in Copies : Rm(Crc(c)) \in SafeOps
  /\ \A c \in Copies \ {"exrsv"} :
       /\ Rm(Data(c)) \in SafeOps
       /\ Wr(Data(c)) \in SafeOps /\ Wr(Crc(c)) \in SafeOps
  /\ \A c \in Copies \cup {Default}, d \in Copies \ {"exrsv"} :
       Cp(Data(c), Data(d)) \in SafeOps /\ Cp(Crc(c), Crc(d)) \in SafeOps
<1>1. \A c \in Copies : Data(c) # Crc("exrsv") /\ Crc(c) # Data("exrsv")
  BY DEF Data, Crc
<1>2. \A c \in Copies \ {"exrsv"} : Data(c) # Data("exrsv") /\ Crc(c) # Crc("exrsv")
  BY DEF Data, Crc
<1>3. QED
  BY <1>1, <1>2, OpsType DEF SafeOps, Rm, Wr, Cp

LEMMA SafeScripts ==
  /\ << >> \in Seq(SafeOps)
  /\ \A c \in Copies : Restore(c) \in Seq(SafeOps)
  /\ \A c \in Copies \ {"exrsv"} : Drop(c) \in Seq(SafeOps)
  /\ RemoveAllCrc \in Seq(SafeOps)
  /\ <<Wr(Data("sys"))>> \in Seq(SafeOps)
  /\ <<Wr(Data("ex"))>> \in Seq(SafeOps)
  /\ <<Wr(Crc("sys")), Wr(Crc("ex"))>> \in Seq(SafeOps)
<1>1. \A c \in Copies, d \in Copies \ {"exrsv"} : CopyPair(c, d) \in Seq(SafeOps)
  BY SafeOpsAre DEF CopyPair
<1>2. \A c \in Copies : Restore(c) \in Seq(SafeOps)
  BY <1>1 DEF Restore, Copies
<1>3. \A c \in Copies \ {"exrsv"} : Drop(c) \in Seq(SafeOps)
  BY SafeOpsAre DEF Drop
<1>4. RemoveAllCrc \in Seq(SafeOps)
  BY SafeOpsAre DEF RemoveAllCrc, Copies
<1>5. /\ <<Wr(Data("sys"))>> \in Seq(SafeOps)
      /\ <<Wr(Data("ex"))>> \in Seq(SafeOps)
      /\ <<Wr(Crc("sys")), Wr(Crc("ex"))>> \in Seq(SafeOps)
  BY SafeOpsAre DEF Copies
<1>6. QED
  BY <1>2, <1>3, <1>4, <1>5

\* The repairs of SyncGsetOneSetting4x4 are safe when exrsv is not to be repaired.
LEMMA SafeFixAll ==
  ASSUME NEW failed \in SUBSET Copies, "exrsv" \notin failed
  PROVE  FixAll(failed) \in Seq(SafeOps)
<1> DEFINE good == FirstGood(failed)
           one(c) == IF c \in failed THEN Fix(good, c) ELSE << >>
<1>1. good \in Copies
  BY FirstGoodIsGood DEF Copies
<1>2. \A c \in Copies \ {"exrsv"} : Fix(good, c) \in Seq(SafeOps)
  BY <1>1, SafeOpsAre, SafeScripts DEF Fix
<1>3. \A c \in Copies : one(c) \in Seq(SafeOps)
  BY <1>2
<1> HIDE DEF one
<1>4. one("sys") \o one("ex") \o one("rsv") \o one("exrsv") \in Seq(SafeOps)
  BY <1>3 DEF Copies
<1>5. QED
  BY <1>4 DEF FixAll, one, good

\* The next operation of a thread is safe, and so are those after it.
LEMMA SafeTarget ==
  ASSUME ExrsvInv, NEW t \in Threads, todo[t] # << >>
  PROVE  /\ Target(t) # Data("exrsv")
         /\ ~Doing(t, "rm") => Target(t) # Crc("exrsv")
         /\ Tail(todo[t]) \in Seq(SafeOps)
<1>1. todo[t] \in Seq(SafeOps)
  BY DEF ExrsvInv, Harmless
<1>2. Head(todo[t]) \in SafeOps /\ Tail(todo[t]) \in Seq(SafeOps)
  BY <1>1
<1>3. QED
  BY <1>2 DEF SafeOps, Target, Doing

\* A check of the copy that is complete passes.
LEMMA ExrsvPasses ==
  ASSUME ExrsvInv, NEW t \in Threads,
         phase[t] \in {"lazy", "check4"}, pos[t] = 4, step[t] = "judge"
  PROVE  Passed(t)
<1>1. seen[t] \in {Factory, Absent} /\ data[t] = Factory
  BY DEF ExrsvInv, ReadsFactory
<1>2. QED
  BY <1>1, FactoryWhole DEF Passed, Accepts

\* Any step that moves one thread, leaves exrsv alone and gives it a safe script.
LEMMA ExrsvMove ==
  ASSUME ExrsvInv, TypeInv', NEW t \in Threads, NEW p \in Phases, NEW i \in Nat,
         Enter(t, p, i), p \notin {"restored", "factory4"},
         \A u \in Threads \ {t} : seen'[u] = seen[u] /\ data'[u] = data[u],
         Held',
         UNCHANGED todo \/ \E w \in Seq(SafeOps) : todo' = [todo EXCEPT ![t] = w],
         NotBad'
  PROVE  ExrsvInv'
<1>1. /\ phase'[t] = p /\ step'[t] = "crc"
      /\ \A u \in Threads \ {t} :
           phase'[u] = phase[u] /\ pos'[u] = pos[u] /\ step'[u] = step[u]
  BY DEF Enter, ExrsvInv, TypeInv, TypeOK
<1>2. Harmless'
  BY DEF ExrsvInv, Harmless, TypeInv, TypeOK
<1>3. ReadsFactory'
  BY <1>1 DEF ExrsvInv, ReadsFactory
<1>4. NeverReset'
  BY <1>1 DEF ExrsvInv, NeverReset
<1>5. QED
  BY <1>2, <1>3, <1>4 DEF ExrsvInv

\* Any file operation that keeps the copy.
LEMMA ExrsvFileStep ==
  ASSUME ExrsvInv, TypeInv', NEW t \in Threads, todo[t] # << >>,
         todo' \in {todo, [todo EXCEPT ![t] = Tail(@)]},
         UNCHANGED control, Held'
  PROVE  ExrsvInv'
<1>1. Harmless'
  BY SafeTarget DEF ExrsvInv, Harmless, TypeInv, TypeOK
<1>2. QED
  BY <1>1 DEF control, ExrsvInv, ReadsFactory, NotBad, NeverReset

\* The names of the two files.
LEMMA ExrsvNames == /\ Data("exrsv") \in Files /\ Crc("exrsv") \in Files
                    /\ Data("exrsv") # Crc("exrsv")
BY DEF Data, Crc, Files, Copies

LEMMA ExrsvInit == Commissioned /\ Init => ExrsvInv
<1> SUFFICES ASSUME Commissioned, Init PROVE ExrsvInv
  OBVIOUS
<1>1. Held
  BY ExrsvNames DEF Init, Held, ExrsvIntact, Shipped, Data, Crc
<1>2. Harmless /\ ReadsFactory /\ NotBad /\ NeverReset
  BY DEF Init, Harmless, ReadsFactory, NotBad, NeverReset
<1>3. QED
  BY <1>1, <1>2, TypeInit DEF ExrsvInv

LEMMA ExrsvStep == ExrsvInv /\ [Next]_vars => ExrsvInv'
<1> SUFFICES ASSUME ExrsvInv, [Next]_vars PROVE ExrsvInv'
  OBVIOUS
<1> USE SettingsAssumption
<1>0. TypeInv'
  BY TypeStep DEF ExrsvInv
<1>1. ASSUME NEW t \in Threads, Remove(t) PROVE ExrsvInv'
  <2>1. todo[t] # << >> /\ UNCHANGED control
    BY <1>1 DEF Remove, Doing
  <2>2. Held'
    BY <1>1, <2>1, SafeTarget, ExrsvNames
    DEF Remove, Held, ExrsvIntact, ExrsvInv, TypeInv, TypeOK
  <2>3. todo' \in {todo, [todo EXCEPT ![t] = Tail(@)]}
    BY <1>1 DEF Remove
  <2>4. QED
    BY <1>0, <2>1, <2>2, <2>3, ExrsvFileStep
<1>2. ASSUME NEW t \in Threads, CopyOpen(t) PROVE ExrsvInv'
  <2>1. todo[t] # << >> /\ UNCHANGED control
    BY <1>2 DEF CopyOpen, Doing
  <2>2. Held'
    <3>1. Target(t) # Data("exrsv") /\ Target(t) # Crc("exrsv")
      BY <1>2, <2>1, SafeTarget DEF CopyOpen, Doing
    <3>2. /\ fs'[Data("exrsv")] = fs[Data("exrsv")] /\ fs'[Crc("exrsv")] = fs[Crc("exrsv")]
      BY <1>2, <3>1, ExrsvNames DEF CopyOpen, ExrsvInv, TypeInv, TypeOK
    <3>3. disk' \in {disk, fs'}
      BY <1>2 DEF CopyOpen
    <3>4. QED
      BY <3>2, <3>3 DEF ExrsvInv, Held, ExrsvIntact
  <2>3. todo' \in {todo, [todo EXCEPT ![t] = Tail(@)]}
    BY <1>2 DEF CopyOpen
  <2>4. QED
    BY <1>0, <2>1, <2>2, <2>3, ExrsvFileStep
<1>3. ASSUME NEW t \in Threads, CopyFill(t) PROVE ExrsvInv'
  <2>1. todo[t] # << >> /\ UNCHANGED control
    BY <1>3 DEF CopyFill, Doing
  <2>2. Held'
    <3>1. Target(t) # Data("exrsv") /\ Target(t) # Crc("exrsv")
      BY <1>3, <2>1, SafeTarget DEF CopyFill, Doing
    <3>2. /\ fs'[Data("exrsv")] = fs[Data("exrsv")] /\ fs'[Crc("exrsv")] = fs[Crc("exrsv")]
      BY <1>3, <3>1, ExrsvNames DEF CopyFill, ExrsvInv, TypeInv, TypeOK
    <3>3. disk' \in {disk, fs'}
      BY <1>3 DEF CopyFill
    <3>4. QED
      BY <3>2, <3>3 DEF ExrsvInv, Held, ExrsvIntact
  <2>3. todo' \in {todo, [todo EXCEPT ![t] = Tail(@)]}
    BY <1>3 DEF CopyFill
  <2>4. QED
    BY <1>0, <2>1, <2>2, <2>3, ExrsvFileStep
<1>c. ASSUME NEW t \in Threads, CopyFails(t) PROVE ExrsvInv'
  <2>1. todo[t] # << >> /\ UNCHANGED control
    BY <1>c DEF CopyFails, Doing
  <2>2. Held'
    <3>1. Target(t) # Data("exrsv") /\ Target(t) # Crc("exrsv")
      BY <1>c, <2>1, SafeTarget DEF CopyFails, Doing
    <3>2. /\ fs'[Data("exrsv")] = fs[Data("exrsv")] /\ fs'[Crc("exrsv")] = fs[Crc("exrsv")]
      BY <1>c, <3>1, ExrsvNames DEF CopyFails, ExrsvInv, TypeInv, TypeOK
    <3>3. disk' \in {disk, fs'}
      BY <1>c DEF CopyFails
    <3>4. QED
      BY <3>2, <3>3 DEF ExrsvInv, Held, ExrsvIntact
  <2>3. todo' \in {todo, [todo EXCEPT ![t] = Tail(@)]}
    BY <1>c DEF CopyFails
  <2>4. QED
    BY <1>0, <2>1, <2>2, <2>3, ExrsvFileStep
<1>4. ASSUME NEW t \in Threads, WriteOpen(t) PROVE ExrsvInv'
  <2>1. todo[t] # << >> /\ UNCHANGED control
    BY <1>4 DEF WriteOpen, Doing
  <2>2. Held'
    <3>1. Target(t) # Data("exrsv") /\ Target(t) # Crc("exrsv")
      BY <1>4, <2>1, SafeTarget DEF WriteOpen, Doing
    <3>2. /\ fs'[Data("exrsv")] = fs[Data("exrsv")] /\ fs'[Crc("exrsv")] = fs[Crc("exrsv")]
      BY <1>4, <3>1, ExrsvNames DEF WriteOpen, ExrsvInv, TypeInv, TypeOK
    <3>3. disk' \in {disk, fs'}
      BY <1>4 DEF WriteOpen
    <3>4. QED
      BY <3>2, <3>3 DEF ExrsvInv, Held, ExrsvIntact
  <2>3. todo' \in {todo, [todo EXCEPT ![t] = Tail(@)]}
    BY <1>4 DEF WriteOpen
  <2>4. QED
    BY <1>0, <2>1, <2>2, <2>3, ExrsvFileStep
<1>5. ASSUME NEW t \in Threads, WriteFill(t) PROVE ExrsvInv'
  <2>1. todo[t] # << >> /\ UNCHANGED control
    BY <1>5 DEF WriteFill, Doing
  <2>2. Held'
    <3>1. Target(t) # Data("exrsv") /\ Target(t) # Crc("exrsv")
      BY <1>5, <2>1, SafeTarget DEF WriteFill, Doing
    <3>2. /\ fs'[Data("exrsv")] = fs[Data("exrsv")] /\ fs'[Crc("exrsv")] = fs[Crc("exrsv")]
      BY <1>5, <3>1, ExrsvNames DEF WriteFill, ExrsvInv, TypeInv, TypeOK
    <3>3. disk' \in {disk, fs'}
      BY <1>5 DEF WriteFill
    <3>4. QED
      BY <3>2, <3>3 DEF ExrsvInv, Held, ExrsvIntact
  <2>3. todo' \in {todo, [todo EXCEPT ![t] = Tail(@)]}
    BY <1>5 DEF WriteFill
  <2>4. QED
    BY <1>0, <2>1, <2>2, <2>3, ExrsvFileStep
<1>6. ASSUME NEW t \in Threads, CrcOpenFails(t) PROVE ExrsvInv'
  <2>1. todo[t] # << >> /\ UNCHANGED control
    BY <1>6 DEF CrcOpenFails, Doing
  <2>2. Held'
    BY <1>6 DEF CrcOpenFails, ExrsvInv, Held, ExrsvIntact
  <2>3. todo' \in {todo, [todo EXCEPT ![t] = Tail(@)]}
    BY <1>6 DEF CrcOpenFails
  <2>4. QED
    BY <1>0, <2>1, <2>2, <2>3, ExrsvFileStep
<1>7. ASSUME NEW t \in Threads, DataOpenFails(t) PROVE ExrsvInv'
  <2>1. Held' /\ NotBad'
    BY <1>7 DEF DataOpenFails, Fault, ExrsvInv, Held, ExrsvIntact, NotBad
  <2>2. /\ \A u \in Threads \ {t} : seen'[u] = seen[u] /\ data'[u] = data[u]
    BY <1>7 DEF DataOpenFails, Fault, Forget, ExrsvInv, TypeInv, TypeOK
  <2>3. \E p \in Phases \ {"restored", "factory4"}, i \in Nat : Enter(t, p, i)
    BY <1>7 DEF DataOpenFails, Fault, Phases, Caller, ExrsvInv, TypeInv, TypeOK
  <2>4. UNCHANGED todo \/ \E w \in Seq(SafeOps) : todo' = [todo EXCEPT ![t] = w]
    BY <1>7, SafeScripts DEF DataOpenFails, Fault
  <2>5. QED
    BY <1>0, <2>1, <2>2, <2>3, <2>4, ExrsvMove
<1>8. ASSUME NEW t \in Threads, CheckCrc(t) PROVE ExrsvInv'
  <2>1. Checked(t) \in Copies
    BY CheckedType DEF ExrsvInv
  <2>2. Held' /\ NotBad' /\ NeverReset'
    BY <1>8 DEF CheckCrc, files, ExrsvInv, Held, ExrsvIntact, NotBad, NeverReset
  <2>3. fs[Crc("exrsv")] # Empty
    BY FactoryWhole DEF ExrsvInv, Held, ExrsvIntact, Absent, Empty
  <2>4. Harmless'
    <3>1. CASE fs[Crc(Checked(t))] = Empty
      <4>1. <<Rm(Crc(Checked(t))), Rm(Data(Checked(t)))>> \in Seq(SafeOps)
        BY <2>1, <2>3, <3>1, SafeOpsAre
      <4>2. \E w \in Seq(SafeOps) : todo' = [todo EXCEPT ![t] = w]
        BY <1>8, <3>1, <4>1 DEF CheckCrc
      <4>3. QED
        BY <4>2 DEF ExrsvInv, Harmless, TypeInv, TypeOK
    <3>2. CASE fs[Crc(Checked(t))] # Empty
      BY <1>8, <3>2 DEF CheckCrc, ExrsvInv, Harmless
    <3>3. QED
      BY <3>1, <3>2
  <2>5. ReadsFactory'
    <3>1. ASSUME phase[t] \in {"lazy", "check4"}, pos[t] = 4
          PROVE  seen'[t] \in {Factory, Absent} /\ step'[t] = "data"
      <4>1. Checked(t) = "exrsv"
        BY <3>1 DEF Checked, Order
      <4>2. QED
        BY <1>8, <2>3, <4>1 DEF CheckCrc, ExrsvInv, Held, ExrsvIntact, TypeInv, TypeOK
    <3>2. \A u \in Threads \ {t} : seen'[u] = seen[u] /\ data'[u] = data[u] /\ step'[u] = step[u]
      <4>1. data' \in {data, [data EXCEPT ![t] = Absent]}
        BY <1>8 DEF CheckCrc
      <4>2. \E x : step' = [step EXCEPT ![t] = x]
        BY <1>8 DEF CheckCrc
      <4>3. QED
        BY <1>8, <4>1, <4>2 DEF CheckCrc, ExrsvInv, TypeInv, TypeOK
    <3>3. UNCHANGED <<phase, pos>>
      BY <1>8 DEF CheckCrc
    <3>4. QED
      BY <3>1, <3>2, <3>3 DEF ExrsvInv, ReadsFactory
  <2>6. QED
    BY <1>0, <2>2, <2>4, <2>5 DEF ExrsvInv
<1>9. ASSUME NEW t \in Threads, CheckData(t) PROVE ExrsvInv'
  <2>1. Checked(t) \in Copies
    BY CheckedType DEF ExrsvInv
  <2>2. Held' /\ NotBad' /\ NeverReset'
    BY <1>9 DEF CheckData, files, ExrsvInv, Held, ExrsvIntact, NotBad, NeverReset
  <2>3. fs[Data("exrsv")] # Empty
    BY FactoryWhole DEF ExrsvInv, Held, ExrsvIntact
  <2>4. Harmless'
    <3>1. \E w \in Seq(SafeOps) : todo' = [todo EXCEPT ![t] = w]
      <4>1. CASE fs[Data(Checked(t))] = Empty
        <5>1. <<Rm(Data(Checked(t)))>> \in Seq(SafeOps)
          BY <2>1, <2>3, <4>1, SafeOpsAre
        <5>2. QED
          BY <1>9, <4>1, <5>1 DEF CheckData
      <4>2. CASE fs[Data(Checked(t))] # Empty
        BY <1>9, <4>2, SafeScripts DEF CheckData
      <4>3. QED
        BY <4>1, <4>2
    <3>2. PICK w \in Seq(SafeOps) : todo' = [todo EXCEPT ![t] = w]
      BY <3>1
    <3>3. QED
      BY <3>2 DEF ExrsvInv, Harmless, TypeInv, TypeOK
  <2>5. ReadsFactory'
    <3>1. ASSUME phase[t] \in {"lazy", "check4"}, pos[t] = 4
          PROVE  data'[t] = Factory
      <4>1. Checked(t) = "exrsv"
        BY <3>1 DEF Checked, Order
      <4>2. QED
        BY <1>9, <4>1 DEF CheckData, ExrsvInv, Held, ExrsvIntact, TypeInv, TypeOK
    <3>2. /\ \A u \in Threads \ {t} : data'[u] = data[u] /\ step'[u] = step[u]
          /\ step[t] = "data" /\ UNCHANGED <<phase, pos, seen>>
      BY <1>9 DEF CheckData, ExrsvInv, TypeInv, TypeOK
    <3>3. QED
      BY <3>1, <3>2 DEF ExrsvInv, ReadsFactory
  <2>6. QED
    BY <1>0, <2>2, <2>4, <2>5 DEF ExrsvInv
<1>10. ASSUME NEW t \in Threads, LoadFirst(t) PROVE ExrsvInv'
  <2>1. Held' /\ NotBad'
    BY <1>10 DEF LoadFirst, Return, files, ExrsvInv, Held, ExrsvIntact, NotBad
  <2>2. /\ \A u \in Threads \ {t} : seen'[u] = seen[u] /\ data'[u] = data[u]
    BY <1>10 DEF LoadFirst, Return, files, Forget, ExrsvInv, TypeInv, TypeOK
  <2>3. \E p \in Phases \ {"restored", "factory4"}, i \in Nat : Enter(t, p, i)
    BY <1>10 DEF LoadFirst, Return, files, Phases, Caller, ExrsvInv, TypeInv, TypeOK
  <2>4. UNCHANGED todo \/ \E w \in Seq(SafeOps) : todo' = [todo EXCEPT ![t] = w]
    BY <1>10 DEF LoadFirst, Return, files
  <2>5. QED
    BY <1>0, <2>1, <2>2, <2>3, <2>4, ExrsvMove
<1>11. ASSUME NEW t \in Threads, LoadSecond(t) PROVE ExrsvInv'
  <2>1. Held' /\ NotBad'
    BY <1>11 DEF LoadSecond, Return, files, ExrsvInv, Held, ExrsvIntact, NotBad
  <2>2. /\ \A u \in Threads \ {t} : seen'[u] = seen[u] /\ data'[u] = data[u]
    BY <1>11 DEF LoadSecond, Return, files, Forget, ExrsvInv, TypeInv, TypeOK
  <2>3. \E p \in Phases \ {"restored", "factory4"}, i \in Nat : Enter(t, p, i)
    BY <1>11 DEF LoadSecond, Return, files, Phases, Caller, ExrsvInv, TypeInv, TypeOK
  <2>4. UNCHANGED todo \/ \E w \in Seq(SafeOps) : todo' = [todo EXCEPT ![t] = w]
    BY <1>11 DEF LoadSecond, Return, files
  <2>5. QED
    BY <1>0, <2>1, <2>2, <2>3, <2>4, ExrsvMove
<1>12. ASSUME NEW t \in Threads, EqualFiles(t) PROVE ExrsvInv'
  <2>1. Held' /\ NotBad'
    BY <1>12 DEF EqualFiles, files, ExrsvInv, Held, ExrsvIntact, NotBad
  <2>2. /\ \A u \in Threads \ {t} : seen'[u] = seen[u] /\ data'[u] = data[u]
    BY <1>12 DEF EqualFiles, files, Forget, ExrsvInv, TypeInv, TypeOK
  <2>3. \E p \in Phases \ {"restored", "factory4"}, i \in Nat : Enter(t, p, i)
    BY <1>12 DEF EqualFiles, files, Phases, Caller, ExrsvInv, TypeInv, TypeOK
  <2>4. UNCHANGED todo \/ \E w \in Seq(SafeOps) : todo' = [todo EXCEPT ![t] = w]
    BY <1>12 DEF EqualFiles, files
  <2>5. QED
    BY <1>0, <2>1, <2>2, <2>3, <2>4, ExrsvMove
<1>13. ASSUME NEW t \in Threads, LazyJudge(t) PROVE ExrsvInv'
  <2> DEFINE c == Order[pos[t]]
  <2>1. phase[t] = "lazy" /\ pos[t] \in 1..4 /\ step[t] = "judge" /\ c \in Copies
    BY <1>13, CheckedType DEF LazyJudge, Judging, Ready, ExrsvInv, TypeInv, InOrder
  <2>2. Held' /\ NotBad'
    BY <1>13 DEF LazyJudge, files, ExrsvInv, Held, ExrsvIntact, NotBad
  <2>3. \A u \in Threads \ {t} : seen'[u] = seen[u] /\ data'[u] = data[u]
    BY <1>13 DEF LazyJudge, Forget, ExrsvInv, TypeInv, TypeOK
  <2>4. CASE Passed(t)
    <3>1. todo' = [todo EXCEPT ![t] = Restore(c)] /\ Enter(t, Caller(t), 1)
      BY <1>13, <2>4 DEF LazyJudge
    <3>2. Restore(c) \in Seq(SafeOps)
      BY <2>1, SafeScripts
    <3> HIDE DEF c
    <3>3. QED
      BY <1>0, <2>2, <2>3, <3>1, <3>2, ExrsvMove DEF Caller, Phases
  <2>5. CASE ~Passed(t)
    <3>1. pos[t] < 4
      BY <2>1, <2>5, ExrsvPasses
    <3>2. todo' = [todo EXCEPT ![t] = Drop(c)] /\ Enter(t, "lazy", pos[t] + 1)
      BY <1>13, <2>5, <3>1 DEF LazyJudge, Order
    <3>3. Drop(c) \in Seq(SafeOps)
      <4>1. c # "exrsv"
        BY <2>1, <3>1 DEF Order
      <4>2. QED
        BY <2>1, <4>1, SafeScripts
    <3>4. pos[t] + 1 \in Nat
      BY <2>1
    <3> HIDE DEF c
    <3>5. QED
      BY <1>0, <2>2, <2>3, <3>2, <3>3, <3>4, ExrsvMove DEF Phases
  <2>6. QED
    BY <2>4, <2>5
<1>14. ASSUME NEW t \in Threads, LazyRestored(t) PROVE ExrsvInv'
  BY <1>14 DEF LazyRestored, Judging, Ready, ExrsvInv, NeverReset
<1>15. ASSUME NEW t \in Threads, InitGset(t) PROVE ExrsvInv'
  <2>1. CASE fs[Data("sys")] = Absent
    BY <1>0, <1>15, <2>1 DEF InitGset, files, ExrsvInv, Held, ExrsvIntact, Harmless,
       ReadsFactory, NotBad, NeverReset
  <2>2. CASE fs[Data("sys")] # Absent
    <3>1. Held' /\ NotBad'
      BY <1>15 DEF InitGset, files, ExrsvInv, Held, ExrsvIntact, NotBad
    <3>2. Enter(t, "check4", 1) /\ UNCHANGED <<seen, data>> /\ UNCHANGED todo
      BY <1>15, <2>2 DEF InitGset
    <3>3. QED
      BY <1>0, <3>1, <3>2, ExrsvMove DEF Phases
  <2>3. QED
    BY <2>1, <2>2
<1>16. ASSUME NEW t \in Threads, Judge4x4(t) PROVE ExrsvInv'
  <2> DEFINE failed == IF Passed(t) THEN bad[t] ELSE bad[t] \cup {Order[pos[t]]}
  <2>1. phase[t] = "check4" /\ pos[t] \in 1..4 /\ step[t] = "judge" /\ Order[pos[t]] \in Copies
    BY <1>16, CheckedType DEF Judge4x4, Judging, Ready, ExrsvInv, TypeInv, InOrder
  <2>2. "exrsv" \notin failed /\ failed \in SUBSET Copies
    <3>1. CASE Passed(t)
      BY <3>1 DEF ExrsvInv, NotBad, TypeInv, TypeOK
    <3>2. CASE ~Passed(t)
      <4>1. pos[t] \in 1..3
        BY <2>1, <3>2, ExrsvPasses
      <4>2. Order[pos[t]] # "exrsv"
        BY <4>1 DEF Order
      <4>3. QED
        BY <2>1, <4>2 DEF ExrsvInv, NotBad, TypeInv, TypeOK
    <3>3. QED
      BY <3>1, <3>2
  <2>3. Held' /\ \A u \in Threads \ {t} : seen'[u] = seen[u] /\ data'[u] = data[u]
    BY <1>16 DEF Judge4x4, files, Forget, ExrsvInv, Held, ExrsvIntact, TypeInv, TypeOK
  <2>4. CASE pos[t] < 4
    <3>1. /\ bad' = [bad EXCEPT ![t] = failed] /\ UNCHANGED todo
          /\ Enter(t, "check4", pos[t] + 1)
      BY <1>16, <2>4 DEF Judge4x4, Order
    <3> HIDE DEF failed
    <3>2. NotBad'
      BY <2>2, <3>1 DEF ExrsvInv, NotBad, TypeInv, TypeOK
    <3>3. pos[t] + 1 \in Nat
      BY <2>1
    <3>4. QED
      BY <1>0, <2>3, <3>1, <3>2, <3>3, ExrsvMove DEF Phases
  <2>5. CASE ~(pos[t] < 4)
    <3>1. failed # Copies
      BY <2>2 DEF Copies
    <3>2. /\ bad' = [bad EXCEPT ![t] = {}] /\ todo' = [todo EXCEPT ![t] = FixAll(failed)]
          /\ Enter(t, "fix", 1)
      BY <1>16, <2>5, <3>1 DEF Judge4x4, Order
    <3> HIDE DEF failed
    <3>3. NotBad'
      BY <3>2 DEF ExrsvInv, NotBad, TypeInv, TypeOK
    <3>4. FixAll(failed) \in Seq(SafeOps)
      BY <2>2, SafeFixAll
    <3>5. QED
      BY <1>0, <2>3, <3>2, <3>3, <3>4, ExrsvMove DEF Phases
  <2>6. QED
    BY <2>4, <2>5
<1>17. ASSUME NEW t \in Threads, InitGsetReturns(t) PROVE ExrsvInv'
  <2>1. Held' /\ NotBad'
    BY <1>17 DEF InitGsetReturns, files, ExrsvInv, Held, ExrsvIntact, NotBad
  <2>2. /\ \A u \in Threads \ {t} : seen'[u] = seen[u] /\ data'[u] = data[u]
    BY <1>17 DEF InitGsetReturns, files, Forget, ExrsvInv, TypeInv, TypeOK
  <2>3. \E p \in Phases \ {"restored", "factory4"}, i \in Nat : Enter(t, p, i)
    BY <1>17 DEF InitGsetReturns, files, Phases, Caller, ExrsvInv, TypeInv, TypeOK
  <2>4. UNCHANGED todo \/ \E w \in Seq(SafeOps) : todo' = [todo EXCEPT ![t] = w]
    BY <1>17 DEF InitGsetReturns, files
  <2>5. QED
    BY <1>0, <2>1, <2>2, <2>3, <2>4, ExrsvMove
<1>18. ASSUME NEW t \in Threads, Lock(t) PROVE ExrsvInv'
  <2>1. Held' /\ NotBad'
    BY <1>18 DEF Lock, files, ExrsvInv, Held, ExrsvIntact, NotBad
  <2>2. /\ \A u \in Threads \ {t} : seen'[u] = seen[u] /\ data'[u] = data[u]
    BY <1>18 DEF Lock, files, Forget, ExrsvInv, TypeInv, TypeOK
  <2>3. \E p \in Phases \ {"restored", "factory4"}, i \in Nat : Enter(t, p, i)
    BY <1>18 DEF Lock, files, Phases, Caller, ExrsvInv, TypeInv, TypeOK
  <2>4. UNCHANGED todo \/ \E w \in Seq(SafeOps) : todo' = [todo EXCEPT ![t] = w]
    BY <1>18, SafeScripts DEF Lock, files
  <2>5. QED
    BY <1>0, <2>1, <2>2, <2>3, <2>4, ExrsvMove
<1>19. ASSUME NEW t \in Threads, Verify1(t) PROVE ExrsvInv'
  <2>1. Held' /\ NotBad'
    BY <1>19 DEF Verify1, files, ExrsvInv, Held, ExrsvIntact, NotBad
  <2>2. /\ \A u \in Threads \ {t} : seen'[u] = seen[u] /\ data'[u] = data[u]
    BY <1>19 DEF Verify1, files, Forget, ExrsvInv, TypeInv, TypeOK
  <2>3. \E p \in Phases \ {"restored", "factory4"}, i \in Nat : Enter(t, p, i)
    BY <1>19 DEF Verify1, files, Phases, Caller, ExrsvInv, TypeInv, TypeOK
  <2>4. UNCHANGED todo \/ \E w \in Seq(SafeOps) : todo' = [todo EXCEPT ![t] = w]
    <3>1. \/ todo' = [todo EXCEPT ![t] = <<Wr(Data("ex"))>>]
          \/ todo' = [todo EXCEPT ![t] = <<Wr(Data("sys"))>>]
      BY <1>19 DEF Verify1
    <3>2. QED
      BY <3>1, SafeScripts
  <2>5. QED
    BY <1>0, <2>1, <2>2, <2>3, <2>4, ExrsvMove
<1>20. ASSUME NEW t \in Threads, Verify2(t) PROVE ExrsvInv'
  <2>1. Held' /\ NotBad'
    BY <1>20 DEF Verify2, files, ExrsvInv, Held, ExrsvIntact, NotBad
  <2>2. /\ \A u \in Threads \ {t} : seen'[u] = seen[u] /\ data'[u] = data[u]
    BY <1>20 DEF Verify2, files, Forget, ExrsvInv, TypeInv, TypeOK
  <2>3. \E p \in Phases \ {"restored", "factory4"}, i \in Nat : Enter(t, p, i)
    BY <1>20 DEF Verify2, files, Phases, Caller, ExrsvInv, TypeInv, TypeOK
  <2>4. UNCHANGED todo \/ \E w \in Seq(SafeOps) : todo' = [todo EXCEPT ![t] = w]
    <3>1. \/ todo' = [todo EXCEPT ![t] = <<Wr(Crc("sys")), Wr(Crc("ex"))>>]
          \/ todo' = [todo EXCEPT ![t] = <<Wr(Data("ex"))>>]
      BY <1>20 DEF Verify2
    <3>2. QED
      BY <3>1, SafeScripts
  <2>5. QED
    BY <1>0, <2>1, <2>2, <2>3, <2>4, ExrsvMove
<1>21. ASSUME NEW t \in Threads, SaveReturns(t) PROVE ExrsvInv'
  <2>1. Held' /\ NotBad'
    BY <1>21 DEF SaveReturns, Ready, ExrsvInv, Held, ExrsvIntact, NotBad
  <2>2. /\ \A u \in Threads \ {t} : seen'[u] = seen[u] /\ data'[u] = data[u]
    BY <1>21 DEF SaveReturns, Ready, Forget, ExrsvInv, TypeInv, TypeOK
  <2>3. \E p \in Phases \ {"restored", "factory4"}, i \in Nat : Enter(t, p, i)
    BY <1>21 DEF SaveReturns, Ready, Phases, Caller, ExrsvInv, TypeInv, TypeOK
  <2>4. UNCHANGED todo \/ \E w \in Seq(SafeOps) : todo' = [todo EXCEPT ![t] = w]
    BY <1>21 DEF SaveReturns, Ready
  <2>5. QED
    BY <1>0, <2>1, <2>2, <2>3, <2>4, ExrsvMove
<1>22. ASSUME NEW t \in Threads, LoadSetting(t) PROVE ExrsvInv'
  <2>1. Held' /\ NotBad'
    BY <1>22 DEF LoadSetting, files, ExrsvInv, Held, ExrsvIntact, NotBad
  <2>2. /\ \A u \in Threads \ {t} : seen'[u] = seen[u] /\ data'[u] = data[u]
    BY <1>22 DEF LoadSetting, files, Forget, ExrsvInv, TypeInv, TypeOK
  <2>3. \E p \in Phases \ {"restored", "factory4"}, i \in Nat : Enter(t, p, i)
    BY <1>22 DEF LoadSetting, files, Phases, Caller, ExrsvInv, TypeInv, TypeOK
  <2>4. UNCHANGED todo \/ \E w \in Seq(SafeOps) : todo' = [todo EXCEPT ![t] = w]
    BY <1>22 DEF LoadSetting, files
  <2>5. QED
    BY <1>0, <2>1, <2>2, <2>3, <2>4, ExrsvMove
<1>23. ASSUME NEW t \in Threads, SyncGsetSettings(t) PROVE ExrsvInv'
  <2>1. Held' /\ NotBad'
    BY <1>23 DEF SyncGsetSettings, files, ExrsvInv, Held, ExrsvIntact, NotBad
  <2>2. /\ \A u \in Threads \ {t} : seen'[u] = seen[u] /\ data'[u] = data[u]
    BY <1>23 DEF SyncGsetSettings, files, Forget, ExrsvInv, TypeInv, TypeOK
  <2>3. \E p \in Phases \ {"restored", "factory4"}, i \in Nat : Enter(t, p, i)
    BY <1>23 DEF SyncGsetSettings, files, Phases, Caller, ExrsvInv, TypeInv, TypeOK
  <2>4. UNCHANGED todo \/ \E w \in Seq(SafeOps) : todo' = [todo EXCEPT ![t] = w]
    BY <1>23 DEF SyncGsetSettings, files
  <2>5. QED
    BY <1>0, <2>1, <2>2, <2>3, <2>4, ExrsvMove
<1>24. ASSUME NEW t \in Threads, SaveSetting(t) PROVE ExrsvInv'
  <2>1. Held' /\ NotBad'
    BY <1>24 DEF SaveSetting, files, ExrsvInv, Held, ExrsvIntact, NotBad
  <2>2. /\ \A u \in Threads \ {t} : seen'[u] = seen[u] /\ data'[u] = data[u]
    BY <1>24 DEF SaveSetting, files, Forget, ExrsvInv, TypeInv, TypeOK
  <2>3. \E p \in Phases \ {"restored", "factory4"}, i \in Nat : Enter(t, p, i)
    BY <1>24 DEF SaveSetting, files, Phases, Caller, ExrsvInv, TypeInv, TypeOK
  <2>4. UNCHANGED todo \/ \E w \in Seq(SafeOps) : todo' = [todo EXCEPT ![t] = w]
    BY <1>24 DEF SaveSetting, files
  <2>5. QED
    BY <1>0, <2>1, <2>2, <2>3, <2>4, ExrsvMove
<1>25. ASSUME Restart, Held' PROVE ExrsvInv'
  BY <1>0, <1>25 DEF Restart, ExrsvInv, Harmless, ReadsFactory, NotBad, NeverReset
<1>26. CASE Kill
  BY <1>25, <1>26 DEF Kill, ExrsvInv, Held, ExrsvIntact
<1>27. CASE PowerFailure
  <2>1. fs'[Data("exrsv")] = fs[Data("exrsv")] /\ fs'[Crc("exrsv")] = fs[Crc("exrsv")]
    BY <1>27, ExrsvNames DEF PowerFailure, ExrsvInv, Held
  <2>2. QED
    BY <1>25, <1>27, <2>1 DEF PowerFailure, ExrsvInv, Held, ExrsvIntact
<1>28. CASE UNCHANGED vars
  BY <1>0, <1>28 DEF vars, local, ExrsvInv, Held, ExrsvIntact, Harmless, ReadsFactory,
     NotBad, NeverReset
<1>29. QED
  BY <1>1, <1>2, <1>3, <1>4, <1>5, <1>6, <1>7, <1>8, <1>9, <1>10, <1>11, <1>12, <1>13,
     <1>14, <1>15, <1>16, <1>17, <1>18, <1>19, <1>20, <1>21, <1>22, <1>23, <1>24,
     <1>26, <1>27, <1>28, <1>c DEF Next, Work, FileStep, Request

\* On a commissioned device the fourth copy passes the check whatever the threads,
\* the crashes, the power failures and the write errors do, however many they are.
THEOREM ExrsvSurvives == ASSUME Commissioned PROVE Spec => []ExrsvIntact
<1>1. Init => ExrsvInv
  BY ExrsvInit
<1>2. ExrsvInv => ExrsvIntact
  BY DEF ExrsvInv, Held
<1>3. QED
  BY <1>1, <1>2, ExrsvStep, PTL DEF Spec

\* Hence no Sync ever falls back to the factory content.
THEOREM NoFactoryReset == ASSUME Commissioned PROVE Spec => []NeverReset
<1>1. Init => ExrsvInv
  BY ExrsvInit
<1>2. ExrsvInv => NeverReset
  BY DEF ExrsvInv
<1>3. QED
  BY <1>1, <1>2, ExrsvStep, PTL DEF Spec

-----------------------------------------------------------------------------
(***************************************************************************)
(* Threads that only save, on a commissioned device that nobody restarts.  *)
(* While the mutex is free, ex or sys passes the check with the last value *)
(* saved, and the other one passes it with that value or not at all.  The  *)
(* thread that holds the mutex writes the data of sys, then that of ex,    *)
(* then both checksums; the checksums of the old value stand until then,   *)
(* so that a save that fails leaves ex, or a sys the check refuses.  Short *)
(* writes are too few for a save to give up both data files.               *)
(***************************************************************************)
OnlySavers ==
  /\ Commissioned /\ FactoryCrc
  /\ MaxCrash = 0
  /\ \A t \in Threads : Asked[t] \subseteq {"save"}
  /\ Faults \subseteq {"open"} \/ (Faults \subseteq {"short"} /\ MaxFault < 2 * (MaxTries + 1))

Writing == {"write1", "write2", "crc"}

\* InitGset finds the copies as they were shipped, and changes nothing.
Boots ==
  /\ ~booted => /\ \A c \in Copies : fs[Data(c)] = Factory /\ fs[Crc(c)] = Factory
                /\ acked = Factory
  /\ \A t \in Threads :
       /\ phase[t] \in {"idle", "lock", "check4", "fix"} \cup Writing
       /\ phase[t] \in {"check4", "fix"} => ~booted /\ t = BootThread
       /\ phase[t] \in {"lock"} \cup Writing => booted
       /\ phase[t] = "check4" /\ step[t] # "crc" => seen[t] = Factory
       /\ phase[t] = "check4" /\ step[t] = "judge" => data[t] = Factory
       /\ bad[t] = {}

\* Only the thread that holds the mutex has files to write.
Excluded ==
  \A t \in Threads : /\ phase[t] \in Writing <=> owner = t
                     /\ phase[t] \notin Writing => todo[t] = << >> /\ opened[t] = "no"

\* The two checksums, and with the data the whole of ex, are of the last value saved.
OldCrcs == fs[Crc("sys")] = acked /\ fs[Crc("ex")] = acked
Kept == /\ OldCrcs
        /\ fs[Data("ex")] = acked \/ ("short" \in Faults /\ fs[Data("sys")] = acked)

\* A handle is open on an empty file only.
Opens(t) == opened[t] # "no" => opened[t] = "yes" /\ todo[t] # << >> /\ fs[Target(t)] = Empty

\* The data file f is what is to be saved, or was given up.
Written(t, f) == fs[f] = data[t] \/ ("short" \in Faults /\ fs[f] = Torn)

\* Writes of sys that were in vain, once it is the turn of ex.
Spent(t) == IF fs[Data("sys")] = data[t] THEN 0 ELSE MaxTries + 1

\* The data file f is being written: every try but the first is a fault more.
Writes(t, f, spent) ==
  /\ todo[t] \in {<<Wr(f)>>, << >>}
  /\ todo[t] # << >> => pos[t] + spent <= faults + 1
  /\ todo[t] = << >> => Written(t, f) /\ (fs[f] = data[t] \/ pos[t] + spent <= faults)

SavesSys(t) ==
  phase[t] = "write1" =>
    /\ OldCrcs /\ ("open" \in Faults => fs[Data("ex")] = acked)
    /\ Writes(t, Data("sys"), 0)

SavesEx(t) ==
  phase[t] = "write2" =>
    /\ OldCrcs /\ Written(t, Data("sys"))
    /\ Writes(t, Data("ex"), Spent(t))
    /\ "open" \in Faults /\ todo[t] # << >> /\ opened[t] = "no" => fs[Data("ex")] = acked

SavesCrcs(t) ==
  phase[t] = "crc" =>
    /\ Written(t, Data("sys")) /\ Written(t, Data("ex"))
    /\ fs[Data("sys")] = data[t] \/ fs[Data("ex")] = data[t]
    /\ fs[Crc("sys")] # Absent /\ fs[Crc("ex")] # Absent
    /\ todo[t] \in {<<Wr(Crc("sys")), Wr(Crc("ex"))>>, <<Wr(Crc("ex"))>>, << >>}
    /\ todo[t] # <<Wr(Crc("sys")), Wr(Crc("ex"))>> => fs[Crc("sys")] = data[t]
    /\ todo[t] = << >> => fs[Crc("ex")] = data[t]

SaversInv ==
  /\ TypeInv /\ Boots /\ Excluded
  /\ owner = NoThread => Kept
  /\ \A t \in Threads : Opens(t) /\ SavesSys(t) /\ SavesEx(t) /\ SavesCrcs(t)

\* A thread that does not hold the mutex has nothing to write, and one that has
\* something to write holds it.
LEMMA SaversWork ==
  ASSUME SaversInv, NEW t \in Threads, todo[t] # << >>
  PROVE  /\ owner = t /\ phase[t] \in Writing
         /\ Head(todo[t]) = Wr(Target(t)) /\ Head(todo[t]).op = "wr"
         /\ phase[t] = "write1" => Target(t) = Data("sys") /\ Tail(todo[t]) = << >>
         /\ phase[t] = "write2" => Target(t) = Data("ex") /\ Tail(todo[t]) = << >>
         /\ phase[t] = "crc" =>
              \/ /\ todo[t] = <<Wr(Crc("sys")), Wr(Crc("ex"))>>
                 /\ Target(t) = Crc("sys") /\ Tail(todo[t]) = <<Wr(Crc("ex"))>>
              \/ /\ todo[t] = <<Wr(Crc("ex"))>>
                 /\ Target(t) = Crc("ex") /\ Tail(todo[t]) = << >>
<1>1. owner = t /\ phase[t] \in Writing
  BY DEF SaversInv, Excluded
<1>2. CASE phase[t] = "write1"
  <2>1. todo[t] = <<Wr(Data("sys"))>>
    BY <1>2 DEF SaversInv, SavesSys, Writes
  <2>2. QED
    BY <1>1, <1>2, <2>1 DEF Target, Wr
<1>3. CASE phase[t] = "write2"
  <2>1. todo[t] = <<Wr(Data("ex"))>>
    BY <1>3 DEF SaversInv, SavesEx, Writes
  <2>2. QED
    BY <1>1, <1>3, <2>1 DEF Target, Wr
<1>4. CASE phase[t] = "crc"
  <2>1. todo[t] \in {<<Wr(Crc("sys")), Wr(Crc("ex"))>>, <<Wr(Crc("ex"))>>}
    BY <1>4 DEF SaversInv, SavesCrcs
  <2>2. CASE todo[t] = <<Wr(Crc("sys")), Wr(Crc("ex"))>>
    BY <1>1, <1>4, <2>2 DEF Target, Wr
  <2>3. CASE todo[t] = <<Wr(Crc("ex"))>>
    BY <1>1, <1>4, <2>3 DEF Target, Wr
  <2>4. QED
    BY <2>1, <2>2, <2>3
<1>5. QED
  BY <1>1, <1>2, <1>3, <1>4 DEF Writing

\* A step in which the thread that holds the mutex goes on writing.
LEMMA SaversHolder ==
  ASSUME SaversInv, TypeInv', NEW t \in Threads, owner = t, UNCHANGED <<owner, booted, bad>>,
         \A u \in Threads \ {t} : /\ phase'[u] = phase[u] /\ step'[u] = step[u]
                                  /\ seen'[u] = seen[u] /\ data'[u] = data[u]
                                  /\ todo'[u] = todo[u] /\ opened'[u] = opened[u],
         phase'[t] \in Writing,
         Opens(t)', SavesSys(t)', SavesEx(t)', SavesCrcs(t)'
  PROVE  SaversInv'
<1>1. \A u \in Threads \ {t} : phase[u] \notin Writing /\ todo[u] = << >> /\ opened[u] = "no"
  BY DEF SaversInv, Excluded
<1>2. owner # NoThread /\ phase[t] \in Writing /\ booted
  BY SettingsAssumption DEF SaversInv, Boots, Excluded
<1>3. Boots'
  BY <1>2 DEF SaversInv, Boots, Writing
<1>4. Excluded'
  BY <1>1 DEF SaversInv, Excluded
<1>5. \A u \in Threads \ {t} : Opens(u)' /\ SavesSys(u)' /\ SavesEx(u)' /\ SavesCrcs(u)'
  BY <1>1 DEF Opens, SavesSys, SavesEx, SavesCrcs, Writing
<1>6. QED
  BY <1>2, <1>3, <1>4, <1>5 DEF SaversInv

\* A step of a thread that does not hold the mutex and does not take it.
LEMMA SaversAside ==
  ASSUME SaversInv, TypeInv', Boots', NEW t \in Threads,
         UNCHANGED <<fs, owner, acked, faults, todo, opened>>,
         \A u \in Threads \ {t} : /\ phase'[u] = phase[u] /\ pos'[u] = pos[u]
                                  /\ data'[u] = data[u],
         phase[t] \notin Writing, phase'[t] \notin Writing
  PROVE  SaversInv'
<1>1. Excluded'
  BY DEF SaversInv, Excluded
<1>2. (owner = NoThread => Kept)'
  BY DEF SaversInv, Kept, OldCrcs
<1>3. Opens(t)' /\ SavesSys(t)' /\ SavesEx(t)' /\ SavesCrcs(t)'
  BY DEF SaversInv, Excluded, Opens, SavesSys, SavesEx, SavesCrcs, Writing
<1>4. ASSUME NEW u \in Threads \ {t}
      PROVE  Opens(u)' /\ SavesSys(u)' /\ SavesEx(u)' /\ SavesCrcs(u)'
  BY DEF SaversInv, Opens, Target, SavesSys, SavesEx, SavesCrcs, Writes, Written, Spent, OldCrcs
<1>5. QED
  BY <1>1, <1>2, <1>3, <1>4 DEF SaversInv

\* The files are eight different ones.
LEMMA FilesDiffer ==
  /\ \A c, d \in Copies : Data(c) # Crc(d)
  /\ \A c, d \in Copies : c # d => Data(c) # Data(d) /\ Crc(c) # Crc(d)
  /\ \A c \in Copies : Data(c) \in Files /\ Crc(c) \in Files
  /\ "sys" \in Copies /\ "ex" \in Copies
BY DEF Data, Crc, Files, Copies

\* Of an empty list of copies there is nothing to repair.
LEMMA NothingToFix == FixAll({}) = << >>
<1>1. << >> \o << >> = << >>
  OBVIOUS
<1>2. QED
  BY <1>1 DEF FixAll

LEMMA SaversInit == OnlySavers /\ Init => SaversInv
<1> SUFFICES ASSUME OnlySavers, Init PROVE SaversInv
  OBVIOUS
<1>1. TypeInv
  BY TypeInit
<1>2. \A f \in Files : fs[f] = Factory
  BY DEF Init, OnlySavers, Shipped
<1>3. Boots
  BY <1>2, FilesDiffer DEF Init, Boots, Writing
<1>4. Excluded
  BY SettingsAssumption DEF Init, Excluded, Writing
<1>5. Kept
  BY <1>2, FilesDiffer DEF Init, Kept, OldCrcs
<1>6. \A t \in Threads : Opens(t) /\ SavesSys(t) /\ SavesEx(t) /\ SavesCrcs(t)
  BY DEF Init, Opens, SavesSys, SavesEx, SavesCrcs
<1>7. QED
  BY <1>1, <1>3, <1>4, <1>5, <1>6 DEF SaversInv

LEMMA SaversStep == OnlySavers /\ SaversInv /\ [Next]_vars => SaversInv'
<1> SUFFICES ASSUME OnlySavers, SaversInv, [Next]_vars PROVE SaversInv'
  OBVIOUS
<1> USE SettingsAssumption
<1>0. TypeInv /\ TypeInv' /\ TypeOK /\ TypeOK'
  BY TypeStep DEF SaversInv, TypeInv
<1>f. "crc" \notin Faults /\ ("short" \in Faults => "open" \notin Faults /\ MaxFault < 2 * (MaxTries + 1))
  BY DEF OnlySavers
<1>1. ASSUME NEW t \in Threads, Remove(t) \/ CopyOpen(t) \/ CopyFill(t) \/ CopyFails(t) PROVE SaversInv'
  <2>1. todo[t] # << >> /\ Head(todo[t]).op \in {"rm", "cp"}
    BY <1>1 DEF Remove, CopyOpen, CopyFill, CopyFails, Doing
  <2>2. QED
    BY <2>1, SaversWork
<1>2. ASSUME NEW t \in Threads, WriteOpen(t) PROVE SaversInv'
  <2>1. todo[t] # << >> /\ opened[t] = "no"
    BY <1>2 DEF WriteOpen, Doing
  <2>2. owner = t /\ phase[t] \in Writing /\ Target(t) \in Files
    BY <2>1, SaversWork, TargetType, <1>0
  <2>3. /\ fs'[Target(t)] = Empty /\ \A f \in Files \ {Target(t)} : fs'[f] = fs[f]
        /\ opened'[t] = "yes" /\ \A u \in Threads \ {t} : opened'[u] = opened[u]
        /\ UNCHANGED <<todo, owner, booted, phase, step, pos, seen, data, bad, acked, faults>>
    BY <1>0, <1>2, <2>2 DEF WriteOpen, control, TypeOK
  <2>4. Opens(t)'
    BY <2>1, <2>3 DEF Opens, Target
  <2>5. SavesSys(t)'
    <3>1. SUFFICES ASSUME phase[t] = "write1" PROVE SavesSys(t)'
      BY <2>3 DEF SavesSys
    <3>2. Target(t) = Data("sys")
      BY <2>1, <3>1, SaversWork
    <3>3. OldCrcs' /\ ("open" \in Faults => fs'[Data("ex")] = acked')
      BY <2>3, <3>1, <3>2, FilesDiffer DEF SaversInv, SavesSys, OldCrcs
    <3>4. QED
      BY <2>1, <2>3, <3>1, <3>3 DEF SaversInv, SavesSys, Writes
  <2>6. SavesEx(t)'
    <3>1. SUFFICES ASSUME phase[t] = "write2" PROVE SavesEx(t)'
      BY <2>3 DEF SavesEx
    <3>2. Target(t) = Data("ex")
      BY <2>1, <3>1, SaversWork
    <3>3. OldCrcs' /\ Written(t, Data("sys"))' /\ Spent(t)' = Spent(t)
      BY <2>3, <3>1, <3>2, FilesDiffer DEF SaversInv, SavesEx, OldCrcs, Written, Spent
    <3>4. QED
      BY <2>1, <2>3, <3>1, <3>3 DEF SaversInv, SavesEx, Writes
  <2>7. SavesCrcs(t)'
    <3>1. SUFFICES ASSUME phase[t] = "crc" PROVE SavesCrcs(t)'
      BY <2>3 DEF SavesCrcs
    <3>2. \/ todo[t] = <<Wr(Crc("sys")), Wr(Crc("ex"))>> /\ Target(t) = Crc("sys")
          \/ Target(t) = Crc("ex")
      BY <2>1, <3>1, SaversWork
    <3>3. /\ Written(t, Data("sys"))' /\ Written(t, Data("ex"))'
          /\ fs'[Data("sys")] = data'[t] \/ fs'[Data("ex")] = data'[t]
      BY <2>3, <3>1, <3>2, FilesDiffer DEF SaversInv, SavesCrcs, Written
    <3>4. fs'[Crc("sys")] # Absent /\ fs'[Crc("ex")] # Absent
      BY <2>3, <3>1, FilesDiffer DEF SaversInv, SavesCrcs, Empty, Absent
    <3>5. QED
      BY <2>1, <2>3, <3>1, <3>2, <3>3, <3>4, FilesDiffer DEF SaversInv, SavesCrcs
  <2>8. QED
    BY <1>0, <2>2, <2>3, <2>4, <2>5, <2>6, <2>7, SaversHolder
<1>3. ASSUME NEW t \in Threads, WriteFill(t) PROVE SaversInv'
  <2>1. todo[t] # << >> /\ opened[t] = "yes" /\ fs[Target(t)] = Empty
    BY <1>3 DEF WriteFill, Doing, SaversInv, Opens
  <2>2. owner = t /\ phase[t] \in Writing /\ Target(t) \in Files
    BY <2>1, SaversWork, TargetType, <1>0
  <2>3. /\ \A f \in Files \ {Target(t)} : fs'[f] = fs[f]
        /\ opened'[t] = "no" /\ \A u \in Threads \ {t} : opened'[u] = opened[u]
        /\ todo'[t] = Tail(todo[t]) /\ \A u \in Threads \ {t} : todo'[u] = todo[u]
        /\ UNCHANGED <<owner, booted, phase, step, pos, seen, data, bad, acked>>
    BY <1>0, <1>3, <2>2 DEF WriteFill, control, TypeOK
  <2>4. \/ UNCHANGED faults /\ fs'[Target(t)] = data[t]
        \/ /\ phase[t] # "crc" /\ "short" \in Faults /\ faults' = faults + 1
           /\ fs'[Target(t)] = Torn
    BY <1>0, <1>3, <2>1, <2>2 DEF WriteFill, Fault, Filled, TypeOK
  <2>5. faults \in Nat /\ faults' \in Nat /\ pos[t] \in Nat
    BY <1>0 DEF TypeOK
  <2>6. Opens(t)'
    BY <2>3 DEF Opens
  <2>7. SavesSys(t)'
    <3>1. SUFFICES ASSUME phase[t] = "write1" PROVE SavesSys(t)'
      BY <2>3 DEF SavesSys
    <3>2. Target(t) = Data("sys") /\ Tail(todo[t]) = << >>
      BY <2>1, <3>1, SaversWork
    <3>3. OldCrcs' /\ ("open" \in Faults => fs'[Data("ex")] = acked')
      BY <2>3, <3>1, <3>2, FilesDiffer DEF SaversInv, SavesSys, OldCrcs
    <3>4. pos[t] + 0 <= faults + 1
      BY <2>1, <3>1 DEF SaversInv, SavesSys, Writes
    <3>5. QED
      BY <2>3, <2>4, <2>5, <3>2, <3>3, <3>4 DEF SavesSys, Writes, Written
  <2>8. SavesEx(t)'
    <3>1. SUFFICES ASSUME phase[t] = "write2" PROVE SavesEx(t)'
      BY <2>3 DEF SavesEx
    <3>2. Target(t) = Data("ex") /\ Tail(todo[t]) = << >>
      BY <2>1, <3>1, SaversWork
    <3>3. OldCrcs' /\ Written(t, Data("sys"))' /\ Spent(t)' = Spent(t)
      BY <2>3, <3>1, <3>2, FilesDiffer DEF SaversInv, SavesEx, OldCrcs, Written, Spent
    <3>4. pos[t] + Spent(t) <= faults + 1 /\ Spent(t) \in Nat
      BY <2>1, <3>1, SettingsAssumption DEF SaversInv, SavesEx, Writes, Spent
    <3>5. QED
      BY <2>3, <2>4, <2>5, <3>2, <3>3, <3>4 DEF SavesEx, Writes, Written
  <2>9. SavesCrcs(t)'
    <3>1. SUFFICES ASSUME phase[t] = "crc" PROVE SavesCrcs(t)'
      BY <2>3 DEF SavesCrcs
    <3>2. /\ fs'[Target(t)] = data'[t]
          /\ Written(t, Data("sys")) /\ Written(t, Data("ex"))
          /\ fs[Data("sys")] = data[t] \/ fs[Data("ex")] = data[t]
          /\ fs[Crc("sys")] # Absent /\ fs[Crc("ex")] # Absent /\ data[t] # Absent
      BY <1>0, <2>3, <2>4, <3>1, SettingsAssumption
      DEF SaversInv, SavesCrcs, TypeInv, SavesValue, Writing
    <3>3. CASE Target(t) = Crc("sys") /\ Tail(todo[t]) = <<Wr(Crc("ex"))>>
      BY <2>3, <3>2, <3>3, FilesDiffer DEF SavesCrcs, Written
    <3>4. CASE Target(t) = Crc("ex") /\ todo[t] = <<Wr(Crc("ex"))>> /\ Tail(todo[t]) = << >>
      <4>1. fs[Crc("sys")] = data[t]
        BY <3>1, <3>4 DEF SaversInv, SavesCrcs
      <4>2. QED
        BY <2>3, <3>2, <3>4, <4>1, FilesDiffer DEF SavesCrcs, Written
    <3>5. QED
      BY <2>1, <3>1, <3>3, <3>4, SaversWork
  <2>10. QED
    BY <1>0, <2>2, <2>3, <2>6, <2>7, <2>8, <2>9, SaversHolder
<1>4. ASSUME NEW t \in Threads, DataOpenFails(t) PROVE SaversInv'
  <2>1. todo[t] # << >> /\ opened[t] = "no" /\ phase[t] \in {"write1", "write2"} /\ "open" \in Faults
    BY <1>4 DEF DataOpenFails, Doing, Fault
  <2>2. owner = t
    BY <2>1, SaversWork
  <2>3. OldCrcs /\ fs[Data("ex")] = acked
    BY <2>1 DEF SaversInv, SavesSys, SavesEx
  <2>4. \A u \in Threads \ {t} : phase[u] \notin Writing /\ todo[u] = << >> /\ opened[u] = "no"
    BY <2>2 DEF SaversInv, Excluded
  <2>5. /\ phase'[t] = "idle" /\ todo'[t] = << >> /\ owner' = NoThread
        /\ \A u \in Threads \ {t} : /\ phase'[u] = phase[u] /\ step'[u] = step[u]
                                    /\ todo'[u] = todo[u]
                                    /\ seen'[u] = seen[u] /\ data'[u] = data[u]
        /\ UNCHANGED <<fs, booted, bad, opened, acked>>
    BY <1>0, <1>4 DEF DataOpenFails, Enter, Forget, TypeOK
  <2>6. Boots'
    BY <2>5 DEF SaversInv, Boots, Writing
  <2>7. Excluded'
    BY <2>1, <2>4, <2>5 DEF Excluded, Writing
  <2>8. Kept'
    BY <2>3, <2>5 DEF Kept, OldCrcs
  <2>9. \A u \in Threads : Opens(u)' /\ SavesSys(u)' /\ SavesEx(u)' /\ SavesCrcs(u)'
    BY <2>1, <2>4, <2>5 DEF Opens, SavesSys, SavesEx, SavesCrcs, Writing
  <2>10. QED
    BY <1>0, <2>6, <2>7, <2>8, <2>9 DEF SaversInv
<1>5. ASSUME NEW t \in Threads, CrcOpenFails(t) PROVE SaversInv'
  BY <1>f, <1>5 DEF CrcOpenFails, Fault
<1>6. ASSUME NEW t \in Threads, CheckCrc(t) PROVE SaversInv'
  <2>1. phase[t] = "check4" /\ ~booted /\ Checked(t) \in Copies /\ step[t] = "crc"
    BY <1>0, <1>6, CheckedType DEF CheckCrc, Checking, SaversInv, Boots, Writing
  <2>2. fs[Crc(Checked(t))] = Factory /\ Factory # Empty
    BY <2>1, FactoryWhole DEF SaversInv, Boots
  <2>3. /\ seen'[t] = Factory /\ step'[t] = "data"
        /\ \A u \in Threads \ {t} : seen'[u] = seen[u] /\ step'[u] = step[u]
        /\ UNCHANGED <<fs, owner, booted, phase, pos, data, bad, todo, opened, acked, faults>>
    BY <1>0, <1>6, <2>2 DEF CheckCrc, files, counters, TypeOK
  <2>4. Boots'
    BY <2>3 DEF SaversInv, Boots
  <2>5. QED
    BY <1>0, <2>1, <2>3, <2>4, SaversAside DEF Writing
<1>7. ASSUME NEW t \in Threads, CheckData(t) PROVE SaversInv'
  <2>1. phase[t] = "check4" /\ ~booted /\ Checked(t) \in Copies /\ step[t] = "data"
    BY <1>0, <1>7, CheckedType DEF CheckData, Checking, SaversInv, Boots, Writing
  <2>2. /\ fs[Data(Checked(t))] = Factory /\ Factory # Empty /\ seen[t] = Factory
        /\ todo[t] = << >>
    BY <1>7, <2>1, FactoryWhole DEF CheckData, SaversInv, Boots
  <2>3. /\ data'[t] = Factory /\ step'[t] = "judge"
        /\ \A u \in Threads \ {t} : data'[u] = data[u] /\ step'[u] = step[u]
        /\ UNCHANGED <<fs, owner, booted, phase, pos, seen, bad, todo, opened, acked, faults>>
    BY <1>0, <1>7, <2>2 DEF CheckData, files, counters, TypeOK
  <2>4. Boots'
    BY <2>2, <2>3 DEF SaversInv, Boots
  <2>5. QED
    BY <1>0, <2>1, <2>3, <2>4, SaversAside DEF Writing
<1>8. ASSUME NEW t \in Threads,
             LoadFirst(t) \/ LoadSecond(t) \/ EqualFiles(t) \/ LazyJudge(t) \/ LazyRestored(t)
      PROVE  SaversInv'
  <2>1. phase[t] \in {"load", "reload", "equal", "lazy", "restored"}
    BY <1>8 DEF LoadFirst, LoadSecond, EqualFiles, LazyJudge, LazyRestored, Judging, Ready
  <2>2. QED
    BY <2>1 DEF SaversInv, Boots, Writing
<1>9. ASSUME NEW t \in Threads, InitGset(t) PROVE SaversInv'
  <2>1. phase[t] = "idle" /\ ~booted /\ t = BootThread
    BY <1>9 DEF InitGset, Ready
  <2>2. fs[Data("sys")] # Absent
    BY <2>1, FilesDiffer, FactoryWhole DEF SaversInv, Boots
  <2>3. /\ phase'[t] = "check4" /\ step'[t] = "crc"
        /\ \A u \in Threads \ {t} : /\ phase'[u] = phase[u] /\ step'[u] = step[u]
                                    /\ pos'[u] = pos[u]
        /\ UNCHANGED <<fs, owner, booted, seen, data, bad, todo, opened, acked, faults>>
    BY <1>0, <1>9, <2>2 DEF InitGset, Enter, files, counters, TypeOK
  <2>4. Boots'
    BY <2>1, <2>3 DEF SaversInv, Boots, Writing
  <2>5. QED
    BY <1>0, <2>1, <2>3, <2>4, SaversAside DEF Writing
<1>10. ASSUME NEW t \in Threads, Judge4x4(t) PROVE SaversInv'
  <2>1. phase[t] = "check4" /\ step[t] = "judge" /\ ~booted /\ bad[t] = {} /\ todo[t] = << >>
    BY <1>10 DEF Judge4x4, Judging, Ready, SaversInv, Boots
  <2>2. Passed(t)
    <3>1. seen[t] = Factory /\ data[t] = Factory
      BY <2>1 DEF SaversInv, Boots
    <3>2. QED
      BY <3>1, FactoryWhole DEF Passed, Accepts
  <2>3. \E p \in {"check4", "fix"}, i \in Nat :
          /\ Enter(t, p, i)
          /\ bad' = [bad EXCEPT ![t] = {}]
          /\ UNCHANGED todo
    <3>1. CASE pos[t] < Len(Order)
      <4>1. bad' = [bad EXCEPT ![t] = {}] /\ Enter(t, "check4", pos[t] + 1) /\ UNCHANGED todo
        BY <1>10, <2>1, <2>2, <3>1 DEF Judge4x4
      <4>2. pos[t] \in Nat
        BY <1>0 DEF TypeOK
      <4>3. pos[t] + 1 \in Nat
        BY <4>2
      <4>4. QED
        BY <4>1, <4>3
    <3>2. CASE ~(pos[t] < Len(Order))
      <4>1. {} # Copies
        BY DEF Copies
      <4>2. /\ bad' = [bad EXCEPT ![t] = {}] /\ todo' = [todo EXCEPT ![t] = FixAll({})]
            /\ Enter(t, "fix", 1)
        BY <1>10, <2>1, <2>2, <3>2, <4>1 DEF Judge4x4
      <4>3. UNCHANGED todo
        BY <1>0, <2>1, <4>2, NothingToFix DEF TypeOK
      <4>4. QED
        BY <4>2, <4>3
    <3>3. QED
      BY <3>1, <3>2
  <2>4. /\ phase'[t] \in {"check4", "fix"} /\ step'[t] = "crc"
        /\ \A u \in Threads \ {t} : /\ phase'[u] = phase[u] /\ step'[u] = step[u]
                                    /\ pos'[u] = pos[u]
                                    /\ seen'[u] = seen[u] /\ data'[u] = data[u]
        /\ UNCHANGED <<fs, owner, booted, bad, todo, opened, acked, faults>>
    <3>1. UNCHANGED bad
      BY <1>0, <2>1, <2>3 DEF TypeOK
    <3>2. QED
      BY <1>0, <1>10, <2>3, <3>1 DEF Judge4x4, Enter, Forget, files, counters, TypeOK
  <2>5. Boots'
    BY <2>1, <2>4 DEF SaversInv, Boots, Writing
  <2>6. QED
    BY <1>0, <2>1, <2>4, <2>5, SaversAside DEF Writing
<1>11. ASSUME NEW t \in Threads, InitGsetReturns(t) PROVE SaversInv'
  <2>1. phase[t] = "fix" /\ ~booted /\ t = BootThread
    BY <1>11 DEF InitGsetReturns, Judging, Ready, SaversInv, Boots, Writing
  <2>2. /\ phase'[t] = "idle" /\ booted'
        /\ \A u \in Threads \ {t} : /\ phase'[u] = phase[u] /\ step'[u] = step[u]
                                    /\ pos'[u] = pos[u]
                                    /\ seen'[u] = seen[u] /\ data'[u] = data[u]
        /\ UNCHANGED <<fs, owner, bad, todo, opened, acked, faults>>
    BY <1>0, <1>11 DEF InitGsetReturns, Enter, Forget, files, counters, TypeOK
  <2>3. Boots'
    BY <2>1, <2>2 DEF SaversInv, Boots
  <2>4. QED
    BY <1>0, <2>1, <2>2, <2>3, SaversAside DEF Writing
<1>12. ASSUME NEW t \in Threads, Lock(t) PROVE SaversInv'
  <2>1. phase[t] = "lock" /\ owner = NoThread /\ Kept /\ booted
    BY <1>12 DEF Lock, SaversInv, Boots
  <2>2. \A u \in Threads : phase[u] \notin Writing /\ todo[u] = << >> /\ opened[u] = "no"
    BY <2>1 DEF SaversInv, Excluded
  <2>3. /\ phase'[t] = "write1" /\ pos'[t] = 1 /\ owner' = t
        /\ todo'[t] = <<Wr(Data("sys"))>>
        /\ \A u \in Threads \ {t} : /\ phase'[u] = phase[u] /\ step'[u] = step[u]
                                    /\ todo'[u] = todo[u]
        /\ UNCHANGED <<fs, booted, seen, data, bad, opened, acked, faults>>
    BY <1>0, <1>12 DEF Lock, Enter, files, counters, TypeOK
  <2>4. Boots'
    BY <2>1, <2>3 DEF SaversInv, Boots, Writing
  <2>5. Excluded'
    BY <2>2, <2>3 DEF Excluded, Writing
  <2>6. Opens(t)' /\ SavesEx(t)' /\ SavesCrcs(t)'
    BY <2>2, <2>3 DEF Opens, SavesEx, SavesCrcs
  <2>7. SavesSys(t)'
    <3>1. OldCrcs' /\ ("open" \in Faults => fs'[Data("ex")] = acked')
      BY <1>f, <2>1, <2>3 DEF Kept, OldCrcs
    <3>2. pos'[t] + 0 <= faults' + 1 /\ todo'[t] # << >>
      BY <1>0, <2>3 DEF TypeOK
    <3>3. QED
      BY <2>3, <3>1, <3>2 DEF SavesSys, Writes
  <2>8. \A u \in Threads \ {t} : Opens(u)' /\ SavesSys(u)' /\ SavesEx(u)' /\ SavesCrcs(u)'
    BY <2>2, <2>3 DEF Opens, SavesSys, SavesEx, SavesCrcs, Writing
  <2>9. QED
    BY <1>0, <2>3, <2>4, <2>5, <2>6, <2>7, <2>8 DEF SaversInv
<1>13. ASSUME NEW t \in Threads, Verify1(t) PROVE SaversInv'
  <2>1. /\ phase[t] = "write1" /\ todo[t] = << >> /\ owner = t
        /\ OldCrcs /\ ("open" \in Faults => fs[Data("ex")] = acked)
        /\ Written(t, Data("sys")) /\ (fs[Data("sys")] = data[t] \/ pos[t] + 0 <= faults)
    BY <1>13 DEF Verify1, Ready, SaversInv, Excluded, Writing, SavesSys, Writes
  <2>2. opened[t] = "no" /\ faults \in 0..MaxFault /\ pos[t] \in Nat
    BY <1>0, <2>1 DEF SaversInv, Opens, TypeOK
  <2>3. /\ \A u \in Threads \ {t} : /\ phase'[u] = phase[u] /\ step'[u] = step[u]
                                    /\ todo'[u] = todo[u]
        /\ UNCHANGED <<fs, owner, booted, seen, data, bad, opened, acked, faults>>
    BY <1>0, <1>13 DEF Verify1, Enter, files, counters, TypeOK
  <2>4. /\ Opens(t)' /\ SavesCrcs(t)' /\ OldCrcs'
        /\ "open" \in Faults => fs'[Data("ex")] = acked'
    <3>1. phase'[t] \in {"write1", "write2"}
      BY <1>0, <1>13 DEF Verify1, Enter, TypeOK
    <3>2. QED
      BY <2>1, <2>2, <2>3, <3>1 DEF Opens, SavesCrcs, OldCrcs
  <2>5. CASE Saved(t, Data("sys"))
    <3>1. phase'[t] = "write2" /\ pos'[t] = 1 /\ todo'[t] = <<Wr(Data("ex"))>>
      BY <1>0, <1>13, <2>5 DEF Verify1, Enter, TypeOK
    <3>2. Written(t, Data("sys"))' /\ Spent(t)' = Spent(t)
      BY <2>1, <2>3 DEF Written, Spent
    <3>3. pos'[t] + Spent(t) <= faults' + 1 /\ todo'[t] # << >>
      <4>1. fs[Data("sys")] = data[t] \/ (pos[t] > MaxTries /\ pos[t] + 0 <= faults)
        BY <2>1, <2>5 DEF Saved
      <4>2. Spent(t) \in Nat /\ Spent(t) <= faults
        BY <2>2, <4>1, SettingsAssumption DEF Spent
      <4>3. QED
        BY <2>2, <2>3, <3>1, <4>2
    <3>4. SavesSys(t)' /\ SavesEx(t)'
      BY <2>3, <2>4, <3>1, <3>2, <3>3 DEF SavesSys, SavesEx, Writes
    <3>5. QED
      BY <1>0, <2>1, <2>3, <2>4, <3>1, <3>4, SaversHolder DEF Writing
  <2>6. CASE ~Saved(t, Data("sys"))
    <3>1. phase'[t] = "write1" /\ pos'[t] = pos[t] + 1 /\ todo'[t] = <<Wr(Data("sys"))>>
      BY <1>0, <1>13, <2>6 DEF Verify1, Enter, TypeOK
    <3>2. pos[t] + 0 <= faults
      BY <2>1, <2>6 DEF Saved
    <3>3. pos'[t] + 0 <= faults' + 1 /\ todo'[t] # << >>
      BY <2>2, <2>3, <3>1, <3>2
    <3>4. SavesSys(t)' /\ SavesEx(t)'
      BY <2>4, <3>1, <3>3 DEF SavesSys, SavesEx, Writes
    <3>5. QED
      BY <1>0, <2>1, <2>3, <2>4, <3>1, <3>4, SaversHolder DEF Writing
  <2>7. QED
    BY <2>5, <2>6
<1>14. ASSUME NEW t \in Threads, Verify2(t) PROVE SaversInv'
  <2>1. /\ phase[t] = "write2" /\ todo[t] = << >> /\ owner = t
        /\ OldCrcs /\ Written(t, Data("sys")) /\ Written(t, Data("ex"))
        /\ fs[Data("ex")] = data[t] \/ pos[t] + Spent(t) <= faults
    BY <1>14 DEF Verify2, Ready, SaversInv, Excluded, Writing, SavesEx, Writes
  <2>2. opened[t] = "no" /\ faults \in 0..MaxFault /\ pos[t] \in Nat
    BY <1>0, <2>1 DEF SaversInv, Opens, TypeOK
  <2>3. /\ \A u \in Threads \ {t} : /\ phase'[u] = phase[u] /\ step'[u] = step[u]
                                    /\ todo'[u] = todo[u]
        /\ UNCHANGED <<fs, owner, booted, seen, data, bad, opened, acked, faults>>
    BY <1>0, <1>14 DEF Verify2, Enter, files, counters, TypeOK
  <2>4. Opens(t)' /\ SavesSys(t)'
    <3>1. phase'[t] \in {"write2", "crc"}
      BY <1>0, <1>14 DEF Verify2, Enter, TypeOK
    <3>2. QED
      BY <2>2, <2>3, <3>1 DEF Opens, SavesSys
  <2>5. CASE Saved(t, Data("ex"))
    <3>1. phase'[t] = "crc" /\ todo'[t] = <<Wr(Crc("sys")), Wr(Crc("ex"))>>
      BY <1>0, <1>14, <2>5 DEF Verify2, Enter, TypeOK
    <3>2. fs[Data("sys")] = data[t] \/ fs[Data("ex")] = data[t]
      <4>1. SUFFICES ASSUME fs[Data("sys")] # data[t], fs[Data("ex")] # data[t] PROVE FALSE
        OBVIOUS
      <4>2. Spent(t) = MaxTries + 1 /\ pos[t] > MaxTries /\ "short" \in Faults
        BY <2>1, <2>5, <4>1 DEF Saved, Spent, Written
      <4>3. MaxTries \in Nat /\ MaxFault \in Nat /\ MaxFault < 2 * (MaxTries + 1)
        BY <1>f, <4>2, SettingsAssumption
      <4>4. QED
        BY <2>1, <2>2, <4>1, <4>2, <4>3
    <3>3. acked \in Values /\ Absent \notin Values
      BY <1>0, SettingsAssumption DEF TypeOK
    <3>4. SavesEx(t)' /\ SavesCrcs(t)'
      BY <2>1, <2>3, <3>1, <3>2, <3>3 DEF SavesEx, SavesCrcs, Written, OldCrcs
    <3>5. QED
      BY <1>0, <2>1, <2>3, <2>4, <3>1, <3>4, SaversHolder DEF Writing
  <2>6. CASE ~Saved(t, Data("ex"))
    <3>1. phase'[t] = "write2" /\ pos'[t] = pos[t] + 1 /\ todo'[t] = <<Wr(Data("ex"))>>
      BY <1>0, <1>14, <2>6 DEF Verify2, Enter, TypeOK
    <3>2. pos[t] + Spent(t) <= faults /\ "open" \notin Faults
      BY <1>f, <2>1, <2>6 DEF Saved, Written
    <3>3. Written(t, Data("sys"))' /\ Spent(t)' = Spent(t) /\ Spent(t) \in Nat
      BY <2>1, <2>3, SettingsAssumption DEF Written, Spent
    <3>4. pos'[t] + Spent(t) <= faults' + 1 /\ todo'[t] # << >>
      BY <2>2, <2>3, <3>1, <3>2, <3>3
    <3>5. SavesEx(t)' /\ SavesCrcs(t)'
      BY <2>1, <2>3, <3>1, <3>2, <3>3, <3>4 DEF SavesEx, SavesCrcs, Writes, OldCrcs
    <3>6. QED
      BY <1>0, <2>1, <2>3, <2>4, <3>1, <3>5, SaversHolder DEF Writing
  <2>7. QED
    BY <2>5, <2>6
<1>15. ASSUME NEW t \in Threads, SaveReturns(t) PROVE SaversInv'
  <2>1. phase[t] = "crc" /\ todo[t] = << >> /\ owner = t
    BY <1>15 DEF SaveReturns, Ready, SaversInv, Excluded, Writing
  <2>2. /\ fs[Data("ex")] = data[t] \/ ("short" \in Faults /\ fs[Data("sys")] = data[t])
        /\ fs[Crc("sys")] = data[t] /\ fs[Crc("ex")] = data[t]
    BY <2>1 DEF SaversInv, SavesCrcs, Written
  <2>3. opened[t] = "no"
    BY <2>1 DEF SaversInv, Opens
  <2>4. \A u \in Threads \ {t} : phase[u] \notin Writing /\ todo[u] = << >> /\ opened[u] = "no"
    BY <2>1 DEF SaversInv, Excluded
  <2>5. /\ phase'[t] = "idle" /\ owner' = NoThread /\ acked' = data[t]
        /\ \A u \in Threads \ {t} : /\ phase'[u] = phase[u] /\ step'[u] = step[u]
                                    /\ seen'[u] = seen[u] /\ data'[u] = data[u]
        /\ UNCHANGED <<fs, booted, bad, todo, opened>>
    BY <1>0, <1>15 DEF SaveReturns, Enter, Forget, TypeOK
  <2>6. Boots'
    BY <2>1, <2>5 DEF SaversInv, Boots, Writing
  <2>7. Excluded'
    BY <2>1, <2>3, <2>4, <2>5 DEF Excluded, Writing
  <2>8. Kept'
    BY <2>2, <2>5 DEF Kept, OldCrcs
  <2>9. \A u \in Threads : Opens(u)' /\ SavesSys(u)' /\ SavesEx(u)' /\ SavesCrcs(u)'
    BY <2>3, <2>4, <2>5 DEF Opens, SavesSys, SavesEx, SavesCrcs, Writing
  <2>10. QED
    BY <1>0, <2>6, <2>7, <2>8, <2>9 DEF SaversInv
<1>16. ASSUME NEW t \in Threads, Request(t) PROVE SaversInv'
  <2>1. SaveSetting(t)
    BY <1>16 DEF Request, OnlySavers
  <2>2. phase[t] = "idle" /\ booted
    BY <2>1 DEF SaveSetting, MayStart, Ready
  <2>3. /\ phase'[t] = "lock"
        /\ \A u \in Threads \ {t} : /\ phase'[u] = phase[u] /\ step'[u] = step[u]
                                    /\ pos'[u] = pos[u] /\ data'[u] = data[u]
        /\ UNCHANGED <<fs, owner, booted, seen, bad, todo, opened, acked, faults>>
    BY <1>0, <2>1 DEF SaveSetting, Enter, files, TypeOK
  <2>4. Boots'
    BY <2>2, <2>3 DEF SaversInv, Boots, Writing
  <2>5. QED
    BY <1>0, <2>2, <2>3, <2>4, SaversAside DEF Writing
<1>17. CASE Kill \/ PowerFailure
  BY <1>0, <1>17 DEF Kill, PowerFailure, Restart, OnlySavers, TypeOK
<1>18. CASE UNCHANGED vars
  BY <1>0, <1>18 DEF vars, local, SaversInv, Boots, Excluded, Kept, OldCrcs, Opens, Target,
     SavesSys, SavesEx, SavesCrcs, Writes, Written, Spent
<1>19. QED
  BY <1>1, <1>2, <1>3, <1>4, <1>5, <1>6, <1>7, <1>8, <1>9, <1>10, <1>11, <1>12, <1>13,
     <1>14, <1>15, <1>16, <1>17, <1>18 DEF Next, Work, FileStep

\* Of the copies that pass the check, the first in the order of preference.
LEMMA FirstGoodIsFirst ==
  ASSUME NEW failed \in SUBSET Copies
  PROVE  /\ "sys" \notin failed => FirstGood(failed) = "sys"
         /\ "sys" \in failed /\ "ex" \notin failed => FirstGood(failed) = "ex"
<1> DEFINE P(i) == /\ Order[i] \notin failed
                   /\ \A j \in 1..(i-1) : Order[j] \in failed
<1>1. Order[1] = "sys" /\ Order[2] = "ex"
  BY DEF Order
<1>2. ASSUME "sys" \notin failed PROVE FirstGood(failed) = "sys"
  <2>1. P(1)
    BY <1>1, <1>2
  <2>2. \A i \in 1..4 : P(i) => i = 1
    BY <1>1, <1>2
  <2>3. QED
    BY <1>1, <2>1, <2>2 DEF FirstGood
<1>3. ASSUME "sys" \in failed, "ex" \notin failed PROVE FirstGood(failed) = "ex"
  <2>1. P(2)
    BY <1>1, <1>3
  <2>2. \A i \in 1..4 : P(i) => i = 2
    BY <1>1, <1>3
  <2>3. QED
    BY <1>1, <2>1, <2>2 DEF FirstGood
<1>4. QED
  BY <1>2, <1>3

\* Of two copies with the checksum of v, one at least with its data, v is read.
LEMMA ReadsFirstTwo ==
  ASSUME NEW v \in Values, \A c \in Copies : ~Disturbed(c),
         fs[Crc("sys")] = v, fs[Crc("ex")] = v,
         fs[Data("sys")] = v \/ fs[Data("ex")] = v
  PROVE  Effective = v
<1> DEFINE failed == {c \in Copies : ~Accepted(c)}
<1>1. v \notin {Absent, Torn} /\ "sys" \in Copies /\ "ex" \in Copies
  BY SettingsAssumption, FilesDiffer
<1>2. \A c \in {"sys", "ex"} : Accepted(c) <=> fs[Data(c)] = v
  BY <1>1 DEF Accepted, Accepts
<1>3. \A c \in {"sys", "ex"} : c \notin failed <=> fs[Data(c)] = v
  BY <1>1, <1>2
<1>4. Effective = fs[Data(FirstGood(failed))]
  BY <1>1, <1>2 DEF Effective
<1>5. failed \in SUBSET Copies
  OBVIOUS
<1> HIDE DEF failed
<1>6. QED
  BY <1>3, <1>4, <1>5, FirstGoodIsFirst

\* Whatever threads save the setting at once, and whichever of their saves fail because
\* a data file cannot be created - or whichever writes fall short and are tried again or
\* given up, as long as no save can give up both of its data files - a load finds the
\* last value whose save returned NO_ERROR as soon as no save is running.
THEOREM AckedSurvives == ASSUME OnlySavers PROVE Spec => []AckedHolds
<1>1. Init => SaversInv
  BY SaversInit
<1>2. SaversInv /\ [Next]_vars => SaversInv'
  BY SaversStep
<1>3. SaversInv => AckedHolds
  <2>1. SUFFICES ASSUME SaversInv, owner = NoThread PROVE Effective = acked
    BY DEF AckedHolds
  <2>2. Kept /\ acked \in Values
    BY <2>1 DEF SaversInv, TypeInv, TypeOK
  <2>3. \A t \in Threads : todo[t] = << >> /\ opened[t] = "no"
    BY <2>1, SettingsAssumption DEF SaversInv, Excluded
  <2>4. \A c \in Copies : ~Disturbed(c)
    BY <2>3 DEF Disturbed
  <2>5. QED
    BY <2>2, <2>4, ReadsFirstTwo DEF Kept, OldCrcs
<1>4. QED
  BY <1>1, <1>2, <1>3, PTL DEF Spec

-----------------------------------------------------------------------------
(***************************************************************************)
(* What a load returns, when one thread has the setting for itself and     *)
(* nothing is killed.  A copy without .crc file passes every check, and an *)
(* empty .crc file lets an empty data file pass: a check must meet         *)
(* neither.  A .crc file is missing only from copies the lazy Sync has     *)
(* given up, or is yet to copy over; and it is empty only while it is      *)
(* being written.  So what passes is what its checksum was made of,        *)
(* whatever the data files hold.                                           *)
(***************************************************************************)
Alone == /\ Commissioned /\ FactoryCrc
         /\ MaxCrash = 0 /\ Threads = {BootThread}
         /\ "copycrc" \notin Faults

OpsIn(q) == {q[i] : i \in 1..Len(q)}

\* The copies that failed the check of the lazy Sync under way.
GivenUp(t) == IF phase[t] = "lazy" THEN {Order[j] : j \in 1..(pos[t] - 1)} ELSE {}

Restoring == {"reload", "idle"}

\* What t has still to do: of the .crc files, it removes those of copies given up,
\* and copies from those that are there and stay as they are.
SoundOps(t) ==
  \A op \in OpsIn(todo[t]) :
    \/ phase[t] # "lock" /\ \E c \in Copies : op = Rm(Data(c))
    \/ \E c \in GivenUp(t) : op = Rm(Crc(c))
    \/ phase[t] \in {"write1", "write2"} /\ \E c \in Copies : op = Wr(Data(c))
    \/ phase[t] = "crc" /\ \E c \in Copies : op = Wr(Crc(c))
    \/ phase[t] \in Restoring /\ \E c, d \in Copies : op = Cp(Data(c), Data(d))
    \/ phase[t] \in Restoring /\ \E c, d \in Copies :
         /\ op = Cp(Crc(c), Crc(d))
         /\ fs[Crc(c)] \notin {Absent, Empty}
         /\ \A p \in OpsIn(todo[t]) : p.dst # Crc(c)

Present(t) ==
  \A c \in Copies :
    /\ fs[Crc(c)] = Absent =>
         c \in GivenUp(t) \/ \E d \in Copies : Cp(Crc(d), Crc(c)) \in OpsIn(todo[t])
    /\ fs[Crc(c)] = Empty => opened[t] # "no" /\ Target(t) = Crc(c)

Handles(t) == opened[t] # "no" => /\ opened[t] = "yes" /\ todo[t] # << >>
                                  /\ Head(todo[t]).op # "rm" /\ fs[Target(t)] = Empty

SeesCrc(t) == phase[t] \in Checking /\ step[t] # "crc" => seen[t] \notin {Absent, Empty}

\* Until InitGset has returned nothing has changed the copies.
StartsWhole(t) ==
  /\ ~booted =>
       /\ \A c \in Copies : fs[Data(c)] = Factory /\ fs[Crc(c)] = Factory
       /\ phase[t] \in {"idle", "load", "check4", "fix"}
       /\ todo[t] = << >> /\ opened[t] = "no" /\ bad[t] = {}
       /\ phase[t] \in {"load", "check4"} /\ step[t] # "crc" => seen[t] = Factory
       /\ phase[t] \in {"load", "check4"} /\ step[t] = "judge" => data[t] = Factory
  /\ phase[t] \in {"check4", "fix"} => ~booted

WholeFor(t) == SoundOps(t) /\ Present(t) /\ Handles(t) /\ SeesCrc(t) /\ StartsWhole(t)

WholeInv == ExrsvInv /\ LoadsWhole /\ \A t \in Threads : WholeFor(t)

-----------------------------------------------------------------------------
(***************************************************************************)
(* The operations of a script.                                             *)
(***************************************************************************)
LEMMA OpsEmpty == OpsIn(<< >>) = {}
BY DEF OpsIn

LEMMA OpsHead ==
  ASSUME NEW S, NEW q \in Seq(S), q # << >>
  PROVE  OpsIn(q) = {Head(q)} \cup OpsIn(Tail(q))
<1>1. Len(q) \in Nat /\ Len(q) > 0 /\ Head(q) = q[1]
  OBVIOUS
<1>2. Len(Tail(q)) = Len(q) - 1 /\ \A i \in 1..(Len(q) - 1) : Tail(q)[i] = q[i + 1]
  OBVIOUS
<1>3. ASSUME NEW i \in 1..Len(q) PROVE q[i] \in {Head(q)} \cup OpsIn(Tail(q))
  <2>1. CASE i = 1
    BY <1>1, <2>1
  <2>2. CASE i # 1
    <3>1. i - 1 \in 1..Len(Tail(q)) /\ Tail(q)[i - 1] = q[i]
      BY <1>1, <1>2, <2>2
    <3>2. QED
      BY <3>1 DEF OpsIn
  <2>3. QED
    BY <2>1, <2>2
<1>4. ASSUME NEW i \in 1..Len(Tail(q)) PROVE Tail(q)[i] \in OpsIn(q)
  <2>1. i + 1 \in 1..Len(q) /\ Tail(q)[i] = q[i + 1]
    BY <1>1, <1>2
  <2>2. QED
    BY <2>1 DEF OpsIn
<1>5. Head(q) \in OpsIn(q)
  BY <1>1 DEF OpsIn
<1>6. QED
  BY <1>3, <1>4, <1>5 DEF OpsIn

LEMMA OpsConcat ==
  ASSUME NEW S, NEW q \in Seq(S), NEW r \in Seq(S)
  PROVE  OpsIn(q \o r) = OpsIn(q) \cup OpsIn(r)
<1>1. /\ Len(q) \in Nat /\ Len(r) \in Nat /\ Len(q \o r) = Len(q) + Len(r)
      /\ \A i \in 1..(Len(q) + Len(r)) :
           (q \o r)[i] = IF i <= Len(q) THEN q[i] ELSE r[i - Len(q)]
  OBVIOUS
<1>2. ASSUME NEW i \in 1..Len(q \o r) PROVE (q \o r)[i] \in OpsIn(q) \cup OpsIn(r)
  <2>1. CASE i <= Len(q)
    BY <1>1, <2>1 DEF OpsIn
  <2>2. CASE i > Len(q)
    <3>1. i - Len(q) \in 1..Len(r) /\ (q \o r)[i] = r[i - Len(q)]
      BY <1>1, <2>2
    <3>2. QED
      BY <3>1 DEF OpsIn
  <2>3. QED
    BY <1>1, <2>1, <2>2
<1>3. ASSUME NEW i \in 1..Len(q) PROVE q[i] \in OpsIn(q \o r)
  <2>1. i \in 1..Len(q \o r) /\ (q \o r)[i] = q[i]
    BY <1>1
  <2>2. QED
    BY <2>1 DEF OpsIn
<1>4. ASSUME NEW i \in 1..Len(r) PROVE r[i] \in OpsIn(q \o r)
  <2>1. i + Len(q) \in 1..Len(q \o r) /\ (q \o r)[i + Len(q)] = r[i]
    BY <1>1
  <2>2. QED
    BY <2>1 DEF OpsIn
<1>5. QED
  BY <1>2, <1>3, <1>4 DEF OpsIn

LEMMA OpsPair ==
  /\ \A c, d : OpsIn(CopyPair(c, d)) = {Cp(Data(c), Data(d)), Cp(Crc(c), Crc(d))}
  /\ \A c : OpsIn(Drop(c)) = {Rm(Data(c)), Rm(Crc(c))}
  /\ \A op : OpsIn(<<op>>) = {op}
  /\ \A op, p : OpsIn(<<op, p>>) = {op, p}
<1>1. \A op, p : OpsIn(<<op, p>>) = {op, p}
  BY DEF OpsIn
<1>2. \A op : OpsIn(<<op>>) = {op}
  BY DEF OpsIn
<1>3. QED
  BY <1>1, <1>2 DEF CopyPair, Drop

\* The lazy Sync copies only the copy that passed and exrsv, over none of these, and
\* it copies over every copy that comes before the one that passed.
LEMMA RestoreOps ==
  ASSUME NEW i \in 1..4
  PROVE  /\ \A op \in OpsIn(Restore(Order[i])) :
              \E s \in {Order[i], "exrsv"}, d \in Copies \ {Order[i], "exrsv"} :
                op = Cp(Data(s), Data(d)) \/ op = Cp(Crc(s), Crc(d))
         /\ \A j \in 1..(i - 1) : \E s \in Copies :
              Cp(Crc(s), Crc(Order[j])) \in OpsIn(Restore(Order[i]))
<1>1. Order[1] = "sys" /\ Order[2] = "ex" /\ Order[3] = "rsv" /\ Order[4] = "exrsv"
  BY DEF Order
<1>2. \A c, d \in Copies : CopyPair(c, d) \in Seq(FileOps)
  BY ScriptsType
<1>3. CASE i = 1
  <2>1. OpsIn(Restore("sys")) = OpsIn(CopyPair("sys", "rsv"))
    BY DEF Restore
  <2>2. QED
    BY <1>1, <1>3, <2>1, OpsPair DEF Copies
<1>4. CASE i = 2
  <2>1. OpsIn(Restore("ex")) = OpsIn(CopyPair("ex", "sys"))
    BY DEF Restore
  <2>2. \A j \in 1..(i - 1) : j = 1
    BY <1>4
  <2>3. QED
    BY <1>1, <1>4, <2>1, <2>2, OpsPair DEF Copies
<1>5. CASE i = 3
  <2>1. OpsIn(Restore("rsv")) = OpsIn(CopyPair("rsv", "sys")) \cup OpsIn(CopyPair("exrsv", "ex"))
    BY <1>2, OpsConcat DEF Restore, Copies
  <2>2. \A j \in 1..(i - 1) : j \in {1, 2}
    BY <1>5
  <2>3. QED
    BY <1>1, <1>5, <2>1, <2>2, OpsPair DEF Copies
<1>6. CASE i = 4
  <2>1. OpsIn(Restore("exrsv")) = OpsIn(CopyPair("exrsv", "sys")) \cup OpsIn(CopyPair("exrsv", "ex"))
                                    \cup OpsIn(CopyPair("exrsv", "rsv"))
    <3> DEFINE a == CopyPair("exrsv", "sys")
               b == CopyPair("exrsv", "ex")
               c == CopyPair("exrsv", "rsv")
    <3>1. a \in Seq(FileOps) /\ b \in Seq(FileOps) /\ c \in Seq(FileOps)
      BY <1>2 DEF Copies
    <3>2. Restore("exrsv") = (a \o b) \o c
      BY DEF Restore
    <3> HIDE DEF a, b, c
    <3>3. a \o b \in Seq(FileOps)
      BY <3>1
    <3>4. OpsIn(a \o b) = OpsIn(a) \cup OpsIn(b)
      BY <3>1, OpsConcat
    <3>5. OpsIn((a \o b) \o c) = OpsIn(a \o b) \cup OpsIn(c)
      BY <3>1, <3>3, OpsConcat
    <3>6. QED
      BY <3>2, <3>4, <3>5 DEF a, b, c
  <2>2. \A j \in 1..(i - 1) : j \in {1, 2, 3}
    BY <1>6
  <2>3. QED
    BY <1>1, <1>6, <2>1, <2>2, OpsPair DEF Copies
<1>7. QED
  BY <1>3, <1>4, <1>5, <1>6

-----------------------------------------------------------------------------
\* What passes the check with a checksum that is there is a complete content.
LEMMA PassedWhole ==
  ASSUME TypeOK, NEW t \in Threads, Passed(t), seen[t] \notin {Absent, Empty}
  PROVE  data[t] \in Values
BY DEF TypeOK, Passed, Accepts, Content

\* The kinds of operations tell one another apart.
LEMMA OpsDiffer ==
  /\ \A f : Rm(f).op = "rm" /\ Wr(f).op = "wr" /\ Rm(f).dst = f /\ Wr(f).dst = f
  /\ \A f, g : Cp(f, g).op = "cp" /\ Cp(f, g).src = f /\ Cp(f, g).dst = g
BY DEF Rm, Wr, Cp

LEMMA CrcsDiffer ==
  /\ \A c, d : Crc(c) # Data(d)
  /\ \A c, d : Crc(c) = Crc(d) => c = d
BY DEF Crc, Data

LEMMA WholeHead ==
  ASSUME WholeInv, NEW t \in Threads, todo[t] # << >>
  PROVE  /\ booted
         /\ Head(todo[t]) \in OpsIn(todo[t])
         /\ OpsIn(todo[t]) = {Head(todo[t])} \cup OpsIn(Tail(todo[t]))
         /\ Head(todo[t]).dst = Target(t) /\ Target(t) \in Files
<1>1. todo[t] \in Seq(FileOps)
  BY DEF WholeInv, ExrsvInv, TypeInv, TypeOK
<1>2. booted
  BY DEF WholeInv, WholeFor, StartsWhole
<1>3. Target(t) \in Files
  BY TargetType DEF WholeInv, ExrsvInv
<1>4. QED
  BY <1>1, <1>2, <1>3, OpsHead DEF Target

\* A file operation: what is to be shown of it.
LEMMA WholeFileStep ==
  ASSUME WholeInv, Alone, ExrsvInv', NEW t \in Threads, todo[t] # << >>, UNCHANGED control,
         \A f \in Files \ {Target(t)} : fs'[f] = fs[f],
         OpsIn(todo'[t]) \subseteq OpsIn(todo[t]),
         Present(t)', Handles(t)'
  PROVE  WholeInv'
<1>1. booted /\ Head(todo[t]) \in OpsIn(todo[t]) /\ Head(todo[t]).dst = Target(t)
  BY WholeHead
<1>2. UNCHANGED <<booted, phase, step, pos, seen, data, out>>
  BY DEF control
<1>3. SoundOps(t)'
  <2>1. SUFFICES ASSUME NEW op \in OpsIn(todo[t]), NEW c \in Copies,
                        \A p \in OpsIn(todo[t]) : p.dst # Crc(c)
                 PROVE  fs'[Crc(c)] = fs[Crc(c)]
    BY <1>2 DEF WholeInv, WholeFor, SoundOps, GivenUp
  <2>2. QED
    BY <1>1, <2>1, NamesType
<1>4. SeesCrc(t)' /\ StartsWhole(t)' /\ LoadsWhole'
  BY <1>1, <1>2 DEF WholeInv, WholeFor, SeesCrc, StartsWhole, LoadsWhole
<1>5. \A u \in Threads : u = t
  BY DEF Alone
<1>6. QED
  BY <1>3, <1>4, <1>5 DEF WholeInv, WholeFor

\* A copy or a write opens its target.
LEMMA WholeOpens ==
  ASSUME WholeInv, Alone, ExrsvInv', NEW t \in Threads, todo[t] # << >>, UNCHANGED control,
         Head(todo[t]).op # "rm", opened[t] = "no",
         fs' = [fs EXCEPT ![Target(t)] = Empty], opened' = [opened EXCEPT ![t] = "yes"],
         UNCHANGED todo
  PROVE  WholeInv'
<1>1. Target(t) \in Files /\ fs \in [Files -> Content] /\ opened'[t] = "yes"
  BY WholeHead DEF WholeInv, ExrsvInv, TypeInv, TypeOK
<1>2. Handles(t)'
  BY <1>1 DEF Handles, Target
<1>3. Present(t)'
  <2>1. ASSUME NEW c \in Copies, fs'[Crc(c)] = Absent PROVE fs[Crc(c)] = Absent
    BY <1>1, <2>1, NamesType DEF Absent, Empty
  <2>2. ASSUME NEW c \in Copies, fs'[Crc(c)] = Empty PROVE Target(t) = Crc(c)
    BY <1>1, <2>2, NamesType DEF WholeInv, WholeFor, Present
  <2>3. UNCHANGED <<phase, pos>>
    BY DEF control
  <2>4. QED
    BY <1>1, <2>1, <2>2, <2>3 DEF WholeInv, WholeFor, Present, GivenUp, Target
<1>4. \A f \in Files \ {Target(t)} : fs'[f] = fs[f]
  BY <1>1
<1>5. QED
  BY <1>2, <1>3, <1>4, WholeFileStep

\* A copy or a write fills it; a checksum gets a value.
LEMMA WholeFills ==
  ASSUME WholeInv, Alone, ExrsvInv', NEW t \in Threads, todo[t] # << >>, UNCHANGED control,
         NEW v, fs' = [fs EXCEPT ![Target(t)] = v],
         \A c \in Copies : Target(t) = Crc(c) => v \notin {Absent, Empty},
         opened' = [opened EXCEPT ![t] = "no"], todo' = [todo EXCEPT ![t] = Tail(@)]
  PROVE  WholeInv'
<1>1. /\ Target(t) \in Files /\ fs \in [Files -> Content]
      /\ opened'[t] = "no" /\ todo'[t] = Tail(todo[t])
  BY WholeHead DEF WholeInv, ExrsvInv, TypeInv, TypeOK
<1>2. /\ OpsIn(todo[t]) = {Head(todo[t])} \cup OpsIn(todo'[t])
      /\ Head(todo[t]).dst = Target(t)
  BY <1>1, WholeHead
<1>3. Handles(t)'
  BY <1>1 DEF Handles
<1>4. Present(t)'
  <2>1. ASSUME NEW c \in Copies, fs'[Crc(c)] \in {Absent, Empty}
        PROVE  Target(t) # Crc(c) /\ fs[Crc(c)] = fs'[Crc(c)]
    BY <1>1, <2>1, NamesType
  <2>2. ASSUME NEW c \in Copies, fs'[Crc(c)] = Absent
        PROVE  c \in GivenUp(t) \/ \E d \in Copies : Cp(Crc(d), Crc(c)) \in OpsIn(todo'[t])
    BY <1>2, <2>1, <2>2, OpsDiffer DEF WholeInv, WholeFor, Present
  <2>3. ASSUME NEW c \in Copies, fs'[Crc(c)] = Empty PROVE FALSE
    BY <2>1, <2>3 DEF WholeInv, WholeFor, Present
  <2>4. GivenUp(t)' = GivenUp(t)
    BY DEF GivenUp, control
  <2>5. QED
    BY <2>2, <2>3, <2>4 DEF Present
<1>5. \A f \in Files \ {Target(t)} : fs'[f] = fs[f]
  BY <1>1
<1>6. QED
  BY <1>2, <1>3, <1>4, <1>5, WholeFileStep

\* An operation that does nothing, and is not a copy of a checksum.
LEMMA WholeSkips ==
  ASSUME WholeInv, Alone, ExrsvInv', NEW t \in Threads, todo[t] # << >>, UNCHANGED control,
         opened[t] = "no", UNCHANGED <<fs, opened>>, todo' = [todo EXCEPT ![t] = Tail(@)],
         \A c, d \in Copies : Head(todo[t]) # Cp(Crc(d), Crc(c))
  PROVE  WholeInv'
<1>1. todo'[t] = Tail(todo[t]) /\ opened'[t] = "no"
  BY DEF WholeInv, ExrsvInv, TypeInv, TypeOK
<1>2. OpsIn(todo[t]) = {Head(todo[t])} \cup OpsIn(todo'[t])
  BY <1>1, WholeHead
<1>3. Handles(t)'
  BY <1>1 DEF Handles
<1>4. Present(t)'
  <2>1. GivenUp(t)' = GivenUp(t)
    BY DEF GivenUp, control
  <2>2. QED
    BY <1>2, <2>1 DEF WholeInv, WholeFor, Present
<1>5. QED
  BY <1>2, <1>3, <1>4, WholeFileStep

\* A step of the control: the files stay, and t, which had nothing to do, gets a script.
LEMMA WholeMove ==
  ASSUME WholeInv, Alone, ExrsvInv', NEW t \in Threads, todo[t] = << >>,
         UNCHANGED <<fs, opened>>,
         \A c \in GivenUp(t) :
           c \in GivenUp(t)' \/ \E d \in Copies : Cp(Crc(d), Crc(c)) \in OpsIn(todo'[t]),
         SoundOps(t)', SeesCrc(t)', StartsWhole(t)', LoadsWhole'
  PROVE  WholeInv'
<1>1. opened[t] = "no"
  BY DEF WholeInv, WholeFor, Handles
<1>2. Present(t)'
  <2>1. ASSUME NEW c \in Copies PROVE fs[Crc(c)] # Empty /\ (fs[Crc(c)] = Absent => c \in GivenUp(t))
    BY <1>1, OpsEmpty DEF WholeInv, WholeFor, Present
  <2>2. QED
    BY <2>1 DEF Present
<1>3. Handles(t)'
  BY <1>1 DEF Handles
<1>4. \A u \in Threads : u = t
  BY DEF Alone
<1>5. QED
  BY <1>2, <1>3, <1>4 DEF WholeInv, WholeFor

\* The ways to come upon a .crc file.
LEMMA WholeHeadIs ==
  ASSUME WholeInv, NEW t \in Threads, todo[t] # << >>, NEW c \in Copies, Target(t) = Crc(c)
  PROVE  \/ Head(todo[t]).op = "rm" /\ c \in GivenUp(t)
         \/ Head(todo[t]).op = "wr" /\ phase[t] = "crc"
         \/ /\ Head(todo[t]).op = "cp"
            /\ \E s \in Copies : /\ Head(todo[t]) = Cp(Crc(s), Crc(c))
                               /\ fs[Crc(s)] \notin {Absent, Empty}
<1> DEFINE op == Head(todo[t])
<1>1. op \in OpsIn(todo[t]) /\ op.dst = Crc(c)
  BY WholeHead
<1> HIDE DEF op
<1>2. /\ \A d \in Copies : op # Rm(Data(d)) /\ op # Wr(Data(d))
      /\ \A s, d \in Copies : op # Cp(Data(s), Data(d))
  BY <1>1, OpsDiffer, CrcsDiffer
<1>3. \/ \E d \in GivenUp(t) : op = Rm(Crc(d))
      \/ phase[t] = "crc" /\ \E d \in Copies : op = Wr(Crc(d))
      \/ \E s, d \in Copies : op = Cp(Crc(s), Crc(d)) /\ fs[Crc(s)] \notin {Absent, Empty}
  BY <1>1, <1>2 DEF WholeInv, WholeFor, SoundOps
<1>4. CASE \E d \in GivenUp(t) : op = Rm(Crc(d))
  BY <1>1, <1>4, OpsDiffer, CrcsDiffer DEF op
<1>5. CASE phase[t] = "crc" /\ \E d \in Copies : op = Wr(Crc(d))
  BY <1>5, OpsDiffer DEF op
<1>6. CASE \E s, d \in Copies : op = Cp(Crc(s), Crc(d)) /\ fs[Crc(s)] \notin {Absent, Empty}
  <2>1. PICK s \in Copies, d \in Copies : op = Cp(Crc(s), Crc(d)) /\ fs[Crc(s)] \notin {Absent, Empty}
    BY <1>6
  <2>2. op.op = "cp" /\ d = c
    BY <1>1, <2>1, OpsDiffer, CrcsDiffer
  <2>3. QED
    BY <2>1, <2>2 DEF op
<1>7. QED
  BY <1>3, <1>4, <1>5, <1>6

\* A checksum that is to be copied is there.
LEMMA SourceThere ==
  ASSUME WholeInv, NEW t \in Threads, todo[t] # << >>, NEW c \in Copies, NEW d \in Copies,
         Head(todo[t]) = Cp(Crc(d), Crc(c))
  PROVE  Read(Head(todo[t]).src) \notin {Absent, Empty}
<1>1. Target(t) = Crc(c) /\ Head(todo[t]).op = "cp"
  BY OpsDiffer DEF Target
<1>2. fs[Crc(d)] \notin {Absent, Empty}
  <2>1. PICK s \in Copies : Head(todo[t]) = Cp(Crc(s), Crc(c)) /\ fs[Crc(s)] \notin {Absent, Empty}
    BY <1>1, WholeHeadIs
  <2>2. Crc(s) = Crc(d)
    BY <2>1, OpsDiffer
  <2>3. QED
    BY <2>1, <2>2
<1>3. Read(Crc(d)) = fs[Crc(d)]
  BY DEF Read, Crc, Default, Copies
<1>4. QED
  BY <1>2, <1>3, OpsDiffer

\* When a script is done, only copies given up lack a checksum.
LEMMA RestThere ==
  ASSUME WholeInv, NEW t \in Threads, todo[t] = << >>
  PROVE  \A c \in Copies : c \notin GivenUp(t) => fs[Crc(c)] \notin {Absent, Empty}
<1>1. opened[t] = "no"
  BY DEF WholeInv, WholeFor, Handles
<1>2. QED
  BY <1>1, OpsEmpty DEF WholeInv, WholeFor, Present

\* The four copies are different, and exrsv is the last to be given up.
LEMMA OrderDiffers ==
  \A i \in 1..4 : /\ Order[i] \notin {Order[j] : j \in 1..(i - 1)}
                  /\ "exrsv" \notin {Order[j] : j \in 1..(i - 1)}
<1>1. Order[1] = "sys" /\ Order[2] = "ex" /\ Order[3] = "rsv" /\ Order[4] = "exrsv"
  BY DEF Order
<1>2. \A i, j \in 1..4 : i # j => Order[i] # Order[j]
  BY <1>1
<1>3. \A i \in 1..4 : \A j \in 1..(i - 1) : j \in 1..4 /\ j # i /\ j # 4
  OBVIOUS
<1>4. QED
  BY <1>1, <1>2, <1>3

\* So a check never meets a missing or an empty checksum.
LEMMA CheckedThere ==
  ASSUME WholeInv, NEW t \in Threads, phase[t] \in Checking, todo[t] = << >>
  PROVE  fs[Crc(Checked(t))] \notin {Absent, Empty}
<1>1. Checked(t) \in Copies
  BY CheckedType DEF WholeInv, ExrsvInv
<1>2. Checked(t) \notin GivenUp(t)
  <2>1. CASE phase[t] = "lazy"
    <3>1. pos[t] \in 1..4
      BY <2>1 DEF WholeInv, ExrsvInv, TypeInv, InOrder
    <3>2. QED
      BY <2>1, <3>1, OrderDiffers DEF Checked, GivenUp
  <2>2. CASE phase[t] # "lazy"
    BY <2>2 DEF GivenUp
  <2>3. QED
    BY <2>1, <2>2
<1>3. QED
  BY <1>1, <1>2, RestThere

\* A thread that waits for the mutex has no script.
LEMMA LockIdle ==
  ASSUME WholeInv, NEW t \in Threads, phase[t] = "lock"
  PROVE  todo[t] = << >>
<1>1. OpsIn(todo[t]) = {}
  BY DEF WholeInv, WholeFor, SoundOps, Restoring, GivenUp
<1>2. QED
  BY <1>1, WholeHead

LEMMA WholeInit == Alone /\ Init => WholeInv
<1> SUFFICES ASSUME Alone, Init PROVE WholeInv
  OBVIOUS
<1>1. ExrsvInv
  BY ExrsvInit DEF Alone
<1>2. \A c \in Copies : fs[Data(c)] = Factory /\ fs[Crc(c)] = Factory
  BY NamesType DEF Init, Alone, Shipped
<1>3. \A t \in Threads : StartsWhole(t)
  BY <1>2 DEF Init, StartsWhole
<1>4. ASSUME NEW t \in Threads PROVE Handles(t) /\ SeesCrc(t) /\ SoundOps(t) /\ Present(t)
  BY <1>2, OpsEmpty, FactoryWhole DEF Init, Handles, SeesCrc, Checking, SoundOps, Present
<1>5. LoadsWhole
  BY DEF Init, LoadsWhole
<1>6. QED
  BY <1>1, <1>3, <1>4, <1>5 DEF WholeInv, WholeFor

LEMMA WholeStep == Alone /\ WholeInv /\ [Next]_vars => WholeInv'
<1> SUFFICES ASSUME Alone, WholeInv, [Next]_vars PROVE WholeInv'
  OBVIOUS
<1>0. /\ ExrsvInv /\ ExrsvInv' /\ TypeInv /\ TypeOK /\ TypeOK' /\ TypeInv' /\ NeverReset /\ LoadsWhole
  BY ExrsvStep DEF WholeInv, ExrsvInv, TypeInv
<1>t. \A t, u \in Threads : t = u
  BY DEF Alone
<1>w. \A t \in Threads : WholeFor(t)
  BY DEF WholeInv
<1>1. ASSUME NEW t \in Threads, Remove(t) PROVE WholeInv'
  <2>1. todo[t] # << >> /\ Head(todo[t]).op = "rm" /\ opened[t] = "no"
    BY <1>1, <1>w DEF Remove, Doing, WholeFor, Handles
  <2>2. /\ Target(t) \in Files /\ Head(todo[t]).dst = Target(t)
        /\ Head(todo[t]) \in OpsIn(todo[t])
        /\ OpsIn(todo[t]) = {Head(todo[t])} \cup OpsIn(Tail(todo[t]))
    BY <2>1, WholeHead
  <2>3. /\ fs'[Target(t)] = Absent /\ \A f \in Files \ {Target(t)} : fs'[f] = fs[f]
        /\ todo'[t] = Tail(todo[t]) /\ opened'[t] = "no" /\ UNCHANGED control
    BY <1>0, <1>1, <2>1, <2>2 DEF Remove, TypeOK
  <2>4. \A c \in Copies : Target(t) = Crc(c) => c \in GivenUp(t)
    BY <2>1, WholeHeadIs
  <2>5. Handles(t)'
    BY <2>3 DEF Handles
  <2>6. Present(t)'
    <3>1. GivenUp(t)' = GivenUp(t)
      BY <2>3 DEF GivenUp, control
    <3>2. ASSUME NEW c \in Copies, Target(t) # Crc(c)
          PROVE  /\ fs'[Crc(c)] # Empty
                 /\ fs'[Crc(c)] = Absent =>
                      c \in GivenUp(t) \/ \E d \in Copies : Cp(Crc(d), Crc(c)) \in OpsIn(todo'[t])
      <4>1. fs'[Crc(c)] = fs[Crc(c)]
        BY <2>3, <3>2, NamesType
      <4>2. \A d \in Copies : Head(todo[t]) # Cp(Crc(d), Crc(c))
        BY <2>1, OpsDiffer
      <4>3. QED
        BY <1>w, <2>1, <2>2, <2>3, <4>1, <4>2 DEF WholeFor, Present
    <3>3. ASSUME NEW c \in Copies, Target(t) = Crc(c)
          PROVE  fs'[Crc(c)] # Empty /\ c \in GivenUp(t)
      BY <2>3, <2>4, <3>3 DEF Absent, Empty
    <3>4. QED
      BY <3>1, <3>2, <3>3 DEF Present
  <2>7. QED
    BY <1>0, <2>1, <2>2, <2>3, <2>5, <2>6, WholeFileStep
<1>2. ASSUME NEW t \in Threads, CopyOpen(t) PROVE WholeInv'
  <2>1. todo[t] # << >> /\ Head(todo[t]).op = "cp" /\ opened[t] = "no" /\ UNCHANGED control
    BY <1>2 DEF CopyOpen, Doing
  <2>2. CASE Read(Head(todo[t]).src) = Absent
    <3>1. todo' = [todo EXCEPT ![t] = Tail(@)] /\ UNCHANGED <<fs, opened>>
      BY <1>2, <2>2 DEF CopyOpen
    <3>2. ASSUME NEW c \in Copies, NEW d \in Copies, Head(todo[t]) = Cp(Crc(d), Crc(c))
          PROVE  FALSE
      BY <2>1, <2>2, <3>2, SourceThere
    <3>3. QED
      BY <1>0, <2>1, <3>1, <3>2, WholeSkips
  <2>3. CASE Read(Head(todo[t]).src) # Absent
    <3>1. /\ fs' = [fs EXCEPT ![Target(t)] = Empty] /\ opened' = [opened EXCEPT ![t] = "yes"]
          /\ UNCHANGED todo
      BY <1>2, <2>3 DEF CopyOpen
    <3>2. QED
      BY <1>0, <2>1, <3>1, WholeOpens
  <2>4. QED
    BY <2>2, <2>3
<1>3. ASSUME NEW t \in Threads, CopyFill(t) PROVE WholeInv'
  <2>1. todo[t] # << >> /\ Head(todo[t]).op = "cp" /\ UNCHANGED control
    BY <1>3 DEF CopyFill, Doing
  <2>2. opened[t] = "yes" /\ fs[Target(t)] = Empty
    BY <1>3, <1>w DEF CopyFill, WholeFor, Handles
  <2> DEFINE src == Read(Head(todo[t]).src)
             v == IF src = Absent THEN Empty ELSE src
  <2>3. fs' = [fs EXCEPT ![Target(t)] = v]
    BY <1>3, <2>2 DEF CopyFill, Filled
  <2>4. ASSUME NEW c \in Copies, Target(t) = Crc(c) PROVE v \notin {Absent, Empty}
    <3>1. \E d \in Copies : Head(todo[t]) = Cp(Crc(d), Crc(c))
      BY <2>1, <2>4, WholeHeadIs
    <3>2. QED
      BY <2>1, <3>1, SourceThere
  <2>5. opened' = [opened EXCEPT ![t] = "no"] /\ todo' = [todo EXCEPT ![t] = Tail(@)]
    BY <1>3 DEF CopyFill
  <2> HIDE DEF v
  <2>6. QED
    BY <1>0, <2>1, <2>3, <2>4, <2>5, WholeFills
<1>c. ASSUME NEW t \in Threads, CopyFails(t) PROVE WholeInv'
  <2>1. todo[t] # << >> /\ Target(t)[2] = "set" /\ UNCHANGED control
    BY <1>c DEF CopyFails, Doing, Fault, Alone
  <2>2. \A c \in Copies : Target(t) # Crc(c)
    BY <2>1 DEF Crc
  <2>3. PICK v : fs' = [fs EXCEPT ![Target(t)] = v]
    <3>1. CASE UNCHANGED fs
      BY <1>0, <3>1 DEF TypeOK
    <3>2. CASE \E c \in Filled(t, Torn) : fs' = [fs EXCEPT ![Target(t)] = c]
      BY <3>2
    <3>3. QED
      BY <1>c, <3>1, <3>2 DEF CopyFails
  <2>4. opened' = [opened EXCEPT ![t] = "no"] /\ todo' = [todo EXCEPT ![t] = Tail(@)]
    BY <1>c DEF CopyFails
  <2>5. QED
    BY <1>0, <2>1, <2>2, <2>3, <2>4, WholeFills
<1>4. ASSUME NEW t \in Threads, WriteOpen(t) PROVE WholeInv'
  <2>1. todo[t] # << >> /\ Head(todo[t]).op = "wr" /\ opened[t] = "no" /\ UNCHANGED control
    BY <1>4 DEF WriteOpen, Doing
  <2>2. /\ fs' = [fs EXCEPT ![Target(t)] = Empty] /\ opened' = [opened EXCEPT ![t] = "yes"]
        /\ UNCHANGED todo
    BY <1>4 DEF WriteOpen
  <2>3. QED
    BY <1>0, <2>1, <2>2, WholeOpens
<1>5. ASSUME NEW t \in Threads, WriteFill(t) PROVE WholeInv'
  <2>1. todo[t] # << >> /\ Head(todo[t]).op = "wr" /\ UNCHANGED control
    BY <1>5 DEF WriteFill, Doing
  <2>2. opened[t] = "yes" /\ fs[Target(t)] = Empty
    BY <1>5, <1>w DEF WriteFill, WholeFor, Handles
  <2>3. PICK v : /\ fs' = [fs EXCEPT ![Target(t)] = v]
                 /\ phase[t] = "crc" => v = data[t]
    BY <1>5, <2>2 DEF WriteFill, Filled
  <2>4. ASSUME NEW c \in Copies, Target(t) = Crc(c) PROVE v \notin {Absent, Empty}
    <3>1. phase[t] = "crc"
      BY <2>1, <2>4, WholeHeadIs
    <3>2. data[t] \in Values
      BY <1>0, <3>1 DEF TypeInv, SavesValue
    <3>3. QED
      BY <2>3, <3>1, <3>2, SettingsAssumption
  <2>5. opened' = [opened EXCEPT ![t] = "no"] /\ todo' = [todo EXCEPT ![t] = Tail(@)]
    BY <1>5 DEF WriteFill
  <2>6. QED
    BY <1>0, <2>1, <2>3, <2>4, <2>5, WholeFills
<1>6. ASSUME NEW t \in Threads, DataOpenFails(t) PROVE WholeInv'
  <2>1. todo[t] # << >> /\ opened[t] = "no" /\ phase[t] \in {"write1", "write2"}
    BY <1>6 DEF DataOpenFails, Doing
  <2>2. /\ phase'[t] = "idle" /\ todo'[t] = << >> /\ booted' /\ UNCHANGED <<fs, opened, out>>
    BY <1>0, <1>6, <2>1, WholeHead DEF DataOpenFails, Enter, TypeOK
  <2>3. ASSUME NEW c \in Copies PROVE fs[Crc(c)] \notin {Absent, Empty}
    <3>1. fs[Crc(c)] # Empty
      BY <1>w, <2>1 DEF WholeFor, Present
    <3>2. GivenUp(t) = {}
      BY <2>1 DEF GivenUp
    <3>3. \A d \in Copies : Cp(Crc(d), Crc(c)) \notin OpsIn(todo[t])
      BY <1>w, <2>1, OpsDiffer DEF WholeFor, SoundOps, Restoring
    <3>4. QED
      BY <1>w, <3>1, <3>2, <3>3 DEF WholeFor, Present
  <2>4. SoundOps(t)' /\ Present(t)' /\ Handles(t)' /\ SeesCrc(t)' /\ StartsWhole(t)'
    BY <2>1, <2>2, <2>3, OpsEmpty DEF SoundOps, Present, Handles, SeesCrc, Checking, StartsWhole
  <2>5. QED
    BY <1>0, <1>t, <2>2, <2>4 DEF WholeInv, WholeFor, LoadsWhole
<1>7. ASSUME NEW t \in Threads, CrcOpenFails(t) PROVE WholeInv'
  <2>1. /\ todo[t] # << >> /\ Head(todo[t]).op = "wr" /\ opened[t] = "no"
        /\ UNCHANGED control /\ UNCHANGED <<fs, opened>>
        /\ todo' = [todo EXCEPT ![t] = Tail(@)]
    BY <1>7 DEF CrcOpenFails, Doing
  <2>2. \A c, d \in Copies : Head(todo[t]) # Cp(Crc(d), Crc(c))
    BY <2>1, OpsDiffer
  <2>3. QED
    BY <1>0, <2>1, <2>2, WholeSkips
<1>8. ASSUME NEW t \in Threads, CheckCrc(t) PROVE WholeInv'
  <2>1. todo[t] = << >> /\ phase[t] \in Checking /\ step[t] = "crc"
    BY <1>8 DEF CheckCrc
  <2>2. Checked(t) \in Copies /\ fs[Crc(Checked(t))] \notin {Absent, Empty}
    BY <1>0, <2>1, CheckedType, CheckedThere
  <2>3. /\ seen'[t] = fs[Crc(Checked(t))] /\ step'[t] = "data"
        /\ UNCHANGED <<fs, opened, booted, phase, pos, data, bad, todo, out>>
    BY <1>0, <1>8, <2>2 DEF CheckCrc, files, TypeOK
  <2>4. SeesCrc(t)' /\ SoundOps(t)' /\ GivenUp(t)' = GivenUp(t) /\ LoadsWhole'
    BY <1>0, <2>1, <2>2, <2>3, OpsEmpty DEF SeesCrc, SoundOps, GivenUp, LoadsWhole
  <2>5. StartsWhole(t)'
    BY <1>w, <2>1, <2>2, <2>3 DEF WholeFor, StartsWhole
  <2>6. QED
    BY <1>0, <2>1, <2>3, <2>4, <2>5, WholeMove
<1>9. ASSUME NEW t \in Threads, CheckData(t) PROVE WholeInv'
  <2>1. todo[t] = << >> /\ phase[t] \in Checking /\ step[t] = "data" /\ Checked(t) \in Copies
    BY <1>0, <1>9, CheckedType DEF CheckData
  <2>2. /\ data'[t] = fs[Data(Checked(t))] /\ step'[t] = "judge"
        /\ todo'[t] = IF fs[Data(Checked(t))] = Empty THEN <<Rm(Data(Checked(t)))>> ELSE << >>
        /\ UNCHANGED <<fs, opened, booted, phase, pos, seen, bad, out>>
    BY <1>0, <1>9 DEF CheckData, files, TypeOK
  <2>3. SeesCrc(t)' /\ GivenUp(t)' = GivenUp(t) /\ LoadsWhole'
    BY <1>0, <1>w, <2>1, <2>2 DEF WholeFor, SeesCrc, GivenUp, LoadsWhole
  <2>4. SoundOps(t)'
    <3>1. OpsIn(todo'[t]) \subseteq {Rm(Data(Checked(t)))}
      BY <2>2, OpsEmpty, OpsPair
    <3>2. QED
      BY <2>1, <2>2, <3>1 DEF SoundOps, Checking
  <2>5. StartsWhole(t)'
    <3>1. ~booted => fs[Data(Checked(t))] = Factory /\ Factory # Empty
      BY <1>w, <2>1, FactoryWhole DEF WholeFor, StartsWhole
    <3>2. QED
      BY <1>w, <2>1, <2>2, <3>1 DEF WholeFor, StartsWhole
  <2>6. QED
    BY <1>0, <2>1, <2>2, <2>3, <2>4, <2>5, WholeMove
<1>10. ASSUME NEW t \in Threads, LoadFirst(t) PROVE WholeInv'
  <2>1. todo[t] = << >> /\ phase[t] = "load" /\ step[t] = "judge" /\ seen[t] \notin {Absent, Empty}
    BY <1>10, <1>w DEF LoadFirst, Judging, Ready, WholeFor, SeesCrc, Checking
  <2>2. ~booted => Passed(t)
    BY <1>w, <2>1, FactoryWhole DEF WholeFor, StartsWhole, Passed, Accepts
  <2>3. /\ phase'[t] \in {"idle", "equal"} /\ (phase'[t] = "equal" => booted)
        /\ UNCHANGED <<fs, opened, booted, bad, todo>>
    BY <1>0, <1>10, <2>2 DEF LoadFirst, Return, Enter, files, TypeOK
  <2>4. LoadsWhole'
    <3>1. CASE Passed(t)
      BY <1>0, <1>10, <2>1, <3>1, PassedWhole DEF LoadFirst, Return, LoadsWhole
    <3>2. CASE ~Passed(t)
      BY <1>0, <1>10, <3>2 DEF LoadFirst, LoadsWhole
    <3>3. QED
      BY <3>1, <3>2
  <2>5. SoundOps(t)' /\ SeesCrc(t)' /\ GivenUp(t) = {}
    BY <2>1, <2>3, OpsEmpty DEF SoundOps, SeesCrc, Checking, GivenUp
  <2>6. StartsWhole(t)'
    BY <1>w, <2>1, <2>3 DEF WholeFor, StartsWhole
  <2>7. QED
    BY <1>0, <2>1, <2>3, <2>4, <2>5, <2>6, WholeMove
<1>11. ASSUME NEW t \in Threads, LoadSecond(t) PROVE WholeInv'
  <2>1. todo[t] = << >> /\ phase[t] = "reload" /\ step[t] = "judge" /\ seen[t] \notin {Absent, Empty}
    BY <1>11, <1>w DEF LoadSecond, Judging, Ready, WholeFor, SeesCrc, Checking
  <2>2. phase'[t] = "idle" /\ UNCHANGED <<fs, opened, booted, bad, todo>>
    BY <1>0, <1>11 DEF LoadSecond, Return, Enter, files, TypeOK
  <2>3. LoadsWhole'
    BY <1>0, <1>11, <2>1, PassedWhole DEF LoadSecond, Return, LoadsWhole
  <2>4. SoundOps(t)' /\ SeesCrc(t)' /\ GivenUp(t) = {}
    BY <2>1, <2>2, OpsEmpty DEF SoundOps, SeesCrc, Checking, GivenUp
  <2>5. StartsWhole(t)'
    BY <1>w, <2>1, <2>2 DEF WholeFor, StartsWhole
  <2>6. QED
    BY <1>0, <2>1, <2>2, <2>3, <2>4, <2>5, WholeMove
<1>12. ASSUME NEW t \in Threads, EqualFiles(t) PROVE WholeInv'
  <2>1. todo[t] = << >> /\ phase[t] = "equal"
    BY <1>12 DEF EqualFiles, Ready
  <2>2. /\ phase'[t] \in {"idle", "reload", "lazy", "hung"} /\ pos'[t] = 1 /\ step'[t] = "crc"
        /\ UNCHANGED <<fs, opened, booted, bad, todo, out>>
    BY <1>0, <1>12 DEF EqualFiles, Caller, Enter, files, TypeOK
  <2>3. SoundOps(t)' /\ SeesCrc(t)' /\ GivenUp(t) = {} /\ LoadsWhole'
    BY <1>0, <2>1, <2>2, OpsEmpty DEF SoundOps, SeesCrc, Checking, GivenUp, LoadsWhole
  <2>4. StartsWhole(t)'
    BY <1>w, <2>1, <2>2 DEF WholeFor, StartsWhole
  <2>5. QED
    BY <1>0, <2>1, <2>2, <2>3, <2>4, WholeMove
<1>13. ASSUME NEW t \in Threads, LazyJudge(t) PROVE WholeInv'
  <2>1. /\ todo[t] = << >> /\ phase[t] = "lazy" /\ step[t] = "judge" /\ booted
        /\ pos[t] \in 1..4 /\ Order[pos[t]] \in Copies
    <3>1. todo[t] = << >> /\ phase[t] = "lazy" /\ step[t] = "judge"
      BY <1>13 DEF LazyJudge, Judging, Ready
    <3>2. QED
      BY <1>0, <1>w, <3>1, CheckedType DEF WholeFor, StartsWhole, TypeInv, InOrder
  <2>2. \A c \in Copies : c \notin GivenUp(t) => fs[Crc(c)] \notin {Absent, Empty}
    BY <2>1, RestThere
  <2>3. GivenUp(t) = {Order[j] : j \in 1..(pos[t] - 1)}
    BY <2>1 DEF GivenUp
  <2>4. UNCHANGED <<fs, opened, booted, bad, out>>
    BY <1>13 DEF LazyJudge, files
  <2>5. LoadsWhole'
    BY <1>0, <2>4 DEF LoadsWhole
  <2>6. CASE Passed(t)
    <3>1. /\ todo'[t] = Restore(Order[pos[t]]) /\ phase'[t] \in {"idle", "reload"}
          /\ step'[t] = "crc"
      BY <1>0, <1>13, <2>6 DEF LazyJudge, Caller, Enter, TypeOK
    <3>2. Order[pos[t]] \notin GivenUp(t) /\ "exrsv" \notin GivenUp(t)
      BY <2>1, <2>3, OrderDiffers
    <3>3. \A s \in {Order[pos[t]], "exrsv"} : s \in Copies /\ fs'[Crc(s)] \notin {Absent, Empty}
      BY <2>1, <2>2, <2>4, <3>2 DEF Copies
    <3>4. ASSUME NEW op \in OpsIn(todo'[t]), NEW s \in {Order[pos[t]], "exrsv"}
          PROVE  op.dst # Crc(s)
      BY <2>1, <3>1, <3>4, RestoreOps, OpsDiffer, CrcsDiffer
    <3>5. SoundOps(t)'
      <4>1. SUFFICES ASSUME NEW op \in OpsIn(todo'[t])
                     PROVE  \E c, d \in Copies : \/ op = Cp(Data(c), Data(d))
                                                 \/ /\ op = Cp(Crc(c), Crc(d))
                                                    /\ fs'[Crc(c)] \notin {Absent, Empty}
                                                    /\ \A p \in OpsIn(todo'[t]) : p.dst # Crc(c)
        BY <3>1 DEF SoundOps, Restoring
      <4>2. PICK s \in {Order[pos[t]], "exrsv"}, d \in Copies \ {Order[pos[t]], "exrsv"} :
              op = Cp(Data(s), Data(d)) \/ op = Cp(Crc(s), Crc(d))
        BY <2>1, <3>1, RestoreOps
      <4>3. QED
        BY <3>3, <3>4, <4>2
    <3>6. \A c \in GivenUp(t) : \E d \in Copies : Cp(Crc(d), Crc(c)) \in OpsIn(todo'[t])
      BY <2>1, <2>3, <3>1, RestoreOps
    <3>7. SeesCrc(t)' /\ StartsWhole(t)'
      BY <1>w, <2>1, <2>4, <3>1 DEF SeesCrc, WholeFor, StartsWhole
    <3>8. QED
      BY <1>0, <2>1, <2>4, <2>5, <3>5, <3>6, <3>7, WholeMove
  <2>7. CASE ~Passed(t)
    <3>1. pos[t] # 4
      BY <1>0, <2>1, <2>7, ExrsvPasses
    <3>2. /\ todo'[t] = Drop(Order[pos[t]]) /\ phase'[t] = "lazy" /\ pos'[t] = pos[t] + 1
          /\ step'[t] = "crc"
      <4>1. pos[t] < Len(Order)
        BY <2>1, <3>1 DEF Order
      <4>2. QED
        BY <1>0, <1>13, <2>7, <4>1 DEF LazyJudge, Enter, TypeOK
    <3>3. GivenUp(t) \subseteq GivenUp(t)' /\ Order[pos[t]] \in GivenUp(t)'
      <4>1. GivenUp(t)' = {Order[j] : j \in 1..pos[t]}
        BY <2>1, <3>2 DEF GivenUp
      <4>2. 1..(pos[t] - 1) \subseteq 1..pos[t] /\ pos[t] \in 1..pos[t]
        BY <2>1
      <4>3. QED
        BY <2>3, <4>1, <4>2
    <3>4. SoundOps(t)'
      BY <2>1, <3>2, <3>3, OpsPair DEF SoundOps
    <3>5. SeesCrc(t)' /\ StartsWhole(t)'
      BY <1>w, <2>1, <2>4, <3>2 DEF SeesCrc, WholeFor, StartsWhole
    <3>6. QED
      BY <1>0, <2>1, <2>4, <2>5, <3>3, <3>4, <3>5, WholeMove
  <2>8. QED
    BY <2>6, <2>7
<1>14. ASSUME NEW t \in Threads, LazyRestored(t) PROVE WholeInv'
  BY <1>0, <1>14 DEF LazyRestored, Judging, Ready, NeverReset
<1>15. ASSUME NEW t \in Threads, InitGset(t) PROVE WholeInv'
  <2>1. todo[t] = << >> /\ phase[t] = "idle" /\ ~booted
    BY <1>15 DEF InitGset, Ready
  <2>2. fs[Data("sys")] # Absent
    BY <1>w, <2>1, FactoryWhole DEF WholeFor, StartsWhole, Copies
  <2>3. /\ phase'[t] = "check4" /\ step'[t] = "crc"
        /\ UNCHANGED <<fs, opened, booted, bad, todo, out>>
    BY <1>0, <1>15, <2>2 DEF InitGset, Enter, files, TypeOK
  <2>4. SoundOps(t)' /\ SeesCrc(t)' /\ GivenUp(t) = {} /\ LoadsWhole'
    BY <1>0, <2>1, <2>3, OpsEmpty DEF SoundOps, SeesCrc, GivenUp, LoadsWhole
  <2>5. StartsWhole(t)'
    BY <1>w, <2>1, <2>3 DEF WholeFor, StartsWhole
  <2>6. QED
    BY <1>0, <2>1, <2>3, <2>4, <2>5, WholeMove
<1>16. ASSUME NEW t \in Threads, Judge4x4(t) PROVE WholeInv'
  <2>1. /\ todo[t] = << >> /\ phase[t] = "check4" /\ step[t] = "judge" /\ ~booted /\ bad[t] = {}
    BY <1>16, <1>w DEF Judge4x4, Judging, Ready, WholeFor, StartsWhole
  <2>2. Passed(t)
    BY <1>w, <2>1, FactoryWhole DEF WholeFor, StartsWhole, Passed, Accepts
  <2>3. /\ phase'[t] \in {"check4", "fix"} /\ step'[t] = "crc"
        /\ bad'[t] = {} /\ todo'[t] = << >>
    <3>1. CASE pos[t] < Len(Order)
      BY <1>0, <1>16, <2>1, <2>2, <3>1 DEF Judge4x4, Enter, TypeOK
    <3>2. CASE ~(pos[t] < Len(Order))
      <4>1. {} # Copies
        BY DEF Copies
      <4>2. /\ bad' = [bad EXCEPT ![t] = {}] /\ todo' = [todo EXCEPT ![t] = FixAll({})]
            /\ Enter(t, "fix", 1)
        BY <1>16, <2>1, <2>2, <3>2, <4>1 DEF Judge4x4
      <4>3. QED
        BY <1>0, <4>2, NothingToFix DEF Enter, TypeOK
    <3>3. QED
      BY <3>1, <3>2
  <2>4. UNCHANGED <<fs, opened, booted, out>>
    BY <1>16 DEF Judge4x4, files
  <2>5. SoundOps(t)' /\ SeesCrc(t)' /\ GivenUp(t) = {} /\ LoadsWhole'
    BY <1>0, <2>1, <2>3, <2>4, OpsEmpty DEF SoundOps, SeesCrc, GivenUp, LoadsWhole
  <2>6. StartsWhole(t)'
    BY <1>w, <2>1, <2>3, <2>4 DEF WholeFor, StartsWhole
  <2>7. QED
    BY <1>0, <2>1, <2>4, <2>5, <2>6, WholeMove
<1>17. ASSUME NEW t \in Threads, InitGsetReturns(t) PROVE WholeInv'
  <2>1. phase[t] \in {"fix", "factory4"} /\ todo[t] = << >>
    BY <1>17 DEF InitGsetReturns, Judging, Ready
  <2>2. phase'[t] = "idle" /\ booted' /\ UNCHANGED <<fs, opened, todo, out>>
    BY <1>0, <1>17 DEF InitGsetReturns, Enter, files, TypeOK
  <2>3. SoundOps(t)' /\ SeesCrc(t)' /\ GivenUp(t) = {} /\ StartsWhole(t)' /\ LoadsWhole'
    BY <1>0, <2>1, <2>2, OpsEmpty DEF SoundOps, SeesCrc, Checking, GivenUp, StartsWhole, LoadsWhole
  <2>4. QED
    BY <1>0, <2>1, <2>2, <2>3, WholeMove
<1>18. ASSUME NEW t \in Threads, Lock(t) PROVE WholeInv'
  <2>1. phase[t] = "lock" /\ booted /\ todo[t] = << >>
    BY <1>18, <1>w, LockIdle DEF Lock, WholeFor, StartsWhole
  <2>2. /\ phase'[t] = "write1" /\ todo'[t] = <<Wr(Data("sys"))>>
        /\ UNCHANGED <<fs, opened, booted, out>>
    BY <1>0, <1>18 DEF Lock, Enter, files, TypeOK
  <2>3. SoundOps(t)'
    BY <2>2, OpsPair DEF SoundOps, Copies
  <2>4. SeesCrc(t)' /\ GivenUp(t) = {} /\ StartsWhole(t)' /\ LoadsWhole'
    BY <1>0, <2>1, <2>2 DEF SeesCrc, Checking, GivenUp, StartsWhole, LoadsWhole
  <2>5. QED
    BY <1>0, <2>1, <2>2, <2>3, <2>4, WholeMove
<1>19. ASSUME NEW t \in Threads, Verify1(t) \/ Verify2(t) \/ SaveReturns(t) PROVE WholeInv'
  <2>1. phase[t] \in {"write1", "write2", "crc"} /\ todo[t] = << >> /\ booted
    BY <1>19, <1>w DEF Verify1, Verify2, SaveReturns, Ready, WholeFor, StartsWhole
  <2>2. UNCHANGED <<fs, opened, booted, out>>
    BY <1>19 DEF Verify1, Verify2, SaveReturns, files
  <2>3. \/ phase'[t] = "write1" /\ todo'[t] = <<Wr(Data("sys"))>>
        \/ phase'[t] = "write2" /\ todo'[t] = <<Wr(Data("ex"))>>
        \/ phase'[t] = "crc" /\ todo'[t] = <<Wr(Crc("sys")), Wr(Crc("ex"))>>
        \/ phase'[t] = "idle" /\ todo'[t] = << >>
    <3>1. CASE Verify1(t)
      BY <1>0, <3>1 DEF Verify1, Enter, TypeOK
    <3>2. CASE Verify2(t)
      BY <1>0, <3>2 DEF Verify2, Enter, TypeOK
    <3>3. CASE SaveReturns(t)
      BY <1>0, <2>1, <3>3 DEF SaveReturns, Enter, TypeOK
    <3>4. QED
      BY <1>19, <3>1, <3>2, <3>3
  <2>4. SoundOps(t)'
    <3>1. CASE phase'[t] = "crc" /\ todo'[t] = <<Wr(Crc("sys")), Wr(Crc("ex"))>>
      BY <3>1, OpsPair DEF SoundOps, Copies
    <3>2. CASE phase'[t] = "idle" /\ todo'[t] = << >>
      BY <3>2, OpsEmpty DEF SoundOps
    <3>3. CASE phase'[t] = "write1" /\ todo'[t] = <<Wr(Data("sys"))>>
      BY <3>3, OpsPair DEF SoundOps, Copies
    <3>4. CASE phase'[t] = "write2" /\ todo'[t] = <<Wr(Data("ex"))>>
      BY <3>4, OpsPair DEF SoundOps, Copies
    <3>5. QED
      BY <2>3, <3>1, <3>2, <3>3, <3>4
  <2>5. SeesCrc(t)' /\ GivenUp(t) = {} /\ StartsWhole(t)' /\ LoadsWhole'
    BY <1>0, <2>1, <2>2, <2>3 DEF SeesCrc, Checking, GivenUp, StartsWhole, LoadsWhole
  <2>6. QED
    BY <1>0, <2>1, <2>2, <2>4, <2>5, WholeMove
<1>20. ASSUME NEW t \in Threads, Request(t) PROVE WholeInv'
  <2>1. phase[t] = "idle" /\ todo[t] = << >>
    BY <1>20 DEF Request, LoadSetting, SyncGsetSettings, SaveSetting, MayStart, Ready
  <2>2. UNCHANGED <<fs, opened, booted, bad, todo, out>>
    BY <1>20 DEF Request, LoadSetting, SyncGsetSettings, SaveSetting, files
  <2>3. \/ phase'[t] = "load" /\ step'[t] = "crc"
        \/ phase'[t] \in {"equal", "lock"} /\ booted
    BY <1>0, <1>20 DEF Request, LoadSetting, SyncGsetSettings, SaveSetting, Enter, TypeOK
  <2>4. SoundOps(t)' /\ SeesCrc(t)' /\ GivenUp(t) = {} /\ LoadsWhole'
    BY <1>0, <2>1, <2>2, <2>3, OpsEmpty DEF SoundOps, SeesCrc, Checking, GivenUp, LoadsWhole
  <2>5. StartsWhole(t)'
    BY <1>w, <2>1, <2>2, <2>3 DEF WholeFor, StartsWhole
  <2>6. QED
    BY <1>0, <2>1, <2>2, <2>4, <2>5, WholeMove
<1>21. CASE Kill \/ PowerFailure
  BY <1>0, <1>21 DEF Kill, PowerFailure, Restart, Alone, TypeOK
<1>22. CASE UNCHANGED vars
  BY <1>0, <1>w, <1>22 DEF vars, local, WholeInv, WholeFor, SoundOps, Present, Handles, Target,
     SeesCrc, StartsWhole, GivenUp, LoadsWhole
<1>23. QED
  BY <1>1, <1>2, <1>3, <1>4, <1>5, <1>6, <1>7, <1>8, <1>9, <1>10, <1>11, <1>12, <1>13,
     <1>14, <1>15, <1>16, <1>17, <1>18, <1>19, <1>20, <1>21, <1>22, <1>c DEF Next, Work, FileStep

\* Without a crash, and as long as one thread at a time has the setting and CopyFile can
\* copy the .crc files, every load returns a complete content: however often a data write
\* falls short for good, whatever .crc file SaveSetting cannot write, whatever save fails
\* and whatever copy of a data file is not made or is cut short.  Never a mixture.
THEOREM LoadsStayWhole == ASSUME Alone PROVE Spec => []LoadsWhole
<1>1. Init => WholeInv
  BY WholeInit
<1>2. WholeInv /\ [Next]_vars => WholeInv'
  BY WholeStep
<1>3. WholeInv => LoadsWhole
  BY DEF WholeInv
<1>4. QED
  BY <1>1, <1>2, <1>3, PTL DEF Spec

-----------------------------------------------------------------------------
(***************************************************************************)
(* Savers implement the register.  A save that fails returns an error and  *)
(* is no step of the register, so no open fails here; writes may fall      *)
(* short, and be given up.                                                 *)
(***************************************************************************)
Creatable == OnlySavers /\ "open" \notin Faults

\* The two reserved copies, which no save writes.
Reserves == \A c \in {"rsv", "exrsv"} : fs[Data(c)] = Factory /\ fs[Crc(c)] = Factory

\* Each data file but the one being written is on the medium as it is seen.
Synced == \A c \in Copies : \/ disk[Data(c)] = fs[Data(c)]
                            \/ \E t \in Threads : opened[t] # "no" /\ Target(t) = Data(c)

RegisterInv == SaversInv /\ Reserves /\ Synced

\* A step that neither touches the files nor the mutex.
Quiet(t) == /\ UNCHANGED <<fs, disk, opened, todo, owner, out>>
            /\ t # owner /\ \A u \in Threads \ {t} : data'[u] = data[u]
            /\ booted => booted'
            /\ ~booted => owner = NoThread

\* What the threads of this section do.
LEMMA SaversDo ==
  ASSUME Creatable, SaversInv, [Next]_vars
  PROVE  \/ \E t \in Threads : \/ Quiet(t) \/ WriteOpen(t) \/ WriteFill(t) \/ Lock(t)
                               \/ Verify1(t) \/ Verify2(t) \/ SaveReturns(t)
         \/ UNCHANGED vars
<1>0. TypeInv /\ TypeOK
  BY DEF SaversInv, TypeInv
<1>q. ASSUME NEW t \in Threads, phase[t] \notin Writing,
             UNCHANGED <<fs, disk, opened, todo, owner, out>>,
             \A u \in Threads \ {t} : data'[u] = data[u], booted => booted'
      PROVE  Quiet(t)
  <2>1. t # owner
    BY <1>q DEF SaversInv, Excluded
  <2>2. ~booted => owner = NoThread
    BY <1>0 DEF SaversInv, Boots, Excluded, TypeOK
  <2>3. QED
    BY <1>q, <2>1, <2>2 DEF Quiet
<1>1. ASSUME NEW t \in Threads, Remove(t) \/ CopyOpen(t) \/ CopyFill(t) \/ CopyFails(t) PROVE FALSE
  <2>1. todo[t] # << >> /\ Head(todo[t]).op \in {"rm", "cp"}
    BY <1>1 DEF Remove, CopyOpen, CopyFill, CopyFails, Doing
  <2>2. QED
    BY <2>1, SaversWork
<1>2. ASSUME NEW t \in Threads, DataOpenFails(t) \/ CrcOpenFails(t) PROVE FALSE
  BY <1>2 DEF DataOpenFails, CrcOpenFails, Fault, Creatable, OnlySavers
<1>3. ASSUME NEW t \in Threads, CheckCrc(t) PROVE Quiet(t)
  <2>1. phase[t] = "check4" /\ ~booted /\ Checked(t) \in Copies
    BY <1>0, <1>3, CheckedType DEF CheckCrc, Checking, SaversInv, Boots, Writing
  <2>2. fs[Crc(Checked(t))] = Factory /\ Factory # Empty
    BY <2>1, FactoryWhole DEF SaversInv, Boots
  <2>3. UNCHANGED <<fs, disk, opened, todo, owner, out, data, booted>>
    BY <1>3, <2>2 DEF CheckCrc, files
  <2>4. QED
    BY <1>q, <2>1, <2>3 DEF Writing
<1>4. ASSUME NEW t \in Threads, CheckData(t) PROVE Quiet(t)
  <2>1. phase[t] = "check4" /\ ~booted /\ Checked(t) \in Copies /\ todo[t] = << >>
    BY <1>0, <1>4, CheckedType DEF CheckData, Checking, SaversInv, Boots, Writing
  <2>2. fs[Data(Checked(t))] = Factory /\ Factory # Empty
    BY <2>1, FactoryWhole DEF SaversInv, Boots
  <2>3. /\ UNCHANGED <<fs, disk, opened, todo, owner, out, booted>>
        /\ \A u \in Threads \ {t} : data'[u] = data[u]
    BY <1>0, <1>4, <2>1, <2>2 DEF CheckData, files, TypeOK
  <2>4. QED
    BY <1>q, <2>1, <2>3 DEF Writing
<1>5. ASSUME NEW t \in Threads,
             LoadFirst(t) \/ LoadSecond(t) \/ EqualFiles(t) \/ LazyJudge(t) \/ LazyRestored(t)
      PROVE  FALSE
  <2>1. phase[t] \in {"load", "reload", "equal", "lazy", "restored"}
    BY <1>5 DEF LoadFirst, LoadSecond, EqualFiles, LazyJudge, LazyRestored, Judging, Ready
  <2>2. QED
    BY <2>1 DEF SaversInv, Boots, Writing
<1>6. ASSUME NEW t \in Threads, InitGset(t) PROVE Quiet(t)
  <2>1. phase[t] = "idle" /\ ~booted
    BY <1>6 DEF InitGset, Ready
  <2>2. UNCHANGED <<fs, disk, opened, todo, owner, out, data>>
    BY <1>6 DEF InitGset, files
  <2>3. QED
    BY <1>q, <2>1, <2>2 DEF Writing
<1>7. ASSUME NEW t \in Threads, Judge4x4(t) PROVE Quiet(t)
  <2>1. phase[t] = "check4" /\ step[t] = "judge" /\ ~booted /\ bad[t] = {} /\ todo[t] = << >>
    BY <1>7 DEF Judge4x4, Judging, Ready, SaversInv, Boots
  <2>2. Passed(t)
    <3>1. seen[t] = Factory /\ data[t] = Factory
      BY <2>1 DEF SaversInv, Boots
    <3>2. QED
      BY <3>1, FactoryWhole DEF Passed, Accepts
  <2>3. UNCHANGED todo
    <3>1. CASE pos[t] < Len(Order)
      BY <1>7, <3>1 DEF Judge4x4
    <3>2. CASE ~(pos[t] < Len(Order))
      <4>1. {} # Copies
        BY DEF Copies
      <4>2. todo' = [todo EXCEPT ![t] = FixAll({})]
        BY <1>7, <2>1, <2>2, <3>2, <4>1 DEF Judge4x4
      <4>3. QED
        BY <1>0, <2>1, <4>2, NothingToFix DEF TypeOK
    <3>3. QED
      BY <3>1, <3>2
  <2>4. /\ UNCHANGED <<fs, disk, opened, owner, out, booted>>
        /\ \A u \in Threads \ {t} : data'[u] = data[u]
    BY <1>0, <1>7 DEF Judge4x4, Forget, files, TypeOK
  <2>5. QED
    BY <1>q, <2>1, <2>3, <2>4 DEF Writing
<1>8. ASSUME NEW t \in Threads, InitGsetReturns(t) PROVE Quiet(t)
  <2>1. phase[t] \in {"fix", "factory4"}
    BY <1>8 DEF InitGsetReturns, Judging, Ready
  <2>2. /\ UNCHANGED <<fs, disk, opened, todo, owner, out>> /\ booted'
        /\ \A u \in Threads \ {t} : data'[u] = data[u]
    BY <1>0, <1>8 DEF InitGsetReturns, Forget, files, TypeOK
  <2>3. QED
    BY <1>q, <2>1, <2>2 DEF Writing
<1>9. ASSUME NEW t \in Threads, Request(t) PROVE Quiet(t)
  <2>1. SaveSetting(t)
    BY <1>9 DEF Request, Creatable, OnlySavers
  <2>2. phase[t] = "idle"
    BY <2>1 DEF SaveSetting, MayStart, Ready
  <2>3. /\ UNCHANGED <<fs, disk, opened, todo, owner, out, booted>>
        /\ \A u \in Threads \ {t} : data'[u] = data[u]
    BY <1>0, <2>1 DEF SaveSetting, files, TypeOK
  <2>4. QED
    BY <1>q, <2>2, <2>3 DEF Writing
<1>10. ~Kill /\ ~PowerFailure
  BY <1>0, SettingsAssumption DEF Kill, PowerFailure, Restart, Creatable, OnlySavers, TypeOK
<1>11. QED
  BY <1>1, <1>2, <1>3, <1>4, <1>5, <1>6, <1>7, <1>8, <1>9, <1>10
  DEF Next, Work, FileStep

\* Nothing is removed or copied, so a data file is disturbed by the thread that writes
\* it only.
DisturbedByWriter ==
  \A c \in Copies :
    Disturbed(c) <=> \E t \in Threads : opened[t] # "no" /\ Target(t) = Data(c)

LEMMA SaversDisturb == SaversInv => DisturbedByWriter
<1> SUFFICES ASSUME SaversInv, NEW c \in Copies
             PROVE  Disturbed(c) <=> \E t \in Threads : opened[t] # "no" /\ Target(t) = Data(c)
  BY DEF DisturbedByWriter
<1>1. ASSUME NEW t \in Threads, NEW i \in 1..Len(todo[t])
      PROVE  todo[t][i] # Rm(Data(c)) /\ todo[t][i].op # "cp"
  <2>1. CASE todo[t] = << >>
    BY <1>1, <2>1
  <2>2. CASE todo[t] # << >>
    <3>1. \/ \E f : todo[t] = <<Wr(f)>>
          \/ todo[t] = <<Wr(Crc("sys")), Wr(Crc("ex"))>>
      <4>1. phase[t] \in Writing
        BY <2>2, SaversWork
      <4>2. QED
        BY <2>2, <4>1 DEF SaversInv, SavesSys, SavesEx, SavesCrcs, Writes, Writing
    <3>2. CASE \E f : todo[t] = <<Wr(f)>>
      BY <1>1, <3>2, OpsDiffer
    <3>3. CASE todo[t] = <<Wr(Crc("sys")), Wr(Crc("ex"))>>
      BY <1>1, <3>3, OpsDiffer
    <3>4. QED
      BY <3>1, <3>2, <3>3
  <2>3. QED
    BY <2>1, <2>2
<1>2. QED
  BY <1>1 DEF Disturbed

\* A thread writes to sys and ex, and holds the mutex while it does.
LEMMA SaversTarget ==
  ASSUME SaversInv, NEW t \in Threads, opened[t] # "no"
  PROVE  /\ owner = t /\ todo[t] # << >>
         /\ Target(t) \in {Data("sys"), Data("ex"), Crc("sys"), Crc("ex")}
         /\ phase[t] = "crc" <=> Target(t) \in {Crc("sys"), Crc("ex")}
<1>1. todo[t] # << >>
  BY DEF SaversInv, Opens
<1>2. QED
  BY <1>1, SaversWork, FilesDiffer DEF Writing

\* Of what the check accepts, the content is a complete one.
LEMMA AcceptedValue ==
  ASSUME RegisterInv, NEW c \in Copies, Accepted(c)
  PROVE  fs[Data(c)] \in Values
<1>1. CASE c \in {"rsv", "exrsv"}
  BY <1>1, SettingsAssumption DEF RegisterInv, Reserves
<1>2. CASE c \in {"sys", "ex"} /\ owner # NoThread /\ phase[owner] = "crc"
  <2>1. owner \in Threads /\ data[owner] \in Values
    BY <1>2 DEF RegisterInv, SaversInv, TypeInv, TypeOK, SavesValue
  <2>2. Written(owner, Data(c)) /\ fs[Crc(c)] # Absent
    BY <1>2, <2>1 DEF RegisterInv, SaversInv, SavesCrcs
  <2>3. QED
    BY <2>1, <2>2 DEF Written, Accepted, Accepts
<1>3. CASE c \in {"sys", "ex"} /\ (owner = NoThread \/ phase[owner] # "crc")
  <2>1. OldCrcs
    <3>1. CASE owner = NoThread
      BY <3>1 DEF RegisterInv, SaversInv, Kept
    <3>2. CASE owner # NoThread
      <4>1. owner \in Threads
        BY <3>2 DEF RegisterInv, SaversInv, TypeInv, TypeOK
      <4>2. phase[owner] \in {"write1", "write2"}
        BY <1>3, <3>2, <4>1 DEF RegisterInv, SaversInv, Excluded, Writing
      <4>3. QED
        BY <4>1, <4>2 DEF RegisterInv, SaversInv, SavesSys, SavesEx, Kept
    <3>3. QED
      BY <3>1, <3>2
  <2>2. fs[Crc(c)] = acked /\ acked \in Values
    BY <1>3, <2>1 DEF OldCrcs, RegisterInv, SaversInv, TypeInv, TypeOK
  <2>3. QED
    BY <2>2, SettingsAssumption DEF Accepted, Accepts
<1>4. QED
  BY <1>1, <1>2, <1>3 DEF Copies

\* The value of the register is that of a copy the check accepts; of sys, if it does.
ReadsAccepted ==
  /\ \E c \in Copies : Accepted(c) /\ Effective = fs[Data(c)]
  /\ Effective \in Values
  /\ Accepted("sys") => Effective = fs[Data("sys")]

LEMMA EffectiveIs == RegisterInv => ReadsAccepted
<1> SUFFICES ASSUME RegisterInv PROVE ReadsAccepted
  OBVIOUS
<1> DEFINE failed == {c \in Copies : ~Accepted(c)}
<1>1. Accepted("exrsv") /\ "exrsv" \in Copies
  <2>1. ~Disturbed("exrsv")
    <3>1. "exrsv" \in Copies /\ Data("exrsv") \notin {Data("sys"), Data("ex"), Crc("sys"), Crc("ex")}
      BY FilesDiffer DEF Copies
    <3>2. QED
      BY <3>1, SaversDisturb, SaversTarget DEF RegisterInv, DisturbedByWriter
  <2>2. QED
    BY <2>1, FactoryWhole DEF RegisterInv, Reserves, Accepted, Accepts, Copies
<1>2. failed \in SUBSET Copies /\ failed # Copies
  BY <1>1
<1>3. Effective = fs[Data(FirstGood(failed))]
  BY <1>1 DEF Effective
<1>4. FirstGood(failed) \in Copies \ failed
  BY <1>2, FirstGoodIsGood
<1>5. Accepted("sys") => FirstGood(failed) = "sys"
  BY <1>2, FirstGoodIsFirst
<1>6. Accepted(FirstGood(failed))
  BY <1>4
<1> HIDE DEF failed
<1>7. QED
  BY <1>3, <1>4, <1>5, <1>6, AcceptedValue DEF ReadsAccepted

\* What is not written is read as before.
LEMMA EffectiveStays ==
  ASSUME SaversInv, SaversInv', UNCHANGED <<fs, opened>>,
         \A t \in Threads : opened[t] # "no" => UNCHANGED todo[t]
  PROVE  Effective' = Effective
<1>0. DisturbedByWriter /\ DisturbedByWriter'
  BY SaversDisturb, PTL
<1>1. ASSUME NEW c \in Copies PROVE Accepted(c)' <=> Accepted(c)
  <2>1. \A t \in Threads : opened[t] # "no" => Target(t)' = Target(t)
    BY DEF Target
  <2>2. Disturbed(c)' <=> Disturbed(c)
    BY <1>0, <2>1 DEF DisturbedByWriter
  <2>3. QED
    BY <2>2 DEF Accepted
<1>2. {c \in Copies : ~Accepted(c)}' = {c \in Copies : ~Accepted(c)}
  BY <1>1
<1>3. QED
  BY <1>1, <1>2 DEF Effective

LEMMA RegisterInvInit == Creatable /\ Init => RegisterInv
<1> SUFFICES ASSUME Creatable, Init PROVE RegisterInv
  OBVIOUS
<1>1. SaversInv
  BY SaversInit DEF Creatable
<1>2. \A f \in Files : fs[f] = Factory /\ disk[f] = fs[f]
  BY DEF Init, Creatable, OnlySavers, Shipped
<1>3. Reserves /\ Synced
  BY <1>2, FilesDiffer DEF Reserves, Synced, Copies
<1>4. QED
  BY <1>1, <1>3 DEF RegisterInv

LEMMA RegisterInvStep == Creatable /\ RegisterInv /\ [Next]_vars => RegisterInv'
<1> SUFFICES ASSUME Creatable, RegisterInv, [Next]_vars PROVE RegisterInv'
  OBVIOUS
<1>0. SaversInv /\ SaversInv' /\ TypeOK /\ TypeOK'
  BY SaversStep DEF RegisterInv, Creatable, SaversInv, TypeInv
<1>1. ASSUME NEW t \in Threads, WriteOpen(t) \/ WriteFill(t), todo[t] # << >>
      PROVE  /\ owner = t
             /\ Target(t) \in {Data("sys"), Data("ex"), Crc("sys"), Crc("ex")}
             /\ phase[t] = "crc" <=> Target(t) \in {Crc("sys"), Crc("ex")}
             /\ \A c \in {"rsv", "exrsv"} : Data(c) # Target(t) /\ Crc(c) # Target(t)
  <2>1. /\ owner = t
        /\ Target(t) \in {Data("sys"), Data("ex"), Crc("sys"), Crc("ex")}
        /\ phase[t] = "crc" <=> Target(t) \in {Crc("sys"), Crc("ex")}
    BY <1>0, <1>1, SaversWork, FilesDiffer DEF Writing
  <2>2. QED
    BY <2>1, FilesDiffer DEF Copies
<1>2. ASSUME NEW t \in Threads, Quiet(t) PROVE RegisterInv'
  BY <1>0, <1>2 DEF Quiet, RegisterInv, Reserves, Synced, Target
<1>3. ASSUME NEW t \in Threads, WriteOpen(t) PROVE RegisterInv'
  <2>1. todo[t] # << >> /\ opened[t] = "no" /\ Target(t) \in Files
    BY <1>0, <1>3, TargetType DEF WriteOpen, Doing, SaversInv
  <2>2. /\ \A f \in Files \ {Target(t)} : fs'[f] = fs[f]
        /\ opened'[t] = "yes" /\ \A u \in Threads \ {t} : opened'[u] = opened[u]
        /\ UNCHANGED <<disk, todo>>
    BY <1>0, <1>3, <2>1 DEF WriteOpen, TypeOK
  <2>3. Reserves'
    BY <1>1, <1>3, <2>1, <2>2, FilesDiffer DEF RegisterInv, Reserves, Copies
  <2>4. Synced'
    BY <2>1, <2>2, FilesDiffer DEF RegisterInv, Synced, Target
  <2>5. QED
    BY <1>0, <2>3, <2>4 DEF RegisterInv
<1>4. ASSUME NEW t \in Threads, WriteFill(t) PROVE RegisterInv'
  <2>1. todo[t] # << >> /\ Target(t) \in Files
    BY <1>0, <1>4, TargetType DEF WriteFill, Doing, SaversInv
  <2>2. /\ \A f \in Files \ {Target(t)} : fs'[f] = fs[f]
        /\ disk' = IF phase[t] = "crc" THEN disk ELSE fs'
    BY <1>0, <1>4, <2>1 DEF WriteFill, TypeOK
  <2>3. Reserves'
    BY <1>1, <1>4, <2>1, <2>2, FilesDiffer DEF RegisterInv, Reserves, Copies
  <2>4. CASE phase[t] = "crc"
    <3>1. Target(t) \in {Crc("sys"), Crc("ex")}
      BY <1>1, <1>4, <2>1, <2>4
    <3>2. \A u \in Threads : opened[u] # "no" => u = t
      BY <1>0, <1>1, <1>4, <2>1, SaversTarget
    <3>3. \A c \in Copies : disk[Data(c)] = fs[Data(c)] /\ fs'[Data(c)] = fs[Data(c)]
      BY <2>2, <3>1, <3>2, FilesDiffer DEF RegisterInv, Synced
    <3>4. QED
      BY <1>0, <2>2, <2>3, <2>4, <3>3 DEF RegisterInv, Synced
  <2>5. CASE phase[t] # "crc"
    BY <1>0, <2>2, <2>3, <2>5 DEF RegisterInv, Synced
  <2>6. QED
    BY <2>4, <2>5
<1>5. ASSUME NEW t \in Threads, Lock(t) PROVE RegisterInv'
  <2>1. \A u \in Threads : opened[u] = "no"
    BY <1>0, <1>5, SaversTarget, SettingsAssumption DEF Lock
  <2>2. UNCHANGED <<fs, disk>>
    BY <1>5 DEF Lock, files
  <2>3. QED
    BY <1>0, <2>1, <2>2 DEF RegisterInv, Reserves, Synced
<1>6. ASSUME NEW t \in Threads, Verify1(t) \/ Verify2(t) PROVE RegisterInv'
  <2>1. UNCHANGED <<fs, disk, opened>> /\ \A u \in Threads \ {t} : todo'[u] = todo[u]
    BY <1>0, <1>6 DEF Verify1, Verify2, files, TypeOK
  <2>2. opened[t] = "no"
    BY <1>0, <1>6, SaversTarget DEF Verify1, Verify2, Ready
  <2>3. QED
    BY <1>0, <2>1, <2>2 DEF RegisterInv, Reserves, Synced, Target
<1>7. ASSUME NEW t \in Threads, SaveReturns(t) PROVE RegisterInv'
  BY <1>0, <1>7 DEF SaveReturns, RegisterInv, Reserves, Synced
<1>8. CASE UNCHANGED vars
  BY <1>0, <1>8 DEF vars, local, RegisterInv, Reserves, Synced, Target
<1>9. QED
  BY <1>0, <1>2, <1>3, <1>4, <1>5, <1>6, <1>7, <1>8, SaversDo

\* The abstract state, by name.
Spare == Values \cap UNION {{fs[Data(c)], disk[Data(c)]} : c \in Copies}
Saving == IF owner = NoThread THEN NoThread ELSE data[owner]

LEMMA SpareIs ==
  \A v : v \in Spare <=> /\ v \in Values
                         /\ \E c \in Copies : v = fs[Data(c)] \/ v = disk[Data(c)]
BY DEF Spare

LEMMA RegisterStep ==
  Creatable /\ RegisterInv /\ [Next]_vars
    => [Register!Next]_<<Effective, Spare, Saving, booted, out>>
<1> SUFFICES ASSUME Creatable, RegisterInv, [Next]_vars
             PROVE  [Register!Next]_<<Effective, Spare, Saving, booted, out>>
  OBVIOUS
<1>0. SaversInv /\ SaversInv' /\ RegisterInv' /\ TypeOK /\ TypeOK'
  BY SaversStep, RegisterInvStep DEF RegisterInv, Creatable, SaversInv, TypeInv
<1>1. ReadsAccepted /\ ReadsAccepted'
  BY <1>0, EffectiveIs, PTL
<1>2. ASSUME NEW t \in Threads, Quiet(t) PROVE Register!Inspect \/ UNCHANGED <<Effective, Spare, Saving, booted, out>>
  <2>1. Effective' = Effective
    BY <1>0, <1>2, EffectiveStays DEF Quiet
  <2>2. Saving' = Saving
    <3>1. owner # NoThread => owner \in Threads \ {t}
      BY <1>0, <1>2 DEF Quiet, TypeOK
    <3>2. QED
      BY <1>2, <3>1 DEF Quiet, Saving
  <2>3. Spare' = Spare
    BY <1>2 DEF Quiet, Spare
  <2>4. CASE booted
    BY <1>0, <1>2, <2>1, <2>2, <2>3, <2>4 DEF Quiet, TypeOK
  <2>5. CASE ~booted
    <3>1. Saving = NoThread
      BY <1>2, <2>5 DEF Quiet, Saving
    <3>2. booted' \in BOOLEAN
      BY <1>0 DEF TypeOK
    <3>3. out' = out
      BY <1>2 DEF Quiet
    <3>4. CASE booted' = TRUE
      BY <2>1, <2>2, <2>3, <3>1, <3>3, <3>4 DEF Register!Inspect, Register!Tend, Saving, Spare
    <3>5. CASE booted' = FALSE
      BY <1>0, <2>1, <2>2, <2>3, <2>5, <3>3, <3>5 DEF TypeOK
    <3>6. QED
      BY <3>2, <3>4, <3>5
  <2>6. QED
    BY <2>4, <2>5
<1>3. ASSUME NEW t \in Threads, Lock(t) PROVE Register!Begin
  <2>1. owner = NoThread /\ owner' = t /\ data' = data /\ data[t] \in Values /\ booted /\ booted'
    BY <1>0, <1>3 DEF Lock, SaversInv, TypeInv, SavesValue, Boots
  <2>2. UNCHANGED <<fs, disk, opened, out, booted>>
    BY <1>3 DEF Lock, files
  <2>3. \A u \in Threads : opened[u] = "no"
    BY <1>0, <2>1, SaversTarget, SettingsAssumption
  <2>4. Effective' = Effective
    BY <1>0, <2>2, <2>3, EffectiveStays
  <2>5. Saving = NoThread /\ Saving' = data[t]
    BY <2>1, SettingsAssumption DEF Saving
  <2>6. Spare' = Spare
    BY <2>2 DEF Spare
  <2>7. QED
    BY <2>1, <2>2, <2>4, <2>5, <2>6 DEF Register!Begin, Saving, Spare
<1>4. ASSUME NEW t \in Threads, WriteOpen(t) \/ WriteFill(t) PROVE Register!Overwrite
  <2>1. todo[t] # << >> /\ Target(t) \in Files
    BY <1>0, <1>4, TargetType DEF WriteOpen, WriteFill, Doing, SaversInv
  <2>2. owner = t /\ phase[t] \in Writing
    BY <1>0, <2>1, SaversWork
  <2>3. data[t] \in Values /\ Saving = data[t] /\ Saving # NoThread
    BY <1>0, <2>2, SettingsAssumption DEF SaversInv, TypeInv, SavesValue, Writing, Saving
  <2>4. /\ \A f \in Files \ {Target(t)} : fs'[f] = fs[f]
        /\ fs'[Target(t)] \in {Empty, data[t], Torn}
        /\ disk' = disk \/ disk' = fs'
        /\ UNCHANGED <<owner, data, booted, out>>
    <3>1. CASE WriteOpen(t)
      BY <1>0, <2>1, <3>1 DEF WriteOpen, control, TypeOK
    <3>2. CASE WriteFill(t)
      <4>1. opened[t] = "yes" /\ fs[Target(t)] = Empty
        BY <1>0, <3>2 DEF WriteFill, SaversInv, Opens
      <4>2. QED
        BY <1>0, <2>1, <3>2, <4>1 DEF WriteFill, Filled, control, TypeOK
    <3>3. QED
      BY <1>4, <3>1, <3>2
  <2>5. \A c \in Copies : fs'[Data(c)] \in Values => fs'[Data(c)] \in Spare \cup {Saving}
    BY <2>3, <2>4, FilesDiffer, SettingsAssumption, SpareIs
  <2>6. Effective' \in Spare \cup {Saving}
    BY <1>1, <2>5 DEF ReadsAccepted
  <2>7. Spare' \subseteq Spare \cup {Saving}
    <3>1. SUFFICES ASSUME NEW v \in Values, NEW c \in Copies, v = fs'[Data(c)] \/ v = disk'[Data(c)]
                   PROVE  v \in Spare \cup {Saving}
      BY DEF Spare
    <3>2. v = fs'[Data(c)] \/ v = disk[Data(c)]
      BY <2>4, <3>1
    <3>3. QED
      BY <2>5, <3>1, <3>2, SpareIs
  <2>8. Saving' = Saving
    BY <2>4 DEF Saving
  <2>9. QED
    BY <2>3, <2>4, <2>6, <2>7, <2>8 DEF Register!Overwrite, Register!Slip, Saving, Spare
<1>5. ASSUME NEW t \in Threads, Verify1(t) \/ Verify2(t)
      PROVE  UNCHANGED <<Effective, Spare, Saving, booted, out>>
  <2>1. /\ UNCHANGED <<fs, disk, opened, owner, data, booted, out>>
        /\ \A u \in Threads \ {t} : todo'[u] = todo[u]
    BY <1>0, <1>5 DEF Verify1, Verify2, files, TypeOK
  <2>2. opened[t] = "no"
    BY <1>0, <1>5, SaversTarget DEF Verify1, Verify2, Ready
  <2>3. Effective' = Effective
    BY <1>0, <2>1, <2>2, EffectiveStays
  <2>4. QED
    BY <2>1, <2>3 DEF Spare, Saving
<1>6. ASSUME NEW t \in Threads, SaveReturns(t) PROVE Register!Return
  <2>1. phase[t] = "crc" /\ todo[t] = << >> /\ owner = t /\ owner' = NoThread
    BY <1>0, <1>6 DEF SaveReturns, Ready, SaversInv, Excluded, Writing
  <2>2. data[t] \in Values /\ Saving = data[t] /\ Saving # NoThread /\ Saving' = NoThread
    BY <1>0, <2>1, SettingsAssumption DEF SaversInv, TypeInv, SavesValue, Saving
  <2>3. \A u \in Threads : opened[u] = "no"
    BY <1>0, <2>1, SaversTarget
  <2>4. UNCHANGED <<fs, opened, todo, booted, out>> /\ disk' = fs
    BY <1>6 DEF SaveReturns, counters
  <2>5. Effective' = Effective
    BY <1>0, <2>4, EffectiveStays
  <2>6. Effective = data[t]
    <3>1. DisturbedByWriter
      BY <1>0, SaversDisturb
    <3>2. \A c \in Copies : ~Disturbed(c)
      BY <2>3, <3>1 DEF DisturbedByWriter
    <3>3. /\ fs[Crc("sys")] = data[t] /\ fs[Crc("ex")] = data[t]
          /\ fs[Data("sys")] = data[t] \/ fs[Data("ex")] = data[t]
      BY <1>0, <2>1 DEF SaversInv, SavesCrcs
    <3>4. QED
      BY <2>2, <3>2, <3>3, ReadsFirstTwo
  <2>7. Spare' = Spare
    <3>1. \A c \in Copies : disk[Data(c)] = fs[Data(c)]
      BY <2>3 DEF RegisterInv, Synced
    <3>2. \A c \in Copies : {fs[Data(c)], disk[Data(c)]}' = {fs[Data(c)], disk[Data(c)]}
      BY <2>4, <3>1
    <3>3. QED
      BY <3>2 DEF Spare
  <2>8. QED
    BY <2>2, <2>4, <2>5, <2>6, <2>7 DEF Register!Return, Saving, Spare
<1>7. CASE UNCHANGED vars
  <2>1. Effective' = Effective
    BY <1>0, <1>7, EffectiveStays DEF vars, local
  <2>2. QED
    BY <1>7, <2>1 DEF vars, local, Spare, Saving
<1>8. QED
  BY <1>0, <1>2, <1>3, <1>4, <1>5, <1>6, <1>7, SaversDo DEF Register!Next

LEMMA RegisterInit == Creatable /\ Init => Register!Init
<1> SUFFICES ASSUME Creatable, Init PROVE Register!Init
  OBVIOUS
<1>1. RegisterInv
  BY RegisterInvInit
<1>2. ReadsAccepted
  BY <1>1, EffectiveIs
<1>3. \A c \in Copies : fs[Data(c)] = Factory /\ disk[Data(c)] = Factory
  BY FilesDiffer DEF Init, Creatable, OnlySavers, Shipped
<1>4. Effective = Factory
  BY <1>2, <1>3 DEF ReadsAccepted
<1>5. Spare \in SUBSET {Factory}
  BY <1>3, SpareIs
<1>6. Saving = NoThread
  BY DEF Init, Saving
<1>7. booted = FALSE /\ out = NoResult
  BY DEF Init
<1>8. QED
  BY <1>4, <1>5, <1>6, <1>7 DEF Register!Init, Spare, Saving

\* Any number of threads that save the setting at once implement the register: the value
\* changes under a save only, to one the copies held or the one being saved; a save that
\* returns has taken effect, even if one of its data files stayed short for good.
THEOREM SaversRefineRegister == ASSUME Creatable PROVE Spec => RegisterSpec
<1>1. Init => Register!Init /\ RegisterInv
  BY RegisterInit, RegisterInvInit
<1>2. RegisterInv /\ [Next]_vars => RegisterInv'
  BY RegisterInvStep
<1>3. RegisterInv /\ [Next]_vars => [Register!Next]_<<Effective, Spare, Saving, booted, out>>
  BY RegisterStep
<1>4. Spec => Register!Init /\ [][Register!Next]_<<Effective, Spare, Saving, booted, out>>
  BY <1>1, <1>2, <1>3, PTL DEF Spec
<1>5. QED
  BY <1>4, PTL DEF RegisterSpec, Register!Spec, Register!vars, Spare, Saving
=============================================================================
