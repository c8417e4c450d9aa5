----------------------------- MODULE SettingsAdm -----------------------------
(***************************************************************************)
(* One setting kept by SettingsAdm (settings_adm.cxx) in four copies, each *)
(* a data file (.set) with a checksum file (.crc): sys and ex are written  *)
(* by SaveSetting, rsv and exrsv live in the "reserved" directories and    *)
(* are written only by the two Sync functions.  Threads save, load and     *)
(* synchronise the setting concurrently; only SaveSetting takes a mutex.   *)
(* The process may be killed and the power may fail at every step.         *)
(*                                                                         *)
(* A .crc file that holds v holds the crc32 of v; distinct contents are    *)
(* taken to have distinct, nonzero checksums.  The setting is one that is  *)
(* not in signedConfigs.                                                   *)
(***************************************************************************)
EXTENDS Integers, Sequences, FiniteSets

CONSTANTS Threads,       \* threads that call SettingsAdm
          BootThread,    \* the one that constructs Safe_storage
          Values,        \* complete contents of the setting
          Factory,       \* the content shipped in /etc/necron
          FactoryCrc,    \* is a .crc shipped beside it
          Commissioned,  \* have the four copies been made yet
          MaxTries,      \* retries of a data write (10 in SaveSetting)
          Asked,         \* Asked[t]: what t is asked: "load", "sync", "save"
          Faults,        \* errors considered, in SaveSetting "open", "crc" (a file
                         \* cannot be created) and "short" (bytes lost, and no error
                         \* seen), in CopyFile "copy" (of a data file), "copycrc"
          MaxFault,      \* bound on their number
          MaxSaves,      \* bound on the calls of SaveSetting
          MaxCrash       \* bound on kills and power failures

Absent == "absent"       \* there is no such file
Empty == "empty"         \* a file of 0 bytes; as a .crc it reads as 0
Torn == "torn"           \* some other bytes than one of Values

NoThread == "free"       \* the owner of the mutex when it is free

ASSUME SettingsAssumption ==
  /\ BootThread \in Threads /\ NoThread \notin Threads
  /\ Factory \in Values
  /\ Values \cap {Absent, Empty, Torn, NoThread} = {}
  /\ FactoryCrc \in BOOLEAN /\ Commissioned \in BOOLEAN
  /\ MaxTries \in Nat /\ MaxFault \in Nat /\ MaxSaves \in Nat /\ MaxCrash \in Nat
  /\ Asked \in [Threads -> SUBSET {"load", "sync", "save"}]
  /\ Faults \subseteq {"open", "short", "crc", "copy", "copycrc"}

Copies == {"sys", "ex", "rsv", "exrsv"}
Order == <<"sys", "ex", "rsv", "exrsv">>    \* of preference, in both Syncs
Files == Copies \X {"set", "crc"}
Content == Values \cup {Absent, Empty, Torn}

Data(c) == <<c, "set">>
Crc(c) == <<c, "crc">>

VARIABLES fs,       \* what the threads see in each file
          disk,     \* what is on the medium; sync() makes it equal to fs
          owner,    \* holder of CnT->SettingSave, or "free"
          booted,   \* InitGset has returned
          phase,    \* phase[t]: the function t is in
          step,     \* step[t]: where it is in CheckJSONInStorage
          pos,      \* pos[t]: the copy under check, or the number of tries
          seen,     \* seen[t]: the checksum read from the .crc file
          data,     \* data[t]: the rdata just read, or the content to save
          bad,      \* bad[t]: copies that failed the check (check[] in 4x4)
          todo,     \* todo[t]: file operations t has still to do
          opened,   \* opened[t]: has the first of them opened its target, and
                    \* is the file it opened still in the directory
          loading,  \* loading[t]: the lazy Sync was called by LoadSetting
          out,      \* result of the last LoadSetting
          acked,    \* content of the last save that returned NO_ERROR
          saves, faults, crashes

local == <<phase, step, pos, seen, data, bad, todo, opened, loading>>
vars == <<fs, disk, owner, booted, local, out, acked, saves, faults, crashes>>

NoResult == "none"
LoadError == "error"     \* LoadSetting returned ERROR and "{}"

(***************************************************************************)
(* File operations.  CopyFile and the writes of SaveSetting truncate the   *)
(* target when they open it and fill it in a later step.                   *)
(***************************************************************************)
Rm(f) == [op |-> "rm", src |-> f, dst |-> f]
Cp(f, g) == [op |-> "cp", src |-> f, dst |-> g]
Wr(f) == [op |-> "wr", src |-> f, dst |-> f]

Default == "default"     \* the read-only factory copy
FileOps == [op : {"rm", "cp", "wr"},
            src : (Copies \cup {Default}) \X {"set", "crc"}, dst : Files]

CopyPair(c, d) == <<Cp(Data(c), Data(d)), Cp(Crc(c), Crc(d))>>
Drop(c) == <<Rm(Data(c)), Rm(Crc(c))>>

Shipped(kind) == IF kind = "set" \/ FactoryCrc THEN Factory ELSE Absent

Read(f) == IF f[1] = Default THEN Shipped(f[2]) ELSE fs[f]

\* Deviation: the checksum is not compared.
AcceptsMismatch(crc, content) == content # Absent

\* CheckJSONInStorage: a missing .crc file lets every content pass.
Accepts(crc, content) == content # Absent /\ (crc = Absent \/ (crc = content /\ crc # Torn))

Phases == {"idle", "load", "reload", "equal", "lazy", "restored", "hung",
           "check4", "factory4", "fix", "lock", "write1", "write2", "crc"}

TypeOK ==
  /\ fs \in [Files -> Content] /\ disk \in [Files -> Content]
  /\ owner \in Threads \cup {NoThread}
  /\ booted \in BOOLEAN
  /\ phase \in [Threads -> Phases]
  /\ step \in [Threads -> {"crc", "data", "judge"}]
  /\ pos \in [Threads -> Nat]
  /\ seen \in [Threads -> Content] /\ data \in [Threads -> Content]
  /\ bad \in [Threads -> SUBSET Copies]
  /\ todo \in [Threads -> Seq(FileOps)]
  /\ opened \in [Threads -> {"no", "yes", "orphan"}]
  /\ loading \in [Threads -> BOOLEAN]
  /\ out \in Content \cup {NoResult, LoadError}
  /\ acked \in Values
  /\ saves \in 0..MaxSaves /\ faults \in 0..MaxFault /\ crashes \in 0..MaxCrash

Init ==
  /\ fs = [f \in Files |-> IF Commissioned THEN Shipped(f[2]) ELSE Absent]
  /\ disk = fs
  /\ owner = NoThread
  /\ booted = FALSE
  /\ phase = [t \in Threads |-> "idle"]
  /\ step = [t \in Threads |-> "crc"]
  /\ pos = [t \in Threads |-> 1]
  /\ seen = [t \in Threads |-> Absent]
  /\ data = [t \in Threads |-> Absent]
  /\ bad = [t \in Threads |-> {}]
  /\ todo = [t \in Threads |-> << >>]
  /\ opened = [t \in Threads |-> "no"]
  /\ loading = [t \in Threads |-> FALSE]
  /\ out = NoResult
  /\ acked = Factory
  /\ saves = 0 /\ faults = 0 /\ crashes = 0

\* The control state t moves to; a check that follows starts with the .crc file.
Enter(t, p, i) ==
  /\ phase' = [phase EXCEPT ![t] = p]
  /\ pos' = [pos EXCEPT ![t] = i]
  /\ step' = [step EXCEPT ![t] = "crc"]

Forget(t) == /\ seen' = [seen EXCEPT ![t] = Absent]
             /\ data' = [data EXCEPT ![t] = Absent]

-----------------------------------------------------------------------------
(***************************************************************************)
(* The file operations in todo[t], one step each; a copy or a write takes  *)
(* two, and another thread may unlink the target in between.               *)
(***************************************************************************)
Doing(t, op) == todo[t] # << >> /\ Head(todo[t]).op = op
Target(t) == Head(todo[t]).dst

control == <<owner, booted, phase, step, pos, seen, data, bad, loading, out, acked>>

\* RemoveFile: unlink and sync().
Remove(t) ==
  /\ Doing(t, "rm")
  /\ fs' = [fs EXCEPT ![Target(t)] = Absent]
  /\ disk' = fs'
  /\ opened' = [u \in Threads |->
                  IF opened[u] = "yes" /\ Target(u) = Target(t) THEN "orphan" ELSE opened[u]]
  /\ todo' = [todo EXCEPT ![t] = Tail(@)]
  /\ UNCHANGED <<control, saves, faults, crashes>>

\* CopyFile up to the open of the target, left alone when the source is missing.
CopyOpen(t) ==
  /\ Doing(t, "cp") /\ opened[t] = "no"
  /\ IF Read(Head(todo[t]).src) = Absent
     THEN /\ todo' = [todo EXCEPT ![t] = Tail(@)]
          /\ UNCHANGED <<fs, opened>>
     ELSE /\ fs' = [fs EXCEPT ![Target(t)] = Empty]
          /\ opened' = [opened EXCEPT ![t] = "yes"]
          /\ UNCHANGED todo
  /\ UNCHANGED <<disk, control, saves, faults, crashes>>

\* What a file holds once v is written through a handle opened earlier: over
\* bytes another thread wrote meanwhile, v may leave a tail of them.
Filled(t, v) ==
  IF opened[t] = "orphan" \/ v = Empty THEN {fs[Target(t)]}
  ELSE IF fs[Target(t)] = Empty THEN {v} ELSE {v, Torn}

\* The rest of CopyFile: read the source, write, sync().
CopyFill(t) ==
  /\ Doing(t, "cp") /\ opened[t] # "no"
  /\ LET src == Read(Head(todo[t]).src)
     IN \E c \in Filled(t, IF src = Absent THEN Empty ELSE src) :
          fs' = [fs EXCEPT ![Target(t)] = c]
  /\ disk' = fs'
  /\ opened' = [opened EXCEPT ![t] = "no"]
  /\ todo' = [todo EXCEPT ![t] = Tail(@)]
  /\ UNCHANGED <<control, saves, faults, crashes>>

Fault(kind) == kind \in Faults /\ faults < MaxFault /\ faults' = faults + 1

\* CopyFile fails: the target cannot be created, the source cannot be opened once the
\* target is, or the copy falls short.  No caller looks at what it returns.
CopyFails(t) ==
  /\ Doing(t, "cp") /\ Read(Head(todo[t]).src) # Absent
  /\ Fault(IF Target(t)[2] = "set" THEN "copy" ELSE "copycrc")
  /\ \/ UNCHANGED fs
     \/ /\ opened[t] # "no"
        /\ \E c \in Filled(t, Torn) : fs' = [fs EXCEPT ![Target(t)] = c]
  /\ disk' = fs'
  /\ opened' = [opened EXCEPT ![t] = "no"]
  /\ todo' = [todo EXCEPT ![t] = Tail(@)]
  /\ UNCHANGED <<control, saves, crashes>>

WriteOpen(t) ==
  /\ Doing(t, "wr") /\ opened[t] = "no"
  /\ fs' = [fs EXCEPT ![Target(t)] = Empty]
  /\ opened' = [opened EXCEPT ![t] = "yes"]
  /\ UNCHANGED <<disk, todo, control, saves, faults, crashes>>

\* Deviation: the catch clause forgets the mutex.
DataOpenFailsLocked(t) ==
  /\ Doing(t, "wr") /\ opened[t] = "no" /\ phase[t] \in {"write1", "write2"}
  /\ Fault("open")
  /\ disk' = fs
  /\ todo' = [todo EXCEPT ![t] = << >>]
  /\ Enter(t, "idle", 1) /\ Forget(t)
  /\ UNCHANGED <<fs, owner, booted, bad, opened, loading, out, acked, saves, crashes>>

\* throw 4 and throw 3: a data file cannot be created, SaveSetting fails.
DataOpenFails(t) ==
  /\ Doing(t, "wr") /\ opened[t] = "no" /\ phase[t] \in {"write1", "write2"}
  /\ Fault("open")
  /\ disk' = fs
  /\ todo' = [todo EXCEPT ![t] = << >>]
  /\ owner' = NoThread
  /\ Enter(t, "idle", 1) /\ Forget(t)
  /\ UNCHANGED <<fs, booted, bad, opened, loading, out, acked, saves, crashes>>

\* A .crc file cannot be written: the code tests file1 in place of file1crc and
\* file2crc, so it goes on and nothing is written.
CrcOpenFails(t) ==
  /\ Doing(t, "wr") /\ opened[t] = "no" /\ phase[t] = "crc"
  /\ Fault("crc")
  /\ todo' = [todo EXCEPT ![t] = Tail(@)]
  /\ UNCHANGED <<fs, disk, opened, control, saves, crashes>>

\* A write of SaveSetting; it may fall short.  Only the data files are followed
\* by a sync() of their own.
WriteFill(t) ==
  /\ Doing(t, "wr") /\ opened[t] # "no"
  /\ \/ /\ UNCHANGED faults
        /\ \E c \in Filled(t, data[t]) : fs' = [fs EXCEPT ![Target(t)] = c]
     \/ /\ phase[t] # "crc" /\ Fault("short")
        /\ \E c \in Filled(t, Torn) : fs' = [fs EXCEPT ![Target(t)] = c]
  /\ disk' = IF phase[t] = "crc" THEN disk ELSE fs'
  /\ opened' = [opened EXCEPT ![t] = "no"]
  /\ todo' = [todo EXCEPT ![t] = Tail(@)]
  /\ UNCHANGED <<control, saves, crashes>>

-----------------------------------------------------------------------------
(***************************************************************************)
(* CheckJSONInStorage: read the .crc file, read the data file, decide.     *)
(***************************************************************************)
Checking == {"load", "reload", "lazy", "restored", "check4", "factory4"}
Ready(t, p) == phase[t] = p /\ todo[t] = << >>
Checked(t) == IF phase[t] \in {"lazy", "check4"} THEN Order[pos[t]] ELSE "sys"

files == <<fs, disk, opened>>
counters == <<saves, faults, crashes>>

\* A .crc file that reads as 0 is corrupt: it goes, and the data file with it.
CheckCrc(t) ==
  /\ phase[t] \in Checking /\ todo[t] = << >> /\ step[t] = "crc"
  /\ seen' = [seen EXCEPT ![t] = fs[Crc(Checked(t))]]
  /\ IF fs[Crc(Checked(t))] = Empty
     THEN /\ todo' = [todo EXCEPT ![t] = <<Rm(Crc(Checked(t))), Rm(Data(Checked(t)))>>]
          /\ data' = [data EXCEPT ![t] = Absent]
          /\ step' = [step EXCEPT ![t] = "judge"]
     ELSE /\ step' = [step EXCEPT ![t] = "data"]
          /\ UNCHANGED <<todo, data>>
  /\ UNCHANGED <<files, owner, booted, phase, pos, bad, loading, out, acked, counters>>

\* A data file of 0 bytes is removed, and judged all the same.
CheckData(t) ==
  /\ phase[t] \in Checking /\ todo[t] = << >> /\ step[t] = "data"
  /\ data' = [data EXCEPT ![t] = fs[Data(Checked(t))]]
  /\ step' = [step EXCEPT ![t] = "judge"]
  /\ todo' = [todo EXCEPT ![t] =
                IF fs[Data(Checked(t))] = Empty THEN <<Rm(Data(Checked(t)))>> ELSE << >>]
  /\ UNCHANGED <<files, owner, booted, phase, pos, seen, bad, loading, out, acked, counters>>

Judging(t, p) == Ready(t, p) /\ step[t] = "judge"
Passed(t) == Accepts(seen[t], data[t])

(***************************************************************************)
(* LoadSetting and SyncGsetOneSettingLazy.                                 *)
(***************************************************************************)
MayStart(t) == Ready(t, "idle") /\ (booted \/ t = BootThread)

LoadSetting(t) ==
  /\ MayStart(t)
  /\ Enter(t, "load", 1)
  /\ loading' = [loading EXCEPT ![t] = TRUE]
  /\ UNCHANGED <<files, owner, booted, seen, data, bad, todo, out, acked, counters>>

Return(t, result) ==
  /\ out' = result
  /\ Enter(t, "idle", 1) /\ Forget(t)
  /\ loading' = [loading EXCEPT ![t] = FALSE]
  /\ UNCHANGED <<files, owner, booted, bad, todo, acked, counters>>

LoadFirst(t) ==
  /\ Judging(t, "load")
  /\ IF Passed(t)
     THEN Return(t, data[t])
     ELSE /\ Enter(t, "equal", 1) /\ Forget(t)
          /\ UNCHANGED <<files, owner, booted, bad, todo, loading, out, acked, counters>>

LoadSecond(t) ==
  /\ Judging(t, "reload")
  /\ Return(t, IF Passed(t) THEN data[t] ELSE LoadError)

\* The timer of Safe_storage; SyncGsetSettings visits the .set files it finds in sys.
SyncGsetSettings(t) ==
  /\ MayStart(t) /\ booted
  /\ fs[Data("sys")] # Absent
  /\ Enter(t, "equal", 1)
  /\ UNCHANGED <<files, owner, booted, seen, data, bad, todo, loading, out, acked, counters>>

\* Where the lazy Sync returns to.
Caller(t) == IF loading[t] THEN "reload" ELSE "idle"

\* equalFiles(sys, rsv) looks at the data files only.  Files of 0 bytes are never
\* equal, torn ones may be; when both are missing it compares two uninitialised
\* buffers, and never ends if they are equal.
EqualFiles(t) ==
  LET a == fs[Data("sys")]  b == fs[Data("rsv")]
  IN /\ Ready(t, "equal")
     /\ \/ /\ a = b /\ a \notin {Absent, Empty}
           /\ Enter(t, Caller(t), 1)
        \/ /\ a # b \/ a \in {Absent, Empty, Torn}
           /\ Enter(t, "lazy", 1)
        \/ /\ a = Absent /\ b = Absent
           /\ Enter(t, "hung", 1)
     /\ UNCHANGED <<files, owner, booted, seen, data, bad, todo, loading, out, acked, counters>>

\* Deviations of Restore: the mirror goes to the other reserve, overwrites the factory
\* copy, or leaves the data behind.
RestoreIntoExrsv(c) == CASE c = "sys" -> CopyPair("sys", "exrsv")
                         [] c = "ex" -> CopyPair("ex", "sys")
                         [] OTHER -> CopyPair(c, "sys") \o CopyPair("exrsv", "ex")
RestoreIntoDefault(c) == IF c = "sys" THEN CopyPair("sys", Default) ELSE CopyPair(c, "sys")
RestoreCrcOnly(c) == IF c = "sys" THEN <<Cp(Crc("sys"), Crc("rsv"))>> ELSE CopyPair(c, "sys")

\* What the lazy Sync copies once a copy has passed the check.
Restore(c) ==
  CASE c = "sys" -> CopyPair("sys", "rsv")
    [] c = "ex" -> CopyPair("ex", "sys")
    [] c = "rsv" -> CopyPair("rsv", "sys") \o CopyPair("exrsv", "ex")
    [] c = "exrsv" -> CopyPair("exrsv", "sys") \o CopyPair("exrsv", "ex")
                        \o CopyPair("exrsv", "rsv")

LazyFactorySkipsSys == CopyPair(Default, "rsv") \o CopyPair(Default, "ex")
                         \o CopyPair(Default, "exrsv")

LazyFactory == CopyPair(Default, "sys") \o CopyPair(Default, "rsv")
                 \o CopyPair(Default, "ex") \o CopyPair(Default, "exrsv")

\* Deviation: the reserves are never tried.
LazyJudgeTwo(t) ==
  /\ Judging(t, "lazy")
  /\ IF Passed(t)
     THEN /\ todo' = [todo EXCEPT ![t] = Restore(Order[pos[t]])]
          /\ Enter(t, Caller(t), 1)
     ELSE IF pos[t] < 2
     THEN /\ todo' = [todo EXCEPT ![t] = Drop(Order[pos[t]])]
          /\ Enter(t, "lazy", pos[t] + 1)
     ELSE /\ todo' = [todo EXCEPT ![t] = Drop(Order[pos[t]]) \o LazyFactory]
          /\ Enter(t, "restored", 1)
  /\ Forget(t)
  /\ UNCHANGED <<files, owner, booted, bad, loading, out, acked, counters>>

\* A copy that fails the check is removed, and the next one is tried.
LazyJudge(t) ==
  /\ Judging(t, "lazy")
  /\ LET c == Order[pos[t]]
     IN IF Passed(t)
        THEN /\ todo' = [todo EXCEPT ![t] = Restore(c)]
             /\ Enter(t, Caller(t), 1)
        ELSE IF pos[t] < Len(Order)
        THEN /\ todo' = [todo EXCEPT ![t] = Drop(c)]
             /\ Enter(t, "lazy", pos[t] + 1)
        ELSE /\ todo' = [todo EXCEPT ![t] = Drop(c) \o LazyFactory]
             /\ Enter(t, "restored", 1)
  /\ Forget(t)
  /\ UNCHANGED <<files, owner, booted, bad, loading, out, acked, counters>>

\* The factory copy is checked too, and removed when it fails.
LazyRestored(t) ==
  /\ Judging(t, "restored")
  /\ todo' = [todo EXCEPT ![t] = IF Passed(t) THEN << >> ELSE Drop("sys")]
  /\ Enter(t, Caller(t), 1) /\ Forget(t)
  /\ UNCHANGED <<files, owner, booted, bad, loading, out, acked, counters>>

(***************************************************************************)
(* InitGset: SyncGsetOneSetting4x4 for the setting, if sys has a data file *)
(***************************************************************************)
InitGset(t) ==
  /\ t = BootThread /\ ~booted /\ Ready(t, "idle")
  /\ IF fs[Data("sys")] = Absent
     THEN booted' = TRUE /\ UNCHANGED <<phase, pos, step>>
     ELSE Enter(t, "check4", 1) /\ UNCHANGED booted
  /\ UNCHANGED <<files, owner, seen, data, bad, todo, loading, out, acked, counters>>

FirstGood(failed) == Order[CHOOSE i \in 1..4 :
                             /\ Order[i] \notin failed
                             /\ \A j \in 1..(i-1) : Order[j] \in failed]

RemoveAllCrc == <<Rm(Crc("sys")), Rm(Crc("ex")), Rm(Crc("rsv")), Rm(Crc("exrsv"))>>

\* The good copy over a failed one; a good copy without .crc file costs every
\* copy its own.  (A good copy whose .crc is of 0 bytes has just failed the check.)
Fix(good, c) ==
  <<Cp(Data(good), Data(c))>> \o
    (CASE fs[Crc(good)] = Absent -> RemoveAllCrc
       [] fs[Crc(good)] = Empty -> <<Rm(Crc(good))>>
       [] OTHER -> <<Cp(Crc(good), Crc(c))>>)

FixAll(failed) ==
  LET good == FirstGood(failed)
      one(c) == IF c \in failed THEN Fix(good, c) ELSE << >>
  IN one("sys") \o one("ex") \o one("rsv") \o one("exrsv")

Factory4 == CopyPair(Default, "sys") \o CopyPair(Default, "ex")
              \o CopyPair(Default, "rsv") \o CopyPair(Default, "exrsv")

\* All four copies are checked before any is repaired.
Judge4x4(t) ==
  /\ Judging(t, "check4")
  /\ LET failed == IF Passed(t) THEN bad[t] ELSE bad[t] \cup {Order[pos[t]]}
     IN IF pos[t] < Len(Order)
        THEN /\ bad' = [bad EXCEPT ![t] = failed]
             /\ Enter(t, "check4", pos[t] + 1)
             /\ UNCHANGED todo
        ELSE /\ bad' = [bad EXCEPT ![t] = {}]
             /\ IF failed = Copies
                THEN /\ todo' = [todo EXCEPT ![t] = Factory4]
                     /\ Enter(t, "factory4", 1)
                ELSE /\ todo' = [todo EXCEPT ![t] = FixAll(failed)]
                     /\ Enter(t, "fix", 1)
  /\ Forget(t)
  /\ UNCHANGED <<files, owner, booted, loading, out, acked, counters>>

\* The verdict on the factory copy is only logged.
InitGsetReturns(t) ==
  /\ Ready(t, "fix") \/ Judging(t, "factory4")
  /\ booted' = TRUE
  /\ Enter(t, "idle", 1) /\ Forget(t)
  /\ UNCHANGED <<files, owner, bad, todo, loading, out, acked, counters>>

-----------------------------------------------------------------------------
(***************************************************************************)
(* SaveSetting.                                                            *)
(***************************************************************************)
SaveSetting(t) ==
  /\ MayStart(t) /\ booted /\ saves < MaxSaves
  /\ \E v \in Values : data' = [data EXCEPT ![t] = v]
  /\ saves' = saves + 1
  /\ Enter(t, "lock", 1)
  /\ UNCHANGED <<files, owner, booted, seen, bad, todo, loading, out, acked, faults, crashes>>

Lock(t) ==
  /\ phase[t] = "lock" /\ owner = NoThread
  /\ owner' = t
  /\ todo' = [todo EXCEPT ![t] = <<Wr(Data("sys"))>>]
  /\ Enter(t, "write1", 1)
  /\ UNCHANGED <<files, booted, seen, data, bad, loading, out, acked, counters>>

\* A data file that does not read back is written again; write number MaxTries + 1
\* is not read back.
Saved(t, f) == pos[t] > MaxTries \/ fs[f] = data[t]

\* Deviation: the checksum of sys is written before the data of ex.
Verify1Eager(t) ==
  /\ Ready(t, "write1")
  /\ IF Saved(t, Data("sys"))
     THEN /\ todo' = [todo EXCEPT ![t] = <<Wr(Crc("sys")), Wr(Data("ex"))>>]
          /\ Enter(t, "write2", 1)
     ELSE /\ todo' = [todo EXCEPT ![t] = <<Wr(Data("sys"))>>]
          /\ Enter(t, "write1", pos[t] + 1)
  /\ UNCHANGED <<files, owner, booted, seen, data, bad, loading, out, acked, counters>>

Verify1(t) ==
  /\ Ready(t, "write1")
  /\ IF Saved(t, Data("sys"))
     THEN /\ todo' = [todo EXCEPT ![t] = <<Wr(Data("ex"))>>]
          /\ Enter(t, "write2", 1)
     ELSE /\ todo' = [todo EXCEPT ![t] = <<Wr(Data("sys"))>>]
          /\ Enter(t, "write1", pos[t] + 1)
  /\ UNCHANGED <<files, owner, booted, seen, data, bad, loading, out, acked, counters>>

Verify2(t) ==
  /\ Ready(t, "write2")
  /\ IF Saved(t, Data("ex"))
     THEN /\ todo' = [todo EXCEPT ![t] = <<Wr(Crc("sys")), Wr(Crc("ex"))>>]
          /\ Enter(t, "crc", 1)
     ELSE /\ todo' = [todo EXCEPT ![t] = <<Wr(Data("ex"))>>]
          /\ Enter(t, "write2", pos[t] + 1)
  /\ UNCHANGED <<files, owner, booted, seen, data, bad, loading, out, acked, counters>>

\* Deviation: the checksums are not synced before the caller is told.
SaveReturnsUnsynced(t) ==
  /\ Ready(t, "crc")
  /\ owner' = NoThread
  /\ acked' = data[t]
  /\ Enter(t, "idle", 1) /\ Forget(t)
  /\ UNCHANGED <<files, booted, bad, todo, loading, out, counters>>

SaveReturns(t) ==
  /\ Ready(t, "crc")
  /\ disk' = fs
  /\ owner' = NoThread
  /\ acked' = data[t]
  /\ Enter(t, "idle", 1) /\ Forget(t)
  /\ UNCHANGED <<fs, opened, booted, bad, todo, loading, out, counters>>

-----------------------------------------------------------------------------
(***************************************************************************)
(* The process is killed, or the power fails: of each file that sync() has *)
(* not reached, the old bytes, the new ones or neither remain.             *)
(***************************************************************************)
Restart ==
  /\ crashes < MaxCrash
  /\ crashes' = crashes + 1
  /\ owner' = NoThread /\ booted' = FALSE
  /\ phase' = [t \in Threads |-> "idle"] /\ step' = [t \in Threads |-> "crc"]
  /\ pos' = [t \in Threads |-> 1]
  /\ seen' = [t \in Threads |-> Absent] /\ data' = [t \in Threads |-> Absent]
  /\ bad' = [t \in Threads |-> {}]
  /\ todo' = [t \in Threads |-> << >>] /\ opened' = [t \in Threads |-> "no"]
  /\ loading' = [t \in Threads |-> FALSE]
  /\ UNCHANGED <<out, acked, saves, faults>>

Kill == Restart /\ UNCHANGED <<fs, disk>>

PowerFailure ==
  LET dirty == {f \in Files : fs[f] # disk[f]}
  IN /\ Restart
     /\ \E kept \in [dirty -> {"old", "new", "torn"}] :
          fs' = [f \in Files |->
                   CASE f \notin dirty -> fs[f]
                     [] f \in dirty /\ kept[f] = "old" -> disk[f]
                     [] f \in dirty /\ kept[f] = "new" -> fs[f]
                     [] f \in dirty /\ kept[f] = "torn" -> Torn]
     /\ disk' = fs'

FileStep(t) == Remove(t) \/ CopyOpen(t) \/ CopyFill(t) \/ CopyFails(t) \/ WriteOpen(t)
                 \/ WriteFill(t) \/ DataOpenFails(t) \/ CrcOpenFails(t)
Work(t) == \/ FileStep(t) \/ CheckCrc(t) \/ CheckData(t)
           \/ LoadFirst(t) \/ LoadSecond(t)
           \/ EqualFiles(t) \/ LazyJudge(t) \/ LazyRestored(t)
           \/ InitGset(t) \/ Judge4x4(t) \/ InitGsetReturns(t)
           \/ Lock(t) \/ Verify1(t) \/ Verify2(t) \/ SaveReturns(t)
Request(t) == \/ "load" \in Asked[t] /\ LoadSetting(t)
              \/ "sync" \in Asked[t] /\ SyncGsetSettings(t)
              \/ "save" \in Asked[t] /\ SaveSetting(t)

Next == \/ \E t \in Threads : Work(t) \/ Request(t)
        \/ Kill \/ PowerFailure

Spec == Init /\ [][Next]_vars

-----------------------------------------------------------------------------
(***************************************************************************)
(* Properties.                                                             *)
(***************************************************************************)
\* A thread has the data file open for writing, is about to remove it, or has yet to
\* copy the .crc file that goes with it.
Disturbed(c) ==
  \E t \in Threads :
    \/ opened[t] # "no" /\ Target(t) = Data(c)
    \/ \E i \in 1..Len(todo[t]) :
         todo[t][i] = Rm(Data(c)) \/ (todo[t][i].op = "cp" /\ todo[t][i].dst = Crc(c))

Accepted(c) == Accepts(fs[Crc(c)], fs[Data(c)]) /\ ~Disturbed(c)

\* What a load or a restart would make of the files as they are: the first copy
\* that passes the check, in the order both Syncs use, or the factory content.
Effective ==
  IF \A c \in Copies : ~Accepted(c) THEN Factory
  ELSE fs[Data(FirstGood({c \in Copies : ~Accepted(c)}))]

Register == INSTANCE SettingRegister WITH
  NoSave <- NoThread,
  value <- Effective,
  ready <- booted,
  spare <- Values \cap UNION {{fs[Data(c)], disk[Data(c)]} : c \in Copies},
  saving <- IF owner = NoThread THEN NoThread ELSE data[owner]

\* With one crash at any point, writes that succeed when they are retried and copies
\* that do not fail, for threads that only save or a single one that also loads and
\* synchronises: the four copies behave as the register.  No load, no Sync and no restart
\* changes the setting, a save that returned is durable, an interrupted one leaves one
\* of the values kept, and a load returns the value, never a mixture.
RegisterSpec == Register!Spec

\* The fourth copy survives whatever the threads, the crashes and the errors of writes
\* and copies do: it always passes the check.
ExrsvIntact == /\ fs[Data("exrsv")] = Factory
               /\ fs[Crc("exrsv")] \in {Factory, Absent}

\* Hence, on a commissioned device, no Sync ever finds all four copies corrupt and
\* resets the setting to the factory content.
NeverReset == \A t \in Threads : phase[t] \notin {"restored", "factory4"}

\* Without a crash, whatever opens fail and whoever else saves, the copies hold the
\* last value whose save returned NO_ERROR as soon as no save is running,
\* a save that failed in between notwithstanding.
AckedHolds == owner = NoThread => Effective = acked

\* Without a crash, and while CopyFile can copy .crc files: whatever data files a save
\* gives up after its retries, whatever save fails, whatever .crc file it cannot write
\* and whatever restoring copy of a data file is then cut short, no load returns a
\* mixture of old and new bytes.
LoadsWhole == out \in Values \cup {NoResult, LoadError}

\* Whatever a crash leaves of the copies, even of those being made for the first
\* time, a load finds something once InitGset has been through them without an error
\* of CopyFile.
LoadSucceeds == [][booted /\ out' # out => out' # LoadError]_vars

\* Threads run, and SAST's timer goes off again and again.
Fairness ==
  /\ \A t \in Threads : WF_vars(Work(t))
  /\ \A t \in Threads : "sync" \in Asked[t] => SF_vars(SyncGsetSettings(t))
  /\ SF_vars(InitGset(BootThread))
FairSpec == Spec /\ Fairness

\* A SaveSetting that waits for the mutex gets it, whatever errors the one that
\* has it meets.
SaveGetsMutex == \A t \in Threads : phase[t] = "lock" ~> owner = t

\* When saves and crashes have stopped, sys passes the check and rsv has its content.
Converges == <>[](booted /\ fs[Data("sys")] = fs[Data("rsv")] /\
                    Accepts(fs[Crc("sys")], fs[Data("sys")]))
=============================================================================
