----------------------------- MODULE SqliteLog -----------------------------
(***************************************************************************)
(* The safe logger's SQLite store (logger/algo_sqlite.cxx, .h): one thread *)
(* writes every message to the main database and queues the same statement *)
(* for the reserve on another medium.  A timer replays the queue.  A       *)
(* database that fails is closed; the next tick then destroys the store    *)
(* and builds it anew, and the constructor copies the database that holds  *)
(* the newer row over the other one.  Media are damaged, statements fail   *)
(* and the process dies at any point.                                      *)
(*                                                                         *)
(* A row is its time stamp m, which grows with every message.  A change of *)
(* the columns (CheckColumns) and "vacuum" requests take no room here.     *)
(***************************************************************************)
EXTENDS Naturals, FiniteSets, Sequences, SequencesExt, FiniteSetsExt

CONSTANTS
  MaxRows,      \* bound: messages the program is given
  MaxItems,     \* sqal_max_items
  RemoveItems,  \* sqal_remove_items
  MaxReplic,    \* max_replic_size, in requests
  MaxFaults     \* bound: faults of one behaviour

ASSUME SqliteLogAssumption ==
  /\ {MaxRows, MaxItems, RemoveItems, MaxReplic} \subseteq Nat \ {0}
  /\ MaxFaults \in Nat

Row == 1..MaxRows
Delete == 0          \* the request "DELETE the oldest RemoveItems rows"
Db == {"main", "rsv"}

VARIABLES
  rows,     \* what each database file holds
  damaged,  \* the files whose content cannot be read
  open,     \* the databases with a handle (db != 0)
  replic,   \* requests not yet replayed on the reserve
  doClean,  \* do_clean
  pc,       \* where the logger's thread is
  next,     \* the next message
  faults,   \* faults so far
  saved,    \* history: rows the main database took
  removed,  \* history: rows the program asked the main database to delete
  luck      \* history: "calm", "struck" by one fault, or "excused"

store == <<rows, damaged, open>>
vars == <<rows, damaged, open, replic, doClean, pc, next, faults, saved, removed, luck>>

Readable(d) == IF d \in damaged THEN {} ELSE rows[d]
Newest(s) == IF s = {} THEN 0 ELSE Max(s)
Oldest(s) == {r \in s : Cardinality({q \in s : q < r}) < RemoveItems}

(* A request, and what the first requests of q make of the rows s. *)
Execute(r, s) == IF r = Delete THEN s \ Oldest(s) ELSE s \union {r}
Replayed(s, q) ==
  LET after[n \in 0..Len(q)] == IF n = 0 THEN s ELSE Execute(q[n], after[n - 1])
  IN  after

Fault == faults < MaxFaults /\ faults' = faults + 1
Faultless == UNCHANGED faults

(* The second fault since the last start excuses a loss. *)
Struck ==
  luck' = IF faults' = faults THEN luck
          ELSE IF luck = "calm" THEN "struck" ELSE "excused"
Excused == luck' = "excused"

(* sq_exec_db: a statement runs; or it fails and the handle is closed; or  *)
(* the database stays busy through 50 tries; or there is no handle.        *)
Works(d) == d \in open /\ d \notin damaged
Fails(d) ==
  \/ Works(d) /\ Fault /\ open' \in {open, open \ {d}}
  \/ d \in open \intersect damaged /\ Faultless /\ open' = open \ {d}
  \/ d \notin open /\ Faultless /\ open' = open

(* replication: the queue is replayed up to a statement that fails, and is *)
(* forgotten in any case.                                                  *)
Replay ==
  /\ replic' = <<>>
  /\ \E n \in 0..Len(replic) :
       /\ n > 0 => Works("rsv")
       /\ rows' = [rows EXCEPT !.rsv = Replayed(@, replic)[n]]
       /\ IF n = Len(replic) THEN Faultless /\ open' = open ELSE Fails("rsv")

(* A reserve that is closed will be built anew; one that was only busy     *)
(* keeps the hole.                                                         *)
Replication ==
  /\ Replay
  /\ IF faults' # faults /\ "rsv" \in open' THEN Excused ELSE Struck

\* Deviation: the size of the queue is not looked at.
ReserveUnbounded(request) ==
  /\ replic' = Append(replic, request)
  /\ UNCHANGED <<rows, open, faults, luck>>

(* sq_exec_rep, first half: a request that finds the queue full makes it   *)
(* empty, and is not queued itself.                                        *)
Reserve(request) ==
  IF Len(replic) < MaxReplic
    THEN replic' = Append(replic, request) /\ UNCHANGED <<rows, open, faults, luck>>
    ELSE Replay /\ Excused

-----------------------------------------------------------------------------
TypeOK ==
  /\ rows \in [Db -> SUBSET Row] /\ damaged \subseteq Db /\ open \subseteq Db
  /\ replic \in Seq(Row \union {Delete}) /\ Len(replic) <= MaxReplic
  /\ doClean \in BOOLEAN /\ pc \in {"down", "idle", "insert", "clean", "delete"}
  /\ next \in 1..MaxRows + 1 /\ faults \in 0..MaxFaults
  /\ saved \subseteq Row /\ removed \subseteq Row
  /\ luck \in {"calm", "struck", "excused"}

Init ==
  /\ rows = [d \in Db |-> {}] /\ damaged = {} /\ open = {} /\ replic = <<>>
  /\ doClean = FALSE /\ pc = "down" /\ next = 1 /\ faults = 0
  /\ saved = {} /\ removed = {} /\ luck = "calm"

(* save -> SaveValues -> sq_exec_rep: the request is queued first. *)
Save ==
  /\ pc = "idle" /\ "main" \in open /\ next <= MaxRows
  /\ Reserve(next)
  /\ pc' = "insert"
  /\ UNCHANGED <<damaged, doClean, next, saved, removed>>

SaveRefused ==
  /\ pc = "idle" /\ "main" \notin open /\ next <= MaxRows
  /\ next' = next + 1
  /\ UNCHANGED <<store, replic, doClean, pc, faults, saved, removed, luck>>

InsertDone ==
  /\ pc = "insert" /\ Works("main")
  /\ rows' = [rows EXCEPT !.main = @ \union {next}]
  /\ saved' = saved \union {next}
  /\ next' = next + 1 /\ pc' = "clean"
  /\ UNCHANGED <<damaged, open, replic, doClean, faults, removed, luck>>

InsertFails ==
  /\ pc = "insert" /\ Fails("main") /\ Struck
  /\ next' = next + 1 /\ pc' = "idle"
  /\ UNCHANGED <<rows, damaged, replic, doClean, saved, removed>>

(* Clean: rows are counted, and the oldest go while the table is too long  *)
(* or a medium has little room.  A count that fails is 0.                  *)
Total == IF "main" \in open THEN Cardinality(rows.main) ELSE 0
Counted == "main" \in open => Works("main")

CountFails ==
  /\ pc = "clean" /\ "main" \in open /\ Fails("main") /\ Struck
  /\ \/ "main" \notin open' /\ UNCHANGED pc
     \/ open' = open /\ ~doClean /\ pc' = "idle"
  /\ UNCHANGED <<rows, damaged, replic, doClean, next, saved, removed>>

CleanEnds ==
  /\ pc = "clean" /\ Counted /\ ~doClean /\ Total <= MaxItems
  /\ pc' = "idle"
  /\ UNCHANGED <<store, replic, doClean, next, faults, saved, removed, luck>>

CleanBegins ==
  /\ pc = "clean" /\ Counted
  /\ \E low \in BOOLEAN : doClean \/ Total > MaxItems \/ (low /\ Total # 0)
  /\ doClean' = TRUE
  /\ Reserve(Delete)
  /\ removed' = removed \union Oldest(rows.main)
  /\ pc' = "delete"
  /\ UNCHANGED <<damaged, next, saved>>

(* RemoveFirstItems: the rows are deleted, then "vacuum" may fail.  A      *)
(* DELETE that fails here is replayed on the reserve all the same.         *)
DeleteDone ==
  /\ pc = "delete" /\ Works("main")
  /\ rows' = [rows EXCEPT !.main = @ \ Oldest(@)]
  /\ \/ doClean' = FALSE /\ pc' = "clean" /\ Faultless /\ UNCHANGED open
     \/ Fails("main") /\ pc' = "idle" /\ UNCHANGED doClean
  /\ Struck
  /\ UNCHANGED <<damaged, replic, next, saved, removed>>

DeleteFails ==
  /\ pc = "delete" /\ Fails("main")
  /\ IF faults' # faults THEN Excused ELSE Struck
  /\ pc' = "idle"
  /\ UNCHANGED <<rows, damaged, replic, doClean, next, saved, removed>>

\* Deviation: only a full queue is replayed.
TimerWhenFull ==
  /\ pc = "idle" /\ Len(replic) = MaxReplic
  /\ Replication
  /\ UNCHANGED <<damaged, doClean, pc, next, saved, removed>>

(* tick: the timer of the replication. *)
Timer ==
  /\ pc = "idle" /\ replic # <<>>
  /\ Replication
  /\ UNCHANGED <<damaged, doClean, pc, next, saved, removed>>

\* Deviation: the destructor only closes.
DestroySilently ==
  /\ pc = "idle" /\ pc' = "down" /\ replic' = <<>>
  /\ UNCHANGED <<store, doClean, next, faults, saved, removed, luck>>

(* ~algo_sqlite: the queue is replayed and the handles go. *)
Destroy ==
  /\ pc = "idle" /\ pc' = "down"
  /\ Replication
  /\ UNCHANGED <<damaged, doClean, next, saved, removed>>

\* Deviation: tick looks at the main database only.
RestartOfMain == "main" \notin open /\ Destroy

(* tick finds a database closed: safelogger_server::restart. *)
Restart == open # Db /\ Destroy

(* The message LOG_TERM_STRING: force_exit. *)
Stop == open = Db /\ Destroy

(* The constructor: a file that cannot be read is removed, and the newer   *)
(* database is copied over the other one.  When check_db's first statement *)
(* fails in passing a good file is removed, and when GetMinMax fails its   *)
(* newest row counts as 0: either is Damage to the file before it.         *)
Fresh == /\ doClean' = FALSE /\ replic' = <<>> /\ damaged' = {}
         /\ UNCHANGED <<next, saved, removed>>
MainIsNewer == Newest(Readable("main")) > Newest(Readable("rsv"))
RsvIsNewer == Newest(Readable("rsv")) > Newest(Readable("main"))
Cleans == pc' = IF Readable("main") # {} THEN "clean" ELSE "idle"

Construct ==
  /\ pc = "down"
  /\ rows' = [d \in Db |-> CASE MainIsNewer -> Readable("main")
                             [] RsvIsNewer -> Readable("rsv")
                             [] OTHER -> Readable(d)]
  /\ open' = Db
  /\ luck' = IF luck = "struck" THEN "calm" ELSE luck
  /\ Cleans /\ Fresh /\ UNCHANGED faults

BackupFails ==
  /\ pc = "down" /\ (MainIsNewer \/ RsvIsNewer)
  /\ rows' = IF MainIsNewer THEN [main |-> Readable("main"), rsv |-> {}]
                            ELSE [main |-> {}, rsv |-> Readable("rsv")]
  /\ open' = {}
  /\ Fault /\ Struck /\ Cleans /\ Fresh

(* check_db fails twice: the file is gone and the constructor returns. *)
ConstructFails ==
  /\ pc = "down"
  /\ \E d \in Db :
       /\ rows' = [rows EXCEPT ![d] = {}]
       /\ open' = IF d = "main" THEN {} ELSE {"main"}
       /\ damaged' = damaged \ {d}
  /\ pc' = "idle" /\ doClean' = FALSE /\ replic' = <<>>
  /\ Fault /\ Struck /\ UNCHANGED <<next, saved, removed>>

Crash ==
  /\ pc # "down" /\ Fault /\ Struck
  /\ pc' = "down" /\ replic' = <<>>
  /\ UNCHANGED <<store, doClean, next, saved, removed>>

Damage ==
  /\ Fault /\ Struck
  /\ \E d \in Db \ damaged : damaged' = damaged \union {d}
  /\ UNCHANGED <<rows, open, replic, doClean, pc, next, saved, removed>>

Statement == InsertDone \/ InsertFails \/ CountFails \/ CleanEnds \/ CleanBegins
               \/ DeleteDone \/ DeleteFails
Start == Construct \/ BackupFails \/ ConstructFails

Next ==
  \/ Save \/ SaveRefused \/ Statement \/ Timer \/ Restart \/ Stop \/ Start
  \/ Crash \/ Damage

Spec == Init /\ [][Next]_vars

FairSpec == Spec /\ WF_vars(Statement) /\ WF_vars(Timer) /\ WF_vars(Restart) /\ WF_vars(Start)

-----------------------------------------------------------------------------
(* No row the main database took is lost before Clean asks for its         *)
(* removal if, between two starts, nothing happens but one of these: a     *)
(* file is damaged, a statement fails in either database (but see below),  *)
(* a backup or a constructor fails, the process dies.  Three things do     *)
(* lose rows and are excused (luck): a queue that overflows, for which     *)
(* nothing need fail; a reserve that stays busy in a replay; a DELETE that *)
(* fails in the main database and is replayed on the reserve.  The         *)
(* constructor, which compares the newest rows only, notices none of them. *)
FaultTolerant ==
  luck # "excused" =>
    saved \ removed \subseteq Readable("main") \union Readable("rsv") \union ToSet(replic)

(* Whenever a database is closed, after an error or a constructor that     *)
(* gave up, both are open again some day.                                  *)
Recovers == open # Db ~> (pc # "down" /\ open = Db)

(* Every row the main database took reaches the reserve, by the timer, the *)
(* destructor or the copy of the constructor, unless Clean removes it.     *)
Syncs ==
  \A r \in Row : r \in saved ~> (luck = "excused" \/ r \in rows.rsv \union removed)
=============================================================================
