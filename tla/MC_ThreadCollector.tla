------------------------- MODULE MC_ThreadCollector -------------------------
(* A thread that messages restart, one restarted by the same messages      *)
(* whose Loop may return by itself, one started once by a message and       *)
(* guarded by a timeout, and one started by RunAll.                         *)
EXTENDS ThreadCollector

Always == "ONCE_ALWAYS"
Once == "ONCE_ONMSG"
Restart == "RESTART_ONMSG"

FourThreads == {"felo", "timo", "once", "gulo"}
FourEntries ==
  << [thr |-> "felo", type |-> Restart, msg |-> "ready", wdt |-> FALSE],
     [thr |-> "timo", type |-> Restart, msg |-> "ready", wdt |-> FALSE],
     [thr |-> "once", type |-> Once, msg |-> "config", wdt |-> TRUE],
     [thr |-> "gulo", type |-> Always, msg |-> "ready", wdt |-> FALSE] >>

ASSUME FourEntriesApart == StartersApart
=============================================================================
