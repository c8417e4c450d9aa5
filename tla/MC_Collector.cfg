SPECIFICATION FairSpec
CONSTANTS
  Threads <- FourThreads
  Entries <- FourEntries
  Messages = {"ready", "config"}
  SelfStopping = {"timo"}
  MaxMessages = 3
  MaxFailed = 1
INVARIANTS TypeOK OneLoop
PROPERTIES StaysUp GuaranteedStart
CHECK_DEADLOCK FALSE
