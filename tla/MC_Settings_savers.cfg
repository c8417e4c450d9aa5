SPECIFICATION FairSpec
CONSTANTS
  t1 = t1
  t2 = t2
  v0 = v0
  v1 = v1
  v2 = v2
  Threads = {t1, t2}
  BootThread = t1
  Values = {v0, v1}
  Factory = v0
  FactoryCrc = TRUE
  Commissioned = TRUE
  Asked <- AskedSave
  Faults = {"open"}
  MaxFault = 2
  MaxSaves = 3
  MaxCrash = 0
  MaxTries = 1
INVARIANTS AckedHolds
PROPERTIES SaveGetsMutex
CHECK_DEADLOCK FALSE
