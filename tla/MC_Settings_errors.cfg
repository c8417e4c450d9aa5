SPECIFICATION Spec
CONSTANTS
  t1 = t1
  t2 = t2
  v0 = v0
  v1 = v1
  v2 = v2
  Threads = {t1}
  BootThread = t1
  Values = {v0, v1}
  Factory = v0
  FactoryCrc = TRUE
  Commissioned = TRUE
  Asked <- AskedAll
  Faults = {"open", "short", "crc", "copy"}
  MaxFault = 5
  MaxSaves = 2
  MaxCrash = 0
  MaxTries = 1
INVARIANTS LoadsWhole
CHECK_DEADLOCK FALSE
