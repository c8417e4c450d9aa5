SPECIFICATION Spec
CONSTANTS
  t1 = t1
  t2 = t2
  v0 = v0
  v1 = v1
  v2 = v2
  Threads = {t1}
  BootThread = t1
  Values = {v0, v1}
  Factory = v0
  FactoryCrc = TRUE
  Commissioned = FALSE
  Asked <- AskedAll
  Faults = {"crc"}
  MaxFault = 1
  MaxSaves = 1
  MaxCrash = 1
  MaxTries = 1
PROPERTIES LoadSucceeds
CHECK_DEADLOCK FALSE
