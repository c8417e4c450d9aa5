SPECIFICATION Spec
CONSTANTS
  i1 = i1
  i2 = i2
  Images = {i1, i2}
  Version <- TwoVersions
  Gzipped = {i2}
  Fitting = {i1, i2}
  FreeSpace = FALSE
  FindUpdates = TRUE
  Forced = FALSE
  RequestsIn = {"user"}
  MaxRequests = 1
  Troubles = {}
  MaxTrouble = 0
INVARIANTS CopiedBeforeErase
CHECK_DEADLOCK FALSE
