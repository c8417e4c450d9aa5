SPECIFICATION FairSpec
CONSTANTS
  i1 = i1
  i2 = i2
  Images = {i1, i2}
  Version <- TwoVersions
  Gzipped = {i2}
  Fitting = {i1, i2}
  FreeSpace = TRUE
  FindUpdates = TRUE
  Forced = FALSE
  RequestsIn = {"user"}
  MaxRequests = 2
  Troubles = {"power", "kill", "root", "fit", "copy", "md5"}
  MaxTrouble = 2
INVARIANTS TypeOK RootMatchesFit Replaceable
PROPERTIES Settles UploadInstalled
CHECK_DEADLOCK FALSE
