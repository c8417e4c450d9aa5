SPECIFICATION FairSpec
CONSTANTS
  Pids = {1, 2, 3}
  LogModes = {TRUE, FALSE}
  StopTime = 2
  MaxCommands = 3
INVARIANTS TypeOK OneUser
PROPERTIES KillsOnlyHung Obeys
CHECK_DEADLOCK FALSE
