SPECIFICATION FairSpec
CONSTANTS
  a = a
  f = f
  Threads = {a}
  MaxTick = 1
  Interval = 0
  Lag = 1
  MaxCtr = 1
  HwTurns = 1
  MaxTroubles = 1
  MaxPipe = 0
  Immortal = {f}
  Configured = TRUE
  Detect = 1
  Width = 2
INVARIANTS TypeOK AppsDown
PROPERTIES ImmortalKept RollsBack Recovers
