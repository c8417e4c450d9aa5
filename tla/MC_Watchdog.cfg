SPECIFICATION FairSpec
CONSTANTS
  a = a
  b = b
  Threads = {a, b}
  MaxTick = 2
  Interval = 1
  Lag = 1
  MaxCtr = 3
  HwTurns = 2
  MaxTroubles = 2
  MaxPipe = 1
INVARIANTS TypeOK KeptAlive
PROPERTIES SilentEnds DeadResets BrokenResets
