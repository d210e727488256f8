SPECIFICATION RingAlone
CONSTANTS
  a = a
  b = b
  k1 = k1
  k2 = k2
  i1 = i1
  i2 = i2
  Script = {k1, k2}
  Rule = {r1}
  Text = {a, b}
  NoText = NoText
  Xfer = {x}
  NoXfer = NoXfer
  Door = {"rest", "relay"}
  MaxScripts = 1
  MaxPending = 1
  Key = {1, 2, 3, 4}
  Image = {i1, i2}
  TailCap = 1
  BacklogCap = 1
  MaxSeq = 0
  MaxRun = 1
  Logger = {t1}
  RingSize = 1
  RateCap = 2
  RateMod = 4
  MaxLine = 6
  MaxSecond = 1
  BusCap = 2
  MaxPlugs = 3
  MaxLeases = 1
  MaxWrites = 2
CHECK_DEADLOCK FALSE
INVARIANT HardCap
