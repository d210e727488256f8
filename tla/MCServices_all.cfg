SPECIFICATION Spec
CONSTANTS
  a = a
  b = b
  k1 = k1
  k2 = k2
  i1 = i1
  i2 = i2
  Script = {k1, k2}
  Rule = {r1}
  Text = {a, b}
  NoText = NoText
  Xfer = {x}
  NoXfer = NoXfer
  Door = {"rest", "relay"}
  MaxScripts = 1
  MaxPending = 1
  Key = {1, 2, 3, 4}
  Image = {i1, i2}
  TailCap = 2
  BacklogCap = 2
  MaxSeq = 4
  MaxRun = 7
  Logger = {t1}
  RingSize = 3
  RateCap = 2
  RateMod = 8
  MaxLine = 7
  MaxSecond = 2
  BusCap = 2
  MaxPlugs = 3
  MaxLeases = 1
  MaxWrites = 2
CHECK_DEADLOCK FALSE
 
INVARIANT PagesAreWhole
PROPERTY NoSilentOverwrite
INVARIANT EveryLineIsTold
INVARIANT TailIsThePreviousRun
INVARIANT SnapshotIsWhole
INVARIANT NothingPendingLost
INVARIANT HeardByAll
INVARIANT LeaseIsUsed
SYMMETRY Perms
