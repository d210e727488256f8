SPECIFICATION Spec
CONSTANTS
  KTrips = 3
  MaxRetries = 3
  SoakTicks = 3
  DeadlineTicks = 5
  EarlyCrashes = 3
  MaxCount = 4
  MaxFaults = 1
  Stall = 2
  Net = {"a"}
  NoNet = "none"
  Wired = FALSE
  MaxCrashes = 1
  MaxMisses = 1
  MaxOrders = 1
CHECK_DEADLOCK FALSE
INVARIANT SkipNeedsRadioCrashes
PROPERTY DownIsTriedAgain
INVARIANT AlwaysBootable
 
PROPERTY TrialEnds
PROPERTY StallEnds
PROPERTY StationComesBack
