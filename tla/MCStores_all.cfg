SPECIFICATION Spec
CONSTANTS
  c1 = c1
  c2 = c2
  d1 = d1
  d2 = d2
  n1 = n1
  n2 = n2
  g1 = g1
  g2 = g2
  NoRec = NoRec
  Unsure = Unsure
  MaxGroups = 3
  Content = {c1, c2}
  Caller = {"httpd", "relay"}
  May <- MCMay
  Device = {d1, d2}
  Setter = {"httpd"}
  MaxValue = 0
  NoOpts = NoOpts
  PoolFaults = FALSE
  OptionKey = {"debounce_ms", "throttle_ms"}
  Node = {n1}
  EndPoint = {1, 2}
  Group = {g1}
  MaxRows = 2
  MaxGids = 1
  Asker = {"httpd", "relay"}
  MaxTsn = 2
  None = None
  Mac = {m1, m2}
  NoMac = NoMac
  Member = {v1, v2}
  MaxCuts = 2
  MaxFails = 1
  MaxSwaps = 1
CHECK_DEADLOCK FALSE
SYMMETRY Perms
INVARIANT PromisedIsListed
INVARIANT PromisedOptionKept
 
INVARIANT AddressKept
INVARIANT RepairReachesAll
