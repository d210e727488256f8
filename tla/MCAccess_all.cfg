SPECIFICATION Spec
CONSTANTS
  p1 = p1
  p2 = p2
  p3 = p3
  NoPeer = NoPeer
  Peer = {p1, p2, p3}
  FailLimit = 2
  Window = 2
  Buckets = 2
  HubLimit = 3
  ClockWrap = 3
  MaxUptime = 7
  s1 = s1
  s2 = s2
  Socket = {s1}
  WebMay = {"rotate"}
  RelayMay = {"settings"}
  MaxDraws = 4
  NoKey = NoKey
  Unsure = Unsure
  Device = {d1, d2, d3}
  AuthSlots = 2
  AuthTtl = 2
  Grace = 1
  Cap = 1
  WindowLen = 2
  MaxOpen = 1
  MaxTime = 3
  Sender = {"d1", "d2"}
  NoSender = "nobody"
  Extended = {"d2"}
  Short = {"n1", "n2"}
  NoShort = "n0"
  RetrySlots = 2
  MaxPresses = 1
  MaxMoves = 3
  MaxLost = 1
  MaxUpsets = 1
CHECK_DEADLOCK FALSE
INVARIANT GuessingIsBounded
PROPERTY NobodyFreesALockedPeer
 
INVARIANT OwnerStays
INVARIANT PromiseKept
INVARIANT NewcomerIsTrusted
INVARIANT UnderItsSender
INVARIANT PressActsOnce
PROPERTY AwakeIsQueued
SYMMETRY Perms
