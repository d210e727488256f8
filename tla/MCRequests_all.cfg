SPECIFICATION Spec
CONSTANTS
    User = {u1, u2}
    MaxNest = 2
    Caller = {c1, c2}
    MaxGen = 4
    Target = {a, b}
    Reads = 2
    MaxGens = 3
    Dev = {hub, r1, r2}
    Coord = hub
    MaxNodes = 3
    MaxLinks = 3
    MaxRouters = 2
    MaxPages = 2
    Tries = 2
    Rows = 1
    MaxToken = 2
INVARIANT OneInTheSdk
INVARIANT OwnAnswer
 
INVARIANT EveryRouterAsked
CHECK_DEADLOCK FALSE
PROPERTY RequestsEnd
