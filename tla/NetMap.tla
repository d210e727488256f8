------------------------------- MODULE NetMap -------------------------------
(***************************************************************************)
(* The network map (esp_zb_netmap.cpp, esp_zb_netmap_walk.cpp): a worker   *)
(* asks router after router for its neighbour table, page by page, and     *)
(* keeps the map of the last scan that got to its end.  The answers come   *)
(* on the stack task, late, twice asked for, or never; a token says which  *)
(* ask is still waited for.  What a table says is arbitrary.               *)
(***************************************************************************)
EXTENDS Naturals, Sequences, FiniteSets, SequencesExt

CONSTANTS
    Dev,              \* devices, the coordinator among them
    Coord,
    MaxNodes, MaxLinks, MaxRouters, MaxPages, Tries,   \* the walk's caps
    Rows,             \* records of one answer, at most
    MaxToken          \* bound: tokens; an answer that late never comes

ASSUME NetMapAssumption ==
    /\ Coord \in Dev /\ Rows \in Nat /\ IsFiniteSet(Dev)
    /\ {MaxNodes, MaxLinks, MaxRouters, MaxPages, Tries, MaxToken} \subseteq Nat \ {0}

VARIABLES
    scanning, \* s_scanning
    go,       \* s_start_sem
    stage,    \* where the worker is
    walk,     \* the walk, and what came of it
    token,    \* s_token, 0 = nothing in flight
    tokens,   \* s_token_seq
    page,     \* s_page...: to which ask the last copied answer is, and whether it is an error
    note,     \* the worker's notification value, 0 = none
    asked,    \* asks the stack may still answer
    notify    \* the answer copied and not notified yet, or 0

netVars == <<scanning, go, stage, walk, token, tokens, page, note, asked, notify>>
flight  == <<token, tokens, page, note, asked, notify>>

Record  == [dst : Dev, router : BOOLEAN]
Records == UNION {[1..k -> Record] : k \in 0..Rows}
Pages   == [tok : 0..MaxToken, ok : BOOLEAN]
Blank   == [tok |-> 0, ok |-> FALSE]

\* Walk::begin.  Ghosts: `listed`, whom some table called a router (first), `heard`, who
\* answered, `silent`, who was given up on.
Begun ==
    [nodes |-> {Coord}, failed |-> {}, links |-> {}, queue |-> <<>>, head |-> 0,
     pages |-> 0, tries |-> 0, fallback |-> FALSE, cut |-> FALSE,
     known |-> {}, listed |-> {}, heard |-> {}, silent |-> {}]

\* Types and caps.
NetTypeOK ==
    /\ scanning \in BOOLEAN /\ go \in BOOLEAN
    /\ stage \in {"rest", "next", "ask", "send", "wait", "use", "fail", "build"}
    /\ token \in 0..MaxToken /\ tokens \in 0..MaxToken
    /\ page \in Pages /\ note \in 0..MaxToken /\ asked \subseteq 1..MaxToken /\ notify \in 0..MaxToken
    /\ walk.nodes \subseteq Dev /\ Cardinality(walk.nodes) <= MaxNodes
    /\ walk.failed \subseteq walk.nodes
    /\ walk.links \subseteq Dev \X Dev /\ Cardinality(walk.links) <= MaxLinks
    /\ walk.queue \in Seq(Dev \ {Coord}) /\ Len(walk.queue) <= MaxRouters
    /\ walk.head \in 0..Len(walk.queue)
    /\ walk.pages \in 0..(MaxPages - 1) /\ walk.tries \in 0..(Tries - 1)

NetInit ==
    /\ scanning = FALSE /\ go = FALSE /\ stage = "rest" /\ walk = Begun
    /\ token = 0 /\ tokens = 0 /\ page = Blank /\ note = 0 /\ asked = {} /\ notify = 0

-----------------------------------------------------------------------------

\* enqueue: each router once, the coordinator never.
Enqueue(w, d) ==
    IF d = Coord \/ d \in ToSet(w.queue) THEN w
    ELSE IF Len(w.queue) = MaxRouters THEN [w EXCEPT !.cut = TRUE]
    ELSE [w EXCEPT !.queue = Append(@, d)]

\* add_node.
AddNode(w, d) ==
    IF d \in w.nodes THEN w
    ELSE IF Cardinality(w.nodes) = MaxNodes THEN [w EXCEPT !.cut = TRUE]
    ELSE [w EXCEPT !.nodes = @ \cup {d}]

\* add_record, of a neighbour in this network.
AddRecord(w, src, r) ==
    LET w1 == AddNode(w, r.dst)
        w2 == [w1 EXCEPT !.links = @ \cup {<<src, r.dst>>},
                         !.listed = IF r.router THEN @ \cup {r.dst} ELSE @]
    IN  IF r.dst = src THEN w
        ELSE IF r.dst \notin w1.nodes \/ <<src, r.dst>> \in w1.links THEN w1
        ELSE IF Cardinality(w1.links) = MaxLinks THEN [w1 EXCEPT !.cut = TRUE]
        ELSE IF r.router THEN Enqueue(w2, r.dst) ELSE w2

AddRecords(w, src, recs) ==
    LET v[k \in 0..Len(recs)] == IF k = 0 THEN w ELSE AddRecord(v[k - 1], src, recs[k])
    IN  v[Len(recs)]

EnqueueAll(w, devs) ==
    LET v[k \in 0..Len(devs)] == IF k = 0 THEN w ELSE Enqueue(v[k - 1], devs[k])
    IN  v[Len(devs)]

FinishRouter(w) == [w EXCEPT !.head = @ + 1, !.pages = 0, !.tries = 0]

\* on_page: the router is on the map, and done with at an empty page, at the end of its
\* table, at an answer for another index than asked, or at the cap.
OnPage(w, src, recs, more) ==
    LET w1 == AddRecords(AddNode(w, src), src, recs)
        w2 == [w1 EXCEPT !.tries = 0, !.pages = @ + 1, !.heard = @ \cup {src}]
    IN  IF recs = <<>> \/ ~more \/ w2.pages >= MaxPages THEN FinishRouter(w2) ELSE w2

\* Mutant of OnFail: every page is asked for until it comes.
OnFail_again(w, src) == w

\* on_fail: the page is asked for again, once.
OnFail(w, src) ==
    IF w.tries + 1 < Tries THEN [w EXCEPT !.tries = @ + 1]
    ELSE FinishRouter([w EXCEPT !.failed = @ \cup ({src} \cap w.nodes), !.silent = @ \cup {src}])

\* Mutant of Fallback: the routers no table listed are left out.
Fallback_none(w, known) == [w EXCEPT !.fallback = TRUE, !.known = known]

\* next_ask, once the queue has run dry: the routers the hub knows.
Fallback(w, known) ==
    EnqueueAll([w EXCEPT !.fallback = TRUE, !.known = known], SetToSeq(known))

-----------------------------------------------------------------------------

\* esp_zb_netmap_start: a second one is told "busy".
StartScan ==
    /\ ~scanning /\ scanning' = TRUE /\ go' = TRUE
    /\ UNCHANGED <<stage, walk, flight>>

\* finish, with a map or without: what the last map says is not modelled.
Finish == stage' = "rest" /\ scanning' = FALSE /\ walk' = Begun

\* run_scan: the hub's routers, then the coordinator's own table.
BeginScan ==
    /\ stage = "rest" /\ go /\ go' = FALSE
    /\ \E recs \in Records : walk' = AddRecords(Begun, Coord, recs)
    /\ stage' = "next" /\ UNCHANGED <<scanning, flight>>

\* No memory, no stack lock or no network.
NoScan ==
    /\ stage = "rest" /\ go /\ go' = FALSE /\ Finish
    /\ UNCHANGED flight

ask == walk.queue[walk.head + 1]

\* Which routers the hub knew when the scan began matters only here.
NextAsk ==
    /\ stage = "next"
    /\ IF walk.head < Len(walk.queue) \/ walk.fallback THEN UNCHANGED walk
       ELSE \E known \in SUBSET (Dev \ {Coord}) : walk' = Fallback(walk, known)
    /\ stage' = IF walk'.head = Len(walk'.queue) THEN "build" ELSE "ask"
    /\ UNCHANGED <<scanning, go, flight>>

\* ++s_token_seq, never 0.
NextToken == (tokens % MaxToken) + 1

\* ask_page: a new token, then the notification of an older one is cleared.
NewToken ==
    /\ stage = "ask" /\ stage' = "send"
    /\ tokens' = NextToken /\ token' = NextToken /\ note' = 0 /\ asked' = asked \ {NextToken}
    /\ UNCHANGED <<scanning, go, walk, page, notify>>

\* Under the stack lock; a request that does not go out is a page without an answer.
SendAsk ==
    /\ stage = "send"
    /\ \/ notify = 0 /\ asked' = asked \cup {tokens} /\ stage' = "wait"
       \/ stage' = "fail" /\ UNCHANGED asked
    /\ UNCHANGED <<scanning, go, walk, token, tokens, page, note, notify>>

Mine(tok) == tok = token

\* on_lqi: the copy, under the critical section.
Copy(tok, p) ==
    /\ tok \in asked /\ notify = 0 /\ asked' = asked \ {tok}
    /\ IF Mine(tok) THEN page' = p /\ token' = 0 /\ notify' = tok
       ELSE UNCHANGED <<page, token, notify>>
    /\ UNCHANGED <<scanning, go, stage, walk, tokens, note>>

\* And then, outside it, the notification.
Notify ==
    /\ notify # 0 /\ note' = notify /\ notify' = 0
    /\ UNCHANGED <<scanning, go, stage, walk, token, tokens, page, asked>>

\* The worker wakes; the notification of another token is not the one it waits for.
WakeUp ==
    /\ stage = "wait" /\ note # 0 /\ note' = 0
    /\ stage' = IF note # tokens THEN "wait" ELSE IF page.ok THEN "use" ELSE "fail"
    /\ UNCHANGED <<scanning, go, walk, token, tokens, page, asked, notify>>

\* 5 s.
AskTimeout ==
    /\ stage = "wait" /\ stage' = "fail"
    /\ UNCHANGED <<scanning, go, walk, flight>>

\* What the table says, and whether there is more of it, is chosen as it is read.
UsePage ==
    /\ stage = "use" /\ stage' = "next" /\ page' = Blank     \* (it is not read again)
    /\ \E recs \in Records, more \in BOOLEAN : walk' = OnPage(walk, ask, recs, more)
    /\ UNCHANGED <<scanning, go, token, tokens, note, asked, notify>>

GiveUpAsk ==
    /\ stage = "fail" /\ token' = (IF token = tokens THEN 0 ELSE token)
    /\ walk' = OnFail(walk, ask) /\ stage' = "next" /\ page' = Blank
    /\ UNCHANGED <<scanning, go, tokens, note, asked, notify>>

\* The JSON is built, or there is no memory for it.
Build ==
    /\ stage = "build" /\ Finish
    /\ UNCHANGED <<go, flight>>

Worker ==
    \/ BeginScan \/ NoScan \/ NextAsk \/ NewToken \/ SendAsk
    \/ WakeUp \/ AskTimeout \/ UsePage \/ GiveUpAsk \/ Build

\* An answer is an error, or a table.
AnswerPage == \E tok \in asked, ok \in BOOLEAN : Copy(tok, [tok |-> tok, ok |-> ok])

NetNext == StartScan \/ Worker \/ AnswerPage \/ Notify

NetSpec == NetInit /\ [][NetNext]_netVars

-----------------------------------------------------------------------------

\* The walk leaves no router out: a map that is not cut short has asked each router that
\* a table listed or the hub knows, until it answered or was given up on; and what counts
\* as its answer is the answer to the ask just made, however late those to the asks before
\* come in (esp_zb_netmap.cpp:74).
EveryRouterAsked ==
    /\ stage = "use" => page.tok = tokens
    /\ stage = "build" =>
          walk.cut \/ (walk.listed \cup walk.known) \ {Coord} \subseteq walk.heard \cup walk.silent

=============================================================================
