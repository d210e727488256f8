-------------------------------- MODULE Frames --------------------------------
(* on_apsde_indication (esp_zigbee_backend.cpp): an application frame is put down to a      *)
(* device by its short address, which may have changed hands, answered, freed of resends,   *)
(* decoded, and used to mend what the pool says of the device and to start its              *)
(* configuration.  It runs on the stack's task, one frame at a time; the interview worker   *)
(* and the web server change the pool between its steps.  The devices and the short         *)
(* addresses they take are outside.  What the frame carries to the interview is in          *)
(* Interview and Reading, the repair of bindings in Coordinator.                            *)
EXTENDS Naturals, Sequences

CONSTANTS
    Sender, NoSender,                   \* devices; ieee = 0
    Extended,                           \* those whose frames name them by their IEEE address
    Short, NoShort,                     \* short addresses; 0
    RetrySlots,                         \* the size of s_seen
    MaxPresses, MaxMoves, MaxLost, MaxUpsets    \* bounds: per device its presses; new
                                        \* addresses; answers not sent; changes to the pool

ASSUME FramesAssumption ==
    /\ Extended \subseteq Sender /\ NoSender \notin Sender /\ NoShort \notin Short
    /\ RetrySlots \in Nat \ {0} /\ {MaxPresses, MaxMoves, MaxLost, MaxUpsets} \subseteq Nat

VARIABLES
    at,        \* the short address each device uses
    book,      \* the pool, per device: in it, nwk_addr, IDENTITY_READY and MATCHED, configured
    here,      \* the frame in hand
    seen,      \* s_seen, oldest first, without the entries older than 1.5 s
    press,     \* a device's last press: its number, waiting for an answer; history: let past
               \* the resend check, how often decoded
    kick,      \* s_kick_ieee, for 30 s
    kicked,    \* the devices queued for configuration in the last 30 s
    mixed, swallowed,   \* history: a frame put down to another; a press taken for a resend
    excused,   \* history, of the last 1.5 s: a young entry overwritten, or a press kept under
               \* an address that is not its sender's
    moves, losses, upsets

bad        == <<mixed, swallowed, excused>>
cost       == <<moves, losses, upsets>>
framesVars == <<at, book, here, seen, press, kick, kicked, bad, cost>>

Record  == [in : BOOLEAN, nwk : Short \cup {NoShort}, known : BOOLEAN, done : BOOLEAN]
Absent  == [in |-> FALSE, nwk |-> NoShort, known |-> FALSE, done |-> FALSE]
Nothing == [stage |-> "none"]
HandType == [stage : {"resolve", "answer", "decode", "finish"}, by : Sender,
             kind : {"press", "group", "report", "enroll"}, maps : BOOLEAN,
             ieee : Sender \cup {NoSender}, nwk : Short \cup {NoShort}, snap : Record, heals : BOOLEAN]

FramesTypeOK ==
    /\ at \in [Sender -> Short \cup {NoShort}] /\ book \in [Sender -> Record]
    /\ here = Nothing \/ here \in HandType
    /\ seen \in Seq([nwk : Short \cup {NoShort}, num : Nat])
    /\ press \in [Sender -> [num : Nat, waits : BOOLEAN, past : BOOLEAN, acts : Nat]]
    /\ kick \in Sender \cup {NoSender} /\ kicked \subseteq Sender
    /\ mixed \in BOOLEAN /\ swallowed \in BOOLEAN /\ excused \in BOOLEAN

\* Each device has joined under an address of its own, some of them known.
FramesInit ==
    /\ at = CHOOSE f \in [Sender -> Short] : \A d, e \in Sender : f[d] = f[e] => d = e
    /\ \E old \in SUBSET Sender :
          book = [d \in Sender |-> IF d \in old THEN [in |-> TRUE, nwk |-> at[d], known |-> TRUE, done |-> FALSE]
                                   ELSE Absent]
    /\ here = Nothing /\ seen = <<>> /\ kick = NoSender /\ kicked = {}
    /\ press = [d \in Sender |-> [num |-> 0, waits |-> FALSE, past |-> FALSE, acts |-> 0]]
    /\ mixed = FALSE /\ swallowed = FALSE /\ excused = FALSE /\ moves = 0 /\ losses = 0 /\ upsets = 0

-----------------------------------------------------------------------------
(* Outside: the devices.  The source of a frame comes short or extended, and the stack's     *)
(* address map knows whose the short address is, or does not.                               *)

Sends(d, k) ==
    /\ here = Nothing /\ at[d] # NoShort
    /\ \E mapped \in BOOLEAN :
          here' = [stage |-> "resolve", by |-> d, kind |-> k, maps |-> mapped, ieee |-> NoSender,
                   nwk |-> at[d], snap |-> Absent, heals |-> FALSE]
    /\ UNCHANGED <<at, book, seen, kick, kicked, bad, cost>>

\* A press is an application command under the device's next sequence number; it is sent
\* again within 1.5 s when no Default Response comes, unless it did not ask for one.  A
\* groupcast is not answered.
Press(d) ==
    /\ press[d].num < MaxPresses
    /\ \E k \in {"press", "group"}, asks \in BOOLEAN :
          /\ asks => k = "press"
          /\ press' = [press EXCEPT ![d] = [num |-> @.num + 1, waits |-> asks, past |-> FALSE, acts |-> 0]]
          /\ Sends(d, k)

Resend(d) == press[d].waits /\ Sends(d, "press") /\ UNCHANGED press

\* The frames that are not commands: reports (and reads of the clock), enroll requests.
Talk(d) == UNCHANGED press /\ \E k \in {"report", "enroll"} : Sends(d, k)

\* 1.5 s on, no press is sent again and none is remembered.
Settled ==
    /\ seen' = <<>> /\ excused' = FALSE
    /\ press' = [d \in Sender |-> [press[d] EXCEPT !.waits = FALSE, !.past = FALSE, !.acts = 0]]

\* zb_interview_on_announce: a record gets the new address, who else has it or not.
Announced(d, n) == book[d].in /\ book' = [book EXCEPT ![d].nwk = n]

\* A device comes back under another address, also one that was another's: that takes longer
\* than 1.5 s.  Its announce may be lost.
Move(d) ==
    /\ here = Nothing /\ moves < MaxMoves /\ moves' = moves + 1 /\ Settled
    /\ \/ at' = [at EXCEPT ![d] = NoShort] /\ UNCHANGED book
       \/ \E n \in Short \ {at[e] : e \in Sender} :
             at' = [at EXCEPT ![d] = n] /\ (Announced(d, n) \/ UNCHANGED book)
    /\ UNCHANGED <<here, kick, kicked, mixed, swallowed, losses, upsets>>

\* 1.5 s, or 30 s, go by.
TimePassesBy ==
    /\ here = Nothing /\ Settled
    /\ \/ kick' = NoSender /\ kicked' = {}
       \/ UNCHANGED <<kick, kicked>>
    /\ UNCHANGED <<at, book, here, mixed, swallowed, cost>>

-----------------------------------------------------------------------------
(* The handler. *)

Now(stage)  == [here EXCEPT !.stage = stage]
Long        == here.by \in Extended
Holders(n)  == {d \in Sender : book[d].in /\ book[d].nwk = n}

By(d) == here' = [Now("answer") EXCEPT !.ieee = d]

ResolveExtended ==
    /\ here.stage = "resolve" /\ Long
    /\ here' = [Now("answer") EXCEPT !.ieee = here.by, !.nwk = book[here.by].nwk]
    /\ UNCHANGED <<at, book, seen, press, kick, kicked, bad, cost>>

\* As if a record that has the address were always right.
StaleHolder_trusted(r) == FALSE
StaleHolder(r) == here.maps /\ here.by # r

\* The first record with the address; when the map names another, the old holder loses it.
ResolveHeld ==
    /\ here.stage = "resolve" /\ ~Long
    /\ \E r \in Holders(here.nwk) :
          IF StaleHolder(r)
          THEN LET d == here.by IN
               /\ book' = [e \in Sender |-> IF e = r THEN [book[e] EXCEPT !.nwk = NoShort]
                                            ELSE IF e = d /\ book[d].in THEN [book[e] EXCEPT !.nwk = here.nwk]
                                            ELSE book[e]]
               /\ By(IF book[d].in THEN d ELSE NoSender)
          ELSE By(r) /\ UNCHANGED book
    /\ UNCHANGED <<at, seen, press, kick, kicked, bad, cost>>

\* No record has the address: the sender's gets it, or the gate lets the sender in.
ResolveUnheld ==
    /\ here.stage = "resolve" /\ ~Long /\ Holders(here.nwk) = {}
    /\ LET d == here.by IN
       \/ ~here.maps /\ By(NoSender) /\ UNCHANGED book
       \/ here.maps /\ book[d].in /\ book' = [book EXCEPT ![d].nwk = here.nwk] /\ By(d)
       \/ here.maps /\ ~book[d].in /\ book' = [book EXCEPT ![d] = [Absent EXCEPT !.in = TRUE, !.nwk = here.nwk]] /\ By(d)
       \/ here.maps /\ ~book[d].in /\ By(NoSender) /\ UNCHANGED book
    /\ UNCHANGED <<at, seen, press, kick, kicked, bad, cost>>

Mine == [nwk |-> here.nwk, num |-> press[here.by].num]

\* As if two devices could not use the same sequence number.
zcl_is_retry_any == here.kind = "press" /\ \E i \in 1..Len(seen) : seen[i].num = Mine.num
zcl_is_retry     == here.kind = "press" /\ \E i \in 1..Len(seen) : seen[i] = Mine

\* genTime, Zone Enroll and Default Response: from the stack's own context a send is tried
\* once; a device without a short address gets none.
Answered(p) ==
    IF here.kind = "press" /\ here.nwk # NoShort
    THEN \/ /\ UNCHANGED losses
            /\ press' = [d \in Sender |-> IF at[d] = here.nwk THEN [p[d] EXCEPT !.waits = FALSE] ELSE p[d]]
         \/ losses < MaxLost /\ losses' = losses + 1 /\ press' = p
    ELSE press' = p /\ UNCHANGED losses

\* A source named by its IEEE address is looked for, and kept, under the short address its
\* record has, or under 0.
Astray == here.kind = "press" /\ here.nwk # at[here.by]

\* A groupcast is neither answered nor checked; a command that is not a resend takes the
\* oldest slot; an enroll request and a resend end here, and a frame from nobody.
Answer ==
    /\ here.stage = "answer"
    /\ IF here.kind = "press" /\ ~zcl_is_retry
       THEN /\ seen' = Append(IF Len(seen) = RetrySlots THEN Tail(seen) ELSE seen, Mine)
            /\ excused' = (excused \/ Astray \/ Len(seen) = RetrySlots)
            /\ Answered([press EXCEPT ![here.by].past = TRUE]) /\ UNCHANGED swallowed
       ELSE /\ Answered(press) /\ UNCHANGED seen
            /\ excused' = (excused \/ Astray)
            /\ swallowed' = (swallowed \/ (zcl_is_retry /\ ~press[here.by].past /\ ~excused'))
    /\ here' = IF here.kind = "enroll" \/ zcl_is_retry \/ here.ieee = NoSender THEN Nothing ELSE Now("decode")
    /\ UNCHANGED <<at, book, kick, kicked, mixed, moves, upsets>>

\* The record is read once.  heals: its definition decodes the frame, and its record does not
\* say so.
Decode ==
    /\ here.stage = "decode"
    /\ LET p == book[here.ieee] IN
       \E heals \in IF p.in /\ ~p.known THEN BOOLEAN ELSE {FALSE} :
          here' = [Now("finish") EXCEPT !.snap = p, !.heals = heals]
    /\ press' = IF here.kind \in {"press", "group"} /\ book[here.ieee].in THEN [press EXCEPT ![here.by].acts = @ + 1] ELSE press
    /\ mixed' = (mixed \/ (here.ieee # here.by /\ (here.maps \/ Long)))
    /\ UNCHANGED <<at, book, seen, kick, kicked, swallowed, excused, cost>>

\* As if the limit were one for all devices.
Limited_all == kicked # {}
Limited     == here.ieee = kick

\* A device that decodes is identified and matched, whatever its record says; it is awake:
\* the moment to configure it, not more than once in 30 s.
Finish ==
    /\ here.stage = "finish" /\ here' = Nothing
    /\ LET d == here.ieee  known == here.snap.known \/ here.heals IN
       /\ book' = IF here.heals /\ book[d].in THEN [book EXCEPT ![d].known = TRUE] ELSE book
       /\ IF here.snap.in /\ known /\ ~here.snap.done /\ ~Limited
          THEN kick' = d /\ kicked' = kicked \cup {d}
          ELSE UNCHANGED <<kick, kicked>>
    /\ UNCHANGED <<at, seen, press, bad, cost>>

-----------------------------------------------------------------------------
(* The other tasks. *)

\* An interview attempt that failed writes UNKNOWN; the owner deletes; a configuration ends.
PoolChanges(d) ==
    /\ book[d].in /\ upsets < MaxUpsets /\ upsets' = upsets + 1
    /\ \/ book' = [book EXCEPT ![d].known = FALSE]
       \/ book' = [book EXCEPT ![d] = Absent]
       \/ d \in kicked /\ book' = [book EXCEPT ![d].done = TRUE]
    /\ UNCHANGED <<at, here, seen, press, kick, kicked, bad, moves, losses>>

Handler == ResolveExtended \/ ResolveHeld \/ ResolveUnheld \/ Answer \/ Decode \/ Finish

FramesNext ==
    \/ Handler \/ TimePassesBy
    \/ \E d \in Sender : Press(d) \/ Resend(d) \/ Talk(d) \/ Move(d) \/ PoolChanges(d)

FramesSpec == FramesInit /\ [][FramesNext]_framesVars

-----------------------------------------------------------------------------

\* A frame is never put down to another device than its sender, though short addresses are
\* given anew and the pool learns of it late, as long as the stack's map has the sender
\* (esp_zigbee_backend.cpp 188-189, 377-381).
UnderItsSender == ~mixed

\* A press acts once: sent again because its answer was lost, it is not acted on twice, and
\* no press is taken for a resend of another, under whatever addresses, unless within the
\* 1.5 s the eight slots were overwritten (343) or a device named by its IEEE address pressed
\* while its record had not the address it uses (379).
PressActsOnce == ~swallowed /\ (excused \/ \A d \in Sender : press[d].acts <= 1)

\* A device that is awake and not configured has been queued within the last 30 s when its
\* frame is done with, however much the others talk.
AwakeIsQueued ==
    [][here # Nothing /\ here.stage = "finish" /\ here' = Nothing
         /\ here.snap.in /\ (here.snap.known \/ here.heals) /\ ~here.snap.done
       => here.ieee \in kicked']_framesVars

=============================================================================
