-------------------------------- MODULE Binds --------------------------------
(***************************************************************************)
(* Binds (esp_zb_configure.cpp): the configure worker, the web UI and the  *)
(* cloud bind through one result slot.  A mutex lets one through at a      *)
(* time; the device's answer comes on the stack task, which holds the      *)
(* stack lock for the whole callback, and may come when its asker has      *)
(* given up.  A generation (esp_zb_req_gen.h) tells whose answer it is.    *)
(***************************************************************************)
EXTENDS Naturals

CONSTANTS
    Caller,           \* tasks that bind
    MaxGen            \* bound: generations; no answer or callback takes as long

Nobody == "nobody"
ASSUME BindsAssumption == MaxGen \in Nat \ {0} /\ Nobody \notin Caller

VARIABLES
    op,       \* s_bind_op: who holds it
    gen,      \* s_bind_gen
    posted,   \* s_bind_sem
    slot,     \* s_bind_status: none (0xFF), done, refused
    step,     \* per caller, where it is
    mine,     \* the generation of the request under way
    got,      \* was the semaphore taken in time?
    air,      \* requests the stack may still answer
    cb,       \* the callback the stack task is in, or none
    said      \* ghost: what the device answered to the request under way

bindVars == <<op, gen, posted, slot, step, mine, got, air, cb, said>>
asking   == <<step, mine, got>>

Gen    == 0..MaxGen
Answer == {"done", "refused", "none"}       \* none: the SDK's error, no response
NoCb   == [at |-> "idle", gen |-> 0, answer |-> "none"]

\* Types; the mutex is held by the one caller under way.
BindTypeOK ==
    /\ op \in Caller \cup {Nobody} /\ gen \in Gen /\ posted \in BOOLEAN /\ slot \in Answer
    /\ step \in [Caller -> {"idle", "queue", "ask", "wait", "expire", "read"}]
    /\ mine \in Gen /\ got \in BOOLEAN /\ air \subseteq Gen
    /\ cb \in [at : {"idle", "check", "write", "post"}, gen : Gen, answer : Answer]
    /\ said \in Answer \cup {"unasked"}
    /\ \A c \in Caller : step[c] \in {"ask", "wait", "expire", "read"} <=> op = c

BindInit ==
    /\ op = Nobody /\ gen = 0 /\ posted = FALSE /\ slot = "none"
    /\ step = [c \in Caller |-> "idle"] /\ mine = 0 /\ got = FALSE
    /\ air = {} /\ cb = NoCb /\ said = "unasked"

Goto(c, s) == step' = [step EXCEPT ![c] = s]

\* ++gen_ (never 0 again: 2^32 of them).
NextGen == (gen % MaxGen) + 1

-----------------------------------------------------------------------------

\* cfg_bind (a device without an address is refused before), esp_zb_zdo_bind.
Want(c) ==
    /\ step[c] = "idle" /\ Goto(c, "queue")
    /\ UNCHANGED <<op, gen, posted, slot, mine, got, air, cb, said>>

\* do_bind.
TakeOp(c) ==
    /\ step[c] = "queue" /\ op = Nobody /\ op' = c /\ Goto(c, "ask")
    /\ UNCHANGED <<gen, posted, slot, mine, got, air, cb, said>>

\* 20 s, and another bind did not finish.
OpBusy(c) ==
    /\ step[c] = "queue" /\ op # Nobody /\ Goto(c, "idle")
    /\ UNCHANGED <<op, gen, posted, slot, mine, got, air, cb, said>>

\* do_bind_owned, under the stack lock: no callback is running.
Send(c) ==
    /\ step[c] = "ask" /\ cb = NoCb
    /\ posted' = FALSE /\ slot' = "none" /\ gen' = NextGen
    /\ mine' = NextGen /\ got' = FALSE /\ said' = "unasked"
    /\ \E sent \in BOOLEAN :
           /\ air' = IF sent THEN air \cup {NextGen} ELSE air \ {NextGen}
           /\ Goto(c, IF sent THEN "wait" ELSE "expire")
    /\ UNCHANGED <<op, cb>>

\* The stack lock was not to be had within 2 s.
NoLock(c) ==
    /\ step[c] = "ask" /\ cb # NoCb /\ Goto(c, "expire") /\ got' = FALSE
    /\ UNCHANGED <<op, gen, posted, slot, mine, air, cb, said>>

Wake(c) ==
    /\ step[c] = "wait" /\ posted /\ posted' = FALSE
    /\ got' = TRUE /\ Goto(c, "expire")
    /\ UNCHANGED <<op, gen, slot, mine, air, cb, said>>

\* 10 s without a post.
Timeout(c) ==
    /\ step[c] = "wait" /\ ~posted /\ Goto(c, "expire")
    /\ UNCHANGED <<op, gen, posted, slot, mine, got, air, cb, said>>

\* ReqGen::expire: a later answer is nobody's.
Expire(c) ==
    /\ step[c] = "expire" /\ NextGen # cb.gen /\ gen' = NextGen /\ air' = air \ {NextGen} /\ Goto(c, "read")
    /\ UNCHANGED <<op, posted, slot, mine, got, cb, said>>

\* The bind is done, was refused by the device (which counts as done), or failed.
Return(c) ==
    /\ step[c] = "read" /\ op' = Nobody /\ Goto(c, "idle")
    /\ UNCHANGED <<gen, posted, slot, mine, got, air, cb, said>>

-----------------------------------------------------------------------------

\* The stack answers one of its requests, at any time and in any order, or never.
Answered(g, a) ==
    /\ g \in air /\ cb = NoCb /\ air' = air \ {g}
    /\ cb' = [at |-> "check", gen |-> g, answer |-> a]
    /\ said' = IF g = mine THEN a ELSE said
    /\ UNCHANGED <<op, gen, posted, slot, asking>>

\* Mutant of Current: every answer is taken for the request that waits.
Current_any(g) == TRUE

\* ReqGen::current.
Current(g) == g = gen

\* on_bind_result.
Check ==
    /\ cb.at = "check" /\ cb' = IF Current(cb.gen) THEN [cb EXCEPT !.at = "write"] ELSE NoCb
    /\ UNCHANGED <<op, gen, posted, slot, asking, air, said>>

WriteSlot ==
    /\ cb.at = "write" /\ slot' = cb.answer /\ cb' = [cb EXCEPT !.at = "post"]
    /\ UNCHANGED <<op, gen, posted, asking, air, said>>

Post ==
    /\ cb.at = "post" /\ posted' = TRUE /\ cb' = NoCb
    /\ UNCHANGED <<op, gen, slot, asking, air, said>>

CallbackSteps == Check \/ WriteSlot \/ Post

Proceed(c) ==
    TakeOp(c) \/ OpBusy(c) \/ Send(c) \/ NoLock(c) \/ Wake(c) \/ Timeout(c) \/ Expire(c) \/ Return(c)

BindNext ==
    \/ \E c \in Caller : Want(c) \/ Proceed(c)
    \/ \E g \in Gen, a \in Answer : Answered(g, a)
    \/ CallbackSteps

BindSpec == BindInit /\ [][BindNext]_bindVars

-----------------------------------------------------------------------------

\* A caller that goes on with a result has that of its own request: the device did answer
\* it, and the slot holds that answer until the caller has read it, whatever late answers
\* to earlier requests come in between (esp_zb_req_gen.h:6).
OwnAnswer ==
    \A c \in Caller :
        step[c] \in {"expire", "read"} /\ got =>
            said = slot /\ cb.at \notin {"write", "post"}

=============================================================================
