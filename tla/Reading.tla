------------------------------- MODULE Reading -------------------------------
(***************************************************************************)
(* What one interview attempt reads (esp_zb_interview.cpp): three ZDO      *)
(* requests that share a result slot, and the Basic read, whose answer the *)
(* frame hook sniffs.  The worker holds the stack lock while it asks and   *)
(* not while it waits; the answers come on the stack task, which holds the *)
(* lock for the whole callback, late or never.  Each access to the slot is *)
(* a step.  An answer is named by the device that gave it; a short address *)
(* names one device.  An announce of another device ends a wait, which is  *)
(* to the worker what a timeout is.                                        *)
(***************************************************************************)
EXTENDS Naturals

CONSTANTS
    Target,           \* devices that are interviewed
    Reads,            \* kBasicReadsPerEp (5)
    MaxGens           \* bound: generations; no answer comes as late

NoOne == "noone"
Guess == "guess"      \* endpoint 1, assumed

ASSUME ReadingAssumption ==
    {Reads, MaxGens} \subseteq Nat \ {0} /\ {NoOne, Guess} \cap Target = {}

VARIABLES
    who,      \* s_active_ieee
    phase,    \* the request under way
    at,       \* how far it is
    reads,    \* Basic reads made
    gens,     \* s_step_gen
    post,     \* s_step_sem
    fine,     \* s_step_ok
    woken,    \* was it the post that ended the wait?
    slots,    \* s_logical_type, s_ep_count, s_ep_list, s_in_clusters: whose answer
    late,     \* requests the stack may still answer
    hook,     \* the callback or the frame the stack task is at
    armed,    \* s_basic_nwk
    basicPost, \* s_basic_sem
    basicBuf, \* s_basic_buf, NoOne while s_basic_len = 0
    copy      \* do_interview's work, as far as it was read

stepVars == <<gens, post, fine, woken, late>>
basicVars == <<armed, basicPost, basicBuf, reads>>
readVars == <<who, phase, at, stepVars, slots, hook, basicVars, copy>>

Kind    == {"node", "eps", "simple"}
Whose   == Target \cup {NoOne, Guess}
Parts   == {"node", "count", "list", "simple", "ident"}
Gens    == 0..MaxGens
NoHook  == [at |-> "none", kind |-> "node", gen |-> 0, dev |-> NoOne, ok |-> FALSE]
NextGens == (gens % MaxGens) + 1

ReadTypeOK ==
    /\ who \in Target \cup {NoOne} /\ phase \in Kind \cup {"idle", "basic", "merge"}
    /\ at \in {"ask", "wait", "expire", "use", "list", "fail", "guess"} /\ reads \in 0..Reads
    /\ gens \in Gens /\ {post, fine, woken, basicPost} \subseteq BOOLEAN
    /\ slots \in [Parts \ {"ident"} -> Whose]
    /\ late \subseteq [gen : Gens, kind : Kind, dev : Target]
    /\ hook.at \in {"none", "check", "count", "write", "post"} /\ hook.dev \in Target \cup {NoOne}
    /\ armed \in Target \cup {NoOne} /\ basicBuf \in Target \cup {NoOne}
    /\ copy \in [Parts -> Whose]

Unread == [p \in Parts |-> NoOne]

ReadInit ==
    /\ who = NoOne /\ phase = "idle" /\ at = "ask" /\ reads = 0
    /\ gens = 0 /\ post = FALSE /\ fine = FALSE /\ woken = FALSE
    /\ slots = [p \in Parts \ {"ident"} |-> NoOne] /\ late = {} /\ hook = NoHook
    /\ armed = NoOne /\ basicPost = FALSE /\ basicBuf = NoOne
    /\ copy = Unread

Step(s, a) == phase' = s /\ at' = a

-----------------------------------------------------------------------------

\* task_interview takes up a device.
Begin(d) ==
    /\ phase = "idle" /\ who' = d /\ Step("node", "ask") /\ copy' = Unread
    /\ UNCHANGED <<stepVars, slots, hook, basicVars>>

\* req_node_desc, req_active_ep, req_simple_desc, under the stack lock: sent, or refused,
\* or no lock in 2 s (which no callback takes).
Ask ==
    /\ phase \in Kind /\ at = "ask" /\ hook = NoHook
    /\ post' = FALSE /\ fine' = FALSE /\ gens' = NextGens
    /\ LET others == {r \in late : r.gen # NextGens}
       IN  \/ late' = others \cup {[gen |-> NextGens, kind |-> phase, dev |-> who]} /\ Step(phase, "wait")
           \/ late' = others /\ Step(phase, "fail")
    /\ UNCHANGED <<who, woken, slots, hook, basicVars, copy>>

\* step_wait: 5 s, or less when another device announces itself.
Wait ==
    /\ phase \in Kind /\ at = "wait" /\ Step(phase, "expire")
    /\ woken' = post /\ post' = FALSE
    /\ UNCHANGED <<who, gens, fine, late, slots, hook, basicVars, copy>>

\* The generation goes on, then s_step_ok is read.
ExpireStep ==
    /\ phase \in Kind /\ at = "expire" /\ NextGens # hook.gen
    /\ gens' = NextGens /\ late' = {r \in late : r.gen # NextGens}
    /\ Step(phase, IF woken /\ fine THEN "use" ELSE "fail") /\ woken' = FALSE
    /\ UNCHANGED <<who, post, fine, slots, hook, basicVars, copy>>

\* A descriptor that was read is copied from the slot, one that was not is done without.
Descriptor ==
    /\ phase \in {"node", "simple"} /\ at \in {"use", "fail"}
    /\ copy' = IF at = "use" THEN [copy EXCEPT ![phase] = slots[phase]] ELSE copy
    /\ slots' = [slots EXCEPT ![phase] = NoOne]      \* (not read again)
    /\ Step(IF phase = "node" THEN "eps" ELSE "basic", "ask")
    /\ UNCHANGED <<who, stepVars, hook, basicVars>>

\* Without an answer, endpoint 1 is assumed: written to the slot, the count first.
GuessCount ==
    /\ phase = "eps" /\ at = "fail" /\ slots' = [slots EXCEPT !["count"] = Guess] /\ Step(phase, "guess")
    /\ UNCHANGED <<who, stepVars, hook, basicVars, copy>>

GuessList ==
    /\ phase = "eps" /\ at = "guess" /\ slots' = [slots EXCEPT !["list"] = Guess] /\ Step(phase, "use")
    /\ UNCHANGED <<who, stepVars, hook, basicVars, copy>>

\* Answered or assumed, the count is copied from the slot, then the list.
CopyCount ==
    /\ phase = "eps" /\ at = "use" /\ copy' = [copy EXCEPT !["count"] = slots["count"]] /\ Step(phase, "list")
    /\ UNCHANGED <<who, stepVars, slots, hook, basicVars>>

CopyList ==
    /\ phase = "eps" /\ at = "list" /\ copy' = [copy EXCEPT !["list"] = slots["list"]] /\ Step("simple", "ask")
    /\ slots' = [slots EXCEPT !["count"] = NoOne, !["list"] = NoOne]
    /\ UNCHANGED <<who, stepVars, hook, basicVars>>

\* read_basic_once: the length is cleared, an old post drained and the sniffer armed, all
\* without the lock.
Arm ==
    /\ phase = "basic" /\ at = "ask" /\ reads < Reads
    /\ basicBuf' = NoOne /\ basicPost' = FALSE /\ armed' = who /\ reads' = reads + 1
    /\ Step(phase, "guess")
    /\ UNCHANGED <<who, stepVars, slots, hook, copy>>

\* esp_zb_af_send, with the lock: a read that does not go out, also for frame after frame
\* of the device in these 2 s, is the last.
SendBasic ==
    /\ phase = "basic" /\ at = "guess"
    /\ \/ hook = NoHook /\ Step(phase, "wait") /\ UNCHANGED basicVars
       \/ Step("merge", "ask") /\ armed' = NoOne /\ UNCHANGED <<basicPost, basicBuf, reads>>
    /\ UNCHANGED <<who, stepVars, slots, hook, copy>>

\* A post in 5 s, or none; then the sniffer is disarmed.
WaitBasic ==
    /\ phase = "basic" /\ at = "wait" /\ Step(phase, IF basicPost THEN "use" ELSE "fail")
    /\ basicPost' = FALSE /\ armed' = NoOne
    /\ UNCHANGED <<who, stepVars, basicBuf, reads, slots, hook, copy>>

\* read_basic: an answer without identity, or none, is read for again, as often as that
\* goes, until another device announces itself.
ParseBasic ==
    /\ phase = "basic" /\ at \in {"use", "fail"}
    /\ \/ at = "use" /\ basicBuf # NoOne
          /\ copy' = [copy EXCEPT !["ident"] = basicBuf] /\ Step("merge", "ask")
       \/ Step(IF reads < Reads THEN "basic" ELSE "merge", "ask") /\ UNCHANGED copy
       \/ Step("merge", "ask") /\ UNCHANGED copy
    /\ basicBuf' = NoOne
    /\ UNCHANGED <<who, stepVars, slots, hook, armed, basicPost, reads>>

\* commit_fn: what was read goes into the device's record.
Merge_read ==
    /\ phase = "merge" /\ Step("idle", "ask") /\ who' = NoOne /\ copy' = Unread /\ reads' = 0
    /\ UNCHANGED <<stepVars, slots, hook, armed, basicPost, basicBuf>>

-----------------------------------------------------------------------------

\* The stack answers a request, with success or not.
Callback_zdo(r, ok) ==
    /\ hook = NoHook /\ r \in late /\ late' = late \ {r}
    /\ hook' = [at |-> "check", kind |-> r.kind, gen |-> r.gen, dev |-> r.dev, ok |-> ok]
    /\ UNCHANGED <<who, phase, at, gens, post, fine, woken, slots, basicVars, copy>>

StepCurrent(g) == g = gens

\* on_node_desc, on_active_ep, on_simple_desc.
CheckGen ==
    /\ hook.at = "check"
    /\ hook' = IF ~StepCurrent(hook.gen) THEN NoHook
               ELSE [hook EXCEPT !.at = IF ~hook.ok THEN "post" ELSE IF hook.kind = "eps" THEN "count" ELSE "write"]
    /\ UNCHANGED <<who, phase, at, stepVars, slots, basicVars, copy>>

WriteCount ==
    /\ hook.at = "count" /\ slots' = [slots EXCEPT !["count"] = hook.dev]
    /\ hook' = [hook EXCEPT !.at = "write"]
    /\ UNCHANGED <<who, phase, at, stepVars, basicVars, copy>>

WriteAnswer ==
    /\ hook.at = "write" /\ hook.gen > 0
    /\ slots' = [slots EXCEPT ![IF hook.kind = "eps" THEN "list" ELSE hook.kind] = hook.dev]
    /\ hook' = [hook EXCEPT !.at = "post"]
    /\ UNCHANGED <<who, phase, at, stepVars, basicVars, copy>>

\* step_done.
StepDone ==
    /\ hook.at = "post" /\ hook.gen > 0 /\ fine' = hook.ok /\ post' = TRUE /\ hook' = NoHook
    /\ UNCHANGED <<who, phase, at, gens, woken, late, slots, basicVars, copy>>

\* Mutant of Sniffed: a Basic frame of any device is taken while a read is under way.
Sniffed_any(d) == armed # NoOne

Sniffed(d) == armed = d

\* zb_interview_feed_zcl: an answer, or a report the device sends by itself.
BasicFrame(d) ==
    /\ hook = NoHook /\ Sniffed(d) /\ hook' = [NoHook EXCEPT !.at = "write", !.dev = d]
    /\ UNCHANGED <<who, phase, at, stepVars, slots, basicVars, copy>>

CopyFrame ==
    /\ hook.at = "write" /\ hook.gen = 0 /\ basicBuf' = hook.dev /\ hook' = [hook EXCEPT !.at = "post"]
    /\ UNCHANGED <<who, phase, at, stepVars, slots, armed, basicPost, reads, copy>>

PostFrame ==
    /\ hook.at = "post" /\ hook.gen = 0 /\ basicPost' = TRUE /\ hook' = NoHook
    /\ UNCHANGED <<who, phase, at, stepVars, slots, armed, basicBuf, reads, copy>>

Reader ==
    \/ Ask \/ Wait \/ ExpireStep \/ Descriptor \/ GuessCount \/ GuessList \/ CopyCount \/ CopyList
    \/ Arm \/ SendBasic \/ WaitBasic \/ ParseBasic \/ Merge_read

HookSteps == CheckGen \/ WriteCount \/ WriteAnswer \/ StepDone \/ CopyFrame \/ PostFrame

ReadNext ==
    \/ \E d \in Target : Begin(d) \/ BasicFrame(d)
    \/ Reader \/ HookSteps
    \/ \E r \in late, ok \in BOOLEAN : Callback_zdo(r, ok)

ReadSpec == ReadInit /\ [][ReadNext]_readVars

-----------------------------------------------------------------------------

\* No device gets another's descriptors or identity, however late the answers to the
\* requests before come in (esp_zb_req_gen.h:6): not over the slot, and not over the
\* Basic buffer, which is drained before the lock is taken.
OwnIdentity ==
    phase = "merge" =>
        /\ {copy["node"], copy["simple"], copy["ident"]} \subseteq {NoOne, who}
        /\ {copy["count"], copy["list"]} \subseteq {Guess, who}

=============================================================================
