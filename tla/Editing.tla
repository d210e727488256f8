------------------------------- MODULE Editing -------------------------------
(***************************************************************************)
(* Rules and scripts edited from the hub page (WebSocket), REST and the    *)
(* cloud, on two tasks (ws_bridge.cpp, api_rules.cpp, api_scripts.cpp):    *)
(* every change under one lock (edit_lock.h), saves that compare with the  *)
(* text the editor opened, long scripts staged in parts, and the pushes    *)
(* that tell the listeners.                                                *)
(***************************************************************************)
EXTENDS Naturals, Sequences, FiniteSets

CONSTANTS
    Script, Rule,     \* names of scripts, ids of rules
    Text,             \* what a rule or a script can be; a fingerprint stands for its text
    NoText,           \* not there; no base given
    Xfer, NoXfer,     \* staged transfers
    Door,             \* how requests come in: "ws" and "rest" on httpd, "relay"
    MaxScripts,       \* LUA_SCRIPT_MAX
    MaxPending        \* bound: rule events not yet delivered

ASSUME EditAssumption ==
    /\ Script \cap Rule = {} /\ NoText \notin Text /\ NoXfer \notin Xfer
    /\ Door \subseteq {"ws", "rest", "relay"}
    /\ MaxScripts \in Nat /\ MaxPending \in Nat

Doc  == Script \cup Rule
Edit == {"httpd", "relay"}

VARIABLES
    stored,   \* lua_script_cache and rule_store: what is in flash
    lock,     \* g_edit_mutex
    edits,    \* per task, the request it is on
    slot,     \* remote_xfer: the staged text
    bus,      \* RULE_CHANGED events not delivered yet
    heard     \* what the pushes have told of each rule and script

editVars == <<stored, lock, edits, slot, bus, heard>>

-----------------------------------------------------------------------------

Free == "free"
NoEdit == [at |-> "idle"]

\* meant: what the sender wants there, NoText to delete; base: the text its editor opened,
\* NoText for none, "new" when the name must be free (of a rule: rule.create).
EditRequest == [at : {"wait", "compare", "write", "tell"}, door : Door, doc : Doc,
            meant : Text \cup {NoText}, base : Text \cup {NoText, "new"},
            xfer : Xfer \cup {NoXfer}]

\* Types; a task past the lock holds it; a staged text is a part or complete.
EditTypeOK ==
    /\ stored \in [Doc -> Text \cup {NoText}] /\ heard \in [Doc -> Text \cup {NoText}]
    /\ lock \in Edit \cup {Free}
    /\ \A t \in Edit : edits[t] = NoEdit \/ edits[t] \in EditRequest
    /\ \A t \in Edit : edits[t].at \in {"compare", "write", "tell"} => lock = t
    /\ slot = NoEdit \/ slot \in [at : {"part", "complete"}, xfer : Xfer, text : Text]
    /\ bus \in Seq([rule : Rule, gone : BOOLEAN]) /\ Len(bus) <= MaxPending

EditInit ==
    /\ stored = [d \in Doc |-> NoText] /\ heard = stored
    /\ lock = Free /\ edits = [t \in Edit |-> NoEdit]
    /\ slot = NoEdit /\ bus = <<>>

-----------------------------------------------------------------------------

TaskOf(door) == IF door = "relay" THEN "relay" ELSE "httpd"

\* REST gives no base; only scripts are staged; a delete has no base.
Well(r) ==
    /\ r.door = "rest" /\ r.doc \in Script => r.base = NoText
    /\ r.door = "rest" => r.base \in {NoText, "new"} /\ r.xfer = NoXfer
    /\ r.doc \in Rule \/ r.meant = NoText => r.xfer = NoXfer
    /\ r.meant = NoText => r.base = NoText

Ask(door, doc, meant, base, xfer) ==
    LET t == TaskOf(door)
        r == [at |-> "wait", door |-> door, doc |-> doc, meant |-> meant,
              base |-> base, xfer |-> xfer]
    IN  /\ edits[t] = NoEdit /\ Well(r)
        /\ edits' = [edits EXCEPT ![t] = r]
        /\ UNCHANGED <<stored, lock, slot, bus, heard>>

Step(t, at) == edits' = [edits EXCEPT ![t].at = at]

\* Mutant of NeedsLock: a save without a base has nothing to compare.
NeedsLockBase(r) == r.base # NoText

\* Every rule and script change.
NeedsLock(r) == TRUE

TakeLock(t) ==
    /\ edits[t].at = "wait"
    /\ NeedsLock(edits[t]) => lock = Free
    /\ lock' = IF NeedsLock(edits[t]) THEN t ELSE lock
    /\ Step(t, "compare")
    /\ UNCHANGED <<stored, slot, bus, heard>>

Unlocked(t) == IF lock = t THEN Free ELSE lock

Refuse(t) ==
    /\ lock' = Unlocked(t)
    /\ edits' = [edits EXCEPT ![t] = NoEdit]
    /\ UNCHANGED <<stored, slot, bus, heard>>

\* Does the base the editor opened still stand ("exists", "changed")?
BaseStands(r) ==
    \/ r.base = NoText
    \/ r.base = "new" /\ stored[r.doc] = NoText
    \/ r.base # "new" /\ stored[r.doc] = r.base

\* The text came along, or lies staged, complete, under its name, and its size and
\* fingerprint are those the sender gave ("no_xfer", "bad_part").
TextIsThere(r) ==
    r.xfer = NoXfer \/ slot = [at |-> "complete", xfer |-> r.xfer, text |-> r.meant]

\* An update or a delete needs something there; a new script a place (not over REST).
Possible(r) ==
    /\ (r.meant = NoText \/ (r.doc \in Rule /\ r.base # "new")) => stored[r.doc] # NoText
    /\ r.doc \in Script /\ r.meant # NoText /\ stored[r.doc] = NoText /\ r.door # "rest" =>
           Cardinality({s \in Script : stored[s] # NoText}) < MaxScripts

\* cmd_rule_update, cmd_script_write and their twins up to the write.
Compare(t) ==
    /\ edits[t].at = "compare"
    /\ IF BaseStands(edits[t]) /\ TextIsThere(edits[t]) /\ Possible(edits[t])
       THEN Step(t, "write") /\ UNCHANGED <<stored, lock, slot, bus, heard>>
       ELSE Refuse(t)

\* The store writes; a rule's change goes onto the event bus.
Save(t) ==
    LET r == edits[t] IN
    /\ r.at = "write" /\ Len(bus) < MaxPending
    /\ stored' = [stored EXCEPT ![r.doc] = r.meant]
    /\ bus' = IF r.doc \in Rule THEN Append(bus, [rule |-> r.doc, gone |-> r.meant = NoText]) ELSE bus
    /\ Step(t, "tell")
    /\ UNCHANGED <<lock, slot, heard>>

\* A syntax error, a full store or a failing write: nothing changes, the staged text stays.
SaveFails(t) == edits[t].at = "write" /\ Refuse(t)

\* One push to whoever listens: the browsers and the cloud relay are told the same.
ws_push(d, v) == [heard EXCEPT ![d] = v]

\* script.added, script.updated, script.deleted: from the request, not from the store.
Pushed(r) == IF r.doc \in Script THEN ws_push(r.doc, r.meant) ELSE heard

\* The staged text is used up, unless another transfer has taken its place.
Dropped(r) == IF slot.at = "complete" /\ slot.xfer = r.xfer THEN NoEdit ELSE slot

\* A script's push, the end of its transfer, and the lock goes.
Tell(t) ==
    /\ edits[t].at = "tell"
    /\ heard' = Pushed(edits[t]) /\ slot' = Dropped(edits[t])
    /\ lock' = Unlocked(t)
    /\ edits' = [edits EXCEPT ![t] = NoEdit]
    /\ UNCHANGED <<stored, bus>>

-----------------------------------------------------------------------------

\* script.part: no lock; a transfer may begin in the place of another.
Part(x, v, at) ==
    /\ at = "part" \/ slot = [at |-> "part", xfer |-> x, text |-> v]
    /\ slot' = [at |-> at, xfer |-> x, text |-> v]
    /\ UNCHANGED <<stored, lock, edits, bus, heard>>

Expire == slot # NoEdit /\ slot' = NoEdit /\ UNCHANGED <<stored, lock, edits, bus, heard>>

\* Mutant of RowOf: a rule that is not there is pushed as it last was.
RowOf_none(e) == IF e.gone THEN heard[e.rule] ELSE stored[e.rule]

\* What on_rule_changed tells: the row as it is now; nothing of one deleted meanwhile.
RowOf(e) ==
    IF e.gone THEN NoText
    ELSE IF stored[e.rule] = NoText THEN heard[e.rule] ELSE stored[e.rule]

Deliver ==
    /\ bus # <<>>
    /\ heard' = ws_push(Head(bus).rule, RowOf(Head(bus)))
    /\ bus' = Tail(bus)
    /\ UNCHANGED <<stored, lock, edits, slot>>

EditNext ==
    \/ \E door \in Door, doc \in Doc, meant \in Text \cup {NoText},
          base \in Text \cup {NoText, "new"}, xfer \in Xfer \cup {NoXfer} :
          Ask(door, doc, meant, base, xfer)
    \/ \E t \in Edit : TakeLock(t) \/ Compare(t) \/ Save(t) \/ SaveFails(t) \/ Tell(t)
    \/ \E x \in Xfer, v \in Text, at \in {"part", "complete"} : Part(x, v, at)
    \/ Expire \/ Deliver

EditSpec == EditInit /\ [][EditNext]_editVars

-----------------------------------------------------------------------------

\* No silent overwrite: a save with a base replaces the very text its editor opened,
\* whatever door another change comes in by meanwhile, and what it writes is the text
\* its sender meant (edit_lock.h, cmd_script_write).
NoSilentOverwrite ==
    [][\A t \in Edit : edits[t].at = "write" /\ edits'[t].at = "tell" =>
          /\ BaseStands(edits[t])
          /\ stored'[edits[t].doc] = edits[t].meant]_editVars

\* Once the lock is free and the events are delivered, the listeners know what is
\* stored, in whatever order the doors, the event bus and the pushes ran.
ListenersKnow == lock = Free /\ bus = <<>> => heard = stored

=============================================================================
