--------------------------- MODULE ServicesProofs ---------------------------
(* Of how the hub starts, edits and reports: that no edit is overwritten unseen (Editing),  *)
(* that a restart on purpose loses nothing and no event is missed (HubStart), whose restart *)
(* tail it is (RestartTail), that a paged list (Listing) and a snapshot of the ring         *)
(* (LogRing) are whole, and that the cloud is told every line or its loss (CloudLog).       *)
EXTENDS Editing, HubStart, RestartTail, Listing, CloudLog, LogRing, TLAPS

-----------------------------------------------------------------------------
(* Edits.                                                                    *)

\* A task past the lock holds it, and one that writes compared what is still stored.
LockInv ==
    /\ DOMAIN edits = Edit
    /\ \A t \in Edit : edits[t].at \in {"compare", "write", "tell"} => lock = t
    /\ \A t \in Edit : edits[t].at = "write" => BaseStands(edits[t])
    /\ \A t \in Edit : edits[t] = NoEdit \/ edits[t] \in EditRequest
    /\ stored \in [Doc -> Text \cup {NoText}]

LEMMA LockInvStep == LockInv /\ [EditNext]_editVars => LockInv'
<1> SUFFICES ASSUME LockInv, [EditNext]_editVars PROVE LockInv'
  OBVIOUS
<1>1. ASSUME NEW door \in Door, NEW doc \in Doc, NEW meant \in Text \cup {NoText},
             NEW base \in Text \cup {NoText, "new"}, NEW xfer \in Xfer \cup {NoXfer},
             Ask(door, doc, meant, base, xfer)
      PROVE  LockInv'
  <2> DEFINE r == [at |-> "wait", door |-> door, doc |-> doc, meant |-> meant, base |-> base, xfer |-> xfer]
  <2>1. r \in EditRequest /\ r.at = "wait"
    BY DEF EditRequest
  <2>2. edits' = [edits EXCEPT ![TaskOf(door)] = r] /\ UNCHANGED <<stored, lock>>
    BY <1>1 DEF Ask
  <2> HIDE DEF r
  <2>3. \A t \in Edit : edits'[t] = edits[t] \/ edits'[t] = r
    BY <2>2 DEF LockInv
  <2> QED BY <2>1, <2>2, <2>3 DEF LockInv, BaseStands
<1>2. ASSUME NEW t \in Edit, TakeLock(t) PROVE LockInv'
  <2>1. lock = Free /\ lock' = t /\ edits[t].at = "wait" /\ stored' = stored
    BY <1>2 DEF TakeLock, NeedsLock
  <2>2. edits[t] \in EditRequest
    BY <2>1 DEF LockInv, NoEdit
  <2>3. edits' = [edits EXCEPT ![t] = [edits[t] EXCEPT !.at = "compare"]]
    BY <1>2 DEF TakeLock, Step
  <2>4. [edits[t] EXCEPT !.at = "compare"] \in EditRequest /\ [edits[t] EXCEPT !.at = "compare"].at = "compare"
    BY <2>2 DEF EditRequest
  <2>5. \A u \in Edit : u # t => edits'[u] = edits[u] /\ edits[u].at \notin {"compare", "write", "tell"}
    BY <2>1, <2>3 DEF LockInv, Free, Edit
  <2> QED BY <2>1, <2>3, <2>4, <2>5 DEF LockInv, BaseStands
<1>3. ASSUME NEW t \in Edit, edits[t].at \in {"compare", "write"}, Refuse(t) PROVE LockInv'
  <2>1. lock = t /\ lock' = Free /\ stored' = stored /\ edits' = [edits EXCEPT ![t] = NoEdit]
    BY <1>3 DEF Refuse, Unlocked, LockInv
  <2>2. \A u \in Edit : u # t => edits'[u] = edits[u] /\ edits[u].at \notin {"compare", "write", "tell"}
    BY <2>1 DEF LockInv
  <2> QED BY <2>1, <2>2 DEF LockInv, NoEdit, BaseStands
<1>4. ASSUME NEW t \in Edit, Compare(t) PROVE LockInv'
  <2>1. CASE Refuse(t)
    BY <1>3, <1>4, <2>1 DEF Compare
  <2>2. CASE BaseStands(edits[t]) /\ Step(t, "write") /\ UNCHANGED <<stored, lock, slot, bus, heard>>
    <3>1. edits[t].at = "compare" /\ edits[t] \in EditRequest
      BY <1>4 DEF Compare, LockInv, NoEdit
    <3>2. edits' = [edits EXCEPT ![t] = [edits[t] EXCEPT !.at = "write"]]
      BY <2>2 DEF Step
    <3> DEFINE r == [edits[t] EXCEPT !.at = "write"]
    <3>3. r \in EditRequest /\ r.at = "write" /\ r.base = edits[t].base /\ r.doc = edits[t].doc
      BY <3>1 DEF EditRequest
    <3> HIDE DEF r
    <3>4. \A u \in Edit : edits'[u] = IF u = t THEN r ELSE edits[u]
      BY <3>2 DEF LockInv, r
    <3>5. stored' = stored /\ lock' = lock /\ DOMAIN edits' = Edit
      BY <2>2, <3>2 DEF LockInv
    <3>6. \A u \in Edit : edits'[u].at = "write" => (BaseStands(edits[u]))'
      <4> TAKE u \in Edit
      <4>1. CASE u = t
        BY <2>2, <3>3, <3>4, <3>5, <4>1 DEF BaseStands
      <4>2. CASE u # t
        BY <3>4, <3>5, <4>2 DEF LockInv, BaseStands
      <4> QED BY <4>1, <4>2
    <3>7. \A u \in Edit : edits'[u].at \in {"compare", "write", "tell"} => lock' = u
      BY <3>1, <3>3, <3>4, <3>5 DEF LockInv
    <3>8. \A u \in Edit : edits'[u] = NoEdit \/ edits'[u] \in EditRequest
      BY <3>3, <3>4 DEF LockInv
    <3> QED BY <3>5, <3>6, <3>7, <3>8 DEF LockInv
  <2> QED BY <1>4, <2>1, <2>2 DEF Compare
<1>5. ASSUME NEW t \in Edit, Save(t) PROVE LockInv'
  <2>1. edits[t].at = "write" /\ edits[t] \in EditRequest /\ lock' = lock
    BY <1>5 DEF Save, LockInv, NoEdit
  <2>2. edits' = [edits EXCEPT ![t] = [edits[t] EXCEPT !.at = "tell"]]
        /\ stored' = [stored EXCEPT ![edits[t].doc] = edits[t].meant]
    BY <1>5 DEF Save, Step
  <2>3. [edits[t] EXCEPT !.at = "tell"] \in EditRequest /\ [edits[t] EXCEPT !.at = "tell"].at = "tell"
    BY <2>1 DEF EditRequest
  <2>4. \A u \in Edit : u # t => edits'[u] = edits[u] /\ edits[u].at \notin {"compare", "write", "tell"}
    BY <2>1, <2>2 DEF LockInv
  <2>5. stored' \in [Doc -> Text \cup {NoText}]
    BY <2>1, <2>2 DEF LockInv, EditRequest
  <2> QED BY <2>1, <2>2, <2>3, <2>4, <2>5 DEF LockInv
<1>6. ASSUME NEW t \in Edit, SaveFails(t) PROVE LockInv'
  BY <1>3, <1>6 DEF SaveFails
<1>7. ASSUME NEW t \in Edit, Tell(t) PROVE LockInv'
  <2>1. edits[t].at = "tell" /\ lock' = Free /\ stored' = stored /\ edits' = [edits EXCEPT ![t] = NoEdit]
    BY <1>7 DEF Tell, Unlocked, LockInv
  <2>2. \A u \in Edit : u # t => edits'[u] = edits[u] /\ edits[u].at \notin {"compare", "write", "tell"}
    BY <2>1 DEF LockInv
  <2> QED BY <2>1, <2>2 DEF LockInv, NoEdit, BaseStands
<1>8. CASE UNCHANGED <<stored, lock, edits>>
  BY <1>8 DEF LockInv, BaseStands
<1> QED
  BY <1>1, <1>2, <1>4, <1>5, <1>6, <1>7, <1>8 DEF EditNext, editVars, Part, Expire, Deliver

\* No edit is overwritten unseen, for any number of scripts, rules and texts: a save with a
\* base replaces the very text its editor opened (edit_lock.h, cmd_script_write).
THEOREM EditsAreNotLost == EditSpec => NoSilentOverwrite
<1>1. EditInit => LockInv
  BY DEF EditInit, LockInv, NoEdit
<1>2. LockInv /\ [EditNext]_editVars =>
        [\A t \in Edit : edits[t].at = "write" /\ edits'[t].at = "tell" =>
           /\ BaseStands(edits[t])
           /\ stored'[edits[t].doc] = edits[t].meant]_editVars
  <2> SUFFICES ASSUME LockInv, EditNext, NEW t \in Edit, edits[t].at = "write", edits'[t].at = "tell"
               PROVE  BaseStands(edits[t]) /\ stored'[edits[t].doc] = edits[t].meant
    OBVIOUS
  <2>1. BaseStands(edits[t]) /\ edits[t] \in EditRequest
    BY DEF LockInv, NoEdit
  <2>2. Save(t)
    <3>1. ASSUME NEW door \in Door, NEW doc \in Doc, NEW meant \in Text \cup {NoText},
                 NEW base \in Text \cup {NoText, "new"}, NEW xfer \in Xfer \cup {NoXfer},
                 Ask(door, doc, meant, base, xfer)
          PROVE  FALSE
      <4> DEFINE r == [at |-> "wait", door |-> door, doc |-> doc, meant |-> meant, base |-> base, xfer |-> xfer]
      <4>1. r.at = "wait"
        OBVIOUS
      <4>2. edits' = [edits EXCEPT ![TaskOf(door)] = r]
        BY <3>1 DEF Ask
      <4> HIDE DEF r
      <4> QED BY <4>1, <4>2 DEF LockInv
    <3>2. ASSUME NEW u \in Edit, Refuse(u) \/ Tell(u) PROVE FALSE
      <4>1. edits' = [edits EXCEPT ![u] = NoEdit]
        BY <3>2 DEF Refuse, Tell
      <4> QED BY <4>1 DEF LockInv, NoEdit
    <3>3. ASSUME NEW u \in Edit, NEW a \in {"compare", "write"}, edits[u].at # "write", Step(u, a) PROVE FALSE
      <4>1. \A w \in Edit : w # u => edits'[w] = edits[w]
        BY <3>3 DEF Step, LockInv
      <4> QED BY <3>3, <4>1
    <3>4. ASSUME NEW u \in Edit, TakeLock(u) PROVE FALSE
      BY <3>3, <3>4 DEF TakeLock
    <3>5. ASSUME NEW u \in Edit, Compare(u) PROVE FALSE
      BY <3>2, <3>3, <3>5 DEF Compare
    <3>6. ASSUME NEW u \in Edit, SaveFails(u) PROVE FALSE
      BY <3>2, <3>6 DEF SaveFails
    <3>7. ASSUME NEW u \in Edit, Save(u) PROVE u = t
      <4>1. \A w \in Edit : w # u => edits'[w] = edits[w]
        BY <3>7 DEF Save, Step, LockInv
      <4> QED BY <4>1
    <3>8. edits' # edits
      OBVIOUS
    <3> QED BY <3>1, <3>2, <3>4, <3>5, <3>6, <3>7, <3>8 DEF EditNext, Part, Expire, Deliver
  <2> QED BY <2>1, <2>2 DEF Save, LockInv, EditRequest
<1> QED
  BY <1>1, <1>2, LockInvStep, PTL DEF EditSpec, NoSilentOverwrite

\* What the listeners have not been told yet is on its way: a script's push by the task that
\* saved it, a rule's event on the bus, the last of which says whether the rule is there.
EventsTell ==
    /\ bus \in Seq([rule : Rule, gone : BOOLEAN])
    /\ \A d \in Rule : heard[d] = stored[d] \/ \E i \in 1..Len(bus) : bus[i].rule = d
    /\ \A i \in 1..Len(bus) : (\A j \in 1..Len(bus) : j > i => bus[j].rule # bus[i].rule)
                              => (bus[i].gone <=> stored[bus[i].rule] = NoText)

PushesTell ==
    /\ \A t \in Edit : edits[t].at = "tell" => stored[edits[t].doc] = edits[t].meant
    /\ \A d \in Script : heard[d] = stored[d] \/ \E t \in Edit : edits[t].at = "tell" /\ edits[t].doc = d

ToldInv == LockInv /\ heard \in [Doc -> Text \cup {NoText}] /\ EventsTell /\ PushesTell

\* A task that does not tell moves nothing the listeners hear of.
LEMMA StepsTell ==
  ASSUME ToldInv, LockInv', UNCHANGED <<stored, bus, heard>>,
         \A t \in Edit : edits[t].at = "tell" <=> edits'[t].at = "tell",
         \A t \in Edit : edits[t].at = "tell" => edits'[t] = edits[t]
  PROVE  ToldInv'
<1>1. PushesTell'
  BY DEF ToldInv, PushesTell
<1>2. EventsTell'
  BY DEF ToldInv, EventsTell
<1> QED BY <1>1, <1>2 DEF ToldInv

\* Every event on the bus is of a rule.
LEMMA RulesOnBus ==
  ASSUME bus \in Seq([rule : Rule, gone : BOOLEAN])
  PROVE  \A i \in 1..Len(bus) : bus[i].rule \in Rule
<1> DEFINE S == [rule : Rule, gone : BOOLEAN]
<1>1. bus \in Seq(S)
  OBVIOUS
<1> HIDE DEF S
<1>2. \A i \in 1..Len(bus) : bus[i] \in S
  BY <1>1
<1> QED BY <1>2 DEF S

LEMMA DeliverTells == ToldInv /\ LockInv' /\ Deliver => ToldInv'
<1> SUFFICES ASSUME ToldInv, LockInv', Deliver PROVE ToldInv'
  OBVIOUS
<1> DEFINE e == Head(bus)
           row == RowOf(e)
<1>1. bus \in Seq([rule : Rule, gone : BOOLEAN]) /\ bus # <<>> /\ Len(bus) \in Nat /\ e = bus[1]
      /\ e \in [rule : Rule, gone : BOOLEAN]
  <2> DEFINE S == [rule : Rule, gone : BOOLEAN]
  <2>1. bus \in Seq(S) /\ bus # <<>>
    BY DEF Deliver, ToldInv, EventsTell
  <2> HIDE DEF S
  <2>2. Len(bus) \in Nat /\ Head(bus) = bus[1] /\ Head(bus) \in S
    BY <2>1
  <2> QED BY <2>1, <2>2 DEF S
<1>2. bus' \in Seq([rule : Rule, gone : BOOLEAN]) /\ Len(bus') = Len(bus) - 1
      /\ \A i \in 1..Len(bus') : i + 1 \in 1..Len(bus) /\ bus'[i] = bus[i + 1]
  BY <1>1 DEF Deliver
<1>3. heard' = [heard EXCEPT ![e.rule] = row] /\ UNCHANGED <<stored, lock, edits>>
  BY DEF Deliver, ws_push
<1>4. e.rule \in Doc /\ e.rule \in Rule /\ e.rule \notin Script
  BY <1>1, EditAssumption DEF Doc
<1>5. row = NoText \/ row = stored[e.rule] \/ row = heard[e.rule]
  BY DEF RowOf
<1>6. row \in Text \cup {NoText}
  BY <1>4, <1>5 DEF ToldInv, LockInv
<1> HIDE DEF row, e
<1>7. heard' \in [Doc -> Text \cup {NoText}] /\ heard'[e.rule] = row
      /\ \A d \in Doc : d # e.rule => heard'[d] = heard[d]
  BY <1>3, <1>4, <1>6 DEF ToldInv
<1>8. PushesTell'
  BY <1>3, <1>4, <1>7 DEF ToldInv, PushesTell, Doc
<1>9. ASSUME NEW d \in Rule PROVE heard'[d] = stored'[d] \/ \E i \in 1..Len(bus') : bus'[i].rule = d
  <2>1. CASE \E i \in 1..Len(bus) : i > 1 /\ bus[i].rule = d
    <3>1. PICK i \in 1..Len(bus) : i > 1 /\ bus[i].rule = d
      BY <2>1
    <3>2. i - 1 \in 1..Len(bus') /\ bus'[i - 1].rule = d
      BY <1>1, <1>2, <3>1
    <3> QED BY <3>2
  <2>2. CASE ~(\E i \in 1..Len(bus) : i > 1 /\ bus[i].rule = d) /\ d = e.rule
    <3>1. 1 \in 1..Len(bus) /\ bus[1].rule = d /\ bus[1] = e
      BY <1>1, <2>2 DEF e
    <3>2. \A j \in 1..Len(bus) : j > 1 => bus[j].rule # bus[1].rule
      BY <2>2, <3>1
    <3>3. bus[1].gone <=> stored[bus[1].rule] = NoText
      BY <3>1, <3>2 DEF ToldInv, EventsTell
    <3>4. row = stored[d]
      BY <2>2, <3>1, <3>3 DEF row, RowOf
    <3> QED BY <1>3, <1>7, <2>2, <3>4
  <2>3. CASE ~(\E i \in 1..Len(bus) : i > 1 /\ bus[i].rule = d) /\ d # e.rule
    <3>1. heard[d] = stored[d]
      BY <1>1, <2>3 DEF ToldInv, EventsTell, e
    <3> QED BY <1>3, <1>7, <2>3, <3>1 DEF Doc
  <2> QED BY <2>1, <2>2, <2>3
<1>10. ASSUME NEW i \in 1..Len(bus'), \A j \in 1..Len(bus') : j > i => bus'[j].rule # bus'[i].rule
       PROVE  bus'[i].gone <=> stored'[bus'[i].rule] = NoText
  <2>1. i + 1 \in 1..Len(bus) /\ bus'[i] = bus[i + 1]
    BY <1>2
  <2>2. ASSUME NEW j \in 1..Len(bus), j > i + 1 PROVE bus[j].rule # bus[i + 1].rule
    <3>1. j - 1 \in 1..Len(bus') /\ j - 1 > i /\ bus'[j - 1] = bus[j]
      BY <1>1, <1>2, <2>2
    <3> QED BY <1>10, <2>1, <3>1
  <2>3. bus[i + 1].gone <=> stored[bus[i + 1].rule] = NoText
    BY <2>1, <2>2 DEF ToldInv, EventsTell
  <2> QED BY <1>3, <2>1, <2>3
<1>11. EventsTell'
  BY <1>2, <1>9, <1>10 DEF EventsTell
<1> QED BY <1>7, <1>8, <1>11 DEF ToldInv

LEMMA SaveTells == ASSUME ToldInv, LockInv', NEW t \in Edit, Save(t) PROVE ToldInv'
<1> DEFINE r == edits[t]
           e == [rule |-> r.doc, gone |-> r.meant = NoText]
<1>1. r \in EditRequest /\ r.at = "write" /\ r.doc \in Doc /\ r.meant \in Text \cup {NoText}
  BY DEF ToldInv, LockInv, NoEdit, Save, EditRequest
<1>2. stored' = [stored EXCEPT ![r.doc] = r.meant] /\ UNCHANGED <<lock, heard>>
      /\ bus' = (IF r.doc \in Rule THEN Append(bus, e) ELSE bus)
  BY DEF Save
<1>3. edits' = [edits EXCEPT ![t] = [edits[t] EXCEPT !.at = "tell"]]
  BY DEF Save, Step
<1>4. edits'[t].at = "tell" /\ edits'[t].doc = r.doc /\ edits'[t].meant = r.meant
  BY <1>1, <1>3 DEF EditRequest, ToldInv, LockInv
<1>5. \A u \in Edit : u # t => edits'[u] = edits[u] /\ edits[u].at # "tell"
  BY <1>1, <1>3 DEF ToldInv, LockInv
<1>6. stored'[r.doc] = r.meant /\ \A d \in Doc : d # r.doc => stored'[d] = stored[d]
  BY <1>1, <1>2 DEF ToldInv, LockInv
<1> HIDE DEF r
<1>7. PushesTell'
  <2>1. \A u \in Edit : edits'[u].at = "tell" => stored'[edits'[u].doc] = edits'[u].meant
    BY <1>4, <1>5, <1>6
  <2>2. ASSUME NEW d \in Script PROVE heard'[d] = stored'[d] \/ \E u \in Edit : edits'[u].at = "tell" /\ edits'[u].doc = d
    <3>1. CASE d = r.doc
      BY <1>4, <3>1
    <3>2. CASE d # r.doc
      <4>1. heard[d] = stored[d]
        BY <1>1, <1>5, <3>2 DEF ToldInv, PushesTell, r
      <4> QED BY <1>2, <1>6, <3>2, <4>1 DEF Doc
    <3> QED BY <3>1, <3>2
  <2> QED BY <2>1, <2>2 DEF PushesTell
<1>8. CASE r.doc \notin Rule
  <2>1. bus' = bus /\ \A d \in Rule : stored'[d] = stored[d]
    BY <1>2, <1>6, <1>8 DEF Doc
  <2>2. \A i \in 1..Len(bus) : bus[i].rule \in Rule
    BY RulesOnBus DEF ToldInv, EventsTell
  <2>3. EventsTell'
    BY <1>2, <2>1, <2>2 DEF ToldInv, EventsTell
  <2> QED BY <1>2, <1>7, <2>3 DEF ToldInv
<1>9. CASE r.doc \in Rule
  <2>1. e \in [rule : Rule, gone : BOOLEAN] /\ e.rule = r.doc /\ (e.gone <=> r.meant = NoText)
    BY <1>9
  <2>2. bus' = Append(bus, e) /\ bus \in Seq([rule : Rule, gone : BOOLEAN]) /\ Len(bus) \in Nat
    BY <1>2, <1>9 DEF ToldInv, EventsTell
  <2> HIDE DEF e
  <2>3. bus' \in Seq([rule : Rule, gone : BOOLEAN]) /\ Len(bus') = Len(bus) + 1 /\ bus'[Len(bus')] = e
        /\ \A i \in 1..Len(bus) : i \in 1..Len(bus') /\ bus'[i] = bus[i]
    BY <2>1, <2>2
  <2>4. ASSUME NEW d \in Rule PROVE heard'[d] = stored'[d] \/ \E i \in 1..Len(bus') : bus'[i].rule = d
    <3>1. CASE d = r.doc
      BY <2>1, <2>2, <2>3, <3>1
    <3>2. CASE d # r.doc
      BY <1>2, <1>6, <2>3, <3>2 DEF ToldInv, EventsTell, Doc
    <3> QED BY <3>1, <3>2
  <2>5. ASSUME NEW i \in 1..Len(bus'), \A j \in 1..Len(bus') : j > i => bus'[j].rule # bus'[i].rule
        PROVE  bus'[i].gone <=> stored'[bus'[i].rule] = NoText
    <3>1. CASE i = Len(bus')
      BY <1>6, <2>1, <2>3, <3>1
    <3>2. CASE i # Len(bus')
      <4>1. i \in 1..Len(bus) /\ bus'[i] = bus[i] /\ bus[i].rule \in Rule
        <5>1. i \in 1..Len(bus)
          BY <2>2, <2>3, <3>2
        <5> QED BY <5>1, <2>3, RulesOnBus DEF ToldInv, EventsTell
      <4>2. bus[i].rule # r.doc
        BY <2>1, <2>2, <2>3, <2>5, <3>2, <4>1
      <4>3. \A j \in 1..Len(bus) : j > i => bus[j].rule # bus[i].rule
        BY <2>3, <2>5, <4>1
      <4>4. bus[i].gone <=> stored[bus[i].rule] = NoText
        BY <4>1, <4>3 DEF ToldInv, EventsTell
      <4> QED BY <1>6, <4>1, <4>2, <4>4 DEF Doc
    <3> QED BY <3>1, <3>2
  <2>6. EventsTell'
    BY <2>3, <2>4, <2>5 DEF EventsTell
  <2> QED BY <1>2, <1>7, <2>6 DEF ToldInv
<1> QED BY <1>8, <1>9

LEMMA TellTells == ASSUME ToldInv, LockInv', NEW t \in Edit, Tell(t) PROVE ToldInv'
<1> DEFINE r == edits[t]
<1>1. r \in EditRequest /\ r.at = "tell" /\ r.doc \in Doc /\ r.meant \in Text \cup {NoText}
      /\ stored[r.doc] = r.meant
  BY DEF ToldInv, LockInv, PushesTell, NoEdit, Tell, EditRequest
<1>2. edits' = [edits EXCEPT ![t] = NoEdit] /\ UNCHANGED <<stored, bus>> /\ heard' = Pushed(r)
  BY DEF Tell
<1>3. \A u \in Edit : edits'[u].at # "tell"
  BY <1>1, <1>2 DEF ToldInv, LockInv, NoEdit
<1>4. \A u \in Edit : u # t => edits[u].at # "tell"
  BY <1>1 DEF ToldInv, LockInv
<1> HIDE DEF r
<1>5. /\ heard' \in [Doc -> Text \cup {NoText}]
      /\ \A d \in Doc : heard'[d] = heard[d] \/ (d = r.doc /\ heard'[d] = stored[d])
      /\ r.doc \in Script => heard'[r.doc] = stored[r.doc]
  <2>1. CASE r.doc \in Script
    BY <1>1, <1>2, <2>1 DEF Pushed, ws_push, ToldInv
  <2>2. CASE r.doc \notin Script
    BY <1>2, <2>2 DEF Pushed, ToldInv
  <2> QED BY <2>1, <2>2
<1>6. PushesTell'
  <2>1. ASSUME NEW d \in Script PROVE heard'[d] = stored'[d]
    <3>1. CASE d = r.doc
      BY <1>2, <1>5, <2>1, <3>1
    <3>2. CASE d # r.doc
      <4>1. heard[d] = stored[d]
        BY <1>4, <2>1, <3>2 DEF ToldInv, PushesTell, r
      <4> QED BY <1>2, <1>5, <2>1, <3>2, <4>1 DEF Doc
    <3> QED BY <3>1, <3>2
  <2> QED BY <1>3, <2>1 DEF PushesTell
<1>7. EventsTell'
  <2>1. \A d \in Rule : heard'[d] = heard[d] \/ heard'[d] = stored[d]
    BY <1>5 DEF Doc
  <2> QED BY <1>2, <2>1 DEF ToldInv, EventsTell
<1> QED BY <1>5, <1>6, <1>7 DEF ToldInv

LEMMA ToldInvStep == ToldInv /\ [EditNext]_editVars => ToldInv'
<1> SUFFICES ASSUME ToldInv, [EditNext]_editVars PROVE ToldInv'
  OBVIOUS
<1>0. LockInv /\ LockInv' /\ DOMAIN edits = Edit
  BY LockInvStep DEF ToldInv, LockInv
<1>1. ASSUME NEW door \in Door, NEW doc \in Doc, NEW meant \in Text \cup {NoText},
             NEW base \in Text \cup {NoText, "new"}, NEW xfer \in Xfer \cup {NoXfer},
             Ask(door, doc, meant, base, xfer)
      PROVE  ToldInv'
  <2> DEFINE r == [at |-> "wait", door |-> door, doc |-> doc, meant |-> meant, base |-> base, xfer |-> xfer]
  <2>1. r.at = "wait" /\ TaskOf(door) \in Edit /\ edits[TaskOf(door)].at = "idle"
    BY <1>1 DEF Ask, TaskOf, Edit, NoEdit
  <2>2. edits' = [edits EXCEPT ![TaskOf(door)] = r] /\ UNCHANGED <<stored, bus, heard>>
    BY <1>1 DEF Ask
  <2> HIDE DEF r
  <2> QED BY <1>0, <2>1, <2>2, StepsTell
<1>2. ASSUME NEW t \in Edit, NEW a \in {"compare", "write"}, edits[t].at \in {"wait", "compare"}, Step(t, a),
             UNCHANGED <<stored, bus, heard>>
      PROVE  ToldInv'
  <2>1. edits[t] \in EditRequest
    BY <1>0, <1>2 DEF LockInv, NoEdit
  <2>2. [edits[t] EXCEPT !.at = a].at = a
    BY <2>1 DEF EditRequest
  <2>3. edits' = [edits EXCEPT ![t] = [edits[t] EXCEPT !.at = a]]
    BY <1>2 DEF Step
  <2> DEFINE q == [edits[t] EXCEPT !.at = a]
  <2> HIDE DEF q
  <2>4. \A u \in Edit : edits'[u] = IF u = t THEN q ELSE edits[u]
    BY <1>0, <2>3 DEF q
  <2>5. q.at = a
    BY <2>2 DEF q
  <2> QED BY <1>0, <1>2, <2>4, <2>5, StepsTell
<1>3. ASSUME NEW t \in Edit, edits[t].at \in {"compare", "write"}, Refuse(t) PROVE ToldInv'
  <2>1. edits' = [edits EXCEPT ![t] = NoEdit] /\ UNCHANGED <<stored, bus, heard>>
    BY <1>3 DEF Refuse
  <2> QED BY <1>0, <1>3, <2>1, StepsTell DEF NoEdit
<1>4. ASSUME NEW t \in Edit, TakeLock(t) PROVE ToldInv'
  BY <1>2, <1>4 DEF TakeLock
<1>5. ASSUME NEW t \in Edit, Compare(t) PROVE ToldInv'
  BY <1>2, <1>3, <1>5 DEF Compare
<1>6. ASSUME NEW t \in Edit, SaveFails(t) PROVE ToldInv'
  BY <1>3, <1>6 DEF SaveFails
<1>7. CASE UNCHANGED <<stored, lock, edits, bus, heard>>
  BY <1>0, <1>7, StepsTell
<1> QED
  BY <1>0, <1>1, <1>4, <1>5, <1>6, <1>7, SaveTells, TellTells, DeliverTells
  DEF EditNext, editVars, Part, Expire

\* The listeners know what is stored once nothing is on its way, for any number of rules,
\* scripts and events that wait (ws_push, on_rule_changed).
THEOREM ListenersAreTold == EditSpec => []ListenersKnow
<1>1. EditInit => ToldInv
  BY DEF EditInit, ToldInv, LockInv, EventsTell, PushesTell, NoEdit
<1>2. ASSUME ToldInv PROVE ListenersKnow
  <2> SUFFICES ASSUME lock = Free, bus = <<>> PROVE heard = stored
    BY DEF ListenersKnow
  <2>1. \A t \in Edit : edits[t].at # "tell"
    BY <1>2 DEF ToldInv, LockInv, Edit, Free
  <2>2. \A d \in Doc : heard[d] = stored[d]
    BY <1>2, <2>1 DEF ToldInv, EventsTell, PushesTell, Doc
  <2> QED BY <1>2, <2>2 DEF ToldInv, LockInv
<1> QED
  BY <1>1, <1>2, ToldInvStep, PTL DEF EditSpec

-----------------------------------------------------------------------------
(* The start.                                                                *)

\* Where the steps that matter stand in app_main.
LEMMA Order ==
    /\ Len(Steps) = 17
    /\ \A i \in 1..17 : /\ (Steps[i] = "keep") <=> (i = 2)
                        /\ (Steps[i] = "pump") <=> (i = 16)
                        /\ (Steps[i] = "register") <=> (i = 13)
                        /\ (Steps[i] = "look") <=> (i = 14)
                        /\ (Steps[i] = "stores") <=> (i = 1)
    /\ Steps[5] = "rules" /\ Steps[6] = "lua" /\ Steps[10] = "bridge" /\ Steps[12] = "mqtt" /\ Steps[15] = "scripts"
  BY DEF Steps

\* The handler is there from the third step on; what a restart lost, it lost without one.
\* An event is pumped when the listeners' steps are done.  A lease without its time server is
\* renewed or has its event still to come; one seen before MQTT listens is looked for.
Kept ==
    /\ reached \in 0..18 /\ pend \subseteq Store
    /\ kept => reached = 0 \/ reached >= 3
    /\ unsaved = {} \/ (reached = 0 /\ ~kept)

Served ==
    /\ evq \in Seq({"up", "down", "ip"})
    /\ hasIp => fallback \/ renewed \/ (\E i \in 1..Len(evq) : evq[i] = "ip")

Armed == hasIp /\ reached > 14 => safe \/ armed

HubInv == Kept /\ Served /\ Armed /\ missed = FALSE

LEMMA NetStands == Served /\ UNCHANGED netVars => Served'
  BY DEF Served, netVars

\* A step of the start but the look.
LEMMA StepOn ==
  ASSUME HubInv, NEW s \in {"shadow", "radio", "rules", "eth", "trial", "web", "bridge", "remote", "mqtt",
                            "register", "scripts", "pump", "lua", "boot"},
         reached > 0, At(s), UNCHANGED <<safe, kept, netVars, missed, pend, unsaved>>
  PROVE  HubInv'
<1>1. reached \in 1..17 /\ reached' = reached + 1 /\ reached # 14 /\ reached # 2 /\ reached # 1
  BY Order DEF At, HubInv, Kept
<1>2. Kept'
  BY <1>1 DEF HubInv, Kept
<1>3. Armed'
  BY <1>1 DEF HubInv, Armed, netVars
<1> QED BY <1>2, <1>3, NetStands DEF HubInv

LEMMA FlushedAll == ASSUME NEW p, p \subseteq Store PROVE flush_stores(p) = {}
  BY DEF Store, flush_stores, Flushed

LEMMA HubInvStep == HubInv /\ [HubNext]_hubVars => HubInv'
<1> SUFFICES ASSUME HubInv, [HubNext]_hubVars PROVE HubInv'
  OBVIOUS
<1>1. CASE UNCHANGED hubVars
  BY <1>1, NetStands DEF HubInv, Kept, Armed, hubVars, netVars, counts
<1>2. CASE RestartOnPurpose
  <2>1. kept => Done("keep") \/ reached = 0
    BY Order DEF Done, HubInv, Kept
  <2>2. kept => unsaved' = {}
    BY <1>2, <2>1, FlushedAll DEF RestartOnPurpose, HubInv, Kept
  <2> QED BY <1>2, <2>2, NetStands DEF RestartOnPurpose, HubInv, Kept, Armed
<1>3. CASE reached > 0 /\ OpenStores
  <2>1. reached = 1 /\ reached' = 2
    BY <1>3, Order DEF OpenStores, At, HubInv, Kept
  <2> QED BY <1>3, <2>1, NetStands DEF OpenStores, HubInv, Kept, Armed
<1>4. CASE reached > 0 /\ KeepHandler
  <2>1. reached = 2 /\ reached' = 3
    BY <1>4, Order DEF KeepHandler, At, HubInv, Kept
  <2> QED BY <1>4, <2>1, NetStands DEF KeepHandler, HubInv, Kept, Armed
<1>5. CASE reached > 0 /\ StartLua
  BY <1>5, StepOn DEF StartLua
<1>6. CASE reached > 0 /\ Start
  BY <1>6, StepOn DEF Start
<1>7. CASE reached > 0 /\ Look
  <2>1. reached = 14 /\ reached' = 15
    BY <1>7, Order DEF Look, At, HubInv, Kept
  <2>2. Kept'
    BY <1>7, <2>1 DEF Look, HubInv, Kept
  <2>3. Served'
    BY <1>7 DEF Look, HubInv, Served
  <2>4. Armed'
    BY <1>7 DEF Look, Armed
  <2> QED BY <1>7, <2>2, <2>3, <2>4 DEF Look, HubInv
<1>8. CASE reached > 0 /\ BootEvent
  BY <1>8, StepOn DEF BootEvent
<1>9. CASE eth_ntp_reconcile
  BY <1>9 DEF eth_ntp_reconcile, counts, HubInv, Kept, Served, Armed
<1>10. CASE Pump
  <2>1. reached > 16
    BY <1>10, Order DEF Pump, Done, HubInv, Kept
  <2>2. \A s \in Listeners : Done(s)
    BY <2>1, Order DEF Listeners, Done, HubInv, Kept
  <2> QED BY <1>10, <2>2, NetStands DEF Pump, netVars, HubInv, Kept, Armed
<1>11. CASE EthDispatch
  <2>1. evq' \in Seq({"up", "down", "ip"}) /\ Len(evq') = Len(evq) - 1 /\ Len(evq) \in Nat
        /\ \A i \in 1..Len(evq') : evq'[i] = evq[i + 1]
    BY <1>11 DEF EthDispatch, HubInv, Served
  <2>2. CASE Head(evq) = "ip"
    <3>1. reached > 14 => Done("register")
      BY Order DEF Done, HubInv, Kept
    <3>2. hasIp' /\ fallback' /\ (reached > 14 => safe \/ armed')
      BY <1>11, <2>2, <3>1 DEF EthDispatch, OnGotIp
    <3> QED BY <1>11, <2>1, <3>2 DEF EthDispatch, HubInv, Kept, Served, Armed
  <2>3. CASE Head(evq) # "ip"
    <3>1. (hasIp' => hasIp) /\ fallback' = fallback /\ armed' = armed /\ (renewed => renewed')
      BY <1>11, <2>3 DEF EthDispatch, OnEthEvent
    <3>2. evq[1] # "ip"
      BY <1>11, <2>3 DEF EthDispatch, HubInv, Served
    <3>3. ASSUME NEW i \in 1..Len(evq), evq[i] = "ip" PROVE \E j \in 1..Len(evq') : evq'[j] = "ip"
      <4>1. i - 1 \in 1..Len(evq') /\ evq'[i - 1] = "ip"
        BY <2>1, <3>2, <3>3
      <4> QED BY <4>1
    <3>4. Served'
      BY <2>1, <3>1, <3>3 DEF HubInv, Served
    <3> QED BY <1>11, <3>1, <3>4 DEF EthDispatch, HubInv, Kept, Armed
  <2> QED BY <2>2, <2>3
<1>12. CASE Plug
  <2> DEFINE e == IF cable THEN "down" ELSE "up"
  <2>1. evq' = Append(evq, e) /\ e \in {"up", "down", "ip"}
    BY <1>12 DEF Plug
  <2> HIDE DEF e
  <2>2. evq' \in Seq({"up", "down", "ip"}) /\ \A i \in 1..Len(evq) : i \in 1..Len(evq') /\ evq'[i] = evq[i]
    BY <2>1 DEF HubInv, Served
  <2>3. Served'
    BY <1>12, <2>2 DEF Plug, HubInv, Served
  <2> QED BY <1>12, <2>3 DEF Plug, HubInv, Kept, Armed
<1>13. CASE Lease
  <2>1. CASE lease
    BY <1>13, <2>1 DEF Lease, HubInv, Kept, Served, Armed
  <2>2. CASE ~lease
    <3>1. evq' = <<"ip">>
      BY <1>13, <2>2 DEF Lease
    <3>2. evq' \in Seq({"up", "down", "ip"}) /\ Len(evq') = 1 /\ evq'[1] = "ip"
      BY <3>1
    <3>3. Served'
      BY <3>2 DEF Served
    <3> QED BY <1>13, <3>3 DEF Lease, HubInv, Kept, Armed
  <2> QED BY <2>1, <2>2
<1>14. CASE DeviceFrame
  BY <1>14, NetStands DEF DeviceFrame, Changes, Store, netVars, HubInv, Kept, Armed
<1>15. CASE EditRule
  BY <1>15, NetStands DEF EditRule, Changes, Store, netVars, HubInv, Kept, Armed
<1>16. CASE SaveLater
  BY <1>16, NetStands DEF SaveLater, Flushed, Store, netVars, counts, HubInv, Kept, Armed
<1> QED
  BY <1>1, <1>2, <1>3, <1>4, <1>5, <1>6, <1>7, <1>8, <1>9, <1>10, <1>11, <1>12, <1>13, <1>14, <1>15, <1>16
  DEF HubNext

LEMMA HubInvHolds == HubSpec => []HubInv
<1>1. HubInit => HubInv
  BY DEF HubInit, HubInv, Kept, Served, Armed, Store
<1> QED BY <1>1, HubInvStep, PTL DEF HubSpec

\* A restart on purpose loses nothing, for any number of changes and at any moment of the
\* start, once the handler has a slot (main.cpp, flush_stores).
THEOREM RestartsKeepAll == HubSpec => []NothingPendingLost
<1>1. HubInv => NothingPendingLost
  BY DEF HubInv, Kept, NothingPendingLost
<1> QED BY <1>1, HubInvHolds, PTL

\* No event is pumped past a listener, however many slots the bus has (main.cpp, app_main).
THEOREM EventsAreHeard == HubSpec => []HeardByAll
<1>1. HubInv => HeardByAll
  BY DEF HubInv, HeardByAll
<1> QED BY <1>1, HubInvHolds, PTL

\* A lease arms MQTT and keeps a time server, however often the cable and the router change
\* (eth_common.cpp, mqtt_glue.cpp).
THEOREM LeasesAreUsed == HubSpec => []LeaseIsUsed
<1>1. ASSUME HubInv PROVE LeaseIsUsed
  <2>1. reached = 0 \/ ~Done("look") \/ reached > 14
    BY <1>1, Order DEF HubInv, Kept, Done
  <2> QED BY <1>1, <2>1 DEF HubInv, Served, Armed, LeaseIsUsed
<1> QED BY <1>1, HubInvHolds, PTL

-----------------------------------------------------------------------------
(* The restart tail.                                                         *)

Block == [ok : BOOLEAN, run : 0..MaxRun, planned : Planned]

TailTypes ==
    /\ img \in Image /\ run \in 1..MaxRun /\ cut \subseteq Image
    /\ block \in [Image -> Block] /\ block[img].run = run
    /\ trial => other

\* The block of an image that may boot again, and was not left by an announced change, was
\* left by a cut one.
CutOnly == other => \A i \in Image : i # img /\ own(block[i]) => i \in cut

TailInv == TailTypes /\ CutOnly /\ TailIsThePreviousRun

\* What a run leaves of the blocks: its own run's number, and nothing valid that was not.
LEMMA LeftFacts ==
  ASSUME TailTypes, NEW p \in Planned, NEW b \in Left(p)
  PROVE  /\ b \in [Image -> Block] /\ b[img].run = run /\ b[img].planned = p
         /\ \A i \in Image : i # img /\ own(b[i]) => own(block[i])
<1>1. PICK w_ \in BOOLEAN, k_ \in BOOLEAN : b = Leaves(p, w_, k_)
  BY DEF Left
<1>2. ASSUME NEW r \in Block, NEW w \in BOOLEAN
      PROVE  /\ [r EXCEPT !.planned = p, !.ok = w] \in Block
             /\ [r EXCEPT !.planned = p, !.ok = w].run = r.run
             /\ [r EXCEPT !.planned = p, !.ok = w].planned = p
  BY <1>2 DEF Block
<1>3. ASSUME NEW r \in Block, NEW k \in BOOLEAN
      PROVE  /\ [r EXCEPT !.ok = @ /\ k] \in Block
             /\ [r EXCEPT !.ok = @ /\ k].planned = r.planned
             /\ [r EXCEPT !.ok = @ /\ k].ok => r.ok
  BY <1>3 DEF Block
<1>4. \A i \in Image : i # img => b[i] \in Block /\ b[i].planned = block[i].planned /\ (b[i].ok => block[i].ok)
  BY <1>1, <1>3 DEF TailTypes, Leaves
<1>5. b[img] \in Block /\ b[img].run = run /\ b[img].planned = p
  BY <1>1, <1>2 DEF TailTypes, Leaves
<1>6. b \in [Image -> Block]
  BY <1>1, <1>4, <1>5 DEF TailTypes, Leaves
<1> QED BY <1>4, <1>5, <1>6 DEF own

\* A boot that follows keeps the invariant; a change of image without a trial takes one that
\* may boot, and a new image leaves the other announced, or cut.
LEMMA BootKeeps ==
  ASSUME TailInv, NEW i \in Image, NEW new \in BOOLEAN, NEW soft \in BOOLEAN, NEW rolled,
         NEW b \in [Image -> Block], b[img].run = run,
         \A j \in Image : j # img /\ own(b[j]) => own(block[j]),
         i # img /\ ~new => other,
         new => i # img /\ (soft => ~own(b[img])) /\ \A j \in Image : j = i \/ j = img,
         BootTail(i, new, soft, rolled, b)
  PROVE  TailInv'
<1> DEFINE f == Fresh(run + 1)
<1>1. run \in 1..MaxRun /\ run < MaxRun /\ MaxRun \in Nat
  BY RestartTailAssumption DEF BootTail, TailInv, TailTypes
<1>2. f \in Block /\ f.run = run + 1
  BY <1>1 DEF Fresh, Block, Planned
<1>3. block' = [b EXCEPT ![i] = f] /\ run' = run + 1 /\ img' = i /\ trial' = new
      /\ other' = (new \/ (i = img /\ other)) /\ old' = (i \in cut)
      /\ cut' = (IF new /\ ~soft THEN cut \cup {img} ELSE cut) \ {i}
      /\ passed'.use = (~new /\ own(b[i])) /\ passed'.run = b[i].run
  BY DEF BootTail, prev_run
<1> HIDE DEF f
<1>4. TailTypes'
  BY <1>1, <1>2, <1>3 DEF TailInv, TailTypes
<1>5. CutOnly'
  <2> SUFFICES ASSUME other', NEW j \in Image, j # i, own(block'[j]) PROVE j \in cut'
    BY <1>3 DEF CutOnly, own
  <2>1. own(b[j])
    BY <1>3 DEF own
  <2>2. CASE new
    BY <1>3, <2>1, <2>2 DEF TailInv, TailTypes
  <2>3. CASE ~new
    BY <1>3, <2>1, <2>3 DEF TailInv, CutOnly
  <2> QED BY <2>2, <2>3
<1>6. TailIsThePreviousRun'
  <2> SUFFICES ASSUME passed'.use, ~old' PROVE passed'.run = run' - 1
    BY DEF TailIsThePreviousRun
  <2>1. ~new /\ own(b[i]) /\ i \notin cut
    BY <1>3
  <2>2. i = img
    BY <2>1 DEF TailInv, CutOnly
  <2> QED BY <1>1, <1>3, <2>2
<1> QED BY <1>4, <1>5, <1>6 DEF TailInv

LEMMA TailInvStep ==
  ASSUME \E i, j \in Image : i # j /\ Image = {i, j}
  PROVE  TailInv /\ [TailNext]_tailVars => TailInv'
<1> SUFFICES ASSUME TailInv, [TailNext]_tailVars PROVE TailInv'
  OBVIOUS
<1>1. img \in Image /\ Other \in Image /\ Other # img /\ \A j \in Image : j = Other \/ j = img
  BY DEF TailInv, TailTypes, Other
<1>2. Next_img \in Image /\ (Next_img # img => other)
  BY <1>1 DEF Next_img, TailInv, TailTypes
<1>3. CASE PlannedRestart
  <2>1. PICK b \in Left("restart") : BootTail(Next_img, FALSE, TRUE, flag, b)
    BY <1>3 DEF PlannedRestart
  <2> QED BY <1>1, <1>2, <2>1, LeftFacts, BootKeeps DEF TailInv, Planned
<1>4. CASE Update
  <2>1. PICK b \in Left("update") : BootTail(Other, TRUE, TRUE, FALSE, b)
    BY <1>4 DEF Update
  <2>2. ~own(b[img])
    BY <2>1, LeftFacts DEF TailInv, Planned, own
  <2> QED BY <1>1, <2>1, <2>2, LeftFacts, BootKeeps DEF TailInv, Planned
<1>5. CASE UpdateCut
  <2>1. PICK b \in Left(block[img].planned) : BootTail(Other, TRUE, FALSE, FALSE, b)
    BY <1>5 DEF UpdateCut
  <2>2. block[img].planned \in Planned
    BY <1>1 DEF TailInv, TailTypes, Block
  <2> QED BY <1>1, <2>1, <2>2, LeftFacts, BootKeeps DEF TailInv
<1>6. CASE Rollback
  <2>1. PICK b \in Left("rollback") : BootTail(Other, FALSE, TRUE, TRUE, b)
    BY <1>6 DEF Rollback
  <2> QED BY <1>1, <1>6, <2>1, LeftFacts, BootKeeps DEF TailInv, Planned, Rollback
<1>7. CASE RollbackFails
  <2> DEFINE r == [block[img] EXCEPT !.planned = "rollback"]
  <2>1. block[img] \in Block
    BY <1>1 DEF TailInv, TailTypes
  <2>2. r \in Block /\ r.run = block[img].run
    BY <2>1 DEF Block, Planned
  <2>3. block' = [block EXCEPT ![img] = r] /\ UNCHANGED <<img, trial, other, run, passed, cut, old>>
    BY <1>7 DEF RollbackFails
  <2> HIDE DEF r
  <2>4. TailTypes'
    BY <1>1, <2>2, <2>3 DEF TailInv, TailTypes
  <2>5. \A j \in Image : j # img => block'[j] = block[j]
    BY <2>3 DEF TailInv, TailTypes
  <2>6. CutOnly'
    BY <2>3, <2>5 DEF TailInv, CutOnly, own
  <2> QED BY <2>3, <2>4, <2>6 DEF TailInv, TailIsThePreviousRun
<1>8. ASSUME NEW soft \in BOOLEAN, Crash(soft) PROVE TailInv'
  <2>1. PICK b \in Left(block[img].planned) : BootTail(Next_img, FALSE, soft, flag, b)
    BY <1>8 DEF Crash
  <2>2. block[img].planned \in Planned
    BY <1>1 DEF TailInv, TailTypes, Block
  <2> QED BY <1>2, <2>1, <2>2, LeftFacts, BootKeeps DEF TailInv
<1>9. CASE PowerCut_tail
  <2> DEFINE b == [i \in Image |-> [block[i] EXCEPT !.ok = FALSE]]
  <2>1. ASSUME NEW r \in Block PROVE /\ [r EXCEPT !.ok = FALSE] \in Block
                                     /\ [r EXCEPT !.ok = FALSE].run = r.run
                                     /\ ~[r EXCEPT !.ok = FALSE].ok
    BY <2>1 DEF Block
  <2>2. b \in [Image -> Block] /\ b[img].run = run /\ \A j \in Image : ~own(b[j])
    BY <1>1, <2>1 DEF TailInv, TailTypes, own
  <2>3. BootTail(Next_img, FALSE, FALSE, flag, b)
    BY <1>9 DEF PowerCut_tail
  <2> HIDE DEF b
  <2> QED BY <1>2, <2>2, <2>3, BootKeeps
<1>10. CASE Confirm
  BY <1>10 DEF Confirm, TailInv, TailTypes, CutOnly, TailIsThePreviousRun
<1>11. CASE UNCHANGED tailVars
  BY <1>11 DEF tailVars, TailInv, TailTypes, CutOnly, TailIsThePreviousRun
<1> QED
  BY <1>3, <1>4, <1>5, <1>6, <1>7, <1>8, <1>9, <1>10, <1>11 DEF TailNext

\* The tail reported is that of the run before, however many runs, updates, trials and
\* rollbacks there were (prev_run, log_cloud_boot); there are two slots.
THEOREM TailsAreTheLastRuns ==
  ASSUME \E i, j \in Image : i # j /\ Image = {i, j}, MaxRun > 0
  PROVE  TailSpec => []TailIsThePreviousRun
<1>1. TailInit => TailInv
  <2> SUFFICES ASSUME TailInit PROVE TailInv
    OBVIOUS
  <2>1. MaxRun \in Nat /\ 1 \in 0..MaxRun /\ 0 \in 0..MaxRun /\ 1 \in 1..MaxRun
    BY RestartTailAssumption
  <2>2. ASSUME NEW k \in {0, 1}, NEW w \in BOOLEAN
        PROVE  [Fresh(k) EXCEPT !.ok = w] \in Block /\ [Fresh(k) EXCEPT !.ok = w].run = k
               /\ ([Fresh(k) EXCEPT !.ok = w].ok = w)
    BY <2>1 DEF Fresh, Block, Planned
  <2>3. block \in [Image -> Block] /\ block[img].run = 1
    BY <2>2 DEF TailInit
  <2> QED BY <2>1, <2>3 DEF TailInit, TailInv, TailTypes, CutOnly, TailIsThePreviousRun
<1>2. TailInv => TailIsThePreviousRun
  BY DEF TailInv
<1> QED BY <1>1, <1>2, TailInvStep, PTL DEF TailSpec

-----------------------------------------------------------------------------
(* Lists in pages.                                                           *)

\* Between two pages, what is behind the cursor has not been sent yet.
ListInv ==
    /\ ListTypeOK /\ PagesAreWhole
    /\ \A k \in Key : reading /\ k > cursor => rows[k] = 0

LEMMA ListInvStep == ListInv /\ [ListNext]_listVars => ListInv'
<1> SUFFICES ASSUME ListInv, [ListNext]_listVars PROVE ListInv'
  OBVIOUS
<1> USE DEF ListInv, ListTypeOK, PagesAreWhole
<1>0. Key \subseteq Nat \ {0} /\ \A k \in Key : rows[k] \in {0, 1}
  BY ListAssumption
<1>1. ASSUME NEW last \in Key, NextPage(last) PROVE ListInv'
  <2> DEFINE page == Page(cursor, last)
             sofar == IF reading THEN rows ELSE [k \in Key |-> 0]
  <2>1. page = {k \in here : k > cursor /\ k <= last} /\ After(cursor) = {k \in here : k > cursor}
        /\ last \in here /\ last > cursor
    BY <1>1 DEF NextPage, Page, After
  <2>2. \A k \in Key : sofar[k] \in {0, 1} /\ (k > cursor => sofar[k] = 0)
    BY <1>0
  <2>3. rows' = [k \in Key |-> IF k \in page THEN sofar[k] + 1 ELSE sofar[k]]
    BY <1>1 DEF NextPage
  <2>4. /\ reading' = (page # After(cursor)) /\ here' = here
        /\ cursor' = IF page # After(cursor) THEN last ELSE 0
        /\ all' = IF reading THEN all ELSE here
    BY <1>1 DEF NextPage
  <2>5. \A k \in all' : sofar[k] = 1 \/ k > cursor
    BY <1>0, <2>4
  <2>6. \A k \in Key : rows'[k] = IF k \in page THEN 1 ELSE sofar[k]
    BY <1>0, <2>1, <2>2, <2>3
  <2>7. \A k \in all' : k \in here /\ k \in Key
    BY <2>4
  <2> HIDE DEF page, sofar
  <2>8. ListTypeOK'
    <3>1. rows' \in [Key -> Nat]
      BY <1>0, <2>2, <2>3
    <3>2. here' \subseteq Key /\ all' \subseteq here' /\ reading' \in BOOLEAN
      BY <2>4
    <3>3. cursor' \in Key \cup {0} /\ (cursor' = 0 <=> ~reading')
      BY <1>0, <2>1, <2>4
    <3> QED BY <3>1, <3>2, <3>3
  <2>9. \A k \in Key : rows'[k] <= 1 /\ (reading' /\ k > cursor' => rows'[k] = 0)
    <3> TAKE k \in Key
    <3>1. rows'[k] \in {0, 1}
      BY <2>2, <2>6
    <3>2. ASSUME reading', k > cursor' PROVE rows'[k] = 0
      <4>1. cursor' = last /\ last \in Nat /\ k \in Nat /\ cursor \in Nat
        <5>1. page # After(cursor)
          BY <2>4, <3>2, Zenon
        <5>2. last \in Nat /\ k \in Nat /\ cursor \in Nat
          BY <1>0
        <5> QED BY <2>4, <5>1, <5>2
      <4>2. k > cursor /\ ~(k <= last)
        BY <2>1, <3>2, <4>1
      <4> QED BY <2>1, <2>2, <2>6, <4>2
    <3> QED BY <3>1, <3>2
  <2>10. \A k \in all' : rows'[k] = 1 \/ (reading' /\ k > cursor')
    <3> TAKE k \in all'
    <3>1. CASE k \in page
      BY <2>6, <2>7, <3>1
    <3>2. CASE k \notin page /\ sofar[k] = 1
      BY <2>6, <2>7, <3>2
    <3>3. CASE k \notin page /\ sofar[k] # 1
      <4>1. k \in After(cursor) /\ ~(k <= last)
        <5>1. k \in here /\ k > cursor
          BY <2>5, <2>7, <3>3
        <5> QED BY <2>1, <3>3, <5>1
      <4>2. k \in Nat /\ last \in Nat
        BY <1>0, <2>7
      <4>3. k > last
        BY <4>1, <4>2
      <4>4. page # After(cursor)
        BY <3>3, <4>1
      <4> QED BY <2>4, <4>3, <4>4
    <3> QED BY <3>1, <3>2, <3>3
  <2> QED BY <2>8, <2>9, <2>10
<1>2. CASE EmptyPage
  <2>1. rows' = (IF reading THEN rows ELSE [k \in Key |-> 0]) /\ ~reading' /\ cursor' = 0 /\ reading' \in BOOLEAN
        /\ all' = (IF reading THEN all ELSE here) /\ here' = here /\ \A k \in here : ~(k > cursor)
    BY <1>2 DEF EmptyPage, After
  <2> QED BY <1>0, <2>1
<1>3. ASSUME NEW k \in Key, Arrive(k) PROVE ListInv'
  BY <1>3 DEF Arrive
<1>4. ASSUME NEW k \in Key, Depart(k) PROVE ListInv'
  BY <1>4 DEF Depart
<1>5. CASE UNCHANGED listVars
  BY <1>5 DEF listVars
<1> QED
  BY <1>1, <1>2, <1>3, <1>4, <1>5 DEF ListNext

\* For any keys and however items come and go, pages are whole: nothing twice, and what was
\* there all along is in them or still ahead of the cursor (devlist_next, cmd_rule_list).
THEOREM ListsAreWhole == ListSpec => []PagesAreWhole
<1>1. ListInit => ListInv
  <2> SUFFICES ASSUME ListInit PROVE ListInv
    OBVIOUS
  <2>1. here \subseteq Key /\ cursor = 0 /\ reading = FALSE /\ rows = [k \in Key |-> 0] /\ all = {}
    BY DEF ListInit
  <2>2. ListTypeOK
    BY <2>1 DEF ListTypeOK
  <2> QED BY <2>1, <2>2 DEF ListInv, PagesAreWhole
<1>2. ListInv => PagesAreWhole
  BY DEF ListInv
<1> QED BY <1>1, <1>2, ListInvStep, PTL DEF ListSpec

-----------------------------------------------------------------------------
(* The log ring.                                                             *)

\* The slot k behind and the slot d before the one the reader is at.
Ahead(k)  == IF reader.from + k < RingSize THEN reader.from + k ELSE reader.from + k - RingSize
Behind(d) == IF d <= reader.from THEN reader.from - d ELSE reader.from - d + RingSize

\* Which slot the reader read the j-th line of its answer from.
From(j) == Behind(Len(reader.out) + 1 - j)

\* Was there when the answer was begun, or came later.
HadOrNew(n) == n \in reader.had \/ \A m \in reader.had : n > m

\* Lines go round the ring, each into the slot of its number; unless it is full, those from
\* head on are blank.
FillInv ==
    /\ ring \in [Slot -> Nat] /\ head \in Slot /\ count \in 0..RingSize /\ line \in Nat
    /\ \E m \in Nat : line = head + m * RingSize
    /\ \A i \in Slot : ring[i] <= line
    /\ \A i \in Slot : ring[i] # 0 => \E m \in Nat : ring[i] = i + 1 + m * RingSize
    /\ count < RingSize => head = count
    /\ \A i \in Slot : ring[i] # 0 <=> i < count

\* What was read is of the slot it was read from, and as that slot still holds it if it held
\* it then; what is still to be read is there; and no line that was there when the answer
\* was begun lies anywhere else.
ReaderInv ==
    /\ reader \in [left : 0..RingSize, from : Slot, out : Seq(Nat), had : SUBSET (1..line)]
    /\ Len(reader.out) + reader.left <= RingSize
    /\ \A k \in 0..(reader.left - 1) : ring[Ahead(k)] # 0 /\ HadOrNew(ring[Ahead(k)])
    /\ \A j \in 1..Len(reader.out) :
           /\ reader.out[j] # 0 /\ HadOrNew(reader.out[j])
           /\ \E m \in Nat : reader.out[j] = From(j) + 1 + m * RingSize
           /\ ring[From(j)] \in reader.had => reader.out[j] = ring[From(j)]
    /\ \A i \in Slot : ring[i] \in reader.had =>
           \/ \E k \in 0..(reader.left - 1) : i = Ahead(k)
           \/ \E j \in 1..Len(reader.out) : i = From(j)

SnapInv == FillInv /\ ReaderInv

\* One turn of the ring.
LEMMA Around ==
    ASSUME NEW n \in Nat, n < RingSize + RingSize
    PROVE  n % RingSize = IF n < RingSize THEN n ELSE n - RingSize
<1>1. RingSize \in Nat \ {0}
  BY LogRingAssumption
<1>2. CASE n < RingSize
  BY <1>1, <1>2
<1>3. CASE ~(n < RingSize)
  BY <1>1, <1>3
<1> QED BY <1>2, <1>3

\* The slots of the reader are slots of the ring.
LEMMA ReaderSlots ==
    ASSUME ReaderInv
    PROVE  /\ reader.left \in 0..RingSize /\ reader.from \in Slot /\ reader.out \in Seq(Nat)
           /\ reader.had \subseteq 1..line /\ Len(reader.out) \in Nat
           /\ \A k \in 0..(reader.left - 1) : Ahead(k) \in Slot
           /\ \A j \in 1..Len(reader.out) : From(j) \in Slot /\ reader.out[j] \in Nat
<1>1. RingSize \in Nat \ {0}
  BY LogRingAssumption
<1>2. reader.left \in 0..RingSize /\ reader.from \in Slot /\ reader.out \in Seq(Nat)
      /\ reader.had \subseteq 1..line
  BY DEF ReaderInv
<1>3. Len(reader.out) \in Nat /\ Len(reader.out) <= RingSize
      /\ \A j \in 1..Len(reader.out) : reader.out[j] \in Nat
  BY <1>1, <1>2 DEF ReaderInv
<1>4. \A k \in 0..(reader.left - 1) : Ahead(k) \in Slot
  BY <1>1, <1>2 DEF Ahead, Slot
<1>5. \A j \in 1..Len(reader.out) : From(j) \in Slot
  <2> TAKE j \in 1..Len(reader.out)
  <2> DEFINE d == Len(reader.out) + 1 - j
  <2>1. d \in 1..RingSize /\ reader.from \in 0..(RingSize - 1)
    BY <1>1, <1>2, <1>3 DEF Slot
  <2> HIDE DEF d
  <2>2. Behind(d) \in Slot
    BY <1>1, <2>1 DEF Behind, Slot
  <2> QED BY <2>2 DEF From, d
<1> QED BY <1>2, <1>3, <1>4, <1>5

\* A line more: it takes the next slot, whoever reads.
LEMMA HookKeeps == ASSUME SnapInv, NEW t \in Logger, Hook(t) PROVE SnapInv'
<1>1. RingSize \in Nat \ {0} /\ head \in Nat /\ head < RingSize /\ line \in Nat /\ head \in Slot
  BY LogRingAssumption DEF SnapInv, FillInv, Slot
<1>2. line' = line + 1 /\ ring' = [ring EXCEPT ![head] = line + 1] /\ reader' = reader
      /\ count' = (IF count < RingSize THEN count + 1 ELSE count)
  BY DEF Hook
<1>3. head' = IF head + 1 < RingSize THEN head + 1 ELSE 0
  <2>1. head' = (head + 1) % RingSize
    BY DEF Hook
  <2> QED BY <1>1, <2>1, Around
<1>4. ring' \in [Slot -> Nat] /\ ring'[head] = line + 1 /\ \A i \in Slot : i # head => ring'[i] = ring[i]
  BY <1>1, <1>2 DEF SnapInv, FillInv
<1>5. FillInv'
  <2>1. PICK m \in Nat : line = head + m * RingSize
    BY DEF SnapInv, FillInv
  <2>2. \E k \in Nat : line' = head' + k * RingSize
    <3>1. CASE head + 1 < RingSize
      BY <1>1, <1>2, <1>3, <2>1, <3>1
    <3>2. CASE ~(head + 1 < RingSize)
      <4>1. head' = 0 /\ head + 1 = RingSize /\ m + 1 \in Nat
        BY <1>1, <1>3, <3>2
      <4>2. line' = 0 + (m + 1) * RingSize
        BY <1>1, <1>2, <2>1, <4>1
      <4> QED BY <4>1, <4>2
    <3> QED BY <3>1, <3>2
  <2>3. \A i \in Slot : ring'[i] <= line'
    BY <1>1, <1>2, <1>4 DEF SnapInv, FillInv
  <2>4. ASSUME NEW i \in Slot, ring'[i] # 0 PROVE \E k \in Nat : ring'[i] = i + 1 + k * RingSize
    <3>1. CASE i = head
      <4>1. ring'[i] = i + 1 + m * RingSize
        BY <1>1, <1>4, <2>1, <3>1
      <4> QED BY <4>1
    <3>2. CASE i # head
      BY <1>4, <2>4, <3>2 DEF SnapInv, FillInv
    <3> QED BY <3>1, <3>2
  <2>5. head' \in Slot /\ count' \in 0..RingSize /\ (count' < RingSize => head' = count')
    BY <1>1, <1>2, <1>3 DEF SnapInv, FillInv, Slot
  <2>6. \A i \in Slot : ring'[i] # 0 <=> i < count'
    BY <1>1, <1>2, <1>4 DEF SnapInv, FillInv, Slot
  <2> QED BY <1>1, <1>2, <1>4, <2>2, <2>3, <2>4, <2>5, <2>6 DEF FillInv
<1>6. ReaderInv'
  <2>1. /\ reader.left \in 0..RingSize /\ reader.from \in Slot /\ reader.out \in Seq(Nat)
        /\ reader.had \subseteq 1..line /\ Len(reader.out) \in Nat
        /\ \A k \in 0..(reader.left - 1) : Ahead(k) \in Slot
        /\ \A j \in 1..Len(reader.out) : From(j) \in Slot
    BY ReaderSlots DEF SnapInv
  <2>2. \A k : Ahead(k)' = Ahead(k)
    BY <1>2 DEF Ahead
  <2>3. \A j : From(j)' = From(j)
    BY <1>2 DEF From, Behind
  <2>4. line + 1 \notin reader.had /\ \A m \in reader.had : line + 1 > m
    BY <1>1, <2>1
  <2>5. \A n : HadOrNew(n)' <=> HadOrNew(n)
    BY <1>2 DEF HadOrNew
  <2>6. reader' \in [left : 0..RingSize, from : Slot, out : Seq(Nat), had : SUBSET (1..line')]
        /\ Len(reader'.out) + reader'.left <= RingSize
    <3>1. 1..line \subseteq 1..line'
      BY <1>1, <1>2
    <3>2. reader \in [left : 0..RingSize, from : Slot, out : Seq(Nat), had : SUBSET (1..line)]
          /\ Len(reader.out) + reader.left <= RingSize
      BY DEF SnapInv, ReaderInv
    <3> QED BY <1>2, <3>1, <3>2
  <2>7. ASSUME NEW k \in 0..(reader.left - 1)
        PROVE  ring'[Ahead(k)] # 0 /\ HadOrNew(ring'[Ahead(k)])
    <3>1. CASE Ahead(k) = head
      BY <1>1, <1>4, <2>4, <3>1 DEF HadOrNew
    <3>2. CASE Ahead(k) # head
      BY <1>4, <2>1, <3>2 DEF SnapInv, ReaderInv
    <3> QED BY <3>1, <3>2
  <2>8. ASSUME NEW j \in 1..Len(reader.out), ring'[From(j)] \in reader.had
        PROVE  reader.out[j] = ring'[From(j)]
    <3>1. From(j) # head
      BY <1>4, <2>4, <2>8
    <3>2. ring'[From(j)] = ring[From(j)]
      BY <1>4, <2>1, <3>1
    <3> QED BY <2>8, <3>2 DEF SnapInv, ReaderInv
  <2>9. ASSUME NEW i \in Slot, ring'[i] \in reader.had
        PROVE  \/ \E k \in 0..(reader.left - 1) : i = Ahead(k)
               \/ \E j \in 1..Len(reader.out) : i = From(j)
    <3>1. ring'[i] = ring[i]
      BY <1>4, <2>4, <2>9
    <3> QED BY <2>9, <3>1 DEF SnapInv, ReaderInv
  <2> QED BY <1>2, <2>2, <2>3, <2>5, <2>6, <2>7, <2>8, <2>9 DEF SnapInv, ReaderInv
<1> QED BY <1>5, <1>6 DEF SnapInv

\* An answer is begun: the range is what the ring holds.
LEMMA BeginReadKeeps == ASSUME SnapInv, BeginRead PROVE SnapInv'
<1>1. RingSize \in Nat \ {0} /\ head \in Slot /\ head \in Nat /\ head < RingSize /\ count \in 0..RingSize
      /\ line \in Nat
  BY LogRingAssumption DEF SnapInv, FillInv, Slot
<1> DEFINE held == {ring[i] : i \in Slot} \ {0}
<1>2. reader' = [left |-> count, from |-> Oldest, out |-> <<>>, had |-> held] /\ UNCHANGED ringVars
  BY DEF BeginRead
<1>3. held \subseteq 1..line
  BY <1>1 DEF SnapInv, FillInv
<1>4. Oldest \in Slot /\ (count < RingSize => Oldest = 0) /\ (count = RingSize => Oldest = head)
  BY <1>1 DEF Oldest, Slot
<1>5. <<>> \in Seq(Nat) /\ Len(<<>>) = 0
  OBVIOUS
<1>6. \A i \in Slot : ring[i] \in held <=> ring[i] # 0
  OBVIOUS
<1> HIDE DEF held
<1>7. FillInv'
  BY <1>2 DEF ringVars, SnapInv, FillInv
<1>8. reader'.left = count /\ reader'.from = Oldest /\ reader'.out = <<>> /\ reader'.had = held
  BY <1>2
<1>9. \A k \in 0..(count - 1) : Ahead(k)' \in Slot /\ Ahead(k)' < count
  <2> TAKE k \in 0..(count - 1)
  <2>1. Ahead(k)' = IF Oldest + k < RingSize THEN Oldest + k ELSE Oldest + k - RingSize
    BY <1>8 DEF Ahead
  <2> QED BY <1>1, <1>4, <2>1 DEF Slot
<1>10. ASSUME NEW i \in Slot, i < count PROVE \E k \in 0..(count - 1) : i = Ahead(k)'
  <2>0. \A k \in 0..(count - 1) : Ahead(k)' = IF Oldest + k < RingSize THEN Oldest + k ELSE Oldest + k - RingSize
    BY <1>8 DEF Ahead
  <2>1. CASE i >= Oldest
    <3>1. i - Oldest \in 0..(count - 1) /\ Oldest + (i - Oldest) = i /\ i < RingSize
      BY <1>1, <1>4, <1>10, <2>1 DEF Slot
    <3> QED BY <2>0, <3>1
  <2>2. CASE ~(i >= Oldest)
    <3>1. i - Oldest + RingSize \in 0..(count - 1) /\ Oldest + (i - Oldest + RingSize) - RingSize = i
          /\ ~(Oldest + (i - Oldest + RingSize) < RingSize)
      BY <1>1, <1>4, <1>10, <2>2 DEF Slot
    <3> QED BY <2>0, <3>1
  <2> QED BY <2>1, <2>2
<1>11. ReaderInv'
  <2>1. reader' \in [left : 0..RingSize, from : Slot, out : Seq(Nat), had : SUBSET (1..line')]
        /\ Len(reader'.out) + reader'.left <= RingSize
    BY <1>1, <1>2, <1>3, <1>4, <1>5 DEF ringVars
  <2>2. \A k \in 0..(reader'.left - 1) : ring'[Ahead(k)'] # 0 /\ HadOrNew(ring[Ahead(k)])'
    BY <1>2, <1>6, <1>8, <1>9 DEF ringVars, SnapInv, FillInv, HadOrNew
  <2>3. \A i \in Slot : ring'[i] \in reader'.had => \E k \in 0..(reader'.left - 1) : i = Ahead(k)'
    BY <1>2, <1>6, <1>8, <1>10 DEF ringVars, SnapInv, FillInv
  <2>4. 1..Len(reader'.out) = {}
    BY <1>5, <1>8
  <2> QED BY <2>1, <2>2, <2>3, <2>4 DEF ReaderInv
<1> QED BY <1>7, <1>11 DEF SnapInv

\* A slot is read: it is the last of the answer now, and what was k behind is nearer by one.
LEMMA ReadSlotKeeps == ASSUME SnapInv, ReadSlot PROVE SnapInv'
<1> DEFINE v == ring[reader.from]
<1>0. PICK n \in Nat : n = Len(reader.out)
  BY ReaderSlots DEF SnapInv
<1>1. RingSize \in Nat \ {0} /\ line \in Nat /\ reader.from \in Slot /\ reader.left \in 1..RingSize
      /\ n \in Nat /\ n + reader.left <= RingSize /\ reader.out \in Seq(Nat) /\ v \in Nat
      /\ reader.from \in 0..(RingSize - 1) /\ reader.had \subseteq 1..line
  <2>1. RingSize \in Nat \ {0} /\ line \in Nat /\ ring \in [Slot -> Nat]
    BY LogRingAssumption DEF SnapInv, FillInv
  <2>2. reader.left \in 0..RingSize /\ reader.from \in Slot /\ reader.out \in Seq(Nat)
        /\ reader.had \subseteq 1..line
    BY ReaderSlots DEF SnapInv
  <2>3. n + reader.left <= RingSize
    BY <1>0 DEF SnapInv, ReaderInv
  <2>4. reader.left > 0
    BY DEF ReadSlot
  <2> QED BY <1>0, <2>1, <2>2, <2>3, <2>4 DEF Slot
<1>2. UNCHANGED ringVars
  BY DEF ReadSlot
<1>3. /\ reader'.left = reader.left - 1 /\ reader'.had = reader.had
      /\ reader'.from = (IF reader.from + 1 < RingSize THEN reader.from + 1 ELSE 0)
      /\ reader'.out = Append(reader.out, v)
      /\ reader' \in [left : 0..RingSize, from : Slot, out : Seq(Nat), had : SUBSET (1..line)]
  <2>1. reader' = [reader EXCEPT !.left = reader.left - 1, !.from = (reader.from + 1) % RingSize,
                                 !.out = Append(reader.out, v)]
    BY DEF ReadSlot
  <2>2. (reader.from + 1) % RingSize = (IF reader.from + 1 < RingSize THEN reader.from + 1 ELSE 0)
    BY <1>1, Around
  <2>3. Append(reader.out, v) \in Seq(Nat) /\ reader.left - 1 \in 0..RingSize
        /\ (reader.from + 1) % RingSize \in Slot
    BY <1>1, <2>2 DEF Slot
  <2>4. reader \in [left : 0..RingSize, from : Slot, out : Seq(Nat), had : SUBSET (1..line)]
    BY DEF SnapInv, ReaderInv
  <2> QED BY <2>1, <2>2, <2>3, <2>4
<1>4. Len(reader'.out) = n + 1 /\ reader'.out[n + 1] = v /\ \A j \in 1..n : reader'.out[j] = reader.out[j]
  BY <1>0, <1>1, <1>3
<1>5. Ahead(0) = reader.from
  BY <1>1 DEF Ahead
<1>6. v # 0 /\ HadOrNew(v)
  <2>1. 0 \in 0..(reader.left - 1)
    BY <1>1
  <2>2. ring[Ahead(0)] # 0 /\ HadOrNew(ring[Ahead(0)])
    BY <2>1 DEF SnapInv, ReaderInv
  <2> QED BY <1>5, <2>2
<1>f. PICK f \in Nat : f = reader.from /\ f < RingSize /\ RingSize \in Nat /\ n < RingSize
  BY <1>1
<1>w. PICK w \in Nat : w = reader.left /\ reader'.left = w - 1 /\ w # 0
  BY <1>1, <1>3
<1>g. PICK g \in Nat : g = reader'.from /\ g = (IF f + 1 < RingSize THEN f + 1 ELSE 0)
  BY <1>3, <1>f
<1> HIDE DEF v
<1>7. \A k \in 0..(reader.left - 2) : Ahead(k)' = Ahead(k + 1)
  <2> TAKE k \in 0..(reader.left - 2)
  <2>1. Ahead(k)' = IF g + k < RingSize THEN g + k ELSE g + k - RingSize
    BY <1>g DEF Ahead
  <2>2. Ahead(k + 1) = IF f + (k + 1) < RingSize THEN f + (k + 1) ELSE f + (k + 1) - RingSize
    BY <1>f DEF Ahead
  <2>3. k \in Nat /\ k + 1 < RingSize
    BY <1>1
  <2>4. CASE f + 1 < RingSize
    BY <1>f, <1>g, <2>1, <2>2, <2>3, <2>4
  <2>5. CASE ~(f + 1 < RingSize)
    BY <1>f, <1>g, <2>1, <2>2, <2>3, <2>5
  <2> QED BY <2>4, <2>5
<1>8. From(n + 1)' = reader.from
  <2>1. From(n + 1)' = Behind(1)'
    <3>1. Len(reader'.out) + 1 - (n + 1) = 1
      BY <1>1, <1>4
    <3> QED BY <3>1 DEF From
  <2>2. Behind(1)' = IF 1 <= g THEN g - 1 ELSE g - 1 + RingSize
    BY <1>g DEF Behind
  <2>3. Behind(1)' = f
    BY <1>f, <1>g, <2>2
  <2> QED BY <1>f, <2>1, <2>3
<1>9. \A j \in 1..n : From(j)' = From(j) /\ From(j) \in Slot
  <2> TAKE j \in 1..n
  <2>0. PICK d \in 1..n : d = n + 1 - j
    BY <1>1
  <2>1. n < RingSize
    BY <1>1
  <2>2. Len(reader'.out) + 1 - j = d + 1
    BY <1>1, <1>4, <2>0
  <2>3. Behind(d + 1)' = Behind(d)
    <3>1. Behind(d + 1)' = IF d + 1 <= g THEN g - (d + 1) ELSE g - (d + 1) + RingSize
      BY <1>g DEF Behind
    <3>2. Behind(d) = IF d <= f THEN f - d ELSE f - d + RingSize
      BY <1>f DEF Behind
    <3>3. d \in Nat /\ d >= 1
      BY <2>0
    <3> QED BY <1>f, <1>g, <2>1, <3>1, <3>2, <3>3
  <2>4. From(j)' = Behind(d + 1)'
    BY <2>2 DEF From
  <2>5. From(j) = Behind(d)
    BY <1>0, <2>0 DEF From
  <2> QED BY <1>0, <2>3, <2>4, <2>5, ReaderSlots DEF SnapInv
<1>10. \A m : HadOrNew(m)' <=> HadOrNew(m)
  BY <1>3 DEF HadOrNew
<1>11. FillInv'
  BY <1>2 DEF ringVars, SnapInv, FillInv
<1>12. ReaderInv'
  <2>1. reader' \in [left : 0..RingSize, from : Slot, out : Seq(Nat), had : SUBSET (1..line')]
        /\ Len(reader'.out) + reader'.left <= RingSize
    BY <1>1, <1>2, <1>3, <1>4 DEF ringVars
  <2>2. ASSUME NEW k \in 0..(reader'.left - 1)
        PROVE  ring'[Ahead(k)'] # 0 /\ HadOrNew(ring[Ahead(k)])'
    <3>1. k + 1 \in 0..(reader.left - 1) /\ Ahead(k)' = Ahead(k + 1)
      <4>1. k \in 0..(w - 2)
        BY <1>w, <2>2
      <4>2. k + 1 \in 0..(w - 1)
        BY <1>w, <4>1
      <4> QED BY <1>w, <1>7, <4>1, <4>2
    <3>2. ring[Ahead(k + 1)] # 0 /\ HadOrNew(ring[Ahead(k + 1)])
      BY <3>1 DEF SnapInv, ReaderInv
    <3> QED BY <1>2, <1>10, <3>1, <3>2 DEF ringVars
  <2>3. ASSUME NEW j \in 1..Len(reader'.out)
        PROVE  /\ reader'.out[j] # 0 /\ HadOrNew(reader.out[j])'
               /\ \E m \in Nat : reader'.out[j] = From(j)' + 1 + m * RingSize
               /\ ring'[From(j)'] \in reader'.had => reader'.out[j] = ring'[From(j)']
    <3>1. CASE j = n + 1
      <4>1. reader'.out[j] = v /\ From(j)' = reader.from
        BY <1>4, <1>8, <3>1
      <4>2. \E m \in Nat : v = reader.from + 1 + m * RingSize
        BY <1>1, <1>6 DEF SnapInv, FillInv, v
      <4> QED BY <1>2, <1>6, <1>10, <4>1, <4>2 DEF ringVars, v
    <3>2. CASE j # n + 1
      <4>1. j \in 1..n /\ reader'.out[j] = reader.out[j] /\ From(j)' = From(j)
        BY <1>1, <1>4, <1>9, <3>2
      <4>2. /\ reader.out[j] # 0 /\ HadOrNew(reader.out[j])
            /\ \E m \in Nat : reader.out[j] = From(j) + 1 + m * RingSize
            /\ ring[From(j)] \in reader.had => reader.out[j] = ring[From(j)]
        BY <1>0, <4>1 DEF SnapInv, ReaderInv
      <4> QED BY <1>2, <1>3, <1>10, <4>1, <4>2 DEF ringVars
    <3> QED BY <3>1, <3>2
  <2>4. ASSUME NEW i \in Slot, ring'[i] \in reader'.had
        PROVE  \/ \E k \in 0..(reader'.left - 1) : i = Ahead(k)'
               \/ \E j \in 1..Len(reader'.out) : i = From(j)'
    <3>1. CASE \E j \in 1..n : i = From(j)
      <4>1. PICK j \in 1..n : i = From(j)
        BY <3>1
      <4>2. j \in 1..Len(reader'.out) /\ i = From(j)'
        BY <1>1, <1>4, <1>9, <4>1
      <4> QED BY <4>2
    <3>2. CASE \E k \in 0..(reader.left - 1) : i = Ahead(k)
      <4>1. PICK k \in 0..(reader.left - 1) : i = Ahead(k)
        BY <3>2
      <4>2. CASE k = 0
        <5>1. i = From(n + 1)' /\ n + 1 \in 1..Len(reader'.out)
          BY <1>1, <1>4, <1>5, <1>8, <4>1, <4>2
        <5> QED BY <5>1
      <4>3. CASE k # 0
        <5>1. k - 1 \in 0..(reader.left - 2) /\ k - 1 \in 0..(reader'.left - 1) /\ (k - 1) + 1 = k
          <6>1. k \in 0..(w - 1) /\ k # 0
            BY <1>w, <4>3
          <6>2. k - 1 \in 0..(w - 2) /\ (k - 1) + 1 = k
            BY <1>w, <6>1
          <6>3. w - 2 = (w - 1) - 1
            BY <1>w
          <6> QED BY <1>w, <6>2, <6>3
        <5>2. Ahead(k - 1)' = i
          BY <1>7, <4>1, <5>1
        <5> QED BY <5>1, <5>2
      <4> QED BY <4>2, <4>3
    <3> QED BY <1>0, <1>2, <1>3, <2>4, <3>1, <3>2 DEF ringVars, SnapInv, ReaderInv
  <2> QED BY <1>2, <2>1, <2>2, <2>3, <2>4 DEF ReaderInv
<1> QED BY <1>11, <1>12 DEF SnapInv

\* With no answer under way there is nothing to be whole.
LEMMA RestingReaderNow == ASSUME reader = NoRead PROVE ReaderInv
<1>1. /\ reader.left = 0 /\ reader.from = 0 /\ reader.out = <<>> /\ reader.had = {}
      /\ reader = [left |-> 0, from |-> 0, out |-> <<>>, had |-> {}]
  BY DEF NoRead
<1>2. 0 \in 0..RingSize /\ 0 \in Slot /\ <<>> \in Seq(Nat) /\ Len(<<>>) = 0 /\ {} \in SUBSET (1..line)
  BY LogRingAssumption DEF Slot
<1>3. 0..(reader.left - 1) = {} /\ 1..Len(reader.out) = {} /\ Len(reader.out) + reader.left <= RingSize
  BY <1>1, <1>2, LogRingAssumption
<1>4. reader \in [left : 0..RingSize, from : Slot, out : Seq(Nat), had : SUBSET (1..line)]
  BY <1>1, <1>2
<1> QED BY <1>1, <1>3, <1>4 DEF ReaderInv

LEMMA RestingReader == ASSUME reader' = NoRead PROVE ReaderInv'
<1>1. /\ reader'.left = 0 /\ reader'.from = 0 /\ reader'.out = <<>> /\ reader'.had = {}
      /\ reader' = [left |-> 0, from |-> 0, out |-> <<>>, had |-> {}]
  BY DEF NoRead
<1>2. 0 \in 0..RingSize /\ 0 \in Slot /\ <<>> \in Seq(Nat) /\ Len(<<>>) = 0 /\ {} \in SUBSET (1..line')
  BY LogRingAssumption DEF Slot
<1>3. 0..(reader'.left - 1) = {} /\ 1..Len(reader'.out) = {} /\ Len(reader'.out) + reader'.left <= RingSize
  BY <1>1, <1>2, LogRingAssumption
<1>4. reader' \in [left : 0..RingSize, from : Slot, out : Seq(Nat), had : SUBSET (1..line')]
  BY <1>1, <1>2
<1> QED BY <1>1, <1>3, <1>4 DEF ReaderInv

LEMMA SnapInvStep == SnapInv /\ [RingNext]_logRingVars => SnapInv'
<1> SUFFICES ASSUME SnapInv, [RingNext]_logRingVars PROVE SnapInv'
  OBVIOUS
<1>1. ASSUME UNCHANGED <<ringVars, reader>> PROVE SnapInv'
  <2>1. ring' = ring /\ head' = head /\ count' = count /\ line' = line /\ reader' = reader
    BY <1>1 DEF ringVars
  <2>2. FillInv'
    BY <2>1 DEF SnapInv, FillInv
  <2>3. (\A k : Ahead(k)' = Ahead(k)) /\ (\A j : From(j)' = From(j)) /\ (\A m : HadOrNew(m)' <=> HadOrNew(m))
    BY <2>1 DEF Ahead, From, Behind, HadOrNew
  <2>4. ReaderInv'
    BY <2>1, <2>3 DEF SnapInv, ReaderInv
  <2> QED BY <2>2, <2>4 DEF SnapInv
<1>2. CASE BeginRead
  BY <1>2, BeginReadKeeps
<1>3. CASE ReadSlot
  BY <1>3, ReadSlotKeeps
<1>4. CASE GiveUpRead
  <2>1. UNCHANGED ringVars /\ reader' = NoRead
    BY <1>4 DEF GiveUpRead
  <2>2. FillInv'
    BY <2>1 DEF ringVars, SnapInv, FillInv
  <2> QED BY <2>1, <2>2, RestingReader DEF SnapInv
<1>5. ASSUME NEW t \in Logger, Hook(t) PROVE SnapInv'
  BY <1>5, HookKeeps
<1>6. ASSUME NEW t \in Logger,
             ReadClock(t) \/ NewSecond(t) \/ StoreOne(t) \/ SameSecond(t) \/ CountLine(t)
      PROVE  SnapInv'
  BY <1>1, <1>6 DEF ReadClock, NewSecond, StoreOne, SameSecond, CountLine
<1>7. CASE Tick
  BY <1>1, <1>7 DEF Tick
<1>8. CASE UNCHANGED logRingVars
  BY <1>1, <1>8 DEF logRingVars
<1> QED BY <1>2, <1>3, <1>4, <1>5, <1>6, <1>7, <1>8 DEF RingNext

\* A line's number tells its slot.
LEMMA SameTurn ==
    ASSUME NEW x \in Nat, NEW y \in Nat, NEW m \in Nat, NEW p \in Nat, x < RingSize, y < RingSize,
           x + 1 + m * RingSize = y + 1 + p * RingSize
    PROVE  x = y
<1>1. RingSize \in Nat
  BY LogRingAssumption
<1>2. m * RingSize \in Nat /\ p * RingSize \in Nat
  BY <1>1
<1>3. m < p => p * RingSize >= m * RingSize + RingSize
  BY <1>1
<1>4. p < m => m * RingSize >= p * RingSize + RingSize
  BY <1>1
<1> DEFINE M == m * RingSize
           P == p * RingSize
<1>5. M \in Nat /\ P \in Nat /\ (m < p => P >= M + RingSize) /\ (p < m => M >= P + RingSize)
      /\ (m = p => M = P) /\ x + 1 + M = y + 1 + P
  BY <1>2, <1>3, <1>4
<1> HIDE DEF M, P
<1>6. ~(m < p) /\ ~(p < m)
  BY <1>1, <1>5
<1> QED BY <1>5, <1>6

\* Slots unequally far behind are not the same.
LEMMA SameBehind ==
    ASSUME NEW f \in Nat, NEW c \in Nat, NEW d \in Nat, f < RingSize,
           1 <= c, c <= RingSize, 1 <= d, d <= RingSize,
           (IF c <= f THEN f - c ELSE f - c + RingSize) = (IF d <= f THEN f - d ELSE f - d + RingSize)
    PROVE  c = d
<1>1. RingSize \in Nat
  BY LogRingAssumption
<1> QED BY <1>1

\* What the answer holds so far comes of slots all different, and a line's number tells its
\* slot: no line is in it twice.
LEMMA NoneTwice ==
    ASSUME SnapInv, NEW a \in 1..Len(reader.out), NEW b \in 1..Len(reader.out),
           reader.out[a] = reader.out[b]
    PROVE  a = b
<1>1. PICK n \in Nat : n = Len(reader.out) /\ n <= RingSize
  <2>1. Len(reader.out) + reader.left <= RingSize /\ reader.left \in 0..RingSize /\ Len(reader.out) \in Nat
    BY ReaderSlots DEF SnapInv, ReaderInv
  <2> QED BY <2>1, LogRingAssumption
<1>2. PICK f \in Nat : f = reader.from /\ f < RingSize /\ RingSize \in Nat /\ RingSize > 0
  BY LogRingAssumption, ReaderSlots DEF SnapInv, Slot
<1>3. PICK x \in Nat : x = From(a) /\ x < RingSize
  BY <1>2, ReaderSlots DEF SnapInv, Slot
<1>4. PICK y \in Nat : y = From(b) /\ y < RingSize
  BY <1>2, ReaderSlots DEF SnapInv, Slot
<1>5. PICK m \in Nat : reader.out[a] = x + 1 + m * RingSize
  BY <1>3 DEF SnapInv, ReaderInv
<1>6. PICK p \in Nat : reader.out[b] = y + 1 + p * RingSize
  BY <1>4 DEF SnapInv, ReaderInv
<1>7. x + 1 + m * RingSize = y + 1 + p * RingSize
  BY <1>5, <1>6
<1>8. x < RingSize /\ y < RingSize
  BY <1>3, <1>4
<1>10. x = y
  BY <1>7, <1>8, SameTurn
<1>11. a \in Nat /\ b \in Nat /\ 1 <= a /\ a <= n /\ 1 <= b /\ b <= n
  BY <1>1
<1>12. x = (IF n + 1 - a <= f THEN f - (n + 1 - a) ELSE f - (n + 1 - a) + RingSize)
  BY <1>1, <1>2, <1>3 DEF From, Behind
<1>13. y = (IF n + 1 - b <= f THEN f - (n + 1 - b) ELSE f - (n + 1 - b) + RingSize)
  BY <1>1, <1>2, <1>4 DEF From, Behind
<1>14. n <= RingSize /\ f < RingSize /\ RingSize \in Nat
  BY <1>1, <1>2
<1>15. PICK c \in Nat : c = n + 1 - a /\ c <= n /\ 1 <= c
  BY <1>11
<1>16. PICK d \in Nat : d = n + 1 - b /\ d <= n /\ 1 <= d
  BY <1>11
<1>17. c = d
  <2>1. x = (IF c <= f THEN f - c ELSE f - c + RingSize)
    BY <1>12, <1>15
  <2>2. y = (IF d <= f THEN f - d ELSE f - d + RingSize)
    BY <1>13, <1>16
  <2>3. (IF c <= f THEN f - c ELSE f - c + RingSize) = (IF d <= f THEN f - d ELSE f - d + RingSize)
    BY <1>10, <2>1, <2>2, Zenon
  <2>4. f < RingSize /\ 1 <= c /\ c <= RingSize /\ 1 <= d /\ d <= RingSize
    BY <1>14, <1>15, <1>16
  <2> QED BY <2>3, <2>4, SameBehind, Zenon
<1> QED BY <1>11, <1>15, <1>16, <1>17

\* An answer of logs.get (log_ring_to_json) gives the lines that are in the ring throughout, and
\* each line once: the ring going on being written between two slots takes nothing from it.
THEOREM SnapshotsAreWhole == RingSpec => []SnapshotIsWhole
<1>1. RingInit => SnapInv
  <2> SUFFICES ASSUME RingInit PROVE SnapInv
    OBVIOUS
  <2>1. RingSize \in Nat \ {0} /\ 0 \in Slot
    BY LogRingAssumption DEF Slot
  <2>2. ring = [i \in Slot |-> 0] /\ head = 0 /\ count = 0 /\ line = 0 /\ reader = NoRead
    BY DEF RingInit
  <2>3. FillInv
    <3>1. line = head + 0 * RingSize /\ 0 \in Nat
      BY <2>1, <2>2
    <3>2. \E m \in Nat : line = head + m * RingSize
      BY <3>1
    <3>3. \A i \in Slot : ring[i] = 0 /\ ~(i < count) /\ i \in Nat
      BY <2>1, <2>2 DEF Slot
    <3>4. ring \in [Slot -> Nat]
      BY <2>2
    <3> QED BY <2>1, <2>2, <3>2, <3>3, <3>4 DEF FillInv
  <2> QED BY <2>2, <2>3, RestingReaderNow DEF SnapInv
<1>2. SnapInv => SnapshotIsWhole
  <2> SUFFICES ASSUME SnapInv PROVE SnapshotIsWhole
    OBVIOUS
  <2> DEFINE now  == {ring[i] : i \in Slot} \ {0}
             todo == {ring[(reader.from + k) % RingSize] : k \in 0..(reader.left - 1)}
  <2>1. /\ reader.left \in 0..RingSize /\ reader.from \in Slot /\ reader.out \in Seq(Nat)
        /\ reader.had \subseteq 1..line /\ Len(reader.out) \in Nat
    BY ReaderSlots DEF SnapInv
  <2>2. ToSet(reader.out) = {reader.out[j] : j \in 1..Len(reader.out)} /\ DOMAIN reader.out = 1..Len(reader.out)
    BY <2>1 DEF ToSet
  <2>3. \A k \in 0..(reader.left - 1) : Ahead(k) = (reader.from + k) % RingSize
    <3> TAKE k \in 0..(reader.left - 1)
    <3>1. PICK f \in Nat : f = reader.from /\ f < RingSize /\ RingSize \in Nat
      BY LogRingAssumption, <2>1 DEF Slot
    <3>2. k \in Nat /\ k < RingSize
      BY <2>1, <3>1
    <3>3. PICK w \in Nat : w = reader.from + k /\ w < RingSize + RingSize
      BY <3>1, <3>2
    <3>4. w % RingSize = IF w < RingSize THEN w ELSE w - RingSize
      BY <3>3, Around
    <3>5. Ahead(k) = IF w < RingSize THEN w ELSE w - RingSize
      BY <3>1, <3>2, <3>3 DEF Ahead
    <3> QED BY <3>3, <3>4, <3>5
  <2>4. ASSUME NEW x \in reader.had \cap now PROVE x \in ToSet(reader.out) \cup todo
    <3>1. PICK i \in Slot : x = ring[i]
      OBVIOUS
    <3>2. CASE \E k \in 0..(reader.left - 1) : i = Ahead(k)
      BY <2>3, <3>1, <3>2
    <3>3. CASE \E j \in 1..Len(reader.out) : i = From(j)
      BY <2>2, <2>4, <3>1, <3>3 DEF SnapInv, ReaderInv
    <3> QED BY <2>4, <3>1, <3>2, <3>3 DEF SnapInv, ReaderInv
  <2>5. IsInjective(reader.out)
    BY <2>2, NoneTwice DEF IsInjective
  <2>6. \A x \in ToSet(reader.out) : x # 0 /\ HadOrNew(x)
    BY <2>2 DEF SnapInv, ReaderInv
  <2> HIDE DEF now, todo
  <2> QED BY <2>4, <2>5, <2>6 DEF SnapshotIsWhole, now, todo, HadOrNew
<1> QED BY <1>1, <1>2, SnapInvStep, PTL DEF RingSpec

-----------------------------------------------------------------------------
(* The log to the cloud.                                                     *)

CloudTypes ==
    /\ seq \in Nat /\ dropped \in Nat
    /\ backlog \in Seq(Nat) /\ Len(backlog) <= BacklogCap
    /\ tail \in [ok : {TRUE}, lines : Seq(Nat), sent : Nat]
    /\ batch = NoBatch
       \/ batch \in [at : {"add", "mark"}, lines : Seq(Nat), dropped : Nat, next : Nat]
    /\ got \subseteq 1..seq /\ lost \subseteq 1..seq

\* n is the highest number handed to the link.
LastGot(n) == n \in Nat /\ (n \in got \/ (n = 0 /\ got = {})) /\ \A m \in got : m <= n

\* Consecutive numbers, the last one of which is n.
UpTo(s, n) == \A i \in 1..Len(s) : s[i] + Len(s) = n + i

\* The last number sent or in the batch being filled, where that one begins, what it holds.
Filling  == batch.at = "add"
Reached  == IF ~Filling THEN Sent
            ELSE IF batch.lines = <<>> THEN batch.next - 1 ELSE Last(batch.lines)
BatchHas == IF Filling THEN ToSet(batch.lines) ELSE {}

\* The backlog goes up to the last number, and what lies between it and what was reached was
\* dropped, or cleared by an Off.
BacklogInv ==
    /\ UpTo(backlog, seq) /\ Reached \in Nat
    /\ Reached + dropped + Len(backlog) <= seq
    /\ lost = {} => Reached + dropped + Len(backlog) = seq /\ (dropped # 0 => backlog # <<>>)

BatchInv ==
    /\ Filling =>
          /\ UpTo(batch.lines, Reached)
          /\ Sent + 1 + batch.dropped + Len(batch.lines) <= Reached + 1
          /\ lost = {} => Sent + 1 + batch.dropped + Len(batch.lines) = Reached + 1
          /\ batch.next = 0 \/ (batch.next = Reached + 1 /\ batch.next <= seq)
          /\ batch.lines = <<>> => batch.next # 0
    /\ batch.at = "mark" => batch.lines # <<>> /\ Last(batch.lines) = Sent

\* A number in the tail is behind in it by no more lines than in the count; what the tail
\* calls sent was.
LinesFit(s, n) ==
    /\ Len(s) <= TailCap
    /\ \A i \in 1..Len(s) : s[i] # 0 => s[i] <= n /\ n + i <= Len(s) + s[i]

LinesInv ==
    /\ LinesFit(tail.lines, seq)
    /\ tail.sent <= Sent /\ (batch.at # "mark" => tail.sent = Sent)

\* A young number is not lost without a word.
YoungInv ==
    \A n \in 1..seq : n + BacklogCap > seq => n \in got \cup lost \cup ToSet(backlog) \cup BatchHas

SendInv  == CloudTypes /\ LastGot(Sent) /\ BacklogInv /\ BatchInv
CloudInv == SendInv /\ LinesInv /\ YoungInv /\ TailTellsTheRest

\* Sequences of numbers.
LEMMA TailOf ==
    ASSUME NEW s \in Seq(Nat), s # <<>>
    PROVE  /\ Tail(s) \in Seq(Nat) /\ Len(Tail(s)) = Len(s) - 1 /\ Len(s) \in Nat \ {0}
           /\ \A i \in 1..Len(Tail(s)) : i + 1 \in 1..Len(s) /\ Tail(s)[i] = s[i + 1]
           /\ Head(s) = s[1] /\ Head(s) \in Nat
           /\ Last(s) = s[Len(s)] /\ Last(s) \in Nat
           /\ ToSet(s) = {Head(s)} \cup ToSet(Tail(s))
<1>1. Len(s) \in Nat \ {0} /\ \A i \in 1..Len(s) : s[i] \in Nat
  OBVIOUS
<1>2. /\ Tail(s) \in Seq(Nat) /\ Len(Tail(s)) = Len(s) - 1
      /\ \A i \in 1..Len(Tail(s)) : i + 1 \in 1..Len(s) /\ Tail(s)[i] = s[i + 1]
  OBVIOUS
<1>3. Head(s) = s[1] /\ Last(s) = s[Len(s)]
  BY DEF Last
<1>4. ToSet(s) = {Head(s)} \cup ToSet(Tail(s))
  <2>1. \A i \in 1..Len(s) : i = 1 \/ (i - 1 \in 1..Len(Tail(s)) /\ Tail(s)[i - 1] = s[i])
    BY <1>1, <1>2
  <2>2. \A m : m \in ToSet(s) <=> \E i \in 1..Len(s) : m = s[i]
    BY DEF ToSet
  <2>3. \A m : m \in ToSet(Tail(s)) <=> \E i \in 1..Len(Tail(s)) : m = Tail(s)[i]
    <3>1. PICK t \in Seq(Nat) : t = Tail(s)
      BY <1>2
    <3>2. \A m : m \in ToSet(t) <=> \E i \in 1..Len(t) : m = t[i]
      BY DEF ToSet
    <3> QED BY <3>1, <3>2
  <2>4. 1 \in 1..Len(s)
    BY <1>1
  <2>5. ASSUME NEW m PROVE m \in ToSet(s) <=> (m = Head(s) \/ m \in ToSet(Tail(s)))
    <3>1. ASSUME m \in ToSet(s), m # Head(s) PROVE m \in ToSet(Tail(s))
      <4>1. PICK i \in 1..Len(s) : m = s[i]
        BY <2>2, <3>1
      <4>2. i # 1
        BY <1>3, <3>1, <4>1
      <4> QED BY <2>1, <2>3, <4>1, <4>2
    <3>2. ASSUME m \in ToSet(Tail(s)) PROVE m \in ToSet(s)
      <4>1. PICK i \in 1..Len(Tail(s)) : m = Tail(s)[i]
        BY <2>3, <3>2
      <4>2. i + 1 \in 1..Len(s) /\ m = s[i + 1]
        BY <1>2, <4>1
      <4> QED BY <2>2, <4>2
    <3> QED BY <1>3, <2>2, <2>4, <3>1, <3>2
  <2> QED BY <2>5
<1> QED BY <1>1, <1>2, <1>3, <1>4

LEMMA AppendTo ==
    ASSUME NEW s \in Seq(Nat), NEW n \in Nat
    PROVE  /\ Append(s, n) \in Seq(Nat) /\ Append(s, n) # <<>> /\ Len(Append(s, n)) = Len(s) + 1
           /\ Len(s) \in Nat
           /\ \A i \in 1..Len(s) : Append(s, n)[i] = s[i]
           /\ Append(s, n)[Len(s) + 1] = n /\ Last(Append(s, n)) = n
           /\ ToSet(Append(s, n)) = ToSet(s) \cup {n}
<1>1. /\ Append(s, n) \in Seq(Nat) /\ Append(s, n) # <<>> /\ Len(Append(s, n)) = Len(s) + 1
      /\ Len(s) \in Nat
      /\ \A i \in 1..Len(s) : Append(s, n)[i] = s[i]
      /\ Append(s, n)[Len(s) + 1] = n
  OBVIOUS
<1>2. Last(Append(s, n)) = n
  BY <1>1 DEF Last
<1>3. ToSet(Append(s, n)) = ToSet(s) \cup {n}
  <2>1. /\ ToSet(s) = {s[i] : i \in 1..Len(s)}
        /\ ToSet(Append(s, n)) = {Append(s, n)[i] : i \in 1..(Len(s) + 1)}
    BY <1>1 DEF ToSet
  <2>2. \A i : i \in 1..(Len(s) + 1) <=> i \in 1..Len(s) \/ i = Len(s) + 1
    BY <1>1
  <2> QED BY <1>1, <2>1, <2>2
<1> QED BY <1>1, <1>2, <1>3

LEMMA UpToNone == \A n : UpTo(<<>>, n)
BY DEF UpTo

LEMMA UpToTail ==
    ASSUME NEW s \in Seq(Nat), NEW n \in Nat, UpTo(s, n), s # <<>>
    PROVE  Head(s) + Len(s) = n + 1 /\ Last(s) = n /\ UpTo(Tail(s), n)
<1>1. Len(s) \in Nat \ {0} /\ 1 \in 1..Len(s) /\ Len(s) \in 1..Len(s)
  BY TailOf
<1>2. Head(s) + Len(s) = n + 1 /\ Last(s) + Len(s) = n + Len(s)
  BY <1>1, TailOf DEF UpTo
<1>3. UpTo(Tail(s), n)
  <2> SUFFICES ASSUME NEW i \in 1..Len(Tail(s)) PROVE Tail(s)[i] + Len(Tail(s)) = n + i
    BY DEF UpTo
  <2>1. i + 1 \in 1..Len(s) /\ Tail(s)[i] = s[i + 1] /\ Len(Tail(s)) = Len(s) - 1
    BY TailOf
  <2>2. s[i + 1] + Len(s) = n + (i + 1) /\ s[i + 1] \in Nat
    BY <2>1 DEF UpTo
  <2> QED BY <1>1, <2>1, <2>2
<1>4. Last(s) \in Nat
  BY TailOf
<1> QED BY <1>1, <1>2, <1>3, <1>4

LEMMA UpToAppend ==
    ASSUME NEW s \in Seq(Nat), NEW n \in Nat, UpTo(s, n)
    PROVE  UpTo(Append(s, n + 1), n + 1)
<1> SUFFICES ASSUME NEW i \in 1..Len(Append(s, n + 1))
             PROVE  Append(s, n + 1)[i] + Len(Append(s, n + 1)) = (n + 1) + i
  BY DEF UpTo
<1>1. Len(Append(s, n + 1)) = Len(s) + 1 /\ Len(s) \in Nat
  BY AppendTo
<1>2. CASE i = Len(s) + 1
  BY <1>1, <1>2
<1>3. CASE i \in 1..Len(s)
  <2>1. s[i] + Len(s) = n + i /\ s[i] \in Nat /\ Append(s, n + 1)[i] = s[i]
    BY <1>3, AppendTo DEF UpTo
  <2>2. \A x, l, j \in Nat : x + l = n + j => x + (l + 1) = (n + 1) + j
    OBVIOUS
  <2>3. i \in Nat /\ s[i] + (Len(s) + 1) = (n + 1) + i
    BY <1>1, <1>3, <2>1, <2>2
  <2> QED BY <1>1, <2>1, <2>3, Zenon
<1> QED BY <1>1, <1>2, <1>3

\* What consecutive numbers are.
LEMMA UpToAre ==
    ASSUME NEW s \in Seq(Nat), NEW n \in Nat, UpTo(s, n)
    PROVE  \A m \in ToSet(s) : m \in Nat /\ m <= n /\ m + Len(s) > n
<1> TAKE m \in ToSet(s)
<1>1. PICK i \in 1..Len(s) : s[i] = m
  BY DEF ToSet
<1>2. m + Len(s) = n + i /\ m \in Nat /\ Len(s) \in Nat
  BY <1>1 DEF UpTo
<1> QED BY <1>1, <1>2

LEMMA Highest ==
    ASSUME NEW g \in SUBSET Nat, NEW n \in g, \A m \in g : m <= n
    PROVE  (CHOOSE x \in g : \A m \in g : m <= x) = n
<1>1. \A x \in g : (\A m \in g : m <= x) => x = n
  OBVIOUS
<1> QED BY <1>1

\* One line more in a block.
LEMMA PushFits ==
    ASSUME NEW s \in Seq(Nat), NEW q \in Nat, NEW n \in Nat, NEW z \in Nat, LinesFit(s, q),
           (n = 0 /\ z = q) \/ (n = q + 1 /\ z = q + 1)
    PROVE  LinesFit(Append(IF Len(s) = TailCap THEN Tail(s) ELSE s, n), z)
<1>1. TailCap \in Nat \ {0}
  BY CloudLogAssumption
<1>2. PICK r \in Seq(Nat) : r = (IF Len(s) = TailCap THEN Tail(s) ELSE s) /\ Len(r) + 1 <= TailCap
                           /\ Len(r) \in Nat /\ LinesFit(r, q)
  <2>1. CASE Len(s) = TailCap
    <3>1. s # <<>>
      BY <1>1, <2>1
    <3>2. PICK t \in Seq(Nat) : t = Tail(s) /\ Len(t) = Len(s) - 1 /\ Len(t) \in Nat /\ Len(s) \in Nat
                               /\ \A i \in 1..Len(t) : i + 1 \in 1..Len(s) /\ t[i] = s[i + 1]
      BY <3>1, TailOf
    <3>3. ASSUME NEW i \in 1..Len(t), t[i] # 0 PROVE t[i] <= q /\ q + i <= Len(t) + t[i]
      <4>1. t[i] \in Nat /\ t[i] <= q /\ q + (i + 1) <= Len(s) + t[i]
        BY <3>2, <3>3 DEF LinesFit
      <4> QED BY <3>2, <4>1
    <3>4. Len(t) + 1 = TailCap /\ Len(t) <= TailCap
      BY <1>1, <2>1, <3>2
    <3>5. LinesFit(t, q)
      BY <3>3, <3>4 DEF LinesFit
    <3>6. t = (IF Len(s) = TailCap THEN Tail(s) ELSE s) /\ Len(t) + 1 <= TailCap
      BY <1>1, <2>1, <3>2, <3>4
    <3> QED BY <3>2, <3>5, <3>6, Zenon
  <2>2. CASE Len(s) # TailCap
    BY <1>1, <2>2 DEF LinesFit
  <2> QED BY <2>1, <2>2
<1>3. PICK l \in Nat : l = Len(r)
  BY <1>2
<1>7. PICK w \in Seq(Nat) : w = Append(r, n)
  BY AppendTo
<1>4. /\ Len(w) = l + 1 /\ \A i \in 1..l : w[i] = r[i] /\ r[i] \in Nat
      /\ w[l + 1] = n
  BY <1>3, <1>7, AppendTo
<1>5. ASSUME NEW i \in 1..(l + 1), w[i] # 0 PROVE w[i] <= z /\ z + i <= (l + 1) + w[i]
  <2>1. CASE i = l + 1
    BY <1>4, <1>5, <2>1
  <2>2. CASE i \in 1..l
    <3>1. w[i] \in Nat /\ w[i] <= q /\ q + i <= l + w[i]
      BY <1>2, <1>3, <1>4, <1>5, <2>2 DEF LinesFit
    <3>2. \A x, j \in Nat : x <= q /\ q + j <= l + x => x <= z /\ z + j <= (l + 1) + x
      OBVIOUS
    <3>3. i \in Nat
      BY <2>2
    <3> QED BY <3>1, <3>2, <3>3, Zenon
  <2> QED BY <2>1, <2>2
<1>6. LinesFit(w, z)
  BY <1>2, <1>3, <1>4, <1>5 DEF LinesFit
<1> QED BY <1>2, <1>6, <1>7

LEMMA CloudFacts ==
    ASSUME SendInv
    PROVE  /\ seq \in Nat /\ dropped \in Nat /\ Sent \in Nat /\ Reached \in Nat
           /\ BacklogCap \in Nat \ {0} /\ TailCap \in Nat \ {0} /\ TailCap <= BacklogCap
           /\ backlog \in Seq(Nat) /\ Len(backlog) \in Nat /\ Len(backlog) <= BacklogCap
           /\ UpTo(backlog, seq) /\ ToSet(backlog) \subseteq 1..seq
           /\ Sent <= Reached /\ Reached + dropped + Len(backlog) <= seq
           /\ batch.at # "none" => /\ batch.lines \in Seq(Nat) /\ Len(batch.lines) \in Nat
                                   /\ batch.dropped \in Nat /\ batch.next \in Nat
           /\ ~Filling => Reached = Sent
<1>1. /\ seq \in Nat /\ dropped \in Nat /\ Sent \in Nat /\ Reached \in Nat
      /\ backlog \in Seq(Nat) /\ Len(backlog) \in Nat /\ Len(backlog) <= BacklogCap
      /\ UpTo(backlog, seq) /\ Reached + dropped + Len(backlog) <= seq
  BY DEF SendInv, CloudTypes, LastGot, BacklogInv
<1>2. BacklogCap \in Nat \ {0} /\ TailCap \in Nat \ {0} /\ TailCap <= BacklogCap
  BY CloudLogAssumption
<1>3. batch.at # "none" => /\ batch.lines \in Seq(Nat) /\ Len(batch.lines) \in Nat
                            /\ batch.dropped \in Nat /\ batch.next \in Nat
  BY DEF SendInv, CloudTypes, NoBatch
<1>4. ~Filling => Reached = Sent
  BY DEF Reached
<1>5. Sent <= Reached
  <2>1. CASE Filling
    <3>1. Sent + 1 + batch.dropped + Len(batch.lines) <= Reached + 1
      BY <2>1 DEF SendInv, BatchInv
    <3> QED BY <1>1, <1>3, <2>1, <3>1 DEF Filling
  <2> QED BY <1>1, <1>4, <2>1
<1>6. ToSet(backlog) \subseteq 1..seq
  <2>1. \A m \in ToSet(backlog) : m \in Nat /\ m <= seq /\ m + Len(backlog) > seq
    BY <1>1, UpToAre
  <2>2. Len(backlog) <= seq
    BY <1>1
  <2> QED BY <1>1, <2>1, <2>2
<1> QED BY <1>1, <1>2, <1>3, <1>4, <1>5, <1>6

LEMMA CaptureKeeps == ASSUME CloudInv, NEW wanted \in BOOLEAN, Capture(wanted) PROVE CloudInv'
<1>1. SendInv /\ LinesInv /\ YoungInv /\ TailTellsTheRest
  BY DEF CloudInv
<1>2. UNCHANGED <<batch, got, lost, prev, past>>
  BY DEF Capture, found
<1>3. Sent' = Sent /\ BatchHas' = BatchHas /\ Filling' = Filling
  BY <1>2 DEF Sent, BatchHas, Filling
<1>4. Reached' = Reached
  BY <1>2, <1>3 DEF Reached
<1>5. TailTellsTheRest'
  BY <1>1, <1>2 DEF TailTellsTheRest, Reported
<1> DEFINE n == IF wanted THEN seq + 1 ELSE 0
<1>6. /\ seq' \in Nat /\ n \in Nat /\ ((n = 0 /\ seq' = seq) \/ (n = seq + 1 /\ seq' = seq + 1))
      /\ tail' = PushTail(tail, n)
  BY <1>1, CloudFacts DEF Capture
<1> HIDE DEF n
<1>7. tail \in [ok : {TRUE}, lines : Seq(Nat), sent : Nat]
  BY <1>1 DEF SendInv, CloudTypes
<1>8. /\ tail' \in [ok : {TRUE}, lines : Seq(Nat), sent : Nat] /\ tail'.sent = tail.sent
      /\ tail'.lines = Append(IF Len(tail.lines) = TailCap THEN Tail(tail.lines) ELSE tail.lines, n)
  <2>1. (IF Len(tail.lines) = TailCap THEN Tail(tail.lines) ELSE tail.lines) \in Seq(Nat)
    <3>1. tail.lines \in Seq(Nat) /\ TailCap # 0
      BY <1>7, CloudLogAssumption
    <3>2. CASE Len(tail.lines) = TailCap
      <4>1. tail.lines # <<>>
        BY <3>1, <3>2
      <4> QED BY <3>1, <3>2, <4>1, TailOf
    <3> QED BY <3>1, <3>2
  <2>2. Append(IF Len(tail.lines) = TailCap THEN Tail(tail.lines) ELSE tail.lines, n) \in Seq(Nat)
    BY <1>6, <2>1, AppendTo
  <2> QED BY <1>6, <1>7, <2>2 DEF PushTail
<1>9. LinesInv'
  <2>1. LinesFit(tail'.lines, seq')
    <3>1. LinesFit(tail.lines, seq) /\ tail.lines \in Seq(Nat) /\ seq \in Nat
      BY <1>1, <1>7, CloudFacts DEF LinesInv
    <3>2. seq' \in Nat /\ n \in Nat /\ ((n = 0 /\ seq' = seq) \/ (n = seq + 1 /\ seq' = seq + 1))
      BY <1>6
    <3>3. LinesFit(Append(IF Len(tail.lines) = TailCap THEN Tail(tail.lines) ELSE tail.lines, n), seq')
      BY <3>1, <3>2, PushFits
    <3> QED BY <1>8, <3>3, Zenon
  <2> QED BY <1>1, <1>2, <1>3, <1>8, <2>1 DEF LinesInv
<1>10. CASE ~wanted
  <2>1. UNCHANGED <<seq, backlog, dropped>>
    BY <1>10 DEF Capture
  <2>2. SendInv'
    BY <1>1, <1>2, <1>3, <1>4, <1>8, <2>1 DEF SendInv, CloudTypes, LastGot, BacklogInv, BatchInv
  <2>3. YoungInv'
    BY <1>1, <1>2, <1>3, <2>1 DEF YoungInv
  <2> QED BY <1>5, <1>9, <2>2, <2>3 DEF CloudInv
<1>11. CASE wanted
  <2> DEFINE r == IF Full THEN Tail(backlog) ELSE backlog
  <2>1. /\ seq' = seq + 1 /\ backlog' = Append(r, seq + 1)
        /\ dropped' = IF Full THEN dropped + 1 ELSE dropped
    BY <1>11 DEF Capture
  <2>2. PICK l \in Nat : l = Len(backlog) /\ l <= BacklogCap
    BY <1>1, CloudFacts
  <2>3. /\ r \in Seq(Nat) /\ UpTo(r, seq) /\ Len(r) = (IF Full THEN l - 1 ELSE l) /\ Len(r) \in Nat
        /\ Len(r) + 1 <= BacklogCap
        /\ \A m \in ToSet(backlog) : m \in ToSet(r) \/ (Full /\ m + l = seq + 1)
    <3>1. CASE Full
      <4>1. backlog # <<>> /\ backlog \in Seq(Nat) /\ UpTo(backlog, seq) /\ l = BacklogCap
        BY <1>1, <2>2, <3>1, CloudFacts DEF Full
      <4>2. Tail(backlog) \in Seq(Nat) /\ UpTo(Tail(backlog), seq) /\ Len(Tail(backlog)) = l - 1
            /\ Head(backlog) + l = seq + 1 /\ ToSet(backlog) = {Head(backlog)} \cup ToSet(Tail(backlog))
        BY <1>1, <2>2, <4>1, TailOf, UpToTail, CloudFacts
      <4>3. l # 0 /\ r = Tail(backlog)
        BY <1>1, <3>1, <4>1, CloudFacts
      <4> HIDE DEF r
      <4> QED BY <2>2, <3>1, <4>1, <4>2, <4>3
    <3>2. CASE ~Full
      <4>1. r = backlog /\ l # BacklogCap
        BY <2>2, <3>2 DEF Full
      <4> HIDE DEF r
      <4> QED BY <1>1, <2>2, <3>2, <4>1, CloudFacts
    <3> QED BY <3>1, <3>2
  <2> HIDE DEF r
  <2>4. /\ backlog' \in Seq(Nat) /\ Len(backlog') = Len(r) + 1 /\ UpTo(backlog', seq')
        /\ ToSet(backlog') = ToSet(r) \cup {seq + 1} /\ backlog' # <<>>
    <3>1. seq \in Nat /\ seq + 1 \in Nat
      BY <1>1, CloudFacts
    <3>2. UpTo(Append(r, seq + 1), seq + 1)
      BY <2>3, <3>1, UpToAppend
    <3>3. /\ Append(r, seq + 1) \in Seq(Nat) /\ Append(r, seq + 1) # <<>>
          /\ Len(Append(r, seq + 1)) = Len(r) + 1
          /\ ToSet(Append(r, seq + 1)) = ToSet(r) \cup {seq + 1}
      BY <2>3, <3>1, AppendTo
    <3> QED BY <2>1, <3>2, <3>3, Zenon
  <2>5. CloudTypes'
    <3>1. got \subseteq 1..seq /\ lost \subseteq 1..seq /\ 1..seq \subseteq 1..(seq + 1)
      BY <1>1, CloudFacts DEF SendInv, CloudTypes
    <3>2. dropped' \in Nat
      BY <1>1, <2>1, CloudFacts
    <3> QED BY <1>1, <1>2, <1>6, <1>8, <2>1, <2>3, <2>4, <3>1, <3>2 DEF SendInv, CloudTypes
  <2>6. dropped' + Len(backlog') = dropped + l + 1 /\ dropped' \in Nat /\ Len(backlog') \in Nat
    <3>1. dropped \in Nat
      BY <1>1, CloudFacts
    <3>2. PICK k \in Nat : k = Len(r) /\ k = (IF Full THEN l - 1 ELSE l)
      BY <2>3
    <3>3. Len(backlog') = k + 1
      BY <2>4, <3>2
    <3> QED BY <2>1, <3>1, <3>2, <3>3
  <2>7. BacklogInv'
    <3>1. Reached \in Nat /\ Reached + dropped + l <= seq /\ (lost = {} => Reached + dropped + l = seq)
      BY <1>1, <2>2 DEF SendInv, BacklogInv
    <3>2. \A d, k \in Nat : d + k = dropped + l + 1 =>
             Reached + d + k <= seq + 1 /\ (lost = {} => Reached + d + k = seq + 1)
      BY <1>1, <3>1, CloudFacts
    <3> QED BY <1>2, <1>4, <2>1, <2>4, <2>6, <3>1, <3>2 DEF BacklogInv
  <2>8. BatchInv'
    <3>1. BatchInv /\ \A m \in Nat : m <= seq => m <= seq + 1
      BY <1>1, CloudFacts DEF SendInv
    <3>2. Filling => batch.next \in Nat
      BY <1>1, CloudFacts DEF Filling
    <3> QED BY <1>2, <1>3, <1>4, <2>1, <3>1, <3>2 DEF BatchInv
  <2>9. SendInv'
    BY <1>1, <1>2, <1>3, <2>5, <2>7, <2>8 DEF SendInv, LastGot
  <2>10. YoungInv'
    <3> SUFFICES ASSUME NEW m \in 1..seq', m + BacklogCap > seq'
                 PROVE  m \in got \cup lost \cup ToSet(backlog') \cup BatchHas
      BY <1>2, <1>3 DEF YoungInv
    <3>1. CASE m = seq + 1
      BY <2>4, <3>1
    <3>2. CASE m # seq + 1
      <4>1. m \in 1..seq /\ m + BacklogCap > seq
        BY <1>1, <2>1, <3>2, CloudFacts
      <4>2. m \in got \cup lost \cup ToSet(backlog) \cup BatchHas
        BY <1>1, <4>1 DEF YoungInv
      <4>3. ~(Full /\ m + l = seq + 1)
        BY <1>1, <2>1, <2>2, CloudFacts DEF Full
      <4> QED BY <2>3, <2>4, <4>2, <4>3
    <3> QED BY <3>1, <3>2
  <2> QED BY <1>5, <1>9, <2>9, <2>10 DEF CloudInv
<1> QED BY <1>10, <1>11

LEMMA ClearKeeps == ASSUME CloudInv, Clear PROVE CloudInv'
<1>1. SendInv /\ LinesInv /\ YoungInv /\ TailTellsTheRest
  BY DEF CloudInv
<1>2. /\ UNCHANGED <<seq, tail, batch, got, prev, past>>
      /\ lost' = lost \cup ToSet(backlog) /\ backlog' = <<>> /\ dropped' = 0
  BY DEF Clear, found
<1>3. Sent' = Sent /\ BatchHas' = BatchHas /\ Filling' = Filling
  BY <1>2 DEF Sent, BatchHas, Filling
<1>4. Reached' = Reached
  BY <1>2, <1>3 DEF Reached
<1>5. TailTellsTheRest' /\ LinesInv'
  BY <1>1, <1>2, <1>3 DEF TailTellsTheRest, Reported, LinesInv
<1>6. <<>> \in Seq(Nat) /\ Len(<<>>) = 0 /\ ToSet(<<>>) = {}
  BY DEF ToSet
<1>7. CloudTypes'
  <2>1. lost' \subseteq 1..seq
    BY <1>1, <1>2, CloudFacts DEF SendInv, CloudTypes
  <2>2. 0 <= BacklogCap
    BY CloudLogAssumption
  <2> QED BY <1>1, <1>2, <1>6, <2>1, <2>2 DEF SendInv, CloudTypes
<1>8. lost' = {} => lost = {} /\ backlog = <<>>
  <2>1. ASSUME backlog # <<>> PROVE Head(backlog) \in ToSet(backlog)
    BY <1>1, <2>1, TailOf, CloudFacts
  <2> QED BY <1>2, <2>1
<1>9. BacklogInv'
  <2>1. ASSUME lost' = {} PROVE Reached = seq
    <3>1. backlog = <<>> /\ dropped = 0 /\ Reached + dropped + Len(backlog) = seq
      BY <1>1, <1>8, <2>1, CloudFacts DEF SendInv, BacklogInv
    <3> QED BY <1>1, <1>6, <3>1, CloudFacts
  <2>2. Reached <= seq /\ Reached \in Nat /\ seq \in Nat
    BY <1>1, CloudFacts
  <2>3. UpTo(backlog', seq')
    BY <1>2, UpToNone
  <2>4. Reached' + dropped' + Len(backlog') = Reached
    BY <1>2, <1>4, <1>6, <2>2
  <2> QED BY <1>2, <1>4, <2>1, <2>2, <2>3, <2>4 DEF BacklogInv
<1>10. BatchInv'
  BY <1>1, <1>2, <1>3, <1>4, <1>8 DEF SendInv, BatchInv
<1>11. YoungInv'
  BY <1>1, <1>2, <1>3 DEF YoungInv
<1> QED BY <1>1, <1>2, <1>3, <1>5, <1>7, <1>9, <1>10, <1>11 DEF CloudInv, SendInv, LastGot

LEMMA BeginBatchKeeps == ASSUME CloudInv, BeginBatch PROVE CloudInv'
<1>1. SendInv /\ LinesInv /\ YoungInv /\ TailTellsTheRest
  BY DEF CloudInv
<1>2. /\ UNCHANGED <<seq, backlog, tail, got, lost, prev, past>> /\ dropped' = 0
      /\ batch = NoBatch /\ backlog # <<>>
      /\ batch' = [at |-> "add", lines |-> <<>>, dropped |-> dropped, next |-> Head(backlog)]
  BY DEF BeginBatch, found
<1>3. ~Filling /\ batch.at # "mark" /\ Filling' /\ batch'.at = "add" /\ batch'.lines = <<>>
      /\ batch'.dropped = dropped /\ batch'.next = Head(backlog)
  BY <1>2 DEF Filling, NoBatch
<1>4. Sent' = Sent /\ BatchHas = {} /\ Reached = Sent /\ Reached' = Head(backlog) - 1
  BY <1>2, <1>3 DEF Sent, BatchHas, Reached
<1>5. PICK l \in Nat \ {0} : l = Len(backlog) /\ Head(backlog) + l = seq + 1 /\ Head(backlog) \in Nat
  BY <1>1, <1>2, TailOf, UpToTail, CloudFacts
<1>6. Sent \in Nat /\ dropped \in Nat /\ seq \in Nat /\ Sent + dropped + l <= seq
      /\ (lost = {} => Sent + dropped + l = seq)
  BY <1>1, <1>4, <1>5, CloudFacts DEF SendInv, BacklogInv
<1>7. TailTellsTheRest' /\ LinesInv' /\ YoungInv'
  BY <1>1, <1>2, <1>3, <1>4 DEF TailTellsTheRest, Reported, LinesInv, YoungInv
<1>8. CloudTypes'
  <2>1. batch' \in [at : {"add", "mark"}, lines : Seq(Nat), dropped : Nat, next : Nat]
    BY <1>2, <1>5, <1>6
  <2> QED BY <1>1, <1>2, <2>1 DEF SendInv, CloudTypes
<1>9. BacklogInv'
  <2>1. Reached' \in Nat /\ Reached' + dropped' + Len(backlog') = seq
    BY <1>2, <1>4, <1>5, <1>6
  <2> QED BY <1>1, <1>2, <1>6, <2>1 DEF SendInv, BacklogInv
<1>10. BatchInv'
  <2>1. Reached' + l = seq /\ Reached' \in Nat /\ Head(backlog) = Reached' + 1 /\ Head(backlog) <= seq
        /\ Head(backlog) # 0
    BY <1>4, <1>5, <1>6
  <2>2. Len(batch'.lines) = 0 /\ UpTo(batch'.lines, Reached')
    <3>1. Len(<<>>) = 0 /\ UpTo(<<>>, Reached')
      BY UpToNone
    <3> QED BY <1>3, <3>1, Zenon
  <2>3. Sent + 1 + dropped + 0 <= Reached' + 1 /\ (lost = {} => Sent + 1 + dropped + 0 = Reached' + 1)
    <3>1. PICK x \in Nat, y \in Nat, d \in Nat, q \in Nat : x = Sent /\ y = Reached' /\ d = dropped /\ q = seq
      BY <1>6, <2>1
    <3>2. y + l = q /\ x + d + l <= q /\ (lost = {} => x + d + l = q)
      <4>1. Reached' + l = seq
        BY <2>1
      <4>2. Sent + dropped + l <= seq /\ (lost = {} => Sent + dropped + l = seq)
        BY <1>6
      <4> QED BY <3>1, <4>1, <4>2, Zenon
    <3>3. x + 1 + d + 0 <= y + 1 /\ (lost = {} => x + 1 + d + 0 = y + 1)
      <4>1. x \in Nat /\ y \in Nat /\ d \in Nat /\ q \in Nat /\ l \in Nat
        BY <1>5, <3>1
      <4>2. x + 1 + d + 0 = x + d + 1
        BY <4>1
      <4>3. x + d <= y /\ (lost = {} => x + d = y)
        BY <3>2, <4>1
      <4> QED BY <4>1, <4>2, <4>3
    <3> QED BY <3>1, <3>3, Zenon
  <2>4. /\ Sent' + 1 + batch'.dropped + Len(batch'.lines) <= Reached' + 1
        /\ lost' = {} => Sent' + 1 + batch'.dropped + Len(batch'.lines) = Reached' + 1
    BY <1>2, <1>3, <1>4, <2>2, <2>3, Zenon
  <2>5. batch'.next = Reached' + 1 /\ batch'.next <= seq' /\ batch'.next # 0
    BY <1>2, <1>3, <2>1
  <2> QED BY <1>3, <2>2, <2>4, <2>5 DEF BatchInv
<1> QED BY <1>1, <1>2, <1>4, <1>7, <1>8, <1>9, <1>10 DEF CloudInv, SendInv, LastGot

LEMMA AddLineKeeps == ASSUME CloudInv, AddLine PROVE CloudInv'
<1>1. SendInv /\ LinesInv /\ YoungInv /\ TailTellsTheRest
  BY DEF CloudInv
<1> DEFINE n == batch.next
           p == Popped(n)
<1>2. /\ Filling /\ n # 0 /\ UNCHANGED <<seq, tail, got, lost, prev, past>>
      /\ backlog' = p.rest /\ dropped' = p.dropped
      /\ batch' = [batch EXCEPT !.lines = Append(@, n),
                       !.next = IF p.rest # <<>> /\ Head(p.rest) = n + 1 THEN n + 1 ELSE 0]
  BY DEF AddLine, Filling, found
<1>3. /\ batch \in [at : {"add", "mark"}, lines : Seq(Nat), dropped : Nat, next : Nat] /\ n \in Nat
      /\ batch.lines \in Seq(Nat) /\ batch.dropped \in Nat
  BY <1>1, <1>2 DEF SendInv, CloudTypes, Filling, NoBatch
<1>4. /\ n = Reached + 1 /\ n <= seq /\ UpTo(batch.lines, Reached)
      /\ Sent + 1 + batch.dropped + Len(batch.lines) <= Reached + 1
      /\ (lost = {} => Sent + 1 + batch.dropped + Len(batch.lines) = Reached + 1)
  BY <1>1, <1>2 DEF SendInv, BatchInv
<1>5. PICK w \in Seq(Nat) : /\ w = Append(batch.lines, n) /\ w # <<>> /\ Last(w) = n
                            /\ Len(w) = Len(batch.lines) + 1 /\ ToSet(w) = ToSet(batch.lines) \cup {n}
  BY <1>3, AppendTo
<1>6. UpTo(w, n)
  BY <1>1, <1>3, <1>4, <1>5, UpToAppend, CloudFacts
<1>7. PICK l \in Nat : l = Len(backlog) /\ l <= BacklogCap
  BY <1>1, CloudFacts
<1>8. Reached + dropped + l <= seq /\ (lost = {} => Reached + dropped + l = seq /\ (dropped # 0 => backlog # <<>>))
  BY <1>1, <1>7 DEF SendInv, BacklogInv
<1>9. Reached \in Nat /\ dropped \in Nat /\ seq \in Nat /\ Sent \in Nat
  BY <1>1, CloudFacts
<1>10. /\ p.rest \in Seq(Nat) /\ UpTo(p.rest, seq) /\ p.dropped \in Nat /\ Len(p.rest) <= BacklogCap
       /\ n + p.dropped + Len(p.rest) <= seq
       /\ lost = {} => n + p.dropped + Len(p.rest) = seq /\ (p.dropped # 0 => p.rest # <<>>)
       /\ ToSet(backlog) \subseteq {n} \cup ToSet(p.rest)
  <2>1. backlog \in Seq(Nat) /\ UpTo(backlog, seq)
    BY <1>1, CloudFacts
  <2>2. CASE backlog # <<>> /\ Head(backlog) = n
    <3>1. p.rest = Tail(backlog) /\ p.dropped = dropped
      BY <2>2 DEF Popped
    <3>2. /\ Tail(backlog) \in Seq(Nat) /\ UpTo(Tail(backlog), seq) /\ Len(Tail(backlog)) = l - 1
          /\ ToSet(backlog) = {n} \cup ToSet(Tail(backlog)) /\ n + l = seq + 1 /\ l # 0
      BY <1>7, <1>9, <2>1, <2>2, TailOf, UpToTail
    <3>3. dropped = 0 /\ n + dropped + (l - 1) = seq
      BY <1>4, <1>8, <1>9, <3>2
    <3>4. l - 1 <= BacklogCap
      BY <1>7, CloudLogAssumption
    <3> HIDE DEF p
    <3> QED BY <1>9, <3>1, <3>2, <3>3, <3>4
  <2>3. CASE ~(backlog # <<>> /\ Head(backlog) = n)
    <3>1. p.rest = backlog /\ p.dropped = IF dropped > 0 THEN dropped - 1 ELSE 0
      BY <2>3 DEF Popped
    <3>2. n + l # seq + 1
      <4>1. CASE backlog = <<>>
        <5>1. l = 0
          BY <1>7, <4>1
        <5> QED BY <1>3, <1>4, <1>9, <5>1
      <4>2. CASE backlog # <<>>
        <5>1. Head(backlog) + l = seq + 1 /\ Head(backlog) \in Nat
          BY <1>7, <1>9, <2>1, <4>2, TailOf, UpToTail
        <5> QED BY <1>3, <1>9, <2>3, <4>2, <5>1
      <4> QED BY <4>1, <4>2
    <3>3. PICK d \in Nat : d = IF dropped > 0 THEN dropped - 1 ELSE 0
      BY <1>9
    <3>4. n + d + l <= seq /\ (lost = {} => n + d + l = seq /\ dropped # 0)
      BY <1>3, <1>4, <1>8, <1>9, <3>2, <3>3
    <3> HIDE DEF p
    <3>5. lost = {} => backlog # <<>>
      BY <1>8, <3>4
    <3> QED BY <1>7, <2>1, <3>1, <3>3, <3>4, <3>5
  <2> QED BY <2>2, <2>3
<1> HIDE DEF p
<1>11. /\ batch' \in [at : {"add", "mark"}, lines : Seq(Nat), dropped : Nat, next : Nat]
       /\ batch'.at = "add" /\ batch'.lines = w /\ batch'.dropped = batch.dropped /\ Filling'
       /\ batch'.next = 0 \/ (batch'.next = n + 1 /\ p.rest # <<>> /\ Head(p.rest) = n + 1)
  <2> DEFINE x == IF p.rest # <<>> /\ Head(p.rest) = n + 1 THEN n + 1 ELSE 0
  <2>1. x \in Nat /\ (x = 0 \/ (x = n + 1 /\ p.rest # <<>> /\ Head(p.rest) = n + 1))
    BY <1>3
  <2>2. batch' = [batch EXCEPT !.lines = w, !.next = x]
    BY <1>2, <1>3, <1>5
  <2> HIDE DEF x
  <2>3. /\ batch' \in [at : {"add", "mark"}, lines : Seq(Nat), dropped : Nat, next : Nat]
        /\ batch'.at = batch.at /\ batch'.lines = w /\ batch'.dropped = batch.dropped /\ batch'.next = x
    BY <1>3, <2>1, <2>2
  <2> QED BY <1>2, <2>1, <2>3 DEF Filling
<1>12. Sent' = Sent /\ Reached' = n /\ BatchHas = ToSet(batch.lines) /\ BatchHas' = ToSet(w)
  BY <1>2, <1>5, <1>11 DEF Sent, Reached, BatchHas
<1>13. CloudTypes'
  BY <1>1, <1>2, <1>10, <1>11 DEF SendInv, CloudTypes
<1>14. BacklogInv'
  BY <1>2, <1>3, <1>10, <1>12 DEF BacklogInv
<1>15. BatchInv'
  <2>1. p.rest # <<>> => Head(p.rest) <= seq
    <3>1. ASSUME p.rest # <<>> PROVE Head(p.rest) <= seq
      <4>1. Head(p.rest) \in ToSet(p.rest)
        BY <1>10, <3>1, TailOf
      <4> QED BY <1>9, <1>10, <4>1, UpToAre
    <3> QED BY <3>1
  <2>2. PICK k \in Nat : k = Len(batch.lines)
    BY <1>3
  <2>3. Sent + 1 + batch.dropped + (k + 1) <= n + 1 /\ (lost = {} => Sent + 1 + batch.dropped + (k + 1) = n + 1)
    BY <1>3, <1>4, <1>9, <2>2
  <2>4. /\ Sent' + 1 + batch'.dropped + Len(batch'.lines) <= Reached' + 1
        /\ lost' = {} => Sent' + 1 + batch'.dropped + Len(batch'.lines) = Reached' + 1
    BY <1>2, <1>5, <1>11, <1>12, <2>2, <2>3
  <2>5. UpTo(batch'.lines, Reached') /\ batch'.lines # <<>>
    BY <1>5, <1>6, <1>11, <1>12
  <2>6. batch'.next = 0 \/ (batch'.next = Reached' + 1 /\ batch'.next <= seq')
    BY <1>2, <1>11, <1>12, <2>1
  <2> QED BY <1>11, <2>4, <2>5, <2>6 DEF BatchInv
<1>16. LinesInv' /\ TailTellsTheRest'
  BY <1>1, <1>2, <1>11, <1>12 DEF LinesInv, Filling, TailTellsTheRest, Reported
<1>17. YoungInv'
  BY <1>1, <1>2, <1>5, <1>10, <1>12 DEF YoungInv
<1> QED BY <1>1, <1>2, <1>12, <1>13, <1>14, <1>15, <1>16, <1>17 DEF CloudInv, SendInv, LastGot

LEMMA PublishKeeps == ASSUME CloudInv, Publish PROVE CloudInv'
<1>1. SendInv /\ LinesInv /\ YoungInv /\ TailTellsTheRest
  BY DEF CloudInv
<1>2. /\ Filling /\ batch.lines # <<>> /\ UNCHANGED <<seq, backlog, dropped, tail, lost, prev, past>>
      /\ got' = got \cup ToSet(batch.lines) /\ batch' = [batch EXCEPT !.at = "mark"]
  BY DEF Publish, Filling, found
<1>3. /\ batch \in [at : {"add", "mark"}, lines : Seq(Nat), dropped : Nat, next : Nat]
      /\ batch.lines \in Seq(Nat) /\ batch.dropped \in Nat
  BY <1>1, <1>2 DEF SendInv, CloudTypes, Filling, NoBatch
<1>4. /\ batch' \in [at : {"add", "mark"}, lines : Seq(Nat), dropped : Nat, next : Nat]
      /\ batch'.at = "mark" /\ batch'.lines = batch.lines /\ ~Filling'
  BY <1>2, <1>3 DEF Filling
<1>5. Reached = Last(batch.lines) /\ BatchHas = ToSet(batch.lines)
  BY <1>2 DEF Reached, BatchHas
<1>6. PICK s \in Nat, e \in Nat, q \in Nat : s = Sent /\ e = Reached /\ q = seq /\ s <= e /\ e <= q
  <2>1. \A d, l \in Nat : Reached + d + l <= seq => Reached <= seq
    BY <1>1, CloudFacts
  <2> QED BY <1>1, <2>1, CloudFacts
<1>7. UpTo(batch.lines, e) /\ s + 1 + batch.dropped + Len(batch.lines) <= e + 1
  BY <1>1, <1>2, <1>6 DEF SendInv, BatchInv
<1>8. \A m \in ToSet(batch.lines) : m \in Nat /\ m <= e /\ m > s
  <2>1. \A m \in ToSet(batch.lines) : m \in Nat /\ m <= e /\ m + Len(batch.lines) > e
    BY <1>3, <1>7, UpToAre
  <2>2. Len(batch.lines) \in Nat /\ s + Len(batch.lines) <= e
    BY <1>3, <1>7
  <2> QED BY <2>1, <2>2
<1>9. got \in SUBSET Nat /\ got \subseteq 1..q /\ \A m \in got : m <= s
  BY <1>1, <1>6 DEF SendInv, CloudTypes, LastGot
<1>10. e \in got' /\ got' \in SUBSET Nat /\ got' \subseteq 1..q /\ \A m \in got' : m <= e
  <2>1. e \in ToSet(batch.lines)
    <3>1. Last(batch.lines) = batch.lines[Len(batch.lines)] /\ Len(batch.lines) \in 1..Len(batch.lines)
      BY <1>2, <1>3, TailOf
    <3> QED BY <1>5, <1>6, <3>1 DEF ToSet
  <2>2. \A m \in got : m \in Nat /\ m <= e
    BY <1>6, <1>9
  <2>3. \A m \in ToSet(batch.lines) : m \in 1..q
    BY <1>6, <1>8
  <2> QED BY <1>2, <1>8, <1>9, <2>1, <2>2, <2>3
<1>11. Sent' = e
  <2>1. (CHOOSE n \in got' : \A m \in got' : m <= n) = e
    BY <1>10, Highest
  <2> QED BY <1>10, <2>1 DEF Sent
<1>12. Reached' = e /\ BatchHas' = {} /\ LastGot(Sent)'
  BY <1>4, <1>6, <1>10, <1>11 DEF Reached, BatchHas, LastGot
<1>13. CloudTypes'
  BY <1>1, <1>2, <1>4, <1>6, <1>10 DEF SendInv, CloudTypes
<1>14. BacklogInv' /\ BatchInv'
  <2>1. BacklogInv'
    BY <1>1, <1>2, <1>6, <1>12 DEF SendInv, BacklogInv
  <2>2. batch'.lines # <<>> /\ Last(batch'.lines) = Sent'
    BY <1>2, <1>4, <1>5, <1>6, <1>11
  <2> QED BY <1>4, <2>1, <2>2 DEF BatchInv
<1>15. LinesInv'
  <2>1. tail.sent \in Nat /\ tail.sent <= s
    BY <1>1, <1>6 DEF SendInv, CloudTypes, LinesInv
  <2>2. tail.sent <= e
    BY <1>6, <2>1
  <2> QED BY <1>1, <1>2, <1>4, <1>11, <2>2 DEF LinesInv
<1>16. YoungInv' /\ TailTellsTheRest'
  BY <1>1, <1>2, <1>5 DEF YoungInv, TailTellsTheRest, Reported
<1> QED BY <1>12, <1>13, <1>14, <1>15, <1>16 DEF CloudInv, SendInv

LEMMA MarkSentKeeps == ASSUME CloudInv, MarkSent PROVE CloudInv'
<1>1. SendInv /\ LinesInv /\ YoungInv /\ TailTellsTheRest
  BY DEF CloudInv
<1>2. /\ batch.at = "mark" /\ UNCHANGED <<seq, backlog, dropped, got, lost, prev, past>>
      /\ tail' = [tail EXCEPT !.sent = Last(batch.lines)] /\ batch' = NoBatch
  BY DEF MarkSent, found
<1>3. Last(batch.lines) = Sent /\ Sent \in Nat
  BY <1>1, <1>2, CloudFacts DEF SendInv, BatchInv
<1>4. ~Filling /\ ~Filling' /\ batch'.at = "none"
  BY <1>2 DEF Filling, NoBatch
<1>5. Sent' = Sent /\ Reached = Sent /\ Reached' = Sent /\ BatchHas = {} /\ BatchHas' = {}
  BY <1>2, <1>4 DEF Sent, Reached, BatchHas
<1>6. /\ tail' \in [ok : {TRUE}, lines : Seq(Nat), sent : Nat] /\ tail'.sent = Sent
      /\ tail'.lines = tail.lines
  <2>1. tail \in [ok : {TRUE}, lines : Seq(Nat), sent : Nat]
    BY <1>1 DEF SendInv, CloudTypes
  <2> QED BY <1>2, <1>3, <2>1
<1>7. CloudTypes' /\ LastGot(Sent)'
  BY <1>1, <1>2, <1>5, <1>6 DEF SendInv, CloudTypes, LastGot
<1>8. BacklogInv' /\ BatchInv'
  BY <1>1, <1>2, <1>4, <1>5 DEF SendInv, BacklogInv, BatchInv
<1>9. LinesInv'
  BY <1>1, <1>2, <1>3, <1>5, <1>6 DEF LinesInv
<1>10. YoungInv' /\ TailTellsTheRest'
  BY <1>1, <1>2, <1>5 DEF YoungInv, TailTellsTheRest, Reported
<1> QED BY <1>7, <1>8, <1>9, <1>10 DEF CloudInv, SendInv

\* What a reset leaves: what the next run finds was young when it was written.
LEMMA NextRunKeeps ==
    ASSUME CloudInv, NEW b \in TornPush \cup {Garbage}, NextRun(b)
    PROVE  CloudInv'
<1>1. SendInv /\ LinesInv /\ YoungInv /\ TailTellsTheRest
  BY DEF CloudInv
<1>2. /\ prev' = b /\ past' = IF b.ok THEN [got |-> got, lost |-> lost, unmarked |-> batch.at = "mark"] ELSE NoPast
      /\ tail' = Empty /\ seq' = 0 /\ backlog' = <<>> /\ dropped' = 0 /\ batch' = NoBatch
      /\ got' = {} /\ lost' = {}
  BY DEF NextRun
<1>3. ~Filling' /\ batch'.at = "none" /\ Sent' = 0 /\ Reached' = 0
  BY <1>2 DEF Filling, NoBatch, Sent, Reached
<1>4. <<>> \in Seq(Nat) /\ Len(<<>>) = 0
  OBVIOUS
<1>5. /\ tail' \in [ok : {TRUE}, lines : Seq(Nat), sent : Nat] /\ tail'.lines = <<>> /\ tail'.sent = 0
  BY <1>2, <1>4 DEF Empty
<1>6. SendInv'
  <2>1. CloudTypes'
    <3>1. 0 <= BacklogCap
      BY CloudLogAssumption
    <3>2. backlog' \in Seq(Nat) /\ Len(backlog') <= BacklogCap
      BY <1>2, <1>4, <3>1, Zenon
    <3> QED BY <1>2, <1>5, <3>2 DEF CloudTypes
  <2>2. LastGot(Sent)'
    BY <1>2, <1>3 DEF LastGot
  <2>3. BacklogInv'
    BY <1>2, <1>3, <1>4, UpToNone DEF BacklogInv
  <2>4. BatchInv'
    BY <1>3 DEF BatchInv
  <2> QED BY <2>1, <2>2, <2>3, <2>4 DEF SendInv
<1>7. LinesInv'
  <2>1. LinesFit(<<>>, 0)
    BY CloudLogAssumption DEF LinesFit
  <2> QED BY <1>2, <1>3, <1>5, <2>1 DEF LinesInv
<1>8. YoungInv'
  BY <1>2 DEF YoungInv
<1>9. TailTellsTheRest'
  <2>1. CASE b = Garbage
    <3>1. b.lines = <<>> /\ ToSet(<<>>) = {}
      BY <2>1 DEF Garbage, ToSet
    <3> QED BY <1>2, <3>1 DEF TailTellsTheRest, Reported
  <2>2. CASE b # Garbage
    <3>1. tail \in [ok : {TRUE}, lines : Seq(Nat), sent : Nat]
      BY <1>1 DEF SendInv, CloudTypes
    <3>2. b.ok = TRUE /\ b.sent = tail.sent /\ ToSet(b.lines) \subseteq ToSet(tail.lines)
      <4>1. CASE b = tail
        BY <3>1, <4>1
      <4>2. CASE Len(tail.lines) = TailCap /\ b = [tail EXCEPT !.lines = Tail(@)]
        <5>1. tail.lines # <<>>
          BY <3>1, <4>2, CloudLogAssumption
        <5> QED BY <3>1, <4>2, <5>1, TailOf
      <4> QED BY <2>2, <4>1, <4>2 DEF TornPush
    <3>3. past'.got = got /\ past'.lost = lost /\ past'.unmarked = (batch.at = "mark")
      BY <1>2, <3>2
    <3>4. PICK s \in Nat, t \in Nat, q \in Nat :
             s = Sent /\ t = tail.sent /\ q = seq /\ t <= s /\ (batch.at # "mark" => t = s)
      BY <1>1, <3>1, CloudFacts DEF LinesInv
    <3>5. \A m \in got : m \in Nat /\ m # 0 /\ m <= s
      BY <1>1, <3>4 DEF SendInv, CloudTypes, LastGot
    <3>6. ASSUME NEW n \in ToSet(b.lines), n \in 1..t PROVE n \in got \cup lost
      <4>1. PICK i \in 1..Len(tail.lines) : tail.lines[i] = n
        <5>1. n \in ToSet(tail.lines) /\ tail.lines \in Seq(Nat)
          BY <3>1, <3>2, <3>6
        <5> QED BY <5>1 DEF ToSet
      <4>2. n <= q /\ q + i <= Len(tail.lines) + n /\ Len(tail.lines) <= TailCap /\ Len(tail.lines) \in Nat
        BY <1>1, <3>1, <3>4, <3>6, <4>1 DEF LinesInv, LinesFit
      <4>3. TailCap \in Nat /\ BacklogCap \in Nat /\ TailCap <= BacklogCap
        BY CloudLogAssumption
      <4>4. n \in 1..q /\ n + BacklogCap > q
        BY <3>4, <3>6, <4>1, <4>2, <4>3
      <4>5. n \in got \cup lost \cup ToSet(backlog) \cup BatchHas
        BY <1>1, <3>4, <4>4 DEF YoungInv
      <4>6. n <= s
        BY <3>4, <3>6
      <4>7. n \notin ToSet(backlog)
        <5>1. \A m \in ToSet(backlog) : m \in Nat /\ m + Len(backlog) > q
          BY <1>1, <3>4, UpToAre, CloudFacts
        <5>2. PICK e, d, l \in Nat : e + d + l <= q /\ s <= e /\ l = Len(backlog)
          BY <1>1, <3>4, CloudFacts
        <5> QED BY <3>4, <3>6, <4>6, <5>1, <5>2
      <4>8. n \notin BatchHas
        <5>1. CASE Filling
          <6>1. PICK e, d, l \in Nat : /\ s + 1 + d + l <= e + 1 /\ l = Len(batch.lines) /\ e = Reached
                                        /\ UpTo(batch.lines, e) /\ batch.lines \in Seq(Nat)
            BY <1>1, <3>4, <5>1, CloudFacts DEF SendInv, BatchInv, Filling
          <6>2. \A m \in ToSet(batch.lines) : m \in Nat /\ m + l > e
            BY <6>1, UpToAre
          <6> QED BY <3>4, <3>6, <4>6, <6>1, <6>2 DEF BatchHas
        <5> QED BY <5>1 DEF BatchHas
      <4> QED BY <4>5, <4>7, <4>8
    <3>7. ASSUME batch.at # "mark", NEW n \in got, n = 0 \/ n > t PROVE FALSE
      BY <3>4, <3>5, <3>7
    <3>8. \A n \in ToSet(prev'.lines) : n \in 1..prev'.sent => n \in past'.got \cup past'.lost
      BY <1>2, <3>2, <3>3, <3>4, <3>6
    <3>9. ~past'.unmarked => Reported' \cap past'.got = {}
      BY <1>2, <3>2, <3>3, <3>4, <3>7 DEF Reported
    <3> QED BY <3>8, <3>9 DEF TailTellsTheRest
  <2> QED BY <2>1, <2>2
<1> QED BY <1>6, <1>7, <1>8, <1>9 DEF CloudInv

LEMMA CloudInvStep == CloudInv /\ [LogNext]_logVars => CloudInv'
<1> SUFFICES ASSUME CloudInv, [LogNext]_logVars PROVE CloudInv'
  OBVIOUS
<1>1. CASE \E wanted \in BOOLEAN : Capture(wanted)
  BY <1>1, CaptureKeeps
<1>2. CASE UNCHANGED <<seq, backlog, dropped, tail, batch, got, lost>>
           /\ (UNCHANGED <<prev, past>> \/ (prev' = Garbage /\ past' = NoPast))
  <2>1. Sent' = Sent /\ BatchHas' = BatchHas /\ Filling' = Filling /\ Reached' = Reached
    BY <1>2 DEF Sent, BatchHas, Filling, Reached
  <2>2. SendInv' /\ LinesInv' /\ YoungInv'
    BY <1>2, <2>1 DEF CloudInv, SendInv, CloudTypes, LastGot, BacklogInv, BatchInv, LinesInv, YoungInv
  <2>3. TailTellsTheRest'
    <3>1. CASE UNCHANGED <<prev, past>>
      BY <3>1 DEF CloudInv, TailTellsTheRest, Reported
    <3>2. CASE prev' = Garbage
      <4>1. prev'.lines = <<>> /\ ToSet(<<>>) = {}
        BY <3>2 DEF Garbage, ToSet
      <4> QED BY <4>1 DEF TailTellsTheRest, Reported
    <3> QED BY <1>2, <3>1, <3>2
  <2> QED BY <2>2, <2>3 DEF CloudInv
<1>3. CASE SwitchOn \/ SendTail \/ UNCHANGED logVars
  BY <1>2, <1>3 DEF SwitchOn, SendTail, logVars, found
<1>4. CASE Clear
  BY <1>4, ClearKeeps
<1>5. CASE BeginBatch \/ AddLine
  BY <1>5, BeginBatchKeeps, AddLineKeeps
<1>6. CASE Publish \/ MarkSent
  BY <1>6, PublishKeeps, MarkSentKeeps
<1>7. CASE Reset \/ PowerCut
  BY <1>7, NextRunKeeps DEF Reset, PowerCut
<1> QED BY <1>1, <1>3, <1>4, <1>5, <1>6, <1>7 DEF LogNext

\* The cloud is told every line or how many it missed, and after a reset the rest, for any
\* size of the backlog and of the tail and whatever the hook drops meanwhile, as long as the
\* backlog holds no less than the tail (send_batch, tail_json).
THEOREM EveryLineOrItsLoss == LogSpec => []EveryLineIsTold
<1>1. LogInit => CloudInv
  <2> SUFFICES ASSUME LogInit PROVE CloudInv
    OBVIOUS
  <2>1. /\ seq = 0 /\ backlog = <<>> /\ dropped = 0 /\ tail = Empty /\ prev = Garbage
        /\ batch = NoBatch /\ got = {} /\ lost = {}
    BY DEF LogInit
  <2>2. ~Filling /\ batch.at = "none" /\ Sent = 0 /\ Reached = 0
    BY <2>1 DEF Filling, NoBatch, Sent, Reached
  <2>3. <<>> \in Seq(Nat) /\ Len(<<>>) = 0 /\ ToSet(<<>>) = {}
    BY DEF ToSet
  <2>4. /\ tail \in [ok : {TRUE}, lines : Seq(Nat), sent : Nat] /\ tail.lines = <<>> /\ tail.sent = 0
    BY <2>1, <2>3 DEF Empty
  <2>5. CloudTypes /\ LastGot(Sent)
    <3>1. 0 <= BacklogCap
      BY CloudLogAssumption
    <3>2. backlog \in Seq(Nat) /\ Len(backlog) <= BacklogCap
      BY <2>1, <2>3, <3>1, Zenon
    <3> QED BY <2>1, <2>2, <2>4, <3>2 DEF CloudTypes, LastGot
  <2>6. BacklogInv /\ BatchInv
    BY <2>1, <2>2, <2>3, UpToNone DEF BacklogInv, BatchInv
  <2>7. LinesFit(<<>>, 0)
    BY CloudLogAssumption DEF LinesFit
  <2>8. LinesInv /\ YoungInv
    BY <2>1, <2>2, <2>4, <2>7 DEF LinesInv, YoungInv
  <2>9. TailTellsTheRest
    BY <2>1, <2>3 DEF TailTellsTheRest, Reported, Garbage
  <2> QED BY <2>5, <2>6, <2>8, <2>9 DEF CloudInv, SendInv
<1>2. CloudInv => EveryLineIsTold
  <2> SUFFICES ASSUME CloudInv PROVE GapIsTold /\ NumbersAddUp /\ TailTellsTheRest
    BY DEF EveryLineIsTold
  <2>1. SendInv /\ TailTellsTheRest
    BY DEF CloudInv
  <2>2. GapIsTold
    <3> SUFFICES ASSUME Filling PROVE
          LET gap == (IF batch.lines = <<>> THEN batch.next ELSE Head(batch.lines)) - Sent - 1
          IN  /\ \A k \in 1..Len(batch.lines) : batch.lines[k] = Head(batch.lines) + k - 1
              /\ gap >= batch.dropped
              /\ lost = {} => gap = batch.dropped
      BY DEF GapIsTold, Filling
    <3>1. batch.lines \in Seq(Nat)
      BY <2>1, CloudFacts DEF Filling
    <3>2. PICK s, e, d, l \in Nat :
             /\ s = Sent /\ e = Reached /\ d = batch.dropped /\ l = Len(batch.lines)
             /\ UpTo(batch.lines, e) /\ s + 1 + d + l <= e + 1 /\ (lost = {} => s + 1 + d + l = e + 1)
             /\ (batch.next = 0 \/ batch.next = e + 1) /\ (batch.lines = <<>> => batch.next # 0)
      BY <2>1, CloudFacts DEF SendInv, BatchInv, Filling
    <3>3. PICK h \in Nat : /\ h = (IF batch.lines = <<>> THEN batch.next ELSE Head(batch.lines))
                          /\ h + l = e + 1
      <4>1. CASE batch.lines = <<>>
        <5>1. l = 0
          BY <3>2, <4>1
        <5> QED BY <3>2, <4>1, <5>1
      <4>2. CASE batch.lines # <<>>
        BY <3>1, <3>2, <4>2, TailOf, UpToTail
      <4> QED BY <4>1, <4>2
    <3>4. (h - s) - 1 >= d /\ (lost = {} => (h - s) - 1 = d)
      <4>1. /\ {s, e, d, l, h} \subseteq Nat /\ h + l = e + 1 /\ s + 1 + d + l <= e + 1
            /\ lost = {} => s + 1 + d + l = e + 1
        BY <3>2, <3>3
      <4> QED BY <4>1
    <3>5. ASSUME NEW k \in 1..l PROVE batch.lines[k] = h + (k - 1) /\ h = Head(batch.lines)
      <4>1. batch.lines # <<>>
        <5>1. l # 0
          BY <3>5
        <5> QED BY <3>2, <5>1
      <4>2. l = Len(batch.lines) /\ UpTo(batch.lines, e)
        BY <3>2
      <4>3. batch.lines[k] + l = e + k /\ batch.lines[k] \in Nat
        BY <3>1, <3>5, <4>2 DEF UpTo
      <4>4. \A x \in Nat : x + l = e + k => x = h + (k - 1)
        <5>1. k \in Nat /\ h \in Nat /\ e \in Nat /\ l \in Nat /\ h + l = e + 1
          BY <3>2, <3>3, <3>5
        <5> QED BY <5>1
      <4>5. h = Head(batch.lines)
        BY <3>3, <4>1
      <4> QED BY <4>3, <4>4, <4>5, Zenon
    <3> QED BY <3>2, <3>3, <3>4, <3>5, Zenon
  <2>3. NumbersAddUp
    <3> SUFFICES ASSUME batch = NoBatch, lost = {} PROVE seq = Sent + dropped + Len(backlog)
      BY DEF NumbersAddUp
    <3>1. ~Filling
      BY DEF Filling, NoBatch
    <3>2. Reached + dropped + Len(backlog) = seq /\ Reached = Sent
      BY <2>1, <3>1, CloudFacts DEF SendInv, BacklogInv
    <3> QED BY <3>2
  <2> QED BY <2>1, <2>2, <2>3
<1> QED BY <1>1, <1>2, CloudInvStep, PTL DEF LogSpec

=============================================================================
