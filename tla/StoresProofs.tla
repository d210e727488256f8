---------------------------- MODULE StoresProofs ----------------------------
(* Proofs about what the hub keeps in flash: device groups, device options,    *)
(* the mirror of the devices' group tables and the coordinator's address, for  *)
(* any number of devices, groups, tasks, power cuts and failing writes.        *)
EXTENDS Groups, Options, Mirror, Coordinator, TLAPS

-----------------------------------------------------------------------------
(* Device groups.                                                            *)

\* What the writes still to come are: of a save or of a delete, in their order.  While a
\* create runs its slot is unmarked; nothing is promised of the slot of an update or delete.
OpInv ==
    op # Free =>
        /\ op.cmd \in {"create", "update"} =>
               \/ \E v \in Content : todo = grp_save(v)
               \/ todo = <<SetBit(TRUE)>> /\ rec[op.id] # NoRec
        /\ op.cmd = "delete" =>
               \/ todo = grp_delete
               \/ todo = <<SetRec(NoRec)>> /\ op.id \notin bmp
        /\ op.cmd = "create" => op.id \notin bmp
        /\ op.cmd # "create" => said[op.id] = Unsure

GroupTypes ==
    /\ bmp \subseteq Id
    /\ rec \in [Id -> Content \cup {NoRec}]
    /\ said \in [Id -> Content \cup {NoRec, Unsure}]
    /\ op = Free \/ op \in [by : Caller, cmd : Command, id : Id]
    /\ found \in [Caller -> [id : Id, content : Content] \cup {Nothing}]

GroupInv == GroupTypes /\ OpInv /\ PromisedIsListed

LEMMA GroupInvInit == GrpInit => GroupInv
  BY GroupsAssumption
     DEF GrpInit, GroupInv, GroupTypes, OpInv, PromisedIsListed, NoSlotLost, Listed, Free, Nothing

LEMMA LockStep ==
    ASSUME NEW c \in Caller, NEW cmd \in Command, NEW i \in Id, NEW writes, Lock(c, cmd, i, writes)
    PROVE  /\ op = Free /\ op' # Free /\ op' \in [by : Caller, cmd : Command, id : Id]
           /\ op'.id = i /\ op'.cmd = cmd
           /\ todo' = writes /\ bmp' = bmp /\ rec' = rec
  BY GroupsAssumption DEF Lock, Free, Id, Command

\* A step that leaves the flash alone and withdraws promises at most keeps them.
LEMMA PromiseFrame ==
    ASSUME GroupInv, UNCHANGED <<bmp, rec>>,
           said' = said \/ \E i \in Id : said' = [said EXCEPT ![i] = Unsure]
    PROVE  PromisedIsListed' /\ said' \in [Id -> Content \cup {NoRec, Unsure}]
  BY DEF GroupInv, GroupTypes, PromisedIsListed, NoSlotLost, Listed

\* What one write of either kind does.
LEMMA WriteRec ==
    ASSUME Write, NEW v, Head(todo) = SetRec(v)
    PROVE  /\ bmp' = bmp /\ rec' = [rec EXCEPT ![op.id] = v]
           /\ todo' = Tail(todo) /\ found' = found
           /\ Len(todo) > 1 => op' = op /\ said' = said
           /\ ~(Len(todo) > 1) => op' = Free /\ said' = [said EXCEPT ![op.id] = rec'[op.id]]
<1>1. Head(todo).key = "rec" /\ Head(todo).to = v
  BY DEF SetRec
<1> QED
  BY <1>1 DEF Write

LEMMA WriteMark ==
    ASSUME Write, Head(todo) = SetBit(TRUE)
    PROVE  /\ bmp' = bmp \cup {op.id} /\ rec' = rec /\ todo' = Tail(todo) /\ found' = found
           /\ Len(todo) > 1 => op' = op /\ said' = said
           /\ ~(Len(todo) > 1) => op' = Free /\ said' = [said EXCEPT ![op.id] = rec'[op.id]]
<1>1. Head(todo).key = "bmp" /\ Head(todo).to = TRUE
  BY DEF SetBit
<1> QED
  BY <1>1 DEF Write

LEMMA WriteUnmark ==
    ASSUME Write, Head(todo) = SetBit(FALSE)
    PROVE  /\ bmp' = bmp \ {op.id} /\ rec' = rec /\ todo' = Tail(todo) /\ found' = found
           /\ Len(todo) > 1 => op' = op /\ said' = said
           /\ ~(Len(todo) > 1) => op' = Free /\ said' = [said EXCEPT ![op.id] = rec'[op.id]]
<1>1. Head(todo).key = "bmp" /\ Head(todo).to = FALSE
  BY DEF SetBit
<1> QED
  BY <1>1 DEF Write

LEMMA TwoWrites ==
    ASSUME NEW first, NEW second
    PROVE  /\ Head(<<first, second>>) = first /\ Tail(<<first, second>>) = <<second>>
           /\ Len(<<first, second>>) > 1
  OBVIOUS

LEMMA GroupInvStep == GroupInv /\ [GrpNext]_grpVars => GroupInv'
<1> SUFFICES ASSUME GroupInv, [GrpNext]_grpVars PROVE GroupInv'
  OBVIOUS
<1> USE GroupsAssumption DEF GroupTypes
<1>0. GroupTypes /\ OpInv /\ PromisedIsListed
  BY DEF GroupInv
<1>1. ASSUME NEW c \in Caller, NEW v \in Content, Create(c, v) PROVE GroupInv'
  <2>1. PICK i \in Id : i \notin bmp /\ Lock(c, "create", i, grp_save(v))
    BY <1>1 DEF Create, grp_next_id
  <2>2. "create" \in Command
    BY DEF Command
  <2>3. /\ op' \in [by : Caller, cmd : Command, id : Id] /\ op'.id = i /\ op'.cmd = "create"
        /\ todo' = grp_save(v) /\ bmp' = bmp /\ rec' = rec
    BY <2>1, <2>2, LockStep
  <2>4. OpInv'
    BY <2>1, <2>3 DEF OpInv
  <2>5. PromisedIsListed' /\ GroupTypes'
    BY <1>0, <1>1, <2>3, PromiseFrame DEF Create
  <2> QED
    BY <2>4, <2>5 DEF GroupInv
<1>2. ASSUME NEW c \in Caller, NEW v \in Content, NEW i \in Id, UpdateFind(c, i, v)
      PROVE  GroupInv'
  <2>1. OpInv' /\ PromisedIsListed'
    BY <1>0, <1>2, PromiseFrame DEF UpdateFind, OpInv
  <2>2. GroupTypes'
    BY <1>0, <1>2 DEF UpdateFind
  <2> QED
    BY <2>1, <2>2 DEF GroupInv
<1>3. ASSUME NEW c \in Caller, UpdateSave(c) PROVE GroupInv'
  <2>1. found[c].id \in Id /\ found[c].content \in Content
    BY <1>0, <1>3 DEF UpdateSave
  <2>2. "update" \in Command
    BY DEF Command
  <2>3. /\ op' \in [by : Caller, cmd : Command, id : Id] /\ op'.id = found[c].id /\ op'.cmd = "update"
        /\ todo' = grp_save(found[c].content) /\ bmp' = bmp /\ rec' = rec
    BY <1>3, <2>1, <2>2, LockStep DEF UpdateSave
  <2>4. said' = [said EXCEPT ![found[c].id] = Unsure]
    BY <1>3 DEF UpdateSave
  <2>5. OpInv'
    BY <1>0, <2>1, <2>3, <2>4 DEF OpInv
  <2>6. PromisedIsListed' /\ said' \in [Id -> Content \cup {NoRec, Unsure}]
    BY <2>1, <2>3, <2>4, PromiseFrame
  <2>7. GroupTypes'
    BY <1>0, <1>3, <2>3, <2>6 DEF UpdateSave
  <2> QED
    BY <2>5, <2>6, <2>7 DEF GroupInv
<1>4. ASSUME NEW c \in Caller, NEW i \in Id, Delete(c, i) PROVE GroupInv'
  <2>1. "delete" \in Command
    BY DEF Command
  <2>2. /\ op' \in [by : Caller, cmd : Command, id : Id] /\ op'.id = i /\ op'.cmd = "delete"
        /\ todo' = grp_delete /\ bmp' = bmp /\ rec' = rec
    BY <1>4, <2>1, LockStep DEF Delete
  <2>3. said' = [said EXCEPT ![i] = Unsure] /\ found' = found
    BY <1>4 DEF Delete
  <2>4. OpInv'
    BY <1>0, <2>2, <2>3 DEF OpInv
  <2>5. PromisedIsListed' /\ said' \in [Id -> Content \cup {NoRec, Unsure}]
    BY <2>2, <2>3, PromiseFrame
  <2> QED
    BY <1>0, <2>2, <2>3, <2>4, <2>5 DEF GroupInv
<1>5. CASE Write
  <2>0. op \in [by : Caller, cmd : Command, id : Id] /\ op # Free /\ op.id \in Id
    BY <1>0, <1>5 DEF Write
  <2>1. ASSUME NEW v \in Content, op.cmd # "delete", todo = grp_save(v) PROVE GroupInv'
    <3>1. Head(todo) = SetRec(v) /\ Tail(todo) = <<SetBit(TRUE)>> /\ Len(todo) > 1
      BY <2>1, TwoWrites DEF grp_save
    <3>2. /\ bmp' = bmp /\ rec' = [rec EXCEPT ![op.id] = v]
          /\ todo' = <<SetBit(TRUE)>> /\ op' = op /\ said' = said /\ found' = found
      BY <1>5, <3>1, WriteRec
    <3>3. OpInv' /\ GroupTypes'
      BY <1>0, <2>0, <2>1, <3>2 DEF OpInv
    <3>4. op.cmd = "create" \/ op.cmd = "update"
      BY <2>0, <2>1 DEF Command
    <3>5. op.id \notin bmp \/ said[op.id] = Unsure
      BY <1>0, <2>0, <3>4 DEF OpInv
    <3>6. PromisedIsListed'
      BY <1>0, <2>0, <3>2, <3>5 DEF PromisedIsListed, NoSlotLost, Listed
    <3> QED
      BY <3>3, <3>6 DEF GroupInv
  <2>2. CASE op.cmd # "delete" /\ todo = <<SetBit(TRUE)>> /\ rec[op.id] # NoRec
    <3>1. Head(todo) = SetBit(TRUE) /\ Tail(todo) = <<>> /\ Len(todo) = 1
      BY <2>2
    <3>2. /\ bmp' = bmp \cup {op.id} /\ rec' = rec /\ op' = Free /\ found' = found
          /\ said' = [said EXCEPT ![op.id] = rec[op.id]]
      BY <1>5, <3>1, WriteMark
    <3>3. OpInv' /\ GroupTypes'
      BY <1>0, <2>0, <3>2 DEF OpInv
    <3>4. PromisedIsListed'
      BY <1>0, <2>0, <2>2, <3>2 DEF PromisedIsListed, NoSlotLost, Listed
    <3> QED
      BY <3>3, <3>4 DEF GroupInv
  <2>3. CASE op.cmd = "delete" /\ todo = grp_delete
    <3>1. Head(todo) = SetBit(FALSE) /\ Tail(todo) = <<SetRec(NoRec)>> /\ Len(todo) > 1
      BY <2>3, TwoWrites DEF grp_delete
    <3>2. /\ bmp' = bmp \ {op.id} /\ rec' = rec
          /\ todo' = <<SetRec(NoRec)>> /\ op' = op /\ said' = said /\ found' = found
      BY <1>5, <3>1, WriteUnmark
    <3>3. said[op.id] = Unsure
      BY <1>0, <2>0, <2>3 DEF OpInv
    <3>4. OpInv' /\ GroupTypes'
      BY <1>0, <2>0, <2>3, <3>2, <3>3 DEF OpInv
    <3>5. PromisedIsListed'
      BY <1>0, <2>0, <3>2, <3>3 DEF PromisedIsListed, NoSlotLost, Listed
    <3> QED
      BY <3>4, <3>5 DEF GroupInv
  <2>4. CASE todo = <<SetRec(NoRec)>> /\ op.id \notin bmp
    <3>1. Head(todo) = SetRec(NoRec) /\ Tail(todo) = <<>> /\ Len(todo) = 1
      BY <2>4
    <3>2. /\ bmp' = bmp /\ rec' = [rec EXCEPT ![op.id] = NoRec] /\ op' = Free /\ found' = found
          /\ said' = [said EXCEPT ![op.id] = rec'[op.id]]
      BY <1>5, <3>1, WriteRec
    <3>3. OpInv' /\ GroupTypes'
      BY <1>0, <2>0, <3>2 DEF OpInv
    <3>4. PromisedIsListed'
      BY <1>0, <2>0, <2>4, <3>2 DEF PromisedIsListed, NoSlotLost, Listed
    <3> QED
      BY <3>3, <3>4 DEF GroupInv
  <2> QED
    BY <1>0, <2>0, <2>1, <2>2, <2>3, <2>4 DEF OpInv, Command
<1>6. CASE WriteFails
  <2>1. OpInv' /\ PromisedIsListed'
    BY <1>6, PromiseFrame DEF WriteFails, OpInv
  <2> QED
    BY <1>0, <1>6, <2>1 DEF WriteFails, GroupInv
<1>7. CASE PowerCut
  <2>1. OpInv' /\ PromisedIsListed'
    BY <1>7, PromiseFrame DEF PowerCut, OpInv
  <2> QED
    BY <1>0, <1>7, <2>1 DEF PowerCut, GroupInv
<1>8. CASE UNCHANGED grpVars
  <2>1. OpInv' /\ PromisedIsListed'
    BY <1>0, <1>8, PromiseFrame DEF grpVars, OpInv
  <2> QED
    BY <1>0, <1>8, <2>1 DEF grpVars, GroupInv
<1> QED
  BY <1>1, <1>2, <1>3, <1>4, <1>5, <1>6, <1>7, <1>8 DEF GrpNext

\* What was answered about a group is what the next list shows, and no slot is lost, for any
\* number of groups and tasks, whichever writes fail and wherever the power is cut
\* (grp_save and grp_delete).
THEOREM GroupsAsPromised == GrpSpec => []PromisedIsListed
<1>1. GroupInv => PromisedIsListed
  BY DEF GroupInv
<1> QED
  BY <1>1, GroupInvInit, GroupInvStep, PTL DEF GrpSpec

-----------------------------------------------------------------------------
(* The options of a device.                                                  *)

OptRequest == {Idle} \cup [at : {"apply", "read", "write"}, dev : Device, opts : Object, base : Object]

OptTypes ==
    /\ pool \subseteq Device /\ leaving \subseteq Device
    /\ shadow \in [Device -> [Effects -> Value \cup {NoOpts}]]
    /\ stored \in [Device -> Object] /\ old \in [Device -> Object] /\ due \in [Device -> Object]
    /\ req \in [Setter -> OptRequest]

\* A request runs on a hub that is up, for a device of the pool, alone: what it read of the
\* record is what the record still is, and from "apply" on the device does what it asks for.
RequestInv ==
    LET r == req["httpd"] IN
    r # Idle =>
        /\ up = "on" /\ leaving = {} /\ r.dev \in pool /\ r.opts # Empty
        /\ r.at = "write" => r.base = stored[r.dev]
        /\ r.at # "apply" =>
              /\ Given(r.opts, "throttle_ms") => shadow[r.dev].throttle = r.opts["throttle_ms"]
              /\ Given(r.opts, "debounce_ms") => shadow[r.dev].debounce = r.opts["debounce_ms"]

\* Nothing is promised for a device that is gone or going, nor, once the hub is up, of a
\* record that the boot could not move.
DueInv ==
    /\ \A d \in Device : d \notin pool \/ d \in leaving => due[d] = Empty
    /\ up \in {"on", "blank"} =>
          \A d \in Device : old[d] # Empty /\ stored[d] = Empty => due[d] = Empty
    /\ up = "no_store" => \A d \in Device : old[d] = Empty

OptInv == OptTypes /\ RequestInv /\ DueInv /\ PromisedOptionKept

LEMMA ObjectNotEmpty == ASSUME NEW o \in Object, o # Empty PROVE \E k \in OptionKey : o[k] # NoOpts
  BY DEF Object, Empty

LEMMA MergeObject ==
    ASSUME NEW b \in Object, NEW o \in Object
    PROVE  /\ Merge(b, o) \in Object
           /\ o # Empty => Merge(b, o) # Empty
           /\ \A k \in OptionKey : Merge(b, o)[k] = IF o[k] # NoOpts THEN o[k] ELSE b[k]
<1>1. Merge(b, o) \in Object /\ \A k \in OptionKey : Merge(b, o)[k] = IF o[k] # NoOpts THEN o[k] ELSE b[k]
  BY DEF Merge, Object
<1>2. ASSUME o # Empty PROVE Merge(b, o) # Empty
  <2>1. PICK k \in OptionKey : o[k] # NoOpts
    BY <1>2, ObjectNotEmpty
  <2>2. Merge(b, o)[k] # NoOpts
    BY <1>1, <2>1
  <2> QED BY <2>1, <2>2 DEF Empty
<1> QED BY <1>1, <1>2

LEMMA EmptyObject == Empty \in Object /\ \A k \in OptionKey : Empty[k] = NoOpts
  BY DEF Empty, Object

\* What a request sets is what the device does, and it does the rest as before.
LEMMA Applied ==
    ASSUME NEW s \in [Effects -> Value \cup {NoOpts}], NEW o \in Object
    PROVE  /\ apply_opts(s, o) \in [Effects -> Value \cup {NoOpts}]
           /\ apply_opts(s, o).throttle = IF Given(o, "throttle_ms") THEN o["throttle_ms"] ELSE s.throttle
           /\ Given(o, "debounce_ms") => apply_opts(s, o).debounce = o["debounce_ms"]
           /\ ~Given(o, "debounce_ms") /\ ~Given(o, "flood_protection") => apply_opts(s, o).debounce = s.debounce
<1>1. /\ Given(o, "throttle_ms") => o["throttle_ms"] \in Value \cup {NoOpts}
      /\ Given(o, "debounce_ms") => o["debounce_ms"] \in Value \cup {NoOpts}
      /\ Given(o, "flood_protection") => o["flood_protection"] \in Value \cup {NoOpts}
      /\ s.throttle \in Value \cup {NoOpts} /\ s.debounce \in Value \cup {NoOpts}
  BY DEF Object, Given, Effects
<1> QED BY <1>1 DEF apply_opts, Effects

LEMMA OptInvInit == OptInit => OptInv
<1> SUFFICES ASSUME OptInit PROVE OptInv
  OBVIOUS
<1>1. PICK p \in SUBSET pool, o \in Object : old = [d \in Device |-> IF d \in p THEN o ELSE Empty]
  BY DEF OptInit
<1>2. old \in [Device -> Object] /\ due = old /\ \A d \in Device : d \notin pool => due[d] = Empty
  BY <1>1, EmptyObject DEF OptInit
<1>3. stored = [d \in Device |-> Empty] /\ stored \in [Device -> Object]
  BY EmptyObject DEF OptInit
<1>4. shadow \in [Device -> [Effects -> Value \cup {NoOpts}]]
  BY DEF OptInit, Untold
<1>5. req \in [Setter -> OptRequest] /\ req["httpd"] = Idle
  BY OptionsAssumption DEF OptInit, OptRequest
<1>6. OptTypes
  BY <1>2, <1>3, <1>4, <1>5 DEF OptInit, OptTypes
<1>7. PromisedOptionKept
  BY <1>2, <1>3 DEF OptInit, PromisedOptionKept
<1> QED BY <1>2, <1>5, <1>6, <1>7 DEF OptInit, OptInv, RequestInv, DueInv

LEMMA OptInvStep ==
    ASSUME Setter = {"httpd"}, PoolFaults = FALSE, OptInv, [OptNext]_optVars
    PROVE  OptInv'
<1> USE OptionsAssumption
<1> DEFINE r == req["httpd"]
<1>0. /\ OptTypes /\ RequestInv /\ DueInv /\ PromisedOptionKept
      /\ r \in OptRequest
  BY DEF OptInv, OptTypes
<1>a. ASSUME UNCHANGED <<pool, up, shadow, stored, old, due, leaving>>, req' \in [Setter -> OptRequest],
             RequestInv'
      PROVE  OptInv'
  <2>1. OptTypes'
    BY <1>0, <1>a DEF OptTypes
  <2>2. DueInv'
    BY <1>0, <1>a DEF DueInv
  <2>3. PromisedOptionKept'
    BY <1>0, <1>a DEF PromisedOptionKept
  <2> QED BY <1>a, <2>1, <2>2, <2>3 DEF OptInv
<1>1. ASSUME NEW d \in Device, NEW o \in Object, SetOptions("httpd", d, o) PROVE OptInv'
  <2>1. /\ req' = [req EXCEPT !["httpd"] = [at |-> "apply", dev |-> d, opts |-> o, base |-> Empty]]
        /\ UNCHANGED <<pool, removed, up, shadow, stored, old, due, leaving>>
        /\ up = "on" /\ o # Empty /\ leaving = {} /\ d \in pool
    BY <1>1 DEF SetOptions, Going, in_pool
  <2>2. req' \in [Setter -> OptRequest] /\ req'["httpd"] = [at |-> "apply", dev |-> d, opts |-> o, base |-> Empty]
    BY <1>0, <2>1, EmptyObject DEF OptTypes, OptRequest
  <2>3. RequestInv'
    BY <2>1, <2>2 DEF RequestInv
  <2> QED BY <1>a, <2>1, <2>2, <2>3
<1>2. CASE SetApply("httpd")
  <2>1. r # Idle /\ r.at = "apply" /\ r.dev \in Device /\ r.opts \in Object
    BY <1>0, <1>2 DEF SetApply, OptRequest, Idle
  <2>2. /\ req' = [req EXCEPT !["httpd"] = [at |-> "read", dev |-> r.dev, opts |-> r.opts, base |-> Empty]]
        /\ shadow' = [shadow EXCEPT ![r.dev] = apply_opts(shadow[r.dev], r.opts)]
        /\ due' = [due EXCEPT ![r.dev] = [k \in OptionKey |-> IF Withdrawn(r.opts, k) THEN NoOpts
                                                             ELSE due[r.dev][k]]]
        /\ UNCHANGED <<pool, removed, up, stored, old, leaving>>
    BY <1>2 DEF SetApply, Going
  <2>3. /\ req' \in [Setter -> OptRequest]
        /\ req'["httpd"] = [at |-> "read", dev |-> r.dev, opts |-> r.opts, base |-> Empty]
    BY <1>0, <2>1, <2>2, EmptyObject DEF OptTypes, OptRequest
  <2>4. shadow[r.dev] \in [Effects -> Value \cup {NoOpts}] /\ due[r.dev] \in Object
    BY <1>0, <2>1 DEF OptTypes
  <2>5. /\ shadow' \in [Device -> [Effects -> Value \cup {NoOpts}]]
        /\ \A d \in Device : shadow'[d] = IF d = r.dev THEN apply_opts(shadow[r.dev], r.opts) ELSE shadow[d]
    BY <1>0, <2>1, <2>2, <2>4, Applied DEF OptTypes
  <2>6. /\ due' \in [Device -> Object]
        /\ \A d \in Device, k \in OptionKey :
              due'[d][k] = IF d = r.dev /\ Withdrawn(r.opts, k) THEN NoOpts ELSE due[d][k]
    BY <1>0, <2>1, <2>2, <2>4 DEF OptTypes, Object
  <2>7. \A d \in Device : due[d] = Empty => due'[d] = Empty
    BY <2>6 DEF Empty, Object
  <2>8. PromisedOptionKept'
    <3> SUFFICES ASSUME NEW d \in pool, NEW k \in OptionKey, due'[d][k] # NoOpts
                 PROVE  /\ due'[d][k] = (IF stored[d] # Empty THEN stored[d][k] ELSE old[d][k])
                        /\ up = "on" /\ k = "throttle_ms" => shadow'[d].throttle = due'[d][k]
                        /\ up = "on" /\ k = "debounce_ms" => shadow'[d].debounce = due'[d][k]
      BY <2>2 DEF PromisedOptionKept
    <3>1. d \in Device
      BY <1>0 DEF OptTypes
    <3>2. due'[d][k] = due[d][k] /\ ~(d = r.dev /\ Withdrawn(r.opts, k))
      BY <2>6, <3>1
    <3>3. /\ due[d][k] = (IF stored[d] # Empty THEN stored[d][k] ELSE old[d][k])
          /\ up = "on" /\ k = "throttle_ms" => shadow[d].throttle = due[d][k]
          /\ up = "on" /\ k = "debounce_ms" => shadow[d].debounce = due[d][k]
      BY <1>0, <3>2 DEF PromisedOptionKept
    <3>4. CASE d # r.dev
      BY <2>5, <3>1, <3>2, <3>3, <3>4
    <3>5. CASE d = r.dev
      <4>1. k = "throttle_ms" => shadow'[d].throttle = shadow[d].throttle
        BY <2>1, <2>4, <2>5, <3>1, <3>2, <3>5, Applied DEF Withdrawn, Given
      <4>2. k = "debounce_ms" => shadow'[d].debounce = shadow[d].debounce
        BY <2>1, <2>4, <2>5, <3>1, <3>2, <3>5, Applied DEF Withdrawn, Given
      <4> QED BY <3>2, <3>3, <4>1, <4>2
    <3> QED BY <3>4, <3>5
  <2>9. RequestInv'
    <3>1. up = "on" /\ leaving = {} /\ r.dev \in pool /\ r.opts # Empty
      BY <1>0, <2>1 DEF RequestInv
    <3>2. /\ Given(r.opts, "throttle_ms") => shadow'[r.dev].throttle = r.opts["throttle_ms"]
          /\ Given(r.opts, "debounce_ms") => shadow'[r.dev].debounce = r.opts["debounce_ms"]
      BY <2>1, <2>4, <2>5, Applied
    <3> QED BY <2>2, <2>3, <3>1, <3>2 DEF RequestInv, Given
  <2>10. DueInv'
    BY <1>0, <2>2, <2>7 DEF DueInv
  <2> QED BY <1>0, <2>2, <2>3, <2>5, <2>6, <2>8, <2>9, <2>10 DEF OptInv, OptTypes
<1>3. CASE SetRead("httpd")
  <2>1. r # Idle /\ r.at = "read" /\ r.dev \in Device /\ r.opts \in Object
    BY <1>0, <1>3 DEF SetRead, OptRequest, Idle
  <2>2. /\ req' = [req EXCEPT !["httpd"] = [at |-> "write", dev |-> r.dev, opts |-> r.opts,
                                            base |-> stored[r.dev]]]
        /\ UNCHANGED <<pool, removed, up, shadow, stored, old, due, leaving>>
    BY <1>3 DEF SetRead, Going
  <2>3. /\ req' \in [Setter -> OptRequest]
        /\ req'["httpd"] = [at |-> "write", dev |-> r.dev, opts |-> r.opts, base |-> stored[r.dev]]
    BY <1>0, <2>1, <2>2 DEF OptTypes, OptRequest
  <2>4. RequestInv'
    BY <1>0, <2>1, <2>2, <2>3 DEF RequestInv
  <2> QED BY <1>a, <2>2, <2>3, <2>4
<1>4. ASSUME NEW ok \in BOOLEAN, SetWrite("httpd", ok) PROVE OptInv'
  <2>1. r # Idle /\ r.at = "write" /\ r.dev \in Device /\ r.opts \in Object
    BY <1>0, <1>4 DEF SetWrite, OptRequest, Idle
  <2>2. req' = [req EXCEPT !["httpd"] = Idle] /\ UNCHANGED <<pool, removed, up, shadow, old, leaving>>
    BY <1>4 DEF SetWrite, Done
  <2>3. req' \in [Setter -> OptRequest] /\ req'["httpd"] = Idle
    BY <1>0, <2>2 DEF OptTypes, OptRequest
  <2>4. RequestInv'
    BY <2>3 DEF RequestInv
  <2>5. CASE ~ok
    <3>1. UNCHANGED <<stored, due>>
      BY <1>4, <2>5 DEF SetWrite
    <3> QED BY <1>a, <2>2, <2>3, <2>4, <3>1
  <2>6. CASE ok
    <3>1. /\ up = "on" /\ leaving = {} /\ r.dev \in pool /\ r.opts # Empty /\ r.base = stored[r.dev]
          /\ Given(r.opts, "throttle_ms") => shadow[r.dev].throttle = r.opts["throttle_ms"]
          /\ Given(r.opts, "debounce_ms") => shadow[r.dev].debounce = r.opts["debounce_ms"]
      BY <1>0, <2>1 DEF RequestInv
    <3>2. /\ stored' = [stored EXCEPT ![r.dev] = Merge(stored[r.dev], r.opts)]
          /\ due' = [due EXCEPT ![r.dev] = Merge(due[r.dev], r.opts)]
      BY <1>4, <2>6, <3>1 DEF SetWrite, Merged
    <3>3. stored[r.dev] \in Object /\ due[r.dev] \in Object
      BY <1>0, <2>1 DEF OptTypes
    <3> DEFINE ms == Merge(stored[r.dev], r.opts)
               md == Merge(due[r.dev], r.opts)
    <3>4. /\ ms \in Object /\ md \in Object /\ ms # Empty
          /\ \A k \in OptionKey : /\ ms[k] = IF r.opts[k] # NoOpts THEN r.opts[k] ELSE stored[r.dev][k]
                                  /\ md[k] = IF r.opts[k] # NoOpts THEN r.opts[k] ELSE due[r.dev][k]
      BY <2>1, <3>1, <3>3, MergeObject
    <3> HIDE DEF ms, md
    <3>5. /\ stored' \in [Device -> Object] /\ due' \in [Device -> Object]
          /\ \A d \in Device : /\ stored'[d] = IF d = r.dev THEN ms ELSE stored[d]
                               /\ due'[d] = IF d = r.dev THEN md ELSE due[d]
      BY <1>0, <2>1, <3>2, <3>4 DEF OptTypes, ms, md
    <3>6. PromisedOptionKept'
      <4> SUFFICES ASSUME NEW d \in pool, NEW k \in OptionKey, due'[d][k] # NoOpts
                   PROVE  /\ due'[d][k] = (IF stored'[d] # Empty THEN stored'[d][k] ELSE old[d][k])
                          /\ up = "on" /\ k = "throttle_ms" => shadow[d].throttle = due'[d][k]
                          /\ up = "on" /\ k = "debounce_ms" => shadow[d].debounce = due'[d][k]
        BY <2>2 DEF PromisedOptionKept
      <4>1. d \in Device
        BY <1>0 DEF OptTypes
      <4>2. CASE d # r.dev
        <5>1. stored'[d] = stored[d] /\ due'[d] = due[d]
          BY <3>5, <4>1, <4>2
        <5> QED BY <1>0, <5>1 DEF PromisedOptionKept
      <4>3. CASE d = r.dev /\ r.opts[k] # NoOpts
        BY <3>1, <3>4, <3>5, <4>1, <4>3 DEF Given
      <4>4. CASE d = r.dev /\ r.opts[k] = NoOpts
        <5>1. due'[d][k] = due[d][k] /\ stored'[d][k] = stored[d][k] /\ stored'[d] # Empty
          BY <3>4, <3>5, <4>1, <4>4
        <5>2. /\ due[d][k] = (IF stored[d] # Empty THEN stored[d][k] ELSE old[d][k])
              /\ up = "on" /\ k = "throttle_ms" => shadow[d].throttle = due[d][k]
              /\ up = "on" /\ k = "debounce_ms" => shadow[d].debounce = due[d][k]
          BY <1>0, <5>1 DEF PromisedOptionKept
        <5>3. due[d] # Empty
          BY <5>1, EmptyObject
        <5>4. stored[d] # Empty
          <6>1. SUFFICES ASSUME stored[d] = Empty PROVE FALSE
            OBVIOUS
          <6>2. old[d] = Empty
            BY <1>0, <3>1, <4>1, <5>3, <6>1 DEF DueInv
          <6> QED BY <5>1, <5>2, <6>1, <6>2, EmptyObject
        <5> QED BY <5>1, <5>2, <5>4
      <4> QED BY <4>2, <4>3, <4>4
    <3>7. DueInv'
      BY <1>0, <2>2, <3>1, <3>4, <3>5 DEF DueInv
    <3> QED BY <1>0, <2>2, <2>3, <2>4, <3>5, <3>6, <3>7 DEF OptInv, OptTypes
  <2> QED BY <2>5, <2>6
<1>5. ASSUME NEW d \in Device, Pair(d) PROVE OptInv'
  <2>1. /\ pool' = pool \cup {d} /\ UNCHANGED <<up, shadow, stored, old, req, due, leaving>>
    BY <1>5 DEF Pair
  <2>2. d \in pool \/ due[d] = Empty
    BY <1>0 DEF DueInv
  <2>3. PromisedOptionKept'
    BY <1>0, <2>1, <2>2, EmptyObject DEF PromisedOptionKept
  <2>4. OptTypes'
    BY <1>0, <2>1 DEF OptTypes
  <2>5. RequestInv'
    BY <1>0, <2>1 DEF RequestInv
  <2>6. DueInv'
    BY <1>0, <2>1 DEF DueInv
  <2> QED BY <2>3, <2>4, <2>5, <2>6 DEF OptInv
<1>6. ASSUME NEW d \in Device, SoftRemove(d) PROVE OptInv'
  <2>1. UNCHANGED <<pool, up, shadow, stored, old, req, due, leaving>>
    BY <1>6 DEF SoftRemove
  <2>2. req' \in [Setter -> OptRequest]
    BY <1>0, <2>1 DEF OptTypes
  <2>3. RequestInv'
    BY <1>0, <2>1 DEF RequestInv
  <2> QED BY <1>a, <2>1, <2>2, <2>3
<1>7. ASSUME NEW d \in Device, HardRemove(d) PROVE OptInv'
  <2>1. /\ up = "on" /\ r = Idle /\ leaving' = {d} /\ pool' = pool \ {d}
        /\ shadow' = [shadow EXCEPT ![d] = Untold] /\ due' = [due EXCEPT ![d] = Empty]
        /\ UNCHANGED <<up, stored, old, req>> /\ leaving = {}
    BY <1>7 DEF HardRemove
  <2>2. Untold \in [Effects -> Value \cup {NoOpts}]
    BY DEF Untold
  <2>3. OptTypes'
    BY <1>0, <2>1, <2>2, EmptyObject DEF OptTypes
  <2>4. \A e \in Device : /\ due'[e] = IF e = d THEN Empty ELSE due[e]
                          /\ e # d => shadow'[e] = shadow[e]
    BY <1>0, <2>1 DEF OptTypes
  <2>5. PromisedOptionKept'
    BY <1>0, <2>1, <2>4 DEF PromisedOptionKept, OptTypes
  <2>6. DueInv'
    BY <1>0, <2>1, <2>4 DEF DueInv
  <2> QED BY <2>1, <2>3, <2>5, <2>6 DEF OptInv, RequestInv
<1>8. ASSUME NEW ok \in BOOLEAN, Forget(ok) PROVE OptInv'
  <2>1. leaving # {} /\ leaving' = {} /\ UNCHANGED <<pool, removed, up, shadow, old, req, due>>
    BY <1>8 DEF Forget
  <2>2. r = Idle
    BY <1>0, <2>1 DEF RequestInv
  <2>3. /\ stored' \in [Device -> Object]
        /\ \A e \in Device : stored'[e] = stored[e] \/ (e \in leaving /\ due[e] = Empty)
    BY <1>0, <1>8, EmptyObject DEF Forget, OptTypes, DueInv
  <2>4. PromisedOptionKept'
    BY <1>0, <2>1, <2>3, EmptyObject DEF PromisedOptionKept, OptTypes
  <2>5. DueInv'
    BY <1>0, <2>1, <2>3 DEF DueInv
  <2> QED BY <1>0, <2>1, <2>2, <2>3, <2>4, <2>5 DEF OptInv, OptTypes, RequestInv
<1>9. CASE OptPowerCut
  <2>1. /\ up' = "off" /\ shadow' = [d \in Device |-> Untold] /\ req' = [t \in Setter |-> Idle]
        /\ leaving' = {} /\ UNCHANGED <<pool, removed, stored, old, due>>
    BY <1>9 DEF OptPowerCut
  <2>2. shadow' \in [Device -> [Effects -> Value \cup {NoOpts}]] /\ req'["httpd"] = Idle
    BY <2>1 DEF Untold
  <2>3. req' \in [Setter -> OptRequest]
    BY <2>1 DEF OptRequest
  <2>4. OptTypes'
    BY <1>0, <2>1, <2>2, <2>3 DEF OptTypes
  <2>5. DueInv'
    BY <1>0, <2>1 DEF DueInv
  <2>6. PromisedOptionKept'
    BY <1>0, <2>1 DEF PromisedOptionKept
  <2> QED BY <2>2, <2>4, <2>5, <2>6 DEF OptInv, RequestInv
<1>10. ASSUME NEW ok \in BOOLEAN, BootPool(ok) PROVE OptInv'
  <2>1. /\ up = "off" /\ up' \in {"store", "no_store"} /\ (up' = "no_store" => \A d \in Device : old[d] = Empty)
        /\ UNCHANGED <<pool, removed, shadow, stored, old, req, due, leaving>>
    BY <1>10 DEF BootPool
  <2>2. r = Idle
    BY <1>0, <2>1 DEF RequestInv
  <2>3. OptTypes'
    BY <1>0, <2>1 DEF OptTypes
  <2>4. DueInv'
    BY <1>0, <2>1 DEF DueInv
  <2>5. PromisedOptionKept'
    BY <1>0, <2>1 DEF PromisedOptionKept
  <2> QED BY <2>1, <2>2, <2>3, <2>4, <2>5 DEF OptInv, RequestInv
<1>11. ASSUME NEW d \in Device, MoveOld(d) PROVE OptInv'
  <2>1. /\ up = "store" /\ old[d] # Empty /\ stored[d] = Empty /\ stored' = [stored EXCEPT ![d] = old[d]]
        /\ UNCHANGED <<pool, removed, up, shadow, old, req, due, leaving>>
    BY <1>11 DEF MoveOld
  <2>2. r = Idle
    BY <1>0, <2>1 DEF RequestInv
  <2>3. stored' \in [Device -> Object] /\ \A e \in Device : stored'[e] = IF e = d THEN old[d] ELSE stored[e]
    BY <1>0, <2>1 DEF OptTypes
  <2>4. PromisedOptionKept'
    BY <1>0, <2>1, <2>3 DEF PromisedOptionKept, OptTypes
  <2>5. DueInv'
    BY <1>0, <2>1 DEF DueInv
  <2> QED BY <1>0, <2>1, <2>2, <2>3, <2>4, <2>5 DEF OptInv, OptTypes, RequestInv
<1>12. ASSUME NEW d \in Device, EraseOld(d) PROVE OptInv'
  <2>1. /\ up \in {"store", "no_store"} /\ old[d] # Empty /\ MayErase(d) /\ old' = [old EXCEPT ![d] = Empty]
        /\ UNCHANGED <<pool, removed, up, shadow, stored, req, due, leaving>>
    BY <1>12 DEF EraseOld
  <2>2. r = Idle
    BY <1>0, <2>1 DEF RequestInv
  <2>3. up = "store"
    BY <1>0, <2>1 DEF DueInv
  <2>4. d \in pool => stored[d] # Empty
    BY <2>1, <2>3 DEF MayErase, Known
  <2>5. old' \in [Device -> Object] /\ \A e \in Device : old'[e] = IF e = d THEN Empty ELSE old[e]
    BY <1>0, <2>1, EmptyObject DEF OptTypes
  <2>6. PromisedOptionKept'
    BY <1>0, <2>1, <2>4, <2>5 DEF PromisedOptionKept, OptTypes
  <2>7. DueInv'
    BY <1>0, <2>1, <2>3 DEF DueInv
  <2> QED BY <1>0, <2>1, <2>2, <2>5, <2>6, <2>7 DEF OptInv, OptTypes, RequestInv
<1>13. ASSUME NEW gone \in SUBSET Device, Restore(gone) PROVE OptInv'
  <2>1. /\ up \in {"store", "no_store"} /\ up' = (IF up = "store" THEN "on" ELSE "blank")
        /\ gone \subseteq Device \ pool
        /\ shadow' = [d \in Device |-> IF in_pool(d, FALSE) /\ d \in Known
                                       THEN apply_opts(shadow[d], stored[d]) ELSE shadow[d]]
        /\ stored' = [d \in Device |-> IF d \in gone THEN Empty ELSE stored[d]]
        /\ due' = [d \in Device |-> IF old[d] = Empty THEN due[d] ELSE Empty]
        /\ UNCHANGED <<pool, removed, old, req, leaving>>
    BY <1>13 DEF Restore, Stale
  <2>2. r = Idle
    BY <1>0, <2>1 DEF RequestInv
  <2>3. stored' \in [Device -> Object] /\ due' \in [Device -> Object]
    BY <1>0, <2>1, EmptyObject DEF OptTypes
  <2>4. shadow' \in [Device -> [Effects -> Value \cup {NoOpts}]]
    <3>1. \A d \in Device : apply_opts(shadow[d], stored[d]) \in [Effects -> Value \cup {NoOpts}]
      BY <1>0, Applied DEF OptTypes
    <3> QED BY <1>0, <2>1, <3>1 DEF OptTypes
  <2>5. PromisedOptionKept'
    <3>0. UNCHANGED <<pool, old>>
      BY <2>1
    <3> SUFFICES ASSUME NEW d \in pool, NEW k \in OptionKey, due'[d][k] # NoOpts
                 PROVE  /\ due'[d][k] = (IF stored'[d] # Empty THEN stored'[d][k] ELSE old[d][k])
                        /\ up' = "on" /\ k = "throttle_ms" => shadow'[d].throttle = due'[d][k]
                        /\ up' = "on" /\ k = "debounce_ms" => shadow'[d].debounce = due'[d][k]
      BY <3>0 DEF PromisedOptionKept
    <3>1. d \in Device /\ stored[d] \in Object /\ shadow[d] \in [Effects -> Value \cup {NoOpts}]
      BY <1>0 DEF OptTypes
    <3>2. old[d] = Empty /\ due'[d] = due[d] /\ stored'[d] = stored[d]
      BY <2>1, <3>1, EmptyObject
    <3>3. due[d][k] = stored[d][k] /\ stored[d] # Empty
      BY <1>0, <3>2, EmptyObject DEF PromisedOptionKept
    <3>4. up' = "on" => shadow'[d] = apply_opts(shadow[d], stored[d])
      BY <2>1, <3>1 DEF Known, in_pool
    <3>5. /\ k = "throttle_ms" => Given(stored[d], "throttle_ms")
          /\ k = "debounce_ms" => Given(stored[d], "debounce_ms")
      BY <3>2, <3>3 DEF Given
    <3> QED BY <3>1, <3>2, <3>3, <3>4, <3>5, Applied
  <2>6. DueInv'
    BY <1>0, <2>1 DEF DueInv
  <2> QED BY <1>0, <2>1, <2>2, <2>3, <2>4, <2>5, <2>6 DEF OptInv, OptTypes, RequestInv
<1>14. CASE UNCHANGED optVars
  BY <1>0, <1>14 DEF optVars, OptInv, OptTypes, RequestInv, DueInv, PromisedOptionKept
<1> QED
  BY <1>1, <1>2, <1>3, <1>4, <1>5, <1>6, <1>7, <1>8, <1>9, <1>10, <1>11, <1>12, <1>13, <1>14 DEF OptNext

\* No option a caller was promised is lost while its device stays, for any number of devices
\* and options, whatever the power cuts, the failing writes and the moves from the old keys --
\* if one task sets options and a hub with old records boots with its pool (device_options_set,
\* device_options_restore_all, migrate_old_keys).
THEOREM OptionsKept ==
    ASSUME Setter = {"httpd"}, PoolFaults = FALSE
    PROVE  OptSpec => []PromisedOptionKept
<1>1. OptInv => PromisedOptionKept
  BY DEF OptInv
<1>2. OptInv /\ [OptNext]_optVars => OptInv'
  BY OptInvStep
<1> QED
  BY <1>1, <1>2, OptInvInit, PTL DEF OptSpec

-----------------------------------------------------------------------------
(* The coordinator's address.                                                *)

\* A device that joined while the address was pinned joined under the pinned address, and
\* from the moment the address is applied the network runs under the pin, if there is one.
HomeInv ==
    /\ \A d \in Member : home[d].kept => home[d].addr # NoMac /\ home[d].addr = pin
    /\ at \in {"save", "flag", "net", "pin", "run"} => coord \in Mac /\ pin \in {coord, NoMac}
    /\ at = "unpin" => \A d \in Member : ~home[d].kept

CoordTypes ==
    /\ pin \in Mac \cup {NoMac} /\ mac \in Mac
    /\ store \in [Member -> Rec] /\ devs \in [Member -> Rec]
    /\ home \in [Member -> [addr : Mac \cup {NoMac}, kept : BOOLEAN]]
    /\ binds \in [Member -> SUBSET Mac]
    /\ coord \in Mac \cup {NoMac} /\ unsaved \subseteq Member

\* A record that counts as configured belongs to a device that reports to its network.
Reports(d, r) == r.here /\ home[d].kept /\ home[d].addr \notin binds[d] => ~r.done

\* Once repaired, every record in flash and in RAM is like that; while the repair saves,
\* every device waits to be configured, in flash too if nothing was lost so far.
RepairInv ==
    /\ repaired => \A d \in Member : Reports(d, store[d]) /\ Reports(d, devs[d])
    /\ \A d \in Member : (store[d].here => store[d].matched) /\ (devs[d].here => devs[d].matched)
    /\ at # "off" => \A d \in Member : store[d].here => devs[d].here
    /\ at = "save" =>
           /\ \A d \in Member : devs[d].here => ~devs[d].done
           /\ saved => \A d \in Member \ unsaved : store[d].here => ~store[d].done

CoordInv == CoordTypes /\ HomeInv /\ RepairInv

LEMMA Marked ==
    ASSUME NEW r \in Rec, NEW s, s = [r EXCEPT !.fix = TRUE, !.done = FALSE]
    PROVE  s \in Rec /\ s.here = r.here /\ s.matched = r.matched /\ ~s.done
  BY DEF Rec

LEMMA DoneAt ==
    ASSUME NEW f \in [Member -> Rec], NEW d \in Member, NEW q, q = [f EXCEPT ![d].done = TRUE]
    PROVE  /\ q \in [Member -> Rec]
           /\ \A m \in Member : /\ q[m].here = f[m].here /\ q[m].matched = f[m].matched
                                /\ m # d => q[m] = f[m]
  BY DEF Rec

LEMMA RepairedAt ==
    ASSUME NEW f \in [Member -> Rec], NEW d \in Member, NEW q, q = [f EXCEPT ![d].fix = FALSE]
    PROVE  /\ q \in [Member -> Rec]
           /\ \A m \in Member : /\ q[m].here = f[m].here /\ q[m].matched = f[m].matched
                                /\ q[m].done = f[m].done
  BY DEF Rec

LEMMA CoordInvInit == CoordInit => CoordInv
  BY NoMacAssumption
     DEF CoordInit, CoordInv, CoordTypes, HomeInv, RepairInv, Reports, Rec, Gone

LEMMA CoordInvStep == CoordInv /\ [CoordNext]_coordVars => CoordInv'
<1> SUFFICES ASSUME CoordInv, [CoordNext]_coordVars PROVE CoordInv'
  OBVIOUS
<1> USE NoMacAssumption DEF CoordInv, CoordTypes, HomeInv, RepairInv, Reports, Rec,
                            flashVars, radioVars, ramVars
<1>1. CASE PowerOn
  BY <1>1 DEF PowerOn
<1>2. CASE Unmark \/ UnmarkFails \/ Forgotten
  BY <1>2 DEF Unmark, UnmarkFails, Forgotten
<1>3. CASE Wipe
  BY <1>3 DEF Wipe
<1>4. CASE WipeFails \/ Unpin
  BY <1>4 DEF WipeFails, Unpin
<1>5. CASE Apply
  <2>1. coord' \in Mac /\ pin \in {coord', NoMac} /\ unsaved' \subseteq Member
    BY <1>5 DEF Apply, Pinned, ToRepair
  <2>2. CASE mac = coord' \/ repaired
    <3>1. unsaved' = {} /\ devs' = devs /\ at' = "net"
      BY <1>5, <2>2 DEF Apply, ToRepair
    <3> QED BY <1>5, <2>1, <3>1 DEF Apply
  <2>3. CASE ~(mac = coord' \/ repaired)
    <3>1. at' = "save" /\ unsaved' = {d \in Member : devs[d].here /\ devs[d].matched}
      BY <1>5, <2>3 DEF Apply, ToRepair
    <3>2. \A d \in Member : devs'[d] = IF d \in unsaved' THEN [devs[d] EXCEPT !.fix = TRUE, !.done = FALSE]
                                       ELSE devs[d]
      BY <1>5 DEF Apply
    <3>5. \A d \in Member : /\ devs'[d] \in Rec
                            /\ devs'[d].here = devs[d].here /\ devs'[d].matched = devs[d].matched
                            /\ devs'[d].here => ~devs'[d].done
      <4> TAKE d \in Member
      <4>1. CASE d \in unsaved'
        <5>1. devs'[d] = [devs[d] EXCEPT !.fix = TRUE, !.done = FALSE] /\ devs[d] \in Rec
          BY <3>2, <4>1
        <5> HIDE DEF Rec
        <5> QED BY <5>1, Marked
      <4>2. CASE d \notin unsaved'
        BY <3>1, <3>2, <4>2
      <4> QED BY <4>1, <4>2
    <3>3. devs' \in [Member -> Rec]
      BY <1>5, <3>5 DEF Apply
    <3>4. \A d \in Member : /\ devs'[d].here = devs[d].here /\ devs'[d].matched = devs[d].matched
                            /\ devs'[d].here => ~devs'[d].done
      BY <3>5
    <3>6. /\ at = "apply" /\ ~repaired /\ ~repaired' /\ saved'
          /\ UNCHANGED <<pin, mac, store, home, binds>>
      BY <1>5, <2>3 DEF Apply
    <3>7. CoordTypes'
      BY <2>1, <3>3, <3>6
    <3>8. HomeInv'
      BY <2>1, <3>1, <3>6
    <3>9. RepairInv'
      BY <3>1, <3>4, <3>6
    <3> QED BY <3>7, <3>8, <3>9
  <2> QED BY <2>2, <2>3
<1>6. CASE SetFlag
  BY <1>6 DEF SetFlag, MayFlag
<1>7. CASE NetworkRuns \/ Remember
  BY <1>7 DEF NetworkRuns, Remember
<1>8. CASE ForceRecommission \/ PowerCut_coord \/ ExchangeRadio
  BY <1>8 DEF ForceRecommission, PowerCut_coord, ExchangeRadio
<1>9. ASSUME NEW d \in Member, ForgetOne(d) PROVE CoordInv'
  BY <1>9 DEF ForgetOne, Gone
<1>10. ASSUME NEW d \in Member, SaveOne(d) PROVE CoordInv'
  <2>1. CASE store' = [store EXCEPT ![d] = devs[d]] /\ UNCHANGED <<saved, fails>>
    <3>1. \A m \in Member : store'[m] = IF m = d THEN devs[d] ELSE store[m]
      BY <2>1
    <3>2. store' \in [Member -> Rec]
      BY <2>1
    <3> QED BY <1>10, <2>1, <3>1, <3>2 DEF SaveOne
  <2>2. CASE saved' = FALSE /\ UNCHANGED store
    BY <1>10, <2>2 DEF SaveOne
  <2> QED BY <1>10, <2>1, <2>2 DEF SaveOne
<1>11. ASSUME NEW d \in Member, Join(d) PROVE CoordInv'
  <2>1. \A m \in Member : devs'[m] = IF m = d THEN [here |-> TRUE, matched |-> TRUE, fix |-> FALSE, done |-> FALSE]
                                      ELSE devs[m]
    BY <1>11 DEF Join
  <2>2. devs' \in [Member -> Rec]
    BY <1>11 DEF Join
  <2>3. CASE home[d].addr = NoMac
    <3>1. \A m \in Member : home'[m] = IF m = d THEN [addr |-> coord, kept |-> pin # NoMac] ELSE home[m]
      BY <1>11, <2>3 DEF Join
    <3>4. home' = [home EXCEPT ![d] = [addr |-> coord, kept |-> pin # NoMac]] /\ coord \in Mac
      BY <1>11, <2>3 DEF Join
    <3>2. home' \in [Member -> [addr : Mac \cup {NoMac}, kept : BOOLEAN]]
      BY <3>4
    <3>3. ~store[d].here
      BY <1>11 DEF Join
    <3> QED BY <1>11, <2>1, <2>2, <3>1, <3>2, <3>3 DEF Join
  <2>4. CASE home[d].addr # NoMac
    BY <1>11, <2>1, <2>2, <2>4 DEF Join
  <2> QED BY <2>3, <2>4
<1>12. ASSUME NEW d \in Member, Configure(d) PROVE CoordInv'
  <2>0. devs' = [devs EXCEPT ![d].done = TRUE]
    BY <1>12 DEF Configure
  <2>1. \A m \in Member : /\ devs'[m].here = devs[m].here /\ devs'[m].matched = devs[m].matched
                          /\ m # d => devs'[m] = devs[m]
    <3> HIDE DEF Rec
    <3> QED BY <2>0, DoneAt
  <2>2. devs' \in [Member -> Rec]
    <3> HIDE DEF Rec
    <3> QED BY <2>0, DoneAt
  <2>3. binds' \in [Member -> SUBSET Mac] /\ coord \in binds'[d] /\ \A m \in Member \ {d} : binds'[m] = binds[m]
    BY <1>12 DEF Configure
  <2>4. home[d].kept => home[d].addr = coord
    BY <1>12 DEF Configure
  <2> QED BY <1>12, <2>1, <2>2, <2>3, <2>4 DEF Configure
<1>13. ASSUME NEW d \in Member, RepairOnFrame(d) PROVE CoordInv'
  <2>0. devs' = [devs EXCEPT ![d].fix = FALSE]
    BY <1>13 DEF RepairOnFrame
  <2>1. \A m \in Member : /\ devs'[m].here = devs[m].here /\ devs'[m].matched = devs[m].matched
                          /\ devs'[m].done = devs[m].done
    <3> HIDE DEF Rec
    <3> QED BY <2>0, RepairedAt
  <2>2. devs' \in [Member -> Rec]
    <3> HIDE DEF Rec
    <3> QED BY <2>0, RepairedAt
  <2> QED BY <1>13, <2>1, <2>2 DEF RepairOnFrame
<1>14. ASSUME NEW d \in Member, Flush(d) PROVE CoordInv'
  BY <1>14 DEF Flush
<1>15. CASE UNCHANGED coordVars
  BY <1>15 DEF coordVars
<1> QED
  BY <1>1, <1>2, <1>3, <1>4, <1>5, <1>6, <1>7, <1>8, <1>9, <1>10, <1>11, <1>12, <1>13, <1>14, <1>15
     DEF CoordNext

\* A device that joined under an address on record finds the network under it at every later
\* boot, for any number of power cuts, failing writes and exchanged radios
\* (coordinator_address_apply, network_reset_if_marked).
THEOREM AddressStays == CoordSpec => []AddressKept
<1>1. CoordInv => AddressKept
  BY DEF CoordInv, HomeInv, AddressKept
<1> QED
  BY <1>1, CoordInvInit, CoordInvStep, PTL DEF CoordSpec

\* Once the repair of the binds counts as done, every device that does not report to the
\* network's address is stored as still to be configured (coordinator_rebind_once).
THEOREM RepairReaches == CoordSpec => []RepairReachesAll
<1>1. CoordInv => RepairReachesAll
  BY DEF CoordInv, RepairInv, Reports, RepairReachesAll
<1> QED
  BY <1>1, CoordInvInit, CoordInvStep, PTL DEF CoordSpec

-----------------------------------------------------------------------------
(* The mirror of the devices' group tables.                                  *)

\* The types the argument needs: tables are sets of rows, never mistaken for no table.
MirTypes ==
    /\ map2 \in (SUBSET Row) \cup {None} /\ map1 \in (SUBSET Row) \cup {None}
    /\ paired \subseteq Node /\ member \in [Node \X EndPoint -> SUBSET Group]
    /\ \A x \in air : x.gids \subseteq Group
    /\ buf # None => buf.gids \subseteq Group
    /\ task \in [Asker -> [at : {"add", "remove", "ask", "set", "forget"}, node : Node,
                          ep : EndPoint, gids : SUBSET Group] \cup {None}]
    /\ \A a \in Asker : On(a, "add") \/ On(a, "remove") => task[a].gids # {}

LEMMA LoadType == ASSUME MirTypes PROVE dgm_load \in SUBSET Row
  BY DEF MirTypes, dgm_load, Rows

\* The table's operations keep rows rows.
LEMMA TableTypes ==
    ASSUME NEW t \in SUBSET Row, NEW d \in Node, NEW e \in EndPoint, NEW g \in Group
    PROVE  /\ dgm_tbl_add(t, d, e, g) \in SUBSET Row
           /\ dgm_tbl_remove(t, d, e, g) \in SUBSET Row
<1>1. dgm_tbl_add(t, d, e, g) \in SUBSET Row
  BY DEF dgm_tbl_add, At, Entry, Row
<1>2. dgm_tbl_remove(t, d, e, g) \in SUBSET Row
  BY DEF dgm_tbl_remove, At, Entry, Row
<1> QED BY <1>1, <1>2

LEMMA SetTypes ==
    ASSUME NEW t \in SUBSET Row, NEW d \in Node, NEW e \in EndPoint, NEW gs \in SUBSET Group,
           NEW s \in dgm_tbl_set(t, d, e, gs)
    PROVE  s \in SUBSET Row
<1>1. Others(t, d, e) \in SUBSET Row
  BY DEF Others
<1>2. PICK k \in SUBSET gs : s = Others(t, d, e) \/ s = Others(t, d, e) \cup {Entry(d, e, k)}
  BY DEF dgm_tbl_set
<1>3. Entry(d, e, k) \in Row
  BY <1>2 DEF Entry, Row
<1> QED BY <1>1, <1>2, <1>3

LEMMA MirTypesInit == MirInit => MirTypes
<1> SUFFICES ASSUME MirInit PROVE MirTypes
  OBVIOUS
<1>1. map1 \in (SUBSET Row) \cup {None}
  BY MirrorAssumption DEF MirInit, Row
<1>2. \A a \in Asker : task[a] = None
  BY DEF MirInit
<1> QED BY <1>1, <1>2 DEF MirInit, MirTypes, On

LEMMA MirTypesStep == MirTypes /\ [MirNext]_mirVars => MirTypes'
<1> SUFFICES ASSUME MirTypes, [MirNext]_mirVars PROVE MirTypes'
  OBVIOUS
<1> USE DEF MirTypes, On, Begin, End, Task
<1>0. dgm_load \in SUBSET Row
  BY LoadType
<1>1. ASSUME NEW m \in Migrated, Migrate(m) PROVE MirTypes'
  BY <1>1 DEF Migrate
<1>2. ASSUME NEW a \in Asker, NEW d \in Node, NEW e \in EndPoint, NEW g \in Group,
             NEW where \in {"add", "remove"}, NEW accepted \in BOOLEAN, NEW took \in BOOLEAN,
             Send(a, where, d, e, g, accepted, took)
      PROVE  MirTypes'
  <2>1. member' \in [Node \X EndPoint -> SUBSET Group]
    BY <1>2 DEF Send
  <2>2. CASE accepted
    <3>1. /\ task' = [task EXCEPT ![a] = [at |-> where, node |-> d, ep |-> e, gids |-> {g}]]
          /\ UNCHANGED <<paired, trusted, map2, map1, tsn, slot, buf, air>>
      BY <1>2, <2>2 DEF Send
    <3>2. \A b \in Asker : task'[b] = IF b = a THEN [at |-> where, node |-> d, ep |-> e, gids |-> {g}]
                                       ELSE task[b]
      BY <3>1
    <3>3. \A b \in Asker : On(b, "add")' \/ On(b, "remove")' => task'[b].gids # {}
      BY <3>2
    <3>4. task' \in [Asker -> [at : {"add", "remove", "ask", "set", "forget"}, node : Node,
                               ep : EndPoint, gids : SUBSET Group] \cup {None}]
      BY <3>1
    <3> QED BY <2>1, <3>1, <3>3, <3>4
  <2>3. CASE ~accepted
    BY <1>2, <2>1, <2>3 DEF Send
  <2> QED BY <2>2, <2>3
<1>3. ASSUME NEW a \in Asker, NEW d \in Node, NEW e \in EndPoint, NEW answered \in BOOLEAN,
             Ask(a, d, e, answered)
      PROVE  MirTypes'
  <2>1. member[<<d, e>>] \subseteq Group
    OBVIOUS
  <2>2. \A x \in air' : x.gids \subseteq Group
    BY <1>3, <2>1 DEF Ask
  <2> QED BY <1>3, <2>2 DEF Ask
<1>4. ASSUME NEW a \in Asker, NEW ok \in BOOLEAN, MirrorCommand(a, ok) PROVE MirTypes'
  <2>1. /\ task[a] # None /\ task[a].node \in Node /\ task[a].ep \in EndPoint
        /\ (CHOOSE x \in task[a].gids : TRUE) \in Group
    BY <1>4 DEF MirrorCommand
  <2>3. /\ dgm_tbl_add(dgm_load, task[a].node, task[a].ep, CHOOSE x \in task[a].gids : TRUE) \in SUBSET Row
        /\ dgm_tbl_remove(dgm_load, task[a].node, task[a].ep, CHOOSE x \in task[a].gids : TRUE) \in SUBSET Row
    BY <1>0, <2>1, TableTypes
  <2>2. map2' \in (SUBSET Row) \cup {None}
    BY <1>4, <2>3 DEF MirrorCommand, Save
  <2> QED BY <1>4, <2>2 DEF MirrorCommand
<1>5. ASSUME NEW a \in Asker, NEW ok \in BOOLEAN, SetMirror(a, ok) PROVE MirTypes'
  <2>1. /\ task[a] # None /\ task[a].node \in Node /\ task[a].ep \in EndPoint
        /\ task[a].gids \in SUBSET Group
    BY <1>5 DEF SetMirror
  <2>2. \A k \in dgm_tbl_set(dgm_load, task[a].node, task[a].ep, task[a].gids) : k \in SUBSET Row
    BY <1>0, <2>1, SetTypes
  <2>3. map2' \in (SUBSET Row) \cup {None}
    BY <1>5, <2>2 DEF SetMirror, Save
  <2> QED BY <1>5, <2>3 DEF SetMirror
<1>6. ASSUME NEW a \in Asker, NEW ok \in BOOLEAN, ForgetRows(a, ok) PROVE MirTypes'
  <2>1. map2' \in (SUBSET Row) \cup {None}
    BY <1>0, <1>6 DEF ForgetRows, Save, dgm_tbl_forget
  <2> QED BY <1>6, <2>1 DEF ForgetRows
<1>7. ASSUME NEW a \in Asker, Take(a) PROVE MirTypes'
  BY <1>7 DEF Take
<1>8. ASSUME NEW a \in Asker, NoAnswer(a) PROVE MirTypes'
  BY <1>8 DEF NoAnswer
<1>9. ASSUME NEW x \in air, NEW again \in BOOLEAN, Feed(x, again) PROVE MirTypes'
  BY <1>9 DEF Feed
<1>10. ASSUME NEW d \in Node, MirPair(d) PROVE MirTypes'
  <2>1. member' \in [Node \X EndPoint -> SUBSET Group]
    BY <1>10 DEF MirPair
  <2> QED BY <1>10, <2>1 DEF MirPair
<1>11. ASSUME NEW a \in Asker, NEW d \in Node, Remove(a, d) PROVE MirTypes'
  BY <1>11, MirrorAssumption DEF Remove
<1>12. ASSUME NEW ready \in BOOLEAN, NEW ok \in BOOLEAN, MirBoot(ready, ok) PROVE MirTypes'
  <2>1. map2' \in (SUBSET Row) \cup {None}
    BY <1>0, <1>12 DEF MirBoot, Save
  <2> QED BY <1>12, <2>1 DEF MirBoot
<1>13. CASE UNCHANGED mirVars
  BY <1>13 DEF mirVars
<1> QED
  BY <1>1, <1>2, <1>3, <1>4, <1>5, <1>6, <1>7, <1>8, <1>9, <1>10, <1>11, <1>12, <1>13 DEF MirNext

\* The table's operations take memberships of the endpoint they name only.
LEMMA RowsLeft ==
    ASSUME NEW t, NEW r \in t, r.gids # {}, NEW d, NEW e, NEW x, ~(r.node = d /\ r.ep = e)
    PROVE  /\ r \in dgm_tbl_add(t, d, e, x)
           /\ r \in dgm_tbl_remove(t, d, e, x)
           /\ \A k \in dgm_tbl_set(t, d, e, x) : r \in k
<1>1. r \notin At(t, d, e)
  BY DEF At
<1>2. r \in dgm_tbl_add(t, d, e, x)
  BY <1>1 DEF dgm_tbl_add
<1>3. r \in dgm_tbl_remove(t, d, e, x)
  BY <1>1 DEF dgm_tbl_remove
<1>4. r \in Others(t, d, e)
  BY <1>1 DEF Others
<1>5. \A k \in dgm_tbl_set(t, d, e, x) : Others(t, d, e) \subseteq k
  BY DEF dgm_tbl_set
<1> QED
  BY <1>2, <1>3, <1>4, <1>5

\* An add keeps the memberships of its own row too.
LEMMA AddKeeps ==
    ASSUME NEW t, NEW r \in t, NEW g \in r.gids, NEW d, NEW e, NEW x
    PROVE  \E q \in dgm_tbl_add(t, d, e, x) : g \in q.gids /\ q.node = r.node /\ q.ep = r.ep
<1>1. CASE r \in At(t, d, e)
  <2>1. r.node = d /\ r.ep = e
    BY <1>1 DEF At
  <2>2. CASE Cardinality(r.gids) >= MaxGids
    <3>1. r \in dgm_tbl_add(t, d, e, x)
      BY <1>1, <2>2 DEF dgm_tbl_add
    <3> QED BY <3>1
  <2>3. CASE ~(Cardinality(r.gids) >= MaxGids)
    <3>1. Entry(d, e, r.gids \cup {x}) \in dgm_tbl_add(t, d, e, x)
      BY <1>1, <2>3 DEF dgm_tbl_add
    <3> QED BY <2>1, <3>1 DEF Entry
  <2> QED BY <2>2, <2>3
<1>2. CASE r \notin At(t, d, e)
  <2>1. r \in dgm_tbl_add(t, d, e, x)
    BY <1>2 DEF dgm_tbl_add
  <2> QED BY <2>1
<1> QED BY <1>1, <1>2

LEMMA OnlyOwnStep ==
    ASSUME MirTypes, MirTypes', [MirNext]_mirVars,
           NEW m \in InMirror, m[1] \in paired', m \notin InMirror'
    PROVE  \E a \in Asker : task[a] # None /\ task[a].node = m[1]
                            /\ (task[a].ep = m[2] \/ task[a].at = "forget")
<1>0. PICK r \in dgm_load : \E g \in r.gids : m = <<r.node, r.ep, g>>
  BY DEF InMirror
<1>1. PICK g \in r.gids : m = <<r.node, r.ep, g>>
  BY <1>0
<1>2. m[1] = r.node /\ m[2] = r.ep /\ r.gids # {}
  BY <1>1
<1>3. \A q \in dgm_load' : ~(g \in q.gids /\ q.node = r.node /\ q.ep = r.ep)
  BY <1>1 DEF InMirror
<1>4. dgm_load' # dgm_load /\ r \notin dgm_load'
  BY <1>3
<1>5. ~UNCHANGED <<map1, map2>>
  BY <1>4 DEF dgm_load, Rows
<1>6. dgm_load \in SUBSET Row
  BY LoadType
<1>7. ASSUME NEW k \in Migrated, Migrate(k) PROVE FALSE
  <2>1. map2' = map1 /\ map2 = None /\ map1 # None
    BY <1>7 DEF Migrate, Migrated
  <2> QED BY <1>4, <2>1 DEF dgm_load, Rows
<1>8. ASSUME NEW t \in SUBSET Row, NEW ok \in BOOLEAN, Save(t, ok), map1' = map1 PROVE dgm_load' = t
  <2>1. map2' = t
    BY <1>5, <1>8 DEF Save
  <2> QED BY <2>1, MirrorAssumption DEF dgm_load
<1>9. ASSUME NEW a \in Asker, NEW ok \in BOOLEAN, MirrorCommand(a, ok)
      PROVE  task[a] # None /\ task[a].node = r.node /\ task[a].ep = r.ep
  <2> DEFINE x == CHOOSE y \in task[a].gids : TRUE
             t == IF task[a].at = "add" THEN dgm_tbl_add(dgm_load, task[a].node, task[a].ep, x)
                  ELSE dgm_tbl_remove(dgm_load, task[a].node, task[a].ep, x)
  <2>1. /\ task[a] # None /\ task[a].node \in Node /\ task[a].ep \in EndPoint /\ x \in Group
        /\ Save(t, ok) /\ map1' = map1
    BY <1>9 DEF MirrorCommand, MirTypes, On
  <2>6. /\ dgm_tbl_add(dgm_load, task[a].node, task[a].ep, x) \in SUBSET Row
        /\ dgm_tbl_remove(dgm_load, task[a].node, task[a].ep, x) \in SUBSET Row
    <3> HIDE DEF x
    <3> QED BY <1>6, <2>1, TableTypes
  <2>2. t \in SUBSET Row
    BY <2>6
  <2>3. dgm_load' = t
    BY <1>8, <2>1, <2>2
  <2>4. task[a].at # "add"
    BY <1>1, <1>3, <2>3, AddKeeps
  <2>5. r \notin dgm_tbl_remove(dgm_load, task[a].node, task[a].ep, x)
    BY <1>4, <2>3, <2>4
  <2> QED
    BY <1>2, <2>1, <2>5, RowsLeft
<1>10. ASSUME NEW a \in Asker, NEW ok \in BOOLEAN, SetMirror(a, ok)
       PROVE  task[a] # None /\ task[a].node = r.node /\ task[a].ep = r.ep
  <2>1. /\ task[a] # None /\ task[a].node \in Node /\ task[a].ep \in EndPoint
        /\ task[a].gids \in SUBSET Group /\ map1' = map1
    BY <1>10 DEF SetMirror, MirTypes, On
  <2>2. PICK t \in dgm_tbl_set(dgm_load, task[a].node, task[a].ep, task[a].gids) : Save(t, ok)
    BY <1>10 DEF SetMirror
  <2>3. t \in SUBSET Row
    BY <1>6, <2>1, <2>2, SetTypes
  <2>4. dgm_load' = t
    BY <1>8, <2>1, <2>2, <2>3
  <2> QED
    BY <1>2, <1>4, <2>1, <2>2, <2>4, RowsLeft
<1>11. ASSUME NEW a \in Asker, NEW ok \in BOOLEAN, ForgetRows(a, ok)
       PROVE  task[a] # None /\ task[a].node = r.node /\ task[a].at = "forget"
  <2>1. task[a] # None /\ task[a].at = "forget" /\ map1' = map1
    BY <1>11 DEF ForgetRows, On
  <2>2. PICK o \in BOOLEAN : Save(dgm_tbl_forget(dgm_load, task[a].node), o)
    BY <1>11 DEF ForgetRows
  <2>3. dgm_tbl_forget(dgm_load, task[a].node) \in SUBSET Row
    BY <1>6 DEF dgm_tbl_forget
  <2>4. dgm_load' = dgm_tbl_forget(dgm_load, task[a].node)
    BY <1>8, <2>1, <2>2, <2>3
  <2> QED
    BY <1>4, <2>1, <2>4 DEF dgm_tbl_forget
<1>12. ASSUME NEW ready \in BOOLEAN, NEW ok \in BOOLEAN, MirBoot(ready, ok) PROVE FALSE
  <2> DEFINE seen == IF ready THEN paired ELSE {}
             kept == {q \in dgm_load : q.node \in seen}
  <2>1. Save(kept, ok /\ Prunes(seen) /\ kept # dgm_load) /\ map1' = map1 /\ paired' = paired
    BY <1>12 DEF MirBoot
  <2>2. Prunes(seen) /\ map2' = kept
    BY <1>5, <2>1 DEF Save
  <2>3. seen = paired
    BY <2>2 DEF Prunes
  <2>4. r \in kept
    BY <1>2, <2>1, <2>3
  <2>5. dgm_load' = kept
    BY <1>6, <2>2, MirrorAssumption DEF dgm_load
  <2> QED BY <1>4, <2>4, <2>5
<1>13. ~UNCHANGED mirVars
  BY <1>5 DEF mirVars
<1>14. \A a \in Asker, d \in Node, e \in EndPoint :
         /\ \A g2 \in Group, w \in {"add", "remove"}, y, z \in BOOLEAN : ~Send(a, w, d, e, g2, y, z)
         /\ \A y \in BOOLEAN : ~Ask(a, d, e, y)
  BY <1>5 DEF Send, Ask
<1>15. \A a \in Asker, d \in Node : ~Remove(a, d)
  BY <1>5 DEF Remove
<1>16. \A a \in Asker : ~Take(a) /\ ~NoAnswer(a)
  BY <1>5 DEF Take, NoAnswer
<1>17. \A y \in air, z \in BOOLEAN : ~Feed(y, z)
  BY <1>5 DEF Feed
<1>18. \A d \in Node : ~MirPair(d)
  BY <1>5 DEF MirPair
<1>19. \E a \in Asker, ok \in BOOLEAN : MirrorCommand(a, ok) \/ SetMirror(a, ok) \/ ForgetRows(a, ok)
  BY <1>7, <1>12, <1>13, <1>14, <1>15, <1>16, <1>17, <1>18 DEF MirNext
<1> QED
  BY <1>2, <1>9, <1>10, <1>11, <1>19

\* An endpoint's memberships go by a command on that endpoint or with the device only, for
\* any number of devices, endpoints and tasks, and whatever answers come late or twice
\* (dgm_tbl_set, dgm_prune).
THEOREM MembershipsStay == MirSpec => OnlyItsOwn
<1>1. MirTypes /\ MirTypes' /\ [MirNext]_mirVars =>
        [\A m \in InMirror : m[1] \in paired' /\ m \notin InMirror' =>
           \E a \in Asker : task[a] # None /\ task[a].node = m[1]
                            /\ (task[a].ep = m[2] \/ task[a].at = "forget")]_mirVars
  BY OnlyOwnStep
<1> QED
  BY <1>1, MirTypesInit, MirTypesStep, PTL DEF MirSpec, OnlyItsOwn

=============================================================================
