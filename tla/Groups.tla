------------------------------- MODULE Groups --------------------------------
(***************************************************************************)
(* Device groups (groups_store.cpp, api_groups.cpp): a bitmap of the used  *)
(* slots and one record per slot in NVS.  A store operation holds the      *)
(* store's lock and makes its flash writes in order; each may fail, and    *)
(* the power may be cut between two of them.                               *)
(***************************************************************************)
EXTENDS Naturals, Sequences, FiniteSets

CONSTANTS
    MaxGroups,        \* GRP_MAX_GROUPS
    Content,          \* names and members a group can have
    NoRec, Unsure,    \* an erased record; a group nothing is promised about
    Caller, May       \* the tasks that answer requests, and the commands of each

Command == {"create", "update", "delete"}

ASSUME GroupsAssumption ==
    /\ MaxGroups \in Nat \ {0}
    /\ NoRec \notin Content /\ Unsure \notin Content \cup {NoRec}
    /\ May \in [Caller -> SUBSET Command]

Id == 1..MaxGroups

VARIABLES
    bmp,      \* zhac_grp/bmp, the set of marked slots
    rec,      \* zhac_grp/g%04x
    op,       \* the operation that holds the lock
    todo,     \* the flash writes it has left
    found,    \* per caller, the group an update has read
    said      \* what the last answer about a slot promised

grpVars == <<bmp, rec, op, todo, found, said>>

-----------------------------------------------------------------------------

Free    == [by |-> NoRec, cmd |-> "none", id |-> 0]
Writes  == [key : {"rec"}, to : Content \cup {NoRec}] \cup [key : {"bmp"}, to : BOOLEAN]
Nothing == [id |-> 0, content |-> NoRec]

GrpTypeOK ==
    /\ bmp \subseteq Id
    /\ rec \in [Id -> Content \cup {NoRec}]
    /\ op \in [by : Caller, cmd : Command, id : Id] \cup {Free}
    /\ todo \in Seq(Writes) /\ Len(todo) <= 2 /\ (todo # <<>> <=> op # Free)
    /\ found \in [Caller -> [id : Id, content : Content] \cup {Nothing}]
    /\ said \in [Id -> Content \cup {NoRec, Unsure}]

GrpInit ==
    /\ bmp = {} /\ rec = [i \in Id |-> NoRec]
    /\ op = Free /\ todo = <<>> /\ found = [c \in Caller |-> Nothing]
    /\ said = [i \in Id |-> NoRec]

-----------------------------------------------------------------------------

\* What a list, a get and an update see: a record the bitmap marks.
Listed == {i \in bmp : rec[i] # NoRec}

grp_find(i) == i \in bmp /\ rec[i] # NoRec

\* The first clear bit; none when all are set.
grp_next_id == {i \in Id : i \notin bmp /\ \A j \in Id \ bmp : i <= j}

SetRec(c) == [key |-> "rec", to |-> c]
SetBit(b) == [key |-> "bmp", to |-> b]

grp_save(c) == <<SetRec(c), SetBit(TRUE)>>

\* Mutant of grp_delete: the record first.
grp_delete_rec_first == <<SetRec(NoRec), SetBit(FALSE)>>

grp_delete == <<SetBit(FALSE), SetRec(NoRec)>>

\* Take the lock for a command on a slot.  What was promised of it is open now.
Lock(c, cmd, i, writes) ==
    /\ op = Free
    /\ op' = [by |-> c, cmd |-> cmd, id |-> i] /\ todo' = writes
    /\ UNCHANGED <<bmp, rec>>

\* group_create: the id and the save under one lock.  A full table is refused.
Create(c, v) ==
    /\ "create" \in May[c] /\ found[c] = Nothing
    /\ \E i \in grp_next_id : Lock(c, "create", i, grp_save(v))
    /\ UNCHANGED <<found, said>>

\* group_update: the record is read under the lock, changed and saved under it
\* once more.
UpdateFind(c, i, v) ==
    /\ "update" \in May[c] /\ op = Free /\ found[c] = Nothing
    /\ grp_find(i)
    /\ found' = [found EXCEPT ![c] = [id |-> i, content |-> v]]
    /\ UNCHANGED <<bmp, rec, op, todo, said>>

UpdateSave(c) ==
    /\ found[c] # Nothing
    /\ Lock(c, "update", found[c].id, grp_save(found[c].content))
    /\ found' = [found EXCEPT ![c] = Nothing]
    /\ said' = [said EXCEPT ![found[c].id] = Unsure]

\* group_delete_req: also of a group that is not there.
Delete(c, i) ==
    /\ "delete" \in May[c] /\ found[c] = Nothing
    /\ Lock(c, "delete", i, grp_delete)
    /\ said' = [said EXCEPT ![i] = Unsure]
    /\ UNCHANGED found

\* The next write, and after the last one the answer.
Write ==
    LET w == Head(todo) IN
    /\ op # Free
    /\ bmp' = IF w.key # "bmp" THEN bmp
              ELSE IF w.to THEN bmp \cup {op.id} ELSE bmp \ {op.id}
    /\ rec' = IF w.key = "rec" THEN [rec EXCEPT ![op.id] = w.to] ELSE rec
    /\ todo' = Tail(todo)
    /\ IF Len(todo) > 1 THEN UNCHANGED <<op, said>>
       ELSE op' = Free /\ said' = [said EXCEPT ![op.id] = rec'[op.id]]
    /\ UNCHANGED found

\* A write fails: the rest is left and the answer is no.
WriteFails ==
    /\ op # Free
    /\ op' = Free /\ todo' = <<>>
    /\ UNCHANGED <<bmp, rec, found, said>>

PowerCut ==
    /\ op' = Free /\ todo' = <<>> /\ found' = [c \in Caller |-> Nothing]
    /\ UNCHANGED <<bmp, rec, said>>

GrpNext ==
    \/ \E c \in Caller, v \in Content : Create(c, v)
    \/ \E c \in Caller, v \in Content, i \in Id : UpdateFind(c, i, v)
    \/ \E c \in Caller : UpdateSave(c)
    \/ \E c \in Caller, i \in Id : Delete(c, i)
    \/ Write \/ WriteFails \/ PowerCut

GrpSpec == GrpInit /\ [][GrpNext]_grpVars

-----------------------------------------------------------------------------

\* No slot is lost: whatever fails and wherever the power is cut, a marked slot has
\* its record.  One without could be neither listed nor handed out again (the order
\* of the writes in grp_save and grp_delete).
NoSlotLost == \A i \in bmp : rec[i] # NoRec

\* What was answered is what the next list shows, over writes of other groups that fail and
\* over power cuts: nobody's create takes a group's slot, and no slot is lost for the next.
PromisedIsListed ==
    /\ NoSlotLost
    /\ \A i \in Id : said[i] # Unsure => said[i] = IF i \in Listed THEN rec[i] ELSE NoRec

=============================================================================
