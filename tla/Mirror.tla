-------------------------------- MODULE Mirror --------------------------------
(***************************************************************************)
(* Which Zigbee groups each device endpoint is in: the device's own table, *)
(* the hub's mirror of it in NVS (dgm_store.cpp), the commands that change *)
(* both (ws_bridge.cpp) and the query that reads the device's              *)
(* (esp_zb_groups.cpp), whose answer may come late or not at all.          *)
(***************************************************************************)
EXTENDS Naturals, FiniteSets

CONSTANTS
    Node,             \* devices
    EndPoint,         \* their endpoints; 1 is the one of the old table
    Group,            \* group ids
    MaxRows,          \* DGM_MAX_DEVS
    MaxGids,          \* DGM_MAX_GIDS
    Asker,            \* tasks that run the commands
    MaxTsn,           \* bound: queries and commands of a behaviour
    None              \* no table; nobody

Row == [node : Node, ep : EndPoint, gids : SUBSET Group]

ASSUME MirrorAssumption ==
    /\ 1 \in EndPoint /\ MaxRows \in Nat \ {0} /\ MaxGids \in Nat \ {0} /\ MaxTsn \in Nat
    /\ \A rows \in SUBSET Row : None # rows

VARIABLES
    paired,   \* the device store
    trusted,  \* did this boot's pool come from a working store?
    member,   \* the devices' own group tables
    map2,     \* zhac_gm/map2: the rows, or None
    map1,     \* zhac_gm/map, the table before endpoints
    tsn,      \* zcl_seq
    slot,     \* s_member_*: who asks, and what
    buf,      \* s_member_buf, once answered
    air,      \* answers on their way
    task      \* per task, the command it is on

mirVars == <<paired, trusted, member, map2, map1, tsn, slot, buf, air, task>>

-----------------------------------------------------------------------------

Query  == [node : Node, ep : EndPoint, tsn : 1..MaxTsn]
Answer == [node : Node, ep : EndPoint, tsn : 1..MaxTsn, gids : SUBSET Group]

\* One row per endpoint, none empty, neither cap passed.
Table(t) ==
    /\ t \subseteq Row /\ Cardinality(t) <= MaxRows
    /\ \A r \in t : r.gids # {} /\ Cardinality(r.gids) <= MaxGids
    /\ \A r, q \in t : r.node = q.node /\ r.ep = q.ep => r = q

MirTypeOK ==
    /\ paired \subseteq Node /\ trusted \in BOOLEAN
    /\ member \in [Node \X EndPoint -> SUBSET Group]
    /\ (map2 = None \/ Table(map2)) /\ (map1 = None \/ Table(map1))
    /\ tsn \in 0..MaxTsn
    /\ (slot = None \/ slot \in Query) /\ (buf = None \/ buf \in Answer)
    /\ air \subseteq Answer
    /\ \A a \in Asker : task[a] = None \/ task[a] \in
           [at : {"add", "remove", "ask", "set", "forget"}, node : Node, ep : EndPoint,
            gids : SUBSET Group]

-----------------------------------------------------------------------------
\* The table's operations.

At(t, d, e) == {r \in t : r.node = d /\ r.ep = e}

Entry(d, e, gs) == [node |-> d, ep |-> e, gids |-> gs]

\* A full row or table takes no more; the caller is not told.
dgm_tbl_add(t, d, e, g) ==
    LET row == At(t, d, e) IN
    IF row = {} THEN IF Cardinality(t) < MaxRows THEN t \cup {Entry(d, e, {g})} ELSE t
    ELSE {IF r \notin row \/ Cardinality(r.gids) >= MaxGids THEN r
          ELSE Entry(d, e, r.gids \cup {g}) : r \in t}

dgm_tbl_remove(t, d, e, g) ==
    {r \in {IF r \in At(t, d, e) THEN Entry(d, e, r.gids \ {g}) ELSE r : r \in t} : r.gids # {}}

dgm_tbl_forget(t, d) == {r \in t : r.node # d}

\* Mutant of Others: the device's other endpoints go too.
OthersByNode(t, d, e) == {r \in t : r.node # d}

Others(t, d, e) == t \ At(t, d, e)

\* The endpoint's row goes and comes back with what the device said, up to the cap.
dgm_tbl_set(t, d, e, gs) ==
    LET rest == Others(t, d, e) IN
    {IF gs = {} \/ Cardinality(rest) >= MaxRows THEN rest ELSE rest \cup {Entry(d, e, k)} :
        k \in {k \in SUBSET gs : Cardinality(k) = IF Cardinality(gs) < MaxGids
                                                  THEN Cardinality(gs) ELSE MaxGids}}

Rows(t) == IF t = None THEN {} ELSE t

\* dgm_load: map2, or else the table before endpoints.
dgm_load == IF map2 = None THEN Rows(map1) ELSE map2

InMirror == UNION {{<<r.node, r.ep, g>> : g \in r.gids} : r \in dgm_load}

MirInit ==
    /\ paired \in SUBSET Node /\ trusted = (paired # {})
    /\ member \in [Node \X EndPoint -> SUBSET Group]
    /\ map2 = None
    /\ map1 \in {None} \cup {t \in SUBSET [node : paired, ep : {1}, gids : SUBSET Group] : Table(t)}
    /\ tsn = 0 /\ slot = None /\ buf = None /\ air = {}
    /\ task = [a \in Asker |-> None]

-----------------------------------------------------------------------------

Task(at, d, e, gs) == [at |-> at, node |-> d, ep |-> e, gids |-> gs]
Begin(a, r) == task' = [task EXCEPT ![a] = r]
End(a)      == task' = [task EXCEPT ![a] = None]
On(a, at)   == task[a] # None /\ task[a].at = at

\* dgm_save: the table, or nothing when flash fails.
Save(t, ok) == map2' = IF ok THEN t ELSE map2

\* A load finds only the old table: it is saved in the new layout and erased then.
\* A failing write or a power cut leaves off in between.
Migrated == [saved : {TRUE}, erased : BOOLEAN]

Migrate(m) ==
    /\ map2 = None /\ map1 # None
    /\ map2' = IF m.saved THEN map1 ELSE None
    /\ map1' = IF m.erased THEN None ELSE map1
    /\ UNCHANGED <<paired, trusted, member, tsn, slot, buf, air, task>>

\* cmd_device_groups_add_remove: the radio first.  A device may refuse what it got, or
\* have got what the radio calls failed; only an accepted frame goes to the mirror.
Send(a, at, d, e, g, accepted, took) ==
    /\ task[a] = None /\ d \in paired /\ trusted
    /\ member' = IF ~took THEN member
                 ELSE [member EXCEPT ![<<d, e>>] = IF at = "add" THEN @ \cup {g} ELSE @ \ {g}]
    /\ IF accepted THEN Begin(a, Task(at, d, e, {g})) ELSE UNCHANGED task
    /\ UNCHANGED <<paired, trusted, map2, map1, tsn, slot, buf, air>>

MirrorCommand(a, ok) ==
    LET r == task[a]
        g == CHOOSE x \in r.gids : TRUE
    IN  /\ On(a, "add") \/ On(a, "remove")
        /\ Save(IF r.at = "add" THEN dgm_tbl_add(dgm_load, r.node, r.ep, g)
                ELSE dgm_tbl_remove(dgm_load, r.node, r.ep, g), ok)
        /\ End(a)
        /\ UNCHANGED <<paired, trusted, member, map1, tsn, slot, buf, air>>

\* cmd_device_groups_refresh, zigbee_zcl_get_group_membership: one query at a time.  A
\* late answer's post is drained and the slot armed before the frame goes out; the
\* answer holds the device's table as it is then.
Ask(a, d, e, answered) ==
    /\ task[a] = None /\ d \in paired /\ trusted /\ tsn < MaxTsn
    /\ \A b \in Asker : ~On(b, "ask")
    /\ tsn' = tsn + 1
    /\ buf' = None /\ slot' = [node |-> d, ep |-> e, tsn |-> tsn + 1]
    /\ air' = IF ~answered THEN air
              ELSE air \cup {[node |-> d, ep |-> e, tsn |-> tsn + 1, gids |-> member[<<d, e>>]]}
    /\ Begin(a, Task("ask", d, e, {}))
    /\ UNCHANGED <<paired, trusted, member, map2, map1>>

Matches(x) == slot # None /\ [node |-> x.node, ep |-> x.ep, tsn |-> x.tsn] = slot

\* zb_groups_feed_zcl, on the stack's task: sooner, later, or twice.
Feed(x, again) ==
    /\ x \in air
    /\ air' = IF again THEN air ELSE air \ {x}
    /\ IF Matches(x) THEN buf' = x /\ slot' = None ELSE UNCHANGED <<buf, slot>>
    /\ UNCHANGED <<paired, trusted, member, map2, map1, tsn, task>>

Take(a) ==
    /\ On(a, "ask") /\ buf # None
    /\ Begin(a, Task("set", task[a].node, task[a].ep, buf.gids))
    /\ slot' = None
    /\ UNCHANGED <<paired, trusted, member, map2, map1, tsn, buf, air>>

\* Five seconds, or an answer cut short: the mirror stays as it is.
NoAnswer(a) ==
    /\ On(a, "ask")
    /\ slot' = None /\ End(a)
    /\ UNCHANGED <<paired, trusted, member, map2, map1, tsn, buf, air>>

SetMirror(a, ok) ==
    LET r == task[a] IN
    /\ On(a, "set")
    /\ \E t \in dgm_tbl_set(dgm_load, r.node, r.ep, r.gids) : Save(t, ok)
    /\ End(a)
    /\ UNCHANGED <<paired, trusted, member, map1, tsn, slot, buf, air>>

-----------------------------------------------------------------------------

\* The device store takes a newcomer, whose own table is empty.
MirPair(d) ==
    /\ d \notin paired /\ trusted
    /\ paired' = paired \cup {d}
    /\ member' = [k \in DOMAIN member |-> IF k[1] = d THEN {} ELSE member[k]]
    /\ UNCHANGED <<trusted, map2, map1, tsn, slot, buf, air, task>>

\* A hard remove: out of the pool, then the hook drops its rows.
Remove(a, d) ==
    /\ task[a] = None /\ d \in paired /\ trusted
    /\ paired' = paired \ {d}
    /\ Begin(a, Task("forget", d, 1, {}))
    /\ UNCHANGED <<trusted, member, map2, map1, tsn, slot, buf, air>>

ForgetRows(a, ok) ==
    /\ On(a, "forget")
    /\ Save(dgm_tbl_forget(dgm_load, task[a].node),
            ok /\ \E r \in dgm_load : r.node = task[a].node)
    /\ End(a)
    /\ UNCHANGED <<paired, trusted, member, map1, tsn, slot, buf, air>>

\* Only when the pool came from a working store and is not empty.
Prunes(pool) == pool # {}

\* Any reset, and the boot's prune with the pool there is.
MirBoot(ready, ok) ==
    LET pool == IF ready THEN paired ELSE {}
        kept == {r \in dgm_load : r.node \in pool}
    IN  /\ trusted' = ready
        /\ Save(kept, ok /\ Prunes(pool) /\ kept # dgm_load)
        /\ task' = [a \in Asker |-> None] /\ slot' = None /\ buf' = None
        /\ UNCHANGED <<paired, member, map1, tsn, air>>

MirNext ==
    \/ \E m \in Migrated : Migrate(m)
    \/ \E a \in Asker, d \in Node :
         \/ \E e \in EndPoint, g \in Group, at \in {"add", "remove"}, accepted, took \in BOOLEAN :
              Send(a, at, d, e, g, accepted, took)
         \/ \E e \in EndPoint, answered \in BOOLEAN : Ask(a, d, e, answered)
         \/ Remove(a, d)
    \/ \E a \in Asker, ok \in BOOLEAN : MirrorCommand(a, ok) \/ SetMirror(a, ok) \/ ForgetRows(a, ok)
    \/ \E a \in Asker : Take(a) \/ NoAnswer(a)
    \/ \E x \in air, again \in BOOLEAN : Feed(x, again)
    \/ \E d \in Node : MirPair(d)
    \/ \E ready, ok \in BOOLEAN : MirBoot(ready, ok)

MirSpec == MirInit /\ [][MirNext]_mirVars

-----------------------------------------------------------------------------

\* An endpoint's memberships change only by a command on that endpoint, or with the
\* device: not by a refresh of another endpoint (review F18), not by a device that
\* does not answer, not by a boot without the pool.
OnlyItsOwn ==
    [][\A m \in InMirror : m[1] \in paired' /\ m \notin InMirror' =>
          \E a \in Asker : task[a] # None /\ task[a].node = m[1]
                           /\ (task[a].ep = m[2] \/ task[a].at = "forget")]_mirVars

=============================================================================
