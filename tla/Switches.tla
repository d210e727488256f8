------------------------------- MODULE Switches -------------------------------
(***************************************************************************)
(* The settings the cloud is told of (sys_state.cpp, system_apply_settings *)
(* of api_system.cpp): "allow script changes from the cloud" and "log to   *)
(* cloud", each in RAM and in NVS, with writes that fail.                  *)
(***************************************************************************)
EXTENDS Naturals

CONSTANTS NoKey, Unsure   \* a key a request does not carry; a setting nobody was promised

VARIABLES
    live,     \* s_remote_scripts, s_log_cloud
    saved,    \* sys_cfg/remote_scripts, sys_cfg/log_cloud
    linked,   \* is the cloud link up?
    caps,     \* what the cloud was told last (hub.caps, remote.auth)
    told      \* what the last answer promised

switchVars == <<live, saved, linked, caps, told>>

-----------------------------------------------------------------------------

Level    == 0..3
Settings == [scripts : BOOLEAN, log : Level]
Default  == [scripts |-> FALSE, log |-> 0]
BadLevel == 4
Request  == [tz : {"ok", "bad"}, scripts : BOOLEAN \cup {NoKey}, log : Level \cup {NoKey, BadLevel}]

SwitchTypeOK ==
    /\ live \in Settings /\ saved \in Settings /\ caps \in Settings
    /\ linked \in BOOLEAN
    /\ told \in [scripts : BOOLEAN \cup {Unsure}, log : Level \cup {Unsure}]

SwitchInit ==
    /\ live = Default /\ saved = Default /\ caps = Default
    /\ linked = FALSE
    /\ told = [scripts |-> FALSE, log |-> 0]

-----------------------------------------------------------------------------

\* A write that fails may have reached the flash all the same.
Write == {"done", "lost", "in_doubt"}

\* sys_remote_scripts_after_save: off applies at once, on only once it is saved.
after_save(on, w) == on /\ w = "done"

\* A request on its way: what RAM and NVS hold, and whether it is fine so far.
Before == [live |-> live, saved |-> saved, ok |-> TRUE]

sys_set_remote_scripts(st, on, w) ==
    [live  |-> [st.live EXCEPT !.scripts = after_save(on, w)],
     saved |-> IF w = "lost" THEN st.saved ELSE [st.saved EXCEPT !.scripts = on],
     ok    |-> w = "done"]

sys_set_log_cloud(st, level, w) ==
    [live  |-> IF w = "done" THEN [st.live EXCEPT !.log = level] ELSE st.live,
     saved |-> IF w = "lost" THEN st.saved ELSE [st.saved EXCEPT !.log = level],
     ok    |-> w = "done"]

TimezoneKey(st, r) == [st EXCEPT !.ok = r.tz # "bad"]

\* Mutant of ScriptsKey: off is not saved again when RAM says off already.
ScriptsKeyLazy(st, r, w) ==
    IF ~st.ok \/ r.scripts = NoKey \/ r.scripts = st.live.scripts THEN st
    ELSE sys_set_remote_scripts(st, r.scripts, w)

\* On means saved, so on again needs nothing; off is saved again.
ScriptsKey(st, r, w) ==
    IF ~st.ok \/ r.scripts = NoKey \/ (r.scripts = TRUE /\ st.live.scripts) THEN st
    ELSE sys_set_remote_scripts(st, r.scripts, w)

LogKey(st, r, w) ==
    IF ~st.ok \/ r.log = NoKey THEN st
    ELSE IF r.log = BadLevel THEN [st EXCEPT !.ok = FALSE]
    ELSE sys_set_log_cloud(st, r.log, w)

\* ws_push_hub_caps after a change.
Told(l) == IF linked /\ l # live THEN l ELSE caps

\* system_apply_settings: the keys in their order, up to the first that is refused
\* or not saved.  What came before it stays applied.
Apply(r, w1, w2) ==
    LET st == LogKey(ScriptsKey(TimezoneKey(Before, r), r, w1), r, w2)
    IN  /\ live' = st.live /\ saved' = st.saved
        /\ caps' = Told(st.live)
        /\ told' = [k \in DOMAIN told |-> IF r[k] = NoKey THEN told[k]
                                          ELSE IF st.ok THEN r[k] ELSE Unsure]
        /\ UNCHANGED linked

\* remote.auth carries the switches (remote_hello_extra).
LinkUp   == ~linked /\ linked' = TRUE /\ caps' = live /\ UNCHANGED <<live, saved, told>>
LinkDown == linked /\ linked' = FALSE /\ UNCHANGED <<live, saved, caps, told>>

\* sys_state_init.
SwitchBoot ==
    /\ live' = saved /\ linked' = FALSE
    /\ UNCHANGED <<saved, caps, told>>

SwitchNext ==
    \/ \E r \in Request, w1, w2 \in Write : Apply(r, w1, w2)
    \/ LinkUp \/ LinkDown \/ SwitchBoot

SwitchSpec == SwitchInit /\ [][SwitchNext]_switchVars

-----------------------------------------------------------------------------

\* What the page was told is so, and stays so over any restart; the switch is never
\* on without being saved, also when it was not (sys_state.h:51); and while the link
\* is up the cloud knows what the hub lets it do.
PromiseKept ==
    /\ \A k \in DOMAIN told : told[k] # Unsure => live[k] = told[k] /\ saved[k] = told[k]
    /\ live.scripts => saved.scripts
    /\ linked => caps = live

=============================================================================
