------------------------------- MODULE Options -------------------------------
(***************************************************************************)
(* Per-device options (device_options.cpp): set in device_shadow and in    *)
(* NVS, restored at boot, forgotten with the device; and their move from   *)
(* the old record keys.  Set runs on the task of the caller and takes no   *)
(* lock.                                                                   *)
(***************************************************************************)
EXTENDS Naturals, FiniteSets

CONSTANTS
    Device,           \* devices that may pair
    Setter,           \* the tasks that set options: "httpd", where a delete runs too, and "relay"
    MaxValue,         \* the largest value in range
    NoOpts,           \* an option never set
    PoolFaults,       \* may a boot come up without its pool before all records moved?
    OptionKey         \* which options are set (debounce_ms, flood_protection, throttle_ms)

ASSUME OptionsAssumption ==
    /\ MaxValue \in Nat
    /\ NoOpts \notin 0..MaxValue
    /\ PoolFaults \in BOOLEAN
    /\ "httpd" \in Setter
    /\ OptionKey \subseteq {"debounce_ms", "flood_protection", "throttle_ms"}

VARIABLES
    pool,     \* devices in the pool; the store's copy survives
    removed,  \* the soft-removed ones
    up,       \* "off"; booting with "store" or "no_store"; "on", or "blank" without pool
    shadow,   \* what device_shadow applies now: debounce and throttle
    stored,   \* zhac_opt, by the device's whole address
    old,      \* records still under an old key, by owner
    req,      \* per task, the request it is on
    due,      \* what the answers promised, per device and option
    leaving   \* the device whose remove still has its options to forget

optVars == <<pool, removed, up, shadow, stored, old, req, due, leaving>>

-----------------------------------------------------------------------------

Value    == 0..MaxValue
Object   == [OptionKey -> Value \cup {NoOpts}]
Empty    == [k \in OptionKey |-> NoOpts]
Effects  == {"debounce", "throttle"}
Untold   == [e \in Effects |-> NoOpts]
Idle     == [at |-> "idle"]

OptTypeOK ==
    /\ removed \subseteq pool /\ pool \subseteq Device
    /\ up \in {"off", "store", "no_store", "on", "blank"}
    /\ shadow \in [Device -> [Effects -> Value \cup {NoOpts}]]
    /\ stored \in [Device -> Object] /\ old \in [Device -> Object]
    /\ \A t \in Setter : req[t] = Idle \/ req[t] \in
           [at : {"apply", "read", "write"}, dev : Device, opts : Object, base : Object]
    /\ due \in [Device -> Object]
    /\ leaving \subseteq Device

\* A hub with devices of an older version, options under the old keys.
OptInit ==
    /\ pool \in SUBSET Device /\ removed = {} /\ up = "off"
    /\ shadow = [d \in Device |-> Untold]
    /\ stored = [d \in Device |-> Empty]
    /\ old \in {[d \in Device |-> IF d \in p THEN o ELSE Empty] : p \in SUBSET pool, o \in Object}
    /\ req = [t \in Setter |-> Idle]
    /\ due = old /\ leaving = {}

-----------------------------------------------------------------------------

Merge(base, o) == [k \in OptionKey |-> IF o[k] # NoOpts THEN o[k] ELSE base[k]]

Given(o, k) == k \in OptionKey /\ o[k] # NoOpts

\* apply_opts: flood_protection is a debounce window, an explicit debounce_ms wins.
apply_opts(s, o) ==
    [debounce |-> IF Given(o, "debounce_ms") THEN o["debounce_ms"]
                  ELSE IF Given(o, "flood_protection") THEN o["flood_protection"] ELSE s.debounce,
     throttle |-> IF Given(o, "throttle_ms") THEN o["throttle_ms"] ELSE s.throttle]

in_pool(d, active) == d \in pool /\ ~(active /\ d \in removed)

Going(t, d, at, o, b) == req' = [req EXCEPT ![t] = [at |-> at, dev |-> d, opts |-> o, base |-> b]]
Done(t) == req' = [req EXCEPT ![t] = Idle]

\* A request withdraws what was promised of the options it sets, and of a debounce the flood
\* protection is set over.
Withdrawn(o, k) == o[k] # NoOpts \/ (k = "debounce_ms" /\ Given(o, "flood_protection"))

\* device_options_set: refused for a device that is not paired, then the shadow, the
\* stored record and the write of the two merged.
SetOptions(t, d, o) ==
    /\ up = "on" /\ req[t] = Idle /\ o # Empty /\ (t = "httpd" => leaving = {})
    /\ in_pool(d, TRUE)
    /\ Going(t, d, "apply", o, Empty)
    /\ UNCHANGED <<pool, removed, up, shadow, stored, old, due, leaving>>

SetApply(t) ==
    LET r == req[t] IN
    /\ r.at = "apply"
    /\ shadow' = [shadow EXCEPT ![r.dev] = apply_opts(@, r.opts)]
    /\ due' = [due EXCEPT ![r.dev] = [k \in OptionKey |-> IF Withdrawn(r.opts, k) THEN NoOpts ELSE @[k]]]
    /\ Going(t, r.dev, "read", r.opts, Empty)
    /\ UNCHANGED <<pool, removed, up, stored, old, leaving>>

SetRead(t) ==
    LET r == req[t] IN
    /\ r.at = "read"
    /\ Going(t, r.dev, "write", r.opts, stored[r.dev])
    /\ UNCHANGED <<pool, removed, up, shadow, stored, old, due, leaving>>

\* Mutant of Merged: what is stored is replaced.
MergedReplace(r) == r.opts

Merged(r) == Merge(r.base, r.opts)

SetWrite(t, ok) ==
    LET r == req[t] IN
    /\ r.at = "write"
    /\ stored' = IF ok THEN [stored EXCEPT ![r.dev] = Merged(r)] ELSE stored
    /\ due' = IF ok THEN [due EXCEPT ![r.dev] = Merge(@, r.opts)] ELSE due
    /\ Done(t)
    /\ UNCHANGED <<pool, removed, up, shadow, old, leaving>>

-----------------------------------------------------------------------------

Pair(d) ==
    /\ up = "on" /\ d \notin pool \ removed
    /\ pool' = pool \cup {d} /\ removed' = removed \ {d}
    /\ UNCHANGED <<up, shadow, stored, old, req, due, leaving>>

SoftRemove(d) ==
    /\ up = "on" /\ d \in pool \ removed
    /\ removed' = removed \cup {d}
    /\ UNCHANGED <<pool, up, shadow, stored, old, req, due, leaving>>

\* A hard remove takes the device and its shadow entry, then its hook the options.
HardRemove(d) ==
    /\ up = "on" /\ d \in pool /\ leaving = {}
    /\ req["httpd"] = Idle
    /\ pool' = pool \ {d} /\ removed' = removed \ {d}
    /\ shadow' = [shadow EXCEPT ![d] = Untold]
    /\ due' = [due EXCEPT ![d] = Empty]
    /\ leaving' = {d}
    /\ UNCHANGED <<up, stored, old, req>>

Forget(ok) ==
    /\ leaving # {}
    /\ stored' = IF ok THEN [d \in Device |-> IF d \in leaving THEN Empty ELSE stored[d]] ELSE stored
    /\ leaving' = {}
    /\ UNCHANGED <<pool, removed, up, shadow, old, req, due>>

-----------------------------------------------------------------------------

OptPowerCut ==
    /\ up' = "off"
    /\ shadow' = [d \in Device |-> Untold]
    /\ req' = [t \in Setter |-> Idle] /\ leaving' = {}
    /\ UNCHANGED <<pool, removed, stored, old, due>>

\* The store gives the pool back or it does not; then the pool of this boot is empty.
BootPool(ok) ==
    /\ up = "off" /\ (ok \/ PoolFaults \/ \A d \in Device : old[d] = Empty)
    /\ up' = IF ok THEN "store" ELSE "no_store"
    /\ UNCHANGED <<pool, removed, shadow, stored, old, req, due, leaving>>

Known == IF up = "store" THEN pool ELSE {}

\* migrate_old_keys, a record of a device that is here: moved unless there is a newer
\* one, and erased only then.
MoveOld(d) ==
    /\ up = "store" /\ d \in Known /\ old[d] # Empty /\ stored[d] = Empty
    /\ stored' = [stored EXCEPT ![d] = old[d]]
    /\ UNCHANGED <<pool, removed, up, shadow, old, req, due, leaving>>

MayErase(d) == d \in Known => stored[d] # Empty

\* A record nobody here owns is dropped.
EraseOld(d) ==
    /\ up \in {"store", "no_store"} /\ old[d] # Empty /\ MayErase(d)
    /\ old' = [old EXCEPT ![d] = Empty]
    /\ UNCHANGED <<pool, removed, up, shadow, stored, req, due, leaving>>

\* Records of devices not in a pool that came from a working store.
Stale == IF up = "store" /\ pool # {} THEN Device \ pool ELSE {}

\* device_options_restore_all after the move (a record that could not be moved stays
\* old, and the next set supersedes it): each record is applied, the stale ones erased.
Restore(gone) ==
    /\ up \in {"store", "no_store"} /\ gone \subseteq Stale
    /\ \A d \in Device : old[d] = Empty \/ (d \in Known /\ stored[d] = Empty)
    /\ up' = IF up = "store" THEN "on" ELSE "blank"
    /\ shadow' = [d \in Device |-> IF in_pool(d, FALSE) /\ d \in Known
                                   THEN apply_opts(shadow[d], stored[d]) ELSE shadow[d]]
    /\ stored' = [d \in Device |-> IF d \in gone THEN Empty ELSE stored[d]]
    /\ due' = [d \in Device |-> IF old[d] = Empty THEN due[d] ELSE Empty]
    /\ UNCHANGED <<pool, removed, old, req, leaving>>

OptNext ==
    \/ \E t \in Setter, d \in Device, o \in Object : SetOptions(t, d, o)
    \/ \E t \in Setter, ok \in BOOLEAN : SetApply(t) \/ SetRead(t) \/ SetWrite(t, ok)
    \/ \E d \in Device : Pair(d) \/ SoftRemove(d) \/ HardRemove(d) \/ MoveOld(d) \/ EraseOld(d)
    \/ \E ok \in BOOLEAN : Forget(ok) \/ BootPool(ok)
    \/ \E gone \in SUBSET Device : Restore(gone)
    \/ OptPowerCut

OptSpec == OptInit /\ [][OptNext]_optVars

-----------------------------------------------------------------------------

\* No option a caller was promised is lost while its device stays: not to another
\* option set later, a failed write, a power cut or the move to the new keys ("the
\* stored object is what device_options_restore_all() applies at boot"); and the
\* device does what was promised, now and after each restart, also when it was
\* soft-removed meanwhile.
PromisedOptionKept ==
    \A d \in pool, k \in OptionKey :
        due[d][k] # NoOpts =>
            /\ due[d][k] = (IF stored[d] # Empty THEN stored[d][k] ELSE old[d][k])
            /\ up = "on" /\ k = "throttle_ms" => shadow[d].throttle = due[d][k]
            /\ up = "on" /\ k = "debounce_ms" => shadow[d].debounce = due[d][k]

=============================================================================
