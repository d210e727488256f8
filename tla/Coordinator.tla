----------------------------- MODULE Coordinator -----------------------------
(* The address the Zigbee network runs under (esp_zigbee_backend.cpp: the pin in NVS,      *)
(* applied before every start), the owner's network reset, which a mark in NVS carries     *)
(* over the restart, and the one-time repair of the binds made to a radio's own address.   *)
(* Every flash write is a step: the power may go between any two, and a write may fail.    *)
(* A radio is exchanged only while the power is off.                                       *)
EXTENDS FiniteSets, Naturals

CONSTANTS
    Mac,           \* the addresses of the radios
    NoMac,
    Member,        \* the devices of the store
    MaxCuts,       \* bounds: power cuts, failing writes, exchanged radios
    MaxFails,
    MaxSwaps

ASSUME NoMacAssumption == NoMac \notin Mac

Gone == [here |-> FALSE, matched |-> FALSE, fix |-> FALSE, done |-> FALSE]

VARIABLES
    pin, mark, repaired,     \* zb_coord/ieee, zb_coord/reset, the flag coord_rebind
    store,                   \* the device store: ZAP_DEV_FIX_BINDS and configure_state
    net,                     \* zb_storage holds a network
    mac,                     \* the radio's factory address
    home,                    \* the address a device joined under, and if it was pinned then
    binds,                   \* where a device reports to
    at,                      \* what zb_init or zigbee_force_recommission is at
    coord,                   \* s_coord_ieee
    devs,                    \* the pool
    unsaved, saved,          \* coordinator_rebind_once: marked, saved
    cuts, fails, swaps

flashVars == <<pin, mark, repaired, store, net>>
radioVars == <<mac, home, binds>>
ramVars   == <<coord, devs, unsaved, saved>>
budget    == <<cuts, fails, swaps>>
coordVars == <<flashVars, radioVars, ramVars, at, budget>>

Place == {"off", "unmark", "forget", "wipe", "unpin", "apply", "save", "flag", "net", "pin", "run", "drop"}
Rec   == [here : BOOLEAN, matched : BOOLEAN, fix : BOOLEAN, done : BOOLEAN]

CoordTypeOK ==
    /\ pin \in Mac \cup {NoMac} /\ mark \in BOOLEAN /\ repaired \in BOOLEAN
    /\ store \in [Member -> Rec] /\ devs \in [Member -> Rec] /\ net \in BOOLEAN
    /\ mac \in Mac /\ coord \in Mac \cup {NoMac}
    /\ home \in [Member -> [addr : Mac \cup {NoMac}, kept : BOOLEAN]]
    /\ binds \in [Member -> SUBSET Mac]
    /\ at \in Place /\ unsaved \in SUBSET Member /\ saved \in BOOLEAN
    /\ cuts \in 0..MaxCuts /\ fails \in 0..MaxFails /\ swaps \in 0..MaxSwaps

\* A hub that ran the release before the repair: pinned, perhaps with another radio since,
\* to whose own address that release bound the devices it configured.
CoordInit ==
    \E first \in Mac, m \in Mac, there \in SUBSET Member :
        /\ pin = first /\ mac = m /\ net = TRUE
        /\ store = [d \in Member |-> IF d \in there
                                    THEN [here |-> TRUE, matched |-> TRUE, fix |-> FALSE, done |-> TRUE]
                                    ELSE Gone]
        /\ home = [d \in Member |-> IF d \in there THEN [addr |-> first, kept |-> TRUE]
                                  ELSE [addr |-> NoMac, kept |-> FALSE]]
        /\ binds = [d \in Member |-> IF d \in there THEN {m} ELSE {}]
        /\ mark = FALSE /\ repaired = FALSE /\ at = "off"
        /\ coord = NoMac /\ devs = [d \in Member |-> Gone] /\ unsaved = {} /\ saved = TRUE
        /\ cuts = 0 /\ fails = 0 /\ swaps = 0

CanFail == fails < MaxFails /\ fails' = fails + 1

\* The pool is restored; network_reset_if_marked looks for its mark.
PowerOn ==
    /\ at = "off" /\ at' = IF mark THEN "unmark" ELSE "apply"
    /\ devs' = store
    /\ UNCHANGED <<flashVars, radioVars, coord, unsaved, saved, budget>>

\* The order of a careless reset: the pin goes before the partition.
Unmark_pin_first ==
    /\ at = "unmark" /\ mark' = FALSE /\ pin' = NoMac /\ at' = "forget"
    /\ UNCHANGED <<repaired, store, net, radioVars, ramVars, budget>>

Unmark ==
    /\ at = "unmark" /\ mark' = FALSE /\ at' = "forget"
    /\ UNCHANGED <<pin, repaired, store, net, radioVars, ramVars, budget>>

\* A mark that stays would erase the network at every boot: then nothing is erased.
UnmarkFails ==
    /\ at = "unmark" /\ CanFail /\ at' = "apply"
    /\ UNCHANGED <<flashVars, radioVars, ramVars, cuts, swaps>>

\* One device of forget_all_devices.
ForgetOne(d) ==
    /\ at \in {"forget", "drop"} /\ devs[d].here
    /\ devs' = [devs EXCEPT ![d] = Gone] /\ store' = [store EXCEPT ![d] = Gone]
    /\ UNCHANGED <<pin, mark, repaired, net, radioVars, coord, unsaved, saved, at, budget>>

\* All forgotten: a boot goes on to erase, a command restarts the hub.
Forgotten ==
    /\ at \in {"forget", "drop"} /\ \A d \in Member : ~devs[d].here
    /\ at' = IF at = "forget" THEN "wipe" ELSE "off"
    /\ UNCHANGED <<flashVars, radioVars, ramVars, budget>>

\* nvs_flash_erase_partition: the network's keys are gone, and it with them.
Wipe ==
    /\ at = "wipe" /\ net' = FALSE /\ at' = "unpin"
    /\ home' = [d \in Member |-> [addr |-> NoMac, kept |-> FALSE]] /\ binds' = [d \in Member |-> {}]
    /\ UNCHANGED <<pin, mark, repaired, store, mac, ramVars, budget>>

\* The old network stays, and the owner is asked in the log to run the reset again.
WipeFails ==
    /\ at = "wipe" /\ CanFail /\ at' = "apply"
    /\ UNCHANGED <<flashVars, radioVars, ramVars, cuts, swaps>>

Unpin ==
    /\ at = "unpin" /\ at' = "apply"
    /\ \/ pin' = NoMac /\ UNCHANGED fails
       \/ CanFail /\ UNCHANGED pin
    /\ UNCHANGED <<mark, repaired, store, net, radioVars, ramVars, cuts, swaps>>

Pinned == IF pin = NoMac THEN mac ELSE pin

ToRepair(c) ==
    IF mac = c \/ repaired THEN {} ELSE {d \in Member : devs[d].here /\ devs[d].matched}

\* coordinator_address_apply, and what coordinator_rebind_once does in RAM.
Apply ==
    /\ at = "apply" /\ coord' = Pinned
    /\ unsaved' = ToRepair(coord') /\ saved' = TRUE
    /\ devs' = [d \in Member |-> IF d \in unsaved' THEN [devs[d] EXCEPT !.fix = TRUE, !.done = FALSE]
                               ELSE devs[d]]
    /\ at' = IF mac = coord' \/ repaired THEN "net" ELSE "save"
    /\ UNCHANGED <<flashVars, radioVars, budget>>

SaveOne(d) ==
    /\ at = "save" /\ d \in unsaved /\ unsaved' = unsaved \ {d}
    /\ \/ store' = [store EXCEPT ![d] = devs[d]] /\ UNCHANGED <<saved, fails>>
       \/ CanFail /\ saved' = FALSE /\ UNCHANGED store
    /\ UNCHANGED <<pin, mark, repaired, net, radioVars, coord, devs, at, cuts, swaps>>

\* As if one lost save did not count.
MayFlag_any == saved \in BOOLEAN

MayFlag == saved

SetFlag ==
    /\ at = "save" /\ unsaved = {} /\ at' = "net"
    /\ \/ repaired' = (repaired \/ MayFlag) /\ UNCHANGED fails
       \/ CanFail /\ UNCHANGED repaired
    /\ UNCHANGED <<pin, mark, store, net, radioVars, ramVars, cuts, swaps>>

\* DEVICE_REBOOT or FORMATION: the network of zb_storage runs, or a new one.
NetworkRuns ==
    /\ at = "net" /\ net' = TRUE /\ at' = "pin"
    /\ UNCHANGED <<pin, mark, repaired, store, radioVars, ramVars, budget>>

\* coordinator_address_remember, in the same signal: no device joins before it.
Remember ==
    /\ at = "pin" /\ at' = "run"
    /\ \/ pin' = (IF pin = NoMac THEN coord ELSE pin) /\ UNCHANGED fails
       \/ pin = NoMac /\ CanFail /\ UNCHANGED pin
    /\ UNCHANGED <<mark, repaired, store, net, radioVars, ramVars, cuts, swaps>>

-----------------------------------------------------------------------------
(* The running hub. *)

\* A device joins (again) and is interviewed.  One that stayed keeps its binds.
Join(d) ==
    /\ at = "run" /\ ~devs[d].here
    /\ devs' = [devs EXCEPT ![d] = [here |-> TRUE, matched |-> TRUE, fix |-> FALSE, done |-> FALSE]]
    /\ IF home[d].addr = NoMac
       THEN home' = [home EXCEPT ![d] = [addr |-> coord, kept |-> pin # NoMac]]
       ELSE UNCHANGED home
    /\ UNCHANGED <<flashVars, mac, binds, coord, unsaved, saved, at, budget>>

\* What configure does for binds: a stale one goes first.
Configure(d) ==
    /\ at = "run" /\ devs[d].here /\ devs[d].matched /\ ~devs[d].done
    /\ binds' = [binds EXCEPT ![d] = (IF devs[d].fix THEN @ \ {mac} ELSE @) \cup {coord}]
    /\ devs' = [devs EXCEPT ![d].done = TRUE]
    /\ UNCHANGED <<flashVars, mac, home, coord, unsaved, saved, at, budget>>

\* coordinator_repair_on_frame: FIX_BINDS ends once configure has run.
RepairOnFrame(d) ==
    /\ at = "run" /\ devs[d].here /\ devs[d].fix /\ devs[d].done
    /\ devs' = [devs EXCEPT ![d].fix = FALSE]
    /\ UNCHANGED <<flashVars, radioVars, coord, unsaved, saved, at, budget>>

\* The store's writer takes the pool's record as it is then.
Flush(d) ==
    /\ at = "run" /\ devs[d] # store[d] /\ store' = [store EXCEPT ![d] = devs[d]]
    /\ UNCHANGED <<pin, mark, repaired, net, radioVars, ramVars, at, budget>>

\* zigbee_force_recommission: the mark, then the devices, then (cmd_zigbee_reset) a restart.
ForceRecommission ==
    /\ at = "run" /\ mark' = TRUE /\ at' = "drop"
    /\ UNCHANGED <<pin, repaired, store, net, radioVars, ramVars, budget>>

PowerCut_coord ==
    /\ at # "off" /\ cuts < MaxCuts /\ cuts' = cuts + 1 /\ at' = "off"
    /\ UNCHANGED <<flashVars, radioVars, ramVars, fails, swaps>>

ExchangeRadio ==
    /\ at = "off" /\ swaps < MaxSwaps /\ swaps' = swaps + 1 /\ mac' \in Mac \ {mac}
    /\ UNCHANGED <<flashVars, home, binds, ramVars, at, cuts, fails>>

CoordNext ==
    \/ PowerOn \/ Unmark \/ UnmarkFails \/ Forgotten \/ Wipe \/ WipeFails \/ Unpin
    \/ Apply \/ SetFlag \/ NetworkRuns \/ Remember
    \/ ForceRecommission \/ PowerCut_coord \/ ExchangeRadio
    \/ \E d \in Member : ForgetOne(d) \/ SaveOne(d) \/ Join(d) \/ Configure(d) \/ RepairOnFrame(d) \/ Flush(d)

CoordSpec == CoordInit /\ [][CoordNext]_coordVars

-----------------------------------------------------------------------------

\* A device that joined a network whose address was on record finds it under that address
\* at every later boot, whichever radio the hub has by then, and wherever a reset of the
\* network was cut short: it reports nowhere else (esp_zigbee_backend.cpp 637-644).
AddressKept ==
    at = "run" => \A d \in Member : home[d].addr # NoMac /\ home[d].kept => home[d].addr = coord

\* Once the repair counts as done it is never run again: by then every device that does not
\* report to the network's address is stored as still to be configured.
RepairReachesAll ==
    repaired => \A d \in Member :
        store[d].here /\ home[d].kept /\ home[d].addr \notin binds[d] => ~store[d].done

=============================================================================
