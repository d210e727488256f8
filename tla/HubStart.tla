------------------------------- MODULE HubStart -------------------------------
(* app_main (main.cpp): the parts of the hub start one after another while what was started *)
(* already runs: the radio puts events on the bus and changes the stores, the Ethernet side *)
(* comes and goes, pages edit rules, and the hub may be restarted on purpose at any moment. *)
(* With it, what a lease sets off (eth_common.cpp, mqtt_glue.cpp).                          *)
EXTENDS Naturals, Sequences, FiniteSets

CONSTANTS
    BusCap,                      \* slots of the event bus
    MaxPlugs, MaxLeases, MaxWrites   \* bounds: cable in or out, leases renewed, changes of the stores

ASSUME HubStartAssumption == BusCap \in Nat \ {0} /\ {MaxPlugs, MaxLeases, MaxWrites} \subseteq Nat

\* As if the bus were read as soon as the radio fills it.
Steps_pump ==
    <<"stores", "keep", "shadow", "radio", "pump", "rules", "lua", "eth", "trial", "web", "bridge",
      "remote", "mqtt", "register", "look", "scripts", "boot">>

\* As if MQTT looked at the lease before it listens for one.
Steps_look ==
    <<"stores", "keep", "shadow", "radio", "rules", "lua", "eth", "trial", "web", "bridge",
      "remote", "mqtt", "look", "register", "scripts", "pump", "boot">>

\* The order of app_main.  "keep": the shutdown handler is registered.
Steps ==
    <<"stores", "keep", "shadow", "radio", "rules", "lua", "eth", "trial", "web", "bridge",
      "remote", "mqtt", "register", "look", "scripts", "pump", "boot">>

VARIABLES
    reached,         \* the next step
    safe, luaOk,     \* safe mode; lua_engine_init succeeded
    kept,            \* the shutdown handler got a slot
    cable, evq,      \* the cable; the default event loop's queue
    link, hasIp,     \* s_link_up, s_has_ip
    lease, fallback, \* the address of the interface; the public time server is set
    renewed,         \* history: the router renewed the lease since eth_ntp_reconcile
    armed,           \* mqtt_gw_on_sta_up
    queued,          \* events queued
    missed,          \* history: an event went out before all its listeners were there
    pend,            \* the stores with changes not in flash
    unsaved,         \* history: what a restart on purpose lost
    plugs, leases, writes

netVars == <<cable, evq, link, hasIp, lease, fallback, renewed, armed>>
counts  == <<plugs, leases, writes>>
hubVars == <<reached, safe, luaOk, kept, netVars, queued, missed, pend, unsaved, counts>>

Store == {"rules", "shadow", "devices"}
Done(s) == \E i \in 1..(reached - 1) : Steps[i] = s
Up      == reached > Len(Steps)
At(s)   == reached <= Len(Steps) /\ Steps[reached] = s /\ reached' = reached + 1

HubTypeOK ==
    /\ reached \in 0..(Len(Steps) + 1) /\ safe \in BOOLEAN /\ luaOk \in BOOLEAN /\ kept \in BOOLEAN
    /\ cable \in BOOLEAN /\ evq \in Seq({"up", "down", "ip"}) /\ link \in BOOLEAN /\ hasIp \in BOOLEAN
    /\ lease \in BOOLEAN /\ fallback \in BOOLEAN /\ renewed \in BOOLEAN /\ armed \in BOOLEAN
    /\ queued \in 0..BusCap /\ missed \in BOOLEAN /\ pend \subseteq Store /\ unsaved \subseteq Store

HubInit ==
    /\ reached = 1 /\ safe = FALSE /\ luaOk = FALSE /\ kept = FALSE
    /\ cable = FALSE /\ evq = <<>> /\ link = FALSE /\ hasIp = FALSE /\ lease = FALSE
    /\ fallback = FALSE /\ renewed = FALSE /\ armed = FALSE /\ queued = 0 /\ missed = FALSE
    /\ pend = {} /\ unsaved = {} /\ plugs = 0 /\ leases = 0 /\ writes = 0

-----------------------------------------------------------------------------
(* app_main. *)

\* ota_update_boot_guard has decided on safe mode before the stores.
OpenStores ==
    /\ At("stores") /\ safe' \in BOOLEAN
    /\ UNCHANGED <<luaOk, kept, netVars, queued, missed, pend, unsaved, counts>>

\* There may be no slot left for the handler.
KeepHandler ==
    /\ At("keep") /\ kept' \in BOOLEAN
    /\ UNCHANGED <<safe, luaOk, netVars, queued, missed, pend, unsaved, counts>>

StartLua ==
    /\ At("lua") /\ luaOk' \in (IF safe THEN {FALSE} ELSE BOOLEAN)
    /\ UNCHANGED <<safe, kept, netVars, queued, missed, pend, unsaved, counts>>

\* The others; the cloud link and MQTT are left out in safe mode.
Start ==
    /\ \E s \in {"shadow", "radio", "rules", "eth", "trial", "web", "bridge", "remote", "mqtt",
                 "register", "scripts", "pump"} : At(s)
    /\ UNCHANGED <<safe, luaOk, kept, netVars, queued, missed, pend, unsaved, counts>>

\* The link may have been up before the handler was there.
Look ==
    /\ At("look") /\ armed' = (armed \/ (~safe /\ hasIp))
    /\ UNCHANGED <<safe, luaOk, kept, cable, evq, link, hasIp, lease, fallback, renewed, queued, missed, pend, unsaved, counts>>

BootEvent ==
    /\ At("boot") /\ queued' = IF queued < BusCap THEN queued + 1 ELSE queued
    /\ UNCHANGED <<safe, luaOk, kept, netVars, missed, pend, unsaved, counts>>

\* The main loop, every five minutes.
eth_ntp_reconcile ==
    /\ Up /\ fallback' = (fallback \/ hasIp) /\ renewed' = FALSE
    /\ UNCHANGED <<reached, safe, luaOk, kept, cable, evq, link, hasIp, lease, armed, queued, missed, pend, unsaved, counts>>

-----------------------------------------------------------------------------
(* The event bus. *)

\* What listens to the events of devices: rules, scripts, sockets, MQTT.
Listeners == {"rules", "bridge"} \cup (IF luaOk THEN {"lua", "scripts"} ELSE {}) \cup (IF safe THEN {} ELSE {"mqtt"})

\* The pump hands an event to those that subscribed.
Pump ==
    /\ Done("pump") /\ queued > 0 /\ queued' = queued - 1
    /\ missed' = (missed \/ \E s \in Listeners : ~Done(s))
    /\ UNCHANGED <<reached, safe, luaOk, kept, netVars, pend, unsaved, counts>>

-----------------------------------------------------------------------------
(* Ethernet. *)

\* on_got_ip of eth_common and of mqtt_glue, once it is registered.
OnGotIp ==
    /\ hasIp' = TRUE /\ fallback' = TRUE /\ UNCHANGED link
    /\ armed' = (armed \/ (Done("register") /\ ~safe))

OnEthEvent ==
    /\ link' = (Head(evq) = "up") /\ hasIp' = (hasIp /\ Head(evq) = "up")
    /\ UNCHANGED <<fallback, armed>>

EthDispatch ==
    /\ evq # <<>> /\ evq' = Tail(evq)
    /\ IF Head(evq) = "ip" THEN OnGotIp ELSE OnEthEvent
    /\ renewed' = (renewed /\ Head(evq) # "ip")
    /\ UNCHANGED <<reached, safe, luaOk, kept, cable, lease, queued, missed, pend, unsaved, counts>>

Plug ==
    /\ Done("eth") /\ plugs < MaxPlugs /\ plugs' = plugs + 1 /\ cable' = ~cable /\ lease' = (lease /\ ~cable)
    /\ evq' = Append(evq, IF cable THEN "down" ELSE "up")
    /\ UNCHANGED <<reached, safe, luaOk, kept, link, hasIp, fallback, renewed, armed, queued, missed, pend, unsaved, leases, writes>>

\* Each acknowledged lease puts the router's server in place of the public one; only the first
\* after a link makes an event.
Lease ==
    /\ cable /\ link /\ evq = <<>> /\ lease' = TRUE /\ fallback' = FALSE
    /\ IF lease THEN leases < MaxLeases /\ leases' = leases + 1 /\ renewed' = TRUE /\ UNCHANGED evq
                ELSE evq' = <<"ip">> /\ UNCHANGED <<leases, renewed>>
    /\ UNCHANGED <<reached, safe, luaOk, kept, cable, link, hasIp, armed, queued, missed, pend, unsaved, plugs, writes>>

-----------------------------------------------------------------------------
(* What is changed, and what a restart on purpose keeps. *)

Changes(s) == writes < MaxWrites /\ writes' = writes + 1 /\ pend' = pend \cup {s}

\* A frame: an attribute for the shadow, or a change of the device; an event on the bus.
DeviceFrame ==
    /\ Done("radio") /\ \E s \in {"shadow", "devices"} : Changes(s)
    /\ queued' = IF queued < BusCap THEN queued + 1 ELSE queued
    /\ UNCHANGED <<reached, safe, luaOk, kept, netVars, missed, unsaved, plugs, leases>>

EditRule ==
    /\ Done("web") /\ Changes("rules")
    /\ UNCHANGED <<reached, safe, luaOk, kept, netVars, queued, missed, unsaved, plugs, leases>>

\* rule_store_flush_now, device_shadow_flush_now (into the device store), zap_store_flush_now.
Flushed(s, p) == IF s = "shadow" /\ s \in p THEN (p \ {s}) \cup {"devices"} ELSE p \ {s}

\* In the order of the three calls, from the last to the first.
flush_stores_last(p) == Flushed("rules", Flushed("shadow", Flushed("devices", p)))
flush_stores(p)      == Flushed("devices", Flushed("shadow", Flushed("rules", p)))

\* The stores' own tasks.
SaveLater ==
    /\ \E s \in pend : pend' = Flushed(s, pend)
    /\ UNCHANGED <<reached, safe, luaOk, kept, netVars, queued, missed, unsaved, counts>>

\* esp_restart runs the handler, when it is registered.
RestartOnPurpose ==
    /\ reached > 0 /\ reached' = 0 /\ unsaved' = (IF Done("keep") /\ kept THEN flush_stores(pend) ELSE pend)
    /\ UNCHANGED <<safe, luaOk, kept, netVars, queued, missed, pend, counts>>

HubNext ==
    \/ RestartOnPurpose
    \/ /\ reached > 0
       /\ \/ OpenStores \/ KeepHandler \/ StartLua \/ Start \/ Look \/ BootEvent \/ eth_ntp_reconcile
          \/ Pump \/ EthDispatch \/ Plug \/ Lease \/ DeviceFrame \/ EditRule \/ SaveLater

HubSpec == HubInit /\ [][HubNext]_hubVars

-----------------------------------------------------------------------------

\* Nothing is lost at a restart on purpose, at whatever moment of the start and whatever is
\* pending, once the handler has a slot (main.cpp 170-179).
NothingPendingLost == kept => unsaved = {}

\* No event goes out before everyone who listens is there, those of the radio's first
\* seconds included (main.cpp 423-430).
HeardByAll == ~missed

\* A lease is put to use, at whatever moment of the start it came and however often: MQTT is
\* armed, and the public time server is there until the router renews (eth_common.cpp 92-99,
\* mqtt_glue.cpp 203-209).
LeaseIsUsed ==
    evq = <<>> /\ hasIp => (fallback \/ renewed) /\ (reached = 0 \/ safe \/ armed \/ ~Done("look"))

=============================================================================
