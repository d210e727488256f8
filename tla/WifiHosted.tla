------------------------------ MODULE WifiHosted ------------------------------
(* The Wi-Fi station and its setup access point (wifi_hosted.cpp): every call is a request *)
(* to a co-processor that may crash and boot again at any time; its events come in order   *)
(* through the event task; the Wi-Fi task sets it up, retries and decides the access       *)
(* point; the owner's orders come on a third task.  A request fails when the co-processor  *)
(* is not set up.  One order runs at a time.                                               *)
EXTENDS Naturals, Sequences

CONSTANTS
    Net, NoNet,
    Wired,                              \* the Ethernet side has an address
    MaxCrashes, MaxMisses, MaxOrders    \* bounds: crashes, failures of radio or flash, orders

ASSUME NetAssumption == NoNet \notin Net /\ Wired \in BOOLEAN

VARIABLES
    cp,              \* the co-processor: up, inited, on, mode with AP, its AP named, network, station
    ev,              \* the event task's queue
    wifiAt,          \* where wifi_task is
    firstDone,       \* s_first_try_done
    ready, joined, apUp, \* s_ready, s_connected, s_ap
    creds,           \* s_ssid and s_pass, each known by the network it belongs to
    bits,            \* kRetryBit, kRestartBit
    startedOnce, waited,  \* `started` is set; kApAfter has passed since
    since, decided,  \* up_since: "held" once kApGrace has passed; ap_decided
    order,           \* where wifi_hosted_connect is
    slipped,         \* history: an order or a restart fell into one of the windows below
    cpCrashed, missed, given

apVars   == <<startedOnce, waited, since, decided>>
bounds   == <<cpCrashed, missed, given>>
flagVars == <<firstDone, ready, joined, apUp>>
wifiVars == <<cp, ev, wifiAt, flagVars, creds, bits, apVars, order, slipped, bounds>>

Pair == [ssid : Net \cup {NoNet}, pass : Net \cup {NoNet}]
NoPair == [ssid |-> NoNet, pass |-> NoNet]
CpDown == [up |-> FALSE, init |-> FALSE, on |-> FALSE, ap |-> FALSE, named |-> FALSE, conf |-> NoPair, sta |-> "idle"]
BringUpPlace == {"init", "mode", "name", "creds", "start"}
ApPlace == {"apstop", "apmode", "apname", "apstart", "apfail"}

WifiTypeOK ==
    /\ cp \in [up : BOOLEAN, init : BOOLEAN, on : BOOLEAN, ap : BOOLEAN, named : BOOLEAN,
               conf : Pair, sta : {"idle", "trying", "joined"}]
    /\ ev \in Seq({"start", "disc", "gotip", "boot"})
    /\ wifiAt \in BringUpPlace \cup ApPlace \cup {"tried", "loop", "pause", "decide"}
    /\ firstDone \in BOOLEAN /\ ready \in BOOLEAN /\ joined \in BOOLEAN /\ apUp \in BOOLEAN
    /\ creds \in Pair /\ bits \subseteq {"retry", "restart"}
    /\ startedOnce \in BOOLEAN /\ waited \in BOOLEAN /\ decided \in BOOLEAN
    /\ since \in {"down", "up", "held"} /\ slipped \in BOOLEAN
    /\ order \in {"idle", "pass", "save", "leave", "apply", "join"}

WifiInit ==
    /\ cp = CpDown /\ ev = <<>> /\ wifiAt = "init"
    /\ firstDone = FALSE /\ ready = FALSE /\ joined = FALSE /\ apUp = FALSE
    /\ creds \in {NoPair} \cup {[ssid |-> n, pass |-> n] : n \in Net}
    /\ bits = {} /\ startedOnce = FALSE /\ waited = FALSE /\ since = "down" /\ decided = FALSE
    /\ order = "idle" /\ slipped = FALSE
    /\ cpCrashed = 0 /\ missed = 0 /\ given = 0

Configured == creds.ssid # NoNet
HasUplink  == joined \/ Wired
Misses     == missed < MaxMisses /\ missed' = missed + 1

\* esp_wifi_remote_connect, esp_wifi_remote_disconnect: the state after, and its event.
Joining(c) == IF c.on /\ c.sta = "idle" /\ c.conf.ssid # NoNet THEN [c EXCEPT !.sta = "trying"] ELSE c
Left(c)    == [c EXCEPT !.sta = "idle"]
Told(c, e) == IF c.sta = "idle" THEN <<>> ELSE <<e>>

-----------------------------------------------------------------------------
(* The co-processor. *)

CpBoots ==
    /\ ~cp.up /\ cp' = [CpDown EXCEPT !.up = TRUE] /\ ev' = Append(ev, "boot")
    /\ UNCHANGED <<wifiAt, flagVars, creds, bits, apVars, order, slipped, bounds>>

CpCrashes ==
    /\ cp.up /\ cpCrashed < MaxCrashes /\ cpCrashed' = cpCrashed + 1 /\ cp' = CpDown
    /\ UNCHANGED <<ev, wifiAt, flagVars, creds, bits, apVars, order, slipped, missed, given>>

\* Joined with the right password; the lease follows.
Joins ==
    /\ cp.sta = "trying" /\ cp.conf.pass = cp.conf.ssid
    /\ cp' = [cp EXCEPT !.sta = "joined"] /\ ev' = Append(ev, "gotip")
    /\ UNCHANGED <<wifiAt, flagVars, creds, bits, apVars, order, slipped, bounds>>

\* Refused, or lost.
Drops ==
    /\ cp.sta # "idle"
    /\ IF cp.sta = "trying" /\ cp.conf.pass # cp.conf.ssid THEN UNCHANGED missed ELSE Misses
    /\ cp' = Left(cp) /\ ev' = Append(ev, "disc")
    /\ UNCHANGED <<wifiAt, flagVars, creds, bits, apVars, order, slipped, cpCrashed, given>>

-----------------------------------------------------------------------------
(* The event task: on_wifi, on_ip, on_cp_init. *)

OnStart ==
    /\ Head(ev) = "start" /\ cp' = (IF Configured THEN Joining(cp) ELSE cp)
    /\ UNCHANGED <<joined, bits, slipped>>

\* Retried from the task after a pause.
OnDisconnected ==
    /\ Head(ev) = "disc" /\ joined' = FALSE
    /\ bits' = (IF Configured THEN bits \cup {"retry"} ELSE bits)
    /\ UNCHANGED <<cp, slipped>>

\* A lost address (STA_LOST_IP) follows a disconnect, which has cleared the flag already.
OnIp ==
    /\ Head(ev) = "gotip" /\ joined' = TRUE
    /\ UNCHANGED <<cp, bits, slipped>>

\* A window: the co-processor booted again while the first bring_up was under way, or had
\* failed: nobody will set it up.
Window == ~firstDone /\ ~cp.init /\ wifiAt # "init"

\* As if a hub that has Wi-Fi had no need of the announcement.
OnCpInit_ready ==
    /\ Head(ev) = "boot" /\ bits' = (IF firstDone /\ ~ready THEN bits \cup {"restart"} ELSE bits)
    /\ slipped' = (slipped \/ Window) /\ UNCHANGED <<cp, joined>>

\* Not a restart while the first bring_up waits for it.
OnCpInit ==
    /\ Head(ev) = "boot" /\ bits' = (IF firstDone THEN bits \cup {"restart"} ELSE bits)
    /\ slipped' = (slipped \/ Window) /\ UNCHANGED <<cp, joined>>

Dispatch ==
    /\ ev # <<>> /\ ev' = Tail(ev)
    /\ OnStart \/ OnDisconnected \/ OnIp \/ OnCpInit
    /\ UNCHANGED <<wifiAt, firstDone, ready, apUp, creds, apVars, order, bounds>>

-----------------------------------------------------------------------------
(* wifi_task: bring_up, restart, the loop. *)

AfterBringUp == IF firstDone THEN "decide" ELSE "tried"

\* A failing request ends bring_up: Wi-Fi is off until the co-processor announces itself.
BringUpFails ==
    /\ wifiAt \in BringUpPlace /\ (wifiAt = "init" => ~cp.up)
    /\ wifiAt \in {"mode", "name", "start"} => ~cp.init
    /\ wifiAt # "creds" /\ wifiAt' = AfterBringUp
    /\ UNCHANGED <<cp, ev, flagVars, creds, bits, apVars, order, slipped, bounds>>

BringUp ==
    /\ \/ wifiAt = "init" /\ cp.up /\ cp' = [cp EXCEPT !.init = TRUE] /\ wifiAt' = "mode"
       \/ wifiAt = "mode" /\ cp.init /\ cp' = [cp EXCEPT !.ap = apUp]
          /\ wifiAt' = IF apUp THEN "name" ELSE "creds"
       \/ wifiAt = "name" /\ cp.init /\ cp' = [cp EXCEPT !.named = TRUE] /\ wifiAt' = "creds"
       \/ wifiAt = "creds" /\ wifiAt' = "start"
          /\ cp' = IF Configured /\ cp.init THEN [cp EXCEPT !.conf = creds] ELSE cp
    /\ UNCHANGED <<ev, flagVars, creds, bits, apVars, order, slipped, bounds>>

StartStation ==
    /\ wifiAt = "start" /\ cp.init /\ cp' = [cp EXCEPT !.on = TRUE] /\ ev' = Append(ev, "start")
    /\ ready' = TRUE /\ wifiAt' = AfterBringUp
    /\ UNCHANGED <<firstDone, joined, apUp, creds, bits, apVars, order, slipped, bounds>>

FirstTryDone ==
    /\ wifiAt = "tried" /\ firstDone' = TRUE /\ startedOnce' = ready /\ wifiAt' = "loop"
    /\ UNCHANGED <<cp, ev, ready, joined, apUp, creds, bits, waited, since, decided, order, slipped, bounds>>

\* The stop events the co-processor did not send are posted.  Another window: it booted twice,
\* and the bring_up for the first announcement has set it up already.
RestartWifi ==
    /\ wifiAt = "loop" /\ "restart" \in bits /\ bits' = {} /\ wifiAt' = "init"
    /\ ev' = (IF ready /\ joined THEN Append(ev, "disc") ELSE ev)
    /\ ready' = FALSE /\ joined' = FALSE /\ slipped' = (slipped \/ cp.init)
    /\ UNCHANGED <<cp, firstDone, apUp, creds, apVars, order, bounds>>

PauseToRetry ==
    /\ wifiAt = "loop" /\ bits = {"retry"} /\ bits' = {} /\ wifiAt' = "pause"
    /\ UNCHANGED <<cp, ev, flagVars, creds, apVars, order, slipped, bounds>>

RetryStation ==
    /\ wifiAt = "pause" /\ wifiAt' = "decide"
    /\ cp' = (IF ready /\ Configured /\ ~joined THEN Joining(cp) ELSE cp)
    /\ UNCHANGED <<ev, flagVars, creds, bits, apVars, order, slipped, bounds>>

TimePasses ==
    /\ \/ startedOnce /\ ~waited /\ waited' = TRUE /\ UNCHANGED since
       \/ since = "up" /\ since' = "held" /\ UNCHANGED waited
    /\ UNCHANGED <<cp, ev, wifiAt, flagVars, creds, bits, startedOnce, decided, order, slipped, bounds>>

AtDecide == wifiAt = "decide" \/ (wifiAt = "loop" /\ bits = {})

ApMode(open)      == IF cp.init THEN [cp EXCEPT !.ap = open] ELSE cp

\* The end of each turn: open the access point after kApAfter without a network, at most
\* once; close it when a network has held for kApGrace.
Decide ==
    /\ AtDecide /\ startedOnce' = (startedOnce \/ ready)
    /\ IF ~startedOnce' \/ decided \/ (~apUp /\ ~waited)
       THEN wifiAt' = "loop" /\ UNCHANGED <<cp, apUp, since, decided>>
       ELSE IF ~apUp
       THEN /\ wifiAt' = IF HasUplink THEN "loop" ELSE "apstop"
            /\ decided' = HasUplink /\ UNCHANGED <<cp, apUp, since>>
       ELSE /\ wifiAt' = "loop"
            /\ since' = IF ~HasUplink THEN "down" ELSE IF since = "down" THEN "up" ELSE since
            /\ IF HasUplink /\ since = "held" THEN apUp' = FALSE /\ decided' = TRUE /\ cp' = ApMode(FALSE)
               ELSE UNCHANGED <<cp, apUp, decided>>
    /\ UNCHANGED <<ev, firstDone, ready, joined, creds, bits, waited, order, slipped, bounds>>

Stopped(c)     == IF c.init THEN [Left(c) EXCEPT !.on = FALSE] ELSE c

ApOpen ==
    /\ \/ wifiAt = "apstop" /\ cp' = Stopped(cp) /\ ev' = ev \o Told(cp, "disc") /\ wifiAt' = "apmode"
          /\ UNCHANGED apUp
       \/ wifiAt = "apmode" /\ cp.init /\ cp' = ApMode(TRUE) /\ wifiAt' = "apname" /\ UNCHANGED <<ev, apUp>>
       \/ wifiAt = "apname" /\ cp.init /\ cp' = [cp EXCEPT !.named = TRUE] /\ wifiAt' = "apstart"
          /\ UNCHANGED <<ev, apUp>>
       \/ wifiAt = "apstart" /\ cp.init /\ cp' = [cp EXCEPT !.on = TRUE] /\ ev' = Append(ev, "start")
          /\ apUp' = TRUE /\ wifiAt' = "loop"
    /\ UNCHANGED <<firstDone, ready, joined, creds, bits, apVars, order, slipped, bounds>>

\* No second try; what is left runs as a station.
ApFails ==
    /\ \/ wifiAt \in {"apmode", "apname", "apstart"} /\ ~cp.init /\ wifiAt' = "apfail" /\ UNCHANGED <<cp, ev, decided>>
       \/ /\ wifiAt = "apfail" /\ wifiAt' = "loop" /\ decided' = TRUE
          /\ cp' = (IF cp.init THEN [ApMode(FALSE) EXCEPT !.on = TRUE] ELSE cp)
          /\ ev' = (IF cp.init THEN Append(ev, "start") ELSE ev)
    /\ UNCHANGED <<flagVars, creds, bits, startedOnce, waited, since, order, slipped, bounds>>

-----------------------------------------------------------------------------
(* wifi_hosted_connect; an empty name forgets the network. *)

GiveOrder ==
    /\ order = "idle" /\ given < MaxOrders /\ given' = given + 1 /\ order' = "pass"
    /\ \E n \in Net \cup {NoNet} : creds' = [creds EXCEPT !.ssid = n]
    /\ UNCHANGED <<cp, ev, wifiAt, flagVars, bits, apVars, slipped, cpCrashed, missed>>

TakePass ==
    /\ order = "pass" /\ creds' = [creds EXCEPT !.pass = creds.ssid] /\ order' = "save"
    /\ UNCHANGED <<cp, ev, wifiAt, flagVars, bits, apVars, slipped, bounds>>

\* Stored: the task applies it, unless it is past that already.
SaveCreds ==
    /\ order = "save" /\ order' = (IF ready THEN "leave" ELSE "idle")
    /\ slipped' = (slipped \/ (~ready /\ wifiAt = "start"))
    /\ UNCHANGED <<cp, ev, wifiAt, flagVars, creds, bits, apVars, bounds>>

SaveCredsFails ==
    /\ order = "save" /\ Misses /\ order' = "idle" /\ slipped' = TRUE
    /\ UNCHANGED <<cp, ev, wifiAt, flagVars, creds, bits, apVars, cpCrashed, given>>

ApplyOrder ==
    /\ \/ order = "leave" /\ cp' = Left(cp) /\ ev' = ev \o Told(cp, "disc")
          /\ order' = IF Configured THEN "apply" ELSE "idle"
       \/ order = "apply" /\ cp' = (IF cp.init THEN [cp EXCEPT !.conf = creds] ELSE cp)
          /\ order' = "join" /\ UNCHANGED ev
       \/ order = "join" /\ cp' = Joining(cp) /\ order' = "idle" /\ UNCHANGED ev
    /\ UNCHANGED <<wifiAt, flagVars, creds, bits, apVars, slipped, bounds>>

WifiTask ==
    \/ BringUp \/ BringUpFails \/ StartStation \/ FirstTryDone \/ RestartWifi \/ PauseToRetry
    \/ RetryStation \/ Decide \/ ApOpen \/ ApFails

CpAnswers == CpBoots \/ Joins

OrderSteps == TakePass \/ SaveCreds \/ ApplyOrder

WifiNext ==
    \/ WifiTask \/ CpAnswers \/ CpCrashes \/ Drops \/ Dispatch
    \/ TimePasses \/ GiveOrder \/ OrderSteps \/ SaveCredsFails

\* The tasks run, the co-processor boots and answers; it refuses a wrong password.
WifiFair ==
    /\ WF_wifiVars(WifiTask) /\ WF_wifiVars(Dispatch) /\ WF_wifiVars(OrderSteps)
    /\ WF_wifiVars(CpAnswers) /\ WF_wifiVars(Drops)

WifiSpec == WifiInit /\ [][WifiNext]_wifiVars /\ WifiFair

-----------------------------------------------------------------------------

\* The station always comes back: after crashes of the co-processor, refusals and losses it
\* is joined again, or has no network to join, unless something fell into a window.
StationComesBack == []<>(joined \/ ~Configured \/ creds.pass # creds.ssid \/ slipped)

=============================================================================
