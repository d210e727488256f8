-------------------------------- MODULE MCBoot --------------------------------
(* Small instances for TLC of what a boot goes through: BootGuard, OtaTrial, Radio and     *)
(* WifiHosted share no state, so a behaviour is one of one of them, the others at rest.    *)
EXTENDS BootGuard, OtaTrial, Radio, WifiHosted

VARIABLE part

vars == <<part, guardVars, otaVars, stackVars, wifiVars>>

Rest ==
    /\ part # "guard" => UNCHANGED guardVars
    /\ part # "ota" => UNCHANGED otaVars
    /\ part # "radio" => UNCHANGED stackVars
    /\ part # "wifi" => UNCHANGED wifiVars

\* A module at rest is in one of its initial states only.
GuardRest == ~armed /\ crashes = 0 /\ retries = 0
OtaRest   == ~earlyArmed /\ count = 0

Init ==
    /\ part \in {"guard", "ota", "radio", "wifi"}
    /\ GuardInit /\ OtaInit /\ RadioInit /\ WifiInit
    /\ part # "guard" => GuardRest
    /\ part # "ota" => OtaRest
    /\ part # "radio" => ~dataset
    /\ part # "wifi" => creds = NoPair

Next ==
    /\ UNCHANGED part /\ Rest
    /\ \/ part = "guard" /\ GuardNext
       \/ part = "ota" /\ OtaNext
       \/ part = "radio" /\ RadioNext
       \/ part = "wifi" /\ WifiNext

\* The fairness of each module, for the one that moves.
Fair ==
    /\ WF_guardVars(part = "guard" /\ AskGuard) /\ WF_guardVars(part = "guard" /\ RetryFires)
    /\ WF_otaVars(part = "ota" /\ OtaBoot) /\ WF_otaVars(part = "ota" /\ Health)
    /\ WF_stackVars(part = "radio" /\ MainSteps) /\ WF_stackVars(part = "radio" /\ LoopExits)
    /\ WF_stackVars(part = "radio" /\ TickClock) /\ WF_stackVars(part = "radio" /\ Supervise)
    /\ WF_stackVars(part = "radio" /\ Retry)
    /\ WF_wifiVars(part = "wifi" /\ WifiTask) /\ WF_wifiVars(part = "wifi" /\ Dispatch)
    /\ WF_wifiVars(part = "wifi" /\ OrderSteps) /\ WF_wifiVars(part = "wifi" /\ CpAnswers)
    /\ WF_wifiVars(part = "wifi" /\ Drops)

Spec == Init /\ [][Next]_vars /\ Fair

\* One part alone, for the runs that look for one disagreement.
OtaAlone   == part = "ota" /\ Init /\ [][Next]_vars
RadioAlone == part = "radio" /\ Init /\ [][Next]_vars /\ Fair

=============================================================================
