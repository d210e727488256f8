----------------------------- MODULE MCRequests -----------------------------
(* SdkLock, Binds, Reading and NetMap, side by side: `part` says which one moves. *)
EXTENDS SdkLock, Binds, Reading, NetMap, TLC

VARIABLE part

vars == <<part, lockVars, bindVars, readVars, netVars>>

Rest ==
    /\ part # "lock" => UNCHANGED lockVars
    /\ part # "bind" => UNCHANGED bindVars
    /\ part # "read" => UNCHANGED readVars
    /\ part # "map" => UNCHANGED netVars

Starts == LockInit /\ BindInit /\ ReadInit /\ NetInit

Init == part \in {"lock", "bind", "read", "map"} /\ Starts

Next ==
    /\ UNCHANGED part /\ Rest
    /\ \/ part = "lock" /\ LockNext
       \/ part = "bind" /\ BindNext
       \/ part = "read" /\ ReadNext
       \/ part = "map" /\ NetNext

\* Tasks run and waits end in time; the stack ends its callbacks.  Nothing is assumed of
\* the devices: an answer may never come.
Fair ==
    /\ \A c \in Caller : WF_bindVars(Proceed(c))
    /\ WF_bindVars(CallbackSteps)
    /\ WF_readVars(Reader)
    /\ WF_readVars(HookSteps)
    /\ WF_netVars(Worker)
    /\ WF_netVars(Notify)

Spec == Init /\ [][Next]_vars /\ Fair

\* Every bind comes to an end, every attempt of an interview and every scan, whatever the
\* devices answer or do not: nobody waits for ever behind another's bind, no device or
\* router is asked on and on, and the map is never left at "scanning".
RequestsEnd ==
    /\ \A c \in Caller : step[c] # "idle" ~> step[c] = "idle"
    /\ phase # "idle" ~> phase = "idle"
    /\ scanning ~> ~scanning

=============================================================================
