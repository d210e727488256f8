----------------------------- MODULE MCServices -----------------------------
(* Small instances for TLC of how the hub starts and of what it tells its browsers and the *)
(* cloud: Editing, Listing, CloudLog, RestartTail, LogRing and HubStart share no state, so *)
(* a behaviour is one of one of them, with the others at rest.                             *)
EXTENDS Editing, Listing, CloudLog, RestartTail, LogRing, HubStart, TLC

CONSTANTS k1, k2, a, b, i1, i2

VARIABLE part

vars == <<part, editVars, listVars, logVars, tailVars, logRingVars, hubVars>>

Rest ==
    /\ part # "edit" => UNCHANGED editVars
    /\ part # "list" => UNCHANGED listVars
    /\ part # "lines" => UNCHANGED logVars
    /\ part # "blocks" => UNCHANGED tailVars
    /\ part # "ring" => UNCHANGED logRingVars
    /\ part # "start" => UNCHANGED hubVars

Starts ==
    /\ EditInit /\ ListInit /\ LogInit /\ TailInit /\ RingInit /\ HubInit
    /\ part # "list" => here = {}

Init == part \in {"edit", "list", "lines", "blocks", "ring", "start"} /\ Starts

Next ==
    /\ UNCHANGED part /\ Rest
    /\ \/ part = "edit" /\ EditNext
       \/ part = "list" /\ ListNext
       \/ part = "lines" /\ LogNext
       \/ part = "blocks" /\ TailNext
       \/ part = "ring" /\ RingNext
       \/ part = "start" /\ HubNext

Spec == Init /\ [][Next]_vars

\* The log ring alone, for the run on its limit.
RingAlone == part = "ring" /\ Starts /\ [][Next]_vars

\* "ws" does what "rest" does, and what "relay" does, on the task of the first.
Perms == UNION {Permutations(S) : S \in {Text, Script, Image}}

=============================================================================
