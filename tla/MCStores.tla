------------------------------- MODULE MCStores -------------------------------
(* Small instances for TLC of what the hub keeps in flash beside the device store: Groups, *)
(* Options, Mirror and Coordinator share no state, so a behaviour is one of one of them,   *)
(* with the others at rest.                                                                *)
EXTENDS Groups, Options, Mirror, Coordinator, TLC

CONSTANTS c1, c2, d1, d2, n1, n2, g1, g2

VARIABLE part

vars == <<part, grpVars, optVars, mirVars, coordVars>>

Rest ==
    /\ part # "groups" => UNCHANGED grpVars
    /\ part # "options" => UNCHANGED optVars
    /\ part # "mirror" => UNCHANGED mirVars
    /\ part # "coord" => UNCHANGED coordVars

OptRest == pool = {} /\ old = stored
MirRest == paired = {} /\ \A k \in DOMAIN member : member[k] = {}
CoordRest == mac = (CHOOSE m \in Mac : TRUE) /\ pin = mac /\ \A d \in Member : ~store[d].here

\* A module at rest is in one of its initial states only.
Init ==
    /\ part \in {"groups", "options", "mirror", "coord"}
    /\ GrpInit /\ OptInit /\ MirInit /\ CoordInit
    /\ part # "options" => OptRest
    /\ part # "mirror" => MirRest
    /\ part # "coord" => CoordRest

Next ==
    /\ UNCHANGED part /\ Rest
    /\ \/ part = "groups" /\ GrpNext
       \/ part = "options" /\ OptNext
       \/ part = "mirror" /\ MirNext
       \/ part = "coord" /\ CoordNext

Spec == Init /\ [][Next]_vars

\* Updates and deletes come from the web pages, creates from either task.
MCMay == [c \in Caller |-> IF c = "httpd" THEN Command ELSE {"create"}]

Perms == Permutations(Content) \cup Permutations(Group)

=============================================================================
