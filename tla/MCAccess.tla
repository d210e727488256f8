------------------------------- MODULE MCAccess -------------------------------
(* Small instances for TLC of what decides who is let in and heard: Lockout, SignIn,       *)
(* Switches, Admit and Frames share no state, so a behaviour is one of one of them, the    *)
(* others at rest.                                                                         *)
EXTENDS Lockout, SignIn, Switches, Admit, Frames, TLC

CONSTANTS p1, p2, p3, s1, s2

VARIABLE part

vars == <<part, lockVars, signVars, switchVars, admitVars, framesVars>>

Rest ==
    /\ part # "lockout" => UNCHANGED lockVars
    /\ part # "signin" => UNCHANGED signVars
    /\ part # "switches" => UNCHANGED switchVars
    /\ part # "admit" => UNCHANGED admitVars
    /\ part # "frames" => UNCHANGED framesVars

Init ==
    /\ part \in {"lockout", "signin", "switches", "admit", "frames"}
    /\ LockInit /\ SignInit /\ SwitchInit /\ AdmitInit /\ FramesInit
    /\ part # "admit" => pool = {}
    /\ part # "frames" => \A d \in Sender : ~book[d].in

Next ==
    /\ UNCHANGED part /\ Rest
    /\ \/ part = "lockout" /\ LockNext
       \/ part = "signin" /\ SignNext
       \/ part = "switches" /\ SwitchNext
       \/ part = "admit" /\ AdmitNext
       \/ part = "frames" /\ FramesNext

Spec == Init /\ [][Next]_vars

Perms == Permutations(Peer) \cup Permutations(Socket)

=============================================================================
