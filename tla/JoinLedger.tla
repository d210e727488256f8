------------------------------ MODULE JoinLedger ------------------------------
(***************************************************************************)
(* What the join queue promises, whatever the radio does: a request is     *)
(* tried at most MaxTries times in all, however often it goes back behind  *)
(* its peers; requests are served in the order they wait; deleting a       *)
(* device voids every request issued for it so far and none issued later;  *)
(* a void request is not tried again; and every request is settled.        *)
(***************************************************************************)
EXTENDS Naturals, Sequences

CONSTANTS Dev, MaxTries

VARIABLES
    issued,    \* how many requests were issued
    voidUpTo,  \* for each device, the last request its last delete voided
    waiting,   \* the requests in line, first come first served
    running    \* the request being tried: <<>> or <<request>>

ledger == <<issued, voidUpTo, waiting, running>>

Request == [ieee: Dev, seq: Nat \ {0}, tries: 0..MaxTries]

Void(r) == r.seq <= voidUpTo[r.ieee]

Init ==
    /\ issued = 0
    /\ voidUpTo = [d \in Dev |-> 0]
    /\ waiting = << >>
    /\ running = << >>

\* A request is issued, and waits in line unless there is no room.
Issue(d) ==
    /\ issued' \in {issued + 1, issued + 2}
    /\ \/ waiting' = Append(waiting, [ieee |-> d, seq |-> issued', tries |-> 0])
       \/ UNCHANGED waiting
    /\ UNCHANGED <<voidUpTo, running>>

Delete(d) ==
    /\ voidUpTo' = [voidUpTo EXCEPT ![d] = issued]
    /\ UNCHANGED <<issued, waiting, running>>

\* The first in line leaves the line: to be tried, or dropped if it is void.
Take ==
    /\ running = << >> /\ waiting # << >>
    /\ waiting' = Tail(waiting)
    /\ running' = IF Void(Head(waiting)) THEN << >> ELSE <<Head(waiting)>>
    /\ UNCHANGED <<issued, voidUpTo>>

Try ==
    /\ running # << >>
    /\ running[1].tries < MaxTries
    /\ ~Void(running[1])
    /\ running' = <<[running[1] EXCEPT !.tries = @ + 1]>>
    /\ UNCHANGED <<issued, voidUpTo, waiting>>

\* A request with tries left lets the others in line go first.
GiveWay ==
    /\ running # << >> /\ waiting # << >>
    /\ running[1].tries < MaxTries
    /\ waiting' = Append(waiting, running[1])
    /\ running' = << >>
    /\ UNCHANGED <<issued, voidUpTo>>

Settle ==
    /\ running # << >>
    /\ running' = << >>
    /\ UNCHANGED <<issued, voidUpTo, waiting>>

Next == \/ \E d \in Dev : Issue(d) \/ Delete(d)
        \/ Take \/ Try \/ GiveWay \/ Settle

Spec == Init /\ [][Next]_ledger

-----------------------------------------------------------------------------

Pending(s) == \/ \E i \in DOMAIN waiting : waiting[i].seq = s
              \/ \E i \in DOMAIN running : running[i].seq = s

=============================================================================
