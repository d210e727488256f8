-------------------------------- MODULE Admit --------------------------------
(***************************************************************************)
(* Which unknown devices may join the pool (esp_zb_admit.h, admit_new in   *)
(* esp_zb_interview.cpp): those the trust centre let in a moment ago, or   *)
(* any while permit-join is open or just closed, and only so many in a     *)
(* window.  The devices let in are kept in a ring of few slots; a restart  *)
(* empties it.  Time counts in steps.                                      *)
(***************************************************************************)
EXTENDS Naturals, FiniteSets

CONSTANTS
    Device,
    AuthSlots,        \* kAuthSlots (16)
    AuthTtl,          \* kAuthTtlUs (10 min)
    Grace,            \* kGraceUs (5 min)
    Cap,              \* kCap (32)
    WindowLen,        \* kWindowUs (10 min)
    MaxOpen,          \* the longest permit-join
    MaxTime           \* bound: the clock

Empty_slot == "empty"

ASSUME AdmitAssumption ==
    /\ {AuthSlots, AuthTtl, Grace, Cap, WindowLen, MaxOpen, MaxTime} \subseteq Nat \ {0}
    /\ Empty_slot \notin Device

VARIABLES
    now,
    auth,     \* auth_: per slot, the device and when it was let in
    next,     \* next_
    openUntil,   \* open_until_ + 1, 0 = never opened
    windowStart, \* window_us_
    count_in, \* count_
    pool,     \* devices in the pool: never asked
    since,    \* ghost: per device, turns of the ring since it took its slot in turn
    letIn     \* ghost: per device, when the trust centre last let it in, + 1; 0 = never

admitVars == <<now, auth, next, openUntil, windowStart, count_in, pool, since, letIn>>
gate      == <<auth, next, openUntil, windowStart, count_in>>

AuthSlot == 0..(AuthSlots - 1)
Time     == 0..MaxTime
NoAuth   == [dev |-> Empty_slot, at |-> 0]

\* Types; no device is in two slots.
AdmitTypeOK ==
    /\ now \in Time /\ next \in AuthSlot /\ openUntil \in 0..(MaxTime + MaxOpen + 1)
    /\ auth \in [AuthSlot -> [dev : Device \cup {Empty_slot}, at : Time]]
    /\ windowStart \in Time /\ count_in \in 0..Cap /\ pool \subseteq Device
    /\ since \in [Device -> 0..AuthSlots] /\ letIn \in [Device -> 0..(MaxTime + 1)]
    /\ \A s, u \in AuthSlot : auth[s].dev = auth[u].dev => s = u \/ auth[s].dev = Empty_slot

AdmitStart ==
    /\ auth = [s \in AuthSlot |-> NoAuth] /\ next = 0 /\ openUntil = 0
    /\ windowStart = 0 /\ count_in = 0

AdmitInit ==
    /\ AdmitStart /\ now = 0 /\ pool \in SUBSET Device
    /\ since = [d \in Device |-> AuthSlots] /\ letIn = [d \in Device |-> 0]

-----------------------------------------------------------------------------

\* The slot a device takes: its own, or the next in turn.
SlotOf(d) ==
    IF \E s \in AuthSlot : auth[s].dev = d
    THEN CHOOSE s \in AuthSlot : auth[s].dev = d
    ELSE next

\* Mutant of Turn: a device that keeps its slot moves the ring on.
Turn_always(slot) == (next + 1) % AuthSlots

\* next_ moves on if it was its slot that was taken.
Turn(slot) == IF slot = next THEN (next + 1) % AuthSlots ELSE next

\* DEVICE_AUTHORIZED, or a DEVICE_UPDATE it accepted.
Authorised(d) ==
    LET slot == SlotOf(d) IN
    /\ auth' = [auth EXCEPT ![slot] = [dev |-> d, at |-> now]]
    /\ next' = Turn(slot)
    /\ since' = IF slot # next THEN since
                ELSE [e \in Device |-> IF e = d THEN 0
                                       ELSE IF since[e] < AuthSlots THEN since[e] + 1 ELSE AuthSlots]
    /\ letIn' = [letIn EXCEPT ![d] = now + 1]
    /\ UNCHANGED <<now, openUntil, windowStart, count_in, pool>>

\* permit_join: opened, for no less than it was before, or closed now.
PermitJoin(seconds) ==
    /\ openUntil' = IF seconds = 0 THEN IF openUntil > now + 1 THEN now + 1 ELSE openUntil
               ELSE IF now + seconds + 1 > openUntil THEN now + seconds + 1 ELSE openUntil
    /\ UNCHANGED <<now, auth, next, windowStart, count_in, pool, since, letIn>>

Trusted(d) ==
    \/ openUntil > 0 /\ now + 1 <= openUntil + Grace
    \/ \E s \in AuthSlot : auth[s].dev = d /\ now - auth[s].at <= AuthTtl

NewWindow == count_in = 0 \/ now - windowStart >= WindowLen

WindowStart == IF NewWindow THEN now ELSE windowStart

CountSoFar == IF NewWindow THEN 0 ELSE count_in

\* An announce or a frame of a device the pool does not have, admitted or refused.
Knock(d) ==
    /\ d \notin pool
    /\ IF ~Trusted(d) THEN UNCHANGED <<windowStart, count_in, pool>>
       ELSE /\ windowStart' = WindowStart
            /\ IF CountSoFar >= Cap
               THEN count_in' = CountSoFar /\ UNCHANGED pool
               ELSE count_in' = CountSoFar + 1 /\ pool' = pool \cup {d}
    /\ UNCHANGED <<now, auth, next, openUntil, since, letIn>>

Forget(d) ==
    /\ d \in pool /\ pool' = pool \ {d}
    /\ UNCHANGED <<now, gate, since, letIn>>

\* The gate is in RAM; the time that goes by in a restart is at least a step.
RestartHub ==
    /\ now < MaxTime /\ now' = now + 1
    /\ auth' = [s \in AuthSlot |-> NoAuth] /\ next' = 0 /\ openUntil' = 0
    /\ windowStart' = 0 /\ count_in' = 0
    /\ since' = [d \in Device |-> AuthSlots] /\ letIn' = [d \in Device |-> 0]
    /\ UNCHANGED pool

PassTime ==
    /\ now < MaxTime /\ now' = now + 1
    /\ UNCHANGED <<gate, pool, since, letIn>>

AdmitNext ==
    \/ \E d \in Device : Authorised(d) \/ Knock(d) \/ Forget(d)
    \/ \E seconds \in 0..MaxOpen : PermitJoin(seconds)
    \/ RestartHub \/ PassTime

AdmitSpec == AdmitInit /\ [][AdmitNext]_admitVars

-----------------------------------------------------------------------------

\* A device the trust centre let in within the last ten minutes is not refused as a
\* stranger, as long as fewer than kAuthSlots others took the slot in turn after it did.
NewcomerIsTrusted ==
    \A d \in Device :
        since[d] < AuthSlots /\ letIn[d] > 0 /\ now + 1 - letIn[d] <= AuthTtl => Trusted(d)

=============================================================================
