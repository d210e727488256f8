------------------------------- MODULE SdkLock -------------------------------
(***************************************************************************)
(* zb_lock::Guard (esp_zb_lock.h): the SDK's lock, made re-entrant by an   *)
(* owner and a depth that are plain variables, read by every task without  *)
(* a lock.  The stack task holds the lock in its callbacks, so a guard is  *)
(* a no-op there.  One step per access to the shared variables.            *)
(***************************************************************************)
EXTENDS Naturals

CONSTANTS
    User,             \* tasks that call the SDK
    MaxNest           \* bound: guards of a task, one inside the other

None  == "none"       \* owner() = nullptr, or nobody holds the lock
Stack == "stack"      \* task_zigbee

ASSUME SdkLockAssumption == MaxNest \in Nat \ {0} /\ None \notin User /\ Stack \notin User

VARIABLES
    lock,     \* who holds the SDK's lock
    owner,    \* owner()
    depth,    \* depth()
    pc,       \* per task, the step it is at
    nest      \* per task, its guards that are ok

lockVars == <<lock, owner, depth, pc, nest>>

LockTypeOK ==
    /\ lock \in User \cup {None, Stack} /\ owner \in User \cup {None} /\ depth \in Nat
    /\ pc \in [User -> {"out", "enter", "acquire", "own", "in", "leave", "clear", "release"}]
    /\ nest \in [User -> Nat]

LockInit ==
    /\ lock = None /\ owner = None /\ depth = 0
    /\ pc = [u \in User |-> "out"] /\ nest = [u \in User |-> 0]

To(u, step) == pc' = [pc EXCEPT ![u] = step]

\* A function with a guard is called, from outside or inside another guard.
Call(u) ==
    /\ pc[u] \in {"out", "in"} /\ nest[u] < MaxNest /\ To(u, "enter")
    /\ UNCHANGED <<lock, owner, depth, nest>>

\* Guard(): owner() is this task only if it has a guard already.
Enter(u) ==
    /\ pc[u] = "enter"
    /\ IF owner = u
       THEN depth' = depth + 1 /\ nest' = [nest EXCEPT ![u] = @ + 1] /\ To(u, "in")
       ELSE To(u, "acquire") /\ UNCHANGED <<depth, nest>>
    /\ UNCHANGED <<lock, owner>>

Acquire(u) ==
    /\ pc[u] = "acquire" /\ lock = None /\ lock' = u /\ To(u, "own")
    /\ UNCHANGED <<owner, depth, nest>>

\* Two seconds without the lock: the guard is false, and nothing is called.
GiveUp(u) ==
    /\ pc[u] = "acquire" /\ lock # None
    /\ To(u, IF nest[u] = 0 THEN "out" ELSE "in")
    /\ UNCHANGED <<lock, owner, depth, nest>>

Own(u) ==
    /\ pc[u] = "own" /\ owner' = u /\ depth' = 1
    /\ nest' = [nest EXCEPT ![u] = @ + 1] /\ To(u, "in")
    /\ UNCHANGED lock

\* ~Guard().
Leave(u) ==
    /\ pc[u] = "in" /\ nest' = [nest EXCEPT ![u] = @ - 1]
    /\ depth' = depth - 1
    /\ To(u, IF depth = 1 THEN "clear" ELSE "in")
    /\ UNCHANGED <<lock, owner>>

\* Mutant of Clear_owner: the lock goes back before the owner is cleared.
Clear_owner_late(u) ==
    \/ pc[u] = "clear" /\ lock' = None /\ To(u, "release") /\ UNCHANGED <<owner, depth, nest>>
    \/ pc[u] = "release" /\ owner' = None /\ To(u, "out") /\ UNCHANGED <<lock, depth, nest>>

Clear_owner(u) ==
    /\ pc[u] = "clear" /\ owner' = None /\ To(u, "release")
    /\ UNCHANGED <<lock, depth, nest>>

Release(u) ==
    /\ pc[u] = "release" /\ lock' = None /\ To(u, "out")
    /\ UNCHANGED <<owner, depth, nest>>

\* The main loop runs callbacks with the lock held.
Callback == lock = None /\ lock' = Stack /\ UNCHANGED <<owner, depth, pc, nest>>

CallbackEnds == lock = Stack /\ lock' = None /\ UNCHANGED <<owner, depth, pc, nest>>

LockNext ==
    \/ \E u \in User :
           \/ Call(u) \/ Enter(u) \/ Acquire(u) \/ GiveUp(u) \/ Own(u)
           \/ Leave(u) \/ Clear_owner(u) \/ Release(u)
    \/ Callback \/ CallbackEnds

LockSpec == LockInit /\ [][LockNext]_lockVars

-----------------------------------------------------------------------------

\* "a stale read can never equal the reader" (esp_zb_lock.h:26): a task whose guard is ok
\* holds the lock, so no two tasks call the SDK at once, and owner() names a task only
\* while that task is inside; and a task that is out has given the lock back.
OneInTheSdk ==
    \A u \in User :
        /\ nest[u] > 0 => lock = u /\ owner = u /\ depth = nest[u]
        /\ owner = u => lock = u
        /\ pc[u] = "out" => lock # u

=============================================================================
