------------------------------- MODULE Lockout -------------------------------
(***************************************************************************)
(* Wrong tokens and wrong passwords (auth.cpp): a few buckets of failures, *)
(* one per peer, a budget of wrong passwords for the whole hub, and the    *)
(* clock of 32 bits that both are stamped with.                            *)
(***************************************************************************)
EXTENDS Naturals, Sequences

CONSTANTS
    Peer,        \* what peer_ipv4_fd tells apart
    NoPeer,      \* the peer of a bucket that was never used
    FailLimit,   \* kFailLimit (5)
    Window,      \* kFailWindowMs (60 s), in steps of the clock
    Buckets,     \* kBuckets (8)
    HubLimit,    \* kHubPwFailLimit (20)
    ClockWrap,   \* 2^32 ms, in steps of the clock
    MaxUptime    \* bound: how long the hub runs

ASSUME LockoutAssumption ==
    /\ NoPeer \notin Peer
    /\ FailLimit \in Nat \ {0} /\ Window \in Nat \ {0}
    /\ Buckets \in Nat \ {0} /\ HubLimit \in Nat \ {0}
    /\ ClockWrap \in Nat /\ ClockWrap > Window
    /\ MaxUptime \in Nat

VARIABLES
    uptime,    \* time since the hub came on
    buckets,   \* s_buckets
    hubFails,  \* s_hub_pw_fail
    hubHead,   \* s_hub_pw_head
    wrongPw    \* the wrong passwords that were looked at in the last kFailWindowMs

lockVars == <<uptime, buckets, hubFails, hubHead, wrongPw>>

-----------------------------------------------------------------------------

Ring   == 0..(FailLimit - 1)
HubRing == 0..(HubLimit - 1)
Clock  == 0..(ClockWrap - 1)

\* A bucket that was never used has last = 0 (last_use_ms).
FreeBucket == [ip |-> NoPeer, ts |-> [i \in Ring |-> 0], head |-> 0, last |-> 0]
Bucket == [ip : Peer \cup {NoPeer}, ts : [Ring -> Clock], head : Ring, last : Clock]

History == Seq(0..MaxUptime)

LockTypeOK ==
    /\ uptime \in 0..MaxUptime
    /\ buckets \in [1..Buckets -> Bucket]
    /\ hubFails \in [HubRing -> Clock] /\ hubHead \in HubRing
    /\ wrongPw \in History

LockInit ==
    /\ uptime = 1
    /\ buckets = [i \in 1..Buckets |-> FreeBucket]
    /\ hubFails = [i \in HubRing |-> 0] /\ hubHead = 0
    /\ wrongPw = <<>>

-----------------------------------------------------------------------------
(* The clock and what it makes of a stamp.                                 *)

now_ms == uptime % ClockWrap

\* Unsigned subtraction: t is younger than the window, as far as 32 bits tell.
Recent(t) == t # 0 /\ (now_ms + ClockWrap - t) % ClockWrap < Window

bucket_live(b) == b.last # 0 /\ \E i \in Ring : Recent(b.ts[i])

Used(p)  == {i \in 1..Buckets : buckets[i].last # 0 /\ buckets[i].ip = p}
Spare    == {i \in 1..Buckets : ~bucket_live(buckets[i])}
First(S) == CHOOSE i \in S : \A j \in S : i <= j

\* locked: the peer's bucket is full of recent failures.
locked(p) ==
    /\ Used(p) # {}
    /\ \A i \in Ring : Recent(buckets[First(Used(p))].ts[i])

hub_pw_locked == \A i \in HubRing : Recent(hubFails[i])

-----------------------------------------------------------------------------

Stamped(b) == [b EXCEPT !.last = now_ms, !.ts[b.head] = now_ms,
                        !.head = (b.head + 1) % FailLimit]

\* Mutant of record_failure: with every bucket live, another peer's is taken.
record_failure_evicts(p) ==
    buckets' = IF Used(p) # {}
               THEN [buckets EXCEPT ![First(Used(p))] = Stamped(@)]
               ELSE [buckets EXCEPT ![IF Spare # {} THEN First(Spare) ELSE 1] =
                                        Stamped([FreeBucket EXCEPT !.ip = p])]

\* Into the peer's bucket, or a spare one; with every bucket live, not at all.
record_failure(p) ==
    buckets' = IF Used(p) # {}
               THEN [buckets EXCEPT ![First(Used(p))] = Stamped(@)]
               ELSE IF Spare # {}
               THEN [buckets EXCEPT ![First(Spare)] = Stamped([FreeBucket EXCEPT !.ip = p])]
               ELSE buckets

\* Mutant of hub_pw_failed: the ring never moves on.
hub_pw_failed_stuck == hubFails' = [hubFails EXCEPT ![hubHead] = now_ms] /\ UNCHANGED hubHead

hub_pw_failed ==
    /\ hubFails' = [hubFails EXCEPT ![hubHead] = now_ms]
    /\ hubHead' = (hubHead + 1) % HubLimit

\* The history: one more try now, as far as the properties look back; at the next
\* step of the clock those too old for the window are forgotten.
OneMore(h, n) == IF Len(h) < n THEN Append(h, uptime) ELSE Append(Tail(h), uptime)
Young(h) ==
    LET young == {i \in 1..Len(h) : uptime + 1 < h[i] + Window}
    IN  IF young = {} THEN <<>> ELSE SubSeq(h, First(young), Len(h))

\* check_request or auth_check_token with a wrong token.
WrongToken(p) ==
    /\ ~locked(p)
    /\ record_failure(p)
    /\ UNCHANGED <<uptime, hubFails, hubHead, wrongPw>>

\* password_check with a wrong password.  It looks at none while it is locked.
WrongPassword(p) ==
    /\ ~locked(p) /\ ~hub_pw_locked
    /\ record_failure(p)
    /\ hub_pw_failed
    /\ wrongPw' = OneMore(wrongPw, HubLimit + 1)
    /\ UNCHANGED uptime

TimePasses ==
    /\ uptime < MaxUptime /\ uptime' = uptime + 1
    /\ wrongPw' = Young(wrongPw)
    /\ UNCHANGED <<buckets, hubFails, hubHead>>

LockNext ==
    \/ \E p \in Peer : WrongToken(p) \/ WrongPassword(p)
    \/ TimePasses

LockSpec == LockInit /\ [][LockNext]_lockVars

-----------------------------------------------------------------------------

\* Whoever else guesses meanwhile, from however many addresses, a peer that is
\* locked out stays so until time passes (auth.cpp:53).
NobodyFreesALockedPeer ==
    [][\A p \in Peer : locked(p) /\ uptime' = uptime => locked(p)']_lockVars

\* A stamp of 0 counts as none: one of these passwords came when the clock read 0.
Unstamped == \E i \in 1..Len(wrongPw) : wrongPw[i] % ClockWrap = 0

\* All peers together get at most kHubPwFailLimit wrong passwords looked at in
\* kFailWindowMs, also those no bucket could count, also when the clock wraps between
\* them (auth.cpp:57); only one that came in the very step of the wrap is not counted.
GuessingIsBounded == Unstamped \/ Len(wrongPw) <= HubLimit

=============================================================================
