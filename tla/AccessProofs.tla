---------------------------- MODULE AccessProofs ----------------------------
(* Of what decides who is let in and heard, for any number of peers, devices and failures: *)
(* what the settings page was promised (Switches), that guessing frees nobody and is        *)
(* bounded (Lockout), and whose frame it is, that a press acts once and that an awake       *)
(* device is configured (Frames).                                                           *)
EXTENDS Lockout, Switches, Frames, WellFoundedInduction, TLAPS

-----------------------------------------------------------------------------
(* The settings the cloud is told of.                                        *)

SwitchInv == SwitchTypeOK /\ PromiseKept

\* What is the case after a request, as far as the answer goes: a setting is as asked for if
\* all went well, else as it was or not promised; scripts are on only if that is saved.
Fits(st) == /\ st \in [live : Settings, saved : Settings, ok : BOOLEAN]
            /\ st.live.scripts => st.saved.scripts

LEMMA ScriptsFit ==
    ASSUME NEW st, Fits(st), NEW r \in Request, NEW w \in Write
    PROVE  LET s == ScriptsKey(st, r, w) IN
           /\ Fits(s) /\ s.live.log = st.live.log /\ s.saved.log = st.saved.log
           /\ s.ok => st.ok
           /\ r.scripts = NoKey => s = st
           /\ r.scripts # NoKey /\ s.ok => s.live.scripts = r.scripts /\ s.saved.scripts = r.scripts
<1>1. r.scripts \in BOOLEAN \cup {NoKey} /\ w \in {"done", "lost", "in_doubt"}
  BY DEF Request, Write
<1>2. CASE ~st.ok \/ r.scripts = NoKey \/ (r.scripts = TRUE /\ st.live.scripts)
  BY <1>1, <1>2 DEF ScriptsKey, Fits, Settings
<1>3. CASE ~(~st.ok \/ r.scripts = NoKey \/ (r.scripts = TRUE /\ st.live.scripts))
  <2>1. ScriptsKey(st, r, w) = sys_set_remote_scripts(st, r.scripts, w) /\ r.scripts \in BOOLEAN
    BY <1>1, <1>3 DEF ScriptsKey
  <2> QED BY <1>1, <1>3, <2>1 DEF sys_set_remote_scripts, after_save, Fits, Settings
<1> QED BY <1>2, <1>3

LEMMA LogFits ==
    ASSUME NEW st, Fits(st), NEW r \in Request, NEW w \in Write
    PROVE  LET s == LogKey(st, r, w) IN
           /\ Fits(s) /\ s.live.scripts = st.live.scripts /\ s.saved.scripts = st.saved.scripts
           /\ s.ok => st.ok
           /\ r.log = NoKey => s.live = st.live /\ s.saved = st.saved
           /\ r.log # NoKey /\ s.ok => s.live.log = r.log /\ s.saved.log = r.log
<1>1. r.log \in Level \cup {NoKey, BadLevel} /\ w \in {"done", "lost", "in_doubt"}
  BY DEF Request, Write
<1>2. CASE ~st.ok \/ r.log = NoKey
  BY <1>2 DEF LogKey
<1>3. CASE ~(~st.ok \/ r.log = NoKey) /\ r.log = BadLevel
  <2>1. LogKey(st, r, w) = [st EXCEPT !.ok = FALSE]
    BY <1>3 DEF LogKey
  <2>2. /\ [st EXCEPT !.ok = FALSE] \in [live : Settings, saved : Settings, ok : BOOLEAN]
        /\ [st EXCEPT !.ok = FALSE].live = st.live /\ [st EXCEPT !.ok = FALSE].saved = st.saved
        /\ [st EXCEPT !.ok = FALSE].ok = FALSE
    BY DEF Fits
  <2> DEFINE s == LogKey(st, r, w)
  <2>3. /\ s.live = st.live /\ s.saved = st.saved /\ s.ok = FALSE
        /\ s \in [live : Settings, saved : Settings, ok : BOOLEAN]
    BY <2>1, <2>2
  <2>4. Fits(s)
    BY <2>3 DEF Fits
  <2> HIDE DEF s
  <2> SUFFICES /\ Fits(s) /\ s.live.scripts = st.live.scripts /\ s.saved.scripts = st.saved.scripts
               /\ s.ok => st.ok
               /\ r.log = NoKey => s.live = st.live /\ s.saved = st.saved
               /\ r.log # NoKey /\ s.ok => s.live.log = r.log /\ s.saved.log = r.log
    BY DEF s
  <2> QED BY <1>3, <2>3, <2>4
<1>4. CASE ~(~st.ok \/ r.log = NoKey) /\ r.log # BadLevel
  <2>1. LogKey(st, r, w) = sys_set_log_cloud(st, r.log, w) /\ r.log \in Level
    BY <1>1, <1>4 DEF LogKey
  <2> DEFINE on == [st.live EXCEPT !.log = r.log]
             fl == [st.saved EXCEPT !.log = r.log]
             s == LogKey(st, r, w)
  <2>2. /\ st.live \in Settings /\ st.saved \in Settings /\ st.ok \in BOOLEAN
        /\ st.live.scripts => st.saved.scripts
    BY DEF Fits
  <2>3. /\ on \in Settings /\ on.scripts = st.live.scripts /\ on.log = r.log
        /\ fl \in Settings /\ fl.scripts = st.saved.scripts /\ fl.log = r.log
    BY <2>1, <2>2 DEF Settings
  <2> HIDE DEF on, fl
  <2>4. s = [live |-> IF w = "done" THEN on ELSE st.live,
             saved |-> IF w = "lost" THEN st.saved ELSE fl, ok |-> w = "done"]
    BY <2>1 DEF sys_set_log_cloud, on, fl
  <2> HIDE DEF s
  <2>5. /\ s \in [live : Settings, saved : Settings, ok : BOOLEAN]
        /\ s.live.scripts = st.live.scripts /\ s.saved.scripts = st.saved.scripts
    BY <2>2, <2>3, <2>4
  <2>6. s.ok => w = "done" /\ s.live = on /\ s.saved = fl
    BY <2>4
  <2>7. Fits(s)
    BY <2>2, <2>5 DEF Fits
  <2> SUFFICES /\ Fits(s) /\ s.live.scripts = st.live.scripts /\ s.saved.scripts = st.saved.scripts
               /\ s.ok => st.ok
               /\ r.log = NoKey => s.live = st.live /\ s.saved = st.saved
               /\ r.log # NoKey /\ s.ok => s.live.log = r.log /\ s.saved.log = r.log
    BY DEF s
  <2> QED BY <1>4, <2>3, <2>5, <2>6, <2>7
<1> QED BY <1>2, <1>3, <1>4

LEMMA SwitchInvStep == SwitchInv /\ [SwitchNext]_switchVars => SwitchInv'
<1> SUFFICES ASSUME SwitchInv, [SwitchNext]_switchVars PROVE SwitchInv'
  OBVIOUS
<1> USE DEF SwitchInv
<1>1. ASSUME NEW r \in Request, NEW w1 \in Write, NEW w2 \in Write, Apply(r, w1, w2)
      PROVE  SwitchInv'
  <2> DEFINE a == TimezoneKey(Before, r)
             b == ScriptsKey(a, r, w1)
             c == LogKey(b, r, w2)
  <2>1. Fits(a) /\ a.live = live /\ a.saved = saved
    BY DEF TimezoneKey, Before, Fits, SwitchTypeOK, PromiseKept
  <2> HIDE DEF a
  <2>2. /\ Fits(b) /\ b.live.log = live.log /\ b.saved.log = saved.log
        /\ r.scripts = NoKey => b.live = live /\ b.saved = saved
        /\ r.scripts # NoKey /\ b.ok => b.live.scripts = r.scripts /\ b.saved.scripts = r.scripts
    BY <2>1, ScriptsFit
  <2> HIDE DEF b
  <2>3. /\ Fits(c) /\ c.live.scripts = b.live.scripts /\ c.saved.scripts = b.saved.scripts
        /\ c.ok => b.ok
        /\ r.log = NoKey => c.live = b.live /\ c.saved = b.saved
        /\ r.log # NoKey /\ c.ok => c.live.log = r.log /\ c.saved.log = r.log
    BY <2>2, LogFits
  <2>4. /\ live' = c.live /\ saved' = c.saved /\ caps' = Told(c.live) /\ linked' = linked
        /\ told' = [k \in DOMAIN told |-> IF r[k] = NoKey THEN told[k]
                                          ELSE IF c.ok THEN r[k] ELSE Unsure]
    BY <1>1 DEF Apply, a, b, c
  <2> HIDE DEF c
  <2>5. DOMAIN told = {"scripts", "log"}
    BY DEF SwitchTypeOK
  <2>6. /\ told'["scripts"] = (IF r.scripts = NoKey THEN told["scripts"]
                               ELSE IF c.ok THEN r.scripts ELSE Unsure)
        /\ told'["log"] = (IF r.log = NoKey THEN told["log"] ELSE IF c.ok THEN r.log ELSE Unsure)
        /\ DOMAIN told' = {"scripts", "log"}
    BY <2>4, <2>5
  <2>7. SwitchTypeOK'
    <3>1. r.scripts \in BOOLEAN \cup {NoKey} /\ r.log \in Level \cup {NoKey, BadLevel}
      BY DEF Request
    <3>2. c.ok => r.log # BadLevel \/ r.log = NoKey
      BY <2>3 DEF Fits, Settings, BadLevel, Level
    <3>3. told' \in [scripts : BOOLEAN \cup {Unsure}, log : Level \cup {Unsure}]
      <4>1. told["scripts"] \in BOOLEAN \cup {Unsure} /\ told["log"] \in Level \cup {Unsure}
        BY DEF SwitchTypeOK
      <4>2. told'["scripts"] \in BOOLEAN \cup {Unsure}
        BY <2>6, <3>1, <4>1
      <4>3. told'["log"] \in Level \cup {Unsure}
        BY <2>6, <3>1, <3>2, <4>1
      <4>4. told' = [scripts |-> told'["scripts"], log |-> told'["log"]]
        BY <2>4, <2>6
      <4> QED BY <4>2, <4>3, <4>4
    <3>4. live' \in Settings /\ saved' \in Settings /\ caps' \in Settings
      BY <2>3, <2>4 DEF Fits, Told, SwitchTypeOK
    <3> QED BY <2>4, <3>3, <3>4 DEF SwitchTypeOK
  <2>8. told'["scripts"] # Unsure => live'.scripts = told'["scripts"] /\ saved'.scripts = told'["scripts"]
    <3>1. told["scripts"] # Unsure => live.scripts = told["scripts"] /\ saved.scripts = told["scripts"]
      BY <2>5 DEF PromiseKept
    <3> QED BY <2>2, <2>3, <2>4, <2>6, <3>1
  <2>9. told'["log"] # Unsure => live'.log = told'["log"] /\ saved'.log = told'["log"]
    <3>1. told["log"] # Unsure => live.log = told["log"] /\ saved.log = told["log"]
      BY <2>5 DEF PromiseKept
    <3> QED BY <2>2, <2>3, <2>4, <2>6, <3>1
  <2>10. live'.scripts => saved'.scripts
    BY <2>3, <2>4 DEF Fits
  <2>11. linked' => caps' = live'
    BY <2>4 DEF Told, PromiseKept
  <2>12. PromiseKept'
    BY <2>6, <2>8, <2>9, <2>10, <2>11 DEF PromiseKept
  <2> QED BY <2>7, <2>12
<1>2. CASE LinkUp \/ LinkDown \/ SwitchBoot
  <2>1. SwitchTypeOK'
    BY <1>2 DEF LinkUp, LinkDown, SwitchBoot, SwitchTypeOK
  <2>2. PromiseKept'
    BY <1>2 DEF LinkUp, LinkDown, SwitchBoot, PromiseKept
  <2> QED BY <2>1, <2>2
<1>3. CASE UNCHANGED switchVars
  BY <1>3 DEF switchVars, SwitchTypeOK, PromiseKept
<1> QED
  BY <1>1, <1>2, <1>3 DEF SwitchNext

\* What the settings page was told is so, and stays so over any restart; scripts from the
\* cloud are never on without being saved; a linked cloud knows what the hub lets it do
\* (sys_state.cpp, system_apply_settings).
THEOREM SettingsAreKept == SwitchSpec => []PromiseKept
<1>1. ASSUME SwitchInit PROVE SwitchInv
  <2>1. Default \in Settings /\ Default.scripts = FALSE /\ Default.log = 0
    BY DEF Default, Settings, Level
  <2>2. told \in [scripts : BOOLEAN \cup {Unsure}, log : Level \cup {Unsure}]
    BY <1>1 DEF SwitchInit, Level
  <2>3. told["scripts"] = FALSE /\ told["log"] = 0 /\ DOMAIN told = {"scripts", "log"}
    BY <1>1 DEF SwitchInit
  <2>4. SwitchTypeOK
    BY <1>1, <2>1, <2>2 DEF SwitchInit, SwitchTypeOK
  <2>5. PromiseKept
    BY <1>1, <2>1, <2>3 DEF SwitchInit, PromiseKept
  <2> QED BY <2>4, <2>5 DEF SwitchInv
<1>2. SwitchInv => PromiseKept
  BY DEF SwitchInv
<1> QED
  BY <1>1, <1>2, SwitchInvStep, PTL DEF SwitchSpec

-----------------------------------------------------------------------------
(* Wrong tokens and wrong passwords.                                         *)

LockTypes == uptime \in Nat /\ buckets \in [1..Buckets -> Bucket]

LEMMA Least ==
    ASSUME NEW S \in SUBSET Nat, S # {}
    PROVE  \E x \in S : \A y \in S : x <= y
<1>1. PICK x \in S : \A y \in S : ~(<<y, x>> \in OpToRel(<, Nat))
  BY NatLessThanWellFounded, WFMin
<1>2. \A y \in S : ~(y < x)
  BY <1>1 DEF OpToRel
<1> QED BY <1>2

LEMMA FirstOfNat ==
    ASSUME NEW S \in SUBSET Nat, S # {}
    PROVE  First(S) \in S /\ \A j \in S : First(S) <= j
<1>1. \E x \in S : \A y \in S : x <= y
  BY Least
<1> QED BY <1>1 DEF First

LEMMA FirstIsLeast ==
    ASSUME NEW S \in SUBSET (1..Buckets), S # {}
    PROVE  First(S) \in S /\ \A j \in S : First(S) <= j
<1>1. S \in SUBSET Nat
  BY LockoutAssumption
<1> QED BY <1>1, FirstOfNat

\* The bucket of a peer that is locked out.
LEMMA LockedBucket ==
    ASSUME NEW p \in Peer, locked(p)
    PROVE  /\ First(Used(p)) \in 1..Buckets /\ First(Used(p)) \in Used(p)
           /\ First(Used(p)) \notin Spare
<1>1. First(Used(p)) \in Used(p)
  BY FirstIsLeast DEF locked, Used
<1>2. bucket_live(buckets[First(Used(p))])
  BY <1>1, LockoutAssumption DEF locked, Used, bucket_live, Ring
<1> QED BY <1>1, <1>2 DEF Used, Spare

\* A failure of one peer takes a bucket that is its own or spare.
LEMMA OneBucket ==
    ASSUME LockTypes, NEW q \in Peer, ~locked(q), record_failure(q)
    PROVE  \/ buckets' = buckets
           \/ \E i \in 1..Buckets :
                 /\ i \in Used(q) \/ i \in Spare
                 /\ \A j \in 1..Buckets \ {i} : buckets'[j] = buckets[j]
                 /\ buckets'[i].ip = q
<1>1. CASE Used(q) # {}
  <2> DEFINE i == First(Used(q))
  <2>1. i \in Used(q) /\ i \in 1..Buckets
    BY <1>1, FirstIsLeast DEF Used
  <2>2. buckets' = [buckets EXCEPT ![i] = Stamped(buckets[i])]
    BY <1>1 DEF record_failure
  <2>3. buckets[i] \in Bucket /\ buckets[i].ip = q
    BY <2>1 DEF LockTypes, Used
  <2>4. Stamped(buckets[i]).ip = q
    BY <2>3 DEF Stamped, Bucket
  <2> HIDE DEF i
  <2>5. buckets'[i].ip = q /\ \A j \in 1..Buckets \ {i} : buckets'[j] = buckets[j]
    BY <2>1, <2>2, <2>4 DEF LockTypes
  <2> QED BY <2>1, <2>3, <2>5
<1>2. CASE Used(q) = {} /\ Spare # {}
  <2> DEFINE i == First(Spare)
  <2>1. i \in Spare /\ i \in 1..Buckets
    BY <1>2, FirstIsLeast DEF Spare
  <2>2. buckets' = [buckets EXCEPT ![i] = Stamped([FreeBucket EXCEPT !.ip = q])]
    BY <1>2 DEF record_failure
  <2>3. Stamped([FreeBucket EXCEPT !.ip = q]).ip = q
    BY DEF Stamped, FreeBucket
  <2> HIDE DEF i
  <2>4. buckets'[i].ip = q /\ \A j \in 1..Buckets \ {i} : buckets'[j] = buckets[j]
    BY <2>1, <2>2, <2>3 DEF LockTypes
  <2> QED BY <2>1, <2>4, <1>2
<1>3. CASE Used(q) = {} /\ Spare = {}
  BY <1>3 DEF record_failure
<1> QED BY <1>1, <1>2, <1>3

LEMMA StaysLocked ==
    ASSUME LockTypes, NEW p \in Peer, locked(p), NEW q \in Peer, ~locked(q), record_failure(q),
           uptime' = uptime
    PROVE  locked(p)'
<1>1. CASE buckets' = buckets
  BY <1>1 DEF locked, Used, Recent, now_ms
<1>2. ASSUME NEW i \in 1..Buckets, i \in Used(q) \/ i \in Spare, buckets'[i].ip = q,
             \A j \in 1..Buckets \ {i} : buckets'[j] = buckets[j]
      PROVE  locked(p)'
  <2> DEFINE f == First(Used(p))
  <2>1. p # q
    OBVIOUS
  <2>2. f \in 1..Buckets /\ f \in Used(p) /\ f \notin Spare
    BY LockedBucket
  <2>3. i # f
    BY <1>2, <2>1, <2>2 DEF Used
  <2>4. f \in Used(p)' /\ Used(p)' \subseteq Used(p)
    BY <1>2, <2>1, <2>2, <2>3 DEF Used
  <2>5. \A j \in Used(p) : f <= j
    BY FirstIsLeast DEF locked, Used
  <2>6. First(Used(p)')  = f
    <3>1. Used(p)' \in SUBSET (1..Buckets) /\ Used(p)' # {}
      BY <2>4 DEF Used
    <3>2. First(Used(p)') \in Used(p)' /\ First(Used(p)') <= f
      BY <2>4, <3>1, FirstIsLeast
    <3>3. f <= First(Used(p)')
      BY <2>4, <2>5, <3>2
    <3> QED BY <2>2, <3>1, <3>2, <3>3
  <2>7. \A k \in Ring : Recent(buckets[f].ts[k])
    BY DEF locked
  <2>8. buckets'[f] = buckets[f]
    BY <1>2, <2>2, <2>3
  <2>9. \A k \in Ring : Recent(buckets'[f].ts[k])
    BY <2>7, <2>8
  <2> HIDE DEF f
  <2>10. \A t : Recent(t)' <=> Recent(t)
    BY DEF Recent, now_ms
  <2>11. First(Used(p))' = f
    BY <2>6 DEF First
  <2> QED BY <2>4, <2>9, <2>10, <2>11 DEF locked
<1> QED BY <1>1, <1>2, OneBucket

LEMMA NowIsClock == ASSUME uptime \in Nat PROVE now_ms \in Clock
  BY LockoutAssumption DEF now_ms, Clock

LEMMA StampedBucket == ASSUME uptime \in Nat, NEW b \in Bucket PROVE Stamped(b) \in Bucket
<1>1. now_ms \in Clock /\ (b.head + 1) % FailLimit \in Ring
  BY NowIsClock, LockoutAssumption DEF Bucket, Ring
<1>2. b.head \in Ring /\ b.ts \in [Ring -> Clock]
  BY DEF Bucket
<1> HIDE DEF now_ms, Ring, Clock
<1>3. [b EXCEPT !.last = now_ms] \in Bucket /\ [b EXCEPT !.last = now_ms].head = b.head
  BY <1>1 DEF Bucket
<1> QED BY <1>1, <1>2 DEF Stamped, Bucket

LEMMA LockTypesStep == ASSUME LockTypes, [LockNext]_lockVars PROVE LockTypes'
<1>1. ASSUME NEW q \in Peer, record_failure(q) PROVE buckets' \in [1..Buckets -> Bucket]
  <2>1. [FreeBucket EXCEPT !.ip = q] \in Bucket
    BY LockoutAssumption DEF FreeBucket, Bucket, Ring, Clock
  <2>2. Stamped([FreeBucket EXCEPT !.ip = q]) \in Bucket
    BY <2>1, StampedBucket DEF LockTypes
  <2>3. \A i \in 1..Buckets : Stamped(buckets[i]) \in Bucket
    BY StampedBucket DEF LockTypes
  <2>4. CASE Used(q) # {}
    BY <1>1, <2>3, <2>4 DEF record_failure, LockTypes
  <2>5. CASE Used(q) = {}
    BY <1>1, <2>2, <2>5 DEF record_failure, LockTypes
  <2> QED BY <2>4, <2>5
<1>2. ASSUME NEW q \in Peer, WrongToken(q) \/ WrongPassword(q) PROVE LockTypes'
  BY <1>1, <1>2 DEF WrongToken, WrongPassword, LockTypes
<1>3. CASE TimePasses
  BY <1>3 DEF TimePasses, LockTypes
<1>4. CASE UNCHANGED lockVars
  BY <1>4 DEF lockVars, LockTypes
<1> QED BY <1>2, <1>3, <1>4 DEF LockNext

\* Whoever else guesses meanwhile, from however many addresses, with however few buckets, a
\* peer that is locked out stays so until time passes (record_failure in auth.cpp).
THEOREM LockedStaysLocked == LockSpec => NobodyFreesALockedPeer
<1>1. LockInit => LockTypes
  BY LockoutAssumption DEF LockInit, LockTypes, FreeBucket, Bucket, Ring, Clock
<1>2. LockTypes /\ [LockNext]_lockVars => LockTypes'
  BY LockTypesStep
<1>3. LockTypes /\ [LockNext]_lockVars =>
        [\A p \in Peer : locked(p) /\ uptime' = uptime => locked(p)']_lockVars
  <2> SUFFICES ASSUME LockTypes, LockNext, NEW p \in Peer, locked(p), uptime' = uptime
               PROVE  locked(p)'
    OBVIOUS
  <2>1. ASSUME NEW q \in Peer, WrongToken(q) \/ WrongPassword(q) PROVE locked(p)'
    BY <2>1, StaysLocked DEF WrongToken, WrongPassword
  <2>2. ~TimePasses
    BY DEF TimePasses, LockTypes
  <2> QED BY <2>1, <2>2 DEF LockNext
<1> QED
  BY <1>1, <1>2, <1>3, PTL DEF LockSpec, NobodyFreesALockedPeer

\* The history and the ring.  The j-th youngest of a history, and its slot in the ring.
Youngest(h, j) == h[Len(h) + 1 - j]
SlotOf(j)      == (hubHead + HubLimit - j) % HubLimit

\* A history is in order and no older than the window; the ring holds its youngest; and
\* after its last stamp of 0 there are no more than the ring has slots.
InOrder(h, now) ==
    /\ h \in Seq(Nat)
    /\ \A i \in 1..Len(h) : h[i] <= now /\ now < h[i] + Window
    /\ \A i, j \in 1..Len(h) : i <= j => h[i] <= h[j]

InRing(h) == \A j \in 1..HubLimit : j <= Len(h) => hubFails[SlotOf(j)] = Youngest(h, j) % ClockWrap

NotTooMany(h) ==
    \A k \in 1..Len(h) :
       (\A i \in k..Len(h) : h[i] % ClockWrap # 0) => Len(h) + 1 - k <= HubLimit

HubInv ==
    /\ uptime \in Nat /\ hubFails \in [HubRing -> Clock] /\ hubHead \in HubRing
    /\ InOrder(wrongPw, uptime) /\ InRing(wrongPw) /\ NotTooMany(wrongPw)

\* Division with remainder: the remainder is the only one, and there is one.
LEMMA Unique ==
    ASSUME NEW C \in Nat \ {0}, NEW q \in Nat, NEW r \in 0..(C - 1)
    PROVE  (C * q + r) % C = r
  OBVIOUS

LEMMA DivMod ==
    ASSUME NEW C \in Nat \ {0}, NEW w \in Nat
    PROVE  \E q \in Nat, r \in 0..(C - 1) : w = C * q + r /\ w % C = r
<1>1. PICK q \in Nat : q = w \div C
  OBVIOUS
<1>2. C * q <= w
  BY <1>1
<1>3. w < C * q + C
  BY <1>1
<1>4. C * q \in Nat
  OBVIOUS
<1>5. PICK r \in 0..(C - 1) : w = C * q + r
  BY <1>2, <1>3, <1>4
<1> QED BY <1>5, Unique

\* One turn of the clock, or of a ring.
LEMMA Turn ==
    ASSUME NEW C \in Nat \ {0}, NEW w \in Nat, NEW d \in 0..(C - 1)
    PROVE  (w + d) % C = IF (w % C) + d < C THEN (w % C) + d ELSE (w % C) + d - C
<1>1. PICK q \in Nat, r \in 0..(C - 1) : w = C * q + r /\ w % C = r
  BY DivMod
<1>2. CASE r + d < C
  <2>1. r + d \in 0..(C - 1) /\ w + d = C * q + (r + d)
    BY <1>1, <1>2
  <2> QED BY <1>1, <1>2, <2>1, Unique
<1>3. CASE ~(r + d < C)
  <2>1. PICK e \in 0..(C - 1) : e = r + d - C
    BY <1>1, <1>3
  <2>2. PICK p \in Nat : p = q + 1
    OBVIOUS
  <2>3. C * p = C * q + C
    BY <2>2
  <2>4. w + d = C * p + e
    BY <1>1, <2>1, <2>3
  <2>5. (w + d) % C = e
    BY <2>4, Unique
  <2> QED BY <1>1, <1>3, <2>1, <2>5
<1> QED BY <1>2, <1>3
\* The stamps of two moments less than a turn of the clock apart.
LEMMA TurnOfClock ==
    ASSUME NEW u \in Nat, NEW w \in Nat, w <= u, u < w + Window
    PROVE  ((u % ClockWrap) + ClockWrap - (w % ClockWrap)) % ClockWrap = u - w
<1>1. PICK C \in Nat \ {0} : C = ClockWrap /\ C > Window /\ Window \in Nat
  BY LockoutAssumption
<1>2. PICK d \in 0..(C - 1) : u = w + d
  BY <1>1
<1>3. PICK r \in 0..(C - 1) : r = w % C
  BY DivMod
<1>4. u % C = IF r + d < C THEN r + d ELSE r + d - C
  BY <1>2, <1>3, Turn
<1>5. d % C = d
  BY Unique
<1>6. (d + C) % C = d
  <2>1. d + C = C * 1 + d
    OBVIOUS
  <2> QED BY <2>1, Unique
<1>7. PICK v \in Nat : v = (u % C) + C - r
  <2>1. u % C \in Nat
    BY <1>2, <1>3, <1>4
  <2> QED BY <2>1
<1>8. v % C = d
  <2>1. v = d + C \/ v = d
    BY <1>3, <1>4, <1>7
  <2> QED BY <1>5, <1>6, <2>1
<1>9. u - w = d
  BY <1>2
<1> QED BY <1>1, <1>3, <1>7, <1>8, <1>9, Zenon

\* So a stamp of a wrong password within the window is recent, unless it is 0.
LEMMA StampIsRecent ==
    ASSUME uptime \in Nat, NEW w \in Nat, w <= uptime, uptime < w + Window, w % ClockWrap # 0
    PROVE  Recent(w % ClockWrap)
<1>1. uptime - w < Window
  BY LockoutAssumption
<1>2. ((uptime % ClockWrap) + ClockWrap - (w % ClockWrap)) % ClockWrap = uptime - w
  BY TurnOfClock
<1>3. w % ClockWrap # 0
  OBVIOUS
<1> QED BY <1>1, <1>2, <1>3, Zenon DEF Recent, now_ms

\* The slot j places behind f in a ring of H.
LEMMA Behind ==
    ASSUME NEW H \in Nat \ {0}, NEW f \in 0..(H - 1), NEW j \in 1..H
    PROVE  (f + H - j) % H = IF j <= f THEN f - j ELSE f + H - j
<1>1. CASE j <= f
  <2>1. PICK r \in 0..(H - 1) : r = f - j
    BY <1>1
  <2>2. f + H - j = H * 1 + r
    BY <1>1, <2>1
  <2> QED BY <1>1, <2>1, <2>2, Unique
<1>2. CASE ~(j <= f)
  <2>1. PICK r \in 0..(H - 1) : r = f + H - j
    BY <1>2
  <2>2. r = H * 0 + r
    OBVIOUS
  <2> QED BY <1>2, <2>1, <2>2, Unique
<1> QED BY <1>1, <1>2

\* The slots of the ring, by age, before and after a step of its head.
LEMMA RingSlots ==
    ASSUME hubHead \in HubRing
    PROVE  /\ \A j \in 1..HubLimit : SlotOf(j) = IF j <= hubHead THEN hubHead - j ELSE hubHead + HubLimit - j
           /\ \A j \in 1..HubLimit : SlotOf(j) \in HubRing
           /\ \A r \in HubRing : \E j \in 1..HubLimit : SlotOf(j) = r
<1>1. PICK H \in Nat \ {0} : H = HubLimit
  BY LockoutAssumption
<1>2. PICK f \in 0..(H - 1) : f = hubHead
  BY <1>1 DEF HubRing
<1>3. \A j \in 1..H : SlotOf(j) = IF j <= f THEN f - j ELSE f + H - j
  BY <1>1, <1>2, Behind DEF SlotOf
<1>4. \A j \in 1..H : SlotOf(j) \in 0..(H - 1)
  <2> TAKE j \in 1..H
  <2>1. (IF j <= f THEN f - j ELSE f + H - j) \in 0..(H - 1)
    OBVIOUS
  <2> QED BY <1>3, <2>1
<1>5. ASSUME NEW r \in 0..(H - 1)
      PROVE  \E j \in 1..H : SlotOf(j) = r
  <2>1. CASE r < f
    <3>1. PICK j \in 1..H : j = f - r /\ j <= f /\ f - j = r
      BY <2>1
    <3> QED BY <1>3, <3>1
  <2>2. CASE ~(r < f)
    <3>1. PICK j \in 1..H : j = f + H - r /\ ~(j <= f) /\ f + H - j = r
      BY <2>2
    <3> QED BY <1>3, <3>1
  <2> QED BY <2>1, <2>2
<1>6. HubRing = 0..(H - 1)
  BY <1>1 DEF HubRing
<1> QED BY <1>1, <1>2, <1>3, <1>4, <1>5, <1>6

LEMMA RingMoves ==
    ASSUME hubHead \in HubRing, hubHead' = (hubHead + 1) % HubLimit
    PROVE  /\ hubHead' \in HubRing /\ SlotOf(1)' = hubHead
           /\ \A j \in 1..HubLimit : j < HubLimit => SlotOf(j + 1)' = SlotOf(j) /\ SlotOf(j) # hubHead
<1>1. PICK H \in Nat \ {0} : H = HubLimit
  BY LockoutAssumption
<1>2. PICK f \in Nat : f = hubHead /\ f < H
  BY <1>1 DEF HubRing
<1>3. hubHead' = IF f + 1 < H THEN f + 1 ELSE 0
  <2>1. CASE f + 1 < H
    <3>1. f + 1 = H * 0 + (f + 1) /\ f + 1 \in 0..(H - 1)
      BY <1>2, <2>1
    <3>2. (f + 1) % H = f + 1
      BY <3>1, Unique
    <3> QED BY <1>1, <1>2, <2>1, <3>2
  <2>2. CASE ~(f + 1 < H)
    <3>1. f + 1 = H * 1 + 0 /\ 0 \in 0..(H - 1)
      BY <1>2, <2>2
    <3>2. (f + 1) % H = 0
      BY <3>1, Unique
    <3> QED BY <1>1, <1>2, <2>2, <3>2
  <2> QED BY <2>1, <2>2
<1>4. hubHead' \in HubRing
  BY <1>1, <1>2, <1>3 DEF HubRing
<1>5. PICK e \in Nat : e = hubHead'
  BY <1>4 DEF HubRing
<1>6. \A j \in 1..H : SlotOf(j)' = IF j <= e THEN e - j ELSE e + H - j
  <2>1. e \in 0..(H - 1)
    BY <1>1, <1>4, <1>5 DEF HubRing
  <2> QED BY <1>1, <1>5, <2>1, Behind DEF SlotOf
<1>7. \A j \in 1..H : SlotOf(j) = IF j <= f THEN f - j ELSE f + H - j
  BY <1>1, <1>2, RingSlots
<1>8. SlotOf(1)' = f
  BY <1>1, <1>2, <1>3, <1>5, <1>6
<1>9. ASSUME NEW j \in 1..H, j < H
      PROVE  SlotOf(j + 1)' = SlotOf(j) /\ SlotOf(j) # f
  <2>1. j + 1 \in 1..H
    BY <1>9
  <2>2. SlotOf(j + 1)' = IF j + 1 <= e THEN e - (j + 1) ELSE e + H - (j + 1)
    BY <1>6, <2>1
  <2>3. SlotOf(j) = IF j <= f THEN f - j ELSE f + H - j
    BY <1>7
  <2> QED BY <1>2, <1>3, <1>5, <1>9, <2>2, <2>3
<1> QED BY <1>1, <1>2, <1>4, <1>8, <1>9

\* The end of a history.
LEMMA Dropped ==
    ASSUME NEW h \in Seq(Nat), NEW k \in 1..Len(h), NEW g, g = SubSeq(h, k, Len(h))
    PROVE  /\ g \in Seq(Nat) /\ Len(g) = Len(h) + 1 - k
           /\ \A i \in 1..Len(g) : g[i] = h[i + k - 1] /\ i + k - 1 \in 1..Len(h)
  OBVIOUS

\* It has the properties of the whole, if it is young enough.
LEMMA DroppedKeeps ==
    ASSUME hubHead \in HubRing, NEW h \in Seq(Nat), NEW k \in 1..Len(h), NEW g,
           g = SubSeq(h, k, Len(h)), NEW now \in Nat, InRing(h), NotTooMany(h),
           \A i, j \in 1..Len(h) : i <= j => h[i] <= h[j],
           \A i \in 1..Len(h) : h[i] <= now,
           now < h[k] + Window
    PROVE  InOrder(g, now) /\ InRing(g) /\ NotTooMany(g)
<1>1. PICK n \in Nat : n = Len(h)
  OBVIOUS
<1>2. k \in 1..n /\ Window \in Nat
  BY <1>1, LockoutAssumption
<1>3. /\ g \in Seq(Nat) /\ Len(g) = n + 1 - k
      /\ \A i \in 1..(n + 1 - k) : g[i] = h[i + k - 1] /\ i + k - 1 \in 1..n
  BY <1>1, Dropped
<1>4. InOrder(g, now)
  <2>1. ASSUME NEW i \in 1..(n + 1 - k) PROVE g[i] <= now /\ now < g[i] + Window
    <3>1. PICK m \in 1..n : m = i + k - 1 /\ g[i] = h[m] /\ k <= m
      BY <1>2, <1>3
    <3>2. h[k] <= h[m] /\ h[m] <= now /\ h[k] \in Nat /\ h[m] \in Nat
      BY <1>1, <1>2, <3>1
    <3>3. PICK a \in Nat, b \in Nat : a = h[k] /\ b = h[m] /\ a <= b
      BY <3>2
    <3>4. now < a + Window /\ g[i] = b /\ b <= now
      BY <3>1, <3>2, <3>3
    <3>5. now < b + Window
      <4>1. PICK w \in Nat : w = Window
        BY <1>2
      <4>2. now < a + w
        BY <3>4, <4>1
      <4>3. a <= b
        BY <3>3
      <4>4. now < b + w
        BY <4>2, <4>3
      <4> QED BY <4>1, <4>4, Zenon
    <3> QED BY <3>4, <3>5
  <2>2. ASSUME NEW i \in 1..(n + 1 - k), NEW j \in 1..(n + 1 - k), i <= j PROVE g[i] <= g[j]
    <3>1. PICK m \in 1..n : m = i + k - 1 /\ g[i] = h[m]
      BY <1>2, <1>3
    <3>2. PICK l \in 1..n : l = j + k - 1 /\ g[j] = h[l]
      BY <1>2, <1>3
    <3>3. m <= l
      BY <1>2, <2>2, <3>1, <3>2
    <3> QED BY <1>1, <3>1, <3>2, <3>3
  <2> QED BY <1>3, <2>1, <2>2 DEF InOrder
<1>5. InRing(g)
  <2> SUFFICES ASSUME NEW j \in 1..HubLimit, j <= Len(g)
               PROVE  hubFails[SlotOf(j)] = Youngest(g, j) % ClockWrap
    BY DEF InRing
  <2>1. j \in Nat /\ j >= 1 /\ j <= n + 1 - k
    BY <1>3, LockoutAssumption
  <2>2. j <= n
    BY <1>2, <2>1
  <2>3. n + 1 - k + 1 - j \in 1..(n + 1 - k) /\ (n + 1 - k + 1 - j) + k - 1 = n + 1 - j
    BY <1>2, <2>1
  <2>4. Youngest(g, j) = Youngest(h, j)
    BY <1>1, <1>3, <2>3 DEF Youngest
  <2> QED BY <1>1, <2>2, <2>4 DEF InRing
<1>6. NotTooMany(g)
  <2> SUFFICES ASSUME NEW i \in 1..(n + 1 - k),
                      \A m \in i..(n + 1 - k) : g[m] % ClockWrap # 0
               PROVE  n + 1 - k + 1 - i <= HubLimit
    BY <1>3 DEF NotTooMany
  <2>1. PICK l \in 1..n : l = i + k - 1
    BY <1>2, <1>3
  <2>2. ASSUME NEW m \in l..n PROVE h[m] % ClockWrap # 0
    <3>1. m + 1 - k \in i..(n + 1 - k) /\ m + 1 - k \in 1..(n + 1 - k) /\ (m + 1 - k) + k - 1 = m
      BY <1>2, <2>1
    <3> QED BY <1>3, <3>1
  <2>3. n + 1 - l <= HubLimit
    BY <1>1, <2>2 DEF NotTooMany
  <2> QED BY <1>2, <2>1, <2>3
<1> QED BY <1>4, <1>5, <1>6

\* One wrong password more, looked at when the ring was not full of recent ones.
LEMMA PushKeeps ==
    ASSUME uptime \in Nat, hubFails \in [HubRing -> Clock], hubHead \in HubRing,
           NEW g, InOrder(g, uptime), InRing(g), NotTooMany(g),
           ~hub_pw_locked, hub_pw_failed, NEW h, h = Append(g, uptime)
    PROVE  InOrder(h, uptime) /\ InRing(h)' /\ NotTooMany(h)
<1>1. PICK n \in Nat : n = Len(g)
  BY DEF InOrder
<1>2. PICK H \in Nat \ {0} : H = HubLimit
  BY LockoutAssumption
<1>3. g \in Seq(Nat) /\ h \in Seq(Nat) /\ Len(h) = n + 1 /\ h[n + 1] = uptime
      /\ \A i \in 1..n : h[i] = g[i] /\ g[i] \in Nat
  BY <1>1 DEF InOrder
<1>4. InOrder(h, uptime)
  <2>1. \A i \in 1..(n + 1) : h[i] <= uptime /\ uptime < h[i] + Window
    BY <1>1, <1>3, LockoutAssumption DEF InOrder
  <2>2. \A i, j \in 1..(n + 1) : i <= j => h[i] <= h[j]
    BY <1>1, <1>3 DEF InOrder
  <2> QED BY <1>3, <2>1, <2>2 DEF InOrder
<1>5. hubFails' = [hubFails EXCEPT ![hubHead] = now_ms] /\ hubHead' = (hubHead + 1) % HubLimit
  BY DEF hub_pw_failed
<1>6. InRing(h)'
  <2> SUFFICES ASSUME NEW j \in 1..H, j <= n + 1
               PROVE  hubFails'[SlotOf(j)'] = h[n + 2 - j] % ClockWrap
    BY <1>2, <1>3 DEF InRing, Youngest
  <2>1. CASE j = 1
    <3>1. hubFails'[hubHead] = now_ms /\ SlotOf(1)' = hubHead
      BY <1>5, RingMoves
    <3>2. h[n + 2 - j] = uptime
      BY <1>3, <2>1
    <3> QED BY <2>1, <3>1, <3>2 DEF now_ms
  <2>2. CASE j # 1
    <3>1. PICK i \in 1..H : j = i + 1 /\ i < H /\ i <= n
      BY <2>2
    <3>2. SlotOf(j)' = SlotOf(i) /\ SlotOf(i) # hubHead /\ SlotOf(i) \in HubRing
      BY <1>2, <1>5, <3>1, RingMoves, RingSlots
    <3>3. hubFails'[SlotOf(i)] = hubFails[SlotOf(i)]
      BY <1>5, <3>2
    <3>4. hubFails[SlotOf(i)] = g[n + 1 - i] % ClockWrap
      BY <1>1, <1>2, <3>1 DEF InRing, Youngest
    <3>5. n + 2 - j = n + 1 - i /\ n + 1 - i \in 1..n
      BY <3>1
    <3> QED BY <1>3, <3>2, <3>3, <3>4, <3>5
  <2> QED BY <2>1, <2>2
<1>7. PICK j \in 1..H : j <= n => g[n + 1 - j] % ClockWrap = 0
  <2>1. PICK r \in HubRing : ~Recent(hubFails[r])
    BY DEF hub_pw_locked
  <2>2. PICK j \in 1..H : SlotOf(j) = r
    BY <1>2, RingSlots
  <2>3. ASSUME j <= n PROVE g[n + 1 - j] % ClockWrap = 0
    <3>1. hubFails[r] = g[n + 1 - j] % ClockWrap
      BY <1>1, <1>2, <2>2, <2>3 DEF InRing, Youngest
    <3>2. n + 1 - j \in 1..n
      BY <2>3
    <3>3. PICK w \in Nat : w = g[n + 1 - j] /\ w <= uptime /\ uptime < w + Window
      BY <1>1, <1>3, <3>2 DEF InOrder
    <3>4. ~Recent(w % ClockWrap)
      BY <2>1, <3>1, <3>3
    <3> QED BY <3>3, <3>4, StampIsRecent
  <2> QED BY <2>3
<1>8. NotTooMany(h)
  <2> SUFFICES ASSUME NEW k \in 1..(n + 1), \A i \in k..(n + 1) : h[i] % ClockWrap # 0
               PROVE  n + 1 + 1 - k <= H
    BY <1>2, <1>3 DEF NotTooMany
  <2>1. CASE j <= n
    <3>1. n + 1 - j \in 1..n /\ g[n + 1 - j] % ClockWrap = 0
      BY <1>7, <2>1
    <3>2. h[n + 1 - j] % ClockWrap = 0
      BY <1>3, <3>1
    <3>3. ~(n + 1 - j \in k..(n + 1))
      BY <3>2
    <3>4. n + 1 - j < k
      BY <3>1, <3>3
    <3> QED BY <3>4
  <2>2. CASE ~(j <= n)
    BY <2>2
  <2> QED BY <2>1, <2>2
<1> QED BY <1>4, <1>6, <1>8

LEMMA HubInvStep == ASSUME HubInv, [LockNext]_lockVars PROVE HubInv'
<1>0. PICK h \in Seq(Nat), n \in Nat : h = wrongPw /\ n = Len(h)
  BY DEF HubInv, InOrder
<1>1. ASSUME NEW p \in Peer, WrongPassword(p) PROVE HubInv'
  <2>1. ~hub_pw_locked /\ hub_pw_failed /\ uptime' = uptime /\ wrongPw' = OneMore(wrongPw, HubLimit + 1)
    BY <1>1 DEF WrongPassword
  <2>2. PICK g : /\ wrongPw' = Append(g, uptime)
                 /\ InOrder(g, uptime) /\ InRing(g) /\ NotTooMany(g)
    <3>1. CASE n < HubLimit + 1
      BY <1>0, <2>1, <3>1 DEF OneMore, HubInv
    <3>2. CASE ~(n < HubLimit + 1)
      <4>1. n > 1
        BY <3>2, LockoutAssumption
      <4>2. wrongPw' = Append(Tail(h), uptime) /\ Tail(h) = SubSeq(h, 2, Len(h)) /\ 2 \in 1..Len(h)
        BY <1>0, <2>1, <3>2, <4>1 DEF OneMore
      <4>3. InOrder(Tail(h), uptime) /\ InRing(Tail(h)) /\ NotTooMany(Tail(h))
        BY <1>0, <4>2, DroppedKeeps DEF HubInv, InOrder
      <4> QED BY <4>2, <4>3
    <3> QED BY <3>1, <3>2
  <2>3. hubFails' \in [HubRing -> Clock] /\ hubHead' \in HubRing
    BY <2>1, NowIsClock, RingMoves DEF hub_pw_failed, HubInv
  <2>4. InOrder(wrongPw', uptime) /\ InRing(wrongPw)' /\ NotTooMany(wrongPw')
    <3>1. PICK c : c = wrongPw'
      OBVIOUS
    <3>2. InOrder(c, uptime) /\ InRing(c)' /\ NotTooMany(c)
      BY <2>1, <2>2, <3>1, PushKeeps DEF HubInv
    <3> QED BY <3>1, <3>2 DEF InRing, Youngest
  <2> QED BY <2>1, <2>3, <2>4 DEF HubInv
<1>2. ASSUME NEW p \in Peer, WrongToken(p) PROVE HubInv'
  BY <1>2 DEF WrongToken, HubInv, InRing, SlotOf
<1>3. CASE TimePasses
  <2>1. uptime' = uptime + 1 /\ uptime + 1 \in Nat /\ wrongPw' = Young(wrongPw) /\ UNCHANGED <<hubFails, hubHead>>
    BY <1>3 DEF TimePasses, HubInv
  <2>2. PICK young \in SUBSET (1..n) : young = {i \in 1..n : uptime + 1 < h[i] + Window}
    OBVIOUS
  <2>3. InOrder(wrongPw', uptime + 1) /\ InRing(wrongPw') /\ NotTooMany(wrongPw')
    <3>1. CASE young = {}
      <4>1. wrongPw' = <<>>
        BY <1>0, <2>1, <2>2, <3>1 DEF Young
      <4> QED BY <4>1 DEF InOrder, InRing, NotTooMany
    <3>2. CASE young # {}
      <4>0. young \in SUBSET Nat
        OBVIOUS
      <4>1. PICK k \in young : k = First(young)
        BY <3>2, <4>0, FirstOfNat
      <4>2. k \in 1..n /\ uptime + 1 < h[k] + Window /\ wrongPw' = SubSeq(h, k, Len(h))
        BY <1>0, <2>1, <2>2, <3>2, <4>1 DEF Young
      <4>3. \A i \in 1..n : h[i] <= uptime + 1 /\ h[i] \in Nat
        BY <1>0 DEF HubInv, InOrder
      <4> QED BY <1>0, <2>1, <4>2, <4>3, DroppedKeeps DEF HubInv, InOrder
    <3> QED BY <3>1, <3>2
  <2> QED BY <2>1, <2>3 DEF HubInv, InRing, SlotOf, Youngest
<1>4. CASE UNCHANGED lockVars
  BY <1>4 DEF lockVars, HubInv, InRing, SlotOf
<1> QED BY <1>1, <1>2, <1>3, <1>4 DEF LockNext

\* All peers together get at most kHubPwFailLimit wrong passwords looked at in a window, for
\* every number of peers and buckets and any clock that is longer than the window, also over
\* its wraps (hub_pw_locked and hub_pw_failed in auth.cpp).
THEOREM GuessesAreBounded == LockSpec => []GuessingIsBounded
<1>1. LockInit => HubInv
  <2> SUFFICES ASSUME LockInit PROVE HubInv
    OBVIOUS
  <2>1. hubFails \in [HubRing -> Clock] /\ hubHead \in HubRing
    BY LockoutAssumption DEF LockInit, HubRing, Clock
  <2>2. wrongPw = <<>> /\ uptime \in Nat
    BY DEF LockInit
  <2>3. InOrder(wrongPw, uptime) /\ InRing(wrongPw) /\ NotTooMany(wrongPw)
    BY <2>2 DEF InOrder, InRing, NotTooMany
  <2> QED BY <2>1, <2>2, <2>3 DEF HubInv
<1>2. HubInv => GuessingIsBounded
  <2> SUFFICES ASSUME HubInv, ~Unstamped PROVE Len(wrongPw) <= HubLimit
    BY DEF GuessingIsBounded
  <2>1. PICK n \in Nat : n = Len(wrongPw)
    BY DEF HubInv, InOrder
  <2>2. CASE n = 0
    BY <2>1, <2>2, LockoutAssumption
  <2>3. CASE n > 0
    <3>1. 1 \in 1..n /\ n + 1 - 1 = n
      BY <2>3
    <3> QED BY <2>1, <3>1 DEF HubInv, NotTooMany, Unstamped
  <2> QED BY <2>1, <2>2, <2>3
<1> QED BY <1>1, <1>2, HubInvStep, PTL DEF LockSpec

-----------------------------------------------------------------------------
(* Whose frame it is.                                                        *)

\* Each device joined under an address of its own.
OwnShorts == \E f \in [Sender -> Short] : \A d, e \in Sender : f[d] = f[e] => d = e

\* From its answer on the frame in hand is put down to its sender or to nobody, when the stack
\* knows the sender, and it is never decoded for nobody.  Whose turn to be configured has to
\* wait has had one lately.
FrameInv ==
    /\ at \in [Sender -> Short \cup {NoShort}] /\ book \in [Sender -> Record]
    /\ here = Nothing \/ here \in HandType
    /\ mixed = FALSE
    /\ here # Nothing =>
          /\ here.stage # "resolve" /\ (here.maps \/ Long) => here.ieee \in {here.by, NoSender}
          /\ here.stage \in {"decode", "finish"} => here.ieee # NoSender
    /\ kick = NoSender \/ kick \in kicked

\* A frame in hand at another stage, put down to d.
Put(h, w, d) ==
    /\ h \in HandType /\ h # Nothing
    /\ h.stage = w /\ h.by = here.by /\ h.maps = here.maps /\ h.ieee = d

LEMMA InHand ==
    ASSUME here \in HandType, NEW w \in {"answer", "decode", "finish"}
    PROVE  /\ here # Nothing /\ Put(Now(w), w, here.ieee)
           /\ \A d \in Sender \cup {NoSender} : Put([Now(w) EXCEPT !.ieee = d], w, d)
           /\ \A d \in Sender, n \in Short \cup {NoShort} :
                 Put([Now(w) EXCEPT !.ieee = d, !.nwk = n], w, d)
           /\ \A r \in Record, b \in BOOLEAN : Put([Now(w) EXCEPT !.snap = r, !.heals = b], w, here.ieee)
<1>1. \A h \in HandType : DOMAIN h # DOMAIN Nothing
  BY DEF HandType, Nothing
<1>2. /\ Now(w) \in HandType /\ Now(w).stage = w /\ Now(w).by = here.by /\ Now(w).maps = here.maps
      /\ Now(w).ieee = here.ieee
  BY DEF Now, HandType
<1> HIDE DEF Now
<1>3. \A d \in Sender \cup {NoSender} : Put([Now(w) EXCEPT !.ieee = d], w, d)
  BY <1>1, <1>2 DEF Put, HandType
<1>4. \A d \in Sender, n \in Short \cup {NoShort} : Put([Now(w) EXCEPT !.ieee = d, !.nwk = n], w, d)
  BY <1>1, <1>2 DEF Put, HandType
<1>5. \A r \in Record, b \in BOOLEAN : Put([Now(w) EXCEPT !.snap = r, !.heals = b], w, here.ieee)
  BY <1>1, <1>2 DEF Put, HandType
<1> QED BY <1>1, <1>2, <1>3, <1>4, <1>5 DEF Put

LEMMA FrameInvInit == OwnShorts /\ FramesInit => FrameInv
<1> SUFFICES ASSUME OwnShorts, FramesInit PROVE FrameInv
  OBVIOUS
<1>1. at \in [Sender -> Short]
  BY DEF OwnShorts, FramesInit
<1>2. book \in [Sender -> Record]
  <2>1. PICK old \in SUBSET Sender :
          book = [d \in Sender |-> IF d \in old THEN [in |-> TRUE, nwk |-> at[d], known |-> TRUE, done |-> FALSE]
                                   ELSE Absent]
    BY DEF FramesInit
  <2>2. \A d \in Sender : [in |-> TRUE, nwk |-> at[d], known |-> TRUE, done |-> FALSE] \in Record
    BY <1>1 DEF Record
  <2>3. Absent \in Record
    BY DEF Record, Absent
  <2> QED BY <2>1, <2>2, <2>3
<1> QED BY <1>1, <1>2 DEF FramesInit, FrameInv

\* What the steps outside do to the frame in hand: a frame begins, or nothing.
LEMMA SendsStep ==
    ASSUME FrameInv, NEW d \in Sender, NEW k \in {"press", "group", "report", "enroll"}, Sends(d, k)
    PROVE  FrameInv'
<1>1. PICK mapped \in BOOLEAN :
         here' = [stage |-> "resolve", by |-> d, kind |-> k, maps |-> mapped, ieee |-> NoSender,
                  nwk |-> at[d], snap |-> Absent, heals |-> FALSE]
  BY DEF Sends
<1>2. Absent \in Record /\ at[d] \in Short \cup {NoShort}
  BY DEF Absent, Record, FrameInv
<1>3. here' \in HandType /\ here'.stage = "resolve"
  BY <1>1, <1>2 DEF HandType
<1>4. UNCHANGED <<at, book, kick, kicked, mixed>>
  BY DEF Sends, bad
<1> QED BY <1>3, <1>4 DEF FrameInv, Long

LEMMA FrameInvStep == ASSUME FrameInv, [FramesNext]_framesVars PROVE FrameInv'
<1> USE FramesAssumption
<1>1. CASE ResolveExtended
  <2>1. here \in HandType /\ here.by \in Sender /\ book[here.by].nwk \in Short \cup {NoShort}
    BY <1>1 DEF ResolveExtended, FrameInv, Nothing, HandType, Record
  <2>2. Put(here', "answer", here.by)
    BY <1>1, <2>1, InHand DEF ResolveExtended
  <2> QED BY <1>1, <2>2 DEF ResolveExtended, FrameInv, bad, Put
<1>2. CASE ResolveHeld
  <2>1. here \in HandType /\ ~Long /\ here.by \in Sender
    BY <1>2 DEF ResolveHeld, FrameInv, Nothing, HandType
  <2>2. PICK r \in Holders(here.nwk) :
          IF StaleHolder(r)
          THEN /\ book' = [e \in Sender |-> IF e = r THEN [book[e] EXCEPT !.nwk = NoShort]
                                            ELSE IF e = here.by /\ book[here.by].in
                                                 THEN [book[e] EXCEPT !.nwk = here.nwk]
                                            ELSE book[e]]
               /\ By(IF book[here.by].in THEN here.by ELSE NoSender)
          ELSE By(r) /\ UNCHANGED book
    BY <1>2 DEF ResolveHeld
  <2>3. r \in Sender
    BY DEF Holders
  <2>4. \E d \in Sender \cup {NoSender} :
           Put(here', "answer", d) /\ (here.maps => d \in {here.by, NoSender})
    <3>1. PICK d \in Sender \cup {NoSender} : By(d) /\ (here.maps => d \in {here.by, NoSender})
      <4>1. CASE StaleHolder(r)
        <5>1. PICK d : d = IF book[here.by].in THEN here.by ELSE NoSender
          OBVIOUS
        <5>2. By(d) /\ d \in {here.by, NoSender}
          BY <2>2, <4>1, <5>1
        <5> QED BY <2>1, <5>2
      <4>2. CASE ~StaleHolder(r)
        BY <2>2, <2>3, <4>2 DEF StaleHolder
      <4> QED BY <4>1, <4>2
    <3>2. Put(here', "answer", d)
      BY <2>1, <3>1, InHand DEF By
    <3> QED BY <3>1, <3>2
  <2>5. book' \in [Sender -> Record]
    <3>1. here.nwk \in Short \cup {NoShort}
      BY <2>1 DEF HandType
    <3>2. \A e \in Sender, n \in Short \cup {NoShort} : [book[e] EXCEPT !.nwk = n] \in Record
      BY DEF FrameInv, Record
    <3> QED BY <2>2, <3>1, <3>2 DEF FrameInv
  <2> QED BY <1>2, <2>1, <2>4, <2>5 DEF ResolveHeld, FrameInv, bad, Put, Long
<1>3. CASE ResolveUnheld
  <2>1. here \in HandType /\ ~Long /\ here.by \in Sender /\ here.nwk \in Short \cup {NoShort}
    BY <1>3 DEF ResolveUnheld, FrameInv, Nothing, HandType
  <2>2. Put(here', "answer", NoSender) \/ (here.maps /\ Put(here', "answer", here.by))
    BY <1>3, <2>1, InHand DEF ResolveUnheld, By
  <2>3. book' \in [Sender -> Record]
    <3>1. [book[here.by] EXCEPT !.nwk = here.nwk] \in Record
          /\ [Absent EXCEPT !.in = TRUE, !.nwk = here.nwk] \in Record
      BY <2>1 DEF FrameInv, Record, Absent
    <3> QED BY <1>3, <2>1, <3>1 DEF ResolveUnheld, FrameInv
  <2> QED BY <1>3, <2>1, <2>2, <2>3 DEF ResolveUnheld, FrameInv, bad, Put, Long
<1>4. CASE Answer
  <2>1. here \in HandType
    BY <1>4 DEF Answer, FrameInv, Nothing
  <2>2. here' = Nothing \/ (here.ieee # NoSender /\ Put(here', "decode", here.ieee))
    BY <1>4, <2>1, InHand DEF Answer
  <2>3. UNCHANGED <<at, book, kick, kicked, mixed>>
    BY <1>4 DEF Answer
  <2>4. here.maps \/ here.by \in Extended => here.ieee \in {here.by, NoSender}
    BY <1>4, <2>1, InHand DEF Answer, FrameInv, Long
  <2>5. CASE here' = Nothing
    BY <2>3, <2>5 DEF FrameInv
  <2>6. CASE here.ieee # NoSender /\ Put(here', "decode", here.ieee)
    BY <2>3, <2>4, <2>6 DEF FrameInv, Put, Long
  <2> QED BY <2>2, <2>5, <2>6
<1>5. CASE Decode
  <2>1. here \in HandType /\ here.ieee # NoSender /\ here.ieee \in Sender
    BY <1>5 DEF Decode, FrameInv, Nothing, HandType
  <2>2. book[here.ieee] \in Record
    BY <2>1 DEF FrameInv
  <2>3. Put(here', "finish", here.ieee)
    BY <1>5, <2>1, <2>2, InHand DEF Decode
  <2>6. ~(here.ieee # here.by /\ (here.maps \/ Long))
    BY <1>5, <2>1, InHand DEF Decode, FrameInv
  <2>7. mixed' = (mixed \/ (here.ieee # here.by /\ (here.maps \/ Long)))
    BY <1>5 DEF Decode
  <2>8. mixed = FALSE
    BY DEF FrameInv
  <2>4. mixed' = FALSE
    BY <2>6, <2>7, <2>8
  <2>5. UNCHANGED <<at, book, kick, kicked>>
    BY <1>5 DEF Decode
  <2> QED BY <1>5, <2>1, <2>3, <2>4, <2>5 DEF Decode, FrameInv, Put, Long
<1>6. CASE Finish
  <2>1. here' = Nothing /\ UNCHANGED <<at, mixed>>
    BY <1>6 DEF Finish, bad
  <2>2. book' \in [Sender -> Record]
    BY <1>6 DEF Finish, FrameInv, Record
  <2>3. kick' = NoSender \/ kick' \in kicked'
    BY <1>6 DEF Finish, FrameInv
  <2> QED BY <2>1, <2>2, <2>3 DEF FrameInv
<1>7. CASE TimePassesBy
  <2>1. UNCHANGED <<at, book, here, mixed>> /\ (kick' = NoSender \/ UNCHANGED <<kick, kicked>>)
    BY <1>7 DEF TimePassesBy, bad
  <2> QED BY <2>1 DEF FrameInv, Long
<1>8. ASSUME NEW d \in Sender, Press(d) \/ Resend(d) \/ Talk(d) PROVE FrameInv'
  BY <1>8, SendsStep DEF Press, Resend, Talk
<1>9. ASSUME NEW d \in Sender, Move(d) PROVE FrameInv'
  <2>1. UNCHANGED <<here, kick, kicked, mixed>>
    BY <1>9 DEF Move, bad
  <2>2. \A n \in Short : [book[d] EXCEPT !.nwk = n] \in Record
    BY DEF FrameInv, Record
  <2>3. at' \in [Sender -> Short \cup {NoShort}] /\ book' \in [Sender -> Record]
    BY <1>9, <2>2 DEF Move, Announced, FrameInv
  <2> QED BY <2>1, <2>3 DEF FrameInv, Long
<1>10. ASSUME NEW d \in Sender, PoolChanges(d) PROVE FrameInv'
  <2>1. UNCHANGED <<at, here, kick, kicked, mixed>>
    BY <1>10 DEF PoolChanges, bad
  <2>2. [book[d] EXCEPT !.known = FALSE] \in Record /\ [book[d] EXCEPT !.done = TRUE] \in Record
        /\ Absent \in Record
    BY DEF FrameInv, Record, Absent
  <2>3. book' \in [Sender -> Record]
    BY <1>10, <2>2 DEF PoolChanges, FrameInv
  <2> QED BY <2>1, <2>3 DEF FrameInv, Long
<1>11. CASE UNCHANGED framesVars
  BY <1>11 DEF framesVars, bad, FrameInv, Long
<1> QED
  BY <1>1, <1>2, <1>3, <1>4, <1>5, <1>6, <1>7, <1>8, <1>9, <1>10, <1>11 DEF FramesNext, Handler

\* A frame is never put down to another device than its sender, for any number of devices and
\* addresses, however they are given anew, as long as the stack's map has the sender
\* (resolve_source in on_apsde_indication).
THEOREM FramesAreTheSenders == OwnShorts /\ FramesSpec => []UnderItsSender
<1>1. FrameInv => UnderItsSender
  BY DEF FrameInv, UnderItsSender
<1>2. FrameInv /\ [FramesNext]_framesVars => FrameInv'
  BY FrameInvStep
<1>3. OwnShorts /\ FramesInit => FrameInv
  BY FrameInvInit
<1> QED
  BY <1>1, <1>2, <1>3, PTL DEF FramesSpec

\* A device that is awake and not configured has been queued within the last 30 s when its
\* frame is done with, for any number of devices that talk (the kick of on_apsde_indication).
THEOREM AwakeDevicesAreQueued == OwnShorts /\ FramesSpec => AwakeIsQueued
<1>1. FrameInv /\ [FramesNext]_framesVars =>
        [here # Nothing /\ here.stage = "finish" /\ here' = Nothing
           /\ here.snap.in /\ (here.snap.known \/ here.heals) /\ ~here.snap.done
         => here.ieee \in kicked']_framesVars
  <2> SUFFICES ASSUME FrameInv, FramesNext, here # Nothing, here.stage = "finish", here' = Nothing,
                      here.snap.in, here.snap.known \/ here.heals, ~here.snap.done
               PROVE  here.ieee \in kicked'
    OBVIOUS
  <2>1. here.ieee # NoSender
    BY DEF FrameInv
  <2>2. Finish
    <3>1. ~(ResolveExtended \/ ResolveHeld \/ ResolveUnheld \/ Answer \/ Decode)
      BY DEF ResolveExtended, ResolveHeld, ResolveUnheld, Answer, Decode
    <3>2. ~TimePassesBy
      BY DEF TimePassesBy
    <3>3. \A d \in Sender : ~Press(d) /\ ~Resend(d) /\ ~Talk(d) /\ ~Move(d) /\ ~PoolChanges(d)
      BY DEF Press, Resend, Talk, Sends, Move, PoolChanges
    <3> QED BY <3>1, <3>2, <3>3 DEF FramesNext, Handler
  <2>3. CASE Limited
    BY <2>1, <2>2, <2>3 DEF Finish, Limited, FrameInv
  <2>4. CASE ~Limited
    BY <2>2, <2>4 DEF Finish
  <2> QED BY <2>3, <2>4
<1>2. FrameInv /\ [FramesNext]_framesVars => FrameInv'
  BY FrameInvStep
<1>3. OwnShorts /\ FramesInit => FrameInv
  BY FrameInvInit
<1> QED
  BY <1>1, <1>2, <1>3, PTL DEF FramesSpec, AwakeIsQueued

-----------------------------------------------------------------------------
(* Pressed once.                                                             *)

PressType == [num : Nat, waits : BOOLEAN, past : BOOLEAN, acts : Nat]
EntryType == [nwk : Short \cup {NoShort}, num : Nat]
Kept(d)   == [nwk |-> at[d], num |-> press[d].num]

\* A press let past the resend check is kept in its slot, and what is kept under a device's
\* address is a press of its own that was let past.
Remembers ==
    /\ \A d \in Sender : press[d].past => \E i \in 1..Len(seen) : seen[i] = Kept(d)
    /\ \A d \in Sender : \A i \in 1..Len(seen) :
          seen[i].nwk = at[d] => /\ seen[i].num <= press[d].num
                                 /\ seen[i].num = press[d].num => press[d].past

\* A press that was acted on was let past, or is not sent again.
ActsOnce ==
    \A d \in Sender : press[d].acts <= 1 /\ (press[d].acts # 0 => press[d].past \/ ~press[d].waits)

\* What is on its way to be acted on has not been.
HandActs ==
    here # Nothing =>
       LET p == press[here.by] IN
       /\ here.kind = "press" /\ here.stage \in {"resolve", "answer"} => (p.acts # 0 => p.past)
       /\ here.kind = "press" /\ here.stage = "decode" => p.acts = 0 /\ p.past
       /\ here.kind = "group" /\ here.stage # "finish" => p.acts = 0 /\ ~p.waits

PressInv ==
    /\ seen \in Seq(EntryType) /\ press \in [Sender -> PressType]
    /\ swallowed = FALSE /\ excused \in BOOLEAN
    /\ \A d, e \in Sender : at[d] = at[e] /\ at[d] # NoShort => d = e
    /\ here # Nothing => at[here.by] # NoShort
    /\ ~excused => Remembers /\ ActsOnce /\ HandActs

\* The frame in hand at another stage.
SameFrame(h, w) == h # Nothing /\ h.stage = w /\ h.by = here.by /\ h.kind = here.kind

LEMMA FrameGoesOn ==
    ASSUME here \in HandType, NEW w \in {"answer", "decode", "finish"}
    PROVE  /\ SameFrame(Now(w), w)
           /\ \A d : SameFrame([Now(w) EXCEPT !.ieee = d], w)
           /\ \A d, n : SameFrame([Now(w) EXCEPT !.ieee = d, !.nwk = n], w)
           /\ \A r \in Record, b \in BOOLEAN : SameFrame([Now(w) EXCEPT !.snap = r, !.heals = b], w)
<1>1. DOMAIN here # DOMAIN Nothing
  BY DEF HandType, Nothing
<1>2. /\ DOMAIN Now(w) = DOMAIN here
      /\ Now(w).stage = w /\ Now(w).by = here.by /\ Now(w).kind = here.kind
  BY DEF Now, HandType
<1>3. {"ieee", "nwk", "snap", "heals"} \subseteq DOMAIN here
  BY DEF HandType
<1> HIDE DEF Now
<1>4. Now(w) # Nothing
  BY <1>1, <1>2
<1>5. \A d : /\ DOMAIN [Now(w) EXCEPT !.ieee = d] = DOMAIN here
            /\ SameFrame([Now(w) EXCEPT !.ieee = d], w)
  BY <1>1, <1>2 DEF SameFrame, HandType
<1>6. \A d, n : SameFrame([Now(w) EXCEPT !.ieee = d, !.nwk = n], w)
  BY <1>1, <1>2 DEF SameFrame, HandType
<1>7. \A r \in Record, b \in BOOLEAN : SameFrame([Now(w) EXCEPT !.snap = r, !.heals = b], w)
  BY <1>1, <1>2 DEF SameFrame, HandType
<1> QED BY <1>2, <1>4, <1>5, <1>6, <1>7 DEF SameFrame

LEMMA AnswerEnds ==
    ASSUME NEW p \in [Sender -> PressType], Answered(p)
    PROVE  /\ press' \in [Sender -> PressType]
           /\ \A d \in Sender : /\ press'[d].num = p[d].num /\ press'[d].past = p[d].past
                               /\ press'[d].acts = p[d].acts /\ (press'[d].waits => p[d].waits)
<1>1. CASE press' = p
  BY <1>1
<1>2. CASE press' = [d \in Sender |-> IF at[d] = here.nwk THEN [p[d] EXCEPT !.waits = FALSE] ELSE p[d]]
  BY <1>2 DEF PressType
<1> QED BY <1>1, <1>2 DEF Answered

LEMMA PressInvInit == OwnShorts /\ FramesInit => PressInv
<1> SUFFICES ASSUME OwnShorts, FramesInit PROVE PressInv
  OBVIOUS
<1>1. at \in [Sender -> Short] /\ \A d, e \in Sender : at[d] = at[e] => d = e
  BY DEF OwnShorts, FramesInit
<1>2. /\ seen = <<>> /\ here = Nothing /\ swallowed = FALSE /\ excused = FALSE
      /\ press = [d \in Sender |-> [num |-> 0, waits |-> FALSE, past |-> FALSE, acts |-> 0]]
  BY DEF FramesInit
<1>3. press \in [Sender -> PressType] /\ seen \in Seq(EntryType)
  BY <1>2 DEF PressType
<1>4. Remembers /\ ActsOnce /\ HandActs
  BY <1>2 DEF Remembers, ActsOnce, HandActs
<1> QED BY <1>1, <1>2, <1>3, <1>4 DEF PressInv

\* The steps that look up the sender, and those that do not touch a press.
LEMMA PressInvFinds ==
    ASSUME PressInv, UNCHANGED <<at, seen, press, swallowed, excused>>, here # Nothing,
           \/ here.stage = "resolve" /\ SameFrame(here', "answer")
           \/ here' = Nothing
    PROVE  PressInv'
<1>1. Remembers = Remembers' /\ ActsOnce = ActsOnce'
  BY DEF Remembers, ActsOnce, Kept
<1>2. HandActs => HandActs'
  BY DEF HandActs, SameFrame
<1> QED BY <1>1, <1>2 DEF PressInv, SameFrame

LEMMA PressInvAnswer == ASSUME FrameInv, PressInv, Answer PROVE PressInv'
<1> USE FramesAssumption
<1> DEFINE b == here.by
<1>1. here \in HandType /\ b \in Sender /\ here # Nothing /\ here.stage = "answer"
  BY DEF Answer, FrameInv, Nothing, HandType
<1>2. here' = Nothing \/ (SameFrame(here', "decode") /\ ~zcl_is_retry)
  BY <1>1, FrameGoesOn DEF Answer
<1>3. at' = at /\ at[b] # NoShort /\ at[b] \in Short \cup {NoShort}
  BY <1>1 DEF Answer, PressInv, FrameInv
<1>4. here.nwk \in Short \cup {NoShort}
  BY <1>1 DEF HandType
<1>5. press[b] \in PressType /\ press[b].num \in Nat
  BY <1>1 DEF PressInv, PressType
<1>6. Mine \in EntryType
  BY <1>4, <1>5 DEF Mine, EntryType
<1>7. CASE here.kind = "press" /\ ~zcl_is_retry
  <2> DEFINE q == [press EXCEPT ![b].past = TRUE]
  <2>1. /\ seen' = Append(IF Len(seen) = RetrySlots THEN Tail(seen) ELSE seen, Mine)
        /\ excused' = (excused \/ Astray \/ Len(seen) = RetrySlots)
        /\ Answered(q) /\ swallowed' = swallowed
    BY <1>7 DEF Answer
  <2>2. /\ q \in [Sender -> PressType] /\ q[b] = [press[b] EXCEPT !.past = TRUE]
        /\ \A d \in Sender : d # b => q[d] = press[d]
    BY <1>1, <1>5 DEF PressInv, PressType
  <2> HIDE DEF q
  <2>3. /\ press' \in [Sender -> PressType]
        /\ \A d \in Sender : /\ press'[d].num = press[d].num /\ press'[d].acts = press[d].acts
                            /\ (press'[d].waits => press[d].waits)
                            /\ (d # b => press'[d].past = press[d].past)
        /\ press'[b].past = TRUE
    <3>1. \A d \in Sender : /\ q[d].num = press[d].num /\ q[d].acts = press[d].acts
                           /\ q[d].waits = press[d].waits /\ (d # b => q[d].past = press[d].past)
      BY <1>5, <2>2 DEF PressType
    <3>2. q[b].past = TRUE
      BY <1>5, <2>2 DEF PressType
    <3>3. /\ press' \in [Sender -> PressType]
          /\ \A d \in Sender : /\ press'[d].num = q[d].num /\ press'[d].past = q[d].past
                              /\ press'[d].acts = q[d].acts /\ (press'[d].waits => q[d].waits)
      BY <2>1, <2>2, AnswerEnds
    <3> QED BY <1>1, <3>1, <3>2, <3>3
  <2>4. seen' \in Seq(EntryType)
    <3>1. seen \in Seq(EntryType)
      BY DEF PressInv
    <3>2. (IF Len(seen) = RetrySlots THEN Tail(seen) ELSE seen) \in Seq(EntryType)
      <4>1. RetrySlots # 0
        OBVIOUS
      <4>2. CASE Len(seen) = RetrySlots
        <5>1. seen # <<>>
          BY <4>1, <4>2
        <5> QED BY <3>1, <4>2, <5>1
      <4> QED BY <3>1, <4>2
    <3> QED BY <1>6, <2>1, <3>2
  <2>5. ASSUME ~excused' PROVE Remembers' /\ ActsOnce' /\ HandActs'
    <3>1. ~excused /\ here.nwk = at[b] /\ seen' = Append(seen, Mine)
      BY <1>7, <2>1, <2>5 DEF Astray
    <3>2. Remembers /\ ActsOnce /\ HandActs /\ seen \in Seq(EntryType)
      BY <3>1 DEF PressInv
    <3>3. PICK n \in Nat : n = Len(seen)
      BY <3>2
    <3>4. /\ Len(seen') = n + 1 /\ seen'[n + 1] = Mine
          /\ \A i \in 1..n : seen'[i] = seen[i]
      BY <1>6, <3>1, <3>2, <3>3
    <3>5. \A d \in Sender : Kept(d)' = Kept(d)
      BY <1>3, <2>3 DEF Kept
    <3>6. Mine = Kept(b)
      BY <3>1 DEF Mine, Kept
    <3>7. \A d \in Sender : press'[d].past => \E i \in 1..Len(seen') : seen'[i] = Kept(d)'
      <4> SUFFICES ASSUME NEW d \in Sender, press'[d].past PROVE \E i \in 1..(n + 1) : seen'[i] = Kept(d)
        BY <3>4, <3>5
      <4>1. CASE d = b
        BY <3>3, <3>4, <3>6, <4>1
      <4>2. CASE d # b
        <5>1. PICK i \in 1..n : seen[i] = Kept(d)
          BY <2>3, <3>2, <3>3, <4>2 DEF Remembers
        <5> QED BY <3>3, <3>4, <5>1
      <4> QED BY <4>1, <4>2
    <3>8. ASSUME NEW d \in Sender, NEW i \in 1..Len(seen'), seen'[i].nwk = at'[d]
          PROVE  seen'[i].num <= press'[d].num /\ (seen'[i].num = press'[d].num => press'[d].past)
      <4>1. CASE i = n + 1
        <5>1. seen'[i].nwk = at[b] /\ seen'[i].num = press[b].num
          BY <3>1, <3>4, <4>1 DEF Mine
        <5>2. d = b
          BY <1>1, <1>3, <3>8, <5>1 DEF PressInv
        <5> QED BY <1>5, <2>3, <5>1, <5>2
      <4>2. CASE i # n + 1
        <5>1. i \in 1..n /\ seen'[i] = seen[i]
          BY <3>3, <3>4, <4>2
        <5>2. seen[i].nwk = at[d]
          BY <1>3, <3>8, <5>1
        <5>3. seen[i].num <= press[d].num /\ (seen[i].num = press[d].num => press[d].past)
          BY <3>2, <3>3, <5>1, <5>2 DEF Remembers
        <5> QED BY <2>3, <5>1, <5>3
      <4> QED BY <4>1, <4>2
    <3>9. ActsOnce'
      <4> SUFFICES ASSUME NEW d \in Sender
                   PROVE  press'[d].acts <= 1 /\ (press'[d].acts # 0 => press'[d].past \/ ~press'[d].waits)
        BY DEF ActsOnce
      <4> QED BY <2>3, <3>2 DEF ActsOnce
    <3>10. press[b].acts = 0
      <4>1. ~press[b].past
        <5>1. ~\E i \in 1..Len(seen) : seen[i] = Mine
          BY <1>7 DEF zcl_is_retry
        <5> QED BY <1>1, <3>2, <3>6, <5>1 DEF Remembers
      <4> QED BY <1>1, <1>7, <3>2, <4>1 DEF HandActs
    <3>11. HandActs'
      <4>1. CASE here' = Nothing
        BY <4>1 DEF HandActs
      <4>2. CASE SameFrame(here', "decode")
        BY <1>1, <1>7, <2>3, <3>10, <4>2 DEF HandActs, SameFrame
      <4> QED BY <1>2, <4>1, <4>2
    <3>12. Remembers'
      BY <3>7, <3>8 DEF Remembers
    <3> QED BY <3>9, <3>11, <3>12
  <2>6. excused' \in BOOLEAN
    BY <2>1
  <2> QED BY <1>2, <1>3, <2>1, <2>3, <2>4, <2>5, <2>6 DEF PressInv, SameFrame
<1>8. CASE ~(here.kind = "press" /\ ~zcl_is_retry)
  <2>1. /\ seen' = seen /\ excused' = (excused \/ Astray) /\ Answered(press)
        /\ swallowed' = (swallowed \/ (zcl_is_retry /\ ~press[b].past /\ ~excused'))
    BY <1>8 DEF Answer
  <2>2. /\ press' \in [Sender -> PressType]
        /\ \A d \in Sender : /\ press'[d].num = press[d].num /\ press'[d].past = press[d].past
                            /\ press'[d].acts = press[d].acts /\ (press'[d].waits => press[d].waits)
    BY <2>1, AnswerEnds DEF PressInv
  <2>3. swallowed' = FALSE
    <3>1. ASSUME zcl_is_retry, ~press[b].past, ~excused' PROVE FALSE
      <4>1. ~excused /\ here.nwk = at[b]
        BY <2>1, <3>1 DEF Astray, zcl_is_retry
      <4>2. PICK i \in 1..Len(seen) : seen[i] = Mine
        BY <3>1 DEF zcl_is_retry
      <4>3. seen[i].nwk = at[b] /\ seen[i].num = press[b].num
        BY <4>1, <4>2 DEF Mine
      <4>4. Remembers
        BY <4>1 DEF PressInv
      <4> QED BY <1>1, <3>1, <4>3, <4>4 DEF Remembers
    <3>2. swallowed = FALSE
      BY DEF PressInv
    <3> QED BY <2>1, <3>1, <3>2
  <2>4. ASSUME ~excused' PROVE Remembers' /\ ActsOnce' /\ HandActs'
    <3>1. Remembers /\ ActsOnce /\ HandActs
      BY <2>1, <2>4 DEF PressInv
    <3>2. \A d \in Sender : Kept(d)' = Kept(d)
      BY <1>3, <2>2 DEF Kept
    <3>3. Remembers'
      <4>1. \A d \in Sender : press'[d].past => \E i \in 1..Len(seen') : seen'[i] = Kept(d)'
        BY <2>1, <2>2, <3>1, <3>2 DEF Remembers
      <4>2. \A d \in Sender : \A i \in 1..Len(seen') :
               seen'[i].nwk = at'[d] => /\ seen'[i].num <= press'[d].num
                                        /\ seen'[i].num = press'[d].num => press'[d].past
        BY <1>3, <2>1, <2>2, <3>1 DEF Remembers
      <4> QED BY <4>1, <4>2 DEF Remembers
    <3>4. ActsOnce'
      BY <2>2, <3>1 DEF ActsOnce
    <3>5. HandActs'
      <4>1. CASE here' = Nothing
        BY <4>1 DEF HandActs
      <4>2. CASE SameFrame(here', "decode")
        <5>1. here'.kind # "press"
          BY <1>2, <1>8, <4>2 DEF SameFrame, Nothing
        <5> QED BY <1>1, <2>2, <3>1, <4>2, <5>1 DEF HandActs, SameFrame
      <4> QED BY <1>2, <4>1, <4>2
    <3> QED BY <3>3, <3>4, <3>5
  <2>5. excused' \in BOOLEAN /\ seen' \in Seq(EntryType)
    BY <2>1 DEF PressInv
  <2> QED BY <1>2, <1>3, <2>2, <2>3, <2>4, <2>5 DEF PressInv, SameFrame
<1> QED BY <1>7, <1>8

LEMMA PressInvDecode == ASSUME FrameInv, PressInv, Decode PROVE PressInv'
<1> DEFINE b == here.by
<1>1. here \in HandType /\ b \in Sender /\ here # Nothing /\ here.stage = "decode"
  BY DEF Decode, FrameInv, Nothing, HandType
<1>2. SameFrame(here', "finish")
  <2>1. book[here.ieee] \in Record
    BY <1>1 DEF FrameInv, Decode, HandType
  <2> QED BY <1>1, <2>1, FrameGoesOn DEF Decode
<1>3. UNCHANGED <<at, seen, swallowed, excused>>
  BY DEF Decode
<1>4. press[b] \in PressType
  BY <1>1 DEF PressInv
<1>5. CASE press' = press
  <2>1. Remembers' = Remembers /\ ActsOnce' = ActsOnce
    BY <1>3, <1>5 DEF Remembers, ActsOnce, Kept
  <2>2. HandActs'
    BY <1>2 DEF HandActs, SameFrame
  <2> QED BY <1>1, <1>2, <1>3, <1>5, <2>1, <2>2 DEF PressInv, SameFrame
<1>6. CASE press' = [press EXCEPT ![b].acts = @ + 1] /\ here.kind \in {"press", "group"}
  <2>1. /\ press' \in [Sender -> PressType]
        /\ \A d \in Sender : /\ press'[d].num = press[d].num /\ press'[d].past = press[d].past
                            /\ press'[d].waits = press[d].waits
                            /\ press'[d].acts = IF d = b THEN press[d].acts + 1 ELSE press[d].acts
    BY <1>1, <1>4, <1>6 DEF PressInv, PressType
  <2>2. ASSUME ~excused' PROVE Remembers' /\ ActsOnce' /\ HandActs'
    <3>1. Remembers /\ ActsOnce /\ HandActs
      BY <1>3, <2>2 DEF PressInv
    <3>2. \A d \in Sender : Kept(d)' = Kept(d)
      BY <1>3, <2>1 DEF Kept
    <3>3. Remembers'
      BY <1>3, <2>1, <3>1, <3>2 DEF Remembers
    <3>4. press[b].acts = 0 /\ (press[b].past \/ ~press[b].waits)
      BY <1>1, <1>6, <3>1 DEF HandActs
    <3>5. ActsOnce'
      <4> SUFFICES ASSUME NEW d \in Sender
                   PROVE  press'[d].acts <= 1 /\ (press'[d].acts # 0 => press'[d].past \/ ~press'[d].waits)
        BY DEF ActsOnce
      <4>1. CASE d = b
        BY <2>1, <3>4, <4>1
      <4>2. CASE d # b
        BY <2>1, <3>1, <4>2 DEF ActsOnce
      <4> QED BY <4>1, <4>2
    <3>6. HandActs'
      BY <1>2 DEF HandActs, SameFrame
    <3> QED BY <3>3, <3>5, <3>6
  <2> QED BY <1>1, <1>2, <1>3, <2>1, <2>2 DEF PressInv, SameFrame
<1> QED BY <1>5, <1>6 DEF Decode

\* What the devices do: a press is new, a resend is of one that waits, and 1.5 s end both.
LEMMA PressInvSends ==
    ASSUME PressInv, NEW d \in Sender, NEW k \in {"press", "group", "report", "enroll"}, Sends(d, k),
           press' \in [Sender -> PressType],
           \A e \in Sender : e # d => press'[e] = press[e],
           \/ press' = press /\ (k = "press" => press[d].waits) /\ k # "group"
           \/ /\ press'[d].num = press[d].num + 1 /\ ~press'[d].past /\ press'[d].acts = 0
              /\ k = "group" => ~press'[d].waits
    PROVE  PressInv'
<1>1. here' # Nothing /\ here'.by = d /\ here'.kind = k /\ here'.stage = "resolve"
  BY DEF Sends, Nothing
<1>2. at[d] # NoShort /\ UNCHANGED <<at, seen, swallowed, excused>>
  BY DEF Sends, bad
<1>3. press[d] \in PressType /\ press[d].num \in Nat
  BY DEF PressInv, PressType
<1>4. ASSUME ~excused' PROVE Remembers' /\ ActsOnce' /\ HandActs'
  <2>1. Remembers /\ ActsOnce /\ seen \in Seq(EntryType)
    BY <1>2, <1>4 DEF PressInv
  <2>2. CASE press' = press /\ (k = "press" => press[d].waits) /\ k # "group"
    <3>1. Remembers' /\ ActsOnce'
      BY <1>2, <2>1, <2>2 DEF Remembers, ActsOnce, Kept
    <3>2. HandActs'
      BY <1>1, <2>1, <2>2 DEF HandActs, ActsOnce
    <3> QED BY <3>1, <3>2
  <2>3. CASE /\ press'[d].num = press[d].num + 1 /\ ~press'[d].past /\ press'[d].acts = 0
             /\ k = "group" => ~press'[d].waits
    <3>1. \A e \in Sender : e # d => Kept(e)' = Kept(e)
      BY <1>2 DEF Kept
    <3>2. \A e \in Sender : press'[e].past => \E i \in 1..Len(seen') : seen'[i] = Kept(e)'
      BY <1>2, <2>1, <2>3, <3>1 DEF Remembers
    <3>3. ASSUME NEW e \in Sender, NEW i \in 1..Len(seen'), seen'[i].nwk = at'[e]
          PROVE  seen'[i].num <= press'[e].num /\ (seen'[i].num = press'[e].num => press'[e].past)
      <4>1. i \in 1..Len(seen) /\ seen'[i] = seen[i] /\ seen[i].nwk = at[e]
        BY <1>2, <3>3
      <4>2. seen[i].num <= press[e].num /\ (seen[i].num = press[e].num => press[e].past)
        BY <2>1, <4>1 DEF Remembers
      <4>3. seen[i].num \in Nat
        <5>1. \A x \in EntryType : x.num \in Nat
          BY DEF EntryType
        <5>2. seen[i] \in EntryType
          BY <2>1, <4>1
        <5> QED BY <5>1, <5>2
      <4>4. CASE e = d
        BY <1>3, <2>3, <4>1, <4>2, <4>3, <4>4
      <4> QED BY <4>1, <4>2, <4>4
    <3>4. ActsOnce'
      BY <2>1, <2>3 DEF ActsOnce
    <3>5. HandActs'
      BY <1>1, <2>3 DEF HandActs
    <3> QED BY <3>2, <3>3, <3>4, <3>5 DEF Remembers
  <2> QED BY <2>2, <2>3
<1> QED BY <1>1, <1>2, <1>4 DEF PressInv

LEMMA PressInvSettles ==
    ASSUME PressInv, here = Nothing, here' = Nothing, Settled, swallowed' = swallowed,
           \A d, e \in Sender : at'[d] = at'[e] /\ at'[d] # NoShort => d = e
    PROVE  PressInv'
<1>1. /\ seen' = <<>> /\ excused' = FALSE
      /\ press' = [d \in Sender |-> [press[d] EXCEPT !.waits = FALSE, !.past = FALSE, !.acts = 0]]
  BY DEF Settled
<1>2. /\ press' \in [Sender -> PressType]
      /\ \A d \in Sender : ~press'[d].past /\ press'[d].acts = 0
  BY <1>1 DEF PressInv, PressType
<1>3. Remembers'
  <2>1. Len(seen') = 0
    BY <1>1
  <2>2. \A d \in Sender : \A i \in 1..Len(seen') : FALSE
    BY <2>1
  <2> QED BY <1>2, <2>2 DEF Remembers
<1>4. ActsOnce' /\ HandActs'
  BY <1>2 DEF ActsOnce, HandActs
<1>5. seen' \in Seq(EntryType)
  <2>1. <<>> \in Seq(EntryType)
    OBVIOUS
  <2>2. seen' = <<>>
    BY <1>1
  <2> QED BY <2>1, <2>2, Zenon
<1>6. excused' \in BOOLEAN /\ swallowed' = FALSE
  BY <1>1 DEF PressInv
<1>7. here' # Nothing => at'[here'.by] # NoShort
  OBVIOUS
<1> QED BY <1>2, <1>3, <1>4, <1>5, <1>6, <1>7 DEF PressInv

LEMMA PressInvStep == ASSUME FrameInv, PressInv, [FramesNext]_framesVars PROVE PressInv'
<1> USE FramesAssumption
<1>1. ASSUME ResolveExtended \/ ResolveHeld \/ ResolveUnheld PROVE PressInv'
  <2>1. here \in HandType /\ here # Nothing /\ here.stage = "resolve"
    BY <1>1 DEF ResolveExtended, ResolveHeld, ResolveUnheld, FrameInv, Nothing
  <2>2. UNCHANGED <<at, seen, press, swallowed, excused>>
    BY <1>1 DEF ResolveExtended, ResolveHeld, ResolveUnheld, bad
  <2>3. SameFrame(here', "answer")
    <3>1. \A d : By(d) => SameFrame(here', "answer")
      BY <2>1, FrameGoesOn DEF By
    <3>2. CASE ResolveExtended
      BY <2>1, <3>2, FrameGoesOn DEF ResolveExtended
    <3>3. CASE ResolveHeld
      BY <3>1, <3>3 DEF ResolveHeld
    <3>4. CASE ResolveUnheld
      BY <3>1, <3>4 DEF ResolveUnheld
    <3> QED BY <1>1, <3>2, <3>3, <3>4
  <2> QED BY <2>1, <2>2, <2>3, PressInvFinds
<1>2. CASE Answer
  BY <1>2, PressInvAnswer
<1>3. CASE Decode
  BY <1>3, PressInvDecode
<1>4. CASE Finish
  BY <1>4, PressInvFinds DEF Finish, bad, Nothing
<1>5. CASE TimePassesBy
  BY <1>5, PressInvSettles DEF TimePassesBy, PressInv
<1>6. ASSUME NEW d \in Sender, Press(d) PROVE PressInv'
  <2>1. PICK k \in {"press", "group"}, asks \in BOOLEAN :
          /\ asks => k = "press"
          /\ press' = [press EXCEPT ![d] = [num |-> @.num + 1, waits |-> asks, past |-> FALSE, acts |-> 0]]
          /\ Sends(d, k)
    BY <1>6 DEF Press
  <2>2. press[d] \in PressType
    BY DEF PressInv
  <2>3. [num |-> press[d].num + 1, waits |-> asks, past |-> FALSE, acts |-> 0] \in PressType
    BY <2>2 DEF PressType
  <2>4. /\ press' \in [Sender -> PressType] /\ \A e \in Sender : e # d => press'[e] = press[e]
        /\ press'[d].num = press[d].num + 1 /\ ~press'[d].past /\ press'[d].acts = 0
        /\ k = "group" => ~press'[d].waits
    BY <2>1, <2>3 DEF PressInv
  <2>5. k \in {"press", "group", "report", "enroll"}
    OBVIOUS
  <2> QED BY <2>1, <2>4, <2>5, PressInvSends
<1>7. ASSUME NEW d \in Sender, Resend(d) \/ Talk(d) PROVE PressInv'
  <2>1. PICK k \in {"press", "report", "enroll"} : Sends(d, k) /\ (k = "press" => press[d].waits)
    BY <1>7 DEF Resend, Talk
  <2>2. press' = press /\ press' \in [Sender -> PressType]
    BY <1>7 DEF Resend, Talk, PressInv
  <2>3. k \in {"press", "group", "report", "enroll"} /\ k # "group"
    OBVIOUS
  <2> QED BY <2>1, <2>2, <2>3, PressInvSends
<1>8. ASSUME NEW d \in Sender, Move(d) PROVE PressInv'
  <2>1. here = Nothing /\ here' = Nothing /\ Settled /\ swallowed' = swallowed
    BY <1>8 DEF Move
  <2>2. PICK n \in (Short \ {at[e] : e \in Sender}) \cup {NoShort} : at' = [at EXCEPT ![d] = n]
    BY <1>8 DEF Move
  <2>3. \A e, g \in Sender : at'[e] = at'[g] /\ at'[e] # NoShort => e = g
    BY <2>2 DEF FrameInv, PressInv
  <2> QED BY <2>1, <2>3, PressInvSettles
<1>9. CASE UNCHANGED <<at, here, seen, press, bad>>
  BY <1>9 DEF bad, PressInv, Remembers, ActsOnce, HandActs, Kept
<1>10. ASSUME NEW d \in Sender, PoolChanges(d) PROVE PressInv'
  BY <1>9, <1>10 DEF PoolChanges
<1>11. CASE UNCHANGED framesVars
  BY <1>9, <1>11 DEF framesVars
<1> QED
  BY <1>1, <1>2, <1>3, <1>4, <1>5, <1>6, <1>7, <1>8, <1>10, <1>11 DEF FramesNext, Handler

\* A press acts once and is never taken for a resend of another's, for any number of devices,
\* addresses and resends, whatever answers are lost, unless within the 1.5 s the slots were
\* overwritten or a device named by its IEEE address pressed while its record had not the
\* address it uses (zcl_is_retry and on_apsde_indication).
THEOREM PressesActOnce == OwnShorts /\ FramesSpec => []PressActsOnce
<1>1. PressInv => PressActsOnce
  BY DEF PressInv, PressActsOnce, ActsOnce
<1>2. FrameInv /\ PressInv /\ [FramesNext]_framesVars => (FrameInv /\ PressInv)'
  BY FrameInvStep, PressInvStep
<1>3. OwnShorts /\ FramesInit => FrameInv /\ PressInv
  BY FrameInvInit, PressInvInit
<1> QED
  BY <1>1, <1>2, <1>3, PTL DEF FramesSpec

=============================================================================
