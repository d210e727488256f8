----------------------------- MODULE EntryProofs -----------------------------
(* Of who gets in, for any number of devices, slots, passwords and tokens: that a device the *)
(* trust centre let in is not turned away (Admit), and that the hub stays its owner's and    *)
(* its sockets hold the token there is (SignIn).                                             *)
EXTENDS Admit, SignIn, TLAPS

-----------------------------------------------------------------------------
(* Devices.                                                                  *)

\* The slot that was the next in turn k turns ago.
Back(k) == IF k < next THEN next - 1 - k ELSE next - 1 - k + AuthSlots

\* No device is in two slots; one that took its slot in turn is in it until the ring comes
\* round to it again, with the time it was last let in.
RingInv ==
    /\ next \in AuthSlot /\ now \in Nat
    /\ auth \in [AuthSlot -> [dev : Device \cup {Empty_slot}, at : Nat]]
    /\ since \in [Device -> 0..AuthSlots] /\ letIn \in [Device -> Nat]
    /\ \A s, u \in AuthSlot : auth[s].dev = auth[u].dev => s = u \/ auth[s].dev = Empty_slot
    /\ \A d \in Device : since[d] < AuthSlots =>
           auth[Back(since[d])].dev = d /\ auth[Back(since[d])].at + 1 = letIn[d]

\* The ring moves on by one.
LEMMA NextInTurn ==
    ASSUME next \in AuthSlot
    PROVE  (next + 1) % AuthSlots = IF next + 1 = AuthSlots THEN 0 ELSE next + 1
<1>1. AuthSlots \in Nat \ {0}
  BY AdmitAssumption
<1>2. CASE next + 1 = AuthSlots
  BY <1>1, <1>2 DEF AuthSlot
<1>3. CASE next + 1 # AuthSlots
  BY <1>1, <1>3 DEF AuthSlot
<1> QED BY <1>2, <1>3

\* A device keeps the slot it has, or takes the next in turn.
LEMMA SlotTaken ==
    ASSUME RingInv, NEW d \in Device
    PROVE  /\ SlotOf(d) \in AuthSlot
           /\ SlotOf(d) = next \/ auth[SlotOf(d)].dev = d
           /\ \A s \in AuthSlot : auth[s].dev = d => s = SlotOf(d)
<1> d # Empty_slot
  BY AdmitAssumption
<1>1. CASE \E s \in AuthSlot : auth[s].dev = d
  <2>1. PICK s \in AuthSlot : auth[s].dev = d
    BY <1>1
  <2>2. \A u \in AuthSlot : auth[u].dev = d => u = s
    BY <2>1 DEF RingInv
  <2>3. SlotOf(d) \in AuthSlot /\ auth[SlotOf(d)].dev = d
    BY <1>1 DEF SlotOf
  <2> QED BY <2>2, <2>3
<1>2. CASE ~(\E s \in AuthSlot : auth[s].dev = d)
  BY <1>2 DEF SlotOf, RingInv
<1> QED BY <1>1, <1>2

\* That slot is one of the ring.
LEMMA BackInRing ==
    ASSUME next \in AuthSlot, NEW k \in Nat, k < AuthSlots
    PROVE  Back(k) \in AuthSlot /\ Back(k) \in Nat
<1>1. AuthSlots \in Nat \ {0} /\ next \in Nat /\ next < AuthSlots
  BY AdmitAssumption DEF AuthSlot
<1> QED BY <1>1 DEF Back, AuthSlot

LEMMA RingStep == RingInv /\ [AdmitNext]_admitVars => RingInv'
<1> SUFFICES ASSUME RingInv, [AdmitNext]_admitVars PROVE RingInv'
  OBVIOUS
<1>0. AuthSlots \in Nat \ {0} /\ Empty_slot \notin Device
  BY AdmitAssumption
<1>1. ASSUME NEW d \in Device, Authorised(d) PROVE RingInv'
  <2> DEFINE slot == SlotOf(d)
             entry == [dev |-> d, at |-> now]
  <2>1. /\ slot \in AuthSlot
        /\ slot = next \/ auth[slot].dev = d
        /\ \A s \in AuthSlot : auth[s].dev = d => s = slot
    BY SlotTaken
  <2>2. auth' = [auth EXCEPT ![slot] = entry] /\ letIn' = [letIn EXCEPT ![d] = now + 1] /\ now' = now
    BY <1>1 DEF Authorised
  <2>3. entry \in [dev : Device \cup {Empty_slot}, at : Nat] /\ entry.dev = d /\ entry.at = now
    BY DEF RingInv
  <2> DEFINE moved == [e \in Device |-> IF e = d THEN 0
                        ELSE IF since[e] < AuthSlots THEN since[e] + 1 ELSE AuthSlots]
  <2>4. since' = IF slot # next THEN since ELSE moved
    BY <1>1 DEF Authorised
  <2>5. next' = IF slot # next THEN next ELSE IF next + 1 = AuthSlots THEN 0 ELSE next + 1
    BY <1>1, NextInTurn DEF Authorised, Turn, RingInv
  <2> HIDE DEF slot, entry
  <2>6. auth' \in [AuthSlot -> [dev : Device \cup {Empty_slot}, at : Nat]] /\ letIn' \in [Device -> Nat]
        /\ auth'[slot] = entry /\ \A s \in AuthSlot : s # slot => auth'[s] = auth[s]
    <3>1. letIn' \in [Device -> Nat]
      BY <2>2 DEF RingInv
    <3>2. /\ auth' \in [AuthSlot -> [dev : Device \cup {Empty_slot}, at : Nat]]
          /\ auth'[slot] = entry /\ \A s \in AuthSlot : s # slot => auth'[s] = auth[s]
      <4> DEFINE S == [dev : Device \cup {Empty_slot}, at : Nat]
      <4>1. auth \in [AuthSlot -> S] /\ entry \in S
        BY <2>3 DEF RingInv
      <4> HIDE DEF S
      <4>2. auth' \in [AuthSlot -> S]
            /\ auth'[slot] = entry /\ \A s \in AuthSlot : s # slot => auth'[s] = auth[s]
        BY <2>1, <2>2, <4>1
      <4> QED BY <4>2 DEF S
    <3> QED BY <3>1, <3>2
  <2>7. \A s, u \in AuthSlot : auth'[s].dev = auth'[u].dev => s = u \/ auth'[s].dev = Empty_slot
    <3> TAKE s, u \in AuthSlot
    <3>1. CASE s # slot /\ u # slot
      BY <2>6, <3>1 DEF RingInv
    <3>2. CASE s = slot \/ u = slot
      BY <2>1, <2>3, <2>6, <3>2
    <3> QED BY <3>1, <3>2
  <2>8. CASE slot # next
    <3>1. since' = since /\ next' = next
      BY <2>4, <2>5, <2>8
    <3>2. ASSUME NEW e \in Device, since[e] < AuthSlots
          PROVE  auth'[Back(since[e])].dev = e /\ auth'[Back(since[e])].at + 1 = letIn'[e]
      <4>1. Back(since[e]) \in AuthSlot /\ auth[Back(since[e])].dev = e
            /\ auth[Back(since[e])].at + 1 = letIn[e]
        <5>1. since[e] \in Nat
          BY <1>0 DEF RingInv
        <5> QED BY <3>2, <5>1, BackInRing DEF RingInv
      <4>2. CASE e = d
        BY <2>1, <2>2, <2>3, <2>6, <4>1, <4>2 DEF RingInv
      <4>3. CASE e # d
        <5>1. Back(since[e]) # slot
          BY <2>1, <2>8, <4>1, <4>3
        <5> QED BY <2>2, <2>6, <4>1, <4>3, <5>1 DEF RingInv
      <4> QED BY <4>2, <4>3
    <3> QED BY <2>2, <2>6, <2>7, <3>1, <3>2 DEF RingInv, Back
  <2>9. CASE slot = next
    <3>1. since' = moved /\ next' = (IF next + 1 = AuthSlots THEN 0 ELSE next + 1)
      BY <2>4, <2>5, <2>9
    <3>2. since' \in [Device -> 0..AuthSlots] /\ next' \in AuthSlot
      BY <1>0, <3>1 DEF RingInv, AuthSlot
    <3>3. ASSUME NEW e \in Device, since'[e] < AuthSlots
          PROVE  auth'[Back(since[e])'].dev = e /\ auth'[Back(since[e])'].at + 1 = letIn'[e]
      <4>1. CASE e = d
        <5>1. since'[e] = 0
          BY <3>1, <4>1
        <5>2. Back(since[e])' = next
          BY <1>0, <3>1, <5>1 DEF Back, RingInv, AuthSlot
        <5> QED BY <2>2, <2>3, <2>6, <2>9, <4>1, <5>2 DEF RingInv
      <4>2. CASE e # d
        <5>1. since'[e] = since[e] + 1 /\ since[e] \in Nat /\ since[e] + 1 < AuthSlots
          BY <1>0, <3>1, <3>3, <4>2 DEF RingInv
        <5>2. Back(since[e])' = Back(since[e]) /\ Back(since[e]) \in AuthSlot /\ Back(since[e]) # next
          <6>1. AuthSlots \in Nat /\ next \in Nat /\ next < AuthSlots
            BY <1>0 DEF RingInv, AuthSlot
          <6>2. Back(since[e])' = Back(since[e]) /\ Back(since[e]) # next
            BY <3>1, <5>1, <6>1 DEF Back
          <6>3. Back(since[e]) \in AuthSlot
            BY <5>1, <6>1, BackInRing DEF RingInv
          <6> QED BY <6>2, <6>3
        <5>3. since[e] < AuthSlots
          BY <1>0, <5>1 DEF RingInv
        <5> QED BY <2>2, <2>6, <2>9, <4>2, <5>2, <5>3 DEF RingInv
      <4> QED BY <4>1, <4>2
    <3> QED BY <2>2, <2>6, <2>7, <3>2, <3>3 DEF RingInv
  <2> QED BY <2>8, <2>9
<1>2. CASE RestartHub
  <2>1. /\ auth' = [s \in AuthSlot |-> NoAuth] /\ next' = 0 /\ now' = now + 1
        /\ since' = [d \in Device |-> AuthSlots] /\ letIn' = [d \in Device |-> 0]
    BY <1>2 DEF RestartHub
  <2> QED BY <1>0, <2>1 DEF RingInv, NoAuth, AuthSlot
<1>3. CASE PassTime \/ UNCHANGED admitVars \/ (\E s \in 0..MaxOpen : PermitJoin(s))
           \/ \E d \in Device : Knock(d) \/ Forget(d)
  <2>1. UNCHANGED <<auth, next, since, letIn>> /\ now' \in Nat
    BY <1>3 DEF RingInv, PassTime, admitVars, gate, PermitJoin, Knock, Forget
  <2> QED BY <2>1 DEF RingInv, Back
<1> QED BY <1>1, <1>2, <1>3 DEF AdmitNext

\* For any number of devices and slots, a device the trust centre let in within the last
\* kAuthTtlUs is let into the pool, unless the ring came round to its slot (esp_zb_admit.h).
THEOREM NewcomersAreTrusted == AdmitSpec => []NewcomerIsTrusted
<1>1. AdmitInit => RingInv
  BY AdmitAssumption DEF AdmitInit, AdmitStart, RingInv, AuthSlot, NoAuth
<1>2. ASSUME RingInv PROVE NewcomerIsTrusted
  <2> SUFFICES ASSUME NEW d \in Device, since[d] < AuthSlots, letIn[d] > 0, now + 1 - letIn[d] <= AuthTtl
               PROVE  Trusted(d)
    BY DEF NewcomerIsTrusted
  <2>1. Back(since[d]) \in AuthSlot /\ auth[Back(since[d])].dev = d
        /\ auth[Back(since[d])].at \in Nat /\ auth[Back(since[d])].at + 1 = letIn[d]
    <3>1. Back(since[d]) \in AuthSlot
      <4>1. since[d] \in Nat
        BY <1>2, AdmitAssumption DEF RingInv
      <4> QED BY <1>2, <4>1, BackInRing DEF RingInv
    <3> QED BY <1>2, <3>1 DEF RingInv
  <2>2. now - auth[Back(since[d])].at <= AuthTtl
    BY <1>2, <2>1, AdmitAssumption DEF RingInv
  <2> QED BY <2>1, <2>2 DEF Trusted
<1> QED BY <1>1, <1>2, RingStep, PTL DEF AdmitSpec

-----------------------------------------------------------------------------
(* The owner.                                                                *)

\* What the hub keeps, and what its two tasks are at.
KeepTypes ==
    /\ nvs \in [enabled : BOOLEAN, token : Draw, salt : Draw, hash : Draw, show : BOOLEAN]
    /\ ram \in [enabled : BOOLEAN, token : Draw, pw : BOOLEAN, salt : Draw, hash : Draw,
                error : BOOLEAN]
    /\ job \in [Task -> {Idle} \cup AuthJob \cup TokenJob \cup SwitchJob]
    /\ drawn \in Draw /\ console \in Draw /\ claimed \in BOOLEAN /\ known \in Draw \cup {Torn}

\* What is drawn in this boot is newer than what the console showed.
DrawInv ==
    /\ console <= drawn /\ nvs.token <= drawn
    /\ \A t \in Task : job[t] \in TokenJob => console < job[t].draw /\ job[t].draw <= drawn

\* Salt and hash in flash are of the password that is known, but while one is stored.
FlashInv ==
    /\ known \notin {0, Torn} => nvs.salt = known /\ nvs.hash = known
    /\ At("httpd", "hash") => nvs.salt = job["httpd"].draw /\ known = Torn
    /\ At("httpd", "keep") => job["httpd"].draw = known

OwnerInv == KeepTypes /\ DrawInv /\ FlashInv /\ OwnerStays

\* A job that shows one of these steps is a change of token or password.
LEMMA TokenSteps ==
    ASSUME KeepTypes, NEW t \in Task,
           job[t].step \in {"salt", "hash", "keep", "persist", "swap", "install", "deauth"}
    PROVE  job[t] \in TokenJob
BY DEF KeepTypes, Idle, AuthJob, TokenJob, SwitchJob

\* A boot begins anew with what flash holds.
LEMMA BootKeepsOwner ==
    ASSUME OwnerInv, NEW n,
           n \in [enabled : BOOLEAN, token : Draw, salt : Draw, hash : Draw, show : BOOLEAN],
           n.token <= drawn, Boot(n), known' \in Draw \cup {Torn},
           known' \notin {0, Torn} => n.salt = known' /\ n.hash = known'
    PROVE  OwnerInv'
<1>0. MaxDraws \in Nat \ {0} /\ drawn \in Nat /\ drawn <= MaxDraws
  BY SignInAssumption DEF OwnerInv, KeepTypes, Draw
<1>1. job' = [t \in Task |-> Idle] /\ claimed' = FALSE /\ "httpd" \in Task
  BY DEF Boot, Restarted, Task
<1>2. job'["httpd"] = Idle /\ \A t \in Task : job'[t].step = "idle" /\ job'[t] \notin TokenJob
  BY <1>1 DEF Idle, TokenJob
<1>3. /\ nvs' \in [enabled : BOOLEAN, token : Draw, salt : Draw, hash : Draw, show : BOOLEAN]
      /\ nvs'.salt = n.salt /\ nvs'.hash = n.hash
      /\ ram' \in [enabled : BOOLEAN, token : Draw, pw : BOOLEAN, salt : Draw, hash : Draw,
                  error : BOOLEAN]
      /\ drawn' \in Draw /\ console' \in Draw /\ console' <= drawn' /\ nvs'.token <= drawn'
      /\ ~ram'.error => ram'.pw = (n.salt # 0 /\ n.hash # 0) /\ ram'.salt = n.salt /\ ram'.hash = n.hash
  <2>1. CASE BootLocked(n)
    BY <1>0, <2>1 DEF BootLocked, Draw
  <2>2. CASE BootNormal(n)
    <3> DEFINE fresh == n.token = 0
               pw    == n.salt # 0 /\ n.hash # 0
               token == IF fresh THEN drawn' ELSE n.token
    <3>1. drawn' \in Draw /\ drawn <= drawn' /\ token \in Draw /\ token <= drawn'
      BY <1>0, <2>2 DEF BootNormal, Draw
    <3>2. PICK saved \in BOOLEAN :
             nvs' = [n EXCEPT !.token = IF fresh /\ ~saved THEN 0 ELSE token, !.show = FALSE]
      BY <2>2 DEF BootNormal
    <3>3. ram' = [enabled |-> n.enabled, token |-> token, pw |-> pw,
                  salt |-> n.salt, hash |-> n.hash, error |-> FALSE]
          /\ console' = IF n.enabled /\ (~pw \/ n.show) THEN token ELSE 0
      BY <2>2 DEF BootNormal
    <3>4. pw \in BOOLEAN /\ 0 \in Draw /\ 0 <= drawn' /\ drawn' \in Nat
      BY <1>0, <3>1 DEF Draw
    <3> HIDE DEF fresh, pw, token
    <3>5. /\ nvs' \in [enabled : BOOLEAN, token : Draw, salt : Draw, hash : Draw, show : BOOLEAN]
          /\ nvs'.salt = n.salt /\ nvs'.hash = n.hash /\ nvs'.token <= drawn'
      BY <3>1, <3>2, <3>4
    <3>6. /\ ram' \in [enabled : BOOLEAN, token : Draw, pw : BOOLEAN, salt : Draw, hash : Draw,
                      error : BOOLEAN]
          /\ ram'.pw = pw /\ ram'.salt = n.salt /\ ram'.hash = n.hash
          /\ console' \in Draw /\ console' <= drawn'
      BY <3>1, <3>3, <3>4
    <3> QED BY <3>1, <3>5, <3>6 DEF pw
  <2> QED BY <2>1, <2>2 DEF Boot
<1>4. KeepTypes'
  BY <1>1, <1>3 DEF KeepTypes
<1>5. DrawInv'
  BY <1>2, <1>3 DEF DrawInv
<1>6. FlashInv'
  BY <1>1, <1>2, <1>3 DEF FlashInv, At
<1>7. OwnerStays'
  BY <1>1, <1>2, <1>3 DEF OwnerStays, At
<1> QED BY <1>4, <1>5, <1>6, <1>7 DEF OwnerInv

\* A step of a task that stores no password, and answers with no token the console showed.
LEMMA JobKeepsOwner ==
    ASSUME OwnerInv, UNCHANGED <<console, known>>,
           ram' \in [enabled : BOOLEAN, token : Draw, pw : BOOLEAN, salt : Draw, hash : Draw,
                     error : BOOLEAN],
           ram'.pw = ram.pw, ram'.salt = ram.salt, ram'.hash = ram.hash, ram'.error = ram.error,
           ram'.token = ram.token \/ ram'.token # console,
           claimed' \in BOOLEAN, claimed' => claimed \/ ram'.token # console,
           nvs' \in [enabled : BOOLEAN, token : Draw, salt : Draw, hash : Draw, show : BOOLEAN],
           nvs'.salt = nvs.salt, nvs'.hash = nvs.hash, nvs'.token <= drawn',
           drawn' \in Draw, drawn <= drawn',
           NEW t \in Task, NEW j \in {Idle} \cup AuthJob \cup TokenJob \cup SwitchJob, Go(t, j),
           j \in TokenJob => console < j.draw /\ j.draw <= drawn',
           ~At("httpd", "keep") \/ t # "httpd",
           j.step \notin {"hash", "keep"},
           j.step = "salt" /\ j.cmd = "setup" => known \in {0, Torn}
    PROVE  OwnerInv'
<1>1. job' = [job EXCEPT ![t] = j] /\ "httpd" \in Task
  BY DEF Go, Task
<1>2. KeepTypes'
  BY <1>1 DEF OwnerInv, KeepTypes
<1>3. job'[t] = j /\ \A u \in Task : u # t => job'[u] = job[u]
  BY <1>1 DEF OwnerInv, KeepTypes
<1>4. DrawInv'
  <2>1. drawn \in Nat /\ drawn' \in Nat /\ console \in Nat
    BY SignInAssumption DEF OwnerInv, KeepTypes, Draw
  <2>2. ASSUME NEW u \in Task, job'[u] \in TokenJob PROVE console < job'[u].draw /\ job'[u].draw <= drawn'
    <3>1. CASE u = t
      BY <1>3, <2>2, <3>1
    <3>2. CASE u # t
      <4>1. job'[u] = job[u] /\ job[u].draw \in Nat /\ job[u].draw <= drawn /\ console < job[u].draw
        BY <1>3, <2>2, <3>2, SignInAssumption DEF OwnerInv, DrawInv, TokenJob, Draw
      <4> QED BY <2>1, <4>1
    <3> QED BY <3>1, <3>2
  <2>3. console <= drawn'
    BY <2>1 DEF OwnerInv, DrawInv
  <2> QED BY <2>2, <2>3 DEF DrawInv
<1>5. FlashInv'
  BY <1>1, <1>3 DEF OwnerInv, FlashInv, At
<1>6. OwnerStays'
  BY <1>1, <1>3 DEF OwnerInv, OwnerStays, At
<1> QED BY <1>2, <1>4, <1>5, <1>6 DEF OwnerInv

\* An action of neither task.
LEMMA SocketsKeepOwner ==
    ASSUME OwnerInv, UNCHANGED <<nvs, ram, job, drawn, console, claimed, known>>
    PROVE  OwnerInv'
BY DEF OwnerInv, KeepTypes, DrawInv, FlashInv, OwnerStays, At

\* The three steps in which a password is stored and taken over.
LEMMA StoreKeepsOwner ==
    ASSUME OwnerInv, StoreSalt \/ StoreHash \/ KeepPassword
    PROVE  OwnerInv'
<1> DEFINE j == job["httpd"]
<1>1. j \in TokenJob /\ "httpd" \in Task /\ DOMAIN job = Task
  <2>1. "httpd" \in Task /\ j.step \in {"salt", "hash", "keep"}
    BY DEF StoreSalt, StoreHash, KeepPassword, At, Task
  <2> QED BY <2>1, TokenSteps DEF OwnerInv, KeepTypes
<1>2. j.draw \in Nat /\ j.draw \in Draw /\ j.draw \notin {0, Torn} /\ drawn \in Nat /\ console \in Nat
      /\ console < j.draw /\ j.draw <= drawn
  <2>1. j.draw \in Draw /\ console \in Draw /\ drawn \in Draw /\ console < j.draw /\ j.draw <= drawn
    BY <1>1 DEF OwnerInv, KeepTypes, DrawInv, TokenJob
  <2> QED BY <2>1, SignInAssumption DEF Draw, Torn
<1> DEFINE q(step) == [j EXCEPT !.step = step]
<1>3. \A step \in {"hash", "keep"} : q(step) \in TokenJob /\ q(step).step = step /\ q(step).draw = j.draw
  BY <1>1 DEF TokenJob
<1>4. \A step \in {"hash", "keep"} : Then("httpd", step) => job' = [job EXCEPT !["httpd"] = q(step)]
  BY DEF Then, Go
<1> HIDE DEF q
<1>5. CASE StoreSalt
  <2>1. job' = [job EXCEPT !["httpd"] = q("hash")] /\ nvs' = [nvs EXCEPT !.salt = j.draw] /\ known' = Torn
        /\ UNCHANGED <<ram, drawn, console, claimed>>
    BY <1>4, <1>5 DEF StoreSalt
  <2>2. job'["httpd"] = q("hash") /\ \A u \in Task : u # "httpd" => job'[u] = job[u]
    BY <1>1, <2>1
  <2>3. KeepTypes'
    BY <1>1, <1>2, <1>3, <2>1 DEF OwnerInv, KeepTypes
  <2>4. DrawInv'
    BY <1>2, <1>3, <2>1, <2>2 DEF OwnerInv, KeepTypes, DrawInv
  <2>5. FlashInv'
    BY <1>2, <1>3, <2>1, <2>2 DEF OwnerInv, KeepTypes, FlashInv, At
  <2>6. OwnerStays'
    BY <1>3, <2>1, <2>2 DEF OwnerInv, OwnerStays, At
  <2> QED BY <2>3, <2>4, <2>5, <2>6 DEF OwnerInv
<1>6. CASE StoreHash
  <2>1. job' = [job EXCEPT !["httpd"] = q("keep")] /\ nvs' = [nvs EXCEPT !.hash = j.draw] /\ known' = j.draw
        /\ UNCHANGED <<ram, drawn, console, claimed>> /\ At("httpd", "hash")
    BY <1>4, <1>6 DEF StoreHash
  <2>2. job'["httpd"] = q("keep") /\ \A u \in Task : u # "httpd" => job'[u] = job[u]
    BY <1>1, <2>1
  <2>3. KeepTypes'
    BY <1>1, <1>2, <1>3, <2>1 DEF OwnerInv, KeepTypes
  <2>4. DrawInv'
    BY <1>2, <1>3, <2>1, <2>2 DEF OwnerInv, KeepTypes, DrawInv
  <2>5. FlashInv'
    BY <1>2, <1>3, <2>1, <2>2 DEF OwnerInv, KeepTypes, FlashInv, At
  <2>6. OwnerStays'
    BY <1>3, <2>1, <2>2 DEF OwnerInv, OwnerStays, At
  <2> QED BY <2>3, <2>4, <2>5, <2>6 DEF OwnerInv
<1>7. CASE KeepPassword
  <2> DEFINE p == [j EXCEPT !.step = "persist", !.draw = drawn']
  <2>1. ram' = [ram EXCEPT !.pw = TRUE, !.salt = j.draw, !.hash = j.draw]
        /\ drawn' = drawn + 1 /\ drawn < MaxDraws /\ At("httpd", "keep")
        /\ job' = [job EXCEPT !["httpd"] = p]
        /\ UNCHANGED <<nvs, console, claimed, known>>
    BY <1>7 DEF KeepPassword, Go
  <2>2. drawn' \in Draw
    BY <1>2, <2>1, SignInAssumption DEF Draw
  <2>3. p \in TokenJob /\ p.step = "persist" /\ p.draw = drawn'
    BY <1>1, <2>2 DEF TokenJob
  <2> HIDE DEF p
  <2>4. job'["httpd"] = p /\ \A u \in Task : u # "httpd" => job'[u] = job[u]
    BY <1>1, <2>1
  <2>5. KeepTypes'
    BY <1>1, <1>2, <2>1, <2>2, <2>3 DEF OwnerInv, KeepTypes
  <2>6. DrawInv'
    <3>1. \A u \in Task : job[u] \in TokenJob => job[u].draw \in Nat
      BY DEF TokenJob, Draw
    <3>2. nvs.token \in Nat
      BY DEF OwnerInv, KeepTypes, Draw
    <3> QED BY <1>2, <2>1, <2>3, <2>4, <3>1, <3>2 DEF OwnerInv, DrawInv
  <2>7. FlashInv'
    BY <2>1, <2>3, <2>4 DEF OwnerInv, FlashInv, At
  <2>8. ram'.pw /\ ram'.salt = known /\ ram'.hash = known /\ ram'.token = ram.token
    BY <2>1 DEF OwnerInv, KeepTypes, FlashInv
  <2>9. OwnerStays'
    BY <2>1, <2>3, <2>4, <2>8 DEF OwnerInv, OwnerStays, At
  <2> QED BY <2>5, <2>6, <2>7, <2>9 DEF OwnerInv
<1> QED BY <1>5, <1>6, <1>7

\* A task begins a command for which a token or a salt is drawn.
LEMMA DrawKeepsOwner ==
    ASSUME OwnerInv, NEW t \in Task, NEW step \in {"salt", "persist"}, At(t, "idle"),
           NEW cmd \in {"setup", "password", "rotate"}, Draws(t, step, cmd),
           cmd = "setup" => known \in {0, Torn},
           UNCHANGED <<nvs, ram, console, claimed, known>>
    PROVE  OwnerInv'
<1> DEFINE j == [step |-> step, cmd |-> cmd, draw |-> drawn']
<1>1. drawn \in Nat /\ drawn' = drawn + 1 /\ drawn' \in Draw /\ console \in Nat /\ console <= drawn
      /\ nvs.token \in Nat /\ nvs.token <= drawn
  BY SignInAssumption DEF Draws, OwnerInv, KeepTypes, DrawInv, Draw
<1>2. j \in TokenJob /\ j.step = step /\ j.draw = drawn' /\ j.cmd = cmd
  BY <1>1 DEF TokenJob
<1>3. Go(t, j)
  BY DEF Draws
<1> HIDE DEF j
<1>4. ~At("httpd", "keep") \/ t # "httpd"
  BY DEF At
<1>5. /\ ram' \in [enabled : BOOLEAN, token : Draw, pw : BOOLEAN, salt : Draw, hash : Draw,
                   error : BOOLEAN]
      /\ nvs' \in [enabled : BOOLEAN, token : Draw, salt : Draw, hash : Draw, show : BOOLEAN]
      /\ claimed' \in BOOLEAN
  BY DEF OwnerInv, KeepTypes
<1> QED BY <1>1, <1>2, <1>3, <1>4, <1>5, JobKeepsOwner

\* A step on the way of a command for which a token was drawn.
LEMMA TokenKeepsOwner ==
    ASSUME OwnerInv, NEW t \in Task, Persist(t) \/ Swap(t) \/ Install(t) \/ Deauth(t)
    PROVE  OwnerInv'
<1> DEFINE j == job[t]
           q(step) == [j EXCEPT !.step = step]
<1>1. j \in TokenJob /\ j.step \in {"persist", "swap", "install", "deauth"} /\ j.draw \in Draw
      /\ console < j.draw /\ j.draw <= drawn /\ console # j.draw
  <2>1. j.step \in {"persist", "swap", "install", "deauth"}
    BY DEF Persist, Swap, Install, Deauth, At
  <2>2. j \in TokenJob
    BY <2>1, TokenSteps DEF OwnerInv
  <2>3. j.draw \in Draw /\ console < j.draw /\ j.draw <= drawn /\ console \in Draw
    BY <2>2 DEF OwnerInv, DrawInv, TokenJob, KeepTypes
  <2> QED BY <2>1, <2>2, <2>3 DEF Draw
<1>2. \A step \in {"swap", "install", "deauth"} :
        q(step) \in TokenJob /\ q(step).step = step /\ q(step).draw = j.draw
  BY <1>1 DEF TokenJob
<1>3. \A step \in {"swap", "install", "deauth"} : Then(t, step) => Go(t, q(step))
  BY DEF Then
<1>4. PICK k \in {Idle, q("swap"), q("install"), q("deauth")} : Go(t, k)
  <2>1. \/ Go(t, Idle)
        \/ \E step \in {"swap", "install", "deauth"} : Then(t, step)
    BY DEF Persist, Swap, Install, Deauth
  <2> QED BY <2>1, <1>3
<1> HIDE DEF q
<1>5. k \in {Idle} \cup AuthJob \cup TokenJob \cup SwitchJob /\ k.step \notin {"hash", "keep", "salt"}
      /\ (k \in TokenJob => console < k.draw /\ k.draw <= drawn)
  BY <1>1, <1>2, <1>4 DEF Idle, TokenJob
<1>6. ~At("httpd", "keep") \/ t # "httpd"
  BY <1>1 DEF At
<1>7. /\ UNCHANGED <<console, known, drawn>>
      /\ nvs' \in [enabled : BOOLEAN, token : Draw, salt : Draw, hash : Draw, show : BOOLEAN]
      /\ nvs'.salt = nvs.salt /\ nvs'.hash = nvs.hash /\ nvs'.token <= drawn
  <2>1. UNCHANGED <<console, known, drawn>>
    BY DEF Persist, Swap, Install, Deauth
  <2>2. nvs' = nvs \/ nvs' = [nvs EXCEPT !.token = j.draw]
    BY DEF Persist, Swap, Install, Deauth
  <2> QED BY <1>1, <2>1, <2>2 DEF OwnerInv, KeepTypes, DrawInv
<1>8. /\ ram' \in [enabled : BOOLEAN, token : Draw, pw : BOOLEAN, salt : Draw, hash : Draw,
                   error : BOOLEAN]
      /\ ram'.pw = ram.pw /\ ram'.salt = ram.salt /\ ram'.hash = ram.hash /\ ram'.error = ram.error
      /\ ram'.token = ram.token \/ ram'.token # console
      /\ claimed' \in BOOLEAN
      /\ claimed' => claimed \/ ram'.token # console
  <2>1. CASE Swap(t)
    <3>1. ram' = [ram EXCEPT !.token = j.draw] /\ claimed' = (claimed \/ j.cmd = "setup")
      BY <2>1 DEF Swap
    <3>2. claimed' \in BOOLEAN
      BY <3>1
    <3> QED BY <1>1, <3>1, <3>2 DEF OwnerInv, KeepTypes
  <2>2. CASE ~Swap(t)
    <3>1. UNCHANGED <<ram, claimed>>
      BY <2>2 DEF Persist, Install, Deauth
    <3> QED BY <3>1 DEF OwnerInv, KeepTypes
  <2> QED BY <2>1, <2>2
<1>9. drawn \in Nat /\ drawn \in Draw
  BY DEF OwnerInv, KeepTypes, Draw
<1> QED BY <1>4, <1>5, <1>6, <1>7, <1>8, <1>9, JobKeepsOwner

\* A step of turning sign-in on or off.
LEMMA SwitchKeepsOwner ==
    ASSUME OwnerInv, NEW t \in Task,
           (\E en \in BOOLEAN : SetEnabled(t, en)) \/ SaveEnabled(t) \/ SetDoor(t) \/ Sweep(t)
    PROVE  OwnerInv'
<1>1. job[t].step \in {"idle", "save", "door", "sweep"}
  BY DEF SetEnabled, SaveEnabled, SetDoor, Sweep, At
<1>2. \E k \in {Idle} \cup SwitchJob : Go(t, k)
  <2>1. CASE \E en \in BOOLEAN : SetEnabled(t, en)
    BY <2>1 DEF SetEnabled, SwitchJob, OwnerInv, KeepTypes
  <2>2. CASE SaveEnabled(t) \/ SetDoor(t) \/ Sweep(t)
    <3>1. job[t].step \in {"save", "door", "sweep"}
      BY <2>2 DEF SaveEnabled, SetDoor, Sweep, At
    <3>2. job[t] \in SwitchJob
      BY <3>1 DEF OwnerInv, KeepTypes, Idle, AuthJob, TokenJob
    <3>3. \A step \in {"door", "sweep"} : [job[t] EXCEPT !.step = step] \in SwitchJob
      BY <3>2 DEF SwitchJob
    <3> QED BY <2>2, <3>3 DEF SaveEnabled, SetDoor, Sweep, Then
  <2> QED BY <2>1, <2>2
<1>3. PICK k \in {Idle} \cup SwitchJob : Go(t, k)
  BY <1>2
<1>4. k \notin TokenJob /\ k.step \notin {"hash", "keep", "salt"}
  BY <1>3 DEF Idle, SwitchJob, TokenJob
<1>5. ~At("httpd", "keep") \/ t # "httpd"
  BY <1>1 DEF At
<1>6. /\ UNCHANGED <<console, known, drawn, claimed>>
      /\ nvs' \in [enabled : BOOLEAN, token : Draw, salt : Draw, hash : Draw, show : BOOLEAN]
      /\ nvs'.salt = nvs.salt /\ nvs'.hash = nvs.hash /\ nvs'.token <= drawn
  <2>1. UNCHANGED <<console, known, drawn, claimed>>
    BY DEF SetEnabled, SaveEnabled, SetDoor, Sweep
  <2>2. nvs' = nvs \/ \E b \in BOOLEAN : nvs' = [nvs EXCEPT !.enabled = b]
    <3>1. CASE SaveEnabled(t)
      <4>1. job[t] \in SwitchJob
        BY <3>1 DEF SaveEnabled, At, OwnerInv, KeepTypes, Idle, AuthJob, TokenJob
      <4> QED BY <3>1, <4>1 DEF SaveEnabled, SwitchJob
    <3>2. CASE ~SaveEnabled(t)
      BY <3>2 DEF SetEnabled, SetDoor, Sweep
    <3> QED BY <3>1, <3>2
  <2> QED BY <2>1, <2>2 DEF OwnerInv, KeepTypes, DrawInv
<1>7. /\ ram' \in [enabled : BOOLEAN, token : Draw, pw : BOOLEAN, salt : Draw, hash : Draw,
                   error : BOOLEAN]
      /\ ram'.pw = ram.pw /\ ram'.salt = ram.salt /\ ram'.hash = ram.hash /\ ram'.error = ram.error
      /\ ram'.token = ram.token
  <2>1. ram' = ram \/ \E b \in BOOLEAN : ram' = [ram EXCEPT !.enabled = b]
    BY DEF SetEnabled, SaveEnabled, SetDoor, Sweep
  <2> QED BY <2>1 DEF OwnerInv, KeepTypes
<1>8. drawn \in Nat /\ drawn \in Draw /\ claimed \in BOOLEAN
  BY DEF OwnerInv, KeepTypes, Draw
<1> QED BY <1>3, <1>4, <1>5, <1>6, <1>7, <1>8, JobKeepsOwner

LEMMA OwnerInvStep == OwnerInv /\ [SignNext]_signVars => OwnerInv'
<1> SUFFICES ASSUME OwnerInv, [SignNext]_signVars PROVE OwnerInv'
  OBVIOUS
<1>0. "httpd" \in Task
  BY DEF Task
<1>1. CASE PowerCycle \/ Restart
  <2>1. Boot(nvs) /\ known' = known
    BY <1>1 DEF PowerCycle, Restart
  <2> QED BY <2>1, BootKeepsOwner DEF OwnerInv, KeepTypes, DrawInv, FlashInv
<1>2. CASE StorageReset
  <2>1. Boot(Blank) /\ known' = 0 /\ 0 \in Draw
    BY <1>2, SignInAssumption DEF StorageReset, Draw
  <2>2. Blank \in [enabled : BOOLEAN, token : Draw, salt : Draw, hash : Draw, show : BOOLEAN] /\ Blank.token = 0
    BY <2>1 DEF Blank
  <2>3. 0 <= drawn
    BY DEF OwnerInv, KeepTypes, Draw
  <2> QED BY <2>1, <2>2, <2>3, BootKeepsOwner
<1>3. CASE WindowCloses \/ (\E s \in Socket, foreign \in BOOLEAN : Connect(s, foreign)) \/ UNCHANGED signVars
  BY <1>3, SocketsKeepOwner DEF WindowCloses, Connect, signVars
<1>4. ASSUME NEW k \in {Idle} \cup AuthJob, Go("httpd", k), job["httpd"].step # "keep",
             UNCHANGED <<nvs, ram, drawn, console, claimed, known>>
      PROVE  OwnerInv'
  <2>1. k \notin TokenJob /\ k.step \notin {"hash", "keep", "salt"}
    BY <1>4 DEF Idle, AuthJob, TokenJob
  <2> QED BY <1>0, <1>4, <2>1, JobKeepsOwner DEF OwnerInv, KeepTypes, DrawInv, Draw, At
<1>5. ASSUME NEW s \in Socket, AuthFrame(s) PROVE OwnerInv'
  <2>1. [step |-> "authed", fd |-> s] \in AuthJob
    BY DEF AuthJob
  <2> QED BY <1>4, <1>5, <2>1 DEF AuthFrame, At
<1>6. CASE SetAuthed \/ StoreFails
  BY <1>4, <1>6 DEF SetAuthed, StoreFails, At
<1>7. CASE Setup
  <2>1. known \in {0, Torn}
    BY <1>7 DEF Setup, OwnerInv, OwnerStays, At
  <2> QED BY <1>0, <1>7, <2>1, DrawKeepsOwner DEF Setup
<1>8. CASE Password
  BY <1>0, <1>8, DrawKeepsOwner DEF Password
<1>9. ASSUME NEW t \in Task, Rotate(t) PROVE OwnerInv'
  BY <1>9, DrawKeepsOwner DEF Rotate
<1>10. CASE NoteLockout
  <2>1. nvs' = [nvs EXCEPT !.show = TRUE] /\ UNCHANGED <<ram, job, drawn, console, claimed, known>>
    BY <1>10 DEF NoteLockout
  <2>2. nvs' \in [enabled : BOOLEAN, token : Draw, salt : Draw, hash : Draw, show : BOOLEAN]
        /\ nvs'.salt = nvs.salt /\ nvs'.hash = nvs.hash /\ nvs'.token = nvs.token
    BY <2>1 DEF OwnerInv, KeepTypes
  <2> QED BY <2>1, <2>2 DEF OwnerInv, KeepTypes, DrawInv, FlashInv, OwnerStays, At
<1>11. CASE StoreSalt \/ StoreHash \/ KeepPassword
  BY <1>11, StoreKeepsOwner
<1>12. ASSUME NEW t \in Task, TaskStep(t) PROVE OwnerInv'
  BY <1>9, <1>12, TokenKeepsOwner, SwitchKeepsOwner DEF TaskStep
<1> QED
  BY <1>1, <1>2, <1>3, <1>5, <1>6, <1>7, <1>8, <1>10, <1>11, <1>12 DEF SignNext

LEMMA OwnerInvInit == SignInit => OwnerInv
<1> SUFFICES ASSUME SignInit PROVE OwnerInv
  OBVIOUS
<1>1. 0 \in Draw /\ 1 \in Draw /\ Idle.step = "idle" /\ Idle \notin TokenJob /\ "httpd" \in Task
  BY SignInAssumption DEF Draw, Idle, TokenJob, Task
<1>2. nvs \in [enabled : BOOLEAN, token : Draw, salt : Draw, hash : Draw, show : BOOLEAN] /\ nvs.token = 1
  BY <1>1 DEF SignInit, Blank
<1>3. KeepTypes
  BY <1>1, <1>2 DEF SignInit, KeepTypes
<1>4. DrawInv /\ FlashInv /\ OwnerStays
  BY <1>1, <1>2 DEF SignInit, DrawInv, FlashInv, OwnerStays, At
<1> QED BY <1>3, <1>4 DEF OwnerInv

\* For any number of sockets, tokens and passwords, a password that was stored stays the
\* hub's, nobody sets up a hub that has one, and a claimed hub does not take the token of the
\* console (handle_setup, password_store).
THEOREM TheOwnerStays == SignSpec => []OwnerStays
<1>1. SignInit => OwnerInv
  BY OwnerInvInit
<1>2. OwnerInv => OwnerStays
  BY DEF OwnerInv
<1> QED BY <1>1, <1>2, OwnerInvStep, PTL DEF SignSpec

-----------------------------------------------------------------------------
(* The sessions.                                                             *)

\* The relay's rules pass no change of the token, and sign-in is switched by one task at
\* most (the hub's own pages, or the relay of a build that allows it).
OneSwitcher == "rotate" \notin RelayMay /\ ~("settings" \in WebMay /\ "settings" \in RelayMay)

Switching(t) == job[t].step \in {"save", "door", "sweep"}

\* Sign-in goes on: who is signed in now will be signed out at its end.
TurningOn(t) == Switching(t) /\ job[t].en /\ ~job[t].was

\* With sign-in on, the door is open only while it is being turned on; a socket is signed in
\* by another token only while all are about to be signed out; and a token that was shown is
\* still the one there is when its socket is flagged.
SessionInv ==
    /\ open \in BOOLEAN
    /\ socket \in [Socket -> [live : BOOLEAN, authed : BOOLEAN, shown : Draw, foreign : BOOLEAN]]
    /\ ram.token # 0
    /\ job["relay"].step \in {"idle", "save", "door", "sweep"}
    /\ \A t \in Task : Switching(t) => May(t, "settings") /\ (job[t].en <=> ram.enabled)
    /\ ram.enabled /\ open => \E t \in Task : TurningOn(t) /\ job[t].step # "sweep"
    /\ ram.enabled /\ job["httpd"].step \notin {"install", "deauth"} /\ (\A t \in Task : ~TurningOn(t))
       => \A s \in Socket : socket[s].authed => socket[s].shown = ram.token
    /\ (\A t \in Task : ~TurningOn(t)) =>
       \A s \in Socket : socket[s].authed /\ socket[s].foreign => socket[s].shown # 0
    /\ job["httpd"].step = "authed" =>
       LET s == job["httpd"].fd IN socket[s].live => socket[s].shown = ram.token

\* Both tasks, and what a step of one leaves of the other.
LEMMA TwoTasks ==
    ASSUME KeepTypes, NEW t \in Task, NEW k, Go(t, k)
    PROVE  job'[t] = k /\ \A u \in Task : u # t => job'[u] = job[u]
BY DEF KeepTypes, Go

LEMMA SwitchSteps ==
    ASSUME KeepTypes, NEW t \in Task, Switching(t)
    PROVE  job[t] \in SwitchJob
BY DEF KeepTypes, Switching, Idle, AuthJob, TokenJob

\* Sign-in is switched by one task at a time, which the relay may be; it changes no token.
LEMMA OneSwitches ==
    ASSUME OneSwitcher, SessionInv, NEW t \in Task, May(t, "settings")
    PROVE  \A u \in Task : u # t => ~Switching(u)
BY DEF OneSwitcher, SessionInv, May, Task

\* A boot: no socket, no job, and the door is as sign-in is.
LEMMA BootSessions ==
    ASSUME OwnerInv, NEW n,
           n \in [enabled : BOOLEAN, token : Draw, salt : Draw, hash : Draw, show : BOOLEAN], Boot(n)
    PROVE  SessionInv'
<1>1. 0 \in Draw /\ drawn \in Nat /\ drawn + 1 # 0 /\ n.enabled \in BOOLEAN /\ "relay" \in Task /\ "httpd" \in Task
  BY SignInAssumption DEF OwnerInv, KeepTypes, Draw, Task
<1>2. \A t \in Task : job'[t].step = "idle"
  BY DEF Boot, Restarted, Idle
<1>3. socket' = [s \in Socket |-> NoSocket]
  BY DEF Boot, Restarted
<1>4. ram'.token # 0 /\ open' \in BOOLEAN /\ ~(ram'.enabled /\ open')
  <2>1. CASE BootLocked(n)
    BY <1>1, <2>1 DEF BootLocked
  <2>2. CASE BootNormal(n)
    BY <1>1, <2>2 DEF BootNormal
  <2> QED BY <2>1, <2>2 DEF Boot
<1>5. \A s \in Socket : socket'[s] = NoSocket /\ ~socket'[s].authed
  BY <1>3 DEF NoSocket
<1>6. socket' \in [Socket -> [live : BOOLEAN, authed : BOOLEAN, shown : Draw, foreign : BOOLEAN]]
  BY <1>1, <1>3 DEF NoSocket
<1> QED BY <1>1, <1>2, <1>4, <1>5, <1>6 DEF SessionInv, Switching, TurningOn

\* A step of the web server's task that is about no session, but for a token that is new.
LEMMA HttpdSessions ==
    ASSUME OwnerInv, SessionInv, NEW k, Go("httpd", k), UNCHANGED <<open, socket>>,
           ram'.enabled = ram.enabled, ram'.token = ram.token,
           job["httpd"].step \notin {"install", "deauth", "save", "door", "sweep"},
           k.step \notin {"authed", "save", "door", "sweep"}
    PROVE  SessionInv'
<1>1. "httpd" \in Task /\ "relay" \in Task
  BY DEF Task
<1>2. job'["httpd"] = k /\ \A u \in Task : u # "httpd" => job'[u] = job[u]
  BY <1>1, TwoTasks DEF OwnerInv
<1>3. \A u \in Task : /\ Switching(u)' <=> Switching(u)
                      /\ TurningOn(u)' <=> TurningOn(u)
                      /\ Switching(u) => job'[u] = job[u]
  BY <1>2 DEF Switching, TurningOn
<1>4. job'["relay"] = job["relay"]
  BY <1>1, <1>2
<1>5. /\ open' \in BOOLEAN
      /\ socket' \in [Socket -> [live : BOOLEAN, authed : BOOLEAN, shown : Draw, foreign : BOOLEAN]]
      /\ ram'.token # 0 /\ job'["relay"].step \in {"idle", "save", "door", "sweep"}
  BY <1>4 DEF SessionInv
<1>6. \A t \in Task : Switching(t)' => May(t, "settings") /\ (job'[t].en <=> ram'.enabled)
  BY <1>3 DEF SessionInv
<1>7. ram'.enabled /\ open' => \E t \in Task : TurningOn(t)' /\ job'[t].step # "sweep"
  BY <1>3 DEF SessionInv, TurningOn
<1>8. ram'.enabled /\ (\A t \in Task : ~TurningOn(t)') => \A s \in Socket : socket'[s].authed => socket'[s].shown = ram'.token
  BY <1>3 DEF SessionInv
<1>9. (\A t \in Task : ~TurningOn(t)') => \A s \in Socket : socket'[s].authed /\ socket'[s].foreign => socket'[s].shown # 0
  BY <1>3 DEF SessionInv
<1> QED BY <1>2, <1>5, <1>6, <1>7, <1>8, <1>9 DEF SessionInv

\* The sockets: one comes, shows the token, is flagged.
LEMMA SocketSessions ==
    ASSUME OwnerInv, SessionInv,
           \/ \E s \in Socket, foreign \in BOOLEAN : Connect(s, foreign)
           \/ \E s \in Socket : AuthFrame(s)
           \/ SetAuthed
    PROVE  SessionInv'
<1>1. "httpd" \in Task /\ "relay" \in Task /\ 0 \in Draw /\ ram.token \in Draw /\ ram.enabled \in BOOLEAN
  BY SignInAssumption DEF Task, OwnerInv, KeepTypes, Draw
<1>2. CASE \E s \in Socket, foreign \in BOOLEAN : Connect(s, foreign)
  <2>1. PICK s \in Socket, foreign \in BOOLEAN : Connect(s, foreign)
    BY <1>2
  <2>2. /\ UNCHANGED <<ram, open, job>> /\ job["httpd"].step = "idle" /\ (foreign => ram.enabled)
        /\ socket' = [socket EXCEPT ![s] = [live |-> TRUE, authed |-> open, shown |-> 0, foreign |-> foreign]]
    BY <2>1 DEF Connect, At
  <2>3. socket' \in [Socket -> [live : BOOLEAN, authed : BOOLEAN, shown : Draw, foreign : BOOLEAN]]
    BY <1>1, <2>2 DEF SessionInv
  <2>4. \A u \in Task : (Switching(u)' <=> Switching(u)) /\ (TurningOn(u)' <=> TurningOn(u))
    BY <2>2 DEF Switching, TurningOn
  <2>5. \A q \in Socket : IF q = s THEN socket'[q].authed = open /\ socket'[q].foreign = foreign
                          ELSE socket'[q] = socket[q]
    BY <2>2 DEF SessionInv
  <2>6. ram.enabled /\ (\A t \in Task : ~TurningOn(t)) => ~open
    BY DEF SessionInv
  <2> QED BY <2>2, <2>3, <2>4, <2>5, <2>6 DEF SessionInv
<1>3. CASE \E s \in Socket : AuthFrame(s)
  <2>1. PICK s \in Socket : AuthFrame(s)
    BY <1>3
  <2>2. /\ UNCHANGED <<ram, open>> /\ job["httpd"].step = "idle" /\ ~socket[s].authed
        /\ socket' = [socket EXCEPT ![s].shown = ram.token]
        /\ Go("httpd", [step |-> "authed", fd |-> s])
    BY <2>1 DEF AuthFrame, At
  <2>3. job'["httpd"] = [step |-> "authed", fd |-> s] /\ job'["relay"] = job["relay"]
    BY <1>1, <2>2, TwoTasks DEF OwnerInv
  <2>4. \A u \in Task : /\ Switching(u)' <=> Switching(u)
                        /\ TurningOn(u)' <=> TurningOn(u)
                        /\ Switching(u) => job'[u] = job[u]
    BY <2>2, <2>3 DEF Switching, TurningOn, Task
  <2>5. socket' \in [Socket -> [live : BOOLEAN, authed : BOOLEAN, shown : Draw, foreign : BOOLEAN]]
    BY <1>1, <2>2 DEF SessionInv
  <2>6. \A q \in Socket : IF q = s THEN ~socket'[q].authed /\ socket'[q].shown = ram.token ELSE socket'[q] = socket[q]
    BY <2>2 DEF SessionInv
  <2>7. ram'.enabled /\ open' => \E t \in Task : TurningOn(t)' /\ job'[t].step # "sweep"
    BY <2>2, <2>4 DEF SessionInv, TurningOn
  <2> QED BY <2>2, <2>3, <2>4, <2>5, <2>6, <2>7 DEF SessionInv
<1>4. CASE SetAuthed
  <2> DEFINE f == job["httpd"].fd
  <2>1. /\ UNCHANGED <<ram, open>> /\ job["httpd"].step = "authed" /\ Go("httpd", Idle)
        /\ socket' = [socket EXCEPT ![f].authed = socket[f].live]
    BY <1>4 DEF SetAuthed, At
  <2>2. job'["httpd"].step = "idle" /\ job'["relay"] = job["relay"]
    BY <1>1, <2>1, TwoTasks DEF OwnerInv, Idle
  <2>3. f \in Socket
    BY <1>1, <2>1 DEF OwnerInv, KeepTypes, Idle, AuthJob, TokenJob, SwitchJob
  <2>4. \A u \in Task : /\ Switching(u)' <=> Switching(u)
                        /\ TurningOn(u)' <=> TurningOn(u)
                        /\ Switching(u) => job'[u] = job[u]
    BY <2>1, <2>2 DEF Switching, TurningOn, Task
  <2>5. socket[f].live => socket[f].shown = ram.token
    BY <2>1 DEF SessionInv
  <2> HIDE DEF f
  <2>6. socket' \in [Socket -> [live : BOOLEAN, authed : BOOLEAN, shown : Draw, foreign : BOOLEAN]]
    BY <2>1, <2>3 DEF SessionInv
  <2>7. \A q \in Socket : /\ socket'[q].shown = socket[q].shown /\ socket'[q].foreign = socket[q].foreign
                          /\ socket'[q].authed => socket[q].authed \/ socket[q].shown = ram.token
    BY <2>1, <2>3, <2>5 DEF SessionInv
  <2>8. ram'.enabled /\ open' => \E t \in Task : TurningOn(t)' /\ job'[t].step # "sweep"
    BY <2>1, <2>4 DEF SessionInv, TurningOn
  <2> QED BY <2>1, <2>2, <2>4, <2>6, <2>7, <2>8 DEF SessionInv
<1> QED BY <1>2, <1>3, <1>4

\* The token: in RAM it is new, the door has it, and everybody signs in again.
LEMMA TokenSessions ==
    ASSUME OwnerInv, SessionInv, NEW t \in Task, Swap(t) \/ Install(t) \/ Deauth(t)
    PROVE  SessionInv'
<1>1. "httpd" \in Task /\ "relay" \in Task /\ ram.enabled \in BOOLEAN
  BY DEF Task, OwnerInv, KeepTypes
<1>2. t = "httpd"
  BY DEF Swap, Install, Deauth, At, SessionInv, Task
<1>3. job["httpd"].step \in {"swap", "install", "deauth"}
  BY <1>2 DEF Swap, Install, Deauth, At
<1>4. PICK k \in {Idle, [job["httpd"] EXCEPT !.step = "install"], [job["httpd"] EXCEPT !.step = "deauth"]} :
         Go("httpd", k)
  BY <1>2 DEF Swap, Install, Deauth, Then
<1>5. job["httpd"] \in TokenJob
  BY <1>1, <1>3, TokenSteps DEF OwnerInv
<1>6. k.step \in {"idle", "install", "deauth"}
  BY <1>4, <1>5 DEF Idle, TokenJob
<1>7. job'["httpd"] = k /\ job'["relay"] = job["relay"]
  BY <1>1, <1>4, TwoTasks DEF OwnerInv
<1>8. \A u \in Task : /\ Switching(u)' <=> Switching(u)
                      /\ TurningOn(u)' <=> TurningOn(u)
                      /\ Switching(u) => job'[u] = job[u]
  BY <1>3, <1>6, <1>7 DEF Switching, TurningOn, Task
<1>9. job'["relay"].step \in {"idle", "save", "door", "sweep"}
  BY <1>7 DEF SessionInv
<1>10. CASE Swap(t)
  <2>1. ram' = [ram EXCEPT !.token = job["httpd"].draw] /\ UNCHANGED <<open, socket>>
        /\ IF ram.enabled THEN Then(t, "install") ELSE Go(t, Idle)
    BY <1>2, <1>10 DEF Swap
  <2>2. ram'.enabled = ram.enabled /\ ram'.token = job["httpd"].draw
    BY <2>1 DEF OwnerInv, KeepTypes
  <2>3. job["httpd"].draw # 0
    BY <1>1, <1>5 DEF OwnerInv, DrawInv, KeepTypes, TokenJob, Draw
  <2>4. ram.enabled => job'["httpd"].step = "install"
    BY <1>1, <1>2, <1>5, <2>1, TwoTasks DEF Then, OwnerInv, TokenJob
  <2>5. ram'.enabled /\ open' => \E u \in Task : TurningOn(u)' /\ job'[u].step # "sweep"
    BY <1>8, <2>1, <2>2 DEF SessionInv, TurningOn
  <2> QED BY <1>6, <1>7, <1>8, <1>9, <2>1, <2>2, <2>3, <2>4, <2>5 DEF SessionInv
<1>11. CASE Install(t)
  <2>1. ~open' /\ UNCHANGED <<ram, socket>> /\ Then(t, "deauth") /\ open' \in BOOLEAN
    BY <1>11 DEF Install
  <2>2. job'["httpd"].step = "deauth"
    BY <1>1, <1>2, <1>5, <2>1, TwoTasks DEF Then, OwnerInv, TokenJob
  <2> QED BY <1>8, <1>9, <2>1, <2>2 DEF SessionInv
<1>12. CASE Deauth(t)
  <2>1. socket' = Deauthed /\ UNCHANGED <<ram, open>>
    BY <1>12 DEF Deauth
  <2>2. socket' \in [Socket -> [live : BOOLEAN, authed : BOOLEAN, shown : Draw, foreign : BOOLEAN]]
        /\ \A s \in Socket : ~socket'[s].authed
    BY <2>1 DEF SessionInv, Deauthed
  <2>3. ram'.enabled /\ open' => \E u \in Task : TurningOn(u)' /\ job'[u].step # "sweep"
    BY <1>8, <2>1 DEF SessionInv, TurningOn
  <2> QED BY <1>6, <1>7, <1>8, <1>9, <2>1, <2>2, <2>3 DEF SessionInv
<1> QED BY <1>10, <1>11, <1>12

\* Sign-in is switched: with it on, the door is shut before all are signed out.
LEMMA SwitchSessions ==
    ASSUME OneSwitcher, OwnerInv, SessionInv, NEW t \in Task,
           (\E en \in BOOLEAN : SetEnabled(t, en)) \/ SaveEnabled(t) \/ SetDoor(t) \/ Sweep(t)
    PROVE  SessionInv'
<1>1. "httpd" \in Task /\ "relay" \in Task /\ ram.enabled \in BOOLEAN /\ ram.token # 0 /\ open \in BOOLEAN
  BY DEF Task, OwnerInv, KeepTypes, SessionInv
<1>2. May(t, "settings")
  <2>1. CASE \E en \in BOOLEAN : SetEnabled(t, en)
    BY <2>1 DEF SetEnabled
  <2>2. CASE SaveEnabled(t) \/ SetDoor(t) \/ Sweep(t)
    BY <2>2 DEF SaveEnabled, SetDoor, Sweep, At, SessionInv, Switching
  <2> QED BY <2>1, <2>2
<1>3. \A u \in Task : u # t => ~Switching(u) /\ ~TurningOn(u)
  BY <1>2, OneSwitches DEF TurningOn
<1>4. ASSUME NEW k \in {Idle} \cup SwitchJob, Go(t, k)
      PROVE  /\ job'[t] = k /\ \A u \in Task : u # t => job'[u] = job[u] /\ ~Switching(u)' /\ ~TurningOn(u)'
             /\ job'["relay"].step \in {"idle", "save", "door", "sweep"}
             /\ job'["httpd"].step = "authed" => t # "httpd" /\ job'["httpd"] = job["httpd"]
             /\ job'["httpd"].step \notin {"install", "deauth"} => job["httpd"].step \notin {"install", "deauth"} \/ t = "httpd"
  <2>1. job'[t] = k /\ \A u \in Task : u # t => job'[u] = job[u]
    BY <1>4, TwoTasks DEF OwnerInv
  <2>2. k.step \in {"idle", "save", "door", "sweep"}
    BY <1>4 DEF Idle, SwitchJob
  <2> QED BY <1>1, <1>3, <2>1, <2>2 DEF Switching, TurningOn, SessionInv, Task
<1>5. ASSUME Switching(t) PROVE /\ job[t] \in SwitchJob /\ (job[t].en <=> ram.enabled)
                                /\ \A step \in {"door", "sweep"} : /\ [job[t] EXCEPT !.step = step] \in SwitchJob
                                                                   /\ [job[t] EXCEPT !.step = step].step = step
                                                                   /\ [job[t] EXCEPT !.step = step].en = job[t].en
                                                                   /\ [job[t] EXCEPT !.step = step].was = job[t].was
  <2>1. job[t] \in SwitchJob
    BY <1>5, SwitchSteps DEF OwnerInv
  <2> QED BY <1>5, <2>1 DEF SwitchJob, SessionInv
<1>6. ASSUME NEW en \in BOOLEAN, SetEnabled(t, en) PROVE SessionInv'
  <2> DEFINE k == [step |-> "save", en |-> en, was |-> ram.enabled]
  <2>1. Go(t, k) /\ k \in SwitchJob /\ ram' = [ram EXCEPT !.enabled = en] /\ UNCHANGED <<open, socket>>
        /\ job[t].step = "idle"
    BY <1>1, <1>6 DEF SetEnabled, SwitchJob, At
  <2>2. ram'.enabled = en /\ ram'.token = ram.token
    BY <2>1 DEF OwnerInv, KeepTypes
  <2>3. k.step = "save" /\ k.en = en /\ k.was = ram.enabled
    OBVIOUS
  <2> HIDE DEF k
  <2>4. Switching(t)' /\ (TurningOn(t)' <=> en /\ ~ram.enabled) /\ job'[t].step = "save" /\ job'[t].en = en
    BY <1>4, <2>1, <2>3 DEF Switching, TurningOn
  <2>5. \A u \in Task : ~TurningOn(u)
    BY <1>3, <2>1 DEF TurningOn, Switching
  <2>6. ram.enabled => ~open
    BY <2>5 DEF SessionInv
  <2>7. \A u \in Task : Switching(u)' => May(u, "settings") /\ (job'[u].en <=> ram'.enabled)
    BY <1>2, <1>4, <2>1, <2>2, <2>4
  <2>8. ram'.enabled /\ open' => TurningOn(t)' /\ job'[t].step # "sweep"
    BY <2>1, <2>2, <2>4, <2>6
  <2>9. job["httpd"].step \in {"install", "deauth"} => t # "httpd"
    BY <2>1
  <2>10. ram'.enabled /\ job'["httpd"].step \notin {"install", "deauth"} /\ (\A u \in Task : ~TurningOn(u)')
         => ram.enabled /\ job["httpd"].step \notin {"install", "deauth"}
    BY <1>1, <1>4, <2>1, <2>2, <2>4, <2>9
  <2>11. ram'.enabled /\ job'["httpd"].step \notin {"install", "deauth"} /\ (\A u \in Task : ~TurningOn(u)')
         => \A s \in Socket : socket'[s].authed => socket'[s].shown = ram'.token
    BY <2>1, <2>2, <2>5, <2>10 DEF SessionInv
  <2>12. \A s \in Socket : socket'[s].authed /\ socket'[s].foreign => socket'[s].shown # 0
    BY <2>1, <2>5 DEF SessionInv
  <2>13. job'["httpd"].step = "authed" => LET s == job'["httpd"].fd IN socket'[s].live => socket'[s].shown = ram'.token
    BY <1>4, <2>1, <2>2 DEF SessionInv
  <2>14. job'["relay"].step \in {"idle", "save", "door", "sweep"}
    BY <1>4, <2>1
  <2>15. /\ open' \in BOOLEAN /\ ram'.token # 0
         /\ socket' \in [Socket -> [live : BOOLEAN, authed : BOOLEAN, shown : Draw, foreign : BOOLEAN]]
    BY <1>1, <2>1, <2>2 DEF SessionInv
  <2> QED BY <2>7, <2>8, <2>11, <2>12, <2>13, <2>14, <2>15 DEF SessionInv
<1>7. CASE SaveEnabled(t)
  <2> DEFINE k == [job[t] EXCEPT !.step = "door"]
  <2>1. Go(t, k) /\ UNCHANGED <<ram, open, socket>> /\ job[t].step = "save" /\ Switching(t)
    BY <1>7 DEF SaveEnabled, Then, At, Switching
  <2>2. k \in SwitchJob /\ k.step = "door" /\ k.en = job[t].en /\ k.was = job[t].was
    BY <1>5, <2>1
  <2> HIDE DEF k
  <2>3. job'[t].step = "door" /\ Switching(t)' /\ (TurningOn(t)' <=> TurningOn(t)) /\ job'[t].en = job[t].en
    BY <1>4, <2>1, <2>2 DEF Switching, TurningOn
  <2>4. \A u \in Task : TurningOn(u)' <=> TurningOn(u)
    BY <1>3, <1>4, <2>1, <2>2, <2>3
  <2>5. \A u \in Task : Switching(u)' => May(u, "settings") /\ (job'[u].en <=> ram'.enabled)
    BY <1>2, <1>4, <1>5, <2>1, <2>2, <2>3
  <2>6. ram'.enabled /\ open' => \E u \in Task : TurningOn(u)' /\ job'[u].step # "sweep"
    <3>1. ram.enabled /\ open => TurningOn(t)
      BY <1>3 DEF SessionInv
    <3> QED BY <2>1, <2>3, <3>1
  <2>7. job'["httpd"].step \notin {"install", "deauth"} => job["httpd"].step \notin {"install", "deauth"}
    BY <1>4, <2>1, <2>2
  <2>8. job'["httpd"].step = "authed" => job'["httpd"] = job["httpd"]
    BY <1>4, <2>1, <2>2
  <2>9. job'["relay"].step \in {"idle", "save", "door", "sweep"}
    BY <1>4, <2>1, <2>2
  <2> QED BY <2>1, <2>4, <2>5, <2>6, <2>7, <2>8, <2>9 DEF SessionInv
<1>8. CASE SetDoor(t)
  <2>1. /\ UNCHANGED <<ram, socket>> /\ job[t].step = "door" /\ Switching(t)
        /\ open' = ~job[t].en
        /\ IF job[t].en # job[t].was THEN Then(t, "sweep") ELSE Go(t, Idle)
    BY <1>8 DEF SetDoor, At, Switching
  <2>2. job[t].en \in BOOLEAN /\ job[t].was \in BOOLEAN
    BY <1>5, <2>1 DEF SwitchJob
  <2>3. PICK k \in {Idle} \cup SwitchJob : /\ Go(t, k)
                                           /\ IF job[t].en # job[t].was
                                              THEN k.step = "sweep" /\ k.en = job[t].en /\ k.was = job[t].was
                                              ELSE k = Idle
    BY <1>5, <2>1 DEF Then
  <2>4. job'[t] = k /\ \A u \in Task : u # t => ~TurningOn(u)' /\ ~Switching(u)'
    BY <1>4, <2>3
  <2>5. TurningOn(t)' <=> TurningOn(t)
    <3>1. CASE job[t].en # job[t].was
      BY <2>1, <2>3, <2>4, <3>1 DEF TurningOn, Switching
    <3>2. CASE job[t].en = job[t].was
      BY <2>1, <2>3, <2>4, <3>2 DEF TurningOn, Switching, Idle
    <3> QED BY <3>1, <3>2
  <2>6. \A u \in Task : TurningOn(u)' <=> TurningOn(u)
    BY <1>3, <2>4, <2>5
  <2>7. \A u \in Task : Switching(u)' => May(u, "settings") /\ (job'[u].en <=> ram'.enabled)
    <3>1. Switching(t)' => job'[t].en = job[t].en
      BY <2>3, <2>4 DEF Switching, Idle
    <3> QED BY <1>2, <1>5, <2>1, <2>4, <3>1
  <2>8. ~(ram'.enabled /\ open') /\ open' \in BOOLEAN
    BY <1>5, <2>1, <2>2
  <2>9. job'["httpd"].step \notin {"install", "deauth"} => job["httpd"].step \notin {"install", "deauth"}
    BY <1>4, <2>1, <2>3
  <2>10. job'["httpd"].step = "authed" => job'["httpd"] = job["httpd"]
    BY <1>4, <2>3
  <2>11. job'["relay"].step \in {"idle", "save", "door", "sweep"}
    BY <1>4, <2>3
  <2> QED BY <2>1, <2>6, <2>7, <2>8, <2>9, <2>10, <2>11 DEF SessionInv
<1>9. CASE Sweep(t)
  <2>1. /\ UNCHANGED <<ram, open>> /\ job[t].step = "sweep" /\ Switching(t) /\ Go(t, Idle)
        /\ socket' = IF job[t].en THEN Deauthed ELSE SignedInOnly
    BY <1>9 DEF Sweep, At, Switching
  <2>2. job'[t] = Idle /\ \A u \in Task : ~TurningOn(u)' /\ ~Switching(u)'
    BY <1>4, <2>1 DEF TurningOn, Switching, Idle
  <2>3. ~(ram.enabled /\ open)
    BY <1>3, <2>1 DEF SessionInv
  <2>4. socket' \in [Socket -> [live : BOOLEAN, authed : BOOLEAN, shown : Draw, foreign : BOOLEAN]]
    <3>1. NoSocket \in [live : BOOLEAN, authed : BOOLEAN, shown : Draw, foreign : BOOLEAN]
      BY SignInAssumption DEF NoSocket, Draw
    <3>2. \A s \in Socket : [socket[s] EXCEPT !.authed = FALSE] \in [live : BOOLEAN, authed : BOOLEAN, shown : Draw, foreign : BOOLEAN]
      BY DEF SessionInv
    <3>3. CASE job[t].en
      BY <2>1, <3>2, <3>3 DEF Deauthed
    <3>4. CASE ~job[t].en
      BY <2>1, <3>1, <3>4 DEF SignedInOnly, SessionInv
    <3> QED BY <3>3, <3>4
  <2>5. \A s \in Socket : /\ socket'[s].authed => ~job[t].en /\ socket'[s] = socket[s]
                          /\ socket'[s].live => socket[s].live /\ socket'[s].shown = socket[s].shown
    <3>1. CASE job[t].en
      BY <2>1, <3>1 DEF Deauthed, SessionInv
    <3>2. CASE ~job[t].en
      BY <2>1, <3>2 DEF SignedInOnly, NoSocket
    <3> QED BY <3>1, <3>2
  <2>6. ram.enabled => job[t].en
    BY <1>5, <2>1
  <2>7. ~job[t].en => \A u \in Task : ~TurningOn(u)
    BY <1>3 DEF TurningOn
  <2>8. \A s \in Socket : socket'[s].authed /\ socket'[s].foreign => socket'[s].shown # 0
    BY <2>5, <2>7 DEF SessionInv
  <2>9. job'["httpd"].step = "authed" => job'["httpd"] = job["httpd"] /\ job["httpd"].fd \in Socket
    <3>1. job'["httpd"].step = "authed" => job'["httpd"] = job["httpd"]
      BY <1>4, <2>1
    <3> QED BY <1>1, <3>1 DEF OwnerInv, KeepTypes, Idle, AuthJob, TokenJob, SwitchJob
  <2>10. job'["httpd"].step = "authed" => LET s == job'["httpd"].fd IN socket'[s].live => socket'[s].shown = ram'.token
    BY <2>1, <2>5, <2>9 DEF SessionInv
  <2>11. job'["relay"].step \in {"idle", "save", "door", "sweep"}
    BY <1>4, <2>1
  <2> QED BY <1>1, <2>1, <2>2, <2>3, <2>4, <2>5, <2>6, <2>8, <2>10, <2>11 DEF SessionInv
<1> QED BY <1>6, <1>7, <1>8, <1>9

LEMMA SessionStep ==
    ASSUME OneSwitcher, OwnerInv, SessionInv, [SignNext]_signVars
    PROVE  SessionInv'
<1>0. "httpd" \in Task /\ "relay" \in Task
  BY DEF Task
<1>1. ASSUME UNCHANGED <<ram, open, socket, job>> PROVE SessionInv'
  BY <1>1 DEF SessionInv, Switching, TurningOn
<1>2. CASE PowerCycle \/ Restart
  <2>1. Boot(nvs)
    BY <1>2 DEF PowerCycle, Restart
  <2> QED BY <2>1, BootSessions DEF OwnerInv, KeepTypes
<1>3. CASE StorageReset
  <2>1. Boot(Blank) /\ Blank \in [enabled : BOOLEAN, token : Draw, salt : Draw, hash : Draw, show : BOOLEAN]
    BY <1>3, SignInAssumption DEF StorageReset, Blank, Draw
  <2> QED BY <2>1, BootSessions
<1>4. CASE WindowCloses \/ NoteLockout \/ UNCHANGED signVars
  BY <1>1, <1>4 DEF WindowCloses, NoteLockout, signVars
<1>5. CASE SetAuthed \/ \E s \in Socket : AuthFrame(s) \/ \E foreign \in BOOLEAN : Connect(s, foreign)
  BY <1>5, SocketSessions
<1>6. ASSUME NEW k \in {Idle} \cup TokenJob, Go("httpd", k), UNCHANGED <<open, socket>>,
             ram'.enabled = ram.enabled, ram'.token = ram.token,
             job["httpd"].step \in {"idle", "salt", "hash", "keep", "persist"}
      PROVE  SessionInv'
  <2>1. k.step \notin {"authed", "save", "door", "sweep"}
    BY <1>6 DEF Idle, TokenJob
  <2> QED BY <1>6, <2>1, HttpdSessions
<1>7. ASSUME NEW step \in {"salt", "persist"}, NEW cmd \in {"setup", "password", "rotate"},
             Draws("httpd", step, cmd), job["httpd"].step = "idle", UNCHANGED <<ram, open, socket>>
      PROVE  SessionInv'
  <2>1. [step |-> step, cmd |-> cmd, draw |-> drawn'] \in TokenJob
    BY <1>7, SignInAssumption DEF Draws, TokenJob, Draw, OwnerInv, KeepTypes
  <2> QED BY <1>6, <1>7, <2>1 DEF Draws
<1>8. CASE Setup \/ Password
  BY <1>7, <1>8 DEF Setup, Password, At
<1>9. ASSUME NEW t \in Task, Rotate(t) PROVE SessionInv'
  <2>1. t = "httpd"
    BY <1>9 DEF Rotate, May, OneSwitcher, Task
  <2> QED BY <1>7, <1>9, <2>1 DEF Rotate, At
<1>10. ASSUME job["httpd"].step \in {"salt", "hash", "keep", "persist"}
       PROVE  \A s \in {"hash", "keep", "persist", "swap"} : \A d \in Draw :
                 /\ [job["httpd"] EXCEPT !.step = s] \in TokenJob
                 /\ [job["httpd"] EXCEPT !.step = s, !.draw = d] \in TokenJob
  <2>1. job["httpd"] \in TokenJob
    BY <1>0, <1>10, TokenSteps DEF OwnerInv
  <2> QED BY <2>1 DEF TokenJob
<1>11. 0 \in Draw /\ \A n \in Nat : n < MaxDraws => n + 1 \in Draw
  BY SignInAssumption DEF Draw
<1>12. CASE StoreFails \/ StoreSalt \/ StoreHash
  BY <1>6, <1>10, <1>11, <1>12 DEF StoreFails, StoreSalt, StoreHash, At, Then
<1>13. CASE KeepPassword
  <2>1. /\ Go("httpd", [job["httpd"] EXCEPT !.step = "persist", !.draw = drawn'])
        /\ job["httpd"].step = "keep" /\ drawn < MaxDraws /\ drawn' = drawn + 1
        /\ UNCHANGED <<open, socket>>
        /\ ram' = [ram EXCEPT !.pw = TRUE, !.salt = job["httpd"].draw, !.hash = job["httpd"].draw]
    BY <1>13 DEF KeepPassword, At
  <2>2. ram'.enabled = ram.enabled /\ ram'.token = ram.token
    BY <2>1 DEF OwnerInv, KeepTypes
  <2>3. drawn' \in Draw
    BY <1>11, <2>1 DEF OwnerInv, KeepTypes, Draw
  <2> QED BY <1>6, <1>10, <2>1, <2>2, <2>3
<1>14. ASSUME NEW t \in Task, Persist(t) PROVE SessionInv'
  <2>1. t = "httpd"
    BY <1>14 DEF Persist, At, SessionInv, Task
  <2> QED BY <1>6, <1>10, <1>11, <1>14, <2>1 DEF Persist, At, Then
<1>15. ASSUME NEW t \in Task, TaskStep(t) PROVE SessionInv'
  BY <1>9, <1>14, <1>15, TokenSessions, SwitchSessions DEF TaskStep
<1> QED
  BY <1>2, <1>3, <1>4, <1>5, <1>8, <1>12, <1>13, <1>15 DEF SignNext

\* With sign-in on, a socket that is signed in showed the token there is now, and another
\* site's page showed one, whenever no change of token or sign-in is under way: for any number
\* of sockets and tokens, whatever connects, signs in, is rotated, switched or restarted, as
\* long as one task switches sign-in and the relay rotates no token (auth_set_enabled,
\* auth_rotate_token).
THEOREM SessionsAreOfTheToken == ASSUME OneSwitcher PROVE SignSpec => []SessionsHoldToken
<1>1. SignInit => OwnerInv /\ SessionInv
  <2> SUFFICES ASSUME SignInit PROVE OwnerInv /\ SessionInv
    OBVIOUS
  <2>1. 0 \in Draw /\ \A t \in Task : job[t].step = "idle"
    BY SignInAssumption DEF SignInit, Draw, Idle
  <2>2. socket = [s \in Socket |-> NoSocket] /\ ram.token = 1 /\ open = FALSE
    BY DEF SignInit
  <2>3. \A s \in Socket : ~socket[s].authed
    BY <2>2 DEF NoSocket
  <2>4. socket \in [Socket -> [live : BOOLEAN, authed : BOOLEAN, shown : Draw, foreign : BOOLEAN]]
    BY <2>1, <2>2 DEF NoSocket
  <2>5. \A t \in Task : ~Switching(t) /\ ~TurningOn(t)
    BY <2>1 DEF Switching, TurningOn
  <2>6. job["httpd"].step = "idle" /\ job["relay"].step = "idle"
    BY <2>1 DEF Task
  <2>7. ram.token # 0 /\ open \in BOOLEAN /\ ~open
    <3>1. ram.token # 0
      BY <2>2
    <3>2. open \in BOOLEAN /\ ~open
      BY <2>2, Zenon
    <3> QED BY <3>1, <3>2
  <2>8. SessionInv
    BY <2>3, <2>4, <2>5, <2>6, <2>7 DEF SessionInv
  <2> QED BY <2>8, OwnerInvInit
<1>2. OwnerInv /\ SessionInv /\ [SignNext]_signVars => (OwnerInv /\ SessionInv)'
  BY OwnerInvStep, SessionStep
<1>3. SessionInv => SessionsHoldToken
  <2> SUFFICES ASSUME SessionInv, Quiet PROVE SessionsHoldToken
    BY DEF SessionsHoldToken
  <2>1. "httpd" \in Task /\ \A t \in Task : ~Switching(t) /\ ~TurningOn(t)
    BY DEF Quiet, Switching, TurningOn, Task
  <2>2. job["httpd"].step \notin {"install", "deauth"}
    BY <2>1 DEF Quiet
  <2> QED BY <2>1, <2>2 DEF SessionInv, SessionsHoldToken
<1> QED BY <1>1, <1>2, <1>3, PTL DEF SignSpec

=============================================================================
