--------------------------- MODULE RequestsProofs ---------------------------
(* Proofs about the requests to the stack: the re-entrant lock of the SDK, for *)
(* any number of tasks and any nesting, the one result slot of the binds, for  *)
(* any number of callers, the conversation of an interview (Reading), and the  *)
(* routers that a network map has asked (NetMap).                              *)
EXTENDS SdkLock, Binds, Reading, NetMap, FiniteSetTheorems, WellFoundedInduction, TLAPS

-----------------------------------------------------------------------------
(* The SDK's lock.                                                           *)

\* What the owner and the depth say of a task, at every step of its guards: nobody else
\* can read its own name, because the name is written only while the lock is held.
HolderInv ==
    \A u \in User :
        /\ nest[u] > 0 => lock = u /\ owner = u /\ depth = nest[u] /\ pc[u] \in {"in", "enter"}
        /\ pc[u] \in {"own", "clear", "release"} => lock = u /\ nest[u] = 0
        /\ pc[u] = "clear" => owner = u
        /\ pc[u] = "in" => nest[u] > 0
        /\ lock = u => nest[u] > 0 \/ pc[u] \in {"own", "clear", "release"}
        /\ owner = u => nest[u] > 0 \/ pc[u] = "clear"

LockInv == LockTypeOK /\ HolderInv

LEMMA LockInvInit == LockInit => LockInv
  BY SdkLockAssumption DEF LockInit, LockInv, LockTypeOK, HolderInv

LEMMA LockInvStep == LockInv /\ [LockNext]_lockVars => LockInv'
<1> SUFFICES ASSUME LockInv, [LockNext]_lockVars PROVE LockInv'
  OBVIOUS
<1> USE SdkLockAssumption DEF LockInv, LockTypeOK, HolderInv, To
<1>1. ASSUME NEW u \in User, Call(u) PROVE LockInv'
  BY <1>1 DEF Call
<1>2. ASSUME NEW u \in User, Enter(u) PROVE LockInv'
  <2>1. CASE owner = u
    BY <1>2, <2>1 DEF Enter
  <2>2. CASE owner # u
    BY <1>2, <2>2 DEF Enter
  <2> QED BY <2>1, <2>2
<1>3. ASSUME NEW u \in User, Acquire(u) PROVE LockInv'
  BY <1>3 DEF Acquire
<1>4. ASSUME NEW u \in User, GiveUp(u) PROVE LockInv'
  BY <1>4 DEF GiveUp
<1>5. ASSUME NEW u \in User, Own(u) PROVE LockInv'
  BY <1>5 DEF Own
<1>6. ASSUME NEW u \in User, Leave(u) PROVE LockInv'
  <2>1. nest[u] \in Nat \ {0} /\ depth = nest[u] /\ lock = u /\ owner = u
    BY <1>6 DEF Leave
  <2>2. CASE depth = 1
    BY <1>6, <2>1, <2>2 DEF Leave
  <2>3. CASE depth # 1
    BY <1>6, <2>1, <2>3 DEF Leave
  <2> QED BY <2>2, <2>3
<1>7. ASSUME NEW u \in User, Clear_owner(u) PROVE LockInv'
  BY <1>7 DEF Clear_owner
<1>8. ASSUME NEW u \in User, Release(u) PROVE LockInv'
  BY <1>8 DEF Release
<1>9. CASE Callback
  BY <1>9 DEF Callback
<1>10. CASE CallbackEnds
  BY <1>10 DEF CallbackEnds
<1>11. CASE UNCHANGED lockVars
  BY <1>11 DEF lockVars
<1> QED
  BY <1>1, <1>2, <1>3, <1>4, <1>5, <1>6, <1>7, <1>8, <1>9, <1>10, <1>11 DEF LockNext

\* A task whose guard is ok holds the SDK's lock and is alone with it, for every number of
\* tasks and every nesting, although owner() and depth() are read without a lock
\* (esp_zb_lock.h:26).
THEOREM OneTaskInTheSdk == LockSpec => []OneInTheSdk
<1>1. LockInv => OneInTheSdk
  BY DEF LockInv, HolderInv, LockTypeOK, OneInTheSdk
<1> QED
  BY <1>1, LockInvInit, LockInvStep, PTL DEF LockSpec

-----------------------------------------------------------------------------
(* The binds' result slot.                                                   *)

\* While a caller waits, the generation is its own: a callback past its check carries the
\* answer of this request, and once it has answered the stack owes it no other.
WaitInv ==
    \A c \in Caller : step[c] = "wait" =>
        /\ gen = mine /\ ~got
        /\ cb.at \in {"write", "post"} => cb.gen = mine
        /\ cb.at # "idle" /\ cb.gen = mine =>
               /\ mine \notin air /\ ~posted /\ said = cb.answer
               /\ cb.at = "post" => slot = cb.answer
        /\ posted => mine \notin air /\ slot = said

\* Once it has been woken, no callback passes its check any more.
WokenInv ==
    \A c \in Caller : step[c] \in {"expire", "read"} /\ got =>
        /\ mine \notin air /\ gen \notin air /\ slot = said
        /\ cb.at \in {"idle", "check"}
        /\ cb.at = "check" => cb.gen # gen

BindInv == BindTypeOK /\ WaitInv /\ WokenInv

LEMMA NextGenType == ASSUME gen \in Gen PROVE NextGen \in Gen \ {0}
  BY BindsAssumption DEF NextGen, Gen

LEMMA BindInvInit == BindInit => BindInv
<1> SUFFICES ASSUME BindInit PROVE BindInv
  OBVIOUS
<1>1. 0 \in Gen
  BY BindsAssumption DEF Gen
<1>2. \A c \in Caller : step[c] = "idle" /\ c # Nobody
  BY BindsAssumption DEF BindInit
<1>3. cb \in [at : {"idle", "check", "write", "post"}, gen : Gen, answer : Answer]
  BY <1>1 DEF BindInit, NoCb, Answer
<1>4. BindTypeOK
  BY <1>1, <1>2, <1>3 DEF BindInit, BindTypeOK, Answer
<1>5. WaitInv /\ WokenInv
  BY <1>2 DEF WaitInv, WokenInv
<1> QED BY <1>4, <1>5 DEF BindInv

LEMMA BindTypeStep == BindTypeOK /\ [BindNext]_bindVars => BindTypeOK'
<1> SUFFICES ASSUME BindTypeOK, [BindNext]_bindVars PROVE BindTypeOK'
  OBVIOUS
<1> USE BindsAssumption DEF BindTypeOK, Goto, NoCb, Answer
<1>0. 0 \in Gen /\ NextGen \in Gen
  BY NextGenType DEF Gen
<1>1. ASSUME NEW c \in Caller, Want(c) PROVE BindTypeOK'
  BY <1>1 DEF Want
<1>2. ASSUME NEW c \in Caller, TakeOp(c) PROVE BindTypeOK'
  BY <1>2 DEF TakeOp
<1>3. ASSUME NEW c \in Caller, OpBusy(c) PROVE BindTypeOK'
  BY <1>3 DEF OpBusy
<1>4. ASSUME NEW c \in Caller, Send(c) PROVE BindTypeOK'
  BY <1>0, <1>4 DEF Send
<1>5. ASSUME NEW c \in Caller, NoLock(c) PROVE BindTypeOK'
  BY <1>5 DEF NoLock
<1>6. ASSUME NEW c \in Caller, Wake(c) PROVE BindTypeOK'
  BY <1>6 DEF Wake
<1>7. ASSUME NEW c \in Caller, Timeout(c) PROVE BindTypeOK'
  BY <1>7 DEF Timeout
<1>8. ASSUME NEW c \in Caller, Expire(c) PROVE BindTypeOK'
  BY <1>0, <1>8 DEF Expire
<1>9. ASSUME NEW c \in Caller, Return(c) PROVE BindTypeOK'
  BY <1>9 DEF Return
<1>10. ASSUME NEW g \in Gen, NEW a \in Answer, Answered(g, a) PROVE BindTypeOK'
  BY <1>10 DEF Answered, asking
<1>11. CASE Check
  BY <1>0, <1>11 DEF Check, asking
<1>12. CASE WriteSlot
  BY <1>12 DEF WriteSlot, asking
<1>13. CASE Post
  BY <1>0, <1>13 DEF Post, asking
<1>14. CASE UNCHANGED bindVars
  BY <1>14 DEF bindVars
<1> QED
  BY <1>1, <1>2, <1>3, <1>4, <1>5, <1>6, <1>7, <1>8, <1>9, <1>10, <1>11, <1>12, <1>13, <1>14
     DEF BindNext, Proceed, CallbackSteps

LEMMA BindInvStep == BindInv /\ [BindNext]_bindVars => BindInv'
<1> SUFFICES ASSUME BindInv, [BindNext]_bindVars PROVE (WaitInv /\ WokenInv)'
  BY BindTypeStep DEF BindInv
<1> USE DEF BindInv, BindTypeOK, WaitInv, WokenInv, Goto, NoCb
<1>0. NextGen \in Gen \ {0}
  BY NextGenType
<1>1. ASSUME NEW c \in Caller, Want(c) \/ TakeOp(c) \/ OpBusy(c) \/ Return(c)
      PROVE  (WaitInv /\ WokenInv)'
  BY <1>1 DEF Want, TakeOp, OpBusy, Return
<1>2. ASSUME NEW c \in Caller, Send(c) PROVE (WaitInv /\ WokenInv)'
  BY <1>0, <1>2, BindsAssumption DEF Send
<1>3. ASSUME NEW c \in Caller, NoLock(c) PROVE (WaitInv /\ WokenInv)'
  BY <1>3, BindsAssumption DEF NoLock
<1>4. ASSUME NEW c \in Caller, Wake(c) PROVE (WaitInv /\ WokenInv)'
  <2>1. \A d \in Caller : step[d] \in {"ask", "wait", "expire", "read"} => d = c
    BY <1>4, BindsAssumption DEF Wake
  <2> QED BY <1>4, <2>1 DEF Wake
<1>5. ASSUME NEW c \in Caller, Timeout(c) PROVE (WaitInv /\ WokenInv)'
  <2>1. \A d \in Caller : step[d] \in {"ask", "wait", "expire", "read"} => d = c
    BY <1>5, BindsAssumption DEF Timeout
  <2> QED BY <1>5, <2>1 DEF Timeout
<1>6. ASSUME NEW c \in Caller, Expire(c) PROVE (WaitInv /\ WokenInv)'
  <2>1. \A d \in Caller : step[d] \in {"ask", "wait", "expire", "read"} => d = c
    BY <1>6, BindsAssumption DEF Expire
  <2> QED BY <1>6, <2>1 DEF Expire
<1>7. ASSUME NEW g \in Gen, NEW a \in Answer, Answered(g, a) PROVE (WaitInv /\ WokenInv)'
  BY <1>7 DEF Answered, asking
<1>8. CASE Check
  BY <1>8 DEF Check, Current, asking
<1>9. CASE WriteSlot
  BY <1>9 DEF WriteSlot, asking
<1>10. CASE Post
  BY <1>10 DEF Post, asking
<1>11. CASE UNCHANGED bindVars
  BY <1>11 DEF bindVars
<1> QED
  BY <1>1, <1>2, <1>3, <1>4, <1>5, <1>6, <1>7, <1>8, <1>9, <1>10, <1>11
     DEF BindNext, Proceed, CallbackSteps

\* The state of the binds stays within its types, and the mutex lets one caller through.
THEOREM BindTypes == BindSpec => []BindTypeOK
<1>1. BindInit => BindTypeOK
  BY BindInvInit DEF BindInv
<1> QED
  BY <1>1, BindTypeStep, PTL DEF BindSpec

\* A caller that goes on with a result has the answer to its own request, for any number of
\* callers and any number of late answers (esp_zb_req_gen.h:6).
THEOREM AnswersAreOwn == BindSpec => []OwnAnswer
<1>1. BindInv => OwnAnswer
  BY DEF BindInv, WokenInv, OwnAnswer
<1> QED
  BY <1>1, BindInvInit, BindInvStep, PTL DEF BindSpec

-----------------------------------------------------------------------------
(* What an interview reads.                                                  *)

\* Between two devices nothing is read: whose answer is still being written makes no odds.
Between == phase = "idle" \/ (phase = "node" /\ at = "ask")

Open == phase \in Kind /\ at \in {"wait", "expire"}

\* The slot an answer of this kind is read from.
Filled(k) == IF k = "eps" THEN slots["count"] = who /\ slots["list"] = who ELSE slots[k] = who

ReadTypes ==
    /\ who \in Target \cup {NoOne} /\ phase \in Kind \cup {"idle", "basic", "merge"}
    /\ at \in {"ask", "wait", "expire", "use", "list", "fail", "guess"} /\ reads \in 0..Reads
    /\ gens \in Gens /\ {post, fine, woken, basicPost} \subseteq BOOLEAN
    /\ slots \in [Parts \ {"ident"} -> Whose]
    /\ late \subseteq [gen : Gens \ {0}, kind : Kind, dev : Target]
    /\ hook \in [at : {"none", "check", "count", "write", "post"}, kind : Kind, gen : Gens,
                  dev : Target \cup {NoOne}, ok : BOOLEAN]
    /\ armed \in Target \cup {NoOne} /\ basicBuf \in Target \cup {NoOne}
    /\ copy \in [Parts -> Whose]

\* Only the request that is waited for has the generation there is now; an answer that was
\* found to have it is of this device, and if it has it no longer nobody waits, for to ask
\* anew takes the lock the callback holds.
AskedInv ==
    /\ \A r \in late : r.gen = gens => Open /\ r.kind = phase /\ r.dev = who
    /\ hook.at # "none" /\ hook.gen = gens /\ hook.gen > 0 => Open /\ hook.kind = phase /\ hook.dev = who
    /\ hook.at = "check" => hook.gen > 0
    /\ hook.at \in {"count", "write", "post"} => hook.dev = who \/ Between
    /\ hook.at \in {"count", "write", "post"} /\ hook.gen > 0 /\ hook.gen # gens => ~Open
    /\ hook.at = "count" => hook.kind = "eps" /\ hook.gen > 0

\* An answer that is there, or that the worker goes on with, lies in the slot whole.
SlotInv ==
    /\ hook.at = "write" /\ hook.kind = "eps" /\ hook.gen > 0 /\ hook.gen = gens => slots["count"] = who
    /\ hook.at = "post" /\ hook.gen > 0 /\ hook.gen = gens /\ hook.ok => Filled(phase)
    /\ Open /\ fine => Filled(phase)
    /\ phase \in {"node", "simple"} /\ at = "use" => slots[phase] = who
    /\ phase = "eps" /\ at \in {"guess", "use", "list"} => slots["count"] \in {Guess, who}
    /\ phase = "eps" /\ at \in {"use", "list"} => slots["list"] \in {Guess, who}

\* The sniffer is armed for the device that is read, and what it took is that device's.
SniffInv ==
    /\ armed # NoOne => phase = "basic" /\ at \in {"guess", "wait"} /\ armed = who
    /\ phase = "basic" /\ at # "ask" => basicBuf \in {NoOne, who}

CopyInv ==
    /\ {copy["node"], copy["simple"], copy["ident"]} \subseteq {NoOne, who}
    /\ phase \in {"simple", "basic", "merge"} => {copy["count"], copy["list"]} \subseteq {Guess, who}
    /\ phase = "eps" /\ at = "list" => copy["count"] \in {Guess, who}
    /\ phase = "idle" => copy = Unread
    /\ phase # "idle" => who \in Target

ReadInv == ReadTypes /\ AskedInv /\ SlotInv /\ SniffInv /\ CopyInv

LEMMA NextGensType == ASSUME ReadTypes PROVE NextGens \in Gens \ {0}
<1>1. MaxGens \in Nat \ {0} /\ gens \in 0..MaxGens
  BY ReadingAssumption DEF ReadTypes, Gens
<1>2. gens % MaxGens \in 0..(MaxGens - 1)
  BY <1>1
<1> QED BY <1>1, <1>2 DEF NextGens, Gens

\* The types.
LEMMA ReadTypesStep == ReadInv /\ [ReadNext]_readVars => ReadTypes'
<1> SUFFICES ASSUME ReadInv, [ReadNext]_readVars PROVE ReadTypes'
  OBVIOUS
<1> USE DEF ReadInv, ReadTypes, Whose, Parts, Unread, Step, stepVars, basicVars, Kind, NoHook
<1>0. NextGens \in Gens \ {0}
  BY NextGensType
<1>1. ASSUME NEW d \in Target, Begin(d) PROVE ReadTypes'
  BY <1>1, ReadingAssumption DEF Begin
<1>2. ASSUME NEW d \in Target, BasicFrame(d) PROVE ReadTypes'
  BY <1>2, ReadingAssumption DEF BasicFrame, Sniffed
<1>3. CASE Ask
  <2>1. CASE late' = {r \in late : r.gen # NextGens} \cup {[gen |-> NextGens, kind |-> phase, dev |-> who]}
    <3>1. phase \in Kind /\ who \in Target
      BY <1>3 DEF Ask, CopyInv
    <3>2. late' \subseteq [gen : Gens \ {0}, kind : Kind, dev : Target]
      BY <1>0, <2>1, <3>1
    <3> QED BY <1>0, <1>3, <3>2 DEF Ask
  <2>2. CASE late' = {r \in late : r.gen # NextGens}
    BY <1>0, <1>3, <2>2 DEF Ask
  <2> QED BY <1>3, <2>1, <2>2 DEF Ask
<1>4. CASE Wait
  BY <1>4, ReadingAssumption DEF Wait
<1>5. CASE ExpireStep
  BY <1>0, <1>5, ReadingAssumption DEF ExpireStep
<1>6. CASE Descriptor
  BY <1>6, ReadingAssumption DEF Descriptor
<1>7. CASE GuessCount
  BY <1>7, ReadingAssumption DEF GuessCount
<1>8. CASE GuessList
  BY <1>8, ReadingAssumption DEF GuessList
<1>9. CASE CopyCount
  BY <1>9, ReadingAssumption DEF CopyCount
<1>10. CASE CopyList
  BY <1>10, ReadingAssumption DEF CopyList
<1>11. CASE Arm
  <2>1. reads + 1 \in 0..Reads /\ who \in Target \cup {NoOne}
    BY <1>11, ReadingAssumption DEF Arm
  <2> QED BY <1>11, <2>1 DEF Arm
<1>12. CASE SendBasic
  BY <1>12, ReadingAssumption DEF SendBasic
<1>13. CASE WaitBasic
  BY <1>13, ReadingAssumption DEF WaitBasic
<1>14. CASE ParseBasic
  BY <1>14, ReadingAssumption DEF ParseBasic
<1>15. CASE Merge_read
  BY <1>15, ReadingAssumption DEF Merge_read
<1>16. CASE CheckGen
  <2>1. PICK a \in {"post", "count", "write"} : hook' = NoHook \/ hook' = [hook EXCEPT !.at = a]
    BY <1>16 DEF CheckGen
  <2>2. NoHook \in [at : {"none", "check", "count", "write", "post"}, kind : Kind, gen : Gens,
                   dev : Target \cup {NoOne}, ok : BOOLEAN]
    BY ReadingAssumption DEF Gens
  <2>3. hook' \in [at : {"none", "check", "count", "write", "post"}, kind : Kind, gen : Gens,
                  dev : Target \cup {NoOne}, ok : BOOLEAN]
    BY <2>1, <2>2
  <2> QED BY <1>16, <2>3 DEF CheckGen
<1>17. CASE WriteCount
  BY <1>17, ReadingAssumption DEF WriteCount
<1>18. CASE WriteAnswer
  BY <1>18, ReadingAssumption DEF WriteAnswer
<1>19. CASE StepDone
  <2>1. hook.ok \in BOOLEAN /\ 0 \in Gens
    BY ReadingAssumption DEF Gens
  <2>2. fine' \in BOOLEAN /\ post' \in BOOLEAN /\ hook' = NoHook
    BY <1>19, <2>1 DEF StepDone
  <2> QED BY <1>19, <2>1, <2>2 DEF StepDone
<1>20. CASE CopyFrame
  BY <1>20, ReadingAssumption DEF CopyFrame
<1>21. CASE PostFrame
  BY <1>21, ReadingAssumption DEF PostFrame
<1>22. ASSUME NEW r \in late, NEW ok \in BOOLEAN, Callback_zdo(r, ok) PROVE ReadTypes'
  BY <1>22, ReadingAssumption DEF Callback_zdo
<1>23. CASE UNCHANGED readVars
  BY <1>23 DEF readVars
<1> QED
  BY <1>1, <1>2, <1>3, <1>4, <1>5, <1>6, <1>7, <1>8, <1>9, <1>10, <1>11,
     <1>12, <1>13, <1>14, <1>15, <1>16, <1>17, <1>18, <1>19, <1>20, <1>21, <1>22, <1>23 DEF ReadNext, Reader, HookSteps

\* Whose answers are under way.
LEMMA AskedStep == ReadInv /\ [ReadNext]_readVars => AskedInv'
<1> SUFFICES ASSUME ReadInv, [ReadNext]_readVars PROVE AskedInv'
  OBVIOUS
<1> USE DEF ReadInv, ReadTypes, AskedInv, Open, Between, Step, stepVars, basicVars, Kind, NoHook
<1>0. NextGens \in Gens \ {0}
  BY NextGensType
<1>1. ASSUME NEW d \in Target, Begin(d) PROVE AskedInv'
  BY <1>1, ReadingAssumption DEF Begin
<1>2. ASSUME NEW d \in Target, BasicFrame(d) PROVE AskedInv'
  <2>1. d = who
    BY <1>2, ReadingAssumption DEF BasicFrame, Sniffed, SniffInv
  <2> QED BY <1>2, <2>1 DEF BasicFrame
<1>3. CASE Ask
  BY <1>0, <1>3, ReadingAssumption DEF Ask
<1>4. CASE Wait
  BY <1>4, ReadingAssumption DEF Wait
<1>5. CASE ExpireStep
  BY <1>0, <1>5, ReadingAssumption DEF ExpireStep
<1>6. CASE Descriptor
  BY <1>6, ReadingAssumption DEF Descriptor
<1>7. CASE GuessCount
  BY <1>7, ReadingAssumption DEF GuessCount
<1>8. CASE GuessList
  BY <1>8, ReadingAssumption DEF GuessList
<1>9. CASE CopyCount
  BY <1>9, ReadingAssumption DEF CopyCount
<1>10. CASE CopyList
  BY <1>10, ReadingAssumption DEF CopyList
<1>11. CASE Arm
  BY <1>11, ReadingAssumption DEF Arm
<1>12. CASE SendBasic
  BY <1>12, ReadingAssumption DEF SendBasic
<1>13. CASE WaitBasic
  BY <1>13, ReadingAssumption DEF WaitBasic
<1>14. CASE ParseBasic
  BY <1>14, ReadingAssumption DEF ParseBasic
<1>15. CASE Merge_read
  BY <1>15, ReadingAssumption DEF Merge_read
<1>16. CASE CheckGen
  BY <1>16, ReadingAssumption DEF CheckGen, StepCurrent
<1>17. CASE WriteCount
  BY <1>17, ReadingAssumption DEF WriteCount
<1>18. CASE WriteAnswer
  BY <1>18, ReadingAssumption DEF WriteAnswer
<1>19. CASE StepDone
  BY <1>19, ReadingAssumption DEF StepDone
<1>20. CASE CopyFrame
  BY <1>20, ReadingAssumption DEF CopyFrame
<1>21. CASE PostFrame
  BY <1>21, ReadingAssumption DEF PostFrame
<1>22. ASSUME NEW r \in late, NEW ok \in BOOLEAN, Callback_zdo(r, ok) PROVE AskedInv'
  <2>1. r \in late /\ r.gen \in Gens \ {0} /\ late' = late \ {r}
    BY <1>22 DEF Callback_zdo
  <2>2. hook'.at = "check" /\ hook'.gen = r.gen /\ hook'.kind = r.kind /\ hook'.dev = r.dev
    BY <1>22 DEF Callback_zdo
  <2>3. r.gen > 0
    BY <2>1, ReadingAssumption DEF Gens
  <2> QED BY <1>22, <2>1, <2>2, <2>3 DEF Callback_zdo
<1>23. CASE UNCHANGED readVars
  BY <1>23 DEF readVars
<1> QED
  BY <1>1, <1>2, <1>3, <1>4, <1>5, <1>6, <1>7, <1>8, <1>9, <1>10, <1>11,
     <1>12, <1>13, <1>14, <1>15, <1>16, <1>17, <1>18, <1>19, <1>20, <1>21, <1>22, <1>23 DEF ReadNext, Reader, HookSteps

\* What the slots hold.
LEMMA SlotStep == ReadInv /\ [ReadNext]_readVars => SlotInv'
<1> SUFFICES ASSUME ReadInv, [ReadNext]_readVars PROVE SlotInv'
  OBVIOUS
<1> USE DEF ReadInv, ReadTypes, AskedInv, SlotInv, Open, Between, Filled, Parts, Whose, Step, stepVars, basicVars, Kind, NoHook
<1>0. NextGens \in Gens \ {0}
  BY NextGensType
<1>1. ASSUME NEW d \in Target, Begin(d) PROVE SlotInv'
  BY <1>1, ReadingAssumption DEF Begin
<1>2. ASSUME NEW d \in Target, BasicFrame(d) PROVE SlotInv'
  BY <1>2, ReadingAssumption DEF BasicFrame, Sniffed
<1>3. CASE Ask
  BY <1>0, <1>3, ReadingAssumption DEF Ask
<1>4. CASE Wait
  BY <1>4, ReadingAssumption DEF Wait
<1>5. CASE ExpireStep
  BY <1>0, <1>5, ReadingAssumption DEF ExpireStep
<1>6. CASE Descriptor
  BY <1>6, ReadingAssumption DEF Descriptor
<1>7. CASE GuessCount
  BY <1>7, ReadingAssumption DEF GuessCount
<1>8. CASE GuessList
  BY <1>8, ReadingAssumption DEF GuessList
<1>9. CASE CopyCount
  BY <1>9, ReadingAssumption DEF CopyCount
<1>10. CASE CopyList
  BY <1>10, ReadingAssumption DEF CopyList
<1>11. CASE Arm
  BY <1>11, ReadingAssumption DEF Arm
<1>12. CASE SendBasic
  BY <1>12, ReadingAssumption DEF SendBasic
<1>13. CASE WaitBasic
  BY <1>13, ReadingAssumption DEF WaitBasic
<1>14. CASE ParseBasic
  BY <1>14, ReadingAssumption DEF ParseBasic
<1>15. CASE Merge_read
  BY <1>15, ReadingAssumption DEF Merge_read
<1>16. CASE CheckGen
  BY <1>16, ReadingAssumption DEF CheckGen, StepCurrent
<1>17. CASE WriteCount
  BY <1>17, ReadingAssumption DEF WriteCount
<1>18. CASE WriteAnswer
  BY <1>18, ReadingAssumption DEF WriteAnswer
<1>19. CASE StepDone
  BY <1>19, ReadingAssumption DEF StepDone
<1>20. CASE CopyFrame
  BY <1>20, ReadingAssumption DEF CopyFrame
<1>21. CASE PostFrame
  BY <1>21, ReadingAssumption DEF PostFrame
<1>22. ASSUME NEW r \in late, NEW ok \in BOOLEAN, Callback_zdo(r, ok) PROVE SlotInv'
  BY <1>22, ReadingAssumption DEF Callback_zdo
<1>23. CASE UNCHANGED readVars
  BY <1>23 DEF readVars
<1> QED
  BY <1>1, <1>2, <1>3, <1>4, <1>5, <1>6, <1>7, <1>8, <1>9, <1>10, <1>11,
     <1>12, <1>13, <1>14, <1>15, <1>16, <1>17, <1>18, <1>19, <1>20, <1>21, <1>22, <1>23 DEF ReadNext, Reader, HookSteps

\* What the sniffer took.
LEMMA SniffStep == ReadInv /\ [ReadNext]_readVars => SniffInv'
<1> SUFFICES ASSUME ReadInv, [ReadNext]_readVars PROVE SniffInv'
  OBVIOUS
<1> USE DEF ReadInv, ReadTypes, AskedInv, SniffInv, CopyInv, Between, Step, stepVars, basicVars, Kind, NoHook
<1>0. NextGens \in Gens \ {0}
  BY NextGensType
<1>1. ASSUME NEW d \in Target, Begin(d) PROVE SniffInv'
  BY <1>1, ReadingAssumption DEF Begin
<1>2. ASSUME NEW d \in Target, BasicFrame(d) PROVE SniffInv'
  BY <1>2, ReadingAssumption DEF BasicFrame, Sniffed
<1>3. CASE Ask
  BY <1>0, <1>3, ReadingAssumption DEF Ask
<1>4. CASE Wait
  BY <1>4, ReadingAssumption DEF Wait
<1>5. CASE ExpireStep
  BY <1>0, <1>5, ReadingAssumption DEF ExpireStep
<1>6. CASE Descriptor
  BY <1>6, ReadingAssumption DEF Descriptor
<1>7. CASE GuessCount
  BY <1>7, ReadingAssumption DEF GuessCount
<1>8. CASE GuessList
  BY <1>8, ReadingAssumption DEF GuessList
<1>9. CASE CopyCount
  BY <1>9, ReadingAssumption DEF CopyCount
<1>10. CASE CopyList
  BY <1>10, ReadingAssumption DEF CopyList
<1>11. CASE Arm
  BY <1>11, ReadingAssumption DEF Arm
<1>12. CASE SendBasic
  BY <1>12, ReadingAssumption DEF SendBasic
<1>13. CASE WaitBasic
  BY <1>13, ReadingAssumption DEF WaitBasic
<1>14. CASE ParseBasic
  BY <1>14, ReadingAssumption DEF ParseBasic
<1>15. CASE Merge_read
  BY <1>15, ReadingAssumption DEF Merge_read
<1>16. CASE CheckGen
  BY <1>16, ReadingAssumption DEF CheckGen, StepCurrent
<1>17. CASE WriteCount
  BY <1>17, ReadingAssumption DEF WriteCount
<1>18. CASE WriteAnswer
  BY <1>18, ReadingAssumption DEF WriteAnswer
<1>19. CASE StepDone
  BY <1>19, ReadingAssumption DEF StepDone
<1>20. CASE CopyFrame
  BY <1>20, ReadingAssumption DEF CopyFrame
<1>21. CASE PostFrame
  BY <1>21, ReadingAssumption DEF PostFrame
<1>22. ASSUME NEW r \in late, NEW ok \in BOOLEAN, Callback_zdo(r, ok) PROVE SniffInv'
  BY <1>22, ReadingAssumption DEF Callback_zdo
<1>23. CASE UNCHANGED readVars
  BY <1>23 DEF readVars
<1> QED
  BY <1>1, <1>2, <1>3, <1>4, <1>5, <1>6, <1>7, <1>8, <1>9, <1>10, <1>11,
     <1>12, <1>13, <1>14, <1>15, <1>16, <1>17, <1>18, <1>19, <1>20, <1>21, <1>22, <1>23 DEF ReadNext, Reader, HookSteps

\* What the worker copied.
LEMMA CopyStep == ReadInv /\ [ReadNext]_readVars => CopyInv'
<1> SUFFICES ASSUME ReadInv, [ReadNext]_readVars PROVE CopyInv'
  OBVIOUS
<1> USE DEF ReadInv, ReadTypes, SlotInv, SniffInv, CopyInv, Unread, Parts, Whose, Step, stepVars, basicVars, Kind, NoHook
<1>0. NextGens \in Gens \ {0}
  BY NextGensType
<1>1. ASSUME NEW d \in Target, Begin(d) PROVE CopyInv'
  BY <1>1, ReadingAssumption DEF Begin
<1>2. ASSUME NEW d \in Target, BasicFrame(d) PROVE CopyInv'
  BY <1>2, ReadingAssumption DEF BasicFrame, Sniffed
<1>3. CASE Ask
  BY <1>0, <1>3, ReadingAssumption DEF Ask
<1>4. CASE Wait
  BY <1>4, ReadingAssumption DEF Wait
<1>5. CASE ExpireStep
  BY <1>0, <1>5, ReadingAssumption DEF ExpireStep
<1>6. CASE Descriptor
  BY <1>6, ReadingAssumption DEF Descriptor
<1>7. CASE GuessCount
  BY <1>7, ReadingAssumption DEF GuessCount
<1>8. CASE GuessList
  BY <1>8, ReadingAssumption DEF GuessList
<1>9. CASE CopyCount
  BY <1>9, ReadingAssumption DEF CopyCount
<1>10. CASE CopyList
  BY <1>10, ReadingAssumption DEF CopyList
<1>11. CASE Arm
  BY <1>11, ReadingAssumption DEF Arm
<1>12. CASE SendBasic
  BY <1>12, ReadingAssumption DEF SendBasic
<1>13. CASE WaitBasic
  BY <1>13, ReadingAssumption DEF WaitBasic
<1>14. CASE ParseBasic
  BY <1>14, ReadingAssumption DEF ParseBasic
<1>15. CASE Merge_read
  BY <1>15, ReadingAssumption DEF Merge_read
<1>16. CASE CheckGen
  BY <1>16, ReadingAssumption DEF CheckGen, StepCurrent
<1>17. CASE WriteCount
  BY <1>17, ReadingAssumption DEF WriteCount
<1>18. CASE WriteAnswer
  BY <1>18, ReadingAssumption DEF WriteAnswer
<1>19. CASE StepDone
  BY <1>19, ReadingAssumption DEF StepDone
<1>20. CASE CopyFrame
  BY <1>20, ReadingAssumption DEF CopyFrame
<1>21. CASE PostFrame
  BY <1>21, ReadingAssumption DEF PostFrame
<1>22. ASSUME NEW r \in late, NEW ok \in BOOLEAN, Callback_zdo(r, ok) PROVE CopyInv'
  BY <1>22, ReadingAssumption DEF Callback_zdo
<1>23. CASE UNCHANGED readVars
  BY <1>23 DEF readVars
<1> QED
  BY <1>1, <1>2, <1>3, <1>4, <1>5, <1>6, <1>7, <1>8, <1>9, <1>10, <1>11,
     <1>12, <1>13, <1>14, <1>15, <1>16, <1>17, <1>18, <1>19, <1>20, <1>21, <1>22, <1>23 DEF ReadNext, Reader, HookSteps

\* An interview takes from the result slot and the Basic buffer what its own device answered,
\* for any number of devices and requests, however late the answers come (esp_zb_req_gen.h:6).
THEOREM ReadsAreOwn == ReadSpec => []OwnIdentity
<1>1. ReadInit => ReadInv
  <2> SUFFICES ASSUME ReadInit PROVE ReadInv
    OBVIOUS
  <2>1. 0 \in 0..Reads /\ 0 \in Gens
    BY ReadingAssumption DEF Gens
  <2>2. ReadTypes
    BY <2>1 DEF ReadInit, ReadTypes, Unread, Parts, Whose, Kind, NoHook
  <2>3. AskedInv /\ SlotInv
    BY DEF ReadInit, AskedInv, SlotInv, Open, Kind, NoHook
  <2>4. SniffInv /\ CopyInv
    BY DEF ReadInit, SniffInv, CopyInv, Unread, Parts
  <2> QED BY <2>2, <2>3, <2>4 DEF ReadInv
<1>2. ReadInv /\ [ReadNext]_readVars => ReadInv'
  BY ReadTypesStep, AskedStep, SlotStep, SniffStep, CopyStep DEF ReadInv
<1>3. ReadInv => OwnIdentity
  BY DEF ReadInv, CopyInv, OwnIdentity
<1> QED BY <1>1, <1>2, <1>3, PTL DEF ReadSpec

-----------------------------------------------------------------------------
(* The network map: whose answer a page is, and whom the walk has asked.     *)

\* A token in flight is the last one drawn, and only between its draw and the end of its
\* ask; a good page is the answer to it.
TokenInv ==
    /\ tokens \in 0..MaxToken /\ 0 \notin asked
    /\ stage \in {"send", "wait", "use", "fail"} => tokens # 0
    /\ token # 0 => token = tokens /\ stage \in {"send", "wait", "fail"}
    /\ page.ok => token = 0 /\ page.tok = tokens /\ stage \in {"send", "wait", "use", "fail"}
    /\ stage = "use" => page.ok

LEMMA TokenInvInit == NetInit => TokenInv
  BY NetMapAssumption DEF NetInit, TokenInv, Blank

LEMMA TokenInvStep == TokenInv /\ [NetNext]_netVars => TokenInv'
<1> SUFFICES ASSUME TokenInv, [NetNext]_netVars PROVE TokenInv'
  OBVIOUS
<1> USE DEF TokenInv
<1>1. CASE StartScan
  BY <1>1 DEF StartScan, flight
<1>2. CASE BeginScan
  BY <1>2 DEF BeginScan, flight
<1>3. CASE NoScan
  BY <1>3 DEF NoScan, Finish, flight
<1>4. CASE NextAsk
  <2>1. stage' # "use"
    BY <1>4 DEF NextAsk
  <2> QED BY <1>4, <2>1 DEF NextAsk, flight
<1>5. CASE NewToken
  <2>1. NextToken \in 0..MaxToken /\ NextToken # 0
    BY NetMapAssumption DEF NextToken
  <2> QED BY <1>5, <2>1 DEF NewToken
<1>6. CASE SendAsk
  BY <1>6 DEF SendAsk
<1>7. CASE WakeUp
  BY <1>7 DEF WakeUp
<1>8. CASE AskTimeout
  BY <1>8 DEF AskTimeout, flight
<1>9. CASE UsePage
  BY <1>9 DEF UsePage, Blank
<1>10. CASE GiveUpAsk
  BY <1>10, NetMapAssumption DEF GiveUpAsk, Blank
<1>11. CASE Build
  BY <1>11 DEF Build, Finish, flight
<1>12. CASE AnswerPage
  <2>1. PICK tok \in asked, ok \in BOOLEAN : Copy(tok, [tok |-> tok, ok |-> ok])
    BY <1>12 DEF AnswerPage
  <2>2. CASE Mine(tok)
    BY <2>1, <2>2 DEF Copy, Mine
  <2>3. CASE ~Mine(tok)
    BY <2>1, <2>3 DEF Copy
  <2> QED BY <2>1, <2>2, <2>3
<1>13. CASE Notify
  BY <1>13 DEF Notify
<1>14. CASE UNCHANGED netVars
  BY <1>14 DEF netVars
<1> QED
  BY <1>1, <1>2, <1>3, <1>4, <1>5, <1>6, <1>7, <1>8, <1>9, <1>10, <1>11, <1>12, <1>13, <1>14
  DEF NetNext, Worker

-----------------------------------------------------------------------------
(* The walk itself.                                                          *)

Walks ==
    [nodes : SUBSET Dev, failed : SUBSET Dev, links : SUBSET (Dev \X Dev), queue : Seq(Dev),
     head : Nat, pages : Nat, tries : Nat, fallback : BOOLEAN, cut : BOOLEAN,
     known : SUBSET Dev, listed : SUBSET Dev, heard : SUBSET Dev, silent : SUBSET Dev]

\* What reading a table or adding routers may do to a walk: the queue only grows at its
\* end, and each router listed anew is in it, or the map is cut short.
Grows(w, v) ==
    /\ w \in Walks /\ v \in Walks
    /\ v.head = w.head /\ v.heard = w.heard /\ v.silent = w.silent /\ v.known = w.known
    /\ Len(w.queue) <= Len(v.queue)
    /\ \A i \in 1..Len(w.queue) : v.queue[i] = w.queue[i]
    /\ w.cut => v.cut
    /\ v.cut \/ v.listed \ (w.listed \cup {Coord}) \subseteq ToSet(v.queue)

LEMMA KeepsQueued ==
    ASSUME NEW w, NEW v, Grows(w, v)
    PROVE  ToSet(w.queue) \subseteq ToSet(v.queue)
<1>1. w.queue \in Seq(Dev) /\ v.queue \in Seq(Dev)
  BY DEF Grows, Walks
<1>2. \A i \in 1..Len(w.queue) : i \in 1..Len(v.queue) /\ v.queue[i] = w.queue[i]
  BY <1>1 DEF Grows
<1> QED BY <1>1, <1>2 DEF ToSet

LEMMA GrowsOn ==
    ASSUME NEW u, NEW v, NEW w, Grows(u, v), Grows(v, w)
    PROVE  Grows(u, w)
<1>1. ToSet(v.queue) \subseteq ToSet(w.queue)
  BY KeepsQueued
<1>2. u.queue \in Seq(Dev) /\ v.queue \in Seq(Dev) /\ w.queue \in Seq(Dev)
  BY DEF Grows, Walks
<1>3. Len(u.queue) <= Len(w.queue)
  BY <1>2 DEF Grows
<1>4. \A i \in 1..Len(u.queue) : w.queue[i] = u.queue[i]
  <2> TAKE i \in 1..Len(u.queue)
  <2>1. i \in 1..Len(v.queue)
    BY <1>2 DEF Grows
  <2> QED BY <2>1 DEF Grows
<1> QED BY <1>1, <1>3, <1>4 DEF Grows

LEMMA GrowsSelf == ASSUME NEW w \in Walks PROVE Grows(w, w)
<1>1. w.queue \in Seq(Dev)
  BY DEF Walks
<1> QED BY <1>1 DEF Grows

\* enqueue: the router is in the queue, unless the map is cut short.
LEMMA EnqueueGrows ==
    ASSUME NEW w \in Walks, NEW d \in Dev
    PROVE  /\ Grows(w, Enqueue(w, d))
           /\ d # Coord => Enqueue(w, d).cut \/ d \in ToSet(Enqueue(w, d).queue)
           /\ Enqueue(w, d).listed = w.listed
<1> DEFINE v == Enqueue(w, d)
<1>1. w.queue \in Seq(Dev)
  BY DEF Walks
<1>2. CASE d = Coord \/ d \in ToSet(w.queue)
  BY <1>2, GrowsSelf DEF Enqueue
<1>3. CASE ~(d = Coord \/ d \in ToSet(w.queue)) /\ Len(w.queue) = MaxRouters
  <2>1. v = [w EXCEPT !.cut = TRUE]
    BY <1>3 DEF Enqueue
  <2>2. v \in Walks /\ v.cut /\ v.queue = w.queue /\ v.listed = w.listed
    BY <2>1 DEF Walks
  <2>3. v.head = w.head /\ v.heard = w.heard /\ v.silent = w.silent /\ v.known = w.known
    BY <2>1 DEF Walks
  <2> QED BY <1>1, <2>2, <2>3 DEF Grows
<1>4. CASE ~(d = Coord \/ d \in ToSet(w.queue)) /\ Len(w.queue) # MaxRouters
  <2>1. v = [w EXCEPT !.queue = Append(@, d)]
    BY <1>4 DEF Enqueue
  <2>2. v.queue = Append(w.queue, d) /\ v.cut = w.cut /\ v.listed = w.listed
    BY <2>1 DEF Walks
  <2>3. v.head = w.head /\ v.heard = w.heard /\ v.silent = w.silent /\ v.known = w.known
    BY <2>1 DEF Walks
  <2>4. Append(w.queue, d) \in Seq(Dev)
    BY <1>1
  <2>5. v \in Walks
    BY <2>1, <2>4 DEF Walks
  <2>6. /\ Len(v.queue) = Len(w.queue) + 1 /\ v.queue[Len(w.queue) + 1] = d
        /\ \A i \in 1..Len(w.queue) : v.queue[i] = w.queue[i]
    BY <1>1, <2>2
  <2>7. d \in ToSet(v.queue)
    BY <1>1, <2>2, <2>4, <2>6 DEF ToSet
  <2>8. Len(w.queue) <= Len(v.queue)
    BY <1>1, <2>6
  <2> HIDE DEF v
  <2>9. Grows(w, v)
    BY <2>2, <2>3, <2>5, <2>6, <2>8 DEF Grows
  <2> QED BY <2>2, <2>7, <2>9 DEF v
<1> QED BY <1>2, <1>3, <1>4

\* add_node only adds to the map.
LEMMA AddNodeGrows ==
    ASSUME NEW w \in Walks, NEW d \in Dev
    PROVE  /\ Grows(w, AddNode(w, d)) /\ AddNode(w, d).queue = w.queue
           /\ AddNode(w, d).listed = w.listed
           /\ d \in AddNode(w, d).nodes \/ AddNode(w, d).cut
<1> DEFINE v == AddNode(w, d)
<1>1. w.queue \in Seq(Dev)
  BY DEF Walks
<1>2. CASE d \in w.nodes
  BY <1>2, GrowsSelf DEF AddNode
<1>3. CASE d \notin w.nodes /\ Cardinality(w.nodes) = MaxNodes
  <2>1. v = [w EXCEPT !.cut = TRUE]
    BY <1>3 DEF AddNode
  <2>2. v \in Walks /\ v.cut /\ v.queue = w.queue /\ v.listed = w.listed
    BY <2>1 DEF Walks
  <2>3. v.head = w.head /\ v.heard = w.heard /\ v.silent = w.silent /\ v.known = w.known
    BY <2>1 DEF Walks
  <2> QED BY <1>1, <2>2, <2>3 DEF Grows
<1>4. CASE d \notin w.nodes /\ Cardinality(w.nodes) # MaxNodes
  <2>1. v = [w EXCEPT !.nodes = @ \cup {d}]
    BY <1>4 DEF AddNode
  <2>2. v \in Walks /\ d \in v.nodes /\ v.queue = w.queue /\ v.listed = w.listed /\ v.cut = w.cut
    BY <2>1 DEF Walks
  <2>3. v.head = w.head /\ v.heard = w.heard /\ v.silent = w.silent /\ v.known = w.known
    BY <2>1 DEF Walks
  <2> QED BY <1>1, <2>2, <2>3 DEF Grows
<1> QED BY <1>2, <1>3, <1>4

\* add_record: a router that a record lists is in the queue, or the map is cut short.
LEMMA AddRecordGrows ==
    ASSUME NEW w \in Walks, NEW src \in Dev, NEW r \in Record
    PROVE  Grows(w, AddRecord(w, src, r))
<1> DEFINE w1 == AddNode(w, r.dst)
           w2 == [w1 EXCEPT !.links = @ \cup {<<src, r.dst>>},
                            !.listed = IF r.router THEN @ \cup {r.dst} ELSE @]
<1>1. r.dst \in Dev /\ r.router \in BOOLEAN
  BY DEF Record
<1>2. Grows(w, w1) /\ w1 \in Walks
  BY <1>1, AddNodeGrows DEF Grows
<1>3. /\ w2 \in Walks /\ w2.queue = w1.queue /\ w2.cut = w1.cut
      /\ w2.listed = IF r.router THEN w1.listed \cup {r.dst} ELSE w1.listed
      /\ w2.head = w1.head /\ w2.heard = w1.heard /\ w2.silent = w1.silent /\ w2.known = w1.known
  <2> HIDE DEF w1
  <2> DEFINE lk == w1.links \cup {<<src, r.dst>>}
             ls == IF r.router THEN w1.listed \cup {r.dst} ELSE w1.listed
  <2>1. lk \in SUBSET (Dev \X Dev) /\ ls \in SUBSET Dev
    BY <1>1, <1>2 DEF Walks
  <2>2. w2 = [w1 EXCEPT !.links = lk, !.listed = ls]
    BY <1>2 DEF Walks
  <2> HIDE DEF w2, lk, ls
  <2>3. w2 \in Walks /\ w2.listed = ls
    BY <1>2, <2>1, <2>2 DEF Walks
  <2>4. /\ w2.queue = w1.queue /\ w2.cut = w1.cut /\ w2.head = w1.head
        /\ w2.heard = w1.heard /\ w2.silent = w1.silent /\ w2.known = w1.known
    BY <1>2, <2>2 DEF Walks
  <2> QED BY <2>3, <2>4 DEF ls
<1>4. w1.queue \in Seq(Dev)
  BY <1>2 DEF Walks
<1>5. CASE r.dst = src
  BY <1>5, GrowsSelf DEF AddRecord
<1>6. CASE r.dst # src /\ (r.dst \notin w1.nodes \/ <<src, r.dst>> \in w1.links)
  BY <1>2, <1>6 DEF AddRecord
<1>7. CASE /\ r.dst # src /\ ~(r.dst \notin w1.nodes \/ <<src, r.dst>> \in w1.links)
           /\ Cardinality(w1.links) = MaxLinks
  <2> DEFINE v == [w1 EXCEPT !.cut = TRUE]
  <2>1. AddRecord(w, src, r) = v
    BY <1>7 DEF AddRecord
  <2>2. /\ v \in Walks /\ v.cut /\ v.queue = w1.queue /\ v.head = w1.head
        /\ v.heard = w1.heard /\ v.silent = w1.silent /\ v.known = w1.known
    <3> HIDE DEF w1
    <3> QED BY <1>2 DEF Walks
  <2>3. Grows(w1, v)
    <3> HIDE DEF w1, v
    <3> QED BY <1>2, <1>4, <2>2 DEF Grows
  <2> QED BY <1>2, <2>1, <2>3, GrowsOn
<1>8. CASE /\ r.dst # src /\ ~(r.dst \notin w1.nodes \/ <<src, r.dst>> \in w1.links)
           /\ Cardinality(w1.links) # MaxLinks /\ r.router
  <2> DEFINE v == Enqueue(w2, r.dst)
  <2>1. AddRecord(w, src, r) = v
    BY <1>8 DEF AddRecord
  <2>2. /\ Grows(w2, v) /\ v.listed = w2.listed
        /\ r.dst # Coord => v.cut \/ r.dst \in ToSet(v.queue)
    <3> HIDE DEF w2
    <3> QED BY <1>1, <1>3, EnqueueGrows
  <2>3. Grows(w1, v)
    <3> HIDE DEF w1, w2, v
    <3>1. v.listed \ (w1.listed \cup {Coord}) \subseteq {r.dst} \ {Coord}
      BY <1>3, <1>8, <2>2
    <3> QED BY <1>2, <1>3, <2>2, <3>1 DEF Grows
  <2> QED BY <1>2, <2>1, <2>3, GrowsOn
<1>9. CASE /\ r.dst # src /\ ~(r.dst \notin w1.nodes \/ <<src, r.dst>> \in w1.links)
           /\ Cardinality(w1.links) # MaxLinks /\ ~r.router
  <2>1. AddRecord(w, src, r) = w2
    BY <1>9 DEF AddRecord
  <2>2. Grows(w1, w2)
    <3> HIDE DEF w1, w2
    <3> QED BY <1>2, <1>3, <1>4, <1>9 DEF Grows
  <2> QED BY <1>2, <2>1, <2>2, GrowsOn
<1> QED BY <1>5, <1>6, <1>7, <1>8, <1>9

LEMMA LeastOf ==
    ASSUME NEW S \in SUBSET Nat, S # {}
    PROVE  \E x \in S : \A y \in S : x <= y
<1>1. PICK x \in S : \A y \in S : ~(<<y, x>> \in OpToRel(<, Nat))
  BY NatLessThanWellFounded, WFMin
<1>2. \A y \in S : ~(y < x)
  BY <1>1 DEF OpToRel
<1> QED BY <1>2

\* Record after record: the walks between are a function, and each grows from the first.
LEMMA AddRecordsGrows ==
    ASSUME NEW w \in Walks, NEW src \in Dev, NEW recs \in Records
    PROVE  Grows(w, AddRecords(w, src, recs))
<1> DEFINE n == Len(recs)
           Chain(f, m) == f = [k \in 0..m |-> IF k = 0 THEN w
                                              ELSE AddRecord(f[k - 1], src, recs[k])]
           v[k \in 0..Len(recs)] == IF k = 0 THEN w ELSE AddRecord(v[k - 1], src, recs[k])
<1>1. recs \in Seq(Record) /\ n \in Nat /\ \A k \in 1..n : recs[k] \in Record
  <2>1. PICK k \in 0..Rows : recs \in [1..k -> Record]
    BY DEF Records
  <2>2. recs \in Seq(Record)
    BY <2>1, NetMapAssumption
  <2> QED BY <2>2
<1>2. \A m \in 0..n : \E f : Chain(f, m)
  <2> DEFINE Bad == {m \in 0..n : ~\E f : Chain(f, m)}
  <2> SUFFICES ASSUME Bad # {} PROVE FALSE
    OBVIOUS
  <2>1. PICK m \in Bad : \A j \in Bad : m <= j
    <3>1. Bad \in SUBSET Nat
      BY <1>1
    <3> QED BY <3>1, LeastOf
  <2>2. m \in 0..n /\ ~\E f : Chain(f, m)
    OBVIOUS
  <2>3. CASE m = 0
    <3>1. Chain([k \in 0..0 |-> w], 0)
      OBVIOUS
    <3> QED BY <2>2, <2>3, <3>1
  <2>4. CASE m # 0
    <3>1. m - 1 \in 0..n /\ ~(m <= m - 1) /\ m \in Nat
      BY <1>1, <2>2, <2>4
    <3>2. m - 1 \notin Bad
      BY <2>1, <3>1
    <3>3. PICK f : Chain(f, m - 1)
      BY <3>1, <3>2
    <3> DEFINE g == [k \in 0..m |-> IF k = m THEN AddRecord(f[m - 1], src, recs[m]) ELSE f[k]]
    <3>4. ASSUME NEW k \in 0..m
          PROVE  g[k] = IF k = 0 THEN w ELSE AddRecord(g[k - 1], src, recs[k])
      <4>1. CASE k = m
        <5>1. m - 1 \in 0..m /\ m - 1 # m
          BY <3>1
        <5>2. g[k - 1] = f[m - 1]
          BY <4>1, <5>1
        <5> QED BY <2>4, <4>1, <5>2
      <4>2. CASE k # m
        <5>1. k \in 0..(m - 1) /\ (k # 0 => k - 1 \in 0..m /\ k - 1 # m)
          BY <3>1, <4>2
        <5>2. g[k] = f[k] /\ (k # 0 => g[k - 1] = f[k - 1])
          BY <4>2, <5>1
        <5>3. f[k] = IF k = 0 THEN w ELSE AddRecord(f[k - 1], src, recs[k])
          BY <3>3, <5>1
        <5> QED BY <5>2, <5>3
      <4> QED BY <4>1, <4>2
    <3>5. g = [k \in 0..m |-> g[k]]
      OBVIOUS
    <3> HIDE DEF g
    <3>6. Chain(g, m)
      BY <3>4, <3>5
    <3> QED BY <2>2, <3>6
  <2> QED BY <2>3, <2>4
<1>3. Chain(v, n)
  <2>1. n \in 0..n
    BY <1>1
  <2>2. \E f : Chain(f, n)
    BY <1>2, <2>1
  <2>3. v = CHOOSE f : Chain(f, n)
    OBVIOUS
  <2> HIDE DEF v, Chain
  <2> QED BY <2>2, <2>3
<1>4. AddRecords(w, src, recs) = v[n]
  BY DEF AddRecords
<1> HIDE DEF v
<1>5. \A k \in 0..n : v[k] = IF k = 0 THEN w ELSE AddRecord(v[k - 1], src, recs[k])
  BY <1>3
<1>6. \A k \in 0..n : Grows(w, v[k])
  <2> DEFINE Bad == {k \in 0..n : ~Grows(w, v[k])}
  <2> SUFFICES ASSUME Bad # {} PROVE FALSE
    OBVIOUS
  <2>1. PICK m \in Bad : \A j \in Bad : m <= j
    <3>1. Bad \in SUBSET Nat
      BY <1>1
    <3> QED BY <3>1, LeastOf
  <2>2. m # 0
    BY <1>1, <1>5, GrowsSelf
  <2>3. m - 1 \in 0..n /\ ~(m <= m - 1) /\ m \in 1..n
    BY <1>1, <2>2
  <2>4. Grows(w, v[m - 1])
    BY <2>1, <2>3
  <2>5. Grows(v[m - 1], v[m])
    <3>1. v[m] = AddRecord(v[m - 1], src, recs[m])
      BY <1>5, <2>2
    <3>2. v[m - 1] \in Walks
      BY <2>4 DEF Grows
    <3> QED BY <1>1, <2>3, <3>1, <3>2, AddRecordGrows
  <2> QED BY <2>4, <2>5, GrowsOn
<1> QED BY <1>1, <1>4, <1>6

\* Router after router, likewise: each is in the queue, or the map is cut short.
LEMMA EnqueueAllGrows ==
    ASSUME NEW w \in Walks, NEW devs \in Seq(Dev \ {Coord})
    PROVE  LET v == EnqueueAll(w, devs)
           IN  Grows(w, v) /\ (v.cut \/ ToSet(devs) \subseteq ToSet(v.queue))
<1> DEFINE n == Len(devs)
           Chain(f, m) == f = [k \in 0..m |-> IF k = 0 THEN w ELSE Enqueue(f[k - 1], devs[k])]
           v[k \in 0..Len(devs)] == IF k = 0 THEN w ELSE Enqueue(v[k - 1], devs[k])
<1>1. n \in Nat /\ \A k \in 1..n : devs[k] \in Dev \ {Coord}
  OBVIOUS
<1>2. \A m \in 0..n : \E f : Chain(f, m)
  <2> DEFINE Bad == {m \in 0..n : ~\E f : Chain(f, m)}
  <2> SUFFICES ASSUME Bad # {} PROVE FALSE
    OBVIOUS
  <2>1. PICK m \in Bad : \A j \in Bad : m <= j
    <3>1. Bad \in SUBSET Nat
      BY <1>1
    <3> QED BY <3>1, LeastOf
  <2>2. m \in 0..n /\ ~\E f : Chain(f, m)
    OBVIOUS
  <2>3. CASE m = 0
    <3>1. Chain([k \in 0..0 |-> w], 0)
      OBVIOUS
    <3> QED BY <2>2, <2>3, <3>1
  <2>4. CASE m # 0
    <3>1. m - 1 \in 0..n /\ ~(m <= m - 1) /\ m \in Nat
      BY <1>1, <2>2, <2>4
    <3>2. m - 1 \notin Bad
      BY <2>1, <3>1
    <3>3. PICK f : Chain(f, m - 1)
      BY <3>1, <3>2
    <3> DEFINE g == [k \in 0..m |-> IF k = m THEN Enqueue(f[m - 1], devs[m]) ELSE f[k]]
    <3>4. ASSUME NEW k \in 0..m
          PROVE  g[k] = IF k = 0 THEN w ELSE Enqueue(g[k - 1], devs[k])
      <4>1. CASE k = m
        <5>1. m - 1 \in 0..m /\ m - 1 # m
          BY <3>1
        <5>2. g[k - 1] = f[m - 1]
          BY <4>1, <5>1
        <5> QED BY <2>4, <4>1, <5>2
      <4>2. CASE k # m
        <5>1. k \in 0..(m - 1) /\ (k # 0 => k - 1 \in 0..m /\ k - 1 # m)
          BY <3>1, <4>2
        <5>2. g[k] = f[k] /\ (k # 0 => g[k - 1] = f[k - 1])
          BY <4>2, <5>1
        <5>3. f[k] = IF k = 0 THEN w ELSE Enqueue(f[k - 1], devs[k])
          BY <3>3, <5>1
        <5> QED BY <5>2, <5>3
      <4> QED BY <4>1, <4>2
    <3>5. g = [k \in 0..m |-> g[k]]
      OBVIOUS
    <3> HIDE DEF g
    <3>6. Chain(g, m)
      BY <3>4, <3>5
    <3> QED BY <2>2, <3>6
  <2> QED BY <2>3, <2>4
<1>3. Chain(v, n)
  <2>1. n \in 0..n
    BY <1>1
  <2>2. \E f : Chain(f, n)
    BY <1>2, <2>1
  <2>3. v = CHOOSE f : Chain(f, n)
    OBVIOUS
  <2> HIDE DEF v, Chain
  <2> QED BY <2>2, <2>3
<1>4. EnqueueAll(w, devs) = v[n]
  BY DEF EnqueueAll
<1> HIDE DEF v
<1>5. \A k \in 0..n : v[k] = IF k = 0 THEN w ELSE Enqueue(v[k - 1], devs[k])
  BY <1>3
<1> DEFINE In(k) == /\ Grows(w, v[k])
                    /\ \A i \in 1..k : v[k].cut \/ devs[i] \in ToSet(v[k].queue)
<1>6. \A k \in 0..n : In(k)
  <2> DEFINE Bad == {k \in 0..n : ~In(k)}
  <2> SUFFICES ASSUME Bad # {} PROVE FALSE
    OBVIOUS
  <2>1. PICK m \in Bad : \A j \in Bad : m <= j
    <3>1. Bad \in SUBSET Nat
      BY <1>1
    <3> QED BY <3>1, LeastOf
  <2>2. m # 0
    <3>1. v[0] = w
      BY <1>1, <1>5
    <3>2. In(0)
      BY <3>1, GrowsSelf
    <3> QED BY <3>2
  <2>3. m - 1 \in 0..n /\ ~(m <= m - 1) /\ m \in 1..n /\ 1..m = 1..(m - 1) \cup {m}
    BY <1>1, <2>2
  <2>4. In(m - 1)
    BY <2>1, <2>3
  <2>5. /\ Grows(v[m - 1], v[m])
        /\ v[m].cut \/ devs[m] \in ToSet(v[m].queue)
    <3>1. v[m] = Enqueue(v[m - 1], devs[m])
      BY <1>5, <2>2
    <3>2. v[m - 1] \in Walks
      BY <2>4 DEF Grows
    <3>3. devs[m] \in Dev \ {Coord}
      BY <1>1, <2>3
    <3> QED BY <3>1, <3>2, <3>3, EnqueueGrows
  <2>6. Grows(w, v[m])
    BY <2>4, <2>5, GrowsOn
  <2>7. ToSet(v[m - 1].queue) \subseteq ToSet(v[m].queue) /\ (v[m - 1].cut => v[m].cut)
    BY <2>5, KeepsQueued DEF Grows
  <2>8. \A i \in 1..m : v[m].cut \/ devs[i] \in ToSet(v[m].queue)
    BY <2>3, <2>4, <2>5, <2>7
  <2> QED BY <2>6, <2>8
<1>7. In(n)
  BY <1>1, <1>6
<1> QED BY <1>4, <1>7 DEF ToSet

\* A sequence of a finite set's members has them all.
LEMMA SeqOfSet ==
    ASSUME NEW S, IsFiniteSet(S)
    PROVE  SetToSeq(S) \in Seq(S) /\ ToSet(SetToSeq(S)) = S
<1> DEFINE m == Cardinality(S)
           f == SetToSeq(S)
<1>1. m \in Nat /\ Bijection(1..m, S) # {}
  BY FS_CardinalityType DEF ExistsBijection
<1>2. \E b \in [1..m -> S] : IsInjective(b)
  BY <1>1 DEF Bijection, Injection
<1>3. f \in [1..m -> S] /\ IsInjective(f)
  BY <1>2 DEF SetToSeq
<1> HIDE DEF f
<1>4. f \in Injection(1..m, S)
  BY <1>3 DEF Injection
<1>5. Cardinality(1..m) = m
  BY <1>1, FS_Interval
<1>6. f \in Surjection(1..m, S)
  BY <1>4, <1>5, FS_Injection
<1>7. \A t \in S : \E i \in 1..m : f[i] = t
  BY <1>6 DEF Surjection
<1>8. f \in Seq(S) /\ ToSet(f) = S
  BY <1>1, <1>3, <1>7 DEF ToSet
<1> QED BY <1>8 DEF f

\* Between two asks: whom a table listed and whom the hub knows is queued, or the map is
\* cut short, and the routers before the head answered or were given up on.
Sound(w) ==
    /\ w \in Walks /\ w.head <= Len(w.queue)
    /\ w.cut \/ (w.listed \cup w.known) \ {Coord} \subseteq ToSet(w.queue)
    /\ \A i \in 1..w.head : w.queue[i] \in w.heard \cup w.silent

LEMMA BegunSound == Sound(Begun) /\ Begun.head = 0
<1>1. Begun \in Walks
  BY NetMapAssumption DEF Begun, Walks
<1> QED BY <1>1 DEF Sound, Begun

LEMMA SoundGrows == ASSUME NEW w, NEW v, Sound(w), Grows(w, v) PROVE Sound(v)
<1>1. w.queue \in Seq(Dev) /\ v.queue \in Seq(Dev) /\ v.head = w.head /\ w.head \in Nat /\ v \in Walks
  BY DEF Grows, Walks
<1>2. v.head <= Len(v.queue)
  BY <1>1 DEF Grows, Sound
<1>3. v.cut \/ (v.listed \cup v.known) \ {Coord} \subseteq ToSet(v.queue)
  BY KeepsQueued DEF Grows, Sound
<1>4. \A i \in 1..v.head : v.queue[i] \in v.heard \cup v.silent
  <2> TAKE i \in 1..v.head
  <2>1. i \in 1..w.head /\ i \in 1..Len(w.queue)
    BY <1>1 DEF Sound
  <2> QED BY <2>1 DEF Sound, Grows
<1> QED BY <1>1, <1>2, <1>3, <1>4 DEF Sound

LEMMA FallbackSound ==
    ASSUME NEW w, Sound(w), NEW known \in SUBSET (Dev \ {Coord})
    PROVE  Sound(Fallback(w, known))
<1> DEFINE u == [w EXCEPT !.fallback = TRUE, !.known = known]
           v == EnqueueAll(u, SetToSeq(known))
<1>1. /\ u \in Walks /\ u.known = known /\ u.queue = w.queue /\ u.head = w.head /\ u.cut = w.cut
      /\ u.listed = w.listed /\ u.heard = w.heard /\ u.silent = w.silent
  BY DEF Sound, Walks
<1>2. SetToSeq(known) \in Seq(Dev \ {Coord}) /\ ToSet(SetToSeq(known)) = known
  <2>1. IsFiniteSet(known)
    BY NetMapAssumption, FS_Subset
  <2> QED BY <2>1, SeqOfSet
<1> HIDE DEF u
<1>3. Grows(u, v) /\ (v.cut \/ known \subseteq ToSet(v.queue))
  BY <1>1, <1>2, EnqueueAllGrows
<1> HIDE DEF v
<1>4. w.queue \in Seq(Dev) /\ v.queue \in Seq(Dev) /\ v.head = w.head /\ w.head \in Nat /\ v \in Walks
  BY <1>1, <1>3 DEF Grows, Walks, Sound
<1>5. v.head <= Len(v.queue)
  BY <1>1, <1>3, <1>4 DEF Grows, Sound
<1>6. v.cut \/ (v.listed \cup v.known) \ {Coord} \subseteq ToSet(v.queue)
  BY <1>1, <1>3, KeepsQueued DEF Grows, Sound
<1>7. \A i \in 1..v.head : v.queue[i] \in v.heard \cup v.silent
  <2> TAKE i \in 1..v.head
  <2>1. i \in 1..w.head /\ i \in 1..Len(u.queue)
    BY <1>1, <1>4 DEF Sound
  <2> QED BY <1>1, <1>3, <2>1 DEF Sound, Grows
<1>8. Sound(v)
  BY <1>4, <1>5, <1>6, <1>7 DEF Sound
<1> QED BY <1>8 DEF Fallback, u, v

\* Done with the router at the head, once it answered or was given up on.
LEMMA FinishSound ==
    ASSUME NEW w, Sound(w), w.head < Len(w.queue), w.queue[w.head + 1] \in w.heard \cup w.silent
    PROVE  Sound(FinishRouter(w))
<1> DEFINE v == FinishRouter(w)
<1>1. w \in Walks /\ w.head \in Nat /\ w.queue \in Seq(Dev)
  BY DEF Sound, Walks
<1>2. /\ v \in Walks /\ v.head = w.head + 1 /\ v.queue = w.queue /\ v.cut = w.cut
      /\ v.listed = w.listed /\ v.known = w.known /\ v.heard = w.heard /\ v.silent = w.silent
  <2> DEFINE h == w.head + 1
  <2>1. h \in Nat
    BY <1>1
  <2>2. v = [w EXCEPT !.head = h, !.pages = 0, !.tries = 0]
    BY <1>1 DEF FinishRouter, Walks
  <2> HIDE DEF h, v
  <2>3. v \in Walks /\ v.head = h
    BY <1>1, <2>1, <2>2 DEF Walks
  <2>4. /\ v.queue = w.queue /\ v.cut = w.cut /\ v.listed = w.listed /\ v.known = w.known
        /\ v.heard = w.heard /\ v.silent = w.silent
    BY <1>1, <2>2 DEF Walks
  <2> QED BY <2>3, <2>4 DEF h
<1> HIDE DEF v
<1>3. v.head <= Len(v.queue) /\ 1..v.head = 1..w.head \cup {w.head + 1}
  BY <1>1, <1>2
<1>4. Sound(v)
  BY <1>2, <1>3 DEF Sound
<1> QED BY <1>4 DEF v

LEMMA OnPageSound ==
    ASSUME NEW w, Sound(w), w.head < Len(w.queue), NEW recs \in Records, NEW more \in BOOLEAN
    PROVE  Sound(OnPage(w, w.queue[w.head + 1], recs, more))
<1> DEFINE src == w.queue[w.head + 1]
           w0 == AddNode(w, src)
           w1 == AddRecords(w0, src, recs)
           w2 == [w1 EXCEPT !.tries = 0, !.pages = @ + 1, !.heard = @ \cup {src}]
<1>1. w \in Walks /\ w.head \in Nat /\ w.queue \in Seq(Dev) /\ src \in Dev
      /\ w.head + 1 \in 1..Len(w.queue)
  BY DEF Sound, Walks
<1> HIDE DEF src
<1>2. Grows(w, w0) /\ w0 \in Walks
  BY <1>1, AddNodeGrows DEF Grows
<1> HIDE DEF w0
<1>3. Grows(w, w1)
  BY <1>1, <1>2, AddRecordsGrows, GrowsOn
<1>4. Sound(w1)
  BY <1>3, SoundGrows
<1>5. w1 \in Walks /\ w1.head = w.head /\ w1.head < Len(w1.queue) /\ w1.queue[w1.head + 1] = src
  <2> HIDE DEF w1
  <2>1. w1 \in Walks /\ w1.head = w.head /\ w1.queue \in Seq(Dev) /\ Len(w.queue) <= Len(w1.queue)
    BY <1>3 DEF Grows, Walks
  <2>2. w1.queue[w.head + 1] = src
    BY <1>1, <1>3 DEF Grows, src
  <2> QED BY <1>1, <2>1, <2>2
<1> HIDE DEF w1
<1>6. /\ w2 \in Walks /\ w2.head = w1.head /\ w2.queue = w1.queue /\ w2.cut = w1.cut
      /\ w2.listed = w1.listed /\ w2.known = w1.known /\ w2.silent = w1.silent
      /\ w2.heard = w1.heard \cup {src}
  <2> DEFINE n == w1.pages + 1
             h == w1.heard \cup {src}
  <2>1. n \in Nat /\ h \in SUBSET Dev
    BY <1>1, <1>5 DEF Walks
  <2>2. w2 = [w1 EXCEPT !.tries = 0, !.pages = n, !.heard = h]
    BY <1>5 DEF Walks
  <2> HIDE DEF n, h, w2
  <2>3. w2 \in Walks /\ w2.heard = h
    BY <1>5, <2>1, <2>2 DEF Walks
  <2>4. /\ w2.head = w1.head /\ w2.queue = w1.queue /\ w2.cut = w1.cut
        /\ w2.listed = w1.listed /\ w2.known = w1.known /\ w2.silent = w1.silent
    BY <1>5, <2>2 DEF Walks
  <2> QED BY <2>3, <2>4 DEF h
<1> HIDE DEF w2
<1>7. Sound(w2) /\ w2.head < Len(w2.queue) /\ w2.queue[w2.head + 1] \in w2.heard
  BY <1>4, <1>5, <1>6 DEF Sound
<1>8. Sound(FinishRouter(w2))
  BY <1>7, FinishSound
<1>9. OnPage(w, src, recs, more)
        = IF recs = <<>> \/ ~more \/ w2.pages >= MaxPages THEN FinishRouter(w2) ELSE w2
  BY DEF OnPage, w2, w1, w0
<1>10. Sound(OnPage(w, src, recs, more))
  BY <1>7, <1>8, <1>9
<1> QED BY <1>10 DEF src

LEMMA OnFailSound ==
    ASSUME NEW w, Sound(w), w.head < Len(w.queue)
    PROVE  Sound(OnFail(w, w.queue[w.head + 1]))
<1> DEFINE src == w.queue[w.head + 1]
           v == [w EXCEPT !.tries = @ + 1]
           u == [w EXCEPT !.failed = @ \cup ({src} \cap w.nodes), !.silent = @ \cup {src}]
<1>1. w \in Walks /\ w.queue \in Seq(Dev) /\ w.head \in Nat /\ src \in Dev
  BY DEF Sound, Walks
<1> HIDE DEF src
<1>2. /\ v \in Walks /\ v.head = w.head /\ v.queue = w.queue /\ v.cut = w.cut
      /\ v.listed = w.listed /\ v.known = w.known /\ v.silent = w.silent /\ v.heard = w.heard
  <2> DEFINE n == w.tries + 1
  <2>1. n \in Nat
    BY <1>1 DEF Walks
  <2>2. v = [w EXCEPT !.tries = n]
    BY <1>1 DEF Walks
  <2> HIDE DEF n, v
  <2> QED BY <1>1, <2>1, <2>2 DEF Walks
<1>3. /\ u \in Walks /\ u.head = w.head /\ u.queue = w.queue /\ u.cut = w.cut
      /\ u.listed = w.listed /\ u.known = w.known /\ u.heard = w.heard
      /\ u.silent = w.silent \cup {src}
  <2> DEFINE f == w.failed \cup ({src} \cap w.nodes)
             g == w.silent \cup {src}
  <2>1. f \in SUBSET Dev /\ g \in SUBSET Dev
    BY <1>1 DEF Walks
  <2>2. u = [w EXCEPT !.failed = f, !.silent = g]
    BY <1>1 DEF Walks
  <2> HIDE DEF f, g, u
  <2>3. u \in Walks /\ u.silent = g
    BY <1>1, <2>1, <2>2 DEF Walks
  <2>4. /\ u.head = w.head /\ u.queue = w.queue /\ u.cut = w.cut
        /\ u.listed = w.listed /\ u.known = w.known /\ u.heard = w.heard
    BY <1>1, <2>2 DEF Walks
  <2> QED BY <2>3, <2>4 DEF g
<1>4. OnFail(w, src) = IF w.tries + 1 < Tries THEN v ELSE FinishRouter(u)
  BY DEF OnFail
<1> HIDE DEF u, v
<1>5. Sound(v)
  BY <1>2 DEF Sound
<1>6. Sound(u) /\ u.head < Len(u.queue) /\ u.queue[u.head + 1] \in u.silent
  BY <1>3 DEF Sound, src
<1>7. Sound(OnFail(w, src))
  BY <1>4, <1>5, <1>6, FinishSound
<1> QED BY <1>7 DEF src

\* The walk of the scan, by where the worker is.
WalkInv ==
    /\ Sound(walk)
    /\ stage \in {"ask", "send", "wait", "use", "fail"} => walk.head < Len(walk.queue)
    /\ stage = "build" => walk.head = Len(walk.queue)

LEMMA WalkInvInit == NetInit => WalkInv
  BY BegunSound DEF NetInit, WalkInv

LEMMA WalkInvStep == WalkInv /\ [NetNext]_netVars => WalkInv'
<1> SUFFICES ASSUME WalkInv, [NetNext]_netVars PROVE WalkInv'
  OBVIOUS
<1>1. CASE StartScan
  BY <1>1 DEF StartScan, WalkInv
<1>2. CASE BeginScan
  <2>1. PICK recs \in Records : walk' = AddRecords(Begun, Coord, recs)
    BY <1>2 DEF BeginScan
  <2>2. Begun \in Walks
    BY BegunSound DEF Sound
  <2>3. Sound(walk')
    BY <2>1, <2>2, BegunSound, SoundGrows, AddRecordsGrows, NetMapAssumption
  <2> QED BY <1>2, <2>3 DEF BeginScan, WalkInv
<1>3. CASE NoScan
  BY <1>3, BegunSound DEF NoScan, Finish, WalkInv
<1>4. CASE NextAsk
  <2>1. Sound(walk')
    <3>1. CASE UNCHANGED walk
      BY <3>1 DEF WalkInv
    <3>2. CASE \E known \in SUBSET (Dev \ {Coord}) : walk' = Fallback(walk, known)
      BY <3>2, FallbackSound DEF WalkInv
    <3> QED BY <1>4, <3>1, <3>2 DEF NextAsk
  <2>2. stage' = IF walk'.head = Len(walk'.queue) THEN "build" ELSE "ask"
    BY <1>4 DEF NextAsk
  <2>3. walk'.head \in Nat /\ Len(walk'.queue) \in Nat /\ walk'.head <= Len(walk'.queue)
    BY <2>1 DEF Sound, Walks
  <2>4. CASE walk'.head = Len(walk'.queue)
    BY <2>1, <2>2, <2>4 DEF WalkInv
  <2>5. CASE walk'.head # Len(walk'.queue)
    BY <2>1, <2>2, <2>3, <2>5 DEF WalkInv
  <2> QED BY <2>4, <2>5
<1>5. CASE NewToken
  BY <1>5 DEF NewToken, WalkInv
<1>6. CASE SendAsk
  BY <1>6 DEF SendAsk, WalkInv
<1>7. CASE WakeUp
  BY <1>7 DEF WakeUp, WalkInv
<1>8. CASE AskTimeout
  BY <1>8 DEF AskTimeout, WalkInv
<1>9. CASE UsePage
  BY <1>9, OnPageSound DEF UsePage, WalkInv, ask
<1>10. CASE GiveUpAsk
  BY <1>10, OnFailSound DEF GiveUpAsk, WalkInv, ask
<1>11. CASE Build
  BY <1>11, BegunSound DEF Build, Finish, WalkInv
<1>12. CASE AnswerPage
  BY <1>12 DEF AnswerPage, Copy, WalkInv
<1>13. CASE Notify
  BY <1>13 DEF Notify, WalkInv
<1>14. CASE UNCHANGED netVars
  BY <1>14 DEF netVars, WalkInv
<1> QED
  BY <1>1, <1>2, <1>3, <1>4, <1>5, <1>6, <1>7, <1>8, <1>9, <1>10, <1>11, <1>12, <1>13, <1>14
  DEF NetNext, Worker

\* A map that is not cut short has asked every router that a table listed or the hub
\* knows, until it answered or was given up on, and took no late answer for that of the
\* ask just made (esp_zb_netmap.cpp:74).
THEOREM RoutersAreAsked == NetSpec => []EveryRouterAsked
<1>1. TokenInv /\ WalkInv => EveryRouterAsked
  <2> SUFFICES ASSUME TokenInv, WalkInv PROVE EveryRouterAsked
    OBVIOUS
  <2>1. ASSUME stage = "build"
        PROVE  walk.cut \/ (walk.listed \cup walk.known) \ {Coord} \subseteq walk.heard \cup walk.silent
    <3>1. walk.queue \in Seq(Dev) /\ walk.head = Len(walk.queue)
      BY <2>1 DEF WalkInv, Sound, Walks
    <3>2. ToSet(walk.queue) \subseteq walk.heard \cup walk.silent
      BY <3>1 DEF WalkInv, Sound, ToSet
    <3> QED BY <3>2 DEF WalkInv, Sound
  <2> QED BY <2>1 DEF TokenInv, EveryRouterAsked
<1> QED BY <1>1, TokenInvInit, TokenInvStep, WalkInvInit, WalkInvStep, PTL DEF NetSpec

=============================================================================
