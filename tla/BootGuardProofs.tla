--------------------------- MODULE BootGuardProofs ---------------------------
(* Proofs of the boot guard's properties, for every kTrips and every         *)
(* saturation of the retry counter.                                          *)
EXTENDS BootGuard, TLAPS

-----------------------------------------------------------------------------
(* Types.                                                                    *)

LEMMA AtBoot ==
    ASSUME GuardTypeOK
    PROVE  /\ CrashesAtBoot(cause) \in 0..KTrips
           /\ RetriesAtBoot(cause) \in 0..MaxRetries
           /\ NextRetry(retries) \in DelaySet
           /\ NextRetry(RetriesAtBoot(cause)) \in DelaySet
  BY GuardAssumption
     DEF GuardTypeOK, CrashesAtBoot, RetriesAtBoot, Cleared, Least, Reset, NextRetry, DelaySet

LEMMA Typing == GuardTypeOK /\ [GuardNext]_guardVars => GuardTypeOK'
<1> SUFFICES ASSUME GuardTypeOK, [GuardNext]_guardVars PROVE GuardTypeOK'
  OBVIOUS
<1> USE GuardAssumption DEF GuardTypeOK, Phase, Down, Reset
<1>1. CASE StorageError
  BY <1>1 DEF StorageError, guard, past
<1>2. CASE AskGuard
  BY <1>2, AtBoot DEF AskGuard, ScheduleRetry
<1>3. CASE RadioFails
  BY <1>3, AtBoot DEF RadioFails, ScheduleRetry
<1>4. CASE TaskRuns
  BY <1>4 DEF TaskRuns, guard, past
<1>5. CASE NetworkUp
  <2>1. armed' \in BOOLEAN /\ valid' \in BOOLEAN /\ skipped' \in BOOLEAN /\ faulted' \in BOOLEAN
    BY <1>5 DEF NetworkUp
  <2>2. crashes' \in 0..KTrips /\ retries' \in 0..MaxRetries
    BY <1>5 DEF NetworkUp
  <2>3. phase' \in Phase /\ cause' \in Reset
    BY <1>5 DEF NetworkUp
  <2>4. /\ retryIn' \in DelaySet \cup {0} /\ lastDelay' \in DelaySet \cup {0}
        /\ radioCrashes' \in Nat
    BY <1>5 DEF NetworkUp
  <2> QED
    BY <2>1, <2>2, <2>3, <2>4
<1>6. CASE NoNetwork
  BY <1>6 DEF NoNetwork, guard, past
<1>7. CASE ExitsEarly
  BY <1>7, AtBoot DEF ExitsEarly, ScheduleRetry
<1>8. CASE Restart
  BY <1>8 DEF Restart, Reboot, guard, past
<1>9. CASE RetryFires
  BY <1>9 DEF RetryFires, Reboot, past, Least
<1>10. CASE CrashReset
  BY <1>10 DEF CrashReset, Reboot, guard, Least
<1>11. CASE OtherReset
  BY <1>11 DEF OtherReset, Reboot
<1>12. CASE UNCHANGED guardVars
  BY <1>12 DEF guardVars, guard, past
<1> QED
  BY <1>1, <1>2, <1>3, <1>4, <1>5, <1>6, <1>7, <1>8, <1>9, <1>10, <1>11, <1>12 DEF GuardNext

\* The state stays within its types: the crash counter never passes kTrips and
\* the retry counter never wraps (esp_zb_boot_guard.h).
THEOREM GuardTypes == GuardSpec => []GuardTypeOK
<1>1. ASSUME GuardInit PROVE GuardTypeOK
  <2>1. armed \in BOOLEAN /\ valid \in BOOLEAN /\ skipped \in BOOLEAN /\ faulted \in BOOLEAN
    BY <1>1 DEF GuardInit
  <2>2. crashes \in 0..KTrips /\ retries \in 0..MaxRetries
    BY <1>1 DEF GuardInit
  <2>3. phase \in Phase /\ cause \in Reset
    BY <1>1 DEF GuardInit, Phase, Reset
  <2>4. /\ retryIn \in DelaySet \cup {0} /\ lastDelay \in DelaySet \cup {0}
        /\ radioCrashes \in Nat
    BY <1>1 DEF GuardInit
  <2> QED
    BY <2>1, <2>2, <2>3, <2>4 DEF GuardTypeOK
<1> QED
  BY <1>1, Typing, PTL DEF GuardSpec

-----------------------------------------------------------------------------
(* The guard's counter against the crashes that really happened.  A crash is *)
(* counted by the boot after it, so it must be on record before.             *)

Counting == valid /\ ~(phase = "reset" /\ cause = "OTHER")

CrashToCount == phase = "reset" /\ cause = "CRASH" /\ armed

CountBacked ==
    Counting => /\ crashes <= radioCrashes
                /\ CrashToCount => crashes < radioCrashes \/ radioCrashes >= KTrips

ArmedWhileStarting ==
    phase \notin {"reset", "storage"} => valid /\ (armed <=> phase \in {"starting", "running"})

Unfaulted == ~faulted => CountBacked /\ phase # "storage" /\ SkipNeedsRadioCrashes

SkipInv == ArmedWhileStarting /\ Unfaulted

LEMMA SkipStep ==
    ASSUME GuardTypeOK, SkipInv, [GuardNext]_guardVars PROVE SkipInv'
<1> USE GuardAssumption DEF GuardTypeOK, Phase, Down, Reset, SkipInv, Unfaulted, Counting,
        CountBacked, CrashToCount, ArmedWhileStarting, SkipNeedsRadioCrashes
<1>1. CASE StorageError
  BY <1>1 DEF StorageError
<1>2. CASE AskGuard
  <2>1. ~faulted => CrashesAtBoot(cause) <= radioCrashes
    BY <1>2 DEF CrashesAtBoot, Cleared, Least, AskGuard
  <2>2. /\ crashes' = CrashesAtBoot(cause) /\ radioCrashes' = radioCrashes
        /\ valid' = TRUE /\ phase' \in {"skipped", "starting"} /\ faulted' = faulted
    BY <1>2 DEF AskGuard
  <2>3. phase' = "skipped" => crashes' >= KTrips
    BY <1>2 DEF AskGuard
  <2>4. armed' <=> phase' = "starting"
    BY <1>2 DEF AskGuard
  <2>5. CrashesAtBoot(cause) \in 0..KTrips
    BY AtBoot
  <2> QED
    BY <2>1, <2>2, <2>3, <2>4, <2>5
<1>3. CASE RadioFails
  BY <1>3 DEF RadioFails
<1>4. CASE TaskRuns
  BY <1>4 DEF TaskRuns, guard, past
<1>5. CASE NetworkUp
  BY <1>5 DEF NetworkUp
<1>6. CASE NoNetwork
  BY <1>6 DEF NoNetwork, guard, past
<1>7. CASE ExitsEarly
  BY <1>7 DEF ExitsEarly
<1>8. CASE Restart
  BY <1>8 DEF Restart, Reboot, guard, past
<1>9. CASE RetryFires
  BY <1>9 DEF RetryFires, Reboot, past
<1>10. CASE CrashReset
  BY <1>10 DEF CrashReset, Reboot, guard, Least
<1>11. CASE OtherReset
  BY <1>11 DEF OtherReset, Reboot
<1>12. CASE UNCHANGED guardVars
  BY <1>12 DEF guardVars, guard, past
<1> QED
  BY <1>1, <1>2, <1>3, <1>4, <1>5, <1>6, <1>7, <1>8, <1>9, <1>10, <1>11, <1>12 DEF GuardNext

\* No crash but the radio's ever costs the radio: a boot skips it only after kTrips crashes
\* while it was starting, unless zb_storage was unreadable in between.
THEOREM SkipIsEarned == GuardSpec => []SkipNeedsRadioCrashes
<1>1. GuardInit => SkipInv
  BY DEF GuardInit, SkipInv, Unfaulted, Counting, CountBacked, ArmedWhileStarting, SkipNeedsRadioCrashes
<1>2. GuardTypeOK /\ SkipInv /\ [GuardNext]_guardVars => SkipInv'
  BY SkipStep
<1>3. GuardTypeOK /\ SkipInv => SkipNeedsRadioCrashes
  BY DEF SkipInv, Unfaulted, SkipNeedsRadioCrashes
<1> QED
  BY <1>1, <1>2, <1>3, GuardTypes, PTL DEF GuardSpec

-----------------------------------------------------------------------------
(* A skipped boot leaves the guard disarmed, and every kind of reset then    *)
(* brings the counter below kTrips -- also when boots that find zb_storage   *)
(* unreadable come in between.                                               *)

Disarmed == skipped => ~armed /\ phase \in {"reset", "skipped", "storage"}

LEMMA DisarmedStep == ASSUME GuardTypeOK, Disarmed, [GuardNext]_guardVars PROVE Disarmed'
<1> USE DEF Disarmed, GuardTypeOK, guard, past
<1>1. CASE StorageError
  BY <1>1 DEF StorageError
<1>2. CASE AskGuard
  BY <1>2 DEF AskGuard
<1>3. CASE RadioFails \/ TaskRuns \/ NetworkUp \/ NoNetwork \/ ExitsEarly
  BY <1>3 DEF RadioFails, TaskRuns, NetworkUp, NoNetwork, ExitsEarly
<1>4. CASE Restart \/ RetryFires \/ CrashReset \/ OtherReset
  BY <1>4 DEF Restart, RetryFires, CrashReset, OtherReset, Reboot
<1>5. CASE UNCHANGED guardVars
  BY <1>5 DEF guardVars
<1> QED
  BY <1>1, <1>2, <1>3, <1>4, <1>5 DEF GuardNext

\* Only asking the guard makes a boot skip the radio.
LEMMA WhoSkips == ASSUME GuardNext, phase = "reset", phase' = "skipped" PROVE AskGuard
  BY DEF GuardNext, StorageError, RadioFails, TaskRuns, NetworkUp, NoNetwork,
         ExitsEarly, Restart, RetryFires, CrashReset, OtherReset, Reboot

\* The guard never keeps the radio off for two boots in a row.
THEOREM OneSkipAtATime == GuardSpec => NeverSkipsTwice
<1>1. GuardInit => Disarmed
  BY DEF GuardInit, Disarmed
<1>2. GuardTypeOK /\ Disarmed /\ [GuardNext]_guardVars => Disarmed'
  BY DisarmedStep
<1>3. GuardTypeOK /\ Disarmed /\ [GuardNext]_guardVars
        => [skipped /\ phase = "reset" => phase' # "skipped"]_guardVars
  <2> SUFFICES ASSUME GuardTypeOK, Disarmed, GuardNext, skipped, phase = "reset", phase' = "skipped"
               PROVE  FALSE
    OBVIOUS
  <2>1. CrashesAtBoot(cause) < KTrips
    BY GuardAssumption DEF GuardTypeOK, Disarmed, CrashesAtBoot, Cleared, Least, Reset
  <2>2. AskGuard
    BY WhoSkips
  <2>3. crashes' = CrashesAtBoot(cause) /\ crashes' >= KTrips
    BY <2>2 DEF AskGuard
  <2>4. CrashesAtBoot(cause) \in 0..KTrips
    BY AtBoot
  <2> QED
    BY <2>1, <2>3, <2>4, GuardAssumption
<1> QED
  BY <1>1, <1>2, <1>3, GuardTypes, PTL DEF GuardSpec, NeverSkipsTwice

-----------------------------------------------------------------------------
(* The delay given last is never above the one the counter gives next.       *)

DelayBelowNext ==
    lastDelay # 0 => /\ valid
                     /\ ~(phase = "reset" /\ cause = "OTHER")
                     /\ lastDelay <= NextRetry(retries)

\* A boot past the guard has its magic in RAM.
Asked == phase \notin {"reset", "storage"} => valid

LEMMA AskedStep == Asked /\ [GuardNext]_guardVars => Asked'
<1> SUFFICES ASSUME Asked, [GuardNext]_guardVars PROVE Asked'
  OBVIOUS
<1> USE DEF Asked, guard, past
<1>1. CASE StorageError \/ AskGuard
  BY <1>1 DEF StorageError, AskGuard
<1>2. CASE RadioFails \/ TaskRuns \/ NoNetwork \/ ExitsEarly
  BY <1>2 DEF RadioFails, TaskRuns, NoNetwork, ExitsEarly
<1>3. CASE NetworkUp
  BY <1>3 DEF NetworkUp
<1>4. CASE Restart \/ RetryFires \/ CrashReset \/ OtherReset
  BY <1>4 DEF Restart, RetryFires, CrashReset, OtherReset, Reboot
<1>5. CASE UNCHANGED guardVars
  BY <1>5 DEF guardVars
<1> QED
  BY <1>1, <1>2, <1>3, <1>4, <1>5 DEF GuardNext

LEMMA DelayAtBoot ==
    ASSUME GuardTypeOK, DelayBelowNext, phase = "reset"
    PROVE  lastDelay # 0 => lastDelay <= NextRetry(RetriesAtBoot(cause))
  BY DEF DelayBelowNext, GuardTypeOK, RetriesAtBoot, Cleared

LEMMA DelayStep == ASSUME GuardTypeOK, Asked, DelayBelowNext, [GuardNext]_guardVars PROVE DelayBelowNext'
<1>1. CASE StorageError \/ TaskRuns \/ NoNetwork \/ Restart
  BY <1>1 DEF StorageError, TaskRuns, NoNetwork, Restart, Reboot, guard, past,
              DelayBelowNext, NextRetry
<1>2. CASE AskGuard
  <2>1. valid' = TRUE /\ retries' = RetriesAtBoot(cause) /\ phase' # "reset"
    BY <1>2 DEF AskGuard
  <2>2. lastDelay' = lastDelay \/ lastDelay' = NextRetry(retries')
    BY <1>2 DEF AskGuard, ScheduleRetry
  <2>3. NextRetry(retries') = NextRetry(RetriesAtBoot(cause))
    BY <2>1
  <2>4. lastDelay # 0 => lastDelay <= NextRetry(RetriesAtBoot(cause))
    BY <1>2, DelayAtBoot DEF AskGuard
  <2>5. NextRetry(RetriesAtBoot(cause)) <= NextRetry(RetriesAtBoot(cause))
    BY AtBoot DEF DelaySet
  <2>6. lastDelay' # 0 => lastDelay' <= NextRetry(retries')
    BY <2>2, <2>3, <2>4, <2>5
  <2>7. (lastDelay' # 0 => lastDelay' <= NextRetry(retries)')
    BY <2>6 DEF NextRetry
  <2> QED
    BY <2>1, <2>7 DEF DelayBelowNext
<1>3. CASE RadioFails \/ ExitsEarly
  <2>1. retries' = retries /\ valid' = valid /\ phase' # "reset" /\ phase # "reset"
    BY <1>3 DEF RadioFails, ExitsEarly
  <2>2. lastDelay' = NextRetry(retries) /\ NextRetry(retries)' = NextRetry(retries)
    BY <1>3, <2>1 DEF RadioFails, ExitsEarly, ScheduleRetry, NextRetry
  <2>3. NextRetry(retries) <= NextRetry(retries)
    BY AtBoot DEF DelaySet
  <2>4. valid
    BY <1>3 DEF RadioFails, ExitsEarly, Asked
  <2> QED
    BY <2>1, <2>2, <2>3, <2>4 DEF DelayBelowNext
<1>4. CASE NetworkUp \/ OtherReset
  <2>1. lastDelay' = 0
    BY <1>4 DEF NetworkUp, OtherReset
  <2> QED
    BY <2>1 DEF DelayBelowNext
<1>6. CASE RetryFires
  BY <1>6, GuardAssumption DEF RetryFires, Reboot, Least, NextRetry, DelayBelowNext,
                               GuardTypeOK, DelaySet, past
<1>7. CASE CrashReset
  <2>1. /\ lastDelay' = lastDelay /\ retries' = retries /\ valid' = valid
        /\ cause' = "CRASH"
    BY <1>7 DEF CrashReset, Reboot, guard
  <2>2. NextRetry(retries)' = NextRetry(retries)
    BY <2>1 DEF NextRetry
  <2> QED
    BY <2>1, <2>2 DEF DelayBelowNext
<1>8. CASE UNCHANGED guardVars
  BY <1>8 DEF guardVars, guard, past, DelayBelowNext, NextRetry
<1> QED
  BY <1>1, <1>2, <1>3, <1>4, <1>6, <1>7, <1>8 DEF GuardNext

\* While the radio does not work, its retries never come closer together.
THEOREM DelaysGrow == GuardSpec => BackoffGrows
<1>1. GuardInit => DelayBelowNext /\ Asked
  BY DEF GuardInit, DelayBelowNext, Asked
<1>2. GuardTypeOK /\ Asked /\ DelayBelowNext /\ [GuardNext]_guardVars => DelayBelowNext'
  BY DelayStep
<1>3. GuardTypeOK /\ DelayBelowNext /\ [GuardNext]_guardVars
        => [retryIn' # 0 /\ retryIn' # retryIn => retryIn' >= lastDelay]_guardVars
  <2> SUFFICES ASSUME GuardTypeOK, DelayBelowNext, GuardNext, retryIn' # 0, retryIn' # retryIn
               PROVE  retryIn' >= lastDelay
    OBVIOUS
  <2>1. CASE AskGuard
    BY <2>1, AtBoot, DelayAtBoot DEF AskGuard, ScheduleRetry, DelaySet, GuardTypeOK
  <2>2. CASE RadioFails \/ ExitsEarly
    BY <2>2, AtBoot DEF RadioFails, ExitsEarly, ScheduleRetry, DelaySet, GuardTypeOK,
                        DelayBelowNext
  <2> QED
    BY <2>1, <2>2 DEF GuardNext, StorageError, TaskRuns, NetworkUp, NoNetwork,
                      Restart, RetryFires, CrashReset, OtherReset, Reboot
<1> QED
  BY <1>1, <1>2, <1>3, AskedStep, GuardTypes, PTL DEF GuardSpec, BackoffGrows

=============================================================================
