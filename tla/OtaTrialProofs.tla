---------------------------- MODULE OtaTrialProofs ----------------------------
(***************************************************************************)
(* The invariants of OtaTrial hold for every soak, deadline, crash limit   *)
(* and number of failing writes.                                           *)
(***************************************************************************)
EXTENDS OtaTrial, TLAPS

\* What a boot starts with, until ota_update_init.
FreshBoot ==
    bootPhase \in {"guard", "booting"} =>
        /\ state = "verified" /\ ticks = 0 /\ healthy = 0
        /\ update = "none"

\* Where the boot slot points while the hub runs.
BootSlot ==
    bootPhase # "off" =>
        /\ slots[active] \in {"trial", "kept"}
        /\ update \in {"written", "saved", "cleared"} =>
              boot = Other(active) /\ slots[boot] = "new"
        /\ update \notin {"written", "saved", "cleared"} => boot = active
        /\ update \notin {"none", "asked"} => slots[active] = "kept"

TrialAlone == state = "pending" => update = "none"

TrialRuns == bootPhase = "up" /\ state = "pending" => slots[active] = "trial"

SlotInv == FreshBoot /\ BootSlot /\ TrialAlone /\ TrialRuns /\ AlwaysBootable

\* The ticks before the healthy run, and the healthy run.
VerdictInv ==
    state = "pending" =>
        /\ ticks <= healthy + (DeadlineTicks - 1)
        /\ healthy <= (SoakTicks - 1) + faults

\* The count in RAM is never behind the crashes it counts.
RowInv ==
    /\ bootPhase \in {"off", "guard"} => row <= EarlyCount
    /\ bootPhase \in {"booting", "up"} =>
          /\ magic
          /\ row = 0 \/ (earlyArmed /\ row <= count)
          /\ row >= EarlyCrashes => safe

-----------------------------------------------------------------------------
(* Types.                                                                  *)

LEMMA ZeroCounts == 0 \in Nat /\ 0 \in 0..MaxCount /\ 0 \in 0..MaxFaults
  BY OtaAssumption

LEMMA CountTyped == OtaTypeOK => EarlyCount \in 0..MaxCount
  BY OtaAssumption DEF OtaTypeOK, GuardType, EarlyCount, AtMost

LEMMA ImageTyping == OtaTypeOK /\ [OtaNext]_otaVars => ImageType'
<1> SUFFICES ASSUME OtaTypeOK, [OtaNext]_otaVars PROVE ImageType'
  OBVIOUS
<1> USE DEF OtaTypeOK, ImageType, Slot, Other, Image
<1>1. CASE Bootloader
  BY <1>1 DEF Bootloader, image, nvs
<1>2. CASE Guard /\ GuardPasses
  BY <1>2 DEF GuardPasses, Guard, image, trial
<1>3. CASE Guard /\ GuardRollsBack
  BY <1>3 DEF GuardRollsBack, Guard, RollBack, trial
<1>4. CASE Guard /\ GuardEntersSafeMode
  BY <1>4 DEF GuardEntersSafeMode, Guard, FlashFault, image, trial
<1>5. CASE InitOta
  BY <1>5 DEF InitOta, image, nvs, early, world, otaPast
<1>6. CASE BootLasts
  BY <1>6 DEF BootLasts, image, trial, nvs, world
<1>7. CASE Wait
  BY <1>7 DEF Wait, Tick, Count, FlashFault, image, nvs, early, otaPast
<1>8. CASE Keep
  BY <1>8 DEF Keep, Tick, Count, early, world, otaPast
<1>9. CASE Undo
  BY <1>9 DEF Undo, Tick, Count, RollBack, FlashFault, early
<1>10. CASE Start
  BY <1>10 DEF Start, Step, image, trial, nvs, early, world, otaPast
<1>11. CASE Write
  BY <1>11 DEF Write, Step, trial, nvs, early, world, otaPast
<1>12. CASE Abort
  BY <1>12 DEF Abort, Step, image, trial, nvs, early, world, otaPast
<1>13. CASE Finish
  BY <1>13 DEF Finish, Step, trial, nvs, early, world
<1>14. CASE SaveBaseline
  BY <1>14 DEF SaveBaseline, Step, image, trial, early, world, otaPast
<1>15. CASE ClearReason
  BY <1>15 DEF ClearReason, Step, image, trial, early, world, otaPast
<1>16. CASE RadioChanges
  BY <1>16 DEF RadioChanges, image, trial, nvs, early, otaPast
<1>17. CASE OtaRestart
  BY <1>17 DEF OtaRestart, image, trial, nvs, early, world
<1>18. CASE Crash
  BY <1>18 DEF Crash, image, trial, nvs, early, world
<1>19. CASE PowerCut
  BY <1>19 DEF PowerCut, image, trial, nvs, world
<1>20. CASE UNCHANGED otaVars
  BY <1>20 DEF otaVars, image, trial, nvs, early, world, otaPast
<1> QED
  BY <1>1, <1>2, <1>3, <1>4, <1>5, <1>6, <1>7, <1>8, <1>9, <1>10, <1>11,
     <1>12, <1>13, <1>14, <1>15, <1>16, <1>17, <1>18, <1>19, <1>20
     DEF OtaNext, OtaBoot, Guard, Health, Update, Hub

LEMMA TrialTyping == OtaTypeOK /\ [OtaNext]_otaVars => TrialType'
<1> SUFFICES ASSUME OtaTypeOK, [OtaNext]_otaVars PROVE TrialType'
  OBVIOUS
<1> USE DEF OtaTypeOK, TrialType
<1>1. CASE Bootloader
  BY <1>1 DEF Bootloader, image, nvs
<1>2. CASE Guard /\ GuardPasses
  BY <1>2 DEF GuardPasses, Guard, image, trial
<1>3. CASE Guard /\ GuardRollsBack
  BY <1>3 DEF GuardRollsBack, Guard, RollBack, trial
<1>4. CASE Guard /\ GuardEntersSafeMode
  BY <1>4, OtaAssumption
     DEF GuardEntersSafeMode, Guard, FlashFault, image, trial
<1>5. CASE InitOta
  BY <1>5 DEF InitOta, image, nvs, early, world, otaPast
<1>6. CASE BootLasts
  BY <1>6 DEF BootLasts, image, trial, nvs, world
<1>7. CASE Wait
  BY <1>7, OtaAssumption
     DEF Wait, Tick, Count, FlashFault, image, nvs, early, otaPast
<1>8. CASE Keep
  BY <1>8 DEF Keep, Tick, Count, early, world, otaPast
<1>9. CASE Undo
  BY <1>9, OtaAssumption DEF Undo, Tick, Count, RollBack, FlashFault, early
<1>10. CASE Start
  BY <1>10 DEF Start, Step, image, trial, nvs, early, world, otaPast
<1>11. CASE Write
  BY <1>11 DEF Write, Step, trial, nvs, early, world, otaPast
<1>12. CASE Abort
  BY <1>12 DEF Abort, Step, image, trial, nvs, early, world, otaPast
<1>13. CASE Finish
  BY <1>13 DEF Finish, Step, trial, nvs, early, world
<1>14. CASE SaveBaseline
  BY <1>14 DEF SaveBaseline, Step, image, trial, early, world, otaPast
<1>15. CASE ClearReason
  BY <1>15 DEF ClearReason, Step, image, trial, early, world, otaPast
<1>16. CASE RadioChanges
  BY <1>16 DEF RadioChanges, image, trial, nvs, early, otaPast
<1>17. CASE OtaRestart
  BY <1>17 DEF OtaRestart, image, trial, nvs, early, world
<1>18. CASE Crash
  BY <1>18 DEF Crash, image, trial, nvs, early, world
<1>19. CASE PowerCut
  BY <1>19 DEF PowerCut, image, trial, nvs, world
<1>20. CASE UNCHANGED otaVars
  BY <1>20 DEF otaVars, image, trial, nvs, early, world, otaPast
<1> QED
  BY <1>1, <1>2, <1>3, <1>4, <1>5, <1>6, <1>7, <1>8, <1>9, <1>10, <1>11,
     <1>12, <1>13, <1>14, <1>15, <1>16, <1>17, <1>18, <1>19, <1>20
     DEF OtaNext, OtaBoot, Guard, Health, Update, Hub

LEMMA GuardTyping == OtaTypeOK /\ [OtaNext]_otaVars => GuardType'
<1> SUFFICES ASSUME OtaTypeOK, [OtaNext]_otaVars PROVE GuardType'
  OBVIOUS
<1> USE DEF OtaTypeOK, GuardType
<1>1. CASE Bootloader
  BY <1>1, ZeroCounts DEF Bootloader, image, nvs
<1>2. CASE Guard /\ GuardPasses
  BY <1>2, CountTyped DEF GuardPasses, Guard, image, trial
<1>3. CASE Guard /\ GuardRollsBack
  BY <1>3, ZeroCounts DEF GuardRollsBack, Guard, RollBack, trial
<1>4. CASE Guard /\ GuardEntersSafeMode
  BY <1>4, ZeroCounts, CountTyped
     DEF GuardEntersSafeMode, Guard, FlashFault, image, trial
<1>5. CASE InitOta
  BY <1>5 DEF InitOta, image, nvs, early, world, otaPast
<1>6. CASE BootLasts
  BY <1>6, ZeroCounts DEF BootLasts, image, trial, nvs, world
<1>7. CASE Wait
  BY <1>7 DEF Wait, Tick, Count, FlashFault, image, nvs, early, otaPast
<1>8. CASE Keep
  BY <1>8 DEF Keep, Tick, Count, early, world, otaPast
<1>9. CASE Undo
  <2>1. CASE RollBack
    BY <1>9, <2>1, ZeroCounts DEF Undo, RollBack, early
  <2>2. CASE FlashFault /\ UNCHANGED <<crashed, row>>
    BY <1>9, <2>2 DEF Undo, early
  <2> QED
    BY <1>9, <2>1, <2>2 DEF Undo
<1>10. CASE Start
  BY <1>10 DEF Start, Step, image, trial, nvs, early, world, otaPast
<1>11. CASE Write
  BY <1>11 DEF Write, Step, trial, nvs, early, world, otaPast
<1>12. CASE Abort
  BY <1>12 DEF Abort, Step, image, trial, nvs, early, world, otaPast
<1>13. CASE Finish
  BY <1>13 DEF Finish, Step, TrialType, trial, nvs, early, world
<1>14. CASE SaveBaseline
  BY <1>14 DEF SaveBaseline, Step, image, trial, early, world, otaPast
<1>15. CASE ClearReason
  BY <1>15 DEF ClearReason, Step, image, trial, early, world, otaPast
<1>16. CASE RadioChanges
  BY <1>16 DEF RadioChanges, image, trial, nvs, early, otaPast
<1>17. CASE OtaRestart
  BY <1>17, ZeroCounts DEF OtaRestart, image, trial, nvs, early, world
<1>18. CASE Crash
  BY <1>18, OtaAssumption DEF Crash, AtMost, image, trial, nvs, early, world
<1>19. CASE PowerCut
  BY <1>19, ZeroCounts DEF PowerCut, image, trial, nvs, world
<1>20. CASE UNCHANGED otaVars
  BY <1>20 DEF otaVars, image, trial, nvs, early, world, otaPast
<1> QED
  BY <1>1, <1>2, <1>3, <1>4, <1>5, <1>6, <1>7, <1>8, <1>9, <1>10, <1>11,
     <1>12, <1>13, <1>14, <1>15, <1>16, <1>17, <1>18, <1>19, <1>20
     DEF OtaNext, OtaBoot, Guard, Health, Update, Hub

\* The trial, the update and the counters keep their types (ota_update.cpp).
THEOREM TrialTypes == OtaSpec => []OtaTypeOK
<1>1. OtaInit => OtaTypeOK
  <2>1. OtaInit => ImageType
    BY DEF OtaInit, ImageType, Slot, Image
  <2>2. OtaInit => TrialType
    BY ZeroCounts DEF OtaInit, TrialType
  <2>3. OtaInit => GuardType
    BY ZeroCounts DEF OtaInit, GuardType
  <2> QED
    BY <2>1, <2>2, <2>3 DEF OtaTypeOK
<1>2. OtaTypeOK /\ [OtaNext]_otaVars => OtaTypeOK'
  BY ImageTyping, TrialTyping, GuardTyping DEF OtaTypeOK
<1> QED
  BY <1>1, <1>2, PTL DEF OtaSpec

-----------------------------------------------------------------------------
(* The slots.                                                              *)

LEMMA SlotStep == OtaTypeOK /\ SlotInv /\ [OtaNext]_otaVars => SlotInv'
<1> SUFFICES ASSUME OtaTypeOK, SlotInv, [OtaNext]_otaVars PROVE SlotInv'
  OBVIOUS
<1>0. /\ slots \in [Slot -> Image] /\ boot \in Slot /\ active \in Slot
      /\ Other(active) \in Slot /\ Other(active) # active
      /\ Other(Other(active)) = active
      /\ Other(boot) \in Slot /\ Other(boot) # boot /\ Other(Other(boot)) = boot
  BY DEF OtaTypeOK, ImageType, Slot, Other
<1> USE DEF SlotInv, FreshBoot, BootSlot, TrialAlone, TrialRuns, AlwaysBootable
<1>1. CASE Bootloader
  <2>1. CASE slots[boot] = "new"
    BY <1>0, <1>1, <2>1 DEF Bootloader
  <2>2. CASE slots[boot] = "trial"
    BY <1>0, <1>1, <2>2 DEF Bootloader
  <2>3. CASE slots[boot] = "kept"
    BY <1>0, <1>1, <2>3 DEF Bootloader
  <2> QED
    BY <2>1, <2>2, <2>3
<1>2. CASE Guard
  <2>1. CASE GuardPasses
    BY <1>2, <2>1 DEF Guard, GuardPasses, image, trial
  <2>2. CASE GuardRollsBack
    BY <1>0, <1>2, <2>2 DEF Guard, GuardRollsBack, CanRollBack, RollBack, trial
  <2>3. CASE GuardEntersSafeMode
    BY <1>2, <2>3 DEF Guard, GuardEntersSafeMode, image, trial
  <2> QED
    BY <1>2, <2>1, <2>2, <2>3 DEF Guard
<1>3. CASE InitOta
  BY <1>3 DEF InitOta, image, early
<1>4. CASE BootLasts
  BY <1>4 DEF BootLasts, image, trial
<1>5. CASE Wait
  BY <1>5 DEF Wait, Tick, image
<1>6. CASE Keep
  BY <1>0, <1>6 DEF Keep, Tick
<1>7. CASE Undo
  <2>1. /\ bootPhase = "up" /\ state = "pending" /\ slots[active] = "trial"
        /\ boot = active /\ slots[Other(active)] = "kept" /\ update = "none"
    BY <1>7 DEF Undo, Tick
  <2>2. CASE RollBack
    BY <1>0, <1>7, <2>1, <2>2 DEF Undo, RollBack
  <2>3. CASE UNCHANGED <<slots, boot, bootPhase>>
    BY <1>0, <1>7, <2>1, <2>3 DEF Undo
  <2> QED
    BY <1>7, <2>2, <2>3 DEF Undo
<1>8. CASE Start
  BY <1>8 DEF Start, Step, image, trial
<1>9. CASE Write
  BY <1>0, <1>9 DEF Write, Step, trial
<1>10. CASE Abort
  BY <1>10 DEF Abort, Step, image, trial
<1>11. CASE Finish
  BY <1>0, <1>11 DEF Finish, Step, trial
<1>12. CASE SaveBaseline
  BY <1>12 DEF SaveBaseline, Step, image, trial
<1>13. CASE ClearReason
  BY <1>13 DEF ClearReason, Step, image, trial
<1>14. CASE RadioChanges
  BY <1>14 DEF RadioChanges, image, trial
<1>15. CASE OtaRestart
  BY <1>15 DEF OtaRestart, image, trial
<1>16. CASE Crash
  BY <1>16 DEF Crash, image, trial
<1>17. CASE PowerCut
  BY <1>17 DEF PowerCut, image, trial
<1>18. CASE UNCHANGED otaVars
  BY <1>18 DEF otaVars, image, trial
<1> QED
  BY <1>1, <1>2, <1>3, <1>4, <1>5, <1>6, <1>7, <1>8, <1>9, <1>10, <1>11, <1>12,
     <1>13, <1>14, <1>15, <1>16, <1>17, <1>18
     DEF OtaNext, OtaBoot, Health, Update, Hub

LEMMA SlotsHold == OtaSpec => [](OtaTypeOK /\ SlotInv)
<1>1. OtaInit => SlotInv
  BY DEF OtaInit, SlotInv, FreshBoot, BootSlot, TrialAlone, TrialRuns, AlwaysBootable,
         Slot, Other
<1> QED
  BY <1>1, TrialTypes, SlotStep, PTL DEF OtaSpec

\* The boot slot always holds an image, and an image without a verdict always
\* has a kept one beside it (the slot switch, the trial and both rollbacks).
THEOREM NeverBricked == OtaSpec => []AlwaysBootable
  BY SlotsHold, PTL DEF SlotInv

-----------------------------------------------------------------------------
(* The verdict.                                                            *)

LEMMA VerdictStep ==
    OtaTypeOK /\ SlotInv /\ VerdictInv /\ [OtaNext]_otaVars => VerdictInv'
<1> SUFFICES ASSUME OtaTypeOK, SlotInv, VerdictInv, [OtaNext]_otaVars PROVE VerdictInv'
  OBVIOUS
<1>0. /\ ticks \in Nat /\ healthy \in Nat /\ faults \in Nat
      /\ SoakTicks \in Nat \ {0} /\ DeadlineTicks \in Nat \ {0}
  BY OtaAssumption DEF OtaTypeOK, TrialType
<1> USE DEF VerdictInv
<1>1. CASE UNCHANGED <<state, ticks, healthy, faults>>
  BY <1>1
<1>2. CASE Bootloader
  BY <1>2 DEF Bootloader
<1>3. CASE Guard
  <2>1. CASE UNCHANGED faults
    BY <1>3, <2>1 DEF Guard, trial
  <2>2. CASE FlashFault
    BY <1>0, <1>3, <2>2 DEF Guard, FlashFault, trial
  <2> QED
    BY <1>3, <2>1, <2>2
       DEF Guard, GuardPasses, GuardRollsBack, GuardEntersSafeMode
<1>4. CASE InitOta
  <2>1. ticks' = 0 /\ healthy' = 0 /\ faults' = faults
    BY <1>4 DEF InitOta, SlotInv, FreshBoot, world
  <2> QED
    BY <1>0, <2>1
<1>5. CASE Wait
  <2>1. /\ state = "pending" /\ ticks' = ticks + 1
        /\ \/ healthy' = healthy + 1 /\ healthy' < SoakTicks /\ faults' = faults
           \/ healthy' = healthy + 1 /\ faults' = faults + 1
           \/ healthy' = 0 /\ ~(ticks' >= DeadlineTicks) /\ faults' = faults
    BY <1>5 DEF Wait, Tick, Count, Late, FlashFault
  <2> QED
    BY <1>0, <2>1
<1>6. CASE Keep
  BY <1>6 DEF Keep
<1>7. CASE Undo
  BY <1>7 DEF Undo
<1> QED
  BY <1>1, <1>2, <1>3, <1>4, <1>5, <1>6, <1>7
     DEF OtaNext, OtaBoot, Health, Update, Hub, BootLasts, Start, Write, Abort, Finish,
         SaveBaseline, ClearReason, RadioChanges, OtaRestart, Crash, PowerCut,
         otaVars, trial, world

\* No trial outlasts its deadline by more than a soak and the verdicts that
\* would not write: health that comes and goes cannot keep it open.
THEOREM VerdictComesInTime == OtaSpec => []VerdictInTime
<1>1. OtaInit => VerdictInv
  BY DEF OtaInit, VerdictInv
<1>2. OtaTypeOK /\ VerdictInv => VerdictInTime
  BY OtaAssumption DEF OtaTypeOK, TrialType, VerdictInv, VerdictInTime
<1> QED
  BY <1>1, <1>2, SlotsHold, VerdictStep, PTL DEF OtaSpec

-----------------------------------------------------------------------------
(* The crash loop.                                                         *)

LEMMA RowStep == OtaTypeOK /\ RowInv /\ [OtaNext]_otaVars => RowInv'
<1> SUFFICES ASSUME OtaTypeOK, RowInv, [OtaNext]_otaVars PROVE RowInv'
  OBVIOUS
<1>0. /\ row \in Nat /\ count \in Nat /\ MaxCount \in Nat /\ count <= MaxCount
      /\ row <= MaxCount /\ EarlyCrashes \in Nat \ {0}
      /\ EarlyCount \in Nat /\ EarlyCount <= MaxCount
      /\ bootPhase \in {"off", "guard", "booting", "up"}
  BY CountTyped, OtaAssumption DEF OtaTypeOK, GuardType, TrialType
<1>1. CASE UNCHANGED <<bootPhase, crashed, magic, earlyArmed, count, safe, row>>
  BY <1>1 DEF RowInv, EarlyCount
<1>2. CASE Bootloader
  <2>1. row' \in {row, 0} /\ bootPhase' = "guard" /\ bootPhase = "off"
    BY <1>2 DEF Bootloader
  <2>2. EarlyCount' = EarlyCount
    BY <1>2 DEF Bootloader, EarlyCount
  <2> QED
    BY <1>0, <2>1, <2>2 DEF RowInv
<1>3. CASE Guard
  <2>0. bootPhase = "guard" /\ magic' /\ earlyArmed' /\ row <= EarlyCount
    BY <1>3 DEF Guard, RowInv
  <2>1. CASE GuardPasses
    BY <1>0, <2>0, <2>1 DEF GuardPasses, Loops, RowInv
  <2>2. CASE GuardRollsBack
    <3>1. bootPhase' = "off" /\ row' = 0 /\ ~crashed'
      BY <2>2 DEF GuardRollsBack, RollBack
    <3>2. EarlyCount' = 0
      BY <3>1 DEF EarlyCount
    <3> QED
      BY <3>1, <3>2 DEF RowInv
  <2>3. CASE GuardEntersSafeMode
    <3>1. bootPhase' = "booting" /\ safe'
      BY <2>3 DEF GuardEntersSafeMode
    <3>2. row' = 0 \/ (row' = row /\ count' = EarlyCount)
      BY <2>3 DEF GuardEntersSafeMode
    <3> QED
      BY <2>0, <3>1, <3>2 DEF RowInv
  <2> QED
    BY <1>3, <2>1, <2>2, <2>3 DEF Guard
<1>4. CASE InitOta
  BY <1>4 DEF InitOta, RowInv, early, otaPast
<1>5. CASE BootLasts
  BY <1>0, <1>5 DEF BootLasts, RowInv
<1>6. CASE Undo
  <2>1. CASE RollBack
    <3>1. bootPhase' = "off" /\ row' = 0 /\ EarlyCount' = 0
      BY <2>1 DEF RollBack, EarlyCount
    <3> QED
      BY <3>1 DEF RowInv
  <2>2. CASE UNCHANGED <<bootPhase, crashed, row>>
    BY <1>6, <2>2 DEF Undo, RowInv, EarlyCount, early
  <2> QED
    BY <1>6, <2>1, <2>2 DEF Undo
<1>7. CASE OtaRestart \/ PowerCut
  <2>1. bootPhase' = "off" /\ row' = 0 /\ EarlyCount' = 0
    BY <1>7 DEF OtaRestart, PowerCut, EarlyCount
  <2> QED
    BY <2>1 DEF RowInv
<1>8. CASE Crash
  <2>0. /\ bootPhase' = "off" /\ crashed' /\ UNCHANGED <<magic, earlyArmed, count>>
        /\ bootPhase # "off"
    BY <1>8 DEF Crash, early
  <2>1. CASE bootPhase = "guard"
    <3>1. row' = row /\ row <= EarlyCount
      BY <1>8, <2>1 DEF Crash, RowInv
    <3>2. EarlyCount' \in {EarlyCount, AtMost(count + 1, MaxCount)}
             /\ (EarlyCount' = 0 => EarlyCount = 0)
      BY <2>0 DEF EarlyCount
    <3>3. EarlyCount' = EarlyCount \/ EarlyCount = 0
      BY <2>0 DEF EarlyCount
    <3>4. EarlyCount' \in Nat
      BY <1>0, <3>2 DEF AtMost
    <3> QED
      BY <1>0, <2>0, <3>1, <3>3, <3>4 DEF RowInv
  <2>2. CASE bootPhase # "guard" /\ earlyArmed /\ row <= count
    <3>1. magic
      BY <1>0, <2>0, <2>2 DEF RowInv
    <3>2. row' = AtMost(row + 1, MaxCount) /\ EarlyCount' = AtMost(count + 1, MaxCount)
      BY <1>8, <2>0, <2>2, <3>1 DEF Crash, EarlyCount
    <3> QED
      BY <1>0, <2>0, <2>2, <3>2 DEF RowInv, AtMost
  <2>3. CASE bootPhase # "guard" /\ row = 0 /\ earlyArmed
    BY <1>0, <2>0, <2>2, <2>3
  <2>4. CASE bootPhase # "guard" /\ row = 0 /\ ~earlyArmed
    <3>1. row' = 0 /\ EarlyCount' = 0
      BY <1>8, <2>0, <2>4 DEF Crash, EarlyCount
    <3> QED
      BY <2>0, <3>1 DEF RowInv
  <2> QED
    BY <1>0, <2>0, <2>1, <2>2, <2>3, <2>4 DEF RowInv
<1> QED
  BY <1>1, <1>2, <1>3, <1>4, <1>5, <1>6, <1>7, <1>8
     DEF OtaNext, OtaBoot, Health, Update, Hub, Wait, Keep, Start, Write, Abort, Finish,
         SaveBaseline, ClearReason, RadioChanges, otaVars, early, otaPast

\* An image that crashes early again and again is left, or runs in safe mode,
\* at the kEarlyCrashes-th crash, with writes that fail, restarts and power
\* cuts in between (ota_update_boot_guard).
THEOREM CrashLoopsEnd == OtaSpec => []CrashLoopEnds
<1>1. OtaInit => RowInv
  BY OtaAssumption DEF OtaInit, RowInv, EarlyCount
<1>2. RowInv => CrashLoopEnds
  BY DEF RowInv, CrashLoopEnds
<1> QED
  BY <1>1, <1>2, TrialTypes, RowStep, PTL DEF OtaSpec

=============================================================================
