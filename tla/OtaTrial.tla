------------------------------- MODULE OtaTrial -------------------------------
(***************************************************************************)
(* The hub updates itself (ota_update.cpp): the download into the idle     *)
(* slot, the trial of the new image and its verdict, and the guard that    *)
(* ends a loop of early crashes by a rollback or by safe mode -- across    *)
(* crashes, restarts and power cuts, and with writes of the boot metadata  *)
(* that fail.                                                              *)
(***************************************************************************)
EXTENDS Naturals

CONSTANTS
    SoakTicks,      \* kSoakS / kHealthTickS (60): healthy ticks in a row
    DeadlineTicks,  \* kHealthDeadlineS / kHealthTickS (120)
    EarlyCrashes,   \* kEarlyCrashes (3)
    MaxCount,       \* bound: where the model stops counting crashes
    MaxFaults       \* bound: writes of the boot metadata that fail

ASSUME OtaAssumption ==
    /\ SoakTicks \in Nat \ {0} /\ DeadlineTicks \in Nat \ {0}
    /\ EarlyCrashes \in Nat \ {0} /\ MaxCount \in Nat /\ MaxCount >= EarlyCrashes
    /\ MaxFaults \in Nat

VARIABLES
    slots,    \* what the boot metadata and the flash say of the image in each slot
    boot,     \* the slot the bootloader starts next
    active,   \* the slot that runs
    bootPhase,    \* how far this boot is
    crashed,  \* did the last boot end in a crash? (crash_reset)
    state,    \* s_state
    ticks,    \* s_health_ticks
    healthy,  \* s_healthy_ticks
    update,   \* how far TaskOTA is; s_busy unless "none"
    radioOk,  \* ota_radio_ok in NVS
    why,      \* ota_rb_why in NVS
    magic,    \* s_early_magic is kEarlyMagic
    earlyArmed,    \* s_early_armed
    count,    \* s_early_count
    safe,     \* s_safe_mode
    radio,    \* radio_ok()
    faults,   \* writes of the boot metadata that failed
    worked,   \* did the radio work when the last update was written?
    row       \* early crashes of the running image in a row, since the guard last acted

image  == <<slots, boot, active>>
trial  == <<state, ticks, healthy>>
nvs    == <<radioOk, why>>
early  == <<magic, earlyArmed, count, safe>>
world  == <<radio, faults>>
otaPast == <<worked, row>>
otaVars   == <<image, bootPhase, crashed, trial, update, nvs, early, world, otaPast>>

-----------------------------------------------------------------------------

Slot == {0, 1}
Other(s) == 1 - s

\* "new" has never run; "trial" runs, or ran, without a verdict; "undone" was
\* rolled back; "kept" has a verdict, or came over USB.
Image == {"empty", "new", "trial", "kept", "undone"}

ImageType == slots \in [Slot -> Image] /\ boot \in Slot /\ active \in Slot

TrialType ==
    /\ bootPhase \in {"off", "guard", "booting", "up"}
    /\ state \in {"verified", "pending", "rolling_back"}
    /\ ticks \in Nat /\ healthy \in Nat
    /\ update \in {"none", "asked", "writing", "written", "saved", "cleared"}
    /\ radioOk \in BOOLEAN /\ why \in {"none", "unhealthy", "crashes"}
    /\ radio \in BOOLEAN /\ faults \in 0..MaxFaults

GuardType ==
    /\ crashed \in BOOLEAN /\ magic \in BOOLEAN /\ earlyArmed \in BOOLEAN
    /\ count \in 0..MaxCount /\ safe \in BOOLEAN
    /\ worked \in BOOLEAN
    /\ row \in 0..MaxCount

OtaTypeOK == ImageType /\ TrialType /\ GuardType

\* A hub flashed over USB, switched on: its RAM holds anything but the magic.
OtaInit ==
    /\ slots = [s \in Slot |-> IF s = 0 THEN "kept" ELSE "empty"]
    /\ boot = 0 /\ active = 0
    /\ bootPhase = "off" /\ crashed = FALSE
    /\ state = "verified" /\ ticks = 0 /\ healthy = 0
    /\ update = "none"
    /\ radioOk = FALSE /\ why = "none"
    /\ magic = FALSE /\ earlyArmed \in BOOLEAN /\ count \in 0..MaxCount /\ safe = FALSE
    /\ radio = FALSE /\ faults = 0
    /\ worked = FALSE /\ row = 0

AtMost(a, b) == IF a < b THEN a ELSE b

-----------------------------------------------------------------------------
(* The bootloader and the boot metadata (ESP-IDF, with app rollback on).   *)

\* esp_ota_check_rollback_is_possible: the other slot holds a bootable image.
CanRollBack == slots[Other(active)] = "kept"

FlashFault == faults < MaxFaults /\ faults' = faults + 1

\* esp_ota_mark_app_invalid_rollback_and_reboot, when it works.
RollBack ==
    /\ slots' = [slots EXCEPT ![active] = "undone"]
    /\ boot' = Other(active)
    /\ bootPhase' = "off" /\ crashed' = FALSE
    /\ row' = 0

\* A new image gets its trial; one that comes back without a verdict does not
\* get another.  Every boot starts with the variables of the program reset.
Bootloader ==
    /\ bootPhase = "off"
    /\ LET again == slots[boot] = "trial"
           s     == IF again THEN Other(boot) ELSE boot
       IN  /\ boot' = s /\ active' = s
           /\ slots' = [slots EXCEPT ![boot] = CASE @ = "new"   -> "trial"
                                                 [] @ = "trial" -> "undone"
                                                 [] OTHER       -> @]
           /\ row' = IF s = active THEN row ELSE 0
    /\ bootPhase' = "guard"
    /\ state' = "verified" /\ ticks' = 0 /\ healthy' = 0
    /\ update' = "none" /\ safe' = FALSE /\ radio' = FALSE
    /\ UNCHANGED <<crashed, nvs, magic, earlyArmed, count, faults, worked>>

-----------------------------------------------------------------------------
(* ota_update_boot_guard.                                                  *)

\* Mutant of EarlyCount: it starts again where the guard should act.
EarlyCountWraps ==
    IF magic /\ crashed /\ earlyArmed THEN (count + 1) % EarlyCrashes ELSE 0

\* Boots in a row that crashed early, this reset included.
EarlyCount == IF magic /\ crashed /\ earlyArmed THEN AtMost(count + 1, MaxCount) ELSE 0

Loops == EarlyCount >= EarlyCrashes

GuardPasses ==
    /\ ~Loops
    /\ count' = EarlyCount
    /\ bootPhase' = "booting"
    /\ UNCHANGED <<image, crashed, why, safe, faults, row>>

\* Mutant of GuardRollsBack: without esp_ota_check_rollback_is_possible.
GuardRollsBackBlind ==
    /\ Loops
    /\ count' = 0 /\ why' = "crashes"
    /\ RollBack
    /\ UNCHANGED <<active, safe, faults>>

GuardRollsBack ==
    /\ Loops /\ CanRollBack
    /\ count' = 0 /\ why' = "crashes"
    /\ RollBack
    /\ UNCHANGED <<active, safe, faults>>

\* Safe mode: there is nothing to go back to, or going back fails.
GuardEntersSafeMode ==
    /\ Loops
    /\ \/ ~CanRollBack /\ count' = EarlyCount /\ UNCHANGED <<why, faults, row>>
       \/ CanRollBack /\ FlashFault /\ count' = 0 /\ why' = "crashes" /\ row' = 0
    /\ safe' = TRUE
    /\ bootPhase' = "booting"
    /\ UNCHANGED <<image, crashed>>

Guard ==
    /\ bootPhase = "guard"
    /\ magic' = TRUE /\ earlyArmed' = TRUE
    /\ GuardPasses \/ GuardRollsBack \/ GuardEntersSafeMode
    /\ UNCHANGED <<trial, update, radioOk, radio, worked>>

\* The early_guard timer: this boot lasted.
BootLasts ==
    /\ bootPhase \in {"booting", "up"} /\ earlyArmed
    /\ earlyArmed' = FALSE /\ count' = 0 /\ row' = 0
    /\ UNCHANGED <<image, bootPhase, crashed, trial, update, nvs, magic, safe,
                   world, worked>>

-----------------------------------------------------------------------------
(* The trial.                                                              *)

\* ota_update_init.
InitOta ==
    /\ bootPhase = "booting" /\ bootPhase' = "up"
    /\ state' = IF slots[active] = "trial" THEN "pending" ELSE "verified"
    /\ UNCHANGED <<image, crashed, ticks, healthy, update, nvs, early, world, otaPast>>

\* Mutant of Count: the deadline starts again with every unhealthy tick.
CountRestarts(fit) ==
    /\ ticks' = IF fit THEN ticks + 1 ELSE 0
    /\ healthy' = IF fit THEN healthy + 1 ELSE 0

Count(fit) ==
    /\ ticks' = ticks + 1
    /\ healthy' = IF fit THEN healthy + 1 ELSE 0

\* health_problem finds none: the radio counts if it worked before the update,
\* the rest (`rest`: NVS, web server, event task, sign-in) always.
Fit(rest) == rest /\ (radioOk => radio)

Late == ticks' >= DeadlineTicks

\* The health timer runs during the trial only; the early guard's two minutes
\* are over before the soak of five is.
Tick(fit) ==
    /\ bootPhase = "up" /\ state = "pending"
    /\ earlyArmed => ticks + 1 < SoakTicks
    /\ Count(fit)

\* health_tick without a verdict: soaking, or the verdict would not write, or
\* unhealthy before the deadline.
Wait ==
    /\ \E rest \in BOOLEAN :
          /\ Tick(Fit(rest))
          /\ \/ Fit(rest) /\ healthy' < SoakTicks /\ UNCHANGED faults
             \/ Fit(rest) /\ healthy' >= SoakTicks /\ FlashFault
             \/ ~Fit(rest) /\ ~Late /\ UNCHANGED faults
    /\ UNCHANGED <<image, bootPhase, crashed, state, update, nvs, early, radio, otaPast>>

\* health_tick, healthy long enough: the image is kept.
Keep ==
    /\ Fit(TRUE) /\ Tick(TRUE)
    /\ healthy' >= SoakTicks
    /\ slots' = [slots EXCEPT ![active] = "kept"]
    /\ state' = "verified" /\ why' = "none"
    /\ UNCHANGED <<boot, active, bootPhase, crashed, update, radioOk, early, world, otaPast>>

\* health_tick, unhealthy at the deadline: back to the other image; if the
\* metadata does not write, the hub runs on.
Undo ==
    /\ \E rest \in BOOLEAN : ~Fit(rest) /\ Tick(FALSE)
    /\ Late
    /\ state' = "rolling_back" /\ why' = "unhealthy"
    /\ \/ RollBack /\ UNCHANGED faults
       \/ FlashFault /\ UNCHANGED <<slots, boot, bootPhase, crashed, row>>
    /\ UNCHANGED <<active, update, radioOk, early, radio, worked>>

-----------------------------------------------------------------------------
(* An update: ota_update_start and TaskOTA.                                *)

Step(from, to) == bootPhase = "up" /\ update = from /\ update' = to

\* ota_update_start: not while one runs, not during a trial.
Start ==
    /\ state # "pending" /\ Step("none", "asked")
    /\ UNCHANGED <<image, bootPhase, crashed, trial, nvs, early, world, otaPast>>

\* The first block arrives: the idle slot is erased.  ESP-IDF refuses to write
\* an update from an image that has no verdict.
Write ==
    /\ slots[active] # "trial" /\ Step("asked", "writing")
    /\ slots' = [slots EXCEPT ![Other(active)] = "empty"]
    /\ UNCHANGED <<boot, active, bootPhase, crashed, trial, nvs, early, world, otaPast>>

\* Refused (redirect, image check), broken off, or not valid.
Abort ==
    /\ Step("asked", "none") \/ Step("writing", "none")
    /\ UNCHANGED <<image, bootPhase, crashed, trial, nvs, early, world, otaPast>>

\* esp_https_ota_finish: the boot slot is switched.
Finish ==
    /\ Step("writing", "written")
    /\ slots' = [slots EXCEPT ![Other(active)] = "new"]
    /\ boot' = Other(active)
    /\ worked' = radio
    /\ UNCHANGED <<active, bootPhase, crashed, trial, nvs, early, world, row>>

\* nvs_put_u8(ota_radio_ok).
SaveBaseline ==
    /\ Step("written", "saved")
    /\ radioOk' = radio
    /\ UNCHANGED <<image, bootPhase, crashed, trial, why, early, world, otaPast>>

\* nvs_put_str(ota_rb_why); the restart two seconds later is one of OtaRestart's.
ClearReason ==
    /\ Step("saved", "cleared")
    /\ why' = "none"
    /\ UNCHANGED <<image, bootPhase, crashed, trial, radioOk, early, world, otaPast>>

-----------------------------------------------------------------------------
(* The hub around it.                                                      *)

\* The radio comes and goes (not in the instant the baseline is taken).
RadioChanges ==
    /\ bootPhase = "up" /\ update # "written"
    /\ radio' = ~radio
    /\ UNCHANGED <<image, bootPhase, crashed, trial, update, nvs, early, faults, otaPast>>

\* esp_restart, by anything but the guard.
OtaRestart ==
    /\ bootPhase \in {"booting", "up"}
    /\ bootPhase' = "off" /\ crashed' = FALSE /\ row' = 0
    /\ UNCHANGED <<image, trial, update, nvs, early, world, worked>>

\* A panic or a watchdog.
Crash ==
    /\ bootPhase # "off"
    /\ bootPhase' = "off" /\ crashed' = TRUE
    /\ row' = IF bootPhase # "guard" /\ earlyArmed THEN AtMost(row + 1, MaxCount) ELSE row
    /\ UNCHANGED <<image, trial, update, nvs, early, world, worked>>

\* Power, the reset pin, a brownout: with or without the RAM's content.
PowerCut ==
    /\ bootPhase' = "off" /\ crashed' = FALSE /\ row' = 0
    /\ magic' \in {magic, FALSE}
    /\ UNCHANGED <<image, trial, update, nvs, earlyArmed, count, safe, world, worked>>

OtaBoot   == Bootloader \/ Guard \/ InitOta \/ BootLasts
Health == Wait \/ Keep \/ Undo
Update == Start \/ Write \/ Abort \/ Finish \/ SaveBaseline \/ ClearReason
Hub    == RadioChanges \/ OtaRestart \/ Crash \/ PowerCut

OtaNext == OtaBoot \/ Health \/ Update \/ Hub

OtaSpec == OtaInit /\ [][OtaNext]_otaVars

(* A hub with power boots, and its esp_timers fire; nothing else is fair.  *)
OtaFairSpec == OtaSpec /\ WF_otaVars(OtaBoot) /\ WF_otaVars(Health)

-----------------------------------------------------------------------------

\* Whatever crash, power cut or failing write comes between two steps, the hub
\* starts: the boot slot holds an image, and one without a verdict has a kept
\* one beside it to go back to (Write, Finish, the guard and the trial).
AlwaysBootable ==
    /\ slots[boot] \in {"new", "trial", "kept"}
    /\ slots[boot] # "kept" => slots[Other(boot)] = "kept"

\* A trial is over at the deadline, or one soak after the last unhealthy tick
\* before it, later only by the verdicts that would not write (health_tick).
VerdictInTime ==
    state = "pending" =>
        ticks <= (DeadlineTicks - 1) + (SoakTicks - 1) + faults

\* An image that crashes soon after every boot does not go round for ever: at
\* kEarlyCrashes in a row the hub is back on the other image or in safe mode,
\* although the count lives in RAM that restarts and rollbacks rewrite.
CrashLoopEnds ==
    bootPhase \in {"booting", "up"} /\ row >= EarlyCrashes => safe

\* Every trial gets a verdict, with health coming and going, crashes at any
\* time, and writes of it that fail and are tried again (review F32).
TrialEnds == state = "pending" ~> state # "pending"

-----------------------------------------------------------------------------
(* What the comments and the README promise and the code does not keep.    *)

\* ota_update.cpp: if the radio worked before the update, it works now -- or
\* the image is not kept.
KeepNeedsOldRadio == [][Keep /\ worked => radio]_otaVars

=============================================================================
