------------------------------ MODULE BootGuard ------------------------------
(***************************************************************************)
(* When a boot runs without the radio, and when it tries the radio again:  *)
(* the guard in no-init RAM (esp_zb_boot_guard.h) driven by zb_init, the   *)
(* Zigbee task and the stack's signals (esp_zigbee_backend.cpp), across    *)
(* crashes, restarts and power cycles.                                     *)
(***************************************************************************)
EXTENDS Naturals

CONSTANTS
    KTrips,         \* kTrips (3)
    MaxRetries      \* where `retries` saturates (255)

ASSUME GuardAssumption ==
    KTrips \in Nat \ {0} /\ MaxRetries \in Nat

VARIABLES
    valid,         \* s_guard.magic is kMagic
    armed,         \* s_guard.armed
    crashes,       \* s_guard.crashes
    retries,       \* s_guard.retries
    phase,         \* how far this boot's radio is
    retryIn,       \* seconds the zb_retry timer was started with, 0 if it was not
    cause,         \* esp_reset_reason of the next boot, as reset_kind sorts it
    radioCrashes,  \* crashes while the radio started, since it last worked
    lastDelay,     \* the last delay before a retry, since the radio last worked
    skipped,       \* did the last boot that asked the guard run without the radio?
    faulted        \* was zb_storage unreadable at a boot, since the radio last worked?

guard  == <<valid, armed, crashes, retries>>
past   == <<radioCrashes, lastDelay, skipped, faulted>>
guardVars == <<guard, phase, retryIn, cause, past>>

-----------------------------------------------------------------------------

Reset == {"CRASH", "RESTART", "OTHER"}

\* "starting": armed, TaskZigbee not created yet; "running": its main loop runs
\* without a network; "up": with one; "exited": the loop ended within its first
\* minute while zb_init still waits for a network; the rest: no radio this boot.
Down  == {"storage", "skipped", "failed"}
Phase == {"reset", "starting", "running", "up", "exited"} \cup Down

DelaySet == {600, 3600, 21600}

GuardTypeOK ==
    /\ valid \in BOOLEAN /\ armed \in BOOLEAN
    /\ crashes \in 0..KTrips /\ retries \in 0..MaxRetries
    /\ phase \in Phase
    /\ retryIn \in DelaySet \cup {0}
    /\ cause \in Reset
    /\ radioCrashes \in Nat
    /\ lastDelay \in DelaySet \cup {0}
    /\ skipped \in BOOLEAN /\ faulted \in BOOLEAN

\* Power comes on: the RAM holds anything but the magic.
GuardInit ==
    /\ valid = FALSE /\ armed \in BOOLEAN
    /\ crashes \in 0..KTrips /\ retries \in 0..MaxRetries
    /\ phase = "reset" /\ retryIn = 0 /\ cause = "OTHER"
    /\ radioCrashes = 0 /\ lastDelay = 0 /\ skipped = FALSE /\ faulted = FALSE

-----------------------------------------------------------------------------
(* BootGuard: what on_boot leaves of the counters after a reset of kind r. *)

Least(a, b) == IF a < b THEN a ELSE b

Cleared(r) == r = "OTHER" \/ ~valid

\* Mutant of CrashesAtBoot: any crash counts, armed or not.
CrashesAtBootAny(r) ==
    CASE Cleared(r)                  -> 0
      [] ~Cleared(r) /\ r = "CRASH" -> Least(crashes + 1, KTrips)
      [] OTHER                       -> Least(crashes, KTrips - 1)

CrashesAtBoot(r) ==
    CASE Cleared(r)                  -> 0
      [] ~Cleared(r) /\ r = "CRASH" -> IF armed THEN Least(crashes + 1, KTrips) ELSE 0
      [] OTHER                       -> Least(crashes, KTrips - 1)

RetriesAtBoot(r) == IF Cleared(r) THEN 0 ELSE retries

\* next_retry_s.
NextRetry(n) == IF n = 0 THEN 600 ELSE IF n = 1 THEN 3600 ELSE 21600

\* Mutant of ScheduleRetry: the timer is never started.
ScheduleRetryNever(n) == UNCHANGED <<retryIn, lastDelay>>

\* schedule_radio_retry, after n retries.
ScheduleRetry(n) == retryIn' = NextRetry(n) /\ lastDelay' = NextRetry(n)

-----------------------------------------------------------------------------
(* One boot.                                                               *)

\* zb_init finds zb_storage unreadable: it returns before the guard is asked.
StorageError ==
    /\ phase = "reset"
    /\ phase' = "storage" /\ retryIn' = 0 /\ faulted' = TRUE
    /\ UNCHANGED <<guard, cause, radioCrashes, lastDelay, skipped>>

\* zb_init asks the guard: without the radio, or arm it and start.
AskGuard ==
    /\ phase = "reset"
    /\ valid' = TRUE
    /\ crashes' = CrashesAtBoot(cause)
    /\ retries' = RetriesAtBoot(cause)
    /\ skipped' = (crashes' >= KTrips)
    /\ armed' = ~skipped'
    /\ IF skipped'
       THEN phase' = "skipped" /\ ScheduleRetry(retries')
       ELSE phase' = "starting" /\ retryIn' = 0 /\ UNCHANGED lastDelay
    /\ UNCHANGED <<cause, radioCrashes, faulted>>

\* esp_zigbee_init, esp_zigbee_start or the task's creation fails.
RadioFails ==
    /\ phase = "starting"
    /\ armed' = FALSE
    /\ phase' = "failed" /\ ScheduleRetry(retries)
    /\ UNCHANGED <<valid, crashes, retries, cause, radioCrashes, skipped, faulted>>

TaskRuns ==
    /\ phase = "starting"
    /\ phase' = "running"
    /\ UNCHANGED <<guard, retryIn, cause, past>>

\* A network: the stack's signal, or zb_init sees a PAN at its end -- which it
\* may do after the main loop has ended.
NetworkUp ==
    /\ phase \in {"running", "exited"}
    /\ armed' = FALSE /\ crashes' = 0 /\ retries' = 0
    /\ phase' = IF phase = "running" THEN "up" ELSE "failed"
    /\ radioCrashes' = 0 /\ lastDelay' = 0 /\ faulted' = FALSE
    /\ UNCHANGED <<valid, retryIn, cause, skipped>>

\* zb_init gives up waiting for a network after the main loop has ended.
NoNetwork ==
    /\ phase = "exited" /\ phase' = "failed"
    /\ UNCHANGED <<guard, retryIn, cause, past>>

\* The main loop ends within its first minute.
ExitsEarly ==
    /\ phase \in {"running", "up"}
    /\ armed' = FALSE
    /\ phase' \in {"exited", "failed"} /\ ScheduleRetry(retries)
    /\ UNCHANGED <<valid, crashes, retries, cause, radioCrashes, skipped, faulted>>

-----------------------------------------------------------------------------
(* How a boot ends.                                                        *)

Reboot(r) == phase # "reset" /\ phase' = "reset" /\ retryIn' = 0 /\ cause' = r

\* The main loop ends later than that, the owner, an update or the supervisor
\* restarts the hub.
Restart ==
    /\ Reboot("RESTART")
    /\ UNCHANGED <<guard, past>>

\* The zb_retry timer: retrying, then esp_restart.
RetryFires ==
    /\ retryIn # 0 /\ Reboot("RESTART")
    /\ retries' = Least(retries + 1, MaxRetries)
    /\ UNCHANGED <<valid, armed, crashes, past>>

\* A panic or a watchdog, the radio's or not.
CrashReset ==
    /\ Reboot("CRASH")
    /\ radioCrashes' = IF phase \in {"starting", "running"}
                       THEN Least(radioCrashes + 1, KTrips) ELSE radioCrashes
    /\ UNCHANGED <<guard, lastDelay, skipped, faulted>>

\* Power, the reset pin, a brownout: with or without the RAM's content.
OtherReset ==
    /\ Reboot("OTHER")
    /\ valid' \in {valid, FALSE}
    /\ radioCrashes' = 0 /\ lastDelay' = 0 /\ skipped' = FALSE /\ faulted' = FALSE
    /\ UNCHANGED <<armed, crashes, retries>>

GuardNext ==
        \/ StorageError \/ AskGuard \/ RadioFails \/ TaskRuns
        \/ NetworkUp \/ NoNetwork \/ ExitsEarly
        \/ Restart \/ RetryFires \/ CrashReset \/ OtherReset

GuardSpec == GuardInit /\ [][GuardNext]_guardVars

(* A hub with power boots, and its esp_timer fires.  Nothing else is fair: *)
(* the radio may never start, nobody needs to restart the hub.             *)
GuardFairSpec == GuardSpec /\ WF_guardVars(AskGuard) /\ WF_guardVars(RetryFires)

-----------------------------------------------------------------------------

\* A boot skips the radio only after kTrips crashes while the radio was really
\* starting, none of them before it last worked: crashes of other parts of the
\* hub, in whatever order with restarts and retries, never cost it its radio
\* (esp_zb_boot_guard.h) -- as long as zb_storage could be read at every boot since.
SkipNeedsRadioCrashes == phase = "skipped" /\ ~faulted => radioCrashes >= KTrips

\* The guard never skips the radio in two boots in a row: whatever ends a boot
\* without it, the next one tries (on_boot of the three kinds of reset).
NeverSkipsTwice == [][skipped /\ phase = "reset" => phase' # "skipped"]_guardVars

\* While the radio does not work, the delay before the next try only grows.
BackoffGrows == [][retryIn' # 0 /\ retryIn' # retryIn => retryIn' >= lastDelay]_guardVars

\* A radio that is down is tried again, with nobody there to restart the hub, unless the
\* next boot cannot read zb_storage: then nothing is scheduled.
DownIsTriedAgain ==
    phase \in {"skipped", "failed", "exited"} ~> phase \in {"starting", "storage"}

=============================================================================
