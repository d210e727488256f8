-------------------------------- MODULE Radio --------------------------------
(* The Zigbee stack's life within a boot (esp_zigbee_backend.cpp: zb_init on app_main's    *)
(* task, task_zigbee, the stack's signals), the heartbeat taken on its task, and the       *)
(* supervisor that restarts the hub when the heartbeat stops.  BootGuard decides whether   *)
(* zb_init gets as far as the radio; here it does.                                         *)
EXTENDS Naturals

CONSTANT Stall        \* kStallUs, in steps of the clock

ASSUME StallAssumption == Stall \in Nat \ {0}

VARIABLES
    dataset,          \* zb_storage holds a network
    initAt,           \* where zb_init is
    loop,             \* where task_zigbee is; "stuck": the main loop hangs
    pan, job,         \* the stack: it has a PAN; the commissioning it was asked for
    running, formed,  \* s_running, s_formed
    hbTimer, pending,   \* s_hb_timer, s_hb_pending
    posted,           \* a stamp is in the stack's task queue
    hb, quiet,        \* s_hb_us # 0; the clock since it was taken
    aged,             \* the main loop has run for kMainloopRebootMinUptimeS
    retry             \* schedule_radio_retry's timer runs

netSide   == <<dataset, pan, job>>
beatVars  == <<hbTimer, pending, posted, hb, quiet>>
aliveVars == <<running, formed>>
stackVars == <<netSide, initAt, loop, aliveVars, beatVars, aged, retry>>

RadioTypeOK ==
    /\ dataset \in BOOLEAN /\ pan \in BOOLEAN /\ job \in {"none", "form", "init"}
    /\ initAt \in {"start", "create", "beat", "poll", "wait", "last", "done"}
    /\ loop \in {"none", "begin", "run", "stuck", "left", "unformed", "stopped", "old", "gone"}
    /\ running \in BOOLEAN /\ formed \in BOOLEAN
    /\ hbTimer \in {"none", "on", "off"} /\ pending \in BOOLEAN /\ posted \in BOOLEAN
    /\ hb \in BOOLEAN /\ quiet \in 0..Stall /\ aged \in BOOLEAN /\ retry \in BOOLEAN

Fresh ==
    /\ initAt = "start" /\ loop = "none" /\ pan = FALSE /\ job = "none"
    /\ running = FALSE /\ formed = FALSE
    /\ hbTimer = "none" /\ pending = FALSE /\ posted = FALSE /\ hb = FALSE /\ quiet = 0
    /\ aged = FALSE /\ retry = FALSE

RadioInit == dataset \in BOOLEAN /\ Fresh

\* esp_restart, by whoever: RAM starts anew.
Anew ==
    /\ initAt' = "start" /\ loop' = "none" /\ pan' = FALSE /\ job' = "none"
    /\ running' = FALSE /\ formed' = FALSE
    /\ hbTimer' = "none" /\ pending' = FALSE /\ posted' = FALSE /\ hb' = FALSE /\ quiet' = 0
    /\ aged' = FALSE /\ retry' = FALSE /\ UNCHANGED dataset

-----------------------------------------------------------------------------
(* zb_init. *)

\* The radio does not start: the hub runs without it until the retry.
StartFails ==
    /\ initAt = "start" /\ initAt' = "done" /\ retry' = TRUE
    /\ UNCHANGED <<netSide, loop, aliveVars, beatVars, aged>>

\* Running before the task exists: the task may be through before zb_init goes on.
StartStack ==
    /\ initAt = "start" /\ running' = TRUE /\ initAt' = "create"
    /\ UNCHANGED <<netSide, loop, formed, beatVars, aged, retry>>

CreateTask ==
    /\ initAt = "create" /\ initAt' = "beat" /\ loop' = "begin"
    /\ UNCHANGED <<netSide, aliveVars, beatVars, aged, retry>>

CreateFails ==
    /\ initAt = "create" /\ initAt' = "done" /\ running' = FALSE /\ retry' = TRUE
    /\ UNCHANGED <<netSide, loop, formed, beatVars, aged>>

HeartbeatStart ==
    /\ initAt = "beat" /\ initAt' = "poll" /\ hbTimer' \in {"none", "on"}
    /\ UNCHANGED <<netSide, loop, aliveVars, pending, posted, hb, quiet, aged, retry>>

\* zb_network_ready: the flag, or the stack itself if its lock can be had.
Ready == formed \/ (loop # "stuck" /\ pan)

\* Three seconds of autostart are over, or a PAN was seen: form a network, or initialise BDB
\* on the one there is.  A stack that hangs is asked nothing.
Kick ==
    /\ initAt = "poll"
    /\ IF loop = "stuck" THEN UNCHANGED job ELSE job' \in {IF Ready THEN "init" ELSE "form", job}
    /\ initAt' = (IF ~Ready /\ job' = "form" THEN "wait" ELSE "last")
    /\ UNCHANGED <<dataset, pan, loop, aliveVars, beatVars, aged, retry>>

WaitEnds ==
    /\ initAt = "wait" /\ initAt' = "last"
    /\ UNCHANGED <<netSide, loop, aliveVars, beatVars, aged, retry>>

\* With the SDK lock held, so that no signal comes in between.
Settle ==
    /\ initAt = "last" /\ initAt' = "done"
    /\ formed' = (formed \/ (loop # "stuck" /\ Ready))
    /\ UNCHANGED <<netSide, loop, running, beatVars, aged, retry>>

MainSteps ==
    \/ StartStack \/ CreateTask \/ HeartbeatStart \/ Kick \/ WaitEnds \/ Settle

-----------------------------------------------------------------------------
(* The stack's task: on_app_signal, and the way out of the main loop. *)

Runs == loop = "run"

LaunchLoop ==
    /\ loop = "begin" /\ loop' = "run"
    /\ UNCHANGED <<netSide, initAt, aliveVars, beatVars, aged, retry>>

\* The stack is back on its network without a word.
ResumeSilently ==
    /\ Runs /\ dataset /\ ~pan /\ pan' = TRUE
    /\ UNCHANGED <<dataset, job, initAt, loop, aliveVars, beatVars, aged, retry>>

\* DEVICE_FIRST_START: no network in the dataset.
FirstStart ==
    /\ Runs /\ ~dataset /\ job' = "form"
    /\ UNCHANGED <<dataset, pan, initAt, loop, aliveVars, beatVars, aged, retry>>

bdb_signal_ok(ok) == ok

\* FORMATION and DEVICE_REBOOT, with their status.
Signal(ok) ==
    /\ Runs /\ (job = "form" \/ (job = "init" /\ dataset)) /\ job' = "none"
    /\ pan' = (pan \/ ok) /\ dataset' = (dataset \/ ok)
    /\ formed' = (formed \/ bdb_signal_ok(ok))
    /\ UNCHANGED <<initAt, loop, running, beatVars, aged, retry>>

\* LEAVE: the coordinator left the network.
SignalLeave ==
    /\ Runs /\ pan /\ pan' = FALSE /\ dataset' = FALSE /\ formed' = FALSE
    /\ UNCHANGED <<job, initAt, loop, running, beatVars, aged, retry>>

Hang ==
    /\ loop \in {"begin", "run"} /\ loop' = "stuck"
    /\ UNCHANGED <<netSide, initAt, aliveVars, beatVars, aged, retry>>

\* esp_zigbee_launch_mainloop returns: the radio is gone.
LeaveLoop ==
    /\ loop \in {"begin", "run"} /\ loop' = "left" /\ running' = FALSE
    /\ UNCHANGED <<netSide, initAt, formed, beatVars, aged, retry>>

ClearFormed ==
    /\ loop = "left" /\ loop' = "unformed" /\ formed' = FALSE
    /\ UNCHANGED <<netSide, initAt, running, beatVars, aged, retry>>

\* The timer may not be there yet: then zb_init still starts it, for nobody.
StopTimer ==
    /\ loop = "unformed" /\ loop' = "stopped"
    /\ hbTimer' = (IF hbTimer = "on" THEN "off" ELSE hbTimer)
    /\ UNCHANGED <<netSide, initAt, aliveVars, pending, posted, hb, quiet, aged, retry>>

ClearStamp == loop = "stopped" /\ hb' = FALSE /\ quiet' = 0

ForgetStamp ==
    /\ ClearStamp /\ loop' = (IF aged THEN "old" ELSE "gone")
    /\ retry' = (retry \/ ~aged)
    /\ UNCHANGED <<netSide, initAt, aliveVars, hbTimer, pending, posted, aged>>

\* It had run for a minute: restart at once.
RestartToRecover == loop = "old" /\ Anew

LoopExits == ClearFormed \/ StopTimer \/ ForgetStamp \/ RestartToRecover

-----------------------------------------------------------------------------
(* Heartbeat, supervisor, retry. *)

\* esp_timer's task, taking the stamp itself: it would beat whatever the stack does.
hb_tick_itself ==
    /\ hbTimer = "on" /\ hb' = TRUE /\ quiet' = 0 /\ UNCHANGED <<pending, posted>>

\* One stamp at a time is posted to the stack; a post that fails is made good at the next tick.
hb_tick ==
    /\ hbTimer = "on" /\ ~pending /\ pending' = TRUE /\ posted' = TRUE
    /\ UNCHANGED <<hb, quiet>>

Beat ==
    /\ hb_tick
    /\ UNCHANGED <<netSide, initAt, loop, aliveVars, hbTimer, aged, retry>>

hb_stamp ==
    /\ Runs /\ posted /\ posted' = FALSE /\ pending' = FALSE /\ hb' = TRUE /\ quiet' = 0
    /\ UNCHANGED <<netSide, initAt, loop, aliveVars, hbTimer, aged, retry>>

\* Time goes by.  A live loop stamps well within kStallUs.
TickClock ==
    /\ hb /\ quiet < Stall /\ (Runs => quiet + 1 < Stall) /\ quiet' = quiet + 1
    /\ UNCHANGED <<netSide, initAt, loop, aliveVars, hbTimer, pending, posted, hb, aged, retry>>

GrowOld ==
    /\ Runs /\ ~aged /\ aged' = TRUE
    /\ UNCHANGED <<netSide, initAt, loop, aliveVars, beatVars, retry>>

\* task_supervisor, started once app_main is through.
Supervise == initAt = "done" /\ hb /\ quiet = Stall /\ Anew

Retry == retry /\ Anew

RadioNext ==
    \/ StartFails \/ CreateFails \/ MainSteps
    \/ LaunchLoop \/ ResumeSilently \/ FirstStart \/ SignalLeave \/ Hang \/ LeaveLoop
    \/ \E ok \in BOOLEAN : Signal(ok)
    \/ LoopExits \/ Beat \/ hb_stamp \/ TickClock \/ GrowOld \/ Supervise \/ Retry

\* app_main, the supervisor's and the hbTimer's tasks run, and time goes by; of the stack's
\* own loop only the way out is sure.
RadioFair ==
    /\ WF_stackVars(MainSteps) /\ WF_stackVars(LoopExits)
    /\ WF_stackVars(TickClock) /\ WF_stackVars(Supervise) /\ WF_stackVars(Retry)

RadioSpec == RadioInit /\ [][RadioNext]_stackVars /\ RadioFair

-----------------------------------------------------------------------------

\* A stack that hangs after its first stamp gets the hub restarted.
StallEnds == (loop = "stuck" /\ hb) ~> loop = "none"

\* The same, of a stack that hangs at any time (supervisor.h 8-11: "checks that each still
\* answers ... Silent for three minutes, the hub restarts").
EveryStallEnds == loop = "stuck" ~> loop = "none"

=============================================================================
