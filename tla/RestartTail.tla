----------------------------- MODULE RestartTail -----------------------------
(***************************************************************************)
(* Whose restart tail is it (prev_run, log_cloud_boot)?  Each firmware has *)
(* its block after its own code and data, in RAM no reset clears; a run    *)
(* reads the block at its image's place and formats it.  Updates, trials   *)
(* and rollbacks change the image between two runs, so the block may be    *)
(* that of an earlier life; a block left before an announced change says   *)
(* so.  What the tail holds is in CloudLog.                                *)
(***************************************************************************)
EXTENDS Naturals

CONSTANTS
    Image,            \* the firmwares of the two slots
    MaxRun            \* bound: runs

ASSUME RestartTailAssumption == MaxRun \in Nat

VARIABLES
    img,      \* the image that runs
    trial,    \* is it on trial (ESP_OTA_IMG_PENDING_VERIFY)?
    other,    \* can the image of the other slot be booted?
    flag,     \* ota_rb_why is set: ota_update_rolled_back()
    run,      \* the run's number (remote_client_boot_epoch)
    block,    \* per image its s_tail_block: valid?, whose, planned
    passed,   \* what this run makes of the previous one (PrevRun)
    cut,      \* ghost: images that switched the slot and never announced it
    old       \* ghost: did this run's image leave its block that way?

tailVars == <<img, trial, other, flag, run, block, passed, cut, old>>

Planned == {"none", "restart", "update", "rollback"}
Fresh(r) == [ok |-> TRUE, run |-> r, planned |-> "none"]

\* Types; the running image's block is its own.
RestartTypeOK ==
    /\ img \in Image /\ trial \in BOOLEAN /\ other \in BOOLEAN /\ (trial => other)
    /\ flag \in BOOLEAN /\ run \in 1..MaxRun
    /\ block \in [Image -> [ok : BOOLEAN, run : 0..MaxRun, planned : Planned]]
    /\ block[img].ok /\ block[img].run = run
    /\ passed \in [use : BOOLEAN, run : 0..MaxRun, planned : Planned]
    /\ cut \subseteq Image /\ old \in BOOLEAN

TailInit ==
    /\ img \in Image /\ trial = FALSE /\ other = FALSE /\ flag = FALSE /\ run = 1
    /\ block = [i \in Image |-> [Fresh(IF i = img THEN 1 ELSE 0) EXCEPT !.ok = (i = img)]]
    /\ passed = [use |-> FALSE, run |-> 0, planned |-> "none"]
    /\ cut = {} /\ old = FALSE

-----------------------------------------------------------------------------

\* Mutant of own: a block left before an update counts as the previous run.
own_left(b) == b.ok

\* A valid block of this image's, not left before another image ran.
own(b) == b.ok /\ b.planned \notin {"update", "rollback"}

\* prev_run; the flag outlives the boot after the rollback, so a tail goes before it.
prev_run(b, new, soft, rolled) ==
    [use     |-> ~new /\ own(b), run |-> b.run,
     planned |-> IF new THEN "update"
                 ELSE IF own(b) THEN b.planned
                 ELSE IF soft /\ rolled THEN "rollback" ELSE "none"]

\* The next run, of image i (an image left for another is no good any more, but for an
\* update), finds `blocks` and formats its own.
BootTail(i, new, soft, rolled, blocks) ==
    /\ run < MaxRun /\ run' = run + 1
    /\ img' = i /\ trial' = new /\ flag' = rolled
    /\ other' = (new \/ (i = img /\ other))
    /\ passed' = prev_run(blocks[i], new, soft, rolled)
    /\ block' = [blocks EXCEPT ![i] = Fresh(run + 1)]
    /\ old' = (i \in cut)
    /\ cut' = (IF new /\ ~soft THEN cut \cup {img} ELSE cut) \ {i}

\* The blocks when the run ends: its own may be torn, and where its code and data lie
\* over the other image's block, that one is garbage.
Leaves(planned, whole, kept) ==
    [i \in Image |-> IF i = img THEN [block[i] EXCEPT !.planned = planned, !.ok = whole]
                     ELSE [block[i] EXCEPT !.ok = @ /\ kept]]

Left(planned) == {Leaves(planned, whole, kept) : whole \in BOOLEAN, kept \in BOOLEAN}

Other == CHOOSE i \in Image : i # img

\* The bootloader undoes a trial that restarts.
Next_img == IF trial THEN Other ELSE img

\* cmd_system_restart and the resets.
PlannedRestart == \E b \in Left("restart") : BootTail(Next_img, FALSE, TRUE, flag, b)

\* run(): the new image boots on trial, with no reason for a rollback yet.
Update == ~trial /\ \E b \in Left("update") : BootTail(Other, TRUE, TRUE, FALSE, b)

\* A reset after the switch of the slot and before the announcement (2 s, and the flushes).
UpdateCut == ~trial /\ \E b \in Left(block[img].planned) : BootTail(Other, TRUE, FALSE, FALSE, b)

\* health_tick gives a trial up, the early-crash guard an image that crashes on and on.
Rollback == other /\ \E b \in Left("rollback") : BootTail(Other, FALSE, TRUE, TRUE, b)

\* The guard's rollback could not: safe mode, and both marks stay behind.
RollbackFails ==
    /\ other
    /\ block' = [block EXCEPT ![img].planned = "rollback"] /\ flag' = TRUE
    /\ UNCHANGED <<img, trial, other, run, passed, cut, old>>

\* A panic or a watchdog; a software restart nobody announced (supervisor, a failed assert).
Crash(soft) == \E b \in Left(block[img].planned) : BootTail(Next_img, FALSE, soft, flag, b)

PowerCut_tail == BootTail(Next_img, FALSE, FALSE, flag, [i \in Image |-> [block[i] EXCEPT !.ok = FALSE]])

Confirm == trial /\ trial' = FALSE /\ UNCHANGED <<img, other, flag, run, block, passed, cut, old>>

TailNext ==
    \/ PlannedRestart \/ Update \/ UpdateCut \/ Rollback \/ RollbackFails
    \/ (\E soft \in BOOLEAN : Crash(soft)) \/ PowerCut_tail \/ Confirm

TailSpec == TailInit /\ [][TailNext]_tailVars

-----------------------------------------------------------------------------

\* The tail a run reports as the previous run's is that of the run right before, whatever
\* updates, trials and rollbacks lie behind it; only an image whose update was cut short
\* before it was announced finds an older one.
TailIsThePreviousRun == passed.use /\ ~old => passed.run = run - 1

=============================================================================
