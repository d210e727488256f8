------------------------------ MODULE Interview ------------------------------
(***************************************************************************)
(* Join handling of the esp-zigbee backend (esp_zb_interview.cpp): the     *)
(* device pool, the join queue, the log of recent deletes, the interview   *)
(* worker, and the handlers that run beside it on the stack task           *)
(* (announce, leave, any frame) and on the API task (interview, delete).   *)
(*                                                                         *)
(* A step is what one task does between two points where another task can  *)
(* observe or change the shared state.  A handler that keeps a snapshot of *)
(* a record across such a point (announce, leave, the worker) has one step *)
(* on each side of it.                                                     *)
(***************************************************************************)
EXTENDS Naturals, Sequences, FiniteSets

CONSTANTS
    Dev,          \* the devices (IEEE addresses)
    NoDev,        \* IEEE 0: no device
    MaxNwk,       \* short addresses a device goes through: 1..MaxNwk, 0 is none
    QLen,         \* length of the join queue (16)
    PoolCap,      \* records the pool holds (ZAP_MAX_DEVICES)
    MaxAttempts,  \* kMaxAttempts (10)
    LogSize,      \* ForgetLog::kSize (8)
    MaxStimuli    \* bound: frames, announces, leaves and API calls in a run

ASSUME DevAssumption == NoDev \notin Dev
ASSUME BoundAssumption ==
    /\ MaxNwk \in Nat \ {0} /\ QLen \in Nat \ {0} /\ PoolCap \in Nat
    /\ MaxAttempts \in Nat \ {0} /\ LogSize \in Nat \ {0}
    /\ MaxStimuli \in Nat

VARIABLES
    pool,      \* the device pool: a record for each device in DOMAIN pool
    stored,    \* what the store holds of each device (zap_store)
    queue,     \* s_join_q
    joinSeq,   \* s_join_seq
    log,       \* s_forgotten.log_: entries [ieee, seq]
    logNext,   \* s_forgotten.next_, counted from 1
    active,    \* s_active_ieee
    preempt,   \* s_preempt
    pc,        \* where the worker (task_interview) is
    req,       \* the request the worker holds
    attempt,   \* its loop variable
    work,      \* do_interview's copy of the record
    stack,     \* what is left of the handler running on the stack task
    api,       \* what is left of a delete running on the API task
    cfgQ,      \* devices queued for configure
    bound,     \* devices that hold the bindings configure gave them
    addr,      \* the short address each device uses now
    stimuli    \* how many outside events there were

poolVars   == <<pool, stored, cfgQ, bound>>
queueVars  == <<queue, joinSeq, active, preempt>>
logVars    == <<log, logNext>>
workerVars == <<pc, req, attempt, work>>
taskVars   == <<stack, api>>
envVars    == <<addr, stimuli>>
vars == <<poolVars, queueVars, logVars, workerVars, taskVars, envVars>>

-----------------------------------------------------------------------------
(* Types.  Of a ZapDevice the model keeps the short address, the removed   *)
(* flag, whether the identity is known (interview_state IDENTITY_READY     *)
(* with the model and manufacturer strings; the library has a definition   *)
(* for it, support_state MATCHED), where the endpoint and cluster lists    *)
(* come from, and configure_state.                                         *)

Addr     == 0..MaxNwk
Topology == {"none", "guessed", "read"}   \* "guessed": endpoint 1, no clusters
Record   == [nwk: Addr, removed: BOOLEAN, ident: BOOLEAN,
             topo: Topology, cfg: {"pending", "done"}]

NotStored == << >>
Images    == BOOLEAN \X BOOLEAN   \* identity known? removed?

JoinReq  == [ieee: Dev, nwk: Addr, done: 0..(MaxAttempts - 1), seq: Nat \ {0}]
NoReq    == [ieee |-> NoDev, nwk |-> 0, done |-> 0, seq |-> 0]

Blank    == [nwk |-> 0, removed |-> FALSE, ident |-> FALSE,
             topo |-> "none", cfg |-> "pending"]

LogEntry == [ieee: Dev \cup {NoDev}, seq: Nat]

StackJob == {"idle", "rejoined", "announced", "admitted", "left"}
Idle     == [job |-> "idle", dev |-> NoDev, snap |-> Blank]

PC == {"receive", "upsert", "activate", "clear", "check", "read", "commit",
       "persist", "retry", "wait", "publish", "cancelled"}

PoolType ==
    /\ DOMAIN pool \subseteq Dev
    /\ pool \in [DOMAIN pool -> Record]
    /\ stored \in [Dev -> {NotStored} \cup Images]
    /\ cfgQ \subseteq Dev /\ bound \subseteq Dev

QueueType ==
    /\ queue \in Seq(JoinReq) /\ Len(queue) \in 0..QLen
    /\ joinSeq \in Nat
    /\ active \in Dev \cup {NoDev}
    /\ preempt \in BOOLEAN

LogType == log \in [1..LogSize -> LogEntry] /\ logNext \in 1..LogSize

WorkerType ==
    /\ pc \in PC
    /\ req \in JoinReq \cup {NoReq}
    /\ (pc = "receive") <=> (req = NoReq)
    /\ attempt \in 0..MaxAttempts
    /\ work \in Record

TaskType ==
    /\ stack \in [job: StackJob, dev: Dev \cup {NoDev}, snap: Record]
    /\ (stack.job = "idle") <=> (stack.dev = NoDev)
    /\ api \in Dev \cup {NoDev}

EnvType == addr \in [Dev -> Addr \ {0}] /\ stimuli \in 0..MaxStimuli

TypeOK == PoolType /\ QueueType /\ LogType /\ WorkerType /\ TaskType /\ EnvType

Init ==
    /\ pool = << >>
    /\ stored = [d \in Dev |-> NotStored]
    /\ queue = << >> /\ joinSeq = 0
    /\ log = [i \in 1..LogSize |-> [ieee |-> NoDev, seq |-> 0]] /\ logNext = 1
    /\ active = NoDev /\ preempt = FALSE
    /\ pc = "receive" /\ req = NoReq /\ attempt = 0 /\ work = Blank
    /\ stack = Idle /\ api = NoDev
    /\ cfgQ = {} /\ bound = {}
    /\ addr = [d \in Dev |-> 1]
    /\ stimuli = 0

-----------------------------------------------------------------------------
(* The pool.                                                               *)

Known(d) == d \in DOMAIN pool

With(d, r) == [e \in DOMAIN pool \cup {d} |-> IF e = d THEN r ELSE pool[e]]
Without(d) == [e \in DOMAIN pool \ {d} |-> pool[e]]

\* pool_upsert: a new record, or the short address of the one there.
CanUpsert(d)   == Known(d) \/ Cardinality(DOMAIN pool) < PoolCap
Upserted(d, n) == [(IF Known(d) THEN pool[d] ELSE Blank) EXCEPT !.nwk = n]
Upsert(d, n)   == With(d, Upserted(d, n))

\* Mutants of Merge: the snapshot copied back whole, as before review F07, and
\* the identity taken from the snapshot even if only the live record has one.
MergeWhole(live, iv) == [iv EXCEPT !.nwk = live.nwk]
MergeIdentityAlways(live, iv) ==
    [live EXCEPT !.topo = iv.topo, !.ident = iv.ident,
                 !.nwk  = IF live.nwk = 0 THEN iv.nwk ELSE live.nwk]

\* interview_merge: what a finished attempt `iv` changes of the live record.
Merge(live, iv) ==
    LET keepIdentity == ~iv.ident /\ live.ident
    IN  [live EXCEPT !.topo  = iv.topo,
                     !.ident = IF keepIdentity THEN live.ident ELSE iv.ident,
                     !.nwk   = IF live.nwk = 0 THEN iv.nwk ELSE live.nwk]

\* Mutant of Rejoined: configure_state stays as it is, as before review F16.
RejoinedStillDone(live, n) == [live EXCEPT !.removed = FALSE, !.nwk = n]

\* rejoin_fn: a known device announced itself at n.
Rejoined(live, n) ==
    [live EXCEPT !.cfg     = IF live.removed THEN "pending" ELSE live.cfg,
                 !.removed = FALSE,
                 !.nwk     = n]

\* What zap_store_mark_dirty leaves of a snapshot.
Image(snap) == <<snap.ident, snap.removed>>

-----------------------------------------------------------------------------
(* ForgetLog: the ring of recent deletes.                                  *)

LogIndexes(d) == {i \in 1..LogSize : log[i].ieee = d}

\* Mutant of Cancelled: off by one, the last request before the delete goes on.
CancelledBelow(d, s) == \E i \in LogIndexes(d) : s < log[i].seq

Cancelled(d, s) == \E i \in LogIndexes(d) : s <= log[i].seq

LogForget(d) ==
    LET entry == [ieee |-> d, seq |-> joinSeq]
    IN  IF LogIndexes(d) # {}
        THEN /\ log' = [i \in 1..LogSize |->
                          IF i \in LogIndexes(d) THEN entry ELSE log[i]]
             /\ UNCHANGED logNext
        ELSE /\ log' = [log EXCEPT ![logNext] = entry]
             /\ logNext' = (logNext % LogSize) + 1

-----------------------------------------------------------------------------
(* The join queue.                                                         *)

Full == Len(queue) >= QLen

\* xQueueSend with a new counter value; a full queue drops the request.
Send(d, n) ==
    /\ joinSeq' = joinSeq + 1
    /\ queue' = IF Full THEN queue
                ELSE Append(queue, [ieee |-> d, nwk |-> n, done |-> 0, seq |-> joinSeq + 1])

\* zb_interview_enqueue.
Enqueue(d, n) ==
    IF active = d
    THEN UNCHANGED <<queue, joinSeq, preempt>>
    ELSE /\ Send(d, n)
         /\ preempt' = (preempt \/ active # NoDev)

-----------------------------------------------------------------------------
(* The worker, task_interview and do_interview.                            *)

ToIdle == pc' = "receive" /\ req' = NoReq /\ attempt' = 0 /\ work' = Blank

\* A request comes off the queue; one voided by a delete is dropped.
Receive ==
    /\ pc = "receive" /\ queue # << >>
    /\ queue' = Tail(queue)
    /\ LET r == Head(queue)
       IN  IF Cancelled(r.ieee, r.seq)
           THEN UNCHANGED <<pc, req>>
           ELSE pc' = "upsert" /\ req' = r
    /\ UNCHANGED <<poolVars, joinSeq, active, preempt, logVars, attempt, work,
                   taskVars, envVars>>

\* pool_upsert; a full pool ends the request.
WorkerUpsert ==
    /\ pc = "upsert"
    /\ IF CanUpsert(req.ieee)
       THEN /\ pool' = Upsert(req.ieee, req.nwk)
            /\ pc' = "activate"
            /\ UNCHANGED <<req, attempt, work>>
       ELSE ToIdle /\ UNCHANGED pool
    /\ UNCHANGED <<stored, cfgQ, bound, queueVars, logVars, taskVars, envVars>>

Activate ==
    /\ pc = "activate"
    /\ active' = req.ieee
    /\ pc' = "clear"
    /\ UNCHANGED <<poolVars, queue, joinSeq, preempt, logVars, req, attempt,
                   work, taskVars, envVars>>

ClearPreempt ==
    /\ pc = "clear"
    /\ preempt' = FALSE
    /\ attempt' = req.done + 1
    /\ pc' = "check"
    /\ UNCHANGED <<poolVars, queue, joinSeq, active, logVars, req, work,
                   taskVars, envVars>>

\* The top of the attempt loop, and the snapshot do_interview starts from.
StartAttempt ==
    /\ pc = "check"
    /\ IF Cancelled(req.ieee, req.seq)
       THEN pc' = "cancelled" /\ UNCHANGED work
       ELSE IF Known(req.ieee)
            THEN /\ work' = [pool[req.ieee] EXCEPT !.nwk = req.nwk]
                 /\ pc' = "read"
            ELSE pc' = "retry" /\ UNCHANGED work
    /\ UNCHANGED <<poolVars, queueVars, logVars, req, attempt, taskVars, envVars>>

\* What the device answers: its endpoints or nothing, and its identity or
\* nothing.  An identity already in the snapshot is not read again; with
\* s_preempt set the Basic reads are skipped.
Read ==
    /\ pc = "read"
    /\ \E t \in {"guessed", "read"}, found \in BOOLEAN :
          /\ found => ~preempt
          /\ work' = [work EXCEPT !.topo = t, !.ident = work.ident \/ found]
    /\ pc' = "commit"
    /\ UNCHANGED <<poolVars, queueVars, logVars, req, attempt, taskVars, envVars>>

\* interview_merge under the pool lock, and the merged record as the worker's
\* copy; the device may be gone.
Commit ==
    /\ pc = "commit"
    /\ IF Known(req.ieee)
       THEN /\ work' = Merge(pool[req.ieee], work)
            /\ pool' = With(req.ieee, work')
            /\ pc' = IF work.ident THEN "persist" ELSE "retry"
       ELSE UNCHANGED <<pool, work>> /\ pc' = "retry"
    /\ UNCHANGED <<stored, cfgQ, bound, queueVars, logVars, req, attempt,
                   taskVars, envVars>>

\* Only with an identity: the record is stored and configure is queued.
Persist ==
    /\ pc = "persist"
    /\ stored' = [stored EXCEPT ![req.ieee] = Image(work)]
    /\ cfgQ' = cfgQ \cup {req.ieee}
    /\ pc' = "publish"
    /\ UNCHANGED <<pool, bound, queueVars, logVars, req, attempt, work,
                   taskVars, envVars>>

\* The address of the device under interview, as far as the pool has one.
NwkNow == IF Known(req.ieee) /\ pool[req.ieee].nwk # 0
          THEN pool[req.ieee].nwk ELSE req.nwk

\* After a failed attempt: the address is read again; with attempts left the
\* worker gives way to a queued peer if its own request fits behind it, and
\* waits for the device otherwise.
Retry ==
    /\ pc = "retry"
    /\ IF attempt < MaxAttempts /\ queue # << >> /\ ~Full
       THEN /\ queue' = Append(queue, [req EXCEPT !.nwk = NwkNow, !.done = attempt])
            /\ active' = NoDev
            /\ ToIdle
       ELSE /\ req' = [req EXCEPT !.nwk = NwkNow]
            /\ pc' = IF attempt < MaxAttempts THEN "wait" ELSE "publish"
            /\ UNCHANGED <<queue, active, attempt, work>>
    /\ UNCHANGED <<poolVars, joinSeq, preempt, logVars, taskVars, envVars>>

\* Mutant of DelayOver: an attempt the delay ends with does not count.
DelayOverFree ==
    /\ pc = "wait"
    /\ pc' = "check"
    /\ UNCHANGED <<poolVars, queueVars, logVars, req, attempt, work, taskVars, envVars>>

\* The retry delay ends, on s_wake_sem or on its timeout.
DelayOver ==
    /\ pc = "wait"
    /\ attempt' = attempt + 1
    /\ pc' = "check"
    /\ UNCHANGED <<poolVars, queueVars, logVars, req, work, taskVars, envVars>>

\* DEVICE_JOIN goes out, identified or not.
Publish ==
    /\ pc \in {"publish", "cancelled"}
    /\ active' = NoDev
    /\ ToIdle
    /\ UNCHANGED <<poolVars, queue, joinSeq, preempt, logVars, taskVars, envVars>>

Worker == \/ Receive \/ WorkerUpsert \/ Activate \/ ClearPreempt
          \/ StartAttempt \/ Read \/ Commit \/ Persist
          \/ Retry \/ DelayOver \/ Publish

-----------------------------------------------------------------------------
(* The stack task.  A handler starts when the stack delivers an event and  *)
(* runs to its end before the next one starts.                             *)

Stimulus == stimuli < MaxStimuli /\ stimuli' = stimuli + 1

\* zb_interview_on_announce up to the end of the pool visit.  The admission
\* gate decides for an unknown device; either answer is possible here.
Announce(d, n) ==
    /\ Stimulus /\ stack.job = "idle"
    /\ addr' = [addr EXCEPT ![d] = n]
    /\ IF Known(d)
       THEN LET r == Rejoined(pool[d], n)
            IN  /\ pool' = With(d, r)
                /\ stack' = [job |-> IF r.ident THEN "rejoined" ELSE "announced",
                             dev |-> d, snap |-> r]
       ELSE /\ \/ stack' = [job |-> "admitted", dev |-> d, snap |-> [Blank EXCEPT !.nwk = n]]
               \/ UNCHANGED stack
            /\ UNCHANGED pool
    /\ UNCHANGED <<stored, cfgQ, bound, queueVars, logVars, workerVars, api>>

\* Its end for an identified device: persist, configure if never done.
RejoinKnown ==
    /\ stack.job = "rejoined"
    /\ stored' = [stored EXCEPT ![stack.dev] = Image(stack.snap)]
    /\ cfgQ' = IF stack.snap.cfg = "done" THEN cfgQ ELSE cfgQ \cup {stack.dev}
    /\ stack' = Idle
    /\ UNCHANGED <<pool, bound, queueVars, logVars, workerVars, api, envVars>>

\* Its end for a known device without identity: persist, interview.
RejoinUnidentified ==
    /\ stack.job = "announced"
    /\ stored' = [stored EXCEPT ![stack.dev] = Image(stack.snap)]
    /\ Enqueue(stack.dev, stack.snap.nwk)
    /\ stack' = Idle
    /\ UNCHANGED <<pool, cfgQ, bound, active, logVars, workerVars, api, envVars>>

\* Its end for an unknown device the gate let in, and the end of an adoption:
\* interview.
JoinAdmitted ==
    /\ stack.job = "admitted"
    /\ Enqueue(stack.dev, stack.snap.nwk)
    /\ stack' = Idle
    /\ UNCHANGED <<poolVars, active, logVars, workerVars, api, envVars>>

\* zb_interview_on_leave for a known device; it drops its bindings.
Leave(d) ==
    /\ Stimulus /\ stack.job = "idle" /\ Known(d)
    /\ LET r == [pool[d] EXCEPT !.removed = TRUE]
       IN  pool' = With(d, r) /\ stack' = [job |-> "left", dev |-> d, snap |-> r]
    /\ bound' = bound \ {d}
    /\ UNCHANGED <<stored, cfgQ, queueVars, logVars, workerVars, api, addr>>

LeaveEnd ==
    /\ stack.job = "left"
    /\ stored' = [stored EXCEPT ![stack.dev] = Image(stack.snap)]
    /\ stack' = Idle
    /\ UNCHANGED <<pool, cfgQ, bound, queueVars, logVars, workerVars, api, envVars>>

\* on_apsde_indication_inner for a device of the pool: its address is
\* refreshed from the stack's map, and an identified device still to be
\* configured is queued for it.
Frame(d, n) ==
    /\ Stimulus /\ stack.job = "idle" /\ Known(d)
    /\ addr' = [addr EXCEPT ![d] = n]
    /\ pool' = With(d, [pool[d] EXCEPT !.nwk = n])
    /\ cfgQ' = IF pool[d].ident /\ pool[d].cfg # "done" THEN cfgQ \cup {d} ELSE cfgQ
    /\ UNCHANGED <<stored, bound, queueVars, logVars, workerVars, taskVars>>

\* zb_interview_adopt: a frame from a device the stack knows and the pool
\* does not, let in by the gate; the interview is queued in a second step.
Adopt(d, n) ==
    /\ Stimulus /\ stack.job = "idle" /\ ~Known(d)
    /\ addr' = [addr EXCEPT ![d] = n]
    /\ IF CanUpsert(d)
       THEN /\ pool' = Upsert(d, n)
            /\ stack' = [job |-> "admitted", dev |-> d, snap |-> [Blank EXCEPT !.nwk = n]]
       ELSE UNCHANGED <<pool, stack>>
    /\ UNCHANGED <<stored, cfgQ, bound, queueVars, logVars, workerVars, api>>

-----------------------------------------------------------------------------
(* The late-identity worker (zigbee_identity, outside this repository): a  *)
(* Basic report that feed_late_identity handed it names the device in the  *)
(* pool and in the store.                                                  *)

LateIdentity(d) ==
    /\ Stimulus /\ Known(d)
    /\ LET r == [pool[d] EXCEPT !.ident = TRUE]
       IN  pool' = With(d, r) /\ stored' = [stored EXCEPT ![d] = Image(r)]
    /\ UNCHANGED <<cfgQ, bound, queueVars, logVars, workerVars, taskVars, addr>>

-----------------------------------------------------------------------------
(* The API task.                                                           *)

\* zb_backend_interview: zb_interview_trigger for a device of the pool; if the
\* device is unknown or the queue full, a plain enqueue at the given address.
ApiInterview(d) ==
    /\ Stimulus /\ api = NoDev
    /\ \/ Known(d) /\ Send(d, pool[d].nwk) /\ UNCHANGED preempt
       \/ ~Known(d) /\ Enqueue(d, addr[d])
       \/ /\ Known(d) /\ Full /\ active # d
          /\ joinSeq' = joinSeq + 2
          /\ preempt' = (preempt \/ active # NoDev)
          /\ UNCHANGED queue
    /\ UNCHANGED <<poolVars, active, logVars, workerVars, taskVars, addr>>

\* zb_interview_forget: the delete is logged, then the record goes.
Forget(d) ==
    /\ Stimulus /\ api = NoDev
    /\ LogForget(d)
    /\ api' = d
    /\ UNCHANGED <<poolVars, queueVars, workerVars, stack, addr>>

ForgetRecord ==
    /\ api # NoDev
    /\ pool' = Without(api)
    /\ stored' = [stored EXCEPT ![api] = NotStored]
    /\ api' = NoDev
    /\ UNCHANGED <<cfgQ, bound, queueVars, logVars, workerVars, stack, envVars>>

-----------------------------------------------------------------------------
(* The configure queue (zigbee_configure_queue, outside this repository):  *)
(* it binds a device that is there, or gives up on it.                     *)

Configure(d) ==
    /\ d \in cfgQ
    /\ cfgQ' = cfgQ \ {d}
    /\ \/ /\ Known(d) /\ ~pool[d].removed
          /\ pool' = With(d, [pool[d] EXCEPT !.cfg = "done"])
          /\ bound' = bound \cup {d}
       \/ UNCHANGED <<pool, bound>>
    /\ UNCHANGED <<stored, queueVars, logVars, workerVars, taskVars, envVars>>

-----------------------------------------------------------------------------

Stack == \/ \E d \in Dev, n \in Addr \ {0} :
               \/ Announce(d, n)
               \/ Adopt(d, n)
               \/ Frame(d, n)
         \/ RejoinKnown \/ RejoinUnidentified \/ JoinAdmitted
         \/ \E d \in Dev : Leave(d)
         \/ LeaveEnd

Api == (\E d \in Dev : ApiInterview(d) \/ Forget(d)) \/ ForgetRecord

External == \E d \in Dev : LateIdentity(d) \/ Configure(d)

Next == Worker \/ Stack \/ Api \/ External

Spec == Init /\ [][Next]_vars

(* The worker task and the handlers always get to run: FreeRTOS schedules  *)
(* every ready task, each radio wait of the worker ends in a timeout, and  *)
(* no handler waits for anything.                                          *)
Fairness == /\ WF_vars(Worker)
            /\ WF_vars(ForgetRecord)
            /\ WF_vars(RejoinKnown \/ RejoinUnidentified \/ JoinAdmitted \/ LeaveEnd)

FairSpec == Spec /\ Fairness

-----------------------------------------------------------------------------
(* The ledger this implements: the queue without addresses, the log as the *)
(* last request each delete voided, the worker as the request it tries.    *)

Entry(r, tries) == [ieee |-> r.ieee, seq |-> r.seq, tries |-> tries]

LedgerWaiting == [i \in DOMAIN queue |-> Entry(queue[i], queue[i].done)]

LedgerVoid ==
    [d \in Dev |-> IF LogIndexes(d) = {} THEN 0
                   ELSE log[CHOOSE i \in LogIndexes(d) : TRUE].seq]

TriesSoFar == CASE pc \in {"upsert", "activate", "clear"} -> req.done
                [] pc \in {"check", "cancelled"}          -> attempt - 1
                [] OTHER                                  -> attempt

LedgerRunning == IF pc = "receive" THEN << >> ELSE <<Entry(req, TriesSoFar)>>

Ledger == INSTANCE JoinLedger
          WITH MaxTries <- MaxAttempts, issued <- joinSeq, voidUpTo <- LedgerVoid,
               waiting <- LedgerWaiting, running <- LedgerRunning

-----------------------------------------------------------------------------
(* What holds.                                                             *)

\* The queue, the delete log and the worker implement the ledger: attempts are
\* bounded across yields, deletes void exactly what was queued before them.
\* It needs a log no smaller than the number of devices deleted.
LedgerSpec == Ledger!Spec

\* Every request is settled in the end, with or without an identity, however
\* often its interview yields to peers (task_interview, lines 607 to 650).
RequestsSettle ==
    \A s \in 1..(2 * MaxStimuli) : Ledger!Pending(s) ~> ~Ledger!Pending(s)

\* No step takes the identity from a device that stays in the pool: not a
\* failed attempt committed after a late Basic report, not a rejoin.
KeepsIdentity ==
    \A d \in DOMAIN pool \cap DOMAIN pool' : pool[d].ident => pool'[d].ident

IdentityKept == [][KeepsIdentity]_vars

\* The worker never undoes what happened while it interviewed: only a step of
\* the stack task un-removes a device or takes back its finished configure.
KeepsLiveFields ==
    \A d \in DOMAIN pool \cap DOMAIN pool' :
       pool'[d].removed = pool[d].removed /\ pool'[d].cfg = pool[d].cfg

WorkerKeepsLiveFields == [][Worker => KeepsLiveFields]_vars

\* A device that is here and marked configured holds its bindings: leaving
\* lost them, so the rejoin must have put configure_state back (review F16).
ConfiguredIsBound ==
    \A d \in DOMAIN pool :
       pool[d].cfg = "done" /\ ~pool[d].removed => d \in bound

-----------------------------------------------------------------------------
(* What the comments promise and the code does not keep.                   *)

\* esp_zb_forget_log.h: a new join after the delete goes ahead.  A device the
\* gate admitted may be dropped for a full queue or for an interview that is
\* running, but not for one that a finished delete of the device has voided.
JoinAfterDeleteGoesAhead ==
    [][(/\ JoinAdmitted /\ ~Full /\ api # stack.dev
        /\ (active = stack.dev => Cancelled(req.ieee, req.seq)))
         => \E i \in DOMAIN queue' : queue'[i].ieee = stack.dev]_vars

\* esp_zb_interview_merge.h: an interview no longer persists a stale record;
\* what it stores of a device in the pool is what the pool holds.
PersistsTheLiveRecord ==
    [][Persist /\ Known(req.ieee)
         => stored'[req.ieee] = Image(pool[req.ieee])]_vars

=============================================================================
