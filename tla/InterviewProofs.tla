--------------------------- MODULE InterviewProofs ---------------------------
(***************************************************************************)
(* Theorems about Interview, for any devices, queue length, pool size, log *)
(* size and number of attempts: what holds of the pool's records, and that *)
(* the queue, the delete log and the worker implement JoinLedger.          *)
(***************************************************************************)
EXTENDS Interview, FiniteSetTheorems, TLAPS

USE DevAssumption, BoundAssumption

\* What makes TypeOK inductive: the worker only waits with attempts left.
WaitsWithAttemptsLeft == pc = "wait" => attempt < MaxAttempts

WorkerInv == WorkerType /\ WaitsWithAttemptsLeft

IType == PoolType /\ QueueType /\ LogType /\ WorkerInv /\ TaskType /\ EnvType

-----------------------------------------------------------------------------
(* Updates of the pool.                                                    *)

\* What a pool is.
PoolRecords(q) == DOMAIN q \subseteq Dev /\ q \in [DOMAIN q -> Record]

\* With puts one record in and leaves the others.
LEMMA WithType ==
    ASSUME PoolType, NEW d \in Dev, NEW r \in Record, NEW q, q = With(d, r)
    PROVE  /\ PoolRecords(q)
           /\ DOMAIN q = DOMAIN pool \cup {d}
           /\ q[d] = r
           /\ \A e \in DOMAIN pool : e # d => q[e] = pool[e]
  BY DEF PoolType, With, PoolRecords

\* Without takes one record out and leaves the others.
LEMMA WithoutType ==
    ASSUME PoolType, NEW d \in Dev, NEW q, q = Without(d)
    PROVE  /\ PoolRecords(q)
           /\ DOMAIN q = DOMAIN pool \ {d}
           /\ \A e \in DOMAIN q : q[e] = pool[e]
  BY DEF PoolType, Without, PoolRecords

\* A record of the pool is a record.
LEMMA PoolRecord ==
    ASSUME PoolType, NEW d \in DOMAIN pool
    PROVE  pool[d] \in Record
  BY DEF PoolType

\* The records the handlers make are records.
LEMMA RecordOps ==
    ASSUME NEW r \in Record, NEW iv \in Record, NEW n \in Addr
    PROVE  /\ Merge(r, iv) \in Record
           /\ Rejoined(r, n) \in Record
           /\ [r EXCEPT !.nwk = n] \in Record
           /\ [r EXCEPT !.removed = TRUE] \in Record
           /\ [r EXCEPT !.cfg = "done"] \in Record
           /\ Image(r) \in Images
  BY DEF Merge, Rejoined, Record, Image, Images, Topology

\* The empty record is one.
LEMMA BlankRecord == Blank \in Record
  BY DEF Blank, Record, Topology, Addr

\* pool_upsert leaves a record at the address.
LEMMA UpsertType ==
    ASSUME PoolType, NEW d \in Dev, NEW n \in Addr, NEW q, q = Upsert(d, n)
    PROVE  /\ PoolRecords(q)
           /\ DOMAIN q = DOMAIN pool \cup {d}
           /\ q[d] = Upserted(d, n)
           /\ \A e \in DOMAIN pool : e # d => q[e] = pool[e]
  <1>1. Upserted(d, n) \in Record
    BY PoolRecord, BlankRecord, RecordOps DEF Known, Upserted
  <1> QED BY <1>1, WithType DEF Upsert

-----------------------------------------------------------------------------
(* The requests.                                                           *)

\* A request of the queue is never the empty request.
LEMMA NotNoReq == NoReq \notin JoinReq
  BY DEF NoReq, JoinReq

\* Away from "receive" the worker holds a request.
LEMMA HoldsRequest ==
    ASSUME WorkerType, pc # "receive"
    PROVE  /\ req \in JoinReq /\ req.ieee \in Dev /\ req.nwk \in Addr
           /\ req.done \in 0..(MaxAttempts - 1)
  BY DEF WorkerType, JoinReq

\* Taking the first request leaves a queue.
LEMMA TakeType ==
    ASSUME QueueType, queue # << >>
    PROVE  /\ Head(queue) \in JoinReq /\ Tail(queue) \in Seq(JoinReq)
           /\ Len(Tail(queue)) \in 0..QLen
  BY DEF QueueType

\* Putting one back where there is room does too.
LEMMA AppendType ==
    ASSUME QueueType, ~Full, NEW r \in JoinReq
    PROVE  Append(queue, r) \in Seq(JoinReq) /\ Len(Append(queue, r)) \in 0..QLen
  <1>1. Len(queue) + 1 \in 0..QLen
    BY DEF Full, QueueType
  <1> QED BY <1>1 DEF QueueType

\* Sending keeps the queue a queue.
LEMMA SendType ==
    ASSUME QueueType, NEW d \in Dev, NEW n \in Addr, Send(d, n)
    PROVE  joinSeq' \in Nat /\ queue' \in Seq(JoinReq) /\ Len(queue') \in 0..QLen
  <1> DEFINE r == [ieee |-> d, nwk |-> n, done |-> 0, seq |-> joinSeq + 1]
  <1>1. r \in JoinReq
    BY DEF QueueType, JoinReq
  <1>2. CASE Full
    BY <1>2 DEF Send, QueueType
  <1>3. CASE ~Full
    <2>1. queue' = Append(queue, r)
      BY <1>3 DEF Send
    <2> HIDE DEF r
    <2> QED BY <2>1, <1>1, <1>3, AppendType DEF QueueType, Send
  <1> QED BY <1>2, <1>3

\* So does an enqueue.
LEMMA EnqueueType ==
    ASSUME QueueType, NEW d \in Dev, NEW n \in Addr, Enqueue(d, n)
    PROVE  /\ joinSeq' \in Nat /\ queue' \in Seq(JoinReq) /\ Len(queue') \in 0..QLen
           /\ preempt' \in BOOLEAN
  BY SendType DEF Enqueue, QueueType

\* Logging a delete keeps the log a log.
LEMMA LogForgetType ==
    ASSUME LogType, QueueType, NEW d \in Dev, LogForget(d)
    PROVE  LogType'
  <1> DEFINE entry == [ieee |-> d, seq |-> joinSeq]
  <1>1. entry \in LogEntry
    BY DEF LogEntry, QueueType
  <1>2. (logNext % LogSize) + 1 \in 1..LogSize
    BY DEF LogType
  <1> QED BY <1>1, <1>2 DEF LogForget, LogType

-----------------------------------------------------------------------------
(* A group of variables that does not change keeps its type.               *)

\* Each conjunct of IType depends on the variables of its own group only.
LEMMA Untouched ==
    ASSUME IType
    PROVE  /\ UNCHANGED poolVars   => PoolType'
           /\ UNCHANGED queueVars  => QueueType'
           /\ UNCHANGED logVars    => LogType'
           /\ UNCHANGED workerVars => WorkerInv'
           /\ UNCHANGED taskVars   => TaskType'
           /\ UNCHANGED envVars    => EnvType'
  <1>1. UNCHANGED poolVars => PoolType'
    BY DEF IType, poolVars, PoolType
  <1>2. UNCHANGED queueVars => QueueType'
    BY DEF IType, queueVars, QueueType
  <1>3. UNCHANGED logVars => LogType'
    BY DEF IType, logVars, LogType
  <1>4. UNCHANGED workerVars => WorkerInv'
    BY DEF IType, workerVars, WorkerInv, WorkerType, WaitsWithAttemptsLeft
  <1>5. UNCHANGED taskVars => TaskType'
    BY DEF IType, taskVars, TaskType
  <1>6. UNCHANGED envVars => EnvType'
    BY DEF IType, envVars, EnvType
  <1> QED BY <1>1, <1>2, <1>3, <1>4, <1>5, <1>6

\* The worker at rest.
LEMMA IdleType == ASSUME ToIdle PROVE WorkerInv'
  BY NotNoReq, BlankRecord DEF ToIdle, WorkerInv, WorkerType, WaitsWithAttemptsLeft, PC

-----------------------------------------------------------------------------
(* Type correctness.                                                       *)

\* A step of the worker keeps the types.
LEMMA WorkerKeepsTypes ==
    ASSUME IType, Worker
    PROVE  IType'
  <1> USE Untouched
  <1>1. CASE Receive
    <2>1. QueueType'
      BY <1>1, TakeType DEF Receive, IType, QueueType
    <2>2. WorkerInv'
      BY <1>1, TakeType, NotNoReq DEF Receive, IType, WorkerInv, WorkerType, WaitsWithAttemptsLeft, PC
    <2> QED BY <1>1, <2>1, <2>2 DEF Receive, IType
  <1>2. CASE WorkerUpsert
    <2>1. req \in JoinReq /\ req.ieee \in Dev /\ req.nwk \in Addr
      BY <1>2, HoldsRequest DEF WorkerUpsert, IType, WorkerInv
    <2>2. PoolType'
      BY <1>2, <2>1, UpsertType DEF WorkerUpsert, IType, PoolType, PoolRecords
    <2>3. WorkerInv'
      BY <1>2, <2>1, NotNoReq, IdleType
      DEF WorkerUpsert, IType, WorkerInv, WorkerType, WaitsWithAttemptsLeft, PC
    <2> QED BY <1>2, <2>2, <2>3 DEF WorkerUpsert, IType
  <1>3. CASE Activate
    <2>1. QueueType'
      BY <1>3, HoldsRequest DEF Activate, IType, WorkerInv, QueueType
    <2>2. WorkerInv'
      BY <1>3 DEF Activate, IType, WorkerInv, WorkerType, WaitsWithAttemptsLeft, PC
    <2> QED BY <1>3, <2>1, <2>2 DEF Activate, IType
  <1>4. CASE ClearPreempt
    <2>1. req.done + 1 \in 0..MaxAttempts
      BY <1>4, HoldsRequest DEF ClearPreempt, IType, WorkerInv
    <2>2. QueueType'
      BY <1>4 DEF ClearPreempt, IType, QueueType
    <2>3. WorkerInv'
      BY <1>4, <2>1 DEF ClearPreempt, IType, WorkerInv, WorkerType, WaitsWithAttemptsLeft, PC
    <2> QED BY <1>4, <2>2, <2>3 DEF ClearPreempt, IType
  <1>5. CASE StartAttempt
    <2>1. req.ieee \in Dev /\ req.nwk \in Addr
      BY <1>5, HoldsRequest DEF StartAttempt, IType, WorkerInv
    <2>2. Known(req.ieee) => [pool[req.ieee] EXCEPT !.nwk = req.nwk] \in Record
      BY <2>1, PoolRecord, BlankRecord, RecordOps DEF IType, Known
    <2>3. WorkerInv'
      BY <1>5, <2>2 DEF StartAttempt, IType, WorkerInv, WorkerType, WaitsWithAttemptsLeft, PC
    <2> QED BY <1>5, <2>3 DEF StartAttempt, IType
  <1>6. CASE Read
    <2>1. work' \in Record
      BY <1>6 DEF Read, IType, WorkerInv, WorkerType, Record, Topology
    <2>2. WorkerInv'
      BY <1>6, <2>1 DEF Read, IType, WorkerInv, WorkerType, WaitsWithAttemptsLeft, PC
    <2> QED BY <1>6, <2>2 DEF Read, IType
  <1>7. CASE Commit
    <2>1. req.ieee \in Dev /\ work \in Record /\ 0 \in Addr
      BY <1>7, HoldsRequest DEF Commit, IType, WorkerInv, WorkerType, Addr
    <2>2. PoolType'
      <3>1. CASE Known(req.ieee)
        <4>1. PICK r \in Record : r = Merge(pool[req.ieee], work)
          BY <2>1, <3>1, PoolRecord, RecordOps DEF Known, IType
        <4>2. pool' = With(req.ieee, r)
          BY <1>7, <3>1, <4>1 DEF Commit
        <4>3. PoolRecords(pool')
          BY <2>1, <4>2, WithType DEF IType
        <4> QED BY <1>7, <4>3 DEF Commit, IType, PoolType, PoolRecords
      <3>2. CASE ~Known(req.ieee)
        BY <1>7, <3>2 DEF Commit, IType, PoolType
      <3> QED BY <3>1, <3>2
    <2>3. WorkerInv'
      <3>1. work' \in Record
        <4>1. CASE Known(req.ieee)
          <5>1. pool[req.ieee] \in Record
            BY <4>1, PoolRecord DEF Known, IType
          <5>2. Merge(pool[req.ieee], work) \in Record
            BY <2>1, <5>1, RecordOps
          <5> QED BY <1>7, <4>1, <5>2 DEF Commit
        <4>2. CASE ~Known(req.ieee)
          BY <1>7, <2>1, <4>2 DEF Commit
        <4> QED BY <4>1, <4>2
      <3>2. pc' \in {"persist", "retry"} /\ pc = "commit" /\ req' = req /\ attempt' = attempt
        BY <1>7 DEF Commit
      <3> QED BY <3>1, <3>2 DEF IType, WorkerInv, WorkerType, WaitsWithAttemptsLeft, PC
    <2> QED BY <1>7, <2>2, <2>3 DEF Commit, IType
  <1>8. CASE Persist
    <2>1. PoolType'
      <3>1. Image(work) \in Images
        BY DEF IType, WorkerInv, WorkerType, Record, Image, Images
      <3> QED BY <1>8, <3>1, HoldsRequest DEF Persist, IType, WorkerInv, PoolType
    <2>2. WorkerInv'
      BY <1>8 DEF Persist, IType, WorkerInv, WorkerType, WaitsWithAttemptsLeft, PC
    <2> QED BY <1>8, <2>1, <2>2 DEF Persist, IType
  <1>9. CASE Retry
    <2>1. req \in JoinReq
      BY <1>9, HoldsRequest DEF Retry, IType, WorkerInv
    <2>2. NwkNow \in Addr
      BY <2>1, PoolRecord DEF IType, Known, JoinReq, Record, NwkNow
    <2>3. CASE attempt < MaxAttempts /\ queue # << >> /\ ~Full
      <3>1. PICK back : back = [req EXCEPT !.nwk = NwkNow, !.done = attempt]
        OBVIOUS
      <3>2. attempt \in 0..(MaxAttempts - 1)
        BY <2>3 DEF IType, WorkerInv, WorkerType
      <3>3. back \in JoinReq
        BY <2>1, <2>2, <3>1, <3>2 DEF JoinReq
      <3>4. queue' = Append(queue, back) /\ active' = NoDev /\ ToIdle
        BY <1>9, <2>3, <3>1 DEF Retry
      <3>5. QueueType'
        BY <1>9, <2>3, <3>3, <3>4, AppendType DEF Retry, IType, QueueType
      <3> QED
        BY <1>9, <3>4, <3>5, IdleType DEF Retry, IType
    <2>4. CASE ~(attempt < MaxAttempts /\ queue # << >> /\ ~Full)
      <3>1. /\ req' = [req EXCEPT !.nwk = NwkNow] /\ UNCHANGED <<queue, active, attempt, work>>
            /\ pc' = IF attempt < MaxAttempts THEN "wait" ELSE "publish"
        BY <1>9, <2>4 DEF Retry
      <3>2. req' \in JoinReq
        BY <2>1, <2>2, <3>1 DEF JoinReq
      <3>3. WorkerInv'
        BY <3>1, <3>2, NotNoReq DEF IType, WorkerInv, WorkerType, WaitsWithAttemptsLeft, PC
      <3>4. QueueType'
        BY <1>9, <3>1 DEF Retry, IType, QueueType
      <3> QED BY <1>9, <3>3, <3>4 DEF Retry, IType
    <2> QED BY <2>3, <2>4
  <1>10. CASE DelayOver
    <2>1. WorkerInv'
      BY <1>10 DEF DelayOver, IType, WorkerInv, WorkerType, WaitsWithAttemptsLeft, PC
    <2> QED BY <1>10, <2>1 DEF DelayOver, IType
  <1>11. CASE Publish
    <2>1. QueueType'
      BY <1>11 DEF Publish, IType, QueueType
    <2> QED BY <1>11, <2>1, IdleType DEF Publish, IType
  <1> QED
    BY <1>1, <1>2, <1>3, <1>4, <1>5, <1>6, <1>7, <1>8, <1>9, <1>10, <1>11 DEF Worker

\* A pool whose records are in order, with the rest in order, is typed.
LEMMA PoolTypeFrom ==
    ASSUME PoolType, PoolRecords(pool'),
           stored' \in [Dev -> {NotStored} \cup Images],
           cfgQ' \subseteq Dev, bound' \subseteq Dev
    PROVE  PoolType'
  BY DEF PoolType, PoolRecords

\* A job of the stack task is typed.
LEMMA JobType ==
    ASSUME TaskType, api' = api,
           NEW j \in StackJob \ {"idle"}, NEW d \in Dev, NEW r \in Record,
           stack' = [job |-> j, dev |-> d, snap |-> r]
    PROVE  TaskType'
  BY DEF TaskType

\* The stack task at rest.
LEMMA NoJobType ==
    ASSUME TaskType, api' = api, stack' = Idle
    PROVE  TaskType'
  BY BlankRecord DEF TaskType, Idle, StackJob

\* What the stack task has left to do names a device.
LEMMA HoldsJob ==
    ASSUME TaskType, stack.job # "idle"
    PROVE  /\ stack.dev \in Dev /\ stack.snap \in Record /\ stack.snap.nwk \in Addr
           /\ Image(stack.snap) \in Images
  <1>1. stack.dev \in Dev /\ stack.snap \in Record
    BY DEF TaskType
  <1>2. stack.snap.nwk \in Addr
    BY <1>1 DEF Record
  <1>3. Image(stack.snap) \in Images
    BY <1>1 DEF Record, Image, Images
  <1> QED BY <1>1, <1>2, <1>3

\* A stimulus at a new or old address keeps the environment typed.
LEMMA StimulusType ==
    ASSUME EnvType, Stimulus, NEW d \in Dev, NEW n \in Addr \ {0},
           addr' = [addr EXCEPT ![d] = n] \/ addr' = addr
    PROVE  EnvType'
  BY DEF EnvType, Stimulus

\* A step of the stack task keeps the types.
LEMMA StackKeepsTypes ==
    ASSUME IType, Stack
    PROVE  IType'
  <1> USE Untouched
  <1>1. ASSUME NEW d \in Dev, NEW n \in Addr \ {0}, Announce(d, n)
        PROVE  IType'
    <2>1. EnvType'
      BY <1>1, StimulusType DEF Announce, IType
    <2>2. CASE Known(d)
      <3>1. PICK r \in Record : r = Rejoined(pool[d], n)
        BY <2>2, PoolRecord, RecordOps, BlankRecord DEF Known, IType
      <3>2. pool' = With(d, r) /\ UNCHANGED <<stored, cfgQ, bound, api>>
        BY <1>1, <2>2, <3>1 DEF Announce
      <3>3. PoolType'
        BY <3>2, WithType, PoolTypeFrom DEF IType, PoolType
      <3>4. stack' = [job |-> IF r.ident THEN "rejoined" ELSE "announced", dev |-> d, snap |-> r]
        BY <1>1, <2>2, <3>1 DEF Announce
      <3>5. TaskType'
        BY <3>2, <3>4, JobType DEF IType, StackJob
      <3> QED BY <1>1, <2>1, <3>3, <3>5 DEF Announce, IType
    <2>3. CASE ~Known(d)
      <3>1. PICK r \in Record : r = [Blank EXCEPT !.nwk = n]
        BY BlankRecord, RecordOps
      <3>2. stack' = [job |-> "admitted", dev |-> d, snap |-> r] \/ UNCHANGED stack
        BY <1>1, <2>3, <3>1 DEF Announce
      <3>3. UNCHANGED poolVars /\ UNCHANGED api
        BY <1>1, <2>3 DEF Announce, poolVars
      <3>4. TaskType'
        BY <3>2, <3>3, JobType DEF IType, StackJob, taskVars
      <3> QED BY <1>1, <2>1, <3>3, <3>4 DEF Announce, IType
    <2> QED BY <2>2, <2>3
  <1>2. ASSUME NEW d \in Dev, NEW n \in Addr \ {0}, Adopt(d, n)
        PROVE  IType'
    <2>1. EnvType'
      BY <1>2, StimulusType DEF Adopt, IType
    <2>2. PoolType'
      BY <1>2, UpsertType, PoolTypeFrom DEF Adopt, IType, PoolType, PoolRecords
    <2>3. TaskType'
      <3>1. PICK r \in Record : r = [Blank EXCEPT !.nwk = n]
        BY BlankRecord, RecordOps
      <3>2. stack' = [job |-> "admitted", dev |-> d, snap |-> r] \/ UNCHANGED stack
        BY <1>2, <3>1 DEF Adopt
      <3>3. TaskType /\ UNCHANGED api
        BY <1>2 DEF Adopt, IType
      <3>4. CASE UNCHANGED stack
        BY <3>3, <3>4 DEF TaskType
      <3> QED BY <3>1, <3>2, <3>3, <3>4, JobType DEF StackJob
    <2> QED BY <1>2, <2>1, <2>2, <2>3 DEF Adopt, IType
  <1>3. ASSUME NEW d \in Dev, NEW n \in Addr \ {0}, Frame(d, n)
        PROVE  IType'
    <2>1. EnvType'
      BY <1>3, StimulusType DEF Frame, IType
    <2>2. PICK r \in Record : r = [pool[d] EXCEPT !.nwk = n]
      <3>1. d \in DOMAIN pool /\ PoolType
        BY <1>3 DEF Frame, Known, IType
      <3>2. pool[d] \in Record
        BY <3>1, PoolRecord
      <3>3. [pool[d] EXCEPT !.nwk = n] \in Record
        BY <3>2, RecordOps
      <3> QED BY <3>3
    <2>3. pool' = With(d, r)
      BY <1>3, <2>2 DEF Frame
    <2>4. cfgQ' \subseteq Dev /\ UNCHANGED <<stored, bound>>
      BY <1>3 DEF Frame, IType, PoolType
    <2>5. PoolType'
      BY <2>3, <2>4, WithType, PoolTypeFrom DEF IType, PoolType
    <2> QED BY <1>3, <2>1, <2>5 DEF Frame, IType
  <1>4. CASE RejoinKnown
    <2>1. PoolType'
      BY <1>4, HoldsJob DEF RejoinKnown, IType, PoolType
    <2> QED BY <1>4, <2>1, NoJobType DEF RejoinKnown, IType
  <1>5. CASE RejoinUnidentified
    <2>1. PoolType'
      BY <1>5, HoldsJob DEF RejoinUnidentified, IType, PoolType
    <2>2. QueueType'
      BY <1>5, HoldsJob, EnqueueType DEF RejoinUnidentified, IType, QueueType
    <2> QED BY <1>5, <2>1, <2>2, NoJobType DEF RejoinUnidentified, IType
  <1>6. CASE JoinAdmitted
    <2>1. QueueType'
      BY <1>6, HoldsJob, EnqueueType DEF JoinAdmitted, IType, QueueType
    <2> QED BY <1>6, <2>1, NoJobType DEF JoinAdmitted, IType
  <1>7. ASSUME NEW d \in Dev, Leave(d)
        PROVE  IType'
    <2>1. PICK r \in Record : r = [pool[d] EXCEPT !.removed = TRUE]
      BY <1>7, PoolRecord DEF Leave, Known, IType, Record
    <2>2. pool' = With(d, r) /\ stack' = [job |-> "left", dev |-> d, snap |-> r]
      BY <1>7, <2>1 DEF Leave
    <2>3. PoolType'
      BY <1>7, <2>2, WithType, PoolTypeFrom DEF Leave, IType, PoolType
    <2>4. TaskType'
      BY <1>7, <2>2, JobType DEF Leave, IType, StackJob
    <2>5. EnvType'
      BY <1>7 DEF Leave, Stimulus, IType, EnvType
    <2> QED BY <1>7, <2>3, <2>4, <2>5 DEF Leave, IType
  <1>8. CASE LeaveEnd
    <2>1. PoolType'
      BY <1>8, HoldsJob DEF LeaveEnd, IType, PoolType
    <2> QED BY <1>8, <2>1, NoJobType DEF LeaveEnd, IType
  <1> QED
    BY <1>1, <1>2, <1>3, <1>4, <1>5, <1>6, <1>7, <1>8 DEF Stack

\* A step of the API task keeps the types.
LEMMA ApiKeepsTypes ==
    ASSUME IType, Api
    PROVE  IType'
  <1> USE Untouched
  <1>1. ASSUME NEW d \in Dev, ApiInterview(d)
        PROVE  IType'
    <2>1. addr[d] \in Addr /\ (Known(d) => pool[d].nwk \in Addr)
      BY PoolRecord DEF IType, EnvType, Known, Record
    <2>2. UNCHANGED <<poolVars, active, logVars, workerVars, taskVars, addr>>
      BY <1>1 DEF ApiInterview
    <2>3. QueueType'
      <3>1. CASE Known(d) /\ Send(d, pool[d].nwk) /\ UNCHANGED preempt
        <4>1. joinSeq' \in Nat /\ queue' \in Seq(JoinReq) /\ Len(queue') \in 0..QLen
          BY <2>1, <3>1, SendType DEF IType
        <4> QED BY <2>2, <3>1, <4>1 DEF IType, QueueType
      <3>2. CASE Enqueue(d, addr[d])
        <4>1. /\ joinSeq' \in Nat /\ queue' \in Seq(JoinReq) /\ Len(queue') \in 0..QLen
              /\ preempt' \in BOOLEAN
          BY <2>1, <3>2, EnqueueType DEF IType
        <4> QED BY <2>2, <4>1 DEF IType, QueueType
      <3>3. CASE /\ joinSeq' = joinSeq + 2 /\ preempt' = (preempt \/ active # NoDev)
                 /\ UNCHANGED queue
        BY <2>2, <3>3 DEF IType, QueueType
      <3> QED BY <1>1, <3>1, <3>2, <3>3 DEF ApiInterview
    <2>4. EnvType'
      BY <1>1 DEF ApiInterview, Stimulus, IType, EnvType
    <2> QED BY <2>2, <2>3, <2>4 DEF IType
  <1>2. ASSUME NEW d \in Dev, Forget(d)
        PROVE  IType'
    <2>1. LogType'
      BY <1>2, LogForgetType DEF Forget, IType
    <2>2. TaskType'
      BY <1>2 DEF Forget, IType, TaskType
    <2>3. EnvType'
      BY <1>2 DEF Forget, Stimulus, IType, EnvType
    <2> QED BY <1>2, <2>1, <2>2, <2>3 DEF Forget, IType
  <1>3. CASE ForgetRecord
    <2>1. api \in Dev
      BY <1>3 DEF ForgetRecord, IType, TaskType
    <2>2. PoolRecords(pool')
      BY <1>3, <2>1, WithoutType DEF ForgetRecord, IType
    <2>3. PoolType'
      BY <1>3, <2>1, <2>2, PoolTypeFrom DEF ForgetRecord, IType, PoolType
    <2>4. TaskType'
      BY <1>3 DEF ForgetRecord, IType, TaskType
    <2> QED BY <1>3, <2>3, <2>4 DEF ForgetRecord, IType
  <1> QED BY <1>1, <1>2, <1>3 DEF Api

\* So does the configure queue.
LEMMA ConfigureKeepsTypes ==
    ASSUME IType, NEW d \in Dev, Configure(d)
    PROVE  IType'
  <1> USE Untouched
  <1>1. CASE UNCHANGED <<pool, bound>>
    <2>1. PoolType'
      BY <1>1 DEF Configure, IType, PoolType
    <2> QED BY <2>1 DEF Configure, IType
  <1>2. CASE Known(d) /\ pool' = With(d, [pool[d] EXCEPT !.cfg = "done"]) /\ bound' = bound \cup {d}
    <2>1. PICK r \in Record : r = [pool[d] EXCEPT !.cfg = "done"]
      BY <1>2, PoolRecord, RecordOps, BlankRecord DEF Known, IType, Record
    <2>2. PoolRecords(pool')
      BY <1>2, <2>1, WithType DEF IType
    <2>3. PoolType'
      BY <1>2, <2>2, PoolTypeFrom DEF Configure, IType, PoolType
    <2> QED BY <2>3 DEF Configure, IType
  <1> QED BY <1>1, <1>2 DEF Configure

\* And the late-identity worker.
LEMMA LateIdentityKeepsTypes ==
    ASSUME IType, NEW d \in Dev, LateIdentity(d)
    PROVE  IType'
  <1> USE Untouched
  <1>1. PICK r \in Record : r = [pool[d] EXCEPT !.ident = TRUE]
    BY PoolRecord DEF LateIdentity, Known, IType, Record
  <1>2. pool' = With(d, r) /\ stored' = [stored EXCEPT ![d] = Image(r)]
    BY <1>1 DEF LateIdentity
  <1>3. PoolRecords(pool')
    BY <1>2, WithType DEF IType
  <1>4. stored' \in [Dev -> {NotStored} \cup Images]
    BY <1>2, RecordOps, BlankRecord DEF IType, PoolType, Image, Images, Record
  <1>5. PoolType'
    BY <1>3, <1>4, PoolTypeFrom DEF LateIdentity, IType, PoolType
  <1>6. EnvType'
    BY DEF LateIdentity, Stimulus, IType, EnvType
  <1> QED BY <1>5, <1>6 DEF LateIdentity, IType

\* IType is an invariant.
THEOREM TypeInvariant == Spec => []IType
  <1>1. Init => IType
    <2> SUFFICES ASSUME Init PROVE IType
      OBVIOUS
    <2>1. PoolType
      BY DEF Init, PoolType
    <2>2. QueueType
      <3>1. queue \in Seq(JoinReq) /\ Len(queue) = 0
        BY DEF Init
      <3>2. joinSeq \in Nat /\ active \in Dev \cup {NoDev} /\ preempt \in BOOLEAN
        BY DEF Init
      <3> QED BY <3>1, <3>2 DEF QueueType
    <2>3. LogType
      BY DEF Init, LogType, LogEntry
    <2>4. WorkerInv
      BY BlankRecord, NotNoReq DEF Init, WorkerInv, WorkerType, WaitsWithAttemptsLeft, PC
    <2>5. TaskType
      BY BlankRecord DEF Init, TaskType, Idle, StackJob
    <2>6. EnvType
      BY DEF Init, EnvType, Addr
    <2> QED BY <2>1, <2>2, <2>3, <2>4, <2>5, <2>6 DEF IType
  <1>2. IType /\ [Next]_vars => IType'
    <2> SUFFICES ASSUME IType, [Next]_vars PROVE IType'
      OBVIOUS
    <2>1. CASE Next
      BY <2>1, WorkerKeepsTypes, StackKeepsTypes, ApiKeepsTypes, ConfigureKeepsTypes,
         LateIdentityKeepsTypes DEF Next, External
    <2>2. CASE UNCHANGED vars
      BY <2>2, Untouched DEF vars, IType
    <2> QED BY <2>1, <2>2
  <1> QED BY <1>1, <1>2, PTL DEF Spec

\* Every state is typed: the join queue holds at most QLen well-formed requests,
\* no request has spent kMaxAttempts when it goes back, and the worker holds a
\* request exactly when it is away from its queue (task_interview).
THEOREM TypesHold == Spec => []TypeOK
  <1>1. IType => TypeOK
    BY DEF IType, TypeOK, WorkerInv
  <1> QED BY <1>1, TypeInvariant, PTL

-----------------------------------------------------------------------------
(* What a step may do to the pool.                                         *)

\* One record is put in that keeps the identity of the one it replaces, and
\* that says "configured" only of a device that holds its bindings.
Replaces(d, r) ==
    /\ pool' = With(d, r)
    /\ Known(d) /\ pool[d].ident => r.ident
    /\ r.cfg = "done" /\ ~r.removed => d \in bound'
    /\ bound \ {d} \subseteq bound'

PoolStep ==
    \/ UNCHANGED pool /\ bound' = bound
    \/ \E d \in Dev, r \in Record : Replaces(d, r)
    \/ \E d \in Dev : pool' = Without(d) /\ bound' = bound

\* pool_upsert replaces a record by one with another address.
LEMMA UpsertReplaces ==
    ASSUME IType, ConfiguredIsBound, NEW d \in Dev, NEW n \in Addr,
           pool' = Upsert(d, n), bound' = bound
    PROVE  PoolStep
  <1>1. PICK r \in Record : r = Upserted(d, n)
    BY PoolRecord, BlankRecord, RecordOps DEF Known, Upserted, IType
  <1>2. CASE Known(d)
    <2>1. pool[d] \in Record /\ r = [pool[d] EXCEPT !.nwk = n]
      BY <1>1, <1>2, PoolRecord DEF Known, IType, Upserted
    <2>2. r.ident = pool[d].ident /\ r.cfg = pool[d].cfg /\ r.removed = pool[d].removed
      BY <2>1 DEF Record
    <2> QED BY <1>1, <1>2, <2>2 DEF Upsert, PoolStep, Replaces, ConfiguredIsBound, Known
  <1>3. CASE ~Known(d)
    <2>1. r = [Blank EXCEPT !.nwk = n]
      BY <1>1, <1>3 DEF Upserted
    <2>2. r.cfg = "pending"
      BY <2>1 DEF Blank
    <2> QED BY <1>1, <1>3, <2>2 DEF Upsert, PoolStep, Replaces
  <1> QED BY <1>2, <1>3

\* The steps of the worker; they leave the live fields alone.
LEMMA WorkerPoolStep ==
    ASSUME IType, ConfiguredIsBound, Worker
    PROVE  PoolStep
  <1>1. CASE WorkerUpsert
    <2>1. req.ieee \in Dev /\ req.nwk \in Addr /\ bound' = bound
      BY <1>1, HoldsRequest DEF WorkerUpsert, IType, WorkerInv
    <2> QED BY <1>1, <2>1, UpsertReplaces DEF WorkerUpsert, PoolStep
  <1>2. CASE Commit
    <2>1. req.ieee \in Dev /\ work \in Record /\ 0 \in Addr /\ bound' = bound
      BY <1>2, HoldsRequest DEF Commit, IType, WorkerInv, WorkerType, Addr
    <2>2. CASE Known(req.ieee)
      <3>1. pool[req.ieee] \in Record
        BY <2>2, PoolRecord DEF Known, IType
      <3>2. PICK r \in Record : r = Merge(pool[req.ieee], work)
        BY <2>1, <3>1, RecordOps
      <3>3. /\ pool[req.ieee].ident => r.ident
            /\ r.cfg = pool[req.ieee].cfg /\ r.removed = pool[req.ieee].removed
        BY <2>1, <3>1, <3>2 DEF Merge, Record
      <3>4. pool' = With(req.ieee, r)
        BY <1>2, <2>2, <3>2 DEF Commit
      <3>5. Replaces(req.ieee, r)
        BY <2>1, <2>2, <3>3, <3>4 DEF Replaces, ConfiguredIsBound, Known
      <3> QED BY <2>1, <3>2, <3>5 DEF PoolStep
    <2>3. CASE ~Known(req.ieee)
      BY <1>2, <2>1, <2>3 DEF Commit, PoolStep
    <2> QED BY <2>2, <2>3
  <1>3. CASE ~WorkerUpsert /\ ~Commit
    BY <1>3 DEF Worker, Receive, Activate, ClearPreempt, StartAttempt, Read, Persist, Retry,
       DelayOver, Publish, PoolStep, poolVars
  <1> QED BY <1>1, <1>2, <1>3

\* The pool after one record is put in.
LEMMA PutInPool ==
    ASSUME IType, NEW d \in Dev, NEW r \in Record, pool' = With(d, r)
    PROVE  /\ DOMAIN pool' = DOMAIN pool \cup {d} /\ pool'[d] = r
           /\ \A e \in DOMAIN pool : e # d => pool'[e] = pool[e]
  BY DEF IType, PoolType, With

\* The worker leaves the removed flag and configure_state of every record.
LEMMA WorkerLeavesLiveFields ==
    ASSUME IType, Worker
    PROVE  KeepsLiveFields
  <1>1. CASE WorkerUpsert
    <2>1. req.ieee \in Dev /\ req.nwk \in Addr
      BY <1>1, HoldsRequest DEF WorkerUpsert, IType, WorkerInv
    <2>2. CASE pool' = Upsert(req.ieee, req.nwk)
      <3>1. /\ pool'[req.ieee] = Upserted(req.ieee, req.nwk)
            /\ \A e \in DOMAIN pool : e # req.ieee => pool'[e] = pool[e]
        <4>1. PICK d \in Dev, n \in Addr : d = req.ieee /\ n = req.nwk
          BY <2>1
        <4>2. pool' = Upsert(d, n)
          BY <2>2, <4>1
        <4>3. /\ DOMAIN pool' = DOMAIN pool \cup {d} /\ pool'[d] = Upserted(d, n)
              /\ \A e \in DOMAIN pool : e # d => pool'[e] = pool[e]
          BY <4>1, <4>2, UpsertType DEF IType
        <4> QED BY <4>1, <4>3
      <3>2. Known(req.ieee) => /\ pool'[req.ieee].removed = pool[req.ieee].removed
                               /\ pool'[req.ieee].cfg = pool[req.ieee].cfg
        BY <3>1, PoolRecord DEF Upserted, Known, IType, Record
      <3> QED BY <3>1, <3>2 DEF KeepsLiveFields, Known
    <2>3. CASE pool' = pool
      BY <2>3 DEF KeepsLiveFields
    <2> QED BY <1>1, <2>2, <2>3 DEF WorkerUpsert
  <1>2. CASE Commit
    <2>1. req.ieee \in Dev /\ work \in Record /\ 0 \in Addr
      BY <1>2, HoldsRequest DEF Commit, IType, WorkerInv, WorkerType, Addr
    <2>2. CASE Known(req.ieee)
      <3>1. pool[req.ieee] \in Record
        BY <2>2, PoolRecord DEF Known, IType
      <3>2. PICK r \in Record : r = Merge(pool[req.ieee], work)
        BY <2>1, <3>1, RecordOps
      <3>3. r.cfg = pool[req.ieee].cfg /\ r.removed = pool[req.ieee].removed
        BY <2>1, <3>1, <3>2 DEF Merge, Record
      <3>4. pool' = With(req.ieee, r)
        BY <1>2, <2>2, <3>2 DEF Commit
      <3>5. pool'[req.ieee] = r /\ \A e \in DOMAIN pool : e # req.ieee => pool'[e] = pool[e]
        <4>1. PICK d \in Dev : d = req.ieee
          BY <2>1
        <4>2. pool' = With(d, r)
          BY <3>4, <4>1
        <4>3. /\ DOMAIN pool' = DOMAIN pool \cup {d} /\ pool'[d] = r
              /\ \A e \in DOMAIN pool : e # d => pool'[e] = pool[e]
          BY <3>2, <4>1, <4>2, PutInPool
        <4> QED BY <4>1, <4>3
      <3> QED BY <3>3, <3>5 DEF KeepsLiveFields
    <2>3. CASE ~Known(req.ieee)
      BY <1>2, <2>3 DEF Commit, KeepsLiveFields
    <2> QED BY <2>2, <2>3
  <1>3. CASE ~WorkerUpsert /\ ~Commit
    BY <1>3 DEF Worker, Receive, Activate, ClearPreempt, StartAttempt, Read, Persist, Retry,
       DelayOver, Publish, KeepsLiveFields, poolVars
  <1> QED BY <1>1, <1>2, <1>3

\* The steps of the other tasks.
LEMMA OtherPoolStep ==
    ASSUME IType, ConfiguredIsBound,
           Stack \/ Api \/ External
    PROVE  PoolStep
  <1>1. ASSUME NEW d \in Dev, NEW n \in Addr \ {0}, Announce(d, n)
        PROVE  PoolStep
    <2>1. bound' = bound
      BY <1>1 DEF Announce
    <2>2. CASE Known(d)
      <3>1. pool[d] \in Record
        BY <2>2, PoolRecord DEF Known, IType
      <3>2. PICK r \in Record : r = Rejoined(pool[d], n)
        BY <3>1, RecordOps, BlankRecord
      <3>3. /\ r.ident = pool[d].ident
            /\ r.cfg = "done" => pool[d].cfg = "done" /\ ~pool[d].removed
        BY <3>1, <3>2 DEF Rejoined, Record
      <3>4. Replaces(d, r)
        BY <1>1, <2>1, <2>2, <3>2, <3>3 DEF Announce, Replaces, ConfiguredIsBound, Known
      <3> QED BY <3>2, <3>4 DEF PoolStep
    <2>3. CASE ~Known(d)
      BY <1>1, <2>1, <2>3 DEF Announce, PoolStep
    <2> QED BY <2>2, <2>3
  <1>2. ASSUME NEW d \in Dev, NEW n \in Addr \ {0}, Adopt(d, n)
        PROVE  PoolStep
    <2>1. bound' = bound /\ n \in Addr
      BY <1>2 DEF Adopt
    <2>2. CASE pool' = Upsert(d, n)
      BY <2>1, <2>2, UpsertReplaces
    <2>3. CASE UNCHANGED pool
      BY <2>1, <2>3 DEF PoolStep
    <2> QED BY <1>2, <2>2, <2>3 DEF Adopt
  <1>3. ASSUME NEW d \in Dev, NEW n \in Addr \ {0}, Frame(d, n)
        PROVE  PoolStep
    <2>1. pool[d] \in Record /\ Known(d)
      BY <1>3, PoolRecord DEF Frame, Known, IType
    <2>2. PICK r \in Record : r = [pool[d] EXCEPT !.nwk = n]
      BY <2>1 DEF Record
    <2>3. /\ pool[d].ident => r.ident
          /\ r.cfg = pool[d].cfg /\ r.removed = pool[d].removed
      BY <2>1, <2>2 DEF Record
    <2>4. pool' = With(d, r) /\ bound' = bound
      BY <1>3, <2>2 DEF Frame
    <2>5. Replaces(d, r)
      BY <2>1, <2>3, <2>4 DEF Replaces, ConfiguredIsBound, Known
    <2> QED BY <2>2, <2>5 DEF PoolStep
  <1>4. ASSUME NEW d \in Dev, Leave(d)
        PROVE  PoolStep
    <2>1. pool[d] \in Record /\ Known(d)
      BY <1>4, PoolRecord DEF Leave, Known, IType
    <2>2. PICK r \in Record : r = [pool[d] EXCEPT !.removed = TRUE]
      BY <2>1 DEF Record
    <2>3. r.ident = pool[d].ident /\ r.removed
      BY <2>1, <2>2 DEF Record
    <2>4. Replaces(d, r)
      BY <1>4, <2>2, <2>3 DEF Leave, Replaces
    <2> QED BY <2>2, <2>4 DEF PoolStep
  <1>5. CASE RejoinKnown \/ RejoinUnidentified \/ JoinAdmitted \/ LeaveEnd
    BY <1>5 DEF RejoinKnown, RejoinUnidentified, JoinAdmitted, LeaveEnd, PoolStep, poolVars
  <1>6. CASE \E d \in Dev : ApiInterview(d) \/ Forget(d)
    BY <1>6 DEF ApiInterview, Forget, PoolStep, poolVars
  <1>7. CASE ForgetRecord
    BY <1>7 DEF ForgetRecord, PoolStep, IType, TaskType
  <1>8. ASSUME NEW d \in Dev, Configure(d)
        PROVE  PoolStep
    <2>1. CASE UNCHANGED <<pool, bound>>
      BY <2>1 DEF PoolStep
    <2>2. CASE Known(d) /\ pool' = With(d, [pool[d] EXCEPT !.cfg = "done"]) /\ bound' = bound \cup {d}
      <3>1. pool[d] \in Record
        BY <2>2, PoolRecord DEF Known, IType
      <3>2. PICK r \in Record : r = [pool[d] EXCEPT !.cfg = "done"]
        BY <3>1 DEF Record
      <3>3. r.ident = pool[d].ident
        BY <3>1, <3>2 DEF Record
      <3>4. Replaces(d, r)
        BY <2>2, <3>2, <3>3 DEF Replaces
      <3> QED BY <3>2, <3>4 DEF PoolStep
    <2> QED BY <1>8, <2>1, <2>2 DEF Configure
  <1>9. ASSUME NEW d \in Dev, LateIdentity(d)
        PROVE  PoolStep
    <2>1. pool[d] \in Record /\ Known(d)
      BY <1>9, PoolRecord DEF LateIdentity, Known, IType
    <2>2. PICK r \in Record : r = [pool[d] EXCEPT !.ident = TRUE]
      BY <2>1 DEF Record
    <2>3. r.ident /\ r.cfg = pool[d].cfg /\ r.removed = pool[d].removed
      BY <2>1, <2>2 DEF Record
    <2>4. pool' = With(d, r) /\ bound' = bound
      BY <1>9, <2>2 DEF LateIdentity
    <2>5. Replaces(d, r)
      BY <2>1, <2>3, <2>4 DEF Replaces, ConfiguredIsBound, Known
    <2> QED BY <2>2, <2>5 DEF PoolStep
  <1> QED
    BY <1>1, <1>2, <1>3, <1>4, <1>5, <1>6, <1>7, <1>8, <1>9 DEF Stack, Api, External

\* What follows of a pool step.
LEMMA PoolStepConsequences ==
    ASSUME IType, ConfiguredIsBound, PoolStep
    PROVE  ConfiguredIsBound' /\ KeepsIdentity
  <1>1. CASE UNCHANGED pool /\ bound' = bound
    BY <1>1 DEF ConfiguredIsBound, KeepsIdentity
  <1>2. ASSUME NEW d \in Dev, NEW r \in Record, Replaces(d, r)
        PROVE  ConfiguredIsBound' /\ KeepsIdentity
    <2>1. /\ DOMAIN pool' = DOMAIN pool \cup {d} /\ pool'[d] = r
          /\ \A e \in DOMAIN pool : e # d => pool'[e] = pool[e]
      BY <1>2, WithType DEF Replaces, IType
    <2>2. ConfiguredIsBound'
      BY <1>2, <2>1 DEF Replaces, ConfiguredIsBound
    <2>3. KeepsIdentity
      BY <1>2, <2>1 DEF Replaces, KeepsIdentity, Known
    <2> QED BY <2>2, <2>3
  <1>3. ASSUME NEW d \in Dev, pool' = Without(d), bound' = bound
        PROVE  ConfiguredIsBound' /\ KeepsIdentity
    <2>1. DOMAIN pool' = DOMAIN pool \ {d} /\ \A e \in DOMAIN pool' : pool'[e] = pool[e]
      BY <1>3, WithoutType DEF IType
    <2> QED BY <1>3, <2>1 DEF ConfiguredIsBound, KeepsIdentity
  <1> QED BY <1>1, <1>2, <1>3 DEF PoolStep

\* A step of the specification under both invariants.
LEMMA StepConsequences ==
    ASSUME IType, ConfiguredIsBound, [Next]_vars
    PROVE  /\ ConfiguredIsBound'
           /\ [KeepsIdentity]_vars
           /\ [Worker => KeepsLiveFields]_vars
  <1>1. CASE Next
    <2>1. PoolStep
      BY <1>1, WorkerPoolStep, OtherPoolStep DEF Next
    <2>2. Worker => KeepsLiveFields
      BY WorkerLeavesLiveFields
    <2> QED BY <2>1, <2>2, PoolStepConsequences
  <1>2. CASE UNCHANGED vars
    BY <1>2 DEF vars, poolVars, ConfiguredIsBound
  <1> QED BY <1>1, <1>2

\* A device in the pool that is marked configured and has not left holds its
\* bindings (rejoin_fn resets configure_state when a device comes back).
THEOREM ConfiguredDevicesAreBound == Spec => []ConfiguredIsBound
  <1>1. Init => ConfiguredIsBound
    BY DEF Init, ConfiguredIsBound
  <1>2. IType /\ ConfiguredIsBound /\ [Next]_vars => ConfiguredIsBound'
    BY StepConsequences
  <1> QED BY <1>1, <1>2, TypeInvariant, PTL DEF Spec

\* No interleaving of the worker, the stack task, the API task and configure
\* takes an identity from a device that stays in the pool (interview_merge).
THEOREM IdentityIsNeverLost == Spec => IdentityKept
  <1>1. IType /\ ConfiguredIsBound /\ [Next]_vars => [KeepsIdentity]_vars
    BY StepConsequences
  <1> QED BY <1>1, TypeInvariant, ConfiguredDevicesAreBound, PTL DEF Spec, IdentityKept

\* The worker's commits never un-remove a device or reopen its configure
\* (interview_merge, pool_upsert; review F07).
THEOREM WorkerLeavesLiveFieldsAlone == Spec => WorkerKeepsLiveFields
  <1>1. IType /\ ConfiguredIsBound /\ [Next]_vars => [Worker => KeepsLiveFields]_vars
    BY StepConsequences
  <1> QED BY <1>1, TypeInvariant, ConfiguredDevicesAreBound, PTL DEF Spec, WorkerKeepsLiveFields

-----------------------------------------------------------------------------
(* The refinement of JoinLedger.  The log of deletes is a ring: it stands  *)
(* for the ledger's voidUpTo while no device's entry is pushed out of it.  *)

\* A step keeps in the log every device that is there.
LogKeeps == \A d \in Dev : LogIndexes(d) # {} => LogIndexes(d)' # {}

\* A device has one entry in the log.
OneEntryEach ==
    \A i, j \in 1..LogSize : log[i].ieee = log[j].ieee /\ log[i].ieee # NoDev => i = j

\* The worker looks at a request with an attempt left for it.
Ready == pc = "check" => attempt \in 1..MaxAttempts

LedgerInv == OneEntryEach /\ Ready

\* A device with one entry in the log has what that entry says voided.
LEMMA VoidOfEntry ==
    ASSUME OneEntryEach, NEW d \in Dev, NEW i \in LogIndexes(d)
    PROVE  LedgerVoid[d] = log[i].seq
  <1>1. LogIndexes(d) = {i}
    BY DEF LogIndexes, OneEntryEach
  <1>2. (CHOOSE j \in LogIndexes(d) : TRUE) = i
    BY <1>1
  <1> QED BY <1>1, <1>2 DEF LedgerVoid

\* ForgetLog's cancelled() is the ledger's Void.
LEMMA VoidIsCancelled ==
    ASSUME OneEntryEach, NEW d \in Dev, NEW s \in Nat \ {0}
    PROVE  Cancelled(d, s) <=> s <= LedgerVoid[d]
  <1>1. CASE LogIndexes(d) = {}
    <2>1. LedgerVoid[d] = 0
      BY <1>1 DEF LedgerVoid
    <2> QED BY <1>1, <2>1 DEF Cancelled
  <1>2. ASSUME NEW i \in LogIndexes(d)
        PROVE  Cancelled(d, s) <=> s <= LedgerVoid[d]
    <2>1. LedgerVoid[d] = log[i].seq
      BY <1>2, VoidOfEntry
    <2>2. \A j \in LogIndexes(d) : j = i
      BY <1>2 DEF LogIndexes, OneEntryEach
    <2> QED BY <1>2, <2>1, <2>2 DEF Cancelled
  <1> QED BY <1>1, <1>2

\* An entry written for d where d has its entry, or over no other device's.
LEMMA EntryWritten ==
    ASSUME LogType, OneEntryEach, NEW d \in Dev, NEW i \in 1..LogSize, NEW s \in Nat,
           \A j \in LogIndexes(d) : j = i,
           log[i].ieee \in {d, NoDev},
           log' = [log EXCEPT ![i] = [ieee |-> d, seq |-> s]]
    PROVE  OneEntryEach' /\ LedgerVoid' = [LedgerVoid EXCEPT ![d] = s]
  <1>1. log'[i] = [ieee |-> d, seq |-> s] /\ \A j \in 1..LogSize : j # i => log'[j] = log[j]
    BY DEF LogType
  <1>2. OneEntryEach'
    BY <1>1 DEF OneEntryEach, LogIndexes
  <1>3. LogIndexes(d)' = {i}
    BY <1>1 DEF LogIndexes
  <1>4. \A e \in Dev \ {d} : LogIndexes(e)' = LogIndexes(e) /\ i \notin LogIndexes(e)
    BY <1>1 DEF LogIndexes
  <1>5. LedgerVoid'[d] = s
    <2>1. (CHOOSE j \in {i} : TRUE) = i
      OBVIOUS
    <2> QED BY <1>1, <1>3, <2>1 DEF LedgerVoid
  <1>6. ASSUME NEW e \in Dev \ {d} PROVE LedgerVoid'[e] = LedgerVoid[e]
    <2>1. CASE LogIndexes(e) = {}
      BY <1>4, <2>1 DEF LedgerVoid
    <2>2. ASSUME NEW j \in LogIndexes(e) PROVE LedgerVoid'[e] = LedgerVoid[e]
      <3>1. LogIndexes(e) = {j} /\ j # i /\ j \in 1..LogSize
        BY <1>4, <2>2 DEF LogIndexes, OneEntryEach
      <3>2. LogIndexes(e)' = {j} /\ log'[j] = log[j]
        BY <1>1, <1>4, <3>1
      <3>3. (CHOOSE k \in {j} : TRUE) = j
        OBVIOUS
      <3> QED BY <3>1, <3>2, <3>3 DEF LedgerVoid
    <2> QED BY <2>1, <2>2
  <1>7. LedgerVoid' = [LedgerVoid EXCEPT ![d] = s]
    BY <1>5, <1>6 DEF LedgerVoid
  <1> QED BY <1>2, <1>7

\* A delete that pushes nobody out voids what was issued, for its device only.
LEMMA ForgetVoids ==
    ASSUME LogType, QueueType, OneEntryEach, NEW d \in Dev, LogForget(d), LogKeeps
    PROVE  OneEntryEach' /\ LedgerVoid' = [LedgerVoid EXCEPT ![d] = joinSeq]
  <1>1. joinSeq \in Nat
    BY DEF QueueType
  <1>2. ASSUME NEW i \in LogIndexes(d)
        PROVE  OneEntryEach' /\ LedgerVoid' = [LedgerVoid EXCEPT ![d] = joinSeq]
    <2>1. i \in 1..LogSize /\ log[i].ieee = d /\ \A j \in LogIndexes(d) : j = i
      BY <1>2 DEF LogIndexes, OneEntryEach
    <2>2. log' = [log EXCEPT ![i] = [ieee |-> d, seq |-> joinSeq]]
      BY <1>2, <2>1 DEF LogForget, LogType
    <2> QED BY <1>1, <2>1, <2>2, EntryWritten
  <1>3. CASE LogIndexes(d) = {}
    <2>1. logNext \in 1..LogSize /\ log' = [log EXCEPT ![logNext] = [ieee |-> d, seq |-> joinSeq]]
      BY <1>3 DEF LogForget, LogType
    <2>2. log[logNext].ieee = NoDev
      <3> SUFFICES ASSUME log[logNext].ieee # NoDev PROVE FALSE
        OBVIOUS
      <3>1. PICK e \in Dev : e = log[logNext].ieee
        BY <2>1 DEF LogType, LogEntry
      <3>2. logNext \in LogIndexes(e) /\ e # d
        BY <1>3, <2>1, <3>1 DEF LogIndexes
      <3>3. \A j \in LogIndexes(e) : j = logNext
        BY <3>1, <3>2, <2>1 DEF LogIndexes, OneEntryEach
      <3>4. LogIndexes(e)' = {}
        BY <2>1, <3>2, <3>3 DEF LogIndexes, LogType
      <3> QED BY <3>2, <3>4 DEF LogKeeps
    <2> QED BY <1>1, <1>3, <2>1, <2>2, EntryWritten
  <1> QED BY <1>2, <1>3

\* What the ledger sees of variables that do not change.
LEMMA LedgerStill ==
    ASSUME TRUE
    PROVE  /\ UNCHANGED queue                => LedgerWaiting' = LedgerWaiting
           /\ UNCHANGED log                  => LedgerVoid' = LedgerVoid
           /\ UNCHANGED <<pc, req, attempt>> => LedgerRunning' = LedgerRunning
  <1>1. UNCHANGED queue => LedgerWaiting' = LedgerWaiting
    BY DEF LedgerWaiting, Entry
  <1>2. UNCHANGED log => LedgerVoid' = LedgerVoid
    BY DEF LedgerVoid, LogIndexes
  <1>3. UNCHANGED <<pc, req, attempt>> => LedgerRunning' = LedgerRunning
    BY DEF LedgerRunning, TriesSoFar, Entry
  <1> QED BY <1>1, <1>2, <1>3

\* A request joins the line.
LEMMA LineGrows ==
    ASSUME QueueType, NEW r \in JoinReq, queue' = Append(queue, r)
    PROVE  LedgerWaiting' = Append(LedgerWaiting, Entry(r, r.done))
  <1>1. queue \in Seq(JoinReq)
    BY DEF QueueType
  <1>2. PICK n \in Nat : n = Len(queue)
    BY <1>1
  <1>3. LedgerWaiting = [i \in 1..n |-> Entry(queue[i], queue[i].done)]
    BY <1>1, <1>2 DEF LedgerWaiting
  <1>4. queue' \in Seq(JoinReq) /\ Len(queue') = n + 1 /\ queue'[n + 1] = r
        /\ \A i \in 1..n : queue'[i] = queue[i]
    BY <1>1, <1>2
  <1>5. LedgerWaiting' = [i \in 1..(n + 1) |-> Entry(queue'[i], queue'[i].done)]
    BY <1>4 DEF LedgerWaiting, Entry
  <1> QED BY <1>2, <1>3, <1>4, <1>5 DEF Entry

\* The first of the line leaves it.
LEMMA LineShrinks ==
    ASSUME QueueType, queue # << >>, queue' = Tail(queue)
    PROVE  /\ LedgerWaiting # << >>
           /\ LedgerWaiting' = Tail(LedgerWaiting)
           /\ Head(LedgerWaiting) = Entry(Head(queue), Head(queue).done)
  <1>1. queue \in Seq(JoinReq)
    BY DEF QueueType
  <1>2. PICK n \in Nat : n = Len(queue) /\ n > 0
    BY <1>1
  <1>3. LedgerWaiting = [i \in 1..n |-> Entry(queue[i], queue[i].done)]
    BY <1>1, <1>2 DEF LedgerWaiting
  <1>4. queue' \in Seq(JoinReq) /\ Len(queue') = n - 1
        /\ \A i \in 1..(n - 1) : queue'[i] = queue[i + 1]
    BY <1>1, <1>2
  <1>5. LedgerWaiting' = [i \in 1..(n - 1) |-> Entry(queue'[i], queue'[i].done)]
    BY <1>4 DEF LedgerWaiting, Entry
  <1>6. LedgerWaiting # << >> /\ Head(LedgerWaiting) = Entry(Head(queue), Head(queue).done)
    BY <1>1, <1>2, <1>3
  <1>7. LedgerWaiting' = Tail(LedgerWaiting)
    BY <1>2, <1>3, <1>4, <1>5 DEF Entry
  <1> QED BY <1>6, <1>7

\* The line is empty when the queue is.
LEMMA LineEmpty ==
    ASSUME QueueType, LedgerWaiting = << >>
    PROVE  queue = << >>
  BY DEF QueueType, LedgerWaiting

\* A request with a new number is issued: it waits, or finds no room.
LEMMA SendIssues ==
    ASSUME QueueType, NEW d \in Dev, NEW n \in Addr, Send(d, n),
           UNCHANGED <<log, pc, req, attempt>>
    PROVE  Ledger!Issue(d)
  <1>0. [ieee |-> d, nwk |-> n, done |-> 0, seq |-> joinSeq + 1] \in JoinReq
    BY DEF QueueType, JoinReq
  <1>1. PICK r \in JoinReq : r = [ieee |-> d, nwk |-> n, done |-> 0, seq |-> joinSeq + 1]
    BY <1>0
  <1>2. joinSeq' = joinSeq + 1
    BY DEF Send
  <1>3. CASE Full
    BY <1>2, <1>3, LedgerStill DEF Ledger!Issue, Send
  <1>4. CASE ~Full
    <2>1. queue' = Append(queue, r)
      BY <1>1, <1>4 DEF Send
    <2>2. Entry(r, r.done) = [ieee |-> d, seq |-> joinSeq', tries |-> 0]
      BY <1>1, <1>2 DEF Entry
    <2>3. LedgerWaiting' = Append(LedgerWaiting, [ieee |-> d, seq |-> joinSeq', tries |-> 0])
      BY <2>1, <2>2, LineGrows
    <2> QED BY <1>2, <2>3, LedgerStill DEF Ledger!Issue
  <1> QED BY <1>3, <1>4

\* So it is when an enqueue goes through; otherwise nothing happens.
LEMMA EnqueueIssues ==
    ASSUME QueueType, NEW d \in Dev, NEW n \in Addr, Enqueue(d, n),
           UNCHANGED <<log, pc, req, attempt>>
    PROVE  Ledger!Issue(d) \/ UNCHANGED Ledger!ledger
  <1>1. CASE active = d
    BY <1>1, LedgerStill DEF Enqueue, Ledger!ledger
  <1>2. CASE active # d
    BY <1>2, SendIssues DEF Enqueue
  <1> QED BY <1>1, <1>2

\* A step of the worker is a step of the ledger, or none.
LEMMA WorkerOnLedger ==
    ASSUME IType, LedgerInv, Worker
    PROVE  LedgerInv' /\ [Ledger!Next]_(Ledger!ledger)
  <1> USE LedgerStill
  <1>0. QueueType /\ OneEntryEach /\ attempt \in 0..MaxAttempts
    BY DEF IType, WorkerInv, WorkerType, LedgerInv
  <1>a. OneEntryEach'
    BY <1>0 DEF Worker, Receive, WorkerUpsert, Activate, ClearPreempt, StartAttempt, Read,
                Commit, Persist, Retry, DelayOver, Publish, logVars, OneEntryEach
  <1>1. CASE Receive
    <2>1. PICK r \in JoinReq : r = Head(queue) /\ r.ieee \in Dev /\ r.seq \in Nat \ {0}
      BY <1>0, <1>1, TakeType DEF Receive, JoinReq
    <2>2. /\ LedgerWaiting # << >> /\ LedgerWaiting' = Tail(LedgerWaiting)
          /\ Head(LedgerWaiting) = Entry(r, r.done)
      BY <1>0, <1>1, <2>1, LineShrinks DEF Receive
    <2>3. LedgerRunning = << >> /\ LedgerVoid' = LedgerVoid /\ joinSeq' = joinSeq
      BY <1>1 DEF Receive, LedgerRunning, logVars
    <2>4. Cancelled(r.ieee, r.seq) <=> Ledger!Void(Entry(r, r.done))
      BY <1>0, <2>1, VoidIsCancelled DEF Ledger!Void, Entry
    <2>5. CASE Cancelled(r.ieee, r.seq)
      <3>1. LedgerRunning' = << >> /\ Ready'
        BY <1>1, <2>1, <2>5 DEF Receive, LedgerRunning, Ready
      <3> QED BY <1>a, <2>2, <2>3, <2>4, <2>5, <3>1 DEF Ledger!Take, Ledger!Next, LedgerInv
    <2>6. CASE ~Cancelled(r.ieee, r.seq)
      <3>1. pc' = "upsert" /\ req' = r
        BY <1>1, <2>1, <2>6 DEF Receive
      <3>2. LedgerRunning' = <<Entry(r, r.done)>> /\ Ready'
        BY <3>1 DEF LedgerRunning, TriesSoFar, Entry, Ready
      <3> QED BY <1>a, <2>2, <2>3, <2>4, <2>6, <3>2 DEF Ledger!Take, Ledger!Next, LedgerInv
    <2> QED BY <2>5, <2>6
  <1>2. CASE WorkerUpsert \/ Publish
    <2>1. UNCHANGED <<queue, joinSeq, log>>
      BY <1>2 DEF WorkerUpsert, Publish, queueVars, logVars
    <2>2. CASE ToIdle
      <3>1. LedgerRunning # << >> /\ LedgerRunning' = << >> /\ Ready'
        BY <1>2, <2>2 DEF WorkerUpsert, Publish, ToIdle, LedgerRunning, Ready
      <3> QED BY <1>a, <2>1, <3>1 DEF Ledger!Settle, Ledger!Next, LedgerInv
    <2>3. CASE pc = "upsert" /\ pc' = "activate" /\ UNCHANGED <<req, attempt>>
      <3>1. LedgerRunning' = LedgerRunning /\ Ready'
        BY <2>3 DEF LedgerRunning, TriesSoFar, Entry, Ready
      <3> QED BY <1>a, <2>1, <3>1 DEF Ledger!ledger, LedgerInv
    <2> QED BY <1>2, <2>2, <2>3 DEF WorkerUpsert, Publish
  <1>3. CASE Activate \/ ClearPreempt \/ Read \/ Commit \/ Persist \/ DelayOver
    <2>1. UNCHANGED <<queue, joinSeq, log, req>>
      BY <1>3 DEF Activate, ClearPreempt, Read, Commit, Persist, DelayOver, queueVars, logVars
    <2>2. pc # "receive" /\ pc' # "receive" /\ TriesSoFar' = TriesSoFar /\ Ready'
      <3>1. req.done \in 0..(MaxAttempts - 1)
        BY <1>3, HoldsRequest DEF Activate, ClearPreempt, Read, Commit, Persist, DelayOver,
           IType, WorkerInv
      <3>2. pc = "wait" => attempt < MaxAttempts
        BY DEF IType, WorkerInv, WaitsWithAttemptsLeft
      <3>3. CASE Activate \/ Read \/ Commit \/ Persist
        BY <3>3 DEF Activate, Read, Commit, Persist, TriesSoFar, Ready
      <3>4. CASE ClearPreempt \/ DelayOver
        BY <1>0, <3>1, <3>2, <3>4 DEF ClearPreempt, DelayOver, TriesSoFar, Ready
      <3> QED BY <1>3, <3>3, <3>4
    <2>3. LedgerRunning' = LedgerRunning
      BY <2>1, <2>2 DEF LedgerRunning, Entry
    <2> QED BY <1>a, <2>1, <2>2, <2>3 DEF Ledger!ledger, LedgerInv
  <1>4. CASE StartAttempt
    <2>1. UNCHANGED <<queue, joinSeq, log, req, attempt>> /\ pc = "check"
      BY <1>4 DEF StartAttempt, queueVars, logVars
    <2>2. attempt \in 1..MaxAttempts
      BY <2>1 DEF LedgerInv, Ready
    <2>3. LedgerRunning = <<Entry(req, attempt - 1)>>
      BY <2>1 DEF LedgerRunning, TriesSoFar
    <2>4. CASE Cancelled(req.ieee, req.seq)
      <3>1. pc' = "cancelled"
        BY <1>4, <2>4 DEF StartAttempt
      <3>2. LedgerRunning' = <<Entry(req, attempt - 1)>> /\ Ready'
        BY <2>1, <3>1 DEF LedgerRunning, TriesSoFar, Entry, Ready
      <3> QED BY <1>a, <2>1, <2>3, <3>2 DEF Ledger!ledger, LedgerInv
    <2>5. CASE ~Cancelled(req.ieee, req.seq)
      <3>1. pc' \in {"read", "retry"}
        BY <1>4, <2>5 DEF StartAttempt
      <3>2. LedgerRunning' = <<Entry(req, attempt)>> /\ Ready'
        BY <2>1, <3>1 DEF LedgerRunning, TriesSoFar, Entry, Ready
      <3>3. req.ieee \in Dev /\ req.seq \in Nat \ {0}
        BY <2>1, HoldsRequest DEF IType, WorkerInv, JoinReq
      <3>4. ~Ledger!Void(Entry(req, attempt - 1))
        BY <1>0, <2>5, <3>3, VoidIsCancelled DEF Ledger!Void, Entry
      <3>5. /\ Entry(req, attempt - 1).tries < MaxAttempts
            /\ Entry(req, attempt) = [Entry(req, attempt - 1) EXCEPT !.tries = @ + 1]
        BY <2>2 DEF Entry
      <3>6. Ledger!Try
        BY <2>1, <2>3, <3>2, <3>4, <3>5 DEF Ledger!Try
      <3> QED BY <1>a, <3>2, <3>6 DEF Ledger!Next, LedgerInv
    <2> QED BY <2>4, <2>5
  <1>5. CASE Retry
    <2>1. UNCHANGED <<joinSeq, log>> /\ pc = "retry"
      BY <1>5 DEF Retry, logVars
    <2>2. LedgerRunning = <<Entry(req, attempt)>>
      BY <2>1 DEF LedgerRunning, TriesSoFar
    <2>3. req \in JoinReq
      BY <2>1, HoldsRequest DEF IType, WorkerInv
    <2>4. CASE attempt < MaxAttempts /\ queue # << >> /\ ~Full
      <3>1. PICK back : back = [req EXCEPT !.nwk = NwkNow, !.done = attempt]
        OBVIOUS
      <3>2. NwkNow \in Addr
        BY <2>3, PoolRecord DEF IType, Known, JoinReq, Record, NwkNow
      <3>a. attempt \in 0..(MaxAttempts - 1)
        BY <1>0, <2>4
      <3>b. back \in JoinReq /\ back.ieee = req.ieee /\ back.seq = req.seq /\ back.done = attempt
        BY <2>3, <3>1, <3>2, <3>a DEF JoinReq
      <3>3. back \in JoinReq /\ Entry(back, back.done) = Entry(req, attempt)
        BY <3>b DEF Entry
      <3>4. queue' = Append(queue, back) /\ ToIdle
        BY <1>5, <2>4, <3>1 DEF Retry
      <3>5. LedgerWaiting' = Append(LedgerWaiting, Entry(req, attempt))
        BY <1>0, <3>3, <3>4, LineGrows
      <3>6. LedgerRunning' = << >> /\ Ready'
        BY <3>4 DEF ToIdle, LedgerRunning, Ready
      <3>7. LedgerWaiting # << >> /\ Entry(req, attempt).tries < MaxAttempts
        BY <1>0, <2>4, LineEmpty DEF Entry
      <3>8. Ledger!GiveWay
        BY <2>1, <2>2, <3>5, <3>6, <3>7 DEF Ledger!GiveWay
      <3> QED BY <1>a, <3>6, <3>8 DEF Ledger!Next, LedgerInv
    <2>5. CASE ~(attempt < MaxAttempts /\ queue # << >> /\ ~Full)
      <3>1. /\ req' = [req EXCEPT !.nwk = NwkNow] /\ UNCHANGED <<queue, attempt>>
            /\ pc' \in {"wait", "publish"}
        BY <1>5, <2>5 DEF Retry
      <3>2. req'.ieee = req.ieee /\ req'.seq = req.seq
        BY <2>3, <3>1 DEF JoinReq
      <3>3. LedgerRunning' = LedgerRunning /\ Ready'
        BY <2>2, <3>1, <3>2 DEF LedgerRunning, TriesSoFar, Entry, Ready
      <3> QED BY <1>a, <2>1, <3>1, <3>3 DEF Ledger!ledger, LedgerInv
    <2> QED BY <2>4, <2>5
  <1> QED BY <1>1, <1>2, <1>3, <1>4, <1>5 DEF Worker

\* So is a step of the other tasks, when the log keeps its devices.
LEMMA OthersOnLedger ==
    ASSUME IType, LedgerInv, LogKeeps, Stack \/ Api \/ External
    PROVE  LedgerInv' /\ [Ledger!Next]_(Ledger!ledger)
  <1>0. QueueType /\ LogType /\ TaskType /\ EnvType /\ OneEntryEach
    BY DEF IType, LedgerInv
  <1>a. UNCHANGED <<pc, req, attempt>>
    BY DEF Stack, Announce, Adopt, Frame, RejoinKnown, RejoinUnidentified, JoinAdmitted, Leave,
           LeaveEnd, Api, ApiInterview, Forget, ForgetRecord, External, LateIdentity, Configure,
           workerVars
  <1>b. Ready'
    BY <1>a DEF LedgerInv, Ready
  <1>c. UNCHANGED log => OneEntryEach'
    BY <1>0 DEF OneEntryEach
  <1>1. ASSUME NEW d \in Dev, Ledger!Issue(d) \/ UNCHANGED Ledger!ledger, UNCHANGED log
        PROVE  LedgerInv' /\ [Ledger!Next]_(Ledger!ledger)
    BY <1>1, <1>b, <1>c DEF Ledger!Next, LedgerInv
  <1>2. CASE UNCHANGED <<queue, joinSeq, log>>
    BY <1>2, <1>a, <1>b, <1>c, LedgerStill DEF Ledger!ledger, LedgerInv
  <1>3. CASE RejoinUnidentified \/ JoinAdmitted
    <2>1. PICK d \in Dev, n \in Addr : d = stack.dev /\ n = stack.snap.nwk
      BY <1>0, <1>3, HoldsJob DEF RejoinUnidentified, JoinAdmitted
    <2>2. Enqueue(d, n) /\ UNCHANGED log
      BY <1>3, <2>1 DEF RejoinUnidentified, JoinAdmitted, logVars
    <2> QED BY <1>0, <1>1, <1>a, <2>2, EnqueueIssues
  <1>4. ASSUME NEW d \in Dev, ApiInterview(d)
        PROVE  LedgerInv' /\ [Ledger!Next]_(Ledger!ledger)
    <2>1. UNCHANGED log
      BY <1>4 DEF ApiInterview, logVars
    <2>2. CASE Known(d) /\ Send(d, pool[d].nwk)
      <3>1. pool[d].nwk \in Addr
        BY <2>2, PoolRecord DEF IType, Known, Record
      <3>2. Ledger!Issue(d)
        BY <1>0, <1>a, <2>1, <2>2, <3>1, SendIssues
      <3> QED BY <1>1, <2>1, <3>2
    <2>3. CASE Enqueue(d, addr[d])
      <3>1. addr[d] \in Addr
        BY <1>0 DEF EnvType
      <3>2. Ledger!Issue(d) \/ UNCHANGED Ledger!ledger
        BY <1>0, <1>a, <2>1, <2>3, <3>1, EnqueueIssues
      <3> QED BY <1>1, <2>1, <3>2
    <2>4. CASE joinSeq' = joinSeq + 2 /\ UNCHANGED queue
      <3>1. Ledger!Issue(d)
        BY <1>a, <2>1, <2>4, LedgerStill DEF Ledger!Issue
      <3> QED BY <1>1, <2>1, <3>1
    <2> QED BY <1>4, <2>2, <2>3, <2>4 DEF ApiInterview
  <1>5. ASSUME NEW d \in Dev, Forget(d)
        PROVE  LedgerInv' /\ [Ledger!Next]_(Ledger!ledger)
    <2>1. LogForget(d) /\ UNCHANGED <<queue, joinSeq>>
      BY <1>5 DEF Forget, queueVars
    <2>2. OneEntryEach' /\ LedgerVoid' = [LedgerVoid EXCEPT ![d] = joinSeq]
      BY <1>0, <2>1, ForgetVoids
    <2>3. Ledger!Delete(d)
      BY <1>a, <2>1, <2>2, LedgerStill DEF Ledger!Delete
    <2> QED BY <1>b, <2>2, <2>3 DEF Ledger!Next, LedgerInv
  <1>6. ASSUME NEW d \in Dev, NEW n \in Addr, Announce(d, n) \/ Adopt(d, n) \/ Frame(d, n)
        PROVE  UNCHANGED <<queue, joinSeq, log>>
    BY <1>6 DEF Announce, Adopt, Frame, queueVars, logVars
  <1>7. ASSUME NEW d \in Dev, Leave(d) \/ LateIdentity(d) \/ Configure(d)
        PROVE  UNCHANGED <<queue, joinSeq, log>>
    BY <1>7 DEF Leave, LateIdentity, Configure, queueVars, logVars
  <1>8. CASE RejoinKnown \/ LeaveEnd \/ ForgetRecord
    BY <1>2, <1>8 DEF RejoinKnown, LeaveEnd, ForgetRecord, queueVars, logVars
  <1> QED BY <1>2, <1>3, <1>4, <1>5, <1>6, <1>7, <1>8 DEF Stack, Api, External

\* What the refinement rests on stays true, and each step is one of the ledger's.
LEMMA StepOnLedger ==
    ASSUME IType, LedgerInv, [Next]_vars, [LogKeeps]_vars
    PROVE  LedgerInv' /\ [Ledger!Next]_(Ledger!ledger)
  <1>1. CASE UNCHANGED vars
    BY <1>1, LedgerStill DEF vars, queueVars, logVars, workerVars, Ledger!ledger, LedgerInv,
       OneEntryEach, Ready
  <1>2. CASE Next /\ LogKeeps
    BY <1>2, WorkerOnLedger, OthersOnLedger DEF Next
  <1> QED BY <1>1, <1>2

\* The queue starts as an empty ledger.
LEMMA LedgerStart ==
    ASSUME Init
    PROVE  LedgerInv /\ Ledger!Init
  <1>1. LedgerInv
    BY DEF Init, LedgerInv, OneEntryEach, Ready
  <1>2. \A d \in Dev : LogIndexes(d) = {}
    BY DEF Init, LogIndexes
  <1>3. LedgerVoid = [d \in Dev |-> 0]
    BY <1>2 DEF LedgerVoid
  <1>4. LedgerWaiting = << >> /\ LedgerRunning = << >>
    BY DEF Init, LedgerWaiting, LedgerRunning
  <1> QED BY <1>1, <1>3, <1>4 DEF Init, Ledger!Init

\* As long as no delete pushes another device out of the log, the join queue, the
\* delete log and the worker implement the ledger, for any number of devices and
\* any log: a request is tried at most kMaxAttempts times over all its yields, and
\* a delete voids what was queued for its device before it and nothing else.
THEOREM QueueIsALedger == Spec /\ [][LogKeeps]_vars => LedgerSpec
  <1>1. Init => LedgerInv /\ Ledger!Init
    BY LedgerStart
  <1>2. IType /\ LedgerInv /\ [Next]_vars /\ [LogKeeps]_vars
          => LedgerInv' /\ [Ledger!Next]_(Ledger!ledger)
    BY StepOnLedger
  <1> QED BY <1>1, <1>2, TypeInvariant, PTL DEF Spec, LedgerSpec, Ledger!Spec

\* The log fills from its first slot on, and then holds a device in every slot.
FillsInOrder ==
    \/ \A i \in 1..LogSize : log[i].ieee = NoDev <=> i >= logNext
    \/ \A i \in 1..LogSize : log[i].ieee # NoDev

\* A full log has a slot for each of LogSize devices; nobody else is left.
LEMMA NobodyLeftOut ==
    ASSUME LogType, OneEntryEach, IsFiniteSet(Dev), Cardinality(Dev) <= LogSize,
           NEW d \in Dev, LogIndexes(d) = {}
    PROVE  \E i \in 1..LogSize : log[i].ieee = NoDev
  <1> SUFFICES ASSUME \A i \in 1..LogSize : log[i].ieee # NoDev PROVE FALSE
    OBVIOUS
  <1>1. PICK f : f = [i \in 1..LogSize |-> log[i].ieee]
    OBVIOUS
  <1>2. f \in [1..LogSize -> Dev \ {d}]
    BY <1>1 DEF LogType, LogEntry, LogIndexes
  <1>3. IsFiniteSet(1..LogSize) /\ Cardinality(1..LogSize) = LogSize
    BY FS_Interval
  <1>4. Cardinality(Dev) \in Nat
    BY FS_CardinalityType
  <1>5. IsFiniteSet(Dev \ {d}) /\ Cardinality(Dev \ {d}) = Cardinality(Dev) - 1
    BY FS_RemoveElement
  <1>6. Cardinality(Dev \ {d}) < Cardinality(1..LogSize)
    BY <1>3, <1>4, <1>5
  <1>7. PICK x, y \in 1..LogSize : x # y /\ f[x] = f[y]
    BY <1>2, <1>3, <1>5, <1>6, FS_PigeonHole
  <1> QED BY <1>1, <1>7 DEF OneEntryEach

\* With no more devices than slots, logging a delete pushes nobody out.
LEMMA FewPushNobodyOut ==
    ASSUME LogType, OneEntryEach, FillsInOrder, IsFiniteSet(Dev), Cardinality(Dev) <= LogSize,
           NEW d \in Dev, LogForget(d)
    PROVE  LogKeeps /\ FillsInOrder'
  <1>0. logNext \in 1..LogSize /\ LogSize \in Nat \ {0}
    BY DEF LogType
  <1>1. CASE LogIndexes(d) # {}
    <2>1. \A i \in 1..LogSize : log'[i].ieee = log[i].ieee
      BY <1>1 DEF LogForget, LogIndexes
    <2>2. logNext' = logNext
      BY <1>1 DEF LogForget
    <2> QED BY <2>1, <2>2 DEF LogKeeps, LogIndexes, FillsInOrder
  <1>2. CASE LogIndexes(d) = {}
    <2>1. log[logNext].ieee = NoDev /\ \A i \in 1..LogSize : log[i].ieee = NoDev <=> i >= logNext
      BY <1>0, <1>2, NobodyLeftOut DEF FillsInOrder
    <2>2. log'[logNext].ieee = d /\ \A i \in 1..LogSize : i # logNext => log'[i] = log[i]
      BY <1>0, <1>2 DEF LogForget, LogType
    <2>3. logNext' = (logNext % LogSize) + 1
      BY <1>2 DEF LogForget
    <2>4. LogKeeps
      <3> SUFFICES ASSUME NEW e \in Dev, NEW i \in LogIndexes(e) PROVE i \in LogIndexes(e)'
        BY DEF LogKeeps
      <3>1. i \in 1..LogSize /\ i # logNext
        BY <2>1 DEF LogIndexes
      <3> QED BY <2>2, <3>1 DEF LogIndexes
    <2>5. CASE logNext = LogSize
      <3>1. \A i \in 1..LogSize : log'[i].ieee # NoDev
        BY <1>0, <2>1, <2>2, <2>5
      <3> QED BY <2>4, <3>1 DEF FillsInOrder
    <2>6. CASE logNext < LogSize
      <3>1. logNext' = logNext + 1
        BY <1>0, <2>3, <2>6
      <3>2. \A i \in 1..LogSize : log'[i].ieee = NoDev <=> i >= logNext'
        BY <1>0, <2>1, <2>2, <3>1
      <3> QED BY <2>4, <3>2 DEF FillsInOrder
    <2> QED BY <1>0, <2>5, <2>6
  <1> QED BY <1>1, <1>2

\* Nothing else writes the log.
LEMMA OnlyForgetWritesLog ==
    ASSUME [Next]_vars
    PROVE  UNCHANGED logVars \/ \E d \in Dev : LogForget(d)
  BY DEF Next, Worker, Receive, WorkerUpsert, Activate, ClearPreempt, StartAttempt, Read, Commit,
     Persist, Retry, DelayOver, Publish, Stack, Announce, Adopt, Frame, RejoinKnown,
     RejoinUnidentified, JoinAdmitted, Leave, LeaveEnd, Api, ApiInterview, Forget, ForgetRecord,
     External, LateIdentity, Configure, vars

\* A hub with no more devices than the log has slots never loses a delete, and its
\* join queue implements the ledger without any condition on what happens.
THEOREM FewDevicesQueueIsALedger ==
    ASSUME IsFiniteSet(Dev), Cardinality(Dev) <= LogSize
    PROVE  Spec => LedgerSpec
  <1>1. Init => LedgerInv /\ FillsInOrder /\ Ledger!Init
    <2>1. Init => FillsInOrder
      BY DEF Init, FillsInOrder
    <2> QED BY <2>1, LedgerStart
  <1>2. IType /\ LedgerInv /\ FillsInOrder /\ [Next]_vars => [LogKeeps]_vars /\ FillsInOrder'
    <2> SUFFICES ASSUME IType, LedgerInv, FillsInOrder, [Next]_vars
                 PROVE  (LogKeeps \/ UNCHANGED vars) /\ FillsInOrder'
      OBVIOUS
    <2>1. CASE UNCHANGED logVars
      BY <2>1 DEF logVars, LogKeeps, LogIndexes, FillsInOrder
    <2>2. CASE \E d \in Dev : LogForget(d)
      BY <2>2, FewPushNobodyOut DEF IType, LedgerInv
    <2> QED BY <2>1, <2>2, OnlyForgetWritesLog
  <1>3. IType /\ LedgerInv /\ [Next]_vars /\ [LogKeeps]_vars
          => LedgerInv' /\ [Ledger!Next]_(Ledger!ledger)
    BY StepOnLedger
  <1> QED BY <1>1, <1>2, <1>3, TypeInvariant, PTL DEF Spec, LedgerSpec, Ledger!Spec

=============================================================================
