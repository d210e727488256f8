------------------------------- MODULE LogRing -------------------------------
(***************************************************************************)
(* The log ring (log_ring.cpp): the vprintf hook puts each line into a     *)
(* ring under a lock, logs.get copies the ring slot by slot, taking the    *)
(* lock anew for each, and the line then goes to MQTT through a limit of   *)
(* so many lines a second, whose two counters no lock guards.              *)
(***************************************************************************)
EXTENDS Naturals, Sequences, SequencesExt

CONSTANTS
    Logger,           \* tasks that log
    RingSize,         \* slots of the ring (128)
    RateCap,          \* MQTT_RATE_CAP_PER_SEC (50)
    RateMod,          \* the counter is a uint8_t (256)
    MaxLine,          \* bound: lines
    MaxSecond         \* bound: seconds

ASSUME LogRingAssumption ==
    /\ RingSize \in Nat \ {0} /\ RateMod \in Nat \ {0} /\ RateCap \in 1..RateMod
    /\ MaxLine \in Nat /\ MaxSecond \in Nat

VARIABLES
    ring,     \* s_ring: per slot its line's number, 0 when blank
    head,     \* s_head
    count,    \* s_count
    line,     \* lines so far
    reader,   \* logs.get under way, or at rest
    second,   \* the uptime in seconds
    epoch,    \* s_rate_epoch
    rate,     \* s_rate_count
    at,       \* per task, where it is in the gate and the second it read
    sent      \* ghost: lines published, by the second their gate read

ringVars == <<ring, head, count, line>>
gateVars == <<second, epoch, rate, at, sent>>
logRingVars == <<ringVars, reader, gateVars>>

Slot   == 0..(RingSize - 1)
Lines  == 0..MaxLine
NoRead   == [left |-> 0, from |-> 0, out |-> <<>>, had |-> {}]
Second == 0..MaxSecond

\* Types; the reader keeps to the slots that were filled when it began.
RingTypeOK ==
    /\ ring \in [Slot -> Lines] /\ head \in Slot /\ count \in 0..RingSize /\ line \in Lines
    /\ reader.left \in 0..RingSize /\ reader.from \in Slot /\ reader.had \subseteq Lines
    /\ reader.out \in Seq(Lines) /\ Len(reader.out) + reader.left <= RingSize
    /\ second \in Second /\ epoch \in Second /\ rate \in 0..(RateMod - 1)
    /\ at \in [Logger -> [pc : {"none", "gate", "seen", "count", "store"}, now : Second]]
    /\ sent \in [Second -> Lines]

RingInit ==
    /\ ring = [i \in Slot |-> 0] /\ head = 0 /\ count = 0 /\ line = 0 /\ reader = NoRead
    /\ second = 0 /\ epoch = 0 /\ rate = 0
    /\ at = [t \in Logger |-> [pc |-> "none", now |-> 0]]
    /\ sent = [s \in Second |-> 0]

-----------------------------------------------------------------------------

\* log_vprintf (and log_sinks_publish_p4): into the ring, then to the live sinks.
Hook(t) ==
    /\ at[t].pc = "none" /\ line < MaxLine
    /\ line' = line + 1 /\ ring' = [ring EXCEPT ![head] = line + 1]
    /\ head' = (head + 1) % RingSize
    /\ count' = IF count < RingSize THEN count + 1 ELSE count
    /\ \E pc \in {"none", "gate"} : at' = [at EXCEPT ![t].pc = pc]
    /\ UNCHANGED <<reader, second, epoch, rate, sent>>

\* Mutant of Oldest: the next slot to be written, filled or not.
Oldest_head == head

\* Where the oldest line is.
Oldest == IF count = RingSize THEN head ELSE 0

\* log_ring_to_json: the range is read once, each line later on its own.
BeginRead ==
    /\ reader.left = 0
    /\ reader' = [left |-> count, from |-> Oldest, out |-> <<>>,
                  had |-> {ring[i] : i \in Slot} \ {0}]
    /\ UNCHANGED <<ringVars, gateVars>>

ReadSlot ==
    /\ reader.left > 0
    /\ reader' = [reader EXCEPT !.left = @ - 1, !.from = (@ + 1) % RingSize,
                                !.out = Append(@, ring[reader.from])]
    /\ UNCHANGED <<ringVars, gateVars>>

\* No room in the answer.
GiveUpRead == reader.left > 0 /\ reader' = NoRead /\ UNCHANGED <<ringVars, gateVars>>

-----------------------------------------------------------------------------

Move(t, pc) == at' = [at EXCEPT ![t].pc = pc]

\* mqtt_rate_allow: the clock, then the epoch.
ReadClock(t) ==
    /\ at[t].pc = "gate" /\ at' = [at EXCEPT ![t] = [pc |-> "seen", now |-> second]]
    /\ UNCHANGED <<ringVars, reader, second, epoch, rate, sent>>

Publish_line(t) == sent' = [sent EXCEPT ![at[t].now] = @ + 1]

\* A new second: the epoch is stored here, the count in the step after.
NewSecond(t) ==
    /\ at[t].pc = "seen" /\ epoch # at[t].now
    /\ epoch' = at[t].now /\ Move(t, "store")
    /\ UNCHANGED <<ringVars, reader, second, rate, sent>>

StoreOne(t) ==
    /\ at[t].pc = "store" /\ rate' = 1 /\ Publish_line(t) /\ Move(t, "none")
    /\ UNCHANGED <<ringVars, reader, second, epoch>>

SameSecond(t) ==
    /\ at[t].pc = "seen" /\ epoch = at[t].now /\ Move(t, "count")
    /\ UNCHANGED <<ringVars, reader, second, epoch, rate, sent>>

Allowed(c) == c < RateCap

\* fetch_add on a byte; it goes on counting what it refuses.
CountLine(t) ==
    /\ at[t].pc = "count" /\ rate' = (rate + 1) % RateMod /\ Move(t, "none")
    /\ IF Allowed(rate) THEN Publish_line(t) ELSE UNCHANGED sent
    /\ UNCHANGED <<ringVars, reader, second, epoch>>

Tick == second < MaxSecond /\ second' = second + 1 /\ UNCHANGED <<ringVars, reader, epoch, rate, at, sent>>

RingNext ==
    \/ BeginRead \/ ReadSlot \/ GiveUpRead \/ Tick
    \/ \E t \in Logger : Hook(t) \/ ReadClock(t) \/ NewSecond(t) \/ StoreOne(t) \/ SameSecond(t) \/ CountLine(t)

RingSpec == RingInit /\ [][RingNext]_logRingVars

-----------------------------------------------------------------------------

\* logs.get leaves nothing out that is there all the time: a line in the ring when the
\* answer was begun and still there now is in it once, or its slot is still to come;
\* and no line is blank, given twice, or gone before the answer was begun, however many
\* lines come between two slots.
SnapshotIsWhole ==
    LET now == {ring[i] : i \in Slot} \ {0}
        todo == {ring[(reader.from + k) % RingSize] : k \in 0..(reader.left - 1)}
    IN  /\ reader.had \cap now \subseteq ToSet(reader.out) \cup todo
        /\ IsInjective(reader.out)
        /\ 0 \notin ToSet(reader.out)
        /\ \A n \in ToSet(reader.out) \ reader.had, m \in reader.had : n > m

\* "50 publishes/sec hard cap" (log_ring.cpp:62): no second has more.
HardCap == \A s \in Second : sent[s] <= RateCap

=============================================================================
