------------------------------ MODULE CloudLog ------------------------------
(***************************************************************************)
(* "Log to cloud" (log_cloud.cpp, log_cloud_core.cpp): the hook numbers    *)
(* the lines the level lets through and puts them into a backlog that      *)
(* drops its oldest; a task sends them in batches.  Every line also goes   *)
(* into the restart tail, a ring in RAM no reset clears, sealed by a crc,  *)
(* which the next run of the same firmware reads and reports (which block  *)
(* that is, RestartTail says).  Lines are of one length here.              *)
(***************************************************************************)
EXTENDS Naturals, Sequences, SequencesExt

CONSTANTS
    TailCap,          \* lines the restart tail holds (4 KB)
    BacklogCap,       \* lines the backlog holds (64 KB)
    MaxSeq            \* bound: numbered lines of a run

\* A line the backlog drops has left the tail long before.
ASSUME CloudLogAssumption ==
    TailCap \in Nat \ {0} /\ BacklogCap \in Nat /\ TailCap <= BacklogCap /\ MaxSeq \in Nat

VARIABLES
    on,       \* is the level anything but Off?
    seq,      \* s_seq
    backlog,  \* s_backlog: numbers, oldest first
    dropped,  \* its hdr().dropped
    tail,     \* s_tail_block
    prev,     \* s_prev_block: what this run found there
    due,      \* s_tail_due
    batch,    \* the uploader's batch, or none
    got,      \* ghost: the numbers handed to the link in this run
    lost,     \* ghost: those the user's Off cleared
    past      \* ghost: got and lost of the previous run; was a batch handed over, not marked?

logVars == <<on, seq, backlog, dropped, tail, prev, due, batch, got, lost, past>>
found   == <<prev, due, past>>

NoBatch == [at |-> "none"]
NoPast  == [got |-> {}, lost |-> {}, unmarked |-> FALSE]
Blocks  == [ok : BOOLEAN, lines : Seq(0..MaxSeq), sent : 0..MaxSeq]
Empty   == [ok |-> TRUE, lines |-> <<>>, sent |-> 0]
Garbage == [ok |-> FALSE, lines |-> <<>>, sent |-> 0]

\* Types and capacities; a batch holds lines; what is in the backlog was numbered.
LogTypeOK ==
    /\ on \in BOOLEAN /\ due \in BOOLEAN
    /\ seq \in 0..MaxSeq /\ dropped \in 0..MaxSeq
    /\ backlog \in Seq(1..seq) /\ Len(backlog) <= BacklogCap
    /\ tail \in Blocks /\ prev \in Blocks /\ Len(tail.lines) <= TailCap
    /\ batch = NoBatch \/
         /\ batch.at \in {"add", "mark"} /\ batch.dropped \in 0..MaxSeq
         /\ batch.lines \in Seq(1..seq) /\ batch.next \in 0..seq
    /\ got \subseteq 1..seq /\ lost \subseteq 1..seq
    /\ past.got \subseteq 1..MaxSeq /\ past.lost \subseteq 1..MaxSeq
    /\ past.unmarked \in BOOLEAN

LogInit ==
    /\ on \in BOOLEAN /\ due = TRUE
    /\ seq = 0 /\ backlog = <<>> /\ dropped = 0
    /\ tail = Empty /\ prev = Garbage
    /\ batch = NoBatch /\ got = {} /\ lost = {} /\ past = NoPast

-----------------------------------------------------------------------------

\* Ring::push in the tail: the oldest gives way.
PushTail(b, n) ==
    [b EXCEPT !.lines = Append(IF Len(@) = TailCap THEN Tail(@) ELSE @, n)]

Full == Len(backlog) = BacklogCap

\* The hook, for a line that goes to the cloud and for one that does not.
Capture(wanted) ==
    LET n == IF wanted THEN seq + 1 ELSE 0 IN
    /\ wanted => on /\ seq < MaxSeq
    /\ seq' = IF wanted THEN n ELSE seq
    /\ backlog' = IF wanted THEN Append(IF Full THEN Tail(backlog) ELSE backlog, n) ELSE backlog
    /\ dropped' = IF wanted /\ Full THEN dropped + 1 ELSE dropped
    /\ tail' = PushTail(tail, n)
    /\ UNCHANGED <<on, batch, got, lost, found>>

SwitchOn == ~on /\ on' = TRUE /\ UNCHANGED <<seq, backlog, dropped, tail, batch, got, lost, found>>

\* log_cloud_on_setting; the uploader's loop does it again while the level is Off.
Clear ==
    /\ on' = FALSE /\ lost' = lost \cup ToSet(backlog)
    /\ backlog' = <<>> /\ dropped' = 0
    /\ UNCHANGED <<seq, tail, batch, got, found>>

\* tail_json: the lines of the previous run that were not sent by then, of every level.
Reported == {n \in ToSet(prev.lines) : n = 0 \/ n > prev.sent}

\* log.tail goes first, once per run, and its memory is freed.
SendTail ==
    /\ on /\ due /\ batch = NoBatch
    /\ due' = FALSE /\ prev' = Garbage /\ past' = NoPast
    /\ UNCHANGED <<on, seq, backlog, dropped, tail, batch, got, lost>>

\* send_batch: the oldest line and the drops before it, under one lock.
BeginBatch ==
    /\ on /\ ~due /\ batch = NoBatch /\ backlog # <<>>
    /\ batch' = [at |-> "add", lines |-> <<>>, dropped |-> dropped, next |-> Head(backlog)]
    /\ dropped' = 0
    /\ UNCHANGED <<seq, backlog, on, tail, got, lost, found>>

\* Mutant of Popped: a line the hook dropped while it was being copied stays counted.
Popped_counted(n) ==
    IF backlog # <<>> /\ Head(backlog) = n THEN [rest |-> Tail(backlog), dropped |-> dropped]
    ELSE [rest |-> backlog, dropped |-> dropped]

\* pop_if: not at the front any more, it was dropped, but it is sent all the same.
Popped(n) ==
    IF backlog # <<>> /\ Head(backlog) = n THEN [rest |-> Tail(backlog), dropped |-> dropped]
    ELSE [rest |-> backlog, dropped |-> IF dropped > 0 THEN dropped - 1 ELSE 0]

\* The line goes into the batch; the next one if it follows without a gap.
AddLine ==
    LET n == batch.next
        p == Popped(n)
    IN  /\ batch.at = "add" /\ n # 0
        /\ backlog' = p.rest /\ dropped' = p.dropped
        /\ batch' = [batch EXCEPT !.lines = Append(@, n),
                        !.next = IF p.rest # <<>> /\ Head(p.rest) = n + 1 THEN n + 1 ELSE 0]
        /\ UNCHANGED <<seq, on, tail, got, lost, found>>

\* Nothing follows, or the batch is full: it goes to the link.
Publish ==
    /\ batch.at = "add" /\ batch.lines # <<>>
    /\ got' = got \cup ToSet(batch.lines)
    /\ batch' = [batch EXCEPT !.at = "mark"]
    /\ UNCHANGED <<seq, backlog, dropped, on, tail, lost, found>>

\* The tail learns what the next run can leave out.
MarkSent ==
    /\ batch.at = "mark"
    /\ tail' = [tail EXCEPT !.sent = Last(batch.lines)]
    /\ batch' = NoBatch
    /\ UNCHANGED <<seq, backlog, dropped, on, got, lost, found>>

-----------------------------------------------------------------------------

\* What a reset in the middle of a push leaves of the tail: as it was, not sealed, or
\* with the room made for the new line.
TornPush ==
    {tail, Garbage} \cup
    IF Len(tail.lines) = TailCap THEN {[tail EXCEPT !.lines = Tail(@)]} ELSE {}

\* log_cloud_boot copies a valid block and formats it for the new run.
NextRun(b) ==
    /\ prev' = b /\ past' = IF b.ok THEN [got |-> got, lost |-> lost, unmarked |-> batch.at = "mark"] ELSE NoPast
    /\ tail' = Empty /\ due' = TRUE
    /\ seq' = 0 /\ backlog' = <<>> /\ dropped' = 0 /\ batch' = NoBatch
    /\ got' = {} /\ lost' = {}
    /\ UNCHANGED on

\* A panic, a watchdog or a restart: the other core may be in the middle of a push.
Reset == \E b \in TornPush : NextRun(b)

PowerCut == NextRun(Garbage)

LogNext ==
    \/ \E wanted \in BOOLEAN : Capture(wanted)
    \/ SwitchOn \/ Clear \/ SendTail
    \/ BeginBatch \/ AddLine \/ Publish \/ MarkSent
    \/ Reset \/ PowerCut

LogSpec == LogInit /\ [][LogNext]_logVars

-----------------------------------------------------------------------------

Sent == IF got = {} THEN 0 ELSE CHOOSE n \in got : \A m \in got : m <= n

\* The cloud is told of every gap: a batch holds consecutive lines, and between it and
\* the one before lie just as many as it reports dropped, whatever the hook dropped
\* while lines were copied (send_batch); after an Off, at least as many.
GapIsTold ==
    batch.at = "add" =>
        LET gap == (IF batch.lines = <<>> THEN batch.next ELSE Head(batch.lines)) - Sent - 1
        IN  /\ \A k \in 1..Len(batch.lines) : batch.lines[k] = Head(batch.lines) + k - 1
            /\ gap >= batch.dropped
            /\ lost = {} => gap = batch.dropped

\* Nothing is lost without a word: when no batch is under way, each number after the
\* last one sent is in the backlog or counted as dropped, or an Off cleared it.
NumbersAddUp ==
    batch = NoBatch /\ lost = {} => seq = Sent + dropped + Len(backlog)

\* The next run tells the rest: of the lines it finds, those it leaves out did reach the
\* link (or an Off cleared them), and those it tells did not, unless the reset hit between
\* the hand-over and its mark in the tail (MarkSent).
TailTellsTheRest ==
    /\ \A n \in ToSet(prev.lines) :
           n \in 1..prev.sent => n \in past.got \cup past.lost
    /\ ~past.unmarked => Reported \cap past.got = {}

\* The cloud is told every line or how many it missed: within a run, and over a reset.
EveryLineIsTold == GapIsTold /\ NumbersAddUp /\ TailTellsTheRest

=============================================================================
