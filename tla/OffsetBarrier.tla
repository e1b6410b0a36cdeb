--------------------------- MODULE OffsetBarrier ---------------------------
(***************************************************************************)
(* The Consumer's Router (internal/server/consumer/router.go): one process *)
(* that consumes the claimed partitions, hands every message to MySQL, to  *)
(* the ClickHouse batches or to the dead letter queue, and commits offsets *)
(* from a barrier that runs beside the handlers:                           *)
(*                                                                         *)
(*    snapshot of the processed offsets -> flush -> MarkOffset, Commit     *)
(*                                                                         *)
(* Modelled with it: the sessions of the consumer group (Setup, Cleanup,   *)
(* an eviction the process learns of late, partitions consumed elsewhere), *)
(* the crash and restart of the process, and what survives them: the       *)
(* committed offsets, the rows in ClickHouse and MySQL, the dead letters.  *)
(***************************************************************************)
EXTENDS Integers, Sequences, FiniteSets, Functions

CONSTANTS
    Partitions,   \* the (topic, partition) pairs of the subscription
    Log,          \* partition -> the kinds of the messages it will hold
    Assignments,  \* the sets of partitions a session may be given
    ColdStart,    \* kafka.consumer.initial_offset: "newest" or "oldest"
    BatchSize,    \* rows a batch holds before its array grows
    SendsFail,    \* TRUE: ClickHouse may refuse a batch
    MaxFaults     \* bound on failures, crashes and rebalances of a behaviour

\* What handleMessage tells apart: the DataTypes of each branch.
MysqlKinds == {"heartbeat", "fim", "record", "memory"}
RowKinds == {"heartbeat", "plugin", "fim", "ebpf"}
Kinds == MysqlKinds \cup RowKinds \cup {"bde", "unknown", "undecodable"}

NoOffset == -1      \* the group has committed nothing for the partition

Torn == <<"torn">>
Flushers == {"flusher", "barrier"}

Message == UNION {{p} \X (0..(Len(Log[p]) - 1)) : p \in Partitions}
Kind(m) == Log[m[1]][m[2] + 1]
Below(p, o) == {m \in Message : m[1] = p /\ m[2] < o}

\* The table of a message's row; only messages of RowKinds have one.
TableOf == [m \in Message |->
    CASE Kind(m) = "fim"  -> "fim_events"
      [] Kind(m) = "ebpf" -> "ebpf_events"
      [] OTHER            -> "host_metrics"]

ASSUME BarrierAssumption ==
    /\ Log \in [Partitions -> Seq(Kinds)]
    /\ Assignments \subseteq SUBSET Partitions
    /\ ColdStart \in {"newest", "oldest"}
    /\ BatchSize \in Nat \ {0}
    /\ SendsFail \in BOOLEAN
    /\ MaxFaults \in Nat
    /\ Torn \notin Message

VARIABLES
    produced,   \* partition -> messages it holds so far
    committed,  \* partition -> the offset the group has committed
    member,     \* the broker counts the process among the group
    session,    \* "none", "running" or "cleanup"
    claims,     \* the partitions of the session
    position,   \* partition -> offset of the message it hands out next
    handling,   \* partition -> its ConsumeClaim is "idle", at "handle", "record"
    processed,  \* partition -> r.processed (0: no entry)
    barrier,    \* "idle", "flush", "sending", "check", "commit" or "done"
    final,      \* this round of the barrier was started by the cancellation
    outcome,    \* what became of the last round
    snap,       \* the barrier's snapshot of processed
    buf, capacity, sharing, batch, flushing, attempted, failed, flushFailed,
    durable,    \* rows that ClickHouse holds, mixtures included
    stored,     \* messages that MySQL holds
    dead,       \* messages handed to the dead letter queue
    handled,    \* history: messages whose handler has run to its end
    skipped,    \* history: messages a cold start jumped over
    elsewhere,  \* history: messages another member of the group consumed
    faults      \* failures, crashes and rebalances so far

INSTANCE ClickHouseWriter WITH Row <- Message

groupVars == <<produced, committed, member>>
archiveVars == <<buf, capacity, sharing, batch, flushing, attempted, failed,
                 flushFailed, durable>>
sessionVars == <<session, claims, position>>
handlerVars == <<handling, processed, stored, dead>>
barrierVars == <<barrier, final, outcome, snap>>
history == <<handled, skipped, elsewhere>>
vars == <<groupVars, sessionVars, handlerVars, barrierVars, archiveVars,
          history, faults>>

\* No offset is beyond the end of the log: not the one that is handed out
\* next, and not the one the group has committed.
OffsetsInLog ==
    \A p \in Partitions :
        /\ produced[p] <= Len(Log[p])
        /\ position[p] <= produced[p]
        /\ committed[p] <= produced[p]

TypeOK ==
    /\ produced \in [Partitions -> Nat]
    /\ committed \in [Partitions -> Nat \cup {NoOffset}]
    /\ member \in BOOLEAN
    /\ session \in {"none", "running", "cleanup"}
    /\ claims \in SUBSET Partitions
    /\ position \in [Partitions -> Nat]
    /\ handling \in [Partitions -> {"idle", "handle", "record"}]
    /\ processed \in [Partitions -> Nat]
    /\ barrier \in {"idle", "flush", "sending", "check", "commit", "done"}
    /\ final \in BOOLEAN
    /\ outcome \in {"none", "empty", "refused", "lost", "committed"}
    /\ snap \in [Partitions -> Nat]
    /\ WriterTypeOK
    /\ stored \in SUBSET Message
    /\ dead \in SUBSET Message
    /\ handled \in SUBSET Message
    /\ skipped \in SUBSET Message
    /\ elsewhere \in SUBSET Message
    /\ faults \in 0..MaxFaults
    /\ OffsetsInLog

\* The state of a process that has just started.
ProcessInit ==
    /\ session = "none"
    /\ claims = {}
    /\ position = [p \in Partitions |-> 0]
    /\ handling = [p \in Partitions |-> "idle"]
    /\ processed = [p \in Partitions |-> 0]
    /\ barrier = "idle"
    /\ final = FALSE
    /\ outcome = "none"
    /\ snap = [p \in Partitions |-> 0]
    /\ WriterMemoryInit

Init ==
    /\ ProcessInit
    /\ member = FALSE
    /\ produced = [p \in Partitions |-> 0]
    /\ committed = [p \in Partitions |-> NoOffset]
    /\ durable = {} /\ stored = {} /\ dead = {}
    /\ handled = {} /\ skipped = {} /\ elsewhere = {}
    /\ faults = 0

Fault == faults < MaxFaults /\ faults' = faults + 1

-----------------------------------------------------------------------------
(* Kafka and the other members of the group.                               *)

Produce(p) ==
    /\ produced[p] < Len(Log[p])
    /\ produced' = [produced EXCEPT ![p] = @ + 1]
    /\ UNCHANGED <<committed, member, sessionVars, handlerVars, barrierVars,
                   archiveVars, history, faults>>

\* A partition this process does not own is consumed by another member.
ConsumeElsewhere(p, o) ==
    /\ ~member \/ p \notin claims
    /\ committed[p] < o /\ o <= produced[p] /\ 0 < o
    /\ committed' = [committed EXCEPT ![p] = o]
    /\ elsewhere' = elsewhere \cup Below(p, o)
    /\ UNCHANGED <<produced, member, sessionVars, handlerVars, barrierVars,
                   archiveVars, handled, skipped, faults>>

\* The session times out at the broker; the process has not noticed yet.
Evict ==
    /\ session # "none" /\ member /\ Fault
    /\ member' = FALSE
    /\ UNCHANGED <<produced, committed, sessionVars, handlerVars, barrierVars,
                   archiveVars, history>>

-----------------------------------------------------------------------------
(* Sessions.                                                               *)

\* Where sarama starts a claimed partition.
StartOffset(p) ==
    IF committed[p] # NoOffset THEN committed[p]
    ELSE IF ColdStart = "newest" THEN produced[p] ELSE 0

\* Mutant of Setup: the barrier goroutine of the last session is not replaced.
SetupKeepsBarrier(C) ==
    /\ session = "none"
    /\ session' = "running"
    /\ claims' = C
    /\ member' = TRUE
    /\ position' = [p \in Partitions |-> IF p \in C THEN StartOffset(p) ELSE 0]
    /\ processed' = [p \in Partitions |-> 0]
    /\ UNCHANGED <<produced, committed, handling, stored, dead, barrierVars,
                   archiveVars, history, faults>>

\* Setup: a new r.processed and a new barrier goroutine.  The batches and the
\* failure flag of the writer stay as the last session left them.
Setup(C) ==
    /\ session = "none"
    /\ session' = "running"
    /\ claims' = C
    /\ member' = TRUE
    /\ position' = [p \in Partitions |-> IF p \in C THEN StartOffset(p) ELSE 0]
    /\ processed' = [p \in Partitions |-> 0]
    /\ barrier' = "idle"
    /\ final' = FALSE
    /\ outcome' = "none"
    /\ skipped' = skipped \cup
            UNION {Below(p, StartOffset(p)) :
                        p \in {q \in C : committed[q] = NoOffset}}
    /\ UNCHANGED <<produced, committed, handling, stored, dead, snap,
                   archiveVars, handled, elsewhere, faults>>

\* A rebalance, or the process finds it was evicted: the ConsumeClaim calls
\* have returned and Cleanup cancels the barrier.
Cleanup ==
    /\ session = "running"
    /\ \A p \in Partitions : handling[p] = "idle"
    /\ IF member THEN Fault ELSE UNCHANGED faults
    /\ session' = "cleanup"
    /\ UNCHANGED <<groupVars, claims, position, handlerVars, barrierVars,
                   archiveVars, history>>

\* Cleanup returns: barrierDone is closed and the partitions are given up.
Release ==
    /\ session = "cleanup" /\ barrier = "done"
    /\ session' = "none"
    /\ claims' = {}
    /\ member' = FALSE
    /\ UNCHANGED <<produced, committed, position, handlerVars, barrierVars,
                   archiveVars, history, faults>>

\* kill -9, OOM: memory is lost; a batch that was being sent may have landed.
Crash ==
    /\ Fault
    /\ \E landed \in SUBSET Flushers :
          durable' = durable \cup
              UNION {Range(batch[f][t]) : f \in landed, t \in Tables}
    /\ session' = "none" /\ claims' = {} /\ member' = FALSE
    /\ position' = [p \in Partitions |-> 0]
    /\ handling' = [p \in Partitions |-> "idle"]
    /\ processed' = [p \in Partitions |-> 0]
    /\ barrier' = "idle" /\ final' = FALSE /\ outcome' = "none"
    /\ snap' = [p \in Partitions |-> 0]
    /\ WriterMemoryLost
    /\ UNCHANGED <<produced, committed, stored, dead, history>>

-----------------------------------------------------------------------------
(* ConsumeClaim and handleMessage, one goroutine per claimed partition.    *)

Current(p) == <<p, position[p]>>

\* Mutant of Receive: the offset is recorded before the message is handled.
ReceiveRecords(p) ==
    /\ session = "running" /\ p \in claims /\ handling[p] = "idle"
    /\ position[p] < produced[p]
    /\ handling' = [handling EXCEPT ![p] = "handle"]
    /\ processed' = [processed EXCEPT ![p] = position[p]]
    /\ UNCHANGED <<groupVars, sessionVars, stored, dead, barrierVars, archiveVars,
                   history, faults>>

Receive(p) ==
    /\ session = "running" /\ p \in claims /\ handling[p] = "idle"
    /\ position[p] < produced[p]
    /\ handling' = [handling EXCEPT ![p] = "handle"]
    /\ UNCHANGED <<groupVars, sessionVars, processed, stored, dead, barrierVars,
                   archiveVars, history, faults>>

\* Mutant of HasRow: the FIM branch does not look at what MySQL answered.
HasRowAnyway(k, ok) == k \in RowKinds

\* The branch of handleMessage, the MySQL write having succeeded or not: a
\* heartbeat's row is written in either case, a FIM event's only after MySQL.
HasRow(k, ok) == k \in RowKinds /\ (k = "fim" => ok)

\* Mutant of DeadLettered: the FIM branch returns before the DLQ.
DeadLetteredNotFIM(k, ok) ==
    \/ k \in {"heartbeat", "record"} /\ ~ok
    \/ k = "unknown"

\* A failed write goes to the dead letter queue, as does an unknown type; a
\* memory threat that fails is only logged, like a message that cannot be
\* decoded.
DeadLettered(k, ok) ==
    \/ k \in MysqlKinds \ {"memory"} /\ ~ok
    \/ k = "unknown"

Handle(p) ==
    LET m == Current(p)
        k == Kind(m)
    IN  /\ handling[p] = "handle"
        /\ handling' = [handling EXCEPT ![p] = "record"]
        /\ \E ok \in BOOLEAN :
              /\ IF ok THEN UNCHANGED faults ELSE k \in MysqlKinds /\ Fault
              /\ stored' = IF ok /\ k \in MysqlKinds
                           THEN stored \cup {m} ELSE stored
              /\ dead' = IF DeadLettered(k, ok) THEN dead \cup {m} ELSE dead
              /\ IF HasRow(k, ok) THEN AppendRow(m) ELSE UNCHANGED archiveVars
        /\ UNCHANGED <<groupVars, sessionVars, processed, barrierVars, history>>

\* recordProcessed: only an offset above the entry, 0 when there is none.
Record(p) ==
    /\ handling[p] = "record"
    /\ handling' = [handling EXCEPT ![p] = "idle"]
    /\ processed' = IF position[p] > processed[p]
                    THEN [processed EXCEPT ![p] = position[p]] ELSE processed
    /\ handled' = handled \cup {Current(p)}
    /\ position' = [position EXCEPT ![p] = @ + 1]
    /\ UNCHANGED <<groupVars, session, claims, stored, dead, barrierVars,
                   archiveVars, skipped, elsewhere, faults>>

-----------------------------------------------------------------------------
(* commitBarrier and flushAndCommit.                                       *)

\* Mutant of EndRound: a cancelled barrier leaves without a last round.
EndRoundEarly(result) ==
    /\ barrier' = IF session = "cleanup" THEN "done" ELSE "idle"
    /\ outcome' = result

EndRound(result) ==
    /\ barrier' = IF final THEN "done" ELSE "idle"
    /\ outcome' = result

\* A tick, or the cancellation by Cleanup, which takes the last round.  With
\* nothing processed the round ends at once.  (When both are ready the select
\* may still take the tick; handlers are idle then, and such a round equals one
\* started just before Cleanup.)
Snapshot ==
    /\ session # "none" /\ barrier = "idle"
    /\ snap' = processed
    /\ final' = (session = "cleanup")
    /\ IF \A p \in Partitions : processed[p] = 0
       THEN /\ barrier' = IF final' THEN "done" ELSE "idle"
            /\ outcome' = "empty"
       ELSE /\ barrier' = "flush"
            /\ UNCHANGED outcome
    /\ UNCHANGED <<groupVars, sessionVars, handlerVars, archiveVars, history,
                   faults>>

BarrierFlush ==
    /\ barrier = "flush"
    /\ barrier' = "sending"
    /\ BeginFlush("barrier")
    /\ UNCHANGED <<groupVars, sessionVars, handlerVars, final, outcome, snap,
                   history, faults>>

FlusherFlush ==
    /\ BeginFlush("flusher")
    /\ UNCHANGED <<groupVars, sessionVars, handlerVars, barrierVars, history,
                   faults>>

Send(f, t) ==
    /\ \/ SendOK(f, t) /\ UNCHANGED faults
       \/ SendsFail /\ SendFail(f, t) /\ Fault
    /\ UNCHANGED <<groupVars, sessionVars, handlerVars, barrierVars, history>>

FlushEnds(f) ==
    /\ EndFlush(f)
    /\ barrier' = IF f = "barrier" THEN "check" ELSE barrier
    /\ UNCHANGED <<groupVars, sessionVars, handlerVars, final, outcome, snap,
                   history, faults>>

\* Mutant of Check: the snapshot is taken after the flush.
CheckThenSnapshot ==
    /\ barrier = "check"
    /\ IF flushFailed
       THEN EndRound("refused") /\ UNCHANGED snap
       ELSE barrier' = "commit" /\ snap' = processed /\ UNCHANGED outcome
    /\ UNCHANGED <<groupVars, sessionVars, handlerVars, final, archiveVars,
                   history, faults>>

\* Flush() reads the flag; with a failure in it the offsets stay.
Check ==
    /\ barrier = "check"
    /\ IF flushFailed
       THEN EndRound("refused")
       ELSE barrier' = "commit" /\ UNCHANGED outcome
    /\ UNCHANGED <<groupVars, sessionVars, handlerVars, final, snap, archiveVars,
                   history, faults>>

\* Mutant of Commit: the committed offset is one too far.
CommitOneTooFar ==
    /\ barrier = "commit" /\ member
    /\ committed' = [p \in Partitions |->
            IF p \in claims /\ snap[p] > 0 /\ snap[p] + 2 > committed[p]
            THEN snap[p] + 2 ELSE committed[p]]
    /\ EndRound("committed")
    /\ UNCHANGED <<produced, member, sessionVars, handlerVars, final, snap,
                   archiveVars, history, faults>>

\* MarkOffset only moves a claimed partition forward; the broker refuses the
\* commit of a process it has evicted, and any commit request may be lost.
Commit ==
    /\ barrier = "commit"
    /\ \/ /\ member
          /\ committed' = [p \in Partitions |->
                IF p \in claims /\ snap[p] > 0 /\ snap[p] + 1 > committed[p]
                THEN snap[p] + 1 ELSE committed[p]]
          /\ EndRound("committed")
          /\ UNCHANGED faults
       \/ /\ IF member THEN Fault ELSE UNCHANGED faults
          /\ EndRound("lost")
          /\ UNCHANGED committed
    /\ UNCHANGED <<produced, member, sessionVars, handlerVars, final, snap,
                   archiveVars, history>>

-----------------------------------------------------------------------------
Group == \E p \in Partitions :
    \/ Produce(p)
    \/ \E o \in 1..produced[p] : ConsumeElsewhere(p, o)

Handler(p) == Receive(p) \/ Handle(p) \/ Record(p)

Flushing(f) == (\E t \in Tables : Send(f, t)) \/ FlushEnds(f)

Barrier == Snapshot \/ BarrierFlush \/ Flushing("barrier") \/ Check \/ Commit

Next ==
    \/ Group
    \/ Evict
    \/ \E C \in Assignments : Setup(C)
    \/ Cleanup
    \/ Release
    \/ Crash
    \/ \E p \in Partitions : Handler(p)
    \/ Barrier
    \/ FlusherFlush
    \/ Flushing("flusher")

Spec == Init /\ [][Next]_vars

\* Every goroutine goes on, tickers tick, a group that is not full is joined
\* and an eviction is noticed.  Nothing is owed by the environment: messages,
\* failures, rebalances and crashes need not happen.
FairSpec ==
    /\ Spec
    /\ \A C \in Assignments : WF_vars(Setup(C))
    /\ WF_vars(~member /\ Cleanup)
    /\ WF_vars(Release)
    /\ \A p \in Partitions : WF_vars(Handler(p))
    /\ WF_vars(Barrier)
    /\ WF_vars(FlusherFlush)
    /\ WF_vars(Flushing("flusher"))

-----------------------------------------------------------------------------
(* Properties.                                                             *)

CommittedMessages == {m \in Message : m[2] < committed[m[1]]}

\* What the group may count on without this process having done the work.
NotOurs == skipped \cup elsewhere

\* Offsets never run ahead of the handlers: a committed offset covers only
\* messages whose handler has returned, here or at another member, or that a
\* cold start at the newest offset left out.  A restart resumes there, so
\* nothing else would ever look at a message behind it.
CommittedHandled == CommittedMessages \subseteq handled \cup NotOurs

\* The snapshot is taken before the flush (flushAndCommit): no row behind a
\* committed offset is still in a batch that is being filled, where a crash
\* would lose it without a trace.
CommittedLeftBuffer ==
    \A m \in CommittedMessages \ elsewhere :
        \A t \in Tables : m \notin Range(buf[t])

\* Put away where a message of this kind belongs.
Accounted(m) ==
    /\ Kind(m) \in MysqlKinds \ {"memory"} => m \in stored \cup dead
    /\ Kind(m) = "unknown" => m \in dead

\* A committed message whose DataType has a relational table is in MySQL or
\* in the dead letter queue, a committed unknown type in the latter.  Memory
\* threats are the exception: writeMemoryThreat only logs a failed write.
CommittedAccounted ==
    \A m \in CommittedMessages \ NotOurs : Accounted(m)

\* Every whole row that ClickHouse holds is of a message that has one, and of a
\* FIM event only if MySQL holds it: whatever failed writes and sends, doubled
\* rows and crashes make of the batches.  Of a row that was overwritten while it
\* was sent nothing is said: it is sent as it was read (flush(), w.rows[:0]).
Backed ==
    {m \in Message : Kind(m) \in RowKinds /\ (Kind(m) = "fim" => m \in stored)}
RowsBacked == durable \subseteq Backed \cup {Torn}

\* Cleanup waits for the last round of the barrier: when that round commits,
\* the next owner of a partition starts behind the last message handled here.
\* (recordProcessed never enters offset 0: a partition of which only that was
\* handled is handed over as it was found, and its message is handled again.)
HandoverComplete ==
    [][ session = "cleanup" /\ Release /\ outcome = "committed" =>
            \A p \in claims : processed[p] > 0 => committed[p] >= position[p]
      ]_vars

\* While ClickHouse accepts rows, commits do catch up with the handlers, across
\* crashes, evictions, rebalances and lost commits.  (An offset counts once its
\* successor is covered by the entry in r.processed, from offset 1 on.)
CommitsCatchUp ==
    \A p \in Partitions : \A o \in 1..(Len(Log[p]) - 1) :
        produced[p] > o ~> committed[p] > o

\* The inductive invariant behind the two commit properties: where the handlers
\* and the barrier of a session stand to each other and to the offsets.
HandlersInSession ==
    \A p \in Partitions : handling[p] # "idle" =>
        session = "running" /\ p \in claims /\ position[p] < produced[p]

BarrierInSession ==
    /\ session = "none" => claims = {} /\ barrier \in {"idle", "done"}
    /\ flushing["barrier"] => barrier = "sending"

\* Partition p has handed out everything below position, and nothing else.
PositionHandled ==
    \A p \in claims : Below(p, position[p]) \subseteq handled \cup NotOurs

ProcessedBelowPosition ==
    \A p \in claims : processed[p] = 0 \/ processed[p] < position[p]

SnapBelowPosition ==
    barrier \in {"flush", "sending", "check", "commit"} =>
        \A p \in claims : snap[p] = 0 \/ snap[p] < position[p]

\* A message still to be handed out is behind the committed offset only if
\* another member has overtaken this one.
PositionNotCommitted ==
    \A p \in claims : \A m \in CommittedMessages :
        m[1] = p /\ position[p] <= m[2] => m \in elsewhere

\* Once the barrier has taken the batches, what it snapshot is out of them.
SnapLeftBuffer ==
    barrier \in {"sending", "check", "commit"} =>
        \A m \in Message : m[1] \in claims /\ 0 < snap[m[1]] /\ m[2] <= snap[m[1]]
            => \A t \in Tables : m \notin Range(buf[t])

\* r.processed is empty or names the message handled last.
ProcessedIsLast ==
    \A p \in claims : processed[p] = 0 \/ position[p] = processed[p] + 1

\* A round is the last one because of Cleanup, when no handler is at work any
\* more, and "done" is where it ends: its snapshot is what was processed, and
\* what it committed stays committed.
LastRound ==
    /\ final => session # "running"
    /\ final /\ session = "cleanup" => snap = processed
    /\ barrier = "done" => final
    /\ barrier = "done" /\ outcome = "committed" =>
          \A p \in claims : snap[p] > 0 => committed[p] > snap[p]

\* A handler has put its message away before its offset is recorded.
HandledAccounted ==
    /\ \A m \in handled : Accounted(m)
    /\ \A p \in Partitions : handling[p] = "record" => Accounted(Current(p))

BatchesBacked ==
    \A t \in Tables :
        /\ Range(buf[t]) \subseteq Backed
        /\ \A f \in Flushers : Range(batch[f][t]) \subseteq Backed \cup {Torn}

BarrierInv ==
    /\ HandlersInSession
    /\ BarrierInSession
    /\ PositionHandled
    /\ ProcessedBelowPosition
    /\ SnapBelowPosition
    /\ PositionNotCommitted
    /\ SnapLeftBuffer
    /\ CommittedHandled
    /\ CommittedLeftBuffer
    /\ ProcessedIsLast
    /\ LastRound
    /\ HandledAccounted
    /\ BatchesBacked
    /\ RowsBacked

\* The process implements the promise of a consumer group.
Promise == INSTANCE AtLeastOnce WITH done <- handled \cup NotOurs
KeepsPromise == Promise!Spec
=============================================================================
