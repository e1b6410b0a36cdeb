------------------------ MODULE OffsetBarrierProofs ------------------------
(***************************************************************************)
(* Theorems about OffsetBarrier, for every set of partitions, every log    *)
(* and every bound, checked by TLAPS.                                      *)
(***************************************************************************)
EXTENDS OffsetBarrier, TLAPS

USE BarrierAssumption

-----------------------------------------------------------------------------
(* Facts about the data.                                                   *)

LEMMA MessageIs ==
    /\ \A p \in Partitions : \A o \in Nat :
            <<p, o>> \in Message <=> o < Len(Log[p])
    /\ \A m \in Message : /\ m[1] \in Partitions
                          /\ m[2] \in Nat
                          /\ m[2] < Len(Log[m[1]])
                          /\ m = <<m[1], m[2]>>
<1>1. \A p \in Partitions : Len(Log[p]) \in Nat
    BY DEF Kinds
<1>2. ASSUME NEW p \in Partitions, NEW o \in Nat
      PROVE  <<p, o>> \in Message <=> o < Len(Log[p])
    BY <1>1 DEF Message
<1>3. ASSUME NEW m \in Message
      PROVE  /\ m[1] \in Partitions
             /\ m[2] \in Nat
             /\ m[2] < Len(Log[m[1]])
             /\ m = <<m[1], m[2]>>
    <2>1. PICK p \in Partitions : m \in {p} \X (0..(Len(Log[p]) - 1))
        BY DEF Message
    <2>2. QED
        BY <1>1, <2>1
<1>4. QED
    BY <1>2, <1>3

LEMMA TableOfType == TableOf \in [Message -> Tables]
BY DEF TableOf, Tables

LEMMA RangeOfAppend ==
    ASSUME NEW S, NEW s \in Seq(S), NEW e \in S
    PROVE  Range(Append(s, e)) = Range(s) \cup {e}
<1> DEFINE a == Append(s, e)
<1>1. /\ Len(s) \in Nat
      /\ DOMAIN s = 1..Len(s)
      /\ DOMAIN a = 1..(Len(s) + 1)
      /\ \A i \in 1..Len(s) : a[i] = s[i]
      /\ a[Len(s) + 1] = e
    OBVIOUS
<1>2. ASSUME NEW x \in Range(a) PROVE x \in Range(s) \cup {e}
    <2>1. PICK i \in 1..(Len(s) + 1) : x = a[i]
        BY <1>1 DEF Range
    <2>2. i = Len(s) + 1 \/ i \in 1..Len(s)
        BY <1>1
    <2>3. QED
        BY <1>1, <2>1, <2>2 DEF Range
<1>3. ASSUME NEW x \in Range(s) \cup {e} PROVE x \in Range(a)
    <2>1. CASE x = e
        <3>1. Len(s) + 1 \in DOMAIN a
            BY <1>1
        <3>2. QED
            BY <1>1, <2>1, <3>1 DEF Range
    <2>2. CASE x \in Range(s)
        <3>1. PICK i \in 1..Len(s) : x = s[i]
            BY <1>1, <2>2 DEF Range
        <3>2. i \in DOMAIN a
            BY <1>1
        <3>3. QED
            BY <1>1, <3>1, <3>2 DEF Range
    <2>3. QED
        BY <2>1, <2>2
<1>4. QED
    BY <1>2, <1>3

LEMMA RangeOfSeq ==
    ASSUME NEW S, NEW s \in Seq(S)
    PROVE  Range(s) \subseteq S
BY DEF Range

LEMMA RangeOfEmpty == Range(<<>>) = {}
BY DEF Range

-----------------------------------------------------------------------------
(* The writer's steps keep its state well-typed.                           *)

LEMMA AppendRowType ==
    ASSUME WriterTypeOK, NEW row \in Message, AppendRow(row)
    PROVE  WriterTypeOK'
<1> DEFINE t == TableOf[row]
           i == Len(buf[t]) + 1
<1>1. t \in Tables
    BY TableOfType
<1>2. buf[t] \in Seq(Message) /\ i \in Nat /\ i >= 1
    BY <1>1 DEF WriterTypeOK
<1>3. buf' \in [Tables -> Seq(Message)]
    BY <1>1, <1>2 DEF WriterTypeOK, AppendRow
<1>4. CASE i > capacity[t]
    <2>1. /\ capacity' = [capacity EXCEPT ![t] = 2 * @]
          /\ sharing' = [sharing EXCEPT ![t] = {}]
          /\ UNCHANGED <<batch, flushing, attempted, failed, flushFailed, durable>>
        BY <1>4 DEF AppendRow
    <2>2. capacity[t] \in Nat
        BY <1>1 DEF WriterTypeOK
    <2>3. capacity' \in [Tables -> Nat] /\ sharing' \in [Tables -> SUBSET Flushers]
        BY <1>1, <2>1, <2>2 DEF WriterTypeOK
    <2>4. QED
        BY <1>3, <2>1, <2>3 DEF WriterTypeOK
<1>5. CASE ~(i > capacity[t])
    <2>1. PICK seen \in [Overlapping(t, i) -> {"old", "new", "torn"}] :
                batch' = Overwritten(t, i, row, seen)
        BY <1>5 DEF AppendRow
    <2>2. ASSUME NEW f \in Flushers
          PROVE  Overwritten(t, i, row, seen)[f]
                    \in [Tables -> Seq(Message \cup {Torn})]
        <3>1. batch[f] \in [Tables -> Seq(Message \cup {Torn})]
            BY DEF WriterTypeOK
        <3>2. CASE f \in Overlapping(t, i) /\ seen[f] # "old"
            <4> DEFINE v == IF seen[f] = "new" THEN row ELSE Torn
            <4>1. batch[f][t] \in Seq(Message \cup {Torn}) /\ v \in Message \cup {Torn}
                BY <1>1, <3>1
            <4>2. [batch[f][t] EXCEPT ![i] = v] \in Seq(Message \cup {Torn})
                BY <1>2, <3>2, <4>1 DEF Overlapping
            <4>3. Overwritten(t, i, row, seen)[f]
                    = [batch[f] EXCEPT ![t] = [batch[f][t] EXCEPT ![i] = v]]
                BY <1>1, <3>1, <3>2 DEF Overwritten
            <4>4. QED
                BY <1>1, <3>1, <4>2, <4>3
        <3>3. CASE ~(f \in Overlapping(t, i) /\ seen[f] # "old")
            BY <3>1, <3>3 DEF Overwritten
        <3>4. QED
            BY <3>2, <3>3
    <2>3. batch' \in [Flushers -> [Tables -> Seq(Message \cup {Torn})]]
        BY <2>1, <2>2 DEF Overwritten
    <2>4. QED
        BY <1>3, <1>5, <2>3 DEF WriterTypeOK, AppendRow
<1>6. QED
    BY <1>4, <1>5

LEMMA BeginFlushType ==
    ASSUME WriterTypeOK, NEW f \in Flushers, BeginFlush(f)
    PROVE  WriterTypeOK'
<1>1. buf' \in [Tables -> Seq(Message)]
    BY DEF WriterTypeOK, BeginFlush, Empty
<1>2. buf \in [Tables -> Seq(Message \cup {Torn})]
    BY DEF WriterTypeOK
<1>3. batch' \in [Flushers -> [Tables -> Seq(Message \cup {Torn})]]
    BY <1>2 DEF WriterTypeOK, BeginFlush
<1>4. QED
    BY <1>1, <1>3 DEF WriterTypeOK, BeginFlush

LEMMA SentType ==
    ASSUME WriterTypeOK, NEW f \in Flushers, NEW t \in Tables,
           SendOK(f, t) \/ SendFail(f, t)
    PROVE  WriterTypeOK'
<1>1. Sent(f, t)
    BY DEF SendOK, SendFail
<1>2. batch' \in [Flushers -> [Tables -> Seq(Message \cup {Torn})]]
    BY <1>1 DEF Sent, WriterTypeOK
<1>3. durable' \in SUBSET (Message \cup {Torn})
    <2>1. batch[f][t] \in Seq(Message \cup {Torn})
        BY DEF WriterTypeOK
    <2>2. Range(batch[f][t]) \subseteq Message \cup {Torn}
        BY <2>1, RangeOfSeq
    <2>3. QED
        BY <2>2 DEF SendOK, SendFail, WriterTypeOK
<1>4. /\ sharing' \in [Tables -> SUBSET Flushers]
      /\ attempted' \in [Flushers -> BOOLEAN]
      /\ UNCHANGED <<buf, capacity, flushing>>
    BY <1>1 DEF Sent, WriterTypeOK
<1>5. failed' \in [Flushers -> BOOLEAN] /\ flushFailed' \in BOOLEAN
    BY DEF SendOK, SendFail, WriterTypeOK
<1>6. QED
    BY <1>2, <1>3, <1>4, <1>5 DEF WriterTypeOK

LEMMA EndFlushType ==
    ASSUME WriterTypeOK, NEW f \in Flushers, EndFlush(f)
    PROVE  WriterTypeOK'
BY DEF WriterTypeOK, EndFlush

LEMMA LostType ==
    ASSUME WriterTypeOK, WriterMemoryLost,
           durable' \in SUBSET (Message \cup {Torn})
    PROVE  WriterTypeOK'
<1>1. Empty \in [Tables -> Seq(Message)]
    BY DEF Empty
<1>2. Empty \in [Tables -> Seq(Message \cup {Torn})]
    BY DEF Empty
<1>3. QED
    BY <1>1, <1>2 DEF WriterTypeOK, WriterMemoryLost

-----------------------------------------------------------------------------
(* Type correctness.                                                       *)

LEMMA FaultType ==
    ASSUME faults \in 0..MaxFaults, Fault \/ UNCHANGED faults
    PROVE  faults' \in 0..MaxFaults
BY DEF Fault

LEMMA InitType == Init => TypeOK
<1> SUFFICES ASSUME Init PROVE TypeOK
    OBVIOUS
<1>1. Empty \in [Tables -> Seq(Message)]
    BY DEF Empty
<1>2. Empty \in [Tables -> Seq(Message \cup {Torn})]
    BY DEF Empty
<1>3. WriterTypeOK
    BY <1>1, <1>2 DEF WriterTypeOK, Init, ProcessInit, WriterMemoryInit
<1>4. \A p \in Partitions : Len(Log[p]) \in Nat
    BY DEF Kinds
<1>5. /\ produced \in [Partitions -> Nat]
      /\ OffsetsInLog
      /\ committed \in [Partitions -> Nat \cup {NoOffset}]
    BY <1>4 DEF Init, ProcessInit, NoOffset, OffsetsInLog
<1>6. /\ position \in [Partitions -> Nat]
      /\ handling \in [Partitions -> {"idle", "handle", "record"}]
      /\ processed \in [Partitions -> Nat]
      /\ snap \in [Partitions -> Nat]
      /\ claims \in SUBSET Partitions
    BY DEF Init, ProcessInit
<1>7. /\ member = FALSE /\ session = "none" /\ barrier = "idle"
      /\ final = FALSE /\ outcome = "none"
      /\ stored = {} /\ dead = {} /\ handled = {} /\ skipped = {} /\ elsewhere = {}
      /\ faults \in 0..MaxFaults
    BY DEF Init, ProcessInit
<1>8. QED
    BY <1>3, <1>5, <1>6, <1>7 DEF TypeOK

LEMMA StartOffsetType ==
    ASSUME TypeOK, NEW p \in Partitions
    PROVE  /\ StartOffset(p) \in Nat
           /\ committed[p] # NoOffset => StartOffset(p) = committed[p]
BY DEF TypeOK, StartOffset, NoOffset

LEMMA CurrentIsMessage ==
    ASSUME TypeOK, HandlersInSession, NEW p \in Partitions, handling[p] # "idle"
    PROVE  Current(p) \in Message
<1>1. position[p] < produced[p] /\ produced[p] <= Len(Log[p])
    BY DEF TypeOK, OffsetsInLog, HandlersInSession
<1>2. position[p] \in Nat /\ produced[p] \in Nat /\ Len(Log[p]) \in Nat
    BY DEF TypeOK, Kinds
<1>3. QED
    BY <1>1, <1>2, MessageIs DEF Current

\* The log bounds the offsets because a handler is only ever at work below the
\* end of the log, and the snapshot of a round is below what has been handed out.
LEMMA StepOffsets ==
    ASSUME TypeOK, HandlersInSession, SnapBelowPosition, [Next]_vars
    PROVE  OffsetsInLog'
<1> USE DEF groupVars, sessionVars, handlerVars, barrierVars, archiveVars, history
<1>0. /\ OffsetsInLog
      /\ \A p \in Partitions :
            /\ produced[p] \in Nat /\ position[p] \in Nat /\ snap[p] \in Nat
            /\ committed[p] \in Int
            /\ Len(Log[p]) \in Nat
    BY DEF TypeOK, NoOffset, Kinds
<1>1. ASSUME NEW p \in Partitions, Produce(p) PROVE OffsetsInLog'
    <2>1. /\ produced[p] < Len(Log[p])
          /\ produced' = [produced EXCEPT ![p] = @ + 1]
          /\ UNCHANGED <<committed, position>>
        BY <1>1 DEF Produce
    <2>2. \A q \in Partitions : produced[q] <= produced'[q] /\ produced'[q] <= Len(Log[q])
        BY <1>0, <2>1 DEF TypeOK, OffsetsInLog
    <2>3. \A q \in Partitions : produced'[q] \in Nat
        BY <1>0, <2>1 DEF TypeOK
    <2>4. QED
        BY <1>0, <2>1, <2>2, <2>3 DEF OffsetsInLog
<1>2. ASSUME NEW p \in Partitions, NEW o \in 1..produced[p], ConsumeElsewhere(p, o)
      PROVE  OffsetsInLog'
    BY <1>0, <1>2 DEF ConsumeElsewhere, TypeOK, OffsetsInLog
<1>3. ASSUME NEW C \in Assignments, Setup(C) PROVE OffsetsInLog'
    <2>1. /\ position' = [p \in Partitions |-> IF p \in C THEN StartOffset(p) ELSE 0]
          /\ UNCHANGED <<produced, committed>>
        BY <1>3 DEF Setup
    <2>2. \A p \in Partitions : StartOffset(p) <= produced[p]
        BY <1>0 DEF StartOffset, OffsetsInLog
    <2>3. QED
        BY <1>0, <2>1, <2>2 DEF OffsetsInLog
<1>4. CASE Crash
    BY <1>0, <1>4 DEF Crash, OffsetsInLog
<1>5. ASSUME NEW p \in Partitions, Record(p) PROVE OffsetsInLog'
    <2>1. position[p] < produced[p]
        BY <1>5 DEF Record, HandlersInSession
    <2>2. /\ position' = [position EXCEPT ![p] = @ + 1]
          /\ UNCHANGED <<produced, committed>>
        BY <1>5 DEF Record
    <2>3. QED
        BY <1>0, <2>1, <2>2 DEF TypeOK, OffsetsInLog
<1>6. CASE Commit
    <2>1. UNCHANGED <<produced, position>>
        BY <1>6 DEF Commit
    <2>2. ASSUME NEW p \in Partitions PROVE committed'[p] <= produced[p]
        <3>1. \/ committed'[p] = committed[p]
              \/ p \in claims /\ snap[p] > 0 /\ committed'[p] = snap[p] + 1
            BY <1>6 DEF Commit
        <3>2. p \in claims => snap[p] = 0 \/ snap[p] < position[p]
            BY <1>6 DEF Commit, SnapBelowPosition
        <3>3. position[p] <= produced[p] /\ committed[p] <= produced[p]
            BY <1>0 DEF OffsetsInLog
        <3>4. QED
            BY <1>0, <3>1, <3>2, <3>3
    <2>3. QED
        BY <1>0, <2>1, <2>2 DEF OffsetsInLog
<1>7. CASE UNCHANGED <<produced, position, committed>>
    BY <1>0, <1>7 DEF OffsetsInLog
<1>8. QED
    BY <1>1, <1>2, <1>3, <1>4, <1>5, <1>6, <1>7
       DEF Next, vars, Group, Evict, Cleanup, Release, Handler, Receive, Handle,
           Barrier, Snapshot, BarrierFlush, FlusherFlush, Flushing, Send, FlushEnds,
           Check

LEMMA StepType ==
    TypeOK /\ HandlersInSession /\ SnapBelowPosition /\ [Next]_vars => TypeOK'
<1> SUFFICES ASSUME TypeOK, HandlersInSession, SnapBelowPosition, [Next]_vars
             PROVE  TypeOK'
    OBVIOUS
<1> USE DEF groupVars, sessionVars, handlerVars, barrierVars, archiveVars, history
<1>0. OffsetsInLog'
    BY StepOffsets
<1> USE <1>0
<1>1. ASSUME NEW p \in Partitions, Produce(p) PROVE TypeOK'
    <2>1. WriterTypeOK'
        BY <1>1 DEF Produce, TypeOK, WriterTypeOK
    <2>2. QED
        BY <1>1, <2>1 DEF Produce, TypeOK
<1>2. ASSUME NEW p \in Partitions, NEW o \in 1..produced[p], ConsumeElsewhere(p, o)
      PROVE  TypeOK'
    <2>1. WriterTypeOK'
        BY <1>2 DEF ConsumeElsewhere, TypeOK, WriterTypeOK
    <2>2. o \in Nat
        BY DEF TypeOK
    <2>3. QED
        BY <1>2, <2>1, <2>2 DEF ConsumeElsewhere, TypeOK, Below
<1>3. CASE Evict
    <2>1. WriterTypeOK'
        BY <1>3 DEF Evict, TypeOK, WriterTypeOK
    <2>2. faults' \in 0..MaxFaults
        BY <1>3, FaultType DEF Evict, TypeOK
    <2>3. QED
        BY <1>3, <2>1, <2>2 DEF Evict, TypeOK
<1>4. ASSUME NEW C \in Assignments, Setup(C) PROVE TypeOK'
    <2>1. WriterTypeOK'
        BY <1>4 DEF Setup, TypeOK, WriterTypeOK
    <2>2. position' \in [Partitions -> Nat]
        BY <1>4, StartOffsetType DEF Setup
    <2>3. skipped' \in SUBSET Message
        BY <1>4 DEF Setup, TypeOK, Below
    <2>4. QED
        BY <1>4, <2>1, <2>2, <2>3 DEF Setup, TypeOK
<1>5. CASE Cleanup
    <2>1. WriterTypeOK'
        BY <1>5 DEF Cleanup, TypeOK, WriterTypeOK
    <2>2. faults' \in 0..MaxFaults
        BY <1>5, FaultType DEF Cleanup, TypeOK
    <2>3. QED
        BY <1>5, <2>1, <2>2 DEF Cleanup, TypeOK
<1>6. CASE Release
    <2>1. WriterTypeOK'
        BY <1>6 DEF Release, TypeOK, WriterTypeOK
    <2>2. QED
        BY <1>6, <2>1 DEF Release, TypeOK
<1>7. CASE Crash
    <2>1. durable' \in SUBSET (Message \cup {Torn})
        <3>1. \A f \in Flushers, t \in Tables :
                    batch[f][t] \in Seq(Message \cup {Torn})
            BY DEF TypeOK, WriterTypeOK
        <3>2. \A f \in Flushers, t \in Tables :
                    Range(batch[f][t]) \subseteq Message \cup {Torn}
            BY <3>1, RangeOfSeq
        <3>3. durable \subseteq Message \cup {Torn}
            BY DEF TypeOK, WriterTypeOK
        <3>4. QED
            BY <1>7, <3>2, <3>3 DEF Crash
    <2>2. WriterTypeOK'
        BY <1>7, <2>1, LostType DEF Crash, TypeOK
    <2>3. faults' \in 0..MaxFaults
        BY <1>7, FaultType DEF Crash, TypeOK
    <2>4. QED
        BY <1>7, <2>2, <2>3 DEF Crash, TypeOK
<1>8. ASSUME NEW p \in Partitions, Receive(p) PROVE TypeOK'
    <2>1. WriterTypeOK'
        BY <1>8 DEF Receive, TypeOK, WriterTypeOK
    <2>2. QED
        BY <1>8, <2>1 DEF Receive, TypeOK
<1>9. ASSUME NEW p \in Partitions, Handle(p) PROVE TypeOK'
    <2> DEFINE m == Current(p)
    <2>1. m \in Message
        BY <1>9, CurrentIsMessage DEF Handle
    <2>2. PICK ok \in BOOLEAN :
              /\ IF ok THEN UNCHANGED faults ELSE Kind(m) \in MysqlKinds /\ Fault
              /\ stored' = IF ok /\ Kind(m) \in MysqlKinds
                           THEN stored \cup {m} ELSE stored
              /\ dead' = IF DeadLettered(Kind(m), ok) THEN dead \cup {m} ELSE dead
              /\ IF HasRow(Kind(m), ok) THEN AppendRow(m)
                 ELSE UNCHANGED archiveVars
        BY <1>9 DEF Handle
    <2>3. WriterTypeOK'
        <3>1. CASE AppendRow(m)
            BY <2>1, <3>1, AppendRowType DEF TypeOK
        <3>2. CASE UNCHANGED archiveVars
            BY <3>2 DEF TypeOK, WriterTypeOK
        <3>3. QED
            BY <2>2, <3>1, <3>2
    <2>4. faults' \in 0..MaxFaults
        BY <2>2, FaultType DEF TypeOK
    <2>5. stored' \in SUBSET Message /\ dead' \in SUBSET Message
        BY <2>1, <2>2 DEF TypeOK
    <2>6. QED
        BY <1>9, <2>3, <2>4, <2>5 DEF Handle, TypeOK
<1>10. ASSUME NEW p \in Partitions, Record(p) PROVE TypeOK'
    <2>1. WriterTypeOK'
        BY <1>10 DEF Record, TypeOK, WriterTypeOK
    <2>2. Current(p) \in Message
        BY <1>10, CurrentIsMessage DEF Record
    <2>3. QED
        BY <1>10, <2>1, <2>2 DEF Record, TypeOK
<1>11. CASE Snapshot
    <2>1. WriterTypeOK'
        BY <1>11 DEF Snapshot, TypeOK, WriterTypeOK
    <2>2. QED
        BY <1>11, <2>1 DEF Snapshot, TypeOK
<1>12. CASE BarrierFlush
    <2>1. WriterTypeOK'
        BY <1>12, BeginFlushType DEF BarrierFlush, TypeOK, Flushers
    <2>2. QED
        BY <1>12, <2>1 DEF BarrierFlush, TypeOK
<1>13. CASE FlusherFlush
    <2>1. WriterTypeOK'
        BY <1>13, BeginFlushType DEF FlusherFlush, TypeOK, Flushers
    <2>2. QED
        BY <1>13, <2>1 DEF FlusherFlush, TypeOK
<1>14. ASSUME NEW f \in Flushers, NEW t \in Tables, Send(f, t) PROVE TypeOK'
    <2>1. WriterTypeOK'
        BY <1>14, SentType DEF Send, TypeOK
    <2>2. faults' \in 0..MaxFaults
        BY <1>14, FaultType DEF Send, TypeOK
    <2>3. QED
        BY <1>14, <2>1, <2>2 DEF Send, TypeOK
<1>15. ASSUME NEW f \in Flushers, FlushEnds(f) PROVE TypeOK'
    <2>1. WriterTypeOK'
        BY <1>15, EndFlushType DEF FlushEnds, TypeOK
    <2>2. QED
        BY <1>15, <2>1 DEF FlushEnds, TypeOK
<1>16. CASE Check
    <2>1. WriterTypeOK'
        BY <1>16 DEF Check, TypeOK, WriterTypeOK
    <2>2. QED
        BY <1>16, <2>1 DEF Check, EndRound, TypeOK
<1>17. CASE Commit
    <2>1. WriterTypeOK'
        BY <1>17 DEF Commit, TypeOK, WriterTypeOK
    <2>2. faults' \in 0..MaxFaults
        BY <1>17, FaultType DEF Commit, TypeOK
    <2>3. committed' \in [Partitions -> Nat \cup {NoOffset}]
        <3> DEFINE advanced(p) ==
                IF p \in claims /\ snap[p] > 0 /\ snap[p] + 1 > committed[p]
                THEN snap[p] + 1 ELSE committed[p]
        <3>1. committed' = [p \in Partitions |-> advanced(p)] \/ UNCHANGED committed
            BY <1>17 DEF Commit
        <3>2. \A p \in Partitions : advanced(p) \in Nat \cup {NoOffset}
            BY DEF TypeOK
        <3> HIDE DEF advanced
        <3>3. QED
            BY <3>1, <3>2 DEF TypeOK
    <2>4. EndRound("committed") \/ EndRound("lost")
        BY <1>17 DEF Commit
    <2>5. barrier' \in {"idle", "done"} /\ outcome' \in {"committed", "lost"}
        BY <2>4 DEF EndRound
    <2>6. UNCHANGED <<produced, member, session, claims, position, handling,
                      processed, stored, dead, final, snap, handled, skipped,
                      elsewhere>>
        BY <1>17 DEF Commit
    <2>7. QED
        BY <2>1, <2>2, <2>3, <2>5, <2>6 DEF TypeOK
<1>18. CASE UNCHANGED vars
    <2>1. WriterTypeOK'
        BY <1>18 DEF vars, TypeOK, WriterTypeOK
    <2>2. QED
        BY <1>18, <2>1 DEF vars, TypeOK
<1>19. QED
    BY <1>1, <1>2, <1>3, <1>4, <1>5, <1>6, <1>7, <1>8, <1>9, <1>10, <1>11, <1>12,
       <1>13, <1>14, <1>15, <1>16, <1>17, <1>18
       DEF Next, Group, Handler, Barrier, Flushing, Flushers

LEMMA StepHandlers == TypeOK /\ HandlersInSession /\ [Next]_vars => HandlersInSession'
<1> SUFFICES ASSUME TypeOK, HandlersInSession, [Next]_vars
             PROVE  HandlersInSession'
    OBVIOUS
<1> USE DEF groupVars, sessionVars, handlerVars, barrierVars, archiveVars, history
<1>1. ASSUME NEW p \in Partitions, Produce(p) PROVE HandlersInSession'
    BY <1>1 DEF Produce, TypeOK, HandlersInSession
<1>2. ASSUME NEW C \in Assignments, Setup(C) PROVE HandlersInSession'
    BY <1>2 DEF Setup, TypeOK, HandlersInSession
<1>3. CASE Cleanup \/ Release
    BY <1>3 DEF Cleanup, Release, TypeOK, HandlersInSession
<1>4. CASE Crash
    BY <1>4 DEF Crash, HandlersInSession
<1>5. ASSUME NEW p \in Partitions, Handler(p) PROVE HandlersInSession'
    BY <1>5 DEF Handler, Receive, Handle, Record, TypeOK, HandlersInSession
<1>6. CASE UNCHANGED <<handling, session, claims, position, produced>>
    BY <1>6 DEF HandlersInSession
<1>7. QED
    BY <1>1, <1>2, <1>3, <1>4, <1>5, <1>6
       DEF Next, vars, Group, ConsumeElsewhere, Evict, Barrier, Flushing, Snapshot,
           BarrierFlush, FlusherFlush, Send, FlushEnds, Check, Commit

-----------------------------------------------------------------------------
(* The inductive invariant, one lemma per group of conjuncts.              *)

\* What AppendRow leaves alone, and what it adds to the buffers.
LEMMA AppendRowBuffer ==
    ASSUME WriterTypeOK, NEW row \in Message, AppendRow(row), NEW t \in Tables
    PROVE  /\ flushing' = flushing
           /\ Range(buf'[t]) \subseteq Range(buf[t]) \cup {row}
<1>1. TableOf[row] \in Tables
    BY TableOfType
<1>2. buf[TableOf[row]] \in Seq(Message)
    BY <1>1 DEF WriterTypeOK
<1>3. buf' = [buf EXCEPT ![TableOf[row]] = Append(@, row)]
    BY DEF AppendRow
<1>4. Range(Append(buf[TableOf[row]], row)) = Range(buf[TableOf[row]]) \cup {row}
    BY <1>2, RangeOfAppend
<1>5. QED
    BY <1>1, <1>3, <1>4 DEF WriterTypeOK, AppendRow

\* Handle changes the writer by at most the row of its own message.
LEMMA HandleBuffer ==
    ASSUME TypeOK, HandlersInSession, NEW p \in Partitions, Handle(p),
           NEW t \in Tables
    PROVE  /\ flushing' = flushing
           /\ Range(buf'[t]) \subseteq Range(buf[t]) \cup {Current(p)}
<1>1. Current(p) \in Message
    BY CurrentIsMessage DEF Handle
<1>2. AppendRow(Current(p)) \/ UNCHANGED archiveVars
    BY DEF Handle
<1>3. QED
    BY <1>1, <1>2, AppendRowBuffer DEF TypeOK, archiveVars

LEMMA StepSession ==
    TypeOK /\ HandlersInSession /\ BarrierInSession /\ [Next]_vars => BarrierInSession'
<1> SUFFICES ASSUME TypeOK, HandlersInSession, BarrierInSession, [Next]_vars
             PROVE  BarrierInSession'
    OBVIOUS
<1> USE DEF groupVars, sessionVars, handlerVars, barrierVars, archiveVars, history,
            BarrierInSession
<1>0. flushing \in [Flushers -> BOOLEAN] /\ "barrier" \in Flushers
    BY DEF TypeOK, WriterTypeOK, Flushers
<1>1. ASSUME NEW C \in Assignments, Setup(C) PROVE BarrierInSession'
    BY <1>1 DEF Setup
<1>2. CASE Release
    BY <1>2 DEF Release
<1>3. CASE Crash
    BY <1>3, <1>0 DEF Crash, WriterMemoryLost
<1>4. ASSUME NEW p \in Partitions, Handle(p) PROVE BarrierInSession'
    <2>1. flushing' = flushing
        BY <1>4, HandleBuffer DEF Tables
    <2>2. QED
        BY <1>4, <2>1 DEF Handle
<1>5. CASE Snapshot
    BY <1>5 DEF Snapshot
<1>6. CASE BarrierFlush
    BY <1>6 DEF BarrierFlush
<1>7. CASE FlusherFlush
    BY <1>7, <1>0 DEF FlusherFlush, BeginFlush
<1>8. ASSUME NEW f \in Flushers, NEW t \in Tables, Send(f, t) PROVE BarrierInSession'
    BY <1>8 DEF Send, SendOK, SendFail, Sent
<1>9. ASSUME NEW f \in Flushers, FlushEnds(f) PROVE BarrierInSession'
    <2>1. CASE f = "barrier"
        BY <1>9, <1>0, <2>1 DEF FlushEnds, EndFlush
    <2>2. CASE f # "barrier"
        BY <1>9, <1>0, <2>2 DEF FlushEnds, EndFlush
    <2>3. QED
        BY <2>1, <2>2
<1>10. CASE Check \/ Commit
    <2>1. session # "none" /\ ~flushing["barrier"]
        BY <1>0, <1>10 DEF Check, Commit
    <2>2. UNCHANGED <<session, flushing>>
        BY <1>10 DEF Check, Commit
    <2>3. QED
        BY <2>1, <2>2
<1>11. CASE Cleanup
    BY <1>11 DEF Cleanup
<1>12. CASE UNCHANGED <<session, claims, barrier, flushing>>
    BY <1>12
<1>13. QED
    BY <1>1, <1>2, <1>3, <1>4, <1>5, <1>6, <1>7, <1>8, <1>9, <1>10, <1>11, <1>12
       DEF Next, vars, Group, Produce, ConsumeElsewhere, Evict, Handler, Receive,
           Record, Barrier, Flushing, Flushers

\* The positions: what they have left behind, and what runs before them.
LEMMA StepPosition ==
    ASSUME TypeOK, BarrierInv, [Next]_vars
    PROVE  PositionHandled' /\ ProcessedBelowPosition' /\ SnapBelowPosition'
<1> USE DEF groupVars, sessionVars, handlerVars, barrierVars, archiveVars, history
<1> DEFINE Goal == PositionHandled /\ ProcessedBelowPosition /\ SnapBelowPosition
<1>0. Goal
    BY DEF BarrierInv
<1>1. ASSUME NEW C \in Assignments, Setup(C) PROVE Goal'
    <2>1. C \subseteq Partitions
        OBVIOUS
    <2>2. ASSUME NEW p \in C
          PROVE  Below(p, StartOffset(p)) \subseteq (handled \cup NotOurs)'
        <3>1. CASE committed[p] = NoOffset
            BY <1>1, <3>1 DEF Setup, NotOurs
        <3>2. CASE committed[p] # NoOffset
            <4>1. StartOffset(p) = committed[p]
                BY <3>2 DEF StartOffset
            <4>2. Below(p, committed[p]) \subseteq handled \cup NotOurs
                BY DEF BarrierInv, CommittedHandled, CommittedMessages, Below
            <4>3. QED
                BY <1>1, <4>1, <4>2 DEF Setup, NotOurs
        <3>3. QED
            BY <3>1, <3>2
    <2>3. PositionHandled'
        BY <1>1, <2>1, <2>2 DEF Setup, PositionHandled, Below
    <2>4. QED
        BY <1>1, <2>1, <2>3 DEF Setup, ProcessedBelowPosition, SnapBelowPosition
<1>2. CASE Release \/ Crash
    BY <1>2 DEF Release, Crash, PositionHandled, ProcessedBelowPosition, SnapBelowPosition
<1>3. ASSUME NEW p \in Partitions, Record(p) PROVE Goal'
    <2>1. /\ p \in claims /\ claims' = claims
          /\ position' = [position EXCEPT ![p] = @ + 1]
          /\ processed' = [processed EXCEPT ![p] = position[p]] \/ UNCHANGED processed
          /\ UNCHANGED <<barrier, snap, skipped, elsewhere>>
          /\ handled' = handled \cup {Current(p)}
        BY <1>3 DEF Record, BarrierInv, HandlersInSession
    <2>2. position \in [Partitions -> Nat] /\ processed \in [Partitions -> Nat]
          /\ snap \in [Partitions -> Nat] /\ claims \subseteq Partitions
        BY DEF TypeOK
    <2>3. ASSUME NEW m \in Message, m[1] = p, m[2] < position[p] + 1
          PROVE  m \in Below(p, position[p]) \/ m = Current(p)
        BY <2>2, <2>3, MessageIs DEF Below, Current
    <2>4. PositionHandled'
        BY <1>0, <2>1, <2>2, <2>3 DEF PositionHandled, Below, NotOurs
    <2>5. ProcessedBelowPosition'
        BY <1>0, <2>1, <2>2 DEF ProcessedBelowPosition
    <2>6. SnapBelowPosition'
        BY <1>0, <2>1, <2>2 DEF SnapBelowPosition
    <2>7. QED
        BY <2>4, <2>5, <2>6
<1>4. CASE Snapshot
    BY <1>0, <1>4 DEF Snapshot, PositionHandled, ProcessedBelowPosition,
                      SnapBelowPosition, NotOurs
<1>5. CASE /\ UNCHANGED <<claims, position, processed, snap>>
           /\ handled \subseteq handled' /\ NotOurs \subseteq NotOurs'
           /\ \/ UNCHANGED barrier
              \/ barrier' \in {"idle", "done"}
              \/ barrier \in {"flush", "sending", "check", "commit"}
    BY <1>0, <1>5 DEF PositionHandled, ProcessedBelowPosition, SnapBelowPosition
<1>6. ASSUME NEW f \in Flushers, FlushEnds(f) PROVE Goal'
    <2>1. f = "barrier" => barrier = "sending"
        BY <1>6 DEF FlushEnds, EndFlush, BarrierInv, BarrierInSession
    <2>2. QED
        BY <1>5, <1>6, <2>1 DEF FlushEnds, NotOurs
<1>7. CASE BarrierFlush \/ Check \/ Commit
    BY <1>5, <1>7 DEF BarrierFlush, Check, Commit, NotOurs
<1>8. ASSUME NEW p \in Partitions,
             Produce(p) \/ Receive(p) \/ Handle(p)
                \/ \E o \in 1..produced[p] : ConsumeElsewhere(p, o)
      PROVE  Goal'
    BY <1>5, <1>8 DEF Produce, Receive, Handle, ConsumeElsewhere, NotOurs
<1>9. CASE Evict \/ Cleanup \/ FlusherFlush \/ UNCHANGED vars
    BY <1>5, <1>9 DEF Evict, Cleanup, FlusherFlush, vars, NotOurs
<1>10. ASSUME NEW f \in Flushers, NEW t \in Tables, Send(f, t) PROVE Goal'
    BY <1>5, <1>10 DEF Send, NotOurs
<1>11. QED
    BY <1>1, <1>2, <1>3, <1>4, <1>6, <1>7, <1>8, <1>9, <1>10
       DEF Next, Group, Handler, Barrier, Flushing, Flushers

\* The offsets: what they cover, and that they stay behind the positions.
LEMMA StepCommitted ==
    ASSUME TypeOK, BarrierInv, [Next]_vars
    PROVE  CommittedHandled' /\ PositionNotCommitted'
<1> USE DEF groupVars, sessionVars, handlerVars, barrierVars, archiveVars, history
<1> DEFINE Goal == CommittedHandled /\ PositionNotCommitted
<1>0. Goal
    BY DEF BarrierInv
<1>1. ASSUME NEW p \in Partitions, NEW o \in 1..produced[p], ConsumeElsewhere(p, o)
      PROVE  Goal'
    <2>1. ASSUME NEW m \in CommittedMessages'
          PROVE  m \in CommittedMessages \/ m \in elsewhere'
        <3>1. CASE m[1] = p
            BY <1>1, <3>1 DEF ConsumeElsewhere, TypeOK, CommittedMessages, Below
        <3>2. CASE m[1] # p
            BY <1>1, <3>2 DEF ConsumeElsewhere, TypeOK, CommittedMessages
        <3>3. QED
            BY <3>1, <3>2
    <2>2. elsewhere \subseteq elsewhere' /\ UNCHANGED <<handled, skipped, claims, position>>
        BY <1>1 DEF ConsumeElsewhere
    <2>3. QED
        BY <1>0, <2>1, <2>2 DEF CommittedHandled, PositionNotCommitted, NotOurs
<1>2. ASSUME NEW C \in Assignments, Setup(C) PROVE Goal'
    <2>1. CommittedMessages' = CommittedMessages
        BY <1>2 DEF Setup, CommittedMessages
    <2>2. ASSUME NEW p \in C, NEW m \in CommittedMessages, m[1] = p
          PROVE  m[2] < position'[p]
        <3>1. p \in Partitions /\ m[2] \in Nat /\ m[2] < committed[p]
            BY <2>2, MessageIs DEF CommittedMessages
        <3>2. committed[p] # NoOffset
            BY <3>1 DEF NoOffset
        <3>3. position'[p] = committed[p]
            BY <1>2, <3>1, <3>2 DEF Setup, StartOffset
        <3>4. QED
            BY <3>1, <3>3
    <2>3. ASSUME NEW p \in C, NEW m \in CommittedMessages, m[1] = p
          PROVE  ~(position'[p] <= m[2])
        <3>1. p \in Partitions /\ m[2] \in Nat /\ position'[p] \in Nat
            BY <1>2, <2>3, MessageIs, StartOffsetType DEF Setup, CommittedMessages
        <3>2. QED
            BY <2>2, <2>3, <3>1
    <2>4. QED
        BY <1>0, <1>2, <2>1, <2>3
           DEF Setup, CommittedHandled, PositionNotCommitted, NotOurs
<1>3. ASSUME NEW p \in Partitions, Record(p) PROVE Goal'
    <2>1. position \in [Partitions -> Nat] /\ claims \subseteq Partitions
        BY DEF TypeOK
    <2>2. /\ CommittedMessages' = CommittedMessages
          /\ UNCHANGED <<skipped, elsewhere, claims>>
          /\ handled \subseteq handled'
          /\ position' = [position EXCEPT ![p] = @ + 1]
        BY <1>3 DEF Record, CommittedMessages
    <2>3. \A q \in claims : \A m \in CommittedMessages :
                position'[q] <= m[2] => position[q] <= m[2]
        <3>1. \A m \in CommittedMessages : m[2] \in Nat
            BY MessageIs DEF CommittedMessages
        <3>2. QED
            BY <2>1, <2>2, <3>1
    <2>4. QED
        BY <1>0, <2>2, <2>3 DEF CommittedHandled, PositionNotCommitted, NotOurs
<1>4. CASE Commit
    <2>1. /\ UNCHANGED <<handled, skipped, elsewhere, claims, position>>
          /\ barrier = "commit"
        BY <1>4 DEF Commit
    <2>2. ASSUME NEW m \in CommittedMessages'
          PROVE  \/ m \in CommittedMessages
                 \/ m[1] \in claims /\ m[2] < position[m[1]]
        <3>1. m[1] \in Partitions /\ m[2] \in Nat /\ m \in Message
            BY MessageIs DEF CommittedMessages
        <3>2. CASE committed'[m[1]] = committed[m[1]]
            BY <3>1, <3>2 DEF CommittedMessages
        <3>3. CASE committed'[m[1]] # committed[m[1]]
            <4>1. /\ m[1] \in claims /\ snap[m[1]] > 0
                  /\ committed'[m[1]] = snap[m[1]] + 1
                BY <1>4, <3>1, <3>3 DEF Commit
            <4>2. snap[m[1]] < position[m[1]]
                BY <2>1, <3>1, <4>1 DEF BarrierInv, SnapBelowPosition, TypeOK
            <4>3. m[2] < snap[m[1]] + 1
                BY <4>1 DEF CommittedMessages
            <4>4. snap[m[1]] \in Nat /\ position[m[1]] \in Nat
                BY <3>1 DEF TypeOK
            <4>5. QED
                BY <3>1, <4>1, <4>2, <4>3, <4>4
        <3>4. QED
            BY <3>2, <3>3
    <2>3. ASSUME NEW m \in Message, m[1] \in claims, m[2] < position[m[1]]
          PROVE  m \in handled \cup NotOurs
        BY <2>3 DEF BarrierInv, PositionHandled, Below
    <2>4. CommittedHandled'
        BY <1>0, <2>1, <2>2, <2>3 DEF CommittedHandled, NotOurs, CommittedMessages
    <2>5. PositionNotCommitted'
        <3> SUFFICES ASSUME NEW p \in claims, NEW m \in CommittedMessages',
                            m[1] = p, position[p] <= m[2]
                     PROVE  m \in elsewhere
            BY <2>1 DEF PositionNotCommitted
        <3>1. m[2] \in Nat /\ position[p] \in Nat
            BY MessageIs DEF TypeOK, CommittedMessages
        <3>2. m \in CommittedMessages
            BY <2>2, <3>1
        <3>3. QED
            BY <1>0, <3>2 DEF PositionNotCommitted
    <2>6. QED
        BY <2>4, <2>5
<1>5. CASE /\ UNCHANGED <<committed, elsewhere, skipped>>
           /\ handled \subseteq handled'
           /\ UNCHANGED <<claims, position>> \/ claims' = {}
    BY <1>0, <1>5 DEF CommittedHandled, PositionNotCommitted, CommittedMessages, NotOurs
<1>6. ASSUME NEW p \in Partitions, Produce(p) \/ Receive(p) \/ Handle(p) PROVE Goal'
    BY <1>5, <1>6 DEF Produce, Receive, Handle
<1>7. CASE Evict \/ Cleanup \/ Release \/ Crash \/ UNCHANGED vars
    BY <1>5, <1>7 DEF Evict, Cleanup, Release, Crash, vars
<1>8. CASE Snapshot \/ BarrierFlush \/ FlusherFlush \/ Check
    BY <1>5, <1>8 DEF Snapshot, BarrierFlush, FlusherFlush, Check
<1>9. ASSUME NEW f \in Flushers, (\E t \in Tables : Send(f, t)) \/ FlushEnds(f)
      PROVE  Goal'
    BY <1>5, <1>9 DEF Send, FlushEnds
<1>10. QED
    BY <1>1, <1>2, <1>3, <1>4, <1>6, <1>7, <1>8, <1>9
       DEF Next, Group, Handler, Barrier, Flushing, Flushers

\* The buffers: what the snapshot and the committed offsets cover has left them.
LEMMA StepBuffer ==
    ASSUME TypeOK, BarrierInv, [Next]_vars
    PROVE  SnapLeftBuffer' /\ CommittedLeftBuffer'
<1> USE DEF groupVars, sessionVars, handlerVars, barrierVars, archiveVars, history
<1> DEFINE Goal == SnapLeftBuffer /\ CommittedLeftBuffer
<1>0. Goal
    BY DEF BarrierInv
<1>1. ASSUME NEW p \in Partitions, NEW o \in 1..produced[p], ConsumeElsewhere(p, o)
      PROVE  Goal'
    <2>1. ASSUME NEW m \in CommittedMessages' \ elsewhere'
          PROVE  m \in CommittedMessages \ elsewhere
        <3>1. m[1] # p
            BY <1>1 DEF ConsumeElsewhere, TypeOK, CommittedMessages, Below
        <3>2. QED
            BY <1>1, <3>1 DEF ConsumeElsewhere, TypeOK, CommittedMessages
    <2>2. UNCHANGED <<buf, snap, barrier, claims>>
        BY <1>1 DEF ConsumeElsewhere
    <2>3. QED
        BY <1>0, <2>1, <2>2 DEF SnapLeftBuffer, CommittedLeftBuffer
<1>2. ASSUME NEW p \in Partitions, Handle(p) PROVE Goal'
    <2>1. \A t \in Tables : Range(buf'[t]) \subseteq Range(buf[t]) \cup {Current(p)}
        BY <1>2, HandleBuffer DEF BarrierInv
    <2>2. UNCHANGED <<committed, elsewhere, claims, position, snap, barrier>>
        BY <1>2 DEF Handle
    <2>3. p \in claims /\ position[p] \in Nat /\ snap[p] \in Nat
        BY <1>2 DEF Handle, BarrierInv, HandlersInSession, TypeOK
    <2>4. SnapLeftBuffer'
        <3> SUFFICES ASSUME barrier \in {"sending", "check", "commit"},
                            NEW m \in Message, m[1] \in claims, 0 < snap[m[1]],
                            m[2] <= snap[m[1]], NEW t \in Tables
                     PROVE  m \notin Range(buf'[t])
            BY <2>2 DEF SnapLeftBuffer
        <3>1. m \notin Range(buf[t])
            BY <1>0 DEF SnapLeftBuffer
        <3>2. m # Current(p)
            BY <2>3 DEF Current, BarrierInv, SnapBelowPosition
        <3>3. QED
            BY <2>1, <3>1, <3>2
    <2>5. CommittedLeftBuffer'
        <3> SUFFICES ASSUME NEW m \in CommittedMessages \ elsewhere, NEW t \in Tables
                     PROVE  m \notin Range(buf'[t])
            BY <2>2 DEF CommittedLeftBuffer, CommittedMessages
        <3>1. m \notin Range(buf[t])
            BY <1>0 DEF CommittedLeftBuffer
        <3>2. m # Current(p)
            BY <2>3 DEF Current, BarrierInv, PositionNotCommitted
        <3>3. QED
            BY <2>1, <3>1, <3>2
    <2>6. QED
        BY <2>4, <2>5
<1>3. CASE Commit
    <2>1. /\ UNCHANGED <<buf, elsewhere, claims, snap>>
          /\ barrier' \in {"idle", "done"}
          /\ barrier = "commit"
        BY <1>3 DEF Commit, EndRound
    <2>2. ASSUME NEW m \in CommittedMessages'
          PROVE  \/ m \in CommittedMessages
                 \/ m[1] \in claims /\ 0 < snap[m[1]] /\ m[2] <= snap[m[1]]
        <3>1. m[1] \in Partitions /\ m[2] \in Nat /\ m \in Message
            BY MessageIs DEF CommittedMessages
        <3>2. CASE committed'[m[1]] = committed[m[1]]
            BY <3>1, <3>2 DEF CommittedMessages
        <3>3. CASE committed'[m[1]] # committed[m[1]]
            <4>1. /\ m[1] \in claims /\ snap[m[1]] > 0
                  /\ committed'[m[1]] = snap[m[1]] + 1
                BY <1>3, <3>1, <3>3 DEF Commit
            <4>2. m[2] < snap[m[1]] + 1 /\ snap[m[1]] \in Nat
                BY <3>1, <4>1 DEF CommittedMessages, TypeOK
            <4>3. QED
                BY <3>1, <4>1, <4>2
        <3>4. QED
            BY <3>2, <3>3
    <2>3. CommittedLeftBuffer'
        BY <1>0, <2>1, <2>2 DEF CommittedLeftBuffer, SnapLeftBuffer, CommittedMessages
    <2>4. QED
        BY <2>1, <2>3 DEF SnapLeftBuffer
<1>4. CASE buf' = Empty
    <2>1. \A t \in Tables : Range(buf'[t]) = {}
        BY <1>4, RangeOfEmpty DEF Empty
    <2>2. QED
        BY <2>1 DEF SnapLeftBuffer, CommittedLeftBuffer
<1>5. CASE /\ UNCHANGED <<committed, elsewhere, buf>>
           /\ \/ UNCHANGED <<barrier, snap, claims>>
              \/ barrier' \in {"idle", "done", "flush"}
              \/ /\ barrier \in {"sending", "check"}
                 /\ UNCHANGED <<snap, claims>>
    BY <1>0, <1>5 DEF SnapLeftBuffer, CommittedLeftBuffer, CommittedMessages
<1>6. CASE Crash \/ BarrierFlush \/ FlusherFlush
    BY <1>4, <1>6 DEF Crash, WriterMemoryLost, BarrierFlush, FlusherFlush, BeginFlush
<1>7. ASSUME NEW C \in Assignments, Setup(C) PROVE Goal'
    BY <1>5, <1>7 DEF Setup
<1>8. ASSUME NEW p \in Partitions, Produce(p) \/ Receive(p) \/ Record(p) PROVE Goal'
    BY <1>5, <1>8 DEF Produce, Receive, Record
<1>9. CASE Evict \/ Cleanup \/ UNCHANGED vars
    BY <1>5, <1>9 DEF Evict, Cleanup, vars
<1>10. CASE Release
    BY <1>5, <1>10 DEF Release
<1>11. CASE Snapshot \/ Check
    BY <1>5, <1>11 DEF Snapshot, Check, EndRound
<1>12. ASSUME NEW f \in Flushers, (\E t \in Tables : Send(f, t)) \/ FlushEnds(f)
       PROVE  Goal'
    <2>1. CASE \E t \in Tables : Send(f, t)
        BY <1>5, <2>1 DEF Send, SendOK, SendFail, Sent
    <2>2. CASE FlushEnds(f)
        <3>1. f = "barrier" => barrier = "sending"
            BY <2>2 DEF FlushEnds, EndFlush, BarrierInv, BarrierInSession
        <3>2. QED
            BY <1>5, <2>2, <3>1 DEF FlushEnds, EndFlush
    <2>3. QED
        BY <1>12, <2>1, <2>2
<1>13. QED
    BY <1>1, <1>2, <1>3, <1>6, <1>7, <1>8, <1>9, <1>10, <1>11, <1>12
       DEF Next, Group, Handler, Barrier, Flushing, Flushers

\* The entry of r.processed: Record is the only step that moves it or the
\* position of a claimed partition.
LEMMA StepLast ==
    ASSUME TypeOK, BarrierInv, [Next]_vars
    PROVE  ProcessedIsLast'
<1> USE DEF groupVars, sessionVars, handlerVars, barrierVars, archiveVars, history
<1>0. ProcessedIsLast
    BY DEF BarrierInv
<1>1. ASSUME NEW C \in Assignments, Setup(C) PROVE ProcessedIsLast'
    <2>1. C \subseteq Partitions
        OBVIOUS
    <2>2. QED
        BY <1>1, <2>1 DEF Setup, ProcessedIsLast
<1>2. CASE Release \/ Crash
    BY <1>2 DEF Release, Crash, ProcessedIsLast
<1>3. ASSUME NEW p \in Partitions, Record(p) PROVE ProcessedIsLast'
    <2>1. position \in [Partitions -> Nat] /\ processed \in [Partitions -> Nat]
          /\ claims \subseteq Partitions
        BY DEF TypeOK
    <2>2. /\ claims' = claims
          /\ position' = [position EXCEPT ![p] = @ + 1]
          /\ processed' = IF position[p] > processed[p]
                          THEN [processed EXCEPT ![p] = position[p]] ELSE processed
          /\ p \in claims
        BY <1>3 DEF Record, BarrierInv, HandlersInSession
    <2>3. CASE position[p] > processed[p]
        BY <1>0, <2>1, <2>2, <2>3 DEF ProcessedIsLast
    <2>4. CASE ~(position[p] > processed[p])
        <3>1. processed[p] = 0
            BY <1>0, <2>1, <2>2, <2>4 DEF ProcessedIsLast
        <3>2. QED
            BY <1>0, <2>1, <2>2, <2>4, <3>1 DEF ProcessedIsLast
    <2>5. QED
        BY <2>3, <2>4
<1>4. CASE UNCHANGED <<claims, position, processed>>
    BY <1>0, <1>4 DEF ProcessedIsLast
<1>5. QED
    BY <1>1, <1>2, <1>3, <1>4
       DEF Next, vars, Group, Produce, ConsumeElsewhere, Evict, Cleanup, Handler,
           Receive, Handle, Barrier, Snapshot, BarrierFlush, FlusherFlush, Flushing,
           Send, FlushEnds, Check, Commit

\* The last round of a session.
LEMMA StepLastRound ==
    ASSUME TypeOK, BarrierInv, [Next]_vars
    PROVE  LastRound'
<1> USE DEF groupVars, sessionVars, handlerVars, barrierVars, archiveVars, history
<1>0. LastRound
    BY DEF BarrierInv
<1>1. ASSUME NEW C \in Assignments, Setup(C) PROVE LastRound'
    BY <1>1 DEF Setup, LastRound
<1>2. CASE Cleanup
    BY <1>0, <1>2 DEF Cleanup, LastRound
<1>3. CASE Release
    BY <1>0, <1>3 DEF Release, LastRound
<1>4. CASE Crash
    BY <1>4 DEF Crash, LastRound
<1>5. ASSUME NEW p \in Partitions, Record(p) PROVE LastRound'
    <2>1. /\ session = "running" /\ session' = session
          /\ UNCHANGED <<barrier, final, outcome, snap, claims, committed>>
        BY <1>5 DEF Record, BarrierInv, HandlersInSession
    <2>2. QED
        BY <1>0, <2>1 DEF LastRound
<1>6. CASE Snapshot
    <2>1. /\ session # "none" /\ UNCHANGED <<session, processed>>
          /\ snap' = processed
          /\ final' = (session = "cleanup")
          /\ barrier' = "flush" \/ (outcome' = "empty" /\ (barrier' = "done" => final'))
        BY <1>6 DEF Snapshot
    <2>2. QED
        BY <2>1 DEF LastRound
<1>7. CASE Check
    <2>1. /\ UNCHANGED <<session, processed, snap, final>>
          /\ barrier' = "commit" \/ (outcome' = "refused" /\ (barrier' = "done" => final))
        BY <1>7 DEF Check, EndRound
    <2>2. QED
        BY <1>0, <2>1 DEF LastRound
<1>8. CASE Commit
    <2>1. /\ UNCHANGED <<session, claims, processed, snap, final>>
          /\ barrier' = "done" => final
          /\ \/ outcome' = "lost"
             \/ committed' = [p \in Partitions |->
                    IF p \in claims /\ snap[p] > 0 /\ snap[p] + 1 > committed[p]
                    THEN snap[p] + 1 ELSE committed[p]]
        BY <1>8 DEF Commit, EndRound
    <2>2. CASE outcome' = "lost"
        BY <1>0, <2>1, <2>2 DEF LastRound
    <2>3. CASE committed' = [p \in Partitions |->
                    IF p \in claims /\ snap[p] > 0 /\ snap[p] + 1 > committed[p]
                    THEN snap[p] + 1 ELSE committed[p]]
        <3>1. ASSUME NEW p \in claims, snap[p] > 0 PROVE committed'[p] > snap[p]
            <4>1. p \in Partitions /\ snap[p] \in Nat /\ committed[p] \in Int
                BY DEF TypeOK, NoOffset
            <4>2. committed'[p] = IF snap[p] + 1 > committed[p]
                                  THEN snap[p] + 1 ELSE committed[p]
                BY <2>3, <3>1, <4>1
            <4>3. QED
                BY <4>1, <4>2
        <3>2. QED
            BY <1>0, <2>1, <3>1 DEF LastRound
    <2>4. QED
        BY <2>1, <2>2, <2>3
<1>9. ASSUME NEW p \in Partitions, NEW o \in 1..produced[p], ConsumeElsewhere(p, o)
      PROVE  LastRound'
    <2>1. /\ committed[p] < o /\ committed' = [committed EXCEPT ![p] = o]
          /\ UNCHANGED <<session, claims, processed, barrier, final, outcome, snap>>
        BY <1>9 DEF ConsumeElsewhere
    <2>2. ASSUME NEW q \in claims, committed[q] > snap[q]
          PROVE  committed'[q] > snap[q]
        <3>1. /\ q \in Partitions /\ snap[q] \in Nat /\ committed[q] \in Int
              /\ committed[p] \in Int /\ o \in Int
            BY DEF TypeOK, NoOffset
        <3>2. CASE q = p
            <4>1. committed'[q] = o
                BY <2>1, <3>2 DEF TypeOK
            <4>2. QED
                BY <2>1, <2>2, <3>1, <3>2, <4>1
        <3>3. CASE q # p
            BY <2>1, <2>2, <3>1, <3>3 DEF TypeOK
        <3>4. QED
            BY <3>2, <3>3
    <2>3. QED
        BY <1>0, <2>1, <2>2 DEF LastRound
<1>10. CASE /\ UNCHANGED <<session, claims, processed, final, outcome, snap,
                          committed>>
            /\ barrier' = "done" => barrier = "done"
    BY <1>0, <1>10 DEF LastRound
<1>11. QED
    BY <1>1, <1>2, <1>3, <1>4, <1>5, <1>6, <1>7, <1>8, <1>9, <1>10
       DEF Next, vars, Group, Produce, Evict, Handler, Receive, Handle, Barrier,
           BarrierFlush, FlusherFlush, Flushing, Send, FlushEnds

\* What a handler has put away stays there.
LEMMA StepAccounted ==
    ASSUME TypeOK, BarrierInv, [Next]_vars
    PROVE  HandledAccounted'
<1> USE DEF groupVars, sessionVars, handlerVars, barrierVars, archiveVars, history
<1>0. HandledAccounted /\ HandlersInSession
    BY DEF BarrierInv
<1>1. ASSUME NEW p \in Partitions, Handle(p) PROVE HandledAccounted'
    <2> DEFINE m == Current(p)
    <2>1. PICK ok \in BOOLEAN :
              /\ ok \/ Kind(m) \in MysqlKinds
              /\ stored' = IF ok /\ Kind(m) \in MysqlKinds
                           THEN stored \cup {m} ELSE stored
              /\ dead' = IF DeadLettered(Kind(m), ok) THEN dead \cup {m} ELSE dead
        BY <1>1 DEF Handle
    <2>2. UNCHANGED <<handled, position>>
          /\ handling' = [handling EXCEPT ![p] = "record"]
        BY <1>1 DEF Handle
    <2>3. stored \subseteq stored' /\ dead \subseteq dead'
        BY <2>1
    <2>4. Accounted(m)'
        <3>1. m' = m
            BY <2>2 DEF Current
        <3>2. Kind(m) \in MysqlKinds \ {"memory"} => m \in stored' \cup dead'
            BY <2>1 DEF DeadLettered
        <3>3. Kind(m) = "unknown" => m \in dead'
            BY <2>1 DEF DeadLettered
        <3>4. QED
            BY <3>1, <3>2, <3>3 DEF Accounted, Kind
    <2>5. ASSUME NEW q \in Partitions, handling'[q] = "record"
          PROVE  Accounted(Current(q))'
        <3>1. CASE q = p
            BY <2>4, <3>1
        <3>2. CASE q # p
            <4>1. Accounted(Current(q))
                BY <1>0, <2>2, <2>5, <3>2 DEF HandledAccounted, TypeOK
            <4>2. QED
                BY <2>2, <2>3, <4>1 DEF Accounted, Kind, Current
        <3>3. QED
            BY <3>1, <3>2
    <2>6. \A n \in handled' : Accounted(n)'
        BY <1>0, <2>2, <2>3 DEF HandledAccounted, Accounted, Kind
    <2>7. QED
        BY <2>5, <2>6 DEF HandledAccounted
<1>2. ASSUME NEW p \in Partitions, Record(p) PROVE HandledAccounted'
    <2>1. /\ handling[p] = "record"
          /\ handling' = [handling EXCEPT ![p] = "idle"]
          /\ handled' = handled \cup {Current(p)}
          /\ position' = [position EXCEPT ![p] = @ + 1]
          /\ UNCHANGED <<stored, dead>>
        BY <1>2 DEF Record
    <2>2. ASSUME NEW q \in Partitions, handling'[q] = "record"
          PROVE  q # p /\ handling[q] = "record" /\ position'[q] = position[q]
        BY <2>1, <2>2 DEF TypeOK
    <2>3. QED
        BY <1>0, <2>1, <2>2 DEF HandledAccounted, Accounted, Kind, Current
<1>3. ASSUME NEW p \in Partitions, Receive(p) PROVE HandledAccounted'
    <2>1. /\ handling' = [handling EXCEPT ![p] = "handle"]
          /\ UNCHANGED <<handled, stored, dead, position>>
        BY <1>3 DEF Receive
    <2>2. \A q \in Partitions : handling'[q] = "record" => handling[q] = "record"
        BY <2>1 DEF TypeOK
    <2>3. QED
        BY <1>0, <2>1, <2>2 DEF HandledAccounted, Accounted, Kind, Current
<1>4. ASSUME NEW C \in Assignments, Setup(C) PROVE HandledAccounted'
    <2>1. /\ UNCHANGED <<handled, stored, dead, handling>>
          /\ \A q \in Partitions : handling[q] = "idle"
        BY <1>4, <1>0 DEF Setup, HandlersInSession
    <2>2. QED
        BY <1>0, <2>1 DEF HandledAccounted, Accounted, Kind
<1>5. CASE Crash
    <2>1. /\ UNCHANGED <<handled, stored, dead>>
          /\ \A q \in Partitions : handling'[q] = "idle"
        BY <1>5 DEF Crash
    <2>2. QED
        BY <1>0, <2>1 DEF HandledAccounted, Accounted, Kind
<1>6. CASE UNCHANGED <<handled, stored, dead, handling, position>>
    BY <1>0, <1>6 DEF HandledAccounted, Accounted, Kind, Current
<1>7. QED
    BY <1>1, <1>2, <1>3, <1>4, <1>5, <1>6
       DEF Next, vars, Group, Produce, ConsumeElsewhere, Evict, Cleanup, Release,
           Handler, Barrier, Snapshot, BarrierFlush, FlusherFlush, Flushing, Send,
           FlushEnds, Check, Commit

\* A row that is appended gets into the batches that share its array, whole or
\* torn, and nothing else does.
LEMMA AppendRowBatches ==
    ASSUME WriterTypeOK, NEW row \in Message, AppendRow(row), NEW t \in Tables,
           NEW f \in Flushers
    PROVE  Range(batch'[f][t]) \subseteq Range(batch[f][t]) \cup {row, Torn}
<1> DEFINE u == TableOf[row]
           i == Len(buf[u]) + 1
<1>1. u \in Tables
    BY TableOfType
<1>2. batch[f] \in [Tables -> Seq(Message \cup {Torn})]
    BY DEF WriterTypeOK
<1>3. CASE UNCHANGED batch
    BY <1>3
<1>4. ASSUME NEW seen \in [Overlapping(u, i) -> {"old", "new", "torn"}],
             batch' = Overwritten(u, i, row, seen)
      PROVE  Range(batch'[f][t]) \subseteq Range(batch[f][t]) \cup {row, Torn}
    <2>1. CASE f \in Overlapping(u, i) /\ seen[f] # "old" /\ t = u
        <3> DEFINE s == batch[f][t]
                   v == IF seen[f] = "new" THEN row ELSE Torn
        <3>1. batch'[f] = [batch[f] EXCEPT ![u] = [batch[f][u] EXCEPT ![i] = v]]
            BY <1>1, <1>2, <1>4, <2>1 DEF Overwritten
        <3>2. batch'[f][t] = [s EXCEPT ![i] = v] /\ v \in {row, Torn}
            BY <1>1, <1>2, <2>1, <3>1
        <3> HIDE DEF s, v
        <3>3. Range([s EXCEPT ![i] = v]) \subseteq Range(s) \cup {v}
            BY DEF Range
        <3>4. QED
            BY <3>2, <3>3 DEF s
    <2>2. CASE ~(f \in Overlapping(u, i) /\ seen[f] # "old" /\ t = u)
        <3>1. batch'[f][t] = batch[f][t]
            BY <1>1, <1>2, <1>4, <2>2 DEF Overwritten
        <3>2. QED
            BY <3>1
    <2>3. QED
        BY <2>1, <2>2
<1>5. QED
    BY <1>3, <1>4 DEF AppendRow

\* The rows on their way to ClickHouse, and those that are there.
LEMMA StepRows ==
    ASSUME TypeOK, BarrierInv, [Next]_vars
    PROVE  BatchesBacked' /\ RowsBacked'
<1> USE DEF groupVars, sessionVars, handlerVars, barrierVars, archiveVars, history
<1> DEFINE Goal == BatchesBacked /\ RowsBacked
<1>0. Goal /\ HandlersInSession /\ WriterTypeOK
    BY DEF BarrierInv, TypeOK
<1>1. CASE stored \subseteq stored' /\ UNCHANGED <<buf, batch, durable>>
    <2>1. Backed \subseteq Backed'
        BY <1>1 DEF Backed, Kind
    <2>2. QED
        BY <1>0, <1>1, <2>1 DEF BatchesBacked, RowsBacked
<1>2. ASSUME NEW p \in Partitions, Handle(p) PROVE Goal'
    <2> DEFINE m == Current(p)
    <2>1. PICK ok \in BOOLEAN :
              /\ stored' = IF ok /\ Kind(m) \in MysqlKinds
                           THEN stored \cup {m} ELSE stored
              /\ IF HasRow(Kind(m), ok) THEN AppendRow(m) ELSE UNCHANGED archiveVars
        BY <1>2 DEF Handle
    <2>2. m \in Message
        BY <1>0, <1>2, CurrentIsMessage DEF Handle
    <2>3. CASE ~HasRow(Kind(m), ok)
        BY <1>1, <2>1, <2>3
    <2>4. CASE HasRow(Kind(m), ok)
        <3>1. Backed \subseteq Backed'
            BY <2>1 DEF Backed, Kind
        <3>2. Kind(m) \in RowKinds /\ (Kind(m) = "fim" => m \in stored')
            BY <2>1, <2>4 DEF HasRow, MysqlKinds
        <3> HIDE DEF m
        <3>3. m \in Backed'
            BY <2>2, <3>2 DEF Backed, Kind
        <3>4. AppendRow(m) /\ durable' = durable
            BY <2>1, <2>4 DEF AppendRow
        <3>5. ASSUME NEW t \in Tables
              PROVE  /\ Range(buf'[t]) \subseteq Backed'
                     /\ \A f \in Flushers : Range(batch'[f][t]) \subseteq Backed' \cup {Torn}
            <4>1. Range(buf'[t]) \subseteq Range(buf[t]) \cup {m}
                BY <1>0, <2>2, <3>4, AppendRowBuffer
            <4>2. \A f \in Flushers :
                    Range(batch'[f][t]) \subseteq Range(batch[f][t]) \cup {m, Torn}
                BY <1>0, <2>2, <3>4, AppendRowBatches
            <4>3. QED
                BY <1>0, <3>1, <3>3, <4>1, <4>2 DEF BatchesBacked
        <3>6. QED
            BY <1>0, <3>1, <3>4, <3>5 DEF BatchesBacked, RowsBacked
    <2>5. QED
        BY <2>3, <2>4
<1>3. ASSUME NEW f \in Flushers, BeginFlush(f), UNCHANGED stored PROVE Goal'
    <2>1. Backed' = Backed /\ durable' = durable
        BY <1>3 DEF Backed, Kind, BeginFlush
    <2>2. \A t \in Tables : Range(buf'[t]) = {}
        BY <1>3, RangeOfEmpty DEF BeginFlush, Empty
    <2>3. \A g \in Flushers : batch'[g] = buf \/ batch'[g] = batch[g]
        BY <1>0, <1>3 DEF BeginFlush, WriterTypeOK
    <2>4. QED
        BY <1>0, <2>1, <2>2, <2>3 DEF BatchesBacked, RowsBacked
<1>4. ASSUME NEW f \in Flushers, NEW t \in Tables, Send(f, t) PROVE Goal'
    <2>1. Backed' = Backed /\ buf' = buf
        BY <1>4 DEF Send, SendOK, SendFail, Sent, Backed, Kind
    <2>2. batch' = [batch EXCEPT ![f][t] = <<>>]
        BY <1>4 DEF Send, SendOK, SendFail, Sent
    <2>3. \A g \in Flushers, u \in Tables :
                batch'[g][u] = <<>> \/ batch'[g][u] = batch[g][u]
        BY <1>0, <2>2 DEF WriterTypeOK
    <2>4. BatchesBacked'
        BY <1>0, <2>1, <2>3, RangeOfEmpty DEF BatchesBacked
    <2>5. durable' \subseteq durable \cup Range(batch[f][t])
        BY <1>4 DEF Send, SendOK, SendFail
    <2>6. QED
        BY <1>0, <2>1, <2>4, <2>5 DEF BatchesBacked, RowsBacked
<1>5. CASE Crash
    <2>1. Backed' = Backed
        BY <1>5 DEF Crash, Backed, Kind
    <2>2. BatchesBacked'
        BY <1>5, RangeOfEmpty DEF Crash, WriterMemoryLost, Empty, BatchesBacked
    <2>3. durable' \subseteq durable \cup
                UNION {Range(batch[f][t]) : f \in Flushers, t \in Tables}
        BY <1>5 DEF Crash
    <2>4. QED
        BY <1>0, <2>1, <2>2, <2>3 DEF BatchesBacked, RowsBacked
<1>6. CASE BarrierFlush \/ FlusherFlush
    BY <1>3, <1>6 DEF BarrierFlush, FlusherFlush, Flushers
<1>7. ASSUME NEW f \in Flushers, FlushEnds(f) PROVE Goal'
    BY <1>1, <1>7 DEF FlushEnds, EndFlush
<1>8. QED
    BY <1>1, <1>2, <1>4, <1>5, <1>6, <1>7
       DEF Next, vars, Group, Produce, ConsumeElsewhere, Evict, Setup, Cleanup, Release,
           Handler, Receive, Record, Barrier, Snapshot, Flushing, Flushers, Check, Commit

LEMMA InitInv == Init => BarrierInv
<1> SUFFICES ASSUME Init PROVE BarrierInv
    OBVIOUS
<1>1. CommittedMessages = {}
    <2>1. ASSUME NEW m \in Message PROVE ~(m[2] < committed[m[1]])
        BY MessageIs DEF Init, NoOffset
    <2>2. QED
        BY <2>1 DEF CommittedMessages
<1>2. HandlersInSession /\ BarrierInSession
    BY DEF Init, ProcessInit, WriterMemoryInit, HandlersInSession, BarrierInSession,
           Flushers
<1>3. /\ PositionHandled /\ ProcessedBelowPosition /\ SnapBelowPosition
      /\ PositionNotCommitted /\ SnapLeftBuffer
    BY DEF Init, ProcessInit, PositionHandled, ProcessedBelowPosition,
           SnapBelowPosition, PositionNotCommitted, SnapLeftBuffer
<1>4. ProcessedIsLast /\ LastRound /\ HandledAccounted
    BY DEF Init, ProcessInit, ProcessedIsLast, LastRound, HandledAccounted
<1>5. BatchesBacked /\ RowsBacked
    BY RangeOfEmpty DEF Init, ProcessInit, WriterMemoryInit, Empty, BatchesBacked,
                        RowsBacked
<1>6. QED
    BY <1>1, <1>2, <1>3, <1>4, <1>5
       DEF BarrierInv, CommittedHandled, CommittedLeftBuffer

\* handleMessage, the barrier, the writer and the sessions keep their invariant,
\* whatever the interleaving, the faults and the rows torn on the way.
THEOREM BarrierInvariant == Spec => [](TypeOK /\ BarrierInv)
<1>1. Init => TypeOK /\ BarrierInv
    BY InitType, InitInv
<1>2. TypeOK /\ BarrierInv /\ [Next]_vars => (TypeOK /\ BarrierInv)'
    <2> SUFFICES ASSUME TypeOK, BarrierInv, [Next]_vars
                 PROVE  TypeOK' /\ BarrierInv'
        OBVIOUS
    <2>1. HandlersInSession /\ BarrierInSession /\ SnapBelowPosition
        BY DEF BarrierInv
    <2>2. TypeOK' /\ HandlersInSession' /\ BarrierInSession'
        BY <2>1, StepType, StepHandlers, StepSession
    <2>3. QED
        BY <2>2, StepPosition, StepCommitted, StepBuffer, StepLast, StepLastRound,
           StepAccounted, StepRows DEF BarrierInv
<1>3. QED
    BY <1>1, <1>2, PTL DEF Spec

\* Every variable keeps its type, and no offset runs past the log: recordProcessed
\* never passes the end of a partition, so the snapshot that flushAndCommit marks
\* plus one does not either, and a session never starts beyond the last message.
THEOREM TypeCorrect == Spec => []TypeOK
BY BarrierInvariant, PTL

\* Offsets never run ahead of the handlers: whatever the interleaving of the
\* handlers, the barrier, rebalances, evictions and crashes, a restart never
\* skips a message nobody has handled.
THEOREM CommitsHandledOnly == Spec => []CommittedHandled
BY BarrierInvariant, PTL DEF BarrierInv

\* Taking the snapshot before the flush is enough to keep what is committed out
\* of the batches that are being filled.
THEOREM CommitsLeaveBuffer == Spec => []CommittedLeftBuffer
BY BarrierInvariant, PTL DEF BarrierInv

\* Whatever fails on the way, a committed message of a relational DataType is in
\* MySQL or in the dead letter queue: handleMessage puts it away before
\* recordProcessed lets the barrier see its offset.
THEOREM CommitsAreAccounted == Spec => []CommittedAccounted
<1>1. BarrierInv => CommittedAccounted
    BY DEF BarrierInv, CommittedHandled, HandledAccounted, CommittedAccounted
<1>2. QED
    BY <1>1, BarrierInvariant, PTL

\* Whatever failed writes, failed flushes, rows stored over others and crashes make
\* of the batches, ClickHouse gets no whole row of a FIM event that MySQL does not
\* hold.  A row that was torn while it was sent is sent like any other; nothing is
\* claimed of it.
THEOREM ArchiveIsBacked == Spec => []RowsBacked
BY BarrierInvariant, PTL DEF BarrierInv

\* A session whose last round commits hands its partitions over complete: the
\* next owner starts behind the last message that was handled here.
THEOREM HandsOverComplete == Spec => HandoverComplete
<1>1. ASSUME TypeOK, BarrierInv, session = "cleanup", Release, outcome = "committed",
             NEW p \in claims, processed[p] > 0
      PROVE  committed[p] >= position[p]
    <2>1. /\ p \in Partitions /\ position[p] \in Nat /\ processed[p] \in Nat
          /\ committed[p] \in Int
        BY <1>1 DEF TypeOK, NoOffset
    <2>2. barrier = "done" /\ final
        BY <1>1 DEF Release, BarrierInv, LastRound
    <2>3. snap[p] = processed[p] /\ committed[p] > snap[p]
        BY <1>1, <2>2 DEF BarrierInv, LastRound
    <2>4. position[p] = processed[p] + 1
        BY <1>1, <2>1 DEF BarrierInv, ProcessedIsLast
    <2>5. QED
        BY <2>1, <2>3, <2>4
<1>2. TypeOK /\ BarrierInv /\ [Next]_vars
        => [session = "cleanup" /\ Release /\ outcome = "committed" =>
                \A p \in claims : processed[p] > 0 => committed[p] >= position[p]]_vars
    BY <1>1
<1>3. QED
    BY <1>2, BarrierInvariant, PTL DEF Spec, HandoverComplete

-----------------------------------------------------------------------------
(* Refinement.                                                             *)

LEMMA StepPromise ==
    ASSUME TypeOK, BarrierInv, BarrierInv', [Next]_vars
    PROVE  [Promise!Next]_<<produced, committed, handled \cup NotOurs>>
<1> USE DEF groupVars, sessionVars, handlerVars, barrierVars, archiveVars, history
<1> DEFINE done == handled \cup NotOurs
           Goal == [Promise!Next]_<<produced, committed, done>>
<1>0. /\ \A p \in Partitions : produced[p] \in Nat /\ committed[p] \in Int
      /\ \A p \in Partitions :
            Promise!Covered(p, committed'[p]) \subseteq done'
    <2>1. CommittedHandled'
        BY DEF BarrierInv
    <2>2. \A p \in Partitions : Promise!Covered(p, committed'[p]) \subseteq done'
        BY <2>1 DEF Promise!Covered, CommittedHandled, CommittedMessages
    <2>3. QED
        BY <2>2 DEF TypeOK, NoOffset
<1>1. ASSUME NEW p \in Partitions, Produce(p) PROVE Goal
    <2>1. produced' = [produced EXCEPT ![p] = @ + 1]
          /\ UNCHANGED <<committed, handled, skipped, elsewhere>>
        BY <1>1 DEF Produce
    <2>2. \A q \in Partitions : produced[q] <= produced'[q]
        BY <1>0, <2>1 DEF TypeOK
    <2>3. QED
        BY <2>1, <2>2 DEF Promise!Next, Promise!Produce, NotOurs
<1>2. ASSUME NEW p \in Partitions, NEW o \in 1..produced[p], ConsumeElsewhere(p, o)
      PROVE  Goal
    <2>1. /\ committed[p] < o /\ o <= produced[p]
          /\ committed' = [committed EXCEPT ![p] = o]
          /\ elsewhere' = elsewhere \cup Below(p, o)
          /\ UNCHANGED <<produced, handled, skipped>>
        BY <1>2 DEF ConsumeElsewhere
    <2>2. \A q \in Partitions : committed[q] <= committed'[q]
        BY <1>0, <2>1 DEF TypeOK
    <2>3. \A m \in done' \ done : m[2] < produced[m[1]]
        <3> SUFFICES ASSUME NEW m \in Below(p, o) PROVE m[2] < produced[m[1]]
            BY <2>1 DEF NotOurs
        <3>1. m[1] = p /\ m[2] \in Nat /\ m[2] < o
            BY MessageIs DEF Below
        <3>2. QED
            BY <1>0, <2>1, <3>1
    <2>4. QED
        BY <1>0, <2>1, <2>2, <2>3 DEF Promise!Next, Promise!Advance, NotOurs
<1>3. ASSUME NEW C \in Assignments, Setup(C) PROVE Goal
    <2>1. /\ UNCHANGED <<produced, committed, handled, elsewhere>>
          /\ skipped' = skipped \cup UNION {Below(p, StartOffset(p)) :
                                  p \in {q \in C : committed[q] = NoOffset}}
        BY <1>3 DEF Setup
    <2>2. ASSUME NEW m \in skipped' \ skipped PROVE m[2] < produced[m[1]]
        <3>1. PICK p \in C : committed[p] = NoOffset /\ m \in Below(p, StartOffset(p))
            BY <2>1, <2>2
        <3>2. p \in Partitions /\ m[1] = p /\ m[2] \in Nat /\ m[2] < StartOffset(p)
            BY <3>1, MessageIs DEF Below
        <3>3. StartOffset(p) = produced[p] \/ StartOffset(p) = 0
            BY <3>1 DEF StartOffset
        <3>4. QED
            BY <1>0, <3>2, <3>3
    <2>3. QED
        BY <2>1, <2>2 DEF Promise!Next, Promise!Finish, NotOurs
<1>4. ASSUME NEW p \in Partitions, Record(p) PROVE Goal
    <2>1. /\ UNCHANGED <<produced, committed, skipped, elsewhere>>
          /\ handled' = handled \cup {Current(p)}
          /\ position[p] < produced[p]
        BY <1>4 DEF Record, BarrierInv, HandlersInSession
    <2>2. QED
        BY <2>1 DEF Promise!Next, Promise!Finish, NotOurs, Current
<1>5. CASE Commit
    <2>1. UNCHANGED <<produced, handled, skipped, elsewhere>>
        BY <1>5 DEF Commit
    <2>2. \A p \in Partitions : committed[p] <= committed'[p]
        <3> SUFFICES ASSUME NEW p \in Partitions PROVE committed[p] <= committed'[p]
            OBVIOUS
        <3>1. \/ committed'[p] = committed[p]
              \/ committed'[p] = snap[p] + 1 /\ snap[p] + 1 > committed[p]
            BY <1>5 DEF Commit
        <3>2. committed[p] \in Int /\ snap[p] \in Nat
            BY <1>0 DEF TypeOK
        <3>3. QED
            BY <3>1, <3>2
    <2>3. QED
        BY <1>0, <2>1, <2>2 DEF Promise!Next, Promise!Advance, NotOurs
<1>6. CASE UNCHANGED <<produced, committed, handled, skipped, elsewhere>>
    BY <1>6 DEF NotOurs
<1>7. QED
    BY <1>1, <1>2, <1>3, <1>4, <1>5, <1>6
       DEF Next, vars, Group, Evict, Cleanup, Release, Crash, Handler, Receive, Handle,
           Barrier, Snapshot, BarrierFlush, FlusherFlush, Flushing, Send, FlushEnds,
           Check

\* The Router implements the promise of a consumer group: committed offsets only
\* grow, and only over messages that are done.
THEOREM Implements == Spec => KeepsPromise
<1>1. Init => Promise!Init
    BY DEF Init, Promise!Init, NotOurs
<1>2. TypeOK /\ BarrierInv /\ (TypeOK /\ BarrierInv)' /\ [Next]_vars
        => [Promise!Next]_<<produced, committed, handled \cup NotOurs>>
    BY StepPromise
<1>3. QED
    BY <1>1, <1>2, BarrierInvariant, PTL DEF Spec, KeepsPromise, Promise!Spec
=============================================================================
