------------------------------- MODULE Uplink -------------------------------
(***************************************************************************)
(* The Agent's uplink and the AgentCenter at the other end of the stream   *)
(* (agentcenter/transfer/service.go): the receive loop hands every record  *)
(* of a batch to a worker of its own, a bounded number of them at a time,  *)
(* and the workers give the records to the Kafka producer (KafkaProducer). *)
(***************************************************************************)
EXTENDS AgentUplink

CONSTANT MaxWorkers  \* capacity of Connection.workerSem

ASSUME WorkersAssumption == MaxWorkers \in Nat \ {0}

VARIABLES
    hand,     \* records of the received batch that have no worker yet
    workers,  \* record -> workers of this connection busy with it
    orphans,  \* plugin record -> workers of earlier connections busy with it
    taken     \* record -> times the Kafka producer got it

center == <<hand, workers, orphans, taken>>
allvars == <<vars, center>>

CenterTypeOK ==
    /\ TypeOK
    /\ hand \in Seq(Records)
    /\ workers \in [Records -> 0..MaxWorkers] /\ orphans \in [Plugin -> Nat]
    /\ taken \in [Plugin -> Nat]

CenterInit ==
    /\ Init
    /\ hand = <<>>
    /\ workers = [e \in Records |-> 0] /\ orphans = [e \in Plugin |-> 0]
    /\ taken = [e \in Plugin |-> 0]

Count(s, e) == Cardinality({i \in DOMAIN s : s[i] = e})

\* The slots of workerSem that are taken.
Busy == Cardinality({w \in Records \X (1..MaxWorkers) : w[2] <= workers[w[1]]})

\* stream.Recv.  What the loop does itself with a heartbeat is in AgentPresence;
\* its record gets a worker like the others.
Receive ==
    /\ stream = "up" /\ wire # <<>> /\ hand = <<>>
    /\ hand' = Head(wire)
    /\ wire' = Tail(wire)
    /\ UNCHANGED <<writer, ring, log, main, pos, send, receiver, connected, stream,
                   handed, garbled, aborted, faults, workers, orphans, taken>>

StartWorker ==
    /\ hand # <<>> /\ Busy < MaxWorkers
    /\ workers' = [workers EXCEPT ![Head(hand)] = @ + 1]
    /\ hand' = Tail(hand)
    /\ UNCHANGED <<vars, orphans, taken>>

\* The stream has ended.  Its workers go on; the loop may start some more,
\* until its select sees the end and drops the rest.  (A heartbeat's worker
\* matters for the slot it takes, and the slots go with the connection.)
EndConnection ==
    \E n \in 0..Len(hand) :
        /\ orphans' = [e \in Plugin |->
                          orphans[e] + workers[e] + Count(SubSeq(hand, 1, n), e)]
        /\ workers' = [e \in Records |-> 0]
        /\ hand' = <<>>
        /\ UNCHANGED taken

\* handleEncodedRecord.  (How many heartbeats the producer gets is not counted.)
Produce(e) ==
    /\ \/ /\ workers[e] > 0
          /\ workers' = [workers EXCEPT ![e] = @ - 1] /\ UNCHANGED orphans
       \/ /\ e # Heartbeat /\ orphans[e] > 0
          /\ orphans' = [orphans EXCEPT ![e] = @ - 1] /\ UNCHANGED workers
    /\ taken' = IF e = Heartbeat THEN taken ELSE [taken EXCEPT ![e] = @ + 1]
    /\ UNCHANGED <<vars, hand>>

-----------------------------------------------------------------------------
Log(e) == LogFull(e) \/ LogHeader(e) \/ LogData(e)
Main == Dial \/ Purge \/ ReplaySend \/ ReplayFails \/ ReadTorn \/ Truncate \/ Reconnect
SendData == Tick \/ SendBatch \/ SendFails
Agent ==
    \/ \E e \in Plugin : Write(e)
    \/ \E e \in Edr : Log(e) \/ LogTears(e)
    \/ Beat \/ Main \/ SendData \/ (\E b \in late : LateSend(b)) \/ ReceiveFails

Center == Receive \/ StartWorker \/ \E e \in Records : Produce(e)

AllNext ==
    \/ Agent /\ UNCHANGED center
    \/ (Break \/ Crash) /\ EndConnection
    \/ Center

UplinkSpec == CenterInit /\ [][AllNext]_allvars

\* Goroutines run, heartbeats are written again and again, and a connection
\* can be made again: without that nothing can leave.
FairUplink ==
    /\ UplinkSpec
    /\ \A e \in Edr : WF_allvars(Log(e) /\ UNCHANGED center)
    /\ WF_allvars(Main /\ UNCHANGED center)
    /\ WF_allvars(SendData /\ UNCHANGED center)
    /\ WF_allvars(Beat /\ UNCHANGED center)
    /\ WF_allvars(ReceiveFails /\ UNCHANGED center)
    /\ WF_allvars(Center)

-----------------------------------------------------------------------------
(* Properties.                                                             *)

\* What the log has accepted stays in it until a send of it has returned
\* without an error: through broken streams, timeouts, crashes, and events
\* that arrive during a replay.  Only what is read over behind a torn entry is
\* lost, and an entry is torn by a failed write or a crash only.
LogKept ==
    /\ logged \subseteq Range(file) \cup handed \cup garbled
    /\ (Torn \in Range(file) \/ garbled # {}) => faults > 0

\* Where copies of a record can be; of the batches that are on their way those
\* with the record are counted.
Copies(e) ==
    Count(ring, e) + Count(batch, e) + Count(hand, e)
    + workers[e] + orphans[e] + taken[e]
    + Cardinality({i \in DOMAIN wire : e \in Range(wire[i])})
    + Cardinality({b \in late : e \in Range(b)})

\* A record that went through the ring arrives at most once, timeouts and
\* reconnects included; one from the log once more per replay that failed.
\* (A crash loses what the Agent held and adds no copy.)
AtMostOnce ==
    \A e \in Plugin : Copies(e) <= 1 + IF e \in logged THEN aborted ELSE 0

\* sendData has given up on a stream that lives, and nobody ends it.
HalfOpen == main = "serve" /\ sender = "stopped" /\ stream = "up"

\* The ring is emptied again, however often the stream breaks, unless the
\* stream is left half open.  (Heartbeats taking the place of the oldest record
\* empty nothing.)
RingDrains == ring # <<>> ~> (ring = <<>> \/ HalfOpen)

\* No plugin waits for ever for the log, which a replay keeps locked.
WritersReturn == \A e \in Edr : writer[e] \in {"log", "header"} ~> writer[e] = "done"
=============================================================================
