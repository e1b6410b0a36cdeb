---------------------------- MODULE AgentUplink ----------------------------
(***************************************************************************)
(* The Agent's way up: the ring buffer (agent/buffer), the write-ahead log *)
(* of EDR events (agent/wal) and the transport that empties both into a    *)
(* gRPC stream and reconnects (agent/transport).  The other end of the     *)
(* stream, and the next-state relation, are in Uplink.                     *)
(*                                                                         *)
(* Records are written once each; the heartbeat, of which only the latest  *)
(* matters, any number of times.  An entry of the log is written in two    *)
(* steps, header and data, under the log's lock; a replay holds the lock   *)
(* from its first read to the truncation.  A send that times out goes on   *)
(* in a goroutine of its own and may still reach the stream.               *)
(***************************************************************************)
EXTENDS Integers, Sequences, FiniteSets, Functions

CONSTANTS
    Edr,       \* events that may go to the log (data types 3000 to 3099)
    Other,     \* other plugin records
    RingSize,  \* buffer.BufSize
    WalSize,   \* wal.DefaultMaxSize, in entries
    WalBatch,  \* walReplayBatchSize
    Window,    \* batches the stream takes before Send blocks
    MaxFaults  \* bound on broken streams, timeouts, failed writes, crashes

ASSUME UplinkAssumption ==
    /\ Edr \cap Other = {}
    /\ RingSize \in Nat \ {0} /\ WalSize \in Nat /\ WalBatch \in Nat \ {0}
    /\ Window \in Nat \ {0}
    /\ MaxFaults \in Nat
    /\ {"heartbeat", "torn"} \cap (Edr \cup Other) = {}

VARIABLES
    writer,    \* record -> where the call that writes it stands
    ring,      \* RingBuffer.buf up to offset
    file,      \* the log: records and torn entries
    size,      \* WAL.curSize, in entries
    main,      \* "dial", "purge", "replay", "serve"
    pos,       \* next entry to replay
    sender,    \* sendData: "off", "tick", "send", "stopped"
    receiver,  \* receiveCommands: "off", "run", "stopped"
    batch,     \* what sendData is sending
    late,      \* sends that timed out and are not over
    connected, \* Manager.isConnected
    stream,    \* "up" or "down"
    wire,      \* batches on their way
    logged,    \* history: records Write returned true for
    handed,    \* history: records some Send returned nil for
    garbled,   \* history: records read over behind a torn entry
    aborted,   \* history: replays that ended before the truncation
    faults

log == <<file, size, logged>>
send == <<sender, batch, late>>
vars == <<writer, ring, log, main, pos, send, receiver, connected, stream, wire,
          handed, garbled, aborted, faults>>

Heartbeat == "heartbeat"
Torn == "torn"
Plugin == Edr \cup Other
Records == Plugin \cup {Heartbeat}

TypeOK ==
    /\ writer \in [Plugin -> {"new", "log", "header", "done"}]
    /\ ring \in Seq(Records) /\ Len(ring) <= RingSize
    /\ file \in Seq(Edr \cup {Torn}) /\ size \in 0..Len(file)
    /\ main \in {"dial", "purge", "replay", "serve"} /\ pos \in Nat
    /\ sender \in {"off", "tick", "send", "stopped"}
    /\ receiver \in {"off", "run", "stopped"}
    /\ batch \in Seq(Records) /\ late \in SUBSET Seq(Records)
    /\ connected \in BOOLEAN /\ stream \in {"up", "down"}
    /\ wire \in Seq(Seq(Records))
    /\ logged \in SUBSET Edr /\ handed \in SUBSET Plugin
    /\ garbled \in SUBSET Edr /\ aborted \in Nat /\ faults \in 0..MaxFaults

Init ==
    /\ writer = [e \in Plugin |-> "new"]
    /\ ring = <<>> /\ file = <<>> /\ size = 0
    /\ main = "dial" /\ pos = 1
    /\ sender = "off" /\ receiver = "off" /\ batch = <<>> /\ late = {}
    /\ connected = FALSE /\ stream = "down" /\ wire = <<>>
    /\ logged = {} /\ handed = {} /\ garbled = {} /\ aborted = 0 /\ faults = 0

Fault == faults < MaxFaults /\ faults' = faults + 1
Go(e, place) == writer' = [writer EXCEPT ![e] = place]
Open == stream = "up" /\ Len(wire) < Window
Locked == main = "replay" \/ \E e \in Edr : writer[e] = "header"
Transport == <<main, pos, send, receiver, connected, stream, wire, handed,
               garbled, aborted>>

-----------------------------------------------------------------------------
(* Writers.                                                                *)

\* SendPluginData: without room an EDR event goes to the log, others are lost.
Write(e) ==
    /\ writer[e] = "new"
    /\ IF Len(ring) < RingSize
       THEN ring' = Append(ring, e) /\ Go(e, "done")
       ELSE Go(e, IF e \in Edr THEN "log" ELSE "done") /\ UNCHANGED ring
    /\ UNCHANGED <<log, Transport, faults>>

\* SendHeartbeat: without room the oldest record makes place.
Beat ==
    /\ connected
    /\ ring' = IF Len(ring) < RingSize THEN Append(ring, Heartbeat)
               ELSE [ring EXCEPT ![1] = Heartbeat]
    /\ UNCHANGED <<writer, log, Transport, faults>>

\* WAL.Write, which waits for the lock.
LogFull(e) ==
    /\ writer[e] = "log" /\ ~Locked /\ size >= WalSize
    /\ Go(e, "done")
    /\ UNCHANGED <<ring, log, Transport, faults>>

LogHeader(e) ==
    /\ writer[e] = "log" /\ ~Locked /\ size < WalSize
    /\ Go(e, "header")
    /\ UNCHANGED <<ring, log, Transport, faults>>

LogData(e) ==
    /\ writer[e] = "header"
    /\ file' = Append(file, e) /\ size' = size + 1
    /\ logged' = logged \cup {e}
    /\ Go(e, "done")
    /\ UNCHANGED <<ring, Transport, faults>>

\* Mutant of LogTears: an entry that failed is counted in the size.
LogTearsCounted(e) ==
    /\ writer[e] = "header" /\ Fault
    /\ size' = size + 1
    /\ Go(e, "done")
    /\ UNCHANGED <<ring, file, logged, Transport>>

\* The header is written and the data is not: nothing takes the header back.
LogTears(e) ==
    /\ writer[e] = "header" /\ Fault
    /\ file' = Append(file, Torn)
    /\ Go(e, "done")
    /\ UNCHANGED <<ring, size, logged, Transport>>

-----------------------------------------------------------------------------
(* The main loop: connect, purge, replay, serve, again.                    *)

Dial ==
    /\ main = "dial"
    /\ stream' = "up" /\ wire' = <<>> /\ connected' = TRUE
    /\ main' = "purge"
    /\ UNCHANGED <<writer, ring, log, pos, send, receiver, handed, garbled,
                   aborted, faults>>

Serve ==
    /\ main' = "serve" /\ pos' = 1
    /\ sender' = "tick" /\ receiver' = "run"

\* sendCachedData throws the cache of unsent batches away, which is why the
\* cache is no variable; then the log is replayed if it holds anything.
Purge ==
    /\ main = "purge"
    /\ IF size = 0 THEN Serve
       ELSE ~Locked /\ main' = "replay" /\ UNCHANGED <<pos, sender, receiver>>
    /\ UNCHANGED <<writer, ring, log, batch, late, connected, stream, wire, handed,
                   garbled, aborted, faults>>

\* Where the next batch may end: at its size, before a torn entry, with the file.
Sound(i) == i <= Len(file) /\ file[i] # Torn
BatchEnds ==
    {n \in pos..(pos + WalBatch - 1) :
        /\ \A i \in pos..n : Sound(i)
        /\ n = pos + WalBatch - 1 \/ ~Sound(n + 1)}

ReplaySend ==
    /\ main = "replay" /\ Open
    /\ \E last \in BatchEnds :
          /\ wire' = Append(wire, SubSeq(file, pos, last))
          /\ handed' = handed \cup Range(SubSeq(file, pos, last))
          /\ pos' = last + 1
    /\ UNCHANGED <<writer, ring, log, main, send, receiver, connected, stream,
                   garbled, aborted, faults>>

\* Mutant of ReplayFails: the log is truncated whatever the handler said.
ReplayFailsTruncated ==
    /\ main = "replay"
    /\ \E last \in BatchEnds :
          \/ stream = "down" /\ UNCHANGED <<late, faults>>
          \/ stream = "up" /\ Fault /\ late' = late \cup {SubSeq(file, pos, last)}
    /\ file' = <<>> /\ size' = 0
    /\ aborted' = aborted + 1
    /\ Serve
    /\ UNCHANGED <<writer, ring, logged, batch, connected, stream, wire, handed,
                   garbled>>

\* Mutant of ReplayFails: the batch is tried again on the same stream.
ReplayFailsRetried ==
    /\ main = "replay" /\ BatchEnds # {}
    /\ stream = "down"
    /\ UNCHANGED vars

\* The stream is broken, or the send times out: the log stays as it is.
ReplayFails ==
    /\ main = "replay"
    /\ \E last \in BatchEnds :
          \/ stream = "down" /\ UNCHANGED <<late, faults>>
          \/ stream = "up" /\ Fault /\ late' = late \cup {SubSeq(file, pos, last)}
    /\ aborted' = aborted + 1
    /\ Serve
    /\ UNCHANGED <<writer, ring, log, batch, connected, stream, wire, handed, garbled>>

\* A torn entry takes the header of the next one for its data: what is read
\* from there on is wrong until by chance it is right again, or a size is
\* impossible and the rest is not read.
ReadTorn ==
    /\ main = "replay" /\ pos <= Len(file) /\ file[pos] = Torn
    /\ \E next \in (pos + 1)..(Len(file) + 1) :
          /\ next = pos + 1 => next > Len(file)
          /\ pos' = next
          /\ garbled' = garbled \cup ({file[i] : i \in (pos + 1)..(next - 1)} \ {Torn})
    /\ UNCHANGED <<writer, ring, log, main, send, receiver, connected, stream, wire,
                   handed, aborted, faults>>

Truncate ==
    /\ main = "replay" /\ pos > Len(file)
    /\ file' = <<>> /\ size' = 0
    /\ Serve
    /\ UNCHANGED <<writer, ring, logged, batch, late, connected, stream, wire,
                   handed, garbled, aborted, faults>>

\* subWg.Wait: sendData and receiveCommands have both returned.
Reconnect ==
    /\ main = "serve" /\ sender = "stopped" /\ receiver = "stopped"
    /\ main' = "dial" /\ sender' = "off" /\ receiver' = "off"
    /\ connected' = FALSE
    /\ UNCHANGED <<writer, ring, log, pos, batch, late, stream, wire, handed,
                   garbled, aborted, faults>>

-----------------------------------------------------------------------------
(* sendData and receiveCommands.                                           *)

Tick ==
    /\ sender = "tick" /\ ring # <<>>
    /\ batch' = ring /\ ring' = <<>>
    /\ sender' = "send"
    /\ UNCHANGED <<writer, log, main, pos, late, receiver, connected, stream, wire,
                   handed, garbled, aborted, faults>>

SendBatch ==
    /\ sender = "send" /\ Open
    /\ wire' = Append(wire, batch)
    /\ handed' = handed \cup (Range(batch) \ {Heartbeat})
    /\ batch' = <<>> /\ sender' = "tick"
    /\ UNCHANGED <<writer, ring, log, main, pos, late, receiver, connected, stream,
                   garbled, aborted, faults>>

\* Mutant of SendFails: the unsent batch is put back.
SendFailsPutBack ==
    /\ sender = "send"
    /\ \/ stream = "down" /\ UNCHANGED <<late, faults>>
       \/ stream = "up" /\ Fault /\ late' = late \cup {batch}
    /\ ring' = IF Len(batch \o ring) <= RingSize THEN batch \o ring ELSE ring
    /\ batch' = <<>> /\ sender' = "stopped"
    /\ UNCHANGED <<writer, log, main, pos, receiver, connected, stream, wire, handed,
                   garbled, aborted>>

\* An error, or a timeout on a stream that lives: sendData caches the batch
\* (see Purge) and returns.
SendFails ==
    /\ sender = "send"
    /\ \/ stream = "down" /\ UNCHANGED <<late, faults>>
       \/ stream = "up" /\ Fault /\ late' = late \cup {batch}
    /\ batch' = <<>> /\ sender' = "stopped"
    /\ UNCHANGED <<writer, ring, log, main, pos, receiver, connected, stream, wire,
                   handed, garbled, aborted>>

\* The goroutine of a send that timed out comes to its end.
LateSend(b) ==
    /\ b \in late /\ Open
    /\ late' = late \ {b}
    /\ wire' = Append(wire, b)
    /\ UNCHANGED <<writer, ring, log, main, pos, sender, batch, receiver, connected,
                   stream, handed, garbled, aborted, faults>>

\* Mutant of ReceiveFails: an error is logged and Recv is called again.
ReceiveFailsRetried ==
    /\ receiver = "run" /\ stream = "down"
    /\ UNCHANGED vars

ReceiveFails ==
    /\ receiver = "run" /\ stream = "down"
    /\ receiver' = "stopped"
    /\ UNCHANGED <<writer, ring, log, main, pos, send, connected, stream, wire,
                   handed, garbled, aborted, faults>>

-----------------------------------------------------------------------------
\* What is on the wire is lost with the stream, and so are its late sends.
Break ==
    /\ stream = "up" /\ Fault
    /\ stream' = "down" /\ wire' = <<>> /\ late' = {}
    /\ UNCHANGED <<writer, ring, log, main, pos, sender, batch, receiver, connected,
                   handed, garbled, aborted>>

\* The Agent is killed: the log is left, with a torn entry where it was being
\* written, and its size is read from the file.
Crash ==
    /\ Fault
    /\ writer' = [e \in Plugin |-> IF writer[e] = "new" THEN "new" ELSE "done"]
    /\ file' = IF \E e \in Edr : writer[e] = "header" THEN Append(file, Torn) ELSE file
    /\ size' = Len(file')
    /\ ring' = <<>> /\ batch' = <<>> /\ late' = {} /\ wire' = <<>>
    /\ main' = "dial" /\ pos' = 1
    /\ sender' = "off" /\ receiver' = "off"
    /\ connected' = FALSE /\ stream' = "down"
    /\ aborted' = aborted + IF main = "replay" THEN 1 ELSE 0
    /\ UNCHANGED <<logged, handed, garbled>>
=============================================================================
