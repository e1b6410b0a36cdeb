-------------------------- MODULE ClickHouseWriter --------------------------
(***************************************************************************)
(* The batching ClickHouse writer of the Consumer                          *)
(* (internal/server/consumer/writer/clickhouse.go).                        *)
(*                                                                         *)
(* Rows are appended to one in-memory batch per table under w.mu.  flush() *)
(* takes the three batches under w.mu and sends them afterwards without    *)
(* it.  Two goroutines call flush(): the periodic flusher started by       *)
(* NewClickHouseWriter, and the commit barrier of the Router, through      *)
(* Flush().  Nothing orders the one after the other.                       *)
(*                                                                         *)
(* flush() keeps the backing array of a batch (w.rows = w.rows[:0]), so a  *)
(* row appended after the lock is released is stored over a row of the     *)
(* batch that is still being read: a data race, whose outcomes are the old *)
(* row, the new one, or a mixture of both.                                 *)
(***************************************************************************)
EXTENDS Integers, Sequences, Functions

CONSTANTS
    Row,        \* the rows handed to the writer, one per message
    TableOf,    \* [Row -> Tables]
    BatchSize,  \* initial capacity of a backing array, not 0
    Flushers,   \* the goroutines that call flush()
    Torn        \* what reading a half overwritten row yields, not a Row

Tables == {"host_metrics", "fim_events", "ebpf_events"}

\* flush() sends the tables in this order.
SendOrder == <<"host_metrics", "fim_events", "ebpf_events">>

VARIABLES
    buf,          \* table -> rows of the batch being filled
    capacity,     \* table -> capacity of the current backing array
    sharing,      \* table -> flushers whose batch still lies in that array
    batch,        \* flusher -> table -> rows taken and not yet sent
    flushing,     \* flusher -> it is inside flush()
    attempted,    \* flusher -> flush()'s local of that name
    failed,       \* flusher -> flush()'s local of that name
    flushFailed,  \* the sticky failure flag
    durable       \* rows that ClickHouse holds, Torn among them once it was sent

writerMemory ==
    <<buf, capacity, sharing, batch, flushing, attempted, failed, flushFailed>>
writerVars == <<writerMemory, durable>>

Empty == [t \in Tables |-> <<>>]

WriterTypeOK ==
    /\ buf \in [Tables -> Seq(Row)]
    /\ capacity \in [Tables -> Nat]
    /\ sharing \in [Tables -> SUBSET Flushers]
    /\ batch \in [Flushers -> [Tables -> Seq(Row \cup {Torn})]]
    /\ flushing \in [Flushers -> BOOLEAN]
    /\ attempted \in [Flushers -> BOOLEAN]
    /\ failed \in [Flushers -> BOOLEAN]
    /\ flushFailed \in BOOLEAN
    /\ durable \in SUBSET (Row \cup {Torn})

\* NewClickHouseWriter.
WriterMemoryInit ==
    /\ buf = Empty
    /\ capacity = [t \in Tables |-> BatchSize]
    /\ sharing = [t \in Tables |-> {}]
    /\ batch = [f \in Flushers |-> Empty]
    /\ flushing = [f \in Flushers |-> FALSE]
    /\ attempted = [f \in Flushers |-> FALSE]
    /\ failed = [f \in Flushers |-> FALSE]
    /\ flushFailed = FALSE

WriterInit == WriterMemoryInit /\ durable = {}

\* The process dies and NewClickHouseWriter runs again.
WriterMemoryLost ==
    /\ buf' = Empty
    /\ capacity' = [t \in Tables |-> BatchSize]
    /\ sharing' = [t \in Tables |-> {}]
    /\ batch' = [f \in Flushers |-> Empty]
    /\ flushing' = [f \in Flushers |-> FALSE]
    /\ attempted' = [f \in Flushers |-> FALSE]
    /\ failed' = [f \in Flushers |-> FALSE]
    /\ flushFailed' = FALSE

-----------------------------------------------------------------------------
\* Flushers whose taken batch has its i-th row in the array of t's buffer.
Overlapping(t, i) ==
    {f \in sharing[t] : i <= Len(batch[f][t])}

\* What the readers of the shared array see in the place of their i-th row.
Overwritten(t, i, row, seen) ==
    [f \in Flushers |->
        IF f \in Overlapping(t, i) /\ seen[f] # "old"
        THEN [batch[f] EXCEPT ![t][i] = IF seen[f] = "new" THEN row ELSE Torn]
        ELSE batch[f]]

\* WriteHostMetrics, WriteFIMEvent, WriteEBPFEvent: append under w.mu.  When
\* the array is full, append() moves to a new one and the taken batches keep
\* the old one to themselves.  The signal on flushCh only makes the flusher
\* run earlier, which BeginFlush allows at any time.
AppendRow(row) ==
    LET t == TableOf[row]
        i == Len(buf[t]) + 1
    IN  /\ buf' = [buf EXCEPT ![t] = Append(@, row)]
        /\ IF i > capacity[t]
           THEN /\ capacity' = [capacity EXCEPT ![t] = 2 * @]
                /\ sharing' = [sharing EXCEPT ![t] = {}]
                /\ UNCHANGED batch
           ELSE /\ \E seen \in [Overlapping(t, i) -> {"old", "new", "torn"}] :
                        batch' = Overwritten(t, i, row, seen)
                /\ UNCHANGED <<capacity, sharing>>
        /\ UNCHANGED <<flushing, attempted, failed, flushFailed, durable>>

\* flush(), first half: take the three batches under w.mu and reset the
\* buffers to length 0 over the same arrays.
BeginFlush(f) ==
    /\ ~flushing[f]
    /\ flushing' = [flushing EXCEPT ![f] = TRUE]
    /\ batch' = [batch EXCEPT ![f] = buf]
    /\ buf' = Empty
    /\ sharing' = [t \in Tables |->
            IF buf[t] = <<>> THEN sharing[t] ELSE sharing[t] \cup {f}]
    /\ attempted' = [attempted EXCEPT ![f] = FALSE]
    /\ failed' = [failed EXCEPT ![f] = FALSE]
    /\ UNCHANGED <<capacity, flushFailed, durable>>

\* Positions in SendOrder of the tables f has still to send.
Unsent(f) == {i \in DOMAIN SendOrder : batch[f][SendOrder[i]] # <<>>}

\* The table flush() sends next: the first non-empty batch in SendOrder.
Sending(f, t) ==
    /\ flushing[f]
    /\ \E i \in Unsent(f) : t = SendOrder[i] /\ \A j \in Unsent(f) : i <= j

Sent(f, t) ==
    /\ batch' = [batch EXCEPT ![f][t] = <<>>]
    /\ sharing' = [sharing EXCEPT ![t] = @ \ {f}]
    /\ attempted' = [attempted EXCEPT ![f] = TRUE]
    /\ UNCHANGED <<buf, capacity, flushing>>

\* flushHostMetrics, flushFIMEvents, flushEBPFEvents: the batch is accepted,
\* with whatever was read in the place of each row, a mixture included.
SendOK(f, t) ==
    /\ Sending(f, t)
    /\ Sent(f, t)
    /\ durable' = durable \cup Range(batch[f][t])
    /\ UNCHANGED <<failed, flushFailed>>

\* The same functions when PrepareBatch or Send fails: markFlushFailed, and
\* the rows are gone from memory.  A failed Send may still have landed.  (A
\* batch.Append that fails releases the batch, so that its Send fails too.)
SendFail(f, t) ==
    /\ Sending(f, t)
    /\ Sent(f, t)
    /\ \/ UNCHANGED durable
       \/ durable' = durable \cup Range(batch[f][t])
    /\ failed' = [failed EXCEPT ![f] = TRUE]
    /\ flushFailed' = TRUE

\* flush(), last lines: only a flush that sent something and saw no failure
\* of its own clears the sticky flag.
EndFlush(f) ==
    /\ flushing[f] /\ Unsent(f) = {}
    /\ flushing' = [flushing EXCEPT ![f] = FALSE]
    /\ flushFailed' = (flushFailed /\ ~(attempted[f] /\ ~failed[f]))
    /\ UNCHANGED <<buf, capacity, sharing, batch, attempted, failed, durable>>

=============================================================================
