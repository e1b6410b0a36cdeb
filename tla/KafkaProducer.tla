--------------------------- MODULE KafkaProducer ---------------------------
(***************************************************************************)
(* The producer of the AgentCenter and of the Consumer's dead letters      *)
(* (common/kafka/producer.go): sarama's Input channel, a bounded fallback  *)
(* queue beside it, the loop that replays the queue and the loop that puts *)
(* back what Kafka has refused.                                            *)
(*                                                                         *)
(* A channel operation and the atomic counter that follows it are two      *)
(* steps.  `input' holds what sarama has and Kafka has not answered for:   *)
(* when Kafka stops, it fills up.  The age of a queued message is left     *)
(* out: it may have expired whenever the replay loop looks at it.          *)
(***************************************************************************)
EXTENDS Integers, Sequences, FiniteSets

CONSTANTS
    Messages,
    Reliable,      \* those sent with SendReliable
    InputSize,     \* messages sarama takes before Input blocks
    FallbackSize,
    MaxRetries,    \* fallbackMaxRetries
    MaxFaults      \* bound on refusals by Kafka

ASSUME ProducerAssumption ==
    /\ Reliable \subseteq Messages /\ IsFiniteSet(Messages)
    /\ InputSize \in Nat \ {0} /\ FallbackSize \in Nat \ {0}
    /\ MaxRetries \in Nat \ {0} /\ MaxFaults \in Nat
    /\ "none" \notin Messages

VARIABLES
    sender,       \* message -> where the call that sends it stands
    input,        \* messages sarama holds
    errors,       \* messages Kafka has refused, not yet read
    fallback,     \* queue of [msg, retry]
    fallbackLen,  \* its counter
    replay,       \* the replay loop: [pc, msg, retry]
    errorLoop,    \* the error loop: [pc, msg, retry]
    drops,        \* producerDropped
    phase,        \* "open", "closing", "closed" (Input too), "panicked"
    delivered,    \* messages Kafka has stored
    dropped,      \* history: messages given up
    lost,         \* history: errors read by Close
    faults

queue == <<fallback, fallbackLen>>
loops == <<replay, errorLoop>>
history == <<delivered, lost, faults>>
vars == <<sender, input, errors, queue, loops, drops, dropped, phase, history>>

NoMessage == "none"
Loop(place, m, retry) == [pc |-> place, msg |-> m, retry |-> retry]
Waiting == Loop("wait", NoMessage, 0)
Stopped == Loop("stopped", NoMessage, 0)
Queued(m, retry) == [msg |-> m, retry |-> retry]

LoopStates(places) == {Waiting, Stopped} \cup
    [pc : places, msg : Messages, retry : 0..(MaxRetries - 1)]
    \cup {Loop("backoff", NoMessage, 0)}

TypeOK ==
    /\ sender \in [Messages -> {"idle", "waiting", "enqueue", "increment",
                                "accepted", "refused"}]
    /\ input \in SUBSET Messages /\ Cardinality(input) <= InputSize
    /\ errors \in SUBSET Messages
    /\ fallback \in Seq([msg : Messages, retry : 0..(MaxRetries - 1)])
    /\ Len(fallback) <= FallbackSize
    /\ fallbackLen \in Int /\ drops \in Nat
    /\ replay \in LoopStates({"decrement", "check", "requeue", "increment"})
    /\ errorLoop \in LoopStates({"requeue", "increment"})
    /\ phase \in {"open", "closing", "closed", "panicked"}
    /\ delivered \in SUBSET Messages /\ dropped \in SUBSET Messages
    /\ lost \in SUBSET Messages /\ faults \in 0..MaxFaults

Init ==
    /\ sender = [m \in Messages |-> "idle"]
    /\ input = {} /\ errors = {}
    /\ fallback = <<>> /\ fallbackLen = 0
    /\ replay = Waiting /\ errorLoop = Waiting
    /\ drops = 0 /\ phase = "open"
    /\ delivered = {} /\ dropped = {} /\ lost = {} /\ faults = 0

Room == Cardinality(input) < InputSize
Go(m, place) == sender' = [sender EXCEPT ![m] = place]

\* A send to Input: sarama closes the channel at the end of Close.
PutInput(m) ==
    IF phase = "closed"
    THEN phase' = "panicked" /\ UNCHANGED input
    ELSE input' = input \cup {m} /\ UNCHANGED phase

Drop(m) == dropped' = dropped \cup {m} /\ drops' = drops + 1

\* Mutant of Enqueue: messages that find the queue full are not counted.
EnqueueQuietly(m, retry, ok, full) ==
    IF retry < MaxRetries /\ Len(fallback) < FallbackSize
    THEN fallback' = Append(fallback, Queued(m, retry)) /\ ok /\ UNCHANGED <<drops, dropped>>
    ELSE dropped' = dropped \cup {m} /\ full /\ UNCHANGED <<fallback, drops>>

\* Mutant of Enqueue: one retry too many.
EnqueueOnceMore(m, retry, ok, full) ==
    IF retry <= MaxRetries /\ Len(fallback) < FallbackSize
    THEN fallback' = Append(fallback, Queued(m, retry)) /\ ok /\ UNCHANGED <<drops, dropped>>
    ELSE Drop(m) /\ full /\ UNCHANGED fallback

\* enqueueToFallbackWithRetry up to the counter; `ok' and `full' say how the
\* caller goes on.
Enqueue(m, retry, ok, full) ==
    IF retry < MaxRetries /\ Len(fallback) < FallbackSize
    THEN fallback' = Append(fallback, Queued(m, retry)) /\ ok /\ UNCHANGED <<drops, dropped>>
    ELSE Drop(m) /\ full /\ UNCHANGED fallback

-----------------------------------------------------------------------------
(* Send and SendReliable.                                                  *)

\* SendReliable blocks on Input, on its timer and on `closed'.
Wait(m) ==
    /\ sender[m] = "idle" /\ m \in Reliable
    /\ Go(m, "waiting")
    /\ UNCHANGED <<input, errors, queue, loops, drops, dropped, phase, history>>

Send(m) ==
    /\ sender[m] = IF m \in Reliable THEN "waiting" ELSE "idle"
    /\ Room /\ PutInput(m)
    /\ Go(m, "accepted")
    /\ UNCHANGED <<errors, queue, loops, drops, dropped, history>>

\* Input is full, or the timer of SendReliable fires.
Divert(m) ==
    /\ IF m \in Reliable THEN sender[m] = "waiting" ELSE sender[m] = "idle" /\ ~Room
    /\ Go(m, "enqueue")
    /\ UNCHANGED <<input, errors, queue, loops, drops, dropped, phase, history>>

SeeClosed(m) ==
    /\ sender[m] = "waiting" /\ phase # "open"
    /\ Go(m, "refused")
    /\ UNCHANGED <<input, errors, queue, loops, drops, dropped, phase, history>>

EnqueueFirst(m) ==
    /\ sender[m] = "enqueue"
    /\ Enqueue(m, 0, Go(m, "increment"), Go(m, "refused"))
    /\ UNCHANGED <<input, errors, fallbackLen, loops, phase, history>>

Increment(m) ==
    /\ sender[m] = "increment"
    /\ fallbackLen' = fallbackLen + 1
    /\ Go(m, "accepted")
    /\ UNCHANGED <<input, errors, fallback, loops, drops, dropped, phase, history>>

-----------------------------------------------------------------------------
(* replayLoop.                                                             *)

Replay(place, m, retry) == replay' = Loop(place, m, retry)

Pop ==
    /\ replay = Waiting /\ fallback # <<>>
    /\ Replay("decrement", Head(fallback).msg, Head(fallback).retry)
    /\ fallback' = Tail(fallback)
    /\ UNCHANGED <<sender, input, errors, fallbackLen, errorLoop, drops, dropped,
                   phase, history>>

\* Mutant of Decrement: an expired message leaves before the counter.
DecrementUnexpired ==
    /\ replay.pc = "decrement"
    /\ \/ /\ fallbackLen' = fallbackLen - 1
          /\ Replay("check", replay.msg, replay.retry)
          /\ UNCHANGED <<drops, dropped>>
       \/ replay' = Waiting /\ Drop(replay.msg) /\ UNCHANGED fallbackLen
    /\ UNCHANGED <<sender, input, errors, fallback, errorLoop, phase, history>>

Decrement ==
    /\ replay.pc = "decrement"
    /\ fallbackLen' = fallbackLen - 1
    /\ Replay("check", replay.msg, replay.retry)
    /\ UNCHANGED <<sender, input, errors, fallback, errorLoop, drops, dropped,
                   phase, history>>

\* Mutant of Expire: the loop counts the message and goes on to send it.
ExpireGoesOn ==
    /\ replay.pc = "check"
    /\ Drop(replay.msg)
    /\ Replay("requeue", replay.msg, replay.retry)
    /\ UNCHANGED <<sender, input, errors, queue, errorLoop, phase, history>>

Expire ==
    /\ replay.pc = "check"
    /\ Drop(replay.msg) /\ replay' = Waiting
    /\ UNCHANGED <<sender, input, errors, queue, errorLoop, phase, history>>

Resend ==
    /\ replay.pc = "check" /\ Room
    /\ PutInput(replay.msg) /\ replay' = Waiting
    /\ UNCHANGED <<sender, errors, queue, errorLoop, drops, dropped, history>>

StillFull ==
    /\ replay.pc = "check" /\ ~Room
    /\ Replay("requeue", replay.msg, replay.retry)
    /\ UNCHANGED <<sender, input, errors, queue, errorLoop, drops, dropped, phase,
                   history>>

\* Mutant of Requeue: the retries start again, as they did when the loop
\* called Send.
RequeueAsNew ==
    /\ replay.pc = "requeue"
    /\ Enqueue(replay.msg, 0, Replay("increment", replay.msg, 0),
               Replay("backoff", NoMessage, 0))
    /\ UNCHANGED <<sender, input, errors, fallbackLen, errorLoop, phase, history>>

Requeue ==
    /\ replay.pc = "requeue"
    /\ Enqueue(replay.msg, replay.retry + 1,
               Replay("increment", replay.msg, replay.retry),
               Replay("backoff", NoMessage, 0))
    /\ UNCHANGED <<sender, input, errors, fallbackLen, errorLoop, phase, history>>

IncrementReplayed ==
    /\ replay.pc = "increment"
    /\ fallbackLen' = fallbackLen + 1
    /\ Replay("backoff", NoMessage, 0)
    /\ UNCHANGED <<sender, input, errors, fallback, errorLoop, drops, dropped,
                   phase, history>>

BackOff ==
    /\ replay.pc = "backoff"
    /\ replay' = Waiting
    /\ UNCHANGED <<sender, input, errors, queue, errorLoop, drops, dropped, phase,
                   history>>

\* Once closed, select may still choose the queue.
StopReplay ==
    /\ phase # "open" /\ replay.pc \in {"wait", "backoff"}
    /\ replay' = Stopped
    /\ UNCHANGED <<sender, input, errors, queue, errorLoop, drops, dropped, phase,
                   history>>

-----------------------------------------------------------------------------
(* errorLoop: what Kafka has refused starts again as a new message.        *)

\* Mutant of TakeError: errors are only logged.
TakeErrorLogged(m) ==
    /\ errorLoop = Waiting /\ m \in errors
    /\ errors' = errors \ {m}
    /\ UNCHANGED <<sender, input, queue, loops, drops, dropped, phase, history>>

TakeError(m) ==
    /\ errorLoop = Waiting /\ m \in errors
    /\ errors' = errors \ {m}
    /\ errorLoop' = Loop("requeue", m, 0)
    /\ UNCHANGED <<sender, input, queue, replay, drops, dropped, phase, history>>

RequeueError ==
    /\ errorLoop.pc = "requeue"
    /\ Enqueue(errorLoop.msg, 0, errorLoop' = Loop("increment", errorLoop.msg, 0),
               errorLoop' = Waiting)
    /\ UNCHANGED <<sender, input, errors, fallbackLen, replay, phase, history>>

IncrementError ==
    /\ errorLoop.pc = "increment"
    /\ fallbackLen' = fallbackLen + 1
    /\ errorLoop' = Waiting
    /\ UNCHANGED <<sender, input, errors, fallback, replay, drops, dropped, phase,
                   history>>

StopErrors ==
    /\ phase # "open" /\ errorLoop.pc = "wait"
    /\ errorLoop' = Stopped
    /\ UNCHANGED <<sender, input, errors, queue, replay, drops, dropped, phase,
                   history>>

-----------------------------------------------------------------------------
(* Kafka and sarama.                                                       *)

Deliver(m) ==
    /\ m \in input
    /\ input' = input \ {m} /\ delivered' = delivered \cup {m}
    /\ UNCHANGED <<sender, errors, queue, loops, drops, dropped, phase, lost, faults>>

\* Refused, or answered too late: the message may have been stored.
Refuse(m) ==
    /\ m \in input /\ faults < MaxFaults
    /\ input' = input \ {m} /\ errors' = errors \cup {m}
    /\ faults' = faults + 1
    /\ delivered' \in {delivered, delivered \cup {m}}
    /\ UNCHANGED <<sender, queue, loops, drops, dropped, phase, lost>>

Close ==
    /\ phase = "open"
    /\ phase' = "closing"
    /\ UNCHANGED <<sender, input, errors, queue, loops, drops, dropped, history>>

\* Close reads the errors beside errorLoop, and returns them to its caller,
\* which ignores them.
DrainError(m) ==
    /\ phase = "closing" /\ m \in errors
    /\ errors' = errors \ {m} /\ lost' = lost \cup {m}
    /\ UNCHANGED <<sender, input, queue, loops, drops, dropped, phase, delivered,
                   faults>>

\* Nothing is in flight any more: sarama closes its channels.
CloseInput ==
    /\ phase = "closing" /\ input = {} /\ errors = {}
    /\ phase' = "closed"
    /\ UNCHANGED <<sender, input, errors, queue, loops, drops, dropped, history>>

-----------------------------------------------------------------------------
Call(m) ==
    \/ Wait(m) \/ Send(m) \/ Divert(m) \/ SeeClosed(m)
    \/ EnqueueFirst(m) \/ Increment(m)

ReplayLoop ==
    \/ Pop \/ Decrement \/ Expire \/ Resend \/ StillFull
    \/ Requeue \/ IncrementReplayed \/ BackOff \/ StopReplay

ErrorLoop ==
    \/ \E m \in Messages : TakeError(m)
    \/ RequeueError \/ IncrementError \/ StopErrors

Kafka == \E m \in Messages : Deliver(m)

Next ==
    /\ phase # "panicked"
    /\ \/ \E m \in Messages : Call(m) \/ Refuse(m) \/ DrainError(m)
       \/ ReplayLoop \/ ErrorLoop \/ Kafka \/ Close \/ CloseInput

Spec == Init /\ [][Next]_vars

\* Goroutines run; Kafka owes nothing, and nobody has to send or to close.
FairSpec == Spec /\ WF_vars(ReplayLoop /\ phase # "panicked")
                 /\ WF_vars(ErrorLoop /\ phase # "panicked")

-----------------------------------------------------------------------------
(* Properties.                                                             *)

InQueue(m) == \E i \in DOMAIN fallback : fallback[i].msg = m

\* The places at which a message is.  Between the queue and its counter it is
\* in the queue already.
Places(m) ==
    {p \in {"input", "errors", "lost", "dropped", "queue", "replay", "error loop"} :
        \/ p = "input" /\ m \in input
        \/ p = "errors" /\ m \in errors
        \/ p = "lost" /\ m \in lost
        \/ p = "dropped" /\ m \in dropped
        \/ p = "queue" /\ InQueue(m)
        \/ p = "replay" /\ replay.msg = m /\ replay.pc # "increment"
        \/ p = "error loop" /\ errorLoop.msg = m /\ errorLoop.pc # "increment"}

\* A message that the producer has taken over is at one place of it, or has been
\* given up, or is in Kafka and nowhere else; one whose send failed, or is not
\* through, is nowhere else and not in Kafka.  So nothing vanishes between queue,
\* loops and Kafka, and nothing multiplies.
Accounted ==
    /\ \A i, j \in DOMAIN fallback : fallback[i].msg = fallback[j].msg => i = j
    /\ \A m \in Messages :
        /\ \A p, q \in Places(m) : p = q
        /\ sender[m] \in {"increment", "accepted"} /\ phase # "panicked" =>
              Places(m) # {} \/ m \in delivered
        /\ sender[m] = "refused" => m \notin delivered /\ Places(m) \subseteq {"dropped"}
        /\ sender[m] \in {"idle", "waiting", "enqueue"} =>
              m \notin delivered /\ Places(m) = {}

\* fallbackLen is the length of the queue, but for the goroutines that are
\* between the channel and the counter.
Holders(place) ==
    Cardinality({m \in Messages : sender[m] = place})
    + (IF replay.pc = place THEN 1 ELSE 0) + (IF errorLoop.pc = place THEN 1 ELSE 0)
LengthAgrees ==
    fallbackLen = Len(fallback) + Holders("decrement") - Holders("increment")

\* The metric that monitoring reads counts each message given up once; seen
\* from outside the producer is a channel that may drop but says so.
KeepsCount ==
    INSTANCE CountedChannel WITH
        taken <- {m \in Messages : sender[m] \in {"increment", "accepted"}} \cup dropped,
        arrived <- delivered, gone <- dropped, count <- drops
CountsDrops == KeepsCount!Spec

\* However long Kafka stays away, no message is kept for ever: again and again
\* it is out of the queue and the loops, for Input or as a counted drop (while
\* the producer is not being closed).
Kept(m) ==
    \/ InQueue(m) \/ replay.msg = m \/ errorLoop.msg = m
LeavesQueue == \A m \in Messages : []<>(~Kept(m) \/ phase # "open")

\* When Kafka answers again, every message sent ends in Kafka or in the count.
\* (Neither is undone, so that all are there again and again says it of each.)
Settled(m) == m \in delivered \cup dropped \/ phase # "open"
Settles ==
    WF_vars(Kafka /\ phase # "panicked") =>
        []<>(\A m \in Messages : sender[m] = "accepted" => Settled(m))
=============================================================================
