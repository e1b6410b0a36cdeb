------------------------- MODULE KafkaProducerProofs -------------------------
(***************************************************************************)
(* What holds of KafkaProducer for any messages, any sizes of Input and    *)
(* queue, any number of retries and any number of refusals.                *)
(***************************************************************************)
EXTENDS KafkaProducer, FiniteSetTheorems, SequenceTheorems, TLAPS

USE ProducerAssumption DEF ProducerAssumption

Entries == [msg : Messages, retry : 0..(MaxRetries - 1)]

-----------------------------------------------------------------------------
(* The queue.                                                              *)

\* What Append does to the queue.
LEMMA AppendEntry ==
  ASSUME NEW q \in Seq(Entries), NEW e \in Entries
  PROVE  /\ Append(q, e) \in Seq(Entries)
         /\ Len(Append(q, e)) = Len(q) + 1
         /\ DOMAIN Append(q, e) = DOMAIN q \cup {Len(q) + 1}
         /\ Len(q) + 1 \notin DOMAIN q
         /\ \A i \in DOMAIN q : Append(q, e)[i] = q[i]
         /\ Append(q, e)[Len(q) + 1] = e
<1>1. Len(q) \in Nat /\ DOMAIN q = 1..Len(q)
  BY LenProperties
<1> QED
  BY <1>1, AppendProperties, LenProperties

\* What the replay loop takes out of the queue and what it leaves.
LEMMA HeadAndTail ==
  ASSUME NEW q \in Seq(Entries), q # <<>>
  PROVE  /\ Head(q) \in Entries /\ Head(q) = q[1] /\ 1 \in DOMAIN q
         /\ Tail(q) \in Seq(Entries)
         /\ Len(q) \in Nat \ {0} /\ Len(Tail(q)) = Len(q) - 1
         /\ \A i \in DOMAIN Tail(q) :
               i \in Nat /\ i + 1 \in DOMAIN q /\ i + 1 # 1 /\ Tail(q)[i] = q[i + 1]
         /\ \A i \in DOMAIN q : i \in Nat /\ (i # 1 => i - 1 \in DOMAIN Tail(q))
<1>1. Len(q) \in Nat \ {0} /\ DOMAIN q = 1..Len(q)
  BY LenProperties, EmptySeq
<1>2. /\ Head(q) \in Entries /\ Tail(q) \in Seq(Entries)
      /\ Len(Tail(q)) = Len(q) - 1
      /\ \A i \in 1..Len(Tail(q)) : Tail(q)[i] = q[i + 1]
  BY HeadTailProperties
<1>3. DOMAIN Tail(q) = 1..Len(Tail(q))
  BY <1>2, LenProperties
<1>4. Head(q) = q[1]
  OBVIOUS
<1> QED
  BY <1>1, <1>2, <1>3, <1>4

-----------------------------------------------------------------------------
(* Types.                                                                  *)

LEMMA InputType ==
  ASSUME TypeOK, NEW m
  PROVE  /\ Room => Cardinality(input \cup {m}) <= InputSize
         /\ Cardinality(input \ {m}) <= InputSize
<1>1. /\ IsFiniteSet(input) /\ Cardinality(input) <= InputSize
      /\ input \subseteq Messages
  BY FS_Subset DEF TypeOK
<1>2. Cardinality(input) \in Nat
  BY <1>1, FS_CardinalityType
<1>3. Cardinality(input \cup {m}) \in {Cardinality(input), Cardinality(input) + 1}
  BY <1>1, FS_AddElement
<1>4. Cardinality(input \ {m}) \in {Cardinality(input), Cardinality(input) - 1}
  BY <1>1, FS_RemoveElement
<1> QED
  BY <1>1, <1>2, <1>3, <1>4 DEF Room

\* Whatever the caller of Enqueue does next.
LEMMA EnqueueType ==
  ASSUME TypeOK, NEW m \in Messages, NEW retry \in Nat, NEW ok, NEW full,
         Enqueue(m, retry, ok, full)
  PROVE  /\ fallback' \in Seq(Entries) /\ Len(fallback') <= FallbackSize
         /\ drops' \in Nat /\ dropped' \in SUBSET Messages
<1>1. CASE retry < MaxRetries /\ Len(fallback) < FallbackSize
  <2>1. Queued(m, retry) \in Entries /\ fallback \in Seq(Entries)
    BY <1>1 DEF Queued, Entries, TypeOK
  <2>2. /\ Append(fallback, Queued(m, retry)) \in Seq(Entries)
        /\ Len(Append(fallback, Queued(m, retry))) = Len(fallback) + 1
        /\ Len(fallback) \in Nat
    BY <2>1, AppendEntry, LenProperties
  <2>3. fallback' = Append(fallback, Queued(m, retry)) /\ UNCHANGED <<drops, dropped>>
    BY <1>1 DEF Enqueue
  <2> QED
    BY <1>1, <2>2, <2>3 DEF TypeOK
<1>2. CASE ~(retry < MaxRetries /\ Len(fallback) < FallbackSize)
  BY <1>2 DEF Enqueue, TypeOK, Drop, Entries
<1> QED
  BY <1>1, <1>2

\* Where a loop holds a message.
LEMMA LoopFacts ==
  ASSUME TypeOK
  PROVE  /\ replay.pc \in {"wait", "stopped", "backoff"} =>
              replay = Loop(replay.pc, NoMessage, 0)
         /\ replay.pc \notin {"wait", "stopped", "backoff"} =>
              /\ replay.msg \in Messages /\ replay.retry \in 0..(MaxRetries - 1)
              /\ replay.pc \in {"decrement", "check", "requeue", "increment"}
         /\ errorLoop.pc \in {"wait", "stopped", "backoff"} =>
              errorLoop = Loop(errorLoop.pc, NoMessage, 0)
         /\ errorLoop.pc \notin {"wait", "stopped", "backoff"} =>
              /\ errorLoop.msg \in Messages /\ errorLoop.pc \in {"requeue", "increment"}
  BY DEF TypeOK, LoopStates, Waiting, Stopped, Loop

LEMMA LoopTypes ==
  /\ \A places : {Waiting, Stopped, Loop("backoff", NoMessage, 0)} \subseteq LoopStates(places)
  /\ \A places : \A m \in Messages, retry \in 0..(MaxRetries - 1), place \in places :
        Loop(place, m, retry) \in LoopStates(places)
  BY DEF LoopStates, Loop

LEMMA SenderType ==
  ASSUME TypeOK, NEW m,
         NEW place \in {"idle", "waiting", "enqueue", "increment", "accepted", "refused"},
         Go(m, place)
  PROVE  sender' \in [Messages -> {"idle", "waiting", "enqueue", "increment",
                                   "accepted", "refused"}]
  BY DEF TypeOK, Go

LEMMA StepTypes ==
  ASSUME TypeOK, [Next]_vars
  PROVE  TypeOK'
<1> USE DEF history, loops, queue
<1>1. ASSUME NEW m \in Messages, Call(m)
     PROVE  TypeOK'
  <2>1. CASE Wait(m)
    BY <2>1, SenderType DEF Wait, TypeOK
  <2>2. CASE Send(m)
    <3>1. /\ input' \in SUBSET Messages /\ Cardinality(input') <= InputSize
          /\ phase' \in {"open", "closing", "closed", "panicked"}
      BY <2>2, InputType DEF Send, PutInput, TypeOK
    <3> QED
      BY <2>2, <3>1, SenderType DEF Send, TypeOK
  <2>3. CASE Divert(m)
    BY <2>3, SenderType DEF Divert, TypeOK
  <2>4. CASE SeeClosed(m)
    BY <2>4, SenderType DEF SeeClosed, TypeOK
  <2>5. CASE EnqueueFirst(m)
    <3>1. Go(m, "increment") \/ Go(m, "refused")
      BY <2>5 DEF EnqueueFirst, Enqueue
    <3>2. /\ fallback' \in Seq(Entries) /\ Len(fallback') <= FallbackSize
          /\ drops' \in Nat /\ dropped' \in SUBSET Messages
      BY <2>5, EnqueueType DEF EnqueueFirst
    <3> QED
      BY <2>5, <3>1, <3>2, SenderType DEF EnqueueFirst, TypeOK, Entries
  <2>6. CASE Increment(m)
    BY <2>6, SenderType DEF Increment, TypeOK
  <2> QED
    BY <1>1, <2>1, <2>2, <2>3, <2>4, <2>5, <2>6 DEF Call
<1>2. CASE ReplayLoop
  <2> USE LoopFacts, LoopTypes DEF Replay
  <2>1. CASE Pop
    <3>1. /\ Head(fallback) \in Entries /\ Tail(fallback) \in Seq(Entries)
          /\ Len(fallback) \in Nat /\ Len(Tail(fallback)) = Len(fallback) - 1
      BY <2>1, HeadAndTail DEF Pop, TypeOK, Entries
    <3>2. replay' \in LoopStates({"decrement", "check", "requeue", "increment"})
      BY <2>1, <3>1 DEF Pop, Entries
    <3> QED
      BY <2>1, <3>1, <3>2 DEF Pop, TypeOK, Entries
  <2>2. CASE Decrement
    BY <2>2 DEF Decrement, TypeOK
  <2>3. CASE Expire
    BY <2>3 DEF Expire, Drop, TypeOK
  <2>4. CASE Resend
    <3>1. /\ input' \in SUBSET Messages /\ Cardinality(input') <= InputSize
          /\ phase' \in {"open", "closing", "closed", "panicked"}
      BY <2>4, InputType DEF Resend, PutInput, TypeOK
    <3> QED
      BY <2>4, <3>1 DEF Resend, TypeOK
  <2>5. CASE StillFull
    BY <2>5 DEF StillFull, TypeOK
  <2>6. CASE Requeue
    <3>1. /\ fallback' \in Seq(Entries) /\ Len(fallback') <= FallbackSize
          /\ drops' \in Nat /\ dropped' \in SUBSET Messages
      BY <2>6, EnqueueType DEF Requeue
    <3>2. replay' \in LoopStates({"decrement", "check", "requeue", "increment"})
      BY <2>6 DEF Requeue, Enqueue
    <3> QED
      BY <2>6, <3>1, <3>2 DEF Requeue, TypeOK, Entries
  <2>7. CASE IncrementReplayed
    BY <2>7 DEF IncrementReplayed, TypeOK
  <2>8. CASE BackOff \/ StopReplay
    BY <2>8 DEF BackOff, StopReplay, TypeOK
  <2> QED
    BY <1>2, <2>1, <2>2, <2>3, <2>4, <2>5, <2>6, <2>7, <2>8 DEF ReplayLoop
<1>3. CASE ErrorLoop
  <2> USE LoopFacts, LoopTypes
  <2>1. ASSUME NEW m \in Messages, TakeError(m)
       PROVE  TypeOK'
    BY <2>1 DEF TakeError, TypeOK
  <2>2. CASE RequeueError
    <3>1. /\ fallback' \in Seq(Entries) /\ Len(fallback') <= FallbackSize
          /\ drops' \in Nat /\ dropped' \in SUBSET Messages
      BY <2>2, EnqueueType DEF RequeueError
    <3>2. errorLoop' \in LoopStates({"requeue", "increment"})
      BY <2>2 DEF RequeueError, Enqueue
    <3> QED
      BY <2>2, <3>1, <3>2 DEF RequeueError, TypeOK, Entries
  <2>3. CASE IncrementError \/ StopErrors
    BY <2>3 DEF IncrementError, StopErrors, TypeOK
  <2> QED
    BY <1>3, <2>1, <2>2, <2>3 DEF ErrorLoop
<1>4. ASSUME NEW m \in Messages, Deliver(m) \/ Refuse(m) \/ DrainError(m)
     PROVE  TypeOK'
  <2>1. CASE Deliver(m)
    BY <2>1, InputType DEF Deliver, TypeOK
  <2>2. CASE Refuse(m)
    <3>1. Cardinality(input') <= InputSize
      BY <2>2, InputType DEF Refuse
    <3> QED
      BY <2>2, <3>1 DEF Refuse, TypeOK
  <2>3. CASE DrainError(m)
    BY <2>3 DEF DrainError, TypeOK
  <2> QED
    BY <1>4, <2>1, <2>2, <2>3
<1>5. CASE Close \/ CloseInput
  BY <1>5 DEF Close, CloseInput, TypeOK
<1>6. CASE UNCHANGED vars
  BY <1>6 DEF vars, TypeOK
<1> QED
  BY <1>1, <1>2, <1>3, <1>4, <1>5, <1>6 DEF Next, Kafka

-----------------------------------------------------------------------------
(* The counter of the queue.                                               *)

\* One sender goes to the counter, or has been there.
LEMMA SendersAtCounter ==
  ASSUME TypeOK, NEW m \in Messages,
         NEW place \in {"idle", "waiting", "enqueue", "increment", "accepted", "refused"},
         Go(m, place)
  PROVE  LET before == {n \in Messages : sender[n] = "increment"}
             after == {n \in Messages : sender'[n] = "increment"}
         IN  /\ Cardinality(before) \in Nat
             /\ sender[m] # "increment" /\ place = "increment" =>
                   Cardinality(after) = Cardinality(before) + 1
             /\ sender[m] = "increment" /\ place # "increment" =>
                   Cardinality(after) = Cardinality(before) - 1
             /\ sender[m] # "increment" /\ place # "increment" => after = before
<1> DEFINE before == {n \in Messages : sender[n] = "increment"}
           after == {n \in Messages : sender'[n] = "increment"}
<1>1. IsFiniteSet(before)
  BY FS_Subset
<1>2. \A n \in Messages : sender'[n] = IF n = m THEN place ELSE sender[n]
  BY DEF Go, TypeOK
<1>3. Cardinality(before) \in Nat
  BY <1>1, FS_CardinalityType
<1>4. ASSUME sender[m] # "increment", place = "increment"
     PROVE  Cardinality(after) = Cardinality(before) + 1
  <2>1. after = before \cup {m} /\ m \notin before
    BY <1>2, <1>4
  <2> QED
    BY <1>1, <2>1, FS_AddElement
<1>5. ASSUME sender[m] = "increment", place # "increment"
     PROVE  Cardinality(after) = Cardinality(before) - 1
  <2>1. after = before \ {m} /\ m \in before
    BY <1>2, <1>5
  <2> HIDE DEF before, after
  <2>2. Cardinality(before \ {m}) = Cardinality(before) - 1
    BY <1>1, <2>1, FS_RemoveElement
  <2> QED
    BY <2>1, <2>2
<1>6. ASSUME sender[m] # "increment", place # "increment"
     PROVE  after = before
  BY <1>2, <1>6
<1> QED
  BY <1>3, <1>4, <1>5, <1>6

AtCounter == Cardinality({m \in Messages : sender[m] = "increment"})

\* LengthAgrees, without the set that is always empty.
Balanced ==
    fallbackLen + AtCounter + (IF replay.pc = "increment" THEN 1 ELSE 0)
                + (IF errorLoop.pc = "increment" THEN 1 ELSE 0)
      = Len(fallback) + (IF replay.pc = "decrement" THEN 1 ELSE 0)

LEMMA LengthIsBalance == TypeOK => (LengthAgrees <=> Balanced)
<1> SUFFICES ASSUME TypeOK
             PROVE  LengthAgrees <=> Balanced
  OBVIOUS
<1>1. {m \in Messages : sender[m] = "decrement"} = {}
  BY DEF TypeOK
<1>2. Cardinality({m \in Messages : sender[m] = "decrement"}) = 0
  BY <1>1, FS_EmptySet
<1>3. errorLoop.pc # "decrement"
  BY LoopFacts
<1>4. AtCounter \in Nat
  BY FS_Subset, FS_CardinalityType DEF AtCounter
<1>5. /\ Len(fallback) \in Nat /\ fallbackLen \in Int
  BY LenProperties DEF TypeOK
<1> QED
  BY SMTT(30), <1>2, <1>3, <1>4, <1>5 DEF LengthAgrees, Holders, Balanced, AtCounter

LEMMA EnqueueLength ==
  ASSUME TypeOK, NEW m \in Messages, NEW retry \in Nat, NEW ok, NEW full,
         Enqueue(m, retry, ok, full)
  PROVE  \/ ok /\ Len(fallback') = Len(fallback) + 1
         \/ full /\ Len(fallback') = Len(fallback)
<1>1. CASE retry < MaxRetries /\ Len(fallback) < FallbackSize
  <2>1. Queued(m, retry) \in Entries /\ fallback \in Seq(Entries)
    BY <1>1 DEF Queued, Entries, TypeOK
  <2> QED
    BY <1>1, <2>1, AppendEntry DEF Enqueue
<1>2. CASE ~(retry < MaxRetries /\ Len(fallback) < FallbackSize)
  BY <1>2 DEF Enqueue
<1> QED
  BY <1>1, <1>2

LEMMA StepBalance ==
  ASSUME TypeOK, Balanced, [Next]_vars
  PROVE  Balanced'
<1> USE DEF history, loops, queue, Balanced
<1>1. /\ Len(fallback) \in Nat /\ fallbackLen \in Int /\ AtCounter \in Nat
  BY LenProperties, FS_Subset, FS_CardinalityType DEF TypeOK, AtCounter
<1>2. ASSUME sender' = sender
     PROVE  AtCounter' = AtCounter
  BY <1>2 DEF AtCounter
<1>3. ASSUME NEW m \in Messages, Call(m)
     PROVE  Balanced'
  <2>1. CASE Wait(m) \/ Send(m) \/ Divert(m) \/ SeeClosed(m)
    <3>1. \E place \in {"waiting", "accepted", "enqueue", "refused"} :
             Go(m, place) /\ sender[m] # "increment"
      BY <2>1 DEF Wait, Send, Divert, SeeClosed
    <3>2. AtCounter' = AtCounter
      BY <3>1, SendersAtCounter DEF AtCounter
    <3> QED
      BY <2>1, <3>2 DEF Wait, Send, Divert, SeeClosed
  <2>2. CASE EnqueueFirst(m)
    <3>1. \/ Go(m, "increment") /\ Len(fallback') = Len(fallback) + 1
          \/ Go(m, "refused") /\ Len(fallback') = Len(fallback)
      BY <2>2, EnqueueLength DEF EnqueueFirst
    <3>2. sender[m] = "enqueue" /\ UNCHANGED <<fallbackLen, replay, errorLoop>>
      BY <2>2 DEF EnqueueFirst
    <3>3. CASE Go(m, "increment") /\ Len(fallback') = Len(fallback) + 1
      <4>1. AtCounter' = AtCounter + 1
        BY <3>2, <3>3, SendersAtCounter DEF AtCounter
      <4> QED
        BY <1>1, <3>2, <3>3, <4>1
    <3>4. CASE Go(m, "refused") /\ Len(fallback') = Len(fallback)
      <4>1. AtCounter' = AtCounter
        BY <3>2, <3>4, SendersAtCounter DEF AtCounter
      <4> QED
        BY <1>1, <3>2, <3>4, <4>1
    <3> QED
      BY <3>1, <3>3, <3>4
  <2>3. CASE Increment(m)
    <3>1. AtCounter' = AtCounter - 1
      BY <2>3, SendersAtCounter DEF AtCounter, Increment
    <3> QED
      BY <1>1, <2>3, <3>1 DEF Increment
  <2> QED
    BY <1>3, <2>1, <2>2, <2>3 DEF Call
<1>4. CASE ReplayLoop
  <2> USE <1>1, <1>2 DEF Replay, Loop, Waiting, Stopped
  <2>1. CASE Pop
    <3>1. Len(fallback') = Len(fallback) - 1
      BY <2>1, HeadAndTail DEF Pop, TypeOK, Entries
    <3> QED
      BY <2>1, <3>1 DEF Pop
  <2>2. CASE Decrement
    BY <2>2 DEF Decrement
  <2>3. CASE Expire \/ Resend \/ StillFull \/ BackOff \/ StopReplay
    BY <2>3 DEF Expire, Resend, StillFull, BackOff, StopReplay
  <2>4. CASE Requeue
    <3>a. replay.msg \in Messages /\ replay.retry + 1 \in Nat
      BY <2>4, LoopFacts DEF Requeue
    <3>1. \/ /\ Replay("increment", replay.msg, replay.retry)
             /\ Len(fallback') = Len(fallback) + 1
          \/ Replay("backoff", NoMessage, 0) /\ Len(fallback') = Len(fallback)
      BY <2>4, <3>a, EnqueueLength DEF Requeue
    <3> QED
      BY <2>4, <3>1 DEF Requeue
  <2>5. CASE IncrementReplayed
    BY <2>5 DEF IncrementReplayed
  <2> QED
    BY <1>4, <2>1, <2>2, <2>3, <2>4, <2>5 DEF ReplayLoop
<1>5. CASE ErrorLoop
  <2> USE <1>1, <1>2 DEF Loop, Waiting, Stopped
  <2>1. CASE RequeueError
    <3>1. \/ errorLoop' = Loop("increment", errorLoop.msg, 0) /\ Len(fallback') = Len(fallback) + 1
          \/ errorLoop' = Waiting /\ Len(fallback') = Len(fallback)
      BY <2>1, LoopFacts, EnqueueLength DEF RequeueError
    <3> QED
      BY <2>1, <3>1 DEF RequeueError
  <2>2. CASE IncrementError
    BY <2>2 DEF IncrementError
  <2>3. CASE StopErrors \/ \E m \in Messages : TakeError(m)
    BY <2>3 DEF StopErrors, TakeError
  <2> QED
    BY <1>5, <2>1, <2>2, <2>3 DEF ErrorLoop
<1>6. ASSUME NEW m \in Messages, Deliver(m) \/ Refuse(m) \/ DrainError(m)
     PROVE  Balanced'
  BY <1>2, <1>6 DEF Deliver, Refuse, DrainError
<1>7. CASE Close \/ CloseInput \/ UNCHANGED vars
  BY <1>2, <1>7 DEF Close, CloseInput, vars
<1> QED
  BY <1>3, <1>4, <1>5, <1>6, <1>7 DEF Next, Kafka

-----------------------------------------------------------------------------
(* Where a message is.                                                     *)

LEMMA PlacesAre ==
  ASSUME NEW m
  PROVE  \A p : p \in Places(m) <=>
            \/ p = "input" /\ m \in input
            \/ p = "errors" /\ m \in errors
            \/ p = "lost" /\ m \in lost
            \/ p = "dropped" /\ m \in dropped
            \/ p = "queue" /\ InQueue(m)
            \/ p = "replay" /\ replay.msg = m /\ replay.pc # "increment"
            \/ p = "error loop" /\ errorLoop.msg = m /\ errorLoop.pc # "increment"
  BY DEF Places

LEMMA PlacesWillBe ==
  ASSUME NEW m
  PROVE  \A p : p \in Places(m)' <=>
            \/ p = "input" /\ m \in input'
            \/ p = "errors" /\ m \in errors'
            \/ p = "lost" /\ m \in lost'
            \/ p = "dropped" /\ m \in dropped'
            \/ p = "queue" /\ InQueue(m)'
            \/ p = "replay" /\ replay'.msg = m /\ replay'.pc # "increment"
            \/ p = "error loop" /\ errorLoop'.msg = m /\ errorLoop'.pc # "increment"
  BY DEF Places

\* The same, place by place.
LEMMA PlaceOf ==
  ASSUME NEW m
  PROVE  /\ "input" \in Places(m) <=> m \in input
         /\ "errors" \in Places(m) <=> m \in errors
         /\ "lost" \in Places(m) <=> m \in lost
         /\ "dropped" \in Places(m) <=> m \in dropped
         /\ "queue" \in Places(m) <=> InQueue(m)
         /\ "replay" \in Places(m) <=> replay.msg = m /\ replay.pc # "increment"
         /\ "error loop" \in Places(m) <=> errorLoop.msg = m /\ errorLoop.pc # "increment"
  BY DEF Places

\* A message at one place is at no other.
LEMMA AloneAt ==
  ASSUME NEW m, NEW q, \A p \in Places(m) : p = q
  PROVE  /\ q # "input" => m \notin input
         /\ q # "errors" => m \notin errors
         /\ q # "lost" => m \notin lost
         /\ q # "dropped" => m \notin dropped
         /\ q # "queue" => ~InQueue(m)
         /\ q # "replay" => ~(replay.msg = m /\ replay.pc # "increment")
         /\ q # "error loop" => ~(errorLoop.msg = m /\ errorLoop.pc # "increment")
  BY PlaceOf

\* The parts of Accounted.
NoTwins == \A i, j \in DOMAIN fallback : fallback[i].msg = fallback[j].msg => i = j
Account(m) ==
    /\ \A p, q \in Places(m) : p = q
    /\ sender[m] \in {"increment", "accepted"} /\ phase # "panicked" =>
          Places(m) # {} \/ m \in delivered
    /\ sender[m] = "refused" => m \notin delivered /\ Places(m) \subseteq {"dropped"}
    /\ sender[m] \in {"idle", "waiting", "enqueue"} =>
          m \notin delivered /\ Places(m) = {}

LEMMA SamePlaces ==
  ASSUME NEW m,
         m \in input' <=> m \in input, m \in errors' <=> m \in errors,
         m \in lost' <=> m \in lost, m \in dropped' <=> m \in dropped,
         InQueue(m)' <=> InQueue(m),
         (replay'.msg = m /\ replay'.pc # "increment")
           <=> (replay.msg = m /\ replay.pc # "increment"),
         (errorLoop'.msg = m /\ errorLoop'.pc # "increment")
           <=> (errorLoop.msg = m /\ errorLoop.pc # "increment")
  PROVE  \A p : p \in Places(m)' <=> p \in Places(m)
  BY DEF Places

\* A message that a step does not touch stays in order.
LEMMA Untouched ==
  ASSUME NEW m, Account(m), phase # "panicked", sender'[m] = sender[m],
         m \in delivered' <=> m \in delivered,
         m \in input' <=> m \in input, m \in errors' <=> m \in errors,
         m \in lost' <=> m \in lost, m \in dropped' <=> m \in dropped,
         InQueue(m)' <=> InQueue(m),
         (replay'.msg = m /\ replay'.pc # "increment")
           <=> (replay.msg = m /\ replay.pc # "increment"),
         (errorLoop'.msg = m /\ errorLoop'.pc # "increment")
           <=> (errorLoop.msg = m /\ errorLoop.pc # "increment")
  PROVE  Account(m)'
<1>1. \A p : p \in Places(m)' <=> p \in Places(m)
  BY SamePlaces
<1> QED
  BY <1>1 DEF Account

\* What Enqueue does to the places of a message that was at none but perhaps in
\* the hands of the caller.
LEMMA EnqueuePlaces ==
  ASSUME TypeOK, NoTwins, NEW m \in Messages, ~InQueue(m), m \notin dropped,
         NEW retry \in Nat, NEW ok, NEW full, Enqueue(m, retry, ok, full)
  PROVE  /\ NoTwins'
         /\ \A n \in Messages \ {m} : /\ InQueue(n)' <=> InQueue(n)
                                      /\ n \in dropped' <=> n \in dropped
         /\ \/ ok /\ InQueue(m)' /\ m \notin dropped'
            \/ full /\ ~InQueue(m)' /\ m \in dropped'
<1>1. CASE retry < MaxRetries /\ Len(fallback) < FallbackSize
  <2>1. /\ Queued(m, retry) \in Entries /\ fallback \in Seq(Entries)
        /\ Queued(m, retry).msg = m
    BY <1>1 DEF Queued, Entries, TypeOK
  <2>2. /\ DOMAIN fallback' = DOMAIN fallback \cup {Len(fallback) + 1}
        /\ Len(fallback) + 1 \notin DOMAIN fallback
        /\ \A i \in DOMAIN fallback : fallback'[i] = fallback[i]
        /\ fallback'[Len(fallback) + 1].msg = m
        /\ ok /\ dropped' = dropped
    BY <1>1, <2>1, AppendEntry DEF Enqueue
  <2>3. NoTwins'
    BY <2>2 DEF NoTwins, InQueue
  <2>4. \A n : InQueue(n)' <=> InQueue(n) \/ n = m
    BY <2>2 DEF InQueue
  <2> QED
    BY <2>2, <2>3, <2>4
<1>2. CASE ~(retry < MaxRetries /\ Len(fallback) < FallbackSize)
  <2>1. full /\ fallback' = fallback /\ dropped' = dropped \cup {m}
    BY <1>2 DEF Enqueue, Drop
  <2> QED
    BY <2>1 DEF NoTwins, InQueue
<1> QED
  BY <1>1, <1>2

LEMMA SameQueue ==
  ASSUME fallback' = fallback
  PROVE  /\ NoTwins => NoTwins'
         /\ \A m : InQueue(m)' <=> InQueue(m)
  BY DEF NoTwins, InQueue

LEMMA PopPlaces ==
  ASSUME TypeOK, NoTwins, fallback # <<>>, fallback' = Tail(fallback),
         NEW m, m = Head(fallback).msg
  PROVE  /\ NoTwins'
         /\ m \in Messages /\ InQueue(m) /\ ~InQueue(m)'
         /\ \A n : n # m => (InQueue(n)' <=> InQueue(n))
<1>1. /\ fallback \in Seq(Entries)
      /\ Head(fallback) \in Entries /\ Head(fallback) = fallback[1] /\ 1 \in DOMAIN fallback
      /\ \A i \in DOMAIN fallback' :
            i \in Nat /\ i + 1 \in DOMAIN fallback /\ i + 1 # 1 /\ fallback'[i] = fallback[i + 1]
      /\ \A i \in DOMAIN fallback : i \in Nat /\ (i # 1 => i - 1 \in DOMAIN fallback')
  BY HeadAndTail DEF TypeOK, Entries
<1>2. NoTwins'
  BY <1>1 DEF NoTwins
<1>3. InQueue(m) /\ m \in Messages
  BY <1>1 DEF InQueue, Entries
<1>4. ASSUME NEW i \in DOMAIN fallback', fallback'[i].msg = m
     PROVE  FALSE
  <2>1. i + 1 \in DOMAIN fallback /\ fallback[i + 1].msg = fallback[1].msg
    BY <1>1, <1>4
  <2> QED
    BY <1>1, <2>1 DEF NoTwins
<1>5. ASSUME NEW n, n # m
     PROVE  InQueue(n)' <=> InQueue(n)
  <2>1. ASSUME NEW i \in DOMAIN fallback, fallback[i].msg = n
       PROVE  i - 1 \in DOMAIN fallback' /\ fallback'[i - 1] = fallback[i]
    <3>1. i \in Nat /\ i # 1 /\ i - 1 \in DOMAIN fallback'
      BY <1>1, <1>5, <2>1
    <3>2. fallback'[i - 1] = fallback[(i - 1) + 1] /\ (i - 1) + 1 = i
      BY <1>1, <3>1
    <3> QED
      BY <3>1, <3>2
  <2> QED
    BY <1>1, <2>1 DEF InQueue
<1> QED
  BY <1>2, <1>3, <1>4, <1>5 DEF InQueue

\* Where a message can be while its sender says so.
LEMMA Elsewhere ==
  ASSUME NEW m \in Messages, Account(m), TypeOK
  PROVE  /\ m \in input \cup errors =>
              ~InQueue(m) /\ m \notin dropped /\ m \notin lost
         /\ (replay.msg = m /\ replay.pc # "increment")
               \/ (errorLoop.msg = m /\ errorLoop.pc # "increment") =>
              ~InQueue(m) /\ m \notin dropped
         /\ Places(m) \ {"dropped"} # {} => sender[m] \in {"increment", "accepted"}
<1>1. \A p, q \in Places(m) : p = q
  BY DEF Account
<1>2. m \in input \cup errors => ~InQueue(m) /\ m \notin dropped /\ m \notin lost
  BY <1>1, PlaceOf
<1>3. ASSUME replay.msg = m, replay.pc # "increment"
     PROVE  ~InQueue(m) /\ m \notin dropped
  <2>1. \A p \in Places(m) : p = "replay"
    BY <1>1, <1>3, PlaceOf
  <2> QED
    BY <2>1, AloneAt
<1>4. ASSUME errorLoop.msg = m, errorLoop.pc # "increment"
     PROVE  ~InQueue(m) /\ m \notin dropped
  <2>1. \A p \in Places(m) : p = "error loop"
    BY <1>1, <1>4, PlaceOf
  <2> QED
    BY <2>1, AloneAt
<1>5. sender[m] \in {"idle", "waiting", "enqueue", "increment", "accepted", "refused"}
  BY DEF TypeOK
<1> QED
  BY <1>2, <1>3, <1>4, <1>5 DEF Account

\* A message that goes from one place to another, or into Kafka ("gone").
LEMMA Moved ==
  ASSUME TypeOK, NEW m \in Messages, Account(m),
         NEW from, from \in Places(m), from # "dropped", sender'[m] = sender[m],
         NEW to \in {"input", "errors", "lost", "dropped", "queue", "replay",
                     "error loop", "gone"},
         m \in input' <=> to = "input", m \in errors' <=> to = "errors",
         m \in lost' <=> to = "lost", m \in dropped' <=> to = "dropped",
         InQueue(m)' <=> to = "queue",
         (replay'.msg = m /\ replay'.pc # "increment") <=> to = "replay",
         (errorLoop'.msg = m /\ errorLoop'.pc # "increment") <=> to = "error loop",
         to = "gone" => m \in delivered' \/ phase' = "panicked"
  PROVE  Account(m)'
<1>1. sender[m] \in {"increment", "accepted"}
  BY Elsewhere
<1>2. \A p \in Places(m)' : p = to
  <2> SUFFICES ASSUME NEW p, p \in Places(m)'
               PROVE  p = to
    OBVIOUS
  <2>1. \/ p = "input" /\ m \in input'
        \/ p = "errors" /\ m \in errors'
        \/ p = "lost" /\ m \in lost'
        \/ p = "dropped" /\ m \in dropped'
        \/ p = "queue" /\ InQueue(m)'
        \/ p = "replay" /\ replay'.msg = m /\ replay'.pc # "increment"
        \/ p = "error loop" /\ errorLoop'.msg = m /\ errorLoop'.pc # "increment"
    BY PlacesWillBe
  <2> QED
    BY <2>1
<1>3. to # "gone" => to \in Places(m)'
  BY PlacesWillBe
<1> QED
  BY <1>1, <1>2, <1>3 DEF Account

LEMMA StepAccount ==
  ASSUME TypeOK, NoTwins, \A m \in Messages : Account(m), [Next]_vars
  PROVE  NoTwins' /\ \A m \in Messages : Account(m)'
<1> USE DEF history, loops, queue
<1>1. CASE UNCHANGED vars
  <2>1. ASSUME NEW m \in Messages
       PROVE  Account(m)'
    <3>1. \A p : p \in Places(m)' <=> p \in Places(m)
      BY <1>1, SameQueue, SamePlaces DEF vars
    <3> QED
      BY <1>1, <3>1 DEF vars, Account
  <2> QED
    BY <1>1, <2>1, SameQueue DEF vars
<1>2. CASE phase # "panicked" /\ Next
  <2>1. ASSUME NEW m \in Messages, Wait(m) \/ Divert(m) \/ SeeClosed(m)
       PROVE  NoTwins' /\ \A n \in Messages : Account(n)'
    <3>1. /\ UNCHANGED <<input, errors, queue, loops, dropped, lost, delivered, phase>>
          /\ \A n \in Messages \ {m} : sender'[n] = sender[n]
          /\ sender[m] \in {"idle", "waiting"}
          /\ sender'[m] \in {"waiting", "enqueue", "refused"}
      BY <2>1 DEF Wait, Divert, SeeClosed, Go, TypeOK
    <3>2. \A p : p \in Places(m)' <=> p \in Places(m)
      BY <3>1, SameQueue, SamePlaces
    <3>3. Account(m)'
      BY <3>1, <3>2 DEF Account
    <3>4. ASSUME NEW n \in Messages, n # m
         PROVE  Account(n)'
      BY <1>2, <3>1, <3>4, SameQueue, Untouched
    <3> QED
      BY <3>1, <3>3, <3>4, SameQueue
  <2>2. ASSUME NEW m \in Messages, Send(m)
       PROVE  NoTwins' /\ \A n \in Messages : Account(n)'
    <3>1. /\ UNCHANGED <<errors, queue, loops, dropped, lost, delivered>>
          /\ \A n \in Messages \ {m} : sender'[n] = sender[n]
          /\ sender[m] \in {"idle", "waiting"} /\ sender'[m] = "accepted"
          /\ \/ phase' = "panicked" /\ input' = input
             \/ phase' = phase /\ input' = input \cup {m}
      BY <2>2 DEF Send, PutInput, Go, TypeOK
    <3>2. m \notin delivered /\ \A p : p \notin Places(m)
      BY <3>1 DEF Account
    <3>a. /\ m \notin errors \cup lost \cup dropped /\ ~InQueue(m) /\ m \notin input
          /\ ~(replay.msg = m /\ replay.pc # "increment")
          /\ ~(errorLoop.msg = m /\ errorLoop.pc # "increment")
      BY <3>2, PlaceOf
    <3>b. m \in input' <=> phase' # "panicked"
      BY <1>2, <3>1, <3>a
    <3>3. \A p : p \in Places(m)' <=> p = "input" /\ phase' # "panicked"
      BY <3>1, <3>a, <3>b, SameQueue, PlacesWillBe
    <3>4. Account(m)'
      BY <3>1, <3>3 DEF Account
    <3>5. ASSUME NEW n \in Messages, n # m
         PROVE  Account(n)'
      BY <1>2, <3>1, <3>5, SameQueue, Untouched
    <3> QED
      BY <3>1, <3>4, <3>5, SameQueue
  <2>3. ASSUME NEW m \in Messages, EnqueueFirst(m)
       PROVE  NoTwins' /\ \A n \in Messages : Account(n)'
    <3>1. /\ UNCHANGED <<input, errors, loops, lost, delivered, phase>>
          /\ Enqueue(m, 0, Go(m, "increment"), Go(m, "refused"))
          /\ sender[m] = "enqueue" /\ m \notin delivered /\ Places(m) = {}
      BY <2>3 DEF EnqueueFirst, Account
    <3>2. ~InQueue(m) /\ m \notin dropped
      BY <3>1, PlacesAre
    <3>3. /\ NoTwins'
          /\ \A n \in Messages \ {m} : /\ InQueue(n)' <=> InQueue(n)
                                       /\ n \in dropped' <=> n \in dropped
          /\ \/ Go(m, "increment") /\ InQueue(m)' /\ m \notin dropped'
             \/ Go(m, "refused") /\ ~InQueue(m)' /\ m \in dropped'
      BY <3>1, <3>2, EnqueuePlaces
    <3>4. /\ \A n \in Messages \ {m} : sender'[n] = sender[n]
          /\ \/ sender'[m] = "increment" /\ InQueue(m)' /\ m \notin dropped'
             \/ sender'[m] = "refused" /\ ~InQueue(m)' /\ m \in dropped'
      BY <3>3 DEF Go, TypeOK
    <3>5. /\ m \notin input' /\ m \notin errors' /\ m \notin lost'
          /\ ~(replay'.msg = m /\ replay'.pc # "increment")
          /\ ~(errorLoop'.msg = m /\ errorLoop'.pc # "increment")
      BY <3>1, PlacesAre
    <3>6. \A p : p \in Places(m)' <=> p = IF sender'[m] = "increment" THEN "queue" ELSE "dropped"
      <4>1. CASE sender'[m] = "increment"
        BY <3>4, <3>5, <4>1, PlacesWillBe
      <4>2. CASE sender'[m] # "increment"
        BY <3>4, <3>5, <4>2, PlacesWillBe
      <4> QED
        BY <4>1, <4>2
    <3>7. Account(m)'
      BY <3>1, <3>4, <3>6 DEF Account
    <3>8. ASSUME NEW n \in Messages, n # m
         PROVE  Account(n)'
      BY <1>2, <3>1, <3>3, <3>4, <3>8, Untouched
    <3> QED
      BY <3>3, <3>7, <3>8
  <2>4. ASSUME NEW m \in Messages, Increment(m)
       PROVE  NoTwins' /\ \A n \in Messages : Account(n)'
    <3>1. /\ UNCHANGED <<input, errors, fallback, loops, dropped, lost, delivered, phase>>
          /\ \A n \in Messages \ {m} : sender'[n] = sender[n]
          /\ sender[m] = "increment" /\ sender'[m] = "accepted"
      BY <2>4 DEF Increment, Go, TypeOK
    <3>2. \A p : p \in Places(m)' <=> p \in Places(m)
      BY <3>1, SameQueue, SamePlaces
    <3>3. Account(m)'
      BY <3>1, <3>2 DEF Account
    <3>4. ASSUME NEW n \in Messages, n # m
         PROVE  Account(n)'
      BY <1>2, <3>1, <3>4, SameQueue, Untouched
    <3> QED
      BY <3>1, <3>3, <3>4, SameQueue
  <2>5. CASE Pop
    <3> SUFFICES ASSUME NEW m, m = Head(fallback).msg
                 PROVE  NoTwins' /\ \A n \in Messages : Account(n)'
      OBVIOUS
    <3>1. /\ UNCHANGED <<sender, input, errors, errorLoop, dropped, lost, delivered, phase>>
          /\ replay.msg = NoMessage /\ replay'.msg = m /\ replay'.pc = "decrement"
          /\ fallback # <<>> /\ fallback' = Tail(fallback)
      BY <2>5 DEF Pop, Replay, Loop, Waiting
    <3>a. NoMessage \notin Messages
      BY DEF NoMessage
    <3>2. /\ NoTwins' /\ m \in Messages /\ InQueue(m) /\ ~InQueue(m)'
          /\ \A n : n # m => (InQueue(n)' <=> InQueue(n))
      BY <3>1, PopPlaces
    <3>4. "queue" \in Places(m)
      BY <3>2, PlacesAre
    <3>5. \A p \in Places(m) : p = "queue"
      BY <3>2, <3>4 DEF Account
    <3>6. /\ m \notin input \cup errors \cup lost \cup dropped
          /\ ~(errorLoop.msg = m /\ errorLoop.pc # "increment")
      BY <3>5, AloneAt
    <3>7. Account(m)'
      BY <3>1, <3>2, <3>4, <3>6, Moved
    <3>8. ASSUME NEW n \in Messages, n # m
         PROVE  Account(n)'
      BY <1>2, <3>1, <3>2, <3>a, <3>8, Untouched
    <3> QED
      BY <3>2, <3>7, <3>8
  <2>6. CASE Decrement \/ StillFull \/ IncrementReplayed \/ BackOff \/ StopReplay
                \/ IncrementError \/ StopErrors \/ Close \/ CloseInput
    <3>1. /\ UNCHANGED <<sender, input, errors, fallback, dropped, lost, delivered>>
          /\ phase' # "panicked"
      BY <1>2, <2>6 DEF Decrement, StillFull, IncrementReplayed, BackOff, StopReplay,
                   IncrementError, StopErrors, Close, CloseInput
    <3>2. /\ replay.msg \notin Messages \/ replay.pc = "increment" =>
                replay'.msg \notin Messages \/ replay'.pc = "increment"
          /\ replay.msg \in Messages /\ replay.pc # "increment" =>
                replay'.msg = replay.msg /\ replay'.pc # "increment"
      BY <2>6, LoopFacts DEF Decrement, StillFull, IncrementReplayed, BackOff, StopReplay,
           IncrementError, StopErrors, Close, CloseInput, Replay, Loop, Waiting, Stopped,
           NoMessage
    <3>3. /\ errorLoop.msg \notin Messages \/ errorLoop.pc = "increment" =>
                errorLoop'.msg \notin Messages \/ errorLoop'.pc = "increment"
          /\ errorLoop.msg \in Messages /\ errorLoop.pc # "increment" =>
                errorLoop'.msg = errorLoop.msg /\ errorLoop'.pc # "increment"
      BY <2>6, LoopFacts DEF Decrement, StillFull, IncrementReplayed, BackOff, StopReplay,
           IncrementError, StopErrors, Close, CloseInput, Loop, Waiting, Stopped, NoMessage
    <3>4. ASSUME NEW n \in Messages
         PROVE  Account(n)'
      BY <1>2, <3>1, <3>2, <3>3, SameQueue, Untouched
    <3> QED
      BY <3>1, <3>4, SameQueue
  <2>7. CASE Expire \/ Resend
    <3> SUFFICES ASSUME NEW m, m = replay.msg
                 PROVE  NoTwins' /\ \A n \in Messages : Account(n)'
      OBVIOUS
    <3>1. /\ UNCHANGED <<sender, errors, fallback, errorLoop, lost, delivered>>
          /\ replay.pc = "check" /\ replay'.msg = NoMessage
          /\ \/ dropped' = dropped \cup {m} /\ UNCHANGED <<input, phase>>
             \/ input' = input \cup {m} /\ UNCHANGED <<dropped, phase>>
             \/ phase' = "panicked" /\ UNCHANGED <<input, dropped>>
      BY <2>7 DEF Expire, Resend, Drop, PutInput, Waiting, Loop
    <3>2. m \in Messages /\ NoMessage \notin Messages
      BY <3>1, LoopFacts DEF NoMessage
    <3>4. "replay" \in Places(m)
      BY <3>1, PlacesAre
    <3>5. \A p \in Places(m) : p = "replay"
      BY <3>2, <3>4 DEF Account
    <3>6. /\ m \notin input \cup errors \cup lost \cup dropped /\ ~InQueue(m)
          /\ ~(errorLoop.msg = m /\ errorLoop.pc # "increment")
      BY <3>5, AloneAt
    <3>7. Account(m)'
      <4>1. replay'.msg # m /\ ~InQueue(m)'
        BY <3>1, <3>2, <3>6, SameQueue
      <4>2. CASE dropped' = dropped \cup {m} /\ UNCHANGED <<input, phase>>
        BY <3>1, <3>2, <3>4, <3>6, <4>1, <4>2, Moved
      <4>3. CASE input' = input \cup {m} /\ UNCHANGED <<dropped, phase>>
        BY <3>1, <3>2, <3>4, <3>6, <4>1, <4>3, Moved
      <4>4. CASE phase' = "panicked" /\ UNCHANGED <<input, dropped>>
        BY <3>1, <3>2, <3>4, <3>6, <4>1, <4>4, Moved
      <4> QED
        BY <3>1, <4>2, <4>3, <4>4
    <3>8. ASSUME NEW n \in Messages, n # m
         PROVE  Account(n)'
      BY <1>2, <3>1, <3>2, <3>8, SameQueue, Untouched
    <3> QED
      BY <3>1, <3>7, <3>8, SameQueue
  <2>8. CASE Requeue
    <3> SUFFICES ASSUME NEW m, m = replay.msg
                 PROVE  NoTwins' /\ \A n \in Messages : Account(n)'
      OBVIOUS
    <3>1. /\ UNCHANGED <<sender, input, errors, errorLoop, lost, delivered, phase>>
          /\ replay.pc = "requeue"
          /\ Enqueue(m, replay.retry + 1, Replay("increment", m, replay.retry),
                     Replay("backoff", NoMessage, 0))
      BY <2>8 DEF Requeue
    <3>2. m \in Messages /\ replay.retry + 1 \in Nat /\ NoMessage \notin Messages
      BY <3>1, LoopFacts DEF NoMessage
    <3>3. "replay" \in Places(m)
      BY <3>1, PlacesAre
    <3>4. \A p \in Places(m) : p = "replay"
      BY <3>2, <3>3 DEF Account
    <3>5. ~InQueue(m) /\ m \notin dropped
      BY <3>4, PlacesAre
    <3>6. /\ NoTwins'
          /\ \A n \in Messages \ {m} : /\ InQueue(n)' <=> InQueue(n)
                                       /\ n \in dropped' <=> n \in dropped
          /\ \/ /\ Replay("increment", m, replay.retry)
                /\ InQueue(m)' /\ m \notin dropped'
             \/ /\ Replay("backoff", NoMessage, 0)
                /\ ~InQueue(m)' /\ m \in dropped'
      BY <3>1, <3>2, <3>5, EnqueuePlaces
    <3>7. \/ /\ replay'.msg = m /\ replay'.pc = "increment"
             /\ InQueue(m)' /\ m \notin dropped'
          \/ replay'.msg = NoMessage /\ ~InQueue(m)' /\ m \in dropped'
      BY <3>6 DEF Replay, Loop
    <3>9. /\ m \notin input \cup errors \cup lost
          /\ ~(errorLoop.msg = m /\ errorLoop.pc # "increment")
      BY <3>4, AloneAt
    <3>10. Account(m)'
      <4>1. CASE replay'.msg = m /\ replay'.pc = "increment" /\ InQueue(m)' /\ m \notin dropped'
        BY <3>1, <3>2, <3>3, <3>9, <4>1, Moved
      <4>2. CASE replay'.msg = NoMessage /\ ~InQueue(m)' /\ m \in dropped'
        BY <3>1, <3>2, <3>3, <3>9, <4>2, Moved
      <4> QED
        BY <3>7, <4>1, <4>2
    <3>11. ASSUME NEW n \in Messages, n # m
          PROVE  Account(n)'
      BY <1>2, <3>1, <3>2, <3>6, <3>7, <3>11, Untouched
    <3> QED
      BY <3>6, <3>10, <3>11
  <2>9. CASE RequeueError
    <3> SUFFICES ASSUME NEW m, m = errorLoop.msg
                 PROVE  NoTwins' /\ \A n \in Messages : Account(n)'
      OBVIOUS
    <3>1. /\ UNCHANGED <<sender, input, errors, replay, lost, delivered, phase>>
          /\ errorLoop.pc = "requeue"
          /\ Enqueue(m, 0, errorLoop' = Loop("increment", m, 0), errorLoop' = Waiting)
      BY <2>9 DEF RequeueError
    <3>2. m \in Messages /\ NoMessage \notin Messages
      BY <3>1, LoopFacts DEF NoMessage
    <3>3. "error loop" \in Places(m)
      BY <3>1, PlacesAre
    <3>4. \A p \in Places(m) : p = "error loop"
      BY <3>2, <3>3 DEF Account
    <3>5. ~InQueue(m) /\ m \notin dropped
      BY <3>4, PlacesAre
    <3>6. /\ NoTwins'
          /\ \A n \in Messages \ {m} : /\ InQueue(n)' <=> InQueue(n)
                                       /\ n \in dropped' <=> n \in dropped
          /\ \/ /\ errorLoop' = Loop("increment", m, 0)
                /\ InQueue(m)' /\ m \notin dropped'
             \/ errorLoop' = Waiting /\ ~InQueue(m)' /\ m \in dropped'
      BY <3>1, <3>2, <3>5, EnqueuePlaces
    <3>7. \/ /\ errorLoop'.msg = m /\ errorLoop'.pc = "increment"
             /\ InQueue(m)' /\ m \notin dropped'
          \/ errorLoop'.msg = NoMessage /\ ~InQueue(m)' /\ m \in dropped'
      BY <3>6 DEF Waiting, Loop
    <3>9. /\ m \notin input \cup errors \cup lost
          /\ ~(replay.msg = m /\ replay.pc # "increment")
      BY <3>4, AloneAt
    <3>10. Account(m)'
      <4>1. CASE errorLoop'.msg = m /\ errorLoop'.pc = "increment" /\ InQueue(m)' /\ m \notin dropped'
        BY <3>1, <3>2, <3>3, <3>9, <4>1, Moved
      <4>2. CASE errorLoop'.msg = NoMessage /\ ~InQueue(m)' /\ m \in dropped'
        BY <3>1, <3>2, <3>3, <3>9, <4>2, Moved
      <4> QED
        BY <3>7, <4>1, <4>2
    <3>11. ASSUME NEW n \in Messages, n # m
          PROVE  Account(n)'
      BY <1>2, <3>1, <3>2, <3>6, <3>7, <3>11, Untouched
    <3> QED
      BY <3>6, <3>10, <3>11
  <2>10. ASSUME NEW m \in Messages, TakeError(m) \/ DrainError(m)
        PROVE  NoTwins' /\ \A n \in Messages : Account(n)'
    <3>1. /\ UNCHANGED <<sender, input, fallback, replay, dropped, delivered, phase>>
          /\ m \in errors /\ errors' = errors \ {m}
          /\ \/ /\ errorLoop.msg = NoMessage /\ UNCHANGED lost
                /\ errorLoop'.msg = m /\ errorLoop'.pc = "requeue"
             \/ lost' = lost \cup {m} /\ UNCHANGED errorLoop
      BY <2>10 DEF TakeError, DrainError, Waiting, Loop
    <3>2. NoMessage \notin Messages
      BY DEF NoMessage
    <3>4. "errors" \in Places(m)
      BY <3>1, PlacesAre
    <3>5. \A p \in Places(m) : p = "errors"
      BY <3>4 DEF Account
    <3>6. /\ m \notin input \cup lost \cup dropped /\ ~InQueue(m)
          /\ ~(replay.msg = m /\ replay.pc # "increment")
          /\ ~(errorLoop.msg = m /\ errorLoop.pc # "increment")
      BY <3>5, AloneAt
    <3>7. Account(m)'
      <4>1. ~InQueue(m)'
        BY <3>1, <3>6, SameQueue
      <4>2. CASE /\ errorLoop.msg = NoMessage /\ UNCHANGED lost
                 /\ errorLoop'.msg = m /\ errorLoop'.pc = "requeue"
        BY <3>1, <3>4, <3>6, <4>1, <4>2, Moved
      <4>3. CASE lost' = lost \cup {m} /\ UNCHANGED errorLoop
        BY <3>1, <3>4, <3>6, <4>1, <4>3, Moved
      <4> QED
        BY <3>1, <4>2, <4>3
    <3>8. ASSUME NEW n \in Messages, n # m
         PROVE  Account(n)'
      BY <1>2, <3>1, <3>2, <3>8, SameQueue, Untouched
    <3> QED
      BY <3>1, <3>7, <3>8, SameQueue
  <2>11. ASSUME NEW m \in Messages, Deliver(m) \/ Refuse(m)
        PROVE  NoTwins' /\ \A n \in Messages : Account(n)'
    <3>1. /\ UNCHANGED <<sender, fallback, loops, dropped, lost, phase>>
          /\ m \in input /\ input' = input \ {m}
          /\ \/ UNCHANGED errors /\ delivered' = delivered \cup {m}
             \/ errors' = errors \cup {m} /\ delivered' \in {delivered, delivered \cup {m}}
      BY <2>11 DEF Deliver, Refuse
    <3>3. "input" \in Places(m)
      BY <3>1, PlacesAre
    <3>4. \A p \in Places(m) : p = "input"
      BY <3>3 DEF Account
    <3>5. /\ m \notin errors \cup lost \cup dropped /\ ~InQueue(m)
          /\ ~(replay.msg = m /\ replay.pc # "increment")
          /\ ~(errorLoop.msg = m /\ errorLoop.pc # "increment")
      BY <3>4, AloneAt
    <3>6. Account(m)'
      <4>1. ~InQueue(m)'
        BY <3>1, <3>5, SameQueue
      <4>2. CASE UNCHANGED errors /\ delivered' = delivered \cup {m}
        BY <3>1, <3>3, <3>5, <4>1, <4>2, Moved
      <4>3. CASE errors' = errors \cup {m}
        BY <3>1, <3>3, <3>5, <4>1, <4>3, Moved
      <4> QED
        BY <3>1, <4>2, <4>3
    <3>7. ASSUME NEW n \in Messages, n # m
         PROVE  Account(n)'
      BY <1>2, <3>1, <3>7, SameQueue, Untouched
    <3> QED
      BY <3>1, <3>6, <3>7, SameQueue
  <2> QED
    BY <1>2, <2>1, <2>2, <2>3, <2>4, <2>5, <2>6, <2>7, <2>8, <2>9, <2>10, <2>11
       DEF Next, Call, ReplayLoop, ErrorLoop, Kafka
<1> QED
  BY <1>1, <1>2 DEF Next

-----------------------------------------------------------------------------
(* Theorems.                                                               *)

Inv ==
    TypeOK /\ Balanced /\ NoTwins /\ \A m \in Messages : Account(m)

LEMMA InitInv == Init => Inv
<1> SUFFICES ASSUME Init
             PROVE  Inv
  OBVIOUS
<1>1. TypeOK
  <2>1. Cardinality(input) = 0 /\ Len(fallback) = 0
    BY FS_EmptySet DEF Init
  <2>2. fallback \in Seq(Entries)
    BY DEF Init
  <2> QED
    BY <2>1, <2>2 DEF Init, TypeOK, LoopStates, Entries
<1>2. Balanced
  <2>1. {m \in Messages : sender[m] = "increment"} = {}
    BY DEF Init
  <2>2. AtCounter = 0
    BY <2>1, FS_EmptySet DEF AtCounter
  <2> QED
    BY <2>2 DEF Init, Balanced, Waiting, Loop
<1>3. DOMAIN fallback = {}
  BY DEF Init
<1>4. NoTwins
  BY <1>3 DEF NoTwins
<1>5. ASSUME NEW m \in Messages
     PROVE  Account(m)
  <2>1. \A p : p \notin Places(m)
    BY <1>3, PlacesAre DEF Init, Waiting, Loop, NoMessage, InQueue
  <2> QED
    BY <2>1 DEF Init, Account
<1> QED
  BY <1>1, <1>2, <1>4, <1>5 DEF Inv

\* The inductive invariant: types, one place per message, and what the counter
\* beside the queue says of it.
THEOREM ProducerInvariant == Spec => []Inv
<1>1. Inv /\ [Next]_vars => Inv'
  BY StepTypes, StepBalance, StepAccount DEF Inv
<1> QED
  BY InitInv, <1>1, PTL DEF Spec

\* The types: among them the bounds, that sarama never holds more than Input
\* takes nor the queue more than its capacity, and that no message in it has
\* used up its retries.
THEOREM TypeCorrect == Spec => []TypeOK
<1>1. Inv => TypeOK
  BY DEF Inv
<1> QED
  BY ProducerInvariant, <1>1, PTL

\* fallbackLen, which Close and monitoring read, is off the length of the queue
\* by no more than the goroutines that are between the two.
THEOREM CounterFollowsQueue == Spec => []LengthAgrees
<1>1. Inv => LengthAgrees
  BY LengthIsBalance DEF Inv
<1> QED
  BY ProducerInvariant, <1>1, PTL

\* Nothing that Send accepted vanishes without being counted or sent, and nothing
\* is in two places, in whatever order the calls, the loops, Kafka and Close run.
THEOREM NothingVanishes == Spec => []Accounted
<1>1. Inv => Accounted
  BY DEF Inv, Accounted, NoTwins, Account
<1> QED
  BY ProducerInvariant, <1>1, PTL

-----------------------------------------------------------------------------
(* Seen from outside: a channel that may drop messages and counts them.    *)

Taken == {m \in Messages : sender[m] \in {"increment", "accepted"}} \cup dropped

\* Where a step of the producer leads, for all that the channel shows.
Shows(m) ==
    \/ UNCHANGED <<Taken, delivered, dropped, drops>>
    \/ KeepsCount!Take(m) \/ KeepsCount!Arrive(m) \/ KeepsCount!GiveUp(m)
    \/ KeepsCount!Refuse(m)

\* A message that the producer holds has been taken and not been given up.
LEMMA HeldIsTaken ==
  ASSUME Inv, NEW m \in Messages,
         NEW p \in {"input", "errors", "lost", "queue", "replay", "error loop"},
         p \in Places(m)
  PROVE  m \in Taken \ dropped
<1>1. Account(m) /\ TypeOK
  BY DEF Inv
<1>2. sender[m] \in {"increment", "accepted"}
  BY <1>1, Elsewhere
<1>3. "dropped" \notin Places(m)
  BY <1>1 DEF Account
<1> QED
  BY <1>2, <1>3, PlaceOf DEF Taken

\* A message whose call is not through is not in the channel's books.
LEMMA OutsideIsNotTaken ==
  ASSUME Inv, NEW m \in Messages, sender[m] \in {"idle", "waiting", "enqueue"}
  PROVE  m \notin Taken
<1>1. Places(m) = {}
  BY DEF Inv, Account
<1> QED
  BY <1>1, PlaceOf DEF Taken

LEMMA SameBooks ==
  ASSUME UNCHANGED <<sender, dropped, drops, delivered>>, NEW m
  PROVE  Shows(m)
  BY DEF Shows, Taken

LEMMA GivesUp ==
  ASSUME NEW m \in Messages, m \in Taken \ dropped, Drop(m), UNCHANGED <<sender, delivered>>
  PROVE  Shows(m)
<1>1. Taken' = Taken
  BY DEF Drop, Taken
<1> QED
  BY <1>1 DEF Shows, Taken, Drop, KeepsCount!GiveUp

LEMMA StepShows ==
  ASSUME Inv, [Next]_vars
  PROVE  UNCHANGED <<Taken, delivered, dropped, drops>> \/ \E m \in Messages : Shows(m)
<1> USE DEF history, loops, queue
<1>1. CASE UNCHANGED vars
  BY <1>1 DEF vars, Taken
<1>2. ASSUME NEW m \in Messages, Wait(m) \/ Divert(m) \/ SeeClosed(m)
     PROVE  Shows(m)
  <2>1. /\ UNCHANGED <<dropped, drops, delivered>>
        /\ \A n \in Messages \ {m} : sender'[n] = sender[n]
        /\ sender[m] \in {"idle", "waiting"}
        /\ sender'[m] \in {"waiting", "enqueue", "refused"}
    BY <1>2 DEF Wait, Divert, SeeClosed, Go, TypeOK, Inv
  <2>2. Taken' = Taken
    BY <2>1 DEF Taken
  <2> QED
    BY <2>1, <2>2 DEF Shows
<1>3. ASSUME NEW m \in Messages, Send(m)
     PROVE  Shows(m)
  <2>1. /\ UNCHANGED <<dropped, drops, delivered>>
        /\ \A n \in Messages \ {m} : sender'[n] = sender[n]
        /\ sender[m] \in {"idle", "waiting"} /\ sender'[m] = "accepted"
    BY <1>3 DEF Send, Go, TypeOK, Inv
  <2>2. Taken' = Taken \cup {m}
    BY <2>1 DEF Taken
  <2>3. m \notin Taken
    BY <2>1, OutsideIsNotTaken
  <2> QED
    BY <2>1, <2>2, <2>3 DEF Shows, Taken, KeepsCount!Take
<1>4. ASSUME NEW m \in Messages, EnqueueFirst(m)
     PROVE  Shows(m)
  <2>1. /\ UNCHANGED delivered
        /\ sender[m] = "enqueue" /\ m \notin Taken
        /\ \/ Go(m, "increment") /\ UNCHANGED <<dropped, drops>>
           \/ Go(m, "refused") /\ Drop(m)
    BY <1>4, OutsideIsNotTaken DEF EnqueueFirst, Enqueue
  <2>2. CASE Go(m, "increment") /\ UNCHANGED <<dropped, drops>>
    <3>1. Taken' = Taken \cup {m}
      BY <2>2 DEF Taken, Go, TypeOK, Inv
    <3> QED
      BY <2>1, <2>2, <3>1 DEF Shows, Taken, KeepsCount!Take
  <2>3. CASE Go(m, "refused") /\ Drop(m)
    <3>1. Taken' = Taken \cup {m}
      BY <2>1, <2>3 DEF Taken, Go, Drop, TypeOK, Inv
    <3> QED
      BY <2>1, <2>3, <3>1 DEF Shows, Taken, Drop, KeepsCount!Refuse
  <2> QED
    BY <2>1, <2>2, <2>3
<1>5. ASSUME NEW m \in Messages, Increment(m)
     PROVE  Shows(m)
  <2>1. UNCHANGED <<dropped, drops, delivered>> /\ Taken' = Taken
    BY <1>5 DEF Increment, Taken, Go, TypeOK, Inv
  <2> QED
    BY <2>1 DEF Shows
<1>6. CASE Expire \/ Requeue
  <2>1. /\ replay.msg \in Messages /\ replay.pc # "increment"
        /\ UNCHANGED <<sender, delivered>>
        /\ Drop(replay.msg) \/ UNCHANGED <<dropped, drops>>
    BY <1>6, LoopFacts DEF Expire, Requeue, Enqueue, Inv
  <2>2. replay.msg \in Taken \ dropped
    <3>1. "replay" \in Places(replay.msg)
      BY <2>1, PlaceOf
    <3> QED
      BY <2>1, <3>1, HeldIsTaken
  <2> QED
    BY <2>1, <2>2, GivesUp, SameBooks
<1>7. CASE RequeueError
  <2>1. /\ errorLoop.msg \in Messages /\ errorLoop.pc # "increment"
        /\ UNCHANGED <<sender, delivered>>
        /\ Drop(errorLoop.msg) \/ UNCHANGED <<dropped, drops>>
    BY <1>7, LoopFacts DEF RequeueError, Enqueue, Inv
  <2>2. errorLoop.msg \in Taken \ dropped
    <3>1. "error loop" \in Places(errorLoop.msg)
      BY <2>1, PlaceOf
    <3> QED
      BY <2>1, <3>1, HeldIsTaken
  <2> QED
    BY <2>1, <2>2, GivesUp, SameBooks
<1>8. ASSUME NEW m \in Messages, Deliver(m) \/ Refuse(m)
     PROVE  Shows(m)
  <2>1. /\ UNCHANGED <<sender, dropped, drops>> /\ m \in input
        /\ delivered' \in {delivered, delivered \cup {m}}
    BY <1>8 DEF Deliver, Refuse
  <2>2. m \in Taken \ dropped /\ Taken' = Taken
    BY <2>1, PlaceOf, HeldIsTaken DEF Taken
  <2> QED
    BY <2>1, <2>2, SameBooks DEF Shows, Taken, KeepsCount!Arrive
<1>9. CASE \/ Pop \/ Decrement \/ Resend \/ StillFull \/ IncrementReplayed
           \/ BackOff \/ StopReplay \/ (\E m \in Messages : TakeError(m) \/ DrainError(m))
           \/ IncrementError \/ StopErrors \/ Close \/ CloseInput
  <2>1. UNCHANGED <<sender, dropped, drops, delivered>>
    BY <1>9 DEF Pop, Decrement, Resend, StillFull, IncrementReplayed, BackOff, StopReplay,
       TakeError, DrainError, IncrementError, StopErrors, Close, CloseInput
  <2> QED
    BY <2>1 DEF Taken
<1> QED
  BY <1>1, <1>2, <1>3, <1>4, <1>5, <1>6, <1>7, <1>8, <1>9
     DEF Next, Call, ReplayLoop, ErrorLoop, Kafka

\* Whatever the calls, the loops and Kafka do, the producer behaves as a channel
\* that drops only what it has taken, counts each message it drops once, and
\* never delivers what it has counted.
THEOREM CountsWhatItDrops == Spec => CountsDrops
<1>1. Init => KeepsCount!Init
  BY DEF Init, KeepsCount!Init
<1>2. Inv /\ [Next]_vars => [KeepsCount!Next]_<<Taken, delivered, dropped, drops>>
  BY StepShows DEF Shows, KeepsCount!Next
<1>3. Inv /\ [Next]_vars =>
        [KeepsCount!Next]_<<{m \in Messages : sender[m] \in {"increment", "accepted"}}
                              \cup dropped, delivered, dropped, drops>>
  BY <1>2 DEF Taken
<1> QED
  BY <1>1, <1>3, ProducerInvariant, PTL DEF Spec, CountsDrops, KeepsCount!Spec

\* The count is exact.
DropCount == drops = Cardinality(dropped)

\* The metric that monitoring reads is the number of messages given up: none is
\* counted twice, whichever of the three goroutines gives it up.
THEOREM DropsAreExact == Spec => []DropCount
<1>1. Init => DropCount
  BY FS_EmptySet DEF Init, DropCount
<1>2. ASSUME Inv, DropCount, [Next]_vars
     PROVE  DropCount'
  <2>1. IsFiniteSet(dropped)
    BY <1>2, FS_Subset DEF Inv, TypeOK
  <2>2. CASE UNCHANGED <<dropped, drops>>
    BY <1>2, <2>2 DEF DropCount
  <2>3. ASSUME NEW m \in Messages, m \notin dropped, Drop(m)
       PROVE  DropCount'
    BY <1>2, <2>1, <2>3, FS_AddElement DEF Drop, DropCount
  <2>4. UNCHANGED <<dropped, drops>> \/ \E m \in Messages : m \notin dropped /\ Drop(m)
    BY <1>2, StepShows
       DEF Shows, Taken, Drop, KeepsCount!Take, KeepsCount!Arrive, KeepsCount!GiveUp,
           KeepsCount!Refuse
  <2> QED
    BY <2>2, <2>3, <2>4
<1> QED
  BY <1>1, <1>2, ProducerInvariant, PTL DEF Spec
=============================================================================
