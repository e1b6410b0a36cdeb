---------------------------- MODULE AgentPresence ----------------------------
(***************************************************************************)
(* Whether an Agent is there: its connections to the AgentCenters, the     *)
(* connection table of each AgentCenter (agentcenter/transfer/service.go), *)
(* and what they, the heartbeat scan and the Consumer write about it: the  *)
(* status and last heartbeat of its host.  (Its alert is in OfflineAlert.)  *)
(*                                                                         *)
(* One Agent; a connection is a run of Transfer.  Its stream breaks for    *)
(* both ends at once, which find out each in its own time.  Of the last    *)
(* heartbeat only its age is kept: five minutes without one make it stale. *)
(***************************************************************************)
EXTENDS Naturals, FiniteSets

CONSTANTS
    ACs,       \* AgentCenters
    Scanning,  \* those of them whose heartbeat scan runs
    Conns,     \* connections at a time, those the Agent has given up included
    None,
    MaxFaults  \* bound on broken streams, crashes, delays, redeliveries

ASSUME PresenceAssumption ==
    /\ None \notin ACs \cup Conns /\ Scanning \subseteq ACs
    /\ MaxFaults \in Nat

VARIABLES
    running,    \* the Agent has not stopped for good
    live,       \* the connection the Agent uses
    on,         \* connection -> its AgentCenter while it lasts
    stage,      \* connection -> where Transfer stands
    up,         \* connection -> its stream is not broken
    cancelled,  \* connection -> Connection.cancel was called
    inbox,      \* connection -> packets to receive
    table,      \* AgentCenter -> Service.connections of the Agent
    scan,       \* AgentCenter -> where its heartbeat scan stands
    kafka,      \* ages of the heartbeats on their way to the Consumer
    status,     \* hosts.status
    beat,       \* age of hosts.last_heartbeat
    faults

connection == <<on, stage, up, cancelled, inbox>>
host == <<status, beat>>
vars == <<running, live, connection, table, scan, kafka, host, faults>>

Ages == {"fresh", "stale"}
Registered == {"open", "loop", "recv"}

TypeOK ==
    /\ running \in BOOLEAN /\ live \in Conns \cup {None}
    /\ on \in [Conns -> ACs \cup {None}]
    /\ stage \in [Conns -> {"free", "first", "ended", "offline", "alert"} \cup Registered]
    /\ up \in [Conns -> BOOLEAN] /\ cancelled \in [Conns -> BOOLEAN]
    /\ inbox \in [Conns -> 0..1]
    /\ table \in [ACs -> Conns \cup {None}]
    /\ scan \in [Scanning -> {"wait", "mark", "alert"}]
    /\ kafka \subseteq Ages
    /\ status \in {"online", "offline"} /\ beat \in Ages
    /\ faults \in 0..MaxFaults

\* A host that was seen before and is offline.
Init ==
    /\ running = TRUE /\ live = None
    /\ on = [c \in Conns |-> None] /\ stage = [c \in Conns |-> "free"]
    /\ up = [c \in Conns |-> FALSE] /\ cancelled = [c \in Conns |-> FALSE]
    /\ inbox = [c \in Conns |-> 0]
    /\ table = [a \in ACs |-> None] /\ scan = [a \in Scanning |-> "wait"]
    /\ kafka = {} /\ status = "offline" /\ beat = "stale"
    /\ faults = 0

Fault == faults < MaxFaults /\ faults' = faults + 1
To(c, place) == stage' = [stage EXCEPT ![c] = place]

-----------------------------------------------------------------------------
(* The Agent.                                                              *)

\* A new stream, with a heartbeat as its first packet.
Connect(c, a) ==
    /\ running /\ live = None
    /\ stage[c] = "free"
    /\ live' = c
    /\ on' = [on EXCEPT ![c] = a]
    /\ up' = [up EXCEPT ![c] = TRUE]
    /\ To(c, "first")
    /\ UNCHANGED <<running, cancelled, inbox, table, scan, kafka, host, faults>>

Beat ==
    /\ live # None /\ up[live] /\ inbox[live] = 0
    /\ inbox' = [inbox EXCEPT ![live] = 1]
    /\ UNCHANGED <<running, live, on, stage, up, cancelled, table, scan, kafka,
                   host, faults>>

Notice ==
    /\ live # None /\ ~up[live]
    /\ live' = None
    /\ UNCHANGED <<running, connection, table, scan, kafka, host, faults>>

Break ==
    /\ live # None /\ up[live] /\ Fault
    /\ up' = [up EXCEPT ![live] = FALSE]
    /\ UNCHANGED <<running, live, on, stage, cancelled, inbox, table, scan, kafka,
                   host>>

\* For good: to an AgentCenter, a restart is a broken stream.
Stop ==
    /\ running
    /\ running' = FALSE /\ live' = None
    /\ up' = [c \in Conns |-> up[c] /\ c # live]
    /\ UNCHANGED <<on, stage, cancelled, inbox, table, scan, kafka, host,
                   faults>>

-----------------------------------------------------------------------------
(* Transfer.                                                               *)

\* When Transfer returns, the stream ends.
Return(c) ==
    /\ To(c, "free")
    /\ on' = [on EXCEPT ![c] = None]
    /\ up' = [up EXCEPT ![c] = FALSE]
    /\ cancelled' = [cancelled EXCEPT ![c] = FALSE]
    /\ inbox' = [inbox EXCEPT ![c] = 0]

FirstFails(c) ==
    /\ stage[c] = "first" /\ ~up[c]
    /\ Return(c)
    /\ UNCHANGED <<running, live, table, scan, kafka,
                   host, faults>>

\* registerConnection.
Register(c) ==
    /\ stage[c] = "first"
    /\ cancelled' = [d \in Conns |-> cancelled[d] \/ d = table[on[c]]]
    /\ table' = [table EXCEPT ![on[c]] = c]
    /\ To(c, "open")
    /\ UNCHANGED <<running, live, on, up, inbox, scan, kafka, host, faults>>

\* handlePackagedData: the host is updated here, and once more by the Consumer.
\* (That the producer may drop the record is left to KafkaProducer.)
Heartbeat(c) ==
    /\ status' = "online" /\ beat' = "fresh"
    /\ kafka' = kafka \cup {"fresh"}

HandleFirst(c) ==
    /\ stage[c] = "open"
    /\ Heartbeat(c)
    /\ To(c, "loop")
    /\ UNCHANGED <<running, live, on, up, cancelled, inbox, table, scan, faults>>

\* Mistake: the cancelled Transfer does not look at its context any more.
LookNowhere(c) ==
    /\ stage[c] = "loop"
    /\ \/ ~up[c] /\ To(c, "ended")
       \/ To(c, "recv")
    /\ UNCHANGED <<running, live, on, up, cancelled, inbox, table, scan, kafka,
                   host, faults>>

\* The context is looked at before Recv and not while Recv waits.
Look(c) ==
    /\ stage[c] = "loop"
    /\ \/ (cancelled[c] \/ ~up[c]) /\ To(c, "ended")
       \/ ~cancelled[c] /\ To(c, "recv")
    /\ UNCHANGED <<running, live, on, up, cancelled, inbox, table, scan, kafka,
                   host, faults>>

Receive(c) ==
    /\ stage[c] = "recv" /\ inbox[c] = 1
    /\ inbox' = [inbox EXCEPT ![c] = 0]
    /\ Heartbeat(c)
    /\ To(c, "loop")
    /\ UNCHANGED <<running, live, on, up, cancelled, table, scan, faults>>

ReceiveFails(c) ==
    /\ stage[c] = "recv" /\ ~up[c]
    /\ To(c, "ended")
    /\ UNCHANGED <<running, live, on, up, cancelled, inbox, table, scan, kafka,
                   host, faults>>

\* Mistake: the entry is removed without the pointer comparison.
UnregisterAny(c) ==
    /\ stage[c] = "ended"
    /\ table' = [table EXCEPT ![on[c]] = None]
    /\ To(c, "offline") /\ UNCHANGED <<on, up, cancelled, inbox>>
    /\ UNCHANGED <<running, live, scan, kafka, host, faults>>

\* unregisterConnection removes the entry if it is this very connection's; only
\* then the host goes offline, in two writes of their own.
Unregister(c) ==
    /\ stage[c] = "ended"
    /\ \/ /\ table[on[c]] = c
          /\ table' = [table EXCEPT ![on[c]] = None]
          /\ To(c, "offline") /\ UNCHANGED <<on, up, cancelled, inbox>>
       \/ /\ table[on[c]] # c
          /\ Return(c) /\ UNCHANGED table
    /\ UNCHANGED <<running, live, scan, kafka, host, faults>>

GoOffline(c) ==
    /\ stage[c] = "offline"
    /\ status' = "offline"
    /\ To(c, "alert")
    /\ UNCHANGED <<running, live, on, up, cancelled, inbox, table, scan, kafka,
                   beat, faults>>

RaiseAlert(c) ==
    /\ stage[c] = "alert"
    /\ Return(c)
    /\ UNCHANGED <<running, live, table, scan, kafka, host,
                   faults>>

-----------------------------------------------------------------------------
(* The heartbeat scan of every AgentCenter.                                *)

\* Mistake: the scan trusts the connection table: only unregistering marks a host.
ScanOwn(a) ==
    /\ scan[a] = "wait" /\ status = "online" /\ beat = "stale" /\ table[a] # None
    /\ scan' = [scan EXCEPT ![a] = "mark"]
    /\ UNCHANGED <<running, live, connection, table, kafka, host, faults>>

Scan(a) ==
    /\ scan[a] = "wait" /\ status = "online" /\ beat = "stale"
    /\ scan' = [scan EXCEPT ![a] = "mark"]
    /\ UNCHANGED <<running, live, connection, table, kafka, host, faults>>

\* Mistake: the mark also resets the heartbeat column.
MarkNever(a) ==
    /\ scan[a] = "mark"
    /\ status' = "offline" /\ beat' = "never"
    /\ scan' = [scan EXCEPT ![a] = "alert"]
    /\ UNCHANGED <<running, live, connection, table, kafka, faults>>

\* The heartbeat is not looked at again, nor is the number of rows changed.
Mark(a) ==
    /\ scan[a] = "mark"
    /\ status' = "offline"
    /\ scan' = [scan EXCEPT ![a] = "alert"]
    /\ UNCHANGED <<running, live, connection, table, kafka, beat, faults>>

MarkAlert(a) ==
    /\ scan[a] = "alert"
    /\ scan' = [scan EXCEPT ![a] = "wait"]
    /\ UNCHANGED <<running, live, connection, table, kafka, host, faults>>

-----------------------------------------------------------------------------
(* The Consumer, and time.                                                 *)

\* WriteHeartbeat stores the Agent's own time of the heartbeat.
Store(age) ==
    /\ status' = "online" /\ beat' = age
    /\ UNCHANGED <<running, live, connection, table, scan>>

Consume(age) ==
    /\ age \in kafka
    /\ kafka' = kafka \ {age}
    /\ Store(age) /\ UNCHANGED faults

\* The offset was not committed: the heartbeat comes again.
ConsumeAgain(age) ==
    /\ age \in kafka /\ Fault
    /\ Store(age) /\ UNCHANGED kafka

\* Five minutes: a connected Agent sends heartbeats more often than that,
\* unless they are held up.
Elapse ==
    /\ \/ live = None /\ UNCHANGED faults
       \/ Fault
    /\ beat' = "stale"
    /\ kafka' = {"stale" : age \in kafka}
    /\ UNCHANGED <<running, live, connection, table, scan, status>>

\* An AgentCenter is killed and started again.  A shutdown is the same to what
\* is modelled here: shutdownFlag keeps its unregistrations from writing.
Crash(a) ==
    LET mine == {c \in Conns : on[c] = a} IN
    /\ Fault
    /\ stage' = [c \in Conns |-> IF c \in mine THEN "free" ELSE stage[c]]
    /\ up' = [c \in Conns |-> up[c] /\ c \notin mine]
    /\ on' = [c \in Conns |-> IF c \in mine THEN None ELSE on[c]]
    /\ table' = [table EXCEPT ![a] = None]
    /\ scan' = [b \in Scanning |-> IF b = a THEN "wait" ELSE scan[b]]
    /\ cancelled' = [c \in Conns |-> cancelled[c] /\ c \notin mine]
    /\ inbox' = [c \in Conns |-> IF c \in mine THEN 0 ELSE inbox[c]]
    /\ UNCHANGED <<running, live, kafka, host>>

-----------------------------------------------------------------------------
Transfer(c) ==
    \/ FirstFails(c) \/ Register(c) \/ HandleFirst(c) \/ Look(c) \/ Receive(c)
    \/ ReceiveFails(c) \/ Unregister(c) \/ GoOffline(c) \/ RaiseAlert(c)
Sweep(a) == Scan(a) \/ Mark(a) \/ MarkAlert(a)
Reconnect == \E c \in Conns, a \in ACs : Connect(c, a)

Next ==
    \/ Stop \/ Reconnect \/ Beat \/ Notice \/ Break \/ Elapse
    \/ \E c \in Conns : Transfer(c)
    \/ \E a \in Scanning : Sweep(a)
    \/ \E a \in ACs : Crash(a)
    \/ \E age \in Ages : Consume(age) \/ ConsumeAgain(age)

Spec == Init /\ [][Next]_vars

\* Goroutines run, the Agent reconnects and beats, the Consumer consumes, the
\* scan returns each minute, time passes.  Only Stop is left to chance.
FairSpec ==
    /\ Spec
    /\ WF_vars(Reconnect) /\ WF_vars(Beat) /\ WF_vars(Notice)
    /\ WF_vars(Elapse /\ UNCHANGED faults)
    /\ \A c \in Conns : WF_vars(Transfer(c))
    /\ \A a \in Scanning : WF_vars(Sweep(a))
    /\ \A age \in Ages : WF_vars(Consume(age))

-----------------------------------------------------------------------------
(* Properties.                                                             *)

\* The table of an AgentCenter holds the one connection of the Agent there that
\* is registered and not cancelled, and never one whose Transfer has cleaned up
\* already: a command is put where somebody still sends.
TableExact ==
    \A a \in ACs :
        /\ \A c \in Conns :
              on[c] = a /\ stage[c] \in Registered /\ ~cancelled[c] => table[a] = c
        /\ table[a] # None =>
              /\ on[table[a]] = a /\ ~cancelled[table[a]]
              /\ stage[table[a]] \in Registered \cup {"ended"}

\* The Manager's commands reach the Agent.
Reachable ==
    /\ live # None /\ up[live] /\ ~cancelled[live]
    /\ table[on[live]] = live

\* An Agent that is up for good is in the end online and reachable for good,
\* whatever its old connections, a scan and late heartbeats still do: also when
\* an old connection registers after the new one and cancels it.
BackShown == []running => <>[](status = "online" /\ Reachable)

\* An Agent that is gone for good is in the end offline for good, also when its
\* AgentCenter crashed and when the Consumer stores its heartbeats afterwards.
GoneShown == <>[]~running => <>[](status = "offline")
=============================================================================
