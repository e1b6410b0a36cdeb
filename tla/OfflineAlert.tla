----------------------------- MODULE OfflineAlert -----------------------------
(***************************************************************************)
(* The alert "Agent offline" of a host, one row that is raised by the end  *)
(* of a connection and by the heartbeat scan, and resolved by goroutines   *)
(* that a new connection starts and nobody waits for.  Everything else is  *)
(* AgentPresence, whose steps these ride on.                               *)
(***************************************************************************)
EXTENDS AgentPresence

VARIABLES
    alert,  \* the alert is active
    todo    \* AgentCenter -> resolveAgentOfflineAlert's that have not written

alertVars == <<vars, alert, todo>>

AlertTypeOK == alert \in BOOLEAN /\ todo \in [ACs -> Nat]

AlertInit == Init /\ alert = TRUE /\ todo = [a \in ACs |-> 0]

-----------------------------------------------------------------------------
\* Transfer starts one resolve, and a second if the last heartbeat looked old.
\* (Three minutes: a heartbeat that is not stale yet may be as old.)
RegisterResolving(c) ==
    /\ Register(c)
    /\ \E n \in 1..2 : todo' = [todo EXCEPT ![on[c]] = @ + n]
    /\ UNCHANGED alert

Resolve(a) ==
    /\ todo[a] > 0
    /\ todo' = [todo EXCEPT ![a] = @ - 1]
    /\ alert' = FALSE
    /\ UNCHANGED vars

\* createAgentOfflineAlert and createHeartbeatTimeoutAlert: whatever happened
\* to the row since the host was found offline, it is active again.
Raise ==
    /\ \/ \E c \in Conns : RaiseAlert(c)
       \/ \E a \in Scanning : MarkAlert(a)
    /\ alert' = TRUE
    /\ UNCHANGED todo

\* The goroutines die with their process.
CrashResolving(a) ==
    /\ Crash(a)
    /\ todo' = [todo EXCEPT ![a] = 0]
    /\ UNCHANGED alert

\* Everything else leaves the alert alone.
Rest ==
    /\ \/ Stop \/ Reconnect \/ Beat \/ Notice \/ Break \/ Elapse
       \/ \E c \in Conns : FirstFails(c) \/ HandleFirst(c) \/ Look(c) \/ Receive(c)
       \/ \E c \in Conns : ReceiveFails(c) \/ Unregister(c) \/ GoOffline(c)
       \/ \E a \in Scanning : Scan(a) \/ Mark(a)
       \/ \E age \in Ages : Consume(age) \/ ConsumeAgain(age)
    /\ UNCHANGED <<alert, todo>>

AlertNext ==
    \/ Rest \/ Raise
    \/ \E c \in Conns : RegisterResolving(c)
    \/ \E a \in ACs : Resolve(a) \/ CrashResolving(a)

\* The fairness of AgentPresence, and goroutines run.
AlertSpec ==
    /\ AlertInit /\ [][AlertNext]_alertVars
    /\ WF_vars(Reconnect) /\ WF_vars(Beat) /\ WF_vars(Notice)
    /\ WF_vars(Elapse /\ UNCHANGED faults)
    /\ \A c \in Conns : WF_vars(Transfer(c))
    /\ \A a \in Scanning : WF_vars(Sweep(a))
    /\ \A age \in Ages : WF_vars(Consume(age))
    /\ \A a \in ACs : WF_alertVars(Resolve(a))

-----------------------------------------------------------------------------
\* "Resolve the offline alert unconditionally: that the connection is there
\* means that the Agent has recovered" (service.go:336): the alert of an Agent
\* that is up for good is resolved in the end for good.
AlertClears == []running => <>[]~alert
=============================================================================
