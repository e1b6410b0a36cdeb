------------------------- MODULE AgentPresenceProofs -------------------------
(***************************************************************************)
(* The connection tables of AgentPresence for any number of AgentCenters,  *)
(* of connections at a time and of faults, and that OfflineAlert keeps     *)
(* them.                                                                   *)
(***************************************************************************)
EXTENDS OfflineAlert, TLAPS

\* What keeps the tables exact: a run of Transfer that has not registered cannot
\* have been cancelled, and every run knows its AgentCenter.
Inv ==
    /\ TypeOK
    /\ TableExact
    /\ \A c \in Conns :
          /\ stage[c] \in {"free", "first"} => ~cancelled[c]
          /\ stage[c] # "free" => on[c] \in ACs

-----------------------------------------------------------------------------
LEMMA StepType ==
  ASSUME Inv, [Next]_vars
  PROVE  TypeOK'
<1> USE PresenceAssumption
    DEF PresenceAssumption, TypeOK, Registered, Ages, connection, host, Fault, To
<1> TypeOK
  BY DEF Inv
<1>1. ASSUME NEW c \in Conns, NEW a \in ACs, Connect(c, a)
     PROVE  TypeOK'
  BY <1>1 DEF Connect
<1>2. CASE Beat \/ Notice \/ Break \/ Stop
  <2>1. CASE Beat
    BY <2>1 DEF Beat
  <2>2. CASE Notice
    BY <2>2 DEF Notice
  <2>3. CASE Break
    BY <2>3 DEF Break
  <2>4. CASE Stop
    BY <2>4 DEF Stop
  <2> QED
    BY <1>2, <2>1, <2>2, <2>3, <2>4
<1>3. CASE Elapse
  BY <1>3 DEF Elapse
<1>4. ASSUME NEW c \in Conns, Transfer(c)
     PROVE  TypeOK'
  <2>1. CASE FirstFails(c) \/ RaiseAlert(c)
    <3>1. Return(c) /\ UNCHANGED <<running, live, table, scan, kafka, host, faults>>
      BY <2>1 DEF FirstFails, RaiseAlert
    <3> QED
      BY <3>1 DEF Return
  <2>2. CASE Register(c)
    BY <2>2 DEF Register
  <2>3. CASE HandleFirst(c) \/ Receive(c)
    <3>1. CASE HandleFirst(c)
      BY <3>1 DEF HandleFirst, Heartbeat
    <3>2. CASE Receive(c)
      BY <3>2 DEF Receive, Heartbeat
    <3> QED
      BY <2>3, <3>1, <3>2
  <2>4. CASE Look(c) \/ ReceiveFails(c) \/ GoOffline(c)
    <3>1. CASE Look(c)
      BY <3>1 DEF Look
    <3>2. CASE ReceiveFails(c)
      BY <3>2 DEF ReceiveFails
    <3>3. CASE GoOffline(c)
      BY <3>3 DEF GoOffline
    <3> QED
      BY <2>4, <3>1, <3>2, <3>3
  <2>5. CASE Unregister(c)
    <3>1. CASE table[on[c]] # c /\ Return(c) /\ UNCHANGED table
      BY <2>5, <3>1 DEF Unregister, Return
    <3>2. CASE /\ table' = [table EXCEPT ![on[c]] = None]
               /\ To(c, "offline") /\ UNCHANGED <<on, up, cancelled, inbox>>
      BY <2>5, <3>2 DEF Unregister
    <3> QED
      BY <2>5, <3>1, <3>2 DEF Unregister
  <2> QED
    BY <1>4, <2>1, <2>2, <2>3, <2>4, <2>5 DEF Transfer
<1>5. ASSUME NEW a \in Scanning, Sweep(a)
     PROVE  TypeOK'
  BY <1>5 DEF Sweep, Scan, Mark, MarkAlert
<1>6. ASSUME NEW age \in Ages, Consume(age) \/ ConsumeAgain(age)
     PROVE  TypeOK'
  <2>1. CASE Consume(age)
    BY <2>1 DEF Consume, Store
  <2>2. CASE ConsumeAgain(age)
    BY <2>2 DEF ConsumeAgain, Store
  <2> QED
    BY <1>6, <2>1, <2>2
<1>7. ASSUME NEW a \in ACs, Crash(a)
     PROVE  TypeOK'
  BY <1>7 DEF Crash
<1>8. CASE UNCHANGED vars
  BY <1>8 DEF vars
<1> QED
  BY <1>1, <1>2, <1>3, <1>4, <1>5, <1>6, <1>7, <1>8 DEF Next, Reconnect

\* What the table says of a connection.
LEMMA InTable ==
  ASSUME Inv, NEW a \in ACs, NEW c \in Conns, table[a] = c
  PROVE  on[c] = a /\ ~cancelled[c] /\ stage[c] \in Registered \cup {"ended"}
  BY PresenceAssumption DEF PresenceAssumption, Inv, TableExact

\* Most steps leave alone all that the tables are about.
LEMMA Aside ==
  ASSUME Inv, TypeOK', UNCHANGED <<on, stage, cancelled, table>>
  PROVE  Inv'
  BY DEF Inv, TableExact

\* A connection that goes on to another place of Transfer where it is registered,
\* as it was before, or where the table does not hold it.
LEMMA GoesOn ==
  ASSUME Inv, TypeOK', NEW c \in Conns,
         NEW place \in Registered \cup {"ended", "offline", "alert"},
         To(c, place), UNCHANGED <<on, cancelled, table>>,
         stage[c] # "free", stage[c] # "first",
         place \in Registered => stage[c] \in Registered,
         place \in {"offline", "alert"} => stage[c] \in {"offline", "alert"}
  PROVE  Inv'
<1>1. \A d \in Conns : stage'[d] = IF d = c THEN place ELSE stage[d]
  BY DEF To, Inv, TypeOK
<1>2. TableExact'
  BY <1>1 DEF Inv, TableExact, TypeOK, Registered
<1> QED
  BY <1>1, <1>2 DEF Inv, Registered

\* A run of Transfer that the table does not hold returns.
LEMMA Returns ==
  ASSUME Inv, TypeOK', NEW c \in Conns, Return(c), UNCHANGED table,
         \A a \in ACs : table[a] # c
  PROVE  Inv'
<1>1. \A d \in Conns : /\ stage'[d] = IF d = c THEN "free" ELSE stage[d]
                       /\ on'[d] = IF d = c THEN None ELSE on[d]
                       /\ cancelled'[d] = IF d = c THEN FALSE ELSE cancelled[d]
  BY DEF Return, To, Inv, TypeOK
<1>2. ASSUME NEW a \in ACs, NEW d \in Conns,
             on'[d] = a, stage'[d] \in Registered, ~cancelled'[d]
     PROVE  table'[a] = d
  BY <1>1, <1>2 DEF Inv, TableExact, Registered
<1>3. ASSUME NEW a \in ACs, table'[a] # None
     PROVE  /\ on'[table'[a]] = a /\ ~cancelled'[table'[a]]
            /\ stage'[table'[a]] \in Registered \cup {"ended"}
  <2>1. table'[a] = table[a] /\ table[a] \in Conns \ {c}
    BY <1>3 DEF Inv, TypeOK
  <2> QED
    BY <1>1, <2>1, InTable
<1>4. TableExact'
  BY <1>2, <1>3 DEF TableExact
<1> QED
  BY <1>1, <1>4 DEF Inv

LEMMA StepInv ==
  ASSUME Inv, [Next]_vars
  PROVE  Inv'
<1> TypeOK'
  BY StepType
<1> USE DEF connection, host
<1>1. ASSUME NEW c \in Conns, NEW a \in ACs, Connect(c, a)
     PROVE  Inv'
  <2>1. /\ stage[c] = "free" /\ UNCHANGED <<cancelled, table>>
        /\ \A d \in Conns : /\ stage'[d] = IF d = c THEN "first" ELSE stage[d]
                            /\ on'[d] = IF d = c THEN a ELSE on[d]
    BY <1>1 DEF Connect, To, Inv, TypeOK
  <2>2. TableExact'
    BY <2>1 DEF Inv, TableExact, TypeOK, Registered
  <2> QED
    BY <2>1, <2>2 DEF Inv
<1>2. ASSUME NEW c \in Conns, Register(c)
     PROVE  Inv'
  <2> DEFINE a == on[c]
  <2>1. /\ stage[c] = "first" /\ a \in ACs /\ ~cancelled[c] /\ on' = on
        /\ \A b \in ACs : table'[b] = IF b = a THEN c ELSE table[b]
        /\ \A d \in Conns : /\ stage'[d] = IF d = c THEN "open" ELSE stage[d]
                            /\ cancelled'[d] = (cancelled[d] \/ d = table[a])
    BY <1>2 DEF Register, To, Inv, TypeOK
  <2>2. \A b \in ACs : table[b] # c
    BY <2>1, InTable DEF Registered
  <2>3. ASSUME NEW b \in ACs, NEW d \in Conns,
               on'[d] = b, stage'[d] \in Registered, ~cancelled'[d]
       PROVE  table'[b] = d
    <3>1. CASE d = c
      BY <2>1, <2>3, <3>1
    <3>2. CASE d # c
      <4>1. on[d] = b /\ stage[d] \in Registered /\ ~cancelled[d] /\ d # table[a]
        BY <2>1, <2>3, <3>2
      <4>2. table[b] = d
        BY <4>1 DEF Inv, TableExact
      <4> QED
        BY <2>1, <4>1, <4>2
    <3> QED
      BY <3>1, <3>2
  <2>4. ASSUME NEW b \in ACs, table'[b] # None
       PROVE  /\ on'[table'[b]] = b /\ ~cancelled'[table'[b]]
              /\ stage'[table'[b]] \in Registered \cup {"ended"}
    <3>1. CASE b = a
      BY <2>1, <2>2, <3>1 DEF Registered
    <3>2. CASE b # a
      <4>1. /\ table'[b] = table[b] /\ table[b] \in Conns
            /\ on[table[b]] = b /\ ~cancelled[table[b]]
            /\ stage[table[b]] \in Registered \cup {"ended"}
        BY <2>1, <2>4, <3>2 DEF Inv, TableExact, TypeOK
      <4>2. table[b] # table[a]
        BY <2>1, <3>2, <4>1, InTable
      <4>3. /\ on'[table[b]] = on[table[b]] /\ stage'[table[b]] = stage[table[b]]
            /\ ~cancelled'[table[b]]
        BY <2>1, <2>2, <4>1, <4>2
      <4> QED
        BY <4>1, <4>3
    <3> QED
      BY <3>1, <3>2
  <2>5. TableExact'
    BY <2>3, <2>4 DEF TableExact
  <2>6. ASSUME NEW d \in Conns
       PROVE  /\ stage'[d] \in {"free", "first"} => ~cancelled'[d]
              /\ stage'[d] # "free" => on'[d] \in ACs
    <3>1. stage[d] \in {"free", "first"} => d # table[a]
      BY <2>1, InTable DEF Registered
    <3> QED
      BY <2>1, <3>1 DEF Inv
  <2> QED
    BY <2>5, <2>6 DEF Inv
<1>3. ASSUME NEW c \in Conns, FirstFails(c) \/ RaiseAlert(c)
     PROVE  Inv'
  <2>1. Return(c) /\ UNCHANGED table /\ stage[c] \in {"first", "alert"}
    BY <1>3 DEF FirstFails, RaiseAlert
  <2>2. \A a \in ACs : table[a] # c
    BY <2>1, InTable DEF Registered
  <2> QED
    BY <2>1, <2>2, Returns
<1>4. ASSUME NEW c \in Conns,
             HandleFirst(c) \/ Look(c) \/ Receive(c) \/ ReceiveFails(c) \/ GoOffline(c)
     PROVE  Inv'
  <2>1. /\ UNCHANGED <<on, cancelled, table>>
        /\ \/ stage[c] \in Registered /\ \E place \in Registered \cup {"ended"} : To(c, place)
           \/ stage[c] = "offline" /\ To(c, "alert")
    BY <1>4 DEF HandleFirst, Look, Receive, ReceiveFails, GoOffline, Registered
  <2> QED
    BY <2>1, GoesOn DEF Registered
<1>5. ASSUME NEW c \in Conns, Unregister(c)
     PROVE  Inv'
  <2>1. CASE table[on[c]] # c /\ Return(c) /\ UNCHANGED table
    BY <2>1, InTable, Returns
  <2>2. CASE /\ table[on[c]] = c /\ table' = [table EXCEPT ![on[c]] = None]
             /\ To(c, "offline") /\ UNCHANGED <<on, up, cancelled, inbox>>
    <3>1. /\ stage[c] = "ended" /\ on[c] \in ACs /\ UNCHANGED <<on, cancelled>>
          /\ \A b \in ACs : table'[b] = IF b = on[c] THEN None ELSE table[b]
          /\ \A d \in Conns : stage'[d] = IF d = c THEN "offline" ELSE stage[d]
      BY <1>5, <2>2 DEF Unregister, To, Inv, TypeOK
    <3>2. TableExact'
      BY <2>2, <3>1 DEF Inv, TableExact, TypeOK, Registered
    <3> QED
      BY <3>1, <3>2 DEF Inv
  <2> QED
    BY <1>5, <2>1, <2>2 DEF Unregister
<1>6. ASSUME NEW a \in ACs, Crash(a)
     PROVE  Inv'
  <2>1. /\ \A b \in ACs : table'[b] = IF b = a THEN None ELSE table[b]
        /\ \A d \in Conns :
              /\ on[d] = a => stage'[d] = "free" /\ on'[d] = None /\ ~cancelled'[d]
              /\ on[d] # a => /\ stage'[d] = stage[d] /\ on'[d] = on[d]
                              /\ cancelled'[d] = cancelled[d]
    BY <1>6 DEF Crash, Inv, TypeOK
  <2>2. TableExact'
    BY <2>1, PresenceAssumption DEF Inv, TableExact, TypeOK, Registered, PresenceAssumption
  <2> QED
    BY <2>1, <2>2 DEF Inv
<1>7. CASE \/ Stop \/ Beat \/ Notice \/ Break \/ Elapse \/ (\E a \in Scanning : Sweep(a))
           \/ (\E age \in Ages : Consume(age) \/ ConsumeAgain(age)) \/ UNCHANGED vars
  <2>1. UNCHANGED <<on, stage, cancelled, table>>
    BY <1>7 DEF Stop, Beat, Notice, Break, Elapse, Sweep, Scan, Mark, MarkAlert, Consume,
       ConsumeAgain, Store, vars
  <2> QED
    BY <2>1, Aside
<1> QED
  BY <1>1, <1>2, <1>3, <1>4, <1>5, <1>6, <1>7 DEF Next, Reconnect, Transfer

LEMMA InitInv == Init => Inv
  BY PresenceAssumption
     DEF PresenceAssumption, Init, Inv, TypeOK, TableExact, Registered, Ages

\* The inductive invariant: types, tables, and what a run of Transfer knows of
\* its connection at each of its stages.
THEOREM PresenceInvariant == Spec => []Inv
  BY InitInv, StepInv, PTL DEF Spec

\* The types of the state of a connection, of the tables and of the host.
THEOREM TypeCorrect == Spec => []TypeOK
<1>1. Inv => TypeOK
  BY DEF Inv
<1> QED
  BY PresenceInvariant, <1>1, PTL

\* Whatever the order in which a new connection registers, an old one is cancelled,
\* notices it and unregisters, streams break and AgentCenters crash: the table of an
\* AgentCenter holds the connection on which commands still leave, and no other.
THEOREM TablesAreExact == Spec => []TableExact
<1>1. Inv => TableExact
  BY DEF Inv
<1> QED
  BY PresenceInvariant, <1>1, PTL

-----------------------------------------------------------------------------
(* The alert that rides on these steps (OfflineAlert).                     *)

LEMMA AlertStep == [AlertNext]_alertVars => [Next]_vars
<1> SUFFICES ASSUME [AlertNext]_alertVars PROVE [Next]_vars
  OBVIOUS
<1>1. CASE Rest
  BY <1>1 DEF Rest, Next, Transfer, Sweep
<1>2. CASE Raise
  BY <1>2 DEF Raise, Next, Transfer, Sweep
<1>3. ASSUME NEW c \in Conns, RegisterResolving(c)
     PROVE  Next
  BY <1>3 DEF RegisterResolving, Next, Transfer
<1>4. ASSUME NEW a \in ACs, Resolve(a) \/ CrashResolving(a)
     PROVE  [Next]_vars
  BY <1>4 DEF Resolve, CrashResolving, Next
<1>5. CASE UNCHANGED alertVars
  BY <1>5 DEF alertVars
<1> QED
  BY <1>1, <1>2, <1>3, <1>4, <1>5 DEF AlertNext

\* The goroutines that raise and resolve the alert change nothing of the
\* connections and of the host that AgentPresence does not: with the alert the
\* system still is one that it describes.
THEOREM AlertRidesOnPresence == AlertSpec => Spec
<1>1. AlertInit => Init
  BY DEF AlertInit
<1> QED
  BY <1>1, AlertStep, PTL DEF AlertSpec, Spec

LEMMA AlertTypeStep ==
  ASSUME AlertTypeOK, [AlertNext]_alertVars
  PROVE  AlertTypeOK'
<1>1. CASE Rest \/ Raise \/ UNCHANGED alertVars
  BY <1>1 DEF Rest, Raise, alertVars, AlertTypeOK
<1>2. ASSUME NEW c \in Conns, RegisterResolving(c)
     PROVE  AlertTypeOK'
  <2>1. PICK n \in 1..2 : todo' = [todo EXCEPT ![on[c]] = @ + n]
    BY <1>2 DEF RegisterResolving
  <2>2. \A a \in ACs : todo[a] \in Nat /\ todo[a] + n \in Nat
    BY DEF AlertTypeOK
  <2>3. todo' = [a \in ACs |-> IF a = on[c] THEN todo[a] + n ELSE todo[a]]
    BY <2>1 DEF AlertTypeOK
  <2>4. todo' \in [ACs -> Nat]
    BY <2>2, <2>3
  <2> QED
    BY <1>2, <2>4 DEF RegisterResolving, AlertTypeOK
<1>3. ASSUME NEW a \in ACs, Resolve(a)
     PROVE  AlertTypeOK'
  <2>1. todo[a] > 0 /\ todo' = [todo EXCEPT ![a] = @ - 1] /\ alert' = FALSE
    BY <1>3 DEF Resolve
  <2>2. todo[a] - 1 \in Nat
    BY <2>1 DEF AlertTypeOK
  <2>3. todo' \in [ACs -> Nat]
    BY <2>1, <2>2 DEF AlertTypeOK
  <2> QED
    BY <2>1, <2>3 DEF AlertTypeOK
<1>4. ASSUME NEW a \in ACs, CrashResolving(a)
     PROVE  AlertTypeOK'
  <2>1. todo' \in [ACs -> Nat]
    BY <1>4 DEF CrashResolving, AlertTypeOK
  <2> QED
    BY <1>4, <2>1 DEF CrashResolving, AlertTypeOK
<1> QED
  BY <1>1, <1>2, <1>3, <1>4 DEF AlertNext

\* So what is proved of AgentPresence holds with the alert too.
THEOREM AlertKeepsTables == AlertSpec => [](AlertTypeOK /\ TypeOK /\ TableExact)
<1>1. AlertInit => AlertTypeOK
  BY DEF AlertInit, AlertTypeOK
<1>2. AlertSpec => []AlertTypeOK
  BY <1>1, AlertTypeStep, PTL DEF AlertSpec
<1> QED
  BY <1>2, AlertRidesOnPresence, TypeCorrect, TablesAreExact, PTL
=============================================================================
