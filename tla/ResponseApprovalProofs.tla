----------------------- MODULE ResponseApprovalProofs -----------------------
(***************************************************************************)
(* What holds of ResponseApproval for any keys and users, any number of    *)
(* calls in progress at once and any number of faults.                     *)
(***************************************************************************)
EXTENDS ResponseApproval, TLAPS

USE ResponseAssumption DEF ResponseAssumption

\* Types: what a call writes has the type of what it has read.
LEMMA TypeStep ==
  ASSUME TypeOK, CopiesTrue, [Next]_vars
  PROVE  TypeOK'
<1> USE DEF TypeOK, response, host, history, Commands, Operations, Statuses, Places,
       At, Idle, InProgress, Begin, Go, End, Fault
<1>1. ASSUME NEW c \in Calls, NEW k \in Keys, NEW u \in Users, NEW op \in Commands,
             ReadToRequest(c, u, k, op)
     PROVE  TypeOK'
  BY <1>1 DEF ReadToRequest
<1>2. ASSUME NEW c \in Calls, Create(c)
     PROVE  TypeOK'
  <2>1. CASE status[call[c].key] = "none"
    BY <1>2, <2>1 DEF Create, CopiesTrue
  <2>2. CASE status[call[c].key] # "none"
    <3>1. UNCHANGED response
      BY <1>2, <2>2 DEF Create
    <3> QED
      BY <1>2, <3>1 DEF Create
  <2> QED
    BY <2>1, <2>2
<1>3. ASSUME NEW c \in Calls, NEW k \in Keys, NEW u \in Users,
             NEW op \in {"approve", "reject"}, ReadToDecide(c, u, k, op)
     PROVE  TypeOK'
  BY <1>3 DEF ReadToDecide
<1>4. ASSUME NEW c \in Calls, Decide(c)
     PROVE  TypeOK'
  BY <1>4 DEF Decide, CopiesTrue
<1>5. ASSUME NEW c \in Calls, NEW k \in Keys, ReadToExecute(c, k)
     PROVE  TypeOK'
  BY <1>5 DEF ReadToExecute
<1>6. ASSUME NEW c \in Calls, NEW k \in Keys, ReadToRollBack(c, k)
     PROVE  TypeOK'
  BY <1>6 DEF ReadToRollBack
<1>7. ASSUME NEW c \in Calls, Send(c)
     PROVE  TypeOK'
  <2>1. call[c].key \in Keys /\ last' \in Commands
    BY <1>7 DEF Send, Sent, Command
  <2>2. executions' \in [Keys -> Nat] /\ rollbacks' \in [Keys -> Nat]
    BY <1>7, <2>1 DEF Send, Sent
  <2>3. call' \in [Calls -> {Idle} \cup [pc : Places \ {"idle"}, op : Operations,
                      key : Keys, user : Users \cup {"none"}, ok : BOOLEAN]]
    <3>1. \/ \E ok \in BOOLEAN : Go(c, "finish", ok)
          \/ Go(c, "write", FALSE)
          \/ End(c)
      BY <1>7 DEF Send, Fails
    <3>2. /\ call[c].op \in Operations /\ call[c].key \in Keys
          /\ call[c].user \in Users \cup {"none"}
      BY <1>7 DEF Send
    <3>3. PICK x \in {Idle} \cup [pc : Places \ {"idle"}, op : Operations,
                           key : Keys, user : Users \cup {"none"}, ok : BOOLEAN] :
             call' = [call EXCEPT ![c] = x]
      BY <3>1, <3>2
    <3> QED
      BY <3>3
  <2>4. faults' \in 0..MaxFaults
    BY <1>7 DEF Send
  <2> QED
    BY <1>7, <2>1, <2>2, <2>3, <2>4 DEF Send
<1>8. ASSUME NEW c \in Calls, WriteRows(c)
     PROVE  TypeOK'
  <2>1. rows' \in [Keys -> Nat]
    <3>1. CASE Command(call[c].op, call[c].key) = "isolate"
      BY <1>8, <3>1 DEF WriteRows
    <3>2. CASE Command(call[c].op, call[c].key) # "isolate"
      BY <1>8, <3>2 DEF WriteRows
    <3> QED
      BY <3>1, <3>2
  <2>2. call' \in [Calls -> {Idle} \cup [pc : Places \ {"idle"}, op : Operations,
                      key : Keys, user : Users \cup {"none"}, ok : BOOLEAN]]
    <3>1. \/ \E ok \in BOOLEAN : Go(c, "finish", ok)
          \/ Go(c, "write", FALSE)
          \/ End(c)
      BY <1>8 DEF WriteRows, Fails
    <3>2. /\ call[c].op \in Operations /\ call[c].key \in Keys
          /\ call[c].user \in Users \cup {"none"}
      BY <1>8 DEF WriteRows
    <3>3. PICK x \in {Idle} \cup [pc : Places \ {"idle"}, op : Operations,
                           key : Keys, user : Users \cup {"none"}, ok : BOOLEAN] :
             call' = [call EXCEPT ![c] = x]
      BY <3>1, <3>2
    <3> QED
      BY <3>3
  <2>3. faults' \in 0..MaxFaults
    BY <1>8 DEF WriteRows
  <2> QED
    BY <1>8, <2>1, <2>2, <2>3 DEF WriteRows
<1>9. ASSUME NEW c \in Calls, Finish(c)
     PROVE  TypeOK'
  BY <1>9 DEF Finish
<1>10. ASSUME NEW c \in Calls, Crash(c)
      PROVE  TypeOK'
  BY <1>10 DEF Crash
<1>11. CASE UNCHANGED vars
  BY <1>11 DEF vars
<1> HIDE DEF TypeOK
<1> QED
  BY <1>1, <1>2, <1>3, <1>4, <1>5, <1>6, <1>7, <1>8, <1>9, <1>10, <1>11
     DEF Next, Ask, Continue

\* What the calls in progress have read stays true, however old it is.
LEMMA CopiesStep ==
  ASSUME TypeOK, CopiesTrue, RowsTrue, OutcomeTrue, [Next]_vars
  PROVE  CopiesTrue'
<1> USE DEF TypeOK, CopiesTrue, response, host, history, Commands, Operations,
       Statuses, Places, At, Idle, InProgress, Begin, Go, End, Fault
<1>1. ASSUME NEW c \in Calls, NEW k \in Keys, NEW u \in Users, NEW op \in Commands,
             ReadToRequest(c, u, k, op)
     PROVE  CopiesTrue'
  BY <1>1 DEF ReadToRequest
<1>2. ASSUME NEW c \in Calls, Create(c)
     PROVE  CopiesTrue'
  <2>1. CASE status[call[c].key] = "none"
    BY <1>2, <2>1 DEF Create
  <2>2. CASE status[call[c].key] # "none"
    <3>1. UNCHANGED response
      BY <1>2, <2>2 DEF Create
    <3> QED
      BY <1>2, <3>1 DEF Create
  <2> QED
    BY <2>1, <2>2
<1>3. ASSUME NEW c \in Calls, NEW k \in Keys, NEW u \in Users,
             NEW op \in {"approve", "reject"}, ReadToDecide(c, u, k, op)
     PROVE  CopiesTrue'
  BY <1>3 DEF ReadToDecide
<1>4. ASSUME NEW c \in Calls, Decide(c)
     PROVE  CopiesTrue'
  BY <1>4 DEF Decide
<1>5. ASSUME NEW c \in Calls, NEW k \in Keys, ReadToExecute(c, k)
     PROVE  CopiesTrue'
  BY <1>5 DEF ReadToExecute, RowsTrue
<1>6. ASSUME NEW c \in Calls, NEW k \in Keys, ReadToRollBack(c, k)
     PROVE  CopiesTrue'
  BY <1>6 DEF ReadToRollBack, RowsTrue, OutcomeTrue
<1>7. ASSUME NEW c \in Calls, Send(c)
     PROVE  CopiesTrue'
  BY <1>7 DEF Send, Sent, Fails
<1>8. ASSUME NEW c \in Calls, WriteRows(c)
     PROVE  CopiesTrue'
  BY <1>8 DEF WriteRows, Fails
<1>9. ASSUME NEW c \in Calls, Finish(c)
     PROVE  CopiesTrue'
  BY <1>9 DEF Finish
<1>10. ASSUME NEW c \in Calls, Crash(c)
      PROVE  CopiesTrue'
  BY <1>10 DEF Crash
<1>11. CASE UNCHANGED vars
  BY <1>11 DEF vars
<1> HIDE DEF TypeOK, CopiesTrue
<1> QED
  BY <1>1, <1>2, <1>3, <1>4, <1>5, <1>6, <1>7, <1>8, <1>9, <1>10, <1>11
     DEF Next, Ask, Continue

\* What a row says of its past stays true.
LEMMA RowsStep ==
  ASSUME TypeOK, CopiesTrue, RowsTrue, OutcomeTrue, [Next]_vars
  PROVE  RowsTrue' /\ OutcomeTrue'
<1> DEFINE Rows == RowsTrue /\ OutcomeTrue
<1> USE DEF TypeOK, RowsTrue, OutcomeTrue, response, host, history, Commands,
       Operations, Statuses, Places, At, Idle, InProgress, Begin, Go, End, Fault
<1>1. ASSUME NEW c \in Calls, Create(c)
     PROVE  Rows'
  <2>1. CASE status[call[c].key] = "none"
    BY <1>1, <2>1 DEF Create
  <2>2. CASE status[call[c].key] # "none"
    <3>1. UNCHANGED response
      BY <1>1, <2>2 DEF Create
    <3> QED
      BY <1>1, <3>1 DEF Create
  <2> QED
    BY <2>1, <2>2
<1>2. ASSUME NEW c \in Calls, Decide(c)
     PROVE  Rows'
  <2>1. /\ call[c].key \in Keys /\ status[call[c].key] # "none"
        /\ call[c].user \in Users /\ requestedBy[call[c].key] # call[c].user
        /\ UNCHANGED <<requestedBy, executions, rollbacks>>
    BY <1>2 DEF Decide, CopiesTrue
  <2>2. CASE call[c].op = "approve"
    <3> DEFINE k == call[c].key
    <3>1. /\ status' = [status EXCEPT ![k] = "approved"]
          /\ approvers' = [approvers EXCEPT ![k] = @ \cup {call[c].user}]
      BY <1>2, <2>2 DEF Decide
    <3>2. approvers'[k] # {} /\ status'[k] = "approved" /\ k \in Keys
      BY <2>1, <3>1
    <3>3. \A u \in approvers'[k] : u # requestedBy'[k]
      BY <2>1, <3>1
    <3>4. \A j \in Keys : j # k => approvers'[j] = approvers[j] /\ status'[j] = status[j]
      BY <2>1, <3>1
    <3> QED
      BY <2>1, <3>2, <3>3, <3>4
  <2>3. CASE call[c].op # "approve"
    BY <1>2, <2>1, <2>3 DEF Decide
  <2> QED
    BY <2>2, <2>3
<1>3. ASSUME NEW c \in Calls, Send(c)
     PROVE  Rows'
  <2>1. /\ approvers' = approvers /\ status' = status /\ requestedBy' = requestedBy
        /\ approvers[call[c].key] # {} /\ call[c].key \in Keys
    BY <1>3 DEF Send, CopiesTrue
  <2>2. /\ \A k \in Keys : executions'[k] \in Nat /\ rollbacks'[k] \in Nat
                /\ executions'[k] >= executions[k] /\ rollbacks'[k] >= rollbacks[k]
        /\ \A k \in Keys : k # call[c].key =>
                 executions'[k] = executions[k] /\ rollbacks'[k] = rollbacks[k]
    BY <1>3, <2>1 DEF Send, Sent
  <2> QED
    BY <2>1, <2>2
<1>4. ASSUME NEW c \in Calls, WriteRows(c)
     PROVE  Rows'
  BY <1>4 DEF WriteRows
<1>5. ASSUME NEW c \in Calls, Finish(c)
     PROVE  Rows'
  BY <1>5 DEF Finish, CopiesTrue
<1>6. ASSUME NEW c \in Calls, Crash(c)
     PROVE  Rows'
  BY <1>6 DEF Crash
<1>7. ASSUME NEW c \in Calls, Ask(c)
     PROVE  Rows'
  BY <1>7 DEF Ask, ReadToRequest, ReadToDecide, ReadToExecute, ReadToRollBack
<1>8. CASE UNCHANGED vars
  BY <1>8 DEF vars
<1> HIDE DEF TypeOK, RowsTrue, OutcomeTrue
<1> QED
  BY <1>1, <1>2, <1>3, <1>4, <1>5, <1>6, <1>7, <1>8 DEF Next, Continue

\* In calm there was calm before, and a call that begins is the only one.
LEMMA CalmBefore ==
  ASSUME TypeOK, [Next]_vars, Calm'
  PROVE  /\ Calm
         /\ ~(\E c \in Calls : Crash(c))
         /\ \A c \in Calls : Ask(c) => \A d \in Calls : ~InProgress(d)
<1>1. faults' = 0 /\ ~overlapped' /\ faults \in Nat
  BY DEF Calm, TypeOK
<1>2. ASSUME NEW c \in Calls, Ask(c)
     PROVE  Calm /\ \A d \in Calls : ~InProgress(d)
  <2>1. overlapped' = (overlapped \/ \E d \in Calls : InProgress(d)) /\ faults' = faults
    BY <1>2 DEF Ask, ReadToRequest, ReadToDecide, ReadToExecute, ReadToRollBack, Begin
  <2> QED
    BY <1>1, <2>1, Zenon DEF Calm
<1>3. ASSUME NEW c \in Calls, Continue(c)
     PROVE  Calm
  <2>1. overlapped' = overlapped
    BY <1>3 DEF Continue, Create, Decide, Send, WriteRows, Finish, history
  <2>2. faults' = faults \/ faults' = faults + 1
    BY <1>3 DEF Continue, Create, Decide, Send, WriteRows, Finish, Fault
  <2>3. faults = 0
    BY <1>1, <2>2
  <2> QED
    BY <1>1, <2>1, <2>3 DEF Calm
<1>4. ~(\E c \in Calls : Crash(c))
  BY <1>1 DEF Crash, Fault
<1>5. ASSUME UNCHANGED vars
     PROVE  Calm
  <2>1. overlapped' = overlapped /\ faults' = faults
    BY <1>5 DEF vars, history
  <2> QED
    BY <1>1, <2>1, Zenon DEF Calm
<1>6. Calm
  BY <1>2, <1>3, <1>4, <1>5 DEF Next
<1> QED
  BY <1>2, <1>4, <1>6

\* A call that begins alone, whatever it will do.
LEMMA BeginStep ==
  ASSUME TypeOK, CalmInv, Calm, \A d \in Calls : ~InProgress(d),
         NEW c \in Calls, NEW place \in {"create", "decide", "send"},
         NEW op \in Operations, NEW k \in Keys, NEW u, Begin(c, place, op, k, u),
         UNCHANGED <<status, rows, last, executions>>,
         place = "decide" => status[k] = "pending",
         place = "send" => status[k] = IF op = "execute" THEN "approved" ELSE "executed"
  PROVE  CalmInv'
<1> USE DEF TypeOK, InProgress, Active
<1>1. /\ call'[c] = At(place, op, k, u, FALSE)
      /\ \A d \in Calls : call'[d].pc # "idle" => d = c
      /\ \A d \in Calls : call'[d].pc \notin {"write", "finish"}
  BY DEF Begin, At
<1>2. \A j \in Keys : executions[j] <= 1
                      /\ (executions[j] = 1 => status[j] \in {"executed", "rolled_back"})
  BY DEF CalmInv, Owed
<1>3. Active <=> last = "isolate"
  BY DEF CalmInv
<1>4. \A d \in Calls : d # c => call'[d].pc = "idle"
  BY <1>1
<1> QED
  BY <1>1, <1>2, <1>3, <1>4 DEF CalmInv, At

\* In calm, the one call in progress brings rows and host together again.
LEMMA CalmStep ==
  ASSUME TypeOK, CopiesTrue, CalmInv, [Next]_vars
  PROVE  CalmInv'
<1> SUFFICES ASSUME Calm'
             PROVE  CalmInv'
  BY DEF CalmInv
<1>0. /\ Calm
      /\ ~(\E c \in Calls : Crash(c))
      /\ \A c \in Calls : Ask(c) => \A d \in Calls : ~InProgress(d)
  BY CalmBefore
<1>a. faults = 0 /\ faults' = 0
  BY <1>0 DEF Calm
<1>b. \A c, d \in Calls : InProgress(c) /\ InProgress(d) => c = d
  BY <1>0 DEF CalmInv
<1>1. ASSUME NEW c \in Calls, Ask(c)
     PROVE  CalmInv'
  <2>0. \A d \in Calls : ~InProgress(d)
    BY <1>0, <1>1
  <2> USE <1>0, <2>0 DEF Operations, Commands, response, host
  <2>1. ASSUME NEW k \in Keys, NEW u \in Users, NEW op \in Commands,
               ReadToRequest(c, u, k, op)
       PROVE  CalmInv'
    <3>1. Begin(c, "create", op, k, u) /\ UNCHANGED <<status, rows, last, executions>>
      BY <2>1 DEF ReadToRequest
    <3> QED
      BY <3>1, BeginStep
  <2>2. ASSUME NEW k \in Keys, NEW u \in Users, NEW op \in {"approve", "reject"},
               ReadToDecide(c, u, k, op)
       PROVE  CalmInv'
    <3>1. /\ Begin(c, "decide", op, k, u) /\ status[k] = "pending"
          /\ UNCHANGED <<status, rows, last, executions>>
      BY <2>2 DEF ReadToDecide
    <3> QED
      BY <3>1, BeginStep
  <2>3. ASSUME NEW k \in Keys, ReadToExecute(c, k)
       PROVE  CalmInv'
    <3>1. /\ Begin(c, "send", "execute", k, "none") /\ status[k] = "approved"
          /\ UNCHANGED <<status, rows, last, executions>>
      BY <2>3 DEF ReadToExecute
    <3> QED
      BY <3>1, BeginStep
  <2>4. ASSUME NEW k \in Keys, ReadToRollBack(c, k)
       PROVE  CalmInv'
    <3>1. /\ Begin(c, "send", "rollback", k, "none") /\ status[k] = "executed"
          /\ UNCHANGED <<status, rows, last, executions>>
      BY <2>4 DEF ReadToRollBack
    <3> QED
      BY <3>1, BeginStep
  <2> QED
    BY <1>1, <2>1, <2>2, <2>3, <2>4 DEF Ask
<1> USE <1>0, <1>a, <1>b DEF TypeOK, CopiesTrue, CalmInv, Owed, Active, response,
       host, history, Commands, Operations, Places, At, Idle, InProgress, Begin, Go, End
<1>2. ASSUME NEW c \in Calls, Create(c)
     PROVE  CalmInv'
  <2>1. CASE status[call[c].key] = "none"
    BY <1>2, <2>1 DEF Create
  <2>2. CASE status[call[c].key] # "none"
    <3>1. UNCHANGED response
      BY <1>2, <2>2 DEF Create
    <3> QED
      BY <1>2, <3>1 DEF Create
  <2> QED
    BY <2>1, <2>2
<1>3. ASSUME NEW c \in Calls, Decide(c)
     PROVE  CalmInv'
  BY <1>3 DEF Decide
<1>4. ASSUME NEW c \in Calls, Send(c)
     PROVE  CalmInv'
  <2>1. Sent(c) /\ Go(c, "write", FALSE) /\ call[c].pc = "send"
    BY <1>4 DEF Send, Fault
  <2>2. UNCHANGED <<status, action, rows, overlapped>>
    BY <1>4 DEF Send
  <2>0. PICK k \in Keys : k = call[c].key
    BY <2>1
  <2>3. /\ call'[c].pc = "write" /\ call'[c].op = call[c].op /\ call'[c].key = k
        /\ \A d \in Calls : d # c => call'[d] = call[d] /\ call[d].pc = "idle"
        /\ \A j \in Keys : ~Owed(j)
    BY <2>0, <2>1
  <2>4. last' = Command(call[c].op, k)' /\ last' = Command(call[c].op, k)
    BY <2>0, <2>1, <2>2, <2>3 DEF Sent, Command
  <2>5. CASE call[c].op = "execute"
    <3>1. status[k] = "approved" /\ Owed(k)'
      BY <2>0, <2>1, <2>3, <2>5
    <3>2. executions' = [executions EXCEPT ![k] = @ + 1]
      BY <2>0, <2>1, <2>5 DEF Sent
    <3>3. executions[k] \in Nat /\ executions[k] <= 1 /\ executions[k] # 1
      BY <2>3, <3>1
    <3>4. ASSUME NEW j \in Keys
         PROVE  /\ executions'[j] <= 1
                /\ executions'[j] = 1 => \/ status'[j] \in {"executed", "rolled_back"}
                                         \/ status'[j] = "approved" /\ Owed(j)'
      <4>1. /\ executions \in [Keys -> Nat] /\ executions[j] <= 1 /\ status' = status
            /\ executions[j] = 1 =>
                 status[j] \in {"executed", "rolled_back"} \/ Owed(j)
        BY <2>2
      <4>2. ~Owed(j)
        BY <2>3
      <4> HIDE DEF TypeOK, CopiesTrue, CalmInv, Owed
      <4>3. CASE j = k
        <5>1. executions'[j] = executions[j] + 1
          BY <3>2, <4>1, <4>3
        <5>2. executions[j] = 0
          BY <3>3, <4>3
        <5>3. status'[j] = "approved" /\ Owed(j)'
          BY <3>1, <4>1, <4>3 DEF Owed
        <5> QED
          BY <5>1, <5>2, <5>3
      <4>4. CASE j # k
        <5>1. executions'[j] = executions[j]
          BY <3>2, <4>1, <4>4
        <5> QED
          BY <4>1, <4>2, <5>1
      <4> QED
        BY <4>3, <4>4
    <3> QED
      BY <2>1, <2>2, <2>3, <2>4, <2>5, <3>1, <3>4
  <2>6. CASE call[c].op # "execute"
    <3>1. executions' = executions /\ status[k] = "executed"
      BY <2>0, <2>1, <2>6 DEF Sent
    <3>2. \A j \in Keys : /\ executions'[j] <= 1
                          /\ executions'[j] = 1 =>
                               status'[j] \in {"executed", "rolled_back"}
      BY <2>2, <2>3, <3>1
    <3> QED
      BY <2>1, <2>2, <2>3, <2>4, <2>6, <3>1, <3>2
  <2> QED
    BY <2>5, <2>6
<1>5. ASSUME NEW c \in Calls, WriteRows(c)
     PROVE  CalmInv'
  <2> DEFINE k == call[c].key
  <2>1. /\ call[c].pc = "write" /\ k \in Keys /\ Go(c, "finish", TRUE)
        /\ UNCHANGED <<status, action, last, executions>>
    BY <1>5 DEF WriteRows, Fault
  <2>2. /\ call'[c].pc = "finish" /\ call'[c].ok
        /\ call'[c].op = call[c].op /\ call'[c].key = k
        /\ \A d \in Calls : d # c => call'[d] = call[d] /\ call[d].pc = "idle"
    BY <2>1
  <2>3. \A j \in Keys : Owed(j)' <=> Owed(j)
    BY <2>1, <2>2
  <2>4. Active' <=> last' = "isolate"
    <3>1. last = Command(call[c].op, k)
      BY <2>1
    <3>2. CASE Command(call[c].op, k) = "isolate"
      BY <1>5, <2>1, <3>1, <3>2 DEF WriteRows, Fault
    <3>3. CASE Command(call[c].op, k) # "isolate"
      BY <1>5, <2>1, <3>1, <3>3 DEF WriteRows, Fault
    <3> QED
      BY <3>2, <3>3
  <2> QED
    BY <2>1, <2>2, <2>3, <2>4
<1>6. ASSUME NEW c \in Calls, Finish(c)
     PROVE  CalmInv'
  BY <1>6 DEF Finish
<1>7. CASE UNCHANGED vars
  BY <1>7 DEF vars, Command
<1> HIDE DEF TypeOK, CopiesTrue, CalmInv
<1> QED
  BY <1>1, <1>2, <1>3, <1>4, <1>5, <1>6, <1>7 DEF Next, Continue

LEMMA InitInv == Init => TypeOK /\ ResponseInv
<1> SUFFICES ASSUME Init PROVE TypeOK /\ ResponseInv
  OBVIOUS
<1> USE DEF Init, At, Idle
<1>1. TypeOK
  <2>1. call \in [Calls -> {Idle}]
    BY DEF Idle
  <2>2. faults = 0 /\ overlapped = FALSE
    BY Zenon
  <2>3. 0 \in 0..MaxFaults
    OBVIOUS
  <2> QED
    BY <2>1, <2>2, <2>3 DEF TypeOK, Statuses, Commands
<1>2. CopiesTrue /\ RowsTrue /\ OutcomeTrue
  BY DEF CopiesTrue, RowsTrue, OutcomeTrue
<1>3. CalmInv
  BY DEF CalmInv, Calm, InProgress, Active
<1> QED
  BY <1>1, <1>2, <1>3 DEF ResponseInv

\* The rows, the hosts and what every call in progress has read keep their
\* types, and what the calls rely on, what the rows say of their past and what
\* is still to be done in calm hold together in every step: the inductive
\* invariant of the response state machine.
THEOREM ResponseInvariant == Spec => [](TypeOK /\ ResponseInv)
<1>1. TypeOK /\ ResponseInv /\ [Next]_vars => TypeOK' /\ ResponseInv'
  BY TypeStep, CopiesStep, RowsStep, CalmStep DEF ResponseInv
<1> QED
  BY <1>1, InitInv, PTL DEF Spec

\* However calls race, fail or die, a response, its host and what a call has
\* read of them keep their types: no status outside the documented ones is
\* ever written or acted on.
THEOREM TypeCorrect == Spec => []TypeOK
BY ResponseInvariant, PTL

\* However calls race, fail or die, no command reaches a host for a response
\* that no other user than its requester approved.
THEOREM SecondPerson == Spec => []FourEyes
<1>1. TypeOK /\ ResponseInv => FourEyes
  BY DEF ResponseInv, RowsTrue, FourEyes
<1> QED
  BY <1>1, ResponseInvariant, PTL

\* However calls race, fail or die, "executed" and "rolled_back" are written
\* for commands that were sent only.
THEOREM OutcomeIsTrue == Spec => []OutcomeTrue
<1>1. TypeOK /\ ResponseInv => OutcomeTrue
  BY DEF ResponseInv
<1> QED
  BY <1>1, ResponseInvariant, PTL

\* While calls come one at a time and nothing fails, no response is executed
\* twice or after its rejection, and host_isolations agrees with the host.
THEOREM CalmAgreement == Spec => []CalmAgrees
<1>1. ASSUME TypeOK, ResponseInv, Calm
     PROVE  CalmAgrees
  <2>1. ASSUME NEW k \in Keys
       PROVE  executions[k] <= 1 /\ (status[k] = "rejected" => executions[k] = 0)
    <3>1. executions[k] \in Nat
      BY <1>1 DEF TypeOK
    <3>2. executions[k] <= 1 /\ (status[k] = "rejected" => executions[k] # 1)
      BY <1>1 DEF ResponseInv, CalmInv
    <3> QED
      BY <3>1, <3>2
  <2>2. (\A c \in Calls : ~InProgress(c)) => (Active <=> last = "isolate")
    BY <1>1 DEF ResponseInv, CalmInv, InProgress
  <2> QED
    BY <2>1, <2>2 DEF CalmAgrees
<1>2. TypeOK /\ ResponseInv => CalmAgrees
  BY <1>1 DEF CalmAgrees
<1> QED
  BY <1>2, ResponseInvariant, PTL
=============================================================================
