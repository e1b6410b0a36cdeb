-------------------------- MODULE ResponseApproval --------------------------
(***************************************************************************)
(* Responses on one host: isolating it from the network and releasing it   *)
(* (manager/biz/casework/response.go, manager/api/response_executor.go and *)
(* host_isolation.go).  A response is requested, approved or rejected by   *)
(* another user, executed, and may be rolled back.                         *)
(*                                                                         *)
(* Every handler reads the response first and acts on its copy: what it    *)
(* has read may have changed when it sends the command or writes.  The     *)
(* transaction of decide() takes no lock on the row it reads and writes by *)
(* the id alone, so it is two steps like the others.  Not in the model:    *)
(* the evidence rows, which nothing reads back, and the timer by which an  *)
(* agent releases its host, of which the Manager never hears.              *)
(***************************************************************************)
EXTENDS Integers

CONSTANTS
    Keys,      \* idempotency keys: at most one response each
    Users,
    Calls,     \* API calls that can be in progress at the same time
    MaxFaults  \* bound on failed or doubtful commands, lost writes, crashes

ASSUME ResponseAssumption == MaxFaults \in Nat

VARIABLES
    status,       \* key -> response_actions.status, "none" without a row
    action,       \* key -> "isolate" or "release"
    requestedBy,  \* key -> a user
    rows,         \* key -> active rows of host_isolations it has written
    last,         \* the last command that reached the host
    call,         \* what each call in progress has read and will do next
    approvers,    \* history: key -> users whose approval was written
    executions,   \* history: key -> commands sent to execute it
    rollbacks,    \* history: key -> commands sent to roll it back
    overlapped,   \* history: two calls have been in progress at once
    faults

response == <<status, action, requestedBy>>
host == <<rows, last>>
history == <<approvers, executions, rollbacks, overlapped>>
vars == <<response, host, call, history, faults>>

Commands == {"isolate", "release"}
Operations == Commands \cup {"approve", "reject", "execute", "rollback"}
Statuses ==
    {"none", "pending", "approved", "rejected", "executed", "failed", "rolled_back"}
Places == {"idle", "create", "decide", "send", "write", "finish"}

\* Where a call stands, with its parameters; ok: the executor's result.
At(place, op, key, user, ok) ==
    [pc |-> place, op |-> op, key |-> key, user |-> user, ok |-> ok]
Idle == At("idle", "none", "none", "none", FALSE)

TypeOK ==
    /\ status \in [Keys -> Statuses]
    /\ action \in [Keys -> Commands]
    /\ requestedBy \in [Keys -> Users \cup {"none"}]
    /\ rows \in [Keys -> Nat]
    /\ last \in Commands
    /\ call \in [Calls -> {Idle} \cup [pc : Places \ {"idle"}, op : Operations,
                     key : Keys, user : Users \cup {"none"}, ok : BOOLEAN]]
    /\ approvers \in [Keys -> SUBSET Users]
    /\ executions \in [Keys -> Nat]
    /\ rollbacks \in [Keys -> Nat]
    /\ overlapped \in BOOLEAN
    /\ faults \in 0..MaxFaults

Init ==
    /\ status = [k \in Keys |-> "none"]
    /\ action = [k \in Keys |-> "isolate"]
    /\ requestedBy = [k \in Keys |-> "none"]
    /\ rows = [k \in Keys |-> 0]
    /\ last = "release"
    /\ call = [c \in Calls |-> Idle]
    /\ approvers = [k \in Keys |-> {}]
    /\ executions = [k \in Keys |-> 0]
    /\ rollbacks = [k \in Keys |-> 0]
    /\ overlapped = FALSE
    /\ faults = 0

Fault == faults < MaxFaults /\ faults' = faults + 1

InProgress(c) == call[c].pc # "idle"
Active == \E k \in Keys : rows[k] > 0

\* A call begins with its read, and continues.
Begin(c, place, op, k, u) ==
    /\ ~InProgress(c)
    /\ call' = [call EXCEPT ![c] = At(place, op, k, u, FALSE)]
    /\ overlapped' = (overlapped \/ \E d \in Calls : InProgress(d))

Go(c, place, ok) ==
    call' = [call EXCEPT ![c] = At(place, call[c].op, call[c].key, call[c].user, ok)]
End(c) == call' = [call EXCEPT ![c] = Idle]

\* The command by which a response is executed or rolled back.
Command(op, k) ==
    IF op = "execute" THEN action[k]
    ELSE IF action[k] = "isolate" THEN "release" ELSE "isolate"

-----------------------------------------------------------------------------
\* IsolateHost and ReleaseHost look whether the host is isolated.  A key that
\* has a response already returns it.
ReadToRequest(c, u, k, op) ==
    /\ op = "release" <=> Active
    /\ status[k] = "none"
    /\ Begin(c, "create", op, k, u)
    /\ UNCHANGED <<response, host, approvers, executions, rollbacks, faults>>

\* RequestResponse: the unique index lets one request create the response.
Create(c) ==
    LET k == call[c].key IN
    /\ call[c].pc = "create"
    /\ IF status[k] = "none"
       THEN /\ status' = [status EXCEPT ![k] = "pending"]
            /\ action' = [action EXCEPT ![k] = call[c].op]
            /\ requestedBy' = [requestedBy EXCEPT ![k] = call[c].user]
       ELSE UNCHANGED response
    /\ End(c)
    /\ UNCHANGED <<host, history, faults>>

\* Mutant of ReadToDecide: users may approve their own requests.
ReadToDecideOwn(c, u, k, op) ==
    /\ status[k] = "pending"
    /\ Begin(c, "decide", op, k, u)
    /\ UNCHANGED <<response, host, approvers, executions, rollbacks, faults>>

\* decide, first half.
ReadToDecide(c, u, k, op) ==
    /\ status[k] = "pending" /\ requestedBy[k] # u
    /\ Begin(c, "decide", op, k, u)
    /\ UNCHANGED <<response, host, approvers, executions, rollbacks, faults>>

\* Mutant of Decide: the decision is written as it was given.
DecideVerbatim(c) ==
    LET k == call[c].key IN
    /\ call[c].pc = "decide"
    /\ status' = [status EXCEPT ![k] = call[c].op]
    /\ approvers' = IF call[c].op = "approve"
                    THEN [approvers EXCEPT ![k] = @ \cup {call[c].user}]
                    ELSE approvers
    /\ End(c)
    /\ UNCHANGED <<action, requestedBy, host, executions, rollbacks, overlapped,
                   faults>>

\* decide, second half, whatever the status has become meanwhile.
Decide(c) ==
    LET k == call[c].key IN
    /\ call[c].pc = "decide"
    /\ IF call[c].op = "approve"
       THEN /\ status' = [status EXCEPT ![k] = "approved"]
            /\ approvers' = [approvers EXCEPT ![k] = @ \cup {call[c].user}]
       ELSE /\ status' = [status EXCEPT ![k] = "rejected"]
            /\ UNCHANGED approvers
    /\ End(c)
    /\ UNCHANGED <<action, requestedBy, host, executions, rollbacks, overlapped,
                   faults>>

\* Mutant of ReadToExecute: a response that was executed is executed again.
ReadToExecuteAgain(c, k) ==
    /\ status[k] \in {"approved", "executed"}
    /\ Begin(c, "send", "execute", k, "none")
    /\ UNCHANGED <<response, host, approvers, executions, rollbacks, faults>>

ReadToExecute(c, k) ==
    /\ status[k] = "approved"
    /\ Begin(c, "send", "execute", k, "none")
    /\ UNCHANGED <<response, host, approvers, executions, rollbacks, faults>>

ReadToRollBack(c, k) ==
    /\ status[k] = "executed"
    /\ Begin(c, "send", "rollback", k, "none")
    /\ UNCHANGED <<response, host, approvers, executions, rollbacks, faults>>

\* The executor has failed: ExecuteResponse writes that down,
\* RollbackResponse returns the error.
Fails(c) == IF call[c].op = "execute" THEN Go(c, "finish", FALSE) ELSE End(c)

Sent(c) ==
    LET k == call[c].key IN
    /\ last' = Command(call[c].op, k)
    /\ IF call[c].op = "execute"
       THEN executions' = [executions EXCEPT ![k] = @ + 1] /\ UNCHANGED rollbacks
       ELSE rollbacks' = [rollbacks EXCEPT ![k] = @ + 1] /\ UNCHANGED executions

\* Mutant of Send: a command that could not be sent counts as sent.
SendUnchecked(c) ==
    /\ call[c].pc = "send"
    /\ Go(c, "write", FALSE)
    /\ \/ Sent(c) /\ UNCHANGED faults
       \/ Fault /\ UNCHANGED <<last, executions, rollbacks>>
    /\ UNCHANGED <<response, rows, approvers, overlapped>>

\* dispatch: a command that is reported to fail may have reached the host.
Send(c) ==
    /\ call[c].pc = "send"
    /\ \/ Sent(c) /\ Go(c, "write", FALSE) /\ UNCHANGED faults
       \/ Sent(c) /\ Fails(c) /\ Fault
       \/ Fails(c) /\ Fault /\ UNCHANGED <<last, executions, rollbacks>>
    /\ UNCHANGED <<response, rows, approvers, overlapped>>

\* isolate and release, after the command: a row that is not created is an
\* error, rows that are not updated are none.
WriteRows(c) ==
    LET k == call[c].key IN
    /\ call[c].pc = "write"
    /\ IF Command(call[c].op, k) = "isolate"
       THEN \/ /\ rows' = [rows EXCEPT ![k] = @ + 1]
               /\ Go(c, "finish", TRUE) /\ UNCHANGED faults
            \/ Fault /\ Fails(c) /\ UNCHANGED rows
       ELSE /\ Go(c, "finish", TRUE)
            /\ \/ rows' = [j \in Keys |-> 0] /\ UNCHANGED faults
               \/ Fault /\ UNCHANGED rows
    /\ UNCHANGED <<response, last, history>>

\* The last write of ExecuteResponse and RollbackResponse, by the id alone.
Finish(c) ==
    /\ call[c].pc = "finish"
    /\ status' = [status EXCEPT ![call[c].key] =
                     IF call[c].op = "rollback" THEN "rolled_back"
                     ELSE IF call[c].ok THEN "executed" ELSE "failed"]
    /\ End(c)
    /\ UNCHANGED <<action, requestedBy, host, history, faults>>

\* The Manager dies, or a write fails with an error that ends the call.
Crash(c) ==
    /\ InProgress(c) /\ Fault
    /\ End(c)
    /\ UNCHANGED <<response, host, history>>

-----------------------------------------------------------------------------
Ask(c) ==
    \E k \in Keys :
        \/ \E u \in Users :
              \/ \E op \in Commands : ReadToRequest(c, u, k, op)
              \/ \E op \in {"approve", "reject"} : ReadToDecide(c, u, k, op)
        \/ ReadToExecute(c, k) \/ ReadToRollBack(c, k)

Continue(c) == Create(c) \/ Decide(c) \/ Send(c) \/ WriteRows(c) \/ Finish(c)

Next == \E c \in Calls : Ask(c) \/ Continue(c) \/ Crash(c)

Spec == Init /\ [][Next]_vars

-----------------------------------------------------------------------------
(* Properties.                                                             *)

\* No command goes to the host for a response that another user than the one
\* who asked for it has not approved, whatever calls race with each other.
FourEyes ==
    \A k \in Keys :
        executions[k] + rollbacks[k] > 0 =>
            \E u \in approvers[k] : u # requestedBy[k]

\* What the table says was done has been done: "executed" is never written
\* for a command that was not sent, nor "rolled_back" for one that was never
\* executed or whose reverse was not sent.
OutcomeTrue ==
    \A k \in Keys :
        /\ status[k] = "executed" => executions[k] > 0
        /\ status[k] = "rolled_back" => executions[k] > 0 /\ rollbacks[k] > 0

\* While calls come one at a time and nothing fails, a response is executed at
\* most once and never after its rejection, and host_isolations shows the host
\* isolated exactly when the last command isolated it.
Calm == ~overlapped /\ faults = 0
CalmAgrees ==
    Calm =>
        /\ \A k \in Keys :
              /\ executions[k] <= 1
              /\ status[k] = "rejected" => executions[k] = 0
        /\ (\A c \in Calls : ~InProgress(c)) => (Active <=> last = "isolate")

\* The inductive invariant behind the three: what a call in progress may rely
\* on, however old its copy is; what a row says of its past; and, in calm, what
\* the one call in progress still has to bring in line.
CopiesTrue ==
    \A c \in Calls :
        LET k == call[c].key  op == call[c].op  pc == call[c].pc IN
        /\ pc = "create" => op \in Commands /\ call[c].user \in Users
        /\ pc = "decide" =>
              /\ op \in {"approve", "reject"} /\ call[c].user \in Users
              /\ status[k] # "none" /\ requestedBy[k] # call[c].user
        /\ pc \in {"send", "write", "finish"} =>
              /\ op \in {"execute", "rollback"}
              /\ status[k] # "none" /\ approvers[k] # {}
              /\ op = "rollback" => executions[k] > 0
        /\ pc = "write" /\ op = "execute" => executions[k] > 0
        /\ pc = "finish" /\ op = "execute" /\ call[c].ok => executions[k] > 0
        /\ pc \in {"write", "finish"} /\ op = "rollback" => rollbacks[k] > 0

RowsTrue ==
    \A k \in Keys :
        /\ status[k] = "none" => approvers[k] = {}
        /\ status[k] \in {"approved", "executed", "rolled_back"} => approvers[k] # {}
        /\ executions[k] + rollbacks[k] > 0 => approvers[k] # {}
        /\ \A u \in approvers[k] : u # requestedBy[k]

\* A response that was executed says so, or its call is about to write it.
Owed(k) == \E c \in Calls :
               /\ call[c].pc \in {"write", "finish"}
               /\ call[c].op = "execute" /\ call[c].key = k

CalmInv ==
    Calm =>
        /\ \A c, d \in Calls : InProgress(c) /\ InProgress(d) => c = d
        /\ \A k \in Keys :
              /\ executions[k] <= 1
              /\ executions[k] = 1 =>
                    \/ status[k] \in {"executed", "rolled_back"}
                    \/ status[k] = "approved" /\ Owed(k)
        /\ \A c \in Calls :
              LET k == call[c].key  op == call[c].op  pc == call[c].pc IN
              /\ pc = "decide" => status[k] = "pending"
              /\ pc \in {"send", "write", "finish"} =>
                    status[k] = IF op = "execute" THEN "approved" ELSE "executed"
              /\ pc = "write" => last = Command(op, k)
              /\ pc = "finish" => call[c].ok
        /\ (\A c \in Calls : call[c].pc # "write") => (Active <=> last = "isolate")

ResponseInv == CopiesTrue /\ RowsTrue /\ OutcomeTrue /\ CalmInv
=============================================================================
