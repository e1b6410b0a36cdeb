------------------------------ MODULE ScanTask ------------------------------
(***************************************************************************)
(* The life of one baseline scan task: a row of scan_tasks and one row of  *)
(* task_host_status per host, read and written by four kinds of processes  *)
(* that share nothing but these rows:                                      *)
(*                                                                         *)
(*   the API       manager/api/tasks.go: run, cancel, delete               *)
(*   dispatchers   agentcenter/service/task.go, run by every Manager       *)
(*   timers        agentcenter/scheduler/task_timeout_scheduler.go, run by *)
(*                 every AgentCenter; manager/biz/task_scheduler.go sweeps *)
(*   the Consumer  consumer/writer/mysql.go: results and completions       *)
(*                                                                         *)
(* Every statement on the rows is a step.  The dispatch lock excludes      *)
(* nobody here: its TTL is shorter than a round, and without Redis it is   *)
(* granted to everyone.  Time is not modelled: a deadline may have passed  *)
(* whenever a timer looks, because the timeout is the user's choice.       *)
(***************************************************************************)
EXTENDS Integers, FiniteSets

CONSTANTS
    Hosts,        \* the hosts the task targets
    Users,        \* concurrent requests to the API
    Dispatchers,  \* Managers
    Timers,       \* AgentCenters
    MaxRetries,   \* scan_tasks.max_retries
    MaxRuns,      \* bound on how often RunTask is called
    MaxFaults     \* bound on failed sends and writes, losses, redeliveries, crashes

ASSUME ScanTaskAssumption ==
    /\ IsFiniteSet(Hosts)
    /\ MaxRetries \in Nat
    /\ MaxRuns \in Nat
    /\ MaxFaults \in Nat

VARIABLES
    status,      \* scan_tasks.status, "deleted" when the row is gone
    retry,       \* scan_tasks.retry_count
    dispatched,  \* scan_tasks.dispatched_host_count
    completed,   \* scan_tasks.completed_host_count
    row,         \* host -> task_host_status.status, "none" without a row
    results,     \* hosts with rows in scan_results
    request,     \* user -> what it has read the task for: "run", "delete"
    disp,        \* dispatcher -> where dispatchTask stands, with its locals
    timer,       \* AgentCenter -> where its check stands, with its copy
    scans,       \* host -> scans whose results have not been consumed
    signals,     \* host -> completions that have not been consumed
    consuming,   \* hosts whose completion the Consumer has checked, not counted
    runs,        \* history: how often RunTask has written
    returned,    \* history: hosts whose completion the Consumer has handled
    faults

task == <<status, retry, dispatched, completed>>
tables == <<row, results>>
agents == <<scans, signals>>
vars == <<task, tables, request, disp, timer, agents, consuming, runs, returned,
          faults>>

Ended == {"completed", "partial", "failed", "cancelled", "deleted"}
Statuses == {"created", "pending", "running"} \cup Ended
RowStates == {"none", "dispatched", "completed", "timeout", "failed"}

\* Where a dispatcher stands: the task's retry_count in its copy, the hosts it
\* has still to do, the host it is at with the outcome of its send, and
\* successCount.
At(place, copy, todo, host, sent, success) ==
    [pc |-> place, retry |-> copy, todo |-> todo, host |-> host,
     sent |-> sent, success |-> success]
Idle == At("idle", 0, {}, {}, FALSE, 0)

\* Where a timer stands, with its copy of the task; some: resultCount > 0.
Copied(place, r, n, c, some) ==
    [pc |-> place, retry |-> r, dispatched |-> n, completed |-> c, some |-> some]
NoCopy == Copied("idle", 0, 0, 0, FALSE)

DispatcherPC == {"idle", "claim", "load", "send", "record", "count", "rollback",
                 "clean"}

TypeOK ==
    /\ status \in Statuses
    /\ retry \in 0..MaxRetries
    /\ dispatched \in Nat
    /\ completed \in Nat
    /\ row \in [Hosts -> RowStates]
    /\ results \in SUBSET Hosts
    /\ request \in [Users -> {"none", "run", "delete"}]
    /\ disp \in [Dispatchers -> [pc : DispatcherPC, retry : 0..MaxRetries,
                     todo : SUBSET Hosts, host : SUBSET Hosts, sent : BOOLEAN,
                     success : Nat]]
    /\ timer \in [Timers -> [pc : {"idle", "expire", "decide", "mark", "finish"},
                      retry : 0..MaxRetries, dispatched : Nat,
                      completed : Nat, some : BOOLEAN]]
    /\ scans \in [Hosts -> Nat]
    /\ signals \in [Hosts -> Nat]
    /\ consuming \in SUBSET Hosts
    /\ \A h \in consuming : signals[h] > 0
    /\ runs \in 0..MaxRuns
    /\ returned \in SUBSET Hosts
    /\ faults \in 0..MaxFaults

Init ==
    /\ status = "created" /\ retry = 0 /\ dispatched = 0 /\ completed = 0
    /\ row = [h \in Hosts |-> "none"]
    /\ results = {}
    /\ request = [u \in Users |-> "none"]
    /\ disp = [d \in Dispatchers |-> Idle]
    /\ timer = [a \in Timers |-> NoCopy]
    /\ scans = [h \in Hosts |-> 0]
    /\ signals = [h \in Hosts |-> 0]
    /\ consuming = {}
    /\ runs = 0 /\ returned = {} /\ faults = 0

Fault == faults < MaxFaults /\ faults' = faults + 1

\* A statement of which the code logs or drops the error and goes on.  (An error
\* that ends the handler is CrashManager or LoseCheck.)
Attempt(write, kept) ==
    \/ write /\ UNCHANGED faults
    \/ Fault /\ UNCHANGED kept

\* UPDATE scan_tasks SET status = s WHERE task_id = ... (AND status = from).
Write(s) == status' = IF status = "deleted" THEN status ELSE s
WriteFrom(from, s) == status' = IF status = from THEN s ELSE status

-----------------------------------------------------------------------------
(* The API.                                                                *)

ReadToRun(u) ==
    /\ request[u] = "none" /\ runs < MaxRuns
    /\ status \in {"created", "failed", "partial"}
    /\ request' = [request EXCEPT ![u] = "run"]
    /\ UNCHANGED <<task, tables, disp, timer, agents, consuming, runs, returned,
                   faults>>

\* RunTask writes whatever the status has become meanwhile.  The rows of the
\* hosts and the results of earlier runs stay.
RunTask(u) ==
    /\ request[u] = "run" /\ runs < MaxRuns
    /\ request' = [request EXCEPT ![u] = "none"]
    /\ IF status = "deleted"
       THEN UNCHANGED <<task, runs>>
       ELSE /\ status' = "pending"
            /\ retry' = 0 /\ dispatched' = 0 /\ completed' = 0
            /\ runs' = runs + 1
    /\ UNCHANGED <<tables, disp, timer, agents, consuming, returned, faults>>

\* The write is conditional on the status read before.  The signal to the
\* agents stops a scan at best; a lost scan is LoseScan.
CancelTask ==
    /\ status \in {"created", "pending", "running"}
    /\ status' = "cancelled"
    /\ UNCHANGED <<retry, dispatched, completed, tables, request, disp, timer,
                   agents, consuming, runs, returned, faults>>

ReadToDelete(u) ==
    /\ request[u] = "none"
    /\ status \notin {"pending", "running", "deleted"}
    /\ request' = [request EXCEPT ![u] = "delete"]
    /\ UNCHANGED <<task, tables, disp, timer, agents, consuming, runs, returned,
                   faults>>

DeleteTask(u) ==
    /\ request[u] = "delete"
    /\ request' = [request EXCEPT ![u] = "none"]
    /\ status' = "deleted"
    /\ row' = [h \in Hosts |-> "none"]
    /\ results' = {}
    /\ UNCHANGED <<retry, dispatched, completed, disp, timer, agents, consuming,
                   runs, returned, faults>>

-----------------------------------------------------------------------------
(* dispatchTask, called for every task that was pending when the round     *)
(* began, with the copy of the task read then.                             *)

Go(d, place) ==
    disp' = [disp EXCEPT ![d] = At(place, disp[d].retry, disp[d].todo, disp[d].host,
                                   disp[d].sent, disp[d].success)]
Leave(d) == disp' = [disp EXCEPT ![d] = Idle]

\* The hosts online and matching; a retry leaves out those that completed.
\* Without any the task stays as it is.
Pick(d) ==
    /\ disp[d].pc = "idle" /\ status = "pending"
    /\ \E online \in SUBSET Hosts :
          LET left == IF retry > 0
                      THEN {h \in online : row[h] # "completed"} ELSE online
          IN  /\ left # {}
              /\ disp' = [disp EXCEPT ![d] =
                              At("claim", retry, left, {}, FALSE, 0)]
    /\ UNCHANGED <<task, tables, request, timer, agents, consuming, runs,
                   returned, faults>>

\* Mutant of Claim: the status is written without a condition.
ClaimAlways(d) ==
    /\ disp[d].pc = "claim"
    /\ Write("running")
    /\ Go(d, "load")
    /\ UNCHANGED <<retry, dispatched, completed, tables, request, timer, agents,
                   consuming, runs, returned, faults>>

Claim(d) ==
    /\ disp[d].pc = "claim"
    /\ WriteFrom("pending", "running")
    /\ IF status = "pending" THEN Go(d, "load") ELSE Leave(d)
    /\ UNCHANGED <<retry, dispatched, completed, tables, request, timer, agents,
                   consuming, runs, returned, faults>>

\* A task without policies, or whose policies or rules are gone or disabled.
NoPolicy(d) ==
    /\ disp[d].pc \in {"claim", "load"} /\ Fault
    /\ Write("failed")
    /\ Leave(d)
    /\ UNCHANGED <<retry, dispatched, completed, tables, request, timer, agents,
                   consuming, runs, returned>>

\* A send that is reported to fail may have reached the host.
Send(d, h) ==
    /\ disp[d].pc \in {"load", "send"} /\ h \in disp[d].todo
    /\ \E sent \in BOOLEAN, arrived \in BOOLEAN :
          /\ IF sent THEN arrived /\ UNCHANGED faults ELSE Fault
          /\ scans' = [scans EXCEPT ![h] = IF arrived THEN @ + 1 ELSE @]
          /\ disp' = [disp EXCEPT ![d] =
                At("record", disp[d].retry, disp[d].todo \ {h}, {h}, sent,
                   disp[d].success)]
    /\ UNCHANGED <<task, tables, request, timer, signals, consuming, runs,
                   returned>>

\* upsertHostStatus; a host that was reached counts whether or not its row could
\* be written.
Record(d) ==
    /\ disp[d].pc = "record"
    /\ Attempt(row' = [h \in Hosts |-> IF h \notin disp[d].host THEN row[h]
                         ELSE IF disp[d].sent THEN "dispatched" ELSE "failed"], row)
    /\ disp' = [disp EXCEPT ![d] =
          At(IF disp[d].todo = {} THEN "count" ELSE "send", disp[d].retry,
             disp[d].todo, {}, FALSE,
             IF disp[d].sent THEN disp[d].success + 1 ELSE disp[d].success)]
    /\ UNCHANGED <<task, results, request, timer, agents, consuming, runs,
                   returned>>

\* Mutant of Count: the hosts that were reached are waited for, and a round
\* that is repeated resets the count of those that have returned.
CountResets(d) ==
    /\ disp[d].pc = "count"
    /\ IF status # "deleted"
       THEN dispatched' = disp[d].success /\ completed' = 0
       ELSE UNCHANGED <<dispatched, completed>>
    /\ IF disp[d].success = 0 THEN Go(d, "rollback") ELSE Leave(d)
    /\ UNCHANGED <<status, retry, tables, request, timer, agents, consuming,
                   runs, returned, faults>>

\* Only a first round, by its copy, sets the number of hosts to wait for.
Count(d) ==
    /\ disp[d].pc = "count"
    /\ IF disp[d].retry = 0 /\ status # "deleted"
       THEN Attempt(dispatched' = disp[d].success, dispatched)
       ELSE UNCHANGED <<dispatched, faults>>
    /\ IF disp[d].success = 0 THEN Go(d, "rollback") ELSE Leave(d)
    /\ UNCHANGED <<status, retry, completed, tables, request, timer, agents,
                   consuming, runs, returned>>

RollBack(d) ==
    /\ disp[d].pc = "rollback"
    /\ Attempt(WriteFrom("running", "pending"), status)
    /\ Go(d, "clean")
    /\ UNCHANGED <<retry, dispatched, completed, tables, request, timer, agents,
                   consuming, runs, returned>>

Clean(d) ==
    /\ disp[d].pc = "clean"
    /\ Attempt(row' = [h \in Hosts |-> IF row[h] = "failed" THEN "none"
                                       ELSE row[h]], row)
    /\ Leave(d)
    /\ UNCHANGED <<task, results, request, timer, agents, consuming, runs,
                   returned>>

CrashManager(d) ==
    /\ disp[d].pc # "idle" /\ Fault
    /\ Leave(d)
    /\ UNCHANGED <<task, tables, request, timer, agents, consuming, runs,
                   returned>>

-----------------------------------------------------------------------------
(* The timers.                                                             *)

Rest(a) == timer' = [timer EXCEPT ![a] = NoCopy]

ReadPending(a) ==
    /\ timer[a].pc = "idle" /\ status = "pending"
    /\ timer' = [timer EXCEPT ![a] = Copied("expire", 0, 0, 0, FALSE)]
    /\ UNCHANGED <<task, tables, request, disp, agents, consuming, runs,
                   returned, faults>>

\* checkPendingTasksTimeout, whatever the status has become meanwhile.
ExpirePending(a) ==
    /\ timer[a].pc = "expire"
    /\ Write("failed")
    /\ Rest(a)
    /\ UNCHANGED <<retry, dispatched, completed, tables, request, disp, agents,
                   consuming, runs, returned, faults>>

ReadRunning(a) ==
    /\ timer[a].pc = "idle" /\ status = "running"
    /\ timer' = [timer EXCEPT ![a] =
                    Copied("decide", retry, dispatched, completed, FALSE)]
    /\ UNCHANGED <<task, tables, request, disp, agents, consuming, runs,
                   returned, faults>>

\* handleRunningTaskTimeout decides by its copy of the task.
AllIn(c) == c.dispatched > 0 /\ c.completed >= c.dispatched

Complete(a) ==
    /\ timer[a].pc = "decide" /\ AllIn(timer[a])
    /\ WriteFrom("running", "completed")
    /\ Rest(a)
    /\ UNCHANGED <<retry, dispatched, completed, tables, request, disp, agents,
                   consuming, runs, returned, faults>>

\* Mutant of Reschedule: one retry too many.
RescheduleAgain(a) ==
    /\ timer[a].pc = "decide" /\ ~AllIn(timer[a])
    /\ timer[a].retry <= MaxRetries
    /\ IF status = "running" /\ completed < dispatched
       THEN status' = "pending" /\ retry' = timer[a].retry + 1
       ELSE UNCHANGED <<status, retry>>
    /\ Rest(a)
    /\ UNCHANGED <<dispatched, completed, tables, request, disp, agents,
                   consuming, runs, returned, faults>>

Reschedule(a) ==
    /\ timer[a].pc = "decide" /\ ~AllIn(timer[a])
    /\ timer[a].retry < MaxRetries
    /\ IF status = "running" /\ completed < dispatched
       THEN status' = "pending" /\ retry' = timer[a].retry + 1
       ELSE UNCHANGED <<status, retry>>
    /\ Rest(a)
    /\ UNCHANGED <<dispatched, completed, tables, request, disp, agents,
                   consuming, runs, returned, faults>>

\* Retries exhausted: the results are counted first (none, if that fails), ...
CountResults(a) ==
    /\ timer[a].pc = "decide" /\ ~AllIn(timer[a])
    /\ timer[a].retry >= MaxRetries
    /\ \E counted \in BOOLEAN :
          /\ IF counted THEN UNCHANGED faults ELSE Fault
          /\ timer' = [timer EXCEPT ![a] =
                          Copied("mark", 0, 0, 0, counted /\ results # {})]
    /\ UNCHANGED <<task, tables, request, disp, agents, consuming, runs, returned>>

\* ... then the hosts are marked that have not returned ...
GiveUp(a) ==
    /\ timer[a].pc = "mark"
    /\ Attempt(row' = [h \in Hosts |-> IF row[h] = "dispatched" THEN "timeout"
                                       ELSE row[h]], row)
    /\ timer' = [timer EXCEPT ![a] = Copied("finish", 0, 0, 0, timer[a].some)]
    /\ UNCHANGED <<task, results, request, disp, agents, consuming, runs, returned>>

\* Mutant of Finish: exhausted retries always accept what there is.
FinishPartial(a) ==
    /\ timer[a].pc = "finish"
    /\ WriteFrom("running", "partial")
    /\ Rest(a)
    /\ UNCHANGED <<retry, dispatched, completed, tables, request, disp, agents,
                   consuming, runs, returned, faults>>

\* ... and the task ends by that count.
Finish(a) ==
    /\ timer[a].pc = "finish"
    /\ WriteFrom("running", IF timer[a].some THEN "partial" ELSE "failed")
    /\ Rest(a)
    /\ UNCHANGED <<retry, dispatched, completed, tables, request, disp, agents,
                   consuming, runs, returned, faults>>

\* The AgentCenter dies in the middle of a check, or its last write fails.
LoseCheck(a) ==
    /\ timer[a].pc # "idle" /\ Fault
    /\ Rest(a)
    /\ UNCHANGED <<task, tables, request, disp, agents, consuming, runs, returned>>

\* Mutant of SweepZombie: only tasks with a host to wait for.
SweepZombieSent ==
    /\ status = "running" /\ dispatched > 0
    /\ status' = "failed"
    /\ UNCHANGED <<retry, dispatched, completed, tables, request, disp, timer,
                   agents, consuming, runs, returned, faults>>

\* timeoutZombieTasks.
SweepZombie ==
    /\ status = "running"
    /\ status' = "failed"
    /\ UNCHANGED <<retry, dispatched, completed, tables, request, disp, timer,
                   agents, consuming, runs, returned, faults>>

-----------------------------------------------------------------------------
(* Agents, and the Consumer.                                               *)

\* A scan is lost with its agent or plugin, or stopped by a cancellation.
LoseScan(h) ==
    /\ scans[h] > 0 /\ Fault
    /\ scans' = [scans EXCEPT ![h] = @ - 1]
    /\ UNCHANGED <<task, tables, request, disp, timer, signals, consuming, runs,
                   returned>>

\* Kafka delivers a completion again, or the host has scanned twice.
Redeliver(h) ==
    /\ h \in returned /\ Fault
    /\ signals' = [signals EXCEPT ![h] = @ + 1]
    /\ UNCHANGED <<task, tables, request, disp, timer, scans, consuming, runs,
                   returned>>

\* WriteBaseline: the results of a task that was cancelled are dropped, and a
\* scan need not have any.  (The check and the upsert are two statements; a
\* result that slips in between changes nothing that is decided here.)
StoreResult(h) ==
    /\ scans[h] > 0
    /\ results' \in {results} \cup
           (IF status = "cancelled" THEN {} ELSE {results \cup {h}})
    /\ scans' = [scans EXCEPT ![h] = @ - 1]
    /\ signals' = [signals EXCEPT ![h] = @ + 1]
    /\ UNCHANGED <<task, row, request, disp, timer, consuming, runs, returned,
                   faults>>

\* A result that comes after its completion: the workers of an AgentCenter and
\* the retries of its producer do not keep the order of a host's messages.
StoreLate(h) ==
    /\ signals[h] > 0 \/ h \in returned
    /\ status # "cancelled"
    /\ results' = results \cup {h}
    /\ UNCHANGED <<task, row, request, disp, timer, agents, consuming, runs,
                   returned, faults>>

CheckSignal(h) ==
    /\ h \notin consuming /\ signals[h] > 0
    /\ IF status = "cancelled"
       THEN /\ signals' = [signals EXCEPT ![h] = @ - 1]
            /\ UNCHANGED consuming
       ELSE /\ consuming' = consuming \cup {h}
            /\ UNCHANGED signals
    /\ UNCHANGED <<task, tables, request, disp, timer, scans, runs, returned,
                   faults>>

\* Mutant of CountCompletion: a host that is through already counts again.
CountCompletionAgain(h) ==
    /\ h \in consuming
    /\ consuming' = consuming \ {h}
    /\ signals' = [signals EXCEPT ![h] = @ - 1]
    /\ returned' = returned \cup {h}
    /\ IF row[h] \in {"dispatched", "timeout", "completed"} /\ status # "deleted"
       THEN /\ row' = [row EXCEPT ![h] = "completed"]
            /\ completed' = completed + 1
            /\ status' = IF dispatched > 0 /\ completed' >= dispatched
                         THEN "completed" ELSE status
       ELSE UNCHANGED <<row, completed, status>>
    /\ UNCHANGED <<retry, dispatched, results, request, disp, timer, scans,
                   runs, faults>>

\* The transaction of WriteTaskCompletion: the host's row, the count, and the
\* status once the count is reached.  Without the task, or when a statement
\* fails, it is rolled back, and the completion goes to the dead letter queue.
CountCompletion(h) ==
    /\ h \in consuming
    /\ consuming' = consuming \ {h}
    /\ signals' = [signals EXCEPT ![h] = @ - 1]
    /\ returned' = returned \cup {h}
    /\ IF row[h] \in {"dispatched", "timeout"} /\ status # "deleted"
       THEN Attempt(/\ row' = [row EXCEPT ![h] = "completed"]
                    /\ completed' = completed + 1
                    /\ status' = IF dispatched > 0 /\ completed' >= dispatched
                                 THEN "completed" ELSE status,
                    <<row, completed, status>>)
       ELSE UNCHANGED <<row, completed, status, faults>>
    /\ UNCHANGED <<retry, dispatched, results, request, disp, timer, scans, runs>>

-----------------------------------------------------------------------------
API ==
    \/ \E u \in Users :
          ReadToRun(u) \/ RunTask(u) \/ ReadToDelete(u) \/ DeleteTask(u)
    \/ CancelTask

Dispatch(d) ==
    \/ Pick(d) \/ Claim(d) \/ (\E h \in Hosts : Send(d, h)) \/ Record(d)
    \/ Count(d) \/ RollBack(d) \/ Clean(d)

Check(a) ==
    \/ ReadPending(a) \/ ExpirePending(a)
    \/ ReadRunning(a) \/ Complete(a) \/ Reschedule(a)
    \/ CountResults(a) \/ GiveUp(a) \/ Finish(a)

Consume(h) == StoreResult(h) \/ CheckSignal(h) \/ CountCompletion(h)

Next ==
    \/ API
    \/ \E d \in Dispatchers : Dispatch(d) \/ NoPolicy(d) \/ CrashManager(d)
    \/ \E a \in Timers : Check(a) \/ LoseCheck(a)
    \/ SweepZombie
    \/ \E h \in Hosts : Consume(h) \/ StoreLate(h) \/ LoseScan(h) \/ Redeliver(h)

Spec == Init /\ [][Next]_vars

\* The processes go on; users, sends that fail and redeliveries owe nothing.
FairSpec ==
    /\ Spec
    /\ \A d \in Dispatchers : WF_vars(Dispatch(d))
    /\ \A a \in Timers : WF_vars(Check(a))
    /\ WF_vars(SweepZombie)
    /\ \A h \in Hosts : WF_vars(Consume(h))

-----------------------------------------------------------------------------
(* Properties.                                                             *)

CompletedRows == {h \in Hosts : row[h] = "completed"}
ReachedRows == {h \in Hosts : row[h] \in {"dispatched", "timeout", "completed"}}
FirstRound == runs = 1 /\ retry = 0 /\ status # "deleted"

\* The count of a run misses no host whose row says it is through, whatever
\* retries, redeliveries and crashes the run has seen.
NoHostForgotten == runs = 1 => Cardinality(CompletedRows) <= completed

\* Before the first retry the accounting is exact: no host counts twice, and a
\* task is completed only when every host that was reached has returned.
FirstRoundExact ==
    FirstRound =>
        /\ completed = Cardinality(CompletedRows)
        /\ status = "completed" => ReachedRows = CompletedRows

Working(d) == disp[d].pc \in {"load", "send", "record", "count", "rollback"}

\* Until then the claim of the task is exclusive without the Redis lock: two
\* Managers never send the same round.
OneDispatcher ==
    FirstRound => \A c, d \in Dispatchers : Working(c) /\ Working(d) => c = d

\* The inductive invariant behind the three.
NeverRun ==
    runs = 0 =>
        /\ status \notin {"pending", "running"}
        /\ \A d \in Dispatchers : disp[d].pc = "idle"
        /\ \A a \in Timers : timer[a].pc = "idle"
        /\ \A h \in Hosts : row[h] = "none"

\* While the task waits nobody works on it and no host has been reached.
WaitingFresh ==
    status = "pending" =>
        /\ \A d \in Dispatchers : ~Working(d)
        /\ ReachedRows = {}
        /\ dispatched = 0

\* The one that works counts the hosts it has reached, of which some may have no
\* row, and has not been at those it has still to do.
WorkingCounts ==
    \A d \in Dispatchers :
        /\ disp[d].pc # "idle" =>
              disp[d].retry = 0 /\ disp[d].todo \cap disp[d].host = {}
        /\ disp[d].pc = "record" => \E h \in Hosts : disp[d].host = {h}
        /\ Working(d) =>
              /\ dispatched = 0
              /\ disp[d].success >= Cardinality(ReachedRows)
              /\ (disp[d].todo \cup disp[d].host) \cap ReachedRows = {}
        /\ disp[d].pc \in {"claim", "rollback"} => disp[d].success = 0

CountsMatchRows ==
    /\ completed = Cardinality(CompletedRows)
    /\ dispatched > 0 => dispatched >= Cardinality(ReachedRows)
    /\ status = "completed" => dispatched > 0 /\ completed >= dispatched

\* What a timer has copied can only have been overtaken by completions.
CopiesBehind ==
    \A a \in Timers :
        timer[a].pc = "decide" /\ timer[a].dispatched > 0 =>
            timer[a].dispatched = dispatched /\ timer[a].completed <= completed

FirstRoundInv ==
    /\ NeverRun
    /\ OneDispatcher
    /\ FirstRound => WaitingFresh /\ WorkingCounts /\ CountsMatchRows /\ CopiesBehind

\* A task that gave up with partial results does have some.
PartialHasResults == status = "partial" => results # {}

\* A task that was started ends, whatever is lost on the way.
TaskEnds == status \in {"pending", "running"} ~> status \in Ended
=============================================================================
