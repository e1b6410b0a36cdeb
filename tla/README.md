# Formal models of mxcwpp

TLA+ specifications, TLC models and TLAPS proofs of the parts of mxcwpp in which processes, threads, messages
and failures meet. `PROJECT.json` is the index: the components of the repository, the runs, the mutants that
show that each property can be broken, the source lines behind every definition, the hazards and the findings.

## 1. The system

mxcwpp protects hosts and containers. An **Agent** on every host runs plugins, collects events and executes
tasks. Agents hold a gRPC stream to one of several **AgentCenter** (AC) instances, which publish what arrives to
**Kafka**. The **Consumer** (one group, several processes) stores it in MySQL and ClickHouse; the **Engine**
(another group) detects threats in it and produces alerts. The **Manager** serves the API, owns tasks, incidents
and responses, and pushes commands through the ACs. **VulnSync** and **LLMProxy** are services beside them.

| Component | State | Operations | Interacts through | What is hard, and what makes it correct |
|---|---|---|---|---|
| Consumer Router (`consumer/router.go`) | processed offsets, barrier goroutine, session | Setup, Cleanup, ConsumeClaim, handleMessage, flushAndCommit | Kafka group session, writers, DLQ | offsets are committed beside the handlers; rebalances, evictions, crashes. An offset may be committed only when everything behind it is handled and safe |
| ClickHouse writer (`consumer/writer/clickhouse.go`) | three batches, sticky failure flag | Write*, flush, Flush | shared memory between handlers, ticker and barrier | two goroutines flush at once, arrays are reused, one flag for all failures. No row may be lost while the offsets advance |
| MySQL writer (`consumer/writer/mysql.go`) | tables | WriteTaskCompletion, WriteBaseline, ... | transactions | redelivered messages; counters must not count twice |
| Task life cycle (`manager/biz/task_scheduler.go`, `agentcenter/service/task.go`, `agentcenter/scheduler/task_timeout_scheduler.go`, `manager/api/tasks.go`) | task row with counters, one row per host | run, cancel, dispatch, timeout, retry, completion | MySQL rows read and written by four kinds of processes | stale reads, compare-and-set on some paths only, late and repeated completions. A task ends, and its final status is what happened |
| Kafka producer (`common/kafka/producer.go`) | input channel, fallback queue and its counter | Send, SendReliable, replay, refusals, Close | sarama channels | overflow, retry and TTL; a message is kept, sent or counted as dropped, and never stays for ever |
| Agent uplink (`agent/buffer`, `agent/wal`, `agent/transport`, `agent/connection`) | ring buffer, log on disk, connection | write, send, reconnect, replay, truncate | gRPC stream | overflow, timed out sends, half-open streams, torn entries. What the log accepted stays until it is sent |
| Agent plugin manager (`agent/plugin`) | instances, processes, task tracker on disk | load, update, restart, watchdog, dispatch, retry | pipes, task channels | goroutines of several kinds replace instances; one process runs, and a task that kills it is retried and never for ever |
| Agent updater, EDR collectors (`agent/updater`, `agent/edr`) | files, probes | update, roll back, collect | OS | mostly I/O |
| AC transfer service (`agentcenter/transfer`) | connection table, host status, offline alert | Transfer stream, receive loop and workers, heartbeats, unregister | gRPC, Kafka, MySQL rows | reconnects replace a connection, here or at another AC, while the old one ends; the status is right in the end |
| AC discovery (`manager/sd`, `agentcenter/sdclient`) | registry of each Manager, Redis hash and notices | register, heartbeat, deregister, sync, probe, prune, dispatch | HTTP, Redis | copies of copies, lost notices, restarts; an AC that is gone is forgotten |
| Response approval (`manager/biz/casework/response.go`) | response requests | request, approve, execute, roll back | MySQL rows | decisions race with each other and with execution: approved by another person, executed once |
| Incident casework (`manager/biz/casework`) | incidents and events | ack, assign, resolve | MySQL rows | updates after a resolve |
| SOAR playbooks (`manager/biz/soar`) | executions, steps | run, approve, retry | rows, goroutines | approvals and timeouts |
| Alert bus (`server/alertbus`) | suppression window in memory, queue | publish, forward | channels | check-then-act, bounded queue |
| Engine pipeline (`server/engine`) | stages, offsets | consume, evaluate, persist, produce | Kafka, MySQL | redelivery, deduplication |
| Rule rollout (`engine/rollout`) | copy of the rollout rows | refresh, resolve | rows | a stale copy for one refresh |
| VulnSync leader (`vulnsync/leader`) | Redis lease | elect, renew, release | Redis | a lease outlives its holder or the other way round |
| LLM proxy (`server/llmproxy`) | quota, cache, provider blacklist | check, route, charge | Redis | the quota is checked before and charged after a call |
| DLQ replay (`cmd/tools/dlq-replay`) | offsets of the DLQ | scan, replay | Kafka | replay exactly what failed |

## 2. Plan

In this order; what is left is at the end.

1. Done: the Consumer's commit barrier: `ClickHouseWriter`, `OffsetBarrier`, abstract `AtLeastOnce`;
   proofs of all its safety properties and of the refinement (`OffsetBarrierProofs`).
2. Done: the scan task: `ScanTask` (API, dispatchers, timeout schedulers, Consumer, agents); proofs of the
   accounting of its first round and of partial results (`ScanTaskProofs`).
3. Done: the response approval: `ResponseApproval`; proofs of the second person, of the outcome and of the agreement
   of rows and host (`ResponseApprovalProofs`).
4. Done: the way up: `KafkaProducer` over the abstract `CountedChannel`, `AgentUplink`, and `Uplink`, which composes
   the Agent's side with the AgentCenter's receive loop; proofs of the accounting and of the refinement
   (`KafkaProducerProofs`), of the log and of the number of copies (`UplinkProofs`).
5. Done: the presence of an Agent: `AgentPresence`, and `OfflineAlert` on top of it; proofs of the connection tables
   and that `OfflineAlert` implements `AgentPresence` (`AgentPresenceProofs`).
6. Done: the Agent's plugins: `PluginProcess`, and `PluginTasks`, which composes it with the task tracker; proofs of
   one process and of the bound on poison tasks (`PluginTasksProofs`).
7. Done: the registry of AgentCenters: `ACRegistry`.
8. Left to prove: every invariant, action property and refinement that a run checks is proved. What is left would be
   new claims: of the accounting of a scan task in its retries, of runs after the first, of the entries in `ACRegistry`.
9. Left to model: the leases (VulnSync's leader, the dispatch lock of the Manager), the command dispatcher with
   `commandsub`, the approvals of SOAR playbooks, and the FIM, fix and antivirus tasks, whose life cycles are variants
   of the scan task's.

## 3. Modules

`ClickHouseWriter` has no next-state relation of its own: it gives the writer's state and one action per step of
the code, and the system around it says who takes them: `OffsetBarrier` INSTANCEs it and adds the Router. A flush is
three kinds of steps: `BeginFlush` (under `w.mu`), one `SendOK` or `SendFail` per table in the order of the code, and
`EndFlush`, which may clear the sticky flag.
`AppendRow` models the data race of `w.rows = w.rows[:0]`: a batch that still lies in the reused array may be read
with the old row, the new one, or a mixture of both (`Torn`). A mixture is appended and sent like any other row, so it
gets into `durable`; nothing in the code tells it apart.

In `OffsetBarrier` every claimed partition has a handler (`Receive`, `Handle`, `Record`), the barrier is
`Snapshot`, `BarrierFlush`, the sends, `Check`, `Commit`, and the periodic flusher runs beside them. Sessions
start with `Setup` and end with `Cleanup` and `Release`; `Evict` is a session timeout the process has not noticed,
`ConsumeElsewhere` another member of the group, `Crash` kill -9 at any point. `handled`, `skipped` and `elsewhere`
are history variables. `AtLeastOnce` is the abstract promise: committed offsets only grow and cover only what is
done; `KeepsPromise` is the refinement, with `done` mapped to what was handled here, elsewhere, or jumped over by
a cold start.

`ScanTask` is one row of `scan_tasks` with the `task_host_status` rows of its hosts, and everybody who writes them.
Every SQL statement (or transaction) is one action, so that a read and the write decided by it are two steps:
`ReadToRun`/`RunTask` and `ReadToDelete`/`DeleteTask` of the API, `Pick`, `Claim`, then per host `Send` and `Record`,
then `Count`, `RollBack`, `Clean` of a dispatcher, `ReadPending`/`ExpirePending` and `ReadRunning` followed by
`Complete`, `Reschedule` or `CountResults`/`GiveUp`/`Finish` of the timers, `CheckSignal`/`CountCompletion` of the
Consumer. `CancelTask` is one step because its write is conditional on what it has read. What a process keeps in
local variables between two statements is in `disp[d]` and `timer[a]`. The dispatch lock in Redis is left out: its
TTL is shorter than a round with retries, and without Redis `acquireLock` returns true for everyone, so the model
allows what the code allows when the lock is gone, and shows what the conditional write gives without it. Where the
code only logs or drops the error of a statement and goes on (`upsertHostStatus`, the number of hosts, the roll back,
the clean up, the count of the results, the marking of the hosts), the statement is an `Attempt`: it may fail, and the
next step is taken all the same. `LoseCheck` is an AgentCenter that dies in the middle of a check, or whose last
write fails; a completion whose transaction fails goes to the dead letter queue. Time is
left out: the timeout is chosen by the user in minutes, a deadline may have passed whenever a timer looks.

`ResponseApproval` is the responses on one host, with its rows in `host_isolations` and the last command that reached
it. A call of the API is a read (`ReadToRequest`, `ReadToDecide`, `ReadToExecute`, `ReadToRollBack`) and the steps
that follow from it (`Create`, `Decide`, or `Send`, `WriteRows`, `Finish`), with the calls of other users between any
two; `call[c]` is what a call has read and does next. `decide()` runs in a transaction but takes no lock on the row it
reads, so it is two steps too. `rows[k]` counts the active rows a response has written, because a release updates
all active rows of the host. A `Send` that is reported to fail may have reached the host, `Crash` ends a call
anywhere (a dead Manager, or a failed write whose error `ExecuteResponse` ignores). `approvers`, `executions`,
`rollbacks` and `overlapped` are history variables.

`KafkaProducer` is `common/kafka/producer.go`. A call, the replay loop, the error loop, Kafka's answers and `Close`
each take one step per channel operation, and the atomic counter beside the queue is a step of its own, as in the code.
`input` is what sarama holds, its buffers included: it fills when Kafka does not answer. Age is left out: a queued
message may have expired whenever the replay loop looks at it. `CountedChannel` is the abstract promise (what is dropped
is counted, and what is counted does not arrive); `CountsDrops` is the refinement.

`AgentUplink` is the Agent's side: ring, log and the goroutines of the transport. A log entry is written in two steps
(header, data) under the log's lock, a replay holds the lock from its first read to the truncation, and a send that
times out is kept in `late`, because `sendWithTimeout` leaves a goroutine behind that may still send. `Uplink` puts the
AgentCenter at the other end: the receive loop takes a batch, gives every record to a worker under the semaphore, and
the workers hand the records to the producer; workers of an ended connection run on as `orphans`. A heartbeat takes a
worker like a record; how many heartbeats the producer gets is not counted, so they have no `orphans`. The events that may
go to the log (data types 3000 to 3099) are the constant `Edr`.

`AgentPresence` is one Agent, the AgentCenters it may connect to, and all who write its host's status: `Transfer` with
its registration, its first heartbeat and its end, the Kafka heartbeats that the Consumer applies late or twice, and
the heartbeat scan, which reads and writes in two steps. A connection is a run of `Transfer`, and the Agent's end and
the AC's end learn of a broken stream in steps of their own. `OfflineAlert` adds the alert row to the same steps: the
resolving goroutines that a connection starts and nobody waits for.

`PluginProcess` is the plugin manager with one plugin: instances in `Slots`, the process of each, and the goroutines
that load, stop and replace it: `SyncPlugins` (new, update with roll back, remove), `restartPluginWithBackoff`, the
watchdog with its forced restart, and the wake-up of a dormant plugin. `op` is what the holder of `Manager.mu` is
doing; the lock is held for the whole load, as in the code. `PluginTasks` adds one task: the channel registered under
the plugin's name, `sendTask` of every instance, the tracker on disk and `retryPendingTasks`; the Agent may be restarted
at any point, and the disk stays.

`ACRegistry` is one AgentCenter as the Managers and Redis see it: registration and heartbeats over HTTP to one of the
Managers, `Deregister`, the notices, the full synchronisation (`Load`, `TakeOver`, `PruneRedis`: the read, the merge
under the lock, the removal after it) and the probes (`Probe`, then the mark on whatever is there by then). Of the time
of the last contact only its age class is kept.

## 4. Runs

| Run | Shows | Bounds |
|---|---|---|
| `barrier_one` | the inductive invariant, no offset beyond the log, the handover, the refinement | one partition, three messages, two faults |
| `barrier_two` | what is committed is out of the batches and in MySQL or the dead letters, ClickHouse holds no whole row of a FIM event that MySQL does not hold; partial claims, a cold start at the newest offset | two partitions of two messages, one fault |
| `barrier_live` | commits catch up | two messages, two faults, ClickHouse accepts rows |
| `task_rounds` | the inductive invariant of the first round, its exact accounting, no completed host missing from the count, a partial task has results | two hosts, one Manager, one AC, one retry, one run, one fault |
| `task_managers` | one dispatcher per first round without the lock; a started task ends | one host, two Managers, one AC, one retry, one fault |
| `response_calls` | no command without the approval of a second person, no outcome that did not happen, and, while calls come one at a time, rows that agree with the host | two responses, two users, two calls at once, one fault |
| `producer` | no message vanishes uncounted or multiplies, the counter follows the queue, nothing is kept for ever while the producer is open, the refinement | three messages, one reliable; Input and queue of one; two retries, two refusals |
| `uplink` | the log keeps what it accepted, a record arrives once plus once per failed replay, the ring is emptied again and again, writers return | two EDR events, one other record; ring, log, batch, stream window and workers of one; two faults |
| `presence` | the connection tables are exact; the status is right in the end, both ways | two AgentCenters, one of them scanning, two connections at once, two faults |
| `offline_alert` | a sentence of the repository that the code does not keep (section 7) | two AgentCenters, none scanning, one fault |
| `plugins` | one process at most runs that is not being stopped; a task that kills its plugin is handed out a bounded number of times | three instances (symmetric), one restart, one retry, the task given once, two faults |
| `discovery` | an AgentCenter that stays away is forgotten by every Manager and by Redis | two Managers; no bound on faults |

Barrier: two messages per partition already give every order of snapshot, append and flush; the third lets a flush
carry two tables. Faults (failures, crashes, evictions, rebalances) share one budget: two allow a fault during the
recovery from another.

Task: two hosts are the least that lets one return and the other not, and lets a retry reach a host the first round
did not; one retry gives a first and a later round. A fault (a failed or doubtful send, a failed statement, a task
without rules, a lost scan, a redelivery, a dead Manager or AgentCenter) may fall between any two statements.
`MaxRuns` is 1: a second run keeps the rows of the first one by design (`RunTask` deletes none), so what is said of
one run does not apply to it.

Response: two calls at once are the least that race, two responses let one be requested while the other is executed, two
users are needed for any approval.

Producer: a queue and an Input of one are full with one message each, so the third of three finds both full and is
dropped; the reliable one takes the other path. Two retries give a first and a last one.

Uplink: with a ring and a window of one every overflow happens with two events; a torn entry beside a sound one makes a
log of two entries, although one is the limit of those counted. Two faults let a stream break during the recovery
from the first break. The third record is one that may not go to the log.

Presence: two AgentCenters and two connections are the least that lets the old end after the new has registered, on the
same AC or on another. Three connections at once (two old ones still ending) are not explored.

Plugins: three instances let a stopped one, its successor and the successor's successor coexist; a finished instance
frees its slot.

Registry: a second Manager is what lets a copy survive the first one's pruning; a third would hear the same notices.

Deadlock is not checked where the system may stop: a task that has ended, responses that are all decided, a closed
producer, an Agent that has stopped, a plugin that is given up.

Fairness. *Task* (`ScanTask!FairSpec`): every Manager and AC runs its loop on a ticker, the zombie sweep too, and
the Consumer consumes. Users, sends and losses owe nothing. Without the sweep the task would not end: after a
Manager's death in the middle of a round `dispatched_host_count` is 0, and with retries left neither `Complete` nor
the conditional write of `Reschedule` applies (the mutant `SweepZombieSent` shows it).
*Consumer* (`OffsetBarrier!FairSpec`): goroutines continue, tickers tick, an eviction is noticed and a
session is joined again. Messages, failures and crashes are owed by nobody.
*Producer* (`KafkaProducer!FairSpec`): the replay loop and the error loop run. Kafka owes nothing; `Settles` assumes in
its own premise that Kafka answers.
*Uplink* (`Uplink!FairUplink`): the goroutines of Agent and AgentCenter run, heartbeats are written again and again, and
a connection can be made again; plugins owe no records.
*Presence* (`AgentPresence!FairSpec`): the Agent, while it runs, reconnects and beats, both ends notice a broken
stream, the Consumer consumes, the scan returns each minute, time passes. Whether the Agent runs for good or stops is
the premise of the two properties. Faults are bounded, so streams stop breaking.
*Registry* (`ACRegistry!FairSpec`): the loops of the Managers loop, an AC that is up reports, time passes while it is
down. A restart of a Manager while the AC is down is left out, because restarts without end could keep the entry.
The plugin run states no liveness: the code gives up on a plugin after `maxRestartCount`, and see section 7.

## 5. Proofs

What is proved holds for every value of the constants that the named assumptions of the modules allow: types of the
constants, positive sizes where the code has one, finite sets where something is counted (hosts in `ScanTask`,
messages in `KafkaProducer`), and that the values for "nothing" and "torn" are not messages or identifiers. TLC
evaluates the assumptions in every run of these modules. The inductive invariants were checked by TLC before they were
proved.

| Module | Theorems of properties that a run checks | Further theorems |
|---|---|---|
| `OffsetBarrierProofs` | `TypeCorrect`, `BarrierInvariant`, `CommitsHandledOnly`, `CommitsLeaveBuffer`, `CommitsAreAccounted`, `ArchiveIsBacked`, `HandsOverComplete` (action property), `Implements` (refinement of `AtLeastOnce`) | |
| `ScanTaskProofs` | `TypeCorrect`, `FirstRoundInvariant`, `FirstRoundAccounting`, `CompletedCounted`, `ExclusiveDispatch`, `PartialIsNotEmpty` | |
| `ResponseApprovalProofs` | `TypeCorrect`, `ResponseInvariant`, `SecondPerson`, `OutcomeIsTrue`, `CalmAgreement` | |
| `KafkaProducerProofs` | `TypeCorrect`, `NothingVanishes`, `CounterFollowsQueue`, `CountsWhatItDrops` (refinement of `CountedChannel`) | `ProducerInvariant`, `DropsAreExact` |
| `UplinkProofs` | `TypeCorrect`, `LogIsKept`, `CopiesAreBounded` | |
| `AgentPresenceProofs` | `TypeCorrect`, `TablesAreExact` | `PresenceInvariant`, `AlertRidesOnPresence`, `AlertKeepsTables` |
| `PluginTasksProofs` | `TypeCorrect`, `NeverTwice`, `PoisonIsBounded` | `TasksInvariant` |

*Barrier.* `BarrierInv` is needed because a commit uses a snapshot taken before the flush: it relates the snapshot,
the rows in the batches and the committed offsets at every place the barrier can stand. `HandledAccounted` carries
what a handler has put away from `Handle` to `Record`, so that `CommittedHandled` gives `CommittedAccounted`.
`LastRound` says that the round started by `Cleanup` works on the final entries of `r.processed` and that "done" is
reached in such a round only; with `ProcessedIsLast` (the entry is the last message handled, or empty) it gives the
handover. `BatchesBacked` follows rows through the arrays that batches share: what overwrites a row is a row of
another message that has one, or a mixture. A mixture is sent as it is, so `RowsBacked` speaks of the whole rows that
ClickHouse holds and of no mixture. The types are part of the same induction: that no offset runs past the log
(`OffsetsInLog`) needs that handlers are at work within the log and that a snapshot is below what was handed out.

*Scan task.* `FirstRoundInv` says who may be where before the first retry: nobody works while the task waits
(`WaitingFresh`), the one that works has a `successCount` of at least the number of rows it has written
(`WorkingCounts`; a row that could not be written is counted too), the number of hosts to wait for is, once it is set,
at least that of the rows, and the completed count is exactly theirs (`CountsMatchRows`), and a timer's copy can only be behind by
completions (`CopiesBehind`). It does not hold after a retry (section 7), but `NoHostForgotten` does, and has a proof of
its own that needs only the types and what the first run starts from. `PartialHasResults` needs that what a timer has
counted stays until the task is deleted, and that a deleted task does not come back (`ResultsInv`).

*Response.* The invariant is needed because a call acts on an old copy: `CopiesTrue` says what stays true of a copy
however old it is (a response is never requested again, an approval is never forgotten, what was sent was sent),
`RowsTrue` what a row says of its past, and `CalmInv` what the only call in progress has still to bring in line. The
types are not inductive without `CopiesTrue` (a call writes what it has read), so they are part of the same theorem.
Two calls can execute a response twice (section 7): agreement is claimed for calm only.

*Producer.* `Accounted` and `LengthAgrees` are inductive together with the types; `Balanced` is `LengthAgrees` without
the set that is always empty. The refinement needs `Accounted`: an answer of Kafka or a drop is a step of the channel
only because a message that the producer holds has been taken and is neither delivered unnoticed nor dropped.

*Uplink.* Three invariants, each on top of the one before. `TypeInv`: types, and no more slots of `workerSem` taken than
there are. `LogInv`: a replay keeps the writers out of the log, starts at its first entry, and what it has gone past was
handed over or read over. `OnceInv`: before a record has left its writer there is no copy of it; one that went through
the ring has at most one; one of the log at most one for each replay that failed, and one more when the current
replay has gone past it. It needs that the log holds a record once and that no batch holds one twice. `OnceInv` was
also checked by TLC on a larger instance (ring, log and batch of two, 10.7 million states).

*Presence.* `TableExact` is inductive with the types and two facts on `Transfer`: a run that has not registered cannot
have been cancelled, and one that has not returned knows its AgentCenter. `OfflineAlert` takes its steps together with
those of `AgentPresence`, which the refinement states, so the tables are exact with the alert too.

*Plugins.* `OneLive`: a live process that is not being stopped is the current instance's while `Manager.mu` is free
and the new instance's while its start is confirmed; who is about to load has ended or stopped whatever ran before.
`Covered`: the copies of the task under way and the retries that its entry still allows never exceed the writes that
the server's deliveries have paid for.

Only model-checked, because liveness under fairness (and ENABLED in it) is out of the prover's reach: `CommitsCatchUp`,
`TaskEnds`, `LeavesQueue`, `Settles`, `RingDrains`, `WritersReturn`, `BackShown`, `GoneShown`, `DownForgotten`; and
`AlertClears`, which does not hold. `ACRegistry` states no safety property and has no proofs.

## 6. Not modelled

Of the responses: the evidence rows, which nothing reads back, and the timer by which an agent releases its host by
itself, of which the Manager never hears. Of the Router: `recordProcessed` never enters offset 0, so a partition with
only that message is handed over uncommitted; the model has this behaviour, and no property is claimed of it. Of the
task: a completion that is consumed before the host's row is written is dropped (`CountCompletion`), and only the
timeout ends the task then; what is done with a completion in the dead letter queue; the dispatch lock. Of the uplink: the compression of batches, the
configuration a connection brings down, the certificate renewal. Of the AgentCenter: the commands on their way down to
the Agent beyond the table they are put in, and the tasks other than the scan task. Of the registry: the other AgentCenters,
of which it only matters that they may keep the hash from expiring, and the choice of an instance for an Agent.

That a live AgentCenter is always listed is not stated: it follows from periods (a heartbeat each 15 s against a
minute until an entry is unhealthy and ten until it is pruned), and time is left out. That a crashed plugin comes back
is not stated because it is not so (section 7).

Parsing and formatting of rows, schema setup, metrics and logging; the components marked `not_modelled` in
`PROJECT.json` with the reason there.

## 7. Deviations

`offline_alert` shows the first of these; the others are behaviours that the models have and the properties make an
exception of, each with the line that does it and, where there is one, the line that says otherwise.

Agent and AgentCenter:
- The offline alert of an Agent that is back stays active: the old stream at another AgentCenter ends after the new
  connection has resolved it (`transfer/service.go:1861`; :336 "resolved unconditionally").
- `registerConnection` says that the old connection's goroutines end at once (`service.go:1754`); the worker that
  holds a record runs on, and what it writes comes after the new connection's writes.
- The batch that could not be sent is cached "to be sent again after the reconnect" (`agent/transport/transport.go:294`);
  `sendCachedData` throws the cache away on reconnect.
- After a send times out the sender stops and the stream, if it lives, is left half open: the ring is not emptied
  until the stream breaks (`transport.go:307`). `RingDrains` makes this exception.
- The heartbeat scan writes by what it read before; a heartbeat held up in Kafka sets a host online that has gone. Both
  are put right by the next heartbeat or scan, which is what `BackShown` and `GoneShown` say.
- A plugin that a signal kills within 100 ms of its start counts as started and is never restarted
  (`agent/plugin/plugin.go:428`; :81 "should be restarted", `docs/architecture.md:184`). A restart that
  fails to load is counted and not tried again.
- While the watchdog forces a restart, a configuration push may load another instance, and the forced restart then
  unregisters the channel of that one by the plugin's name. `retryPendingTasks` may put a task into the channel that is
  there already; `PoisonBounded` counts such copies.
- `AtMostOnce` counts one delivery more for each replay that failed: a replay starts from the beginning of the log.

Kafka producer:
- The error loop restarts a refused message's retries and age (`common/kafka/producer.go:343`), so a message that Kafka
  refuses again and again is bounded by Kafka's refusals, not by `fallbackMaxRetries`.
- The same loop keeps the key "so that the order of an Agent's messages is kept" (`producer.go:346`); the message itself
  arrives behind its successors.
- `Close` closes Input under senders and the replay loop, which then panic, and leaves the queue behind uncounted. The
  AgentCenter never calls it; the Consumer closes its producer after the Router.

Registry:
- `LoadFromRedis` only adds, and a prune can delete an entry that was registered again a moment before; the
  AgentCenter's next heartbeat is answered with 404 and it registers again. `failCount` starts again with every
  instance that is taken over.

Consumer:
- A commit may pass rows that the periodic flusher still holds: the barrier finds the batches empty and
  `flushFailed` clear (`consumer/router.go:122`; :70 "rows of a committed offset are on disk").
- The failure of one flush may be cleared by the success of another before the barrier looks
  (`writer/clickhouse.go:416`; `docs/architecture.md:110`).
- `w.rows[:0]` reuses the array that the flush in progress reads (`clickhouse.go:396`): rows can be lost or doubled, and
  a mixture of two rows can be read and is sent like any other (`clickhouse.go:434`, :469, :502), a row of no message.
  No property of this project excludes that.

Tasks and responses:
- The pending timeout writes `failed` over a cancellation (`task_timeout_scheduler.go:146`), and a completion in progress
  writes `completed` over it (`mysql.go:276`), though both cancellation and completion check for each other
  (`api/tasks.go:531`, `mysql.go:232`).
- A host whose row could not be written is counted all the same (`service/task.go:366`): its completion finds no row and
  is not counted, so the count is never reached in that round, and only a timeout goes on with the task.
- Where the count of the results fails, a task whose retries are exhausted ends as `failed` although it has results
  (`task_timeout_scheduler.go:199`; :194 "partial results").
- After a retry a task may be completed before all hosts have returned (`service/task.go:377`;
  `model/scan_task.go:28` "all hosts have returned").
- Two calls may both find a response approved and execute it (`response.go:163`; `model/response_action.go:33` "executed
  once").
