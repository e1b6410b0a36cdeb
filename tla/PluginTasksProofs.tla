-------------------------- MODULE PluginTasksProofs --------------------------
(***************************************************************************)
(* What holds of PluginProcess and PluginTasks for any number of           *)
(* instances, restarts, faults, retries and copies of the task.            *)
(***************************************************************************)
EXTENDS PluginTasks, FiniteSetTheorems, TLAPS

USE PluginAssumption, TasksAssumption DEF PluginAssumption, TasksAssumption

-----------------------------------------------------------------------------
(* One process.                                                            *)

Live(i) == proc[i] = "alive" /\ status[i] # "stopping"
InUse == {current, op.old, op.new, force.old} \ {None}

\* What keeps the plugin from running twice: a live process is the plugin's while
\* nobody holds Manager.mu, and the new one's while its start is confirmed; who is
\* about to load has ended or stopped whatever ran before.
OneLive ==
    /\ \A i \in Slots :
          Live(i) => \/ op = Idle /\ i = current
                     \/ op.at = "confirm" /\ i = op.new
    /\ force.at \in {"stop", "unregister", "restart"} =>
          force.old \in Slots /\ ~Live(force.old)
    /\ op.at = "confirm" => op.new \in Slots /\ op.new # force.old

\* An instance that somebody still refers to keeps its slot; only an ended one is
\* reaped and restarted.
Instances ==
    /\ \A i \in Slots :
          /\ proc[i] = "alive" => status[i] \in {"starting", "running", "stopping"}
          /\ status[i] = "free" => proc[i] = "none"
          /\ due[i] => reaped[i]
          /\ reaped[i] => Ended(i)
          /\ i \in InUse => status[i] # "free"
    /\ op.job = "restart" => /\ op.old \in Slots /\ count[op.old] < MaxRestarts
                             /\ Ended(op.old)
    /\ op.job = "none" => op = Idle

ProcessInv == ProcessTypeOK /\ Instances /\ OneLive

\* The steps of PluginProcess.
Holder ==
    \/ SyncNew \/ SyncStop("update") \/ SyncStop("remove") \/ Wake
    \/ Stopped \/ Remove \/ LoadFails
    \/ \E i \in Slots : StartProcess(i) \/ Confirmed(i) \/ ExitedImmediately(i)
Watchdog == Watch \/ StableReset \/ Forced
ProcessStep ==
    \/ Holder \/ Watchdog \/ AgentRestart
    \/ \E i \in Slots : Goroutine(i) \/ Ends(i) \/ Reap(i) \/ Collect(i)

LEMMA HolderStep ==
  ASSUME ProcessInv, Holder
  PROVE  ProcessInv'
<1> USE DEF ProcessInv, ProcessTypeOK, Instances, OneLive, instances, Fault, NoFault,
            Places, Jobs, Idle, Doing, Live, InUse, Ended
<1>1. CASE SyncNew
  BY <1>1 DEF SyncNew
<1>2. ASSUME NEW job \in {"update", "remove"}, SyncStop(job)
     PROVE  ProcessInv'
  BY <1>2 DEF SyncStop, AskToStop, AfterAsking, Stoppable
<1>3. CASE Wake
  BY <1>3 DEF Wake
<1>4. CASE Stopped
  BY <1>4 DEF Stopped
<1>5. CASE Remove
  BY <1>5 DEF Remove
<1>6. CASE LoadFails
  BY <1>6 DEF LoadFails, LoadFailed
<1>7. ASSUME NEW i \in Slots, StartProcess(i)
     PROVE  ProcessInv'
  <2>1. /\ status[i] = "free" /\ op.at = "load" /\ op.job # "remove"
        /\ status' = [status EXCEPT ![i] = "starting"]
        /\ proc' = [proc EXCEPT ![i] = "alive"]
        /\ op' = [job |-> op.job, old |-> op.old, new |-> i, at |-> "confirm"]
        /\ UNCHANGED <<current, reaped, due, count, force, faults>>
    BY <1>7 DEF StartProcess
  <2>2. ~reaped[i] /\ i \notin InUse
    BY <2>1 DEF Instances
  <2>3. ProcessTypeOK'
    BY <2>1
  <2>4. Instances'
    BY <2>1, <2>2
  <2>5. OneLive'
    BY <2>1, <2>2
  <2> QED
    BY <2>3, <2>4, <2>5
<1>8. ASSUME NEW i \in Slots, Confirmed(i)
     PROVE  ProcessInv'
  BY <1>8 DEF Confirmed
<1>9. ASSUME NEW i \in Slots, ExitedImmediately(i)
     PROVE  ProcessInv'
  BY <1>9 DEF ExitedImmediately, LoadFailed
<1> QED
  BY <1>1, <1>2, <1>3, <1>4, <1>5, <1>6, <1>7, <1>8, <1>9 DEF Holder

LEMMA WatchdogStep ==
  ASSUME ProcessInv, Watchdog
  PROVE  ProcessInv'
<1> USE DEF ProcessInv, ProcessTypeOK, Instances, OneLive, instances, Fault, NoFault,
            Places, Jobs, Idle, Doing, Live, InUse, Ended
<1>1. CASE Watch
  BY <1>1 DEF Watch
<1>2. CASE StableReset
  BY <1>2 DEF StableReset
<1>3. CASE ForceStop
  BY <1>3 DEF ForceStop, AskToStop, AfterAsking, Stoppable
<1>4. CASE ForceStopped \/ ForceUnregister
  BY <1>4 DEF ForceStopped, ForceUnregister
<1>5. CASE ForceRestart
  BY <1>5 DEF ForceRestart
<1> QED
  BY <1>1, <1>2, <1>3, <1>4, <1>5 DEF Watchdog, Forced

LEMMA StepProcess ==
  ASSUME ProcessInv, ProcessStep \/ UNCHANGED processVars
  PROVE  ProcessInv'
<1> USE DEF ProcessInv, ProcessTypeOK, Instances, OneLive, instances, Fault, NoFault,
            Places, Jobs, Idle, Doing, Live, InUse, Ended
<1>1. CASE AgentRestart
  BY <1>1 DEF AgentRestart
<1>2. ASSUME NEW i \in Slots, Restart(i)
     PROVE  ProcessInv'
  BY <1>2 DEF Restart
<1>3. ASSUME NEW i \in Slots, RestartExceeded(i)
     PROVE  ProcessInv'
  BY <1>3 DEF RestartExceeded
<1>4. ASSUME NEW i \in Slots, NEW how \in {"crash", "killed", "dep"}, Die(i, how)
     PROVE  ProcessInv'
  BY <1>4 DEF Die
<1>5. ASSUME NEW i \in Slots, Reap(i)
     PROVE  ProcessInv'
  BY <1>5 DEF Reap
<1>6. ASSUME NEW i \in Slots, Collect(i)
     PROVE  ProcessInv'
  BY <1>6 DEF Collect, Garbage
<1>7. CASE UNCHANGED processVars
  BY <1>7 DEF processVars
<1> QED
  BY <1>1, <1>2, <1>3, <1>4, <1>5, <1>6, <1>7, HolderStep, WatchdogStep
     DEF ProcessStep, Goroutine, Ends

\* Every step of the tasks is a step of the process or leaves it alone.
LEMMA TaskStep ==
  ASSUME [Next]_vars
  PROVE  ProcessStep \/ UNCHANGED processVars
<1>1. ASSUME NEW i \in Slots,
             \/ StartSender(i) \/ ConfirmedRetrying(i) \/ CollectAll(i)
             \/ RegisterChannel(i) \/ Take(i) \/ Write(i) \/ WriteFails(i)
             \/ SenderEnds(i) \/ Complete(i) \/ GetPending(i) \/ SendTaskToPlugin(i)
     PROVE  ProcessStep \/ UNCHANGED processVars
  BY <1>1 DEF StartSender, ConfirmedRetrying, CollectAll, RegisterChannel, Take, Write,
     WriteFails, SenderEnds, Complete, GetPending, SendTaskToPlugin, ProcessStep, Holder
<1>2. CASE ProcessAlone
  BY <1>2 DEF ProcessAlone, ProcessStep, Holder, Watchdog, Forced
<1>3. CASE ForceUnregisterChannel \/ RestartLoading
  BY <1>3 DEF ForceUnregisterChannel, RestartLoading, ProcessStep, Watchdog, Forced
<1>4. CASE Give \/ Forget \/ UNCHANGED vars
  BY <1>4 DEF Give, Forget, vars
<1> QED
  BY <1>1, <1>2, <1>3, <1>4 DEF Next

-----------------------------------------------------------------------------
(* The task.                                                               *)

TasksType ==
    /\ channel \in Slots \cup {None}
    /\ queue \in [Slots -> Nat] /\ work \in [Slots -> Nat]
    /\ sender \in [Slots -> {"none", "start", "loop", "holding", "done"}]
    /\ retryer \in [Slots -> {"none", "wait", "send"}]
    /\ tracked \in BOOLEAN
    /\ retries \in 0..MaxRetries
    /\ given \in 0..MaxGiven /\ owed \in Int

\* The copies of the task that may still reach a process: in a channel, in the
\* hands of a sendTask, and in those of a retryPendingTasks.
Copy(place, i, nr) == [place |-> place, of |-> i, nr |-> nr]
Copies ==
    {t \in [place : {"queued", "held", "resent"}, of : Slots, nr : Nat] :
        \/ t.place = "queued" /\ t.nr < queue[t.of]
        \/ t.place = "held" /\ t.nr = 0 /\ sender[t.of] = "holding"
        \/ t.place = "resent" /\ t.nr = 0 /\ retryer[t.of] = "send"}

\* What PoisonBounded rests on: each copy and each retry that the entry still
\* allows is covered by a write that is owed.
Covered ==
    /\ IsFiniteSet(Copies)
    /\ ~tracked => retries = 0
    /\ owed >= Cardinality(Copies) + (MaxRetries - retries)

\* A step that turns a copy into another, or drops some.
LEMMA NoMoreCopies ==
  ASSUME IsFiniteSet(Copies), NEW x, NEW y,
         \/ Copies' \subseteq Copies
         \/ x \in Copies /\ Copies' \subseteq (Copies \ {x}) \cup {y}
  PROVE  /\ IsFiniteSet(Copies') /\ Cardinality(Copies') \in Nat
         /\ Cardinality(Copies) \in Nat
         /\ Cardinality(Copies') <= Cardinality(Copies)
<1>1. CASE Copies' \subseteq Copies
  BY <1>1, FS_Subset, FS_CardinalityType
<1>2. CASE x \in Copies /\ Copies' \subseteq (Copies \ {x}) \cup {y}
  <2> DEFINE rest == Copies \ {x}
  <2>1. /\ IsFiniteSet(rest) /\ Cardinality(rest) = Cardinality(Copies) - 1
        /\ Cardinality(Copies) \in Nat
    BY <1>2, FS_RemoveElement, FS_CardinalityType
  <2>2. /\ IsFiniteSet(rest \cup {y})
        /\ Cardinality(rest \cup {y}) \in {Cardinality(rest), Cardinality(rest) + 1}
    BY <2>1, FS_AddElement
  <2>3. /\ IsFiniteSet(Copies') /\ Cardinality(Copies') \in Nat
        /\ Cardinality(Copies') <= Cardinality(rest \cup {y})
    BY <1>2, <2>2, FS_Subset, FS_CardinalityType
  <2> QED
    BY <2>1, <2>2, <2>3
<1> QED
  BY <1>1, <1>2

LEMMA OneMoreCopy ==
  ASSUME IsFiniteSet(Copies), NEW y, Copies' \subseteq Copies \cup {y}
  PROVE  /\ IsFiniteSet(Copies') /\ Cardinality(Copies') \in Nat
         /\ Cardinality(Copies) \in Nat
         /\ Cardinality(Copies') <= Cardinality(Copies) + 1
<1>1. /\ IsFiniteSet(Copies \cup {y})
      /\ Cardinality(Copies \cup {y}) \in {Cardinality(Copies), Cardinality(Copies) + 1}
      /\ Cardinality(Copies) \in Nat
  BY FS_AddElement, FS_CardinalityType
<1> QED
  BY <1>1, FS_Subset, FS_CardinalityType

LEMMA OneCopyLess ==
  ASSUME IsFiniteSet(Copies), NEW x \in Copies, Copies' \subseteq Copies \ {x}
  PROVE  /\ IsFiniteSet(Copies') /\ Cardinality(Copies') \in Nat
         /\ Cardinality(Copies) \in Nat
         /\ Cardinality(Copies') <= Cardinality(Copies) - 1
<1>1. /\ IsFiniteSet(Copies \ {x}) /\ Cardinality(Copies \ {x}) = Cardinality(Copies) - 1
      /\ Cardinality(Copies) \in Nat
  BY FS_RemoveElement, FS_CardinalityType
<1> QED
  BY <1>1, FS_Subset, FS_CardinalityType

\* What the channel, sendTask and the retry do to the copies.
LEMMA PutCopy ==
  ASSUME TasksType, Put
  PROVE  /\ queue' \in [Slots -> Nat]
         /\ UNCHANGED <<sender, retryer>> =>
               \E y : Copies' \subseteq Copies \cup {y}
<1>1. queue' \in [Slots -> Nat]
  BY DEF Put, TasksType
<1>2. ASSUME UNCHANGED <<sender, retryer>>
     PROVE  Copies' \subseteq Copies \cup {Copy("queued", channel, queue[channel])}
  BY <1>2 DEF Put, TasksType, Copies, Copy
<1> QED
  BY <1>1, <1>2

LEMMA StepTasksType ==
  ASSUME TasksType, [Next]_vars
  PROVE  TasksType'
<1> USE DEF TasksType, sending, entry, taskVars, At
<1>0. tracked' \in {tracked, TRUE, FALSE}
  BY DEF Next, vars, ProcessAlone, ForceUnregisterChannel, RestartLoading, Give, Forget,
     StartSender, ConfirmedRetrying, CollectAll, RegisterChannel, Take, Write, WriteFails,
     SenderEnds, Complete, GetPending, SendTaskToPlugin, TrackTask, RemoveTask
<1>1. tracked' \in BOOLEAN
  BY <1>0
<1> DEFINE Rest ==
    /\ channel \in Slots \cup {None}
    /\ queue \in [Slots -> Nat] /\ work \in [Slots -> Nat]
    /\ sender \in [Slots -> {"none", "start", "loop", "holding", "done"}]
    /\ retryer \in [Slots -> {"none", "wait", "send"}]
    /\ retries \in 0..MaxRetries
    /\ given \in 0..MaxGiven /\ owed \in Int
<1> Rest
  OBVIOUS
<1>2. ASSUME NEW i \in Slots,
             \/ StartSender(i) \/ ConfirmedRetrying(i) \/ CollectAll(i)
             \/ RegisterChannel(i) \/ SenderEnds(i)
     PROVE  Rest'
  BY <1>2 DEF StartSender, ConfirmedRetrying, CollectAll, RegisterChannel, SenderEnds
<1>3. ASSUME NEW i \in Slots, Take(i) \/ Write(i)
     PROVE  Rest'
  <2>1. CASE Take(i)
    BY <2>1 DEF Take, TrackTask
  <2>2. CASE Write(i)
    BY <2>2 DEF Write
  <2> QED
    BY <1>3, <2>1, <2>2
<1>4. ASSUME NEW i \in Slots, WriteFails(i) \/ Complete(i) \/ GetPending(i)
     PROVE  Rest'
  <2>1. CASE WriteFails(i)
    BY <2>1 DEF WriteFails, RemoveTask
  <2>2. CASE Complete(i)
    BY <2>2 DEF Complete, RemoveTask
  <2>3. CASE GetPending(i)
    BY <2>3 DEF GetPending, RemoveTask
  <2> QED
    BY <1>4, <2>1, <2>2, <2>3
<1>5. ASSUME NEW i \in Slots, SendTaskToPlugin(i)
     PROVE  Rest'
  BY <1>5, PutCopy DEF SendTaskToPlugin
<1>6. CASE ProcessAlone \/ ForceUnregisterChannel \/ UNCHANGED vars
  BY <1>6 DEF ProcessAlone, ForceUnregisterChannel, vars
<1>7. CASE RestartLoading
  <2>1. /\ channel' = None
        /\ queue' = [i \in Slots |-> 0] /\ work' = [i \in Slots |-> 0]
        /\ sender' = [i \in Slots |-> "none"] /\ retryer' = [i \in Slots |-> "none"]
        /\ UNCHANGED <<retries, owed>> \/ (retries' = 0 /\ owed' \in {owed, owed + MaxRetries})
        /\ UNCHANGED given
    BY <1>7 DEF RestartLoading, RemoveTask
  <2> QED
    BY <1>1, <2>1
<1>8. CASE Give
  BY <1>8, PutCopy DEF Give
<1>9. CASE Forget
  <2>1. /\ UNCHANGED <<sending, given>>
        /\ retries' = 0 /\ owed' \in {owed, owed + MaxRetries}
    BY <1>9 DEF Forget, RemoveTask
  <2> QED
    BY <1>1, <2>1
<1>10. Rest'
  BY <1>2, <1>3, <1>4, <1>5, <1>6, <1>7, <1>8, <1>9 DEF Next
<1> QED
  BY <1>1, <1>10

LEMMA StepCovered ==
  ASSUME TasksType, Covered, [Next]_vars
  PROVE  Covered'
<1> USE DEF sending, entry, taskVars, At
<1> IsFiniteSet(Copies)
  BY DEF Covered
<1>1. ASSUME Copies' \subseteq Copies, UNCHANGED <<entry, owed>> \/ RemoveTask
     PROVE  Covered'
  BY <1>1, NoMoreCopies DEF Covered, RemoveTask, TasksType
<1>2. ASSUME NEW i \in Slots,
             \/ StartSender(i) \/ ConfirmedRetrying(i) \/ CollectAll(i)
             \/ RegisterChannel(i) \/ SenderEnds(i)
     PROVE  Covered'
  <2>1. UNCHANGED <<entry, owed>>
    BY <1>2 DEF StartSender, ConfirmedRetrying, CollectAll, RegisterChannel, SenderEnds
  <2>2. Copies' \subseteq Copies
    BY <1>2 DEF StartSender, ConfirmedRetrying, CollectAll, RegisterChannel, SenderEnds,
       TasksType, Copies
  <2> QED
    BY <1>1, <2>1, <2>2
<1>3. ASSUME NEW i \in Slots, WriteFails(i) \/ Complete(i)
     PROVE  Covered'
  <2>1. Copies' \subseteq Copies /\ RemoveTask
    BY <1>3 DEF WriteFails, Complete, TasksType, Copies
  <2> QED
    BY <1>1, <2>1
<1>4. ASSUME NEW i \in Slots, Take(i)
     PROVE  Covered'
  <2> DEFINE x == Copy("queued", i, queue[i] - 1)
             y == Copy("held", i, 0)
  <2>1. x \in Copies
    BY <1>4 DEF Take, TasksType, Copies, Copy
  <2>2. Copies' \subseteq (Copies \ {x}) \cup {y}
    BY <1>4 DEF Take, TasksType, Copies, Copy
  <2>3. UNCHANGED owed /\ (tracked' /\ retries' = retries)
    BY <1>4 DEF Take, TrackTask, Covered
  <2> QED
    BY <2>1, <2>2, <2>3, NoMoreCopies DEF Covered, TasksType
<1>5. ASSUME NEW i \in Slots, Write(i)
     PROVE  Covered'
  <2> DEFINE x == Copy("held", i, 0)
  <2>1. x \in Copies
    BY <1>5 DEF Write, TasksType, Copies, Copy
  <2>2. Copies' \subseteq Copies \ {x}
    BY <1>5 DEF Write, TasksType, Copies, Copy
  <2>3. owed' = owed - 1 /\ UNCHANGED entry
    BY <1>5 DEF Write
  <2> QED
    BY <2>1, <2>2, <2>3, OneCopyLess DEF Covered, TasksType
<1>6. ASSUME NEW i \in Slots, GetPending(i)
     PROVE  Covered'
  <2>1. CASE ~tracked \/ retries >= MaxRetries
    <3>1. Copies' \subseteq Copies /\ RemoveTask
      BY <1>6, <2>1 DEF GetPending, TasksType, Copies
    <3> QED
      BY <1>1, <3>1
  <2>2. CASE tracked /\ ~(retries >= MaxRetries)
    <3>1. Copies' \subseteq Copies \cup {Copy("resent", i, 0)}
      BY <1>6, <2>2 DEF GetPending, TasksType, Copies, Copy
    <3>2. retries' = retries + 1 /\ UNCHANGED <<tracked, owed>>
      BY <1>6, <2>2 DEF GetPending
    <3> QED
      BY <2>2, <3>1, <3>2, OneMoreCopy DEF Covered, TasksType
  <2> QED
    BY <2>1, <2>2
<1>7. ASSUME NEW i \in Slots, SendTaskToPlugin(i)
     PROVE  Covered'
  <2> DEFINE x == Copy("resent", i, 0)
             y == Copy("queued", channel, queue[channel])
  <2>1. x \in Copies
    BY <1>7 DEF SendTaskToPlugin, TasksType, Copies, Copy
  <2>2. Copies' \subseteq (Copies \ {x}) \cup {y}
    BY <1>7 DEF SendTaskToPlugin, Put, TasksType, Copies, Copy
  <2>3. UNCHANGED <<entry, owed>>
    BY <1>7 DEF SendTaskToPlugin
  <2> QED
    BY <2>1, <2>2, <2>3, NoMoreCopies DEF Covered, TasksType
<1>8. CASE Give
  <2>1. owed' = owed + 1 /\ UNCHANGED entry
    BY <1>8 DEF Give
  <2>2. PICK y : Copies' \subseteq Copies \cup {y}
    BY <1>8, PutCopy DEF Give
  <2>3. /\ IsFiniteSet(Copies') /\ Cardinality(Copies') \in Nat
        /\ Cardinality(Copies) \in Nat
        /\ Cardinality(Copies') <= Cardinality(Copies) + 1
    BY <2>2, OneMoreCopy
  <2> QED
    BY <2>1, <2>3 DEF Covered, TasksType
<1>9. CASE ProcessAlone \/ ForceUnregisterChannel \/ Forget \/ UNCHANGED vars
  <2>1. Copies' = Copies /\ (UNCHANGED <<entry, owed>> \/ RemoveTask)
    BY <1>9 DEF ProcessAlone, ForceUnregisterChannel, Forget, vars, Copies
  <2> QED
    BY <1>1, <2>1
<1>10. CASE RestartLoading
  <2>1. Copies' \subseteq Copies /\ (UNCHANGED <<entry, owed>> \/ RemoveTask)
    BY <1>10 DEF RestartLoading, TasksType, Copies
  <2> QED
    BY <1>1, <2>1
<1> QED
  BY <1>2, <1>3, <1>4, <1>5, <1>6, <1>7, <1>8, <1>9, <1>10 DEF Next

-----------------------------------------------------------------------------
(* Theorems.                                                               *)

Inv == ProcessInv /\ TasksType /\ Covered

LEMMA InitInv == Init => Inv
<1> SUFFICES ASSUME Init
             PROVE  Inv
  OBVIOUS
<1>1. ProcessInv
  BY DEF Init, ProcessInit, ProcessInv, ProcessTypeOK, Instances, OneLive, Live, InUse,
         Idle, Places, Jobs, Ended
<1>2. TasksType
  <2>1. tracked \in BOOLEAN
    BY DEF Init
  <2> QED
    BY <2>1 DEF Init, TasksType
<1>3. Copies = {}
  BY DEF Init, Copies
<1>4. Covered
  BY <1>2, <1>3, FS_EmptySet DEF Init, Covered, TasksType
<1> QED
  BY <1>1, <1>2, <1>4 DEF Inv

\* The inductive invariant: one live process, and a budget of deliveries that
\* covers the copies of the task that are under way.
THEOREM TasksInvariant == Spec => []Inv
<1>1. Inv /\ [Next]_vars => Inv'
  BY TaskStep, StepProcess, StepTasksType, StepCovered DEF Inv
<1> QED
  BY InitInv, <1>1, PTL DEF Spec

\* The types of plugin and task: among them that no restart count exceeds
\* maxRestartCount and no entry has been retried more often than maxTaskRetries.
THEOREM TypeCorrect == Spec => []TasksTypeOK
<1>1. Inv => TasksTypeOK
  BY DEF Inv, ProcessInv, TasksType, TasksTypeOK
<1> QED
  BY TasksInvariant, <1>1, PTL

\* However configuration pushes, restarts with backoff, forced restarts, wake-ups
\* and failed loads follow on each other, the plugin never runs twice.
THEOREM NeverTwice == Spec => []OneProcess
<1>1. Inv => OneProcess
  BY DEF Inv, ProcessInv, OneLive, Live, OneProcess, Idle
<1> QED
  BY TasksInvariant, <1>1, PTL

\* Nor is a task written into processes more often than the server sent it and
\* its entries allow, in however many instances, channels and goroutines its copies
\* are under way.
THEOREM PoisonIsBounded == Spec => []PoisonBounded
<1>1. Inv => PoisonBounded
  BY FS_CardinalityType DEF Inv, Covered, TasksType, PoisonBounded
<1> QED
  BY TasksInvariant, <1>1, PTL
=============================================================================
