------------------------------ MODULE PluginTasks ------------------------------
(***************************************************************************)
(* One task of one plugin: from the server into the plugin's task channel  *)
(* (agent/transport/transport.go), through sendTask into the process, and  *)
(* back again when the process ends first: the task tracker on disk        *)
(* (agent/plugin/task_tracker.go) keeps it, and every new instance of      *)
(* PluginProcess hands it out once more.                                   *)
(*                                                                         *)
(* The task has one token; a channel holds some copies of it.              *)
(***************************************************************************)
EXTENDS PluginProcess

CONSTANTS
    MaxRetries,  \* maxTaskRetries
    MaxGiven     \* bound on how often the server sends the task

ASSUME TasksAssumption == MaxRetries \in Nat /\ MaxGiven \in Nat

VARIABLES
    channel,  \* the instance whose channel is registered under the name
    queue,    \* instance -> copies in its channel
    sender,   \* instance -> where its sendTask stands
    retryer,  \* instance -> where its retryPendingTasks stands
    work,     \* instance -> copies its process has read and not completed
    tracked,  \* the tracker has an entry of the task, received or dispatched
    retries,  \* its RetryCount
    given,    \* how often the server sent it
    owed      \* how often it may still be written into a process, see PoisonBounded

sending == <<channel, queue, sender, retryer, work>>
entry == <<tracked, retries>>
taskVars == <<sending, entry, given, owed>>
vars == <<processVars, taskVars>>

TasksTypeOK ==
    /\ ProcessTypeOK
    /\ channel \in Slots \cup {None}
    /\ queue \in [Slots -> Nat] /\ work \in [Slots -> Nat]
    /\ sender \in [Slots -> {"none", "start", "loop", "holding", "done"}]
    /\ retryer \in [Slots -> {"none", "wait", "send"}]
    /\ tracked \in BOOLEAN
    /\ retries \in 0..MaxRetries
    /\ given \in 0..MaxGiven /\ owed \in Int

Init ==
    /\ ProcessInit
    /\ channel = None
    /\ queue = [i \in Slots |-> 0] /\ work = [i \in Slots |-> 0]
    /\ sender = [i \in Slots |-> "none"] /\ retryer = [i \in Slots |-> "none"]
    /\ tracked = FALSE /\ retries = 0
    /\ given = 0 /\ owed = MaxRetries

-----------------------------------------------------------------------------
(* The task tracker.  Every change is written to disk before it returns.   *)

\* A mistake: the entry that is there already is replaced.
TrackAgain ==
    /\ tracked' = TRUE /\ retries' = 0
    /\ UNCHANGED owed

TrackTask ==
    /\ tracked' = TRUE
    /\ retries' = IF tracked THEN retries ELSE 0
    /\ UNCHANGED owed

\* MarkCompleted, MarkFailed, MarkCancelled, CleanupOldTasks, if there is one.
RemoveTask ==
    /\ tracked' = FALSE /\ retries' = 0
    /\ owed' = IF tracked THEN owed + MaxRetries ELSE owed

\* A cancellation by the server, or the cleanup of what is two hours old.
Forget ==
    /\ tracked
    /\ RemoveTask
    /\ UNCHANGED <<processVars, sending, given>>

-----------------------------------------------------------------------------
(* The channel.                                                            *)

\* Without a registered channel it goes to one that nobody reads.
Put ==
    queue' = [i \in Slots |-> IF i = channel THEN queue[i] + 1 ELSE queue[i]]

Give ==
    /\ given < MaxGiven
    /\ given' = given + 1 /\ owed' = owed + 1
    /\ Put
    /\ UNCHANGED <<processVars, channel, sender, retryer, work, entry>>

At(i, place) == sender' = [sender EXCEPT ![i] = place]

RegisterChannel(i) ==
    /\ sender[i] = "start"
    /\ channel' = i
    /\ At(i, "loop")
    /\ UNCHANGED <<processVars, queue, retryer, work, entry, given, owed>>

\* A task is taken as long as the sender has not seen stopCh, also after that.
Take(i) ==
    /\ sender[i] = "loop" /\ queue[i] > 0
    /\ queue' = [queue EXCEPT ![i] = @ - 1]
    /\ TrackTask
    /\ At(i, "holding")
    /\ UNCHANGED <<processVars, channel, retryer, work, given>>

\* (MarkDispatched changes nothing that is read afterwards.)
Write(i) ==
    /\ sender[i] = "holding" /\ proc[i] = "alive"
    /\ work' = [work EXCEPT ![i] = @ + 1]
    /\ owed' = owed - 1
    /\ At(i, "loop")
    /\ UNCHANGED <<processVars, channel, queue, retryer, entry, given>>

\* The entry goes even if it is there for another copy (TrackTask).
WriteFails(i) ==
    /\ sender[i] = "holding" /\ proc[i] # "alive"
    /\ RemoveTask
    /\ At(i, "loop")
    /\ UNCHANGED <<processVars, channel, queue, retryer, work, given>>

\* The channel is unregistered by the name of the plugin, whosever it is.
SenderEnds(i) ==
    /\ sender[i] = "loop" /\ reaped[i]
    /\ channel' = None
    /\ At(i, "done")
    /\ UNCHANGED <<processVars, queue, retryer, work, entry, given, owed>>

\* receiveData: a completion that the process has sent.
Complete(i) ==
    /\ proc[i] = "alive" /\ work[i] > 0
    /\ work' = [work EXCEPT ![i] = @ - 1]
    /\ RemoveTask
    /\ UNCHANGED <<processVars, channel, queue, sender, retryer, given>>

-----------------------------------------------------------------------------
(* retryPendingTasks, two seconds after an instance was loaded.            *)

\* A mistake: an off-by-one in maxTaskRetries.
GetPendingOnceMore(i) ==
    /\ retryer[i] = "wait"
    /\ IF ~tracked \/ retries > MaxRetries
         THEN RemoveTask /\ retryer' = [retryer EXCEPT ![i] = "none"]
         ELSE /\ retries' = retries + 1 /\ UNCHANGED <<tracked, owed>>
              /\ retryer' = [retryer EXCEPT ![i] = "send"]
    /\ UNCHANGED <<processVars, channel, queue, sender, work, given>>

GetPending(i) ==
    /\ retryer[i] = "wait"
    /\ IF ~tracked \/ retries >= MaxRetries
         THEN RemoveTask /\ retryer' = [retryer EXCEPT ![i] = "none"]
         ELSE /\ retries' = retries + 1 /\ UNCHANGED <<tracked, owed>>
              /\ retryer' = [retryer EXCEPT ![i] = "send"]
    /\ UNCHANGED <<processVars, channel, queue, sender, work, given>>

SendTaskToPlugin(i) ==
    /\ retryer[i] = "send"
    /\ Put
    /\ retryer' = [retryer EXCEPT ![i] = "none"]
    /\ UNCHANGED <<processVars, channel, sender, work, entry, given, owed>>

-----------------------------------------------------------------------------
(* The steps of PluginProcess that the tasks see.                          *)

StartSender(n) ==
    /\ StartProcess(n)
    /\ At(n, "start")
    /\ UNCHANGED <<channel, queue, retryer, work, entry, given, owed>>

ConfirmedRetrying(n) ==
    /\ Confirmed(n)
    /\ retryer' = IF status'[n] = "running"
                    THEN [retryer EXCEPT ![n] = "wait"] ELSE retryer
    /\ UNCHANGED <<channel, queue, sender, work, entry, given, owed>>

ForceUnregisterChannel ==
    /\ ForceUnregister
    /\ channel' = None
    /\ UNCHANGED <<queue, sender, retryer, work, entry, given, owed>>

CollectAll(i) ==
    /\ sender[i] = "done" /\ retryer[i] = "none"
    /\ Collect(i)
    /\ sender' = [sender EXCEPT ![i] = "none"]
    /\ queue' = [queue EXCEPT ![i] = 0] /\ work' = [work EXCEPT ![i] = 0]
    /\ UNCHANGED <<channel, retryer, entry, given, owed>>

\* What was on disk is loaded, unless the end of the Agent tore the file.
RestartLoading ==
    /\ AgentRestart
    /\ channel' = None
    /\ queue' = [i \in Slots |-> 0] /\ work' = [i \in Slots |-> 0]
    /\ sender' = [i \in Slots |-> "none"] /\ retryer' = [i \in Slots |-> "none"]
    /\ UNCHANGED <<entry, owed>> \/ RemoveTask
    /\ UNCHANGED given

ProcessAlone ==
    /\ \/ SyncNew \/ SyncStop("update") \/ SyncStop("remove") \/ Wake
       \/ Watch \/ StableReset
       \/ Stopped \/ Remove \/ LoadFails
       \/ ForceStop \/ ForceStopped \/ ForceRestart
       \/ \E i \in Slots : ExitedImmediately(i) \/ Goroutine(i) \/ Ends(i) \/ Reap(i)
    /\ UNCHANGED taskVars

-----------------------------------------------------------------------------
Next ==
    \/ ProcessAlone \/ ForceUnregisterChannel \/ RestartLoading
    \/ Give \/ Forget
    \/ \E i \in Slots :
          \/ StartSender(i) \/ ConfirmedRetrying(i) \/ CollectAll(i)
          \/ RegisterChannel(i) \/ Take(i) \/ Write(i) \/ WriteFails(i)
          \/ SenderEnds(i) \/ Complete(i) \/ GetPending(i) \/ SendTaskToPlugin(i)

Spec == Init /\ [][Next]_vars

-----------------------------------------------------------------------------
(* Properties.                                                             *)

\* A task that kills its plugin does not do so for ever: it is written at most
\* once each time the server sends it, and MaxRetries times more with each entry
\* of the task tracker, however plugin and Agent crash and whichever copies of
\* it are still on their way.
PoisonBounded == owed >= 0
=============================================================================
