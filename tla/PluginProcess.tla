----------------------------- MODULE PluginProcess -----------------------------
(***************************************************************************)
(* The Agent's plugin manager (agent/plugin/plugin.go) and one plugin: the *)
(* instances it has had, their processes, and the goroutines that replace  *)
(* one by another: configuration pushes, restarts with backoff, the        *)
(* watchdog and the wake-up of a dormant plugin.  Each holds Manager.mu    *)
(* for as long as it loads; the forced restart of the watchdog stops the   *)
(* old instance without it.                                                *)
(*                                                                         *)
(* Time is left out: a delay may have passed whenever somebody looks.      *)
(***************************************************************************)
EXTENDS Integers

CONSTANTS
    Slots,        \* instances that exist at a time
    None,
    MaxRestarts,  \* maxRestartCount
    MaxFaults     \* bound on deaths, failed loads, hangs, changed configurations

ASSUME PluginAssumption ==
    /\ None \notin Slots
    /\ MaxRestarts \in Nat \ {0} /\ MaxFaults \in Nat

VARIABLES
    current,  \* m.plugins[name]
    status,   \* instance -> Plugin.status, or "free"
    proc,     \* instance -> its process: alive, or how it exited
    reaped,   \* instance -> waitProcess has closed stopCh
    due,      \* instance -> restartPluginWithBackoff is under way
    count,    \* instance -> Plugin.restartCount
    op,       \* what the holder of Manager.mu is doing
    force,    \* the forced restart of the watchdog (one at a time)
    faults

instances == <<status, proc, reaped, due, count>>
processVars == <<current, instances, op, force, faults>>

Places == {"idle", "asked", "stop", "unregister", "load", "confirm", "restart"}
Jobs == {"none", "new", "update", "rollback", "remove", "wake", "restart", "force"}
Idle == [job |-> "none", old |-> None, new |-> None, at |-> "idle"]
Doing(job, old, at) == [job |-> job, old |-> old, new |-> None, at |-> at]

ProcessTypeOK ==
    /\ current \in Slots \cup {None}
    /\ status \in [Slots -> {"free", "starting", "running", "stopping", "stopped",
                             "error", "dormant"}]
    /\ proc \in [Slots -> {"none", "alive", "crash", "killed", "dep"}]
    /\ reaped \in [Slots -> BOOLEAN] /\ due \in [Slots -> BOOLEAN]
    /\ count \in [Slots -> 0..MaxRestarts]
    /\ {op, force} \subseteq [job : Jobs, old : Slots \cup {None},
                              new : Slots \cup {None}, at : Places]
    /\ faults \in 0..MaxFaults

ProcessInit ==
    /\ current = None
    /\ status = [i \in Slots |-> "free"] /\ proc = [i \in Slots |-> "none"]
    /\ reaped = [i \in Slots |-> FALSE] /\ due = [i \in Slots |-> FALSE]
    /\ count = [i \in Slots |-> 0]
    /\ op = Idle /\ force = Idle
    /\ faults = 0

Fault == faults < MaxFaults /\ faults' = faults + 1
NoFault == UNCHANGED faults

-----------------------------------------------------------------------------
(* Who takes Manager.mu.                                                   *)

\* stopPlugin asks a started plugin to stop and waits for stopCh; of any other
\* it returns at once, also of one that somebody else is just stopping.
Stoppable(i) == status[i] \in {"starting", "running"}
AskToStop(i) ==
    status' = IF Stoppable(i) THEN [status EXCEPT ![i] = "stopping"] ELSE status
AfterAsking(i, at) == IF Stoppable(i) THEN "stop" ELSE at

SyncNew ==
    /\ op = Idle /\ current = None
    /\ op' = Doing("new", None, "load")
    /\ UNCHANGED <<current, instances, force, faults>>

\* A new version, or the plugin is not in the configuration any more.
SyncStop(job) ==
    /\ op = Idle /\ current # None
    /\ Fault
    /\ AskToStop(current)
    /\ op' = Doing(job, current, AfterAsking(current, "load"))
    /\ UNCHANGED <<current, proc, reaped, due, count, force>>

\* wakeDormantPlugin each hour, and SyncPlugins when it finds it dormant.
Wake ==
    /\ op = Idle /\ current # None
    /\ status[current] = "dormant"
    /\ op' = Doing("wake", current, "load")
    /\ UNCHANGED <<current, instances, force, faults>>

\* A mistake: nobody looks whether the plugin was replaced meanwhile.
RestartReplaced(i) ==
    /\ due[i] /\ count[i] < MaxRestarts /\ op = Idle
    /\ due' = [due EXCEPT ![i] = FALSE]
    /\ op' = Doing("restart", i, "load")
    /\ UNCHANGED <<current, status, proc, reaped, count, force, faults>>

\* After its delay restartPluginWithBackoff looks whether the plugin is still
\* the one it is to replace.
Restart(i) ==
    /\ due[i] /\ count[i] < MaxRestarts /\ op = Idle
    /\ due' = [due EXCEPT ![i] = FALSE]
    /\ op' = IF current = i THEN Doing("restart", i, "load") ELSE op
    /\ UNCHANGED <<current, status, proc, reaped, count, force, faults>>

RestartExceeded(i) ==
    /\ due[i] /\ count[i] >= MaxRestarts
    /\ due' = [due EXCEPT ![i] = FALSE]
    /\ status' = [status EXCEPT ![i] = "dormant"]
    /\ UNCHANGED <<current, proc, reaped, count, op, force, faults>>

-----------------------------------------------------------------------------
(* What the holder of Manager.mu does.                                     *)

\* The instance is stopped, or did not even end when it was killed.
Stopped ==
    /\ op.at = "stop"
    /\ IF reaped[op.old] THEN NoFault ELSE Fault
    /\ op' = [op EXCEPT !.at = "load"]
    /\ UNCHANGED <<current, instances, force>>

Remove ==
    /\ op.job = "remove" /\ op.at = "load"
    /\ current' = None
    /\ op' = Idle
    /\ UNCHANGED <<instances, force, faults>>

\* loadPlugin has returned an error.  Only the update has a second way; a failed
\* restart is counted and not tried again.
LoadFailed ==
    /\ op' = IF op.job = "update" THEN Doing("rollback", op.old, "load") ELSE Idle
    /\ IF op.job = "restart"
         THEN /\ count' = [count EXCEPT ![op.old] = @ + 1]
              /\ status' = IF count[op.old] + 1 >= MaxRestarts
                             THEN [status EXCEPT ![op.old] = "dormant"] ELSE status
         ELSE UNCHANGED <<count, status>>
    /\ UNCHANGED current

\* No file, no process.
LoadFails ==
    /\ op.job # "remove" /\ op.at = "load"
    /\ Fault
    /\ LoadFailed
    /\ UNCHANGED <<proc, reaped, due, force>>

\* The process is started, and with it waitProcess, receiveData and sendTask.
StartProcess(n) ==
    /\ op.job # "remove" /\ op.at = "load"
    /\ status[n] = "free"
    /\ status' = [status EXCEPT ![n] = "starting"]
    /\ proc' = [proc EXCEPT ![n] = "alive"]
    /\ op' = [op EXCEPT !.new = n, !.at = "confirm"]
    /\ UNCHANGED <<current, reaped, due, count, force, faults>>

\* 100 ms later.  A process whose end Wait has not seen yet goes unnoticed, and
\* one that a signal killed always does: of it Exited() is false.
Confirmed(n) ==
    /\ op.at = "confirm" /\ op.new = n
    /\ \/ /\ ~reaped[n] \/ proc[n] = "killed"
          /\ status' = [status EXCEPT ![n] = "running"]
       \/ proc[n] = "dep" /\ status' = [status EXCEPT ![n] = "dormant"]
    /\ current' = n
    /\ count' = [count EXCEPT ![n] = IF op.job = "restart" THEN count[op.old] + 1 ELSE 0]
    /\ op' = Idle
    /\ UNCHANGED <<proc, reaped, due, force, faults>>

ExitedImmediately(n) ==
    /\ op.at = "confirm" /\ op.new = n
    /\ proc[n] = "crash"
    /\ LoadFailed
    /\ UNCHANGED <<proc, reaped, due, force, faults>>

-----------------------------------------------------------------------------
(* The watchdog.                                                           *)

\* No answer to three pings: the plugin hangs, or its ping is stuck.
Watch ==
    /\ op = Idle /\ current # None
    /\ status[current] = "running" /\ ~reaped[current]
    /\ force = Idle /\ Fault
    /\ force' = Doing("force", None, "asked")
    /\ UNCHANGED <<current, instances, op>>

StableReset ==
    /\ op = Idle /\ current # None
    /\ status[current] = "running" /\ count[current] > 0
    /\ count' = [count EXCEPT ![current] = 0]
    /\ UNCHANGED <<current, status, proc, reaped, due, op, force, faults>>

\* forceRestartPlugin stops what is the plugin by now.
ForceStop ==
    /\ force.at = "asked" /\ op = Idle
    /\ IF current = None
         THEN force' = Idle /\ UNCHANGED status
         ELSE /\ AskToStop(current)
              /\ force' = Doing("force", current, AfterAsking(current, "unregister"))
    /\ UNCHANGED <<current, proc, reaped, due, count, op, faults>>

ForceStopped ==
    /\ force.at = "stop"
    /\ IF reaped[force.old] THEN NoFault ELSE Fault
    /\ force' = [force EXCEPT !.at = "unregister"]
    /\ UNCHANGED <<current, instances, op>>

ForceUnregister ==
    /\ force.at = "unregister"
    /\ force' = [force EXCEPT !.at = "restart"]
    /\ UNCHANGED <<current, instances, op, faults>>

\* restartPlugin.
ForceRestart ==
    /\ force.at = "restart" /\ op = Idle
    /\ op' = IF current = force.old THEN Doing("force", current, "load") ELSE op
    /\ force' = Idle
    /\ UNCHANGED <<current, instances, faults>>

-----------------------------------------------------------------------------
(* The processes.                                                          *)

\* A plugin that is asked to stop ends (in the end it is killed); another may.
Die(i, how) ==
    /\ proc[i] = "alive"
    /\ IF status[i] = "stopping" THEN NoFault ELSE Fault
    /\ proc' = [proc EXCEPT ![i] = how]
    /\ UNCHANGED <<current, status, reaped, due, count, op, force>>

Ended(i) == proc[i] \in {"crash", "killed", "dep"}

\* waitProcess: only what was running is restarted.
Reap(i) ==
    /\ Ended(i) /\ ~reaped[i]
    /\ status' = [status EXCEPT ![i] = CASE status[i] = "stopping" -> "stopped"
                                         [] proc[i] = "dep" -> "dormant"
                                         [] OTHER -> "error"]
    /\ reaped' = [reaped EXCEPT ![i] = TRUE]
    /\ due' = [due EXCEPT ![i] = status[i] = "running" /\ proc[i] # "dep"]
    /\ UNCHANGED <<current, proc, count, op, force, faults>>

\* Nobody refers to the instance any more; its slot is used again.
Garbage(i) ==
    /\ reaped[i] /\ ~due[i]
    /\ i \notin {current, op.old, op.new, force.old}
Collect(i) ==
    /\ Garbage(i)
    /\ status' = [status EXCEPT ![i] = "free"] /\ proc' = [proc EXCEPT ![i] = "none"]
    /\ reaped' = [reaped EXCEPT ![i] = FALSE] /\ count' = [count EXCEPT ![i] = 0]
    /\ UNCHANGED <<current, due, op, force, faults>>

\* The Agent is stopped or killed and started again; a plugin ends when its
\* pipes are closed.
AgentRestart ==
    /\ Fault
    /\ current' = None
    /\ status' = [i \in Slots |-> "free"] /\ proc' = [i \in Slots |-> "none"]
    /\ reaped' = [i \in Slots |-> FALSE] /\ due' = [i \in Slots |-> FALSE]
    /\ count' = [i \in Slots |-> 0]
    /\ op' = Idle /\ force' = Idle

-----------------------------------------------------------------------------
Manager ==
    \/ Stopped \/ Remove \/ LoadFails
    \/ \E i \in Slots : StartProcess(i) \/ Confirmed(i) \/ ExitedImmediately(i)
Goroutine(i) == Restart(i) \/ RestartExceeded(i)
Forced == ForceStop \/ ForceStopped \/ ForceUnregister \/ ForceRestart
Ends(i) == \E how \in {"crash", "killed", "dep"} : Die(i, how)

-----------------------------------------------------------------------------
(* Properties.                                                             *)

\* Whatever configuration pushes, restarts and the watchdog do to each other: at
\* most one process of the plugin runs that nobody is stopping.  The pointer
\* comparison after the backoff is what keeps a replaced plugin replaced.
OneProcess ==
    \A i, j \in Slots :
        /\ proc[i] = "alive" /\ status[i] # "stopping"
        /\ proc[j] = "alive" /\ status[j] # "stopping"
        => i = j
=============================================================================
