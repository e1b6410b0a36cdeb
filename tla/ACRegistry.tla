------------------------------ MODULE ACRegistry ------------------------------
(***************************************************************************)
(* Service discovery: what each Manager believes of one AgentCenter        *)
(* (manager/sd/registry.go), the hash and the change notices in Redis      *)
(* through which the Managers share it, and the AgentCenter that           *)
(* registers, sends heartbeats and signs off (agentcenter/sdclient,        *)
(* manager/api/discovery.go).                                              *)
(*                                                                         *)
(* Of LastSeen only its age is kept: an "old" one is past heartbeatTTL, a  *)
(* minute, and past sdStaleTimeout, ten minutes; between the two it is one *)
(* whose pruning has not come yet.  A notice is handled in one step with   *)
(* the read of Redis it asks for; the full synchronisation is not.  Redis  *)
(* is up, and other AgentCenters may keep the hash from expiring.          *)
(***************************************************************************)

CONSTANTS
    Managers,
    None

VARIABLES
    up,       \* the AgentCenter runs
    local,    \* Manager -> Registry.instances of the AgentCenter
    store,    \* its field of the hash ac:instances
    news,     \* Manager -> the notice its subscriber has not handled
    sync,     \* Manager -> where redisSyncLoop stands
    copy,     \* Manager -> what LoadFromRedis has read
    probe     \* Manager -> what probeOne is about to do

loops == <<sync, copy, probe>>
vars == <<up, local, store, news, loops>>

Instances == [healthy : BOOLEAN, age : {"new", "old"}]
Fresh == [healthy |-> TRUE, age |-> "new"]

TypeOK ==
    /\ up \in BOOLEAN
    /\ local \in [Managers -> Instances \cup {None}]
    /\ store \in Instances \cup {None}
    /\ news \in [Managers -> {"upd", "del", None}]
    /\ sync \in [Managers -> {"wait", "load", "remove"}]
    /\ copy \in [Managers -> Instances \cup {None}]
    /\ probe \in [Managers -> {"wait", "mark", "clear"}]

Init ==
    /\ up = TRUE
    /\ local = [m \in Managers |-> None] /\ store = None
    /\ news = [m \in Managers |-> None]
    /\ sync = [m \in Managers |-> "wait"] /\ copy = [m \in Managers |-> None]
    /\ probe = [m \in Managers |-> "wait"]

-----------------------------------------------------------------------------
(* Redis.                                                                  *)

\* Every Manager hears of a change, also the one that made it; the notice is
\* lost on one whose subscription is broken or that has another to handle.
Publish(notice) ==
    \E deaf \in SUBSET Managers :
        news' = [m \in Managers |->
                    IF news[m] # None \/ m \in deaf THEN news[m] ELSE notice]

Set(m, entry) == local' = [local EXCEPT ![m] = entry]

\* A change that is made under the lock, with syncToRedis.
Put(m, entry) ==
    /\ Set(m, entry)
    /\ store' = entry
    /\ Publish("upd")

RemoveFromRedis ==
    /\ store' = None
    /\ Publish("del")

\* Two minutes after the last write.
Expire ==
    /\ store # None /\ store.age # "new"
    /\ store' = None
    /\ UNCHANGED <<up, local, news, loops>>

-----------------------------------------------------------------------------
(* The AgentCenter.                                                        *)

Register(m) ==
    /\ up
    /\ Put(m, Fresh)
    /\ UNCHANGED <<up, loops>>

\* A Manager that does not know the instance looks into Redis; if it is not
\* there either, the AgentCenter is told to register.
Heartbeat(m) ==
    /\ up
    /\ local[m] # None \/ store # None
    /\ Put(m, Fresh)
    /\ UNCHANGED <<up, loops>>

Start ==
    /\ ~up
    /\ up' = TRUE
    /\ UNCHANGED <<local, store, news, loops>>

Crash ==
    /\ up
    /\ up' = FALSE
    /\ UNCHANGED <<local, store, news, loops>>

\* An orderly end: after the last heartbeat.
Deregister(m) ==
    /\ up
    /\ up' = FALSE
    /\ Set(m, None)
    /\ RemoveFromRedis
    /\ UNCHANGED <<loops>>

-----------------------------------------------------------------------------
(* Every Manager: the subscriber ...                                       *)

\* upd: the instance is read from Redis and stored.
HearUpdate(m) ==
    /\ news[m] = "upd"
    /\ news' = [news EXCEPT ![m] = None]
    /\ Set(m, IF store = None THEN local[m] ELSE store)
    /\ UNCHANGED <<up, store, loops>>

HearRemoval(m) ==
    /\ news[m] = "del"
    /\ news' = [news EXCEPT ![m] = None]
    /\ Set(m, None)
    /\ UNCHANGED <<up, store, loops>>

-----------------------------------------------------------------------------
(* ... the full synchronisation every 30 seconds ...                       *)

\* LoadFromRedis reads without the lock ...
Load(m) ==
    /\ sync[m] = "wait"
    /\ copy' = [copy EXCEPT ![m] = store]
    /\ sync' = [sync EXCEPT ![m] = "load"]
    /\ UNCHANGED <<up, local, store, news, probe>>

\* ... and takes over what there is, what is not in Redis stays.  Then
\* pruneStale: out of the map under the lock, out of Redis after it.
TakeOver(m) ==
    LET taken == IF copy[m] = None THEN local[m] ELSE copy[m]
        stale == taken = [healthy |-> FALSE, age |-> "old"]
    IN  /\ sync[m] = "load"
        /\ copy' = [copy EXCEPT ![m] = None]
        /\ Set(m, IF stale THEN None ELSE taken)
        /\ sync' = [sync EXCEPT ![m] = IF stale THEN "remove" ELSE "wait"]
        /\ UNCHANGED <<up, store, news, probe>>

\* A mistake: what was pruned stays in Redis.
PruneHere(m) ==
    /\ sync[m] = "remove"
    /\ sync' = [sync EXCEPT ![m] = "wait"]
    /\ UNCHANGED <<up, local, store, news, copy, probe>>

PruneRedis(m) ==
    /\ sync[m] = "remove"
    /\ RemoveFromRedis
    /\ sync' = [sync EXCEPT ![m] = "wait"]
    /\ UNCHANGED <<up, local, copy, probe>>

-----------------------------------------------------------------------------
(* ... and the probes.                                                     *)

\* What the probe decides is done later, to the instance that is there then.
\* Three failures in a row may be counted; failCount starts again with every
\* heartbeat and every instance that is taken over.
Probe(m) ==
    /\ probe[m] = "wait" /\ local[m] # None
    /\ \E next \in IF local[m].age = "new" /\ up THEN {"mark", "clear"} ELSE {"mark"} :
          probe' = [probe EXCEPT ![m] = next]
    /\ UNCHANGED <<up, local, store, news, sync, copy>>

MarkAs(m, healthy) ==
    /\ probe' = [probe EXCEPT ![m] = "wait"]
    /\ IF local[m] # None /\ local[m].healthy # healthy
         THEN Put(m, [local[m] EXCEPT !.healthy = healthy])
         ELSE UNCHANGED <<local, store, news>>
    /\ UNCHANGED <<up, sync, copy>>

MarkUnhealthy(m) == probe[m] = "mark" /\ MarkAs(m, FALSE)
MarkHealthy(m) == probe[m] = "clear" /\ MarkAs(m, TRUE)

-----------------------------------------------------------------------------
(* Time, and restarts.                                                     *)

Aged(e) == IF e = None THEN None ELSE [e EXCEPT !.age = "old"]

\* Nobody heard the AgentCenter meanwhile, whether it is gone or cut off.
Elapse ==
    /\ local' = [m \in Managers |-> Aged(local[m])]
    /\ store' = Aged(store)
    /\ copy' = [m \in Managers |-> Aged(copy[m])]
    /\ UNCHANGED <<up, news, sync, probe>>

\* Restarts while the AgentCenter is gone are left out: they might go on for
\* ever.  It may be gone just before and after.
ManagerRestart(m) ==
    /\ up
    /\ Set(m, store)
    /\ news' = [news EXCEPT ![m] = None]
    /\ copy' = [copy EXCEPT ![m] = None]
    /\ sync' = [sync EXCEPT ![m] = "wait"] /\ probe' = [probe EXCEPT ![m] = "wait"]
    /\ UNCHANGED <<up, store>>

-----------------------------------------------------------------------------
Subscriber(m) == HearUpdate(m) \/ HearRemoval(m)
SyncLoop(m) == Load(m) \/ TakeOver(m) \/ PruneRedis(m)
ProbeLoop(m) == Probe(m) \/ MarkUnhealthy(m) \/ MarkHealthy(m)
Report == \E m \in Managers : Register(m) \/ Heartbeat(m)

Next ==
    \/ Report \/ Start \/ Crash \/ Expire \/ Elapse
    \/ \E m \in Managers :
          \/ Deregister(m) \/ Subscriber(m) \/ SyncLoop(m)
          \/ ProbeLoop(m) \/ ManagerRestart(m)

Spec == Init /\ [][Next]_vars

\* Loops loop, heartbeats come, time passes while there are none.  That the
\* AgentCenter starts or stops, and that it deregisters, is left to chance.
FairSpec ==
    /\ Spec
    /\ WF_vars(Report) /\ WF_vars(~up /\ Elapse)
    /\ \A m \in Managers :
          WF_vars(Subscriber(m)) /\ WF_vars(SyncLoop(m)) /\ WF_vars(ProbeLoop(m))

-----------------------------------------------------------------------------
(* Properties.                                                             *)

\* An AgentCenter that stays away is in the end forgotten by every Manager and
\* by Redis, for good, though LoadFromRedis, a notice or a late mark may bring
\* it back to a map or to the hash after it was pruned or deregistered.
DownForgotten ==
    <>[]~up => <>[](store = None /\ \A m \in Managers : local[m] = None)
=============================================================================
