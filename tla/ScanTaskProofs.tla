--------------------------- MODULE ScanTaskProofs ---------------------------
(***************************************************************************)
(* What holds of ScanTask for any hosts, users, Managers and AgentCenters  *)
(* and for any number of retries, runs and faults.                         *)
(***************************************************************************)
EXTENDS ScanTask, TLAPS, FiniteSetTheorems

USE ScanTaskAssumption

\* Type correctness is inductive by itself.
LEMMA TypeStep ==
  ASSUME TypeOK, [Next]_vars
  PROVE  TypeOK'
<1> USE DEF TypeOK, task, tables, agents, Statuses, Ended, RowStates, DispatcherPC,
       At, Idle, Copied, NoCopy, Go, Leave, Rest, Write, WriteFrom, Fault, Attempt
<1>1. CASE API
  <2>1. ASSUME NEW u \in Users, ReadToRun(u)
       PROVE  TypeOK'
    BY <2>1 DEF ReadToRun
  <2>2. ASSUME NEW u \in Users, RunTask(u)
       PROVE  TypeOK'
    BY <2>2 DEF RunTask
  <2>3. ASSUME NEW u \in Users, ReadToDelete(u)
       PROVE  TypeOK'
    BY <2>3 DEF ReadToDelete
  <2>4. ASSUME NEW u \in Users, DeleteTask(u)
       PROVE  TypeOK'
    BY <2>4 DEF DeleteTask
  <2>5. CASE CancelTask
    BY <2>5 DEF CancelTask
  <2> QED
    BY <1>1, <2>1, <2>2, <2>3, <2>4, <2>5 DEF API
<1>2. ASSUME NEW d \in Dispatchers, Dispatch(d) \/ NoPolicy(d) \/ CrashManager(d)
     PROVE  TypeOK'
  <2>1. CASE Pick(d)
    BY <2>1 DEF Pick
  <2>2. CASE Claim(d)
    <3>1. CASE status = "pending"
      BY <2>2, <3>1 DEF Claim
    <3>2. CASE status # "pending"
      <4>1. disp' = [disp EXCEPT ![d] = Idle]
        BY <2>2, <3>2 DEF Claim
      <4>2. status' = status
        BY <2>2, <3>2 DEF Claim
      <4> QED
        BY <2>2, <4>1, <4>2 DEF Claim
    <3> QED
      BY <3>1, <3>2
  <2>3. CASE \E h \in Hosts : Send(d, h)
    <3> PICK h \in Hosts : Send(d, h)
      BY <2>3
    <3>1. disp' \in [Dispatchers -> [pc : DispatcherPC, retry : 0..MaxRetries,
                       todo : SUBSET Hosts, host : SUBSET Hosts, sent : BOOLEAN,
                       success : Nat]]
      BY DEF Send
    <3>2. scans' \in [Hosts -> Nat]
      BY DEF Send
    <3> QED
      BY <3>1, <3>2 DEF Send
  <2>4. CASE Record(d)
    BY <2>4 DEF Record
  <2>5. CASE Count(d)
    <3>1. CASE disp[d].success = 0
      BY <2>5, <3>1 DEF Count
    <3>2. CASE disp[d].success # 0
      <4>1. disp' = [disp EXCEPT ![d] = Idle]
        BY <2>5, <3>2 DEF Count
      <4> QED
        BY <2>5, <4>1 DEF Count
    <3> QED
      BY <3>1, <3>2
  <2>6. CASE RollBack(d)
    BY <2>6 DEF RollBack
  <2>7. CASE Clean(d)
    BY <2>7 DEF Clean
  <2>8. CASE NoPolicy(d)
    BY <2>8 DEF NoPolicy
  <2>9. CASE CrashManager(d)
    BY <2>9 DEF CrashManager
  <2> QED
    BY <1>2, <2>1, <2>2, <2>3, <2>4, <2>5, <2>6, <2>7, <2>8, <2>9 DEF Dispatch
<1>3. ASSUME NEW a \in Timers, Check(a) \/ LoseCheck(a)
     PROVE  TypeOK'
  <2>1. CASE ReadPending(a)
    BY <2>1 DEF ReadPending
  <2>2. CASE ExpirePending(a)
    BY <2>2 DEF ExpirePending
  <2>3. CASE ReadRunning(a)
    BY <2>3 DEF ReadRunning
  <2>4. CASE Complete(a)
    BY <2>4 DEF Complete
  <2>5. CASE Reschedule(a)
    BY <2>5 DEF Reschedule, AllIn
  <2>6. CASE GiveUp(a)
    BY <2>6 DEF GiveUp
  <2>7. CASE Finish(a)
    BY <2>7 DEF Finish
  <2>8. CASE CountResults(a)
    BY <2>8 DEF CountResults, AllIn
  <2>9. CASE LoseCheck(a)
    BY <2>9 DEF LoseCheck
  <2> QED
    BY <1>3, <2>1, <2>2, <2>3, <2>4, <2>5, <2>6, <2>7, <2>8, <2>9 DEF Check
<1>4. CASE SweepZombie
  BY <1>4 DEF SweepZombie
<1>5. ASSUME NEW h \in Hosts, Consume(h) \/ StoreLate(h) \/ LoseScan(h) \/ Redeliver(h)
     PROVE  TypeOK'
  <2>1. CASE StoreResult(h)
    BY <2>1 DEF StoreResult
  <2>2. CASE CheckSignal(h)
    BY <2>2 DEF CheckSignal
  <2>3. CASE CountCompletion(h)
    <3>1. row' \in [Hosts -> RowStates] /\ completed' \in Nat
      BY <2>3 DEF CountCompletion
    <3>2. status' \in Statuses
      BY <2>3 DEF CountCompletion
    <3>3. consuming' \in SUBSET Hosts /\ returned' \in SUBSET Hosts
      BY <2>3 DEF CountCompletion
    <3>4. signals' \in [Hosts -> Nat]
      BY <2>3 DEF CountCompletion
    <3> QED
      BY <2>3, <3>1, <3>2, <3>3, <3>4 DEF CountCompletion
  <2>4. CASE LoseScan(h)
    BY <2>4 DEF LoseScan
  <2>5. CASE Redeliver(h)
    BY <2>5 DEF Redeliver
  <2>6. CASE StoreLate(h)
    BY <2>6 DEF StoreLate
  <2> QED
    BY <1>5, <2>1, <2>2, <2>3, <2>4, <2>5, <2>6 DEF Consume
<1>6. CASE UNCHANGED vars
  BY <1>6 DEF vars
<1> QED
  BY <1>1, <1>2, <1>3, <1>4, <1>5, <1>6 DEF Next

\* The sets of rows depend on the rows only, and are finite.
LEMMA Same ==
  row' = row => ReachedRows' = ReachedRows /\ CompletedRows' = CompletedRows
BY DEF ReachedRows, CompletedRows

LEMMA RowFacts ==
  /\ IsFiniteSet(ReachedRows) /\ IsFiniteSet(CompletedRows)
  /\ Cardinality(ReachedRows) \in Nat /\ Cardinality(CompletedRows) \in Nat
  /\ Cardinality(ReachedRows) = 0 <=> ReachedRows = {}
  /\ \A h \in Hosts \ ReachedRows :
        Cardinality(ReachedRows \cup {h}) = Cardinality(ReachedRows) + 1
  /\ \A h \in Hosts \ CompletedRows :
        Cardinality(CompletedRows \cup {h}) = Cardinality(CompletedRows) + 1
  /\ Cardinality(CompletedRows) >= Cardinality(ReachedRows)
        => ReachedRows = CompletedRows
<1>1. ReachedRows \subseteq Hosts /\ CompletedRows \subseteq ReachedRows
  BY DEF ReachedRows, CompletedRows
<1>2. IsFiniteSet(ReachedRows)
  BY <1>1, FS_Subset DEF ScanTaskAssumption
<1>3. /\ IsFiniteSet(CompletedRows)
      /\ Cardinality(CompletedRows) <= Cardinality(ReachedRows)
      /\ Cardinality(ReachedRows) = Cardinality(CompletedRows)
            => ReachedRows = CompletedRows
  BY <1>1, <1>2, FS_Subset
<1>4. Cardinality(ReachedRows) \in Nat /\ Cardinality(CompletedRows) \in Nat
  BY <1>2, <1>3, FS_CardinalityType
<1>5. Cardinality(ReachedRows) = 0 <=> ReachedRows = {}
  BY <1>2, FS_EmptySet
<1>6. \A h \in Hosts \ ReachedRows :
        Cardinality(ReachedRows \cup {h}) = Cardinality(ReachedRows) + 1
  BY <1>2, FS_AddElement
<1>7. \A h \in Hosts \ CompletedRows :
        Cardinality(CompletedRows \cup {h}) = Cardinality(CompletedRows) + 1
  BY <1>3, FS_AddElement
<1> QED
  BY <1>2, <1>3, <1>4, <1>5, <1>6, <1>7

\* The accounting of the first round is inductive, given the types.
LEMMA FirstRoundStep ==
  ASSUME TypeOK, TypeOK', FirstRoundInv, [Next]_vars
  PROVE  FirstRoundInv'
<1> USE DEF TypeOK, task, tables, agents, Statuses, Ended, RowStates, DispatcherPC,
       At, Idle, Copied, NoCopy, Go, Leave, Rest, Write, WriteFrom, Fault, Attempt
<1>1. CASE API
  <2>1. ASSUME NEW u \in Users, ReadToRun(u)
       PROVE  FirstRoundInv'
    BY <2>1, Same DEF ReadToRun, FirstRoundInv, NeverRun, OneDispatcher, FirstRound, WaitingFresh,
      WorkingCounts, CountsMatchRows, CopiesBehind, Working
  <2>2. ASSUME NEW u \in Users, RunTask(u)
       PROVE  FirstRoundInv'
    <3>1. CASE status = "deleted"
      BY <2>2, <3>1, Same DEF RunTask, FirstRoundInv, NeverRun, OneDispatcher, FirstRound, WaitingFresh,
          WorkingCounts, CountsMatchRows, CopiesBehind, Working
    <3>2. CASE status # "deleted"
      <4>1. FirstRound' => runs = 0
        BY <2>2, <3>2 DEF RunTask, FirstRound
      <4>2. runs = 0 => ReachedRows = {} /\ CompletedRows = {}
        BY DEF FirstRoundInv, NeverRun, ReachedRows, CompletedRows
      <4>3. Cardinality({}) = 0
        BY FS_EmptySet
      <4>4. NeverRun'
        BY <2>2, <3>2 DEF RunTask, NeverRun
      <4> SUFFICES ASSUME FirstRound' PROVE FirstRoundInv'
        BY <4>4 DEF FirstRoundInv, OneDispatcher
      <4>5. /\ \A d \in Dispatchers : disp'[d].pc = "idle"
            /\ \A b \in Timers : timer'[b].pc = "idle"
        BY <2>2, <4>1 DEF RunTask, FirstRoundInv, NeverRun
      <4>6. /\ ReachedRows' = {} /\ CompletedRows' = {}
            /\ status' = "pending" /\ dispatched' = 0 /\ completed' = 0
        BY <2>2, <3>2, <4>1, <4>2, Same DEF RunTask
      <4> QED
        BY <4>3, <4>4, <4>5, <4>6
           DEF FirstRoundInv, OneDispatcher, WaitingFresh, WorkingCounts,
               CountsMatchRows, CopiesBehind, Working
    <3> QED
      BY <3>1, <3>2
  <2>3. ASSUME NEW u \in Users, ReadToDelete(u)
       PROVE  FirstRoundInv'
    BY <2>3, Same DEF ReadToDelete, FirstRoundInv, NeverRun, OneDispatcher, FirstRound, WaitingFresh,
      WorkingCounts, CountsMatchRows, CopiesBehind, Working
  <2>4. ASSUME NEW u \in Users, DeleteTask(u)
       PROVE  FirstRoundInv'
    <3>1. ~FirstRound'
      BY <2>4 DEF DeleteTask, FirstRound
    <3>2. NeverRun'
      BY <2>4 DEF DeleteTask, FirstRoundInv, NeverRun
    <3> QED
      BY <3>1, <3>2 DEF FirstRoundInv, OneDispatcher
  <2>5. CASE CancelTask
    BY <2>5, Same DEF CancelTask, FirstRoundInv, NeverRun, OneDispatcher, FirstRound, WaitingFresh,
      WorkingCounts, CountsMatchRows, CopiesBehind, Working
  <2> QED
    BY <1>1, <2>1, <2>2, <2>3, <2>4, <2>5 DEF API
<1>2. ASSUME NEW d \in Dispatchers, Dispatch(d) \/ NoPolicy(d) \/ CrashManager(d)
     PROVE  FirstRoundInv'
  <2>1. CASE Pick(d)
    BY <2>1, Same DEF Pick, FirstRoundInv, NeverRun, OneDispatcher, FirstRound, WaitingFresh,
      WorkingCounts, CountsMatchRows, CopiesBehind, Working
  <2>2. CASE Claim(d)
    <3>1. CASE status = "pending"
      <4>1. disp' = [disp EXCEPT ![d] = At("load", disp[d].retry, disp[d].todo,
                        disp[d].host, disp[d].sent, disp[d].success)]
        BY <2>2, <3>1 DEF Claim
      <4>2. Cardinality({}) = 0
        BY FS_EmptySet
      <4>3. status' = "running" /\ ~(runs = 0)
        BY <2>2, <3>1 DEF Claim, FirstRoundInv, NeverRun
      <4>4. FirstRound' => FirstRound
        BY <2>2, <3>1 DEF Claim, FirstRound
      <4>5. FirstRound => \A c \in Dispatchers : ~Working(c)
        BY <3>1 DEF FirstRoundInv, WaitingFresh
      <4>6. \A c \in Dispatchers : c # d => disp'[c] = disp[c]
        BY <4>1
      <4>7. OneDispatcher'
        BY <4>4, <4>5, <4>6 DEF OneDispatcher, Working
      <4>8. row' = row /\ dispatched' = dispatched /\ completed' = completed
            /\ timer' = timer /\ runs' = runs /\ retry' = retry
        BY <2>2 DEF Claim
      <4>9. FirstRound' => WorkingCounts'
        <5> SUFFICES ASSUME FirstRound', NEW c \in Dispatchers
                     PROVE  /\ disp'[c].pc # "idle" =>
                                  /\ disp'[c].retry = 0
                                  /\ disp'[c].todo \cap disp'[c].host = {}
                            /\ disp'[c].pc = "record" =>
                                  \E h \in Hosts : disp'[c].host = {h}
                            /\ Working(c)' =>
                                  /\ dispatched' = 0
                                  /\ disp'[c].success >= Cardinality(ReachedRows)'
                                  /\ (disp'[c].todo \cup disp'[c].host)
                                        \cap ReachedRows' = {}
                            /\ disp'[c].pc \in {"claim", "rollback"} =>
                                  disp'[c].success = 0
          BY DEF WorkingCounts
        <5>1. CASE c = d
          <6>1. /\ disp'[d].pc = "load" /\ disp'[d].retry = disp[d].retry
                /\ disp'[d].todo = disp[d].todo /\ disp'[d].host = disp[d].host
                /\ disp'[d].success = disp[d].success
            BY <4>1
          <6>2. disp[d].pc = "claim"
            BY <2>2 DEF Claim
          <6>3. /\ disp[d].retry = 0 /\ disp[d].todo \cap disp[d].host = {}
                /\ disp[d].success = 0
            BY <4>4, <6>2 DEF FirstRoundInv, WorkingCounts
          <6>4. ReachedRows' = {} /\ dispatched' = 0
            BY <3>1, <4>4, <4>8, Same DEF FirstRoundInv, WaitingFresh
          <6> QED
            BY <4>2, <5>1, <6>1, <6>3, <6>4
        <5>2. CASE c # d
          <6>1. disp'[c] = disp[c] /\ ~Working(c)' /\ WorkingCounts
            BY <4>4, <4>5, <4>6, <5>2 DEF FirstRoundInv, Working
          <6> QED
            BY <6>1 DEF WorkingCounts
        <5> QED
          BY <5>1, <5>2
      <4> QED
        BY <2>2, <4>3, <4>4, <4>7, <4>8, <4>9, Same
           DEF FirstRoundInv, NeverRun, WaitingFresh, CountsMatchRows, CopiesBehind
    <3>2. CASE status # "pending"
      <4>1. disp' = [disp EXCEPT ![d] = Idle] /\ status' = status
        BY <2>2, <3>2 DEF Claim
      <4> QED
        BY <2>2, <4>1, Same DEF Claim, FirstRoundInv, NeverRun, OneDispatcher, FirstRound, WaitingFresh,
          WorkingCounts, CountsMatchRows, CopiesBehind, Working
    <3> QED
      BY <3>1, <3>2
  <2>3. CASE \E h \in Hosts : Send(d, h)
    BY <2>3, Same DEF Send, FirstRoundInv, NeverRun, OneDispatcher, FirstRound, WaitingFresh,
      WorkingCounts, CountsMatchRows, CopiesBehind, Working
  <2>4. CASE Record(d)
    <3>1. ~(runs = 0) /\ runs' = runs /\ retry' = retry /\ status' = status
          /\ dispatched' = dispatched /\ completed' = completed /\ timer' = timer
      BY <2>4 DEF Record, FirstRoundInv, NeverRun
    <3>2. /\ \A c \in Dispatchers : c # d => disp'[c] = disp[c]
          /\ disp'[d].pc \in {"count", "send"} /\ disp'[d].retry = disp[d].retry
          /\ disp'[d].todo = disp[d].todo /\ disp'[d].host = {}
          /\ disp'[d].success = IF disp[d].sent THEN disp[d].success + 1
                                ELSE disp[d].success
      BY <2>4 DEF Record
    <3>3. Working(d) /\ disp[d].pc = "record"
      BY <2>4 DEF Record, Working
    <3> SUFFICES ASSUME FirstRound PROVE FirstRoundInv'
      BY <3>1 DEF FirstRoundInv, NeverRun, OneDispatcher, FirstRound
    <3>4. \A c \in Dispatchers : c # d => ~Working(c)
      BY <3>3 DEF FirstRoundInv, OneDispatcher
    <3>5. \A c \in Dispatchers : c # d => ~Working(c)'
      BY <3>2, <3>4 DEF Working
    <3>6. status # "pending" /\ status # "completed" /\ dispatched = 0
      BY <3>3 DEF FirstRoundInv, WaitingFresh, WorkingCounts, CountsMatchRows
    <3>7. /\ disp[d].host \cap ReachedRows = {}
          /\ disp[d].todo \cap ReachedRows = {}
          /\ disp[d].todo \cap disp[d].host = {}
          /\ disp[d].success >= Cardinality(ReachedRows)
      BY <3>3 DEF FirstRoundInv, WorkingCounts
    <3>8. CompletedRows' = CompletedRows
      BY <2>4, <3>7 DEF Record, CompletedRows, ReachedRows
    <3>9. \/ ReachedRows' = ReachedRows
          \/ disp[d].sent /\ ReachedRows' = ReachedRows \cup disp[d].host
      <4>1. CASE row' = row
        BY <4>1, Same
      <4>2. CASE row' # row
        BY <2>4, <3>7, <4>2 DEF Record, ReachedRows
      <4> QED
        BY <4>1, <4>2
    <3>10. disp'[d].success >= Cardinality(ReachedRows)'
      <4>1. PICK h \in Hosts : disp[d].host = {h}
        BY <3>3 DEF FirstRoundInv, WorkingCounts
      <4>2. Cardinality(ReachedRows \cup {h}) = Cardinality(ReachedRows) + 1
        BY <3>7, <4>1, RowFacts
      <4>3. disp[d].success \in Nat /\ Cardinality(ReachedRows) \in Nat
        BY RowFacts
      <4>4. CASE ReachedRows' = ReachedRows
        BY <3>2, <3>7, <4>3, <4>4
      <4>5. CASE disp[d].sent /\ ReachedRows' = ReachedRows \cup disp[d].host
        BY <3>2, <3>7, <4>1, <4>2, <4>3, <4>5
      <4> QED
        BY <3>9, <4>4, <4>5
    <3>11. WorkingCounts'
      BY <3>1, <3>2, <3>3, <3>5, <3>6, <3>7, <3>9, <3>10 DEF FirstRoundInv, WorkingCounts
    <3> QED
      BY <3>1, <3>5, <3>6, <3>8, <3>11
         DEF FirstRoundInv, NeverRun, OneDispatcher, FirstRound, WaitingFresh,
             CountsMatchRows, CopiesBehind
  <2>5. CASE Count(d)
    <3>1. ~(runs = 0) /\ runs' = runs /\ retry' = retry /\ status' = status
          /\ row' = row /\ completed' = completed /\ timer' = timer
      BY <2>5 DEF Count, FirstRoundInv, NeverRun
    <3>2. Working(d) /\ disp[d].pc = "count"
      BY <2>5 DEF Count, Working
    <3> SUFFICES ASSUME FirstRound PROVE FirstRoundInv'
      BY <3>1 DEF FirstRoundInv, NeverRun, OneDispatcher, FirstRound
    <3>3. \A c \in Dispatchers : c # d => disp'[c] = disp[c] /\ ~Working(c)
      <4>1. \A c \in Dispatchers : c # d => disp'[c] = disp[c]
        <5>1. CASE disp[d].success = 0
          BY <2>5, <5>1 DEF Count
        <5>2. CASE disp[d].success # 0
          BY <2>5, <5>2 DEF Count
        <5> QED
          BY <5>1, <5>2
      <4> QED
        BY <3>2, <4>1 DEF FirstRoundInv, OneDispatcher
    <3>4. /\ disp[d].retry = 0 /\ dispatched = 0
          /\ disp[d].success >= Cardinality(ReachedRows)
          /\ disp[d].todo \cap disp[d].host = {}
          /\ (disp[d].todo \cup disp[d].host) \cap ReachedRows = {}
          /\ status # "pending" /\ status # "completed"
      BY <3>2 DEF FirstRoundInv, WorkingCounts, WaitingFresh, CountsMatchRows
    <3>5. dispatched' = disp[d].success \/ dispatched' = 0
      BY <2>5, <3>4 DEF Count, FirstRound
    <3>6. \A c \in Dispatchers : c # d => ~Working(c)'
      BY <3>3 DEF Working
    <3>7. WorkingCounts'
      <4>1. CASE disp[d].success = 0
        <5>1. /\ disp'[d].pc = "rollback" /\ disp'[d].retry = disp[d].retry
              /\ disp'[d].todo = disp[d].todo /\ disp'[d].host = disp[d].host
              /\ disp'[d].success = disp[d].success
          BY <2>5, <4>1 DEF Count
        <5>2. ReachedRows' = ReachedRows
          BY <3>1, Same
        <5>3. \A c \in Dispatchers : c # d =>
                 /\ disp'[c].pc # "idle" =>
                       disp'[c].retry = 0 /\ disp'[c].todo \cap disp'[c].host = {}
                 /\ disp'[c].pc = "record" => \E h \in Hosts : disp'[c].host = {h}
                 /\ disp'[c].pc \in {"claim", "rollback"} => disp'[c].success = 0
          BY <3>3 DEF FirstRoundInv, WorkingCounts
        <5> QED
          BY <3>4, <3>5, <3>6, <4>1, <5>1, <5>2, <5>3 DEF WorkingCounts
      <4>2. CASE disp[d].success # 0
        <5>1. disp'[d].pc = "idle"
          BY <2>5, <4>2 DEF Count
        <5> QED
          BY <3>3, <3>6, <5>1 DEF FirstRoundInv, WorkingCounts, Working
      <4> QED
        BY <4>1, <4>2
    <3> QED
      BY <3>1, <3>4, <3>5, <3>6, <3>7, Same
         DEF FirstRoundInv, NeverRun, OneDispatcher, FirstRound, WaitingFresh,
             CountsMatchRows, CopiesBehind
  <2>6. CASE RollBack(d)
    <3>1. disp[d].pc = "rollback" /\ Working(d)
      BY <2>6 DEF RollBack, Working
    <3>2. FirstRound => dispatched = 0 /\ ReachedRows = {}
      BY <3>1, RowFacts DEF FirstRoundInv, WorkingCounts
    <3>3. FirstRound => \A c \in Dispatchers : c # d => ~Working(c)
      BY <3>1 DEF FirstRoundInv, OneDispatcher
    <3>4. /\ \A c \in Dispatchers : c # d => disp'[c] = disp[c]
          /\ disp'[d].pc = "clean" /\ disp'[d].retry = disp[d].retry
          /\ disp'[d].todo = disp[d].todo /\ disp'[d].host = disp[d].host
      BY <2>6 DEF RollBack
    <3>5. FirstRound' => FirstRound
      BY <2>6 DEF RollBack, FirstRound
    <3>6. row' = row /\ dispatched' = dispatched /\ completed' = completed
          /\ timer' = timer /\ runs' = runs /\ retry' = retry
      BY <2>6 DEF RollBack
    <3>7. ~(runs = 0)
      BY <3>1 DEF FirstRoundInv, NeverRun
    <3>8. FirstRound' => \A c \in Dispatchers : ~Working(c)'
      BY <3>3, <3>4, <3>5 DEF Working
    <3>9. FirstRound' => WorkingCounts'
      <4> SUFFICES ASSUME FirstRound' PROVE WorkingCounts'
        OBVIOUS
      <4>1. \A c \in Dispatchers :
               /\ disp[c].pc # "idle" =>
                     disp[c].retry = 0 /\ disp[c].todo \cap disp[c].host = {}
               /\ disp[c].pc = "record" => \E h \in Hosts : disp[c].host = {h}
               /\ disp[c].pc \in {"claim", "rollback"} => disp[c].success = 0
        BY <3>5 DEF FirstRoundInv, WorkingCounts
      <4>2. \A c \in Dispatchers :
               /\ disp'[c].pc # "idle" =>
                     disp'[c].retry = 0 /\ disp'[c].todo \cap disp'[c].host = {}
               /\ disp'[c].pc = "record" => \E h \in Hosts : disp'[c].host = {h}
               /\ disp'[c].pc \in {"claim", "rollback"} => disp'[c].success = 0
        <5> SUFFICES ASSUME NEW c \in Dispatchers
                     PROVE  /\ disp'[c].pc # "idle" =>
                                  /\ disp'[c].retry = 0
                                  /\ disp'[c].todo \cap disp'[c].host = {}
                            /\ disp'[c].pc = "record" =>
                                  \E h \in Hosts : disp'[c].host = {h}
                            /\ disp'[c].pc \in {"claim", "rollback"} =>
                                  disp'[c].success = 0
          OBVIOUS
        <5>1. CASE c = d
          BY <3>1, <3>4, <4>1, <5>1
        <5>2. CASE c # d
          BY <3>4, <4>1, <5>2
        <5> QED
          BY <5>1, <5>2
      <4> QED
        BY <3>8, <4>2 DEF WorkingCounts
    <3>10. status' = "completed" => status = "completed"
      BY <2>6 DEF RollBack
    <3> QED
      BY <3>2, <3>5, <3>6, <3>7, <3>8, <3>9, <3>10, Same
         DEF FirstRoundInv, NeverRun, OneDispatcher, WaitingFresh, CountsMatchRows,
             CopiesBehind
  <2>7. CASE Clean(d)
    <3>1. ReachedRows' = ReachedRows /\ CompletedRows' = CompletedRows
      BY <2>7 DEF Clean, ReachedRows, CompletedRows
    <3>2. NeverRun'
      BY <2>7 DEF Clean, FirstRoundInv, NeverRun
    <3> HIDE DEF ReachedRows, CompletedRows
    <3> QED
      BY <2>7, <3>1, <3>2 DEF Clean, FirstRoundInv, NeverRun, OneDispatcher, FirstRound, WaitingFresh,
          WorkingCounts, CountsMatchRows, CopiesBehind, Working
  <2>8. CASE NoPolicy(d)
    BY <2>8, Same DEF NoPolicy, FirstRoundInv, NeverRun, OneDispatcher, FirstRound, WaitingFresh,
      WorkingCounts, CountsMatchRows, CopiesBehind, Working
  <2>9. CASE CrashManager(d)
    BY <2>9, Same DEF CrashManager, FirstRoundInv, NeverRun, OneDispatcher, FirstRound, WaitingFresh,
      WorkingCounts, CountsMatchRows, CopiesBehind, Working
  <2> QED
    BY <1>2, <2>1, <2>2, <2>3, <2>4, <2>5, <2>6, <2>7, <2>8, <2>9 DEF Dispatch
<1>3. ASSUME NEW a \in Timers, Check(a) \/ LoseCheck(a)
     PROVE  FirstRoundInv'
  <2>1. CASE ReadPending(a)
    BY <2>1, Same DEF ReadPending, FirstRoundInv, NeverRun, OneDispatcher, FirstRound, WaitingFresh,
      WorkingCounts, CountsMatchRows, CopiesBehind, Working
  <2>2. CASE ExpirePending(a)
    BY <2>2, Same DEF ExpirePending, FirstRoundInv, NeverRun, OneDispatcher, FirstRound, WaitingFresh,
      WorkingCounts, CountsMatchRows, CopiesBehind, Working
  <2>3. CASE ReadRunning(a)
    BY <2>3, Same DEF ReadRunning, FirstRoundInv, NeverRun, OneDispatcher, FirstRound, WaitingFresh,
      WorkingCounts, CountsMatchRows, CopiesBehind, Working
  <2>4. CASE Complete(a)
    <3>1. CASE status = "running"
      <4>1. FirstRound => dispatched > 0 /\ completed >= dispatched
        BY <2>4 DEF Complete, AllIn, FirstRoundInv, CopiesBehind
      <4>2. FirstRound' => FirstRound
        BY <2>4, <3>1 DEF Complete, FirstRound
      <4>3. status' = "completed" /\ timer' = [timer EXCEPT ![a] = NoCopy]
        BY <2>4, <3>1 DEF Complete
      <4> QED
        BY <2>4, <4>1, <4>2, <4>3, Same
        DEF Complete, FirstRoundInv, NeverRun, OneDispatcher, FirstRound, WaitingFresh,
          WorkingCounts, CountsMatchRows, CopiesBehind, Working
    <3>2. CASE status # "running"
      <4>1. status' = status /\ timer' = [timer EXCEPT ![a] = NoCopy]
        BY <2>4, <3>2 DEF Complete
      <4> QED
        BY <2>4, <4>1, Same DEF Complete, FirstRoundInv, NeverRun, OneDispatcher, FirstRound, WaitingFresh,
          WorkingCounts, CountsMatchRows, CopiesBehind, Working
    <3> QED
      BY <3>1, <3>2
  <2>5. CASE Reschedule(a)
    BY <2>5, Same DEF Reschedule, AllIn, FirstRoundInv, NeverRun, OneDispatcher, FirstRound, WaitingFresh,
      WorkingCounts, CountsMatchRows, CopiesBehind, Working
  <2>6. CASE GiveUp(a)
    <3>1. ReachedRows' = ReachedRows /\ CompletedRows' = CompletedRows
      BY <2>6 DEF GiveUp, ReachedRows, CompletedRows
    <3>2. NeverRun'
      BY <2>6 DEF GiveUp, FirstRoundInv, NeverRun
    <3> QED
      BY <2>6, <3>1, <3>2 DEF GiveUp, FirstRoundInv, NeverRun, OneDispatcher, FirstRound, WaitingFresh,
          WorkingCounts, CountsMatchRows, CopiesBehind, Working
  <2>7. CASE Finish(a)
    BY <2>7, Same DEF Finish, FirstRoundInv, NeverRun, OneDispatcher, FirstRound, WaitingFresh,
      WorkingCounts, CountsMatchRows, CopiesBehind, Working
  <2>8. CASE CountResults(a)
    BY <2>8, Same DEF CountResults, AllIn, FirstRoundInv, NeverRun, OneDispatcher, FirstRound, WaitingFresh,
      WorkingCounts, CountsMatchRows, CopiesBehind, Working
  <2>9. CASE LoseCheck(a)
    BY <2>9, Same DEF LoseCheck, FirstRoundInv, NeverRun, OneDispatcher, FirstRound, WaitingFresh,
      WorkingCounts, CountsMatchRows, CopiesBehind, Working
  <2> QED
    BY <1>3, <2>1, <2>2, <2>3, <2>4, <2>5, <2>6, <2>7, <2>8, <2>9 DEF Check
<1>4. CASE SweepZombie
  BY <1>4, Same DEF SweepZombie, FirstRoundInv, NeverRun, OneDispatcher, FirstRound, WaitingFresh,
      WorkingCounts, CountsMatchRows, CopiesBehind, Working
<1>5. ASSUME NEW h \in Hosts, Consume(h) \/ StoreLate(h) \/ LoseScan(h) \/ Redeliver(h)
     PROVE  FirstRoundInv'
  <2>1. CASE StoreResult(h)
    BY <2>1, Same DEF StoreResult, FirstRoundInv, NeverRun, OneDispatcher, FirstRound, WaitingFresh,
      WorkingCounts, CountsMatchRows, CopiesBehind, Working
  <2>2. CASE CheckSignal(h)
    BY <2>2, Same DEF CheckSignal, FirstRoundInv, NeverRun, OneDispatcher, FirstRound, WaitingFresh,
      WorkingCounts, CountsMatchRows, CopiesBehind, Working
  <2>3. CASE CountCompletion(h)
    <3>1. CASE /\ row[h] \in {"dispatched", "timeout"} /\ status # "deleted"
               /\ row' # row
      <4>1. /\ row' = [row EXCEPT ![h] = "completed"]
            /\ completed' = completed + 1
            /\ status' = IF dispatched > 0 /\ completed' >= dispatched
                         THEN "completed" ELSE status
            /\ runs' = runs /\ retry' = retry /\ dispatched' = dispatched
            /\ disp' = disp /\ timer' = timer
        BY <2>3, <3>1 DEF CountCompletion
      <4>2. ~(runs = 0)
        BY <3>1 DEF FirstRoundInv, NeverRun
      <4> SUFFICES ASSUME FirstRound PROVE FirstRoundInv'
        BY <3>1, <4>1, <4>2 DEF FirstRoundInv, NeverRun, OneDispatcher, FirstRound
      <4>3. ReachedRows' = ReachedRows
        BY <3>1, <4>1 DEF ReachedRows
      <4>4. CompletedRows' = CompletedRows \cup {h} /\ h \notin CompletedRows
        BY <3>1, <4>1 DEF CompletedRows
      <4>5. Cardinality(CompletedRows)' = completed + 1
        BY <4>4, RowFacts DEF FirstRoundInv, CountsMatchRows
      <4>6. h \in ReachedRows
        BY <3>1 DEF ReachedRows
      <4>7. status # "pending"
        BY <4>6 DEF FirstRoundInv, WaitingFresh
      <4> QED
        BY <4>1, <4>2, <4>3, <4>5, <4>7
           DEF FirstRoundInv, NeverRun, OneDispatcher, FirstRound, Working,
               WaitingFresh, WorkingCounts, CountsMatchRows, CopiesBehind
    <3>2. CASE UNCHANGED <<row, completed, status>>
      BY <2>3, <3>2, Same
      DEF CountCompletion, FirstRoundInv, NeverRun, OneDispatcher, FirstRound, WaitingFresh,
          WorkingCounts, CountsMatchRows, CopiesBehind, Working
    <3> QED
      BY <2>3, <3>1, <3>2 DEF CountCompletion
  <2>4. CASE LoseScan(h)
    BY <2>4, Same DEF LoseScan, FirstRoundInv, NeverRun, OneDispatcher, FirstRound, WaitingFresh,
      WorkingCounts, CountsMatchRows, CopiesBehind, Working
  <2>5. CASE Redeliver(h)
    BY <2>5, Same DEF Redeliver, FirstRoundInv, NeverRun, OneDispatcher, FirstRound, WaitingFresh,
      WorkingCounts, CountsMatchRows, CopiesBehind, Working
  <2>6. CASE StoreLate(h)
    BY <2>6, Same DEF StoreLate, FirstRoundInv, NeverRun, OneDispatcher, FirstRound, WaitingFresh,
      WorkingCounts, CountsMatchRows, CopiesBehind, Working
  <2> QED
    BY <1>5, <2>1, <2>2, <2>3, <2>4, <2>5, <2>6 DEF Consume
<1>6. CASE UNCHANGED vars
  BY <1>6, Same DEF vars, FirstRoundInv, NeverRun, OneDispatcher, FirstRound, WaitingFresh,
      WorkingCounts, CountsMatchRows, CopiesBehind, Working
<1> QED
  BY <1>1, <1>2, <1>3, <1>4, <1>5, <1>6 DEF Next

\* A step that neither completes a row nor resets the count keeps it covering.
LEMMA StillCovered ==
  ASSUME TypeOK, NoHostForgotten, runs' = runs, completed' = completed,
         CompletedRows' \subseteq CompletedRows
  PROVE  NoHostForgotten'
<1>1. /\ IsFiniteSet(CompletedRows')
      /\ Cardinality(CompletedRows') <= Cardinality(CompletedRows)
  BY RowFacts, FS_Subset
<1>2. Cardinality(CompletedRows') \in Nat /\ Cardinality(CompletedRows) \in Nat
  BY <1>1, RowFacts, FS_CardinalityType
<1> QED
  BY <1>1, <1>2 DEF NoHostForgotten, TypeOK

LEMMA CountStep ==
  ASSUME TypeOK, FirstRoundInv, NoHostForgotten, [Next]_vars
  PROVE  NoHostForgotten'
<1> USE DEF task, tables, agents, Attempt
<1>1. CASE API
  <2>1. ASSUME NEW u \in Users, ReadToRun(u)
       PROVE  NoHostForgotten'
    BY <2>1, Same, StillCovered DEF ReadToRun
  <2>2. ASSUME NEW u \in Users, RunTask(u)
       PROVE  NoHostForgotten'
    <3>1. CASE status = "deleted"
      BY <2>2, <3>1, Same, StillCovered DEF RunTask
    <3>2. CASE status # "deleted"
      <4>1. runs' = 1 => CompletedRows = {}
        BY <2>2, <3>2 DEF RunTask, TypeOK, FirstRoundInv, NeverRun, CompletedRows
      <4>2. CompletedRows' = CompletedRows /\ completed' = 0
        BY <2>2, <3>2, Same DEF RunTask
      <4> QED
        BY <4>1, <4>2, FS_EmptySet DEF NoHostForgotten
    <3> QED
      BY <3>1, <3>2
  <2>3. ASSUME NEW u \in Users, ReadToDelete(u)
       PROVE  NoHostForgotten'
    BY <2>3, Same, StillCovered DEF ReadToDelete
  <2>4. ASSUME NEW u \in Users, DeleteTask(u)
       PROVE  NoHostForgotten'
    <3>1. CompletedRows' \subseteq CompletedRows
      BY <2>4 DEF DeleteTask, CompletedRows, TypeOK, RowStates
    <3> QED
      BY <2>4, <3>1, StillCovered DEF DeleteTask
  <2>5. CASE CancelTask
    BY <2>5, Same, StillCovered DEF CancelTask
  <2> QED
    BY <1>1, <2>1, <2>2, <2>3, <2>4, <2>5 DEF API
<1>2. ASSUME NEW d \in Dispatchers, Dispatch(d) \/ NoPolicy(d) \/ CrashManager(d)
     PROVE  NoHostForgotten'
  <2>1. CASE Pick(d)
    BY <2>1, Same, StillCovered DEF Pick
  <2>2. CASE Claim(d)
    BY <2>2, Same, StillCovered DEF Claim
  <2>3. CASE \E h \in Hosts : Send(d, h)
    BY <2>3, Same, StillCovered DEF Send
  <2>4. CASE Record(d)
    <3>1. CompletedRows' \subseteq CompletedRows
      BY <2>4 DEF Record, CompletedRows, TypeOK, RowStates
    <3> QED
      BY <2>4, <3>1, StillCovered DEF Record
  <2>5. CASE Count(d)
    BY <2>5, Same, StillCovered DEF Count
  <2>6. CASE RollBack(d)
    BY <2>6, Same, StillCovered DEF RollBack
  <2>7. CASE Clean(d)
    <3>1. CompletedRows' \subseteq CompletedRows
      BY <2>7 DEF Clean, CompletedRows, TypeOK, RowStates
    <3> QED
      BY <2>7, <3>1, StillCovered DEF Clean
  <2>8. CASE NoPolicy(d)
    BY <2>8, Same, StillCovered DEF NoPolicy
  <2>9. CASE CrashManager(d)
    BY <2>9, Same, StillCovered DEF CrashManager
  <2> QED
    BY <1>2, <2>1, <2>2, <2>3, <2>4, <2>5, <2>6, <2>7, <2>8, <2>9 DEF Dispatch
<1>3. ASSUME NEW a \in Timers, Check(a) \/ LoseCheck(a)
     PROVE  NoHostForgotten'
  <2>1. CASE ReadPending(a)
    BY <2>1, Same, StillCovered DEF ReadPending
  <2>2. CASE ExpirePending(a)
    BY <2>2, Same, StillCovered DEF ExpirePending
  <2>3. CASE ReadRunning(a)
    BY <2>3, Same, StillCovered DEF ReadRunning
  <2>4. CASE Complete(a)
    BY <2>4, Same, StillCovered DEF Complete
  <2>5. CASE Reschedule(a)
    BY <2>5, Same, StillCovered DEF Reschedule
  <2>6. CASE GiveUp(a)
    <3>1. CompletedRows' \subseteq CompletedRows
      BY <2>6 DEF GiveUp, CompletedRows, TypeOK, RowStates
    <3> QED
      BY <2>6, <3>1, StillCovered DEF GiveUp
  <2>7. CASE Finish(a)
    BY <2>7, Same, StillCovered DEF Finish
  <2>8. CASE CountResults(a)
    BY <2>8, Same, StillCovered DEF CountResults
  <2>9. CASE LoseCheck(a)
    BY <2>9, Same, StillCovered DEF LoseCheck
  <2> QED
    BY <1>3, <2>1, <2>2, <2>3, <2>4, <2>5, <2>6, <2>7, <2>8, <2>9 DEF Check
<1>4. CASE SweepZombie
  BY <1>4, Same, StillCovered DEF SweepZombie
<1>5. ASSUME NEW h \in Hosts, Consume(h) \/ StoreLate(h) \/ LoseScan(h) \/ Redeliver(h)
     PROVE  NoHostForgotten'
  <2>1. CASE StoreResult(h)
    BY <2>1, Same, StillCovered DEF StoreResult
  <2>2. CASE CheckSignal(h)
    BY <2>2, Same, StillCovered DEF CheckSignal
  <2>3. CASE CountCompletion(h)
    <3>1. CASE /\ row[h] \in {"dispatched", "timeout"} /\ status # "deleted"
               /\ row' # row
      <4>1. CompletedRows' = CompletedRows \cup {h} /\ h \notin CompletedRows
        BY <2>3, <3>1 DEF CountCompletion, CompletedRows, TypeOK
      <4>2. Cardinality(CompletedRows)' = Cardinality(CompletedRows) + 1
        BY <4>1, RowFacts
      <4> QED
        BY <2>3, <3>1, <4>2, RowFacts DEF CountCompletion, NoHostForgotten, TypeOK
    <3>2. CASE UNCHANGED <<row, completed>>
      BY <2>3, <3>2, Same, StillCovered DEF CountCompletion
    <3> QED
      BY <2>3, <3>1, <3>2 DEF CountCompletion, TypeOK
  <2>4. CASE LoseScan(h)
    BY <2>4, Same, StillCovered DEF LoseScan
  <2>5. CASE Redeliver(h)
    BY <2>5, Same, StillCovered DEF Redeliver
  <2>6. CASE StoreLate(h)
    BY <2>6, Same, StillCovered DEF StoreLate
  <2> QED
    BY <1>5, <2>1, <2>2, <2>3, <2>4, <2>5, <2>6 DEF Consume
<1>6. CASE UNCHANGED vars
  BY <1>6, Same, StillCovered DEF vars
<1> QED
  BY <1>1, <1>2, <1>3, <1>4, <1>5, <1>6 DEF Next

LEMMA InitTypes == Init => TypeOK
BY DEF Init, TypeOK, Idle, At, NoCopy, Copied, Statuses, Ended, RowStates, DispatcherPC

LEMMA InitFirstRound == Init => FirstRoundInv
BY DEF Init, FirstRoundInv, NeverRun, OneDispatcher, FirstRound, Idle, At, NoCopy, Copied

\* The rows, the requests and the locals of all processes keep their types;
\* in particular no retry is numbered beyond max_retries.
THEOREM TypeCorrect == Spec => []TypeOK
BY InitTypes, TypeStep, PTL DEF Spec

\* The inductive invariant of the first round: who may work on the task, and
\* that the hosts it waits for are at least those whose rows say they were
\* reached, also where a row or a count could not be written.
THEOREM FirstRoundInvariant == Spec => []FirstRoundInv
BY InitTypes, InitFirstRound, TypeStep, FirstRoundStep, TypeCorrect, PTL DEF Spec

\* Before the first retry no host counts twice, and a task is completed only
\* when every host that was reached has returned.
THEOREM FirstRoundAccounting == Spec => []FirstRoundExact
<1>1. TypeOK /\ FirstRoundInv => FirstRoundExact
  <2> SUFFICES ASSUME TypeOK, FirstRoundInv, FirstRound PROVE FirstRoundExact
    BY DEF FirstRoundExact
  <2>1. /\ completed = Cardinality(CompletedRows)
        /\ dispatched > 0 => dispatched >= Cardinality(ReachedRows)
        /\ status = "completed" => dispatched > 0 /\ completed >= dispatched
    BY DEF FirstRoundInv, CountsMatchRows
  <2>2. /\ dispatched \in Nat /\ completed \in Nat
        /\ Cardinality(ReachedRows) \in Nat
    BY RowFacts DEF TypeOK
  <2>3. status = "completed" => Cardinality(CompletedRows) >= Cardinality(ReachedRows)
    BY <2>1, <2>2
  <2> QED
    BY <2>1, <2>3, RowFacts DEF FirstRoundExact
<1> QED
  BY <1>1, TypeCorrect, FirstRoundInvariant, PTL

\* In the first run no host whose row is completed is missing from the count,
\* through all retries.
THEOREM CompletedCounted == Spec => []NoHostForgotten
<1>1. Init => NoHostForgotten
  BY DEF Init, NoHostForgotten
<1> QED
  BY <1>1, CountStep, TypeCorrect, FirstRoundInvariant, PTL DEF Spec

\* No two Managers dispatch the first round, with or without the Redis lock.
THEOREM ExclusiveDispatch == Spec => []OneDispatcher
<1>1. FirstRoundInv => OneDispatcher
  BY DEF FirstRoundInv
<1> QED
  BY <1>1, FirstRoundInvariant, PTL

-----------------------------------------------------------------------------
(* Partial results.                                                        *)

\* Results go only with the task, and a task that is gone stays so: what a
\* timer has counted is still there when it gives the task up.
ResultsInv ==
    /\ status # "deleted" => \A a \in Timers : timer[a].some => results # {}
    /\ PartialHasResults

\* A step that keeps the timers' counts and the results, or a deleted task.
LEMMA StillResults ==
  ASSUME ResultsInv, timer' = timer, results \subseteq results',
         status = "deleted" => status' = "deleted",
         status' = "partial" => status = "partial"
  PROVE  ResultsInv'
BY DEF ResultsInv, PartialHasResults

\* A timer that takes a new copy without a count, or drops the one it has.
LEMMA CountDropped ==
  ASSUME TypeOK, ResultsInv, NEW a \in Timers, NEW c, c.some = FALSE,
         timer' = [timer EXCEPT ![a] = c], results' = results,
         status = "deleted" => status' = "deleted",
         status' = "partial" => status = "partial" \/ results # {}
  PROVE  ResultsInv'
<1>1. \A b \in Timers : timer'[b].some => timer[b].some
  BY DEF TypeOK
<1> QED
  BY <1>1 DEF ResultsInv, PartialHasResults

LEMMA ResultsStep ==
  ASSUME TypeOK, ResultsInv, [Next]_vars
  PROVE  ResultsInv'
<1> USE DEF task, tables, agents, Attempt, Write, WriteFrom, Rest, NoCopy, Copied
<1>1. CASE API
  <2>1. ASSUME NEW u \in Users, ReadToRun(u) \/ RunTask(u) \/ ReadToDelete(u)
       PROVE  ResultsInv'
    BY <2>1, StillResults DEF ReadToRun, RunTask, ReadToDelete
  <2>2. ASSUME NEW u \in Users, DeleteTask(u)
       PROVE  ResultsInv'
    BY <2>2 DEF DeleteTask, ResultsInv, PartialHasResults
  <2>3. CASE CancelTask
    BY <2>3, StillResults DEF CancelTask
  <2> QED
    BY <1>1, <2>1, <2>2, <2>3 DEF API
<1>2. ASSUME NEW d \in Dispatchers, Dispatch(d) \/ NoPolicy(d) \/ CrashManager(d)
     PROVE  ResultsInv'
  <2>1. CASE Pick(d) \/ Claim(d) \/ \E h \in Hosts : Send(d, h)
    BY <2>1, StillResults DEF Pick, Claim, Send
  <2>2. CASE Record(d) \/ Count(d) \/ RollBack(d) \/ Clean(d)
    BY <2>2, StillResults DEF Record, Count, RollBack, Clean
  <2>3. CASE NoPolicy(d) \/ CrashManager(d)
    BY <2>3, StillResults DEF NoPolicy, CrashManager
  <2> QED
    BY <1>2, <2>1, <2>2, <2>3 DEF Dispatch
<1>3. ASSUME NEW a \in Timers, Check(a) \/ LoseCheck(a)
     PROVE  ResultsInv'
  <2>1. CASE ReadPending(a) \/ ExpirePending(a) \/ ReadRunning(a)
    BY <2>1, CountDropped DEF ReadPending, ExpirePending, ReadRunning
  <2>2. CASE Complete(a) \/ Reschedule(a)
    BY <2>2, CountDropped DEF Complete, Reschedule
  <2>3. CASE CountResults(a)
    <3>1. \A b \in Timers : timer'[b].some => timer[b].some \/ results # {}
      BY <2>3 DEF CountResults, TypeOK
    <3>2. UNCHANGED <<status, results>>
      BY <2>3 DEF CountResults
    <3> QED
      BY <3>1, <3>2 DEF ResultsInv, PartialHasResults
  <2>4. CASE GiveUp(a)
    <3>1. \A b \in Timers : timer'[b].some => timer[b].some
      BY <2>4 DEF GiveUp, TypeOK
    <3>2. UNCHANGED <<status, results>>
      BY <2>4 DEF GiveUp
    <3> QED
      BY <3>1, <3>2 DEF ResultsInv, PartialHasResults
  <2>5. CASE Finish(a)
    <3>1. status = "running" /\ timer[a].some => results # {}
      BY DEF ResultsInv
    <3>2. status' = "partial" => status = "partial" \/ results # {}
      BY <2>5, <3>1 DEF Finish
    <3> QED
      BY <2>5, <3>2, CountDropped DEF Finish
  <2>6. CASE LoseCheck(a)
    BY <2>6, CountDropped DEF LoseCheck
  <2> QED
    BY <1>3, <2>1, <2>2, <2>3, <2>4, <2>5, <2>6 DEF Check
<1>4. CASE SweepZombie
  BY <1>4, StillResults DEF SweepZombie
<1>5. ASSUME NEW h \in Hosts, Consume(h) \/ StoreLate(h) \/ LoseScan(h) \/ Redeliver(h)
     PROVE  ResultsInv'
  <2>1. CASE StoreResult(h)
    BY <2>1, StillResults DEF StoreResult
  <2>2. CASE CheckSignal(h) \/ CountCompletion(h)
    BY <2>2, StillResults DEF CheckSignal, CountCompletion
  <2>3. CASE StoreLate(h) \/ LoseScan(h) \/ Redeliver(h)
    BY <2>3, StillResults DEF StoreLate, LoseScan, Redeliver
  <2> QED
    BY <1>5, <2>1, <2>2, <2>3 DEF Consume
<1>6. CASE UNCHANGED vars
  BY <1>6, StillResults DEF vars
<1> QED
  BY <1>1, <1>2, <1>3, <1>4, <1>5, <1>6 DEF Next

\* A task that gave up with partial results has some: those the timer counted
\* before it marked the hosts and wrote the status are still there, whatever
\* the API and the other timers did between the three statements.
THEOREM PartialIsNotEmpty == Spec => []PartialHasResults
<1>1. Init => ResultsInv
  BY DEF Init, NoCopy, Copied, ResultsInv, PartialHasResults
<1>2. ResultsInv => PartialHasResults
  BY DEF ResultsInv
<1> QED
  BY <1>1, <1>2, ResultsStep, TypeCorrect, PTL DEF Spec
=============================================================================
