----------------------------- MODULE FarmProofs -----------------------------
(***************************************************************************)
(* Proofs about module Farm, for every number of tasks, workers and every  *)
(* value of the limits.                                                    *)
(***************************************************************************)
EXTENDS Farm, FiniteSetTheorems, TLAPS

USE QueueAssumption, FarmAssumption

-----------------------------------------------------------------------------
(* Type correctness *)

\* The live count that back-pressure compares is a number.
LEMMA LiveCountType == LiveCount \in Nat
<1>1. IsFiniteSet(TaskId)
  BY FS_Interval DEF TaskId
<1> QED
  BY <1>1, FS_Subset, FS_CardinalityType DEF LiveCount

\* Overwriting an entry, inside the domain or not, keeps a function's type.
LEMMA ExceptType ==
  ASSUME NEW S, NEW T, NEW f \in [S -> T], NEW x, NEW v \in T
  PROVE  [f EXCEPT ![x] = v] \in [S -> T]
  OBVIOUS

\* Every table update a worker makes keeps the columns in their types.
LEMMA RowUpdateTypes ==
  ASSUME QueueTypeOK, NEW t \in TaskId \cup {NoTask}
  PROVE  /\ \A w \in Workers : claim(t, w) => QueueTypeOK'
         /\ finish(t) => QueueTypeOK'
         /\ \A r \in Result : fail(t, r) => QueueTypeOK'
         /\ \A d \in Decision : mark_planner_decision(t, d) => QueueTypeOK'
         /\ t \in TaskId /\ retry[t] < MaxRetries /\ requeue_failed(t) => QueueTypeOK'
<1>1. \A w \in Workers : claim(t, w) => QueueTypeOK'
  BY ExceptType DEF QueueTypeOK, claim, Status, Active
<1>2. finish(t) => QueueTypeOK'
  BY ExceptType DEF QueueTypeOK, finish, Status, Finished, Result
<1>3. \A r \in Result : fail(t, r) => QueueTypeOK'
  BY ExceptType DEF QueueTypeOK, fail, Status, Finished
<1>4. \A d \in Decision : mark_planner_decision(t, d) => QueueTypeOK'
  BY ExceptType DEF QueueTypeOK, mark_planner_decision
<1>5. t \in TaskId /\ retry[t] < MaxRetries /\ requeue_failed(t) => QueueTypeOK'
  <2> SUFFICES ASSUME t \in TaskId, retry[t] < MaxRetries, requeue_failed(t) PROVE QueueTypeOK'
    OBVIOUS
  <2>1. retry' \in [TaskId -> 0..MaxRetries]
    BY DEF QueueTypeOK, requeue_failed
  <2> QED
    BY <2>1 DEF QueueTypeOK, requeue_failed, Status, Active
<1> QED
  BY <1>1, <1>2, <1>3, <1>4, <1>5

\* Inserting a row keeps the columns in their types.
LEMMA AddType ==
  ASSUME QueueTypeOK, NEW t \in TaskId, NEW r \in Role,
         NEW p \in TaskId \cup {NoTask}, NEW afp \in BOOLEAN, NEW eval \in BOOLEAN,
         add(t, r, p, afp, eval)
  PROVE  QueueTypeOK'
  BY DEF QueueTypeOK, add, Meta, Status, Active, Finished

\* So do the statements that update or delete a set of rows.
LEMMA BulkUpdateTypes ==
  ASSUME QueueTypeOK, NEW T
  PROVE  /\ RequeueRunning(T) => QueueTypeOK'
         /\ DeleteRows(T) => QueueTypeOK'
         /\ DropResults(T) => QueueTypeOK'
<1>1. RequeueRunning(T) => QueueTypeOK'
  BY DEF QueueTypeOK, RequeueRunning, Status, Active
<1>2. DeleteRows(T) => QueueTypeOK'
  <2>1. BlankMeta \in Meta
    BY DEF BlankMeta, Meta, Role, NoTask
  <2> SUFFICES ASSUME DeleteRows(T) PROVE QueueTypeOK'
    OBVIOUS
  <2>2. status' \in [TaskId -> Status] /\ worker' \in [TaskId -> Workers \cup {NoWorker}]
    BY DEF QueueTypeOK, DeleteRows, Status
  <2>3. aged' \in [TaskId -> BOOLEAN] /\ result' \in [TaskId -> Result]
    BY DEF QueueTypeOK, DeleteRows, Result
  <2>4. retry' \in [TaskId -> 0..MaxRetries] /\ decision' \in [TaskId -> Decision]
    BY DEF QueueTypeOK, DeleteRows, Decision
  <2>5. meta' \in [TaskId -> Meta]
    BY <2>1 DEF QueueTypeOK, DeleteRows
  <2> QED
    BY <2>2, <2>3, <2>4, <2>5 DEF QueueTypeOK
<1>3. DropResults(T) => QueueTypeOK'
  BY DEF QueueTypeOK, DropResults, Result
<1> QED
  BY <1>1, <1>2, <1>3

\* A step that only copies the columns keeps their types.
LEMMA QueueUnchangedType == QueueTypeOK /\ UNCHANGED queueVars => QueueTypeOK'
  BY DEF QueueTypeOK, queueVars

\* TypeOK is preserved by every step of a worker.
LEMMA WorkerType ==
  ASSUME TypeOK, NEW w \in Workers, WorkerStep(w) \/ WorkerCrash(w)
  PROVE  TypeOK'
<1> USE DEF TypeOK, masterUnchanged, planVars, workerVars
<1>1. CASE RecoverSelect(w)
  <2>1. StaleRows \subseteq TaskId \X Workers
    BY DEF StaleRows
  <2> QED
    BY <1>1, <2>1, QueueUnchangedType DEF RecoverSelect, WorkerPC
<1>2. CASE RequeueStale(w)
  <2>1. QueueTypeOK'
    BY <1>2, BulkUpdateTypes DEF RequeueStale
  <2> QED
    BY <1>2, <2>1 DEF RequeueStale, WorkerPC
<1>3. CASE RecoverLeak(w)
  BY <1>3, QueueUnchangedType DEF RecoverLeak, WorkerPC
<1>4. CASE Claim(w)
  <2>1. PICK t \in TaskId : claim(t, w) /\ task' = [task EXCEPT ![w] = t]
    BY <1>4 DEF Claim
  <2>2. QueueTypeOK'
    BY <2>1, RowUpdateTypes
  <2>3. ran' \in [TaskId -> SUBSET Mortal]
    BY <1>4 DEF Claim
  <2> QED
    BY <1>4, <2>1, <2>2, <2>3 DEF Claim, WorkerPC
<1>5. CASE ClaimNothing(w)
  BY <1>5, QueueUnchangedType DEF ClaimNothing, WorkerPC
<1>6. CASE CaseGateBlocked(w)
  <2>1. QueueTypeOK'
    BY <1>6, RowUpdateTypes, QueueUnchangedType DEF CaseGateBlocked, Result
  <2> QED
    BY <1>6, <2>1 DEF CaseGateBlocked, WorkerPC
<1>7. CASE LoadParent(w)
  BY <1>7, QueueUnchangedType DEF LoadParent, WorkerPC
<1>8. CASE AskEvidence(w)
  <2>1. QueueTypeOK'
    BY <1>8, AddType DEF AskEvidence, Role
  <2> QED
    BY <1>8, <2>1 DEF AskEvidence, WorkerPC
<1>9. CASE Handoff(w)
  <2>1. QueueTypeOK'
    BY <1>9, AddType DEF Handoff, Role
  <2> QED
    BY <1>9, <2>1 DEF Handoff, WorkerPC
<1>10. CASE Finish(w)
  <2>1. QueueTypeOK'
    BY <1>10, RowUpdateTypes, QueueUnchangedType DEF Finish
  <2> QED
    BY <1>10, <2>1 DEF Finish, WorkerPC
<1>11. CASE Fail(w)
  <2>1. FailRecords(w) \subseteq Result
    BY DEF FailRecords, Result
  <2>2. QueueTypeOK'
    BY <1>11, <2>1, RowUpdateTypes, QueueUnchangedType DEF Fail
  <2> QED
    BY <1>11, <2>2 DEF Fail, WorkerPC
<1>12. CASE WorkerCrash(w)
  BY <1>12, QueueUnchangedType DEF WorkerCrash, WorkerPC
<1>13. CASE HandoffBreaks(w)
  BY <1>13, QueueUnchangedType DEF HandoffBreaks, WorkerPC
<1> QED
  BY <1>1, <1>2, <1>3, <1>4, <1>5, <1>6, <1>7, <1>8, <1>9, <1>10, <1>11, <1>12, <1>13
  DEF WorkerStep, CalmStep, RecoverUpdate, RecoverSteal

\* TypeOK is preserved by every step of the master and of the environment.
LEMMA MasterType ==
  ASSUME TypeOK, MasterStep \/ MasterCrash \/ Submit \/ \E t \in TaskId : Age(t)
  PROVE  TypeOK'
<1> USE DEF TypeOK, workersUnchanged, workerVars
<1>1. CASE Repair
  <2>1. QueueTypeOK'
    BY <1>1, BulkUpdateTypes DEF Repair, repair_active_orphans
  <2> QED
    BY <1>1, <2>1 DEF Repair, MasterPC, planVars
<1>2. CASE Bootstrap
  <2>1. QueueTypeOK'
    BY <1>2, AddType, QueueUnchangedType DEF Bootstrap, Role
  <2> QED
    BY <1>2, <2>1 DEF Bootstrap, MasterPC, planVars
<1>3. CASE CompactResults
  <2>1. QueueTypeOK'
    BY <1>3, BulkUpdateTypes DEF CompactResults
  <2> QED
    BY <1>3, <2>1 DEF CompactResults, MasterPC, planVars
<1>4. CASE HistorySelect
  <2>1. cand' \subseteq TaskId
    BY <1>4 DEF HistorySelect, FinishedRows
  <2> QED
    BY <1>4, <2>1, QueueUnchangedType DEF HistorySelect, MasterPC
<1>18. CASE HistoryKeep
  <2>1. kept' \subseteq TaskId
    BY <1>18 DEF HistoryKeep, FinishedRows
  <2> QED
    BY <1>18, <2>1, QueueUnchangedType DEF HistoryKeep, MasterPC
<1>5. CASE HistoryProtect
  <2>1. prot' \subseteq TaskId
    BY <1>5 DEF HistoryProtect, Protected
  <2> QED
    BY <1>5, <2>1, QueueUnchangedType DEF HistoryProtect, MasterPC
<1>6. CASE HistoryDelete
  <2>1. QueueTypeOK'
    BY <1>6, BulkUpdateTypes DEF HistoryDelete
  <2> QED
    BY <1>6, <2>1 DEF HistoryDelete, MasterPC
<1>7. CASE Load
  <2>1. plan' \subseteq TaskId
    BY <1>7 DEF Load, planning_tasks
  <2> QED
    BY <1>7, <2>1, QueueUnchangedType DEF Load, MasterPC
<1>8. CASE RequeueFailed
  <2>1. QueueTypeOK'
    BY <1>8, RowUpdateTypes DEF RequeueFailed, RequeueReady
  <2> QED
    BY <1>8, <2>1 DEF RequeueFailed, MasterPC
<1>9. CASE Guard
  <2>1. plan' \subseteq TaskId
    BY <1>9 DEF Guard, Planned, planning_tasks
  <2>2. budget' \in Nat
    BY <1>9, LiveCountType DEF Guard
  <2> QED
    BY <1>9, <2>1, <2>2, QueueUnchangedType DEF Guard, MasterPC
<1>10. CASE Decide
  <2>1. QueueTypeOK' /\ plan' \subseteq TaskId
    BY <1>10, RowUpdateTypes DEF Decide, Decision
  <2> QED
    BY <1>10, <2>1 DEF Decide, MasterPC
<1>11. CASE PlanDone
  BY <1>11, QueueUnchangedType DEF PlanDone, MasterPC
<1>12. CASE Spawn
  <2>1. QueueTypeOK'
    BY <1>12, AddType DEF Spawn, Role
  <2> QED
    BY <1>12, <2>1 DEF Spawn, MasterPC
<1>13. CASE Shadow
  <2>1. QueueTypeOK'
    BY <1>13, AddType, QueueUnchangedType DEF Shadow, Role
  <2> QED
    BY <1>13, <2>1 DEF Shadow, MasterPC, planVars
<1>14. CASE SpawnDone
  BY <1>14, QueueUnchangedType DEF SpawnDone, MasterPC
<1>15. CASE MasterCrash
  BY <1>15, QueueUnchangedType DEF MasterCrash, MasterPC
<1>16. CASE Submit
  <2>1. QueueTypeOK'
    BY <1>16, AddType DEF Submit, Role
  <2> QED
    BY <1>16, <2>1 DEF Submit, planVars
<1>17. CASE \E t \in TaskId : Age(t)
  <2>1. QueueTypeOK'
    BY <1>17 DEF Age, QueueTypeOK
  <2> QED
    BY <1>17, <2>1 DEF Age, planVars
<1> QED
  BY <1>1, <1>2, <1>3, <1>4, <1>5, <1>6, <1>7, <1>8, <1>9, <1>10, <1>11, <1>12,
     <1>13, <1>14, <1>15, <1>16, <1>17, <1>18 DEF MasterStep

\* The initial database and processes are in their types.
LEMMA InitType == Init => TypeOK
<1> SUFFICES ASSUME Init PROVE TypeOK
  OBVIOUS
<1>1. meta \in [TaskId -> Meta]
  BY DEF Init, Meta, Role, NoTask, TaskId
<1>2. status \in [TaskId -> Status]
  BY DEF Init, Status, Active
<1> QED
  BY <1>1, <1>2 DEF Init, TypeOK, QueueTypeOK, Result, Decision, WorkerPC, MasterPC

\* TypeOK is inductive as it stands.
LEMMA NextType == TypeOK /\ [Next]_vars => TypeOK'
<1> SUFFICES ASSUME TypeOK, [Next]_vars PROVE TypeOK'
  OBVIOUS
<1>1. CASE Next
  BY <1>1, WorkerType, MasterType DEF Next, Others
<1>2. CASE UNCHANGED vars
  BY <1>2, QueueUnchangedType DEF TypeOK, vars, workerVars, planVars
<1> QED
  BY <1>1, <1>2

\* Type correctness of the farm: in every behaviour, stolen rows included, the
\* queue's columns and the processes' locals stay in their types; in
\* particular retry_count never exceeds MAX_RETRIES_PER_TASK.
THEOREM TypeCorrect == Spec => []TypeOK
  BY InitType, NextType, PTL DEF Spec

-----------------------------------------------------------------------------
(* The parent links, and the owners, while no row is stolen *)

\* The part of IInv that speaks of the table and of the master's locals.
DagInv == LegacyShape /\ ParentsPresent /\ CandFinished /\ DeleteSafe /\ CurCompleted

masterLocals == <<mpc, cand, prot, cur>>

\* Moving rows other than the legacy orphan among the active statuses, or from
\* an active to a finished one, harms no link.
LEMMA MoveKeepsDag ==
  ASSUME TypeOK, DagInv, meta' = meta, UNCHANGED masterLocals,
         \A t \in TaskId : \/ status'[t] = status[t]
                           \/ /\ status[t] \in Active
                              /\ status'[t] \in Active \cup Finished
                              /\ t \notin LegacyRows
  PROVE  DagInv'
<1> USE DEF DagInv, masterLocals, TypeOK
<1>1. \A t \in TaskId : Present(t)' = Present(t)
  BY DEF Present, Active, Finished
<1>2. \A t \in TaskId : Parent(t)' = Parent(t)
  BY DEF Parent
<1>3. LegacyShape'
  <2>1. LegacyOrphan => 1 \in TaskId /\ 2 \in TaskId
    BY DEF TaskId
  <2>2. LegacyOrphan => status'[1] = status[1] /\ status'[2] = status[2]
    BY <2>1 DEF LegacyShape, LegacyRows, Active
  <2> QED
    BY <1>1, <1>2, <2>1, <2>2 DEF LegacyShape
<1>4. ParentsPresent'
  BY <1>1, <1>2 DEF ParentsPresent
<1>5. CandFinished'
  BY DEF CandFinished, Active, Finished
<1>6. DeleteSafe'
  BY <1>1, <1>2 DEF DeleteSafe
<1>7. CurCompleted'
  BY DEF CurCompleted, Active
<1> QED
  BY <1>3, <1>4, <1>5, <1>6, <1>7

\* Inserting a row under a parent that is there, and that compaction is not
\* about to delete, harms no link.
LEMMA AddKeepsDag ==
  ASSUME TypeOK, DagInv, NEW c \in TaskId, Fresh(c),
         NEW r, NEW p \in TaskId \cup {NoTask}, NEW afp, NEW eval,
         add(c, r, p, afp, eval),
         p # NoTask => /\ Present(p) /\ (LegacyOrphan => p # 2)
                       /\ mpc \in {"protect", "delete"} => status[p] \notin Finished
  PROVE  /\ LegacyShape' /\ ParentsPresent'
         /\ UNCHANGED masterLocals => DagInv'
<1> USE DEF DagInv, TypeOK
<1>1. ~Present(c) /\ c \notin LegacyRows /\ (LegacyOrphan => c # 1 /\ c # 2)
  BY DEF Fresh, Present, Active, Finished, LegacyRows, LegacyShape
<1>2. \A t \in TaskId \ {c} : Present(t)' = Present(t) /\ Parent(t)' = Parent(t)
  BY DEF add, Present, Parent, QueueTypeOK
<1>3. Present(c)' /\ Parent(c)' = p /\ status'[c] = "pending"
  BY DEF add, Present, Parent, QueueTypeOK, Active
<1>4. LegacyShape'
  <2>1. LegacyOrphan => 1 \in TaskId /\ 2 \in TaskId
    BY DEF TaskId
  <2>2. LegacyOrphan => /\ status'[1] = status[1] /\ status'[2] = status[2]
                        /\ meta'[2] = meta[2]
    BY <1>1, <2>1 DEF add, QueueTypeOK
  <2>3. LegacyOrphan => p # 2
    BY DEF NoTask
  <2> QED
    BY <1>2, <1>3, <2>1, <2>2, <2>3 DEF LegacyShape, Parent
<1>5. ParentsPresent'
  BY <1>1, <1>2, <1>3 DEF ParentsPresent
<1>6. ASSUME UNCHANGED masterLocals PROVE CandFinished' /\ DeleteSafe' /\ CurCompleted'
  <2> USE <1>6 DEF masterLocals
  <2>1. CandFinished'
    BY <1>1 DEF CandFinished, add, QueueTypeOK, Present
  <2>2. DeleteSafe'
    BY <1>2, <1>3, <1>1 DEF DeleteSafe, CandFinished, NoTask, TaskId
  <2>3. CurCompleted'
    BY <1>1 DEF CurCompleted, add, QueueTypeOK, Present, Finished
  <2> QED
    BY <2>1, <2>2, <2>3
<1> QED
  BY <1>4, <1>5, <1>6

\* The legacy orphan is never claimable.
LEMMA LegacyNotClaimable ==
  ASSUME TypeOK, LegacyShape, NEW t \in TaskId, Claimable(t)
  PROVE  t \notin LegacyRows
<1> SUFFICES ASSUME t \in LegacyRows PROVE FALSE
  OBVIOUS
<1>1. LegacyOrphan /\ t = 2 /\ 1 \in TaskId
  BY DEF LegacyRows, TaskId
<1>2. status[1] = "deleted" /\ Parent(2) = 1 /\ ~meta[2].afp
  BY <1>1 DEF LegacyShape, Claimable
<1> QED
  BY <1>1, <1>2 DEF Claimable, ParentReady, NoTask

\* The row a worker is processing is its own, running, and not the orphan.
LEMMA HolderFacts ==
  ASSUME TypeOK, OwnerHolds, LegacyShape, NEW w \in Workers, pc[w] \in Holding
  PROVE  /\ task[w] \in TaskId /\ task[w] \notin LegacyRows /\ task[w] # NoTask
         /\ status[task[w]] = "running" /\ worker[task[w]] = w
         /\ Present(task[w]) /\ status[task[w]] \notin Finished
         /\ LegacyOrphan => task[w] # 2
<1>1. /\ task[w] \in TaskId /\ status[task[w]] = "running" /\ worker[task[w]] = w
  BY DEF OwnerHolds
<1>2. LegacyOrphan => task[w] # 2
  BY <1>1 DEF LegacyShape
<1> QED
  BY <1>1, <1>2 DEF LegacyRows, Present, Active, Finished, NoTask, TaskId

\* IInv is preserved by every step of a worker that steals no row.
LEMMA WorkerInv ==
  ASSUME IInv, NEW w \in Workers, CalmStep(w) \/ RecoverLeak(w) \/ WorkerCrash(w)
  PROVE  OwnerHolds' /\ DagInv'
<1>0. TypeOK /\ QueueTypeOK /\ OwnerHolds /\ DagInv /\ LegacyShape
  BY DEF IInv, DagInv, TypeOK
<1>a. TypeOK'
  BY WorkerType, <1>0 DEF WorkerStep
<1>t. task \in [Workers -> TaskId \cup {NoTask}] /\ pc \in [Workers -> WorkerPC]
  BY <1>0 DEF TypeOK
<1>q. /\ status \in [TaskId -> Status] /\ worker \in [TaskId -> Workers \cup {NoWorker}]
      /\ result \in [TaskId -> Result]
  BY <1>0 DEF QueueTypeOK
<1>u. ASSUME UNCHANGED queueVars, UNCHANGED masterLocals PROVE DagInv'
  <2>1. status' = status /\ meta' = meta
    BY <1>u DEF queueVars
  <2> QED
    BY <1>0, <1>u, <2>1, MoveKeepsDag
<1>l. UNCHANGED masterLocals
  BY DEF CalmStep, RecoverSelect, RecoverUpdate, RequeueStale, RecoverLeak, Claim, ClaimNothing,
         CaseGateBlocked, LoadParent, AskEvidence, Handoff, Finish, HandoffBreaks, Fail,
         WorkerCrash,
         masterUnchanged, masterLocals, planVars
<1>1. CASE RecoverSelect(w)
  <2>1. OwnerHolds'
    BY <1>0, <1>1, <1>t DEF OwnerHolds, Holding, RecoverSelect, queueVars
  <2> QED
    BY <1>1, <1>u, <1>l, <2>1 DEF RecoverSelect
<1>2. CASE RecoverUpdate(w)
  <2>1. \A t \in TaskId : \/ status'[t] = status[t] /\ worker'[t] = worker[t]
                          \/ /\ status[t] = "running" /\ status'[t] = "pending"
                             /\ ~Alive(worker[t])
    BY <1>2 DEF RecoverUpdate, RequeueStale, RequeueRunning, Stale, Stolen
  <2>2. OwnerHolds'
    <3> SUFFICES ASSUME NEW v \in Workers, pc'[v] \in Holding
                 PROVE  /\ task'[v] \in TaskId
                        /\ status'[task'[v]] = "running" /\ worker'[task'[v]] = v
      BY DEF OwnerHolds
    <3>1. v # w /\ pc[v] \in Holding /\ task'[v] = task[v]
      BY <1>2, <1>t DEF RecoverUpdate, RequeueStale, Holding
    <3>2. task[v] \in TaskId /\ status[task[v]] = "running" /\ worker[task[v]] = v
      BY <1>0, <3>1 DEF OwnerHolds
    <3>3. Alive(v)
      BY <3>1 DEF Alive, Holding
    <3> QED
      BY <2>1, <3>1, <3>2, <3>3
  <2>3. DagInv'
    <3>1. \A t \in LegacyRows : status[t] # "running"
      BY <1>0 DEF LegacyRows, LegacyShape
    <3>2. meta' = meta
      BY <1>2 DEF RecoverUpdate, RequeueStale, RequeueRunning
    <3>3. \A t \in TaskId : \/ status'[t] = status[t]
                            \/ /\ status[t] \in Active
                               /\ status'[t] \in Active \cup Finished
                               /\ t \notin LegacyRows
      BY <2>1, <3>1 DEF Active
    <3> QED
      BY <1>0, <1>l, <3>2, <3>3, MoveKeepsDag
  <2> QED
    BY <2>2, <2>3
<1>3. CASE RecoverLeak(w)
  <2>1. OwnerHolds'
    BY <1>0, <1>3, <1>t DEF OwnerHolds, Holding, RecoverLeak, queueVars
  <2> QED
    BY <1>3, <1>u, <1>l, <2>1 DEF RecoverLeak
<1>4. CASE Claim(w)
  <2>1. PICK t \in TaskId : /\ FirstClaimable(t, RoleOf[w]) /\ claim(t, w)
                            /\ task' = [task EXCEPT ![w] = t]
    BY <1>4 DEF Claim
  <2>2. status[t] = "pending" /\ t \notin LegacyRows
    BY <1>0, <2>1, LegacyNotClaimable DEF FirstClaimable, Claimable
  <2>3. /\ status' = [status EXCEPT ![t] = "running"]
        /\ worker' = [worker EXCEPT ![t] = w] /\ meta' = meta
    BY <2>1 DEF claim
  <2>4. OwnerHolds'
    <3> SUFFICES ASSUME NEW v \in Workers, pc'[v] \in Holding
                 PROVE  /\ task'[v] \in TaskId
                        /\ status'[task'[v]] = "running" /\ worker'[task'[v]] = v
      BY DEF OwnerHolds
    <3>1. CASE v = w
      BY <2>1, <2>3, <3>1, <1>t, <1>q
    <3>2. CASE v # w
      <4>1. pc[v] \in Holding /\ task'[v] = task[v]
        BY <1>4, <2>1, <3>2, <1>t DEF Claim
      <4>2. task[v] \in TaskId /\ status[task[v]] = "running" /\ worker[task[v]] = v
        BY <1>0, <4>1 DEF OwnerHolds
      <4> QED
        BY <2>2, <2>3, <4>1, <4>2, <1>q
    <3> QED
      BY <3>1, <3>2
  <2>5. \A u \in TaskId : \/ status'[u] = status[u]
                          \/ /\ status[u] \in Active
                             /\ status'[u] \in Active \cup Finished
                             /\ u \notin LegacyRows
    BY <2>2, <2>3, <1>q DEF Active
  <2> QED
    BY <1>0, <1>l, <2>3, <2>4, <2>5, MoveKeepsDag
<1>5. CASE ClaimNothing(w)
  <2>1. OwnerHolds'
    BY <1>0, <1>5, <1>t DEF OwnerHolds, Holding, ClaimNothing, queueVars
  <2> QED
    BY <1>5, <1>u, <1>l, <2>1 DEF ClaimNothing
\* finish and fail: the row goes from running to finished, its holder lets go.
<1>f. ASSUME pc[w] \in Holding, meta' = meta, worker' = worker,
             NEW s \in Finished, status' = [status EXCEPT ![task[w]] = s],
             pc' = [pc EXCEPT ![w] = "idle"], task' = [task EXCEPT ![w] = NoTask]
      PROVE  OwnerHolds' /\ DagInv'
  <2>1. /\ task[w] \in TaskId /\ task[w] \notin LegacyRows
        /\ status[task[w]] = "running" /\ worker[task[w]] = w
    BY <1>0, <1>f, HolderFacts
  <2>2. OwnerHolds'
    <3> SUFFICES ASSUME NEW v \in Workers, pc'[v] \in Holding
                 PROVE  /\ task'[v] \in TaskId
                        /\ status'[task'[v]] = "running" /\ worker'[task'[v]] = v
      BY DEF OwnerHolds
    <3>1. v # w /\ pc[v] \in Holding /\ task'[v] = task[v]
      BY <1>f, <1>t DEF Holding
    <3>2. task[v] \in TaskId /\ status[task[v]] = "running" /\ worker[task[v]] = v
      BY <1>0, <3>1 DEF OwnerHolds
    <3>3. task[v] # task[w]
      BY <2>1, <3>1, <3>2
    <3> QED
      BY <1>f, <1>q, <3>1, <3>2, <3>3
  <2>3. \A u \in TaskId : \/ status'[u] = status[u]
                          \/ /\ status[u] \in Active
                             /\ status'[u] \in Active \cup Finished
                             /\ u \notin LegacyRows
    BY <1>f, <1>q, <2>1 DEF Active
  <2> QED
    BY <1>0, <1>l, <1>f, <2>2, <2>3, MoveKeepsDag
<1>6. CASE CaseGateBlocked(w)
  <2>1. pc[w] \in Holding /\ Accepts(task[w])
    BY <1>0, <1>6, HolderFacts DEF CaseGateBlocked, Holding, Accepts
  <2> QED
    BY <1>6, <1>f, <2>1 DEF CaseGateBlocked, fail, Finished
<1>7. CASE LoadParent(w)
  <2>1. OwnerHolds'
    BY <1>0, <1>7, <1>t DEF OwnerHolds, Holding, LoadParent, queueVars
  <2> QED
    BY <1>7, <1>u, <1>l, <2>1 DEF LoadParent
\* The two handoffs: a child of the row the worker is processing.
<1>c. ASSUME pc[w] \in Holding, NEW c \in TaskId, Fresh(c), NEW r, NEW afp,
             add(c, r, task[w], afp, FALSE), task' = task,
             NEW l \in Holding, pc' = [pc EXCEPT ![w] = l]
      PROVE  OwnerHolds' /\ DagInv'
  <2>1. /\ task[w] \in TaskId /\ Present(task[w]) /\ status[task[w]] \notin Finished
        /\ LegacyOrphan => task[w] # 2
    BY <1>0, <1>c, HolderFacts
  <2>2. DagInv'
    BY <1>0, <1>c, <1>l, <2>1, AddKeepsDag
  <2>3. OwnerHolds'
    <3> SUFFICES ASSUME NEW v \in Workers, pc'[v] \in Holding
                 PROVE  /\ task'[v] \in TaskId
                        /\ status'[task'[v]] = "running" /\ worker'[task'[v]] = v
      BY DEF OwnerHolds
    <3>1. pc[v] \in Holding
      BY <1>c, <1>t
    <3>2. task[v] \in TaskId /\ status[task[v]] = "running" /\ worker[task[v]] = v
      BY <1>0, <3>1 DEF OwnerHolds
    <3>3. c # task[v]
      BY <1>c, <3>2 DEF Fresh
    <3> QED
      BY <1>c, <1>q, <3>2, <3>3 DEF add
  <2> QED
    BY <2>2, <2>3
<1>8. CASE AskEvidence(w)
  <2>1. PICK c \in TaskId : Fresh(c) /\ add(c, "validator", task[w], TRUE, FALSE)
    BY <1>8 DEF AskEvidence
  <2>2. /\ pc[w] \in Holding /\ "asked" \in Holding
        /\ pc' = [pc EXCEPT ![w] = "asked"] /\ task' = task
    BY <1>8 DEF AskEvidence, Holding
  <2> QED
    BY <1>c, <2>1, <2>2
<1>9. CASE Handoff(w)
  <2>1. PICK c \in TaskId : Fresh(c) /\ add(c, "executor", task[w], FALSE, FALSE)
    BY <1>9 DEF Handoff
  <2>2. /\ pc[w] \in Holding /\ "handing" \in Holding
        /\ pc' = [pc EXCEPT ![w] = "handing"] /\ task' = task
    BY <1>9 DEF Handoff, Holding
  <2> QED
    BY <1>c, <2>1, <2>2
<1>10. CASE Finish(w)
  <2>1. pc[w] \in Holding /\ Accepts(task[w])
    BY <1>0, <1>10, HolderFacts DEF Finish, Holding, Accepts
  <2> QED
    BY <1>10, <1>f, <2>1 DEF Finish, finish, Finished
<1>11. CASE Fail(w)
  <2>1. pc[w] \in Holding /\ Accepts(task[w])
    BY <1>0, <1>11, HolderFacts DEF Fail, Holding, Accepts
  <2> QED
    BY <1>11, <1>f, <2>1 DEF Fail, fail, Finished
<1>12. CASE WorkerCrash(w)
  <2>1. OwnerHolds'
    BY <1>0, <1>12, <1>t DEF OwnerHolds, Holding, WorkerCrash, queueVars
  <2> QED
    BY <1>12, <1>u, <1>l, <2>1 DEF WorkerCrash
<1>13. CASE HandoffBreaks(w)
  <2>1. OwnerHolds'
    BY <1>0, <1>13, <1>t DEF OwnerHolds, Holding, HandoffBreaks, queueVars
  <2> QED
    BY <1>13, <1>u, <1>l, <2>1 DEF HandoffBreaks
<1> QED
  BY <1>1, <1>2, <1>3, <1>4, <1>5, <1>6, <1>7, <1>8, <1>9, <1>10, <1>11, <1>12, <1>13
  DEF CalmStep

\* orphan repair removes the legacy orphan and nothing else.
LEMMA DoomedIsLegacy ==
  ASSUME TypeOK, LegacyShape, ParentsPresent
  PROVE  Doomed \subseteq LegacyRows
<1>1. LegacyRows \in SUBSET TaskId
  BY DEF LegacyRows
<1>2. DoomedClosed(LegacyRows)
  <2> SUFFICES ASSUME NEW t \in TaskId, status[t] = "pending",
                      t \in active_orphans \/ Parent(t) \in LegacyRows
               PROVE  t \in LegacyRows
    BY DEF DoomedClosed
  <2>1. Present(t)
    BY DEF Present, Active
  <2>2. CASE t \in active_orphans
    BY <2>1, <2>2 DEF active_orphans, ParentsPresent
  <2>3. CASE Parent(t) \in LegacyRows
    BY <2>1, <2>3 DEF LegacyShape, LegacyRows
  <2> QED
    BY <2>2, <2>3
<1> QED
  BY <1>1, <1>2 DEF Doomed

\* Deleting finished rows, or the orphan, takes no row from its holder.
LEMMA DeleteKeepsOwners ==
  ASSUME TypeOK, OwnerHolds, NEW T, DeleteRows(T), UNCHANGED workerVars,
         \A t \in T : t \in TaskId => status[t] # "running"
  PROVE  OwnerHolds'
<1> SUFFICES ASSUME NEW w \in Workers, pc'[w] \in Holding
             PROVE  /\ task'[w] \in TaskId
                    /\ status'[task'[w]] = "running" /\ worker'[task'[w]] = w
  BY DEF OwnerHolds
<1>1. pc[w] \in Holding /\ task'[w] = task[w]
  BY DEF workerVars
<1>2. task[w] \in TaskId /\ status[task[w]] = "running" /\ worker[task[w]] = w
  BY <1>1 DEF OwnerHolds
<1> QED
  BY <1>1, <1>2 DEF DeleteRows

\* IInv is preserved by every step of the master and of the environment.
LEMMA MasterInv ==
  ASSUME IInv, MasterStep \/ MasterCrash \/ Submit \/ \E t \in TaskId : Age(t)
  PROVE  OwnerHolds' /\ DagInv'
<1>0. /\ TypeOK /\ QueueTypeOK /\ OwnerHolds /\ DagInv
      /\ LegacyShape /\ ParentsPresent /\ CandFinished /\ DeleteSafe /\ CurCompleted
  BY DEF IInv, DagInv, TypeOK
<1>a. TypeOK'
  BY MasterType, <1>0
<1>q. /\ status \in [TaskId -> Status] /\ worker \in [TaskId -> Workers \cup {NoWorker}]
      /\ meta \in [TaskId -> Meta]
  BY <1>0 DEF QueueTypeOK
\* A step that leaves status, worker and the workers alone keeps the owners,
\* and one that leaves status and meta alone keeps the parent links.
<1>o. ASSUME UNCHANGED workerVars, status' = status, worker' = worker PROVE OwnerHolds'
  BY <1>0, <1>o DEF OwnerHolds, workerVars
<1>p. ASSUME status' = status, meta' = meta PROVE LegacyShape' /\ ParentsPresent'
  BY <1>0, <1>p DEF LegacyShape, ParentsPresent, Present, Parent
<1>d. ASSUME LegacyShape', ParentsPresent', mpc' \notin {"protect", "delete", "spawn", "shadow"}
      PROVE  DagInv'
  BY <1>d DEF DagInv, CandFinished, DeleteSafe, CurCompleted
\* An inserted row is nobody's yet.
<1>i. ASSUME UNCHANGED workerVars, NEW c \in TaskId, Fresh(c), NEW r, NEW p,
             NEW afp, NEW eval, add(c, r, p, afp, eval)
      PROVE  OwnerHolds'
  <2> SUFFICES ASSUME NEW v \in Workers, pc'[v] \in Holding
               PROVE  /\ task'[v] \in TaskId
                      /\ status'[task'[v]] = "running" /\ worker'[task'[v]] = v
    BY DEF OwnerHolds
  <2>1. pc[v] \in Holding /\ task'[v] = task[v]
    BY <1>i DEF workerVars
  <2>2. task[v] \in TaskId /\ status[task[v]] = "running" /\ worker[task[v]] = v
    BY <1>0, <2>1 DEF OwnerHolds
  <2>3. c # task[v]
    BY <1>i, <2>2 DEF Fresh
  <2> QED
    BY <1>i, <1>q, <2>1, <2>2, <2>3 DEF add
<1>1. CASE Repair
  <2>1. DeleteRows(Doomed) /\ UNCHANGED workerVars /\ mpc' = "bootstrap"
    BY <1>1 DEF Repair, repair_active_orphans, workersUnchanged
  <2>2. \A t \in Doomed : t \in LegacyRows
    BY <1>0, DoomedIsLegacy
  <2>3. \A t \in Doomed : t \in TaskId => status[t] # "running"
    BY <1>0, <2>2 DEF LegacyRows, LegacyShape
  <2>4. OwnerHolds'
    BY <1>0, <2>1, <2>3, DeleteKeepsOwners
  <2>5. \A t \in TaskId \ Doomed : status'[t] = status[t] /\ meta'[t] = meta[t]
    BY <2>1 DEF DeleteRows
  <2>6. \A t \in Doomed \cap TaskId : status'[t] = "deleted"
    BY <2>1 DEF DeleteRows
  <2>7. LegacyShape'
    <3> SUFFICES ASSUME LegacyOrphan
                 PROVE  /\ status'[1] = "deleted"
                        /\ \/ status'[2] = "deleted"
                           \/ status'[2] = "pending" /\ Parent(2)' = 1 /\ ~meta'[2].afp
                        /\ \A t \in TaskId : Present(t)' => Parent(t)' # 2
      BY DEF LegacyShape
    <3>1. 1 \in TaskId /\ 2 \in TaskId /\ 1 \notin Doomed
      BY <2>2 DEF TaskId, LegacyRows
    <3>2. \A t \in TaskId : Present(t)' => Present(t) /\ Parent(t)' = Parent(t)
      BY <2>5, <2>6 DEF Present, Parent, Active, Finished
    <3> QED
      BY <1>0, <2>5, <2>6, <3>1, <3>2 DEF LegacyShape, Parent
  <2>8. ParentsPresent'
    <3> SUFFICES ASSUME NEW t \in TaskId \ LegacyRows, Present(t)', Parent(t)' # NoTask
                 PROVE  Parent(t)' \in TaskId /\ Present(Parent(t))'
      BY DEF ParentsPresent
    <3>1. t \notin Doomed /\ Present(t) /\ Parent(t)' = Parent(t)
      BY <2>2, <2>5 DEF Present, Parent
    <3>2. Parent(t) \in TaskId /\ Present(Parent(t))
      BY <1>0, <3>1 DEF ParentsPresent
    <3>3. Parent(t) \notin Doomed
      BY <1>0, <2>2, <3>1, <3>2 DEF LegacyRows, LegacyShape
    <3> QED
      BY <2>5, <3>1, <3>2, <3>3 DEF Present
  <2> QED
    BY <1>d, <2>1, <2>4, <2>7, <2>8
<1>2. CASE Bootstrap
  <2>0. UNCHANGED workerVars /\ mpc' = "compact"
    BY <1>2 DEF Bootstrap, workersUnchanged
  <2>1. CASE UNCHANGED queueVars
    BY <2>0, <2>1, <1>o, <1>p, <1>d DEF queueVars
  <2>2. CASE \E t \in TaskId : Fresh(t) /\ add(t, "agent", NoTask, FALSE, FALSE)
    <3>1. PICK t \in TaskId : Fresh(t) /\ add(t, "agent", NoTask, FALSE, FALSE)
      BY <2>2
    <3>2. OwnerHolds'
      BY <1>i, <2>0, <3>1
    <3>3. LegacyShape' /\ ParentsPresent'
      BY <1>0, <3>1, AddKeepsDag
    <3> QED
      BY <1>d, <2>0, <3>2, <3>3
  <2> QED
    BY <1>2, <2>1, <2>2 DEF Bootstrap
<1>3. CASE CompactResults
  <2>1. /\ status' = status /\ worker' = worker /\ meta' = meta
        /\ UNCHANGED workerVars /\ mpc' = "keep"
    BY <1>3 DEF CompactResults, DropResults, workersUnchanged
  <2> QED
    BY <2>1, <1>o, <1>p, <1>d
<1>14. CASE HistoryKeep
  <2>1. /\ status' = status /\ worker' = worker /\ meta' = meta
        /\ UNCHANGED workerVars /\ mpc' \in {"load", "select"}
    BY <1>14 DEF HistoryKeep, queueVars, workersUnchanged
  <2> QED
    BY <2>1, <1>o, <1>p, <1>d
<1>4. CASE HistorySelect
  <2>1. /\ status' = status /\ worker' = worker /\ meta' = meta
        /\ UNCHANGED workerVars /\ mpc' \in {"load", "protect"}
        /\ cand' \subseteq FinishedRows
    BY <1>4 DEF HistorySelect, queueVars, workersUnchanged
  <2>2. CandFinished'
    BY <2>1 DEF CandFinished, FinishedRows
  <2> QED
    BY <2>1, <2>2, <1>o, <1>p DEF DagInv, DeleteSafe, CurCompleted
<1>5. CASE HistoryProtect
  <2>1. /\ status' = status /\ worker' = worker /\ meta' = meta /\ cand' = cand
        /\ UNCHANGED workerVars /\ mpc = "protect" /\ mpc' = "delete"
        /\ prot' = Protected(cand)
    BY <1>5 DEF HistoryProtect, queueVars, workersUnchanged
  <2>2. CandFinished'
    BY <1>0, <2>1 DEF CandFinished
  <2>3. DeleteSafe'
    <3> SUFFICES ASSUME NEW t \in TaskId, Present(t), Parent(t) \in cand \ Protected(cand)
                 PROVE  t \in cand \ Protected(cand)
      BY <2>1 DEF DeleteSafe, Present, Parent
    <3>1. Parent(t) \in TaskId
      BY <1>0 DEF TypeOK
    <3>2. PICK S \in SUBSET TaskId : ProtectedClosed(cand, S) /\ Parent(t) \notin S
      BY <3>1 DEF Protected
    <3>3. t \in cand /\ t \notin S
      BY <3>1, <3>2 DEF ProtectedClosed
    <3> QED
      BY <3>2, <3>3 DEF Protected
  <2> QED
    BY <2>1, <2>2, <2>3, <1>o, <1>p DEF DagInv, CurCompleted
<1>6. CASE HistoryDelete
  <2>1. /\ DeleteRows(cand \ prot) /\ UNCHANGED workerVars
        /\ mpc = "delete" /\ mpc' = "load"
    BY <1>6 DEF HistoryDelete, workersUnchanged
  <2>2. \A t \in cand \ prot : t \in TaskId /\ status[t] \in Finished
    BY <1>0, <2>1 DEF CandFinished, TypeOK
  <2>3. OwnerHolds'
    BY <1>0, <2>1, <2>2, DeleteKeepsOwners DEF Finished
  <2>5. \A t \in TaskId \ (cand \ prot) : status'[t] = status[t] /\ meta'[t] = meta[t]
    BY <2>1 DEF DeleteRows
  <2>6. \A t \in cand \ prot : status'[t] = "deleted"
    BY <2>1, <2>2 DEF DeleteRows
  <2>9. \A t \in TaskId : Present(t)' => /\ Present(t) /\ Parent(t)' = Parent(t)
                                         /\ t \notin cand \ prot
    BY <2>5, <2>6 DEF Present, Parent, Active, Finished
  <2>7. LegacyShape'
    <3> SUFFICES ASSUME LegacyOrphan
                 PROVE  /\ status'[1] = "deleted"
                        /\ \/ status'[2] = "deleted"
                           \/ status'[2] = "pending" /\ Parent(2)' = 1 /\ ~meta'[2].afp
                        /\ \A t \in TaskId : Present(t)' => Parent(t)' # 2
      BY DEF LegacyShape
    <3>1. 1 \in TaskId /\ 2 \in TaskId
      BY DEF TaskId
    <3>2. 1 \notin cand \ prot /\ 2 \notin cand \ prot
      BY <1>0, <2>2 DEF LegacyShape, Finished
    <3> QED
      BY <1>0, <2>5, <2>9, <3>1, <3>2 DEF LegacyShape, Parent
  <2>8. ParentsPresent'
    <3> SUFFICES ASSUME NEW t \in TaskId \ LegacyRows, Present(t)', Parent(t)' # NoTask
                 PROVE  Parent(t)' \in TaskId /\ Present(Parent(t))'
      BY DEF ParentsPresent
    <3>1. Present(t) /\ Parent(t)' = Parent(t) /\ t \notin cand \ prot
      BY <2>9
    <3>2. Parent(t) \in TaskId /\ Present(Parent(t))
      BY <1>0, <3>1 DEF ParentsPresent
    <3>3. Parent(t) \notin cand \ prot
      BY <1>0, <2>1, <3>1 DEF DeleteSafe
    <3> QED
      BY <2>5, <3>1, <3>2, <3>3 DEF Present
  <2> QED
    BY <1>d, <2>1, <2>3, <2>7, <2>8
<1>7. CASE Load \/ Guard
  <2>1. /\ status' = status /\ worker' = worker /\ meta' = meta
        /\ UNCHANGED workerVars /\ mpc' \in {"recover", "repair", "decide"}
    BY <1>7 DEF Load, Guard, queueVars, workersUnchanged
  <2> QED
    BY <2>1, <1>o, <1>p, <1>d
<1>8. CASE RequeueFailed
  <2>1. PICK t \in TaskId : status[t] = "failed" /\ requeue_failed(t)
    BY <1>0, <1>8 DEF RequeueFailed, RequeueReady, TypeOK
  <2>2. /\ status' = [status EXCEPT ![t] = "pending"]
        /\ worker' = [worker EXCEPT ![t] = NoWorker] /\ meta' = meta
        /\ UNCHANGED workerVars /\ mpc' = "recover"
    BY <1>8, <2>1 DEF RequeueFailed, requeue_failed, workersUnchanged
  <2>3. OwnerHolds'
    <3> SUFFICES ASSUME NEW v \in Workers, pc[v] \in Holding
                 PROVE  /\ task[v] \in TaskId
                        /\ status'[task[v]] = "running" /\ worker'[task[v]] = v
      BY <2>2 DEF OwnerHolds, workerVars
    <3>1. task[v] \in TaskId /\ status[task[v]] = "running" /\ worker[task[v]] = v
      BY <1>0 DEF OwnerHolds
    <3> QED
      BY <1>q, <2>1, <2>2, <3>1
  <2>4. \A u \in TaskId : Present(u)' = Present(u) /\ Parent(u)' = Parent(u)
    BY <1>q, <2>1, <2>2 DEF Present, Parent, Active, Finished
  <2>5. LegacyOrphan => /\ 1 \in TaskId /\ 2 \in TaskId
                        /\ status'[1] = status[1] /\ status'[2] = status[2]
    BY <1>0, <1>q, <2>1, <2>2 DEF LegacyShape, TaskId
  <2>6. LegacyShape' /\ ParentsPresent'
    BY <1>0, <2>2, <2>4, <2>5 DEF LegacyShape, ParentsPresent
  <2> QED
    BY <1>d, <2>2, <2>3, <2>6
<1>9. CASE Decide
  <2>1. PICK t \in plan, d \in {"open", "terminal"} :
          /\ Successful(t) /\ mark_planner_decision(t, d)
          /\ cur' = IF d = "open" THEN t ELSE NoTask
          /\ mpc' = IF d = "open" THEN "spawn" ELSE "decide"
    BY <1>9 DEF Decide
  <2>2. /\ status' = status /\ worker' = worker /\ meta' = meta /\ UNCHANGED workerVars
    BY <1>9, <2>1 DEF Decide, mark_planner_decision, workersUnchanged
  <2>3. CurCompleted'
    BY <1>0, <2>1, <2>2 DEF CurCompleted, Successful, TypeOK
  <2> QED
    BY <2>1, <2>2, <2>3, <1>o, <1>p DEF DagInv, CandFinished, DeleteSafe
<1>10. CASE PlanDone \/ SpawnDone \/ MasterCrash
  <2>1. /\ status' = status /\ worker' = worker /\ meta' = meta
        /\ UNCHANGED workerVars /\ mpc' \in {"repair", "decide"}
    BY <1>10 DEF PlanDone, SpawnDone, MasterCrash, queueVars, workersUnchanged
  <2> QED
    BY <2>1, <1>o, <1>p, <1>d
<1>11. CASE Spawn \/ Shadow
  <2>0. /\ UNCHANGED workerVars /\ mpc \in {"spawn", "shadow"}
        /\ mpc' \in {"spawn", "shadow"} /\ cur' = cur
    BY <1>11 DEF Spawn, Shadow, workersUnchanged, planVars
  <2>1. cur \in TaskId /\ status[cur] = "completed"
    BY <1>0, <2>0 DEF CurCompleted
  <2>2. CASE UNCHANGED queueVars
    BY <1>0, <2>0, <2>2, <1>o, <1>p
       DEF queueVars, DagInv, CandFinished, DeleteSafe, CurCompleted
  <2>3. CASE \E c \in TaskId, r \in PlannerRoles, eval \in BOOLEAN :
               Fresh(c) /\ add(c, r, cur, FALSE, eval)
    <3>1. PICK c \in TaskId, r \in PlannerRoles, eval \in BOOLEAN :
                 Fresh(c) /\ add(c, r, cur, FALSE, eval)
      BY <2>3
    <3>2. OwnerHolds'
      BY <1>i, <2>0, <3>1
    <3>3. Present(cur) /\ (LegacyOrphan => cur # 2)
      BY <1>0, <2>1 DEF Present, Finished, LegacyShape
    <3>4. LegacyShape' /\ ParentsPresent'
      BY <1>0, <2>0, <2>1, <3>1, <3>3, AddKeepsDag
    <3>5. status'[cur] = "completed"
      BY <1>q, <2>1, <3>1 DEF add, Fresh
    <3> QED
      BY <2>0, <2>1, <3>2, <3>4, <3>5 DEF DagInv, CandFinished, DeleteSafe, CurCompleted
  <2> QED
    BY <1>11, <2>2, <2>3 DEF Spawn, Shadow
<1>12. CASE Submit
  <2>1. PICK t \in TaskId, r \in PlannerRoles : Fresh(t) /\ add(t, r, NoTask, FALSE, FALSE)
    BY <1>12 DEF Submit
  <2>2. UNCHANGED workerVars /\ UNCHANGED masterLocals
    BY <1>12 DEF Submit, planVars, masterLocals
  <2>3. OwnerHolds'
    BY <1>i, <2>1, <2>2
  <2>4. DagInv'
    BY <1>0, <2>1, <2>2, AddKeepsDag
  <2> QED
    BY <2>3, <2>4
<1>13. CASE \E t \in TaskId : Age(t)
  <2>1. /\ status' = status /\ worker' = worker /\ meta' = meta
        /\ UNCHANGED workerVars /\ UNCHANGED masterLocals
    BY <1>13 DEF Age, planVars, masterLocals
  <2> QED
    BY <1>0, <2>1, <1>o, MoveKeepsDag
<1> QED
  BY <1>1, <1>2, <1>3, <1>4, <1>5, <1>6, <1>7, <1>8, <1>9, <1>10, <1>11, <1>12, <1>13,
     <1>14 DEF MasterStep

\* The initial database satisfies the inductive invariant.
LEMMA InitInv == Init => IInv
<1> SUFFICES ASSUME Init PROVE IInv
  OBVIOUS
<1>1. TypeOK
  BY InitType
<1>2. OwnerHolds
  BY DEF Init, OwnerHolds, Holding
<1>3. LegacyShape /\ ParentsPresent
  <2>1. \A t \in TaskId : t \notin LegacyRows => status[t] \in {"none", "deleted"}
    BY DEF Init, LegacyRows
  <2>2. ParentsPresent
    BY <2>1 DEF ParentsPresent, Present, Active, Finished
  <2>3. LegacyShape
    BY DEF LegacyShape, Init, TaskId, Parent, NoTask
  <2> QED
    BY <2>2, <2>3
<1> QED
  BY <1>1, <1>2, <1>3 DEF IInv, Init, CandFinished, DeleteSafe, CurCompleted

\* A step that steals no row is a step of the farm.
LEMMA NoStealIsNext == NextNoSteal => Next
  BY DEF NextNoSteal, Next, WorkerStep

\* The inductive invariant is preserved by every step that steals no row.
LEMMA NextInv == IInv /\ [NextNoSteal]_vars => IInv'
<1> SUFFICES ASSUME IInv, [NextNoSteal]_vars PROVE IInv'
  OBVIOUS
<1>1. TypeOK'
  BY NextType, NoStealIsNext DEF IInv
<1>2. CASE NextNoSteal
  BY <1>1, <1>2, WorkerInv, MasterInv DEF NextNoSteal, Others, DagInv, IInv
<1>3. CASE UNCHANGED vars
  <2>1. OwnerHolds'
    BY <1>3 DEF IInv, OwnerHolds, vars, queueVars, workerVars
  <2>2. DagInv'
    BY <1>3, MoveKeepsDag DEF IInv, DagInv, vars, queueVars, planVars, masterLocals
  <2> QED
    BY <1>1, <2>1, <2>2 DEF DagInv, IInv
<1> QED
  BY <1>2, <1>3

\* As long as no recovery pass steals a live worker's row, no interleaving of
\* compaction, orphan repair, planner, workers and crashes orphans a row that is still to run.
THEOREM OrphansNeverCreated == SpecNoSteal => []NoNewOrphans
<1>1. SpecNoSteal => []IInv
  BY InitInv, NextInv, PTL DEF SpecNoSteal
<1>2. IInv => NoNewOrphans
  BY DEF IInv, NoNewOrphans, active_orphans, ParentsPresent, Present
<1> QED
  BY <1>1, <1>2, PTL
-----------------------------------------------------------------------------
(* The owners, in every behaviour: rows may be taken from the living *)

\* Rows that stay finished while compact_history works with them.
LEMMA CandKept ==
  ASSUME CandFinished, cand \subseteq TaskId, UNCHANGED <<mpc, cand>>,
         \A t \in TaskId : status[t] \in Finished => status'[t] = status[t]
  PROVE  CandFinished'
  BY DEF CandFinished

\* A step that lets no row start or stop running and leaves the workers alone
\* keeps the owners.
LEMMA NobodysRow ==
  ASSUME OInv, TypeOK', CandFinished', UNCHANGED workerVars,
         \A t \in TaskId :
           /\ status[t] = "running" <=> status'[t] = "running"
           /\ status[t] = "running" => /\ worker'[t] = worker[t]
                                       /\ aged'[t] => aged[t] \/ worker[t] \in Mortal
  PROVE  OInv'
<1> USE DEF OInv, workerVars
<1>1. OwnersRan'
  BY DEF OwnersRan
<1>2. SnapRan' /\ TasksHeld'
  BY DEF SnapRan, TasksHeld
<1>3. OwnerUnlessExposed'
  BY DEF OwnerUnlessExposed, Exposed, Alive, TasksHeld
<1> QED
  BY <1>1, <1>2, <1>3

\* Orphan repair deletes pending rows only.
LEMMA DoomedIsPending == Doomed \subseteq {t \in TaskId : status[t] = "pending"}
<1> DEFINE S == {t \in TaskId : status[t] = "pending"}
<1>1. DoomedClosed(S) /\ S \in SUBSET TaskId
  BY DEF DoomedClosed
<1> QED
  BY <1>1 DEF Doomed

\* OInv is preserved by every step of the master and of the environment.
LEMMA MasterOwners ==
  ASSUME OInv, MasterStep \/ MasterCrash \/ Submit \/ \E t \in TaskId : Age(t)
  PROVE  OInv'
<1>0. TypeOK /\ QueueTypeOK /\ CandFinished /\ TypeOK' /\ cand \subseteq TaskId
  BY MasterType DEF OInv, TypeOK
<1>q. /\ status \in [TaskId -> Status] /\ worker \in [TaskId -> Workers \cup {NoWorker}]
      /\ aged \in [TaskId -> BOOLEAN]
  BY <1>0 DEF QueueTypeOK
<1>w. UNCHANGED workerVars
  BY DEF MasterStep, Repair, Bootstrap, CompactResults, HistoryKeep, HistorySelect,
         HistoryProtect, HistoryDelete, Load, RequeueFailed, Guard, Decide, PlanDone, Spawn,
         Shadow, SpawnDone, MasterCrash, Submit, Age, workersUnchanged
<1>c. mpc' \notin {"protect", "delete"} => CandFinished'
  BY DEF CandFinished
<1>u. ASSUME CandFinished', status' = status, worker' = worker, aged' = aged PROVE OInv'
  BY <1>0, <1>w, <1>u, NobodysRow
<1>a. ASSUME CandFinished', NEW c \in TaskId, Fresh(c), NEW r, NEW p, NEW f, NEW e,
             add(c, r, p, f, e)
      PROVE  OInv'
  BY <1>0, <1>q, <1>w, <1>a, NobodysRow DEF Fresh, add
<1>d. ASSUME CandFinished', NEW T, DeleteRows(T),
             \A t \in T : t \in TaskId => status[t] # "running"
      PROVE  OInv'
  BY <1>0, <1>q, <1>w, <1>d, NobodysRow DEF DeleteRows
<1>1. CASE Repair
  BY <1>1, <1>c, <1>d, DoomedIsPending DEF Repair, repair_active_orphans
<1>2. CASE Bootstrap \/ Spawn \/ Shadow
  BY <1>2, <1>a, <1>c, <1>u DEF Bootstrap, Spawn, Shadow, queueVars
<1>3. CASE CompactResults
  BY <1>3, <1>c, <1>u DEF CompactResults, DropResults
<1>4. CASE HistoryKeep \/ Load \/ Guard \/ PlanDone \/ SpawnDone \/ MasterCrash
  BY <1>4, <1>c, <1>u DEF HistoryKeep, Load, Guard, PlanDone, SpawnDone, MasterCrash, queueVars
<1>5. CASE HistorySelect
  <2>1. status' = status /\ cand' \subseteq FinishedRows
    BY <1>5 DEF HistorySelect, queueVars
  <2>2. CandFinished'
    BY <2>1 DEF CandFinished, FinishedRows
  <2> QED
    BY <1>5, <2>2, <1>u DEF HistorySelect, queueVars
<1>6. CASE HistoryProtect
  <2>1. CandFinished'
    BY <1>0, <1>6 DEF HistoryProtect, CandFinished, queueVars
  <2> QED
    BY <1>6, <2>1, <1>u DEF HistoryProtect, queueVars
<1>7. CASE HistoryDelete
  <2>1. \A t \in cand \ prot : t \in TaskId => status[t] # "running"
    BY <1>0, <1>7 DEF HistoryDelete, CandFinished, Finished
  <2> QED
    BY <1>7, <1>c, <1>d, <2>1 DEF HistoryDelete
<1>8. CASE RequeueFailed
  <2>1. PICK t \in TaskId : status[t] = "failed" /\ requeue_failed(t)
    BY <1>0, <1>8 DEF RequeueFailed, RequeueReady, TypeOK
  <2>2. CandFinished'
    BY <1>8, <1>c DEF RequeueFailed
  <2> QED
    BY <1>0, <1>q, <1>w, <2>1, <2>2, NobodysRow DEF requeue_failed
<1>9. CASE Decide
  BY <1>9, <1>c, <1>u DEF Decide, mark_planner_decision
<1>10. CASE Submit
  <2>1. PICK t \in TaskId, r \in PlannerRoles : Fresh(t) /\ add(t, r, NoTask, FALSE, FALSE)
    BY <1>10 DEF Submit
  <2>2. CandFinished'
    BY <1>0, <1>q, <1>10, <2>1, CandKept DEF Submit, planVars, Fresh, add, Finished
  <2> QED
    BY <1>a, <2>1, <2>2
<1>11. CASE \E t \in TaskId : Age(t)
  <2>1. PICK t \in TaskId : Age(t)
    BY <1>11
  <2>2. CandFinished'
    BY <1>0, <2>1, CandKept DEF Age, planVars
  <2> QED
    BY <1>0, <1>q, <1>w, <2>1, <2>2, NobodysRow DEF Age
<1> QED
  BY <1>1, <1>2, <1>3, <1>4, <1>5, <1>6, <1>7, <1>8, <1>9, <1>10, <1>11 DEF MasterStep

\* What every step of worker w keeps: it takes no row into its own hands but by a
\* claim, and what others hold stops running only when it is exposed.
LEMMA WorkersRow ==
  ASSUME OInv, TypeOK', CandFinished', NEW w \in Workers, ran' = ran,
         snap' \in {snap, [snap EXCEPT ![w] = {}], [snap EXCEPT ![w] = StaleRows]},
         \A v \in Workers \ {w} : pc'[v] = pc[v] /\ task'[v] = task[v],
         pc[w] = "dead" => pc'[w] = "dead",
         pc'[w] \in Holding => pc[w] \in Holding /\ task'[w] = task[w],
         \A t \in TaskId :
           /\ status'[t] = "running" => status[t] = "running"
           /\ status[t] = "running" /\ status'[t] # "running" =>
                \/ Exposed(t)
                \/ worker[t] = w /\ pc'[w] \notin Holding
                \/ ~Alive(worker[t])
           /\ status'[t] = "running" => worker'[t] = worker[t] /\ aged'[t] = aged[t]
  PROVE  OInv'
<1> USE DEF OInv
<1>1. OwnersRan'
  BY DEF OwnersRan
<1>2. SnapRan'
  <2> SUFFICES ASSUME NEW v \in Workers, NEW p \in snap'[v] PROVE p[2] \in ran[p[1]]
    BY DEF SnapRan
  <2>1. snap \in [Workers -> SUBSET (TaskId \X Workers)]
    BY DEF TypeOK
  <2>2. p \in snap[v] \/ p \in StaleRows
    BY <2>1
  <2>3. p \in StaleRows => p[2] \in ran[p[1]]
    BY DEF StaleRows, OwnersRan
  <2> QED
    BY <2>2, <2>3 DEF SnapRan
<1>3. TasksHeld'
  BY DEF TasksHeld
<1>4. \A t \in TaskId : Exposed(t) => Exposed(t)'
  <2>1. ran \in [TaskId -> SUBSET Mortal] /\ Mortal \subseteq Workers
    BY DEF TypeOK
  <2> QED
    BY <2>1 DEF Exposed, Alive
<1>5. OwnerUnlessExposed'
  <2> SUFFICES ASSUME NEW v \in Workers, pc'[v] \in Holding, ~Exposed(task[v])'
               PROVE  status'[task'[v]] = "running" /\ worker'[task'[v]] = v
    BY DEF OwnerUnlessExposed
  <2>1. pc[v] \in Holding /\ task'[v] = task[v] /\ task[v] \in TaskId
    BY DEF TasksHeld
  <2>2. ~Exposed(task[v])
    BY <1>4, <2>1 DEF Exposed
  <2>3. status[task[v]] = "running" /\ worker[task[v]] = v
    BY <2>1, <2>2 DEF OwnerUnlessExposed
  <2>4. Alive(v)
    BY <2>1 DEF Alive, Holding
  <2> QED
    BY <2>1, <2>2, <2>3, <2>4
<1> QED
  BY <1>1, <1>2, <1>3, <1>5

\* OInv is preserved by every step of a worker, those that steal included.
LEMMA WorkerOwners ==
  ASSUME OInv, NEW w \in Workers, WorkerStep(w) \/ WorkerCrash(w)
  PROVE  OInv'
<1>0. TypeOK /\ QueueTypeOK /\ CandFinished /\ TypeOK' /\ cand \subseteq TaskId
  BY WorkerType DEF OInv, TypeOK
<1>q. /\ status \in [TaskId -> Status] /\ worker \in [TaskId -> Workers \cup {NoWorker}]
      /\ aged \in [TaskId -> BOOLEAN]
      /\ pc \in [Workers -> WorkerPC] /\ task \in [Workers -> TaskId \cup {NoTask}]
      /\ ran \in [TaskId -> SUBSET Mortal]
  BY <1>0 DEF QueueTypeOK, TypeOK
<1>m. UNCHANGED <<mpc, cand>>
  BY DEF WorkerStep, CalmStep, RecoverSelect, RecoverUpdate, RecoverSteal, RequeueStale,
         RecoverLeak, Claim, ClaimNothing, CaseGateBlocked, LoadParent, AskEvidence, Handoff,
         Finish, HandoffBreaks, Fail, WorkerCrash, masterUnchanged, planVars
<1>c. (\A t \in TaskId : status[t] \in Finished => status'[t] = status[t]) => CandFinished'
  BY <1>0, <1>m, CandKept
\* A step that touches no table, with the worker's row kept or given up.
<1>u. ASSUME UNCHANGED queueVars, ran' = ran, pc[w] # "dead",
             NEW s \in WorkerPC, pc' = [pc EXCEPT ![w] = s],
             snap' \in {snap, [snap EXCEPT ![w] = {}], [snap EXCEPT ![w] = StaleRows]},
             s \in Holding => pc[w] \in Holding /\ task' = task,
             NEW r, task' = [task EXCEPT ![w] = r]
      PROVE  OInv'
  <2>1. CandFinished'
    BY <1>c, <1>u DEF queueVars
  <2> QED
    BY <1>0, <1>q, <1>u, <2>1, WorkersRow DEF queueVars
<1>k. ASSUME UNCHANGED queueVars, ran' = ran, task' = task, pc[w] # "dead",
             NEW s \in WorkerPC, pc' = [pc EXCEPT ![w] = s],
             snap' \in {snap, [snap EXCEPT ![w] = {}], [snap EXCEPT ![w] = StaleRows]},
             s \in Holding => pc[w] \in Holding
      PROVE  OInv'
  <2>1. task' = [task EXCEPT ![w] = task[w]]
    BY <1>q, <1>k
  <2> QED
    BY <1>k, <2>1, <1>u
\* A finish or fail that the row's status accepts.
<1>f. ASSUME ran' = ran, snap' = snap, task' = [task EXCEPT ![w] = NoTask],
             pc[w] \in Holding, pc' = [pc EXCEPT ![w] = "idle"],
             Accepts(task[w]), NEW s \in Finished, status' = [status EXCEPT ![task[w]] = s],
             worker' = worker, aged' = aged
      PROVE  OInv'
  <2>1. task[w] \in TaskId /\ status[task[w]] = "running"
    BY <1>f DEF OInv, TasksHeld, Accepts
  <2>2. CandFinished'
    BY <1>c, <1>f, <1>q, <2>1 DEF Finished
  <2>3. Exposed(task[w]) \/ worker[task[w]] = w
    BY <1>f DEF OInv, OwnerUnlessExposed
  <2>4. "idle" \notin Holding /\ pc[w] # "dead" /\ "running" \notin Finished
    BY <1>f DEF Holding, Finished
  <2> QED
    BY <1>0, <1>q, <1>f, <2>1, <2>2, <2>3, <2>4, WorkersRow
\* A child inserted for the row the worker is processing.
<1>a. ASSUME NEW c \in TaskId, Fresh(c), NEW r, NEW f, add(c, r, task[w], f, FALSE),
             ran' = ran, snap' = snap, task' = task, pc[w] \in Holding,
             NEW s \in Holding, pc' = [pc EXCEPT ![w] = s]
      PROVE  OInv'
  <2>1. CandFinished'
    BY <1>c, <1>a, <1>q DEF Fresh, add, Finished
  <2>2. pc[w] # "dead"
    BY <1>a DEF Holding
  <2> QED
    BY <1>0, <1>q, <1>a, <2>1, <2>2, WorkersRow DEF Fresh, add
<1>1. CASE RecoverSelect(w)
  <2>1. /\ UNCHANGED queueVars /\ ran' = ran /\ task' = task /\ pc[w] # "dead"
        /\ pc' = [pc EXCEPT ![w] = "scanned"]
        /\ snap' \in {snap, [snap EXCEPT ![w] = {}], [snap EXCEPT ![w] = StaleRows]}
    BY <1>1 DEF RecoverSelect, masterUnchanged
  <2>2. "scanned" \in WorkerPC /\ ("scanned" \in Holding => pc[w] \in Holding)
    BY <1>1 DEF RecoverSelect, WorkerPC, Holding
  <2> QED
    BY <2>1, <2>2, <1>k
<1>2. CASE RequeueStale(w)
  <2>1. \A t \in TaskId : status[t] = "running" /\ status'[t] # "running" => Exposed(t)
    <3> SUFFICES ASSUME NEW t \in Stale(w) PROVE Exposed(t)
      BY <1>2 DEF RequeueStale, RequeueRunning
    <3>1. PICK p \in snap[w] : ~Alive(p[2]) /\ p[1] = t
      BY DEF Stale, Dead
    <3> QED
      BY <3>1 DEF OInv, SnapRan, Exposed
  <2>2. CandFinished'
    BY <1>2, <1>c DEF RequeueStale, RequeueRunning, Stale, Finished
  <2>3. \A t \in TaskId : status'[t] = "running" =>
          status[t] = "running" /\ worker'[t] = worker[t] /\ aged'[t] = aged[t]
    BY <1>2 DEF RequeueStale, RequeueRunning
  <2>4. /\ ran' = ran /\ task' = task /\ snap' = [snap EXCEPT ![w] = {}]
        /\ pc' = [pc EXCEPT ![w] = "ready"] /\ pc[w] # "dead" /\ "ready" \notin Holding
    BY <1>2 DEF RequeueStale, masterUnchanged, Holding
  <2> QED
    BY <1>0, <1>q, <2>1, <2>2, <2>3, <2>4, WorkersRow
<1>3. CASE RecoverLeak(w)
  <2>1. /\ UNCHANGED queueVars /\ ran' = ran /\ task' = task /\ pc[w] # "dead"
        /\ pc' = [pc EXCEPT ![w] = "dead"]
        /\ snap' \in {snap, [snap EXCEPT ![w] = {}], [snap EXCEPT ![w] = StaleRows]}
    BY <1>3 DEF RecoverLeak, masterUnchanged
  <2>2. "dead" \in WorkerPC /\ ("dead" \in Holding => pc[w] \in Holding)
    BY <1>3 DEF RecoverLeak, WorkerPC, Holding
  <2> QED
    BY <2>1, <2>2, <1>k
<1>4. CASE Claim(w)
  <2>1. PICK t \in TaskId : /\ FirstClaimable(t, RoleOf[w]) /\ claim(t, w)
                            /\ task' = [task EXCEPT ![w] = t]
                            /\ ran' = [ran EXCEPT ![t] = @ \cup ({w} \cap Mortal)]
    BY <1>4 DEF Claim
  <2>2. /\ status[t] = "pending" /\ status' = [status EXCEPT ![t] = "running"]
        /\ worker' = [worker EXCEPT ![t] = w] /\ aged' = [aged EXCEPT ![t] = FALSE]
    BY <2>1 DEF FirstClaimable, Claimable, claim
  <2>3. /\ pc[w] # "dead" /\ pc[w] \notin Holding /\ pc' = [pc EXCEPT ![w] = "claimed"]
        /\ snap' = snap
    BY <1>4 DEF Claim, Holding
  <2>4. CandFinished'
    BY <1>c, <1>q, <2>2 DEF Finished
  <2>5. \A u \in TaskId : ran[u] \subseteq ran'[u]
    BY <1>q, <2>1
  <2>6. OwnersRan'
    BY <1>q, <2>1, <2>2, <2>5 DEF OInv, OwnersRan
  <2>7. SnapRan'
    <3>1. \A v \in Workers : \A p \in snap[v] : p[1] \in TaskId
      BY <1>0 DEF TypeOK
    <3> QED
      BY <2>3, <2>5, <3>1 DEF OInv, SnapRan
  <2>8. TasksHeld'
    BY <1>q, <2>1, <2>3 DEF OInv, TasksHeld
  <2>9. \A u \in TaskId : Exposed(u) => Exposed(u)'
    <3>1. \A d \in Workers : ~Alive(d) => ~Alive(d)'
      BY <1>q, <2>3 DEF Alive
    <3> QED
      BY <1>q, <2>5, <3>1, FarmAssumption DEF Exposed
  <2>10. OwnerUnlessExposed'
    <3> SUFFICES ASSUME NEW v \in Workers, pc'[v] \in Holding, ~Exposed(task[v])'
                 PROVE  status'[task'[v]] = "running" /\ worker'[task'[v]] = v
      BY DEF OwnerUnlessExposed
    <3>1. CASE v = w
      BY <1>q, <2>1, <2>2, <3>1
    <3>2. CASE v # w
      <4>1. pc[v] \in Holding /\ task'[v] = task[v] /\ task[v] \in TaskId
        BY <1>q, <2>1, <2>3, <3>2 DEF OInv, TasksHeld
      <4>2. status[task[v]] = "running" /\ worker[task[v]] = v
        BY <2>9, <4>1 DEF OInv, OwnerUnlessExposed, Exposed
      <4> QED
        BY <1>q, <2>2, <4>1, <4>2
    <3> QED
      BY <3>1, <3>2
  <2> QED
    BY <1>0, <2>4, <2>6, <2>7, <2>8, <2>10 DEF OInv
<1>5. CASE ClaimNothing(w)
  <2>1. /\ UNCHANGED queueVars /\ ran' = ran /\ task' = task /\ pc[w] # "dead"
        /\ pc' = [pc EXCEPT ![w] = "idle"]
        /\ snap' \in {snap, [snap EXCEPT ![w] = {}], [snap EXCEPT ![w] = StaleRows]}
    BY <1>5 DEF ClaimNothing, masterUnchanged
  <2>2. "idle" \in WorkerPC /\ ("idle" \in Holding => pc[w] \in Holding)
    BY <1>5 DEF ClaimNothing, WorkerPC, Holding
  <2> QED
    BY <2>1, <2>2, <1>k
<1>6. CASE CaseGateBlocked(w)
  <2>1. CASE Accepts(task[w]) /\ fail(task[w], "permanent")
    BY <1>6, <2>1, <1>f DEF CaseGateBlocked, fail, Accepts, masterUnchanged, Holding, Finished
  <2>2. CASE ~Accepts(task[w])
    BY <1>6, <2>2, <1>u DEF CaseGateBlocked, masterUnchanged, Holding, WorkerPC
  <2> QED
    BY <1>6, <2>1, <2>2 DEF CaseGateBlocked
<1>7. CASE LoadParent(w)
  <2>1. /\ UNCHANGED queueVars /\ ran' = ran /\ task' = task /\ snap' = snap
        /\ pc[w] # "dead" /\ pc[w] \in Holding
    BY <1>7 DEF LoadParent, masterUnchanged, Holding
  <2>2. PICK l \in {"loaded", "lastfail"} : pc' = [pc EXCEPT ![w] = l]
    BY <1>7 DEF LoadParent
  <2>3. l \in WorkerPC
    BY DEF WorkerPC
  <2> QED
    BY <2>1, <2>2, <2>3, <1>k
<1>8. CASE AskEvidence(w)
  BY <1>8, <1>a DEF AskEvidence, masterUnchanged, Holding
<1>9. CASE Handoff(w)
  BY <1>9, <1>a DEF Handoff, masterUnchanged, Holding
<1>10. CASE Finish(w)
  <2>1. CASE Accepts(task[w]) /\ finish(task[w])
    BY <1>10, <2>1, <1>f DEF Finish, finish, masterUnchanged, Holding, Finished
  <2>2. CASE ~Accepts(task[w])
    <3>1. /\ UNCHANGED queueVars /\ ran' = ran /\ task' = task /\ snap' = snap
          /\ pc[w] # "dead" /\ pc[w] \in Holding
      BY <1>10, <2>2 DEF Finish, masterUnchanged, Holding
    <3>2. PICK l \in {"failing", "lastfail"} : pc' = [pc EXCEPT ![w] = l]
      BY <1>10, <2>2 DEF Finish
    <3>3. l \in WorkerPC
      BY DEF WorkerPC
    <3> QED
      BY <3>1, <3>2, <3>3, <1>k
  <2> QED
    BY <1>10, <2>1, <2>2 DEF Finish
<1>11. CASE Fail(w)
  <2>1. CASE Accepts(task[w])
    BY <1>11, <2>1, <1>f DEF Fail, fail, masterUnchanged, Holding, Finished
  <2>2. CASE ~Accepts(task[w])
    <3>1. /\ UNCHANGED queueVars /\ ran' = ran /\ snap' = snap
          /\ pc[w] # "dead" /\ pc[w] \in Holding
      BY <1>11, <2>2 DEF Fail, masterUnchanged, Holding
    <3>2. CASE pc[w] # "lastfail"
      <4>1. pc' = [pc EXCEPT ![w] = "lastfail"] /\ task' = task /\ "lastfail" \in WorkerPC
        BY <1>11, <2>2, <3>2 DEF Fail, WorkerPC
      <4> QED
        BY <3>1, <4>1, <1>k
    <3>3. CASE pc[w] = "lastfail"
      <4>1. pc' = [pc EXCEPT ![w] = "idle"] /\ task' = [task EXCEPT ![w] = NoTask]
        BY <1>11, <2>2, <3>3 DEF Fail
      <4>2. "idle" \in WorkerPC /\ "idle" \notin Holding
        BY DEF WorkerPC, Holding
      <4> QED
        BY <3>1, <4>1, <4>2, <1>u
    <3> QED
      BY <3>2, <3>3
  <2> QED
    BY <1>11, <2>1, <2>2 DEF Fail
<1>12. CASE WorkerCrash(w)
  BY <1>12, <1>u DEF WorkerCrash, Alive, Holding, WorkerPC
<1>13. CASE HandoffBreaks(w)
  <2>1. /\ UNCHANGED queueVars /\ ran' = ran /\ task' = task /\ pc[w] # "dead"
        /\ pc' = [pc EXCEPT ![w] = "lastfail"]
        /\ snap' \in {snap, [snap EXCEPT ![w] = {}], [snap EXCEPT ![w] = StaleRows]}
    BY <1>13 DEF HandoffBreaks, masterUnchanged
  <2>2. "lastfail" \in WorkerPC /\ ("lastfail" \in Holding => pc[w] \in Holding)
    BY <1>13 DEF HandoffBreaks, WorkerPC, Holding
  <2> QED
    BY <2>1, <2>2, <1>k
<1> QED
  BY <1>1, <1>2, <1>3, <1>4, <1>5, <1>6, <1>7, <1>8, <1>9, <1>10, <1>11, <1>12, <1>13
  DEF WorkerStep, CalmStep, RecoverUpdate, RecoverSteal

\* OInv holds initially and is preserved by every step.
LEMMA OwnersInv == Spec => []OInv
<1>1. Init => OInv
  <2> SUFFICES ASSUME Init PROVE OInv
    OBVIOUS
  <2>1. TypeOK
    BY InitType
  <2>2. CandFinished /\ OwnersRan /\ SnapRan
    BY DEF Init, CandFinished, OwnersRan, SnapRan
  <2>3. TasksHeld /\ OwnerUnlessExposed
    BY DEF Init, TasksHeld, OwnerUnlessExposed, Holding
  <2> QED
    BY <2>1, <2>2, <2>3 DEF OInv
<1>2. OInv /\ [Next]_vars => OInv'
  <2> SUFFICES ASSUME OInv, [Next]_vars PROVE OInv'
    OBVIOUS
  <2>1. CASE Next
    BY <2>1, WorkerOwners, MasterOwners DEF Next, Others
  <2>2. CASE UNCHANGED vars
    <3>1. TypeOK'
      BY <2>2, NextType DEF OInv
    <3>2. CandFinished'
      BY <2>2 DEF OInv, CandFinished, vars, queueVars, planVars
    <3> QED
      BY <2>2, <3>1, <3>2, NobodysRow DEF vars, queueVars
  <2> QED
    BY <2>1, <2>2
<1> QED
  BY <1>1, <1>2, PTL DEF Spec

\* In every behaviour a worker loses the row it is processing only when a worker
\* that is dead by now ran that row before.
THEOREM OwnersUnlessExposed == Spec => []OwnerUnlessExposed
<1>1. OInv => OwnerUnlessExposed
  BY DEF OInv
<1> QED
  BY <1>1, OwnersInv, PTL

-----------------------------------------------------------------------------
(* What a step may never do *)

\* Statements on rows that are not completed, and the two compactions, leave
\* every stored success as it is.
LEMMA StepKeepsCompleted ==
  ASSUME TypeOK, Next
  PROVE  CompletedStays
<1>q. QueueTypeOK /\ status \in [TaskId -> Status] /\ result \in [TaskId -> Result]
  BY DEF TypeOK, QueueTypeOK
<1>u. ASSUME status' = status, result' = result PROVE CompletedStays
  BY <1>u DEF CompletedStays
<1>a. ASSUME NEW c \in TaskId, Fresh(c), NEW r, NEW p, NEW f, NEW e, add(c, r, p, f, e)
      PROVE  CompletedStays
  BY <1>a, <1>q DEF CompletedStays, Fresh, add
<1>d. ASSUME NEW T, DeleteRows(T) PROVE CompletedStays
  BY <1>d, <1>q DEF CompletedStays, DeleteRows
<1>f. ASSUME NEW t, Accepts(t), NEW r, finish(t) \/ fail(t, r) PROVE CompletedStays
  BY <1>f, <1>q DEF CompletedStays, Accepts, finish, fail
<1>1. ASSUME NEW w \in Workers, WorkerStep(w) PROVE CompletedStays
  <2>1. CASE RequeueStale(w)
    BY <2>1, <1>q DEF RequeueStale, RequeueRunning, Stale, CompletedStays
  <2>2. CASE Claim(w)
    BY <2>2, <1>q DEF Claim, FirstClaimable, Claimable, claim, CompletedStays
  <2>3. CASE CaseGateBlocked(w) \/ Finish(w) \/ Fail(w)
    BY <2>3, <1>f, <1>u DEF CaseGateBlocked, Finish, Fail, queueVars
  <2>4. CASE AskEvidence(w) \/ Handoff(w)
    BY <2>4, <1>a DEF AskEvidence, Handoff
  <2>5. CASE \/ RecoverSelect(w) \/ RecoverLeak(w) \/ ClaimNothing(w) \/ LoadParent(w)
             \/ HandoffBreaks(w)
    BY <2>5, <1>u DEF RecoverSelect, RecoverLeak, ClaimNothing, LoadParent, HandoffBreaks,
             queueVars
  <2> QED
    BY <1>1, <2>1, <2>2, <2>3, <2>4, <2>5 DEF WorkerStep, CalmStep, RecoverUpdate, RecoverSteal
<1>2. ASSUME MasterStep PROVE CompletedStays
  <2>1. CASE Repair \/ HistoryDelete
    BY <2>1, <1>d DEF Repair, repair_active_orphans, HistoryDelete
  <2>2. CASE Bootstrap \/ Spawn \/ Shadow
    BY <2>2, <1>a, <1>u DEF Bootstrap, Spawn, Shadow, queueVars
  <2>3. CASE CompactResults
    BY <2>3, <1>q DEF CompactResults, DropResults, CompletedStays
  <2>4. CASE RequeueFailed
    BY <2>4, <1>q DEF RequeueFailed, RequeueReady, requeue_failed, CompletedStays, TypeOK
  <2>5. CASE Decide
    BY <2>5, <1>u DEF Decide, mark_planner_decision
  <2>6. CASE HistoryKeep \/ HistorySelect \/ HistoryProtect \/ Load \/ Guard \/ PlanDone \/ SpawnDone
    BY <2>6, <1>u DEF HistoryKeep, HistorySelect, HistoryProtect, Load, Guard, PlanDone, SpawnDone,
           queueVars
  <2> QED
    BY <1>2, <2>1, <2>2, <2>3, <2>4, <2>5, <2>6 DEF MasterStep
<1>3. ASSUME NEW w \in Workers, WorkerCrash(w) PROVE CompletedStays
  BY <1>3, <1>u DEF WorkerCrash, queueVars
<1>4. ASSUME MasterCrash PROVE CompletedStays
  BY <1>4, <1>u DEF MasterCrash, queueVars
<1>5. ASSUME Submit PROVE CompletedStays
  BY <1>5, <1>a DEF Submit
<1>6. ASSUME NEW t \in TaskId, Age(t) PROVE CompletedStays
  BY <1>6, <1>u DEF Age
<1> QED
  BY <1>1, <1>2, <1>3, <1>4, <1>5, <1>6 DEF Next, Others

\* A stored success is final in every behaviour, also when rows are stolen:
\* the late finish or fail of a worker that lost its row never overwrites it.
THEOREM CompletedFinal == Spec => CompletedIsFinal
<1>1. TypeOK /\ [Next]_vars => [CompletedStays]_vars
  BY StepKeepsCompleted
<1>2. Spec => []TypeOK
  BY TypeCorrect
<1> QED
  BY <1>1, <1>2, PTL DEF Spec, CompletedIsFinal
\* What keeps a row claimable: its own columns, and its parent's success.
LEMMA ClaimableKept ==
  ASSUME \A t \in TaskId : Claimable(t) =>
           /\ meta'[t] = meta[t]
           /\ status'[t] \in {"pending", "running"}
           /\ \A p \in TaskId : p = Parent(t) /\ status[p] = "completed" /\ result[p] # "null"
                => status'[p] = "completed" /\ result'[p] # "null"
  PROVE  StaysClaimable
<1> SUFFICES ASSUME NEW t \in TaskId, Claimable(t), status'[t] # "running"
             PROVE  Claimable(t)'
  BY DEF StaysClaimable
<1>1. status'[t] = "pending" /\ Parent(t)' = Parent(t) /\ meta'[t].afp = meta[t].afp
  BY DEF Parent
<1>2. ParentReady(t) => ParentReady(t)'
  BY <1>1 DEF ParentReady
<1> QED
  BY <1>1, <1>2 DEF Claimable

\* The parent of a pending row is one of the rows whose results are kept.
LEMMA PendingParentKept ==
  ASSUME TypeOK, NEW t \in TaskId, status[t] = "pending", Parent(t) \in TaskId
  PROVE  Parent(t) \in Ancestors
<1> DEFINE p == [i \in 0..1 |-> IF i = 0 THEN t ELSE Parent(t)]
<1>1. p \in [0..1 -> TaskId] /\ p[0] = t /\ p[1] = Parent(t) /\ 1 \in 0..AncestorDepth
  OBVIOUS
<1>2. AncestorPath(p, 1)
  <2>1. t \in Frontier /\ Present(t)
    BY DEF Frontier, Present, Active
  <2>2. \A i \in 0..(1-1) : i = 0
    OBVIOUS
  <2> QED
    BY <1>1, <2>1, <2>2 DEF AncestorPath
<1> QED
  BY <1>1, <1>2 DEF Ancestors

\* From a state of IInv every step leaves a claimable row claimable, or claims it.
LEMMA StepKeepsClaimable ==
  ASSUME IInv, Next
  PROVE  StaysClaimable
<1>q. /\ TypeOK /\ QueueTypeOK /\ status \in [TaskId -> Status]
      /\ result \in [TaskId -> Result] /\ meta \in [TaskId -> Meta]
  BY DEF IInv, TypeOK, QueueTypeOK
<1>p. \A t \in TaskId : Claimable(t) => status[t] = "pending"
  BY DEF Claimable
<1>u. ASSUME status' = status, result' = result, meta' = meta PROVE StaysClaimable
  BY <1>u, <1>p, ClaimableKept
<1>a. ASSUME NEW c \in TaskId, Fresh(c), NEW r, NEW p, NEW f, NEW e, add(c, r, p, f, e)
      PROVE  StaysClaimable
  BY <1>a, <1>p, <1>q, ClaimableKept DEF Fresh, add
<1>f. ASSUME NEW t, Accepts(t), NEW r, finish(t) \/ fail(t, r) PROVE StaysClaimable
  BY <1>f, <1>p, <1>q, ClaimableKept DEF Accepts, finish, fail
<1>1. ASSUME NEW w \in Workers, WorkerStep(w) PROVE StaysClaimable
  <2>1. CASE RequeueStale(w)
    BY <2>1, <1>p, <1>q, ClaimableKept DEF RequeueStale, RequeueRunning, Stale
  <2>2. CASE Claim(w)
    BY <2>2, <1>p, <1>q, ClaimableKept DEF Claim, FirstClaimable, Claimable, claim
  <2>3. CASE CaseGateBlocked(w) \/ Finish(w) \/ Fail(w)
    BY <2>3, <1>f, <1>u DEF CaseGateBlocked, Finish, Fail, queueVars
  <2>4. CASE AskEvidence(w) \/ Handoff(w)
    BY <2>4, <1>a DEF AskEvidence, Handoff
  <2>5. CASE \/ RecoverSelect(w) \/ RecoverLeak(w) \/ ClaimNothing(w) \/ LoadParent(w)
             \/ HandoffBreaks(w)
    BY <2>5, <1>u DEF RecoverSelect, RecoverLeak, ClaimNothing, LoadParent, HandoffBreaks,
             queueVars
  <2> QED
    BY <1>1, <2>1, <2>2, <2>3, <2>4, <2>5 DEF WorkerStep, CalmStep, RecoverUpdate, RecoverSteal
<1>2. CASE Repair
  <2>1. DeleteRows(Doomed) /\ Doomed \subseteq LegacyRows
    BY <1>2, DoomedIsLegacy DEF Repair, repair_active_orphans, IInv
  <2>2. \A t \in TaskId : Claimable(t) => t \notin Doomed
    BY <2>1, <1>q, LegacyNotClaimable DEF IInv
  <2>3. \A t \in TaskId : status[t] = "completed" => t \notin Doomed
    BY <2>1 DEF LegacyRows, IInv, LegacyShape
  <2> QED
    BY <2>1, <2>2, <2>3, <1>p, ClaimableKept DEF DeleteRows
<1>3. CASE HistoryDelete
  <2>1. \A t \in TaskId : Claimable(t) => t \notin cand \ prot
    BY <1>3, <1>p DEF HistoryDelete, IInv, CandFinished, Finished
  <2>2. \A t \in TaskId : Claimable(t) => Parent(t) \notin cand \ prot
    BY <1>3, <1>p, <2>1 DEF HistoryDelete, IInv, DeleteSafe, Present, Active
  <2> QED
    BY <1>3, <2>1, <2>2, <1>p, ClaimableKept DEF HistoryDelete, DeleteRows
<1>4. CASE CompactResults
  <2>1. PICK T \in SUBSET ResultCandidates : DropResults(T)
    BY <1>4 DEF CompactResults
  <2>2. \A t \in TaskId : Claimable(t) /\ Parent(t) \in TaskId => Parent(t) \notin T
    BY <1>p, <1>q, PendingParentKept DEF ResultCandidates
  <2> QED
    BY <2>1, <2>2, <1>p, ClaimableKept DEF DropResults
<1>5. CASE Bootstrap \/ Spawn \/ Shadow
  BY <1>5, <1>a, <1>u DEF Bootstrap, Spawn, Shadow, queueVars
<1>6. CASE RequeueFailed
  BY <1>6, <1>p, <1>q, ClaimableKept DEF RequeueFailed, RequeueReady, requeue_failed, TypeOK
<1>7. CASE Decide
  BY <1>7, <1>u DEF Decide, mark_planner_decision
<1>8. CASE HistoryKeep \/ HistorySelect \/ HistoryProtect \/ Load \/ Guard \/ PlanDone \/ SpawnDone
  BY <1>8, <1>u DEF HistoryKeep, HistorySelect, HistoryProtect, Load, Guard, PlanDone, SpawnDone,
           queueVars
<1>9. ASSUME NEW w \in Workers, WorkerCrash(w) PROVE StaysClaimable
  BY <1>9, <1>u DEF WorkerCrash, queueVars
<1>10. CASE MasterCrash
  BY <1>10, <1>u DEF MasterCrash, queueVars
<1>11. CASE Submit
  BY <1>11, <1>a DEF Submit
<1>12. ASSUME NEW t \in TaskId, Age(t) PROVE StaysClaimable
  BY <1>12, <1>u DEF Age
<1> QED
  BY <1>1, <1>2, <1>3, <1>4, <1>5, <1>6, <1>7, <1>8, <1>9, <1>10, <1>11, <1>12
  DEF Next, Others, MasterStep

\* While no row is stolen, neither result compaction nor history compaction nor
\* orphan repair ever takes away what a claimable row needs.
THEOREM ClaimableKeeps == SpecNoSteal => ClaimableUntilClaimed
<1>1. SpecNoSteal => []IInv
  BY InitInv, NextInv, PTL DEF SpecNoSteal
<1>2. IInv /\ [NextNoSteal]_vars => [StaysClaimable]_vars
  BY StepKeepsClaimable, NoStealIsNext
<1> QED
  BY <1>1, <1>2, PTL DEF SpecNoSteal, ClaimableUntilClaimed
=============================================================================
