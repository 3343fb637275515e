-------------------------------- MODULE Farm --------------------------------
(***************************************************************************)
(* The farm: worker processes (agents/worker.py), the master process       *)
(* (orchestrator/master.py) and the operator's `tasks submit` command, all *)
(* sharing one SQLite task queue (module TaskQueue).                       *)
(*                                                                         *)
(* One action is one transaction, or the code between two transactions     *)
(* that touches nothing shared.  What a process has read and not yet used  *)
(* is in its local variables, so every interleaving of two processes       *)
(* between their statements is a behaviour.                                *)
(*                                                                         *)
(* A worker is a process incarnation: once dead it stays dead, and its     *)
(* replacement is another member of Workers.  The LLM and tool runs of an  *)
(* agent are a choice between the outcomes run_once tells apart.           *)
(***************************************************************************)
EXTENDS TaskQueue

CONSTANTS RoleOf,         \* RoleOf[w]: the role the process was started for
          Mortal,         \* workers that may be killed at any moment
          PlannerRoles,   \* roles the planner and the operator create tasks for
          MaxSubmits,     \* bound: roots added by `aegisforge tasks submit`
          MaxMasterCrash, \* bound: restarts of the master
          KeepRecent,     \* keep_recent, master.py:2632 (500)
          HistoryLimit,   \* limit of compact_history, master.py:2633 (1000)
          MaxRecover,     \* MAX_FAILED_RECOVERIES_PER_CYCLE, master.py:40 (3)
          MaxPerPlan,     \* MAX_TASKS_PER_PLAN, master.py:37 (6)
          MaxLive,        \* MAX_LIVE_TASKS, master.py:38 (24)
          LegacyOrphan    \* does the database start with a legacy orphan?

ASSUME FarmAssumption ==
  /\ RoleOf \in [Workers -> Role]
  /\ Mortal \subseteq Workers
  /\ PlannerRoles \subseteq Role \ {"executor"}
  /\ MaxSubmits \in Nat /\ MaxMasterCrash \in Nat
  /\ KeepRecent \in Nat \ {0} /\ HistoryLimit \in Nat \ {0}
  /\ MaxRecover \in Nat
  /\ MaxPerPlan \in Nat /\ MaxLive \in Nat
  /\ LegacyOrphan \in BOOLEAN
  /\ LegacyOrphan => MaxTasks >= 2

VARIABLES
  pc,       \* pc[w]: where worker w is in run_once
  snap,     \* snap[w]: (id, worker) pairs its stale-row SELECT returned
  task,     \* task[w]: the row it claimed
  ran,      \* history, read by properties only: the mortal workers that
            \* ever claimed the row
  mpc,      \* where the master is in its loop
  kept,     \* master: ids of compact_history, the rows it keeps as recent
  cand,     \* master: candidate_ids of compact_history
  prot,     \* master: protected of compact_history
  plan,     \* master: ids of the rows loaded for this planning pass
  cur,      \* master: the row whose children are being created
  budget,   \* master: creation_budget - created
  recov,    \* master: len(recovered)
  submits, crashes    \* bounds

workerVars == <<pc, snap, task, ran>>
planVars   == <<kept, cand, prot, plan, cur, budget, recov>>
vars == <<queueVars, workerVars, mpc, planVars, submits, crashes>>

WorkerPC == {"idle", "scanned", "ready", "claimed", "loaded",
             "asked", "handing", "failing", "lastfail", "dead"}
MasterPC == {"repair", "bootstrap", "compact", "keep", "select", "protect", "delete",
             "load", "recover", "decide", "spawn", "shadow"}

\* Type correctness of the queue table and of what workers and the master have
\* read from it.
TypeOK ==
  /\ QueueTypeOK
  /\ pc \in [Workers -> WorkerPC]
  /\ snap \in [Workers -> SUBSET (TaskId \X Workers)]
  /\ task \in [Workers -> TaskId \cup {NoTask}]
  /\ ran \in [TaskId -> SUBSET Mortal]
  /\ mpc \in MasterPC
  /\ kept \subseteq TaskId /\ cand \subseteq TaskId /\ prot \subseteq TaskId /\ plan \subseteq TaskId
  /\ cur \in TaskId \cup {NoTask}
  /\ budget \in Nat /\ recov \in Nat
  /\ submits \in Nat /\ crashes \in Nat

LegacyRows == {t \in TaskId : LegacyOrphan /\ t = 2}

Init ==
  /\ status = [t \in TaskId |-> CASE LegacyOrphan /\ t = 1 -> "deleted"
                                   [] LegacyOrphan /\ t = 2 -> "pending"
                                   [] OTHER -> "none"]
  /\ worker = [t \in TaskId |-> NoWorker]
  /\ aged = [t \in TaskId |-> FALSE]
  /\ result = [t \in TaskId |-> "null"]
  /\ retry = [t \in TaskId |-> 0]
  /\ decision = [t \in TaskId |-> "null"]
  /\ meta = [t \in TaskId |->
               [role |-> "agent", afp |-> FALSE, eval |-> FALSE,
                parent |-> IF LegacyOrphan /\ t = 2 THEN 1 ELSE NoTask]]
  /\ pc = [w \in Workers |-> "idle"]
  /\ snap = [w \in Workers |-> {}]
  /\ task = [w \in Workers |-> NoTask]
  /\ ran = [t \in TaskId |-> {}]
  /\ mpc = "repair"
  /\ kept = {} /\ cand = {} /\ prot = {} /\ plan = {} /\ cur = NoTask
  /\ budget = 0 /\ recov = 0
  /\ submits = 0 /\ crashes = 0

Alive(w) == pc[w] # "dead"

masterUnchanged == UNCHANGED <<mpc, planVars, submits, crashes, ran>>

-----------------------------------------------------------------------------
(* Worker: run_once *)

\* recover_stale_running, the SELECT.  A pass that selects nothing touches
\* nothing, and is part of the Claim that follows it.
RecoverSelect(w) ==
  /\ pc[w] = "idle" /\ StaleRows # {}
  /\ snap' = [snap EXCEPT ![w] = StaleRows]
  /\ pc' = [pc EXCEPT ![w] = "scanned"]
  /\ UNCHANGED <<queueVars, task>> /\ masterUnchanged

\* The os.kill probe dropped: whoever is old enough counts as dead.
SeededDead(w) == snap[w]

Dead(w) == {p \in snap[w] : ~Alive(p[2])}

\* The rows whose UPDATE ... WHERE id = ? AND status = 'running' matches.
Stale(w) == {t \in TaskId : /\ \E p \in Dead(w) : p[1] = t
                            /\ status[t] = "running"}

\* Those among them that another worker has claimed since the SELECT.
Stolen(w) == {t \in Stale(w) : Alive(worker[t])}

\* recover_stale_running, the UPDATEs and the commit.
RequeueStale(w) ==
  /\ pc[w] = "scanned"
  /\ Dead(w) = {} \/ Stale(w) # {}
  /\ RequeueRunning(Stale(w))
  /\ snap' = [snap EXCEPT ![w] = {}]
  /\ pc' = [pc EXCEPT ![w] = "ready"]
  /\ UNCHANGED task /\ masterUnchanged

RecoverUpdate(w) == Stolen(w) = {} /\ RequeueStale(w)

\* The UPDATE does not look at the worker it probed, and takes rows from the living.
RecoverSteal(w) == Stolen(w) # {} /\ RequeueStale(w)

\* Every UPDATE matched nothing, so `if recovered` skips the commit and the
\* implicit transaction stays open; the BEGIN IMMEDIATE of the claim that
\* follows raises outside any handler and ends the process.
RecoverLeak(w) ==
  /\ pc[w] = "scanned"
  /\ Dead(w) # {} /\ Stale(w) = {}
  /\ snap' = [snap EXCEPT ![w] = {}]
  /\ pc' = [pc EXCEPT ![w] = "dead"]
  /\ UNCHANGED <<queueVars, task>> /\ masterUnchanged

Claim(w) ==
  /\ pc[w] = "ready" \/ (pc[w] = "idle" /\ StaleRows = {})
  /\ \E t \in TaskId :
       /\ FirstClaimable(t, RoleOf[w])
       /\ claim(t, w)
       /\ task' = [task EXCEPT ![w] = t]
       /\ ran' = [ran EXCEPT ![t] = @ \cup ({w} \cap Mortal)]
  /\ pc' = [pc EXCEPT ![w] = "claimed"]
  /\ UNCHANGED <<snap, mpc, planVars, submits, crashes>>

\* claim() finds no row after a recovery pass; main sleeps and starts over.
ClaimNothing(w) ==
  /\ pc[w] = "ready"
  /\ ~\E t \in TaskId : FirstClaimable(t, RoleOf[w])
  /\ pc' = [pc EXCEPT ![w] = "idle"]
  /\ UNCHANGED <<queueVars, snap, task>> /\ masterUnchanged

\* The research-case gate refuses the row.  Its fail() is outside the try
\* block: when the row is no longer running the exception ends the process.
CaseGateBlocked(w) ==
  /\ pc[w] = "claimed"
  /\ \/ /\ Accepts(task[w])
        /\ fail(task[w], "permanent")
        /\ pc' = [pc EXCEPT ![w] = "idle"]
     \/ /\ ~Accepts(task[w])
        /\ pc' = [pc EXCEPT ![w] = "dead"]
        /\ UNCHANGED queueVars
  /\ task' = [task EXCEPT ![w] = NoTask]
  /\ UNCHANGED snap /\ masterUnchanged

\* get_result(parent_task_id): a missing row and a NULL result are both None.
ParentHasResult(t) == \/ Parent(t) = NoTask
                      \/ \E p \in TaskId : p = Parent(t) /\ result[p] # "null"

LoadParent(w) ==
  /\ pc[w] = "claimed"
  /\ pc' = [pc EXCEPT ![w] = IF ParentHasResult(task[w]) THEN "loaded" ELSE "lastfail"]
  /\ UNCHANGED <<queueVars, snap, task>> /\ masterUnchanged

\* REQUIRE_EVIDENCE: the validator's task is inserted before the blocked task
\* is failed.
AskEvidence(w) ==
  /\ pc[w] = "loaded" /\ RoleOf[w] # "executor"
  /\ \E c \in TaskId : /\ Fresh(c)
                       /\ add(c, "validator", task[w], TRUE, FALSE)
  /\ pc' = [pc EXCEPT ![w] = "asked"]
  /\ UNCHANGED <<snap, task>> /\ masterUnchanged

\* A verified evidence request: the executor's task is inserted before the
\* validator's own task is finished.
Handoff(w) ==
  /\ pc[w] = "loaded" /\ RoleOf[w] = "validator" /\ meta[task[w]].afp
  /\ \E c \in TaskId : /\ Fresh(c)
                       /\ add(c, "executor", task[w], FALSE, FALSE)
  /\ pc' = [pc EXCEPT ![w] = "handing"]
  /\ UNCHANGED <<snap, task>> /\ masterUnchanged

\* finish() of a successful run.  When the row is no longer running it raises
\* RuntimeError, which the executor branch turns into a fail() of its own and
\* run_once's outermost handler into the last one.
Finish(w) ==
  /\ pc[w] \in {"loaded", "handing"}
  /\ \/ /\ Accepts(task[w])
        /\ finish(task[w])
        /\ pc' = [pc EXCEPT ![w] = "idle"]
        /\ task' = [task EXCEPT ![w] = NoTask]
     \/ /\ ~Accepts(task[w])
        /\ pc' = [pc EXCEPT ![w] = IF RoleOf[w] = "executor" THEN "failing"
                                                             ELSE "lastfail"]
        /\ UNCHANGED <<queueVars, task>>
  /\ UNCHANGED snap /\ masterUnchanged

\* Memory's save or finish itself raises after the executor's task was inserted:
\* only the outermost handler is left, and the executor's task stays.
HandoffBreaks(w) ==
  /\ pc[w] = "handing"
  /\ pc' = [pc EXCEPT ![w] = "lastfail"]
  /\ UNCHANGED <<queueVars, snap, task>> /\ masterUnchanged

\* What fail() stores: the agent's own record (None included), the blocked
\* task's CapabilityEvidenceRequired, the executor branch's RuntimeError, or
\* the outermost handler's record.
FailRecords(w) ==
  CASE pc[w] = "loaded" /\ RoleOf[w] # "executor" -> {"null", "retryable", "permanent"}
    [] pc[w] = "loaded" /\ RoleOf[w] = "executor" -> {"retryable", "permanent"}
    [] pc[w] = "failing"                          -> {"retryable"}
    [] OTHER                                      -> {"permanent"}

\* fail().  A rejected fail() raises into the outermost handler, which tries
\* once more and swallows its own rejection.
Fail(w) ==
  /\ pc[w] \in {"loaded", "asked", "failing", "lastfail"}
  /\ \/ /\ Accepts(task[w])
        /\ \E r \in FailRecords(w) : fail(task[w], r)
        /\ pc' = [pc EXCEPT ![w] = "idle"]
        /\ task' = [task EXCEPT ![w] = NoTask]
     \/ /\ ~Accepts(task[w]) /\ pc[w] # "lastfail"
        /\ pc' = [pc EXCEPT ![w] = "lastfail"]
        /\ UNCHANGED <<queueVars, task>>
     \/ /\ ~Accepts(task[w]) /\ pc[w] = "lastfail"
        /\ pc' = [pc EXCEPT ![w] = "idle"]
        /\ task' = [task EXCEPT ![w] = NoTask]
        /\ UNCHANGED queueVars
  /\ UNCHANGED snap /\ masterUnchanged

\* A step of run_once other than the two bad ends of a recovery pass.
CalmStep(w) ==
  \/ RecoverSelect(w) \/ RecoverUpdate(w)
  \/ Claim(w) \/ ClaimNothing(w) \/ CaseGateBlocked(w) \/ LoadParent(w)
  \/ AskEvidence(w) \/ Handoff(w) \/ Finish(w) \/ HandoffBreaks(w) \/ Fail(w)

WorkerStep(w) == CalmStep(w) \/ RecoverLeak(w) \/ RecoverSteal(w)

-----------------------------------------------------------------------------
(* Master: MasterOrchestrator.run and DynamicPlanner.plan *)

workersUnchanged == UNCHANGED <<workerVars, submits, crashes>>

Repair ==
  /\ mpc = "repair"
  /\ repair_active_orphans
  /\ mpc' = "bootstrap"
  /\ UNCHANGED planVars /\ workersUnchanged

\* The path without registered research cases.
Bootstrap ==
  /\ mpc = "bootstrap"
  /\ \/ /\ has_planner_work \/ ~\E t \in TaskId : Fresh(t)
        /\ UNCHANGED queueVars
     \/ /\ ~has_planner_work
        /\ \E t \in TaskId : /\ Fresh(t)
                             /\ add(t, "agent", NoTask, FALSE, FALSE)
  /\ mpc' = "compact"
  /\ UNCHANGED planVars /\ workersUnchanged

\* finished_at < cutoff and LIMIT pick any part of the candidates.
CompactResults ==
  /\ mpc = "compact"
  /\ \E T \in SUBSET ResultCandidates : DropResults(T)
  /\ mpc' = "keep"
  /\ UNCHANGED planVars /\ workersUnchanged

\* compact_history reads the KeepRecent most recently finished rows.  Finishing
\* times are stamps of several processes' clocks, so any of them may be those.
HistoryKeep ==
  /\ mpc = "keep"
  /\ kept' \in SUBSET FinishedRows
  /\ Cardinality(kept') <= KeepRecent
  /\ kept' # FinishedRows => Cardinality(kept') = KeepRecent
  /\ mpc' = IF kept' = {} THEN "load" ELSE "select"
  /\ UNCHANGED <<queueVars, cand, prot, plan, cur, budget, recov>> /\ workersUnchanged

\* Up to `limit` finished rows outside those are the candidates: a row that was
\* finished after the first SELECT is one, however recent it is.
HistorySelect ==
  /\ mpc = "select"
  /\ cand' \in SUBSET (FinishedRows \ kept)
  /\ Cardinality(cand') <= HistoryLimit
  /\ cand' # FinishedRows \ kept => Cardinality(cand') = HistoryLimit
  /\ kept' = {}
  /\ mpc' = IF cand' = {} THEN "load" ELSE "protect"
  /\ UNCHANGED <<queueVars, prot, plan, cur, budget, recov>> /\ workersUnchanged

HistoryProtect ==
  /\ mpc = "protect"
  /\ prot' = Protected(cand)
  /\ mpc' = "delete"
  /\ UNCHANGED <<queueVars, kept, cand, plan, cur, budget, recov>> /\ workersUnchanged

\* DELETE ... WHERE id IN (...): neither status nor children are checked again.
HistoryDelete ==
  /\ mpc = "delete"
  /\ DeleteRows(cand \ prot)
  /\ cand' = {} /\ prot' = {}
  /\ mpc' = "load"
  /\ UNCHANGED <<kept, plan, cur, budget, recov>> /\ workersUnchanged

Load ==
  /\ mpc = "load"
  /\ plan' = planning_tasks
  /\ mpc' = "recover"
  /\ UNCHANGED <<queueVars, kept, cand, prot, cur, budget, recov>> /\ workersUnchanged

\* recover_failed_tasks, one row.
RequeueFailed ==
  /\ mpc = "recover" /\ recov < MaxRecover
  /\ \E t \in plan : /\ result[t] = "retryable"
                     /\ RequeueReady(t)
                     /\ requeue_failed(t)
  /\ recov' = recov + 1
  /\ UNCHANGED <<mpc, kept, cand, prot, plan, cur, budget>> /\ workersUnchanged

\* The failed rows left over are cooling down, out of retries or beyond the
\* cycle's limit; the rows are loaded again when some were requeued.
Planned == IF recov > 0 THEN planning_tasks ELSE plan

\* DAG_ERROR, EMPTY and BACKPRESSURE end the pass; the next one starts over.
Guard ==
  /\ mpc = "recover"
  /\ \/ /\ \/ active_orphans # {} \/ Planned = {}
           \/ LiveCount >= MaxLive
        /\ mpc' = "repair" /\ plan' = {} /\ UNCHANGED budget
     \/ /\ active_orphans = {} /\ Planned # {}
        /\ LiveCount < MaxLive
        /\ budget' = IF MaxPerPlan <= MaxLive - LiveCount
                     THEN MaxPerPlan ELSE MaxLive - LiveCount
        /\ mpc' = "decide" /\ plan' = Planned
  /\ recov' = 0
  /\ UNCHANGED <<queueVars, kept, cand, prot, cur>> /\ workersUnchanged

Successful(t) == status[t] = "completed" /\ result[t] = "ok"

\* choose_next, and the decision is stored before any child exists.
Decide ==
  /\ mpc = "decide"
  /\ \E t \in plan, d \in {"open", "terminal"} :
       /\ Successful(t)
       /\ mark_planner_decision(t, d)
       /\ plan' = plan \ {t}
       /\ cur' = IF d = "open" THEN t ELSE NoTask
       /\ mpc' = IF d = "open" THEN "spawn" ELSE "decide"
  /\ UNCHANGED <<kept, cand, prot, budget, recov>> /\ workersUnchanged

PlanDone ==
  /\ mpc = "decide"
  /\ ~\E t \in plan : Successful(t)
  /\ plan' = {} /\ budget' = 0 /\ mpc' = "repair"
  /\ UNCHANGED <<queueVars, kept, cand, prot, cur, recov>> /\ workersUnchanged

Spawn ==
  /\ mpc = "spawn" /\ budget > 0
  /\ \E c \in TaskId, r \in PlannerRoles :
       /\ Fresh(c)
       /\ add(c, r, cur, FALSE, FALSE)
  /\ budget' = budget - 1
  /\ mpc' = "shadow"
  /\ UNCHANGED <<kept, cand, prot, plan, cur, recov>> /\ workersUnchanged

\* create_shadow_evaluation's task; budget and live limit do not count it.
Shadow ==
  /\ mpc = "shadow"
  /\ \/ UNCHANGED queueVars
     \/ \E c \in TaskId, r \in PlannerRoles :
          /\ Fresh(c)
          /\ add(c, r, cur, FALSE, TRUE)
  /\ mpc' = "spawn"
  /\ UNCHANGED planVars /\ workersUnchanged

\* The decision's task list is used up (or all duplicates, or over budget).
SpawnDone ==
  /\ mpc = "spawn"
  /\ cur' = NoTask /\ mpc' = "decide"
  /\ UNCHANGED <<queueVars, kept, cand, prot, plan, budget, recov>> /\ workersUnchanged

MasterStep ==
  \/ Repair \/ Bootstrap \/ CompactResults
  \/ HistoryKeep \/ HistorySelect \/ HistoryProtect \/ HistoryDelete
  \/ Load \/ RequeueFailed \/ Guard
  \/ Decide \/ PlanDone \/ Spawn \/ Shadow \/ SpawnDone

-----------------------------------------------------------------------------
(* Environment *)

Submit ==
  /\ submits < MaxSubmits
  /\ \E t \in TaskId, r \in PlannerRoles :
       /\ Fresh(t)
       /\ add(t, r, NoTask, FALSE, FALSE)
  /\ submits' = submits + 1
  /\ UNCHANGED <<workerVars, mpc, planVars, crashes>>

\* stale_minutes pass.  Mortal bounds the rows that recovery passes look at: a
\* pass skips the row of a living worker whatever its age, so only the rows of
\* workers that may be killed while they hold one grow old.
Age(t) ==
  /\ status[t] = "running" /\ ~aged[t] /\ worker[t] \in Mortal
  /\ aged' = [aged EXCEPT ![t] = TRUE]
  /\ UNCHANGED <<status, worker, result, retry, decision, meta>>
  /\ UNCHANGED <<workerVars, mpc, planVars, submits, crashes>>

WorkerCrash(w) ==
  /\ w \in Mortal /\ Alive(w)
  /\ pc' = [pc EXCEPT ![w] = "dead"]
  /\ snap' = [snap EXCEPT ![w] = {}]
  /\ task' = [task EXCEPT ![w] = NoTask]
  /\ UNCHANGED <<queueVars, ran, mpc, planVars, submits, crashes>>

\* The master is killed, or an exception reaches the handler in run.
MasterCrash ==
  /\ crashes < MaxMasterCrash
  /\ crashes' = crashes + 1
  /\ mpc' = "repair"
  /\ kept' = {} /\ cand' = {} /\ prot' = {} /\ plan' = {} /\ cur' = NoTask
  /\ budget' = 0 /\ recov' = 0
  /\ UNCHANGED <<queueVars, workerVars, submits>>

\* Everybody but the workers' own steps.
Others ==
  \/ \E w \in Workers : WorkerCrash(w)
  \/ MasterStep \/ MasterCrash
  \/ Submit
  \/ \E t \in TaskId : Age(t)

Next == (\E w \in Workers : WorkerStep(w)) \/ Others

Spec == Init /\ [][Next]_vars

\* The behaviours in which no recovery pass takes a live worker's row.  What holds
\* of them holds of every behaviour up to its first stolen row.
NextNoSteal == (\E w \in Workers : CalmStep(w) \/ RecoverLeak(w)) \/ Others

SpecNoSteal == Init /\ [][NextNoSteal]_vars

-----------------------------------------------------------------------------
(* Properties *)

Holding == {"claimed", "loaded", "asked", "handing", "failing", "lastfail"}

\* A worker that is dead by now once ran the row.
Exposed(t) == \E d \in ran[t] : ~Alive(d)

\* A worker that is processing a row is the one the table names as its owner,
\* from the claim to the finish or fail, unless a worker that is dead by now ran
\* the very row before.  Only such a row is ever processed twice at one time: a
\* recovery pass that probed the dead worker takes it from whoever runs it now,
\* and the late finish or fail of one victim ends the run of the next.
OwnerUnlessExposed ==
  \A w \in Workers : pc[w] \in Holding =>
    Exposed(task[w]) \/ (status[task[w]] = "running" /\ worker[task[w]] = w)

\* No interleaving of history compaction, orphan repair and the processes that
\* insert children leaves a runnable row whose parent row is gone.
NoNewOrphans == active_orphans \subseteq LegacyRows

\* A row a worker could claim stays claimable until it is claimed: neither
\* result compaction nor history compaction takes away the parent (result)
\* it waits on.
StaysClaimable ==
  \A t \in TaskId : Claimable(t) => Claimable(t)' \/ status'[t] = "running"
ClaimableUntilClaimed == [][StaysClaimable]_vars

\* A stored success is final: a late finish or fail of a worker that lost the
\* row, a retry or a recovery never changes it; only compaction may drop it.
CompletedStays ==
  \A t \in TaskId : status[t] = "completed" =>
    \/ status'[t] = "deleted"
    \/ /\ status'[t] = "completed"
       /\ result'[t] \in {result[t], "null"}
CompletedIsFinal == [][CompletedStays]_vars

-----------------------------------------------------------------------------
(* The strengthening that makes NoNewOrphans inductive, while no row is    *)
(* taken from the living.                                                  *)

\* OwnerUnlessExposed without its exception.
OwnerHolds ==
  \A w \in Workers : pc[w] \in Holding =>
    /\ task[w] \in TaskId
    /\ status[task[w]] = "running" /\ worker[task[w]] = w

\* The legacy orphan is never claimed, so it has no children.
LegacyShape ==
  LegacyOrphan =>
    /\ status[1] = "deleted"
    /\ \/ status[2] = "deleted"
       \/ status[2] = "pending" /\ Parent(2) = 1 /\ ~meta[2].afp
    /\ \A t \in TaskId : Present(t) => Parent(t) # 2

\* Every other row that is still there has its parent row.
ParentsPresent ==
  \A t \in TaskId \ LegacyRows :
    Present(t) /\ Parent(t) # NoTask => Parent(t) \in TaskId /\ Present(Parent(t))

\* compact_history's candidates stay finished until they are deleted, ...
CandFinished == mpc \in {"protect", "delete"} => \A t \in cand : status[t] \in Finished

\* ... and no row that survives the DELETE has its parent among the removed.
DeleteSafe ==
  mpc = "delete" =>
    \A t \in TaskId : Present(t) /\ Parent(t) \in cand \ prot => t \in cand \ prot

\* The row the planner creates children for is still there.
CurCompleted ==
  mpc \in {"spawn", "shadow"} => cur \in TaskId /\ status[cur] = "completed"

IInv == /\ TypeOK /\ OwnerHolds /\ LegacyShape /\ ParentsPresent
        /\ CandFinished /\ DeleteSafe /\ CurCompleted

-----------------------------------------------------------------------------
(* The strengthening that makes OwnerUnlessExposed inductive. *)

\* A running row has an owner, which ran knows of; only mortal workers' rows age.
OwnersRan ==
  \A t \in TaskId : status[t] = "running" =>
    /\ worker[t] \in Workers
    /\ worker[t] \in Mortal => worker[t] \in ran[t]
    /\ aged[t] => worker[t] \in Mortal

\* A recovery pass probes workers that ran the row.
SnapRan == \A v \in Workers : \A p \in snap[v] : p[2] \in ran[p[1]]

TasksHeld == \A w \in Workers : pc[w] \in Holding => task[w] \in TaskId

OInv == /\ TypeOK /\ CandFinished /\ OwnersRan /\ SnapRan /\ TasksHeld
        /\ OwnerUnlessExposed

-----------------------------------------------------------------------------
(* Liveness.  A worker and the master loop for ever (sleep 5 and sleep 15),*)
(* agents return, and time passes: weak fairness of each process and of    *)
(* Age.  Nothing forces a submit, a crash or a restart.                    *)

Fairness == /\ \A w \in Workers : WF_vars(WorkerStep(w))
            /\ WF_vars(MasterStep)
            /\ \A t \in TaskId : WF_vars(Age(t))

\* Fair behaviours in which recovery passes neither steal nor leak.
NextCalm == (\E w \in Workers : CalmStep(w)) \/ Others

CalmSpec == Init /\ [][NextCalm]_vars /\ Fairness

\* A row whose worker died while running it does not stay with the dead.
DeadRowsRecovered ==
  \A t \in TaskId : (status[t] = "running" /\ ~Alive(worker[t]))
                     ~> ~(status[t] = "running" /\ ~Alive(worker[t]))

\* A claimable row whose role still has a worker is claimed some day.
ClaimableIsClaimed ==
  \A t \in TaskId :
    (Claimable(t) /\ \E w \in Workers \ Mortal : RoleOf[w] = meta[t].role)
      ~> status[t] # "pending"

\* A success that is waiting for the planner: no terminal decision, no child.
Waiting(t) == Unplanned(t) /\ Successful(t) /\ ~meta[t].eval

\* A waiting success is taken up by the planner again and again, until it has a
\* child or a terminal decision, or is compacted away: a decision whose children
\* were not created, because the master was killed or the budget used up, counts
\* for nothing.  The planner is put off only while MaxLive rows are active.
EventuallyPlanned ==
  []<>(LiveCount < MaxLive) =>
    \A t \in TaskId : Waiting(t) ~> (~Unplanned(t) \/ (mpc = "spawn" /\ cur = t))

=============================================================================
