----------------------------- MODULE TaskQueue -----------------------------
(***************************************************************************)
(* The `queue` table of shared/queue.py and the SQL statements that read   *)
(* and write it: one state function per query, one action per transaction. *)
(* The processes that issue them, and what happens between two statements  *)
(* of one process, are in module Farm.                                     *)
(*                                                                         *)
(* A row id (a uuid4 in the code) is a number, handed out in the order of  *)
(* `created_at`, the column the claim query orders by.  Ids are never      *)
(* reused: a removed row is "deleted", an id not handed out yet is "none". *)
(* Columns no statement here branches on (description, fingerprint, the    *)
(* planner economics) are left out; role, result and planner_decision are  *)
(* reduced to the classes the statements tell apart.                       *)
(*                                                                         *)
(* A definition named Seeded... is a faulty variant of the one it stands   *)
(* before; it is used only to show that a property notices the fault.      *)
(***************************************************************************)
EXTENDS Naturals, FiniteSets

CONSTANTS Workers,        \* worker process incarnations (worker_id has the pid)
          NoWorker,       \* the NULL of the worker column
          MaxTasks,       \* bound: rows ever inserted
          MaxRetries,     \* MAX_RETRIES_PER_TASK, master.py:41 (3)
          AncestorDepth   \* keep_ancestor_depth, master.py:2628 (4)

ASSUME QueueAssumption ==
  /\ NoWorker \notin Workers
  /\ MaxTasks \in Nat
  /\ MaxRetries \in Nat
  /\ AncestorDepth \in Nat \ {0}

VARIABLES
  status,    \* status column
  worker,    \* worker column: who claimed the row last
  aged,      \* started_at is older than stale_minutes
  result,    \* result column
  retry,     \* retry_count
  decision,  \* planner_decision
  meta       \* the columns only add() writes

queueVars == <<status, worker, aged, result, retry, decision, meta>>

TaskId == 1..MaxTasks
NoTask == 0

Role == {"agent", "validator", "executor"}

Active   == {"pending", "running"}
Finished == {"completed", "failed"}
Status   == {"none", "deleted"} \cup Active \cup Finished

\* "retryable" is a failure record whose error_type master.retryable_failure
\* accepts; "permanent" one it refuses, with a refused error_type or with none
\* (the record of run_once's outermost handler has "type" instead).
Result == {"null", "ok", "retryable", "permanent"}

\* NULL, one of CONTINUE/REFINE/VERIFY/BRANCH/ESCALATE, one of COMPLETE/ABORT.
Decision == {"null", "open", "terminal"}

\* afp is allow_failed_parent, eval is evaluation_only.
Meta == [role : Role, parent : TaskId \cup {NoTask}, afp : BOOLEAN, eval : BOOLEAN]

BlankMeta == [role |-> "agent", parent |-> NoTask, afp |-> FALSE, eval |-> FALSE]

\* Type correctness of the queue table.
QueueTypeOK ==
  /\ status \in [TaskId -> Status]
  /\ worker \in [TaskId -> Workers \cup {NoWorker}]
  /\ aged \in [TaskId -> BOOLEAN]
  /\ result \in [TaskId -> Result]
  /\ retry \in [TaskId -> 0..MaxRetries]
  /\ decision \in [TaskId -> Decision]
  /\ meta \in [TaskId -> Meta]

Parent(t)   == meta[t].parent
Present(t)  == status[t] \in Active \cup Finished
HasChild(t) == \E c \in TaskId : Present(c) /\ Parent(c) = t

\* The id the next INSERT receives.
Fresh(t) == /\ status[t] = "none"
            /\ \A u \in TaskId : u < t => status[u] # "none"

-----------------------------------------------------------------------------
(* INSERT *)

add(t, role, parent, afp, eval) ==
  /\ status' = [status EXCEPT ![t] = "pending"]
  /\ meta' = [meta EXCEPT ![t] = [role |-> role, parent |-> parent,
                                  afp |-> afp, eval |-> eval]]
  /\ UNCHANGED <<worker, aged, result, retry, decision>>

-----------------------------------------------------------------------------
(* claim: the oldest pending row of the role whose parent lets it run. *)

ParentReady(t) == \E p \in TaskId : /\ p = Parent(t)
                                    /\ status[p] = "completed"
                                    /\ result[p] # "null"

\* WHERE status = 'pending' dropped from the claim.
SeededClaimable(t) ==
  /\ status[t] \in Active
  /\ Parent(t) = NoTask \/ meta[t].afp \/ ParentReady(t)

Claimable(t) == /\ status[t] = "pending"
                /\ Parent(t) = NoTask \/ meta[t].afp \/ ParentReady(t)

\* "parent_task_id IS NULL OR" dropped from the claim.
SeededFirstClaimable(t, role) ==
  /\ status[t] = "pending" /\ meta[t].role = role
  /\ meta[t].afp \/ ParentReady(t)

FirstClaimable(t, role) ==
  /\ Claimable(t) /\ meta[t].role = role
  /\ \A u \in TaskId : u < t => ~(Claimable(u) /\ meta[u].role = role)

claim(t, w) ==
  /\ status' = [status EXCEPT ![t] = "running"]
  /\ worker' = [worker EXCEPT ![t] = w]
  /\ aged' = [aged EXCEPT ![t] = FALSE]
  /\ UNCHANGED <<result, retry, decision, meta>>

-----------------------------------------------------------------------------
(* finish and fail check the status and nothing else: not the worker. *)

\* AND status = 'running' dropped from finish and fail.
SeededAccepts(t) == Present(t)

Accepts(t) == status[t] = "running"

finish(t) ==
  /\ status' = [status EXCEPT ![t] = "completed"]
  /\ result' = [result EXCEPT ![t] = "ok"]
  /\ UNCHANGED <<worker, aged, retry, decision, meta>>

fail(t, r) ==
  /\ status' = [status EXCEPT ![t] = "failed"]
  /\ result' = [result EXCEPT ![t] = r]
  /\ UNCHANGED <<worker, aged, retry, decision, meta>>

-----------------------------------------------------------------------------
(* recover_stale_running: a SELECT, then one UPDATE per stale row. *)

\* The comparison with the cutoff inverted.
SeededStaleRows ==
  {x \in TaskId \X Workers : /\ status[x[1]] = "running" /\ ~aged[x[1]]
                             /\ worker[x[1]] = x[2]}

StaleRows ==
  {x \in TaskId \X Workers : /\ status[x[1]] = "running" /\ aged[x[1]]
                             /\ worker[x[1]] = x[2]}

RequeueRunning(T) ==
  /\ status' = [t \in TaskId |-> IF t \in T THEN "pending" ELSE status[t]]
  /\ worker' = [t \in TaskId |-> IF t \in T THEN NoWorker ELSE worker[t]]
  /\ aged' = [t \in TaskId |-> IF t \in T THEN FALSE ELSE aged[t]]
  /\ UNCHANGED <<result, retry, decision, meta>>

-----------------------------------------------------------------------------
(* requeue_failed: bounded retry of a failed row. *)

\* The retry limit dropped from requeue_failed.
SeededRequeueReady(t) ==
  status[t] = "failed" /\ (Parent(t) = NoTask \/ ParentReady(t))

RequeueReady(t) ==
  /\ status[t] = "failed"
  /\ retry[t] < MaxRetries
  /\ \/ Parent(t) = NoTask
     \/ ParentReady(t)
     \/ /\ meta[t].afp
        /\ \E p \in TaskId : /\ p = Parent(t)
                             /\ status[p] = "failed"
                             /\ result[p] # "null"

requeue_failed(t) ==
  /\ status' = [status EXCEPT ![t] = "pending"]
  /\ worker' = [worker EXCEPT ![t] = NoWorker]
  /\ aged' = [aged EXCEPT ![t] = FALSE]
  /\ retry' = [retry EXCEPT ![t] = @ + 1]
  /\ UNCHANGED <<result, decision, meta>>

-----------------------------------------------------------------------------
(* What the planner reads and marks. *)

\* A completed row still waiting for a decision or for a child.
Unplanned(t) == /\ status[t] = "completed"
                /\ decision[t] \in {"null", "open"}
                /\ ~HasChild(t)

\* The second arm of the UNION (rows without a decision) dropped.
SeededPlanningTasks ==
  {t \in TaskId : /\ ~meta[t].eval
                  /\ \/ status[t] = "failed"
                     \/ Unplanned(t) /\ decision[t] = "open"}

\* The third arm (rows with an open decision) dropped.
SeededOpenForgotten ==
  {t \in TaskId : /\ ~meta[t].eval
                  /\ \/ status[t] = "failed"
                     \/ Unplanned(t) /\ decision[t] = "null"}

planning_tasks == {t \in TaskId : /\ ~meta[t].eval
                                  /\ status[t] = "failed" \/ Unplanned(t)}

has_planner_work ==
  \E t \in TaskId : /\ ~meta[t].eval
                    /\ \/ status[t] \in Active
                       \/ /\ status[t] = "completed" /\ result[t] # "null"
                          /\ decision[t] = "null"

LiveCount == Cardinality({t \in TaskId : status[t] \in Active})

mark_planner_decision(t, d) ==
  /\ decision' = [decision EXCEPT ![t] = d]
  /\ UNCHANGED <<status, worker, aged, result, retry, meta>>

-----------------------------------------------------------------------------
(* DAG integrity *)

active_orphans ==
  {t \in TaskId : /\ status[t] \in Active
                  /\ Parent(t) # NoTask
                  /\ ~\E p \in TaskId : p = Parent(t) /\ Present(p)}

\* The recursive CTE `doomed`: pending orphans and their pending descendants.
DoomedClosed(S) ==
  \A t \in TaskId : /\ status[t] = "pending"
                    /\ t \in active_orphans \/ Parent(t) \in S
                    => t \in S

Doomed == {t \in TaskId : \A S \in SUBSET TaskId : DoomedClosed(S) => t \in S}

DeleteRows(T) ==
  /\ status'   = [t \in TaskId |-> IF t \in T THEN "deleted" ELSE status[t]]
  /\ worker'   = [t \in TaskId |-> IF t \in T THEN NoWorker ELSE worker[t]]
  /\ aged'     = [t \in TaskId |-> IF t \in T THEN FALSE ELSE aged[t]]
  /\ result'   = [t \in TaskId |-> IF t \in T THEN "null" ELSE result[t]]
  /\ retry'    = [t \in TaskId |-> IF t \in T THEN 0 ELSE retry[t]]
  /\ decision' = [t \in TaskId |-> IF t \in T THEN "null" ELSE decision[t]]
  /\ meta'     = [t \in TaskId |-> IF t \in T THEN BlankMeta ELSE meta[t]]

repair_active_orphans == DeleteRows(Doomed)

-----------------------------------------------------------------------------
(* compact_completed_results: one UPDATE over a recursive CTE. *)

Frontier == {t \in TaskId : \/ status[t] \in Active
                            \/ status[t] = "completed" /\ decision[t] = "null"
                            \/ Unplanned(t)}

\* p[0], p[1], ... p[k] follows parent_task_id upwards from the frontier.
AncestorPath(p, k) ==
  /\ p[0] \in Frontier
  /\ \A i \in 0..(k-1) : Present(p[i]) /\ p[i+1] = Parent(p[i])

\* keep_ancestor_depth = 0.
SeededAncestors == Frontier

Ancestors ==
  {t \in TaskId : \E k \in 0..AncestorDepth :
                    \E p \in [0..k -> TaskId] : p[k] = t /\ AncestorPath(p, k)}

ResultCandidates ==
  {t \in TaskId : status[t] = "completed" /\ result[t] # "null" /\ t \notin Ancestors}

DropResults(T) ==
  /\ result' = [t \in TaskId |-> IF t \in T THEN "null" ELSE result[t]]
  /\ UNCHANGED <<status, worker, aged, retry, decision, meta>>

-----------------------------------------------------------------------------
(* compact_history computes with these in four statements. *)

FinishedRows == {t \in TaskId : status[t] \in Finished}

\* S has every parent of a row outside cand, and of a row in S.
ProtectedClosed(cand, S) ==
  \A t \in TaskId : /\ Present(t)
                    /\ t \notin cand \/ t \in S
                    /\ Parent(t) \in TaskId
                    => Parent(t) \in S

\* compact_history before the protection of ancestors was added.
SeededProtected(cand) == {}

Protected(cand) ==
  {t \in TaskId : \A S \in SUBSET TaskId : ProtectedClosed(cand, S) => t \in S}
=============================================================================
