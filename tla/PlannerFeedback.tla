--------------------------- MODULE PlannerFeedback ---------------------------
(***************************************************************************)
(* How the planner measures what its actions brought: the planning pass of *)
(* orchestrator/master.py with the calibration samples, decision traces,   *)
(* shadow evaluations and the feedback of proven executions of             *)
(* shared/queue.py, and the workers that finish the rows.                  *)
(*                                                                         *)
(* The queue is that of module TaskQueue, reduced to what attribution      *)
(* looks at: pending and running rows are "active", a failure that will be *)
(* retried has not happened yet.  A row whose run has inserted its child   *)
(* but not its own result is "asking" (an evidence request, which fails)   *)
(* or "handing" (a hand-off to the executor, which completes).             *)
(***************************************************************************)
EXTENDS PlannerEconomics, Sequences

CONSTANTS RootRole,    \* role of the first row
          MaxTasks,    \* bound: rows ever created
          MaxChildren, \* bound: length of a decision's task list
          MaxPerPlan,  \* creation budget of a pass, MAX_TASKS_PER_PLAN (6)
          MaxRows,     \* max_rows of planner_action_outcomes (200)
          MaxMishaps   \* bound: evidence requests, kills, refused samples, the first research
                       \* case and (two each) longer task lists

ASSUME FeedbackAssumption ==
  /\ RootRole \in Roles
  /\ MaxTasks \in Nat /\ MaxChildren \in Nat /\ MaxPerPlan \in Nat
  /\ MaxRows \in Nat \ {0} /\ MaxMishaps \in Nat

TaskId == 1..MaxTasks
NoTask == 0
NoRole == "none"

VARIABLES
  status, row,    \* queue: status, and parent, role, evaluation_only
  decision, action, economics, \* planner_decision, action_role and the gains stored with it
  finished,       \* finished rows in the order of finished_at
  outcome,        \* planner_action_outcomes, by its key child_task_id
  refused,        \* rows of which a measurement has failed: what the planner logs, not what it stores
  traces,         \* planner_decision_traces
  evaluations,    \* planner_shadow_evaluations
  feedback, owed, \* execution_outcome_feedback; executors about to call it
  cases,          \* is a research case registered?
  mpc, plan, cur, chosen, kids, budget, child, \* planner
  mishaps

queueVars == <<status, row, finished>>
decisionVars == <<decision, action, economics>>
learnVars == <<outcome, refused, traces>>
planVars == <<mpc, plan, cur, chosen, kids, budget, child>>
feedbackVars == <<queueVars, decisionVars, learnVars, evaluations, feedback, owed, cases, planVars, mishaps>>

NoOutcome == [parent |-> NoTask]
NoEconomics == [raw |-> 0, expected |-> 0]
Sampled(f) == {t \in TaskId : f[t] # NoOutcome}
Outcome == [parent : TaskId, role : Roles, expected : Percent, actual : Percent]
Evaluation == [parent : TaskId, selected : TaskId, shadow : TaskId,
               selectedRole : Roles, shadowRole : Roles,
               status : {"pending", "completed", "failed"}]

\* Type correctness of the counters, the samples and the shadow evaluations.
FeedbackTypes ==
  /\ status \in [TaskId -> {"none", "active", "asking", "handing", "completed", "failed"}]
  /\ \A t \in TaskId : /\ row[t].parent \in 0..(t - 1)
                       /\ row[t].role \in Roles \cup {"evidence", "executor"}
                       /\ row[t].eval \in BOOLEAN
  /\ decision \in [TaskId -> {"null", "open", "end"}]
  /\ action \in [TaskId -> Roles \cup {NoRole}]
  /\ economics \in [TaskId -> [raw : Percent, expected : Percent]]
  /\ outcome \in [TaskId -> Outcome \cup {NoOutcome}]
  /\ Cardinality(Sampled(outcome)) <= MaxRows
  /\ refused \subseteq TaskId /\ cases \in BOOLEAN
  /\ \A t \in TaskId : (\E i \in DOMAIN finished : finished[i] = t)
                          <=> status[t] \in {"completed", "failed"}
  /\ traces \subseteq [task : TaskId, role : Roles, over : SUBSET Roles]
  /\ evaluations \subseteq Evaluation
  /\ feedback \subseteq [task : TaskId, origin : TaskId] /\ owed \subseteq TaskId
  /\ mpc \in {"shadows", "load", "row", "choose", "mark", "spawn", "add", "insert"}
  /\ chosen \in Roles \cup {NoRole}
  /\ plan \subseteq TaskId /\ cur \in 0..MaxTasks /\ child \in 0..MaxTasks
  /\ kids \in 0..MaxChildren /\ budget \in 0..MaxPerPlan /\ mishaps \in 0..MaxMishaps

FeedbackInit ==
  /\ status = [t \in TaskId |-> IF t = 1 THEN "active" ELSE "none"]
  /\ row = [t \in TaskId |-> [parent |-> NoTask, role |-> RootRole, eval |-> FALSE]]
  /\ decision = [t \in TaskId |-> "null"]
  /\ action = [t \in TaskId |-> NoRole]
  /\ economics = [t \in TaskId |-> NoEconomics]
  /\ finished = <<>>
  /\ outcome = [t \in TaskId |-> NoOutcome]
  /\ refused = {} /\ cases = FALSE
  /\ traces = {} /\ evaluations = {} /\ feedback = {} /\ owed = {}
  /\ mpc = "shadows" /\ plan = {} /\ cur = NoTask /\ chosen = NoRole /\ kids = 0 /\ budget = 0 /\ child = NoTask
  /\ mishaps = 0

-----------------------------------------------------------------------------
(* The rows *)

Rows == {t \in TaskId : status[t] # "none"}
Children(t) == {u \in Rows : row[u].parent = t}
Fresh(c) == status[c] = "none" /\ \A u \in TaskId : u < c => status[u] # "none"

ShadowRows == {t \in Rows : row[t].eval}

\* The row itself and its parents, up to the root.
AncestryIn(r) ==
  LET A[t \in TaskId] == IF r[t].parent = NoTask THEN {t} ELSE {t} \cup A[r[t].parent] IN A

Ancestry == AncestryIn(row)

\* The nearest row of the ancestry, the row itself included, with an action_role.
Origin(t) == LET acted == {u \in Ancestry[t] : action[u] # NoRole}
             IN  IF acted = {} THEN NoTask ELSE CHOOSE u \in acted : \A v \in acted : v <= u

\* branch_history: the row and at most three ancestors.
Branch(t) == {u \in Ancestry[t] : Cardinality({v \in Ancestry[t] : v > u}) < 4}
RecentRoles(t) == {row[u].role : u \in Branch(t)}

\* observed_at is when the measured row was finished.
observed_at(t) == CHOOSE i \in DOMAIN finished : finished[i] = t

Samples ==
  {LET o == outcome[t]
   IN  [of |-> o.parent, source |-> row[o.parent].role, role |-> o.role,
        raw |-> economics[o.parent].raw, expected |-> o.expected, actual |-> o.actual,
        at |-> observed_at(t)] : t \in Sampled(outcome)}

Measured(t) == \E u \in TaskId : outcome[u].parent = t

\* An evidence request's result says validation_mode "capability_evidence".
CapabilityEvidence(t) == row[t].role = "evidence"

-----------------------------------------------------------------------------
(* Workers *)

plannerUnchanged == UNCHANGED <<decisionVars, learnVars, evaluations, cases, planVars>>

\* A row is claimed once its parent is completed; an evidence request at once.
Claimable(t) == /\ status[t] = "active"
                /\ \/ CapabilityEvidence(t)
                   \/ row[t].parent \in {NoTask} \cup {u \in Rows : status[u] = "completed"}

\* finish() or fail(), with the child the run has inserted before it.
Ends(t, s) ==
  /\ status' = [status EXCEPT ![t] = s]
  /\ finished' = Append(finished, t)
  /\ UNCHANGED row

Insert(c, parent, role, eval) ==
  /\ Fresh(c)
  /\ status' = [status EXCEPT ![c] = "active"]
  /\ row' = [row EXCEPT ![c] = [parent |-> parent, role |-> role, eval |-> eval]]
  /\ UNCHANGED finished

\* An executor's result is finished before it is fed back; a failed one is not.
Run(t) ==
  /\ Claimable(t)
  /\ \E s \in {"completed", "failed"} :
       /\ Ends(t, s)
       /\ owed' = IF row[t].role = "executor" /\ s = "completed" THEN owed \cup {t} ELSE owed
  /\ UNCHANGED <<feedback, mishaps>> /\ plannerUnchanged

\* REQUIRE_EVIDENCE, or a verified request's hand-off: the child is inserted
\* first.  A shadow's intent is read-only and never needs evidence.
AddChild(t) ==
  /\ Claimable(t) /\ ~row[t].eval /\ row[t].role # "executor"
  /\ LET role == IF CapabilityEvidence(t) THEN "executor" ELSE "evidence"
         s    == IF CapabilityEvidence(t) THEN "handing" ELSE "asking"
     IN  \E c \in TaskId :
           /\ Fresh(c)
           /\ status' = [status EXCEPT ![c] = "active", ![t] = s]
           /\ row' = [row EXCEPT ![c] = [parent |-> t, role |-> role, eval |-> FALSE]]
  /\ mishaps' = IF CapabilityEvidence(t) THEN mishaps ELSE mishaps + 1
  /\ mishaps' <= MaxMishaps
  /\ UNCHANGED <<finished, feedback, owed>> /\ plannerUnchanged

EndAfterChild(t) ==
  /\ \/ status[t] = "asking" /\ Ends(t, "failed")
     \/ status[t] = "handing" /\ Ends(t, "completed")
  /\ UNCHANGED <<feedback, owed, mishaps>> /\ plannerUnchanged

\* An execution counts when its outcome is proven, and only once.
SeededFeedbackOrigin(t) == row[t].parent

FeedbackOrigin(t) == Origin(t)

record_verified_outcome_feedback(t) ==
  /\ t \in owed
  /\ owed' = owed \ {t}
  /\ feedback' = IF FeedbackOrigin(t) = NoTask \/ \E f \in feedback : f.task = t THEN feedback
                 ELSE feedback \cup {[task |-> t, origin |-> FeedbackOrigin(t)]}
  /\ UNCHANGED <<queueVars, mishaps>> /\ plannerUnchanged

\* A worker dies between its two statements.  An unfinished row runs again; an
\* execution that was finished is never fed back.
WorkerKilled(t) ==
  /\ mishaps < MaxMishaps /\ mishaps' = mishaps + 1
  /\ \/ /\ status[t] \in {"asking", "handing"}
        /\ status' = [status EXCEPT ![t] = "active"] /\ UNCHANGED owed
     \/ /\ t \in owed
        /\ owed' = owed \ {t} /\ UNCHANGED status
  /\ UNCHANGED <<row, finished, feedback>> /\ plannerUnchanged

-----------------------------------------------------------------------------
(* Planner *)

workersUnchanged == UNCHANGED <<feedback, owed, cases, mishaps>>

\* record_shadow_outcome without a look at the selected child's own sample.
SeededSelectedMeasured(e) == TRUE

SelectedMeasured(e) == outcome[e.selected] # NoOutcome

\* _process_shadow_evaluations: a failed shadow ends its evaluation, a completed
\* one is compared once the selected child has a sample of its own.
Processed(e) ==
  IF e.status # "pending" THEN e
  ELSE CASE status[e.shadow] = "failed" -> [e EXCEPT !.status = "failed"]
         [] status[e.shadow] = "completed" /\ SelectedMeasured(e) -> [e EXCEPT !.status = "completed"]
         [] OTHER -> e

Pending == {e \in evaluations : e.status = "pending"}

\* Shadows belong to the planner without research cases: once there are some, they wait.
ProcessShadows ==
  /\ mpc = "shadows" /\ Pending # {} /\ ~cases
  /\ evaluations' = {Processed(e) : e \in evaluations}
  /\ mpc' = "load"
  /\ UNCHANGED <<queueVars, decisionVars, learnVars, plan, cur, chosen, kids, budget, child>>
  /\ workersUnchanged

\* planning_tasks reading evaluation rows too.
SeededPlannable(t) ==
  status[t] = "completed" /\ decision[t] # "end" /\ Children(t) = {}

Plannable(t) ==
  /\ status[t] = "completed" /\ ~row[t].eval
  /\ decision[t] # "end" /\ Children(t) = {}

\* Once there are cases, only rows whose result is bound to one are planned.
Load ==
  /\ mpc = "load" \/ (mpc = "shadows" /\ (Pending = {} \/ cases))
  /\ plan' \in IF cases THEN SUBSET {t \in TaskId : Plannable(t)} ELSE {{t \in TaskId : Plannable(t)}}
  /\ mpc' = IF plan' = {} THEN "shadows" ELSE "row"
  /\ budget' = IF plan' = {} THEN 0 ELSE MaxPerPlan
  /\ UNCHANGED <<queueVars, decisionVars, learnVars, evaluations, cur, chosen, kids, child>>
  /\ workersUnchanged

\* direct_planner_child, not an evidence request; or a granted execution.
SeededShouldCalibrate(t) == row[t].role = "executor"

should_calibrate(t) ==
  /\ row[t].parent # NoTask
  /\ \/ row[t].role = "executor"
     \/ action[row[t].parent] # NoRole /\ ~CapabilityEvidence(t)

\* "One calibration sample belongs to one logical planner action" forgotten.
SeededNewSample(t) == Origin(t) # NoTask /\ outcome[t] = NoOutcome

\* A key collision raises and is logged.
NewSample(t) == /\ Origin(t) # NoTask /\ ~Measured(Origin(t))
                /\ outcome[t] = NoOutcome

Newer(f, t) == {u \in Sampled(f) : observed_at(u) > observed_at(t)}

\* Pruning before the insertion.
SeededPruned(f) == IF Cardinality(Sampled(f)) > MaxRows + 1 THEN outcome ELSE f

\* DELETE ... ORDER BY observed_at DESC LIMIT -1 OFFSET max_rows.
Pruned(f) ==
  [t \in TaskId |-> IF t \in Sampled(f) /\ Cardinality(Newer(f, t)) >= MaxRows
                    THEN NoOutcome ELSE f[t]]

record_action_outcome(t, actual) ==
  LET o == Origin(t)
  IN  IF NewSample(t)
      THEN outcome' = Pruned([outcome EXCEPT ![t] =
             [parent |-> o, role |-> action[o],
              expected |-> economics[o].expected, actual |-> actual]])
      ELSE UNCHANGED outcome

\* One row of the pass is taken up and, when it answers an action, measured.  The realized gain
\* of an execution is zero.  A measurement that fails is logged and the pass goes on: BEGIN
\* IMMEDIATE is refused where the ledger's record, which failed just before, has left its
\* transaction open.
Calibrate ==
  /\ mpc = "row"
  /\ \E t \in plan :
       /\ plan' = plan \ {t} /\ cur' = t
       /\ \/ /\ ~should_calibrate(t) /\ UNCHANGED <<outcome, refused, mishaps>>
          \/ /\ should_calibrate(t)
             /\ \E actual \in IF row[t].role = "executor" THEN {0} ELSE {0, 100} :
                  record_action_outcome(t, actual)
             /\ UNCHANGED <<refused, mishaps>>
          \/ /\ should_calibrate(t) /\ mishaps < MaxMishaps /\ mishaps' = mishaps + 1
             /\ refused' = refused \cup {t} /\ UNCHANGED outcome
  /\ mpc' = "choose"
  /\ UNCHANGED <<queueVars, decisionVars, traces, evaluations, chosen, kids, budget, child>>
  /\ UNCHANGED <<feedback, owed, cases>>

PlanDone ==
  /\ mpc = "row" /\ plan = {}
  /\ mpc' = "shadows" /\ budget' = 0
  /\ UNCHANGED <<queueVars, decisionVars, learnVars, evaluations, plan, cur, chosen, kids, child>>
  /\ workersUnchanged

Best(t, C) == select_action(Samples, C, row[t].role, Branch(t), RecentRoles(t))

\* mark_planner_decision with the economics of the action.
mark_planner_decision(t, d, r) ==
  /\ decision' = [decision EXCEPT ![t] = d]
  /\ action' = [action EXCEPT ![t] = r]
  /\ economics' = [economics EXCEPT ![t] =
       IF r = NoRole THEN NoEconomics
       ELSE LET e == action_economics(Samples, r, row[t].role, Branch(t), RecentRoles(t))
            IN  [raw |-> e.raw, expected |-> e.expected]]

\* choose_next ends the branch.  Where it has called select_action before, the
\* trace is one that nothing but reports will read.
Stop ==
  /\ mpc = "choose"
  /\ mark_planner_decision(cur, "end", NoRole)
  /\ cur' = NoTask /\ mpc' = "row"
  /\ traces' = {x \in traces : x.task # cur}
  /\ UNCHANGED <<queueVars, outcome, refused, evaluations, plan, chosen, kids, budget, child>>
  /\ workersUnchanged

\* candidate_decisions: which roles come into question depends on the result.
Candidates == SUBSET Roles \ {{}}

\* select_action records its trace, one transaction, before the decision is
\* stored.  A row's own role is then replaced by another one (alternate_role).
\* The gain of an executor's record is too small for a next action.
Select ==
  /\ mpc = "choose" /\ row[cur].role # "executor"
  /\ \E C \in Candidates : \E r \in Best(cur, C) :
       /\ traces' = traces \cup {[task |-> cur, role |-> r, over |-> C]}
       /\ chosen' \in IF r # row[cur].role THEN {r} ELSE Roles \ {r}
  /\ mpc' = "mark"
  /\ UNCHANGED <<queueVars, decisionVars, outcome, refused, evaluations, plan, cur, kids, budget, child>>
  /\ workersUnchanged

\* The stages of a bound forensics case and the quality gates name the next role themselves:
\* nothing is compared, and no trace is left.
Route ==
  /\ mpc = "choose" /\ row[cur].role \in Roles \ {"executor"}
  /\ chosen' \in Roles \ {row[cur].role}
  /\ mpc' = "mark"
  /\ UNCHANGED <<queueVars, decisionVars, learnVars, evaluations, plan, cur, kids, budget, child>>
  /\ workersUnchanged

Mark ==
  /\ mpc = "mark"
  /\ mark_planner_decision(cur, "open", chosen)
  /\ kids' \in 1..MaxChildren
  /\ mishaps' = mishaps + 2 * (kids' - 1) /\ mishaps' <= MaxMishaps
  /\ mpc' = "spawn"
  /\ UNCHANGED <<queueVars, learnVars, evaluations, plan, cur, chosen, budget, child, feedback, owed,
                 cases>>

\* A child is created while the budget lasts; an item with the fingerprint of an
\* earlier one of the list is skipped.
Spawn ==
  /\ mpc = "spawn" /\ kids > 0 /\ budget > 0
  /\ kids' = kids - 1 /\ budget' = budget - 1
  /\ \E c \in TaskId : Insert(c, cur, action[cur], FALSE) /\ child' = c
  /\ mpc' = "add"
  /\ UNCHANGED <<decisionVars, learnVars, evaluations, plan, cur, chosen>> /\ workersUnchanged

Duplicate ==
  /\ mpc = "spawn" /\ kids > 0 /\ budget > 0 /\ child # NoTask
  /\ kids' = kids - 1
  /\ UNCHANGED <<queueVars, decisionVars, learnVars, evaluations, mpc, plan, cur, chosen, budget, child>>
  /\ workersUnchanged

\* Once a row has children its traces are only read by reports.
SpawnDone ==
  /\ mpc = "spawn"
  /\ kids = 0 \/ budget = 0 \/ ~\E c \in TaskId : Fresh(c)
  /\ mpc' = "row" /\ cur' = NoTask /\ chosen' = NoRole /\ kids' = 0 /\ child' = NoTask
  /\ traces' = {x \in traces : x.task # cur \/ child = NoTask}
  /\ UNCHANGED <<queueVars, decisionVars, outcome, refused, evaluations, plan, budget>>
  /\ workersUnchanged

\* At most one pending or completed evaluation for a row.
NoEvaluation ==
  ~\E e \in evaluations : e.parent = cur /\ e.status \in {"pending", "completed"}

\* Candidates of the row's traces that were not selected and cost at most 50.
Alternatives == {r \in Roles : /\ Cost[r] <= 50
                               /\ \E x \in traces : x.task = cur /\ r \in x.over /\ r # x.role}

\* The shadow's row is committed before its evaluation exists.
AddShadow ==
  /\ mpc = "add"
  /\ NoEvaluation
  /\ \E r \in Alternatives, c \in TaskId : Insert(c, cur, r, TRUE)
  /\ mpc' = "insert"
  /\ UNCHANGED <<decisionVars, learnVars, evaluations, plan, cur, chosen, kids, budget, child>>
  /\ workersUnchanged

NoShadow ==
  /\ mpc = "add"
  /\ ~NoEvaluation \/ Alternatives = {} \/ ~\E c \in TaskId : Fresh(c)
  /\ mpc' = "spawn"
  /\ UNCHANGED <<queueVars, decisionVars, learnVars, evaluations, plan, cur, chosen, kids, budget, child>>
  /\ workersUnchanged

InsertEvaluation ==
  /\ mpc = "insert"
  /\ LET s == CHOOSE u \in ShadowRows : \A v \in ShadowRows : v <= u
     IN  evaluations' = evaluations \cup
           {[parent |-> cur, selected |-> child, shadow |-> s,
             selectedRole |-> row[child].role, shadowRole |-> row[s].role, status |-> "pending"]}
  /\ mpc' = "spawn"
  /\ UNCHANGED <<queueVars, decisionVars, learnVars, plan, cur, chosen, kids, budget, child>>
  /\ workersUnchanged

PlannerKilled ==
  /\ mishaps < MaxMishaps /\ mishaps' = mishaps + 1
  /\ mpc # "shadows"
  /\ mpc' = "shadows" /\ plan' = {} /\ cur' = NoTask /\ chosen' = NoRole
  /\ kids' = 0 /\ child' = NoTask /\ budget' = 0
  /\ UNCHANGED <<queueVars, decisionVars, learnVars, evaluations, feedback, owed, cases>>

\* The first research case is registered; cases are never removed.
RegisterCase ==
  /\ ~cases /\ cases' = TRUE
  /\ mishaps < MaxMishaps /\ mishaps' = mishaps + 1
  /\ UNCHANGED <<queueVars, decisionVars, learnVars, evaluations, feedback, owed, planVars>>

-----------------------------------------------------------------------------

WorkerStep(t) == Run(t) \/ AddChild(t) \/ EndAfterChild(t) \/ record_verified_outcome_feedback(t)

PlannerStep ==
  \/ ProcessShadows \/ Load \/ Calibrate \/ PlanDone \/ Stop \/ Select \/ Route \/ Mark
  \/ Spawn \/ Duplicate \/ SpawnDone \/ AddShadow \/ NoShadow \/ InsertEvaluation

FeedbackNext ==
  \/ PlannerStep \/ PlannerKilled \/ RegisterCase
  \/ \E t \in TaskId : WorkerStep(t) \/ WorkerKilled(t)

FeedbackSpec == FeedbackInit /\ [][FeedbackNext]_feedbackVars

-----------------------------------------------------------------------------
(* Properties *)

Ordinary(t) == ~row[t].eval /\ row[t].role # "executor" /\ ~CapabilityEvidence(t)

\* Credit is earned, and once.  However often rows are planned again and whatever
\* their descendants report, an action has one sample at most, recorded for a row
\* of its own branch; a proven execution is credited to the action it descends from.
CreditIsEarned ==
  /\ FeedbackTypes
  /\ \A t, u \in TaskId : outcome[t] # NoOutcome =>
       /\ outcome[t].parent \in Ancestry[t]
       /\ outcome[u].parent = outcome[t].parent => t = u
  /\ \A f \in feedback :
       /\ row[f.task].role = "executor" /\ status[f.task] = "completed"
       /\ action[f.origin] # NoRole /\ f.origin \in Ancestry[f.task]
       /\ \A g \in feedback : g.task = f.task => g = f

\* A shadow "never becomes a branch of the autonomous DAG": it is not decided, has no
\* children and teaches the policy nothing.  It is compared with the selected child
\* next to it, once both have delivered ("Measure completed shadow candidates").
ShadowsOnlyCompare ==
  /\ \A t \in ShadowRows :
       /\ decision[t] = "null" /\ Children(t) = {}
       /\ outcome[t] = NoOutcome /\ \A u \in TaskId : outcome[u].parent # t
  /\ \A e \in evaluations :
       /\ {e.selected, e.shadow} \subseteq Children(e.parent)
       /\ e.status = "completed" =>
            status[e.selected] = "completed" /\ status[e.shadow] = "completed"

\* The loop is closed before the answer is decided: an action whose answer has a decision has its
\* sample, however often the row is planned again, unless a measurement of this very row has
\* failed or newer samples have pushed the sample out.  A row that is measured again after a
\* failure may by then have an action of its own, which gets the sample instead.
DecidedIsMeasured ==
  \A t \in Rows : /\ decision[t] # "null" /\ Ordinary(t)
                  /\ row[t].parent # NoTask /\ action[row[t].parent] # NoRole
                  => \/ Measured(row[t].parent) \/ t \in refused
                     \/ Cardinality(Sampled(outcome)) = MaxRows

\* An action that promises something and whose samples were all worthless is not selected
\* again where an alternative of the same promise and cost has brought all it promised.
LearnsFromFailure ==
  [][\A x \in traces' \ traces : \A r \in x.over :
       LET own == From(Of(Samples, x.role), row[x.task].role)
       IN  ~/\ Base[x.role] > 5 /\ Base[r] >= Base[x.role] /\ Cost[r] <= Cost[x.role]
            /\ r \in RecentRoles(x.task) => x.role \in RecentRoles(x.task)
            /\ Cardinality(own) >= ViabilitySamples /\ Cardinality(own) >= RecentSamples
            /\ \A s \in own : s.actual = 0 /\ s.raw > 5
            /\ \A s \in Of(Samples, r) : s.actual = 100]_feedbackVars

=============================================================================
