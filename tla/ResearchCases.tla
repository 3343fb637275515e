--------------------------- MODULE ResearchCases ---------------------------
(***************************************************************************)
(* Registered research cases: the case registry, the disclosure timelines  *)
(* of their rounds, human reviews and operator-started rounds              *)
(* (shared/queue.py, shared/case_rounds.py), the case branch of            *)
(* MasterOrchestrator.bootstrap with the planning pass that follows it     *)
(* (orchestrator/master.py), the workers that run the tasks, and the two   *)
(* migration scripts.                                                      *)
(*                                                                         *)
(* A task is a row of the queue; rows of module TaskQueue are richer, this *)
(* module keeps what bootstrap looks at.  Pending and running rows are the *)
(* same to every query here: active.  Failed rows of a case are never  *)
(* retried: a failure result carries no case binding, so _focus_case_tasks *)
(* drops it.                                                               *)
(***************************************************************************)
EXTENDS Integers, Sequences, FiniteSets

CONSTANTS Cases,        \* case ids
          Rounds,       \* round ids of RoundSpecs
          SourceRounds, \* rounds whose technique starts with source_researcher
          Payloads,     \* Payloads[c]: what may be registered under c
          Manual,       \* stands for the fresh uuid of an operator's round
          NoRound,      \* round_id NULL
          MaxTasks,     \* bound: rows ever created
          MaxPerPlan,   \* MAX_TASKS_PER_PLAN, master.py:37 (6)
          OldKey,       \* does round_transparency start with the old primary key?
          Results,      \* verdicts a result may carry
          MaxEvents     \* bound: rounds, operator steps, deadlines passed and restarts together

TaskId == 1..MaxTasks
NoTask == 0
Payload == [runnable : BOOLEAN, rounds : SUBSET Rounds]
RoundId == Rounds \cup {Manual, NoRound}
Verdict == {"none", "REPRODUCED", "NOT_REPRODUCED", "INCONCLUSIVE", "OUT_OF_SCOPE"}

ASSUME CasesAssumption ==
  /\ Cases # {} /\ IsFiniteSet(Cases) /\ IsFiniteSet(Rounds)
  /\ SourceRounds \subseteq Rounds
  /\ Manual \notin Rounds /\ NoRound \notin Rounds /\ Manual # NoRound
  /\ Payloads \in [Cases -> SUBSET Payload]
  /\ Results \subseteq Verdict /\ OldKey \in BOOLEAN
  /\ MaxTasks \in Nat /\ MaxPerPlan \in Nat /\ MaxEvents \in Nat

VARIABLES
  registry,   \* research_cases: case ids in the order of registered_at
  payload,    \* their payloads
  status, decision, verdict, meta,   \* queue rows; verdict: research_validation of the result
  timeline,   \* round_transparency
  composite,  \* is its primary key (case_id, round_id), or still round_id?
  reviews,    \* OPEN rows of pending_human_review, as (case, reason) pairs
  numbered,   \* research_case_rounds
  mpc,        \* where the master is
  todo, piped,                       \* bootstrap: cases left, pipeline_has_active_branch
  snap, missing, left, active, allDone, bad, \* bootstrap: for the case at hand
  plan, cur, budget,                 \* plan(), and the round or row at hand
  events                             \* bound

registryVars == <<registry, payload>>
queueVars == <<status, decision, verdict, meta>>
roundVars == <<timeline, composite>>
operatorVars == <<reviews, numbered>>
caseVars == <<snap, missing, left, active, allDone, bad>>
planVars == <<plan, cur, budget>>
masterVars == <<mpc, todo, piped, caseVars, planVars>>
vars == <<registryVars, queueVars, roundVars, operatorVars, masterVars, events>>

Open == {"OPEN", "EXTENDED"}
Reason == [kind : {"deadline_exceeded", "round_failed"}, of : Rounds \cup {Manual}]
            \cup [kind : {"branch_failed"}, of : TaskId]
            \cup [kind : {"all_branches_terminal"}, of : Nat]
            \cup [kind : {"case_terminal_no_root"}, of : {NoTask}]

\* Type correctness of the cases, rounds, claims, reviews and case tasks, and of
\* the master's pass over them.
TypeOK ==
  /\ registry \in Seq(Cases) /\ payload \in [Cases -> Payload]
  /\ status \in [TaskId -> {"none", "active", "completed", "failed", "deleted"}]
  /\ decision \in [TaskId -> {"null", "open", "end", "deduped"}]
  /\ verdict \in [TaskId -> Verdict]
  /\ meta \in [TaskId -> [case : Cases, round : RoundId, parent : TaskId \cup {NoTask}]]
  /\ timeline \in [Cases -> [Rounds ->
       [status : Open \cup {"none", "COMPLETED", "FAILED"}, verdict : Verdict,
        overdue : BOOLEAN, granted : BOOLEAN]]]
  /\ composite \in BOOLEAN
  /\ reviews \subseteq Cases \X Reason
  /\ numbered \subseteq [case : Cases, number : Nat, root : TaskId]
  /\ mpc \in {"scan", "deadlines", "roots", "create", "timeline", "branches",
              "compact", "decide", "spawn"}
  /\ todo \in Seq(Cases) /\ piped \in BOOLEAN
  /\ snap \in [TaskId -> {"none", "active", "completed", "failed"}]
  /\ missing \subseteq Rounds \cup {NoRound} /\ left \subseteq TaskId
  /\ active \in BOOLEAN /\ allDone \in BOOLEAN /\ bad \subseteq Reason
  /\ plan \subseteq TaskId /\ cur \in TaskId \cup Rounds \cup {NoTask} /\ budget \in Nat
  /\ events \in Nat

NoRow == [case |-> CHOOSE c \in Cases : TRUE, round |-> NoRound, parent |-> NoTask]

Init ==
  /\ registry = <<>>
  /\ payload = [c \in Cases |-> [runnable |-> FALSE, rounds |-> {}]]
  /\ status = [t \in TaskId |-> "none"]
  /\ decision = [t \in TaskId |-> "null"]
  /\ verdict = [t \in TaskId |-> "none"]
  /\ meta = [t \in TaskId |-> NoRow]
  /\ timeline = [c \in Cases |-> [r \in Rounds |->
       [status |-> "none", verdict |-> "none", overdue |-> FALSE, granted |-> FALSE]]]
  /\ composite \in {TRUE, ~OldKey}
  /\ reviews = {} /\ numbered = {}
  /\ mpc = "scan" /\ todo = <<>> /\ piped = FALSE
  /\ snap = [t \in TaskId |-> "none"] /\ missing = {} /\ left = {}
  /\ active = FALSE /\ allDone = TRUE /\ bad = {}
  /\ plan = {} /\ cur = NoTask /\ budget = 0
  /\ events = IF composite THEN 0 ELSE 1

-----------------------------------------------------------------------------
(* The rows *)

Registered == {registry[i] : i \in DOMAIN registry}
Present == {t \in TaskId : status[t] \notin {"none", "deleted"}}
TasksOf(c) == {t \in Present : meta[t].case = c}
Roots(c) == {t \in TasksOf(c) : meta[t].parent = NoTask}
Children(t) == {u \in Present : meta[u].parent = t}

\* The rows below t, at any depth: the recursive query of _has_active_descendants, which
\* yields the least set with the children of t and of each of its rows.
Descendants(t) ==
  {u \in Present : \A below \in SUBSET Present :
     Children(t) \subseteq below /\ (\A w \in below : Children(w) \subseteq below) => u \in below}

_has_active_descendants(t) == \E u \in Descendants(t) : status[u] = "active"

FreshId == {t \in TaskId : status[t] = "none" /\ \A u \in TaskId : u < t => status[u] # "none"}

\* queue.add: a child inherits its parent's case and round.
add(t, c, r, p) ==
  /\ status' = [status EXCEPT ![t] = "active"]
  /\ meta' = [meta EXCEPT ![t] =
       IF p = NoTask THEN [case |-> c, round |-> r, parent |-> NoTask]
                     ELSE [case |-> meta[p].case, round |-> meta[p].round, parent |-> p]]
  /\ UNCHANGED <<decision, verdict>>

\* INSERT OR IGNORE, which the old primary key also makes ignore a round of another case.
create_round_transparency(c, r, tl) ==
  IF \E d \in Cases : (~composite \/ d = c) /\ tl[d][r].status # "none" THEN tl
  ELSE [tl EXCEPT ![c][r].status = "OPEN"]

SeededCompleteRound(c, r, v) ==
  IF r \notin Rounds \/ timeline[c][r].status = "none" THEN timeline
  ELSE [timeline EXCEPT ![c][r].status = "COMPLETED",
          ![c][r].verdict = IF v \in {"REPRODUCED", "NOT_REPRODUCED"} THEN v ELSE "INCONCLUSIVE"]

complete_round(c, r, v) ==
  IF r \notin Rounds \/ timeline[c][r].status \notin Open THEN timeline
  ELSE [timeline EXCEPT ![c][r].status = "COMPLETED",
          ![c][r].verdict = IF v \in {"REPRODUCED", "NOT_REPRODUCED"} THEN v ELSE "INCONCLUSIVE"]

SeededFailRound(c, r) ==
  IF r \notin Rounds \/ timeline[c][r].status \notin Open THEN timeline
  ELSE [timeline EXCEPT ![c][r].status = "ABORTED"]

fail_round(c, r) ==
  IF r \notin Rounds \/ timeline[c][r].status \notin Open THEN timeline
  ELSE [timeline EXCEPT ![c][r].status = "FAILED", ![c][r].verdict = "none"]

expired_rounds(c) == {r \in Rounds : timeline[c][r].status \in Open /\ timeline[c][r].overdue}

\* At most one open review per case and reason.
create_human_review(c, rs) == reviews' = reviews \cup ({c} \X rs)

\* Bounds what operators, the clock and crashes do; the more rounds, the less.
Event ==
  /\ events + Cardinality(UNION {payload[c].rounds : c \in Registered}) < MaxEvents
  /\ events' = events + 1

-----------------------------------------------------------------------------
(* Operators *)

\* A case id that is registered with other content is refused.
register_research_case(c, p) ==
  /\ c \notin Registered
  /\ IF registry = <<>> THEN UNCHANGED events ELSE Event
  /\ registry' = Append(registry, c)
  /\ payload' = [payload EXCEPT ![c] = p]
  /\ UNCHANGED <<queueVars, roundVars, operatorVars, masterVars>>

SeededRoundNumber(c) ==
  1 + Cardinality({t \in Roots(c) : meta[t].round \in SourceRounds \cup {Manual, NoRound}})

RoundNumber(c) ==
  LET used == {n.number : n \in {m \in numbered : m.case = c}}
      next == IF used = {} THEN 1 ELSE 1 + CHOOSE n \in used : \A m \in used : m <= n
      roots == 1 + Cardinality({t \in Roots(c) : meta[t].round \in SourceRounds \cup {Manual, NoRound}})
  IN IF next > roots THEN next ELSE roots

\* One transaction; the refusals change nothing.
start_case_round(c) ==
  /\ Event
  /\ c \in Registered /\ payload[c].runnable
  /\ \A t \in TasksOf(c) : status[t] = "completed"
  /\ \A v \in reviews : v[1] # c
  /\ \E t \in FreshId :
       /\ add(t, c, Manual, NoTask)
       /\ numbered' = numbered \cup {[case |-> c, number |-> RoundNumber(c), root |-> t]}
  /\ UNCHANGED <<registryVars, roundVars, reviews, masterVars>>

resolve_human_review(v) ==
  /\ Event
  /\ reviews' = reviews \ {v}
  /\ UNCHANGED <<registryVars, queueVars, roundVars, numbered, masterVars>>

\* The new deadline counts from the old one, and may be past as well.
grant_extension(c, r) ==
  /\ Event
  /\ timeline[c][r].status = "OPEN" /\ ~timeline[c][r].granted
  /\ \E late \in {FALSE, timeline[c][r].overdue} :
       timeline' = [timeline EXCEPT ![c][r].status = "EXTENDED",
                      ![c][r].granted = TRUE, ![c][r].overdue = late]
  /\ UNCHANGED <<registryVars, queueVars, composite, operatorVars, masterVars>>

\* Time passes.
Lapse(c, r) ==
  /\ Event
  /\ timeline[c][r].status \in Open /\ ~timeline[c][r].overdue
  /\ timeline' = [timeline EXCEPT ![c][r].overdue = TRUE]
  /\ UNCHANGED <<registryVars, queueVars, composite, operatorVars, masterVars>>

\* migrate_round_transparency_composite_key.py --apply
MigrateKey ==
  /\ ~composite /\ Event
  /\ composite' = TRUE
  /\ UNCHANGED <<registryVars, queueVars, timeline, operatorVars, masterVars>>

FirstRoot(c) == CHOOSE t \in Roots(c) : \A u \in Roots(c) : t <= u
Kept(t) ==
  \/ t = FirstRoot(meta[t].case)
  \/ status[t] = "active"
  \/ \E u \in Descendants(t) : status[u] \in {"active", "completed"}

\* migrate_cases_to_rounds.py --apply
MigrateRoots ==
  /\ Event
  /\ LET several == {t \in Present : meta[t].parent = NoTask /\ Cardinality(Roots(meta[t].case)) > 1}
     IN decision' = [t \in TaskId |->
          CASE t \in several /\ Kept(t) /\ decision[t] = "deduped" -> "null"
            [] t \in several /\ ~Kept(t) -> "deduped"
            [] OTHER -> decision[t]]
  /\ UNCHANGED <<registryVars, status, verdict, meta, roundVars, operatorVars, masterVars>>

-----------------------------------------------------------------------------
(* Workers: module Farm has their statements *)

workUnchanged == UNCHANGED <<registryVars, roundVars, operatorVars, masterVars, events>>

Finish(t, v) ==
  /\ status[t] = "active"
  /\ status' = [status EXCEPT ![t] = "completed"]
  /\ verdict' = [verdict EXCEPT ![t] = v]
  /\ UNCHANGED <<decision, meta>> /\ workUnchanged

Fail(t) ==
  /\ status[t] = "active"
  /\ status' = [status EXCEPT ![t] = "failed"]
  /\ UNCHANGED <<decision, verdict, meta>> /\ workUnchanged

\* A run inserts a row below its own before it ends: a blocked one asks a validator for
\* evidence and is about to fail, a verified one hands on to the executor and is about to
\* finish; a worker that dies in between leaves a row that runs again.
AddChild(t) ==
  /\ status[t] = "active"
  /\ \E u \in FreshId : add(u, meta[t].case, meta[t].round, t)
  /\ workUnchanged

-----------------------------------------------------------------------------
(* The master: bootstrap *)

bootUnchanged == UNCHANGED <<registryVars, numbered, composite, events>>

\* With no case registered the legacy path runs, which is in module Farm.
Scan ==
  /\ mpc = "scan" /\ registry # <<>>
  /\ todo' = [i \in DOMAIN registry |-> registry[Len(registry) + 1 - i]]
  /\ piped' = FALSE
  /\ mpc' = "deadlines"
  /\ UNCHANGED <<queueVars, timeline, reviews, caseVars, planVars>> /\ bootUnchanged

\* The locals of one case.
NoCase ==
  /\ snap' = [t \in TaskId |-> "none"] /\ missing' = {} /\ left' = {}
  /\ active' = FALSE /\ allDone' = TRUE /\ bad' = {}

\* bootstrap returns; with no active branch anywhere run() skips plan().
Return(planning) ==
  /\ todo' = <<>> /\ piped' = FALSE /\ NoCase
  /\ mpc' = IF planning THEN "compact" ELSE "scan"

NextCase(pip) ==
  IF Len(todo) = 1 THEN Return(pip)
  ELSE /\ todo' = Tail(todo) /\ piped' = pip /\ NoCase
       /\ mpc' = "deadlines"

_check_round_deadlines ==
  /\ mpc = "deadlines"
  /\ LET c == Head(todo)
     IN create_human_review(c, {[kind |-> "deadline_exceeded", of |-> r] : r \in expired_rounds(c)})
  /\ mpc' = "roots"
  /\ UNCHANGED <<queueVars, timeline, todo, piped, caseVars, planVars>> /\ bootUnchanged

SeededExisting(c) == {r \in Rounds : timeline[c][r].status \in {"COMPLETED", "FAILED"}}
existing_round_ids(c) == {meta[t].round : t \in Roots(c)} \cap Rounds

SeededRepaired(c) == {meta[t].round : t \in {u \in Roots(c) : status[u] = "active"}} \cap payload[c].rounds
Repaired(c) == {meta[t].round : t \in Roots(c)} \cap payload[c].rounds

\* The roots, and the timelines lost between the two transactions of _create_round_root.
ReadRoots ==
  /\ mpc = "roots"
  /\ LET c == Head(todo) p == payload[c]
     IN IF Roots(c) = {} /\ ~p.runnable
        THEN /\ create_human_review(c, {[kind |-> "case_terminal_no_root", of |-> NoTask]})
             /\ NextCase(piped)
             /\ UNCHANGED timeline
        ELSE /\ snap' = [t \in TaskId |-> IF t \in Roots(c) THEN status[t] ELSE "none"]
             /\ left' = Roots(c)
             /\ missing' = IF p.rounds # {} THEN p.rounds \ existing_round_ids(c)
                           ELSE IF Roots(c) = {} THEN {NoRound} ELSE {}
             /\ timeline' = [timeline EXCEPT ![c] = [r \in Rounds |->
                  IF r \in Repaired(c) THEN create_round_transparency(c, r, timeline)[c][r] ELSE @[r]]]
             /\ mpc' = IF missing' = {} THEN "branches" ELSE "create"
             /\ UNCHANGED <<reviews, todo, piped, active, allDone, bad>>
  /\ UNCHANGED <<queueVars, planVars>> /\ bootUnchanged

\* _create_round_root, its first transaction; a case without rounds gets one bare root.
CreateRoot ==
  /\ mpc = "create"
  /\ \E r \in missing, t \in FreshId :
       /\ add(t, Head(todo), r, NoTask)
       /\ IF r = NoRound THEN Return(TRUE) /\ UNCHANGED cur
          ELSE /\ cur' = r /\ missing' = missing \ {r}
               /\ mpc' = "timeline"
               /\ UNCHANGED <<todo, piped, snap, left, active, allDone, bad>>
  /\ UNCHANGED <<timeline, reviews, plan, budget>> /\ bootUnchanged

\* _create_round_root, its second transaction.
CreateTimeline ==
  /\ mpc = "timeline"
  /\ timeline' = create_round_transparency(Head(todo), cur, timeline)
  /\ cur' = NoTask
  /\ IF missing = {} THEN Return(TRUE) ELSE mpc' = "create" /\ UNCHANGED <<todo, piped, caseVars>>
  /\ UNCHANGED <<queueVars, reviews, plan, budget>> /\ bootUnchanged

\* The newest of the root and its children that has a validation.
_round_verdict(t) ==
  LET said == {u \in {t} \cup Children(t) : verdict[u] # "none"}
  IN IF said = {} THEN "INCONCLUSIVE" ELSE verdict[CHOOSE u \in said : \A w \in said : u >= w]

SeededBranchActive(t) == snap[t] = "active" \/ (snap[t] = "completed" /\ decision[t] = "null")

\* May the branch of this root still do something, as bootstrap sees it?
BranchActive(t) ==
  \/ snap[t] = "active" \/ _has_active_descendants(t)
  \/ snap[t] = "completed" /\ decision[t] = "null"

\* One root.  With no task of the branch active, only the master changes it, so
\* the queries and the UPDATE are one step.
ReconcileBranch ==
  /\ mpc = "branches" /\ left # {}
  /\ \E t \in left :
       LET c == Head(todo) r == meta[t].round IN
       /\ left' = left \ {t}
       /\ active' = (active \/ BranchActive(t))
       /\ allDone' = (allDone /\ ~BranchActive(t) /\ snap[t] = "completed")
       /\ timeline' = CASE BranchActive(t) -> timeline
                        [] ~BranchActive(t) /\ snap[t] = "completed" ->
                             complete_round(c, r, _round_verdict(t))
                        [] OTHER -> fail_round(c, r)
       /\ bad' = IF BranchActive(t) \/ snap[t] = "completed" THEN bad
                 ELSE bad \cup {IF r = NoRound THEN [kind |-> "branch_failed", of |-> t]
                                               ELSE [kind |-> "round_failed", of |-> r]}
  /\ UNCHANGED <<queueVars, reviews, mpc, todo, piped, snap, missing, planVars>>
  /\ bootUnchanged

\* The reviews of the case; each is created once, whatever the order.
ConcludeCase ==
  /\ mpc = "branches" /\ left = {}
  /\ create_human_review(Head(todo), bad \cup
       IF ~active /\ allDone
       THEN {[kind |-> "all_branches_terminal", of |-> Cardinality({t \in TaskId : snap[t] # "none"})]}
       ELSE {})
  /\ NextCase(piped \/ active)
  /\ UNCHANGED <<queueVars, timeline, planVars>> /\ bootUnchanged

-----------------------------------------------------------------------------
(* The master: plan *)

planUnchanged == UNCHANGED <<timeline, reviews, todo, piped, caseVars>> /\ bootUnchanged

\* Completed rows without a terminal decision.
Planned == {t \in TaskId : status[t] = "completed" /\ decision[t] \in {"null", "open"}}

\* compact_history: old finished rows that no kept row descends from.  Then planning_tasks
\* and _focus_case_tasks; the statements of both are in module Farm.
CompactAndLoad ==
  /\ mpc = "compact"
  /\ \E gone \in SUBSET {t \in TaskId : status[t] \in {"completed", "failed"}} :
       /\ \A t \in gone : Descendants(t) \subseteq gone
       /\ status' = [t \in TaskId |-> IF t \in gone THEN "deleted" ELSE status[t]]
       /\ decision' = [t \in TaskId |-> IF t \in gone THEN "null" ELSE decision[t]]
       /\ verdict' = [t \in TaskId |-> IF t \in gone THEN "none" ELSE verdict[t]]
       /\ meta' = [t \in TaskId |-> IF t \in gone THEN NoRow ELSE meta[t]]
       /\ plan' = {t \in Planned : t \notin gone /\ Children(t) \subseteq gone}
  /\ budget' = MaxPerPlan
  /\ mpc' = "decide"
  /\ UNCHANGED cur /\ planUnchanged

\* choose_next and mark_planner_decision; children come after it.
Decide ==
  /\ mpc = "decide"
  /\ IF plan = {} THEN mpc' = "scan" /\ budget' = 0 /\ UNCHANGED <<queueVars, plan, cur>>
     ELSE \E t \in plan, d \in {"open", "end"} :
            /\ decision' = [decision EXCEPT ![t] = d]
            /\ plan' = plan \ {t}
            /\ cur' = IF d = "open" THEN t ELSE NoTask
            /\ mpc' = IF d = "open" THEN "spawn" ELSE "decide"
            /\ UNCHANGED <<status, verdict, meta, budget>>
  /\ planUnchanged

Spawn ==
  /\ mpc = "spawn"
  /\ \/ /\ budget > 0
        /\ \E t \in FreshId : add(t, meta[cur].case, NoRound, cur)
        /\ budget' = budget - 1
        /\ UNCHANGED <<mpc, cur>>
     \/ \* the last task, a duplicate, or no budget left
        /\ mpc' = "decide" /\ cur' = NoTask
        /\ UNCHANGED <<queueVars, budget>>
  /\ UNCHANGED plan /\ planUnchanged

\* The master is killed and started again; its local state is gone.
Restart ==
  /\ mpc # "scan" /\ Event
  /\ Return(FALSE)
  /\ plan' = {} /\ cur' = NoTask /\ budget' = 0
  /\ UNCHANGED <<registryVars, queueVars, roundVars, operatorVars>>

-----------------------------------------------------------------------------
MasterStep ==
  \/ Scan \/ _check_round_deadlines \/ ReadRoots \/ CreateRoot
  \/ CreateTimeline \/ ReconcileBranch \/ ConcludeCase
  \/ CompactAndLoad \/ Decide \/ Spawn

WorkerStep(t) ==
  (\E v \in Results : Finish(t, v)) \/ Fail(t) \/ AddChild(t)

OperatorStep ==
  \/ \E c \in Cases : \E p \in Payloads[c] : register_research_case(c, p)
  \/ \E c \in Cases : start_case_round(c)
  \/ \E v \in reviews : resolve_human_review(v)
  \/ \E c \in Cases, r \in Rounds : grant_extension(c, r)
  \/ MigrateKey \/ MigrateRoots

Next ==
  \/ MasterStep \/ Restart \/ OperatorStep
  \/ \E t \in TaskId : WorkerStep(t)
  \/ \E c \in Cases, r \in Rounds : Lapse(c, r)

Spec == Init /\ [][Next]_vars

\* The master polls and workers poll; nothing is assumed of operators or of time.
FairSpec == Spec /\ WF_vars(MasterStep) /\ WF_vars(\E t \in TaskId : WorkerStep(t))

-----------------------------------------------------------------------------
(* Properties *)

\* However often the master was stopped between two transactions of _create_round_root, and
\* whatever rounds an operator starts, a round has one root at most; and when bootstrap goes
\* on to judge the branches, every round has its root and its timeline.  Only the old
\* primary key, while it was there, can have refused a timeline, for another case's.
RoundsAreWhole ==
  /\ TypeOK
  /\ \A t, u \in Present :
       /\ meta[t].parent = NoTask /\ meta[u].parent = NoTask
       /\ meta[t].case = meta[u].case
       /\ meta[t].round = meta[u].round /\ meta[t].round # Manual
       => t = u
  /\ mpc = "branches" =>
       \A r \in payload[Head(todo)].rounds :
         /\ \E t \in Roots(Head(todo)) : meta[t].round = r
         /\ \/ timeline[Head(todo)][r].status # "none"
            \/ OldKey /\ \E d \in Cases \ {Head(todo)} : timeline[d][r].status # "none"

\* start_case_round numbers the rounds of a case; compact_history removes the roots the
\* number is counted from: no number is given twice, and a later round has a higher one.
RoundNumbersGrow ==
  \A m, n \in numbered : m.case = n.case /\ m.root < n.root => m.number < n.number

\* What a timeline says of a closed round is final (complete_round, fail_round,
\* grant_extension), and its one extension is never taken back or granted again.
ClosedIsFinal ==
  [][\A c \in Cases, r \in Rounds :
       /\ timeline[c][r].status \in {"COMPLETED", "FAILED"}
            => /\ timeline'[c][r].status = timeline[c][r].status
               /\ timeline'[c][r].verdict = timeline[c][r].verdict
       /\ timeline[c][r].granted
            => timeline'[c][r].granted /\ timeline'[c][r].status # "OPEN"]_timeline

Branch(c, r) == {t \in TasksOf(c) : meta[t].round = r}

\* bootstrap closes a round on what its own branch did: no task of it is active, its root
\* has been planned, and the verdict was given by a task of the branch.
CloseTellsBranch ==
  [][\A c \in Cases, r \in Rounds :
       timeline[c][r].status \in Open /\ timeline'[c][r].status \notin Open =>
         /\ \A t \in Branch(c, r) : status[t] # "active"
         /\ \E t \in Branch(c, r) : /\ meta[t].parent = NoTask
                                   /\ IF timeline'[c][r].status = "FAILED" THEN status[t] = "failed"
                                      ELSE status[t] = "completed" /\ decision[t] # "null"
         /\ timeline'[c][r].verdict \in {"REPRODUCED", "NOT_REPRODUCED"}
              => \E t \in Branch(c, r) : verdict[t] = timeline'[c][r].verdict]_timeline

\* run() skips plan() when bootstrap finds no active branch, and says so: all registered
\* case branches are terminal.  Then no result is left without a decision for ever.
EveryResultPlanned ==
  \A t \in TaskId :
    (status[t] = "completed" /\ decision[t] = "null" /\ Children(t) = {})
      ~> (FreshId = {} \/ ~(status[t] = "completed" /\ decision[t] = "null" /\ Children(t) = {}))
=============================================================================
