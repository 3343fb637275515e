----------------------------- MODULE CaseEvidence -----------------------------
(***************************************************************************)
(* The evidence of a research case from its writers to its export: workers *)
(* that record audit observations (agents/worker.py), the planner and      *)
(* scripts/evidence_backfill.py that record what results report            *)
(* (orchestrator/master.py), compaction (shared/queue.py), and the export  *)
(* of a case bundle (shared/research_case_bundle.py), all on one SQLite    *)
(* file.  A SELECT before the first write of a transaction is a step of    *)
(* its own; from that write to the commit no other process writes.         *)
(*                                                                         *)
(* The rows are those of one registered case.  Task ids are 1..MaxTasks in *)
(* order of creation; 0 is no task.                                        *)
(***************************************************************************)
EXTENDS EvidenceLedger, Sequences, SequencesExt, Functions

CONSTANTS Round, None,  \* the declared round all rows of the case belong to
          Findings, Results, \* findings, the sets of them a result may report
          Audit, Receipt, Outcome, \* atoms of a capability decision, a receipt, its verification
          MaxTasks, MaxRoots, \* bounds: rows ever created, those of them without parent
          MaxObservations, \* MAX_OBSERVATIONS (5000)
          KeepDepth,    \* keep_ancestor_depth (4)
          MaxEvents     \* bound: kills, failed audits, compactions, backfills; an export costs 2

ResearchRoles == {"developer", "security_checker"}
NextRole == "security_checker"  \* the role the planner chooses
Roles == ResearchRoles \cup {"validator", "executor"}
Tasks == 1..MaxTasks

\* detect_contradictions looks at atoms of kind "finding" only; what workers record is of
\* kinds of its own.
ASSUME EvidenceAssumption ==
  /\ Results \subseteq SUBSET Findings /\ Opposite \subseteq SUBSET Findings
  /\ Findings \cup {Audit, Receipt, Outcome} \subseteq Atoms
  /\ Findings \cap {Audit, Receipt, Outcome} = {}
  /\ Reporters = Roles \cup {"outcome_verifier"}
  /\ {MaxTasks, MaxRoots} \subseteq Nat /\ MaxObservations \in Nat /\ MaxEvents \in Nat
  /\ KeepDepth \in Nat

VARIABLES rows,     \* rows[t]: None, or the row of table queue
          created,  \* rows created so far
          newest,   \* the row that finished last
          observations, \* evidence_observations, oldest first
          planner,  \* what the planner is doing with one result
          cursor,   \* last_rowid of the backfill
          export,   \* what the exporter has read
          bundle,   \* the output file
          unsure,   \* atoms whose recording was lost or failed
          removed,  \* tasks whose result or row was compacted
          unaudited, \* tasks whose observations were pruned or failed to be written
          events

vars == <<ledgerVars, rows, created, newest, observations, planner, cursor, export,
          bundle, unsure, removed, unaudited, events>>

Row == [round : {Round}, parent : 0..MaxTasks, role : Roles,
        status : {"pending", "running", "completed", "failed"}, found : SUBSET Findings,
        result : {"none", "bound", "unbound", "dropped"}, decision : {"none", "next", "stop"}]
ASSUME NoRowAssumption == None \notin Row
Observation == [atom : {Audit, Receipt, Outcome}, task : Tasks, role : Reporters,
                round : {Round}]
Idle == [pc |-> "idle"]

\* Type correctness of the ledger, the case's rows and the ledger's callers, the
\* planner, the workers, the backfill and the exporter.
TypeOK ==
  /\ \A a \in Atoms : ledger[a].roles <= ledger[a].confirmations
  /\ conflicts \subseteq Opposite
  /\ \A t \in Tasks : rows[t] # None => rows[t] \in Row /\ t <= created
  /\ \A i \in DOMAIN observations : observations[i] \in Observation
  /\ Len(observations) <= MaxObservations
  /\ \A i, j \in DOMAIN observations :
       i # j => <<observations[i].atom, observations[i].task>> # <<observations[j].atom, observations[j].task>>
  /\ planner.pc \in {"idle", "store", "detect", "decide", "create"}
  /\ export.pc \in {"idle", "evidence", "publish"}
  /\ cursor \in 0..MaxTasks /\ unsure \subseteq Atoms /\ removed \cup unaudited \subseteq Tasks
  /\ events \in 0..MaxEvents

Init ==
  /\ InitLedger
  /\ rows = [t \in Tasks |-> None] /\ created = 0 /\ newest = 0
  /\ observations = <<>> /\ planner = Idle /\ cursor = 0
  /\ export = Idle /\ bundle = None
  /\ unsure = {} /\ removed = {} /\ unaudited = {} /\ events = 0

Event == events < MaxEvents /\ events' = events + 1
Exists(t) == t \in Tasks /\ rows[t] # None
Is(t, status) == Exists(t) /\ rows[t].status = status
Children(t) == {c \in Tasks : Exists(c) /\ rows[c].parent = t}

-----------------------------------------------------------------------------
(* The queue: a child inherits the case and the round of its parent *)

NewRow(round, parent, role) ==
  [round |-> round, parent |-> parent, role |-> role, status |-> "pending",
   found |-> {}, result |-> "none", decision |-> "none"]
ChildRow(parent, role) == NewRow(rows[parent].round, parent, role)

Insert(base, row) == created < MaxTasks /\ created' = created + 1
                     /\ rows' = [base EXCEPT ![created + 1] = row]

Submit ==
  /\ created < MaxRoots /\ Insert(rows, NewRow(Round, 0, "developer"))
  /\ UNCHANGED <<ledgerVars, newest, observations, planner, cursor, export, bundle,
                 unsure, removed, unaudited, events>>

\* record_observation: the ledger, INSERT OR IGNORE of the observation, and the
\* pruning of the oldest, in one transaction.
SeededLatest(q) == IF Len(q) > MaxObservations + 1 THEN Tail(q) ELSE q
Latest(q) == IF Len(q) > MaxObservations THEN Tail(q) ELSE q

SeededObserved(atom, t, role) ==
  [atom |-> atom, task |-> t, role |-> NextRole, round |-> rows[t].round]
Observed(atom, t, role) ==
  [atom |-> atom, task |-> t, role |-> role, round |-> rows[t].round]

record_observation(atom, t, role) ==
  LET old == \E i \in DOMAIN observations : observations[i].atom = atom /\ observations[i].task = t
      all == IF old THEN observations ELSE Append(observations, Observed(atom, t, role))
  IN  /\ record(t, role, {atom}, [a \in {atom} |-> Seen(a, role)])
      /\ observations' = Latest(all)
      /\ unaudited' = IF Len(all) > MaxObservations THEN unaudited \cup {all[1].task} ELSE unaudited
      /\ UNCHANGED conflicts

\* A worker takes a task and records its capability decision; the audit may
\* fail, which is only printed.
Start(t) ==
  /\ Is(t, "pending") /\ rows[t].role # "executor"
  /\ Exists(rows[t].parent) => rows[rows[t].parent].status \in {"completed", "failed"}
  /\ rows' = [rows EXCEPT ![t].status = "running"]
  /\ \/ record_observation(Audit, t, rows[t].role) /\ UNCHANGED events
     \/ /\ Event /\ unaudited' = unaudited \cup {t}
        /\ UNCHANGED <<ledgerVars, observations>>
  /\ UNCHANGED <<created, newest, planner, cursor, export, bundle, unsure, removed>>

\* A result carries the binding of the case, except an executor's.
Completed(t, found, result) ==
  [rows EXCEPT ![t].status = "completed", ![t].found = found, ![t].result = result]

Finished(t) == /\ newest' = t
               /\ UNCHANGED <<ledgerVars, observations, planner, cursor, export, bundle,
                              unsure, removed, unaudited, events>>

Finish(t) ==
  /\ Is(t, "running") /\ rows[t].role \in ResearchRoles
  /\ \E found \in Results : rows' = Completed(t, found, "bound")
  /\ UNCHANGED created /\ Finished(t)

\* A task that needs evidence first inserts the validator's task, then fails.
Ask(t) ==
  /\ Is(t, "running") /\ rows[t].role \in ResearchRoles
  /\ Insert([rows EXCEPT ![t].status = "failed"], ChildRow(t, "validator"))
  /\ Finished(t)

Fail(t) ==
  /\ Is(t, "running")
  /\ rows' = [rows EXCEPT ![t].status = "failed"]
  /\ UNCHANGED created /\ Finished(t)

\* The validator hands a verified grant to an executor.
Handoff(t) ==
  /\ Is(t, "running") /\ rows[t].role = "validator"
  /\ Insert(Completed(t, {}, "bound"), ChildRow(t, "executor"))
  /\ Finished(t)

\* The executor records receipt and verified outcome under roles of their own for
\* the task the grant was issued for, and completes without the case's binding.
Original(t) == rows[rows[t].parent].parent

Execute(t) ==
  /\ Is(t, "pending") /\ rows[t].role = "executor"
  /\ Exists(rows[t].parent) /\ Exists(Original(t))
  /\ record_observation(Receipt, Original(t), "executor")
  /\ rows' = [rows EXCEPT ![t].status = "running"]
  /\ UNCHANGED <<created, newest, planner, cursor, export, bundle, unsure, removed, events>>

VerifyOutcome(t) ==
  /\ Is(t, "running") /\ rows[t].role = "executor"
  /\ record_observation(Outcome, Original(t), "outcome_verifier")
  /\ rows' = Completed(t, {}, "unbound") /\ newest' = t
  /\ UNCHANGED <<created, planner, cursor, export, bundle, unsure, removed, events>>

\* compact_completed_results drops the results no branch needs any more: the rows
\* still to be planned or run keep theirs, and so do KeepDepth ancestors of each.
SeededOpenBranch(t) == rows[t].status \in {"pending", "running"}
OpenBranch(t) ==
  \/ rows[t].status \in {"pending", "running"}
  \/ rows[t].status = "completed" /\ rows[t].decision = "none"
  \/ rows[t].status = "completed" /\ rows[t].decision = "next" /\ Children(t) = {}

\* The row itself and those up to KeepDepth parents above it.
Ancestors(t) ==
  {u \in Tasks : \E depth \in 0..KeepDepth : \E path \in [0..depth -> Tasks] :
     /\ path[0] = t /\ path[depth] = u
     /\ \A i \in 1..depth : Exists(path[i - 1]) /\ rows[path[i - 1]].parent = path[i]}

DropResult(t) ==
  /\ Event
  /\ Is(t, "completed") /\ rows[t].result # "dropped"
  /\ \A u \in Tasks : Exists(u) /\ OpenBranch(u) => t \notin Ancestors(u)
  /\ rows' = [rows EXCEPT ![t].result = "dropped"]
  /\ removed' = removed \cup {t}
  /\ UNCHANGED <<ledgerVars, created, newest, observations, planner, cursor, export, bundle,
                 unsure, unaudited>>

\* compact_history removes finished rows, never an ancestor of a kept one.
Compact(t) ==
  /\ Event
  /\ Is(t, "completed") \/ Is(t, "failed")
  /\ t # newest /\ Children(t) = {}
  /\ rows' = [rows EXCEPT ![t] = None]
  /\ removed' = removed \cup {t}
  /\ unsure' = IF rows[t].decision = "none" THEN unsure \cup rows[t].found ELSE unsure
  /\ UNCHANGED <<ledgerVars, created, newest, observations, planner, cursor, export, bundle, unaudited>>

-----------------------------------------------------------------------------
(* The planner: evidence of a result first, then its decision *)

\* A finished result without decision, or whose decision has no child.
ToPlan(t) == /\ Is(t, "completed") /\ rows[t].role \in ResearchRoles
             /\ rows[t].decision # "stop" /\ Children(t) = {}

Quiet == UNCHANGED <<created, newest, observations, cursor, export, bundle, removed, unaudited>>

PlanRead(t) ==
  /\ planner.pc = "idle" /\ ToPlan(t)
  /\ planner' = [pc |-> "store", task |-> t, role |-> rows[t].role, atoms |-> rows[t].found,
                 view |-> [a \in rows[t].found |-> Seen(a, rows[t].role)]]
  /\ Quiet /\ UNCHANGED <<ledgerVars, rows, unsure, events>>

\* The rows of the first atom were read before the transaction began, those of
\* the others inside it.
View(first) == [a \in planner.atoms |-> IF a = first THEN planner.view[a] ELSE Seen(a, planner.role)]

PlanStore ==
  /\ planner.pc = "store"
  /\ IF planner.atoms = {}
     THEN /\ planner' = [planner EXCEPT !.pc = "decide"] /\ UNCHANGED <<ledgerVars, unsure>>
     ELSE \E first \in planner.atoms :
          LET view  == View(first)[first]
              counted == ~Repeated(view, planner.task)
          IN  CASE counted /\ ClashesInLedger(first, view) ->
                     \* the exception is printed, the decision goes on
                     /\ planner' = [planner EXCEPT !.pc = "decide"]
                     /\ unsure' = unsure \cup planner.atoms /\ UNCHANGED ledgerVars
                [] counted /\ ~ClashesInLedger(first, view)
                   /\ ClashesInProvenance(first, planner.role, view) ->
                     \* the count stays in the open transaction, the decision commits it
                     /\ planner' = [planner EXCEPT !.pc = "decide"]
                     /\ unsure' = unsure \cup planner.atoms
                     /\ ledger' = [ledger EXCEPT ![first] = Count(@, view)]
                     /\ UNCHANGED <<provenance, conflicts>>
                [] OTHER ->
                     /\ record(planner.task, planner.role, planner.atoms, View(first))
                     /\ planner' = [planner EXCEPT !.pc = "detect"]
                     /\ UNCHANGED <<conflicts, unsure>>
  /\ Quiet /\ UNCHANGED <<rows, events>>

PlanDetect ==
  /\ planner.pc = "detect"
  /\ record_contradictions(Contradictions(planner.atoms, {a \in Atoms : Known(a)}))
  /\ planner' = [planner EXCEPT !.pc = "decide"]
  /\ Quiet /\ UNCHANGED <<ledger, provenance, rows, unsure, events>>

PlanDecide(decision) ==
  /\ planner.pc = "decide"
  /\ planner' = IF decision = "next" /\ Exists(planner.task)
                THEN [planner EXCEPT !.pc = "create"] ELSE Idle
  /\ rows' = IF Exists(planner.task) THEN [rows EXCEPT ![planner.task].decision = decision] ELSE rows
  /\ Quiet /\ UNCHANGED <<ledgerVars, unsure, events>>

\* add finds no parent when the row has been compacted.
PlanCreate ==
  /\ planner.pc = "create"
  /\ planner' = Idle
  /\ IF Exists(planner.task)
     THEN Insert(rows, ChildRow(planner.task, NextRole))
     ELSE UNCHANGED <<rows, created>>
  /\ UNCHANGED <<ledgerVars, newest, observations, cursor, export, bundle, unsure,
                 removed, unaudited, events>>

PlannerKilled ==
  /\ Event /\ planner.pc # "idle"
  /\ planner' = Idle
  /\ Quiet /\ UNCHANGED <<ledgerVars, rows, unsure>>

\* evidence_backfill: one result per batch, all in one transaction; the cursor is
\* written afterwards, unless the script is killed in between.
Backfill(t, killed) ==
  LET role == rows[t].role  atoms == rows[t].found IN
  /\ Event /\ Is(t, "completed") /\ rows[t].result # "dropped" /\ t > cursor
  /\ \A u \in Tasks : u > cursor /\ u < t /\ Is(u, "completed") => rows[u].result = "dropped"
  /\ record(t, role, atoms, [a \in atoms |-> Seen(a, role)])
  /\ record_contradictions(Contradictions(atoms, {a \in Atoms : Known(a)'}))
  /\ cursor' = IF killed THEN cursor ELSE t
  /\ UNCHANGED <<rows, created, newest, observations, planner, export, bundle, unsure, removed, unaudited>>

-----------------------------------------------------------------------------
(* export_research_case_bundle and verify_research_case_bundle *)

TasksOfCase == rows
EvidenceOfCase == ToSet(observations)

\* The checks both make on tasks and their parents ...
_validate_task_parent_graph(tasks) ==
  \A t \in Tasks : tasks[t] # None /\ tasks[t].parent # 0 =>
    tasks[tasks[t].parent] # None /\ tasks[tasks[t].parent].round = tasks[t].round
BoundResults(tasks) ==
  \A t \in Tasks : tasks[t] # None /\ tasks[t].status = "completed" => tasks[t].result = "bound"
\* ... and on the observations.
Attributed(tasks, evidence) ==
  \A o \in evidence : tasks[o.task] # None /\ tasks[o.task].role = o.role /\ tasks[o.task].round = o.round

Verifies(b) ==
  /\ BoundResults(b.tasks)
  /\ _validate_task_parent_graph(b.tasks)
  /\ Attributed(b.tasks, b.evidence)

SeededExportChecks(tasks, evidence) == BoundResults(tasks) /\ _validate_task_parent_graph(tasks)
ExportChecks(tasks, evidence) ==
  /\ BoundResults(tasks)
  /\ _validate_task_parent_graph(tasks)
  /\ Attributed(tasks, evidence)

SeededReads == <<"evidence", "tasks">>
Reads == <<"tasks", "evidence">>

Read(what) == IF what = "tasks" THEN [tasks |-> TasksOfCase] ELSE [evidence |-> EvidenceOfCase]

ExportBegin ==
  /\ export.pc = "idle" /\ events + 2 <= MaxEvents /\ events' = events + 2 \* bound
  /\ export' = [pc |-> "evidence", read |-> Read(Reads[1])]
  /\ UNCHANGED <<ledgerVars, rows, created, newest, observations, planner, cursor, bundle,
                 unsure, removed, unaudited>>

ExportRest ==
  /\ export.pc = "evidence"
  /\ LET got == [f \in {"tasks", "evidence"} |->
                   IF f = Reads[1] THEN export.read[f] ELSE Read(f)[f]]
     IN  /\ export' = Idle
         /\ bundle' = IF ExportChecks(got.tasks, got.evidence) THEN got ELSE bundle
  /\ UNCHANGED <<ledgerVars, rows, created, newest, observations, planner, cursor, unsure,
                 removed, unaudited, events>>

-----------------------------------------------------------------------------
Next ==
  \/ Submit
  \/ \E t \in Tasks : \/ Start(t) \/ Finish(t) \/ Ask(t) \/ Fail(t) \/ Handoff(t)
                      \/ Execute(t) \/ VerifyOutcome(t)
                      \/ DropResult(t) \/ Compact(t) \/ PlanRead(t)
                      \/ \E killed \in BOOLEAN : Backfill(t, killed)
  \/ PlanStore \/ PlanDetect
  \/ \E decision \in {"next", "stop"} : PlanDecide(decision)
  \/ PlanCreate \/ PlannerKilled
  \/ ExportBegin \/ ExportRest

Spec == Init /\ [][Next]_vars

-----------------------------------------------------------------------------
\* The counters the planner's evidence quality is read from agree with the
\* provenance of each role (EvidenceLedger.record), and no finding counts more
\* roles than have finished tasks reporting it.  It says nothing of the findings whose
\* recording raised (`unsure`), and nothing of how often a kill makes one role count.
CorroborationIsReal ==
  /\ TypeOK
  /\ \A a \in Atoms \ unsure :
       /\ ledger[a].roles = Cardinality({r \in Reporters : provenance[a][r].seen > 0})
       /\ ledger[a].confirmations = SumFunction([r \in Reporters |-> provenance[a][r].seen])
       /\ a \in Findings /\ removed = {} =>
            ledger[a].roles <= Cardinality({rows[t].role :
                                  t \in {u \in Tasks : Exists(u) /\ a \in rows[u].found}})

\* Two findings in the ledger that contradict each other are on record as
\* CONTESTED, or a result that reported one of them is still to be planned
\* (record commits the atoms before detect_contradictions runs).  Excused are the
\* findings whose recording raised or whose undecided row was removed (`unsure`).
ConflictKnown ==
  \A p \in Opposite : (\A a \in p : Known(a)) =>
    \/ \A a \in p : evidence_quality(a) = "CONTESTED"
    \/ p \cap unsure # {}
    \/ \E t \in Tasks : Is(t, "completed") /\ rows[t].decision = "none" /\ rows[t].found \cap p # {}

\* A result compact_completed_results has dropped lives on in the ledger: every
\* finding of it has been counted ("EvidenceLedger is the durable evidence
\* memory") or is one whose recording raised (`unsure`), although the planner records
\* a result and decides it in steps of their own and may be killed between any two
\* of them.  scripts/migrate_cases_to_rounds.py, which decides a duplicate root without
\* recording it, is not run here.
DroppedIsDurable ==
  \A t \in Tasks : Exists(t) /\ rows[t].result = "dropped" =>
    \A a \in rows[t].found : Known(a) \/ a \in unsure

\* A case no executor worked for and nothing was compacted of exports at any
\* moment at which its rows are not being written: the rows of queue and the
\* observations workers add satisfy export_research_case_bundle.
HonestCaseExports ==
  /\ removed = {}
  /\ \A t \in Tasks : Exists(t) => rows[t].role # "executor"
  => ExportChecks(TasksOfCase, EvidenceOfCase)

\* What export_research_case_bundle has put in place of the output file (it
\* verifies only after os.replace), verify_research_case_bundle accepts, and a
\* task it lists as completed has the audit observation its worker made before,
\* although tasks and observations are read one after the other without a
\* transaction.
PublishedIsWhole ==
  bundle # None =>
    /\ Verifies(bundle)
    /\ \A t \in Tasks : bundle.tasks[t] # None /\ bundle.tasks[t].status = "completed"
         => t \in unaudited \/ \E o \in bundle.evidence : o.task = t
=============================================================================
