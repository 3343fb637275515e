# AegisForge in TLA+

A verification project for AegisForge: TLA+ modules of its parts that run
concurrently and must not lose, repeat or corrupt work, TLC configurations that
check them on small instances, and TLAPS proofs of the properties that hold for
every number of processes, rows, copies and retries.

AegisForge is a set of Python processes on one host that share SQLite
databases. A master plans research tasks, workers run them through LLM agents, and
tasks that change the outside world go through an execution boundary in which a
signed, single-use grant is spent before a handler is entered, and interrupted
executions are reviewed before they are retried. What makes it hard is that
every process talks to the databases in separate short transactions, and every
process may be killed between any two of them.

## The system

| component | state | operations | interacts with | what makes it correct |
|---|---|---|---|---|
| task queue (`shared/queue.py`) | the `queue` table | add, claim, finish, fail, recover_stale_running, requeue_failed, planning queries, two compactions, orphan repair | every process | one owner per running row (but for the divergence below); results of completed rows are final; no runnable row without its parent; claimable rows stay claimable; bounded retries |
| worker loop (`agents/worker.py`) | its claimed row | run_once, evidence request, executor handoff | queue, agents, gate | every claimed row is finished or failed by its owner; rows of dead workers come back |
| master (`orchestrator/master.py`) | rows loaded for one planning pass | repair, bootstrap, compaction, retry, decide, create children, shadow evaluation | queue, ledgers | every success gets a decision; budgets; a restart repeats nothing harmful |
| operator command line (`aegisforge.py`, `run.py`) | none | submit, read-only commands | queue | - |
| execution gate (`shared/execution_gate.py`) | nonces | authorize, execute | grants, attempts, executors | a grant starts its action at most once |
| capability grants (`capability_grant*.py`) | grant status | register, consume, revoke | gate, recovery | spent or revoked, never both |
| execution attempts (`execution_attempt.py`) | attempts, leases | create, transition, expire_leases | gate, recovery | legal transitions; one active attempt per key |
| execution recovery (`execution_recovery*.py`) | reviews, retry operations, claims | open, resolve, claim_retry, update_retry_operation, the coordinator's pass | attempts, grants, gate, verifiers | a retry only after a review that found it safe |
| outcome verifiers (`outcome_*.py`, `*_outcome_verifier.py`) | none | verify, verify_recovery | the outside world | a verdict is about the effect, not the receipt |
| recovery evidence, proof (`recovery_*.py`) | hash chain of events | append, verify | recovery, reports | the chain tells the attempt's story |
| trust evaluation (`trust_*.py`, `attestor_registry.py`) | signed registries of attestors | evaluate_trust | agent authority | an outcome counts only if an attestor entitled to judge it stood for it |
| research cases and rounds (`queue.py` 350-651, `case_rounds.py`, case branch of bootstrap) | cases, rounds, timelines, reviews | register, start_case_round, complete, fail, extend, review | master, workers | one root and one timeline per round; a round is closed once, on what its branch did |
| research case bundles (`research_case_bundle.py`, `evidence_backfill.py`) | a bundle file, a cursor | export, verify, backfill | queue, ledger | an honest case exports, and what is exported verifies |
| planner economics and feedback (`queue.py` 935-1112 and 1348-2001, the scores of `master.py`) | samples, traces, shadow evaluations, execution feedback | record, calibrate, viability, select, compare | master, workers | an action is measured once, by its own branch; selection learns |
| evidence ledger (`evidence_ledger.py`) | findings, provenance, contradictions, observations | record, detect_contradictions, observations | master, workers, backfill | counters agree with the provenance |
| memory and quality | a log | append | agents | - |
| task graph (`orchestrator/task_graph.py`) | nodes in memory | add, ready, complete, fail | tests only | a node runs after its dependencies, once |
| agent authority, capability policy (`agent_authority.py`, `authority_*.py`, `capability_policy.py`, `effective_capability.py`) | authority state, epoch | register, record_trust, suspend, promote, reset, rotate | gate, validator, retry authorizer | a grant from before a change of authority is dead after it; elevated authority is earned |
| action intents (`action_intent.py`) | none | bind | grants | - |
| capability signing (`capability_signing.py`) | a key file | load_or_create, sign, verify | validator and executor workers | all workers hold one key |
| agent identity (`agent_identity.py`) | key files | load_or_create, sign | agents | - |
| attestation replay registry (`attestation_replay_registry.py`, `*anchored_attestation_replay.py`, `replay_registry_*.py`, `http_replay_anchor_store.py`, `tools/replay_anchor/`) | journal, accepted rows, pending candidates, anchored head | record, stage, compare-and-set, finalize, recover | reproduction runner, the anchor service | an attestation is accepted once, across copies, crashes, restores and lost answers |
| attestations and their registry (`attestation.py`, `attestation_registry.py`) | snapshots, checkpoints, proofs, as files | sign, verify, build, prove | workflow, tools | what verifies was signed, at that position |
| attestation workflow and tools (`attestation_workflow.py`, `attestation*_cli.py`, `attestation_signer*.py`) | artifact directories, the signer's key | run, sign, add, checkpoint, prove | operators | a finished directory is of one run and stays |
| executors and their registry (`executor_registry.py`, `executor_identity.py`, `executors/`) | pinned identities, status, epoch | register, execute, set_status | gate, worker | only the registered implementation runs |
| bundle verification (`verify_bundle.py`) | none | three levels | runner | - |
| sandbox, reproduction runner (`sandbox.py`, `reproduction_*.py`) | containers, sandboxed commands, output directories | run | the container engine | SUCCEEDED is a reproduction of the pinned tree; the answer tells what may still run |
| runner attestations, source records, agents, scam intelligence, EVM key forensics, scripts, research material | - | checks, I/O, LLM calls, text and batch analysis | - | - |

`PROJECT.json` lists every component with its status, and the hazards, each at
the line where it bites.

### Hard behaviours

* Workers, the master and the operator interleave between any two statements.
  Claims are `BEGIN IMMEDIATE`, everything else is one autocommitted statement
  or an implicit transaction.
* What one statement read is used by a later one: the stale rows of a recovery
  pass, the recent rows, candidates and protected rows of history compaction,
  the planner's list of rows, the attempt a coordinator read before it closes it.
* Processes are killed anywhere: workers, the master, executors, coordinators.
* Leases and claims expire while their holder is merely slow.
* A state and the epoch that guards it, a sample and the decision it precedes, a round's
  root and its timeline, a result's findings and the record that it was planned:
  each pair is written by separate transactions, with a kill in between.
* Keys, evidence files, contracts and checkouts change while a call works on
  them; docker and the signer answer late, or not, after having acted.
* The anchor is a second database behind HTTP: requests and answers get lost, and a
  request whose caller gave up may still be applied. Registry files are backed up
  and restored, the anchor is not.
* Nothing is pushed: progress rests on loops that poll.

## Modules

| module | models |
|---|---|
| `TaskQueue` | the `queue` table; one operator per SQL query (`Claimable`, `planning_tasks`, `Ancestors`, `Protected`...), one action per write (`add`, `claim`, `finish`...) |
| `Farm` | workers, the master and the operator over that table: the statements of `run_once` and `MasterOrchestrator.run` / `plan` in program order, with `pc` and `mpc` as program points; deaths, restarts, passing time; properties, inductive invariant, fairness |
| `FarmProofs` | theorems of `Farm` |
| `ExecutionGate` | grant, nonce and attempt tables; executor processes in `ExecutionGate.execute`, revocation, expiry, lease sweep, the side effect |
| `OneTimeGrant` | abstract specification: a grant is spent once or revoked, and its action starts at most once after that |
| `Recovery` | coordinators in `recover_stale_running` / `retry_if_safe` over review and operation tables, composed with `ExecutionGate`; properties; refinement mapping to `OneTimeGrant` |
| `ReplayLedger` | abstract specification: one append-only log in which no run id and no nonce occurs twice, and calls that are told "valid" only about heads it went through |
| `ReplayRegistry` | copies of the SQLite registry, the anchor service, callers of the local, the anchored and the pending-first adapter and of its recovery; lost requests, deaths, restores; properties, inductive invariant, refinement mapping to `ReplayLedger` |
| `ReplayProofs` | theorems of `ReplayRegistry` |
| `GateProofs` | theorems of `Recovery` and the gate below it |
| `HandoffProofs` | theorems of `ExecutionHandoff` and the authority below it |
| `OutcomeProofs` | theorems of `PlannerFeedback` and the economics below it, and of `ReproductionLab` |
| `CasesProofs` | theorems of `ResearchCases` |
| `EvidenceProofs` | theorems of `CaseEvidence` and the ledger below it |
| `DeskProofs` | theorems of `AttestationDesk` and of the Merkle tree below it |
| `CapabilityPolicy` | the static policy, effective capability, conditions of elevated authority and `evaluate_trust`, as operators |
| `AgentAuthority` | governance calls, `issue_capability_grant` and `authorize` on one agent's rows, with kills |
| `ExecutionHandoff` | over `AgentAuthority`: the shared key file, signed handoffs, `_execute_granted_task`, pinned executors |
| `EvidenceLedger` | the ledger's tables; what `record` reads, counts and clashes with, as operators |
| `CaseEvidence` | over `EvidenceLedger`: workers, planner, backfill, compaction and export on the rows of one case |
| `PlannerEconomics` | calibration, viability, contextual adjustment and selection, as operators on histories of samples |
| `PlannerFeedback` | over `PlannerEconomics`: the planning pass with its samples, traces, shadows and execution feedback |
| `ResearchCases` | case registry, timelines, reviews, operator-started rounds, the case branch of bootstrap and `run`, both migrations; fairness |
| `AttestationRegistry` | attestations, the Merkle registry, inclusion proofs and checkpoints, as operators |
| `AttestationDesk` | over `AttestationRegistry`: operators' workflows and commands on shared directories, signer, changing files and keys |
| `ReproductionLab` | calls of the reproduction runner and the sandbox, the container engine, an edited checkout and bundle |
| `MCFarm`, `MCRecovery`, `MCReplay`, `MCExecutionHandoff`, `MCCaseEvidence`, `MCPlannerFeedback`, `MCResearchCases`, `MCAttestationDesk`, `MCReproductionLab` | small sets of processes and data for TLC |

`TaskQueue` <- `Farm` <- `FarmProofs`, `MCFarm`. `ExecutionGate` <- `Recovery` <-
`GateProofs`, `MCRecovery`; `Recovery` instantiates `OneTimeGrant`. `ReplayRegistry` <-
`ReplayProofs`, `MCReplay`;
`ReplayRegistry` instantiates `ReplayLedger`. `CapabilityPolicy` <- `AgentAuthority`
<- `ExecutionHandoff` <- `HandoffProofs`; `EvidenceLedger` <- `CaseEvidence` <- `EvidenceProofs`; `PlannerEconomics` <-
`PlannerFeedback` <- `OutcomeProofs`; `AttestationRegistry` <- `AttestationDesk` <- `DeskProofs`;
`ResearchCases` <- `CasesProofs`; `ReproductionLab` <- `OutcomeProofs`.

An action is one transaction, or a stretch of code between two transactions
that touches nothing shared. A definition named `Seeded...` is a faulty variant
(a dropped guard, a swapped order) of the definition after it, used only to
show that a property notices such a fault. Variables described as history are not
in the code and are read by properties alone.

### The farm and the code

Worker program points: `idle` (top of the loop), `scanned` (after the SELECT of
`recover_stale_running`), `ready` (before `claim`), `claimed`, `loaded` (parent
result read), `asked` (evidence request inserted), `handing` (executor task
inserted; `HandoffBreaks` is the handler entered from there, with the executor's task left behind),
`failing` and `lastfail` (the executor branch's handler, the outermost handler), `dead`. Master program points follow `run`: `repair`,
`bootstrap`, `compact`, then `keep`, `select`, `protect`, `delete` for the four
statements of `compact_history`, `load`, `recover`, `decide`, `spawn`, `shadow`.

What is abstracted, and why it is enough:

* A row id is a number in the order of `created_at`. Removed rows stay in the
  model as `deleted`, so ids are never reused.
* A result is `null`, `ok`, or a failure record that
  `retryable_failure` accepts or refuses. A decision is `null`, one
  that continues (`open`) or one that ends (`terminal`).
* Agents return any outcome `run_once` tells apart. The case gate blocks or does
  not; cooldowns of failed rows are a choice of which row is retried.
* `finished_at` comes from the clocks of several processes: the rows
  `compact_history` finds most recent are any `KeepRecent` of the finished ones.
  `older_than_days` and `limit` of result compaction select any subset.
* `ran` is history: the mortal workers that claimed a row.
* A recovery pass with nothing to do is part of the claim that follows it.
  Only rows whose worker can die age: other rows are skipped by every pass.
* Merged statements: the guard's queries with the reload (only the master
  changes failed rows), the SELECTs of `requeue_failed` (likewise), the chunks of
  the protection closure (parents never change, only the master deletes), and
  the roots of orphan repair with its DELETE.
* Left out: descriptions, fingerprints, pid reuse, a second host, and
  `MAX_TASKS_PER_GOAL` (50), which small instances do not reach. Economics and the
  shadow-evaluation table are in `PlannerFeedback`, the ledger in `CaseEvidence`, the
  case branch of bootstrap in `ResearchCases`: each keeps of the queue what it
  looks at.

### Gate, recovery and the code

* A grant is identified with its nonce, which is the idempotency key of the
  attempt the gate makes. The grant for the retry of attempt `a` has an id derived
  from `a` in the code, and is `a` in the model.
* `transition()` reads a row and updates it `WHERE state = <what it read>`: one
  atomic step that succeeds or raises. A read that the coordinator makes earlier by
  itself (`Settle`, `ReadOriginal`) is a step of its own.
* `create()` is split into its SELECT and its INSERT, which the unique index may
  refuse; `update_retry_operation` into its check and its UPDATE, which looks at
  the state and not at the token.
* Binding, signature, expiry and authority are one predicate, `valid`, which may
  turn false at any time (`Void`) and which only `authorize` reads. What makes
  it true or false is `AgentAuthority`'s and `ExecutionHandoff`'s.
* A verifier sees the outside world: `SIDE_EFFECT_CONFIRMED` when the effect
  happened, `SAFE_TO_RETRY` when it has not, `QUARANTINED` at any time, or it raises.
* An attempt's `lapsed` is forgotten once it is terminal, since no query asks for
  it then. Coordinators keep nothing between passes.
* Left out: the evidence chain, what a receipt contains, the distribution of
  retry grants (`offered` stands for it).

### The registry and the code

* A head hash commits to every event before it, so the pair of sequence number and
  head is the history itself, a sequence of attestations; a candidate id is the
  history that the candidate would create. Hash collisions are left out.
* `journal[c]` stands for the event journal, the journal state, the accepted rows and
  the stored evidence of copy `c`: one transaction writes them all.
  `pending[c][h]` is the status of a candidate's row.
* `Attestations` are those whose signature and dossier verify; the others are refused
  before anything is read. `RunOf` and `NonceOf` are arbitrary, so that replays exist.
* The pending-first adapter reads the anchor, then the local state and the row, and
  then opens a transaction that makes the same checks again. Only the anchor read and
  the transaction are steps: a check that failed earlier and would pass later makes
  the call raise, which `Raise` allows anywhere.
* After a timeout the code reads the anchor once to decide whether to go on and
  once more before it finalizes; the model keeps the second read (`Confirm`).
* A compare-and-set whose answer is lost stays in `flight` and may be applied later
  (`Arrive`), or never. A request that was applied before its answer was lost is
  `CasTimeout` followed by `Arrive`.
* `foreign` holds the copies that something else than the pending-first adapter
  wrote: the local registry, the older adapter, a restore. The properties that are the
  pending-first adapter's own (`LocalNeverAhead`, `HeadIsHeld`) are claimed of the
  other copies.
* `Restore(c, d)` replaces file `c` by a copy of `d` (a backup, or its restoration)
  while no call works on `c`.
* Left out: the migration of registries that have rows and no journal, checkpoint
  files and their signatures, schema checks.

### Authority, handoff and the code

* One agent; callers are processes on one database. `authority` and `registry` are its
  rows in `authority_state` and `agent_authority_registry`. A governance call
  loads the machine, saves it, reads the next epoch and writes it: one action
  each, and a kill between any two. `issue` and `authorize` read state and
  epoch by statements of their own.
* A grant is what it binds: intent, evidence, policy version, state and epoch. A signature
  is the key that made it. A role, an action and a destination stand for an intent.
* `evaluate_trust` is a function of an attestation, its proof, a signed registry and an
  age. That a trusted issuer lists of an attestor only what the attestor is
  entitled to is an assumption (`Remit`), the one `vouched` measures by.
* The key file is `Absent`, `Empty` or a key: `O_EXCL` creates it, a later write fills it.
  `identity` is the registry of executors; a process registers all `Executors`, in
  order, before it runs one.
* Left out: the transition log (written, never read), canonical encodings, what
  happens after the gate accepts (`ExecutionGate`).

### Case evidence and the code

* The rows are those of one registered case with one round. A finding is a model
  value; two of them contradict. What an agent reports is any of `Results`.
* `record` reads row and provenance (`Seen`) before its first write, and its INSERT may meet
  a row written since (`ClashesInLedger`): the master swallows the error (`unsure`),
  the backfill dies of it.
* Compaction keeps the result of a row that is still open and of its `KeepDepth` nearest ancestors
  (`keep_ancestor_depth`, 4), as the query's depth does. `migrate_cases_to_rounds` is not run here.
* The exporter reads tasks, then observations, then replaces the file, then
  verifies; writers work in between. Digests and zip framing are the value itself.
* Merged: a worker's observations of one task; the orphan SELECT with the
  statement after it; backfill batches are one row, compaction takes one row.
* Left out: routing by quality beyond `evidence_quality`, capability claims (no caller in
  `src/`).

### Planner feedback and the code

* Gains, factors and costs are per cent, rounded down where the code rounds to four
  digits. Candidates of the decision engine are any; selection among them is the
  code's (`choose_next`).
* A history is the set of the samples of `planner_action_outcomes`, each with its `observed_at`: the place
  of the measured row in the order of `finished_at`. `Newest` is ORDER BY ... DESC LIMIT, of
  `candidate_viability` (`RecentSamples`) and of `contextual_action_history` (`ContextRows`, 8 in
  the code), and what pruning keeps.
* A row that has inserted its child and not its result is `asking` (an evidence request,
  which will fail) or `handing` (a handoff, which completes).
* `Calibrate` may fail: BEGIN IMMEDIATE is refused where a failed `record` of the ledger has left its
  transaction open, the planner logs that and goes on. `refused` is history, the rows it happened to.
* `Route` is what decides without comparing candidates: the stages of a bound forensics case, the
  coverage and quality policies. Once a case is registered (`cases`) shadows are no longer
  processed. That planning then looks at rows bound to a case only (`_focus_case_tasks`) is a choice
  of which rows a pass loads.
* The pass is `shadows`, `load`, `row`, `choose`, `mark`, `spawn`, `add`, `insert`: sample,
  decision, children, shadow row and its evaluation are separate transactions.
* Left out: the three reports, which read, and descriptions.

### Research cases and the code

* A task keeps its case, round, parent, status, decision and verdict. Pending and
  running are one status: every query here takes both. Failed rows of a case are
  never retried (their result carries no case binding).
* `AddChild` inserts a row below a running one, as an evidence request or a handoff does, and the
  parent ends by a step of its own.
* `bootstrap` goes case by case and round by round; root and timeline, verdict and
  close are transactions of their own, and the master may be stopped between any two.
  `bad` and `allDone` are what it has gathered of the branches.
* Compaction and the load of a pass are one step, and so are the reviews of a case. The
  primary key of `round_transparency` may be the old one (`OldKey`), which refuses a second
  case's round until the migration.

### Attestations and the code

* A digest is the value it is the digest of, a signature the key with the value signed.
  The Merkle tree is built and folded as the code does, odd widths included.
* Files are created with `O_EXCL` one by one in the workflow's order (`CreateNewJson`) and then written
  and synced (`SyncNewJson`), which the disk may refuse: the file is unlinked and so is what
  the run wrote before, unless that is refused too. A killed run removes nothing. From its
  creation a file shows its content; a reader of half of it fails to parse it. Other commands read, sign and write in one step.
* `signed` has every attestation that was signed, by the service or, as `attest create` does, with an
  operator's own key; checkpoints are signed by the service. `stranded` is history: the directories
  in which the summary could neither be synced nor unlinked.
* A reader is handed an attestation, a proof and a checkpoint of which one may be damaged: another
  time, case, position, size, entry, snapshot or siblings, with or without a recomputed id.
* The signer's reply may be lost after it has signed. Evidence, its key and the trusted keys
  change at any moment, within `MaxEvents`.
* One directory may start with a snapshot of up to `MaxArchive` earlier attestations.

### Reproduction and the code

* A contract is also the output it expects. The engine's containers move by themselves:
  a `docker create` or `start` whose client timed out may still happen.
* `file` and `manifest` are the contract in the bundle and the one the manifest lists,
  read apart; `work` is the checkout, which an editor may change between the copies of
  two files.
* `run_in_sandbox` reads output in chunks up to `max_output_bytes`. Its command is `process`: up or not,
  with at most one child, which stays in the process group or leaves it, and keeps the pipes or
  closes them. The call returns when the pipes are at their end and the command has ended, or kills the
  group at the deadline (`KillGroup`). In container mode the command is the docker client, which
  ends when its container has, and is the only one the group has.
* Left out: contract validation (a contract validates or not), resource limits, levels 1 and 2
  beyond their verdict.

## Runs

| run | question | bounds |
|---|---|---|
| `farm_pipeline` | no new orphans, claimable rows stay claimable | one process per role, 5 rows of which one is a legacy orphan, 1 submit, 1 restart, 1 retry |
| `farm_races` | types and the retry limit over a restart, one owner per row unless a worker that is dead by now once ran it, stored successes are final | 3 agent workers, one mortal, 2 rows, 1 retry, 1 restart |
| `farm_liveness` | rows of dead workers return, claimable rows are claimed, successes are planned until they have a child or a final decision | 2 agent workers, one mortal, 1 submit, 1 restart, 2 rows, at most 1 of them active |
| `recovery` | one active attempt per key, retries are reviewed, RECOVERED is real, the gate implements `OneTimeGrant` | 2 executors, 2 coordinators, 2 attempts, 2 claims, 2 crashes |
| `replay` | the registry implements `ReplayLedger`; finalized rows are anchored; pending-first copies are never ahead; the anchored head stays recoverable | 2 attestations, 2 copies, 2 callers, histories of 2, 4 calls, 1 lost request, 1 foreign copy |
| `trust` | one key, dead grants stay dead, acceptance is permitted, elevation is earned, only pinned code runs | 2 callers, 3 intents, 2 keys, 4 registries, ages 0 to 2, 2 policy versions, 2 builds, 1 executor, 4 calls, 1 kill |
| `evidence` | counters agree with provenance, contradictions are known, dropped results are durable, exports are complete and verify | 3 tasks of which 2 roots, 2 observations kept, 2 contradicting findings, 1 kept ancestor, 2 events |
| `feedback` | one sample per action, shadows teach nothing and compare delivered arms, what is decided is measured unless that failed, credit is earned, selection learns | 2 roles, 4 tasks, 2 children per decision, 2 samples kept, 2 mishaps |
| `cases` | one root per round, growing numbers, complete reconciliation, closed rounds stay closed and tell their own branch | 2 cases with up to 2 rounds, 3 tasks, 3 events |
| `cases_starved` | violated: `run` plans every result (its comment at master.py:3466) | 1 case, 3 tasks, no events |
| `desk` | a finished directory is of one run and stays, snapshots grow, verification accepts only what was signed | 2 operators, 2 keys, 2 evidence contents, 2 cases, 2 directories, snapshots of up to 2 before, 2 events |
| `lab` | SUCCEEDED is a reproduction, what outlives an answer is told by it, output is taken at rest, truncation is told | 2 calls, 2 contracts, 2 paths, 2 directories, 1 byte of output, 3 events |

Why these bounds are enough for the cases of interest. `farm_pipeline`: a parent, a
child and a sibling are what a compaction needs to remove a parent under a
pending child, with `KeepRecent = 1` so that old rows exist; an evidence request
and a handoff need a chain of three. `farm_races`: a dead owner,
the pass that requeues its row, and a second pass that selected it earlier
need three workers. `farm_liveness`: with one live row at most, every
row that runs puts the planner off (BACKPRESSURE), and a second row is a child to create or
a submit that competes with it. `recovery`: two executors hold one grant and both may
pass `authorize` before either consumes it, beside a retry and the two coordinators that
race for it; a claim taken over needs two claims; an attempt is lost by one crash, and a
second one interrupts its review or its retry. A retry of a retry is covered by the proof. `replay`: two callers for one candidate or for rival ones, one
of them answered and one lost, and a second entry on top of the first, are what the
races between staging, anchoring and finalizing need; one foreign copy beside one that is
not covers restores and the older adapter. `trust`: a grant issued, a change of
authority that brings the state back to what it was, and an authorize are three calls,
and a fourth overwrites the change; a revoked attestor needs an old and a new
registry; two builds race for one registration. `evidence`: the same finding twice, under
two roles, from planner and backfill, with a contradiction, needs two rows and a
child; compaction or a kill and an export fit the events. `feedback`: a selected child beside
a shadow, both below a measured root, and one row more to prune a sample;
thresholds of 1 make calibration and viability count with so few samples.
`cases`: a round with a predecessor, its root and a child, next to a case that shares a
round id, and three events for a stop, an operator and a migration. `desk`: two
workflows in one directory, on top of a snapshot whose tree has odd width after
one entry. `lab`: two calls for one directory, a fault, an edit and a kill.

The constants the code fixes (`keep_recent` 500, `limit` 1000, 3 retries, depth 4, 6 tasks
per plan, 24 live tasks, 5000 observations, 200 samples, thresholds 3, 10 and 5, three
trusted outcomes) are parameters of the modules, small in the configurations. What is
proved holds without the bounds.

Bounds in guards: `MaxTasks`, `MaxSubmits`, `MaxMasterCrash`, `MaxAttempts`,
`MaxCrashes`, `MaxClaims`, `MaxHistory`, `MaxCalls`, `MaxLost`, `MaxForeign`, `MaxKills`,
`MaxRoots`, `MaxEvents`, `MaxMishaps`, `MaxArchive`; each is explained where it is declared.
The farm runs check for deadlock. The others do not: an executor without a grant, a
coordinator without a stale attempt, a registry nobody calls, operators and calls that are
done, and planners whose bounded rows are used up have nothing to do, and the
system stops.
`MCRecovery` declares executors, and coordinators, interchangeable, `MCReplay`
attestations, copies and callers, `MCExecutionHandoff` callers and builds,
`MCAttestationDesk` operators, `MCReproductionLab` calls, paths and what else
its `SameRoles` names; `MCFarm` the workers that cannot die. No run with symmetry
checks liveness.

### Two specifications of the farm that exclude a known fault

A recovery pass can requeue a live worker's row, and a pass that updates nothing can
end its own worker (both under the divergences below). `SpecNoSteal` is `Spec`
without the steps that do the first: what it satisfies, every behaviour of the
farm satisfies up to its first stolen row. `CalmSpec` leaves out both and adds
fairness. `farm_races` checks, and `TypeCorrect`, `CompletedFinal` and
`OwnersUnlessExposed` prove, of the full `Spec`; the last says how far the theft goes: a row
changes hands under a live worker only if a worker that is dead by now once ran that
row. `OwnerHolds`, one owner without exception, is true of `SpecNoSteal`, where the proofs need
it as part of their invariant; it is not claimed of the code.

### Fairness

Weak fairness of each worker's step and of the master's step: `main` and
`MasterOrchestrator.run` loop for ever with sleeps of 5 and 15 seconds, SQLite's
busy timeout lets each statement through, and agent runs have timeouts. Weak
fairness of `Age`: time passes. Nothing is assumed of submits, crashes and
restarts. Dead workers stay dead; the replacement that systemd starts is another
member of `Workers`. No liveness is claimed of the gate and the recovery: the
repository has no loop that runs the coordinator.

`ResearchCases` has the same two: `FairSpec` is weak fairness of the master's step
and of the completion of each task (a worker loops and an agent's run times out), and of
nothing an operator, a deadline or a migration does. `EveryResultPlanned` is violated even so.
In `PlannerFeedback` the safety property `DecidedIsMeasured` with `EventuallyPlanned` of
the farm takes the place of a liveness property: what is planned is measured, or its measurement failed.

### Divergences between the code and what it says of itself

One has a run, `cases_starved`, which checks what master.py:3466 says, "All registered case
branches are terminal": `run` skips `plan` when bootstrap finds no active branch
(master.py:3465), and a descendant's result that comes last is never planned. The
others were met while modelling and have no run.

Queue, farm, recovery and replay:

* A recovery pass requeues the rows it selected earlier (queue.py:2287), also when
  another worker has claimed them since; the docstring (2255) says only rows of
  workers that no longer exist. The late owner then finishes its successor's row (2437),
  since `finish` and `fail` look at the status only.
* A recovery pass that updates nothing leaves its transaction open (2303), and
  every other writer waits until this process fails on its next BEGIN.
* A worker whose `save_task` or `finish` raises after it has inserted the executor's task
  (worker.py:861-874) fails its row and leaves that task, which waits for the result of a failed parent
  for ever and counts towards the live limit. `EventuallyPlanned` is therefore about behaviours in which
  the number of live rows falls below the limit again and again.
* `has_planner_work` (799) counts a completed row that has a child and no decision,
  which the planner does not load: no new goal is ever bootstrapped (docstring 787).
* An executor declared lost by its lease acts after the verifier found no effect, and the
  retry doubles the effect (coordinator 339, docstring 18).
* One candidate whose receipt arrives late raises and ends the pass for all others
  (coordinator 163-166).
* `append` of the recovery evidence reads the head and inserts after it in two
  statements (recovery_evidence.py:80): two coordinators fork the chain.
* `compact_history` reads the recent rows (queue.py:1244) and the candidates
  (queue.py:1253) in two statements. A row finished between them is a candidate and is
  deleted, although fewer than `keep_recent` rows are finished; the docstring says
  recent rows are retained. `HistoryKeep` and `HistorySelect` are separate
  actions for that reason.
* The same docstring calls old rows disposable because findings live in the
  evidence ledger. Candidates are not required to have been planned, so a success can be
  deleted before the planner has recorded it.
* An evidence request is inserted (worker.py:733) before its parent's result is stored,
  and a validator that claims it in between fails it for the missing parent
  result. `asked` and `LoadParent` of `Farm` have the interleaving.
* A submitting call that finds the anchor elsewhere sets its row to CONFLICT whatever the row's
  status is (pending_anchored_attestation_replay.py:350 and 354). A slow second call for the
  same candidate so overwrites FINALIZED when the anchor has moved on past
  it. The design document says of CONFLICT that the candidate is not accepted; it
  was. The journal keeps it, and `FinalizedIsAnchored` is about the rows that say
  FINALIZED. `ConflictShape` has what is true: the anchor has passed the candidate.
* A row that lost, PREPARED or CONFLICT, keeps its run id and nonce (line 144), so that the
  retry with a fresh candidate, which the design document asks of the losing writer, is
  refused in that copy.

Cases:

* "A branch with active work must keep its round OPEN/EXTENDED." (master.py:3271) holds of pending and
  running rows (`CloseTellsBranch`), and of no others: a descendant that has completed and is not yet
  decided does not keep the round open, and what the planner creates below it runs in a closed
  round. The verdict comes from the root and its direct children only (3111).
* A resolved `all_branches_terminal` review is created again by every pass. An operator's
  root that is inserted after bootstrap's snapshot makes that review false (3325).
* OUT_OF_SCOPE closes a round as INCONCLUSIVE. `start_case_round` while a completed task
  waits for its plan gives a case two active branches.
* `migrate_cases_to_rounds` marks an undecided completed root DEDUPED_ROOT (138): what it
  found is never planned. The old primary key refuses the timeline of another
  case's round.

Evidence:

* A backfill that inserts a finding between the planner's SELECT and INSERT makes the
  planner's fail, and the master swallows the error: what the result reported is lost
  (`unsure`).
* "Do not count the same task/role observation twice" (evidence_ledger.py:128-131) holds
  for consecutive reports only: A, B, A counts twice, and so does a repeated backfill.
  A backfill killed between commit and cursor repeats its batch, and it never returns to a row
  that completed after its cursor had passed.
* A compacted result, or an executor that worked for the case, makes the case
  unexportable for ever (research_case_bundle.py:327); a task inserted between
  the two SELECTs makes one export fail. The output is replaced before it is verified (461).
* The limit on observations is global, so other cases' observations push out what a bundle
  should hold. Findings above 8192 bytes never contradict anything. A failed audit
  observation is swallowed.

Planner feedback:

* A measurement that fails is logged and the row is decided without it (master.py:2853). It fails where
  the ledger's `record` failed just before: that leaves its transaction open (evidence_ledger.py:117-181), and
  BEGIN IMMEDIATE (queue.py:1364) raises. If that row is planned once more, its sample goes to the
  action it has got by then (next item), and the sample of that action's true answer is refused.
* A row that is planned again records its own gain as a sample of its own action
  (queue.py:1397-1398). Executor rows record a 0.0 sample, although the comment at master.py
  2833 keeps execution proof out of the calibration.
* A shadow may be of the role it is compared with (master.py:2991-3017), is outside
  creation budget and live limit (2980), stays pending for ever when its sibling never gets
  a sample, and is orphaned by a kill before its evaluation is inserted.
* A worker killed between `finish` and the feedback loses the feedback (worker.py:653). A row
  that asked, was killed and completed when run again has a child already, and is neither planned
  nor measured.

Authority and execution:

* `record_trust` saves the machine it loaded: a suspension, promotion or failure recorded in
  between is overwritten. An expired or untrusted outcome moves a SUSPENDED agent to LIMITED
  (authority_state.py:106), although "suspended_requires_governance_reset"
  (authority_transition.py:33). One proof recorded several times counts several times.
* A caller killed between the state and the epoch leaves grants with a current epoch; the
  gate also compares the state, which is what `AcceptedIsPermitted` rests on. Two changes can
  share an epoch. Two registrations race to an IntegrityError, after one reset the state.
* A registry of attestors from before a revocation is still accepted. The attestation's verifier
  is not compared with the one its proof names.
* A process killed between creating and filling the key file leaves it empty, and every later
  start raises (capability_signing.py:106). Agent identities lack the fallback for a
  file that another process has just created.
* Handlers are registered with version "1": a change of a handler's source makes every
  executor task fail (executor_identity.py:72), and so does the suspension of any one
  executor, since all four are registered first (worker.py:336-386). The status is read before the
  gate and not again (executor_registry.py:113).
* record_trust, promote, suspend, reset, rotate and set_status have no caller in `src/` outside
  tests; they are modelled as the calls they are.

Attestations and reproduction:

* `registry add` and `verify-proof` verify without the artifact root, so what the workflow
  signs is INCOMPLETE and refused; docs/ATTESTATION-REGISTRY.md:10-23 and 76-92 describe these
  commands, and the tests use attestations without artifacts.
* A killed workflow leaves files that block its directory. A summary that can neither be synced nor
  unlinked (attestation_workflow.py:236-241) stays beside files that the same run then removes. The signer keeps nothing: two
  continuations of one snapshot both get checkpoints. A lost reply leaves a signed
  attestation that nobody has.
* The contract is read again after level 1 has hashed it (verify_bundle.py:400-405). A call
  that answered NOT_RUN after a start timeout may have run for a moment; a late create leaves a
  created container; a killed caller leaves container and directory. A sandbox timeout
  kills the process group (sandbox.py:134; README.md:41): in container mode that is the docker client and not
  the container, and in process mode it spares a child that made a session of its own. A result
  may be returned while a child that closed its pipes still runs. `WhatOutlivesAnAnswer` says after
  which answers that is so. `/output` is a tmpfs that is dropped when the
  container stops, so that `docker cp` may find nothing (reproduction_runner.py:339).
  Two calls that chose one directory end in FileExistsError for one of them.

## Proofs

`FarmProofs` proves, from `QueueAssumption` and `FarmAssumption` alone (types of
the constants, `AncestorDepth` and `KeepRecent` positive, planner roles without the
executor):

| theorem | statement |
|---|---|
| `TypeCorrect` | `Spec => []TypeOK` |
| `OwnersUnlessExposed` | `Spec => []OwnerUnlessExposed` |
| `OrphansNeverCreated` | `SpecNoSteal => []NoNewOrphans` |
| `CompletedFinal` | `Spec => CompletedIsFinal` |
| `ClaimableKeeps` | `SpecNoSteal => ClaimableUntilClaimed` |

`OwnerUnlessExposed` needs `OInv`: a running row has an owner, which `ran` knows of if it is
mortal (`OwnersRan`), and a recovery pass carries pairs of a row and a worker that ran it (`SnapRan`).
So whoever loses a row, to a recovery pass or to the late finish of one who lost it before, held a
row that a dead worker once ran: a pass updates only rows whose worker it has probed dead. The master
requeues failed rows and deletes finished ones (`CandFinished`, `MasterOwners`), never a running one.

`NoNewOrphans` is not inductive. `IInv` adds to `OwnerHolds`, one owner per row while nothing
is stolen, what the code relies on without saying so:

* `ParentsPresent`: every row that is there, but the legacy orphan, has its
  parent row. The master deletes while workers insert, so this needs
* `CandFinished`: the candidates of `compact_history` stay finished until they
  are deleted. Only the master requeues failed rows, and it is busy compacting;
* `DeleteSafe`: between the statement that computes `protected` and the DELETE no row
  gets a removed parent. A worker inserts children of the row it holds, which is
  running (`OwnerHolds`) and so no candidate: here the two invariants
  need each other;
* `CurCompleted`: the row the planner creates children for is still there;
* `LegacyShape`: a legacy orphan is never claimed, so nothing hangs below it.

`MoveKeepsDag`, `AddKeepsDag` and `DoomedIsLegacy` carry the argument over status
changes, inserts and orphan repair; `WorkerInv` and `MasterInv` have one step per
action. `CompletedFinal` uses only types. `ClaimableKeeps` rests on the fact
that a pending row is in the frontier of result compaction, and with an ancestor
depth of at least one so is its parent.

`ReplayProofs` proves, from `RegistryAssumption` (bounds are numbers,
"none" is no copy) and for any attestations, copies, callers and bounds:

| theorem | statement |
|---|---|
| `RegistryTypes` | `Spec => []TypeOK` |
| `RegistryImplementsLedger` | `Spec => ImplementsLedger` |
| `FinalizedRowsAnchored` | `Spec => []FinalizedIsAnchored` |
| `PendingFirstNeverAhead` | `Spec => []LocalNeverAhead` |
| `AnchoredHeadRecoverable` | `Spec => []HeadIsHeld` |

The refinement needs `LedgerInv`. The anchor service compares and sets; it does not know what a
run id is. That its log has no replay rests on every request being
`prior = Front(cand)` with an entry that is new (`CallFresh`, `FlightShape`), which
rests on the transaction that compared the journal with the prior and
looked for the run id and nonce (`Persist`), on rows keeping that fact for a recovery
(`RowShape`), and for the older adapter on its length check: the copy only grew
(`AppendShape`), so with the right length it was at the prior. `Confirmed`
gives the reports.

The other three are proved together, as `HoldInv`. When the anchor moves to `h`,
some copy has a row of `h` (`RequestHeld`: staged before sent). It is not CONFLICT, because a
candidate gets that status only after the anchor has passed it (`ConflictShape`), and not
FINALIZED, because then the anchor would have been there (`FinalizedIsAnchored`). The copy
has at least the prior of `h` (`RowPrior`) and at most the anchor
(`LocalNeverAhead`), which are the same: it can finalize. After that only the commit
that makes the copy reach `h` takes the row away.

`GateProofs` proves, from `GateAssumption` and `RecoveryAssumption` (bounds are numbers, there
is a grant, an attempt's number is not a base grant) and for any grants, executors,
coordinators and bounds:

| theorem | statement |
|---|---|
| `RecoveryTypes` | `Spec => []TypeOK` |
| `GateImplementsOneTimeGrant` | `Spec => ImplementsOneTimeGrant` |
| `KeysHaveOneActiveAttempt` | `Spec => []OneActivePerKey` |
| `RetriesAreReviewed` | `Spec => []RetryIsReviewed` |
| `RecoveriesAreReal` | `Spec => []RecoveredIsReal` |

`TypeInv` adds to the types that whatever a coordinator works on is a row (`OnRows`). The
refinement needs `GrantInv`: a grant that is not consumed was never entered, and at most
one executor is between its consume and its entry (`Spending`); the consume that
decides is one transaction, whoever holds copies of the grant.
`KeyInv` is behind `OneActivePerKey` and `RetryIsReviewed`, which are proved together: attempt numbers of a key
are distinct and without gaps (`Numbered`), all but the last are terminal (`LastOpen`), what a
review found safe was closed without a receipt (`Receipted`), and a coordinator that retries holds
such a review (`Retrying`). A slow coordinator's INSERT is refused by the unique number
or comes after a terminal attempt: that is why its stale SELECT does no harm. `RealInv`
adds to the types that a CONFIRMED verdict, held by a coordinator or stored in a review,
is of an effect that happened (`Confirmed`), and effects do not go away.

`HandoffProofs` proves, from `PolicyAssumption`, `AuthorityAssumption`, `HandoffAssumption`
and the distinctness of rows from their absence (`AbsentAssumption`, `RowAssumption`), for any
callers, intents, attestations, registries, builds, executors and bounds:

| theorem | statement |
|---|---|
| `HandoffInvariant` | `HandoffSpec => []HandoffInv` |
| `GrantsHandedOver` | `HandoffSpec => []HandoffsHold` |
| `DeadGrantsStayDead` | `HandoffSpec => []DeadStaysDead` |
| `AcceptedArePermitted` | `HandoffSpec => []AcceptedIsPermitted` |
| `ElevationIsEarned` | `HandoffSpec => []ElevatedIsEarned` |

That a dead grant stays dead is a matter of epochs: every grant in `dead` has an epoch below the
registry's (`RowsSound`), because a change of authority ends with an epoch of its own and
epochs only grow (`Grows`); and an authorize that began later has read such an epoch, or is
about to (`Informed`). The state a grant names may come back, its epoch may not.
Elevation rests on what callers hold between load and save: every record, stored or in the hands
of a caller, claims no more outcomes than were vouched for (`Earned`), so an overwritten
change can lose an outcome and never invent one. The one assumption about the world is `Remit`
in `AuthorityAssumption`: a trusted issuer lists what is true. For the handoff, `O_EXCL`
makes one process the writer of the key file (`FileSound`), and whoever is up holds
what is in it (`Holding`); a process runs only what it has found registered with the
digest of its own build, slot by slot (`Listed`, `Enlisted`).

`OutcomeProofs` proves, from `EconomicsAssumption` and `FeedbackAssumption` (costs are 1 to 100, promises
0 to 100, thresholds are numbers and the two that are divided by positive, the table keeps a row), for any
roles, costs, promises and thresholds, any number of rows, children and samples, and every bound:

| theorem | statement |
|---|---|
| `FeedbackInvariant` | `FeedbackSpec => []FeedbackInv` |
| `CreditGoesToTheAction` | `FeedbackSpec => []CreditIsEarned` |
| `ShadowsStayShadows` | `FeedbackSpec => []ShadowsOnlyCompare` |
| `MeasuredBeforeDecided` | `FeedbackSpec => []DecidedIsMeasured` |
| `FailureIsLearnt` | `FeedbackSpec => LearnsFromFailure` |

* The walk up the parents is a recursive function over the rows. `AncestryUnfolds` shows that it has the value
  its recursion gives, `AncestrySame` that rows with the same parents have the same ancestors: a
  row that is inserted later, by a worker or by the planner, changes nobody's origin (`Kept`).
* `Place` says what the pass has in hand at each program point. The rows it has yet to take up have no
  children, although workers insert children meanwhile: only of rows that are at work, and
  these are completed. That one fact keeps a row from being decided twice.
* `DecidedIsMeasured` needs to know whose sample is in the way when `record_action_outcome` records
  none: a row that has not acted has its parent as origin (`AnswersParent`), and a sample stored for
  such a row is one of its parent's action (`OutcomeInv`). So either way the parent is
  measured (`MeasuredBefore`), unless the measurement failed, which `refused` keeps: a row that is in it
  may act and be measured again, and then its sample is not about its parent. A sample that is pushed out leaves a full table (`PrunedIs`: the
  DELETE takes one row, the oldest).
* Shadows rest on `ShadowInv`, with `Place`: between the two transactions the newest
  shadow row is the one whose evaluation is missing.
* `FailureIsLearnt` is about numbers. `MeanIs` bounds the mean of any number of ratios, by induction
  over the sum's own recursion (`SumLoop`); a calibration factor is within 75 and 125
  (`CalibrationIs`), a contextual penalty within 50 and 100 (`ContextIs`). What brought nothing has the
  viability penalty of 25 (`PenaltyOfWorthless`, for which the newest samples must be enough:
  `NewestAreEnough`), what brought all has none and no calibration below 100. A gain times 5/4
  times 1/4 is less than the gain, and `ScoresApart` shows that three roundings down
  do not make up for it from a promise above 5 on.

The same module proves about the lab, from `LabAssumption` and `NamesAssumption` (a contract has a commit and a
case, and is none of the words for a missing one), for any calls, contracts, files and
directories:

| theorem | statement |
|---|---|
| `LabInvariant` | `Spec => []LabInv` |
| `ReportsStayTrue` | `Spec => []ReportsAreTrue` |
| `OutlivesIsTold` | `Spec => []WhatOutlivesAnAnswer` |
| `OutputIsCollectedAtRest` | `Spec => CollectedAtRest` |

`LabInv` says for each program point what the container can be by then: of the pinned tree, because
`copy` goes on only while the checkout shows the commit (`Prepared`); ended, if the
call has no error and is past its wait (`Watched`); and the source of what is in the
directory once the output has passed (`Collected`). No two calls hold one directory
(`Apart`), which `mkdir` decides; it is what lets the steps of one call leave the
others' output alone. A container that a timed-out client started late is
one whose call has answered INCOMPLETE or is still at work (`Answered`). `Reaped` is about the
sandbox: once it has answered the command is down, since the call waited for it or killed it, and what is
left of its children is what the pipes, or the group, did not reach.

`CasesProofs` proves, from `CasesAssumption` (there is a case, cases and rounds are finite, an
operator's and a missing round are no rounds of a case), for any number of rows, either
primary key of the timelines and every bound:

| theorem | statement |
|---|---|
| `CasesInvariant` | `Spec => []CasesInv` |
| `RoundsStayWhole` | `Spec => []RoundsAreWhole` |
| `NumbersGrow` | `Spec => []RoundNumbersGrow` |
| `ClosedStaysFinal` | `Spec => ClosedIsFinal` |
| `ClosingIsEarned` | `Spec => CloseTellsBranch` |

`RoundsAreWhole` needs to know what the master carries: a round in `missing` has no root yet, or
an operator would be free to give it one first (`Creating`; operators' rounds are
`Manual`, so none does), and when it judges a case each round has root and timeline, or a timeline of
another case under the old key keeps it from having one (`Judging`, `Timelines`).
`CloseTellsBranch` is about a tree of any depth: `Descendants` is the least set that
contains the children of its members, and the proof uses that ids grow from parent to child
(`Lineage`), so that a row added or removed below a branch in one step changes no other
branch (`Alongside`). A root that was read as ended is still so when
its round is judged (`Judging`): what others do meanwhile adds rows below it and takes none away. Round numbers need a bound on what was given out
(`Numbers`), since compaction removes the rows they were counted from.

`EvidenceProofs` proves, from `LedgerAssumption`, `EvidenceAssumption` and `NoRowAssumption`
(a contradiction is between findings and not empty, findings are not the atoms of
audit, receipt and outcome, reporters are the roles and the outcome verifier, no row is the
missing one), for any findings, any number of rows and every bound:

| theorem | statement |
|---|---|
| `EvidenceInvariant` | `Spec => []EvidenceInv` |
| `CountersAreReal` | `Spec => []CorroborationIsReal` |
| `ContradictionsAreKnown` | `Spec => []ConflictKnown` |
| `DroppedResultsLiveOn` | `Spec => []DroppedIsDurable` |
| `HonestCasesExport` | `Spec => []HonestCaseExports` |
| `PublishedStaysWhole` | `Spec => []PublishedIsWhole` |

* Counters are stored twice, as two numbers and as rows of provenance, and `record` updates
  each from what it read before it wrote. `Counted` ties them, but for atoms whose
  recording raised or whose row was removed undecided (`unsure`). The sum over reporters is taken over the five roles that
  exist (`SumIsOfFive`), which spares an induction.
* `record` commits before contradictions are looked for. `Conflicted` says that in between, and
  after a kill in between, a completed result that reported one side is undecided, so the planner
  will come by again; `Working` carries the same through the planner's
  own steps.
* A result may be dropped only after its decision, and a decision is made only when
  each atom is kept or its recording raised (`Settled`).
* The exporter has read tasks and not yet observations. A task it read as completed has its
  audit, or is known to have lost it to the limit on observations (`Exporting`, `Audited`), and
  neither changes while it waits (`AuditsStay`).

`LowestExists` and `HighestExists` stand at the head of the modules that need them: a set of naturals
that is not empty has a lowest member (the library's `WFMin`), and one with a bound a highest.

`DeskProofs` proves, from `DeskAssumption` (there is a key, the archive is a directory, the
evidence a run refuses is evidence, bounds are numbers), for any operators, keys, evidence and directories, snapshots
of any size and every bound:

| theorem | statement |
|---|---|
| `BuiltIsAccepted` | the proof built for any leaf of a tree of any size is accepted |
| `AcceptedIsListed` | a proof accepted against the root of some entries is of the entry at its index |
| `DeskInvariant` | `Spec => []DeskInv` |
| `SummariesAreOfOneRun` | `Spec => []SummaryIsOfOneRun` |
| `FinishedRunsAreKept` | `Spec => FinishedIsKept` |
| `PublishedSnapshotsAreSound` | `Spec => []SnapshotsAreSound` |
| `AcceptedWasSigned` | `Spec => []AcceptedIsSigned` |

The first two are about the loops of attestation_registry.py. `Widths`, `Path`, `Levels` and `Climb` are
recursive functions over a bounded domain; `WidthsLoop`, `PathLoop`, `LevelsLoop` and `ClimbLoop` show that each
has the value its body gives (the `CHOOSE` behind a recursive function needs a witness, which
is built one step at a time), and `Counting` is induction on the naturals, from `WFMin`, for a given set. The
loop invariant of the climb is `OnPath`: after `k` siblings the hash is the node of
level `k` at the leaf's position there. `OneLevelUp` takes it from a level to the next for a proof
that was built, and `HashesTell` takes it back down from the root for one that was accepted: a
node is the hash of one pair of children only. That is the one thing assumed of the hash, and it is
in the model, where a digest is the value it is the digest of. A leaf carries its index,
so the repeated last node of an odd level cannot pass for another leaf.

`DeskInv` is the desk's invariant:

* `Works`: what a run has read, made and checked by each statement (`Progress`);
* `Holding` and `Apart`: a file a run has written and not taken back holds what it wrote, and is no
  other run's. `O_CREAT | O_EXCL` decides whose it is, and an unlink goes by the count of the run's own writes;
* `Finished`: beside a summary stand all four files of its run, and no run that is
  still at work has written any of them, but for the one that is syncing this summary. So the clean-up of a failed run, which asks nobody, cannot
  touch a finished directory;
* `Published`: what may stand in a file of each name. A snapshot is one `Listed` accepts: the
  check of its base by `verify_registry_chain` is what makes it grow, and its entries come from a file somebody else
  may have written, which is why the invariant is about all directories at once;
* `Ledger`: all that was ever signed, by the service or with an operator's own key, has its own digest as id and a
  signature of that digest under the key it names, and there is no more of it than the clock has ticked;
* `AcceptedIsSigned` itself, for the last reader. A copy with a recomputed id is refused by the signature, one
  without by the id: `verify_attestation` and `verify_signed_checkpoint` make both checks.

The proofs changed the model in these places. `evidence_quality` was a `CASE` with
overlapping guards, so that a contested atom with two roles had no determined quality; it
is now the chain of `if` and `elif` of evidence_ledger.py. `Descendants` and `Ancestors` were recursive
and are least closed sets. A contradiction had to be
told not to be the empty pair. The widths of a tree and the path through it are now computed by
the halving of `verify_inclusion_proof` and no longer from powers of two; a workflow is a record with
every field from the start; the desk needs a key to begin with. And `SummaryIsOfOneRun`, which
allowed a file beside a summary to be missing, says what turned out to hold: all are there.
A history of samples was a sequence in the order of recording, where the code orders by `observed_at`;
it is a set whose members carry that, and the LIMIT of `contextual_action_history`, which had
been left out, is in. `LearnsFromFailure` is stated of promises above 5 per cent: below, a whole per cent is too
coarse to tell the two scores apart, where the code still has two more digits. `Ancestry` is the walk of one table of rows (`AncestryIn`), so that
two tables can be compared.

Only model-checked:

* liveness (`farm_liveness`, `EveryResultPlanned`) and everything about `ENABLED`, which are out
  of the prover's reach.

## Plan

Done: the modules above and the proofs. Left, in this order:

1. Migration of replay registries that have rows and no journal.
2. The evidence chain of recovery, once something in the system reads it back.

## Not modelled

* The task graph: an in-memory scheduler that nothing outside its tests calls.
* Recovery evidence and proofs: events that are written beside the recovery and read
  by reports only.
* Memory and quality, source records, runner attestations beyond their verdict: a log nothing
  depends on, HTTP clients, stateless checks.
* Agent identity: the key file of `ExecutionHandoff` again, per agent.
* The agents but the validator's decision: LLM prompts and text analysis, whose outcome
  is a choice wherever they are called. They are most of what the map does not cover,
  with scam intelligence and EVM key forensics, which are sequential analyses of their own input.
* Reports and dashboards, which read; encodings, HTTP framing, key generation, installers,
  backups and unit files.
