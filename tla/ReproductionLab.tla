-------------------------- MODULE ReproductionLab --------------------------
(***************************************************************************)
(* Level 3 of verify_bundle (shared/verify_bundle.py): calls that load a   *)
(* reproduction contract from a bundle (shared/reproduction_contract.py)   *)
(* and run it in a container (shared/reproduction_runner.py), and calls of *)
(* run_in_sandbox (shared/sandbox.py), whose command may leave children.   *)
(* The container engine answers late, fails, or goes on after its client   *)
(* was killed; the bundle and the checkout may be edited meanwhile; a call *)
(* may be killed.                                                          *)
(***************************************************************************)
EXTENDS Integers, FiniteSets

CONSTANTS Runs,       \* calls
          Contracts,  \* contracts that validate; a contract is also the output it expects
          CommitOf, CaseOf,  \* the commit and the case a contract names
          Case,       \* the case the bundle's manifest names
          Paths,      \* files of the pinned tree
          Dirs,       \* output directories
          MaxOutput,  \* max_output_bytes of a sandbox
          MaxEvents   \* bound: faults, edits, kills, forks and sandboxed chunks

ASSUME LabAssumption ==
  /\ DOMAIN CommitOf = Contracts /\ DOMAIN CaseOf = Contracts
  /\ MaxOutput \in Nat /\ MaxEvents \in Nat

\* A contract and a commit are none of the names for what is not one.
ASSUME NamesAssumption ==
  \A c \in Contracts : /\ c \notin {"none", "invalid", "absent", "empty", "part"}
                        /\ CommitOf[c] \notin {"none", "mixed", "edited", "absent"}

VARIABLES manifest,  \* the contract the manifest lists: a contract, or "none"
          file,      \* reproduction-contract.json: a contract, or "invalid"
          head, work,     \* the checkout: HEAD, and whose version of each file it holds
          pc, job,   \* what each call is doing
          container, \* container[r]: the container of call r, as the engine knows it
          process,   \* process[r]: the command of a sandbox, or its docker client, and a child of it
          out,       \* out[d]: "absent", or what is in the output directory
          report,    \* what each call has returned
          events

vars == <<manifest, file, head, work, pc, job, container, process, out, report, events>>

Commits == {CommitOf[c] : c \in Contracts}
NoExit == -1
NoContainer == [state |-> "none", tree |-> "none", exit |-> NoExit, wrote |-> "none"]
NoJob == [contract |-> "none", dir |-> "none", copied |-> {}, tree |-> "none", exit |-> NoExit,
          error |-> "none", stopped |-> FALSE, output |-> "none", cleanup |-> "NOT_NEEDED",
          sandbox |-> "none", read |-> 0, buffer |-> 0, truncated |-> FALSE]
\* A child in the process group of the command is killed with it; one that holds the pipes
\* of the command keeps them open.
InGroup == {"attached", "quiet"}
HoldsPipes == {"attached", "apart"}
Offspring == InGroup \cup HoldsPipes \cup {"away"}
NoProcess == [up |-> FALSE, child |-> "none"]
NoReport == [status |-> "none", level3 |-> "none", contract |-> "none"]

\* The stages of a call that has made its output directory, and all of them.
Inside == {"copy", "start", "unstart", "wait", "stop", "collect", "verify", "cleanup", "judge"}
Stages == Inside \cup {"idle", "load", "git", "docker", "mkdir", "sandbox", "done", "dead"}

\* Type correctness of the calls, the output directories and the containers.
TypeOK ==
  /\ manifest \in Contracts \cup {"none"} /\ file \in Contracts \cup {"invalid"}
  /\ head \in Commits /\ work \in [Paths -> Commits \cup {"edited", "absent"}]
  /\ pc \in [Runs -> Stages]
  /\ \A r \in Runs :
       /\ container[r].state \in {"none", "creating", "created", "starting", "running",
                                  "exited", "removed"}
       /\ report[r].status = "none" <=> pc[r] \notin {"done"}
       /\ process[r] \in [up : BOOLEAN, child : Offspring \cup {"none"}]
       /\ report[r].status \in {"none", "SANDBOXED", "not_started", "execution_timeout", "FAIL", "NOT_RUN", "INCONCLUSIVE", "INCOMPLETE",
                                "TIMED_OUT", "FAILED", "SUCCEEDED"}
       /\ report[r].level3 \in {"none", "PASS", "FAIL", "NOT_RUN", "INCONCLUSIVE"}
  /\ events \in 0..MaxEvents

Init ==
  /\ manifest \in Contracts \cup {"none"} /\ file \in Contracts \cup {"invalid"}
  /\ head \in Commits /\ work = [p \in Paths |-> head]
  /\ pc = [r \in Runs |-> "idle"] /\ job = [r \in Runs |-> NoJob]
  /\ container = [r \in Runs |-> NoContainer] /\ process = [r \in Runs |-> NoProcess]
  /\ out = [d \in Dirs |-> "absent"]
  /\ report = [r \in Runs |-> NoReport]
  /\ events = 0

Event == events < MaxEvents /\ events' = events + 1
bundle == UNCHANGED <<manifest, file, head, work>>
outside == bundle /\ UNCHANGED process

Goto(r, stage, newJob) ==
  /\ pc' = [pc EXCEPT ![r] = stage]
  /\ job' = [job EXCEPT ![r] = newJob]
  /\ UNCHANGED report

SeededStatusMap(status) == IF status = "SUCCEEDED" THEN "PASS" ELSE status

status_map(status) ==
  CASE status = "SUCCEEDED" -> "PASS"
    [] status \in {"FAILED", "FAIL"} -> "FAIL"
    [] status = "NOT_RUN" -> "NOT_RUN"
    [] OTHER -> "INCONCLUSIVE"

Return(r, status) ==
  /\ pc' = [pc EXCEPT ![r] = "done"]
  /\ report' = [report EXCEPT ![r] = [status |-> status, level3 |-> status_map(status),
                                      contract |-> job[r].contract]]
  /\ UNCHANGED job

-----------------------------------------------------------------------------
(* verify_bundle *)

\* Every listed file is there and has its digest; the contract may not be listed.
_verify_level_one == manifest = "none" \/ file = manifest

\* Level 1, then the options of level 3: asked for or not, with or without the two paths.
LevelOne(r) ==
  /\ pc[r] = "idle"
  /\ \/ ~_verify_level_one /\ Return(r, "FAIL")
     \/ _verify_level_one /\ Return(r, "NOT_RUN")
     \/ /\ _verify_level_one /\ manifest # "none"
        /\ \E d \in Dirs : Goto(r, "load", [job[r] EXCEPT !.dir = d])
  /\ UNCHANGED <<container, out, events>> /\ outside

SeededOfCase(c) == TRUE
OfCase(c) == CaseOf[c] = Case

\* Does the text of the file parse and validate?
load_reproduction_contract(text) == text \in Contracts

\* The contract file is opened again, parsed and compared with the manifest's case.
LoadContract(r) ==
  /\ pc[r] = "load"
  /\ IF load_reproduction_contract(file) /\ OfCase(file) THEN Goto(r, "git", [job[r] EXCEPT !.contract = file])
     ELSE Return(r, "FAIL")
  /\ UNCHANGED <<container, out, events>> /\ outside

-----------------------------------------------------------------------------
(* run_reproduction_contract *)

\* HEAD is the contract's commit; the origin may be another repository.
_verify_git_target(r) ==
  /\ pc[r] = "git"
  /\ \/ head = CommitOf[job[r].contract] /\ Goto(r, "docker", job[r])
     \/ Return(r, "INCONCLUSIVE")
  /\ UNCHANGED <<container, out, events>> /\ outside

\* No docker binary, no POSIX, or a root caller.
FindDocker(r) ==
  /\ pc[r] = "docker"
  /\ Goto(r, "mkdir", job[r]) \/ Return(r, "NOT_RUN")
  /\ UNCHANGED <<container, out, events>> /\ outside

SeededVacant(d) == TRUE
Vacant(d) == out[d] = "absent"

\* The directory must not exist: checked, and enforced by mkdir.
_prepare_output_directory(r) ==
  LET d == job[r].dir IN
  /\ pc[r] = "mkdir"
  /\ IF Vacant(d) THEN out' = [out EXCEPT ![d] = "empty"] /\ Goto(r, "copy", job[r])
     ELSE Return(r, "INCONCLUSIVE") /\ UNCHANGED out
  /\ UNCHANGED <<container, events>> /\ outside

BlobMatches(c, p) == work[p] = c

\* _copy_pinned_worktree, one file: what is read must hash to the blob of the pinned tree.
CopyFile(r) ==
  LET commit == CommitOf[job[r].contract] IN
  /\ pc[r] = "copy"
  /\ \E p \in Paths \ job[r].copied :
       IF BlobMatches(commit, p)
       THEN Goto(r, IF job[r].copied \cup {p} = Paths THEN "start" ELSE "copy",
                 [job[r] EXCEPT !.copied = @ \cup {p},
                    !.tree = IF work[p] = commit /\ @ # "mixed" THEN commit ELSE "mixed"])
       ELSE Return(r, "INCOMPLETE")
  /\ UNCHANGED <<container, out, events>> /\ outside

\* docker run -d: started; refused; no answer in time, with the request at any stage; no client.
StartContainer(r) ==
  /\ pc[r] = "start"
  /\ \/ /\ Goto(r, "wait", job[r])
        /\ container' = [container EXCEPT ![r].state = "running", ![r].tree = job[r].tree]
        /\ UNCHANGED events
     \/ /\ Event /\ Goto(r, "unstart", job[r])
        /\ \E s \in {"none", "creating", "created", "starting", "running"} :
             container' = [container EXCEPT ![r].state = s, ![r].tree = job[r].tree]
     \/ Event /\ Return(r, "NOT_RUN") /\ UNCHANGED container
     \/ Event /\ Return(r, "INCOMPLETE") /\ UNCHANGED container   \* a file or directory is missing
  /\ UNCHANGED out /\ outside

\* docker rm -f, as the engine does it: what is being created is not there yet.
Removed(r) == [container EXCEPT ![r].state =
                 IF @ \in {"none", "creating"} THEN @ ELSE "removed"]

SeededUnstarted(cleanup) == "NOT_RUN"
Unstarted(cleanup) == IF cleanup = "REMOVED" THEN "NOT_RUN" ELSE "INCOMPLETE"

\* The container of a failed or unanswered docker run is removed.
RemoveUnstarted(r) ==
  /\ pc[r] = "unstart"
  /\ \/ Return(r, Unstarted("REMOVED")) /\ container' = Removed(r) /\ UNCHANGED events
     \/ Event /\ Return(r, Unstarted("FAILED")) /\ container' \in {container, Removed(r)}
  /\ UNCHANGED out /\ outside

\* docker wait
Wait(r) ==
  /\ pc[r] = "wait"
  /\ \/ /\ container[r].state = "exited"
        /\ Goto(r, "collect", [job[r] EXCEPT !.exit = container[r].exit])
        /\ UNCHANGED events
     \/ Event /\ Goto(r, "stop", [job[r] EXCEPT !.stopped = TRUE])
     \/ Event /\ Goto(r, "collect", [job[r] EXCEPT !.error = "wait"])
  /\ UNCHANGED <<container, out>> /\ outside

Halted(r) == [container EXCEPT ![r] =
                IF @.state = "running" THEN [@ EXCEPT !.state = "exited", !.exit = 137] ELSE @]

SeededStopError(answer) == "none"
StopError(answer) == IF answer = "STOPPED" THEN "none" ELSE "timeout_stop_unconfirmed"

_stop_container(r) ==
  /\ pc[r] = "stop"
  /\ \/ /\ Goto(r, "collect", [job[r] EXCEPT !.error = StopError("STOPPED")])
        /\ container' = Halted(r) /\ UNCHANGED events
     \/ /\ Event /\ Goto(r, "collect", [job[r] EXCEPT !.error = StopError("FAILED")])
        /\ container' \in {container, Halted(r)}
  /\ UNCHANGED out /\ outside

\* docker cp, unless it is unknown whether the container has ended.  What a stopped container's
\* tmpfs still holds is up to the engine; a failed or late copy may leave a part.
CollectOutput(r) ==
  LET d == job[r].dir IN
  /\ pc[r] = "collect"
  /\ \/ /\ job[r].error # "none"
        /\ Goto(r, "cleanup", [job[r] EXCEPT !.output = "NOT_RUN"])
        /\ UNCHANGED <<out, events>>
     \/ /\ job[r].error = "none"
        /\ \E got \in {container[r].wrote, "empty"} : out' = [out EXCEPT ![d] = got]
        /\ Goto(r, "verify", job[r]) /\ UNCHANGED events
     \/ /\ job[r].error = "none" /\ Event
        /\ out' = [out EXCEPT ![d] = "part"]
        /\ Goto(r, "cleanup", [job[r] EXCEPT !.output = "FAIL"])
  /\ UNCHANGED container /\ outside

\* Exactly the expected files with the expected digests.
_verify_outputs(r) ==
  /\ pc[r] = "verify"
  /\ Goto(r, "cleanup", [job[r] EXCEPT !.output =
                           IF out[job[r].dir] = job[r].contract THEN "PASS" ELSE "FAIL"])
  /\ UNCHANGED <<container, out, events>> /\ outside

\* The finally branch.
_remove_container(r) ==
  /\ pc[r] = "cleanup"
  /\ \/ /\ Goto(r, "judge", [job[r] EXCEPT !.cleanup = "REMOVED"])
        /\ container' = Removed(r) /\ UNCHANGED events
     \/ /\ Event /\ Goto(r, "judge", [job[r] EXCEPT !.cleanup = "FAILED"])
        /\ container' \in {container, Removed(r)}
  /\ UNCHANGED out /\ outside

Status(j) ==
  CASE j.cleanup # "REMOVED" \/ j.error # "none" -> "INCOMPLETE"
    [] j.cleanup = "REMOVED" /\ j.error = "none" /\ j.stopped -> "TIMED_OUT"
    [] OTHER -> IF j.output = "PASS" /\ j.exit = 0 THEN "SUCCEEDED" ELSE "FAILED"

Judge(r) ==
  /\ pc[r] = "judge"
  /\ Return(r, Status(job[r]))
  /\ UNCHANGED <<container, out, events>> /\ outside

-----------------------------------------------------------------------------
(* run_in_sandbox: what is read from the command's pipes, and how it ends *)

\* The command is started in a process group of its own; or docker run --rm is, which starts a
\* container, soon or late, unless it is refused; or nothing can be started.
BeginSandbox(r) ==
  /\ pc[r] = "idle"
  /\ \/ /\ Goto(r, "sandbox", [job[r] EXCEPT !.sandbox = "process"])
        /\ process' = [process EXCEPT ![r].up = TRUE] /\ UNCHANGED container
     \/ /\ Goto(r, "sandbox", [job[r] EXCEPT !.sandbox = "container"])
        /\ process' = [process EXCEPT ![r].up = TRUE]
        /\ \E s \in {"none", "starting", "running"} : container' = [container EXCEPT ![r].state = s]
     \/ Return(r, "not_started") /\ UNCHANGED <<process, container>>
  /\ UNCHANGED <<out, events>> /\ bundle

SeededOverflows(size, room) == room > 0 /\ size > room
Overflows(size, room) == size > room

ReadChunk(r) ==
  /\ pc[r] = "sandbox" /\ Event
  /\ \E size \in 1..(MaxOutput + 1) :
       LET room == MaxOutput - job[r].buffer
           kept == IF size <= room THEN size ELSE room
       IN Goto(r, "sandbox", [job[r] EXCEPT !.read = @ + size, !.buffer = @ + kept,
                                            !.truncated = @ \/ Overflows(size, room)])
  /\ UNCHANGED <<container, out>> /\ outside

\* Every pipe at its end and the command reaped before the deadline.
EndSandbox(r) ==
  /\ pc[r] = "sandbox"
  /\ ~process[r].up /\ process[r].child \notin HoldsPipes
  /\ Return(r, "SANDBOXED")
  /\ UNCHANGED <<container, out, events>> /\ outside

SeededKillGroup(p) == [p EXCEPT !.up = FALSE]
KillGroup(p) == [up |-> FALSE, child |-> IF p.child \in InGroup THEN "none" ELSE p.child]

\* At the deadline the process group is killed: of docker run the client, not its container.
SandboxTimeout(r) ==
  /\ pc[r] = "sandbox" /\ Event
  /\ Return(r, "execution_timeout")
  /\ process' = [process EXCEPT ![r] = KillGroup(@)]
  /\ UNCHANGED <<container, out>> /\ bundle

\* The command starts a child, which may leave the group, the pipes or both.
Forks(r) ==
  /\ process[r].up /\ process[r].child = "none" /\ job[r].sandbox = "process" /\ Event
  /\ \E child \in Offspring : process' = [process EXCEPT ![r].child = child]
  /\ UNCHANGED <<pc, job, container, out, report>> /\ bundle

\* The command ends, a docker client with its container; or its child does.
ProcessEnds(r) ==
  /\ \/ /\ process[r].up /\ container[r].state \notin {"starting", "running"}
        /\ process' = [process EXCEPT ![r].up = FALSE]
     \/ /\ process[r].child # "none"
        /\ process' = [process EXCEPT ![r].child = "none"]
  /\ UNCHANGED <<pc, job, container, out, report, events>> /\ bundle

-----------------------------------------------------------------------------
(* The engine, and the surroundings *)

\* Requests of a client that is gone are carried out.
EngineCatchesUp(r) ==
  /\ container[r].state \in {"creating", "starting"}
  /\ container' = [container EXCEPT ![r].state = IF @ = "creating" THEN "created" ELSE "running"]
  /\ UNCHANGED <<pc, job, out, report, events>> /\ outside

\* The program ends; --rm removes the container of a sandbox.
ContainerExits(r) ==
  /\ container[r].state = "running"
  /\ \E code \in {0, 1}, wrote \in Contracts \cup {"empty"} :
       container' = [container EXCEPT ![r].exit = code, ![r].wrote = wrote,
                       ![r].state = IF job[r].sandbox = "container" THEN "removed" ELSE "exited"]
  /\ UNCHANGED <<pc, job, out, report, events>> /\ outside

Killed(r) ==
  /\ pc[r] \notin {"idle", "done", "dead"} /\ Event
  /\ pc' = [pc EXCEPT ![r] = "dead"]
  /\ UNCHANGED <<job, container, out, report>> /\ outside

Edit ==
  /\ Event
  /\ \/ \E p \in Paths, v \in {"edited", "absent"} : work' = [work EXCEPT ![p] = v] /\ UNCHANGED <<file, head>>
     \/ \E c \in Commits : head' = c /\ work' = [p \in Paths |-> c] /\ UNCHANGED file
     \/ \E c \in Contracts : file' = c /\ UNCHANGED <<head, work>>
  /\ UNCHANGED <<manifest, pc, job, container, process, out, report>>

RunnerStep(r) ==
  \/ _verify_git_target(r) \/ FindDocker(r) \/ _prepare_output_directory(r) \/ CopyFile(r)
  \/ StartContainer(r) \/ RemoveUnstarted(r) \/ Wait(r) \/ _stop_container(r)
  \/ CollectOutput(r) \/ _verify_outputs(r) \/ _remove_container(r) \/ Judge(r)
BundleStep(r) == LevelOne(r) \/ LoadContract(r) \/ RunnerStep(r)
SandboxStep(r) ==
  \/ BeginSandbox(r) \/ ReadChunk(r) \/ EndSandbox(r) \/ SandboxTimeout(r)
  \/ Forks(r) \/ ProcessEnds(r)
EngineStep(r) == EngineCatchesUp(r) \/ ContainerExits(r)

Next ==
  \/ \E r \in Runs : BundleStep(r) \/ SandboxStep(r) \/ EngineStep(r) \/ Killed(r)
  \/ Edit

Spec == Init /\ [][Next]_vars

-----------------------------------------------------------------------------
(* Properties *)

\* What a call reports is true.  A SUCCEEDED run is a reproduction: its container ran the
\* pinned tree to its own end with the expected exit code, what it wrote is in the output
\* directory and is what the contract expects, for a contract of the bundle's case, and the
\* container is gone; two calls never work in one directory.  Digests of a sandbox that are not marked truncated are of
\* everything the command wrote.
ReportsAreTrue ==
  /\ TypeOK
  /\ \A r \in Runs : report[r].status = "SUCCEEDED" =>
       LET c == report[r].contract box == container[r] IN
       /\ box.state = "removed" /\ box.exit = 0 /\ box.tree = CommitOf[c]
       /\ box.wrote = c /\ out[job[r].dir] = c
       /\ CaseOf[c] = Case
  /\ \A r, q \in Runs : r # q /\ pc[r] \in Inside /\ pc[q] \in Inside => job[r].dir # job[q].dir
  /\ \A r \in Runs : report[r].status = "SANDBOXED" /\ ~job[r].truncated =>
       job[r].read = job[r].buffer

\* Output is taken only from a container that has ended ("Never collect output in that state"),
\* and that ran the tree of the pinned commit.
CollectedAtRest ==
  [][\A r \in Runs : pc[r] = "collect" /\ pc'[r] # "collect" /\ out' # out
        => container[r].state = "exited" /\ container[r].tree = CommitOf[job[r].contract]]_vars

\* What an answer says of what is left.  A container of a call that has answered runs, then or
\* later, only if the answer is INCOMPLETE or execution_timeout; the command itself never runs.
\* A child of it is left by a result only if it has given up the pipes, by a timeout only if it
\* has left the process group, and by no other answer.
WhatOutlivesAnAnswer ==
  \A r \in Runs : LET status == report[r].status IN status # "none" =>
    /\ container[r].state \in {"starting", "running"} => status \in {"INCOMPLETE", "execution_timeout"}
    /\ ~process[r].up
    /\ process[r].child # "none" =>
         \/ status = "SANDBOXED" /\ process[r].child \notin HoldsPipes
         \/ status = "execution_timeout" /\ process[r].child \notin InGroup

=============================================================================
