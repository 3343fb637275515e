-------------------------- MODULE ExecutionHandoff --------------------------
(***************************************************************************)
(* A granted task from the validator that signs it to the executor that    *)
(* runs it, over AgentAuthority: the signing key the validator and executor *)
(* workers share (CapabilitySigner.load_or_create in capability_signing.py),*)
(* the handoff (_execute_granted_task in agents/worker.py), and the        *)
(* executors with their pinned implementations (executor_registry.py and   *)
(* executor_identity.py).  What the gate does with an accepted grant is in *)
(* ExecutionGate.                                                          *)
(*                                                                         *)
(* A process is killed between any two statements, the creation of the key *)
(* file and the write of its content included, and may be started again    *)
(* from another build of the code.  An operator's process has no key.      *)
(***************************************************************************)
EXTENDS AgentAuthority, Sequences

CONSTANTS
  Empty,        \* a key file without content
  Builds,       \* digest of the executors' source in a build of the code
  Executors     \* the actions _execute_granted_task registers executors for, in order

ASSUME HandoffAssumption ==
  Absent \notin Builds /\ Empty # Absent /\ Len(Executors) \in Nat \ {0}

Slots == 1..Len(Executors)

VARIABLES
  keyfile,   \* the capability key file: Absent, Empty or its key
  proc,      \* a process: [step, build, key, grant, next, epoch]
  handoffs,  \* signed grants in the hands of executors: <<grant, key>>
  identity,  \* executor_identity_registry: [digest, status, epoch] of an executor
  ran        \* history: <<executor, build, epoch>> of what was executed

handoffVars == <<keyfile, proc, handoffs, identity, ran>>
allVars == <<vars, handoffVars>>

Down == [step |-> "down", build |-> Absent, key |-> Absent, grant |-> Absent,
         next |-> 1, epoch |-> 0]

HandoffInit ==
  /\ Init
  /\ keyfile = Absent /\ proc = [c \in Callers |-> Down]
  /\ handoffs = {} /\ ran = {}
  /\ identity = [i \in Slots |-> Absent]

Keys == [of : Callers, life : Nat]
Identities == [digest : Builds, status : {"ACTIVE", "SUSPENDED"}, epoch : Nat \ {0}]

ASSUME RowAssumption == Absent \notin Keys /\ Empty \notin Keys /\ Absent \notin Identities

Steps == {"down", "create", "write", "up", "enlist", "number", "resolve", "gate",
          "restatus"}

\* Type correctness of this module's state and of AgentAuthority's.
HandoffTypeOK ==
  /\ TypeOK
  /\ keyfile \in {Absent, Empty} \cup Keys
  /\ \A c \in Callers :
       /\ proc[c].step \in Steps
       /\ proc[c].key \in {Absent} \cup Keys
       /\ proc[c].step \notin {"down", "create", "write"} => proc[c].key \in Keys
       /\ proc[c].step = "gate" => proc[c].grant = call[c].grant
  /\ handoffs \subseteq grants \X Keys
  /\ identity \in [Slots -> {Absent} \cup Identities]
  /\ ran \subseteq Slots \X Builds \X (Nat \ {0})

Go(c, l) == proc' = [proc EXCEPT ![c].step = l]
Done(c) == proc' = [proc EXCEPT ![c] = [@ EXCEPT !.step = "up", !.grant = Absent,
                                                 !.next = 1, !.epoch = 0]]

-----------------------------------------------------------------------------
(* CapabilitySigner.load_or_create, when a worker starts *)

OwnKey(c) == [of |-> c, life |-> kills]

\* The key that is read, or one that is generated; an empty file raises.
\* Bound: processes start, or start again, before the first call.
Start(c) ==
  /\ proc[c].step = "down" /\ keyfile # Empty
  /\ calls = 0
  /\ \E b \in Builds :
       proc' = [proc EXCEPT ![c] =
         IF keyfile = Absent THEN [Down EXCEPT !.step = "create", !.build = b]
         ELSE [Down EXCEPT !.step = "up", !.build = b, !.key = keyfile]]
  /\ UNCHANGED <<vars, keyfile, handoffs, identity, ran>>

\* The file created by another process is taken for absent.
SeededExists(file) == FALSE

Exists(file) == file # Absent

\* O_EXCL: a file that was created meanwhile is read instead, and raises when
\* it has no content yet.
CreateKey(c) ==
  /\ proc[c].step = "create"
  /\ \/ /\ ~Exists(keyfile)
        /\ keyfile' = Empty /\ Go(c, "write")
     \/ /\ Exists(keyfile) /\ UNCHANGED keyfile
        /\ proc' = [proc EXCEPT ![c] =
             IF keyfile = Empty THEN Down ELSE [@ EXCEPT !.step = "up", !.key = keyfile]]
  /\ UNCHANGED <<vars, handoffs, identity, ran>>

WriteKey(c) ==
  /\ proc[c].step = "write"
  /\ keyfile' = OwnKey(c)
  /\ proc' = [proc EXCEPT ![c] = [@ EXCEPT !.step = "up", !.key = OwnKey(c)]]
  /\ UNCHANGED <<vars, handoffs, identity, ran>>

-----------------------------------------------------------------------------
(* The validator and the retry authorizer sign what they issue *)

Validate(c) ==
  /\ proc[c].step = "up" /\ calls < MaxCalls
  /\ _verify_capability_request(c) \/ \E h \in handoffs : RetryAuthorize(c, h[1])
  /\ UNCHANGED handoffVars

sign(c) ==
  /\ issue_capability_grant(c)
  /\ handoffs' = handoffs \cup (Issued(c) \X {proc[c].key})
  /\ UNCHANGED <<keyfile, proc, identity, ran>>

-----------------------------------------------------------------------------
(* _execute_granted_task and ExecutorIdentityRegistry *)

\* CapabilitySigner.verify, with the process's own key.
verify(c, h) == h[2] = proc[c].key

_execute_granted_task(c) ==
  /\ proc[c].step = "up" /\ at[c] = "idle" /\ calls < MaxCalls
  /\ \E h \in handoffs :
       /\ verify(c, h)
       /\ proc' = [proc EXCEPT ![c].step = "enlist", ![c].grant = h[1]]
  /\ UNCHANGED <<vars, keyfile, handoffs, identity, ran>>

Epochs == {0} \cup {identity[i].epoch : i \in {i \in Slots : identity[i] # Absent}}

\* The highest epoch, not the one after it.
SeededNumber == CHOOSE top \in Epochs : \A e \in Epochs : e <= top

_next_epoch == 1 + CHOOSE top \in Epochs : \A e \in Epochs : top >= e

\* An executor known under another digest passes.
SeededRegistrable(row, digest) == row.status = "ACTIVE"

Registrable(row, digest) == row.digest = digest /\ row.status = "ACTIVE"

\* To the next executor, or to the execution.
Onward(c) ==
  proc' = [proc EXCEPT ![c].step = IF proc[c].next = Len(Executors) THEN "resolve" ELSE "enlist",
                       ![c].next = @ + 1, ![c].epoch = 0]

\* register: any executor whose row differs or is not ACTIVE fails the task.
RegisterExecutor(c) ==
  /\ proc[c].step = "enlist"
  /\ LET row == identity[proc[c].next] IN
       \/ row # Absent /\ Registrable(row, proc[c].build) /\ Onward(c)
       \/ row # Absent /\ ~Registrable(row, proc[c].build) /\ Done(c)
       \/ row = Absent /\ proc' = [proc EXCEPT ![c].step = "number", ![c].epoch = _next_epoch]
  /\ UNCHANGED <<vars, keyfile, handoffs, identity, ran>>

\* The INSERT, with an epoch read before it; another process's row refuses it.
InsertIdentity(c) ==
  /\ proc[c].step = "number"
  /\ LET i == proc[c].next IN
       \/ /\ identity[i] = Absent
          /\ identity' = [identity EXCEPT ![i] = [digest |-> proc[c].build, status |-> "ACTIVE",
                                                  epoch |-> proc[c].epoch]]
          /\ Onward(c)
       \/ /\ identity[i] # Absent
          /\ Done(c) /\ UNCHANGED identity
  /\ UNCHANGED <<vars, keyfile, handoffs, ran>>

\* execute: the executor of the action must be ACTIVE, then the gate is asked.
Resolve(c) ==
  /\ proc[c].step = "resolve"
  /\ LET found == {i \in Slots : Executors[i] = proc[c].grant.intent.action
                                 /\ identity[i].status = "ACTIVE"} IN
       \/ /\ found # {}
          /\ EnterGate(c, proc[c].grant)
          /\ \E i \in found : proc' = [proc EXCEPT ![c].step = "gate", ![c].next = i,
                                                    ![c].epoch = identity[i].epoch]
       \/ found = {} /\ Done(c) /\ UNCHANGED vars
  /\ UNCHANGED <<keyfile, handoffs, identity, ran>>

\* The answer of the gate.
Gate(c) ==
  /\ authorize(c)
  /\ IF proc[c].step = "gate" /\ at[c]' = "idle" THEN Done(c) ELSE UNCHANGED proc
  /\ UNCHANGED <<keyfile, handoffs, identity, ran>>

\* The handler runs; the coordinator of a retry only wanted the answer.
Execute(c) ==
  /\ Return(c)
  /\ \/ /\ proc[c].step = "gate"
        /\ ran' = ran \cup {<<proc[c].next, proc[c].build, proc[c].epoch>>}
        /\ Done(c)
     \/ proc[c].step = "up" /\ UNCHANGED <<ran, proc>>
  /\ UNCHANGED <<keyfile, handoffs, identity>>

\* _reauthorize_retry asks the gate for its new grant.
Reauthorize(c) ==
  /\ proc[c].step = "up"
  /\ \E h \in handoffs : verify(c, h) /\ EnterGate(c, h[1])
  /\ UNCHANGED handoffVars

\* set_status: the row and the next epoch are read, then the UPDATE.  REVOKED
\* is like SUSPENDED to everything that reads it.
StatusRead(c) ==
  /\ proc[c].step = "up" /\ at[c] = "idle" /\ calls < MaxCalls
  /\ \E i \in Slots :
       /\ identity[i] # Absent
       /\ proc' = [proc EXCEPT ![c].step = "restatus", ![c].next = i, ![c].epoch = _next_epoch]
  /\ calls' = calls + 1
  /\ UNCHANGED <<store, grants, at, call, locals, dead, vouched, kills,
                 keyfile, handoffs, identity, ran>>

set_status(c) ==
  /\ proc[c].step = "restatus"
  /\ \E s \in {"ACTIVE", "SUSPENDED"} :
       identity' = [identity EXCEPT ![proc[c].next].status = s,
                                    ![proc[c].next].epoch = proc[c].epoch]
  /\ Done(c)
  /\ UNCHANGED <<vars, keyfile, handoffs, ran>>

-----------------------------------------------------------------------------
\* Killing a process that has nothing open is the same as its never acting again.
Crash(c) ==
  /\ kills < MaxKills /\ (proc[c].step \notin {"down", "up"} \/ at[c] # "idle")
  /\ kills' = kills + 1
  /\ Leave(c)
  /\ proc' = [proc EXCEPT ![c] = Down]
  /\ UNCHANGED <<store, grants, dead, vouched, calls, keyfile, handoffs, identity, ran>>

Govern(c) ==
  /\ proc[c].step = "up" /\ calls < MaxCalls
  /\ Governance(c)
  /\ UNCHANGED handoffVars

HandoffNext == \E c \in Callers :
  \/ Start(c) \/ CreateKey(c) \/ WriteKey(c)
  \/ Govern(c) \/ (Running(c) /\ UNCHANGED handoffVars)
  \/ Validate(c) \/ sign(c)
  \/ _execute_granted_task(c) \/ RegisterExecutor(c) \/ InsertIdentity(c)
  \/ Resolve(c) \/ Gate(c) \/ Execute(c) \/ Reauthorize(c)
  \/ StatusRead(c) \/ set_status(c)
  \/ Crash(c)

HandoffSpec == HandoffInit /\ [][HandoffNext]_allVars

-----------------------------------------------------------------------------
\* A grant signed by any validator is verified by every executor, whatever
\* processes started together and wherever one was killed: the workers that came
\* up hold one key.  And what has run of them is what was registered, however
\* often processes of different builds raced to register an executor.
HandoffsHold ==
  /\ HandoffTypeOK
  /\ \A c \in Callers, h \in handoffs : proc[c].key # Absent => verify(c, h)
  /\ \A r \in ran : identity[r[1]] # Absent /\ identity[r[1]].digest = r[2]
=============================================================================
