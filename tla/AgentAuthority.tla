--------------------------- MODULE AgentAuthority ---------------------------
(***************************************************************************)
(* The current authority of one agent: shared/agent_authority.py over      *)
(* shared/authority_state.py, with the calls that read it when a grant is  *)
(* issued (agents/validator/agent.py, capability_grant.py,                 *)
(* execution_retry_authorizer.py) and when the gate authorizes one         *)
(* (execution_gate.py).                                                    *)
(*                                                                         *)
(* Callers are processes on one SQLite database.  An action is one         *)
(* statement or one transaction of a call, and a caller may be killed      *)
(* between any two: the state of an agent and its epoch are written by two *)
(* transactions, and what a call writes was read by earlier statements.    *)
(***************************************************************************)
EXTENDS CapabilityPolicy

CONSTANTS
  Callers,
  Intents, EvidenceSets,   \* what validators are asked to authorize, and with which claims
  Proofs, Attestations, Registries, Ages,   \* what outcomes are judged by
  Remit,         \* Remit[k]: verifiers the holder of key k really attests for
  Versions,      \* policy versions; VERSION is the one of the running gate
  Absent,        \* no row
  MaxCalls, MaxKills   \* bounds

ASSUME AuthorityAssumption ==
  /\ VERSION \in Versions /\ MaxCalls \in Nat /\ MaxKills \in Nat
  \* What trusted issuers list is true of the holders of the keys.
  /\ \A reg \in Registries : reg.issuer \in TrustedIssuers =>
       \A r \in reg.attestors : r.verifiers \subseteq Remit[r.key]

VARIABLES
  authority,  \* the row of authority_state: [state, trusted, failed]
  registry,   \* the row of agent_authority_registry: [version, epoch]
  grants,     \* signed grants
  at, call,   \* a caller: program point, and the call it is in
  machine,    \* the record of the state machine it has loaded
  context,    \* the registry row and the state it has read for issue or authorize
  dead,       \* history: grants signed before the last completed change of authority
  vouched,    \* history: recordings of trusted outcomes that an attestor really stood for
  calls, kills   \* bounds

vars == <<authority, registry, grants, at, call, machine, context, dead, vouched,
          calls, kills>>

Fresh == [state |-> "PROBATION", trusted |-> 0, failed |-> 0]
Unread == [version |-> VERSION, epoch |-> 0, state |-> "PROBATION"]
Idle == [op |-> "idle"]

Standing == [state : AuthorityStates, trusted : Nat, failed : Nat]
Grants == [intent : Intents, evidence : EvidenceSets, version : Versions, epoch : Nat,
           state : AuthorityStates]
Policies == [version : Versions, epoch : Nat \ {0}]
Calls == {Idle} \cup [op : {"promote", "suspend", "reset"}]
           \cup [op : {"trust"}, status : {"TRUSTED", "EXPIRED", "UNTRUSTED"}, genuine : BOOLEAN]
           \cup [op : {"issue"}, intent : Intents, evidence : EvidenceSets]
           \cup [op : {"authorize"}, grant : Grants, late : BOOLEAN]

ASSUME AbsentAssumption == Absent \notin Standing /\ Absent \notin Policies

\* Type correctness.
TypeOK ==
  /\ authority \in {Absent} \cup Standing
  /\ registry \in {Absent} \cup Policies
  /\ registry # Absent => authority # Absent
  /\ dead \subseteq grants /\ grants \subseteq Grants
  /\ at \in [Callers -> {"idle", "register", "enrol", "insert", "read", "state", "load",
                         "loaded", "saved", "accepted"}]
  /\ call \in [Callers -> Calls]
  /\ machine \in [Callers -> Standing]
  /\ context \in [Callers -> [version : Versions, epoch : Nat, state : AuthorityStates]]
  /\ vouched \in Nat /\ calls \in 0..MaxCalls /\ kills \in 0..MaxKills

Init ==
  /\ authority = Absent /\ registry = Absent
  /\ grants = {} /\ dead = {} /\ vouched = 0
  /\ at = [c \in Callers |-> "idle"] /\ call = [c \in Callers |-> Idle]
  /\ machine = [c \in Callers |-> Fresh] /\ context = [c \in Callers |-> Unread]
  /\ calls = 0 /\ kills = 0

store == <<authority, registry>>
locals == <<machine, context>>
ghosts == <<dead, vouched, calls, kills>>

Step(c, l) == at' = [at EXCEPT ![c] = l] /\ UNCHANGED call
Leave(c) ==
  /\ at' = [at EXCEPT ![c] = "idle"] /\ call' = [call EXCEPT ![c] = Idle]
  /\ machine' = [machine EXCEPT ![c] = Fresh] /\ context' = [context EXCEPT ![c] = Unread]

Enter(c, l, cl) ==
  /\ at[c] = "idle" /\ calls < MaxCalls
  /\ calls' = calls + 1
  /\ at' = [at EXCEPT ![c] = l] /\ call' = [call EXCEPT ![c] = cl]
  /\ UNCHANGED <<store, grants, locals, dead, vouched, kills>>

Kill(c) ==
  /\ kills < MaxKills /\ at[c] # "idle"
  /\ kills' = kills + 1
  /\ Leave(c)
  /\ UNCHANGED <<store, grants, dead, vouched, calls>>

-----------------------------------------------------------------------------
(* AuthorityStateMachine, on a record *)

apply_trust(record, status) ==
  IF status = "TRUSTED"
  THEN [record EXCEPT !.state = evaluate_trusted(record.state), !.trusted = @ + 1]
  ELSE [record EXCEPT !.state = "LIMITED",
                      !.failed = @ + (IF status = "UNTRUSTED" THEN 1 ELSE 0)]

\* The record after the call, for a call that does not raise.
Applied(record, cl) ==
  CASE cl.op = "trust" -> apply_trust(record, cl.status)
    [] cl.op = "promote" -> [record EXCEPT !.state = "ELEVATED"]
    [] cl.op = "suspend" -> [record EXCEPT !.state = "SUSPENDED"]
    [] OTHER -> Fresh

Refused(record, cl) ==
  /\ cl.op = "promote"
  /\ \/ record.state = "SUSPENDED"
     \/ ~can_governance_promote_elevated(record.trusted, record.failed)

-----------------------------------------------------------------------------
(* AgentAuthorityRegistry: record_trust, governance_promote_elevated,       *)
(* suspend, governance_reset.  get() refuses an agent that has no row.      *)

\* An outcome is judged, before it is recorded, by an attestation made some
\* time ago and any registry published.
Judged(proof, att, reg, age) ==
  LET status == evaluate_trust(att, proof, reg, att.issued + age)
  IN [op |-> "trust", status |-> status,
      genuine |-> status = "TRUSTED" /\ att.proof = proof.id /\ att.verifier \in Remit[att.by]]

Judgements == {Judged(proof, att, reg, age) :
                 proof \in Proofs, att \in Attestations, reg \in Registries, age \in Ages}

record_trust(c) ==
  /\ registry # Absent
  /\ \E judged \in Judgements : Enter(c, "load", judged)

govern(c) ==
  /\ registry # Absent
  /\ \E op \in {"promote", "suspend", "reset"} : Enter(c, "load", [op |-> op])

\* load().  The transition log, which save() replaces together with the record,
\* is read by nothing else and left out.
Load(c) ==
  /\ at[c] = "load"
  /\ machine' = [machine EXCEPT ![c] = authority]
  /\ Step(c, "loaded")
  /\ UNCHANGED <<store, grants, context, ghosts>>

\* save(): the whole machine replaces what is stored, whatever was stored since.
Save(c) ==
  /\ at[c] = "loaded"
  /\ LET old == machine[c]
         new == Applied(old, call[c])
     IN \/ /\ Refused(old, call[c])
           /\ Leave(c)
           /\ UNCHANGED <<authority, vouched>>
        \/ /\ ~Refused(old, call[c])
           /\ authority' = new
           /\ vouched' = vouched + (IF call[c].op = "trust" /\ call[c].genuine THEN 1 ELSE 0)
           /\ IF call[c].op = "trust" /\ new.state = old.state
              THEN Leave(c) ELSE Step(c, "saved") /\ UNCHANGED locals
  /\ UNCHANGED <<registry, grants, dead, calls, kills>>

\* No new epoch for a suspension and the reset that ends it.
SeededNextEpoch(row, cl) ==
  [row EXCEPT !.epoch = IF cl.op \in {"suspend", "reset"} THEN @ ELSE @ + 1]

NextEpoch(row, cl) == [row EXCEPT !.epoch = @ + 1]

_increment_epoch(c) ==
  /\ at[c] = "saved"
  /\ registry' = NextEpoch(registry, call[c])
  /\ dead' = grants
  /\ Leave(c)
  /\ UNCHANGED <<authority, grants, vouched, calls, kills>>

\* rotate_policy: one UPDATE of version and epoch.
rotate_policy(c) ==
  /\ at[c] = "idle" /\ registry # Absent /\ calls < MaxCalls
  /\ calls' = calls + 1
  /\ \E v \in Versions : registry' = [version |-> v, epoch |-> registry.epoch + 1]
  /\ dead' = grants
  /\ UNCHANGED <<authority, grants, at, call, locals, vouched, kills>>

-----------------------------------------------------------------------------
(* The validator: register, get, issue_capability_grant *)

\* A claim is on record under a role that may make it.
evidence_sufficient(intent, evidence) ==
  \A need \in required_evidence(intent) :
    \E claim \in evidence : claim.type = need /\ claim.source \in SourceRoles(need)

_verify_capability_request(c) ==
  \E intent \in Intents, evidence \in EvidenceSets :
    /\ check(intent) = "REQUIRE_EVIDENCE" /\ evidence_sufficient(intent, evidence)
    /\ Enter(c, "register", [op |-> "issue", intent |-> intent, evidence |-> evidence])

\* The row inserted before the machine is saved.
SeededRegistered(row) == IF row = Absent THEN "insert" ELSE "read"

Registered(row) == IF row = Absent THEN "enrol" ELSE "read"

\* ExecutionRetryAuthorizer: a fresh grant for the intent of an earlier one,
\* under the authority of now, for an agent that must be registered.
RetryAuthorize(c, g) ==
  Enter(c, "read", [op |-> "issue", intent |-> g.intent, evidence |-> g.evidence])

RegisterRead(c) ==
  /\ at[c] = "register"
  /\ Step(c, Registered(registry))
  /\ UNCHANGED <<store, grants, locals, ghosts>>

\* register() saves a new machine first, over one that was saved meanwhile.
RegisterSave(c) ==
  /\ at[c] = "enrol"
  /\ authority' = Fresh
  /\ Step(c, "insert")
  /\ UNCHANGED <<registry, grants, locals, ghosts>>

RegisterInsert(c) ==
  /\ at[c] = "insert"
  /\ \/ /\ registry = Absent
        /\ registry' = [version |-> VERSION, epoch |-> 1]
        /\ Step(c, "read") /\ UNCHANGED locals
     \/ /\ registry # Absent   \* IntegrityError
        /\ Leave(c) /\ UNCHANGED registry
  /\ UNCHANGED <<authority, grants, ghosts>>

\* get(): the registry row, then the state.
GetRow(c) ==
  /\ at[c] = "read"
  /\ context' = [context EXCEPT ![c] = [version |-> registry.version, epoch |-> registry.epoch,
                                        state |-> "PROBATION"]]
  /\ Step(c, "state")
  /\ UNCHANGED <<store, grants, machine, ghosts>>

\* The grant that is signed, unless authority blocks it.
Issued(c) ==
  IF evaluate_effective_capability(call[c].intent, authority.state) = "BLOCK" THEN {}
  ELSE {[intent |-> call[c].intent, evidence |-> call[c].evidence, state |-> authority.state,
         version |-> context[c].version, epoch |-> context[c].epoch]}

issue_capability_grant(c) ==
  /\ at[c] = "state" /\ call[c].op = "issue"
  /\ grants' = grants \cup Issued(c)
  /\ Leave(c)
  /\ UNCHANGED <<store, ghosts>>

-----------------------------------------------------------------------------
(* The gate.  What refuses a grant for other reasons (expiry, revocation,   *)
(* replay) is in ExecutionGate, where Void is what this module shows to be  *)
(* the loss of authority.                                                   *)

EnterGate(c, g) == Enter(c, "read", [op |-> "authorize", grant |-> g, late |-> g \in dead])

\* The state is not compared.
SeededCurrent(g, ctx, state) == g.version = VERSION /\ g.version = ctx.version /\ g.epoch = ctx.epoch

Current(g, ctx, state) ==
  /\ g.version = VERSION /\ g.version = ctx.version
  /\ g.epoch = ctx.epoch /\ g.state = state

authorize(c) ==
  /\ at[c] = "state" /\ call[c].op = "authorize"
  /\ \/ /\ Current(call[c].grant, context[c], authority.state)
        /\ Step(c, "accepted")
        /\ context' = [context EXCEPT ![c].state = authority.state]
        /\ UNCHANGED machine
     \/ /\ ~Current(call[c].grant, context[c], authority.state)
        /\ Leave(c)
  /\ UNCHANGED <<store, grants, ghosts>>

Return(c) ==
  /\ at[c] = "accepted" /\ Leave(c)
  /\ UNCHANGED <<store, grants, ghosts>>

-----------------------------------------------------------------------------
\* The calls that need no key, and the steps of all calls but the two that
\* issue a grant and that answer for one.
Governance(c) == record_trust(c) \/ govern(c) \/ rotate_policy(c)

Running(c) ==
  \/ Load(c) \/ Save(c) \/ _increment_epoch(c)
  \/ RegisterRead(c) \/ RegisterSave(c) \/ RegisterInsert(c) \/ GetRow(c)

Next == \E c \in Callers :
  \/ Governance(c) \/ Running(c) \/ Kill(c)
  \/ _verify_capability_request(c) \/ issue_capability_grant(c)
  \/ (\E g \in grants : RetryAuthorize(c, g) \/ EnterGate(c, g))
  \/ authorize(c) \/ Return(c)

Spec == Init /\ [][Next]_vars

-----------------------------------------------------------------------------
\* A change of authority outlives every grant signed before it: once suspend,
\* promote, reset, rotate_policy or a state-changing record_trust has returned,
\* no authorize that begins later accepts an older grant, however often the
\* agent's state returns to what it was, whatever a concurrent call overwrites.
DeadStaysDead == \A c \in Callers : at[c] = "accepted" => ~call[c].late

\* What authorize accepts is permitted by the state it has read, also when the
\* caller that changed the state was killed before it wrote the epoch, and
\* every requirement was met by a role that may claim it.
AcceptedIsPermitted == \A c \in Callers : at[c] = "accepted" =>
  LET g == call[c].grant IN
  /\ evaluate_effective_capability(g.intent, context[c].state) = "REQUIRE_EVIDENCE"
  /\ \A need \in required_evidence(g.intent) :
       \E claim \in g.evidence : claim.type = need /\ claim.source \in SourceRoles(need)

\* Elevated authority is earned: whatever calls overwrite one another, an agent
\* is ELEVATED only with no more failures on record than the policy allows, and
\* after as many recordings as it asks for of an outcome that a real attestor stood
\* for.  record_trust takes one outcome as often as it is given; a failure that an
\* overlapping call has overwritten is no longer on record.
ElevatedIsEarned ==
  authority # Absent /\ authority.state = "ELEVATED" =>
    authority.failed <= MaxFailed /\ vouched >= MinTrusted
=============================================================================
