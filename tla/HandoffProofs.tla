--------------------------- MODULE HandoffProofs ---------------------------
(***************************************************************************)
(* Proofs about ExecutionHandoff, and the AgentAuthority it composes, for  *)
(* any callers, intents, attestations, registries, policy versions, builds *)
(* and executors, and every bound.                                         *)
(***************************************************************************)
EXTENDS ExecutionHandoff, WellFoundedInduction, TLAPS

USE PolicyAssumption, AuthorityAssumption, AbsentAssumption, HandoffAssumption, RowAssumption

\* A set of naturals that is not empty has a least element.
LEMMA LowestExists ==
  ASSUME NEW S \in SUBSET Nat, S # {}
  PROVE  \E m \in S : \A e \in S : m <= e
<1> DEFINE R == {ss \in Nat \X Nat : ss[1] < ss[2]}
<1>1. PICK m \in S : \A e \in S : ~ (<<e, m>> \in R)
  <2>1. IsWellFoundedOn(R, Nat)
    BY NatLessThanWellFounded DEF OpToRel
  <2> HIDE DEF R
  <2> QED
    BY <2>1, WFMin
<1>2. ASSUME NEW e \in S PROVE m <= e
  <2>1. ~ (<<e, m>> \in R) /\ e \in Nat /\ m \in Nat
    BY <1>1
  <2> QED
    BY <2>1
<1> QED
  BY <1>2

\* One that is bounded has a greatest.
LEMMA HighestExists ==
  ASSUME NEW S \in SUBSET Nat, NEW top \in Nat, S # {}, \A e \in S : e <= top
  PROVE  \E m \in S : \A e \in S : m >= e
<1> DEFINE T == {top - e : e \in S}
<1>1. T \in SUBSET Nat /\ T # {}
  <2>1. ASSUME NEW e \in S PROVE top - e \in Nat
    BY <2>1
  <2>2. T # {}
    OBVIOUS
  <2> QED
    BY <2>1, <2>2
<1>2. PICK x \in T : \A y \in T : x <= y
  <2> HIDE DEF T
  <2> QED
    BY <1>1, LowestExists
<1>3. PICK m \in S : x = top - m
  OBVIOUS
<1>4. ASSUME NEW e \in S PROVE m >= e
  <2>1. x <= top - e
    BY <1>2
  <2> QED
    BY <2>1, <1>3
<1> QED
  BY <1>4

-----------------------------------------------------------------------------
(* The inductive invariant of AgentAuthority *)

Changes == [op : {"promote", "suspend", "reset"}]
             \cup [op : {"trust"}, status : {"TRUSTED", "EXPIRED", "UNTRUSTED"}, genuine : BOOLEAN]
Issues == [op : {"issue"}, intent : Intents, evidence : EvidenceSets]
Authorizations == [op : {"authorize"}, grant : Grants, late : BOOLEAN]

\* The static policy demands evidence for what is asked, and has it.
Asked(x) == check(x.intent) = "REQUIRE_EVIDENCE" /\ evidence_sufficient(x.intent, x.evidence)

\* A record claims no more trusted outcomes than were vouched for, and is not
\* ELEVATED beyond what it claims.
Earned(x) ==
  /\ x.trusted <= vouched
  /\ x.state = "ELEVATED" => x.trusted >= MinTrusted /\ x.failed <= MaxFailed

\* What is stored: no grant is of an epoch to come, a dead one is of an epoch gone
\* by, and each is for what was asked and its state allows.
RowsSound ==
  /\ grants # {} => registry # Absent
  /\ \A g \in grants :
       /\ g.epoch <= registry.epoch
       /\ Asked(g) /\ evaluate_effective_capability(g.intent, g.state) = "REQUIRE_EVIDENCE"
  /\ \A g \in dead : g.epoch < registry.epoch
  /\ authority # Absent => Earned(authority)

\* Which call a caller is in at a program point; only register is ever open for
\* an agent without a row.
Placed(c) ==
  /\ at[c] = "idle" => call[c] = Idle
  /\ at[c] \in {"load", "loaded", "saved"} => call[c] \in Changes
  /\ at[c] \in {"register", "enrol", "insert"} => call[c] \in Issues
  /\ at[c] \in {"read", "state"} => call[c] \in Issues \cup Authorizations
  /\ at[c] = "accepted" => call[c] \in Authorizations
  /\ at[c] \notin {"idle", "register", "enrol", "insert"} => registry # Absent
  /\ at[c] = "insert" => authority # Absent

\* What a caller has been given and has read: a late authorize is of a grant that
\* is older than the row it is about to read, and than the one it has read.
Informed(c) ==
  /\ at[c] = "state" => context[c].epoch <= registry.epoch
  /\ call[c] \in Issues => Asked(call[c])
  /\ call[c] \in Authorizations => call[c].grant \in grants
  /\ call[c] \in Authorizations /\ call[c].late =>
       /\ at[c] = "read" => call[c].grant.epoch < registry.epoch
       /\ at[c] = "state" => call[c].grant.epoch < context[c].epoch
       /\ at[c] # "accepted"
  /\ at[c] = "accepted" => call[c].grant.state = context[c].state
  /\ Earned(machine[c])
  /\ call[c] \in Changes /\ call[c].op = "trust" /\ call[c].status = "TRUSTED" =>
       call[c].genuine

AuthorityInv == TypeOK /\ RowsSound /\ \A c \in Callers : Placed(c) /\ Informed(c)

-----------------------------------------------------------------------------
(* The inductive invariant of the handoff *)

Processes ==
  [step : Steps, build : {Absent} \cup Builds, key : {Absent} \cup Keys,
   grant : {Absent} \cup Grants, next : Nat, epoch : Nat]

Starting == {"down", "create", "write"}

\* A process is in a call of the authority only when it is up, or at the gate,
\* with the grant it was handed.
Ordered(c) ==
  /\ at[c] # "idle" => proc[c].step \in {"up", "gate"}
  /\ proc[c].step = "gate" =>
       /\ at[c] \in {"read", "state", "accepted"}
       /\ call[c] \in Authorizations /\ proc[c].grant = call[c].grant
  /\ proc[c].step # "down" => proc[c].build \in Builds
  /\ proc[c].step \in Starting \cup {"up"} => proc[c].next = 1
  /\ proc[c].step \in {"enlist", "number", "resolve"} => proc[c].grant \in grants

\* One process writes the file, and what it writes signs every grant.
FileSound ==
  /\ keyfile \in {Absent, Empty} \cup Keys
  /\ handoffs \subseteq grants \X Keys
  /\ \A h \in handoffs : h[2] = keyfile
  /\ \A c, d \in Callers : proc[c].step = "write" /\ proc[d].step = "write" => c = d

\* A process that is up holds what is in the file.
Holding(c) ==
  /\ proc[c].step \in Starting => proc[c].key = Absent
  /\ proc[c].step \notin Starting => proc[c].key = keyfile /\ keyfile \in Keys
  /\ proc[c].step = "write" => keyfile = Empty

\* What has run is what is registered; the epochs have a highest.
RegistrySound ==
  /\ identity \in [Slots -> {Absent} \cup Identities]
  /\ \E top \in Nat : \A i \in Slots : identity[i] # Absent => identity[i].epoch <= top
  /\ ran \subseteq Slots \X Builds \X (Nat \ {0})
  /\ \A r \in ran : identity[r[1]] # Absent /\ identity[r[1]].digest = r[2]

\* The rows a process has passed are registered, with the digest of its build.
Listed(c, i) == identity[i] # Absent /\ identity[i].digest = proc[c].build

Enlisted(c) ==
  /\ proc[c].step \in {"enlist", "number", "restatus", "gate"} => proc[c].next \in Slots
  /\ proc[c].step \in {"number", "restatus", "gate"} => proc[c].epoch > 0
  /\ proc[c].step \in {"enlist", "number"} =>
       \A i \in Slots : i < proc[c].next => Listed(c, i)
  /\ proc[c].step = "resolve" => \A i \in Slots : Listed(c, i)
  /\ proc[c].step = "gate" => Listed(c, proc[c].next)
  /\ proc[c].step = "restatus" => identity[proc[c].next] # Absent

HandoffInv ==
  /\ AuthorityInv
  /\ proc \in [Callers -> Processes]
  /\ FileSound /\ RegistrySound
  /\ \A c \in Callers : Ordered(c) /\ Holding(c) /\ Enlisted(c)

-----------------------------------------------------------------------------
(* The records of the state machine *)

LEMMA CallSets ==
  /\ Changes \subseteq Calls /\ Issues \subseteq Calls /\ Authorizations \subseteq Calls
  /\ Idle \in Calls /\ Fresh \in Standing /\ Absent \notin Standing
  /\ Unread \in [version : Versions, epoch : Nat, state : AuthorityStates]
  /\ \A x \in Changes : x \notin Issues /\ x \notin Authorizations
  /\ \A x \in Issues : x \notin Authorizations
  /\ Idle \notin Changes /\ Idle \notin Issues /\ Idle \notin Authorizations
<1>1. /\ \A x \in Changes : x.op \in {"promote", "suspend", "reset", "trust"}
      /\ \A x \in Issues : x.op = "issue"
      /\ \A x \in Authorizations : x.op = "authorize"
      /\ Idle.op = "idle"
  BY DEF Changes, Issues, Authorizations, Idle
<1>2. /\ Changes \subseteq Calls /\ Issues \subseteq Calls /\ Authorizations \subseteq Calls
      /\ Idle \in Calls
  BY DEF Changes, Issues, Authorizations, Calls
<1>3. /\ Fresh \in Standing
      /\ Unread \in [version : Versions, epoch : Nat, state : AuthorityStates]
  BY DEF Fresh, Unread, Standing, AuthorityStates
<1> QED
  BY <1>1, <1>2, <1>3

\* A caller's call is told by its op.
LEMMA CallsByOp ==
  ASSUME NEW x \in Calls
  PROVE  /\ x.op \in {"promote", "suspend", "reset", "trust"} <=> x \in Changes
         /\ x.op = "issue" <=> x \in Issues
         /\ x.op = "authorize" <=> x \in Authorizations
<1>1. CASE x = Idle
  BY <1>1 DEF Idle, Changes, Issues, Authorizations
<1>2. CASE x \in Changes
  BY <1>2 DEF Changes, Issues, Authorizations
<1>3. CASE x \in Issues
  BY <1>3 DEF Changes, Issues, Authorizations
<1>4. CASE x \in Authorizations
  BY <1>4 DEF Changes, Issues, Authorizations
<1> QED
  BY <1>1, <1>2, <1>3, <1>4 DEF Calls, Changes, Issues, Authorizations

\* What a call leaves of a record is a record; it is earned when the record was,
\* a trusted outcome having been vouched for.
LEMMA AppliedEarned ==
  ASSUME NEW record \in Standing, NEW cl \in Changes, NEW v \in Nat, NEW w \in Nat,
         ~Refused(record, cl), w = v + (IF cl.op = "trust" /\ cl.genuine THEN 1 ELSE 0),
         cl.op = "trust" /\ cl.status = "TRUSTED" => cl.genuine,
         record.trusted <= v,
         record.state = "ELEVATED" => record.trusted >= MinTrusted /\ record.failed <= MaxFailed
  PROVE  LET new == Applied(record, cl) IN
         /\ new \in Standing /\ new.trusted <= w
         /\ new.state = "ELEVATED" => new.trusted >= MinTrusted /\ new.failed <= MaxFailed
<1>1. CASE cl.op = "trust"
  <2>0. Applied(record, cl) = apply_trust(record, cl.status)
    BY <1>1, Zenon DEF Applied
  <2>1. CASE cl.status = "TRUSTED"
    <3>1. w = v + 1
      BY <1>1, <2>1
    <3>2. Applied(record, cl) = [state |-> evaluate_trusted(record.state),
                                 trusted |-> record.trusted + 1, failed |-> record.failed]
      BY <2>0, <2>1 DEF apply_trust, Standing
    <3>3. evaluate_trusted(record.state) \in AuthorityStates
          /\ (evaluate_trusted(record.state) = "ELEVATED" => record.state = "ELEVATED")
      BY DEF evaluate_trusted, Standing, AuthorityStates
    <3> QED
      BY <3>1, <3>2, <3>3 DEF Standing
  <2>2. CASE cl.status # "TRUSTED"
    <3>1. w >= v /\ w \in Nat
      OBVIOUS
    <3>2. PICK n \in {0, 1} : Applied(record, cl) =
             [record EXCEPT !.state = "LIMITED", !.failed = @ + n]
      BY <2>0, <2>2, Zenon DEF apply_trust
    <3>3. Applied(record, cl) = [state |-> "LIMITED", trusted |-> record.trusted,
                                 failed |-> record.failed + n]
      BY <3>2 DEF Standing
    <3> QED
      BY <3>1, <3>3 DEF Standing, AuthorityStates
  <2> QED
    BY <2>1, <2>2
<1>2. CASE cl.op = "promote"
  <2>0. Applied(record, cl) = [record EXCEPT !.state = "ELEVATED"]
    BY <1>2, Zenon DEF Applied
  <2> QED
    BY <1>2, <2>0 DEF Refused, can_governance_promote_elevated, Standing, AuthorityStates
<1>3. CASE cl.op \in {"suspend", "reset"}
  <2>0. Applied(record, cl) \in {Fresh, [record EXCEPT !.state = "SUSPENDED"]}
    BY <1>3, Zenon DEF Applied
  <2> QED
    BY <1>3, <2>0 DEF Fresh, Standing, AuthorityStates
<1> QED
  BY <1>1, <1>2, <1>3 DEF Changes

\* TRUSTED is what a real attestor stood for: evaluate_trust accepts only the key
\* an issuer that is pinned lists, for a verifier it lists with it.
LEMMA TrustedIsGenuine ==
  ASSUME NEW judged \in Judgements
  PROVE  judged \in Changes /\ (judged.status = "TRUSTED" => judged.genuine)
<1>1. PICK proof \in Proofs, att \in Attestations, reg \in Registries, age \in Ages :
         judged = Judged(proof, att, reg, age)
  BY DEF Judgements
<1> DEFINE now == att.issued + age
           status == evaluate_trust(att, proof, reg, now)
           genuine == status = "TRUSTED" /\ att.proof = proof.id
                      /\ att.verifier \in Remit[att.by]
<1>2. judged = [op |-> "trust", status |-> status, genuine |-> genuine]
  BY <1>1 DEF Judged
<1>3. status \in {"TRUSTED", "EXPIRED", "UNTRUSTED"}
  BY DEF evaluate_trust
<1>4. ASSUME status = "TRUSTED" PROVE genuine
  <2>1. verify_attestation(att, proof, reg, now)
    BY <1>4 DEF evaluate_trust
  <2>2. PICK record \in reg.attestors :
           att.verifier \in record.verifiers /\ att.by = record.key
    BY <2>1 DEF verify_attestation, Records
  <2>3. att.proof = proof.id /\ reg.issuer \in TrustedIssuers
    BY <2>1 DEF verify_attestation, verify_registry
  <2> QED
    BY <1>4, <2>2, <2>3
<1>5. judged \in Changes
  <2> HIDE DEF status
  <2> QED
    BY <1>2, <1>3 DEF Changes
<1> QED
  BY <1>2, <1>4, <1>5
-----------------------------------------------------------------------------
(* Steps of AgentAuthority *)

Points == {"idle", "register", "enrol", "insert", "read", "state", "load", "loaded", "saved",
           "accepted"}
Readings == [version : Versions, epoch : Nat, state : AuthorityStates]

\* A row, once there, stays, the registry's with an epoch that only grows; so do the grants and
\* the outcomes that were vouched for.
Grows ==
  /\ grants \subseteq grants' /\ vouched <= vouched'
  /\ authority # Absent => authority' # Absent
  /\ registry # Absent => registry' # Absent /\ registry.epoch <= registry'.epoch

\* What holds of a caller still does after a step of another.
LEMMA OthersKeep ==
  ASSUME TypeOK, TypeOK', Grows, NEW c \in Callers, Placed(c), Informed(c),
         UNCHANGED <<at[c], call[c], machine[c], context[c]>>
  PROVE  Placed(c)' /\ Informed(c)'
<1>1. Placed(c)'
  BY DEF Placed, Grows
<1>2. registry # Absent => registry.epoch \in Nat /\ registry'.epoch \in Nat
  BY DEF TypeOK, Grows, Policies
<1>3. machine[c].trusted \in Nat /\ vouched \in Nat /\ vouched' \in Nat
      /\ context[c].epoch \in Nat
  BY DEF TypeOK, Standing
<1>4. \A g \in grants : g.epoch \in Nat
  BY DEF TypeOK, Grants
<1>5. Earned(machine[c])'
  BY <1>3 DEF Earned, Informed, Grows
<1>6. at[c] \in {"state", "read"} => registry # Absent
  BY DEF Placed
<1>7. Asked(call[c])' <=> Asked(call[c])
  BY DEF Asked
<1> QED
  BY <1>1, <1>2, <1>3, <1>4, <1>5, <1>6, <1>7 DEF Informed, Grows
Others(c) == \A d \in Callers \ {c} : UNCHANGED <<at[d], call[d], machine[d], context[d]>>

LEMMA CallerKeeps ==
  ASSUME AuthorityInv, TypeOK', Grows, RowsSound', NEW c \in Callers, Others(c),
         Placed(c)', Informed(c)'
  PROVE  AuthorityInv'
<1>1. ASSUME NEW d \in Callers, d # c PROVE Placed(d)' /\ Informed(d)'
  <2>1. UNCHANGED <<at[d], call[d], machine[d], context[d]>>
    BY <1>1 DEF Others
  <2> QED
    BY <2>1, OthersKeep DEF AuthorityInv
<1> QED
  BY <1>1 DEF AuthorityInv

\* A caller that leaves a call, having read nothing and hoping for nothing.
LEMMA Leaves ==
  ASSUME TypeOK, NEW c \in Callers, Leave(c), vouched' \in Nat
  PROVE  /\ Others(c) /\ Placed(c)' /\ Informed(c)'
         /\ at' \in [Callers -> Points] /\ call' \in [Callers -> Calls]
         /\ machine' \in [Callers -> Standing] /\ context' \in [Callers -> Readings]
<1>1. at'[c] = "idle" /\ call'[c] = Idle /\ machine'[c] = Fresh /\ context'[c] = Unread
  BY DEF TypeOK, Leave
<1>2. /\ at' \in [Callers -> Points] /\ call' \in [Callers -> Calls]
      /\ machine' \in [Callers -> Standing] /\ context' \in [Callers -> Readings]
  BY CallSets DEF TypeOK, Leave, Points, Readings
<1>3. Others(c)
  BY DEF Others, TypeOK, Leave
<1>4. Placed(c)'
  BY <1>1 DEF Placed
<1>5. Earned(machine[c])'
  BY <1>1 DEF Earned, Fresh
<1>6. Informed(c)'
  BY <1>1, <1>5, CallSets DEF Informed
<1> QED
  BY <1>2, <1>3, <1>4, <1>6

\* A caller that goes to another point of its call.
LEMMA StepsTo ==
  ASSUME TypeOK, NEW c \in Callers, NEW l \in Points, Step(c, l)
  PROVE  /\ at'[c] = l /\ at' \in [Callers -> Points] /\ call' \in [Callers -> Calls]
         /\ call'[c] = call[c] /\ \A d \in Callers \ {c} : UNCHANGED <<at[d], call[d]>>
  BY DEF TypeOK, Step, Points

\* A step that leaves what is stored alone.
LEMMA StoreKept ==
  ASSUME TypeOK, RowsSound, UNCHANGED <<store, grants, dead, vouched>>
  PROVE  RowsSound' /\ Grows
<1>1. registry # Absent => registry.epoch \in Nat
  BY DEF TypeOK, Policies
<1>2. RowsSound'
  BY DEF RowsSound, store, Earned, Asked
<1> QED
  BY <1>1, <1>2 DEF Grows, store, TypeOK

\* Leaving a call, or being killed in it, with nothing stored.
LEMMA LeaveKeeps ==
  ASSUME AuthorityInv, NEW c \in Callers, Leave(c), UNCHANGED <<store, grants, dead, vouched>>,
         calls' \in 0..MaxCalls, kills' \in 0..MaxKills
  PROVE  AuthorityInv'
<1>1. Others(c) /\ Placed(c)' /\ Informed(c)'
  BY Leaves DEF AuthorityInv, TypeOK
<1>2. TypeOK'
  BY Leaves DEF AuthorityInv, TypeOK, store, Points, Readings
<1>3. RowsSound' /\ Grows
  BY StoreKept DEF AuthorityInv
<1> QED
  BY <1>1, <1>2, <1>3, CallerKeeps

\* Entering a call.
LEMMA EnterKeeps ==
  ASSUME AuthorityInv, NEW c \in Callers, NEW l \in Points, NEW cl \in Calls, Enter(c, l, cl),
         l = "load" => cl \in Changes /\ registry # Absent,
         l = "register" => cl \in Issues,
         l = "read" => cl \in Issues \cup Authorizations /\ registry # Absent,
         l \in {"load", "register", "read"},
         cl \in Issues => Asked(cl),
         cl \in Authorizations => cl.grant \in grants /\ (cl.late => cl.grant \in dead),
         cl \in Changes /\ cl.op = "trust" /\ cl.status = "TRUSTED" => cl.genuine
  PROVE  AuthorityInv'
<1>1. at'[c] = l /\ call'[c] = cl /\ UNCHANGED <<machine, context>>
  BY DEF AuthorityInv, TypeOK, Enter, locals
<1>2. TypeOK'
  BY DEF AuthorityInv, TypeOK, Enter, locals, store, Points
<1>3. RowsSound' /\ Grows
  BY StoreKept DEF AuthorityInv, Enter
<1>4. Others(c)
  BY <1>1 DEF AuthorityInv, TypeOK, Enter, Others
<1>5. Placed(c)'
  BY <1>1, <1>3 DEF Placed, Grows
<1>6. Informed(c)'
  <2>1. Earned(machine[c])'
    BY <1>1 DEF AuthorityInv, Informed, Earned, Enter
  <2>2. cl \in Issues => Asked(call[c])'
    BY <1>1 DEF Asked
  <2>3. cl \in Authorizations /\ cl.late => cl.grant.epoch < registry'.epoch
    BY DEF AuthorityInv, RowsSound, Enter, store
  <2>4. cl \in Authorizations => cl.grant \in grants'
    BY DEF Enter
  <2> QED
    BY <1>1, <2>1, <2>2, <2>3, <2>4 DEF Informed
<1> QED
  BY <1>2, <1>3, <1>4, <1>5, <1>6, CallerKeeps

LEMMA GovernanceKeeps ==
  ASSUME AuthorityInv, NEW c \in Callers, Governance(c)
  PROVE  AuthorityInv'
<1>1. CASE record_trust(c)
  <2>1. PICK judged \in Judgements : Enter(c, "load", judged)
    BY <1>1 DEF record_trust
  <2>2. judged \in Changes /\ judged \in Calls /\ judged \notin Issues
        /\ judged \notin Authorizations /\ (judged.status = "TRUSTED" => judged.genuine)
    BY TrustedIsGenuine, CallSets
  <2>3. registry # Absent /\ "load" \in Points
    BY <1>1 DEF record_trust, Points
  <2> QED
    BY <2>1, <2>2, <2>3, EnterKeeps
<1>2. CASE govern(c)
  <2>1. PICK op \in {"promote", "suspend", "reset"} : Enter(c, "load", [op |-> op])
    BY <1>2 DEF govern
  <2> DEFINE cl == [op |-> op]
  <2>2. cl \in Changes /\ cl.op # "trust"
    BY DEF Changes
  <2>3. cl \in Calls /\ cl \notin Issues /\ cl \notin Authorizations
    BY <2>2, CallSets
  <2>4. registry # Absent /\ "load" \in Points
    BY <1>2 DEF govern, Points
  <2> HIDE DEF cl
  <2> QED
    BY <2>1, <2>2, <2>3, <2>4, EnterKeeps DEF cl
<1>3. CASE rotate_policy(c)
  <2>1. registry \in Policies /\ registry' \in Policies /\ registry'.epoch = registry.epoch + 1
    BY <1>3 DEF rotate_policy, AuthorityInv, TypeOK, Policies
  <2>2. UNCHANGED <<authority, grants, at, call, machine, context, vouched, kills>>
        /\ dead' = grants /\ calls' = calls + 1 /\ calls < MaxCalls
    BY <1>3 DEF rotate_policy, locals
  <2>3. TypeOK'
    BY <2>1, <2>2 DEF AuthorityInv, TypeOK
  <2>4. Grows /\ \A g \in grants : g.epoch < registry'.epoch
    BY <2>1, <2>2 DEF AuthorityInv, TypeOK, RowsSound, Grows, Policies, Grants
  <2>5. RowsSound'
    BY <2>1, <2>2, <2>4 DEF AuthorityInv, RowsSound, Earned, Asked, TypeOK, Policies, Grants
  <2>6. \A d \in Callers : Placed(d)' /\ Informed(d)'
    BY <2>2, <2>3, <2>4, OthersKeep DEF AuthorityInv
  <2> QED
    BY <2>3, <2>5, <2>6 DEF AuthorityInv
<1> QED
  BY <1>1, <1>2, <1>3 DEF Governance

LEMMA LoadKeeps ==
  ASSUME AuthorityInv, NEW c \in Callers, Load(c)
  PROVE  AuthorityInv'
<1>0. TypeOK /\ RowsSound /\ Placed(c) /\ Informed(c) /\ at[c] = "load"
  BY DEF AuthorityInv, Load
<1>1. registry # Absent /\ authority \in Standing /\ Earned(authority) /\ call[c] \in Changes
  BY <1>0 DEF Placed, TypeOK, RowsSound
<1>2. RowsSound' /\ Grows
  BY <1>0, StoreKept DEF Load, ghosts
<1>3. /\ at'[c] = "loaded" /\ at' \in [Callers -> Points] /\ call'[c] = call[c]
      /\ call' \in [Callers -> Calls] /\ \A d \in Callers \ {c} : UNCHANGED <<at[d], call[d]>>
  BY <1>0, StepsTo DEF Load, Points
<1>4. machine' = [machine EXCEPT ![c] = authority]
      /\ UNCHANGED <<authority, registry, grants, context, dead, vouched, calls, kills>>
  BY DEF Load, store, ghosts
<1>5. TypeOK'
  BY <1>0, <1>1, <1>3, <1>4 DEF TypeOK, Points
<1>6. Others(c) /\ machine'[c] = authority
  BY <1>0, <1>3, <1>4 DEF Others, TypeOK
<1>7. Placed(c)'
  BY <1>1, <1>3, <1>4 DEF Placed
<1>8. Earned(machine[c])'
  BY <1>1, <1>4, <1>6 DEF Earned
<1>9. Informed(c)'
  BY <1>0, <1>1, <1>3, <1>8, CallSets DEF Informed
<1> QED
  BY <1>2, <1>5, <1>6, <1>7, <1>9, CallerKeeps

LEMMA SaveKeeps ==
  ASSUME AuthorityInv, NEW c \in Callers, Save(c)
  PROVE  AuthorityInv'
<1> DEFINE new == Applied(machine[c], call[c])
<1>0. TypeOK /\ RowsSound /\ Placed(c) /\ Informed(c) /\ at[c] = "loaded"
  BY DEF AuthorityInv, Save
<1>1. registry # Absent /\ call[c] \in Changes /\ machine[c] \in Standing
  BY <1>0 DEF Placed, TypeOK
<1>2. UNCHANGED <<registry, grants, dead, calls, kills>>
  BY DEF Save
<1>3. CASE Leave(c) /\ UNCHANGED <<authority, vouched>>
  BY <1>0, <1>2, <1>3, LeaveKeeps DEF TypeOK, store
<1>4. CASE /\ ~Refused(machine[c], call[c])
           /\ authority' = new
           /\ vouched' = vouched + (IF call[c].op = "trust" /\ call[c].genuine THEN 1 ELSE 0)
           /\ Leave(c) \/ (Step(c, "saved") /\ UNCHANGED <<machine, context>>)
  <2>0. vouched \in Nat /\ vouched' \in Nat /\ vouched <= vouched'
    BY <1>0, <1>4 DEF TypeOK
  <2>1. authority' \in Standing /\ Earned(authority)'
    <3>1. Earned(machine[c])
          /\ (call[c].op = "trust" /\ call[c].status = "TRUSTED" => call[c].genuine)
      BY <1>0, <1>1 DEF Informed
    <3> QED
      BY <1>1, <1>4, <2>0, <3>1, AppliedEarned DEF Earned
  <2>2. authority' # Absent
    BY <2>1, CallSets
  <2>3. Grows /\ RowsSound'
    BY <1>0, <1>1, <1>2, <2>0, <2>1 DEF Grows, RowsSound, Asked, TypeOK, Policies
  <2>4. CASE Leave(c)
    <3>1. Others(c) /\ Placed(c)' /\ Informed(c)'
      BY <1>0, <2>0, <2>4, Leaves
    <3>2. TypeOK'
      BY <1>0, <1>2, <2>0, <2>1, <2>2, <2>4, Leaves DEF TypeOK, Points, Readings
    <3> QED
      BY <2>3, <3>1, <3>2, CallerKeeps
  <2>5. CASE Step(c, "saved") /\ UNCHANGED <<machine, context>>
    <3>1. /\ at'[c] = "saved" /\ at' \in [Callers -> Points] /\ call'[c] = call[c]
          /\ call' \in [Callers -> Calls]
          /\ \A d \in Callers \ {c} : UNCHANGED <<at[d], call[d]>>
      BY <1>0, <2>5, StepsTo DEF Points
    <3>3. TypeOK'
      BY <1>0, <1>2, <2>0, <2>1, <2>2, <2>5, <3>1 DEF TypeOK, Points
    <3>4. Others(c)
      BY <2>5, <3>1 DEF Others
    <3>5. Placed(c)'
      BY <1>1, <1>2, <3>1 DEF Placed
    <3>6. Earned(machine[c])'
      BY <1>0, <1>1, <2>0, <2>5 DEF Informed, Earned, Standing, TypeOK
    <3>7. Informed(c)'
      BY <1>0, <1>1, <3>1, <3>6, CallSets DEF Informed
    <3> QED
      BY <2>3, <3>3, <3>4, <3>5, <3>7, CallerKeeps
  <2> QED
    BY <1>4, <2>4, <2>5
<1>5. CASE Refused(machine[c], call[c])
  BY <1>3, <1>5 DEF Save
<1>6. CASE ~Refused(machine[c], call[c])
  <2>1. /\ authority' = new
        /\ vouched' = vouched + (IF call[c].op = "trust" /\ call[c].genuine THEN 1 ELSE 0)
    BY <1>6 DEF Save
  <2>2. Leave(c) \/ (Step(c, "saved") /\ UNCHANGED <<machine, context>>)
    BY <1>6, Zenon DEF Save, locals
  <2> QED
    BY <1>4, <1>6, <2>1, <2>2
<1> QED
  BY <1>5, <1>6

LEMMA EpochKeeps ==
  ASSUME AuthorityInv, NEW c \in Callers, _increment_epoch(c)
  PROVE  AuthorityInv'
<1>0. TypeOK /\ RowsSound /\ Placed(c) /\ at[c] = "saved"
  BY DEF AuthorityInv, _increment_epoch
<1>1. registry \in Policies
  BY <1>0 DEF Placed, TypeOK
<1>2. registry' \in Policies /\ registry'.epoch = registry.epoch + 1
  BY <1>1 DEF _increment_epoch, NextEpoch, Policies
<1>3. UNCHANGED <<authority, grants, vouched, calls, kills>> /\ dead' = grants /\ Leave(c)
  BY DEF _increment_epoch
<1>4. TypeOK'
  <2>1. registry # Absent => authority # Absent
    BY <1>0 DEF TypeOK
  <2> QED
    BY <1>0, <1>1, <1>2, <1>3, <2>1, Leaves DEF TypeOK, Points, Readings
<1>5. Grows /\ \A g \in grants : g.epoch < registry'.epoch
  BY <1>0, <1>1, <1>2, <1>3 DEF TypeOK, RowsSound, Grows, Policies, Grants
<1>6. RowsSound'
  BY <1>0, <1>1, <1>2, <1>3, <1>5 DEF RowsSound, Earned, Asked, TypeOK, Policies, Grants
<1>7. Others(c) /\ Placed(c)' /\ Informed(c)'
  BY <1>0, <1>3, Leaves DEF TypeOK
<1> QED
  BY <1>4, <1>5, <1>6, <1>7, CallerKeeps

LEMMA RegisterReadKeeps ==
  ASSUME AuthorityInv, NEW c \in Callers, RegisterRead(c)
  PROVE  AuthorityInv'
<1>0. TypeOK /\ RowsSound /\ Placed(c) /\ Informed(c) /\ at[c] = "register"
  BY DEF AuthorityInv, RegisterRead
<1>1. PICK l \in {"enrol", "read"} : Step(c, l) /\ (l = "read" => registry # Absent)
  BY DEF RegisterRead, Registered
<1>2. UNCHANGED <<authority, registry, grants, machine, context, dead, vouched, calls, kills>>
  BY DEF RegisterRead, store, locals, ghosts
<1>3. /\ at'[c] = l /\ at' \in [Callers -> Points] /\ call'[c] = call[c]
      /\ call' \in [Callers -> Calls] /\ \A d \in Callers \ {c} : UNCHANGED <<at[d], call[d]>>
  BY <1>0, <1>1, StepsTo DEF Points
<1>4. RowsSound' /\ Grows
  BY <1>0, <1>2, StoreKept DEF store
<1>5. TypeOK'
  BY <1>0, <1>2, <1>3 DEF TypeOK, Points
<1>6. Others(c)
  BY <1>2, <1>3 DEF Others
<1>7. call[c] \in Issues /\ call[c] \notin Authorizations /\ call[c] \notin Changes
  BY <1>0, CallSets DEF Placed
<1>8. Placed(c)'
  BY <1>1, <1>2, <1>3, <1>7 DEF Placed
<1>9. Informed(c)'
  BY <1>0, <1>1, <1>2, <1>3, <1>7 DEF Informed, Earned, Asked
<1> QED
  BY <1>4, <1>5, <1>6, <1>8, <1>9, CallerKeeps

LEMMA RegisterSaveKeeps ==
  ASSUME AuthorityInv, NEW c \in Callers, RegisterSave(c)
  PROVE  AuthorityInv'
<1>0. TypeOK /\ RowsSound /\ Placed(c) /\ Informed(c) /\ at[c] = "enrol"
  BY DEF AuthorityInv, RegisterSave
<1>2. authority' = Fresh /\ authority' # Absent
      /\ UNCHANGED <<registry, grants, machine, context, dead, vouched, calls, kills>>
  BY CallSets DEF RegisterSave, locals, ghosts
<1>3. /\ at'[c] = "insert" /\ at' \in [Callers -> Points] /\ call'[c] = call[c]
      /\ call' \in [Callers -> Calls] /\ \A d \in Callers \ {c} : UNCHANGED <<at[d], call[d]>>
  BY <1>0, StepsTo DEF RegisterSave, Points
<1>4. RowsSound' /\ Grows
  <2>1. Earned(Fresh)'
    BY <1>0, <1>2 DEF Earned, Fresh, TypeOK
  <2> QED
    BY <1>0, <1>2, <2>1 DEF RowsSound, Grows, Asked, TypeOK, Policies
<1>5. TypeOK'
  BY <1>0, <1>2, <1>3, CallSets DEF TypeOK, Points
<1>6. Others(c)
  BY <1>2, <1>3 DEF Others
<1>7. call[c] \in Issues /\ call[c] \notin Authorizations /\ call[c] \notin Changes
  BY <1>0, CallSets DEF Placed
<1>8. Placed(c)'
  BY <1>2, <1>3, <1>7 DEF Placed
<1>9. Informed(c)'
  BY <1>0, <1>2, <1>3, <1>7 DEF Informed, Earned, Asked
<1> QED
  BY <1>4, <1>5, <1>6, <1>8, <1>9, CallerKeeps

LEMMA RegisterInsertKeeps ==
  ASSUME AuthorityInv, NEW c \in Callers, RegisterInsert(c)
  PROVE  AuthorityInv'
<1>0. /\ TypeOK /\ RowsSound /\ Placed(c) /\ Informed(c)
      /\ at[c] = "insert" /\ authority # Absent
  BY DEF AuthorityInv, RegisterInsert, Placed
<1>1. UNCHANGED <<authority, grants, dead, vouched, calls, kills>>
  BY DEF RegisterInsert, ghosts
<1>2. CASE Leave(c) /\ UNCHANGED registry
  BY <1>0, <1>1, <1>2, LeaveKeeps DEF TypeOK, store
<1>3. CASE registry = Absent /\ registry' = [version |-> VERSION, epoch |-> 1]
           /\ Step(c, "read") /\ UNCHANGED <<machine, context>>
  <2>1. registry' \in Policies /\ registry' # Absent
    BY <1>3 DEF Policies
  <2>2. /\ at'[c] = "read" /\ at' \in [Callers -> Points] /\ call'[c] = call[c]
        /\ call' \in [Callers -> Calls] /\ \A d \in Callers \ {c} : UNCHANGED <<at[d], call[d]>>
    BY <1>0, <1>3, StepsTo DEF Points
  <2>3. grants = {} /\ dead = {}
    BY <1>0, <1>3 DEF RowsSound, TypeOK
  <2>4. RowsSound' /\ Grows
    BY <1>0, <1>1, <1>3, <2>1, <2>3 DEF RowsSound, Grows, Earned, TypeOK
  <2>5. TypeOK'
    BY <1>0, <1>1, <1>3, <2>1, <2>2 DEF TypeOK, Points
  <2>6. Others(c)
    BY <1>3, <2>2 DEF Others
  <2>7. call[c] \in Issues /\ call[c] \notin Authorizations /\ call[c] \notin Changes
    BY <1>0, CallSets DEF Placed
  <2>8. Placed(c)' /\ Informed(c)'
    BY <1>0, <1>1, <1>3, <2>1, <2>2, <2>7 DEF Placed, Informed, Earned, Asked
  <2> QED
    BY <2>4, <2>5, <2>6, <2>8, CallerKeeps
<1> QED
  BY <1>2, <1>3 DEF RegisterInsert, locals

LEMMA GetRowKeeps ==
  ASSUME AuthorityInv, NEW c \in Callers, GetRow(c)
  PROVE  AuthorityInv'
<1>0. TypeOK /\ RowsSound /\ Placed(c) /\ Informed(c) /\ at[c] = "read"
  BY DEF AuthorityInv, GetRow
<1>1. registry \in Policies /\ registry # Absent
  BY <1>0 DEF Placed, TypeOK
<1>2. UNCHANGED <<authority, registry, grants, machine, dead, vouched, calls, kills>>
  BY DEF GetRow, store, ghosts
<1>3. /\ at'[c] = "state" /\ at' \in [Callers -> Points] /\ call'[c] = call[c]
      /\ call' \in [Callers -> Calls] /\ \A d \in Callers \ {c} : UNCHANGED <<at[d], call[d]>>
  BY <1>0, StepsTo DEF GetRow, Points
<1>4. RowsSound' /\ Grows
  BY <1>0, <1>2, StoreKept DEF store
<1>5. /\ context'[c].epoch = registry.epoch /\ context' \in [Callers -> Readings]
      /\ \A d \in Callers \ {c} : UNCHANGED context[d]
  BY <1>0, <1>1 DEF GetRow, TypeOK, Policies, Readings, AuthorityStates
<1>6. TypeOK'
  BY <1>0, <1>2, <1>3, <1>5 DEF TypeOK, Points, Readings
<1>7. Others(c)
  BY <1>2, <1>3, <1>5 DEF Others
<1>8. call[c] \in Issues \cup Authorizations /\ call[c] \notin Changes
  BY <1>0, CallSets DEF Placed
<1>9. Placed(c)'
  BY <1>1, <1>2, <1>3, <1>8 DEF Placed
<1>10. registry'.epoch \in Nat /\ context'[c].epoch <= registry'.epoch
  BY <1>1, <1>2, <1>5 DEF Policies
<1>11. Informed(c)'
  BY <1>0, <1>2, <1>3, <1>5, <1>8, <1>10 DEF Informed, Earned, Asked
<1> QED
  BY <1>4, <1>6, <1>7, <1>9, <1>11, CallerKeeps

LEMMA RunningKeeps ==
  ASSUME AuthorityInv, NEW c \in Callers, Running(c)
  PROVE  AuthorityInv'
  BY LoadKeeps, SaveKeeps, EpochKeeps, RegisterReadKeeps, RegisterSaveKeeps, RegisterInsertKeeps,
     GetRowKeeps DEF Running

LEMMA VerifyRequestKeeps ==
  ASSUME AuthorityInv, NEW c \in Callers, _verify_capability_request(c)
  PROVE  AuthorityInv'
<1>1. PICK intent \in Intents, evidence \in EvidenceSets :
         /\ check(intent) = "REQUIRE_EVIDENCE" /\ evidence_sufficient(intent, evidence)
         /\ Enter(c, "register", [op |-> "issue", intent |-> intent, evidence |-> evidence])
  BY DEF _verify_capability_request
<1> DEFINE cl == [op |-> "issue", intent |-> intent, evidence |-> evidence]
<1>2. cl \in Issues /\ Asked(cl)
  BY <1>1 DEF Issues, Asked
<1>3. cl \in Calls /\ cl \notin Authorizations /\ cl \notin Changes /\ "register" \in Points
  BY <1>2, CallSets DEF Points
<1>4. Enter(c, "register", cl)
  BY <1>1
<1> HIDE DEF cl
<1> QED
  BY <1>2, <1>3, <1>4, EnterKeeps

LEMMA RetryAuthorizeKeeps ==
  ASSUME AuthorityInv, NEW c \in Callers, NEW g \in grants, RetryAuthorize(c, g)
  PROVE  AuthorityInv'
<1> DEFINE cl == [op |-> "issue", intent |-> g.intent, evidence |-> g.evidence]
<1>1. g \in Grants /\ registry # Absent /\ Asked(g)
  BY DEF AuthorityInv, TypeOK, RowsSound
<1>2. cl \in Issues /\ Asked(cl)
  BY <1>1 DEF Issues, Asked, Grants
<1>3. cl \in Calls /\ cl \notin Authorizations /\ cl \notin Changes /\ "read" \in Points
  BY <1>2, CallSets DEF Points
<1>4. Enter(c, "read", cl)
  BY DEF RetryAuthorize
<1> HIDE DEF cl
<1> QED
  BY <1>1, <1>2, <1>3, <1>4, EnterKeeps

LEMMA EnterGateKeeps ==
  ASSUME AuthorityInv, NEW c \in Callers, NEW g \in grants, EnterGate(c, g)
  PROVE  AuthorityInv'
<1> DEFINE cl == [op |-> "authorize", grant |-> g, late |-> g \in dead]
<1>1. g \in Grants /\ registry # Absent
  BY DEF AuthorityInv, TypeOK, RowsSound
<1>2. cl \in Authorizations /\ cl.grant = g /\ (cl.late => g \in dead)
  <2>1. (g \in dead) \in BOOLEAN
    OBVIOUS
  <2>2. cl.late = (g \in dead) /\ cl.grant = g
    BY Zenon
  <2>3. cl \in Authorizations
    BY <1>1, <2>1 DEF Authorizations
  <2> QED
    BY <2>2, <2>3, Zenon
<1>3. cl \in Calls /\ cl \notin Issues /\ cl \notin Changes /\ "read" \in Points
  BY <1>2, CallSets DEF Points
<1>4. Enter(c, "read", cl)
  BY DEF EnterGate
<1> HIDE DEF cl
<1> QED
  BY <1>1, <1>2, <1>3, <1>4, EnterKeeps

\* What is signed is sound: of the epoch that was read, for what was asked, in a
\* state that allows it.
LEMMA IssuedSound ==
  ASSUME AuthorityInv, NEW c \in Callers, at[c] = "state", call[c].op = "issue",
         NEW g \in Issued(c)
  PROVE  /\ g \in Grants /\ Asked(g) /\ g.epoch <= registry.epoch
         /\ evaluate_effective_capability(g.intent, g.state) = "REQUIRE_EVIDENCE"
<1>0. TypeOK /\ RowsSound /\ Placed(c) /\ Informed(c)
  BY DEF AuthorityInv
<1>1. call[c] \in Issues /\ registry # Absent /\ authority \in Standing
  BY <1>0, CallsByOp DEF Placed, TypeOK
<1>2. evaluate_effective_capability(call[c].intent, authority.state) # "BLOCK"
      /\ g = [intent |-> call[c].intent, evidence |-> call[c].evidence,
              state |-> authority.state, version |-> context[c].version,
              epoch |-> context[c].epoch]
  BY DEF Issued
<1>3. g \in Grants
  BY <1>0, <1>1, <1>2 DEF Grants, Issues, Standing, TypeOK
<1>4. g.epoch <= registry.epoch
  BY <1>0, <1>2 DEF Informed
<1>5. Asked(call[c])
  BY <1>0, <1>1 DEF Informed
<1>6. Asked(g)
  BY <1>2, <1>5 DEF Asked
<1>7. evaluate_effective_capability(g.intent, g.state) = check(g.intent)
  BY <1>2 DEF evaluate_effective_capability
<1> QED
  BY <1>3, <1>4, <1>6, <1>7 DEF Asked

LEMMA IssueKeeps ==
  ASSUME AuthorityInv, NEW c \in Callers, issue_capability_grant(c)
  PROVE  AuthorityInv'
<1>0. TypeOK /\ RowsSound /\ Placed(c) /\ at[c] = "state" /\ call[c].op = "issue"
  BY DEF AuthorityInv, issue_capability_grant
<1>1. registry \in Policies /\ registry # Absent
  BY <1>0 DEF Placed, TypeOK
<1>2. UNCHANGED <<authority, registry, dead, vouched, calls, kills>> /\ Leave(c)
      /\ grants' = grants \cup Issued(c)
  BY DEF issue_capability_grant, store, ghosts
<1>3. TypeOK'
  <2>1. grants' \subseteq Grants /\ dead' \subseteq grants'
    BY <1>0, <1>2, IssuedSound DEF TypeOK
  <2>2. registry' # Absent => authority' # Absent
    BY <1>0, <1>2 DEF TypeOK
  <2> QED
    BY <1>0, <1>2, <2>1, <2>2, Leaves DEF TypeOK, Points, Readings
<1>4. Grows
  BY <1>0, <1>1, <1>2 DEF Grows, TypeOK, Policies
<1>5. RowsSound'
  <2>1. \A g \in grants' : /\ g.epoch <= registry.epoch /\ Asked(g)
                           /\ evaluate_effective_capability(g.intent, g.state) = "REQUIRE_EVIDENCE"
    BY <1>0, <1>2, IssuedSound DEF RowsSound
  <2> QED
    BY <1>0, <1>1, <1>2, <2>1 DEF RowsSound, Earned, Asked
<1>6. Others(c) /\ Placed(c)' /\ Informed(c)'
  BY <1>0, <1>2, Leaves DEF TypeOK
<1> QED
  BY <1>3, <1>4, <1>5, <1>6, CallerKeeps

\* The gate accepts only a grant of the epoch it has read: not a late one.
LEMMA AuthorizeKeeps ==
  ASSUME AuthorityInv, NEW c \in Callers, authorize(c)
  PROVE  AuthorityInv'
<1>0. /\ TypeOK /\ RowsSound /\ Placed(c) /\ Informed(c)
      /\ at[c] = "state" /\ call[c].op = "authorize"
  BY DEF AuthorityInv, authorize
<1>1. call[c] \in Authorizations /\ registry # Absent /\ authority \in Standing
      /\ call[c] \notin Issues /\ call[c] \notin Changes
  BY <1>0, CallsByOp, CallSets DEF Placed, TypeOK
<1>2. UNCHANGED <<authority, registry, grants, dead, vouched, calls, kills>>
  BY DEF authorize, store, ghosts
<1>3. CASE Leave(c)
  BY <1>0, <1>2, <1>3, LeaveKeeps DEF TypeOK, store
<1>4. CASE /\ Current(call[c].grant, context[c], authority.state)
           /\ Step(c, "accepted")
           /\ context' = [context EXCEPT ![c].state = authority.state]
           /\ UNCHANGED machine
  <2>1. /\ at'[c] = "accepted" /\ at' \in [Callers -> Points] /\ call'[c] = call[c]
        /\ call' \in [Callers -> Calls] /\ \A d \in Callers \ {c} : UNCHANGED <<at[d], call[d]>>
    BY <1>0, <1>4, StepsTo DEF Points
  <2>2. /\ context'[c].state = authority.state /\ context' \in [Callers -> Readings]
        /\ \A d \in Callers \ {c} : UNCHANGED context[d]
    <3>1. authority.state \in AuthorityStates /\ context \in [Callers -> Readings]
      BY <1>0, <1>1 DEF TypeOK, Readings, Standing
    <3>2. context' = [context EXCEPT ![c] = [@ EXCEPT !.state = authority.state]]
      BY <1>4
    <3>3. [context[c] EXCEPT !.state = authority.state] \in Readings
      BY <3>1 DEF Readings
    <3> QED
      BY <3>1, <3>2, <3>3 DEF Readings
  <2>3. RowsSound' /\ Grows
    BY <1>0, <1>2, StoreKept DEF store
  <2>4. TypeOK'
    BY <1>0, <1>2, <1>4, <2>1, <2>2 DEF TypeOK, Points, Readings
  <2>5. Others(c)
    BY <1>4, <2>1, <2>2 DEF Others
  <2>6. Placed(c)'
    BY <1>1, <1>2, <2>1 DEF Placed
  <2>7. ~call[c].late /\ call[c].grant.state = authority.state
    <3>1. call[c].grant.epoch \in Nat /\ context[c].epoch \in Nat
      BY <1>0, <1>1 DEF Authorizations, Grants, TypeOK
    <3> QED
      BY <1>0, <1>1, <1>4, <3>1 DEF Informed, Current
  <2>8. Informed(c)'
    BY <1>0, <1>1, <1>2, <1>4, <2>1, <2>2, <2>7 DEF Informed, Earned
  <2> QED
    BY <2>3, <2>4, <2>5, <2>6, <2>8, CallerKeeps
<1> QED
  BY <1>3, <1>4 DEF authorize

LEMMA ReturnKeeps ==
  ASSUME AuthorityInv, NEW c \in Callers, Return(c)
  PROVE  AuthorityInv'
<1>1. Leave(c) /\ UNCHANGED <<store, grants, dead, vouched, calls, kills>>
  BY DEF Return, ghosts
<1>2. calls \in 0..MaxCalls /\ kills \in 0..MaxKills
  BY DEF AuthorityInv, TypeOK
<1> QED
  BY <1>1, <1>2, LeaveKeeps

-----------------------------------------------------------------------------
(* Steps of the handoff, as steps of AgentAuthority *)

LEMMA QuietKeeps ==
  ASSUME AuthorityInv, UNCHANGED vars
  PROVE  AuthorityInv'
  BY DEF AuthorityInv, TypeOK, RowsSound, Placed, Informed, Earned, Asked, vars

LEMMA AuthorityStep ==
  ASSUME HandoffInv, [HandoffNext]_allVars
  PROVE  AuthorityInv'
<1>0. AuthorityInv /\ handoffs \subseteq grants \X Keys
  BY DEF HandoffInv, FileSound
<1>1. CASE UNCHANGED allVars
  BY <1>0, <1>1, QuietKeeps DEF allVars
<1>2. CASE HandoffNext
  <2>1. PICK c \in Callers :
          \/ Start(c) \/ CreateKey(c) \/ WriteKey(c)
          \/ Govern(c) \/ (Running(c) /\ UNCHANGED handoffVars)
          \/ Validate(c) \/ sign(c)
          \/ _execute_granted_task(c) \/ RegisterExecutor(c) \/ InsertIdentity(c)
          \/ Resolve(c) \/ Gate(c) \/ Execute(c) \/ Reauthorize(c)
          \/ StatusRead(c) \/ set_status(c)
          \/ Crash(c)
    BY <1>2, Zenon DEF HandoffNext
  <2>2. CASE Start(c) \/ CreateKey(c) \/ WriteKey(c) \/ _execute_granted_task(c)
             \/ RegisterExecutor(c) \/ InsertIdentity(c) \/ set_status(c)
    <3>1. UNCHANGED vars
      BY <2>2, Zenon DEF Start, CreateKey, WriteKey, _execute_granted_task, RegisterExecutor,
         InsertIdentity, set_status
    <3> QED
      BY <1>0, <3>1, QuietKeeps
  <2>3. CASE Govern(c)
    BY <1>0, <2>3, GovernanceKeeps DEF Govern
  <2>4. CASE Running(c)
    BY <1>0, <2>4, RunningKeeps
  <2>5. CASE Validate(c)
    <3>1. CASE _verify_capability_request(c)
      BY <1>0, <3>1, VerifyRequestKeeps
    <3>2. CASE \E h \in handoffs : RetryAuthorize(c, h[1])
      <4>1. PICK h \in handoffs : RetryAuthorize(c, h[1])
        BY <3>2
      <4>2. h[1] \in grants
        BY <1>0
      <4> QED
        BY <1>0, <4>1, <4>2, RetryAuthorizeKeeps
    <3> QED
      BY <2>5, <3>1, <3>2 DEF Validate
  <2>6. CASE sign(c)
    BY <1>0, <2>6, IssueKeeps DEF sign
  <2>7. CASE Resolve(c)
    <3>1. CASE UNCHANGED vars
      BY <1>0, <3>1, QuietKeeps
    <3>2. CASE EnterGate(c, proc[c].grant)
      <4>1. proc[c].grant \in grants
        BY <2>7 DEF Resolve, HandoffInv, Ordered
      <4> QED
        BY <1>0, <3>2, <4>1, EnterGateKeeps
    <3> QED
      BY <2>7, <3>1, <3>2, Zenon DEF Resolve
  <2>8. CASE Gate(c)
    BY <1>0, <2>8, AuthorizeKeeps DEF Gate
  <2>9. CASE Execute(c)
    BY <1>0, <2>9, ReturnKeeps DEF Execute
  <2>10. CASE Reauthorize(c)
    <3>1. PICK h \in handoffs : EnterGate(c, h[1])
      BY <2>10, Zenon DEF Reauthorize
    <3>2. h[1] \in grants
      BY <1>0
    <3> QED
      BY <1>0, <3>1, <3>2, EnterGateKeeps
  <2>11. CASE StatusRead(c)
    BY <1>0, <2>11 DEF StatusRead, AuthorityInv, TypeOK, RowsSound, Placed, Informed, Earned,
       Asked, store, locals
  <2>12. CASE Crash(c)
    <3>1. Leave(c) /\ UNCHANGED <<store, grants, dead, vouched>> /\ calls' = calls
          /\ kills' = kills + 1 /\ kills < MaxKills
      BY <2>12 DEF Crash
    <3>2. calls' \in 0..MaxCalls /\ kills' \in 0..MaxKills
      BY <1>0, <3>1 DEF AuthorityInv, TypeOK
    <3> QED
      BY <1>0, <3>1, <3>2, LeaveKeeps
  <2> QED
    BY <2>1, <2>2, <2>3, <2>4, <2>5, <2>6, <2>7, <2>8, <2>9, <2>10, <2>11, <2>12, Zenon
<1> QED
  BY <1>1, <1>2

-----------------------------------------------------------------------------
(* Epochs of executors *)

\* The next epoch is above every one that is registered.
LEMMA NextEpochAbove ==
  ASSUME RegistrySound
  PROVE  _next_epoch \in Nat \ {0}
         /\ \A i \in Slots : identity[i] # Absent => identity[i].epoch < _next_epoch
<1>1. PICK top \in Nat : \A i \in Slots : identity[i] # Absent => identity[i].epoch <= top
  BY DEF RegistrySound
<1>2. Epochs \in SUBSET Nat /\ Epochs # {} /\ \A e \in Epochs : e <= top
  <2>1. \A i \in Slots : identity[i] # Absent => identity[i].epoch \in Nat
    BY DEF RegistrySound, Identities
  <2> QED
    BY <1>1, <2>1 DEF Epochs
<1>3. \E m \in Epochs : \A e \in Epochs : m >= e
  BY <1>2, HighestExists
<1> DEFINE m == CHOOSE t \in Epochs : \A e \in Epochs : t >= e
<1>4. m \in Epochs /\ \A e \in Epochs : m >= e
  BY <1>3
<1>5. _next_epoch = 1 + m
  BY DEF _next_epoch
<1>6. \A i \in Slots : identity[i] # Absent => identity[i].epoch \in Epochs
  BY DEF Epochs
<1> HIDE DEF m
<1>7. m \in Nat /\ _next_epoch \in Nat \ {0}
  BY <1>2, <1>4, <1>5
<1>8. \A e \in Epochs : e < _next_epoch
  <2>1. ASSUME NEW e \in Epochs PROVE e < 1 + m
    <3>1. e \in Nat /\ m >= e
      BY <1>2, <1>4
    <3> QED
      BY <1>7, <3>1
  <2> QED
    BY <1>5, <2>1
<1> QED
  BY <1>6, <1>7, <1>8

-----------------------------------------------------------------------------
(* Steps of the handoff *)

\* A row of the registry stays, with its digest.
RowsKept ==
  \A i \in Slots : identity[i] # Absent =>
    identity'[i] # Absent /\ identity'[i].digest = identity[i].digest

LEMMA OneProcess ==
  ASSUME HandoffInv, AuthorityInv', NEW c \in Callers, grants \subseteq grants',
         proc' \in [Callers -> Processes], RowsKept, FileSound', RegistrySound',
         \A d \in Callers \ {c} : UNCHANGED <<proc[d], at[d], call[d]>> /\ Holding(d)',
         Ordered(c)', Holding(c)', Enlisted(c)'
  PROVE  HandoffInv'
<1>1. ASSUME NEW d \in Callers, d # c PROVE Ordered(d)' /\ Holding(d)' /\ Enlisted(d)'
  <2>1. UNCHANGED <<proc[d], at[d], call[d]>> /\ Holding(d)'
    BY <1>1
  <2>2. Ordered(d) /\ Enlisted(d)
    BY DEF HandoffInv
  <2>3. Ordered(d)'
    BY <2>1, <2>2 DEF Ordered
  <2>4. \A i \in Slots : Listed(d, i) => Listed(d, i)'
    BY <2>1 DEF Listed, RowsKept
  <2>5. Enlisted(d)'
    BY <2>1, <2>2, <2>4 DEF Enlisted, RowsKept
  <2> QED
    BY <2>1, <2>3, <2>5
<1> QED
  BY <1>1 DEF HandoffInv

\* A step with no new key: the file is as it was, and so are the other processes.
LEMMA FileKept ==
  ASSUME HandoffInv, NEW c \in Callers, grants \subseteq grants',
         UNCHANGED <<keyfile, handoffs>>, proc'[c].step # "write",
         \A d \in Callers \ {c} : UNCHANGED proc[d]
  PROVE  FileSound' /\ \A d \in Callers \ {c} : Holding(d)'
<1>1. \A d \in Callers \ {c} : Holding(d)'
  BY DEF HandoffInv, Holding
<1>2. handoffs' \subseteq grants' \X Keys /\ \A h \in handoffs' : h[2] = keyfile'
  BY DEF HandoffInv, FileSound
<1>3. \A d, e \in Callers : proc'[d].step = "write" /\ proc'[e].step = "write" => d = e
  BY DEF HandoffInv, FileSound
<1> QED
  BY <1>1, <1>2, <1>3 DEF HandoffInv, FileSound

\* A step that leaves the registry alone.
LEMMA RegistryUnread ==
  ASSUME HandoffInv, UNCHANGED <<identity, ran>>
  PROVE  RegistrySound' /\ RowsKept
  BY DEF HandoffInv, RegistrySound, RowsKept

\* A step of one process that changes neither the file nor the registry.
LEMMA ProcessKeeps ==
  ASSUME HandoffInv, AuthorityInv', NEW c \in Callers, grants \subseteq grants',
         UNCHANGED <<keyfile, handoffs, identity, ran>>,
         proc' \in [Callers -> Processes], proc'[c].step # "write",
         \A d \in Callers \ {c} : UNCHANGED <<proc[d], at[d], call[d]>>,
         Ordered(c)', Holding(c)', Enlisted(c)'
  PROVE  HandoffInv'
<1>1. FileSound' /\ \A d \in Callers \ {c} : Holding(d)'
  BY FileKept
<1>2. RegistrySound' /\ RowsKept
  BY RegistryUnread
<1> QED
  BY <1>1, <1>2, OneProcess

LEMMA DownIsProcess == Down \in Processes /\ Down.step = "down" /\ Down.next = 1 /\ Down.key = Absent
  BY DEF Down, Processes, Steps

\* What a caller is in says what its process may do: nothing of its own, in a call.
LEMMA StartKeeps ==
  ASSUME HandoffInv, AuthorityInv', NEW c \in Callers, Start(c)
  PROVE  HandoffInv'
<1>1. at[c] = "idle" /\ keyfile # Empty /\ keyfile \in {Absent} \cup Keys
  BY DEF HandoffInv, Ordered, FileSound, Start
<1>2. UNCHANGED <<at, call, grants, keyfile, handoffs, identity, ran>>
  BY DEF Start, vars
<1>3. PICK b \in Builds :
        proc' = [proc EXCEPT ![c] =
          IF keyfile = Absent THEN [Down EXCEPT !.step = "create", !.build = b]
          ELSE [Down EXCEPT !.step = "up", !.build = b, !.key = keyfile]]
  BY DEF Start
<1>4. proc'[c] \in Processes /\ proc'[c].build = b /\ proc'[c].next = 1
      /\ (keyfile = Absent => proc'[c].step = "create" /\ proc'[c].key = Absent)
      /\ (keyfile # Absent => proc'[c].step = "up" /\ proc'[c].key = keyfile)
  BY <1>1, <1>3 DEF HandoffInv, Down, Processes, Steps
<1>5. proc' \in [Callers -> Processes] /\ \A d \in Callers \ {c} : UNCHANGED proc[d]
  BY <1>3, <1>4 DEF HandoffInv
<1>6. Ordered(c)' /\ Holding(c)' /\ Enlisted(c)'
  BY <1>1, <1>2, <1>4 DEF Ordered, Holding, Enlisted, Starting
<1>7. proc'[c].step # "write"
  BY <1>4
<1> QED
  BY <1>2, <1>5, <1>6, <1>7, ProcessKeeps

\* The file is created by one process: the others hold no key yet, and none of
\* them is about to write.
LEMMA CreateKeyKeeps ==
  ASSUME HandoffInv, AuthorityInv', NEW c \in Callers, CreateKey(c)
  PROVE  HandoffInv'
<1>1. at[c] = "idle" /\ proc[c] \in Processes /\ proc[c].step = "create"
      /\ proc[c].next = 1 /\ proc[c].build \in Builds /\ proc[c].key = Absent
  BY DEF HandoffInv, Ordered, Holding, Starting, CreateKey
<1>2. UNCHANGED <<at, call, grants, handoffs, identity, ran>>
  BY DEF CreateKey, vars
<1>3. CASE keyfile = Absent /\ keyfile' = Empty /\ Go(c, "write")
  <2>1. \A d \in Callers : proc[d].step \in Starting \ {"write"}
    BY <1>3 DEF HandoffInv, Holding, Starting
  <2>2. proc'[c] = [proc[c] EXCEPT !.step = "write"]
    BY <1>3 DEF HandoffInv, Go
  <2>3. proc'[c] \in Processes /\ proc'[c].step = "write" /\ proc'[c].next = 1
        /\ proc'[c].build \in Builds /\ proc'[c].key = Absent
    BY <1>1, <2>2 DEF Processes, Steps
  <2>4. proc' \in [Callers -> Processes] /\ \A d \in Callers \ {c} : UNCHANGED proc[d]
    BY <1>3, <2>3 DEF HandoffInv, Go
  <2>5. Ordered(c)' /\ Holding(c)' /\ Enlisted(c)'
    BY <1>1, <1>2, <1>3, <2>3 DEF Ordered, Holding, Enlisted, Starting
  <2>6. \A d \in Callers \ {c} : Holding(d)'
    BY <2>1, <2>4 DEF HandoffInv, Holding
  <2>7. handoffs = {}
    <3>1. keyfile \notin Keys
      BY <1>3
    <3> QED
      BY <3>1 DEF HandoffInv, FileSound
  <2>8. FileSound'
    BY <1>2, <1>3, <2>1, <2>4, <2>7 DEF FileSound
  <2>9. RegistrySound' /\ RowsKept
    BY <1>2, RegistryUnread
  <2> QED
    BY <1>2, <2>4, <2>5, <2>6, <2>8, <2>9, OneProcess
<1>4. CASE keyfile # Absent /\ UNCHANGED keyfile
           /\ proc' = [proc EXCEPT ![c] =
                IF keyfile = Empty THEN Down ELSE [@ EXCEPT !.step = "up", !.key = keyfile]]
  <2>1. keyfile = Empty \/ keyfile \in Keys
    BY <1>4 DEF HandoffInv, FileSound
  <2>2. proc'[c] \in Processes /\ proc'[c].next = 1
        /\ (keyfile = Empty => proc'[c].step = "down" /\ proc'[c].key = Absent)
        /\ (keyfile # Empty => proc'[c].step = "up" /\ proc'[c].key = keyfile
                               /\ proc'[c].build \in Builds)
    BY <1>1, <1>4, <2>1, DownIsProcess DEF HandoffInv, Processes, Steps
  <2>3. proc' \in [Callers -> Processes] /\ \A d \in Callers \ {c} : UNCHANGED proc[d]
    BY <1>4, <2>2 DEF HandoffInv
  <2>4. Ordered(c)' /\ Holding(c)' /\ Enlisted(c)'
    BY <1>1, <1>2, <1>4, <2>1, <2>2 DEF Ordered, Holding, Enlisted, Starting
  <2>5. proc'[c].step # "write"
    BY <2>2
  <2> QED
    BY <1>2, <1>4, <2>3, <2>4, <2>5, ProcessKeeps
<1> QED
  BY <1>3, <1>4 DEF CreateKey, Exists

LEMMA WriteKeyKeeps ==
  ASSUME HandoffInv, AuthorityInv', NEW c \in Callers, WriteKey(c)
  PROVE  HandoffInv'
<1>1. at[c] = "idle" /\ proc[c] \in Processes /\ proc[c].step = "write"
      /\ proc[c].next = 1 /\ proc[c].build \in Builds /\ keyfile = Empty
  BY DEF HandoffInv, Ordered, Holding, Starting, WriteKey
<1>2. UNCHANGED <<at, call, grants, handoffs, identity, ran>> /\ keyfile' = OwnKey(c)
      /\ proc' = [proc EXCEPT ![c] = [@ EXCEPT !.step = "up", !.key = OwnKey(c)]]
  BY DEF WriteKey, vars
<1>3. OwnKey(c) \in Keys
  BY DEF OwnKey, Keys, HandoffInv, AuthorityInv, TypeOK
<1>4. \A d \in Callers \ {c} : proc[d].step \in Starting \ {"write"}
  BY <1>1 DEF HandoffInv, Holding, Starting, FileSound
<1>5. proc'[c] \in Processes /\ proc'[c].step = "up" /\ proc'[c].next = 1
      /\ proc'[c].build \in Builds /\ proc'[c].key = OwnKey(c)
  BY <1>1, <1>2, <1>3 DEF HandoffInv, Processes, Steps
<1>6. proc' \in [Callers -> Processes] /\ \A d \in Callers \ {c} : UNCHANGED proc[d]
  BY <1>2, <1>5 DEF HandoffInv
<1>7. Ordered(c)' /\ Holding(c)' /\ Enlisted(c)'
  BY <1>1, <1>2, <1>3, <1>5 DEF Ordered, Holding, Enlisted, Starting
<1>8. \A d \in Callers \ {c} : Holding(d)'
  BY <1>4, <1>6 DEF HandoffInv, Holding
<1>9. handoffs = {}
  BY <1>1 DEF HandoffInv, FileSound
<1>10. FileSound'
  <2>1. \A d \in Callers : proc'[d].step # "write"
    BY <1>4, <1>5, <1>6
  <2> QED
    BY <1>2, <1>3, <1>9, <2>1 DEF FileSound
<1>11. RegistrySound' /\ RowsKept
  BY <1>2, RegistryUnread
<1> QED
  BY <1>2, <1>6, <1>7, <1>8, <1>10, <1>11, OneProcess

-----------------------------------------------------------------------------
(* Calls of the authority, by a process that is up or at the gate *)

\* How an action of AgentAuthority moves the caller that takes it.
LEMMA CallMoves ==
  ASSUME TypeOK, NEW c \in Callers
  PROVE  /\ Leave(c) => /\ at'[c] = "idle"
                        /\ \A d \in Callers \ {c} : UNCHANGED <<at[d], call[d]>>
         /\ \A l : Step(c, l) => /\ at'[c] = l /\ call'[c] = call[c]
                                 /\ \A d \in Callers \ {c} : UNCHANGED <<at[d], call[d]>>
         /\ \A l, cl : Enter(c, l, cl) =>
              /\ at[c] = "idle" /\ at'[c] = l /\ call'[c] = cl
              /\ \A d \in Callers \ {c} : UNCHANGED <<at[d], call[d]>>
  BY DEF TypeOK, Leave, Step, Enter

\* A step of a call that starts none and ends none at the gate.
LEMMA CallerOrdered ==
  ASSUME HandoffInv, AuthorityInv', NEW c \in Callers, grants \subseteq grants',
         UNCHANGED handoffVars,
         \A d \in Callers \ {c} : UNCHANGED <<at[d], call[d]>>,
         Ordered(c)'
  PROVE  HandoffInv'
<1>1. UNCHANGED <<keyfile, proc, handoffs, identity, ran>>
  BY DEF handoffVars
<1>2. FileSound' /\ RegistrySound'
  BY <1>1 DEF HandoffInv, FileSound, RegistrySound
<1>3. ASSUME NEW d \in Callers PROVE Holding(d)' /\ Enlisted(d)'
  BY <1>1 DEF HandoffInv, Holding, Enlisted, Listed
<1>4. ASSUME NEW d \in Callers, d # c PROVE Ordered(d)'
  <2>1. Ordered(d) /\ UNCHANGED <<proc[d], at[d], call[d]>>
    BY <1>1, <1>4 DEF HandoffInv
  <2> QED
    BY <2>1 DEF Ordered
<1> QED
  BY <1>1, <1>2, <1>3, <1>4 DEF HandoffInv

LEMMA CallKeeps ==
  ASSUME HandoffInv, AuthorityInv', NEW c \in Callers,
         \/ Govern(c)
         \/ Running(c) /\ UNCHANGED handoffVars
         \/ Validate(c)
         \/ Reauthorize(c)
  PROVE  HandoffInv'
<1>0. TypeOK /\ Placed(c) /\ Informed(c) /\ Ordered(c)
  BY DEF HandoffInv, AuthorityInv
<1>1. UNCHANGED handoffVars /\ UNCHANGED proc
  BY Zenon DEF Govern, Validate, Reauthorize, handoffVars
<1>2. CASE proc[c].step = "up" /\ UNCHANGED grants
           /\ \A d \in Callers \ {c} : UNCHANGED <<at[d], call[d]>>
  BY <1>0, <1>1, <1>2, CallerOrdered DEF Ordered
<1>3. ASSUME NEW l, NEW cl, proc[c].step = "up", Enter(c, l, cl) PROVE HandoffInv'
  BY <1>0, <1>2, <1>3, CallMoves DEF Enter
<1>4. CASE Govern(c)
  <2>1. CASE record_trust(c) \/ govern(c)
    BY <1>3, <1>4, <2>1, Zenon DEF Govern, record_trust, govern
  <2>2. CASE rotate_policy(c)
    BY <1>2, <1>4, <2>2 DEF Govern, rotate_policy
  <2> QED
    BY <1>4, <2>1, <2>2 DEF Govern, Governance
<1>5. CASE Validate(c)
  BY <1>3, <1>5, Zenon DEF Validate, _verify_capability_request, RetryAuthorize
<1>6. CASE Reauthorize(c)
  BY <1>3, <1>6, Zenon DEF Reauthorize, EnterGate
<1>7. CASE Running(c)
  <2>1. CASE proc[c].step = "up"
    <3>1. UNCHANGED grants
      BY <1>7, Zenon DEF Running, Load, Save, _increment_epoch, RegisterRead, RegisterSave,
         RegisterInsert, GetRow
    <3>2. Leave(c) \/ \E l : Step(c, l)
      BY <1>7, Zenon DEF Running, Load, Save, _increment_epoch, RegisterRead, RegisterSave,
         RegisterInsert, GetRow
    <3> QED
      BY <1>0, <1>2, <2>1, <3>1, <3>2, CallMoves
  <2>2. CASE proc[c].step # "up"
    <3>1. at[c] # "idle"
      BY <1>7 DEF Running, Load, Save, _increment_epoch, RegisterRead, RegisterSave,
         RegisterInsert, GetRow
    <3>2. proc[c].step = "gate" /\ at[c] \in {"read", "state", "accepted"}
      BY <1>0, <2>2, <3>1 DEF Ordered
    <3>3. GetRow(c)
      BY <1>7, <3>2 DEF Running, Load, Save, _increment_epoch, RegisterRead, RegisterSave,
         RegisterInsert
    <3>4. Step(c, "state") /\ UNCHANGED grants
      BY <3>3 DEF GetRow
    <3>5. Ordered(c)'
      BY <1>0, <1>1, <3>2, <3>4, CallMoves DEF Ordered
    <3> QED
      BY <1>0, <1>1, <3>4, <3>5, CallMoves, CallerOrdered
  <2> QED
    BY <2>1, <2>2
<1> QED
  BY <1>4, <1>5, <1>6, <1>7

LEMMA SignKeeps ==
  ASSUME HandoffInv, AuthorityInv', NEW c \in Callers, sign(c)
  PROVE  HandoffInv'
<1>0. TypeOK /\ Placed(c) /\ Informed(c) /\ Ordered(c) /\ Holding(c) /\ FileSound
  BY DEF HandoffInv, AuthorityInv
<1>1. at[c] = "state" /\ call[c].op = "issue" /\ Leave(c) /\ grants' = grants \cup Issued(c)
      /\ handoffs' = handoffs \cup (Issued(c) \X {proc[c].key})
      /\ UNCHANGED <<keyfile, proc, identity, ran>>
  BY DEF sign, issue_capability_grant
<1>2. call[c] \notin Authorizations
  BY <1>0, <1>1, CallsByOp DEF TypeOK
<1>3. proc[c].step = "up" /\ proc[c].key = keyfile /\ keyfile \in Keys
  BY <1>0, <1>1, <1>2 DEF Ordered, Holding, Starting
<1>4. FileSound'
  <2>1. handoffs' \subseteq grants' \X Keys
    BY <1>0, <1>1, <1>3 DEF FileSound
  <2>2. \A h \in handoffs' : h[2] = keyfile'
    BY <1>0, <1>1, <1>3 DEF FileSound
  <2> QED
    BY <1>0, <1>1, <2>1, <2>2 DEF FileSound
<1>5. RegistrySound' /\ RowsKept
  BY <1>1, RegistryUnread
<1>6. Holding(c)' /\ Enlisted(c)' /\ \A d \in Callers \ {c} : Holding(d)'
  BY <1>1 DEF HandoffInv, Holding, Enlisted, Listed
<1>7. Ordered(c)'
  BY <1>0, <1>1, <1>3 DEF Ordered
<1> QED
  BY <1>0, <1>1, <1>4, <1>5, <1>6, <1>7, CallMoves, OneProcess DEF HandoffInv

-----------------------------------------------------------------------------
(* Executing a granted task *)

LEMMA SlotsFacts == 1 \in Slots /\ Slots \subseteq Nat /\ Len(Executors) \in Nat
  BY DEF Slots

\* What is done leaves a process up.
LEMMA DoneFacts ==
  ASSUME HandoffInv, NEW c \in Callers, Done(c), proc[c].step \notin Starting
  PROVE  /\ proc' \in [Callers -> Processes] /\ \A d \in Callers \ {c} : UNCHANGED proc[d]
         /\ proc'[c].step = "up" /\ proc'[c].next = 1
         /\ proc'[c].build = proc[c].build /\ proc'[c].key = proc[c].key
<1>1. proc[c] \in Processes
  BY DEF HandoffInv
<1>2. proc'[c] = [step |-> "up", build |-> proc[c].build, key |-> proc[c].key,
                  grant |-> Absent, next |-> 1, epoch |-> 0]
  BY <1>1 DEF HandoffInv, Done, Processes
<1>3. proc'[c] \in Processes /\ proc'[c].step = "up" /\ proc'[c].next = 1
      /\ proc'[c].build = proc[c].build /\ proc'[c].key = proc[c].key
  BY <1>1, <1>2 DEF Processes, Steps
<1>4. \A d \in Callers \ {c} : UNCHANGED proc[d]
  BY DEF HandoffInv, Done
<1>5. proc' \in [Callers -> Processes]
  BY <1>3 DEF HandoffInv, Done
<1> QED
  BY <1>3, <1>4, <1>5

\* It is then as sound as the file it holds the key of.
LEMMA DoneSound ==
  ASSUME HandoffInv, NEW c \in Callers, Done(c), proc[c].step \notin Starting,
         keyfile' = keyfile
  PROVE  Ordered(c)' /\ Holding(c)' /\ Enlisted(c)'
<1>1. proc'[c].step = "up" /\ proc'[c].next = 1
      /\ proc'[c].build = proc[c].build /\ proc'[c].key = proc[c].key
  BY DoneFacts
<1>2. proc[c].build \in Builds /\ proc[c].key = keyfile /\ keyfile \in Keys
  BY DEF HandoffInv, Ordered, Holding, Starting
<1> QED
  BY <1>1, <1>2 DEF Ordered, Holding, Enlisted, Starting

LEMMA DoneKeeps ==
  ASSUME HandoffInv, AuthorityInv', NEW c \in Callers, Done(c), proc[c].step \notin Starting,
         UNCHANGED <<at, call, grants, keyfile, handoffs, identity, ran>>
  PROVE  HandoffInv'
<1>1. Ordered(c)' /\ Holding(c)' /\ Enlisted(c)'
  BY DoneSound
<1> QED
  BY <1>1, DoneFacts, ProcessKeeps

LEMMA ExecuteTaskKeeps ==
  ASSUME HandoffInv, AuthorityInv', NEW c \in Callers, _execute_granted_task(c)
  PROVE  HandoffInv'
<1>1. at[c] = "idle" /\ proc[c] \in Processes /\ proc[c].step = "up" /\ proc[c].next = 1
      /\ proc[c].build \in Builds /\ proc[c].key = keyfile /\ keyfile \in Keys
  BY DEF _execute_granted_task, HandoffInv, Ordered, Holding, Starting
<1>2. UNCHANGED <<at, call, grants, keyfile, handoffs, identity, ran>>
  BY DEF _execute_granted_task, vars
<1>3. PICK h \in handoffs : proc' = [proc EXCEPT ![c].step = "enlist", ![c].grant = h[1]]
  BY DEF _execute_granted_task
<1>4. h[1] \in grants /\ h[1] \in Grants
  BY DEF HandoffInv, FileSound, AuthorityInv, TypeOK
<1>5. proc'[c] = [proc[c] EXCEPT !.step = "enlist", !.grant = h[1]]
  BY <1>3 DEF HandoffInv
<1>6. proc'[c] \in Processes /\ proc'[c].step = "enlist" /\ proc'[c].next = 1
      /\ proc'[c].build \in Builds /\ proc'[c].key = keyfile /\ proc'[c].grant = h[1]
  BY <1>1, <1>4, <1>5 DEF Processes, Steps
<1>7. \A d \in Callers \ {c} : UNCHANGED proc[d]
  BY <1>3 DEF HandoffInv
<1>8. proc' \in [Callers -> Processes]
  BY <1>3, <1>6 DEF HandoffInv
<1>9. Ordered(c)' /\ Holding(c)' /\ Enlisted(c)'
  <2>1. \A i \in Slots : ~(i < 1)
    BY DEF Slots
  <2> QED
    BY <1>1, <1>2, <1>4, <1>6, <2>1, SlotsFacts DEF Ordered, Holding, Enlisted, Starting
<1>10. proc'[c].step # "write"
  BY <1>6
<1> QED
  BY <1>2, <1>7, <1>8, <1>9, <1>10, ProcessKeeps

\* Going on to the next executor, with the rows up to this one registered.
LEMMA OnwardKeeps ==
  ASSUME HandoffInv, AuthorityInv', NEW c \in Callers, proc[c].step \in {"enlist", "number"},
         Onward(c), UNCHANGED <<at, call, grants, keyfile, handoffs>>,
         RowsKept, RegistrySound', identity'[proc[c].next] # Absent,
         identity'[proc[c].next].digest = proc[c].build
  PROVE  HandoffInv'
<1>0. PICK n : n = proc[c].next
  OBVIOUS
<1> DEFINE step == IF n = Len(Executors) THEN "resolve" ELSE "enlist"
<1>1. at[c] = "idle" /\ proc[c] \in Processes /\ n \in Slots /\ n \in Nat
      /\ proc[c].build \in Builds /\ proc[c].key = keyfile /\ keyfile \in Keys
      /\ proc[c].grant \in grants
  BY <1>0, SlotsFacts DEF HandoffInv, Ordered, Holding, Enlisted, Starting
<1>2. proc'[c] = [step |-> step, build |-> proc[c].build, key |-> proc[c].key,
                  grant |-> proc[c].grant, next |-> n + 1, epoch |-> 0]
      /\ \A d \in Callers \ {c} : UNCHANGED proc[d]
  BY <1>0, <1>1 DEF HandoffInv, Onward, Processes
<1>3. step \in {"resolve", "enlist"} /\ (step = "enlist" => n + 1 \in Slots)
      /\ (step = "resolve" => n = Len(Executors))
  BY <1>1, SlotsFacts DEF Slots
<1> HIDE DEF step
<1>4. proc'[c] \in Processes /\ proc'[c].step = step /\ proc'[c].next = n + 1
      /\ proc'[c].build = proc[c].build /\ proc'[c].key = keyfile
      /\ proc'[c].grant = proc[c].grant
  BY <1>1, <1>2, <1>3 DEF Processes, Steps
<1>5. proc' \in [Callers -> Processes]
  <2>1. proc' = [proc EXCEPT ![c] = proc'[c]]
    BY DEF HandoffInv, Onward
  <2> QED
    BY <1>4, <2>1 DEF HandoffInv
<1>6. \A i \in Slots : i < n + 1 => Listed(c, i)'
  <2>1. ASSUME NEW i \in Slots, i < n PROVE Listed(c, i)'
    BY <1>0, <1>4, <2>1 DEF HandoffInv, Enlisted, Listed, RowsKept
  <2>2. Listed(c, n)'
    BY <1>0, <1>4 DEF Listed
  <2> QED
    BY <1>1, <2>1, <2>2, SlotsFacts
<1>7. step = "resolve" => \A i \in Slots : i < n + 1
  BY <1>1, <1>3 DEF Slots
<1>8. Ordered(c)' /\ Holding(c)' /\ Enlisted(c)'
  BY <1>1, <1>3, <1>4, <1>6, <1>7 DEF Ordered, Holding, Enlisted, Starting
<1>9. FileSound' /\ \A d \in Callers \ {c} : Holding(d)'
  BY <1>2, <1>3, <1>4, FileKept
<1> QED
  BY <1>2, <1>5, <1>8, <1>9, OneProcess

LEMMA RegisterExecutorKeeps ==
  ASSUME HandoffInv, AuthorityInv', NEW c \in Callers, RegisterExecutor(c)
  PROVE  HandoffInv'
<1> DEFINE row == identity[proc[c].next]
<1>1. proc[c].step = "enlist" /\ proc[c].step \notin Starting
      /\ UNCHANGED <<at, call, grants, keyfile, handoffs, identity, ran>>
  BY DEF RegisterExecutor, Starting, vars
<1>2. CASE row # Absent /\ Registrable(row, proc[c].build) /\ Onward(c)
  BY <1>1, <1>2, RegistryUnread, OnwardKeeps DEF Registrable
<1>3. CASE Done(c)
  BY <1>1, <1>3, DoneKeeps
<1>4. CASE proc' = [proc EXCEPT ![c].step = "number", ![c].epoch = _next_epoch]
  <2>0. _next_epoch \in Nat \ {0}
    BY NextEpochAbove DEF HandoffInv
  <2>1. at[c] = "idle" /\ proc[c] \in Processes
        /\ proc[c].build \in Builds /\ proc[c].key = keyfile /\ keyfile \in Keys
        /\ proc[c].grant \in grants /\ proc[c].next \in Slots
        /\ \A i \in Slots : i < proc[c].next => Listed(c, i)
    BY <1>1 DEF HandoffInv, Ordered, Holding, Enlisted, Starting
  <2>2. proc'[c] = [proc[c] EXCEPT !.step = "number", !.epoch = _next_epoch]
        /\ \A d \in Callers \ {c} : UNCHANGED proc[d]
    BY <1>4 DEF HandoffInv
  <2>3. proc'[c] \in Processes /\ proc'[c].step = "number" /\ proc'[c].next = proc[c].next
        /\ proc'[c].build = proc[c].build /\ proc'[c].key = keyfile
        /\ proc'[c].grant = proc[c].grant /\ proc'[c].epoch = _next_epoch
    BY <2>0, <2>1, <2>2 DEF Processes, Steps
  <2>4. proc' \in [Callers -> Processes]
    BY <1>4, <2>3 DEF HandoffInv
  <2>5. Ordered(c)' /\ Holding(c)'
    BY <1>1, <2>1, <2>3 DEF Ordered, Holding, Starting
  <2>6. Enlisted(c)'
    BY <1>1, <2>0, <2>1, <2>3 DEF Enlisted, Listed
  <2>7. proc'[c].step # "write"
    BY <2>3
  <2> QED
    BY <1>1, <2>2, <2>4, <2>5, <2>6, <2>7, ProcessKeeps
<1> QED
  BY <1>2, <1>3, <1>4, Zenon DEF RegisterExecutor

LEMMA InsertIdentityKeeps ==
  ASSUME HandoffInv, AuthorityInv', NEW c \in Callers, InsertIdentity(c)
  PROVE  HandoffInv'
<1>0. PICK i : i = proc[c].next
  OBVIOUS
<1>1. proc[c].step = "number" /\ proc[c].step \notin Starting
      /\ UNCHANGED <<at, call, grants, keyfile, handoffs, ran>>
  BY DEF InsertIdentity, Starting, vars
<1>2. CASE Done(c) /\ UNCHANGED identity
  BY <1>1, <1>2, DoneKeeps
<1>3. CASE /\ identity[i] = Absent
           /\ identity' = [identity EXCEPT ![i] = [digest |-> proc[c].build, status |-> "ACTIVE",
                                                   epoch |-> proc[c].epoch]]
           /\ Onward(c)
  <2>1. i \in Slots /\ proc[c].build \in Builds /\ proc[c].epoch \in Nat \ {0}
    BY <1>0, <1>1 DEF HandoffInv, Ordered, Enlisted, Processes
  <2>2. identity'[i] \in Identities /\ identity'[i] # Absent /\ identity'[i].digest = proc[c].build
        /\ identity'[i].epoch = proc[c].epoch
    BY <1>3, <2>1 DEF HandoffInv, RegistrySound, Identities
  <2>3. \A j \in Slots \ {i} : UNCHANGED identity[j]
    BY <1>3 DEF HandoffInv, RegistrySound
  <2>4. identity' \in [Slots -> {Absent} \cup Identities]
    <3>1. identity' = [identity EXCEPT ![i] = identity'[i]]
      BY <1>3 DEF HandoffInv, RegistrySound
    <3> QED
      BY <2>2, <3>1 DEF HandoffInv, RegistrySound
  <2>5. RowsKept
    BY <1>3, <2>3 DEF RowsKept
  <2>6. \E top \in Nat : \A j \in Slots : identity'[j] # Absent => identity'[j].epoch <= top
    <3>1. PICK top \in Nat : \A j \in Slots : identity[j] # Absent => identity[j].epoch <= top
      BY DEF HandoffInv, RegistrySound
    <3>2. PICK high \in Nat : high >= top /\ high >= proc[c].epoch
      BY <2>1
    <3>3. ASSUME NEW j \in Slots, identity'[j] # Absent PROVE identity'[j].epoch <= high
      <4>1. CASE j = i
        BY <2>1, <2>2, <3>2, <4>1
      <4>2. CASE j # i
        <5>1. identity[j] # Absent /\ identity'[j] = identity[j]
          BY <2>3, <3>3, <4>2
        <5>2. identity[j].epoch \in Nat /\ identity[j].epoch <= top
          BY <3>1, <5>1 DEF HandoffInv, RegistrySound, Identities
        <5> QED
          BY <3>2, <5>1, <5>2
      <4> QED
        BY <4>1, <4>2
    <3> QED
      BY <3>3
  <2>7. RegistrySound'
    <3>1. \A r \in ran' : identity'[r[1]] # Absent /\ identity'[r[1]].digest = r[2]
      BY <1>1, <2>5 DEF HandoffInv, RegistrySound, RowsKept
    <3> QED
      BY <1>1, <2>4, <2>6, <3>1 DEF HandoffInv, RegistrySound
  <2> QED
    BY <1>0, <1>1, <1>3, <2>2, <2>5, <2>7, OnwardKeeps
<1> QED
  BY <1>0, <1>2, <1>3 DEF InsertIdentity

\* Asking the gate, for one of the executors found.
LEMMA ResolveKeeps ==
  ASSUME HandoffInv, AuthorityInv', NEW c \in Callers, Resolve(c)
  PROVE  HandoffInv'
<1>1. proc[c].step = "resolve" /\ proc[c].step \notin Starting
      /\ UNCHANGED <<keyfile, handoffs, identity, ran>>
  BY DEF Resolve, Starting
<1>2. CASE Done(c) /\ UNCHANGED vars
  BY <1>1, <1>2, DoneKeeps DEF vars
<1>3. CASE /\ EnterGate(c, proc[c].grant)
           /\ \E i \in Slots : proc' = [proc EXCEPT ![c].step = "gate", ![c].next = i,
                                                    ![c].epoch = identity[i].epoch]
  <2>0. PICK i \in Slots : proc' = [proc EXCEPT ![c].step = "gate", ![c].next = i,
                                                ![c].epoch = identity[i].epoch]
    BY <1>3
  <2>1. proc[c] \in Processes /\ proc[c].build \in Builds /\ proc[c].key = keyfile
        /\ keyfile \in Keys /\ proc[c].grant \in grants /\ Listed(c, i)
    BY <1>1 DEF HandoffInv, Ordered, Holding, Enlisted, Starting
  <2>2. identity[i].epoch \in Nat \ {0} /\ i \in Nat
    BY <2>1, SlotsFacts DEF HandoffInv, RegistrySound, Identities, Listed
  <2>3. proc'[c] = [step |-> "gate", build |-> proc[c].build, key |-> proc[c].key,
                    grant |-> proc[c].grant, next |-> i, epoch |-> identity[i].epoch]
        /\ \A d \in Callers \ {c} : UNCHANGED proc[d]
    BY <2>0, <2>1 DEF HandoffInv, Processes
  <2>4. proc'[c] \in Processes /\ proc'[c].step = "gate" /\ proc'[c].next = i
        /\ proc'[c].build = proc[c].build /\ proc'[c].key = keyfile
        /\ proc'[c].grant = proc[c].grant /\ proc'[c].epoch = identity[i].epoch
    BY <2>1, <2>2, <2>3 DEF Processes, Steps
  <2>5. proc' \in [Callers -> Processes]
    <3>1. proc' = [proc EXCEPT ![c] = proc'[c]]
      BY <2>0 DEF HandoffInv
    <3> QED
      BY <2>4, <3>1 DEF HandoffInv
  <2> DEFINE cl == [op |-> "authorize", grant |-> proc[c].grant, late |-> proc[c].grant \in dead]
  <2>6. /\ at'[c] = "read" /\ call'[c] = cl /\ UNCHANGED grants
        /\ \A d \in Callers \ {c} : UNCHANGED <<at[d], call[d]>>
    <3>1. Enter(c, "read", cl) /\ TypeOK
      BY <1>3 DEF EnterGate, HandoffInv, AuthorityInv
    <3> HIDE DEF cl
    <3> QED
      BY <3>1, CallMoves DEF Enter
  <2>7. call'[c] \in Authorizations /\ call'[c].grant = proc[c].grant
    <3>0. cl.op = "authorize" /\ cl.grant = proc[c].grant
      BY Zenon
    <3> HIDE DEF cl
    <3>1. TypeOK' /\ call'[c].op = "authorize" /\ call'[c].grant = proc[c].grant
      BY <2>6, <3>0 DEF AuthorityInv
    <3>2. call'[c] \in Calls
      BY <3>1 DEF TypeOK
    <3> QED
      BY <3>1, <3>2, CallsByOp
  <2>8. Ordered(c)' /\ Holding(c)'
    BY <1>1, <2>1, <2>4, <2>6, <2>7 DEF Ordered, Holding, Starting
  <2>9. Enlisted(c)'
    BY <1>1, <2>1, <2>2, <2>4 DEF Enlisted, Listed
  <2>10. proc'[c].step # "write"
    BY <2>4
  <2> QED
    BY <1>1, <2>3, <2>5, <2>6, <2>8, <2>9, <2>10, ProcessKeeps
<1> QED
  BY <1>2, <1>3, Zenon DEF Resolve

LEMMA GateKeeps ==
  ASSUME HandoffInv, AuthorityInv', NEW c \in Callers, Gate(c)
  PROVE  HandoffInv'
<1>0. TypeOK /\ Placed(c) /\ Ordered(c)
  BY DEF HandoffInv, AuthorityInv
<1>1. at[c] = "state" /\ UNCHANGED <<grants, keyfile, handoffs, identity, ran>>
      /\ proc[c].step \in {"up", "gate"} /\ proc[c].step \notin Starting
  BY <1>0 DEF Gate, authorize, Ordered, Starting
<1>2. \A d \in Callers \ {c} : UNCHANGED <<at[d], call[d]>>
  BY <1>0, CallMoves DEF Gate, authorize
<1>3. CASE Step(c, "accepted")
  <2>1. at'[c] = "accepted" /\ call'[c] = call[c] /\ UNCHANGED proc
    BY <1>0, <1>3, CallMoves DEF Gate
  <2>2. Ordered(c)'
    BY <1>0, <1>1, <2>1 DEF Ordered
  <2> QED
    BY <1>1, <1>2, <2>1, <2>2, CallerOrdered DEF handoffVars
<1>4. CASE Leave(c)
  <2>1. at'[c] = "idle"
    BY <1>0, <1>4, CallMoves
  <2>2. CASE proc[c].step = "gate"
    <3>1. Done(c)
      BY <2>1, <2>2 DEF Gate
    <3>2. Ordered(c)' /\ Holding(c)' /\ Enlisted(c)'
      BY <1>1, <3>1, DoneSound
    <3> QED
      BY <1>1, <1>2, <3>1, <3>2, DoneFacts, ProcessKeeps
  <2>3. CASE proc[c].step = "up"
    <3>1. UNCHANGED proc
      BY <2>3 DEF Gate
    <3>2. Ordered(c)'
      BY <1>0, <2>1, <2>3, <3>1 DEF Ordered
    <3> QED
      BY <1>1, <1>2, <3>1, <3>2, CallerOrdered DEF handoffVars
  <2> QED
    BY <1>1, <2>2, <2>3
<1> QED
  BY <1>3, <1>4 DEF Gate, authorize

\* What runs is registered with the digest of the build that runs it.
LEMMA ExecuteKeeps ==
  ASSUME HandoffInv, AuthorityInv', NEW c \in Callers, Execute(c)
  PROVE  HandoffInv'
<1>0. TypeOK /\ Ordered(c) /\ Enlisted(c)
  BY DEF HandoffInv, AuthorityInv
<1>1. Leave(c) /\ UNCHANGED <<grants, keyfile, handoffs, identity>>
  BY DEF Execute, Return
<1>2. at'[c] = "idle" /\ \A d \in Callers \ {c} : UNCHANGED <<at[d], call[d]>>
  BY <1>0, <1>1, CallMoves
<1>3. CASE /\ proc[c].step = "gate"
           /\ ran' = ran \cup {<<proc[c].next, proc[c].build, proc[c].epoch>>}
           /\ Done(c)
  <2>1. proc[c].next \in Slots /\ proc[c].build \in Builds /\ proc[c].epoch \in Nat \ {0}
        /\ Listed(c, proc[c].next) /\ proc[c].step \notin Starting
    BY <1>0, <1>3 DEF HandoffInv, Ordered, Enlisted, Processes, Starting
  <2>2. RegistrySound'
    <3>1. ran' \subseteq Slots \X Builds \X (Nat \ {0})
      BY <1>3, <2>1 DEF HandoffInv, RegistrySound
    <3>2. \A r \in ran' : identity[r[1]] # Absent /\ identity[r[1]].digest = r[2]
      BY <1>3, <2>1 DEF HandoffInv, RegistrySound, Listed
    <3> QED
      BY <1>1, <3>1, <3>2 DEF HandoffInv, RegistrySound
  <2>3. RowsKept
    BY <1>1 DEF RowsKept
  <2>4. Ordered(c)' /\ Holding(c)' /\ Enlisted(c)'
    BY <1>1, <1>3, <2>1, DoneSound
  <2>5. FileSound' /\ \A d \in Callers \ {c} : Holding(d)'
    <3>1. proc'[c].step # "write"
      BY <1>3, <2>1, DoneFacts
    <3> QED
      BY <1>1, <1>3, <2>1, <3>1, DoneFacts, FileKept
  <2> QED
    BY <1>1, <1>2, <1>3, <2>1, <2>2, <2>3, <2>4, <2>5, DoneFacts, OneProcess
<1>4. CASE proc[c].step = "up" /\ UNCHANGED <<ran, proc>>
  <2>1. Ordered(c)'
    BY <1>0, <1>2, <1>4 DEF Ordered
  <2> QED
    BY <1>1, <1>2, <1>4, <2>1, CallerOrdered DEF handoffVars
<1> QED
  BY <1>3, <1>4 DEF Execute

LEMMA StatusReadKeeps ==
  ASSUME HandoffInv, AuthorityInv', NEW c \in Callers, StatusRead(c)
  PROVE  HandoffInv'
<1>0. _next_epoch \in Nat \ {0}
  BY NextEpochAbove DEF HandoffInv
<1>1. at[c] = "idle" /\ proc[c] \in Processes /\ proc[c].step = "up"
      /\ proc[c].build \in Builds /\ proc[c].key = keyfile /\ keyfile \in Keys
  BY DEF StatusRead, HandoffInv, Ordered, Holding, Starting
<1>2. UNCHANGED <<at, call, grants, keyfile, handoffs, identity, ran>>
  BY DEF StatusRead
<1>3. PICK i \in Slots : identity[i] # Absent
        /\ proc' = [proc EXCEPT ![c].step = "restatus", ![c].next = i, ![c].epoch = _next_epoch]
  BY DEF StatusRead
<1>4. proc'[c] = [step |-> "restatus", build |-> proc[c].build, key |-> proc[c].key,
                  grant |-> proc[c].grant, next |-> i, epoch |-> _next_epoch]
      /\ \A d \in Callers \ {c} : UNCHANGED proc[d]
  BY <1>1, <1>3 DEF HandoffInv, Processes
<1>5. proc'[c] \in Processes /\ proc'[c].step = "restatus" /\ proc'[c].next = i
      /\ proc'[c].build \in Builds /\ proc'[c].key = keyfile /\ proc'[c].epoch = _next_epoch
  BY <1>0, <1>1, <1>4, SlotsFacts DEF Processes, Steps
<1>6. proc' \in [Callers -> Processes]
  <2>1. proc' = [proc EXCEPT ![c] = proc'[c]]
    BY <1>3 DEF HandoffInv
  <2> QED
    BY <1>5, <2>1 DEF HandoffInv
<1>7. Ordered(c)' /\ Holding(c)' /\ Enlisted(c)'
  BY <1>0, <1>1, <1>2, <1>3, <1>5 DEF Ordered, Holding, Enlisted, Starting
<1>8. proc'[c].step # "write"
  BY <1>5
<1> QED
  BY <1>2, <1>4, <1>6, <1>7, <1>8, ProcessKeeps

LEMMA SetStatusKeeps ==
  ASSUME HandoffInv, AuthorityInv', NEW c \in Callers, set_status(c)
  PROVE  HandoffInv'
<1>0. PICK i : i = proc[c].next
  OBVIOUS
<1>1. proc[c].step = "restatus" /\ proc[c].step \notin Starting /\ Done(c)
      /\ UNCHANGED <<at, call, grants, keyfile, handoffs, ran>>
  BY DEF set_status, Starting, vars
<1>2. PICK s \in {"ACTIVE", "SUSPENDED"} :
        identity' = [identity EXCEPT ![i].status = s, ![i].epoch = proc[c].epoch]
  BY <1>0 DEF set_status
<1>3. i \in Slots /\ identity[i] \in Identities /\ proc[c].epoch \in Nat \ {0}
  BY <1>0, <1>1 DEF HandoffInv, Enlisted, RegistrySound, Processes
<1>4. identity'[i] = [digest |-> identity[i].digest, status |-> s, epoch |-> proc[c].epoch]
      /\ \A j \in Slots \ {i} : UNCHANGED identity[j]
  BY <1>2, <1>3 DEF HandoffInv, RegistrySound, Identities
<1>5. identity'[i] \in Identities /\ identity'[i] # Absent
      /\ identity'[i].digest = identity[i].digest /\ identity'[i].epoch = proc[c].epoch
  BY <1>3, <1>4 DEF Identities
<1>6. identity' \in [Slots -> {Absent} \cup Identities]
  <2>1. identity' = [identity EXCEPT ![i] = identity'[i]]
    BY <1>2 DEF HandoffInv, RegistrySound
  <2> QED
    BY <1>5, <2>1 DEF HandoffInv, RegistrySound
<1>7. RowsKept
  BY <1>4, <1>5 DEF RowsKept
<1>8. \E top \in Nat : \A j \in Slots : identity'[j] # Absent => identity'[j].epoch <= top
  <2>1. PICK top \in Nat : \A j \in Slots : identity[j] # Absent => identity[j].epoch <= top
    BY DEF HandoffInv, RegistrySound
  <2>2. PICK high \in Nat : high >= top /\ high >= proc[c].epoch
    BY <1>3
  <2>3. ASSUME NEW j \in Slots, identity'[j] # Absent PROVE identity'[j].epoch <= high
    <3>1. CASE j = i
      BY <1>3, <1>5, <2>2, <3>1
    <3>2. CASE j # i
      <4>1. identity[j] # Absent /\ identity'[j] = identity[j]
        BY <1>4, <2>3, <3>2
      <4>2. identity[j].epoch \in Nat /\ identity[j].epoch <= top
        BY <2>1, <4>1 DEF HandoffInv, RegistrySound, Identities
      <4> QED
        BY <2>2, <4>1, <4>2
    <3> QED
      BY <3>1, <3>2
  <2> QED
    BY <2>3
<1>9. RegistrySound'
  <2>1. \A r \in ran' : identity'[r[1]] # Absent /\ identity'[r[1]].digest = r[2]
    BY <1>1, <1>7 DEF HandoffInv, RegistrySound, RowsKept
  <2> QED
    BY <1>1, <1>6, <1>8, <2>1 DEF HandoffInv, RegistrySound
<1>10. Ordered(c)' /\ Holding(c)' /\ Enlisted(c)'
  BY <1>1, DoneSound
<1>11. FileSound' /\ \A d \in Callers \ {c} : Holding(d)'
  <2>1. proc'[c].step # "write"
    BY <1>1, DoneFacts
  <2> QED
    BY <1>1, <2>1, DoneFacts, FileKept
<1> QED
  BY <1>1, <1>7, <1>9, <1>10, <1>11, DoneFacts, OneProcess

LEMMA CrashKeeps ==
  ASSUME HandoffInv, AuthorityInv', NEW c \in Callers, Crash(c)
  PROVE  HandoffInv'
<1>0. TypeOK
  BY DEF HandoffInv, AuthorityInv
<1>1. Leave(c) /\ proc' = [proc EXCEPT ![c] = Down]
      /\ UNCHANGED <<grants, keyfile, handoffs, identity, ran>>
  BY DEF Crash
<1>2. at'[c] = "idle" /\ \A d \in Callers \ {c} : UNCHANGED <<at[d], call[d]>>
  BY <1>0, <1>1, CallMoves
<1>3. proc' \in [Callers -> Processes] /\ proc'[c] = Down
      /\ \A d \in Callers \ {c} : UNCHANGED proc[d]
  BY <1>1, DownIsProcess DEF HandoffInv
<1>4. Ordered(c)' /\ Holding(c)' /\ Enlisted(c)'
  BY <1>2, <1>3, DownIsProcess DEF Ordered, Holding, Enlisted, Starting
<1>5. proc'[c].step # "write"
  BY <1>3, DownIsProcess
<1> QED
  BY <1>1, <1>2, <1>3, <1>4, <1>5, ProcessKeeps

-----------------------------------------------------------------------------
(* The theorems *)

LEMMA HandoffInvInit == HandoffInit => HandoffInv
<1> SUFFICES ASSUME HandoffInit PROVE HandoffInv
  OBVIOUS
<1>1. TypeOK
  BY CallSets DEF HandoffInit, Init, TypeOK
<1>2. RowsSound
  BY DEF HandoffInit, Init, RowsSound
<1>3. ASSUME NEW c \in Callers PROVE Placed(c) /\ Informed(c)
  <2>1. at[c] = "idle" /\ call[c] = Idle /\ machine[c] = Fresh
    BY DEF HandoffInit, Init
  <2>2. Placed(c)
    BY <2>1 DEF Placed
  <2>3. Earned(machine[c])
    BY <2>1 DEF Earned, Fresh, HandoffInit, Init
  <2>4. Informed(c)
    BY <2>1, <2>3, CallSets DEF Informed
  <2> QED
    BY <2>2, <2>4
<1>4. AuthorityInv
  BY <1>1, <1>2, <1>3 DEF AuthorityInv
<1>5. proc \in [Callers -> Processes] /\ \A c \in Callers : proc[c] = Down
  BY DownIsProcess DEF HandoffInit
<1>6. FileSound
  BY <1>5, DownIsProcess DEF HandoffInit, FileSound
<1>7. RegistrySound
  <2>1. \A i \in Slots : identity[i] = Absent
    BY DEF HandoffInit
  <2> QED
    BY <2>1 DEF HandoffInit, RegistrySound
<1>8. ASSUME NEW c \in Callers PROVE Ordered(c) /\ Holding(c) /\ Enlisted(c)
  <2>1. at[c] = "idle" /\ proc[c] = Down
    BY <1>5 DEF HandoffInit, Init
  <2> QED
    BY <2>1, DownIsProcess DEF Ordered, Holding, Enlisted, Starting
<1> QED
  BY <1>4, <1>5, <1>6, <1>7, <1>8 DEF HandoffInv

LEMMA HandoffInvStep == HandoffInv /\ [HandoffNext]_allVars => HandoffInv'
<1> SUFFICES ASSUME HandoffInv, [HandoffNext]_allVars PROVE HandoffInv'
  OBVIOUS
<1>1. AuthorityInv'
  BY AuthorityStep
<1>2. CASE UNCHANGED allVars
  <2>1. UNCHANGED <<at, call, grants, keyfile, proc, handoffs, identity, ran>>
    BY <1>2 DEF allVars, vars, handoffVars
  <2>2. \A c \in Callers : Ordered(c)' /\ Holding(c)' /\ Enlisted(c)'
    BY <2>1 DEF HandoffInv, Ordered, Holding, Enlisted, Listed
  <2> QED
    BY <1>1, <2>1, <2>2 DEF HandoffInv, FileSound, RegistrySound
<1>3. CASE HandoffNext
  <2>1. PICK c \in Callers :
          \/ Start(c) \/ CreateKey(c) \/ WriteKey(c)
          \/ Govern(c) \/ (Running(c) /\ UNCHANGED handoffVars)
          \/ Validate(c) \/ sign(c)
          \/ _execute_granted_task(c) \/ RegisterExecutor(c) \/ InsertIdentity(c)
          \/ Resolve(c) \/ Gate(c) \/ Execute(c) \/ Reauthorize(c)
          \/ StatusRead(c) \/ set_status(c)
          \/ Crash(c)
    BY <1>3, Zenon DEF HandoffNext
  <2>2. CASE Start(c) \/ CreateKey(c) \/ WriteKey(c)
    BY <1>1, <2>2, StartKeeps, CreateKeyKeeps, WriteKeyKeeps
  <2>3. CASE \/ Govern(c) \/ (Running(c) /\ UNCHANGED handoffVars)
             \/ Validate(c) \/ Reauthorize(c)
    BY <1>1, <2>3, CallKeeps, Zenon
  <2>4. CASE sign(c) \/ Gate(c) \/ Execute(c)
    BY <1>1, <2>4, SignKeeps, GateKeeps, ExecuteKeeps
  <2>5. CASE _execute_granted_task(c) \/ RegisterExecutor(c) \/ InsertIdentity(c) \/ Resolve(c)
    BY <1>1, <2>5, ExecuteTaskKeeps, RegisterExecutorKeeps, InsertIdentityKeeps, ResolveKeeps
  <2>6. CASE StatusRead(c) \/ set_status(c) \/ Crash(c)
    BY <1>1, <2>6, StatusReadKeeps, SetStatusKeeps, CrashKeeps
  <2> QED
    BY <2>1, <2>2, <2>3, <2>4, <2>5, <2>6, Zenon
<1> QED
  BY <1>2, <1>3

\* The strengthening: authority, key file and registry of executors are sound,
\* and so is what each caller and each process has read of them.
THEOREM HandoffInvariant == HandoffSpec => []HandoffInv
  BY HandoffInvInit, HandoffInvStep, PTL DEF HandoffSpec

\* A grant signed by any validator is verified by every executor, because the
\* file is written once, by the process that created it (load_or_create); and what
\* has run is registered with the digest of the build that ran it, because a row
\* is inserted once and set_status leaves the digest alone.
THEOREM GrantsHandedOver == HandoffSpec => []HandoffsHold
<1>1. HandoffInv => HandoffsHold
  <2> SUFFICES ASSUME HandoffInv PROVE HandoffsHold
    OBVIOUS
  <2>1. HandoffTypeOK
    <3>1. TypeOK /\ keyfile \in {Absent, Empty} \cup Keys /\ handoffs \subseteq grants \X Keys
          /\ identity \in [Slots -> {Absent} \cup Identities]
          /\ ran \subseteq Slots \X Builds \X (Nat \ {0})
      BY DEF HandoffInv, AuthorityInv, FileSound, RegistrySound
    <3>2. ASSUME NEW c \in Callers
          PROVE  /\ proc[c].step \in Steps
                 /\ proc[c].key \in {Absent} \cup Keys
                 /\ proc[c].step \notin {"down", "create", "write"} => proc[c].key \in Keys
                 /\ proc[c].step = "gate" => proc[c].grant = call[c].grant
      BY DEF HandoffInv, Processes, Holding, Ordered, Starting
    <3> QED
      BY <3>1, <3>2 DEF HandoffTypeOK
  <2>2. \A c \in Callers, h \in handoffs : proc[c].key # Absent => verify(c, h)
    BY DEF HandoffInv, FileSound, Holding, verify
  <2>3. \A r \in ran : identity[r[1]] # Absent /\ identity[r[1]].digest = r[2]
    BY DEF HandoffInv, RegistrySound
  <2> QED
    BY <2>1, <2>2, <2>3 DEF HandoffsHold
<1> QED
  BY <1>1, HandoffInvariant, PTL

\* A change of authority outlives every grant signed before it: an epoch only
\* grows, and the gate compares the grant's with the one it has read after it was
\* asked (_increment_epoch, rotate_policy, authorize).
THEOREM DeadGrantsStayDead == HandoffSpec => []DeadStaysDead
<1>1. HandoffInv => DeadStaysDead
  <2> SUFFICES ASSUME HandoffInv, NEW c \in Callers, at[c] = "accepted" PROVE ~call[c].late
    BY DEF DeadStaysDead
  <2>1. call[c] \in Authorizations /\ Informed(c)
    BY DEF HandoffInv, AuthorityInv, Placed
  <2> QED
    BY <2>1 DEF Informed
<1> QED
  BY <1>1, HandoffInvariant, PTL

\* What authorize accepts is permitted by the state it has read and was asked for
\* with the evidence required, because issue and authorize agree on the state.
THEOREM AcceptedArePermitted == HandoffSpec => []AcceptedIsPermitted
<1>1. HandoffInv => AcceptedIsPermitted
  <2> SUFFICES ASSUME HandoffInv, NEW c \in Callers, at[c] = "accepted"
               PROVE  LET g == call[c].grant IN
                 /\ evaluate_effective_capability(g.intent, context[c].state) = "REQUIRE_EVIDENCE"
                 /\ \A need \in required_evidence(g.intent) :
                      \E claim \in g.evidence :
                        claim.type = need /\ claim.source \in SourceRoles(need)
    BY Zenon DEF AcceptedIsPermitted
  <2>1. call[c].grant \in grants /\ call[c].grant.state = context[c].state
    BY DEF HandoffInv, AuthorityInv, Placed, Informed
  <2>2. Asked(call[c].grant) /\ evaluate_effective_capability(call[c].grant.intent,
          call[c].grant.state) = "REQUIRE_EVIDENCE"
    BY <2>1 DEF HandoffInv, AuthorityInv, RowsSound
  <2> QED
    BY <2>1, <2>2 DEF Asked, evidence_sufficient
<1> QED
  BY <1>1, HandoffInvariant, PTL

\* Elevated authority is earned: every record, stored or loaded, claims no more
\* than attestors stood for, so saving one over another gains nothing
\* (record_trust, governance_promote_elevated).
THEOREM ElevationIsEarned == HandoffSpec => []ElevatedIsEarned
<1>1. HandoffInv => ElevatedIsEarned
  <2> SUFFICES ASSUME HandoffInv, authority # Absent, authority.state = "ELEVATED"
               PROVE  authority.failed <= MaxFailed /\ vouched >= MinTrusted
    BY DEF ElevatedIsEarned
  <2>1. Earned(authority) /\ authority \in Standing /\ vouched \in Nat
    BY DEF HandoffInv, AuthorityInv, RowsSound, TypeOK
  <2> QED
    BY <2>1 DEF Earned, Standing
<1> QED
  BY <1>1, HandoffInvariant, PTL
=============================================================================
