--------------------------- MODULE EvidenceProofs ---------------------------
(***************************************************************************)
(* Proofs about CaseEvidence and the EvidenceLedger it extends, for any    *)
(* findings and contradictions, any number of rows and every bound.        *)
(***************************************************************************)
EXTENDS CaseEvidence, FiniteSetTheorems, WellFoundedInduction, TLAPS

\* A set of naturals that is not empty has a least element.
LEMMA LowestExists ==
  ASSUME NEW S \in SUBSET Nat, S # {}
  PROVE  \E m \in S : \A e \in S : m <= e
<1> DEFINE R == {ss \in Nat \X Nat : ss[1] < ss[2]}
<1>1. PICK m \in S : \A e \in S : ~ (<<e, m>> \in R)
  <2>1. IsWellFoundedOn(R, Nat)
    BY NatLessThanWellFounded DEF OpToRel
  <2> HIDE DEF R
  <2> QED
    BY <2>1, WFMin
<1>2. ASSUME NEW e \in S PROVE m <= e
  <2>1. ~ (<<e, m>> \in R) /\ e \in Nat /\ m \in Nat
    BY <1>1
  <2> QED
    BY <2>1
<1> QED
  BY <1>2

-----------------------------------------------------------------------------
(* The inductive invariant *)

Looks == [known : BOOLEAN, by : [seen : Nat, latest : Nat]]

LedgerTypes == /\ ledger \in [Atoms -> [confirmations : Nat, roles : Nat]]
               /\ provenance \in [Atoms -> [Reporters -> [seen : Nat, latest : Nat]]]
               /\ conflicts \subseteq Opposite /\ unsure \subseteq Atoms

\* The counters of an atom agree with the counts of its reporters; only a recording that
\* raised may have left them apart.
Reporting(a) == {r \in Reporters : provenance[a][r].seen > 0}
Counted == \A a \in Atoms :
             /\ ledger[a].roles <= ledger[a].confirmations
             /\ \A r \in Reporting(a) : Known(a)
             /\ a \notin unsure =>
                  /\ ledger[a].roles = Cardinality(Reporting(a))
                  /\ ledger[a].confirmations = SumFunction([r \in Reporters |-> provenance[a][r].seen])

RowTypes == /\ rows \in [Tasks -> Row \cup {None}] /\ created \in 0..MaxTasks
            /\ \A t \in Tasks : rows[t] # None => t <= created

\* compact_history leaves no row without its parent; executors come from validators.
Lineage == \A t \in Tasks : rows[t] # None =>
             /\ rows[t].parent # 0 => rows[rows[t].parent] # None
             /\ rows[t].role = "executor" => rows[t].parent # 0 /\ rows[rows[t].parent].role = "validator"
             /\ rows[t].role = "validator" => rows[t].parent # 0

\* What is stored of a row, what may have been dropped, and what its decision rests on.
Kept(a) == Known(a) \/ a \in unsure
Settled(t) ==
  /\ rows[t].status # "completed" =>
       rows[t].found = {} /\ rows[t].decision = "none" /\ rows[t].result = "none"
  /\ rows[t].status = "completed" =>
       rows[t].result = "bound" \/ rows[t].role = "executor" \/ t \in removed
  /\ rows[t].role = "executor" => rows[t].result # "bound"
  /\ rows[t].result = "dropped" => rows[t].decision # "none"
  /\ rows[t].decision # "none" => \A a \in rows[t].found : Kept(a)
Ended == \A t \in Tasks : rows[t] # None => Settled(t)

\* What the planner works on is the result of a row, or was before compaction.
PlannerTypes ==
  \/ planner = Idle
  \/ /\ planner = [pc |-> planner.pc, task |-> planner.task, role |-> planner.role,
                    atoms |-> planner.atoms, view |-> planner.view]
     /\ planner.pc \in {"store", "detect", "decide", "create"}
     /\ planner.task \in Tasks /\ planner.task <= created
     /\ planner.role \in ResearchRoles /\ planner.atoms \subseteq Findings
     /\ planner.view \in [planner.atoms -> Looks]

Working == planner.pc # "idle" =>
  /\ IF rows[planner.task] # None
     THEN /\ rows[planner.task].status = "completed"
          /\ rows[planner.task].found = planner.atoms /\ rows[planner.task].role = planner.role
     ELSE planner.task \in removed /\ \A a \in planner.atoms : Kept(a)
  /\ planner.pc = "store" => \A a \in planner.atoms :
       planner.view[a].by.seen > 0 => provenance[a][planner.role].seen > 0
  /\ planner.pc # "store" => \A a \in planner.atoms : Kept(a)
  /\ planner.pc = "decide" => \A p \in Opposite :
       p \cap planner.atoms # {} /\ (\A a \in p : Known(a)) => p \in conflicts \/ p \cap unsure # {}

\* A contradiction in the ledger is on record, or its detection is still to come.
Undecided(p) == \E t \in Tasks : /\ rows[t] # None /\ rows[t].status = "completed"
                                 /\ rows[t].decision = "none" /\ rows[t].found \cap p # {}
Conflicted == \A p \in Opposite : (\A a \in p : Known(a)) =>
                p \in conflicts \/ p \cap unsure # {} \/ Undecided(p)

\* A finding is in the ledger because of a row that reported it.
Reported == removed = {} => \A a \in Findings : \A r \in Reporting(a) :
              \E t \in Tasks : rows[t] # None /\ rows[t].role = r /\ a \in rows[t].found

ObservationTypes ==
  /\ observations \in Seq(Observation) /\ Len(observations) <= MaxObservations
  /\ \A i, j \in DOMAIN observations :
       i # j => <<observations[i].atom, observations[i].task>> # <<observations[j].atom, observations[j].task>>
  /\ removed \cup unaudited \subseteq Tasks

\* A row that was started has its audit, or is known to have lost it; and while no executor
\* has worked, observations are those of workers on their own rows.
HasAudit(t) == t \in unaudited \/ \E i \in DOMAIN observations : observations[i].task = t
Audited == \A t \in Tasks : rows[t] # None /\ rows[t].status # "pending" /\ rows[t].role # "executor"
             => HasAudit(t)
Own == removed = {} /\ (\A t \in Tasks : rows[t] # None => rows[t].role # "executor") =>
         \A i \in DOMAIN observations :
           rows[observations[i].task] # None /\ rows[observations[i].task].role = observations[i].role

\* What the exporter has read of a finished task was audited by then.
Exporting ==
  /\ \/ export = Idle
     \/ /\ export = [pc |-> "evidence", read |-> export.read]
        /\ \A t \in Tasks : (/\ export.read.tasks[t] # None
                             /\ export.read.tasks[t].status = "completed"
                             /\ export.read.tasks[t].result = "bound") => HasAudit(t)
  /\ PublishedIsWhole

Bounds == cursor \in 0..MaxTasks /\ events \in 0..MaxEvents

EvidenceInv == /\ LedgerTypes /\ Counted
               /\ RowTypes /\ Lineage /\ Ended
               /\ PlannerTypes /\ Working /\ Conflicted /\ Reported
               /\ ObservationTypes /\ Audited /\ Own /\ Exporting /\ Bounds

-----------------------------------------------------------------------------
(* The sum of the counts of the reporters *)

FiveCounts(f, s) ==
  (IF "developer" \in s THEN f["developer"] ELSE 0) +
  (IF "security_checker" \in s THEN f["security_checker"] ELSE 0) +
  (IF "validator" \in s THEN f["validator"] ELSE 0) +
  (IF "executor" \in s THEN f["executor"] ELSE 0) +
  (IF "outcome_verifier" \in s THEN f["outcome_verifier"] ELSE 0)

LEMMA ReportersAreFinite ==
  /\ Reporters = {"developer", "security_checker", "validator", "executor", "outcome_verifier"}
  /\ IsFiniteSet(Reporters)
<1>1. Reporters = {"developer", "security_checker", "validator", "executor", "outcome_verifier"}
  BY EvidenceAssumption DEF Roles, ResearchRoles
<1>2. IsFiniteSet({"developer", "security_checker", "validator", "executor", "outcome_verifier"})
  <2>1. IsFiniteSet({"developer", "security_checker"})
    <3>1. IsFiniteSet({"developer"})
      BY FS_Singleton
    <3>2. IsFiniteSet({"developer"} \cup {"security_checker"})
      BY <3>1, FS_AddElement
    <3>3. {"developer", "security_checker"} = {"developer"} \cup {"security_checker"}
      OBVIOUS
    <3> QED
      BY <3>2, <3>3
  <2>2. IsFiniteSet({"developer", "security_checker"} \cup {"validator"})
    BY <2>1, FS_AddElement
  <2>3. IsFiniteSet({"developer", "security_checker"} \cup {"validator"} \cup {"executor"})
    BY <2>2, FS_AddElement
  <2>4. IsFiniteSet({"developer", "security_checker"} \cup {"validator"} \cup {"executor"} \cup {"outcome_verifier"})
    BY <2>3, FS_AddElement
  <2>5. {"developer", "security_checker", "validator", "executor", "outcome_verifier"}
          = {"developer", "security_checker"} \cup {"validator"} \cup {"executor"} \cup {"outcome_verifier"}
    OBVIOUS
  <2> QED
    BY <2>4, <2>5
<1> QED
  BY <1>1, <1>2

LEMMA SumIsOfFive ==
  ASSUME NEW f \in [Reporters -> Nat]
  PROVE  SumFunction(f) = FiveCounts(f, Reporters)
<1> DEFINE body(g) == [s \in SUBSET Reporters |->
                         IF s = {} THEN 0
                         ELSE f[CHOOSE x \in s : TRUE] + g[s \ {CHOOSE x \in s : TRUE}]]
           iter == CHOOSE g : g = body(g)
           sums == [s \in SUBSET Reporters |-> FiveCounts(f, s)]
<1>0. Reporters = {"developer", "security_checker", "validator", "executor", "outcome_verifier"}
  BY ReportersAreFinite
<1>1. SumFunction(f) = iter[Reporters]
  <2>1. DOMAIN f = Reporters
    OBVIOUS
  <2> QED
    BY <2>1, Zenon DEF SumFunction, SumFunctionOnSet, FoldFunctionOnSet, MapThenFoldSet
<1>2. ASSUME NEW s \in SUBSET Reporters, NEW x \in s
      PROVE  FiveCounts(f, s) = f[x] + FiveCounts(f, s \ {x})
  BY <1>0, <1>2, SMTT(60) DEF FiveCounts
<1>3. FiveCounts(f, {}) = 0
  BY DEF FiveCounts
<1>4. sums = body(sums)
  <2>1. ASSUME NEW s \in SUBSET Reporters
        PROVE  sums[s] = IF s = {} THEN 0
                         ELSE f[CHOOSE x \in s : TRUE] + sums[s \ {CHOOSE x \in s : TRUE}]
    <3>1. CASE s = {}
      BY <1>3, <3>1
    <3>2. CASE s # {}
      <4>1. PICK x \in s : x = CHOOSE y \in s : TRUE
        BY <3>2
      <4>2. FiveCounts(f, s) = f[x] + FiveCounts(f, s \ {x})
        BY <1>2
      <4>3. sums[s] = FiveCounts(f, s) /\ sums[s \ {x}] = FiveCounts(f, s \ {x})
        OBVIOUS
      <4> QED
        BY <3>2, <4>1, <4>2, <4>3
    <3> QED
      BY <3>1, <3>2
  <2> QED
    BY <2>1
<1>5. iter = body(iter)
  <2> HIDE DEF sums, body
  <2> QED
    BY <1>4
<1>6. \A s \in SUBSET Reporters : sums[s] = FiveCounts(f, s)
  OBVIOUS
<1> HIDE DEF iter, sums
<1>7. ASSUME NEW s \in SUBSET Reporters, s # {}
      PROVE  \E x \in s : iter[s] = f[x] + iter[s \ {x}] /\ sums[s] = f[x] + sums[s \ {x}]
  <2>1. PICK x \in s : x = CHOOSE y \in s : TRUE
    BY <1>7
  <2>2. iter[s] = f[x] + iter[s \ {x}]
    BY <1>5, <1>7, <2>1
  <2>3. sums[s] = f[x] + sums[s \ {x}]
    BY <1>2, <1>6
  <2> QED
    BY <2>2, <2>3
<1>8. iter[{}] = 0 /\ sums[{}] = 0
  BY <1>3, <1>5, <1>6
<1> HIDE DEF body
<1>9. IsFiniteSet(Reporters)
  BY ReportersAreFinite
<1>10. ASSUME NEW s \in SUBSET Reporters, iter[s] # sums[s]
       PROVE  \E u \in SUBSET Reporters : iter[u] # sums[u] /\ Cardinality(u) < Cardinality(s)
  <2>1. s # {}
    BY <1>8, <1>10
  <2>2. PICK x \in s : iter[s] = f[x] + iter[s \ {x}] /\ sums[s] = f[x] + sums[s \ {x}]
    BY <1>7, <2>1
  <2>3. iter[s \ {x}] # sums[s \ {x}]
    BY <1>10, <2>2
  <2>4. IsFiniteSet(s)
    BY <1>9, FS_Subset
  <2>5. Cardinality(s \ {x}) = Cardinality(s) - 1 /\ Cardinality(s) \in Nat
    BY <2>4, FS_RemoveElement, FS_CardinalityType
  <2> QED
    BY <2>3, <2>5
<1>11. \A s \in SUBSET Reporters : iter[s] = sums[s]
  <2> DEFINE sizes == {Cardinality(s) : s \in {u \in SUBSET Reporters : iter[u] # sums[u]}}
  <2>1. sizes \in SUBSET Nat
    BY <1>9, FS_Subset, FS_CardinalityType
  <2>2. ASSUME NEW n \in sizes  PROVE \E m \in sizes : m < n
    BY <1>10
  <2>3. sizes = {}
    <3> HIDE DEF sizes
    <3>1. ASSUME sizes # {}  PROVE FALSE
      <4>1. PICK n \in sizes : \A m \in sizes : n <= m
        BY <2>1, <3>1, LowestExists
      <4>2. PICK m \in sizes : m < n
        BY <2>2
      <4>3. n \in Nat /\ m \in Nat /\ n <= m
        BY <2>1, <4>1
      <4> QED
        BY <4>2, <4>3
    <3> QED
      BY <3>1
  <2> QED
    BY <2>3
<1> QED
  BY <1>1, <1>6, <1>11

-----------------------------------------------------------------------------
(* What record does to the ledger *)

\* What a caller has read of an atom tells whether its role has reported it.
Current(role, atoms, view) ==
  \A a \in atoms : view[a].by.seen = 0 <=> provenance[a][role].seen = 0

\* One more report of a role: it is the first of that role, or another.
LEMMA OneMoreReport ==
  ASSUME NEW seen \in [Reporters -> Nat], NEW more \in [Reporters -> Nat], NEW role \in Reporters,
         \A r \in Reporters : more[r] = IF r = role THEN seen[r] + 1 ELSE seen[r]
  PROVE  /\ SumFunction(more) = SumFunction(seen) + 1
         /\ SumFunction(seen) \in Nat
         /\ Cardinality({r \in Reporters : more[r] > 0})
              = Cardinality({r \in Reporters : seen[r] > 0}) + (IF seen[role] = 0 THEN 1 ELSE 0)
         /\ Cardinality({r \in Reporters : seen[r] > 0}) \in Nat
<1> DEFINE before == {r \in Reporters : seen[r] > 0}
<1>1. SumFunction(more) = SumFunction(seen) + 1 /\ SumFunction(seen) \in Nat
  <2>1. SumFunction(more) = FiveCounts(more, Reporters) /\ SumFunction(seen) = FiveCounts(seen, Reporters)
    BY SumIsOfFive
  <2>2. FiveCounts(more, Reporters) = FiveCounts(seen, Reporters) + 1 /\ FiveCounts(seen, Reporters) \in Nat
    BY ReportersAreFinite, SMTT(60) DEF FiveCounts
  <2> QED
    BY <2>1, <2>2
<1>2. IsFiniteSet(before) /\ Cardinality(before) \in Nat
  BY ReportersAreFinite, FS_Subset, FS_CardinalityType
<1>3. {r \in Reporters : more[r] > 0} = before \cup {role}
  OBVIOUS
<1>4. role \in before <=> seen[role] # 0
  OBVIOUS
<1> HIDE DEF before
<1>5. Cardinality(before \cup {role})
        = Cardinality(before) + (IF seen[role] = 0 THEN 1 ELSE 0)
  <2>1. Cardinality(before \cup {role}) = IF role \in before THEN Cardinality(before) ELSE Cardinality(before) + 1
    BY <1>2, FS_AddElement
  <2> QED
    BY <1>2, <1>4, <2>1
<1> QED
  BY <1>1, <1>2, <1>3, <1>5 DEF before

LEMMA RecordCounts ==
  ASSUME LedgerTypes, Counted, NEW t \in Nat, NEW role \in Reporters, NEW atoms \in SUBSET Atoms,
         NEW view, Current(role, atoms, view), record(t, role, atoms, view),
         conflicts' \subseteq Opposite, unsure' \subseteq Atoms, unsure \subseteq unsure'
  PROVE  /\ LedgerTypes' /\ Counted'
         /\ \A a \in Atoms : Known(a) => Known(a)'
         /\ \A a \in atoms : Known(a)'
         /\ \A a \in Atoms \ atoms : ledger'[a] = ledger[a] /\ provenance'[a] = provenance[a]
         /\ \A a \in Atoms, r \in Reporters :
              /\ provenance[a][r].seen > 0 => provenance'[a][r].seen > 0
              /\ provenance'[a][r].seen > 0 =>
                   provenance[a][r].seen > 0 \/ (a \in atoms /\ r = role)
<1> DEFINE counted == {a \in atoms : ~Repeated(view[a], t)}
<1>0. ledger \in [Atoms -> [confirmations : Nat, roles : Nat]]
      /\ provenance \in [Atoms -> [Reporters -> [seen : Nat, latest : Nat]]]
  BY DEF LedgerTypes
<1>1. ledger' = [a \in Atoms |-> IF a \in counted THEN Count(ledger[a], view[a]) ELSE ledger[a]]
      /\ provenance' = [a \in Atoms |->
            IF a \in counted
            THEN [provenance[a] EXCEPT ![role] = [seen |-> @.seen + 1, latest |-> t]]
            ELSE provenance[a]]
  BY Zenon DEF record
<1>2. counted \subseteq atoms /\ counted \subseteq Atoms
  OBVIOUS
<1>3. ASSUME NEW a \in counted
      PROVE  /\ ledger'[a] \in [confirmations : Nat, roles : Nat]
             /\ ledger'[a].confirmations = ledger[a].confirmations + 1
             /\ ledger'[a].roles = ledger[a].roles + (IF provenance[a][role].seen = 0 THEN 1 ELSE 0)
             /\ provenance'[a] \in [Reporters -> [seen : Nat, latest : Nat]]
             /\ \A r \in Reporters : provenance'[a][r].seen
                  = IF r = role THEN provenance[a][r].seen + 1 ELSE provenance[a][r].seen
  <2>1. ledger'[a] = Count(ledger[a], view[a])
        /\ provenance'[a] = [provenance[a] EXCEPT ![role] = [seen |-> @.seen + 1, latest |-> t]]
    BY <1>1, <1>2
  <2>2. view[a].by.seen = 0 <=> provenance[a][role].seen = 0
    BY <1>2 DEF Current
  <2>3. ledger[a] \in [confirmations : Nat, roles : Nat]
        /\ provenance[a] \in [Reporters -> [seen : Nat, latest : Nat]]
    BY <1>0, <1>2
  <2> HIDE DEF counted
  <2>4. ledger'[a] = [confirmations |-> ledger[a].confirmations + 1,
                      roles |-> ledger[a].roles + (IF provenance[a][role].seen = 0 THEN 1 ELSE 0)]
    BY <2>1, <2>2 DEF Count
  <2>5. ledger'[a] \in [confirmations : Nat, roles : Nat]
        /\ ledger'[a].confirmations = ledger[a].confirmations + 1
        /\ ledger'[a].roles = ledger[a].roles + (IF provenance[a][role].seen = 0 THEN 1 ELSE 0)
    BY <2>3, <2>4
  <2>6. /\ provenance'[a][role] = [seen |-> provenance[a][role].seen + 1, latest |-> t]
        /\ \A r \in Reporters : r # role => provenance'[a][r] = provenance[a][r]
    BY <2>1, <2>3
  <2>7. provenance'[a] \in [Reporters -> [seen : Nat, latest : Nat]]
    BY <2>1, <2>3
  <2>8. \A r \in Reporters : provenance'[a][r].seen
           = IF r = role THEN provenance[a][r].seen + 1 ELSE provenance[a][r].seen
    <3> TAKE r \in Reporters
    <3>1. CASE r = role
      BY <2>6, <3>1
    <3>2. CASE r # role
      BY <2>6, <3>2
    <3> QED
      BY <3>1, <3>2
  <2> QED
    BY <2>5, <2>7, <2>8
<1>4. ASSUME NEW a \in Atoms \ counted
      PROVE  ledger'[a] = ledger[a] /\ provenance'[a] = provenance[a]
  BY <1>1
<1>5. DOMAIN ledger' = Atoms /\ DOMAIN provenance' = Atoms
      /\ ledger' = [a \in Atoms |-> ledger'[a]] /\ provenance' = [a \in Atoms |-> provenance'[a]]
  BY <1>1
<1>6. ASSUME NEW a \in atoms, a \notin counted  PROVE provenance[a][role].seen > 0
  <2>1. view[a].by.seen > 0
    BY <1>6 DEF Repeated
  <2>2. view[a].by.seen # 0
    BY <2>1
  <2>3. provenance[a][role].seen \in Nat
    BY <1>0
  <2> QED
    BY <2>2, <2>3 DEF Current
<1> HIDE DEF counted
<1>7. LedgerTypes'
  <2>1. \A a \in Atoms : ledger'[a] \in [confirmations : Nat, roles : Nat]
    BY <1>0, <1>3, <1>4
  <2>2. \A a \in Atoms : provenance'[a] \in [Reporters -> [seen : Nat, latest : Nat]]
    BY <1>0, <1>3, <1>4
  <2> QED
    BY <1>5, <2>1, <2>2 DEF LedgerTypes
<1>8. ASSUME NEW a \in Atoms, Known(a)  PROVE Known(a)'
  <2>1. ledger[a].confirmations \in Nat /\ ledger[a].confirmations > 0
    BY <1>0, <1>8 DEF Known
  <2>2. ledger'[a].confirmations = ledger[a].confirmations + 1 \/ ledger'[a] = ledger[a]
    BY <1>3, <1>4
  <2> QED
    BY <2>1, <2>2 DEF Known
<1>9. ASSUME NEW a \in atoms  PROVE Known(a)'
  <2>1. CASE a \in counted
    <3>1. ledger[a].confirmations \in Nat /\ ledger'[a].confirmations = ledger[a].confirmations + 1
      BY <1>0, <1>3, <2>1
    <3> QED
      BY <3>1 DEF Known
  <2>2. CASE a \notin counted
    BY <1>6, <1>8, <2>2 DEF Counted, Reporting
  <2> QED
    BY <2>1, <2>2
<1>10. ASSUME NEW a \in Atoms, NEW r \in Reporters
       PROVE  /\ provenance[a][r].seen > 0 => provenance'[a][r].seen > 0
              /\ provenance'[a][r].seen > 0 => provenance[a][r].seen > 0 \/ (a \in counted /\ r = role)
  <2>1. CASE a \in counted
    <3>1. provenance[a][r].seen \in Nat
      BY <1>0
    <3>2. provenance'[a][r].seen = IF r = role THEN provenance[a][r].seen + 1 ELSE provenance[a][r].seen
      BY <1>3, <2>1
    <3> QED
      BY <2>1, <3>1, <3>2
  <2>2. CASE a \notin counted
    BY <1>4, <2>2
  <2> QED
    BY <2>1, <2>2
<1>11. Counted'
  <2>1. ASSUME NEW a \in Atoms
        PROVE  /\ ledger'[a].roles <= ledger'[a].confirmations
               /\ \A r \in Reporting(a)' : Known(a)'
               /\ a \notin unsure =>
                    /\ ledger'[a].roles = Cardinality(Reporting(a)')
                    /\ ledger'[a].confirmations = SumFunction([r \in Reporters |-> provenance'[a][r].seen])
    <3>0. ledger[a].roles \in Nat /\ ledger[a].confirmations \in Nat
          /\ ledger[a].roles <= ledger[a].confirmations
      BY <1>0 DEF Counted
    <3>1. CASE a \notin counted
      BY <1>4, <3>1, Zenon DEF Counted, Reporting, Known
    <3>2. CASE a \in counted
      <4>1. ledger'[a].roles <= ledger'[a].confirmations /\ Known(a)'
        <5>1. ledger'[a].confirmations = ledger[a].confirmations + 1
              /\ (ledger'[a].roles = ledger[a].roles + 1 \/ ledger'[a].roles = ledger[a].roles)
          BY <1>3, <3>0, <3>2
        <5> QED
          BY <3>0, <5>1 DEF Known
      <4> DEFINE seen == [r \in Reporters |-> provenance[a][r].seen]
                 more == [r \in Reporters |-> provenance'[a][r].seen]
      <4>2. /\ seen \in [Reporters -> Nat] /\ seen[role] = provenance[a][role].seen
            /\ \A r \in Reporters : more[r] = IF r = role THEN seen[r] + 1 ELSE seen[r]
        BY <1>0, <1>3, <3>2
      <4>7. more \in [Reporters -> Nat]
        BY <1>3, <3>2
      <4>3. Reporting(a) = {r \in Reporters : seen[r] > 0} /\ Reporting(a)' = {r \in Reporters : more[r] > 0}
        BY DEF Reporting
      <4> HIDE DEF seen, more
      <4>4. SumFunction(more) = SumFunction(seen) + 1
            /\ Cardinality(Reporting(a)') = Cardinality(Reporting(a)) + (IF seen[role] = 0 THEN 1 ELSE 0)
        BY <4>2, <4>3, <4>7, OneMoreReport
      <4>5. a \notin unsure => /\ ledger[a].roles = Cardinality(Reporting(a))
                               /\ ledger[a].confirmations = SumFunction(seen)
        BY DEF Counted, seen
      <4>6. a \notin unsure => /\ ledger'[a].roles = Cardinality(Reporting(a)')
                               /\ ledger'[a].confirmations = SumFunction(more)
        BY <1>3, <3>2, <4>2, <4>4, <4>5
      <4> QED
        BY <4>1, <4>6 DEF more
    <3> QED
      BY <3>1, <3>2
  <2> QED
    BY <2>1 DEF Counted
<1> QED
  BY <1>2, <1>4, <1>7, <1>8, <1>9, <1>10, <1>11

-----------------------------------------------------------------------------
(* What a step leaves as it was, and which parts of the invariant that keeps *)

\* No finding is recorded or contradicted.
FindingsStay ==
  /\ \A a \in Findings : ledger'[a] = ledger[a] /\ provenance'[a] = provenance[a]
  /\ conflicts' = conflicts /\ unsure' = unsure

\* Rows keep their parent and role; what finished keeps its report and its decision.
RowsStay == \A t \in Tasks : rows[t] # None =>
              rows'[t] # None /\ rows'[t].parent = rows[t].parent /\ rows'[t].role = rows[t].role
ResultsStay == \A t \in Tasks :
  /\ rows[t] # None /\ rows[t].status = "completed" =>
       /\ rows'[t] # None /\ rows'[t].status = "completed" /\ rows'[t].role = rows[t].role
       /\ rows'[t].found = rows[t].found /\ rows'[t].decision = rows[t].decision
  /\ t <= created /\ rows[t] = None => rows'[t] = None

AuditsStay == /\ \A t \in Tasks : HasAudit(t) => HasAudit(t)'
              /\ unaudited \subseteq unaudited'

LEMMA OppositeFindings == \A p \in Opposite : p \subseteq Findings /\ p \subseteq Atoms
  BY EvidenceAssumption

LEMMA PlannerStays ==
  ASSUME EvidenceInv, FindingsStay, ResultsStay, removed \subseteq removed', created' \in Nat, created <= created',
         planner' = planner \/ planner' = Idle
  PROVE  PlannerTypes' /\ Working'
<1>0. planner' = Idle => planner'.pc = "idle"
  BY DEF Idle
<1>1. CASE planner' = Idle
  BY <1>0, <1>1 DEF PlannerTypes, Working
<1>2. CASE planner' = planner /\ planner # Idle
  <2>0. /\ planner = [pc |-> planner.pc, task |-> planner.task, role |-> planner.role,
                      atoms |-> planner.atoms, view |-> planner.view]
        /\ planner.pc \in {"store", "detect", "decide", "create"}
        /\ planner.task \in Tasks /\ planner.task <= created
        /\ planner.role \in ResearchRoles /\ planner.atoms \subseteq Findings
        /\ planner.view \in [planner.atoms -> Looks]
    BY <1>2 DEF EvidenceInv, PlannerTypes
  <2>1. PlannerTypes'
    <3>1. planner.task <= created'
      BY <2>0 DEF EvidenceInv, RowTypes, Tasks
    <3> QED
      BY <1>2, <2>0, <3>1 DEF PlannerTypes
  <2>2. planner.pc # "idle"
    BY <2>0
  <2>3. \A a \in Findings : (Known(a)' <=> Known(a)) /\ (Kept(a)' <=> Kept(a)) /\ provenance'[a] = provenance[a]
    BY DEF FindingsStay, Known, Kept
  <2>4. Working
    BY DEF EvidenceInv
  <2>5. IF rows'[planner.task] # None
        THEN /\ rows'[planner.task].status = "completed"
             /\ rows'[planner.task].found = planner.atoms /\ rows'[planner.task].role = planner.role
        ELSE planner.task \in removed' /\ \A a \in planner.atoms : Kept(a)'
    <3>1. CASE rows[planner.task] # None
      BY <2>0, <2>2, <2>4, <3>1 DEF Working, ResultsStay
    <3>2. CASE rows[planner.task] = None
      <4>1. rows'[planner.task] = None
        BY <2>0, <3>2 DEF ResultsStay
      <4>2. planner.task \in removed /\ \A a \in planner.atoms : Kept(a)
        BY <2>2, <2>4, <3>2 DEF Working
      <4> QED
        BY <2>0, <2>3, <4>1, <4>2
    <3> QED
      BY <3>1, <3>2
  <2>6. planner.pc = "store" => \A a \in planner.atoms :
          planner.view[a].by.seen > 0 => provenance'[a][planner.role].seen > 0
    BY <2>0, <2>2, <2>3, <2>4 DEF Working
  <2>7. planner.pc # "store" => \A a \in planner.atoms : Kept(a)'
    BY <2>0, <2>2, <2>3, <2>4 DEF Working
  <2>8. planner.pc = "decide" => \A p \in Opposite :
          p \cap planner.atoms # {} /\ (\A a \in p : Known(a)') => p \in conflicts' \/ p \cap unsure' # {}
    <3>1. \A p \in Opposite : (\A a \in p : Known(a)') => (\A a \in p : Known(a))
      BY <2>3, OppositeFindings
    <3>2. planner.pc = "decide" => \A p \in Opposite :
          p \cap planner.atoms # {} /\ (\A a \in p : Known(a)) => p \in conflicts \/ p \cap unsure # {}
      BY <2>2, <2>4 DEF Working
    <3>3. conflicts' = conflicts /\ unsure' = unsure
      BY DEF FindingsStay
    <3> QED
      BY <3>1, <3>2, <3>3, Zenon
  <2> QED
    BY <1>2, <2>1, <2>5, <2>6, <2>7, <2>8 DEF Working
<1> QED
  BY <1>1, <1>2

LEMMA ReportsStay ==
  ASSUME EvidenceInv, FindingsStay, ResultsStay, removed \subseteq removed'
  PROVE  Conflicted' /\ Reported'
<1>1. Conflicted'
  <2>1. ASSUME NEW p \in Opposite, \A a \in p : Known(a)'
        PROVE  p \in conflicts' \/ p \cap unsure' # {} \/ Undecided(p)'
    <3>1. \A a \in p : Known(a)
      BY <2>1, OppositeFindings DEF FindingsStay, Known
    <3>2. p \in conflicts \/ p \cap unsure # {} \/ Undecided(p)
      BY <3>1, Zenon DEF EvidenceInv, Conflicted
    <3>3. Undecided(p) => Undecided(p)'
      <4> SUFFICES ASSUME Undecided(p) PROVE Undecided(p)'
        OBVIOUS
      <4>1. PICK t \in Tasks : /\ rows[t] # None /\ rows[t].status = "completed"
                               /\ rows[t].decision = "none" /\ rows[t].found \cap p # {}
        BY DEF Undecided
      <4> QED
        BY <4>1 DEF Undecided, ResultsStay
    <3> QED
      BY <3>2, <3>3 DEF FindingsStay
  <2> QED
    BY <2>1, Zenon DEF Conflicted
<1>2. Reported'
  <2>1. ASSUME removed' = {}, NEW a \in Findings, NEW r \in Reporting(a)'
        PROVE  \E t \in Tasks : rows'[t] # None /\ rows'[t].role = r /\ a \in rows'[t].found
    <3>1. r \in Reporting(a) /\ removed = {}
      BY <2>1 DEF Reporting, FindingsStay
    <3>2. PICK t \in Tasks : rows[t] # None /\ rows[t].role = r /\ a \in rows[t].found
      BY <3>1, Zenon DEF EvidenceInv, Reported
    <3>3. rows[t].status = "completed"
      BY <3>2 DEF EvidenceInv, Ended, Settled
    <3> QED
      BY <3>2, <3>3 DEF ResultsStay
  <2> QED
    BY <2>1, Zenon DEF Reported
<1> QED
  BY <1>1, <1>2

LEMMA ExportStays ==
  ASSUME EvidenceInv, AuditsStay, UNCHANGED <<export, bundle>>
  PROVE  Exporting'
<1>1. export' = export /\ bundle' = bundle
  OBVIOUS
<1>2. Exporting
  BY DEF EvidenceInv
<1>3. PublishedIsWhole'
  BY <1>1, <1>2, Zenon DEF Exporting, PublishedIsWhole, AuditsStay, Verifies, BoundResults,
     _validate_task_parent_graph, Attributed
<1>4. \/ export' = Idle
      \/ /\ export' = [pc |-> "evidence", read |-> export'.read]
         /\ \A t \in Tasks : (/\ export'.read.tasks[t] # None
                              /\ export'.read.tasks[t].status = "completed"
                              /\ export'.read.tasks[t].result = "bound") => HasAudit(t)'
  BY <1>1, <1>2, Zenon DEF Exporting, AuditsStay
<1> QED
  BY <1>3, <1>4 DEF Exporting

LEMMA AuditedStays ==
  ASSUME EvidenceInv, AuditsStay,
         \A t \in Tasks : rows'[t] # None /\ rows'[t].status # "pending" /\ rows'[t].role # "executor" =>
           \/ HasAudit(t)'
           \/ rows[t] # None /\ rows[t].status # "pending" /\ rows[t].role # "executor"
  PROVE  Audited'
  BY Zenon DEF EvidenceInv, Audited, AuditsStay

LEMMA OwnStays ==
  ASSUME EvidenceInv, RowsStay, removed \subseteq removed',
         \/ \E t \in Tasks : rows[t] # None /\ rows[t].role = "executor"
         \/ \A i \in DOMAIN observations' :
              \/ \E j \in DOMAIN observations : observations'[i] = observations[j]
              \/ /\ rows'[observations'[i].task] # None
                 /\ rows'[observations'[i].task].role = observations'[i].role
  PROVE  Own'
<1>1. ASSUME removed' = {}, \A t \in Tasks : rows'[t] # None => rows'[t].role # "executor",
             NEW i \in DOMAIN observations'
      PROVE  /\ rows'[observations'[i].task] # None
             /\ rows'[observations'[i].task].role = observations'[i].role
  <2>1. removed = {} /\ \A t \in Tasks : rows[t] # None => rows[t].role # "executor"
    BY <1>1 DEF RowsStay
  <2>2. ASSUME NEW j \in DOMAIN observations, observations'[i] = observations[j]
        PROVE  /\ rows'[observations'[i].task] # None
               /\ rows'[observations'[i].task].role = observations'[i].role
    <3>1. rows[observations[j].task] # None /\ rows[observations[j].task].role = observations[j].role
      BY <2>1, Zenon DEF EvidenceInv, Own
    <3>2. observations[j].task \in Tasks
      <4>1. observations[j] \in Observation
        BY DEF EvidenceInv, ObservationTypes
      <4> QED
        BY <4>1 DEF Observation
    <3> QED
      BY <2>2, <3>1, <3>2 DEF RowsStay
  <2> QED
    BY <2>1, <2>2
<1> QED
  BY <1>1, Zenon DEF Own

\* The ledger and what was recorded of a step are left alone.
LEMMA LedgerStays ==
  ASSUME EvidenceInv, UNCHANGED <<ledgerVars, unsure>>
  PROVE  LedgerTypes' /\ Counted' /\ FindingsStay
<1>1. ledger' = ledger /\ provenance' = provenance /\ conflicts' = conflicts /\ unsure' = unsure
  BY DEF ledgerVars
<1>2. LedgerTypes' /\ Counted'
  BY <1>1, Zenon DEF EvidenceInv, LedgerTypes, Counted, Reporting, Known
<1> QED
  BY <1>1, <1>2 DEF FindingsStay

LEMMA ObservationsStay ==
  ASSUME EvidenceInv, UNCHANGED observations, removed' \subseteq Tasks, unaudited' \subseteq Tasks,
         unaudited \subseteq unaudited'
  PROVE  ObservationTypes' /\ AuditsStay
<1>1. ObservationTypes'
  BY Zenon DEF EvidenceInv, ObservationTypes
<1>2. AuditsStay
  BY Zenon DEF AuditsStay, HasAudit
<1> QED
  BY <1>1, <1>2

\* A worker's observation is no finding; the pruned ones leave their tasks unaudited.
LEMMA ObservationRecorded ==
  ASSUME EvidenceInv, NEW atom \in {Audit, Receipt, Outcome}, NEW t \in Tasks, NEW role \in Reporters,
         rows[t] \in Row, record_observation(atom, t, role), UNCHANGED <<unsure, removed>>
  PROVE  /\ LedgerTypes' /\ Counted' /\ FindingsStay
         /\ ObservationTypes' /\ AuditsStay /\ HasAudit(t)'
         /\ \A i \in DOMAIN observations' :
              \/ \E j \in DOMAIN observations : observations'[i] = observations[j]
              \/ observations'[i] = Observed(atom, t, role)
<1> DEFINE old == \E i \in DOMAIN observations : observations[i].atom = atom /\ observations[i].task = t
           new == Observed(atom, t, role)
           all == IF old THEN observations ELSE Append(observations, new)
           view == [a \in {atom} |-> Seen(a, role)]
<1>1. /\ record(t, role, {atom}, view)
      /\ observations' = Latest(all)
      /\ unaudited' = IF Len(all) > MaxObservations THEN unaudited \cup {all[1].task} ELSE unaudited
      /\ conflicts' = conflicts /\ unsure' = unsure /\ removed' = removed
  BY Zenon DEF record_observation
<1>2. LedgerTypes' /\ Counted' /\ FindingsStay
  <2>1. atom \in Atoms /\ atom \notin Findings /\ Findings \subseteq Atoms
    BY EvidenceAssumption
  <2>2. Current(role, {atom}, view)
    BY DEF Current, Seen
  <2>3. LedgerTypes /\ Counted /\ t \in Nat
    BY DEF EvidenceInv, Tasks
  <2>4. conflicts' \subseteq Opposite /\ unsure' \subseteq Atoms /\ unsure \subseteq unsure'
    BY <1>1 DEF EvidenceInv, LedgerTypes
  <2> HIDE DEF view
  <2>5. /\ LedgerTypes' /\ Counted'
        /\ \A a \in Atoms \ {atom} : ledger'[a] = ledger[a] /\ provenance'[a] = provenance[a]
    <3>1. {atom} \in SUBSET Atoms /\ record(t, role, {atom}, view)
      BY <1>1, <2>1
    <3> QED
      BY <2>2, <2>3, <2>4, <3>1, RecordCounts
  <2> QED
    BY <1>1, <2>1, <2>5 DEF FindingsStay
<1>3. /\ observations \in Seq(Observation) /\ Len(observations) <= MaxObservations
      /\ \A i, j \in DOMAIN observations :
           i # j => <<observations[i].atom, observations[i].task>> # <<observations[j].atom, observations[j].task>>
      /\ removed \cup unaudited \subseteq Tasks /\ MaxObservations \in Nat
  BY EvidenceAssumption DEF EvidenceInv, ObservationTypes
<1>4. new \in Observation /\ new.atom = atom /\ new.task = t
  BY DEF Observed, Observation, Row
<1> HIDE DEF new
<1>5. /\ all \in Seq(Observation) /\ Len(all) <= MaxObservations + 1
      /\ \A i \in 1..Len(all) : all[i] = new \/ \E j \in 1..Len(observations) : all[i] = observations[j]
      /\ \A i \in 1..Len(observations) : i \in 1..Len(all) /\ all[i] = observations[i]
      /\ \E i \in 1..Len(all) : all[i].task = t
      /\ \A i, j \in 1..Len(all) :
           i # j => all[i].atom # all[j].atom \/ all[i].task # all[j].task
  <2>1. CASE old
    BY <1>3, <2>1
  <2>2. CASE ~old
    <3>1. all = Append(observations, new)
      BY <2>2
    <3>2. /\ all \in Seq(Observation) /\ Len(all) = Len(observations) + 1 /\ Len(observations) \in Nat
          /\ \A i \in 1..Len(observations) : all[i] = observations[i]
          /\ all[Len(observations) + 1] = new
      BY <1>3, <1>4, <3>1
    <3>3. \A i \in 1..Len(observations) : observations[i].atom # new.atom \/ observations[i].task # new.task
      BY <1>3, <1>4, <2>2
    <3> HIDE DEF all, old
    <3>4. \A i, j \in 1..Len(observations) :
            i # j => observations[i].atom # observations[j].atom \/ observations[i].task # observations[j].task
      BY <1>3
    <3> QED
      BY <1>3, <1>4, <3>2, <3>3, <3>4
  <2> QED
    BY <2>1, <2>2
<1> HIDE DEF all, old, view
<1>8. all \in Seq(Observation) /\ Len(all) \in Nat /\ DOMAIN all = 1..Len(all)
  BY <1>5
<1>9. \A i, j \in 1..Len(all) : i # j => <<all[i].atom, all[i].task>> # <<all[j].atom, all[j].task>>
  BY <1>5
<1>10. /\ \A i \in 1..Len(all) : all[i] = new \/ \E j \in DOMAIN observations : all[i] = observations[j]
       /\ DOMAIN observations = 1..Len(observations)
  BY <1>3, <1>5
<1>6. CASE Len(all) <= MaxObservations
  <2>1. observations' = all /\ unaudited' = unaudited
    BY <1>1, <1>3, <1>5, <1>6 DEF Latest
  <2>2. ObservationTypes'
    <3>1. removed' \cup unaudited' \subseteq Tasks
      BY <1>1, <1>3, <2>1
    <3> QED
      BY <1>6, <1>8, <1>9, <2>1, <3>1 DEF ObservationTypes
  <2>3. AuditsStay /\ HasAudit(t)'
    <3>1. HasAudit(t)'
      BY <1>5, <1>8, <2>1 DEF HasAudit
    <3>2. ASSUME NEW x \in Tasks, HasAudit(x) PROVE HasAudit(x)'
      <4>1. CASE x \in unaudited
        BY <2>1, <4>1 DEF HasAudit
      <4>2. CASE x \notin unaudited
        <5>1. PICK i \in DOMAIN observations : observations[i].task = x
          BY <3>2, <4>2 DEF HasAudit
        <5>2. i \in DOMAIN all /\ all[i].task = x
          BY <1>5, <1>8, <1>10, <5>1
        <5> QED
          BY <2>1, <5>2 DEF HasAudit
      <4> QED
        BY <4>1, <4>2
    <3> QED
      BY <2>1, <3>1, <3>2 DEF AuditsStay
  <2>4. \A i \in DOMAIN observations' :
          observations'[i] = new \/ \E j \in DOMAIN observations : observations'[i] = observations[j]
    BY <1>3, <1>5, <2>1
  <2> QED
    BY <1>2, <2>2, <2>3, <2>4 DEF new
<1>7. CASE ~(Len(all) <= MaxObservations)
  <2>1. /\ Len(all) \in Nat /\ Len(all) > MaxObservations /\ Len(all) = MaxObservations + 1
        /\ observations' = Tail(all) /\ unaudited' = unaudited \cup {all[1].task}
    BY <1>1, <1>3, <1>5, <1>7 DEF Latest
  <2>2. /\ observations' \in Seq(Observation) /\ Len(observations') = MaxObservations
        /\ \A i \in 1..Len(observations') : i + 1 \in 1..Len(all) /\ observations'[i] = all[i + 1]
    BY <1>3, <1>5, <2>1
  <2>3. \A i \in 1..Len(all) : i = 1 \/ (i - 1 \in 1..Len(observations') /\ observations'[i - 1] = all[i])
    <3> TAKE i \in 1..Len(all)
    <3>1. i = 1 \/ i - 1 \in 1..Len(observations')
      BY <1>3, <2>1, <2>2
    <3>2. i - 1 \in 1..Len(observations') => observations'[i - 1] = all[(i - 1) + 1]
      BY <2>2
    <3>3. (i - 1) + 1 = i
      OBVIOUS
    <3> QED
      BY <3>1, <3>2, <3>3
  <2>4. all[1] \in Observation /\ all[1].task \in Tasks
    <3>1. 1 \in 1..Len(all)
      BY <1>3, <2>1
    <3>2. all[1] \in Observation
      BY <1>8, <3>1
    <3> QED
      BY <3>2 DEF Observation
  <2>5. ObservationTypes'
    <3>1. \A i, j \in DOMAIN observations' : i # j =>
            <<observations'[i].atom, observations'[i].task>> # <<observations'[j].atom, observations'[j].task>>
      <4> TAKE i, j \in DOMAIN observations'
      <4>1. i + 1 \in 1..Len(all) /\ observations'[i] = all[i + 1]
            /\ j + 1 \in 1..Len(all) /\ observations'[j] = all[j + 1]
        BY <2>2
      <4>2. i # j => i + 1 # j + 1
        BY <2>2
      <4> QED
        BY <1>9, <4>1, <4>2
    <3> QED
      BY <1>1, <1>3, <2>1, <2>2, <2>4, <3>1 DEF ObservationTypes
  <2>6. \A u \in Tasks : (\E i \in 1..Len(all) : all[i].task = u) => HasAudit(u)'
    <3> SUFFICES ASSUME NEW u \in Tasks, NEW i \in 1..Len(all), all[i].task = u  PROVE HasAudit(u)'
      OBVIOUS
    <3>1. CASE i = 1
      BY <2>1, <3>1 DEF HasAudit
    <3>2. CASE i # 1
      BY <2>2, <2>3, <3>2 DEF HasAudit
    <3> QED
      BY <3>1, <3>2
  <2>7. AuditsStay /\ HasAudit(t)'
    <3>1. \A u \in Tasks : HasAudit(u) => u \in unaudited \/ \E i \in 1..Len(all) : all[i].task = u
      BY <1>3, <1>5 DEF HasAudit
    <3>2. \A u \in Tasks : HasAudit(u) => HasAudit(u)'
      BY <2>1, <2>6, <3>1 DEF HasAudit
    <3> QED
      BY <1>5, <2>1, <2>6, <3>2 DEF AuditsStay
  <2>8. \A i \in DOMAIN observations' :
          observations'[i] = new \/ \E j \in DOMAIN observations : observations'[i] = observations[j]
    <3> TAKE i \in DOMAIN observations'
    <3>1. i + 1 \in 1..Len(all) /\ observations'[i] = all[i + 1]
      BY <2>2
    <3> QED
      BY <1>10, <3>1
  <2> QED
    BY <1>2, <2>5, <2>7, <2>8 DEF new
<1> QED
  BY <1>6, <1>7

-----------------------------------------------------------------------------
(* The rows *)

\* One row, or none, changes what is in it, not whose child it is.
LEMMA RowsChange ==
  ASSUME RowTypes, Lineage, rows' \in [Tasks -> Row \cup {None}], created' = created,
         \A t \in Tasks : /\ rows'[t] = None <=> rows[t] = None
                          /\ rows[t] # None => rows'[t].parent = rows[t].parent /\ rows'[t].role = rows[t].role
  PROVE  RowTypes' /\ Lineage' /\ RowsStay
<1>1. RowTypes'
  BY DEF RowTypes
<1>2. RowsStay
  BY DEF RowsStay
<1>3. Lineage'
  <2>1. ASSUME NEW t \in Tasks, rows'[t] # None
        PROVE  /\ rows'[t].parent # 0 => rows'[rows'[t].parent] # None
               /\ rows'[t].role = "executor" =>
                    rows'[t].parent # 0 /\ rows'[rows'[t].parent].role = "validator"
               /\ rows'[t].role = "validator" => rows'[t].parent # 0
    <3>1. rows[t] # None /\ rows'[t].parent = rows[t].parent /\ rows'[t].role = rows[t].role
      BY <2>1
    <3>2. rows[t].parent # 0 => rows[t].parent \in Tasks
      BY <3>1, EvidenceAssumption DEF RowTypes, Row, Tasks
    <3>3. /\ rows[t].parent # 0 => rows[rows[t].parent] # None
          /\ rows[t].role = "executor" => rows[t].parent # 0 /\ rows[rows[t].parent].role = "validator"
          /\ rows[t].role = "validator" => rows[t].parent # 0
      BY <3>1 DEF Lineage
    <3> QED
      BY <3>1, <3>2, <3>3 DEF RowsStay
  <2> QED
    BY <2>1 DEF Lineage
<1> QED
  BY <1>1, <1>2, <1>3

\* A row is added, behind those there are.
LEMMA RowAdded ==
  ASSUME RowTypes, Lineage, NEW base \in [Tasks -> Row \cup {None}], NEW row \in Row, Insert(base, row),
         \A t \in Tasks : /\ base[t] = None <=> rows[t] = None
                          /\ rows[t] # None => base[t].parent = rows[t].parent /\ base[t].role = rows[t].role,
         row.parent # 0 => row.parent \in Tasks /\ rows[row.parent] # None,
         row.role = "executor" => row.parent # 0 /\ rows[row.parent].role = "validator",
         row.role = "validator" => row.parent # 0
  PROVE  /\ RowTypes' /\ Lineage' /\ RowsStay
         /\ created' \in Nat /\ created <= created'
         /\ created + 1 \in Tasks /\ rows[created + 1] = None /\ rows'[created + 1] = row
         /\ \A t \in Tasks : t # created + 1 => rows'[t] = base[t]
<1>1. /\ created \in Nat /\ created < MaxTasks /\ created' = created + 1 /\ MaxTasks \in Nat
      /\ rows' = [base EXCEPT ![created + 1] = row]
  BY EvidenceAssumption DEF Insert, RowTypes
<1>2. created + 1 \in Tasks /\ rows[created + 1] = None
  BY <1>1 DEF RowTypes, Tasks
<1>3. /\ rows'[created + 1] = row
      /\ \A t \in Tasks : t # created + 1 => rows'[t] = base[t]
      /\ rows' \in [Tasks -> Row \cup {None}]
  BY <1>1, <1>2
<1>4. row # None /\ None \notin Row
  BY NoRowAssumption
<1>5. RowTypes'
  <2>1. created' \in 0..MaxTasks
    BY <1>1
  <2>2. \A t \in Tasks : rows'[t] # None => t <= created'
    BY <1>1, <1>3 DEF RowTypes, Tasks
  <2> QED
    BY <1>3, <2>1, <2>2 DEF RowTypes
<1>6. RowsStay
  BY <1>2, <1>3 DEF RowsStay
<1>7. Lineage'
  <2>1. ASSUME NEW t \in Tasks, rows'[t] # None
        PROVE  /\ rows'[t].parent # 0 => rows'[rows'[t].parent] # None
               /\ rows'[t].role = "executor" =>
                    rows'[t].parent # 0 /\ rows'[rows'[t].parent].role = "validator"
               /\ rows'[t].role = "validator" => rows'[t].parent # 0
    <3>1. CASE t = created + 1
      BY <1>3, <1>6, <3>1 DEF RowsStay
    <3>2. CASE t # created + 1
      <4>1. rows[t] # None /\ rows'[t].parent = rows[t].parent /\ rows'[t].role = rows[t].role
        BY <1>3, <2>1, <3>2
      <4>2. rows[t].parent # 0 => rows[t].parent \in Tasks
        BY <4>1, <1>1 DEF RowTypes, Row, Tasks
      <4>3. /\ rows[t].parent # 0 => rows[rows[t].parent] # None
            /\ rows[t].role = "executor" => rows[t].parent # 0 /\ rows[rows[t].parent].role = "validator"
            /\ rows[t].role = "validator" => rows[t].parent # 0
        BY <4>1 DEF Lineage
      <4> QED
        BY <1>6, <4>1, <4>2, <4>3 DEF RowsStay
    <3> QED
      BY <3>1, <3>2
  <2> QED
    BY <2>1 DEF Lineage
<1> QED
  BY <1>1, <1>2, <1>3, <1>5, <1>6, <1>7

-----------------------------------------------------------------------------
(* The workers' steps, and any other that finishes at most a row still open *)

\* A row still to be planned, or no result yet.
Fresh(line) ==
  /\ line.decision = "none" /\ line.result # "dropped"
  /\ line.status # "completed" => line.found = {} /\ line.result = "none"
  /\ line.status = "completed" => line.result = "bound" \/ line.role = "executor"
  /\ line.role = "executor" => line.result # "bound"

Worked(base) ==
  /\ base \in [Tasks -> Row \cup {None}]
  /\ \A t \in Tasks :
       \/ base[t] = rows[t]
       \/ /\ rows[t] # None /\ rows[t].status # "completed" /\ base[t] # None
          /\ base[t].parent = rows[t].parent /\ base[t].role = rows[t].role
          /\ Fresh(base[t])

Added(base) == \E row \in Row :
  /\ Insert(base, row) /\ row.status = "pending" /\ Fresh(row)
  /\ row.parent # 0 => row.parent \in Tasks /\ rows[row.parent] # None
  /\ row.role = "executor" => row.parent # 0 /\ rows[row.parent].role = "validator"
  /\ row.role = "validator" => row.parent # 0

LEMMA WorkedRows ==
  ASSUME EvidenceInv, NEW base, Worked(base), FindingsStay, removed' = removed,
         (rows' = base /\ created' = created) \/ Added(base)
  PROVE  /\ RowTypes' /\ Lineage' /\ RowsStay /\ ResultsStay /\ Ended'
         /\ created' \in Nat /\ created <= created'
         /\ \A t \in Tasks : rows'[t] # None => rows'[t] = base[t] \/ rows'[t].status = "pending"
<1>1. RowTypes /\ Lineage /\ created \in Nat
  BY DEF EvidenceInv, RowTypes
<1>2. base \in [Tasks -> Row \cup {None}]
      /\ \A t \in Tasks :
           /\ base[t] = None <=> rows[t] = None
           /\ rows[t] # None => base[t].parent = rows[t].parent /\ base[t].role = rows[t].role
           /\ rows[t] # None /\ rows[t].status = "completed" => base[t] = rows[t]
           /\ base[t] = rows[t] \/ Fresh(base[t])
  BY Zenon DEF Worked
<1>3. /\ RowTypes' /\ Lineage' /\ RowsStay
      /\ created' \in Nat /\ created <= created'
      /\ \A t \in Tasks : \/ rows'[t] = base[t]
                          \/ /\ rows[t] = None /\ ~(t <= created)
                             /\ rows'[t].status = "pending" /\ Fresh(rows'[t])
  <2>1. CASE rows' = base /\ created' = created
    <3>1. RowTypes' /\ Lineage' /\ RowsStay
      BY <1>1, <1>2, <2>1, RowsChange
    <3> QED
      BY <1>1, <2>1, <3>1
  <2>2. CASE Added(base)
    <3>1. PICK row \in Row :
            /\ Insert(base, row) /\ row.status = "pending" /\ Fresh(row)
            /\ row.parent # 0 => row.parent \in Tasks /\ rows[row.parent] # None
            /\ row.role = "executor" => row.parent # 0 /\ rows[row.parent].role = "validator"
            /\ row.role = "validator" => row.parent # 0
      BY <2>2 DEF Added
    <3>2. /\ RowTypes' /\ Lineage' /\ RowsStay
          /\ created' \in Nat /\ created <= created'
          /\ created + 1 \in Tasks /\ rows[created + 1] = None /\ rows'[created + 1] = row
          /\ \A t \in Tasks : t # created + 1 => rows'[t] = base[t]
      BY <1>1, <1>2, <3>1, RowAdded
    <3>3. ~(created + 1 <= created)
      BY <1>1
    <3> QED
      BY <3>1, <3>2, <3>3
  <2> QED
    BY <2>1, <2>2
<1>4. ResultsStay
  <2>1. ASSUME NEW t \in Tasks, rows[t] # None /\ rows[t].status = "completed"
        PROVE  rows'[t] = rows[t]
    BY <1>2, <1>3, <2>1
  <2>2. ASSUME NEW t \in Tasks, t <= created /\ rows[t] = None  PROVE rows'[t] = None
    BY <1>2, <1>3, <2>2
  <2> QED
    BY <2>1, <2>2 DEF ResultsStay
<1>5. Ended'
  <2>1. ASSUME NEW t \in Tasks, rows'[t] # None  PROVE Settled(t)'
    <3>1. CASE rows'[t] = rows[t]
      <4>1. rows[t] # None /\ rows[t] \in Row
        BY <1>1, <2>1, <3>1 DEF RowTypes
      <4>2. Settled(t)
        BY <4>1 DEF EvidenceInv, Ended
      <4>3. \A a \in rows[t].found : Kept(a)' <=> Kept(a)
        BY <4>1 DEF Row, FindingsStay, Kept, Known
      <4> QED
        BY <3>1, <4>2, <4>3 DEF Settled
    <3>2. CASE Fresh(rows'[t])
      BY <3>2 DEF Fresh, Settled
    <3> QED
      BY <1>2, <1>3, <2>1, <3>1, <3>2
  <2> QED
    BY <2>1 DEF Ended
<1>6. \A t \in Tasks : rows'[t] # None => rows'[t] = base[t] \/ rows'[t].status = "pending"
  BY <1>3
<1> QED
  BY <1>3, <1>4, <1>5, <1>6

LEMMA WorkerStep ==
  ASSUME EvidenceInv, NEW base, Worked(base), (rows' = base /\ created' = created) \/ Added(base),
         LedgerTypes', Counted', FindingsStay, ObservationTypes', AuditsStay,
         planner' = planner \/ planner' = Idle,
         UNCHANGED <<cursor, export, bundle, removed>>, events' \in 0..MaxEvents,
         \A t \in Tasks : base[t] = rows[t] \/ base[t].role = "executor" \/ HasAudit(t)',
         \/ \E t \in Tasks : rows[t] # None /\ rows[t].role = "executor"
         \/ \A i \in DOMAIN observations' :
              \/ \E j \in DOMAIN observations : observations'[i] = observations[j]
              \/ /\ observations'[i].task \in Tasks /\ rows[observations'[i].task] # None
                 /\ rows[observations'[i].task].role = observations'[i].role
  PROVE  EvidenceInv'
<1>1. /\ RowTypes' /\ Lineage' /\ RowsStay /\ ResultsStay /\ Ended'
      /\ created' \in Nat /\ created <= created'
      /\ \A t \in Tasks : rows'[t] # None => rows'[t] = base[t] \/ rows'[t].status = "pending"
  BY WorkedRows
<1>2. removed \subseteq removed'
  OBVIOUS
<1>3. PlannerTypes' /\ Working'
  BY <1>1, <1>2, PlannerStays
<1>4. Conflicted' /\ Reported'
  BY <1>1, <1>2, ReportsStay
<1>5. Exporting'
  BY ExportStays
<1>6. Audited'
  <2>1. ASSUME NEW t \in Tasks, rows'[t] # None, rows'[t].status # "pending", rows'[t].role # "executor"
        PROVE  \/ HasAudit(t)'
               \/ rows[t] # None /\ rows[t].status # "pending" /\ rows[t].role # "executor"
    BY <1>1, <2>1
  <2> QED
    BY <2>1, AuditedStays
<1>7. Own'
  <2>1. \/ \E t \in Tasks : rows[t] # None /\ rows[t].role = "executor"
        \/ \A i \in DOMAIN observations' :
             \/ \E j \in DOMAIN observations : observations'[i] = observations[j]
             \/ /\ rows'[observations'[i].task] # None
                /\ rows'[observations'[i].task].role = observations'[i].role
    BY <1>1 DEF RowsStay
  <2> QED
    BY <1>1, <1>2, <2>1, OwnStays
<1>8. Bounds'
  BY DEF EvidenceInv, Bounds
<1> QED
  BY <1>1, <1>3, <1>4, <1>5, <1>6, <1>7, <1>8 DEF EvidenceInv

LEMMA OneRowWorked ==
  ASSUME EvidenceInv, NEW t \in Tasks, rows[t] # None, rows[t].status # "completed",
         NEW line \in Row, line.parent = rows[t].parent, line.role = rows[t].role, Fresh(line),
         NEW base, base = [rows EXCEPT ![t] = line]
  PROVE  Worked(base) /\ (\A u \in Tasks : u # t => base[u] = rows[u]) /\ base[t] = line
<1>1. rows \in [Tasks -> Row \cup {None}] /\ line # None
  BY NoRowAssumption DEF EvidenceInv, RowTypes
<1>2. base \in [Tasks -> Row \cup {None}] /\ (\A u \in Tasks : u # t => base[u] = rows[u]) /\ base[t] = line
  BY <1>1
<1> QED
  BY <1>1, <1>2 DEF Worked

\* What is known of a row that has not finished.
LEMMA OpenRow ==
  ASSUME EvidenceInv, NEW t \in Tasks, rows[t] # None, rows[t].status # "completed"
  PROVE  /\ rows[t] \in Row /\ rows \in [Tasks -> Row \cup {None}]
         /\ rows[t].found = {} /\ rows[t].decision = "none" /\ rows[t].result = "none"
         /\ rows[t].role \in Roles /\ rows[t].role \in Reporters
         /\ rows[t].status # "pending" /\ rows[t].role # "executor" => HasAudit(t)
<1>1. rows[t] \in Row /\ rows \in [Tasks -> Row \cup {None}]
  BY DEF EvidenceInv, RowTypes
<1>2. Settled(t) /\ (rows[t].status # "pending" /\ rows[t].role # "executor" => HasAudit(t))
  BY DEF EvidenceInv, Ended, Audited
<1>3. rows[t].role \in Roles /\ rows[t].role \in Reporters
  BY <1>1, EvidenceAssumption DEF Row
<1> QED
  BY <1>1, <1>2, <1>3 DEF Settled

\* A step of a worker that records nothing.
LEMMA QuietWork ==
  ASSUME EvidenceInv, NEW base, Worked(base), (rows' = base /\ created' = created) \/ Added(base),
         UNCHANGED <<ledgerVars, unsure, observations, unaudited, cursor, export, bundle, removed>>,
         planner' = planner \/ planner' = Idle, events' \in 0..MaxEvents,
         \A t \in Tasks : base[t] = rows[t] \/ base[t].role = "executor" \/ HasAudit(t)
  PROVE  EvidenceInv'
<1>1. LedgerTypes' /\ Counted' /\ FindingsStay
  BY LedgerStays
<1>2. ObservationTypes' /\ AuditsStay
  <2>1. removed' \subseteq Tasks /\ unaudited' \subseteq Tasks /\ unaudited \subseteq unaudited'
    BY DEF EvidenceInv, ObservationTypes
  <2> QED
    BY <2>1, ObservationsStay
<1>3. \A t \in Tasks : base[t] = rows[t] \/ base[t].role = "executor" \/ HasAudit(t)'
  BY <1>2 DEF AuditsStay
<1>4. \A i \in DOMAIN observations' : \E j \in DOMAIN observations : observations'[i] = observations[j]
  OBVIOUS
<1>5. UNCHANGED <<cursor, export, bundle, removed>>
  OBVIOUS
<1> QED
  BY <1>1, <1>2, <1>3, <1>4, <1>5, WorkerStep

LEMMA RowsAsTheyAre == EvidenceInv => Worked(rows)
  BY DEF EvidenceInv, RowTypes, Worked

LEMMA SubmitStep == EvidenceInv /\ Submit => EvidenceInv'
<1> SUFFICES ASSUME EvidenceInv, Submit PROVE EvidenceInv'
  OBVIOUS
<1> DEFINE row == NewRow(Round, 0, "developer")
<1>1. /\ Insert(rows, row)
      /\ UNCHANGED <<ledgerVars, newest, observations, planner, cursor, export, bundle,
                     unsure, removed, unaudited, events>>
  BY DEF Submit
<1>2. row \in Row /\ row.status = "pending" /\ row.parent = 0 /\ row.role = "developer" /\ Fresh(row)
  BY EvidenceAssumption DEF NewRow, Row, Roles, ResearchRoles, Fresh
<1> HIDE DEF row
<1>3. Added(rows)
  BY <1>1, <1>2 DEF Added
<1>4. events' \in 0..MaxEvents
  BY <1>1 DEF EvidenceInv, Bounds
<1> QED
  BY <1>1, <1>3, <1>4, RowsAsTheyAre, QuietWork

LEMMA FinishStep ==
  ASSUME EvidenceInv, NEW t \in Tasks, Finish(t)  PROVE EvidenceInv'
<1>1. PICK found \in Results : rows' = Completed(t, found, "bound")
  BY DEF Finish
<1>2. /\ rows[t] # None /\ rows[t].status = "running" /\ rows[t].role \in ResearchRoles
      /\ created' = created /\ Finished(t)
  BY DEF Finish, Is, Exists
<1>3. /\ rows[t] \in Row /\ rows \in [Tasks -> Row \cup {None}]
      /\ rows[t].decision = "none" /\ HasAudit(t)
  BY <1>2, OpenRow DEF ResearchRoles
<1> DEFINE line == [rows[t] EXCEPT !.status = "completed", !.found = found, !.result = "bound"]
<1> DEFINE base == [rows EXCEPT ![t] = line]
<1>4. rows' = base
  BY <1>1, <1>3 DEF Completed
<1>5. line \in Row /\ line.parent = rows[t].parent /\ line.role = rows[t].role /\ Fresh(line)
  <2>1. found \subseteq Findings
    BY EvidenceAssumption
  <2> QED
    BY <1>2, <1>3, <2>1 DEF Row, Fresh, ResearchRoles
<1> HIDE DEF line, base
<1>6. Worked(base) /\ \A u \in Tasks : u # t => base[u] = rows[u]
  <2>1. rows[t] # None /\ rows[t].status # "completed"
    BY <1>2
  <2> QED
    BY <1>5, <2>1, OneRowWorked DEF base
<1>7. events' \in 0..MaxEvents
  BY <1>2 DEF EvidenceInv, Bounds, Finished
<1>8. UNCHANGED <<ledgerVars, unsure, observations, unaudited, cursor, export, bundle, removed>> /\ planner' = planner
  BY <1>2 DEF Finished
<1> QED
  BY <1>2, <1>3, <1>4, <1>6, <1>7, <1>8, QuietWork

LEMMA FailStep ==
  ASSUME EvidenceInv, NEW t \in Tasks, Fail(t)  PROVE EvidenceInv'
<1>2. /\ rows[t] # None /\ rows[t].status = "running"
      /\ rows' = [rows EXCEPT ![t].status = "failed"]
      /\ created' = created /\ Finished(t)
  BY DEF Fail, Is, Exists
<1>3. /\ rows[t] \in Row /\ rows \in [Tasks -> Row \cup {None}]
      /\ rows[t].found = {} /\ rows[t].decision = "none" /\ rows[t].result = "none"
      /\ rows[t].role # "executor" => HasAudit(t)
  BY <1>2, OpenRow
<1> DEFINE line == [rows[t] EXCEPT !.status = "failed"]
<1> DEFINE base == [rows EXCEPT ![t] = line]
<1>4. rows' = base
  BY <1>2, <1>3
<1>5. line \in Row /\ line.parent = rows[t].parent /\ line.role = rows[t].role /\ Fresh(line)
  BY <1>2, <1>3 DEF Row, Fresh
<1> HIDE DEF line, base
<1>6. Worked(base) /\ (\A u \in Tasks : u # t => base[u] = rows[u]) /\ base[t].role = rows[t].role
  <2>1. rows[t] # None /\ rows[t].status # "completed"
    BY <1>2
  <2> QED
    BY <1>5, <2>1, OneRowWorked DEF base
<1>7. events' \in 0..MaxEvents
  BY <1>2 DEF EvidenceInv, Bounds, Finished
<1>8. UNCHANGED <<ledgerVars, unsure, observations, unaudited, cursor, export, bundle, removed>> /\ planner' = planner
  BY <1>2 DEF Finished
<1>9. \A u \in Tasks : base[u] = rows[u] \/ base[u].role = "executor" \/ HasAudit(u)
  BY <1>3, <1>6
<1> QED
  BY <1>2, <1>4, <1>6, <1>7, <1>8, <1>9, QuietWork

LEMMA AskStep ==
  ASSUME EvidenceInv, NEW t \in Tasks, Ask(t)  PROVE EvidenceInv'
<1> DEFINE row == ChildRow(t, "validator")
           line == [rows[t] EXCEPT !.status = "failed"]
           base == [rows EXCEPT ![t] = line]
<1>2. /\ rows[t] # None /\ rows[t].status = "running" /\ rows[t].role \in ResearchRoles
      /\ Insert([rows EXCEPT ![t].status = "failed"], row) /\ Finished(t)
  BY DEF Ask, Is, Exists
<1>3. /\ rows[t] \in Row /\ rows \in [Tasks -> Row \cup {None}]
      /\ rows[t].found = {} /\ rows[t].decision = "none" /\ rows[t].result = "none" /\ HasAudit(t)
  BY <1>2, OpenRow DEF ResearchRoles
<1>4. [rows EXCEPT ![t].status = "failed"] = base
  BY <1>3
<1>5. line \in Row /\ line.parent = rows[t].parent /\ line.role = rows[t].role /\ Fresh(line)
  BY <1>2, <1>3 DEF Row, Fresh
<1>6. row \in Row /\ row.status = "pending" /\ row.parent = t /\ row.role = "validator" /\ Fresh(row) /\ t # 0
  BY <1>3, EvidenceAssumption DEF ChildRow, NewRow, Row, Roles, ResearchRoles, Fresh, Tasks
<1> HIDE DEF line, base, row
<1>7. Worked(base) /\ \A u \in Tasks : u # t => base[u] = rows[u]
  <2>1. rows[t] # None /\ rows[t].status # "completed"
    BY <1>2
  <2> QED
    BY <1>5, <2>1, OneRowWorked DEF base
<1>8. Added(base)
  <2>1. Insert(base, row)
    BY <1>2, <1>4
  <2>2. rows[t] # None
    BY <1>2
  <2> QED
    BY <1>6, <2>1, <2>2 DEF Added
<1>9. events' \in 0..MaxEvents
  BY <1>2 DEF EvidenceInv, Bounds, Finished
<1>10. UNCHANGED <<ledgerVars, unsure, observations, unaudited, cursor, export, bundle, removed>> /\ planner' = planner
  BY <1>2 DEF Finished
<1> QED
  BY <1>3, <1>7, <1>8, <1>9, <1>10, QuietWork

LEMMA HandoffStep ==
  ASSUME EvidenceInv, NEW t \in Tasks, Handoff(t)  PROVE EvidenceInv'
<1> DEFINE row == ChildRow(t, "executor")
           line == [rows[t] EXCEPT !.status = "completed", !.found = {}, !.result = "bound"]
           base == [rows EXCEPT ![t] = line]
<1>2. /\ rows[t] # None /\ rows[t].status = "running" /\ rows[t].role = "validator"
      /\ Insert(Completed(t, {}, "bound"), row) /\ Finished(t)
  BY DEF Handoff, Is, Exists
<1>3. /\ rows[t] \in Row /\ rows \in [Tasks -> Row \cup {None}]
      /\ rows[t].decision = "none" /\ HasAudit(t)
  BY <1>2, OpenRow
<1>4. Completed(t, {}, "bound") = base
  BY <1>3 DEF Completed
<1>5. line \in Row /\ line.parent = rows[t].parent /\ line.role = rows[t].role /\ Fresh(line)
  BY <1>2, <1>3 DEF Row, Fresh
<1>6. row \in Row /\ row.status = "pending" /\ row.parent = t /\ row.role = "executor" /\ Fresh(row) /\ t # 0
  BY <1>3, EvidenceAssumption DEF ChildRow, NewRow, Row, Roles, ResearchRoles, Fresh, Tasks
<1> HIDE DEF line, base, row
<1>7. Worked(base) /\ \A u \in Tasks : u # t => base[u] = rows[u]
  <2>1. rows[t] # None /\ rows[t].status # "completed"
    BY <1>2
  <2> QED
    BY <1>5, <2>1, OneRowWorked DEF base
<1>8. Added(base)
  <2>1. Insert(base, row)
    BY <1>2, <1>4
  <2>2. rows[t] # None /\ rows[t].role = "validator"
    BY <1>2
  <2> QED
    BY <1>6, <2>1, <2>2 DEF Added
<1>9. events' \in 0..MaxEvents
  BY <1>2 DEF EvidenceInv, Bounds, Finished
<1>10. UNCHANGED <<ledgerVars, unsure, observations, unaudited, cursor, export, bundle, removed>> /\ planner' = planner
  BY <1>2 DEF Finished
<1> QED
  BY <1>3, <1>7, <1>8, <1>9, <1>10, QuietWork

LEMMA PlanCreateStep == EvidenceInv /\ PlanCreate => EvidenceInv'
<1> SUFFICES ASSUME EvidenceInv, PlanCreate PROVE EvidenceInv'
  OBVIOUS
<1> DEFINE t == planner.task
           row == ChildRow(t, NextRole)
<1>1. /\ planner' = Idle
      /\ IF Exists(t) THEN Insert(rows, row) ELSE UNCHANGED <<rows, created>>
      /\ UNCHANGED <<ledgerVars, newest, observations, cursor, export, bundle, unsure,
                     removed, unaudited, events>>
  BY DEF PlanCreate
<1>2. events' \in 0..MaxEvents
  BY <1>1 DEF EvidenceInv, Bounds
<1>3. (rows' = rows /\ created' = created) \/ Added(rows)
  <2>1. CASE Exists(t)
    <3>1. t \in Tasks /\ t # 0 /\ rows[t] # None /\ rows[t] \in Row
      BY <2>1 DEF Exists, Tasks, EvidenceInv, RowTypes
    <3> HIDE DEF t
    <3>2. row \in Row /\ row.status = "pending" /\ row.parent = t /\ row.role = "security_checker" /\ Fresh(row)
      BY <3>1, EvidenceAssumption DEF ChildRow, NewRow, NextRole, Row, Roles, ResearchRoles, Fresh, Tasks
    <3>3. Insert(rows, row)
      BY <1>1, <2>1
    <3> HIDE DEF row
    <3> QED
      BY <3>1, <3>2, <3>3 DEF Added
  <2>2. CASE ~Exists(t)
    BY <1>1, <2>2
  <2> QED
    BY <2>1, <2>2
<1> QED
  BY <1>1, <1>2, <1>3, RowsAsTheyAre, QuietWork

LEMMA PlannerKilledStep == EvidenceInv /\ PlannerKilled => EvidenceInv'
<1> SUFFICES ASSUME EvidenceInv, PlannerKilled PROVE EvidenceInv'
  OBVIOUS
<1>1. /\ planner' = Idle /\ events' = events + 1 /\ events < MaxEvents
      /\ UNCHANGED <<ledgerVars, rows, unsure, created, newest, observations, cursor, export, bundle,
                     removed, unaudited>>
  BY DEF PlannerKilled, Event, Quiet
<1>2. events' \in 0..MaxEvents
  BY <1>1, EvidenceAssumption DEF EvidenceInv, Bounds
<1> QED
  BY <1>1, <1>2, RowsAsTheyAre, QuietWork

\* A worker takes a task: its capability decision is on record, or known to be lost.
LEMMA StartStep ==
  ASSUME EvidenceInv, NEW t \in Tasks, Start(t)  PROVE EvidenceInv'
<1> DEFINE line == [rows[t] EXCEPT !.status = "running"]
           base == [rows EXCEPT ![t] = line]
<1>1. /\ rows[t] # None /\ rows[t].status = "pending" /\ rows[t].role # "executor"
      /\ rows' = [rows EXCEPT ![t].status = "running"]
      /\ UNCHANGED <<created, newest, planner, cursor, export, bundle, unsure, removed>>
  BY DEF Start, Is, Exists
<1>2. \/ record_observation(Audit, t, rows[t].role) /\ events' = events
      \/ /\ events' = events + 1 /\ events < MaxEvents /\ unaudited' = unaudited \cup {t}
         /\ UNCHANGED <<ledgerVars, observations>>
  BY DEF Start, Event
<1>3. /\ rows[t] \in Row /\ rows \in [Tasks -> Row \cup {None}] /\ rows[t].role \in Reporters
      /\ rows[t].found = {} /\ rows[t].decision = "none" /\ rows[t].result = "none"
  BY <1>1, OpenRow
<1>4. rows' = base
  BY <1>1, <1>3
<1>5. line \in Row /\ line.parent = rows[t].parent /\ line.role = rows[t].role /\ Fresh(line)
  BY <1>1, <1>3 DEF Row, Fresh
<1> HIDE DEF line, base
<1>6. Worked(base) /\ \A u \in Tasks : u # t => base[u] = rows[u]
  <2>1. rows[t] # None /\ rows[t].status # "completed"
    BY <1>1
  <2> QED
    BY <1>5, <2>1, OneRowWorked DEF base
<1>7. /\ LedgerTypes' /\ Counted' /\ FindingsStay /\ ObservationTypes' /\ AuditsStay /\ HasAudit(t)'
      /\ \A i \in DOMAIN observations' :
           \/ \E j \in DOMAIN observations : observations'[i] = observations[j]
           \/ observations'[i] = Observed(Audit, t, rows[t].role)
      /\ events' \in 0..MaxEvents
  <2>1. CASE record_observation(Audit, t, rows[t].role) /\ events' = events
    <3>1. events' \in 0..MaxEvents
      BY <2>1 DEF EvidenceInv, Bounds
    <3>2. UNCHANGED <<unsure, removed>>
      BY <1>1
    <3> QED
      BY <1>3, <2>1, <3>1, <3>2, ObservationRecorded
  <2>2. CASE /\ events' = events + 1 /\ events < MaxEvents /\ unaudited' = unaudited \cup {t}
             /\ UNCHANGED <<ledgerVars, observations>>
    <3>1. events' \in 0..MaxEvents
      BY <2>2, EvidenceAssumption DEF EvidenceInv, Bounds
    <3>2. LedgerTypes' /\ Counted' /\ FindingsStay
      BY <1>1, <2>2, LedgerStays
    <3>3. ObservationTypes' /\ AuditsStay
      <4>1. removed' \subseteq Tasks /\ unaudited' \subseteq Tasks /\ unaudited \subseteq unaudited'
        BY <1>1, <2>2 DEF EvidenceInv, ObservationTypes
      <4> QED
        BY <2>2, <4>1, ObservationsStay
    <3>4. HasAudit(t)'
      BY <2>2 DEF HasAudit
    <3>5. \A i \in DOMAIN observations' : \E j \in DOMAIN observations : observations'[i] = observations[j]
      BY <2>2
    <3> QED
      BY <3>1, <3>2, <3>3, <3>4, <3>5
  <2> QED
    BY <1>2, <2>1, <2>2
<1>8. Observed(Audit, t, rows[t].role).task = t /\ Observed(Audit, t, rows[t].role).role = rows[t].role
  BY DEF Observed
<1>9. \A i \in DOMAIN observations' :
        \/ \E j \in DOMAIN observations : observations'[i] = observations[j]
        \/ /\ observations'[i].task \in Tasks /\ rows[observations'[i].task] # None
           /\ rows[observations'[i].task].role = observations'[i].role
  BY <1>1, <1>7, <1>8
<1>10. UNCHANGED <<cursor, export, bundle, removed>> /\ planner' = planner /\ created' = created
  BY <1>1
<1>11. \A u \in Tasks : base[u] = rows[u] \/ base[u].role = "executor" \/ HasAudit(u)'
  BY <1>6, <1>7
<1> QED
  BY <1>4, <1>6, <1>7, <1>9, <1>10, <1>11, WorkerStep

\* The grandparent of an executor's row is the task its grant was issued for.
LEMMA OriginalExists ==
  ASSUME EvidenceInv, NEW t \in Tasks, rows[t] # None, rows[t].role = "executor"
  PROVE  Original(t) \in Tasks /\ rows[Original(t)] # None /\ rows[Original(t)] \in Row
<1>1. rows \in [Tasks -> Row \cup {None}] /\ Lineage /\ MaxTasks \in Nat
  BY EvidenceAssumption DEF EvidenceInv, RowTypes
<1>2. rows[t].parent \in Tasks /\ rows[rows[t].parent] # None /\ rows[rows[t].parent].role = "validator"
  BY <1>1 DEF Lineage, Row, Tasks
<1>3. rows[rows[t].parent].parent \in Tasks /\ rows[rows[rows[t].parent].parent] # None
  <2>1. PICK u \in Tasks : u = rows[t].parent
    BY <1>2
  <2>2. rows[u] # None /\ rows[u].role = "validator"
    BY <1>2, <2>1
  <2>3. rows[u].parent \in Tasks /\ rows[rows[u].parent] # None
    BY <1>1, <2>2 DEF Lineage, Row, Tasks
  <2> QED
    BY <2>1, <2>3
<1> QED
  BY <1>1, <1>3 DEF Original

LEMMA ExecutorStep ==
  ASSUME EvidenceInv, NEW t \in Tasks, Execute(t) \/ VerifyOutcome(t)  PROVE EvidenceInv'
<1>1. /\ rows[t] # None /\ rows[t].status \in {"pending", "running"} /\ rows[t].role = "executor"
      /\ UNCHANGED <<created, planner, cursor, export, bundle, unsure, removed, events>>
  BY DEF Execute, VerifyOutcome, Is, Exists
<1>2. /\ rows[t] \in Row /\ rows \in [Tasks -> Row \cup {None}]
      /\ rows[t].found = {} /\ rows[t].decision = "none" /\ rows[t].result = "none"
  <2>1. rows[t] # None /\ rows[t].status # "completed"
    BY <1>1
  <2> QED
    BY <2>1, OpenRow
<1>3. PICK line \in Row : /\ rows' = [rows EXCEPT ![t] = line]
                          /\ line.parent = rows[t].parent /\ line.role = rows[t].role /\ Fresh(line)
  <2>1. CASE Execute(t)
    <3> DEFINE line == [rows[t] EXCEPT !.status = "running"]
    <3>1. rows' = [rows EXCEPT ![t].status = "running"]
      BY <2>1 DEF Execute
    <3>2. rows' = [rows EXCEPT ![t] = line]
      BY <1>2, <3>1
    <3>3. line \in Row /\ line.parent = rows[t].parent /\ line.role = rows[t].role /\ Fresh(line)
      BY <1>1, <1>2 DEF Row, Fresh
    <3> QED
      BY <3>2, <3>3
  <2>2. CASE VerifyOutcome(t)
    <3> DEFINE line == [rows[t] EXCEPT !.status = "completed", !.found = {}, !.result = "unbound"]
    <3>1. rows' = Completed(t, {}, "unbound")
      BY <2>2 DEF VerifyOutcome
    <3>2. rows' = [rows EXCEPT ![t] = line]
      BY <1>2, <3>1 DEF Completed
    <3>3. line \in Row /\ line.parent = rows[t].parent /\ line.role = rows[t].role /\ Fresh(line)
      BY <1>1, <1>2 DEF Row, Fresh
    <3> QED
      BY <3>2, <3>3
  <2> QED
    BY <2>1, <2>2
<1> DEFINE base == [rows EXCEPT ![t] = line]
<1>4. rows' = base
  BY <1>3
<1> HIDE DEF base
<1>5. Worked(base) /\ (\A u \in Tasks : u # t => base[u] = rows[u]) /\ base[t].role = "executor"
  <2>1. rows[t] # None /\ rows[t].status # "completed"
    BY <1>1
  <2>2. Worked(base) /\ (\A u \in Tasks : u # t => base[u] = rows[u]) /\ base[t] = line
    BY <1>3, <2>1, OneRowWorked DEF base
  <2> QED
    BY <1>1, <1>3, <2>2
<1>6. LedgerTypes' /\ Counted' /\ FindingsStay /\ ObservationTypes' /\ AuditsStay
  <2>1. PICK atom \in {Audit, Receipt, Outcome}, role \in Reporters : record_observation(atom, Original(t), role)
    <3>1. "executor" \in Reporters /\ "outcome_verifier" \in Reporters
      BY ReportersAreFinite
    <3> QED
      BY <3>1 DEF Execute, VerifyOutcome
  <2>2. Original(t) \in Tasks /\ rows[Original(t)] \in Row
    BY <1>1, OriginalExists
  <2>3. UNCHANGED <<unsure, removed>>
    BY <1>1
  <2> QED
    BY <2>1, <2>2, <2>3, ObservationRecorded
<1>7. events' \in 0..MaxEvents
  BY <1>1 DEF EvidenceInv, Bounds
<1>8. UNCHANGED <<cursor, export, bundle, removed>> /\ planner' = planner /\ created' = created
  BY <1>1
<1>9. \A u \in Tasks : base[u] = rows[u] \/ base[u].role = "executor" \/ HasAudit(u)'
  BY <1>5
<1>10. \E u \in Tasks : rows[u] # None /\ rows[u].role = "executor"
  BY <1>1
<1> QED
  BY <1>4, <1>5, <1>6, <1>7, <1>8, <1>9, <1>10, WorkerStep

-----------------------------------------------------------------------------
(* Compaction *)

\* Neither the audits nor what the exporter has is touched.
LEMMA AuditsAsTheyAre ==
  ASSUME EvidenceInv, UNCHANGED <<observations, unaudited, export, bundle>>, removed' \subseteq Tasks
  PROVE  ObservationTypes' /\ AuditsStay /\ Exporting'
<1>1. unaudited' \subseteq Tasks /\ unaudited \subseteq unaudited'
  BY DEF EvidenceInv, ObservationTypes
<1>2. ObservationTypes' /\ AuditsStay
  BY <1>1, ObservationsStay
<1>3. Exporting'
  BY <1>2, ExportStays
<1> QED
  BY <1>2, <1>3

LEMMA OwnAncestor == ASSUME NEW t \in Tasks PROVE t \in Ancestors(t)
<1> DEFINE path == [i \in 0..0 |-> t]
<1>1. 0 \in 0..KeepDepth /\ path \in [0..0 -> Tasks] /\ path[0] = t
  BY EvidenceAssumption
<1>2. \A i \in 1..0 : FALSE
  OBVIOUS
<1> HIDE DEF path
<1> QED
  BY <1>1, <1>2 DEF Ancestors

LEMMA DropResultStep ==
  ASSUME EvidenceInv, NEW t \in Tasks, DropResult(t)  PROVE EvidenceInv'
<1>1. /\ rows[t] # None /\ rows[t].status = "completed"
      /\ rows' = [rows EXCEPT ![t].result = "dropped"] /\ removed' = removed \cup {t}
      /\ events' = events + 1 /\ events < MaxEvents
      /\ UNCHANGED <<ledgerVars, created, newest, observations, planner, cursor, export, bundle,
                     unsure, unaudited>>
  BY DEF DropResult, Is, Exists, Event
<1>2. rows[t].decision # "none"
  <2>1. ~OpenBranch(t)
    BY <1>1, OwnAncestor DEF DropResult, Exists
  <2> QED
    BY <1>1, <2>1 DEF OpenBranch
<1>3. rows \in [Tasks -> Row \cup {None}] /\ rows[t] \in Row
  BY <1>1 DEF EvidenceInv, RowTypes
<1> DEFINE line == [rows[t] EXCEPT !.result = "dropped"]
<1>4. /\ line \in Row /\ line # None /\ line.parent = rows[t].parent /\ line.role = rows[t].role
      /\ line.status = rows[t].status /\ line.found = rows[t].found
      /\ line.decision = rows[t].decision /\ line.result = "dropped"
  <2>1. line \in Row
    BY <1>3 DEF Row
  <2> QED
    BY <1>3, <2>1, NoRowAssumption DEF Row
<1>5. rows' = [rows EXCEPT ![t] = line]
  BY <1>1, <1>3
<1> HIDE DEF line
<1>6. rows' \in [Tasks -> Row \cup {None}] /\ rows'[t] = line /\ \A u \in Tasks : u # t => rows'[u] = rows[u]
  BY <1>3, <1>4, <1>5
<1>7. RowTypes' /\ Lineage' /\ RowsStay
  <2>1. RowTypes /\ Lineage /\ created' = created
    BY <1>1 DEF EvidenceInv
  <2>2. \A u \in Tasks : /\ rows'[u] = None <=> rows[u] = None
                         /\ rows[u] # None => rows'[u].parent = rows[u].parent /\ rows'[u].role = rows[u].role
    BY <1>1, <1>4, <1>6
  <2> QED
    BY <1>6, <2>1, <2>2, RowsChange
<1>8. ResultsStay
  BY <1>1, <1>4, <1>6 DEF ResultsStay
<1>9. LedgerTypes' /\ Counted' /\ FindingsStay
  BY <1>1, LedgerStays
<1>10. removed \subseteq removed' /\ removed' \subseteq Tasks /\ t \in removed'
  BY <1>1 DEF EvidenceInv, ObservationTypes
<1>11. PlannerTypes' /\ Working' /\ Conflicted' /\ Reported'
  <2>1. created' \in Nat /\ created <= created' /\ planner' = planner
    BY <1>1, EvidenceAssumption DEF EvidenceInv, RowTypes
  <2> QED
    BY <1>8, <1>9, <1>10, <2>1, PlannerStays, ReportsStay
<1>12. Ended'
  <2>1. ASSUME NEW u \in Tasks, rows'[u] # None  PROVE Settled(u)'
    <3>0. rows[u] # None /\ rows[u] \in Row
      BY <1>1, <1>3, <1>6, <2>1
    <3>1. Settled(u)
      BY <3>0 DEF EvidenceInv, Ended
    <3>2. \A a \in rows[u].found : Kept(a)' <=> Kept(a)
      BY <1>1, <3>0 DEF Kept, Known, ledgerVars
    <3>3. CASE u = t
      BY <1>1, <1>2, <1>4, <1>6, <1>10, <3>1, <3>2, <3>3 DEF Settled
    <3>4. CASE u # t
      BY <1>6, <1>10, <3>1, <3>2, <3>4 DEF Settled
    <3> QED
      BY <3>3, <3>4
  <2> QED
    BY <2>1 DEF Ended
<1>13. ObservationTypes' /\ AuditsStay /\ Exporting'
  BY <1>1, <1>10, AuditsAsTheyAre
<1>14. Audited'
  <2>1. \A u \in Tasks : rows'[u] # None /\ rows'[u].status # "pending" /\ rows'[u].role # "executor" =>
          rows[u] # None /\ rows[u].status # "pending" /\ rows[u].role # "executor"
    BY <1>1, <1>4, <1>6
  <2> QED
    BY <1>13, <2>1, AuditedStays
<1>15. Own' /\ Bounds'
  <2>1. Own'
    BY <1>10 DEF Own
  <2>2. Bounds'
    BY <1>1, EvidenceAssumption DEF EvidenceInv, Bounds
  <2> QED
    BY <2>1, <2>2
<1> QED
  BY <1>7, <1>9, <1>11, <1>12, <1>13, <1>14, <1>15 DEF EvidenceInv

LEMMA CompactStep ==
  ASSUME EvidenceInv, NEW t \in Tasks, Compact(t)  PROVE EvidenceInv'
<1>1. /\ rows[t] # None /\ rows[t].status \in {"completed", "failed"} /\ Children(t) = {}
      /\ rows' = [rows EXCEPT ![t] = None] /\ removed' = removed \cup {t}
      /\ events' = events + 1 /\ events < MaxEvents
      /\ unsure' = IF rows[t].decision = "none" THEN unsure \cup rows[t].found ELSE unsure
      /\ UNCHANGED <<ledgerVars, created, newest, observations, planner, cursor, export, bundle, unaudited>>
  BY DEF Compact, Is, Exists, Event
<1>2. rows \in [Tasks -> Row \cup {None}] /\ rows[t] \in Row
  BY <1>1 DEF EvidenceInv, RowTypes
<1>3. rows' \in [Tasks -> Row \cup {None}] /\ rows'[t] = None /\ \A u \in Tasks : u # t => rows'[u] = rows[u]
  BY <1>1, <1>2
<1>4. removed \subseteq removed' /\ removed' \subseteq Tasks /\ t \in removed'
  BY <1>1 DEF EvidenceInv, ObservationTypes
<1>5. unsure \subseteq unsure' /\ unsure' \subseteq Atoms /\ (rows[t].decision = "none" => rows[t].found \subseteq unsure')
  BY <1>1, <1>2, EvidenceAssumption DEF EvidenceInv, LedgerTypes, Row
<1>6. ledger' = ledger /\ provenance' = provenance /\ conflicts' = conflicts
      /\ planner' = planner /\ created' = created
  BY <1>1 DEF ledgerVars
<1>7. LedgerTypes'
  BY <1>5, <1>6 DEF EvidenceInv, LedgerTypes
<1>8. Counted'
  <2>1. ASSUME NEW a \in Atoms
        PROVE  /\ ledger'[a].roles <= ledger'[a].confirmations
               /\ \A r \in Reporting(a)' : Known(a)'
               /\ a \notin unsure' =>
                    /\ ledger'[a].roles = Cardinality(Reporting(a)')
                    /\ ledger'[a].confirmations = SumFunction([r \in Reporters |-> provenance'[a][r].seen])
    <3>1. Reporting(a)' = Reporting(a) /\ (Known(a)' <=> Known(a))
      BY <1>6 DEF Reporting, Known
    <3>2. a \notin unsure' => a \notin unsure
      BY <1>5
    <3>3. /\ ledger[a].roles <= ledger[a].confirmations
          /\ \A r \in Reporting(a) : Known(a)
          /\ a \notin unsure =>
               /\ ledger[a].roles = Cardinality(Reporting(a))
               /\ ledger[a].confirmations = SumFunction([r \in Reporters |-> provenance[a][r].seen])
      BY DEF EvidenceInv, Counted
    <3> QED
      BY <1>6, <3>1, <3>2, <3>3, Zenon
  <2> QED
    BY <2>1 DEF Counted
<1>9. RowTypes'
  BY <1>1, <1>3 DEF EvidenceInv, RowTypes
<1>10. Lineage'
  <2>1. ASSUME NEW u \in Tasks, rows'[u] # None
        PROVE  /\ rows'[u].parent # 0 => rows'[rows'[u].parent] # None
               /\ rows'[u].role = "executor" =>
                    rows'[u].parent # 0 /\ rows'[rows'[u].parent].role = "validator"
               /\ rows'[u].role = "validator" => rows'[u].parent # 0
    <3>1. u # t /\ rows'[u] = rows[u] /\ rows[u] # None /\ rows[u].parent # t
      BY <1>1, <1>3, <2>1 DEF Children, Exists
    <3>2. rows[u].parent # 0 => rows[u].parent \in Tasks
      BY <1>2, <3>1, EvidenceAssumption DEF Row, Tasks
    <3>3. /\ rows[u].parent # 0 => rows[rows[u].parent] # None
          /\ rows[u].role = "executor" => rows[u].parent # 0 /\ rows[rows[u].parent].role = "validator"
          /\ rows[u].role = "validator" => rows[u].parent # 0
      BY <3>1 DEF EvidenceInv, Lineage
    <3> QED
      BY <1>3, <3>1, <3>2, <3>3
  <2> QED
    BY <2>1 DEF Lineage
<1>11. \A a : (Known(a)' <=> Known(a)) /\ (Kept(a) => Kept(a)')
  BY <1>5, <1>6 DEF Known, Kept
<1>12. Ended'
  <2>1. ASSUME NEW u \in Tasks, rows'[u] # None  PROVE Settled(u)'
    <3>1. rows'[u] = rows[u] /\ rows[u] # None
      BY <1>3, <2>1
    <3>2. Settled(u)
      BY <3>1 DEF EvidenceInv, Ended
    <3> QED
      BY <1>4, <1>11, <3>1, <3>2 DEF Settled
  <2> QED
    BY <2>1 DEF Ended
<1>13. PlannerTypes'
  BY <1>6, Zenon DEF EvidenceInv, PlannerTypes
<1>14. Working'
  <2> SUFFICES ASSUME planner.pc # "idle" PROVE Working'
    BY <1>6, Zenon DEF Working
  <2>0. /\ planner.pc \in {"store", "detect", "decide", "create"}
        /\ planner.task \in Tasks /\ planner.atoms \subseteq Findings
    BY DEF EvidenceInv, PlannerTypes, Idle
  <2>1. /\ IF rows[planner.task] # None
           THEN /\ rows[planner.task].status = "completed"
                /\ rows[planner.task].found = planner.atoms /\ rows[planner.task].role = planner.role
           ELSE planner.task \in removed /\ \A a \in planner.atoms : Kept(a)
        /\ planner.pc = "store" => \A a \in planner.atoms :
             planner.view[a].by.seen > 0 => provenance[a][planner.role].seen > 0
        /\ planner.pc # "store" => \A a \in planner.atoms : Kept(a)
        /\ planner.pc = "decide" => \A p \in Opposite :
             p \cap planner.atoms # {} /\ (\A a \in p : Known(a)) => p \in conflicts \/ p \cap unsure # {}
    BY DEF EvidenceInv, Working
  <2>2. IF rows'[planner.task] # None
        THEN /\ rows'[planner.task].status = "completed"
             /\ rows'[planner.task].found = planner.atoms /\ rows'[planner.task].role = planner.role
        ELSE planner.task \in removed' /\ \A a \in planner.atoms : Kept(a)'
    <3>1. CASE planner.task # t
      BY <1>3, <1>4, <1>11, <2>0, <2>1, <3>1
    <3>2. CASE planner.task = t
      <4>1. rows[t].found = planner.atoms
        BY <1>1, <2>1, <3>2
      <4>2. \A a \in rows[t].found : Kept(a)'
        <5>1. CASE rows[t].decision = "none"
          BY <1>5, <5>1 DEF Kept
        <5>2. CASE rows[t].decision # "none"
          BY <1>1, <1>11, <5>2 DEF EvidenceInv, Ended, Settled
        <5> QED
          BY <5>1, <5>2
      <4> QED
        BY <1>3, <1>4, <3>2, <4>1, <4>2
    <3> QED
      BY <3>1, <3>2
  <2>3. planner.pc = "decide" => \A p \in Opposite :
          p \cap planner.atoms # {} /\ (\A a \in p : Known(a)') => p \in conflicts' \/ p \cap unsure' # {}
    BY <1>5, <1>6, <1>11, <2>1
  <2>4. planner.pc # "store" => \A a \in planner.atoms : Kept(a)'
    BY <1>11, <2>1
  <2> QED
    BY <1>6, <2>1, <2>2, <2>3, <2>4, Zenon DEF Working
<1>15. Conflicted'
  <2>1. ASSUME NEW p \in Opposite, \A a \in p : Known(a)'
        PROVE  p \in conflicts' \/ p \cap unsure' # {} \/ Undecided(p)'
    <3>1. p \in conflicts \/ p \cap unsure # {} \/ Undecided(p)
      BY <1>11, <2>1, Zenon DEF EvidenceInv, Conflicted
    <3>2. Undecided(p) => p \cap unsure' # {} \/ Undecided(p)'
      <4> SUFFICES ASSUME Undecided(p) PROVE p \cap unsure' # {} \/ Undecided(p)'
        OBVIOUS
      <4>1. PICK u \in Tasks : /\ rows[u] # None /\ rows[u].status = "completed"
                               /\ rows[u].decision = "none" /\ rows[u].found \cap p # {}
        BY DEF Undecided
      <4>2. CASE u = t
        BY <1>5, <4>1, <4>2
      <4>3. CASE u # t
        BY <1>3, <4>1, <4>3 DEF Undecided
      <4> QED
        BY <4>2, <4>3
    <3> QED
      BY <1>5, <1>6, <3>1, <3>2
  <2> QED
    BY <2>1, Zenon DEF Conflicted
<1>16. Reported' /\ Own'
  BY <1>4 DEF Reported, Own
<1>17. ObservationTypes' /\ AuditsStay /\ Exporting'
  BY <1>1, <1>4, AuditsAsTheyAre
<1>18. Audited'
  <2>1. \A u \in Tasks : rows'[u] # None => rows'[u] = rows[u]
    BY <1>3
  <2> QED
    BY <1>17, <2>1, AuditedStays
<1>19. Bounds'
  BY <1>1, EvidenceAssumption DEF EvidenceInv, Bounds
<1> QED
  BY <1>7, <1>8, <1>9, <1>10, <1>12, <1>13, <1>14, <1>15, <1>16, <1>17, <1>18, <1>19 DEF EvidenceInv

-----------------------------------------------------------------------------
(* The planner *)

LEMMA RowsAndAuditsAsTheyAre ==
  ASSUME EvidenceInv, UNCHANGED <<rows, created, observations, removed, unaudited, export, bundle>>
  PROVE  RowTypes' /\ Lineage' /\ ObservationTypes' /\ Audited' /\ Own' /\ Exporting'
<1>1. RowTypes' /\ Lineage'
  BY Zenon DEF EvidenceInv, RowTypes, Lineage
<1>2. removed' \subseteq Tasks
  BY DEF EvidenceInv, ObservationTypes
<1>3. ObservationTypes' /\ AuditsStay /\ Exporting'
  BY <1>2, AuditsAsTheyAre
<1>4. Audited' /\ Own'
  BY <1>3, Zenon DEF EvidenceInv, Audited, Own, AuditsStay
<1> QED
  BY <1>1, <1>3, <1>4

\* More may become known of what finished rows reported.
LEMMA EndedGrows ==
  ASSUME EvidenceInv, UNCHANGED <<rows, removed>>, \A a \in Findings : Kept(a) => Kept(a)'
  PROVE  Ended'
<1>1. ASSUME NEW t \in Tasks, rows'[t] # None  PROVE Settled(t)'
  <2>1. rows'[t] = rows[t] /\ removed' = removed /\ rows[t] # None
    BY <1>1
  <2>2. Settled(t) /\ rows[t].found \subseteq Findings
    BY <2>1 DEF EvidenceInv, Ended, RowTypes, Row
  <2> QED
    BY <2>1, <2>2 DEF Settled
<1> QED
  BY <1>1 DEF Ended

\* The result the planner has in hand.
LEMMA InHand ==
  ASSUME EvidenceInv, planner.pc # "idle"
  PROVE  /\ planner = [pc |-> planner.pc, task |-> planner.task, role |-> planner.role,
                       atoms |-> planner.atoms, view |-> planner.view]
         /\ planner.task \in Tasks /\ planner.task \in Nat /\ planner.task <= created
         /\ planner.role \in ResearchRoles /\ planner.role \in Reporters
         /\ planner.atoms \subseteq Findings /\ planner.atoms \subseteq Atoms
         /\ planner.view \in [planner.atoms -> Looks]
         /\ \/ /\ rows[planner.task] # None /\ rows[planner.task].status = "completed"
               /\ rows[planner.task].found = planner.atoms /\ rows[planner.task].role = planner.role
            \/ rows[planner.task] = None /\ planner.task \in removed /\ \A a \in planner.atoms : Kept(a)
<1>1. planner # Idle
  BY DEF Idle
<1>2. PlannerTypes /\ Working
  BY DEF EvidenceInv
<1>3. /\ planner = [pc |-> planner.pc, task |-> planner.task, role |-> planner.role,
                    atoms |-> planner.atoms, view |-> planner.view]
      /\ planner.task \in Tasks /\ planner.task <= created
      /\ planner.role \in ResearchRoles /\ planner.atoms \subseteq Findings
      /\ planner.view \in [planner.atoms -> Looks]
  BY <1>1, <1>2, Zenon DEF PlannerTypes
<1>4. planner.role \in Reporters /\ planner.atoms \subseteq Atoms /\ planner.task \in Nat
  BY <1>3, EvidenceAssumption DEF Roles, Tasks
<1>5. \/ /\ rows[planner.task] # None /\ rows[planner.task].status = "completed"
         /\ rows[planner.task].found = planner.atoms /\ rows[planner.task].role = planner.role
      \/ rows[planner.task] = None /\ planner.task \in removed /\ \A a \in planner.atoms : Kept(a)
  BY <1>2, Zenon DEF Working
<1> QED
  BY <1>3, <1>4, <1>5

\* The planner goes on with the same result.
LEMMA PlannerMoves ==
  ASSUME EvidenceInv, planner.pc # "idle", NEW stage \in {"store", "detect", "decide", "create"},
         planner' = [planner EXCEPT !.pc = stage], created' = created
  PROVE  /\ PlannerTypes'
         /\ planner'.pc = stage /\ planner'.task = planner.task /\ planner'.role = planner.role
         /\ planner'.atoms = planner.atoms /\ planner'.view = planner.view
<1>1. planner' = [pc |-> stage, task |-> planner.task, role |-> planner.role,
                  atoms |-> planner.atoms, view |-> planner.view]
  <2>1. planner = [pc |-> planner.pc, task |-> planner.task, role |-> planner.role,
                   atoms |-> planner.atoms, view |-> planner.view]
    BY InHand
  <2> QED
    BY <2>1
<1>2. /\ planner'.pc = stage /\ planner'.task = planner.task /\ planner'.role = planner.role
      /\ planner'.atoms = planner.atoms /\ planner'.view = planner.view
  BY <1>1
<1>3. /\ planner.task \in Tasks /\ planner.task <= created
      /\ planner.role \in ResearchRoles /\ planner.atoms \subseteq Findings
      /\ planner.view \in [planner.atoms -> Looks]
  BY InHand
<1> QED
  BY <1>1, <1>2, <1>3 DEF PlannerTypes

LEMMA PlanReadStep ==
  ASSUME EvidenceInv, NEW t \in Tasks, PlanRead(t)  PROVE EvidenceInv'
<1>1. /\ rows[t] # None /\ rows[t].status = "completed" /\ rows[t].role \in ResearchRoles
      /\ UNCHANGED <<ledgerVars, rows, unsure, events, created, newest, observations, cursor, export,
                     bundle, removed, unaudited>>
  BY DEF PlanRead, ToPlan, Is, Exists, Quiet
<1> DEFINE found == rows[t].found
           role == rows[t].role
           view == [a \in found |-> Seen(a, role)]
<1>2. planner' = [pc |-> "store", task |-> t, role |-> role, atoms |-> found, view |-> view]
  BY DEF PlanRead
<1>3. found \subseteq Findings /\ found \subseteq Atoms /\ role \in Reporters /\ t <= created
  BY <1>1, EvidenceAssumption DEF EvidenceInv, RowTypes, Row, Roles
<1>4. view \in [found -> Looks] /\ \A a \in found : view[a].by = provenance[a][role]
  <2>1. \A a \in found : Known(a) \in BOOLEAN
    BY DEF Known
  <2>2. \A a \in found : provenance[a][role] \in [seen : Nat, latest : Nat]
    BY <1>3 DEF EvidenceInv, LedgerTypes
  <2>3. \A a \in found : Seen(a, role) \in Looks /\ Seen(a, role).by = provenance[a][role]
    BY <2>1, <2>2 DEF Seen, Looks
  <2> QED
    BY <2>3
<1> HIDE DEF view
<1>5. /\ planner'.pc = "store" /\ planner'.task = t /\ planner'.role = role
      /\ planner'.atoms = found /\ planner'.view = view
  BY <1>2
<1>6. LedgerTypes' /\ Counted' /\ FindingsStay
  BY <1>1, LedgerStays
<1>7. PlannerTypes'
  BY <1>1, <1>2, <1>3, <1>4, <1>5 DEF PlannerTypes
<1>8. Working'
  BY <1>1, <1>4, <1>5 DEF Working, ledgerVars
<1>9. Conflicted' /\ Reported'
  <2>1. ResultsStay /\ removed \subseteq removed'
    BY <1>1 DEF ResultsStay
  <2> QED
    BY <1>6, <2>1, ReportsStay
<1>10. RowTypes' /\ Lineage' /\ ObservationTypes' /\ Audited' /\ Own' /\ Exporting'
  BY <1>1, RowsAndAuditsAsTheyAre
<1>11. Ended'
  <2>1. \A a : Kept(a) <=> Kept(a)'
    BY <1>1 DEF Kept, Known, ledgerVars
  <2> QED
    BY <1>1, <2>1, EndedGrows
<1>12. Bounds'
  BY <1>1 DEF EvidenceInv, Bounds
<1> QED
  BY <1>6, <1>7, <1>8, <1>9, <1>10, <1>11, <1>12 DEF EvidenceInv

LEMMA PlanDetectStep == EvidenceInv /\ PlanDetect => EvidenceInv'
<1> SUFFICES ASSUME EvidenceInv, PlanDetect PROVE EvidenceInv'
  OBVIOUS
<1> DEFINE known == {a \in Atoms : Known(a)}
<1>1. /\ planner.pc = "detect" /\ planner' = [planner EXCEPT !.pc = "decide"]
      /\ conflicts' = conflicts \cup Contradictions(planner.atoms, known)
      /\ UNCHANGED <<ledger, provenance, rows, unsure, events, created, newest, observations, cursor,
                     export, bundle, removed, unaudited>>
  BY DEF PlanDetect, record_contradictions, Quiet
<1>2. planner.pc # "idle"
  BY <1>1
<1>3. /\ PlannerTypes'
      /\ planner'.pc = "decide" /\ planner'.task = planner.task /\ planner'.role = planner.role
      /\ planner'.atoms = planner.atoms /\ planner'.view = planner.view
  BY <1>1, <1>2, PlannerMoves
<1>4. \A p \in Opposite : p \cap planner.atoms # {} /\ (\A a \in p : Known(a)) => p \in conflicts'
  BY <1>1, OppositeFindings DEF Contradictions
<1>5. conflicts \subseteq conflicts' /\ conflicts' \subseteq Opposite
  BY <1>1 DEF Contradictions, EvidenceInv, LedgerTypes
<1> HIDE DEF known
<1>6. LedgerTypes' /\ Counted'
  <2>1. LedgerTypes'
    BY <1>1, <1>5 DEF EvidenceInv, LedgerTypes
  <2>2. Counted'
    BY <1>1, Zenon DEF EvidenceInv, Counted, Reporting, Known
  <2> QED
    BY <2>1, <2>2
<1>7. \A a : (Known(a)' <=> Known(a)) /\ (Kept(a)' <=> Kept(a))
  BY <1>1 DEF Kept, Known
<1>8. Working'
  <2>1. /\ IF rows[planner.task] # None
           THEN /\ rows[planner.task].status = "completed"
                /\ rows[planner.task].found = planner.atoms /\ rows[planner.task].role = planner.role
           ELSE planner.task \in removed /\ \A a \in planner.atoms : Kept(a)
        /\ \A a \in planner.atoms : Kept(a)
    BY <1>1, <1>2 DEF EvidenceInv, Working
  <2> QED
    BY <1>1, <1>3, <1>4, <1>7, <2>1 DEF Working
<1>9. Conflicted'
  BY <1>1, <1>5, <1>7 DEF EvidenceInv, Conflicted, Undecided
<1>10. Reported'
  BY <1>1, Zenon DEF EvidenceInv, Reported, Reporting
<1>11. RowTypes' /\ Lineage' /\ ObservationTypes' /\ Audited' /\ Own' /\ Exporting'
  BY <1>1, RowsAndAuditsAsTheyAre
<1>12. Ended'
  BY <1>1, <1>7, EndedGrows
<1>13. Bounds'
  BY <1>1 DEF EvidenceInv, Bounds
<1> QED
  BY <1>3, <1>6, <1>8, <1>9, <1>10, <1>11, <1>12, <1>13 DEF EvidenceInv

\* A result is recorded whose row is there and not decided, or whose findings are known.
LEMMA ReportRecorded ==
  ASSUME EvidenceInv, NEW t \in Tasks, NEW role \in Reporters, NEW atoms \in SUBSET Findings, NEW view,
         Current(role, atoms, view), record(t, role, atoms, view),
         UNCHANGED <<rows, removed, unsure>>, conflicts \subseteq conflicts', conflicts' \subseteq Opposite,
         \/ /\ rows[t] # None /\ rows[t].status = "completed"
            /\ rows[t].found = atoms /\ rows[t].role = role
         \/ t \in removed /\ \A a \in atoms : Kept(a)
  PROVE  /\ LedgerTypes' /\ Counted' /\ Ended' /\ Conflicted' /\ Reported'
         /\ \A a \in atoms : Known(a)'
         /\ \A a \in Findings : Kept(a) => Kept(a)'
         /\ \A p \in Opposite : p \cap atoms = {} /\ (\A a \in p : Known(a)') => \A a \in p : Known(a)
         /\ \A a \in Atoms, r \in Reporters : provenance[a][r].seen > 0 => provenance'[a][r].seen > 0
<1>0. Findings \subseteq Atoms
  BY EvidenceAssumption
<1>1. LedgerTypes /\ Counted /\ t \in Nat /\ atoms \in SUBSET Atoms
      /\ unsure' \subseteq Atoms /\ unsure \subseteq unsure'
  BY <1>0 DEF EvidenceInv, LedgerTypes, Tasks
<1>2. /\ LedgerTypes' /\ Counted'
      /\ \A a \in Atoms : Known(a) => Known(a)'
      /\ \A a \in atoms : Known(a)'
      /\ \A a \in Atoms \ atoms : ledger'[a] = ledger[a] /\ provenance'[a] = provenance[a]
      /\ \A a \in Atoms, r \in Reporters :
           /\ provenance[a][r].seen > 0 => provenance'[a][r].seen > 0
           /\ provenance'[a][r].seen > 0 =>
                provenance[a][r].seen > 0 \/ (a \in atoms /\ r = role)
  <2>1. Current(role, atoms, view) /\ record(t, role, atoms, view) /\ conflicts' \subseteq Opposite
    OBVIOUS
  <2> QED
    BY <1>1, <2>1, RecordCounts DEF Known
<1>3. \A a \in Findings : Kept(a) => Kept(a)'
  <2>1. \A a \in Findings : Known(a) => Known(a)'
    BY <1>0, <1>2
  <2>2. unsure' = unsure
    OBVIOUS
  <2> QED
    BY <2>1, <2>2, Zenon DEF Kept
<1>4. Ended'
  BY <1>3, EndedGrows
<1>5. \A a \in Atoms \ atoms : Known(a)' <=> Known(a)
  BY <1>2 DEF Known
<1>6. \A p \in Opposite : p \cap atoms = {} /\ (\A a \in p : Known(a)') => \A a \in p : Known(a)
  BY <1>5, OppositeFindings
<1>7. Conflicted'
  <2>1. ASSUME NEW p \in Opposite, \A a \in p : Known(a)'
        PROVE  p \in conflicts' \/ p \cap unsure' # {} \/ Undecided(p)'
    <3>1. CASE p \cap atoms # {} /\ rows[t] # None /\ rows[t].status = "completed"
               /\ rows[t].found = atoms /\ rows[t].decision = "none"
      BY <3>1 DEF Undecided
    <3>2. CASE \A a \in atoms : Kept(a)
      <4>1. CASE p \cap unsure # {}
        BY <4>1
      <4>2. CASE p \cap unsure = {}
        <5>1. \A a \in p : Known(a)
          BY <1>5, <2>1, <3>2, <4>2, OppositeFindings DEF Kept
        <5>2. p \in conflicts \/ Undecided(p)
          BY <4>2, <5>1 DEF EvidenceInv, Conflicted
        <5>3. Undecided(p) => Undecided(p)'
          BY DEF Undecided
        <5> QED
          BY <5>2, <5>3
      <4> QED
        BY <4>1, <4>2
    <3>3. CASE p \cap atoms = {}
      <4>1. \A a \in p : Known(a)
        BY <1>6, <2>1, <3>3
      <4>2. p \in conflicts \/ p \cap unsure # {} \/ Undecided(p)
        BY <4>1 DEF EvidenceInv, Conflicted
      <4>3. Undecided(p) => Undecided(p)'
        BY DEF Undecided
      <4> QED
        BY <4>2, <4>3
    <3>4. rows[t] # None /\ rows[t].decision # "none" /\ rows[t].found = atoms => \A a \in atoms : Kept(a)
      BY DEF EvidenceInv, Ended, Settled
    <3> QED
      BY <3>1, <3>2, <3>3, <3>4
  <2> QED
    BY <2>1 DEF Conflicted
<1>8. Reported'
  <2>1. ASSUME removed' = {}, NEW a \in Findings, NEW r \in Reporting(a)'
        PROVE  \E u \in Tasks : rows'[u] # None /\ rows'[u].role = r /\ a \in rows'[u].found
    <3>1. r \in Reporters /\ a \in Atoms
      BY EvidenceAssumption DEF Reporting
    <3>2. r \in Reporting(a) \/ (a \in atoms /\ r = role)
      BY <1>2, <2>1, <3>1 DEF Reporting
    <3>3. CASE r \in Reporting(a)
      BY <2>1, <3>3 DEF EvidenceInv, Reported
    <3>4. CASE a \in atoms /\ r = role
      BY <2>1, <3>4
    <3> QED
      BY <3>2, <3>3, <3>4
  <2> QED
    BY <2>1 DEF Reported
<1> QED
  BY <1>2, <1>3, <1>4, <1>6, <1>7, <1>8

LEMMA BackfillStep ==
  ASSUME EvidenceInv, NEW t \in Tasks, NEW killed \in BOOLEAN, Backfill(t, killed)  PROVE EvidenceInv'
<1> DEFINE role == rows[t].role
           atoms == rows[t].found
           view == [a \in atoms |-> Seen(a, role)]
           known == {a \in Atoms : Known(a)'}
<1>1. /\ rows[t] # None /\ rows[t].status = "completed" /\ events' = events + 1 /\ events < MaxEvents
      /\ record(t, role, atoms, view) /\ conflicts' = conflicts \cup Contradictions(atoms, known)
      /\ cursor' = (IF killed THEN cursor ELSE t)
      /\ UNCHANGED <<rows, created, newest, observations, planner, export, bundle, unsure, removed, unaudited>>
  <2>1. rows[t] # None /\ rows[t].status = "completed" /\ events' = events + 1 /\ events < MaxEvents
    BY DEF Backfill, Is, Exists, Event
  <2>2. record(t, role, atoms, view)
    BY Zenon DEF Backfill
  <2>3. conflicts' = conflicts \cup Contradictions(atoms, known)
    BY Zenon DEF Backfill, record_contradictions
  <2>4. cursor' = IF killed THEN cursor ELSE t
    BY Zenon DEF Backfill
  <2>5. UNCHANGED <<rows, created, newest, observations, planner, export, bundle, unsure, removed, unaudited>>
    BY DEF Backfill
  <2> QED
    BY <2>1, <2>2, <2>3, <2>4, <2>5
<1>2. atoms \in SUBSET Findings /\ role \in Reporters
  BY <1>1, EvidenceAssumption DEF EvidenceInv, RowTypes, Row
<1>3. Current(role, atoms, view)
  BY DEF Current, Seen
<1>4. conflicts \subseteq conflicts' /\ conflicts' \subseteq Opposite
  BY <1>1 DEF Contradictions, EvidenceInv, LedgerTypes
<1>5. \A p \in Opposite : p \cap atoms # {} /\ (\A a \in p : Known(a)') => p \in conflicts'
  <2> SUFFICES ASSUME NEW p \in Opposite, p \cap atoms # {}, \A a \in p : Known(a)'
               PROVE  p \in conflicts'
    OBVIOUS
  <2>1. p \subseteq known
    BY OppositeFindings
  <2> QED
    BY <1>1, <2>1 DEF Contradictions
<1> HIDE DEF view, known
<1>6. /\ LedgerTypes' /\ Counted' /\ Ended' /\ Conflicted' /\ Reported'
      /\ \A a \in Findings : Kept(a) => Kept(a)'
      /\ \A p \in Opposite : p \cap atoms = {} /\ (\A a \in p : Known(a)') => \A a \in p : Known(a)
      /\ \A a \in Atoms, r \in Reporters : provenance[a][r].seen > 0 => provenance'[a][r].seen > 0
  <2> HIDE DEF role, atoms
  <2>1. UNCHANGED <<rows, removed, unsure>>
    BY <1>1
  <2>2. rows[t].found = atoms /\ rows[t].role = role
    BY DEF role, atoms
  <2> QED
    BY <1>1, <1>2, <1>3, <1>4, <2>1, <2>2, ReportRecorded
<1> HIDE DEF role, atoms
<1>7. PlannerTypes'
  <2>1. planner' = planner /\ created' = created
    BY <1>1
  <2> QED
    BY <2>1, Zenon DEF EvidenceInv, PlannerTypes
<1>8. Working'
  <2>0. planner' = planner /\ rows' = rows /\ removed' = removed /\ unsure' = unsure
    BY <1>1
  <2> SUFFICES ASSUME planner.pc # "idle" PROVE Working'
    BY <2>0, Zenon DEF Working
  <2>1. planner.role \in Reporters /\ planner.atoms \subseteq Findings /\ planner.atoms \subseteq Atoms
    BY InHand
  <2>2. /\ IF rows[planner.task] # None
           THEN /\ rows[planner.task].status = "completed"
                /\ rows[planner.task].found = planner.atoms /\ rows[planner.task].role = planner.role
           ELSE planner.task \in removed /\ \A a \in planner.atoms : Kept(a)
        /\ planner.pc = "store" => \A a \in planner.atoms :
             planner.view[a].by.seen > 0 => provenance[a][planner.role].seen > 0
        /\ planner.pc # "store" => \A a \in planner.atoms : Kept(a)
        /\ planner.pc = "decide" => \A p \in Opposite :
             p \cap planner.atoms # {} /\ (\A a \in p : Known(a)) => p \in conflicts \/ p \cap unsure # {}
    BY DEF EvidenceInv, Working
  <2>3. IF rows[planner.task] # None
        THEN /\ rows[planner.task].status = "completed"
             /\ rows[planner.task].found = planner.atoms /\ rows[planner.task].role = planner.role
        ELSE planner.task \in removed /\ \A a \in planner.atoms : Kept(a)'
    BY <1>6, <2>1, <2>2
  <2>4. planner.pc = "store" => \A a \in planner.atoms :
          planner.view[a].by.seen > 0 => provenance'[a][planner.role].seen > 0
    BY <1>6, <2>1, <2>2
  <2>5. planner.pc # "store" => \A a \in planner.atoms : Kept(a)'
    BY <1>6, <2>1, <2>2
  <2>6. planner.pc = "decide" => \A p \in Opposite :
          p \cap planner.atoms # {} /\ (\A a \in p : Known(a)') => p \in conflicts' \/ p \cap unsure # {}
    BY <1>4, <1>5, <1>6, <2>2
  <2> QED
    BY <2>0, <2>3, <2>4, <2>5, <2>6 DEF Working
<1>9. RowTypes' /\ Lineage' /\ ObservationTypes' /\ Audited' /\ Own' /\ Exporting'
  BY <1>1, RowsAndAuditsAsTheyAre
<1>10. Bounds'
  BY <1>1, EvidenceAssumption DEF EvidenceInv, Bounds, Tasks
<1> QED
  BY <1>6, <1>7, <1>8, <1>9, <1>10 DEF EvidenceInv

\* Only the result in hand can be lost with what was to be recorded of it.
LEMMA UnsureGrows ==
  ASSUME EvidenceInv, planner.pc # "idle", planner' = [planner EXCEPT !.pc = "decide"],
         unsure' = unsure \cup planner.atoms,
         UNCHANGED <<provenance, conflicts, rows, created, removed>>,
         \A a \in Atoms \ unsure' : ledger'[a] = ledger[a],
         \A a \in Atoms : Known(a) => Known(a)'
  PROVE  /\ Ended' /\ PlannerTypes' /\ Working' /\ Conflicted' /\ Reported'
<1>1. /\ PlannerTypes'
      /\ planner'.pc = "decide" /\ planner'.task = planner.task /\ planner'.role = planner.role
      /\ planner'.atoms = planner.atoms /\ planner'.view = planner.view
  BY PlannerMoves
<1>2. /\ planner.atoms \subseteq Findings
      /\ \/ /\ rows[planner.task] # None /\ rows[planner.task].status = "completed"
            /\ rows[planner.task].found = planner.atoms /\ rows[planner.task].role = planner.role
         \/ rows[planner.task] = None /\ planner.task \in removed
  BY InHand
<1>3. \A a \in planner.atoms : Kept(a)'
  BY DEF Kept
<1>0. Findings \subseteq Atoms
  BY EvidenceAssumption
<1>4. Ended'
  <2>1. \A a \in Findings : Kept(a) => Kept(a)'
    <3> TAKE a \in Findings
    <3>1. Known(a) => Known(a)'
      BY <1>0
    <3>2. a \in unsure => a \in unsure'
      OBVIOUS
    <3> QED
      BY <3>1, <3>2, Zenon DEF Kept
  <2> QED
    BY <2>1, EndedGrows
<1>5. Working'
  BY <1>1, <1>2, <1>3 DEF Working
<1>6. Conflicted'
  <2>1. ASSUME NEW p \in Opposite, \A a \in p : Known(a)'
        PROVE  p \in conflicts' \/ p \cap unsure' # {} \/ Undecided(p)'
    <3>1. CASE p \cap unsure' # {}
      BY <3>1
    <3>2. CASE p \cap unsure' = {}
      <4>1. \A a \in p : Known(a)
        BY <2>1, <3>2, OppositeFindings DEF Known
      <4>2. p \in conflicts \/ Undecided(p)
        BY <3>2, <4>1 DEF EvidenceInv, Conflicted
      <4>3. Undecided(p) => Undecided(p)'
        BY DEF Undecided
      <4> QED
        BY <4>2, <4>3
    <3> QED
      BY <3>1, <3>2
  <2> QED
    BY <2>1 DEF Conflicted
<1>7. Reported'
  BY Zenon DEF EvidenceInv, Reported, Reporting
<1> QED
  BY <1>1, <1>4, <1>5, <1>6, <1>7

LEMMA PlanStoreStep == EvidenceInv /\ PlanStore => EvidenceInv'
<1> SUFFICES ASSUME EvidenceInv, PlanStore PROVE EvidenceInv'
  OBVIOUS
<1>1. /\ planner.pc = "store" /\ planner.pc # "idle"
      /\ UNCHANGED <<rows, events, created, newest, observations, cursor, export, bundle, removed, unaudited>>
  BY DEF PlanStore, Quiet
<1>2. /\ planner.task \in Tasks /\ planner.task \in Nat
      /\ planner.role \in Reporters
      /\ planner.atoms \subseteq Findings /\ planner.atoms \subseteq Atoms
      /\ planner.view \in [planner.atoms -> Looks]
      /\ \/ /\ rows[planner.task] # None /\ rows[planner.task].status = "completed"
            /\ rows[planner.task].found = planner.atoms /\ rows[planner.task].role = planner.role
         \/ rows[planner.task] = None /\ planner.task \in removed /\ \A a \in planner.atoms : Kept(a)
  BY <1>1, InHand
<1>3. /\ ledger \in [Atoms -> [confirmations : Nat, roles : Nat]]
      /\ provenance \in [Atoms -> [Reporters -> [seen : Nat, latest : Nat]]]
      /\ conflicts \subseteq Opposite /\ unsure \subseteq Atoms
  BY DEF EvidenceInv, LedgerTypes
<1>4. RowTypes' /\ Lineage' /\ ObservationTypes' /\ Audited' /\ Own' /\ Exporting'
  BY <1>1, RowsAndAuditsAsTheyAre
<1>5. Bounds'
  BY <1>1 DEF EvidenceInv, Bounds
<1>6. CASE planner.atoms = {}
  <2>1. planner' = [planner EXCEPT !.pc = "decide"] /\ UNCHANGED <<ledgerVars, unsure>>
    BY <1>6 DEF PlanStore
  <2>2. LedgerTypes' /\ Counted'
    BY <2>1, LedgerStays
  <2>3. UNCHANGED <<provenance, conflicts, rows, created, removed>> /\ ledger' = ledger
        /\ unsure' = unsure \cup planner.atoms
    BY <1>1, <1>6, <2>1 DEF ledgerVars
  <2>4. \A a \in Atoms : Known(a) => Known(a)'
    BY <2>3 DEF Known
  <2>5. Ended' /\ PlannerTypes' /\ Working' /\ Conflicted' /\ Reported'
    BY <1>1, <2>1, <2>3, <2>4, UnsureGrows
  <2> QED
    BY <1>4, <1>5, <2>2, <2>5 DEF EvidenceInv
<1>7. CASE planner.atoms # {}
  <2> DEFINE Seeing(first) == View(first)[first]
             Counting(first) == ~Repeated(Seeing(first), planner.task)
             Lost(first) == Counting(first) /\ ClashesInLedger(first, Seeing(first))
             Half(first) == Counting(first) /\ ~ClashesInLedger(first, Seeing(first))
                            /\ ClashesInProvenance(first, planner.role, Seeing(first))
             Losing == /\ planner' = [planner EXCEPT !.pc = "decide"]
                       /\ unsure' = unsure \cup planner.atoms /\ UNCHANGED ledgerVars
             Halving(first) == /\ planner' = [planner EXCEPT !.pc = "decide"]
                               /\ unsure' = unsure \cup planner.atoms
                               /\ ledger' = [ledger EXCEPT ![first] = Count(@, Seeing(first))]
                               /\ UNCHANGED <<provenance, conflicts>>
             Storing(first) == /\ record(planner.task, planner.role, planner.atoms, View(first))
                               /\ planner' = [planner EXCEPT !.pc = "detect"]
                               /\ UNCHANGED <<conflicts, unsure>>
  <2>1. PICK first \in planner.atoms :
          CASE Lost(first) -> Losing [] Half(first) -> Halving(first) [] OTHER -> Storing(first)
    BY <1>7, Zenon DEF PlanStore
  <2>2. (Lost(first) /\ Losing) \/ (Half(first) /\ Halving(first))
        \/ (~Lost(first) /\ ~Half(first) /\ Storing(first))
    <3>1. ~(Lost(first) /\ Half(first))
      OBVIOUS
    <3> HIDE DEF Lost, Half, Losing, Halving, Storing
    <3> QED
      BY <2>1, <3>1, Zenon
  <2>3. /\ Seeing(first) = planner.view[first] /\ Seeing(first) \in Looks
        /\ first \in Findings /\ first \in Atoms /\ View(first)[first] = Seeing(first)
        /\ \A a \in planner.atoms : a # first => View(first)[a] = Seen(a, planner.role)
    BY <1>2 DEF View
  <2>4. \A a : a \in planner.atoms /\ planner.view[a].by.seen > 0 => provenance[a][planner.role].seen > 0
    BY <1>1 DEF EvidenceInv, Working
  <2>5. CASE Lost(first) /\ Losing
    <3>1. LedgerTypes' /\ Counted'
      <4>1. ledger' = ledger /\ provenance' = provenance /\ conflicts' = conflicts
            /\ unsure' = unsure \cup planner.atoms
        BY <2>5 DEF ledgerVars
      <4>2. LedgerTypes'
        BY <1>2, <1>3, <4>1 DEF LedgerTypes
      <4>3. ASSUME NEW a \in Atoms
            PROVE  /\ ledger'[a].roles <= ledger'[a].confirmations
                   /\ \A r \in Reporting(a)' : Known(a)'
                   /\ a \notin unsure' =>
                        /\ ledger'[a].roles = Cardinality(Reporting(a)')
                        /\ ledger'[a].confirmations = SumFunction([r \in Reporters |-> provenance'[a][r].seen])
        <5>1. Reporting(a)' = Reporting(a) /\ (Known(a)' <=> Known(a)) /\ (a \notin unsure' => a \notin unsure)
          BY <4>1 DEF Reporting, Known
        <5>2. /\ ledger[a].roles <= ledger[a].confirmations
              /\ \A r \in Reporting(a) : Known(a)
              /\ a \notin unsure =>
                   /\ ledger[a].roles = Cardinality(Reporting(a))
                   /\ ledger[a].confirmations = SumFunction([r \in Reporters |-> provenance[a][r].seen])
          BY DEF EvidenceInv, Counted
        <5> QED
          BY <4>1, <5>1, <5>2, Zenon
      <4> QED
        BY <4>2, <4>3 DEF Counted
    <3>2. UNCHANGED <<provenance, conflicts, rows, created, removed>> /\ ledger' = ledger
          /\ planner' = [planner EXCEPT !.pc = "decide"] /\ unsure' = unsure \cup planner.atoms
      BY <1>1, <2>5 DEF ledgerVars
    <3>3. \A a \in Atoms : Known(a) => Known(a)'
      BY <3>2 DEF Known
    <3>4. Ended' /\ PlannerTypes' /\ Working' /\ Conflicted' /\ Reported'
      BY <1>1, <3>2, <3>3, UnsureGrows
    <3> QED
      BY <1>4, <1>5, <3>1, <3>4 DEF EvidenceInv
  <2>6. CASE Half(first) /\ Halving(first)
    <3>1. /\ planner' = [planner EXCEPT !.pc = "decide"] /\ unsure' = unsure \cup planner.atoms
          /\ UNCHANGED <<provenance, conflicts, rows, created, removed>>
          /\ ledger' = [ledger EXCEPT ![first] = Count(@, Seeing(first))]
      BY <1>1, <2>6
    <3>2. Seeing(first).by.seen = 0
      BY <2>6 DEF ClashesInProvenance
    <3> HIDE DEF Seeing
    <3>3. /\ ledger'[first] = [confirmations |-> ledger[first].confirmations + 1, roles |-> ledger[first].roles + 1]
          /\ \A a \in Atoms : a # first => ledger'[a] = ledger[a]
          /\ ledger' = [a \in Atoms |-> ledger'[a]]
      BY <1>3, <2>3, <3>1, <3>2 DEF Count
    <3>4. LedgerTypes'
      <4>1. \A a \in Atoms : ledger'[a] \in [confirmations : Nat, roles : Nat]
        BY <1>3, <3>3
      <4>2. ledger' \in [Atoms -> [confirmations : Nat, roles : Nat]]
        BY <3>3, <4>1
      <4> QED
        BY <1>2, <1>3, <3>1, <4>2 DEF LedgerTypes
    <3>5. \A a \in Atoms : Known(a) => Known(a)'
      <4> TAKE a \in Atoms
      <4>1. CASE a = first
        BY <1>3, <3>3, <4>1 DEF Known
      <4>2. CASE a # first
        BY <3>3, <4>2 DEF Known
      <4> QED
        BY <4>1, <4>2
    <3>6. Counted'
      <4>1. ASSUME NEW a \in Atoms
            PROVE  /\ ledger'[a].roles <= ledger'[a].confirmations
                   /\ \A r \in Reporting(a)' : Known(a)'
                   /\ a \notin unsure' =>
                        /\ ledger'[a].roles = Cardinality(Reporting(a)')
                        /\ ledger'[a].confirmations = SumFunction([r \in Reporters |-> provenance'[a][r].seen])
        <5>1. /\ ledger[a].roles <= ledger[a].confirmations
              /\ \A r \in Reporting(a) : Known(a)
              /\ a \notin unsure =>
                   /\ ledger[a].roles = Cardinality(Reporting(a))
                   /\ ledger[a].confirmations = SumFunction([r \in Reporters |-> provenance[a][r].seen])
          BY DEF EvidenceInv, Counted
        <5>2. Reporting(a)' = Reporting(a) /\ (Known(a) => Known(a)')
          BY <3>1, <3>5 DEF Reporting
        <5>3. ledger'[a].roles <= ledger'[a].confirmations
          <6>1. ledger[a].roles \in Nat /\ ledger[a].confirmations \in Nat
            BY <1>3
          <6>2. CASE a = first
            BY <3>3, <5>1, <6>1, <6>2
          <6>3. CASE a # first
            BY <3>3, <5>1, <6>3
          <6> QED
            BY <6>2, <6>3
        <5>4. a \notin unsure' => a \notin unsure /\ ledger'[a] = ledger[a]
          BY <2>1, <3>1, <3>3
        <5> QED
          BY <3>1, <5>1, <5>2, <5>3, <5>4, Zenon
      <4> QED
        BY <4>1 DEF Counted
    <3>7. \A a \in Atoms \ unsure' : ledger'[a] = ledger[a]
      BY <3>1, <3>3
    <3>8. Ended' /\ PlannerTypes' /\ Working' /\ Conflicted' /\ Reported'
      BY <1>1, <3>1, <3>5, <3>7, UnsureGrows
    <3> QED
      BY <1>4, <1>5, <3>4, <3>6, <3>8 DEF EvidenceInv
  <2>7. CASE ~Lost(first) /\ ~Half(first) /\ Storing(first)
    <3>1. Current(planner.role, planner.atoms, View(first))
      <4>1. ASSUME NEW a \in planner.atoms, a # first
            PROVE  View(first)[a].by.seen = 0 <=> provenance[a][planner.role].seen = 0
        <5>1. Seen(a, planner.role).by = provenance[a][planner.role]
          BY DEF Seen
        <5>2. View(first)[a] = Seen(a, planner.role)
          BY <2>3, <4>1
        <5> QED
          BY <5>1, <5>2, Zenon
      <4>2. View(first)[first].by.seen = 0 <=> provenance[first][planner.role].seen = 0
        <5>1. Seeing(first).by.seen \in Nat /\ provenance[first][planner.role].seen \in Nat
          BY <1>2, <1>3, <2>3 DEF Looks
        <5>2. Seeing(first).by.seen > 0 => provenance[first][planner.role].seen > 0
          BY <2>3, <2>4
        <5>3. Seeing(first).by.seen = 0 => ~(provenance[first][planner.role].seen > 0)
          BY <2>7 DEF Repeated, ClashesInProvenance
        <5> HIDE DEF Seeing
        <5> QED
          BY <2>3, <5>1, <5>2, <5>3
      <4> QED
        BY <4>1, <4>2 DEF Current
    <3>2. /\ record(planner.task, planner.role, planner.atoms, View(first))
          /\ planner' = [planner EXCEPT !.pc = "detect"]
          /\ UNCHANGED <<conflicts, unsure>>
      BY <2>7
    <3>3. UNCHANGED <<rows, removed, unsure>> /\ conflicts \subseteq conflicts' /\ conflicts' \subseteq Opposite
      BY <1>1, <1>3, <3>2
    <3>4. /\ LedgerTypes' /\ Counted' /\ Ended' /\ Conflicted' /\ Reported'
          /\ \A a \in planner.atoms : Known(a)'
      <4>1. PICK view : view = View(first)
        OBVIOUS
      <4>2. planner.atoms \in SUBSET Findings
        BY <1>2
      <4>3. Current(planner.role, planner.atoms, view)
            /\ record(planner.task, planner.role, planner.atoms, view)
        BY <3>1, <3>2, <4>1
      <4>4. \/ /\ rows[planner.task] # None /\ rows[planner.task].status = "completed"
               /\ rows[planner.task].found = planner.atoms /\ rows[planner.task].role = planner.role
            \/ planner.task \in removed /\ \A a \in planner.atoms : Kept(a)
        BY <1>2
      <4> QED
        BY <1>2, <3>3, <4>2, <4>3, <4>4, ReportRecorded
    <3>5. /\ PlannerTypes'
          /\ planner'.pc = "detect" /\ planner'.task = planner.task /\ planner'.role = planner.role
          /\ planner'.atoms = planner.atoms /\ planner'.view = planner.view
      BY <1>1, <3>2, PlannerMoves
    <3>6. \A a \in planner.atoms : Kept(a)'
      BY <3>4 DEF Kept
    <3>7. Working'
      BY <1>1, <1>2, <3>5, <3>6 DEF Working
    <3> QED
      BY <1>4, <1>5, <3>4, <3>5, <3>7 DEF EvidenceInv
  <2> QED
    BY <2>2, <2>5, <2>6, <2>7
<1> QED
  BY <1>6, <1>7

LEMMA PlanDecideStep ==
  ASSUME EvidenceInv, NEW decision \in {"next", "stop"}, PlanDecide(decision)  PROVE EvidenceInv'
<1> DEFINE t == planner.task
           line == [rows[t] EXCEPT !.decision = decision]
<1>1. /\ planner.pc = "decide" /\ planner.pc # "idle"
      /\ UNCHANGED <<ledgerVars, unsure, events, created, newest, observations, cursor, export, bundle,
                     removed, unaudited>>
  BY DEF PlanDecide, Quiet
<1>2. /\ t \in Tasks /\ planner.role \in ResearchRoles /\ planner.atoms \subseteq Findings
      /\ \/ /\ rows[t] # None /\ rows[t].status = "completed"
            /\ rows[t].found = planner.atoms /\ rows[t].role = planner.role
         \/ rows[t] = None /\ t \in removed
  BY <1>1, InHand
<1>3. /\ \A a \in planner.atoms : Kept(a)
      /\ \A p \in Opposite :
           p \cap planner.atoms # {} /\ (\A a \in p : Known(a)) => p \in conflicts \/ p \cap unsure # {}
  BY <1>1 DEF EvidenceInv, Working
<1>4. /\ rows' = IF rows[t] # None THEN [rows EXCEPT ![t].decision = decision] ELSE rows
      /\ planner' = [planner EXCEPT !.pc = "create"] \/ planner' = Idle
  BY <1>2 DEF PlanDecide, Exists
<1>5. rows \in [Tasks -> Row \cup {None}]
  BY DEF EvidenceInv, RowTypes
<1>6. rows[t] # None =>
        /\ line \in Row /\ line # None /\ line.parent = rows[t].parent /\ line.role = rows[t].role
        /\ line.status = "completed" /\ line.found = planner.atoms
        /\ line.result = rows[t].result /\ line.decision = decision
  <2> SUFFICES ASSUME rows[t] # None
               PROVE  /\ line \in Row /\ line # None /\ line.parent = rows[t].parent /\ line.role = rows[t].role
                      /\ line.status = "completed" /\ line.found = planner.atoms
                      /\ line.result = rows[t].result /\ line.decision = decision
    OBVIOUS
  <2>1. rows[t] \in Row
    BY <1>2, <1>5
  <2>2. line \in Row
    BY <2>1 DEF Row
  <2>3. line # None
    BY <2>2, NoRowAssumption
  <2> QED
    BY <1>2, <2>1, <2>2, <2>3 DEF Row
<1>7. /\ rows' \in [Tasks -> Row \cup {None}]
      /\ \A u \in Tasks : u # t => rows'[u] = rows[u]
      /\ rows[t] # None => rows'[t] = line
      /\ rows[t] = None => rows'[t] = None
  <2>1. CASE rows[t] = None
    BY <1>4, <1>5, <2>1
  <2>2. CASE rows[t] # None
    <3>1. rows' = [rows EXCEPT ![t] = line]
      BY <1>2, <1>4, <1>5, <2>2
    <3>2. line \in Row
      BY <1>6, <2>2
    <3> HIDE DEF line
    <3> QED
      BY <1>2, <1>5, <2>2, <3>1, <3>2
  <2> QED
    BY <2>1, <2>2
<1> HIDE DEF line, t
<1>8. \A u \in Tasks :
        /\ rows'[u] = None <=> rows[u] = None
        /\ rows[u] # None => /\ rows'[u].parent = rows[u].parent /\ rows'[u].role = rows[u].role
                             /\ rows'[u].status = rows[u].status /\ rows'[u].found = rows[u].found
                             /\ rows'[u].result = rows[u].result
  BY <1>2, <1>6, <1>7
<1>9. RowTypes' /\ Lineage' /\ RowsStay
  <2>1. RowTypes /\ Lineage /\ created' = created
    BY <1>1 DEF EvidenceInv
  <2> QED
    BY <1>7, <1>8, <2>1, RowsChange
<1>10. LedgerTypes' /\ Counted' /\ FindingsStay
  BY <1>1, LedgerStays
<1>11. ledger' = ledger /\ provenance' = provenance /\ conflicts' = conflicts /\ unsure' = unsure
       /\ removed' = removed /\ \A a : (Known(a)' <=> Known(a)) /\ (Kept(a)' <=> Kept(a))
  BY <1>1 DEF ledgerVars, Known, Kept
<1>12. Ended'
  <2>1. ASSUME NEW u \in Tasks, rows'[u] # None  PROVE Settled(u)'
    <3>1. rows[u] # None /\ Settled(u)
      BY <1>8, <2>1 DEF EvidenceInv, Ended
    <3>2. CASE u # t
      BY <1>7, <1>11, <3>1, <3>2 DEF Settled
    <3>3. CASE u = t
      BY <1>2, <1>3, <1>6, <1>7, <1>8, <1>11, <3>1, <3>3 DEF Settled
    <3> QED
      BY <3>2, <3>3
  <2> QED
    BY <2>1 DEF Ended
<1>13. PlannerTypes' /\ Working'
  <2>1. CASE planner' = Idle
    <3>1. planner'.pc = "idle"
      BY <2>1 DEF Idle
    <3> QED
      BY <2>1, <3>1 DEF PlannerTypes, Working
  <2>2. CASE planner' = [planner EXCEPT !.pc = "create"]
    <3>1. /\ PlannerTypes'
          /\ planner'.pc = "create" /\ planner'.task = planner.task /\ planner'.role = planner.role
          /\ planner'.atoms = planner.atoms /\ planner'.view = planner.view
      <4>1. created' = created
        BY <1>1
      <4> QED
        BY <1>1, <2>2, <4>1, PlannerMoves
    <3>2. Working'
      BY <1>2, <1>3, <1>8, <1>11, <3>1 DEF Working, t
    <3> QED
      BY <3>1, <3>2
  <2> QED
    BY <1>4, <2>1, <2>2
<1>14. Conflicted'
  <2>1. ASSUME NEW p \in Opposite, \A a \in p : Known(a)'
        PROVE  p \in conflicts' \/ p \cap unsure' # {} \/ Undecided(p)'
    <3>1. \A a \in p : Known(a)
      BY <1>11, <2>1
    <3>2. p \in conflicts \/ p \cap unsure # {} \/ Undecided(p)
      BY <3>1, Zenon DEF EvidenceInv, Conflicted
    <3>3. Undecided(p) => p \in conflicts \/ p \cap unsure # {} \/ Undecided(p)'
      <4> SUFFICES ASSUME Undecided(p) PROVE p \in conflicts \/ p \cap unsure # {} \/ Undecided(p)'
        OBVIOUS
      <4>1. PICK u \in Tasks : /\ rows[u] # None /\ rows[u].status = "completed"
                               /\ rows[u].decision = "none" /\ rows[u].found \cap p # {}
        BY DEF Undecided
      <4>2. CASE u = t
        <5>1. p \cap planner.atoms # {}
          BY <1>2, <4>1, <4>2
        <5> QED
          BY <1>3, <3>1, <5>1
      <4>3. CASE u # t
        BY <1>7, <4>1, <4>3 DEF Undecided
      <4> QED
        BY <4>2, <4>3
    <3> QED
      BY <1>11, <3>2, <3>3
  <2> QED
    BY <2>1 DEF Conflicted
<1>15. Reported'
  <2>1. ASSUME removed' = {}, NEW a \in Findings, NEW r \in Reporting(a)'
        PROVE  \E u \in Tasks : rows'[u] # None /\ rows'[u].role = r /\ a \in rows'[u].found
    <3>1. r \in Reporting(a) /\ removed = {}
      BY <1>11, <2>1 DEF Reporting
    <3>2. PICK u \in Tasks : rows[u] # None /\ rows[u].role = r /\ a \in rows[u].found
      BY <3>1 DEF EvidenceInv, Reported
    <3> QED
      BY <1>8, <3>2
  <2> QED
    BY <2>1 DEF Reported
<1>16. ObservationTypes' /\ AuditsStay /\ Exporting'
  <2>1. removed' \subseteq Tasks
    BY <1>11 DEF EvidenceInv, ObservationTypes
  <2> QED
    BY <1>1, <2>1, AuditsAsTheyAre
<1>17. Audited'
  <2>1. \A u \in Tasks : rows'[u] # None /\ rows'[u].status # "pending" /\ rows'[u].role # "executor" =>
          rows[u] # None /\ rows[u].status # "pending" /\ rows[u].role # "executor"
    BY <1>8
  <2> QED
    BY <1>16, <2>1, AuditedStays
<1>18. Own'
  <2>1. \A i \in DOMAIN observations' : \E j \in DOMAIN observations : observations'[i] = observations[j]
    BY <1>1
  <2> QED
    BY <1>9, <1>11, <2>1, OwnStays
<1>19. Bounds'
  BY <1>1 DEF EvidenceInv, Bounds
<1> QED
  BY <1>9, <1>10, <1>12, <1>13, <1>14, <1>15, <1>16, <1>17, <1>18, <1>19 DEF EvidenceInv

-----------------------------------------------------------------------------
(* The exporter *)

LEMMA AllButTheExport ==
  ASSUME EvidenceInv, UNCHANGED <<ledgerVars, rows, created, newest, observations, planner, cursor, unsure,
                                  removed, unaudited>>
  PROVE  /\ LedgerTypes' /\ Counted' /\ RowTypes' /\ Lineage' /\ Ended' /\ PlannerTypes' /\ Working'
         /\ Conflicted' /\ Reported' /\ ObservationTypes' /\ AuditsStay /\ Audited' /\ Own'
<1>1. LedgerTypes' /\ Counted' /\ FindingsStay
  BY LedgerStays
<1>2. RowTypes' /\ Lineage' /\ ObservationTypes' /\ Own'
  BY Zenon DEF EvidenceInv, RowTypes, Lineage, ObservationTypes, Own
<1>3. ResultsStay /\ removed \subseteq removed' /\ created' \in Nat /\ created <= created'
  <2>1. created \in Nat
    BY DEF EvidenceInv, RowTypes
  <2> QED
    BY <2>1 DEF ResultsStay
<1>4. PlannerTypes' /\ Working' /\ Conflicted' /\ Reported'
  BY <1>1, <1>3, PlannerStays, ReportsStay
<1>5. Ended'
  <2>1. \A a : Kept(a) <=> Kept(a)'
    BY DEF ledgerVars, Kept, Known
  <2> QED
    BY <2>1, EndedGrows
<1>6. AuditsStay
  BY Zenon DEF AuditsStay, HasAudit
<1>7. Audited'
  BY <1>6, Zenon DEF EvidenceInv, Audited, AuditsStay
<1> QED
  BY <1>1, <1>2, <1>4, <1>5, <1>6, <1>7

LEMMA ExportBeginStep == EvidenceInv /\ ExportBegin => EvidenceInv'
<1> SUFFICES ASSUME EvidenceInv, ExportBegin PROVE EvidenceInv'
  OBVIOUS
<1>1. /\ events + 2 <= MaxEvents /\ events' = events + 2
      /\ UNCHANGED <<ledgerVars, rows, created, newest, observations, planner, cursor, bundle,
                     unsure, removed, unaudited>>
      /\ export' = [pc |-> "evidence", read |-> [tasks |-> rows]]
  <2>1. Read(Reads[1]) = [tasks |-> rows]
    BY DEF Read, Reads, TasksOfCase
  <2> QED
    BY <2>1 DEF ExportBegin
<1>2. export'.read.tasks = rows /\ export' = [pc |-> "evidence", read |-> export'.read]
  BY <1>1
<1>3. \A t \in Tasks : rows[t] # None /\ rows[t].status = "completed" /\ rows[t].result = "bound" => HasAudit(t)'
  <2>1. \A t \in Tasks : rows[t] # None /\ rows[t].status = "completed" /\ rows[t].result = "bound" => HasAudit(t)
    BY DEF EvidenceInv, Ended, Settled, Audited
  <2> QED
    BY <1>1, <2>1 DEF HasAudit
<1>4. PublishedIsWhole'
  BY <1>1, Zenon DEF EvidenceInv, Exporting, PublishedIsWhole, Verifies, BoundResults,
     _validate_task_parent_graph, Attributed
<1>5. Exporting'
  BY <1>2, <1>3, <1>4 DEF Exporting
<1>6. Bounds'
  BY <1>1, EvidenceAssumption DEF EvidenceInv, Bounds
<1>7. UNCHANGED <<ledgerVars, rows, created, newest, observations, planner, cursor, unsure, removed, unaudited>>
  BY <1>1
<1> QED
  BY <1>5, <1>6, <1>7, AllButTheExport DEF EvidenceInv

LEMMA ExportRestStep == EvidenceInv /\ ExportRest => EvidenceInv'
<1> SUFFICES ASSUME EvidenceInv, ExportRest PROVE EvidenceInv'
  OBVIOUS
<1> DEFINE got == [f \in {"tasks", "evidence"} |-> IF f = Reads[1] THEN export.read[f] ELSE Read(f)[f]]
<1>1. /\ export.pc = "evidence" /\ export' = Idle /\ events' = events
      /\ bundle' = (IF ExportChecks(got.tasks, got.evidence) THEN got ELSE bundle)
      /\ UNCHANGED <<ledgerVars, rows, created, newest, observations, planner, cursor, unsure,
                     removed, unaudited>>
  BY Zenon DEF ExportRest
<1>2. got.tasks = export.read.tasks /\ got.evidence = ToSet(observations)
  BY DEF Read, Reads, EvidenceOfCase
<1> HIDE DEF got
<1>3. \A t \in Tasks : (/\ export.read.tasks[t] # None
                        /\ export.read.tasks[t].status = "completed"
                        /\ export.read.tasks[t].result = "bound") => HasAudit(t)
  BY <1>1 DEF EvidenceInv, Exporting, Idle
<1>4. \A t \in Tasks : HasAudit(t) => t \in unaudited \/ \E o \in got.evidence : o.task = t
  BY <1>2 DEF HasAudit, ToSet
<1>5. PublishedIsWhole'
  <2>1. CASE ExportChecks(got.tasks, got.evidence)
    <3>1. bundle' = got
      BY <1>1, <2>1
    <3>2. Verifies(got)
      BY <2>1 DEF ExportChecks, Verifies
    <3>3. \A t \in Tasks : got.tasks[t] # None /\ got.tasks[t].status = "completed" => got.tasks[t].result = "bound"
      BY <2>1 DEF ExportChecks, BoundResults
    <3>4. \A t \in Tasks : got.tasks[t] # None /\ got.tasks[t].status = "completed"
            => t \in unaudited \/ \E o \in got.evidence : o.task = t
      BY <1>2, <1>3, <1>4, <3>3
    <3>5. unaudited' = unaudited
      BY <1>1
    <3> QED
      BY <3>1, <3>2, <3>4, <3>5, Zenon DEF PublishedIsWhole, Verifies, BoundResults,
         _validate_task_parent_graph, Attributed
  <2>2. CASE ~ExportChecks(got.tasks, got.evidence)
    <3>1. bundle' = bundle /\ unaudited' = unaudited
      BY <1>1, <2>2
    <3> QED
      BY <3>1, Zenon DEF EvidenceInv, Exporting, PublishedIsWhole, Verifies, BoundResults,
         _validate_task_parent_graph, Attributed
  <2> QED
    BY <2>1, <2>2
<1>6. Exporting'
  BY <1>1, <1>5 DEF Exporting
<1>7. Bounds'
  BY <1>1 DEF EvidenceInv, Bounds
<1> QED
  BY <1>1, <1>6, <1>7, AllButTheExport DEF EvidenceInv

-----------------------------------------------------------------------------
(* The invariant, and what it says *)

LEMMA EvidenceInit == Init => EvidenceInv
<1> SUFFICES ASSUME Init PROVE EvidenceInv
  OBVIOUS
<1>1. /\ ledger = [a \in Atoms |-> [confirmations |-> 0, roles |-> 0]]
      /\ provenance = [a \in Atoms |-> [r \in Reporters |-> [seen |-> 0, latest |-> 0]]]
      /\ conflicts = {}
      /\ rows = [t \in Tasks |-> None] /\ created = 0
      /\ observations = <<>> /\ planner = Idle /\ cursor = 0
      /\ export = Idle /\ bundle = None
      /\ unsure = {} /\ removed = {} /\ unaudited = {} /\ events = 0
  BY DEF Init, InitLedger
<1>2. LedgerTypes
  BY <1>1 DEF LedgerTypes
<1>3. \A a \in Atoms : Reporting(a) = {} /\ ~Known(a) /\ [r \in Reporters |-> provenance[a][r].seen] = [r \in Reporters |-> 0]
  BY <1>1 DEF Reporting, Known
<1>4. Counted
  <2>1. SumFunction([r \in Reporters |-> 0]) = 0
    <3> DEFINE zero == [r \in Reporters |-> 0]
    <3>1. zero \in [Reporters -> Nat]
      OBVIOUS
    <3>2. FiveCounts(zero, Reporters) = 0
      BY ReportersAreFinite DEF FiveCounts
    <3> HIDE DEF zero
    <3>3. SumFunction(zero) = 0
      BY <3>1, <3>2, SumIsOfFive
    <3> QED
      BY <3>3 DEF zero
  <2>2. Cardinality({}) = 0
    BY FS_EmptySet
  <2>3. \A a \in Atoms : ledger[a].roles = 0 /\ ledger[a].confirmations = 0
    BY <1>1
  <2>4. ASSUME NEW a \in Atoms
        PROVE  /\ ledger[a].roles <= ledger[a].confirmations
               /\ \A r \in Reporting(a) : Known(a)
               /\ a \notin unsure =>
                    /\ ledger[a].roles = Cardinality(Reporting(a))
                    /\ ledger[a].confirmations = SumFunction([r \in Reporters |-> provenance[a][r].seen])
    <3>1. Reporting(a) = {} /\ [r \in Reporters |-> provenance[a][r].seen] = [r \in Reporters |-> 0]
      BY <1>3
    <3>2. Cardinality(Reporting(a)) = 0 /\ SumFunction([r \in Reporters |-> provenance[a][r].seen]) = 0
      BY <2>1, <2>2, <3>1, Zenon
    <3>3. ledger[a].roles <= ledger[a].confirmations
      BY <2>3
    <3> QED
      BY <2>3, <3>1, <3>2, <3>3, Zenon
  <2> QED
    BY <2>4 DEF Counted
<1>5. \A t \in Tasks : rows[t] = None
  BY <1>1
<1>6. RowTypes /\ Lineage /\ Ended
  <2>1. RowTypes
    BY <1>1, <1>5, EvidenceAssumption DEF RowTypes
  <2> QED
    BY <1>5, <2>1 DEF Lineage, Ended
<1>7. PlannerTypes /\ Working
  BY <1>1 DEF PlannerTypes, Working, Idle
<1>8. Conflicted
  <2>1. ASSUME NEW p \in Opposite, \A a \in p : Known(a)
        PROVE  \A a \in p : FALSE
    BY <1>3, <2>1, OppositeFindings
  <2>2. ASSUME NEW p \in Opposite, \A a \in p : Known(a)
        PROVE  p \in conflicts \/ p \cap unsure # {} \/ Undecided(p)
    BY <2>1, <2>2, LedgerAssumption
  <2> QED
    BY <2>2 DEF Conflicted
<1>9. Reported
  <2>1. Findings \subseteq Atoms
    BY EvidenceAssumption
  <2> QED
    BY <1>3, <2>1 DEF Reported
<1>10. ObservationTypes /\ Audited /\ Own
  <2>1. observations \in Seq(Observation) /\ Len(observations) = 0 /\ DOMAIN observations = {}
    BY <1>1
  <2>2. ObservationTypes
    BY <1>1, <2>1, EvidenceAssumption DEF ObservationTypes
  <2> QED
    BY <1>5, <2>1, <2>2 DEF Audited, Own
<1>11. Exporting
  BY <1>1 DEF Exporting, PublishedIsWhole
<1>12. Bounds
  BY <1>1, EvidenceAssumption DEF Bounds
<1> QED
  BY <1>2, <1>4, <1>6, <1>7, <1>8, <1>9, <1>10, <1>11, <1>12 DEF EvidenceInv

LEMMA EvidenceStep == EvidenceInv /\ [Next]_vars => EvidenceInv'
<1> SUFFICES ASSUME EvidenceInv, [Next]_vars PROVE EvidenceInv'
  OBVIOUS
<1>1. CASE UNCHANGED vars
  <2>1. UNCHANGED <<ledgerVars, rows, created, newest, observations, planner, cursor, unsure,
                    removed, unaudited>>
        /\ UNCHANGED <<export, bundle, events>>
    BY <1>1 DEF vars
  <2>2. AuditsStay /\ ObservationTypes'
    BY <2>1, AllButTheExport
  <2>3. Exporting'
    BY <2>1, <2>2, ExportStays
  <2>4. Bounds'
    BY <2>1 DEF EvidenceInv, Bounds
  <2> QED
    BY <2>1, <2>3, <2>4, AllButTheExport DEF EvidenceInv
<1>2. CASE Next
  <2>1. CASE Submit
    BY <2>1, SubmitStep
  <2>2. ASSUME NEW t \in Tasks, Start(t) \/ Finish(t) \/ Ask(t) \/ Fail(t) \/ Handoff(t)
        PROVE  EvidenceInv'
    BY <2>2, StartStep, FinishStep, AskStep, FailStep, HandoffStep
  <2>3. ASSUME NEW t \in Tasks, Execute(t) \/ VerifyOutcome(t)
        PROVE  EvidenceInv'
    BY <2>3, ExecutorStep
  <2>4. ASSUME NEW t \in Tasks, DropResult(t) \/ Compact(t) \/ PlanRead(t)
        PROVE  EvidenceInv'
    BY <2>4, DropResultStep, CompactStep, PlanReadStep
  <2>5. ASSUME NEW t \in Tasks, NEW killed \in BOOLEAN, Backfill(t, killed)
        PROVE  EvidenceInv'
    BY <2>5, BackfillStep
  <2>6. CASE PlanStore \/ PlanDetect
    BY <2>6, PlanStoreStep, PlanDetectStep
  <2>7. ASSUME NEW decision \in {"next", "stop"}, PlanDecide(decision)
        PROVE  EvidenceInv'
    BY <2>7, PlanDecideStep
  <2>8. CASE PlanCreate \/ PlannerKilled
    BY <2>8, PlanCreateStep, PlannerKilledStep
  <2>9. CASE ExportBegin \/ ExportRest
    BY <2>9, ExportBeginStep, ExportRestStep
  <2> QED
    BY <1>2, <2>1, <2>2, <2>3, <2>4, <2>5, <2>6, <2>7, <2>8, <2>9, Zenon DEF Next
<1> QED
  BY <1>1, <1>2

\* The invariant of the evidence of a case: counters, provenance, contradictions, what is
\* still to be planned, and what an exporter may read (EvidenceLedger.record, master.py,
\* worker.py, compaction and export of case bundles).
THEOREM EvidenceInvariant == Spec => []EvidenceInv
<1>1. Init => EvidenceInv
  BY EvidenceInit
<1>2. EvidenceInv /\ [Next]_vars => EvidenceInv'
  BY EvidenceStep
<1> QED
  BY <1>1, <1>2, PTL DEF Spec

LEMMA CorroborationFollows == EvidenceInv => CorroborationIsReal
<1> SUFFICES ASSUME EvidenceInv PROVE CorroborationIsReal
  OBVIOUS
<1>1. TypeOK
  <2>1. \A a \in Atoms : ledger[a].roles <= ledger[a].confirmations
    BY DEF EvidenceInv, Counted
  <2>2. conflicts \subseteq Opposite /\ unsure \subseteq Atoms
    BY DEF EvidenceInv, LedgerTypes
  <2>3. \A t \in Tasks : rows[t] # None => rows[t] \in Row /\ t <= created
    BY DEF EvidenceInv, RowTypes
  <2>4. /\ \A i \in DOMAIN observations : observations[i] \in Observation
        /\ Len(observations) <= MaxObservations
        /\ \A i, j \in DOMAIN observations : i # j =>
             <<observations[i].atom, observations[i].task>> # <<observations[j].atom, observations[j].task>>
        /\ removed \cup unaudited \subseteq Tasks
    BY DEF EvidenceInv, ObservationTypes
  <2>5. planner.pc \in {"idle", "store", "detect", "decide", "create"}
    BY DEF EvidenceInv, PlannerTypes, Idle
  <2>6. export.pc \in {"idle", "evidence", "publish"}
    BY DEF EvidenceInv, Exporting, Idle
  <2>7. cursor \in 0..MaxTasks /\ events \in 0..MaxEvents
    BY DEF EvidenceInv, Bounds
  <2> QED
    BY <2>1, <2>2, <2>3, <2>4, <2>5, <2>6, <2>7 DEF TypeOK
<1>2. ASSUME NEW a \in Atoms \ unsure
      PROVE  /\ ledger[a].roles = Cardinality({r \in Reporters : provenance[a][r].seen > 0})
             /\ ledger[a].confirmations = SumFunction([r \in Reporters |-> provenance[a][r].seen])
             /\ a \in Findings /\ removed = {} =>
                  ledger[a].roles <= Cardinality({rows[t].role :
                                        t \in {u \in Tasks : Exists(u) /\ a \in rows[u].found}})
  <2>1. ledger[a].roles = Cardinality(Reporting(a))
        /\ ledger[a].confirmations = SumFunction([r \in Reporters |-> provenance[a][r].seen])
    BY DEF EvidenceInv, Counted
  <2>2. ASSUME a \in Findings, removed = {}
        PROVE  Cardinality(Reporting(a)) <= Cardinality({rows[t].role :
                                              t \in {u \in Tasks : Exists(u) /\ a \in rows[u].found}})
    <3> DEFINE reporting == {rows[t].role : t \in {u \in Tasks : Exists(u) /\ a \in rows[u].found}}
    <3>1. \A r \in Reporting(a) : \E t \in Tasks : rows[t] # None /\ rows[t].role = r /\ a \in rows[t].found
      BY <2>2 DEF EvidenceInv, Reported
    <3>2. Reporting(a) \in SUBSET reporting
      BY <3>1 DEF Exists
    <3>3. reporting \in SUBSET Reporters
      BY EvidenceAssumption DEF EvidenceInv, RowTypes, Row, Exists
    <3> HIDE DEF reporting
    <3>4. IsFiniteSet(reporting)
      BY <3>3, ReportersAreFinite, FS_Subset
    <3>5. Cardinality(Reporting(a)) <= Cardinality(reporting)
      BY <3>2, <3>4, FS_Subset
    <3> QED
      BY <3>5 DEF reporting
  <2> QED
    BY <2>1, <2>2 DEF Reporting
<1> QED
  BY <1>1, <1>2 DEF CorroborationIsReal

\* The counters evidence_quality is read from are the number of roles that reported an atom
\* and the number of their reports, and no finding has more roles than have finished tasks
\* reporting it: whatever is interleaved, only a recording that raised can part them
\* (EvidenceLedger.record, its three callers).
THEOREM CountersAreReal == Spec => []CorroborationIsReal
  BY EvidenceInvariant, CorroborationFollows, PTL

\* Two findings in the ledger that contradict are CONTESTED, or a result that reported one
\* of them is still to be planned (detect_contradictions runs after record's commit).
THEOREM ContradictionsAreKnown == Spec => []ConflictKnown
<1>1. EvidenceInv => ConflictKnown
  <2> SUFFICES ASSUME EvidenceInv, NEW p \in Opposite, \A a \in p : Known(a)
               PROVE  \/ \A a \in p : evidence_quality(a) = "CONTESTED"
                      \/ p \cap unsure # {}
                      \/ \E t \in Tasks : Is(t, "completed") /\ rows[t].decision = "none" /\ rows[t].found \cap p # {}
    BY DEF ConflictKnown
  <2>1. p \in conflicts \/ p \cap unsure # {} \/ Undecided(p)
    BY DEF EvidenceInv, Conflicted
  <2>2. CASE p \in conflicts
    <3>1. ASSUME NEW a \in p  PROVE evidence_quality(a) = "CONTESTED"
      <4>1. Known(a) /\ \E q \in conflicts : a \in q
        BY <2>2
      <4> QED
        BY <4>1, Zenon DEF evidence_quality
    <3> QED
      BY <3>1
  <2>3. CASE Undecided(p)
    BY <2>3 DEF Undecided, Is, Exists
  <2> QED
    BY <2>1, <2>2, <2>3
<1> QED
  BY <1>1, EvidenceInvariant, PTL

\* A result compaction has dropped was in the ledger before, wherever the planner was killed
\* (compact_completed_results and the planner's two transactions).
THEOREM DroppedResultsLiveOn == Spec => []DroppedIsDurable
<1>1. EvidenceInv => DroppedIsDurable
  BY DEF EvidenceInv, Ended, Settled, Kept, DroppedIsDurable, Exists
<1> QED
  BY <1>1, EvidenceInvariant, PTL

\* A case no executor worked for and nothing was compacted of can be exported at any moment
\* (export_research_case_bundle, record_observation).
THEOREM HonestCasesExport == Spec => []HonestCaseExports
<1>1. EvidenceInv => HonestCaseExports
  <2> SUFFICES ASSUME EvidenceInv, removed = {}, \A t \in Tasks : Exists(t) => rows[t].role # "executor"
               PROVE  ExportChecks(TasksOfCase, EvidenceOfCase)
    BY DEF HonestCaseExports
  <2>0. \A t \in Tasks : rows[t] # None => rows[t] \in Row /\ rows[t].round = Round /\ rows[t].role # "executor"
    BY DEF EvidenceInv, RowTypes, Row, Exists
  <2>1. BoundResults(rows)
    BY <2>0 DEF EvidenceInv, Ended, Settled, BoundResults
  <2>2. _validate_task_parent_graph(rows)
    <3>1. ASSUME NEW t \in Tasks, rows[t] # None, rows[t].parent # 0
          PROVE  rows[rows[t].parent] # None /\ rows[rows[t].parent].round = rows[t].round
      <4>1. rows[t].parent \in Tasks
        BY <2>0, <3>1, EvidenceAssumption DEF Row, Tasks
      <4>2. rows[rows[t].parent] # None
        BY <3>1 DEF EvidenceInv, Lineage
      <4> QED
        BY <2>0, <3>1, <4>1, <4>2
    <3> QED
      BY <3>1 DEF _validate_task_parent_graph
  <2>3. Attributed(rows, ToSet(observations))
    <3>1. ASSUME NEW i \in DOMAIN observations
          PROVE  LET o == observations[i]
                 IN  rows[o.task] # None /\ rows[o.task].role = o.role /\ rows[o.task].round = o.round
      <4>1. observations[i] \in Observation
        BY DEF EvidenceInv, ObservationTypes
      <4>2. observations[i].task \in Tasks /\ observations[i].round = Round
        BY <4>1 DEF Observation
      <4>3. rows[observations[i].task] # None /\ rows[observations[i].task].role = observations[i].role
        BY <2>0 DEF EvidenceInv, Own
      <4> QED
        BY <2>0, <4>2, <4>3
    <3> QED
      BY <3>1 DEF Attributed, ToSet
  <2> QED
    BY <2>1, <2>2, <2>3 DEF ExportChecks, TasksOfCase, EvidenceOfCase
<1> QED
  BY <1>1, EvidenceInvariant, PTL

\* What was put in place of the output file verifies, and has an audit of every task it lists
\* as completed, although tasks and observations are read apart (research_case_bundle.py).
THEOREM PublishedStaysWhole == Spec => []PublishedIsWhole
<1>1. EvidenceInv => PublishedIsWhole
  BY DEF EvidenceInv, Exporting
<1> QED
  BY <1>1, EvidenceInvariant, PTL
=============================================================================
