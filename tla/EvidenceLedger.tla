--------------------------- MODULE EvidenceLedger ---------------------------
(***************************************************************************)
(* The durable evidence ledger of shared/evidence_ledger.py.  An atom is   *)
(* one normalized piece of evidence; the ledger counts how often and by    *)
(* how many roles it was reported, provenance keeps the count of each      *)
(* role, and two findings of one identity with opposite status contradict. *)
(* Zero confirmations or observations stand for an absent row.             *)
(***************************************************************************)
EXTENDS Naturals, FiniteSets

CONSTANTS Atoms, Reporters, \* Reporters: the roles evidence is recorded under
          Opposite          \* pairs {a, b} of findings that contradict

ASSUME LedgerAssumption == Opposite \subseteq SUBSET Atoms /\ {} \notin Opposite

VARIABLES ledger,     \* ledger[a]: [confirmations, roles]
          provenance, \* provenance[a][r]: [seen, latest]: count and latest task of role r
          conflicts   \* contradictions on record

ledgerVars == <<ledger, provenance, conflicts>>

InitLedger ==
  /\ ledger = [a \in Atoms |-> [confirmations |-> 0, roles |-> 0]]
  /\ provenance = [a \in Atoms |-> [r \in Reporters |-> [seen |-> 0, latest |-> 0]]]
  /\ conflicts = {}

Known(a) == ledger[a].confirmations > 0

\* What the two SELECTs of record see of one atom.
Seen(a, role) == [known |-> Known(a), by |-> provenance[a][role]]

\* The same task reporting the same atom again is not counted.
Repeated(view, t) == view.by.seen > 0 /\ view.by.latest = t

\* The writes for one atom, from what was read.
SeededCount(entry, view) ==
  [confirmations |-> entry.confirmations + 1, roles |-> entry.roles + 1]
Count(entry, view) ==
  [confirmations |-> entry.confirmations + 1,
   roles |-> entry.roles + (IF view.by.seen = 0 THEN 1 ELSE 0)]

\* An INSERT on a stale read meets the row another process has written since.
ClashesInLedger(a, view) == ~view.known /\ Known(a)
ClashesInProvenance(a, role, view) == view.by.seen = 0 /\ provenance[a][role].seen > 0

\* record, up to its commit: every atom of the set is counted once.
record(t, role, atoms, view) ==
  LET counted == {a \in atoms : ~Repeated(view[a], t)} IN
  /\ ledger' = [a \in Atoms |-> IF a \in counted THEN Count(ledger[a], view[a]) ELSE ledger[a]]
  /\ provenance' = [a \in Atoms |->
       IF a \in counted
       THEN [provenance[a] EXCEPT ![role] = [seen |-> @.seen + 1, latest |-> t]]
       ELSE provenance[a]]

\* detect_contradictions: what the reported findings contradict in the ledger.
SeededContradictions(atoms, known) == {p \in Opposite : p \subseteq atoms \cap known}
Contradictions(atoms, known) == {p \in Opposite : p \cap atoms # {} /\ p \subseteq known}

record_contradictions(pairs) == conflicts' = conflicts \cup pairs

evidence_quality(a) ==
  IF ~Known(a) THEN "unknown"
  ELSE IF \E p \in conflicts : a \in p THEN "CONTESTED"
  ELSE IF ledger[a].roles >= 3 THEN "MULTI_SOURCE"
  ELSE IF ledger[a].roles = 2 THEN "CORROBORATED"
  ELSE "UNCONFIRMED"
=============================================================================
