--------------------------- MODULE MCCaseEvidence ---------------------------
(* Two contradicting findings of one identity and a third, in one case. *)
EXTENDS CaseEvidence

CONSTANTS risk, safe, plain, audit, receipt, outcome

Contradicting == {{risk, safe}}
Reports == {{risk, plain}, {safe}, {}}
AllReporters == Roles \cup {"outcome_verifier"}
=============================================================================
