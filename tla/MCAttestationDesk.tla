------------------------- MODULE MCAttestationDesk -------------------------
(* A small desk for TLC. *)
EXTENDS AttestationDesk, TLC

CONSTANTS o1, o2, k1, k2, e1, e2, c1, c2, d1, d2

OneCase == e1 :> c1 @@ e2 :> c1
SameRoles == Permutations(Operators) \cup Permutations(Evidence)
=============================================================================
