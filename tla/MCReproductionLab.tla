------------------------- MODULE MCReproductionLab -------------------------
(* A small lab for TLC: the second contract is for another case and commit. *)
EXTENDS ReproductionLab, TLC

CONSTANTS r1, r2, k1, k2, m1, m2, p1, p2, d1, d2, case1, case2

CommitOfEach == k1 :> m1 @@ k2 :> m2
CaseOfEach == k1 :> case1 @@ k2 :> case2
SameRoles == Permutations(Runs) \cup Permutations(Paths) \cup Permutations(Dirs)
=============================================================================
