----------------------------- MODULE MCRecovery -----------------------------
(* Small instances of Recovery for TLC. *)
EXTENDS Recovery, TLC

\* Processes of one kind run the same code.
Alike == Permutations(Execs) \cup Permutations(Coords)
=============================================================================
