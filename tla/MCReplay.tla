------------------------------ MODULE MCReplay ------------------------------
(* Small instances of ReplayRegistry for TLC. *)
EXTENDS ReplayRegistry, TLC

\* Distinct attestations have run ids and nonces of their own; a replay is
\* an attestation that is submitted again.
Own == [a \in Attestations |-> a]

\* Callers run the same code, and copies and attestations start alike.
Alike == Permutations(Callers) \cup Permutations(Copies)
         \cup Permutations(Attestations)
=============================================================================
