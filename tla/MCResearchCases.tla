-------------------------- MODULE MCResearchCases --------------------------
(* Small case registries for TLC. *)
EXTENDS ResearchCases, TLC

CONSTANTS c1, c2, r1, r2

\* A case with two rounds, one or none, or closed; a second that shares a round id with it.
TwoCases == c1 :> ({[runnable |-> TRUE, rounds |-> rs] : rs \in {{}, {r1, r2}}}
                     \cup {[runnable |-> FALSE, rounds |-> {}]})
              @@ c2 :> {[runnable |-> TRUE, rounds |-> {r1}]}

\* One case with two rounds, one round or none.
OneCase == c1 :> {[runnable |-> TRUE, rounds |-> rs] : rs \in {{}, {r1}, {r1, r2}}}
=============================================================================
