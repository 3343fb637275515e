------------------------------- MODULE MCFarm -------------------------------
(* Small farms for TLC. *)
EXTENDS Farm, TLC

CONSTANTS a1, a2, a3, v1, e1

\* Three agent processes, one of which may die.
AgentTrio == {a1, a2, a3}
AgentTrioRole == [w \in AgentTrio |-> "agent"]

\* The two that cannot die run the same code.
Survivors == Permutations({a2, a3})

\* Two agent processes.
AgentPair == {a1, a2}
AgentPairRole == [w \in AgentPair |-> "agent"]

\* One process per role.
OneEach == {a1, v1, e1}
OneEachRole == a1 :> "agent" @@ v1 :> "validator" @@ e1 :> "executor"
=============================================================================
