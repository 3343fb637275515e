------------------------- MODULE MCExecutionHandoff -------------------------
(* One agent, two intents that need evidence, one that is blocked, and an   *)
(* attestor whose key was replaced at time 1 in the second registry.        *)
EXTENDS ExecutionHandoff, TLC

CONSTANTS root, other, k1, k2, b1, b2

Intent(role, action, destination, readOnly) ==
  [role |-> role, action |-> action, target |-> "", destination |-> destination,
   data_scope |-> "", irreversible |-> FALSE, requires_network |-> FALSE,
   requires_shell |-> FALSE, requires_filesystem |-> FALSE, financial |-> FALSE,
   privileged |-> FALSE, read_only |-> readOnly, evidence_required |-> readOnly]

SomeIntents == {Intent("developer", "delete", "", FALSE),
                Intent("validator", "verify", "", TRUE),
                Intent("developer", "delete", "production", FALSE)}
Claim(type, source) == [type |-> type, source |-> source]
SomeEvidence == {{}, {Claim("recovery_ready", "developer")}, {Claim("recovery_ready", "analyst")},
                 {Claim("explicit_evidence", "validator")}}

Listed(key, status, from, until, verifiers) ==
  [attestor |-> "a", key_id |-> key, key |-> key, status |-> status, from |-> from,
   until |-> until, verifiers |-> verifiers]
SomeRegistries ==
  {[issuer |-> root, attestors |-> {Listed(k1, "ACTIVE", 0, 1, {"v"})}],
   [issuer |-> root, attestors |-> {Listed(k2, "ACTIVE", 1, 3, {"v"})}],
   [issuer |-> root, attestors |-> {Listed(k1, "REVOKED", 0, 1, {"v"})}],
   [issuer |-> other, attestors |-> {Listed(k2, "ACTIVE", 0, 3, {"v", "w"})}]}
SomeRemit == k1 :> {"v"} @@ k2 :> {"v"}
SomeProofs == {[id |-> "p1", verifier |-> "v"]}
\* Sound in all but one respect at most: by another key, about another proof, by another verifier.
SomeAttestations ==
  {a \in [attestor : {"a"}, key_id : {k1, k2}, by : {k1, k2}, proof : {"p1", "p2"},
           verifier : {"v", "w"}, issued : 0..1] :
     Cardinality({a.proof, "p1"}) + Cardinality({a.verifier, "v"}) + Cardinality({a.by, a.key_id}) <= 4}
Deletes == <<"delete">>
Same == Permutations(Callers) \cup Permutations(Builds)
=============================================================================
