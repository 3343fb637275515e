-------------------------- MODULE CapabilityPolicy --------------------------
(***************************************************************************)
(* Who may do what, as operators on values: the static policy of           *)
(* shared/capability_policy.py, its narrowing by the dynamic authority of  *)
(* an agent (shared/effective_capability.py), the conditions of elevated   *)
(* authority (shared/authority_transition.py), and the trust an outcome    *)
(* earns by an attestation (shared/attestor_registry.py and                *)
(* shared/trust_evaluation.py).  A signature is the key that made it.      *)
(***************************************************************************)
EXTENDS Integers, FiniteSets

CONSTANTS MinTrusted,     \* min_trusted_outcomes_for_elevated (code: 3)
          MaxFailed,      \* max_failed_outcomes_for_elevated (code: 0)
          TrustedIssuers  \* trusted_issuer_public_keys, pinned out of band

ASSUME PolicyAssumption == MinTrusted \in Nat \ {0} /\ MaxFailed \in Nat

-----------------------------------------------------------------------------
(* CapabilityPolicy *)

VERSION == "capability-policy-v1"

AllowedActions(role) ==
  CASE role = "developer" -> {"inspect_code", "modify_code", "run_tests", "deploy", "publish",
         "delete", "transfer", "release", "api_request", "mcp_tool_call"}
    [] role = "security_checker" -> {"security_scan", "inspect_code", "verify"}
    [] role = "validator" -> {"validate", "verify"}
    [] role = "lab_runner" -> {"run_synthetic_lab", "inspect_evidence", "verify"}
    [] role \in {"researcher", "source_researcher"} -> {"research", "read_public_docs"}
    [] role \in {"analyst", "crypto_analyst"} -> {"analyze", "inspect_evidence"}
    [] role = "opportunity_hunter" -> {"identify_opportunities", "research"}
    [] role = "model_researcher" -> {"model_research", "research"}
    [] OTHER -> {}

SensitiveEvidence(action) ==
  CASE action = "modify_code" -> {"tests_passed"}
    [] action = "deploy" -> {"tests_passed", "security_scan_passed", "rollback_ready"}
    [] action \in {"publish", "release"} ->
         {"tests_passed", "security_scan_passed", "artifact_integrity"}
    [] action = "delete" -> {"recovery_ready"}
    [] action = "transfer" ->
         {"authorization_confirmed", "destination_allowed", "simulation_passed"}
    [] action \in {"api_request", "mcp_tool_call"} -> {"destination_allowed"}
    [] OTHER -> {}

Sensitive(action) == SensitiveEvidence(action) # {}

SourceRoles(claim) ==
  CASE claim \in {"tests_passed", "rollback_ready", "rollback_or_recovery_ready",
                  "recovery_ready"} -> {"developer", "validator"}
    [] claim = "artifact_integrity" -> {"developer", "security_checker", "validator"}
    [] claim \in {"security_scan_passed", "destination_allowed", "simulation_passed",
                  "privilege_scope_verified"} -> {"security_checker", "validator"}
    [] claim \in {"authorization_confirmed", "financial_authorization",
                  "explicit_evidence"} -> {"validator"}
    [] OTHER -> {}

BlockedTargets == {"unknown_external_endpoint", "production_database", "production_environment"}
BlockedDestinations == {"production_database", "production", "production_environment",
                        "production_api", "unauthorized_external_destination"}
BlockedScopes == {"credentials", "private_keys", "secrets", "api_keys", "passwords"}

required_evidence(intent) ==
  LET named == SensitiveEvidence(intent.action)
        \cup (IF intent.financial THEN {"financial_authorization", "destination_allowed"} ELSE {})
        \cup (IF intent.privileged THEN {"privilege_scope_verified"} ELSE {})
        \cup (IF intent.irreversible THEN {"rollback_or_recovery_ready"} ELSE {})
  IN named \cup (IF intent.evidence_required /\ named = {} THEN {"explicit_evidence"} ELSE {})

\* check(), of the policy as it is built: network, shell and files are allowed.
check(intent) ==
  IF \/ intent.target \in BlockedTargets
     \/ intent.destination \in BlockedDestinations
     \/ intent.data_scope \in BlockedScopes
     \/ intent.action \notin AllowedActions(intent.role)
  THEN "BLOCK"
  ELSE IF \/ Sensitive(intent.action) \/ ~intent.read_only \/ intent.irreversible
          \/ intent.financial \/ intent.privileged \/ intent.evidence_required
  THEN "REQUIRE_EVIDENCE" ELSE "ALLOW"

-----------------------------------------------------------------------------
(* Dynamic authority *)

AuthorityStates == {"PROBATION", "LIMITED", "STANDARD", "ELEVATED", "SUSPENDED"}

SafeActions == {"research", "read_public_docs", "analyze", "inspect_evidence", "inspect_code",
                "security_scan", "verify", "validate", "identify_opportunities",
                "model_research", "run_tests"}

Harmless(intent) ==
  /\ intent.action \in SafeActions /\ intent.read_only
  /\ ~(intent.irreversible \/ intent.financial \/ intent.privileged)
  /\ ~(intent.requires_network \/ intent.requires_shell \/ intent.requires_filesystem)

evaluate_effective_capability(intent, state) ==
  IF \/ check(intent) = "BLOCK"
     \/ state = "SUSPENDED"
     \/ state \in {"PROBATION", "LIMITED"} /\ ~Harmless(intent)
  THEN "BLOCK" ELSE check(intent)

evaluate_trusted(state) == IF state \in {"SUSPENDED", "ELEVATED"} THEN state ELSE "STANDARD"

can_governance_promote_elevated(trusted, failed) ==
  trusted >= MinTrusted /\ failed <= MaxFailed

-----------------------------------------------------------------------------
(* Attested outcomes.  A published registry is [issuer, attestors], with at *)
(* most one record per attestor id; times are integers.                     *)

Within(record, t) == record.from <= t /\ t < record.until

Records(published, attestor) == {r \in published.attestors : r.attestor = attestor}

\* verify_registry: only the pinning can fail, its signature is the issuer's.
verify_registry(published) == published.issuer \in TrustedIssuers

\* resolve_attestor, of the attestor's record: status, validity and verifiers.
_active(record, now) == record.status = "ACTIVE" /\ Within(record, now)

\* An unlisted verifier and an untrusted issuer pass.
SeededVerifyAttestation(att, proof, published, now) ==
  \E record \in Records(published, att.attestor) :
    att.proof = proof.id /\ _active(record, now) /\ att.by = record.key

verify_attestation(att, proof, published, now) ==
  /\ att.proof = proof.id
  /\ verify_registry(published)
  /\ \E record \in Records(published, att.attestor) :
       /\ _active(record, now) /\ att.verifier \in record.verifiers
       /\ att.key_id = record.key_id
       /\ Within(record, att.issued)
       /\ att.by = record.key

\* Why a refused attestation is EXPIRED rather than UNTRUSTED: the attestor's
\* validity is over, or does not cover the time of signing.
Expired(att, proof, published, now) ==
  /\ att.proof = proof.id /\ verify_registry(published)
  /\ \E record \in Records(published, att.attestor) :
       \/ ~_active(record, now) /\ now >= record.until
       \/ /\ _active(record, now) /\ att.verifier \in record.verifiers
          /\ att.key_id = record.key_id /\ ~Within(record, att.issued)

evaluate_trust(att, proof, published, now) ==
  IF verify_attestation(att, proof, published, now) THEN "TRUSTED"
  ELSE IF Expired(att, proof, published, now) THEN "EXPIRED" ELSE "UNTRUSTED"
=============================================================================
