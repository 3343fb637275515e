---------------------------- MODULE ReplayLedger ----------------------------
(***************************************************************************)
(* What the anchored replay registry promises: one append-only log of     *)
(* attestations in which no run id and no nonce occurs twice, and calls    *)
(* that are told "valid" only about a head the log has gone through.      *)
(***************************************************************************)
EXTENDS Naturals, Sequences

CONSTANTS
    Attestations,   \* signed attestations of one provider
    RunOf,          \* run id of an attestation
    NonceOf         \* nonce of an attestation

VARIABLES
    log,            \* what has been accepted, in order
    acked           \* heads that were returned to callers as valid

(***************************************************************************)
(* Two attestations with the same run id or nonce: one replays the other.  *)
(***************************************************************************)
Clash(a, b) == RunOf[a] = RunOf[b] \/ NonceOf[a] = NonceOf[b]

Fresh(a, h) == \A i \in DOMAIN h : ~Clash(a, h[i])

LedgerInit == log = <<>> /\ acked = {}

Accept(a) ==
    /\ Fresh(a, log)
    /\ log' = Append(log, a)
    /\ UNCHANGED acked

Report(n) ==
    /\ acked' = acked \cup {SubSeq(log, 1, n)}
    /\ UNCHANGED log

LedgerNext ==
    \/ \E a \in Attestations : Accept(a)
    \/ \E n \in 1..Len(log) : Report(n)

LedgerSpec == LedgerInit /\ [][LedgerNext]_<<log, acked>>
=============================================================================
