---------------------------- MODULE OneTimeGrant ----------------------------
(***************************************************************************)
(* What a capability grant promises its issuer, whatever the number of     *)
(* processes that hold a copy of it: it is spent once or revoked, never    *)
(* both, and the action it authorises is started at most once, after the   *)
(* grant was spent.                                                        *)
(***************************************************************************)
EXTENDS Naturals

CONSTANT Grant
VARIABLES phase,  \* phase[g]: open, spent or revoked
          uses    \* uses[g]: how often the authorised action was started

Init == /\ phase = [g \in Grant |-> "open"]
        /\ uses = [g \in Grant |-> 0]

Spend(g) ==
  /\ phase[g] = "open"
  /\ phase' = [phase EXCEPT ![g] = "spent"]
  /\ UNCHANGED uses

Revoke(g) ==
  /\ phase[g] = "open"
  /\ phase' = [phase EXCEPT ![g] = "revoked"]
  /\ UNCHANGED uses

Use(g) ==
  /\ phase[g] = "spent" /\ uses[g] = 0
  /\ uses' = [uses EXCEPT ![g] = 1]
  /\ UNCHANGED phase

Next == \E g \in Grant : Spend(g) \/ Revoke(g) \/ Use(g)

Spec == Init /\ [][Next]_<<phase, uses>>
=============================================================================
