--------------------------- MODULE PlannerEconomics ---------------------------
(***************************************************************************)
(* What the planner learns from measured actions: action_calibration and   *)
(* candidate_viability of shared/queue.py, and the scores of               *)
(* orchestrator/master.py built on them.  A history H is the set of the    *)
(* samples of planner_action_outcomes, each with its observed_at; all      *)
(* gains, factors and costs are in per cent, rounded down where the code   *)
(* rounds to four digits.                                                  *)
(***************************************************************************)
EXTENDS Integers, FiniteSets, Functions

CONSTANTS Roles,           \* roles the planner chooses between
          Cost,            \* action_cost
          Base,            \* information_gain the decision engine gives an action
          MinSamples,      \* min_samples of action_calibration (3)
          FullSamples,     \* full_samples (10)
          ViabilitySamples, \* min_samples of candidate_viability (10)
          RecentSamples,   \* recent_samples (5)
          ContextRows      \* LIMIT of contextual_action_history (8)

ASSUME EconomicsAssumption ==
  /\ Cost \in [Roles -> 1..100] /\ Base \in [Roles -> 0..100]
  /\ MinSamples \in Nat \ {0} /\ FullSamples \in Nat /\ FullSamples >= MinSamples
  /\ ViabilitySamples \in Nat /\ RecentSamples \in Nat \ {0} /\ ContextRows \in Nat

Percent == 0..100

MaxAdjustment == 25
RecoveryRatio == 75

AtMost(a, b) == IF a <= b THEN a ELSE b
AtLeast(a, b) == IF a >= b THEN a ELSE b

\* ORDER BY observed_at DESC LIMIT n.
Newest(H, n) == {s \in H : Cardinality({u \in H : u.at > s.at}) < n}

\* Realized over expected gain, capped at 150; expectations up to 5 do not count.
Weighed(H, field) == {s \in H : s[field] > 5}
Ratios(H, field) ==
  [s \in Weighed(H, field) |-> AtMost(150, (100 * s.actual) \div s[field])]

Mean(H, field) ==
  LET counted == Weighed(H, field)
  IN  IF counted = {} THEN 100 ELSE SumFunction(Ratios(H, field)) \div Cardinality(counted)

Of(H, role) == {s \in H : s.role = role}
From(H, source) == {s \in H : s.source = source}

\* The factor of action_calibration: the samples of the same source role when
\* there are enough, of every source otherwise; full weight from FullSamples on.
action_calibration(H, role, source) ==
  LET own  == From(Of(H, role), source)
      used == IF Cardinality(own) >= MinSamples THEN own ELSE Of(H, role)
      n == Cardinality(used)
      weight == AtMost(100, (100 * (n - MinSamples + 1)) \div (FullSamples - MinSamples + 1))
      shift == ((Mean(used, "raw") - 100) * weight) \div 100
  IN  IF n < MinSamples THEN 100
      ELSE 100 + AtLeast(-MaxAdjustment, AtMost(MaxAdjustment, shift))

\* candidate_viability: a penalty down to 25 once the recent samples of a long
\* enough history are persistently poor.
Penalty(H, source, candidate) ==
  LET own == From(Of(H, candidate), source)
      recent == Newest(own, RecentSamples)
  IN  IF /\ Cardinality(own) >= ViabilitySamples
         /\ Cardinality(Weighed(recent, "raw")) >= RecentSamples
         /\ Mean(recent, "raw") < RecoveryRatio
      THEN AtLeast(25, 25 + (75 * Mean(recent, "raw")) \div RecoveryRatio)
      ELSE 100

\* contextual_action_history: the samples of the branch, and when they are fewer
\* than two those of the same source role as well.
Contextual(H, role, source, branch) ==
  LET local == Newest({s \in Of(H, role) : s.of \in branch}, ContextRows)
      used  == {s.of : s \in local}
  IN  IF Cardinality(local) >= 2 THEN local
      ELSE local \cup {s \in Newest(From(Of(H, role), source), ContextRows) : s.of \notin used}

ContextualPenalty(H, role, source, branch) ==
  LET context == Contextual(H, role, source, branch)
      ratio == Mean(context, "expected")
  IN  IF Cardinality(Weighed(context, "expected")) >= 2 /\ ratio < 75
      THEN AtLeast(50, ratio) ELSE 100

\* What is left of expected_evidence_gain when the result's own factors are part
\* of Base: a role of the recent branch counts three quarters.
expected_evidence_gain(H, role, source, branch, recentRoles) ==
  (Base[role] * (IF role \in recentRoles THEN 75 ELSE 100)
              * ContextualPenalty(H, role, source, branch)) \div 10000

action_economics(H, role, source, branch, recentRoles) ==
  LET raw == expected_evidence_gain(H, role, source, branch, recentRoles)
      expected == AtMost(100, (raw * action_calibration(H, role, source)) \div 100)
  IN  [raw |-> raw, expected |-> expected, efficiency |-> (100 * expected) \div Cost[role]]

\* select_action orders candidates by efficiency times penalty, then by gain.
Score(H, role, source, branch, recentRoles) ==
  LET e == action_economics(H, role, source, branch, recentRoles)
  IN  1000 * (e.efficiency * Penalty(H, source, role)) + e.expected

\* The candidates sorted the wrong way round.
SeededSelectAction(H, C, source, branch, recentRoles) ==
  {r \in C : \A q \in C : Score(H, q, source, branch, recentRoles)
                            >= Score(H, r, source, branch, recentRoles)}

\* Among equals the order of the candidates decides, which depends on the result.
select_action(H, C, source, branch, recentRoles) ==
  {r \in C : \A q \in C : Score(H, q, source, branch, recentRoles)
                            <= Score(H, r, source, branch, recentRoles)}
=============================================================================
