------------------------- MODULE MCPlannerFeedback -------------------------
(* Small planner for TLC: the first role is cheaper, both promise the same. *)
EXTENDS PlannerFeedback, TLC

CONSTANTS analyst, validator

CostOfEach == analyst :> 35 @@ validator :> 50
BaseOfEach == analyst :> 60 @@ validator :> 60
=============================================================================
