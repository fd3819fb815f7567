-------------------------- MODULE MCPlanTransport ---------------------------
(***************************************************************************)
(* Instance of PlanTransport for TLC: one snapshot, which moves the greens *)
(* at each cycle, so that the plans in flight differ.  What other          *)
(* snapshots make of a plan is MCDecisionEngine.  The unit of time is one  *)
(* second.                                                                 *)
(***************************************************************************)
EXTENDS PlanTransport

MCTargetGreens ==
  [level \in 0..3 |-> CASE level = 0 -> 20 [] level = 1 -> 30
                        [] level = 2 -> 40 [] level = 3 -> 50]

Observed(busy, emergencies) ==
  [vehicles  |-> [a \in Approaches |-> IF a \in busy THEN 20 ELSE 0],
   queue     |-> [a \in Approaches |-> 0],
   occupancy |-> [a \in Approaches |-> 0],
   emergency |-> [a \in Approaches |-> a \in emergencies]]

MCSnapshots ==
  {Observed({"North"}, {}), Observed({}, {"North", "East"})}

=============================================================================
