-------------------------- MODULE MCDecisionEngine --------------------------
(***************************************************************************)
(* DecisionEngine with the constants of decision_constants.h, in units of  *)
(* 500 ms, and a snapshot for every pair of demand levels.                 *)
(***************************************************************************)
EXTENDS DecisionEngine

MCTargetGreens ==
  [level \in 0..3 |-> CASE level = 0 -> 40 [] level = 1 -> 60
                        [] level = 2 -> 80 [] level = 3 -> 100]

(* One direction's measurements, the same on both approaches: a score just *)
(* below 30 (7 vehicles), of exactly 30, of 60 from the vehicles alone,    *)
(* and of exactly 90.                                                      *)
Level == 0..3
Vehicles(level)  == CASE level = 0 -> 7  [] level = 1 -> 5  [] OTHER -> 40
Queue(level)     == CASE level = 0 -> 23 [] level = 1 -> 30 [] level = 2 -> 0 [] OTHER -> 100
Occupancy(level) == CASE level = 0 -> 0  [] level = 1 -> 30 [] level = 2 -> 0 [] OTHER -> 50

At(ns, ew, approach) == IF approach \in Pair(NORTH_SOUTH) THEN ns ELSE ew

Observed(ns, ew, emergencies) ==
  [vehicles  |-> [a \in Approaches |-> Vehicles(At(ns, ew, a))],
   queue     |-> [a \in Approaches |-> Queue(At(ns, ew, a))],
   occupancy |-> [a \in Approaches |-> Occupancy(At(ns, ew, a))],
   emergency |-> [a \in Approaches |-> a \in emergencies]]

MCSnapshots ==
  {Observed(ns, ew, {}) : ns \in Level, ew \in Level}
    \cup {Observed(3, 0, e) : e \in {{"North"}, {"West"}, {"South", "East"}}}

(* Seven decisions are enough for these targets.                           *)
MCDistance ==
  [k \in 0..6 |-> CASE k <= 4 -> 60 - 10 * k [] k = 5 -> 13 [] k = 6 -> 10]

ASSUME MCSettling == Settling(40, 100, MCDistance)

=============================================================================
