--------------------------- MODULE MCSignalOutput ---------------------------
(* Instances of SignalOutput for TLC: whole timer periods, a short cycle.  *)
EXTENDS SignalOutput

Plan(id, greenNS, greenEW, yellow, allRed, ns, ew) ==
  [planId |-> id, greenNorthSouth |-> greenNS, greenEastWest |-> greenEW,
   yellow |-> yellow, allRed |-> allRed, cycleLength |-> 0,
   emergencyNorthSouth |-> ns, emergencyEastWest |-> ew]

(* One new plan, and an emergency for a direction.                         *)
OutTimingPlans == {Plan(2, 2, 4, 2, 1, FALSE, FALSE), Plan(4, 4, 4, 1, 1, FALSE, TRUE)}
OutLateTicks   == {0}

=============================================================================
