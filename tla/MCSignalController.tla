------------------------ MODULE MCSignalController -------------------------
(***************************************************************************)
(* Instances of SignalController for TLC.  Durations are in half seconds,  *)
(* so that a timer period is 2 and an all-red of 500 ms is 1.              *)
(***************************************************************************)
EXTENDS SignalController

Plan(id, greenNS, greenEW, yellow, allRed, cycle, ns, ew) ==
  [planId |-> id, greenNorthSouth |-> greenNS, greenEastWest |-> greenEW,
   yellow |-> yellow, allRed |-> allRed, cycleLength |-> cycle,
   emergencyNorthSouth |-> ns, emergencyEastWest |-> ew]

(* Two normal plans, an emergency for each direction, and plans that       *)
(* ValidatePlan refuses: both emergencies, no id, a wrong cycle length,    *)
(* a green below the limit.                                                *)
Normal  == {Plan(1, 32, 11, 6, 2, 0, FALSE, FALSE), Plan(2, 4, 20, 3, 1, 32, FALSE, FALSE)}
Urgent  == {Plan(3, 10, 10, 6, 2, 36, TRUE, FALSE), Plan(4, 10, 10, 6, 2, 36, FALSE, TRUE)}
Refused == {Plan(5, 10, 10, 6, 2, 0, TRUE, TRUE), Plan(0, 10, 10, 6, 2, 0, FALSE, FALSE),
            Plan(6, 10, 10, 6, 2, 99, FALSE, FALSE), Plan(7, 1, 10, 6, 2, 0, FALSE, FALSE),
            Plan(8, 10, 10, 6, 21, 0, FALSE, FALSE)}

MCTimingPlans   == Normal \cup Urgent \cup Refused

MCLateTicks     == {0, 2}

(* A wake-up misses a bounded number of periods.                           *)
ASSUME MCLateness == LatenessBounded

=============================================================================
