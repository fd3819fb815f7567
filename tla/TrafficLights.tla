--------------------------- MODULE TrafficLights ---------------------------
(***************************************************************************)
(* What the signal state machine promises the road: the lamps of two       *)
(* crossing directions.  A direction gets green only when every lamp is    *)
(* red and only in turn, and loses it through its own yellow.              *)
(***************************************************************************)

CONSTANT Groups   (* the crossing directions                               *)

VARIABLES
  lamp,   (* the colour each direction shows                               *)
  turn    (* the direction that had green last                             *)

Colours == {"RED", "YELLOW", "GREEN"}

Init == \E g \in Groups :
  /\ turn = g
  /\ lamp = [h \in Groups |-> IF h = g THEN "GREEN" ELSE "RED"]

ToYellow(g) ==
  /\ lamp[g] = "GREEN"
  /\ lamp' = [lamp EXCEPT ![g] = "YELLOW"]
  /\ UNCHANGED turn

ToRed(g) ==
  /\ lamp[g] = "YELLOW"
  /\ lamp' = [lamp EXCEPT ![g] = "RED"]
  /\ UNCHANGED turn

ToGreen(g) ==
  /\ \A h \in Groups : lamp[h] = "RED"
  /\ turn # g
  /\ lamp' = [lamp EXCEPT ![g] = "GREEN"]
  /\ turn' = g

Next == \E g \in Groups : ToYellow(g) \/ ToRed(g) \/ ToGreen(g)

Spec == Init /\ [][Next]_<<lamp, turn>>

(* At most one direction is not red: the two never conflict.               *)
NoConflict ==
  \A g, h \in Groups : g # h => lamp[g] = "RED" \/ lamp[h] = "RED"

=============================================================================
