------------------------ MODULE MCHealthSupervision -------------------------
(***************************************************************************)
(* HealthSupervision with the periods and ranges of the three reporters.   *)
(* A tick is 500 ms for the controller and the decision process and 50 ms  *)
(* for perception.  Work may take as long as its deadline (5 s, 10 s);     *)
(* for perception, where the deadline is 30 s and the longest interval of  *)
(* heartbeats 10 s, both are shortened to what just fits.                  *)
(***************************************************************************)
EXTENDS HealthSupervision

Of(c, d, p) == [a \in Apps |-> CASE a = "controller" -> c [] a = "decision" -> d
                                 [] a = "perception" -> p]

MCPeriod        == Of(2, 5, 5)
MCInterval      == Of(2, 1, 1)
MCHeartbeatMin  == Of(1, 1, 2)
MCHeartbeatMax  == Of(30, 30, 18)
MCCycle         == Of(1, 1, 2)
MCMaxLateness   == Of(3, 2, 1)
MCMaxWork       == Of(10, 20, 12)

(* The bounds are what the ranges of the reporters leave room for.         *)
ASSUME MCBearable == \A a \in Supervised : Bearable(a)

=============================================================================
