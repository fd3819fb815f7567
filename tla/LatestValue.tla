----------------------------- MODULE LatestValue ----------------------------
(***************************************************************************)
(* What a latest-value channel between two processes promises: the         *)
(* consumer takes the newest value there is, each value at most once and   *)
(* never an older one after a newer one.  A value may be overwritten       *)
(* before it is taken, or lost with a process that dies.                   *)
(***************************************************************************)
EXTENDS Naturals

VARIABLES
  available,   (* the value a consumer would take, 0 when there is none     *)
  newest,      (* the newest value ever made available                     *)
  taken        (* the value taken last                                     *)

Init == available = 0 /\ newest = 0 /\ taken = 0

MakeAvailable ==
  /\ newest' > newest
  /\ available' = newest'
  /\ UNCHANGED taken

Take ==
  /\ available # 0
  /\ taken' = available
  /\ available' = 0
  /\ UNCHANGED newest

Lose == available' = 0 /\ UNCHANGED <<newest, taken>>

Next == MakeAvailable \/ Take \/ Lose

Spec == Init /\ [][Next]_<<available, newest, taken>>

=============================================================================
