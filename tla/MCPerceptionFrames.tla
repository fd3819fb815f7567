------------------------ MODULE MCPerceptionFrames -------------------------
(***************************************************************************)
(* PerceptionFrames with two lanes, of which the first is captured twice:  *)
(* its second frame finds the slot full, the preview taken, or a buffer    *)
(* that the other lane has used.                                           *)
(***************************************************************************)
EXTENDS PerceptionFrames, TLC

MCMaxFrames == 0 :> 2 @@ 1 :> 1

=============================================================================
