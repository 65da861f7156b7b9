--------------------------- MODULE MCDeltaFrames ---------------------------
(***************************************************************************)
(* One player, number 1, and two other entities, in combinations that make *)
(* a difference: more than a frame may have, then changed and new ones,     *)
(* one taken out again, and with room for two updates only.                *)
(***************************************************************************)
EXTENDS DeltaFrames, TLC

View(s, b, r) == [seen |-> s, behind |-> b, room |-> r]
Seen == {View(1 :> 1 @@ 2 :> 1 @@ 3 :> 1, {}, 9), View(2 :> 2 @@ 3 :> 1, {2}, 2)}
=============================================================================
