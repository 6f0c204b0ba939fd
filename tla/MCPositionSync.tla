--------------------------- MODULE MCPositionSync ---------------------------
(* PositionSync for TLC.                                                   *)
EXTENDS PositionSync, TLC

FollowerSymmetry == Permutations(Followers)

(* The master uses all settings; or a long position and none, where the    *)
(* leverage changes with the stop.                                         *)
AnySettings == Settings

TwoSettings == {s \in Settings : /\ s.side # "Sell"
                                 /\ s.lev = IF s.side = "none" \/ s.stop # 0 THEN 1 ELSE 2}
=============================================================================
