-------------------------- MODULE MCMirrorExecution --------------------------
(* MirrorExecution for TLC: the instrument, and the kinds of executions.   *)
EXTENDS MirrorExecution, TLC

AnyQuantity == [step |-> 1, min |-> 0, capped |-> FALSE, max |-> 0]
CappedLot   == [step |-> 1, min |-> 1, capped |-> TRUE, max |-> 2]

TradesOnly    == {"Trade"}
TradesAndBust == {"Trade", "BustTrade"}

FollowerSymmetry == Permutations(Followers)
=============================================================================
