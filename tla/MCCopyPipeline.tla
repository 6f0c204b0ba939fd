---------------------------- MODULE MCCopyPipeline ----------------------------
(* CopyPipeline for TLC: the instrument, and the kinds of executions.      *)
EXTENDS CopyPipeline

AnyQuantity == [step |-> 1, min |-> 0, capped |-> FALSE, max |-> 0]

TradesOnly == {"Trade"}
=============================================================================
