------------------------ MODULE MCInstrumentInfoCache ------------------------
(* A step of one, one that changes the minimum, and one with a maximum     *)
(* that is no multiple of its step.                                        *)
EXTENDS InstrumentInfoCache

SmallSpecs == {[step |-> 1, min |-> 3, capped |-> FALSE, max |-> 0],
               [step |-> 2, min |-> 2, capped |-> TRUE,  max |-> 5],
               [step |-> 3, min |-> 1, capped |-> TRUE,  max |-> 6]}
=============================================================================
