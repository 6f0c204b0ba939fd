--------------------------- MODULE MCEventIntake ---------------------------
(* EventIntake for TLC: fingerprints are interchangeable, and no property  *)
(* of the safety run names one.                                            *)
EXTENDS EventIntake, TLC

KeySymmetry == Permutations(Keys)
=============================================================================
