--------------------------- MODULE MCExperiments ----------------------------
(* A finite instance of Experiments for TLC: two concurrent calls.          *)
EXTENDS Experiments, TLC

CallSymmetry == Permutations(Calls)
=============================================================================
