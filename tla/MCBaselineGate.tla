--------------------------- MODULE MCBaselineGate ---------------------------
(* BaselineGate for TLC.                                                   *)
EXTENDS BaselineGate, TLC

\* Rows of one kind are interchangeable.
Symmetry == Permutations(Nops) \cup Permutations(Oracles) \cup Permutations(Llms)
=============================================================================
