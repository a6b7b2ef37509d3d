-------------------------- MODULE MCSandboxLedger --------------------------
(* SandboxLedger for TLC.                                                  *)
EXTENDS SandboxLedger, TLC

Symmetry == Permutations(Jobs) \cup Permutations(Workers) \cup Permutations(Slots)
=============================================================================
