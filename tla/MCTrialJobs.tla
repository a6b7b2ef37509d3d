---------------------------- MODULE MCTrialJobs ----------------------------
(* TrialJobs for TLC.                                                      *)
EXTENDS TrialJobs, TLC

\* Worker ids are interchangeable, and so are trial ids of the same origin.
Symmetry == Permutations(Submitted) \cup Permutations(Trials \ Submitted)
            \cup Permutations(Workers)
=============================================================================
