----------------------------- MODULE MCQaStage -----------------------------
(* QaStage for TLC.                                                        *)
EXTENDS QaStage
=============================================================================
