---------------------------- MODULE MCQueueSlots ----------------------------
(* QueueSlots for TLC.                                                     *)
EXTENDS QueueSlots
=============================================================================
