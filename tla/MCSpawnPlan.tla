---------------------------- MODULE MCSpawnPlan ----------------------------
(* SpawnPlan for TLC.                                                      *)
EXTENDS SpawnPlan

\* A solver model, and an analysis model on a lane with a capacity of its own.
MixedModels == <<"m1", "m2">>
MixedLanes == <<NoLane, "lane">>
MixedCycle == [c \in BOOLEAN |-> 1]

\* Two solver models.
TwoModels == <<"m1", "m2">>
TwoLanes == <<NoLane, NoLane>>
TwoCycle == [c \in BOOLEAN |-> IF c THEN 1 ELSE 2]
=============================================================================
