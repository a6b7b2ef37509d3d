SPECIFICATION FairSpec
CONSTANTS
  Orgs = {1, 2}
  Units = {1, 2}
  Models = {"m1", "m2"}
  Lanes = {"lane"}
  NoLane = NoLane
  ModelOf <- MixedModels
  LaneOf <- MixedLanes
  Analysis = {2}
  Cycle <- MixedCycle
  MaxWorkers = 3
  MaxQueued = 1
  MaxFree = 2
INVARIANTS TypeOK RoundRobin
PROPERTIES NothingLeftOver SingleLaunchesRotate ClassesShareTurns
