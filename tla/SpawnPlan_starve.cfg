SPECIFICATION FairSpec
CONSTANTS
  Orgs = {1, 2, 3}
  Units = {1, 2}
  Models = {"m1", "m2"}
  Lanes = {}
  NoLane = NoLane
  ModelOf <- TwoModels
  LaneOf <- TwoLanes
  Analysis = {}
  Cycle <- TwoCycle
  MaxWorkers = 2
  MaxQueued = 1
  MaxFree = 1
PROPERTY NoOrgStarves
