SPECIFICATION FairSpec
CONSTANTS
  Slots = {0, 1}
  Workers = {w1, w2}
  Tokens = {k1}
  NoOne = NoOne
  NoToken = NoToken
  NoSlot = NoSlot
  NoPlan = NoPlan
INVARIANTS TypeOK TokenAdoptedOnce DemandCountsUnclaimed
PROPERTIES AdmissionWithinLimit BusyLeaseKept LeakedLeaseReturns
