SPECIFICATION Spec
CONSTANTS
  Slots = {0, 1}
  Workers = {w1, w2}
  Tokens = {k1, k2}
  NoOne = NoOne
  NoToken = NoToken
  NoSlot = NoSlot
  NoPlan = NoPlan
INVARIANT RunningJobHoldsSlot
