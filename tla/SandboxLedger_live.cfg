SPECIFICATION FairSpec
CONSTANTS
  Jobs = {j1}
  Workers = {w1, w2}
  Slots = {s1}
  MaxAttempts = 1
  NoOne = NoOne
  NoJob = NoJob
  NoSlot = NoSlot
  Elsewhere = Elsewhere
CHECK_DEADLOCK FALSE
PROPERTIES SandboxesStop HandoffsComplete LeasesReturn
