SPECIFICATION Spec
CONSTANTS
  Jobs = {j1}
  Workers = {w1, w2}
  Slots = {s1, s2}
  MaxAttempts = 2
  NoOne = NoOne
  NoJob = NoJob
  NoSlot = NoSlot
  Elsewhere = Elsewhere
CHECK_DEADLOCK FALSE
SYMMETRY Symmetry
INVARIANTS TypeOK SandboxHoldsLease TerminatedIsGone RunnerKeepsLease HandoffWaits
