SPECIFICATION FairSpec
CONSTANTS
  Nops = {}
  Oracles = {o1, o2}
  Llms = {l1}
  MaxAttempts = 2
  MaxRequests = 1
  LateStart = FALSE
INVARIANTS TypeOK SkippedNeverRuns
PROPERTIES VerdictsStand ReleasedWhenClean BlockedIsResolved
CHECK_DEADLOCK FALSE
