SPECIFICATION Spec
CONSTANTS
  Versions = {v1, v2}
  First = v1
  NoVerdict = NoVerdict
  Requests = {"append", "retry"}
  MaxRequests = 3
  MaxAgents = 3
  MaxLeaving = 2
INVARIANT VerdictCoversTrials
CHECK_DEADLOCK FALSE
