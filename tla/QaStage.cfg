SPECIFICATION FairSpec
CONSTANTS
  Versions = {v1, v2}
  First = v1
  NoVerdict = NoVerdict
  Requests = {"append", "retry", "rerun_qa", "rerun_audit", "switch", "overwrite", "cancel_qa", "cancel_runs"}
  MaxRequests = 1
  MaxAgents = 2
  MaxLeaving = 2
INVARIANTS TypeOK OneLiveQa VerdictIsCurrent GradesMatchVerdict
PROPERTIES CancelHolds WithdrawnFirst TaskCloses AuditsArrive
CHECK_DEADLOCK FALSE
