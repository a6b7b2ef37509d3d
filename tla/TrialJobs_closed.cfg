SPECIFICATION Spec
CONSTANTS
  Trials = {t1}
  Submitted = {t1}
  Workers = {w1, w2}
  NoTrial = NoTrial
  NoWorker = NoWorker
  MaxAttempts = 2
  MaxCancels = 1
  StallPoints = {}
  RaisePoints = {}
INVARIANT ClosedJobEndsTrial
CHECK_DEADLOCK FALSE
