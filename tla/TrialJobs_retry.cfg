SPECIFICATION Spec
CONSTANTS
  Trials = {t1, t2}
  Submitted = {t1}
  Workers = {w1, w2}
  NoTrial = NoTrial
  NoWorker = NoWorker
  MaxAttempts = 2
  MaxCancels = 1
  StallPoints = {}
  RaisePoints = {}
SYMMETRY Symmetry
PROPERTIES SupersededFrozen ImplementsQueue
CHECK_DEADLOCK FALSE
