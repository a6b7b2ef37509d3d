SPECIFICATION FairSpec
CONSTANTS
  Trials = {t1}
  Submitted = {t1}
  Workers = {w1, w2}
  NoTrial = NoTrial
  NoWorker = NoWorker
  MaxAttempts = 3
  MaxCancels = 1
  StallPoints = {"prepared", "running", "hooks", "handled", "deciding", "marking"}
  RaisePoints = {"claimed", "checked", "prepared", "running", "handled"}
INVARIANTS TypeOK BudgetInv SuccessAgrees
PROPERTIES CurrentAttemptPublishes FinishedNotRerun JobsSettle
CHECK_DEADLOCK FALSE
