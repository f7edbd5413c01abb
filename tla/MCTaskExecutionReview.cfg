CONSTANTS
  p1 = p1
  NoRun = NoRun
  NoTask = NoTask
  NoWorker = NoWorker
  ParentOf <- OneParent
  Runs = {r1}
  Tasks = {t1}
  Workers = {w1, w2}
  Idempotent = {}
  MaxAttempts = 1
  MaxFaults = 0
  MaxLosses = 0
SPECIFICATION Spec
INVARIANTS BlockingRunIsReviewable
CHECK_DEADLOCK FALSE
