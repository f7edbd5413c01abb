CONSTANTS
  p1 = p1
  NoRun = NoRun
  NoTask = NoTask
  NoWorker = NoWorker
  ParentOf <- OneParent
  Runs = {r1}
  Tasks = {t1}
  Workers = {w1, w2}
  Idempotent = {}
  MaxAttempts = 1
  MaxFaults = 1
  MaxLosses = 1
SPECIFICATION Spec
PROPERTIES InterruptedStaysFailed
CHECK_DEADLOCK FALSE
