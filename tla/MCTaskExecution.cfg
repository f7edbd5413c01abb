CONSTANTS
  p1 = p1
  NoRun = NoRun
  NoTask = NoTask
  NoWorker = NoWorker
  ParentOf <- OneParent
  Runs = {r1, r2}
  Tasks = {t1}
  Workers = {w1, w2}
  Idempotent = {}
  MaxAttempts = 1
  MaxFaults = 1
  MaxLosses = 0
SPECIFICATION Spec
SYMMETRY Symmetry
PROPERTIES ImplementsLife BlockedWhileUnknown
CHECK_DEADLOCK FALSE
