CONSTANTS
  p1 = p1
  NoRun = NoRun
  NoTask = NoTask
  NoWorker = NoWorker
  ParentOf <- OneParent
  Runs = {r1}
  Tasks = {t1, t2}
  Workers = {w1, w2}
  Idempotent = {t1}
  MaxAttempts = 2
  MaxFaults = 1
  MaxLosses = 1
SPECIFICATION FairSpec
INVARIANTS TypeOK AttemptLedger AtMostOnceEffect
PROPERTIES WithdrawnNeverExecutes EventuallySettled
CHECK_DEADLOCK FALSE
