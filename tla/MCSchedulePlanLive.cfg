CONSTANTS
  w1 = w1  w2 = w2  e1 = e1  e2 = e2
  MaxRevision = 2
  Events = {e1}
  KindOf <- ManualThenTime
  Skip = TRUE
  Workers = {w1, w2}
  MaxFaults = 2
  MaxLosses = 0
  NoWorker = NoWorker
  NoOcc = NoOcc
SPECIFICATION FairSpec
PROPERTIES EventuallyDispatched EventuallyArmed ImplementsGate
CHECK_DEADLOCK FALSE
