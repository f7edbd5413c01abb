CONSTANTS
  w1 = w1  w2 = w2  e1 = e1  e2 = e2
  MaxRevision = 2
  Events = {e1, e2}
  KindOf <- AllEvent
  Skip = TRUE
  Workers = {w1, w2}
  MaxFaults = 1
  MaxLosses = 1
  NoWorker = NoWorker
  NoOcc = NoOcc
SPECIFICATION Spec
SYMMETRY Symmetry
INVARIANTS NothingStranded InboxBeforeAck EventOnce
PROPERTIES StartsInForce
CHECK_DEADLOCK FALSE
