CONSTANTS
  c1 = c1  c2 = c2
  Callers = {c1, c2}
  Batch = 2
  MaxRows = 4
  MaxRequests = 1
  MaxFaults = 1
SPECIFICATION FairSpec
INVARIANTS NoRowForgotten ClosedQuiet FailureReported
PROPERTIES DrainReturns
CHECK_DEADLOCK FALSE
