CONSTANTS
  action = action  human = human   message = message
  Acts = {action, human}
  Waits = {message}
  KindOf <- MCKindOf
  After <- MCAfter
  Idempotent = {action}
  MaxFaults = 1
  NoAct = NoAct
SPECIFICATION FairSpec
INVARIANTS EndedQuiet
PROPERTIES AcceptedKept ImplementsScope StopEnds ResultsConsumed
CHECK_DEADLOCK FALSE
