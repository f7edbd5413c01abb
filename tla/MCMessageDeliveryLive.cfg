CONSTANTS
  p1 = p1  p2 = p2  s1 = s1  s2 = s2
  Events = {1}
  Subs = {s1, s2}
  Readiness <- OneAwaits
  Processes = {p1, p2}
  MaxTries = 2
  MaxFaults = 1
  MaxChanges = 0
  Self = Self
  NoRow = NoRow
SPECIFICATION FairSpec
INVARIANTS CompletedReached
PROPERTIES EventuallyFannedOut EventuallySettled
CHECK_DEADLOCK FALSE
