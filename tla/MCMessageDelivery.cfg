CONSTANTS
  p1 = p1  p2 = p2  s1 = s1  s2 = s2
  Events = {1, 2}
  Subs = {s1}
  Readiness <- OneAwaits
  Processes = {p1, p2}
  MaxTries = 2
  MaxFaults = 1
  MaxChanges = 2
  Self = Self
  NoRow = NoRow
SPECIFICATION Spec
INVARIANTS NoFreshObsolete NoFreshDisabled DuplicatesPaid
PROPERTIES ImplementsLeases
SYMMETRY Symmetry
CHECK_DEADLOCK FALSE
