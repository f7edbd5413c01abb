CONSTANTS
  film = film  caption = caption  episode = episode  remake = remake
  series = series  single = single  newer = newer
  x1 = x1  x2 = x2
  Files = {film, caption, episode, remake}
  Plans = {series, single, newer}
  PlanOf <- OfPlan
  Replaced = {remake}
  Cached = {single}
  Executors = {x1, x2}
  MaxFaults = 2
  MaxByHand = 1
  NoPlan = NoPlan
  Child = x1
SPECIFICATION FairSpec
INVARIANTS Honest StoppedForChanges Reported
PROPERTIES BatchEnds ImplementsSealed OrphansRest
CHECK_DEADLOCK FALSE
