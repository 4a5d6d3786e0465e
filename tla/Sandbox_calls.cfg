SPECIFICATION FairSpec
CONSTANTS
  Calls = {c1, c2}
  Slow = {c2}
  Interrupted = {c2}
  Unremoved = {c2}
INVARIANTS
  CalmCallsCleanUp
  VerdictsAreReal
PROPERTIES
  EveryCallReturns
  RunawaysAreStopped
