SPECIFICATION Spec
CONSTANTS
  Calls = {c1}
  Slow = {}
  Interrupted = {c1}
  Unremoved = {}
INVARIANTS
  NoContainerOutlivesTheCall
