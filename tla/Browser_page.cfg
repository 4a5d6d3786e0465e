SPECIFICATION Spec
CONSTANTS
  None = None
  Accounts = {a1, a2}
  Exercises = {e1, e2}
  Coroutines = {c1, c2}
SYMMETRY Interchangeable
INVARIANTS
  TypeOK
  NeverBlank
  NoStrandedGate
  CanLogOut
  MarksAreEarned
  CompletionIsEarned
