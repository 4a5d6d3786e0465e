SPECIFICATION Spec
CONSTANTS
  None = None
  Accounts = {a1, a2}
  Exercises = {e1}
  Coroutines = {c1, c2}
SYMMETRY Interchangeable
INVARIANTS
  NoContentWhileLoggedOut
