SPECIFICATION Spec
CONSTANTS
  Tests = {t1, t2, t3}
SYMMETRY AnyOrder
INVARIANTS
  PassesAreEarned
  FailuresAreShown
  CutOffRunsAreNotCounted
