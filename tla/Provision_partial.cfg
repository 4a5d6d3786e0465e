SPECIFICATION Spec
CONSTANTS
  f1 = f1
  f2 = f2
  f3 = f3
  u1 = u1
  u2 = u2
  Nobody = Nobody
  NoRow = NoRow
  FixtureFiles <- ThreeFixtures
  Authored <- InLanguages
  Users = {u1, u2}
  Containers = {c1}
  MaxStops = 1
  MaxRollbacks = 0
INVARIANTS
  SeedsOnEveryStart
