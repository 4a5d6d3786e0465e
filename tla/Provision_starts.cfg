SPECIFICATION FairSpec
CONSTANTS
  f1 = f1
  f2 = f2
  f3 = f3
  u1 = u1
  u2 = u2
  Nobody = Nobody
  NoRow = NoRow
  FixtureFiles <- ThreeFixtures
  Authored <- InLanguages
  Users = {u1, u2}
  Containers = {c1, c2}
  MaxStops = 2
  MaxRollbacks = 3
INVARIANTS
  TypeOK
  ServesAtHead
  ProseIsWhole
  SeededUnlessCutShort
PROPERTIES
  DeploymentsKeepProgress
  StartsRecover
