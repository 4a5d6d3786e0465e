SPECIFICATION FairSpec
CONSTANTS
  r1 = r1
  r2 = r2
  r3 = r3
  r4 = r4
  ann = ann
  Ann = Ann
  bob = bob
  NoRow = NoRow
  Registrations = {r1, r2, r3, r4}
  Spellings = {ann, Ann, bob}
  Addresses = {ann, bob}
  Normal <- LowerCase
  Typed <- TwoPeople
  Weak = {r3}
INVARIANTS
  OneAccountPerPerson
  AccountsHaveLinks
PROPERTIES
  ImplementsRegistry
  EveryRegistrationEnds
