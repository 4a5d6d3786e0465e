SPECIFICATION FairSpec
CONSTANTS
  l1 = l1
  l2 = l2
  l3 = l3
  l4 = l4
  e1 = e1
  e2 = e2
  e3 = e3
  e4 = e4
  u1 = u1
  u2 = u2
  NoRow = NoRow
  Users = {u1}
  Lessons = {l1, l3}
  Exercises = {e1, e3}
  Published = {l1, l3}
  InitialLessons = {l1}
  Targets <- IngestTargets
  Slug <- IngestSlug
  Position <- IngestPosition
  LessonOf <- IngestLessonOf
  PoolSize = 2
  Requests = {r1, r2, r3}
INVARIANTS
  NoOrphanRows
PROPERTIES
  ImplementsLedger
  EveryRequestEnds
