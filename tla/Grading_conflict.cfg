SPECIFICATION Spec
CONSTANTS
  l1 = l1
  l2 = l2
  l3 = l3
  l4 = l4
  e1 = e1
  e2 = e2
  e3 = e3
  e4 = e4
  u1 = u1
  u2 = u2
  NoRow = NoRow
  Users = {u1, u2}
  Lessons = {l1}
  Exercises = {e1}
  Published = {l1}
  InitialLessons = {l1}
  Targets <- RaceTargets
  Slug <- RaceSlug
  Position <- RacePosition
  LessonOf <- RaceLessonOf
  PoolSize = 2
  Requests = {r1, r2}
SYMMETRY SomeRequests
INVARIANTS
  UpsertSucceeds
