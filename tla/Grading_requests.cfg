SPECIFICATION Spec
CONSTANTS
  l1 = l1
  l2 = l2
  l3 = l3
  l4 = l4
  e1 = e1
  e2 = e2
  e3 = e3
  e4 = e4
  u1 = u1
  u2 = u2
  NoRow = NoRow
  Users = {u1, u2}
  Lessons = {l1, l2, l3, l4}
  Exercises = {e1, e2, e3, e4}
  Published = {l1, l2, l3}
  InitialLessons = {l1, l2, l3, l4}
  Targets <- OrderTargets
  Slug <- OrderSlug
  Position <- OrderPosition
  LessonOf <- OrderLessonOf
  PoolSize = 3
  Requests = {r1, r2, r3}
SYMMETRY SomeRequests
INVARIANTS
  SolvedIffPassed
  AttemptsNeverRunAhead
  ReferencesAreOwn
  AnswersMatchRows
  WritersAreIsolated
  LessonsInOrder
PROPERTIES
  ImplementsLearning
