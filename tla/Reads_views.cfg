SPECIFICATION Spec
CONSTANTS
  l1 = l1
  l2 = l2
  l3 = l3
  l4 = l4
  l5 = l5
  e1 = e1
  e2 = e2
  e3 = e3
  e4 = e4
  e5 = e5
  u1 = u1
  u2 = u2
  NoRow = NoRow
  Users = {u1, u2}
  Lessons = {l1, l2, l3, l4, l5}
  Exercises = {e1, e2, e3, e4, e5}
  Published = {l1, l2, l3, l5}
  InitialLessons = {l1, l2, l4}
  WithSolution = {e1, e2, e4}
  TutorEnabled = TRUE
  Slug <- ReadSlug
  Position <- ReadPosition
  LessonOf <- ReadLessonOf
  Targets <- ReadTargets
  Wanted <- ReadWanted
  Readers = {r1}
INVARIANTS
  ClaimsAreEarned
  ViewsAreBracketed
  GateIsFair
  SolutionsAreEarned
  LessonsAreWhole
  StartedStaysOpen
PROPERTIES
  DiligenceIsRewarded
