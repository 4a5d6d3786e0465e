----------------------------- MODULE Curriculum -----------------------------
(***************************************************************************)
(* The curriculum and its sequential unlock: lesson and exercise rows      *)
(* (storage/models/lesson.py) and the rule of controllers/lessons.py that  *)
(* derives, from the position-ordered published lessons and one user's     *)
(* solved exercises, which lessons that user has completed and unlocked.   *)
(*                                                                         *)
(* A value of Lessons is a lesson ROW, not a slug: re-ingesting a lesson   *)
(* deletes its row and inserts a new one with a new id, so each version of *)
(* a lesson that can ever be stored is its own value, and its attributes   *)
(* never change.  The same goes for exercise rows.                         *)
(***************************************************************************)
EXTENDS Integers

CONSTANTS
  Lessons,      \* lesson rows that are or may one day be stored
  Exercises,    \* exercise rows of those lessons
  Slug,         \* lesson row -> the author-facing name it is upserted by
  Position,     \* lesson row -> its place in the curriculum; ties are legal
  Published,    \* the lesson rows whose is_published is true
  LessonOf      \* exercise row -> its lesson_id

ASSUME CurriculumAssumption ==
  /\ Position \in [Lessons -> Int]
  /\ Published \subseteq Lessons
  /\ LessonOf \in [Exercises -> Lessons]

ExercisesOf(l) == {e \in Exercises : LessonOf[e] = l}

\* A lesson is completed only when it has exercises and the user solved them
\* all.  `counted' are the lessons of the totals map, which has no entry for a
\* lesson without exercises.  There is at most one progress row per user and
\* exercise, so solved >= total says that every exercise is solved.
IsCompleted(l, counted, solved) ==
  /\ l \in counted
  /\ ExercisesOf(l) \subseteq solved

\* The lessons that can come directly before l when `listed' is ordered by
\* position.  ORDER BY position says nothing about lessons of equal position:
\* any of them may come first.
DirectlyBefore(l, listed) ==
  {p \in listed \ {l} :
     /\ Position[p] <= Position[l]
     /\ ~ \E q \in listed : Position[p] < Position[q] /\ Position[q] < Position[l]}

MayComeFirst(l, listed) == ~ \E p \in listed : Position[p] < Position[l]

\* A faulty variant: the running flag of the fold is never taken back.
MayBeUnlocked_OnceUnlocked(l, listed, completed) ==
  \/ MayComeFirst(l, listed)
  \/ \E p \in completed : Position[p] < Position[l]

\* What the fold over the ordered list says of l: the first lesson is unlocked,
\* any other one exactly when the lesson directly before it is completed.  With
\* distinct positions exactly one of the two holds; with ties the order of the
\* tied rows decides, and both may be possible.
MayBeUnlocked(l, listed, completed) ==
  \/ MayComeFirst(l, listed)
  \/ \E p \in DirectlyBefore(l, listed) : p \in completed

MayBeLocked(l, listed, completed) ==
  \E p \in DirectlyBefore(l, listed) : p \notin completed
=============================================================================
