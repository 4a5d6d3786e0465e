------------------------------ MODULE Learning ------------------------------
(***************************************************************************)
(* What the rest of the system can tell of the grading flow: which         *)
(* exercises are solved, by whom, in which order lessons are opened, and   *)
(* what re-ingestion takes away.  The readers of Reads live in this        *)
(* environment, and Grading implements it: what is shown there of readers  *)
(* holds beside the real handlers, their transactions and their failures.  *)
(***************************************************************************)
EXTENDS Curriculum

CONSTANTS
  Users,
  Targets,         \* the <<user, exercise>> pairs learners work at
  InitialLessons   \* the lesson rows stored at the start

Keys == Users \X Exercises

ASSUME LearningAssumption ==
  /\ Targets \subseteq Keys
  /\ InitialLessons \subseteq Lessons
  /\ \A l, m \in InitialLessons : Slug[l] = Slug[m] => l = m

VARIABLES
  catalogue,  \* lesson row -> "absent", "present" or "deleted"
  solved,     \* the <<user, exercise>> pairs that are solved
  admitted    \* those not solved whose submission has passed the gate

learningVars == <<catalogue, solved, admitted>>

Present == {l \in Lessons : catalogue[l] = "present"}
Exists(e) == LessonOf[e] \in Present
SolvedBy(u) == {e \in Exercises : <<u, e>> \in solved}

\* What a view or a gate derives from one consistent snapshot.
Listing == Present \cap Published
Counting == {l \in Present : ExercisesOf(l) # {}}
DoneWith(done) == {l \in Listing : IsCompleted(l, Counting, done)}

LearningInit ==
  /\ catalogue = [l \in Lessons |-> IF l \in InitialLessons THEN "present" ELSE "absent"]
  /\ solved = {}
  /\ admitted = {}

\* Faulty variants: no gate; a gate whose flag is updated before it is read.
Admit_Ungated(k) ==
  /\ k \in Targets \ (admitted \cup solved)
  /\ Exists(k[2])
  /\ admitted' = admitted \cup {k}
  /\ UNCHANGED <<catalogue, solved>>

Admit_FlagFirst(k) ==
  /\ k \in Targets \ (admitted \cup solved)
  /\ Exists(k[2])
  /\ LessonOf[k[2]] \in Published =>
       \/ MayComeFirst(LessonOf[k[2]], Listing)
       \/ LessonOf[k[2]] \in DoneWith(SolvedBy(k[1]))
  /\ admitted' = admitted \cup {k}
  /\ UNCHANGED <<catalogue, solved>>

\* A submission passes the gate: its three reads say what one read would.
Admit(k) ==
  /\ k \in Targets \ (admitted \cup solved)
  /\ Exists(k[2])
  /\ LessonOf[k[2]] \in Published =>
       MayBeUnlocked(LessonOf[k[2]], Listing, DoneWith(SolvedBy(k[1])))
  /\ admitted' = admitted \cup {k}
  /\ UNCHANGED <<catalogue, solved>>

\* Once something was ingested, the lessons a gate lists and counts may be those
\* of before, and it may admit to what is locked now.
AdmitOutdated(k) ==
  /\ Present # InitialLessons
  /\ k \in Targets \ (admitted \cup solved)
  /\ Exists(k[2])
  /\ admitted' = admitted \cup {k}
  /\ UNCHANGED <<catalogue, solved>>

\* The verdict is not a pass, a step of the handler fails, or the process dies
\* with all it was handling.
Fail(keys) ==
  /\ keys # {}
  /\ admitted' = admitted \ keys
  /\ UNCHANGED <<catalogue, solved>>

Solve(k) ==
  /\ k \in admitted
  /\ Exists(k[2])
  /\ admitted' = admitted \ {k}
  /\ solved' = solved \cup {k}
  /\ UNCHANGED catalogue

Replaced(l) == {m \in Present : Slug[m] = Slug[l]}
Gone(l) == {e \in Exercises : LessonOf[e] \in Replaced(l)}

\* seed.py stores a new version of a lesson, or a new lesson.
Ingest(l) ==
  /\ catalogue[l] = "absent"
  /\ catalogue' = [m \in Lessons |-> IF m = l THEN "present"
                                     ELSE IF m \in Replaced(l) THEN "deleted"
                                     ELSE catalogue[m]]
  /\ solved' = {k \in solved : k[2] \notin Gone(l)}
  /\ admitted' = {k \in admitted : k[2] \notin Gone(l)}

Submit ==
  \/ \E k \in Keys : Admit(k) \/ AdmitOutdated(k) \/ Solve(k)
  \/ \E keys \in SUBSET admitted : Fail(keys)

LearningNext == Submit \/ \E l \in Lessons : Ingest(l)

LearningSpec == LearningInit /\ [][LearningNext]_learningVars

-----------------------------------------------------------------------------
(* Correctness *)

\* The curriculum is never a dead end: while every listed lesson has an exercise,
\* whoever has not completed them all has one to solve in a lesson that may be
\* unlocked, and is, where no other lesson has its position.
NobodyIsStuck == Listing \subseteq Counting =>
  \A u \in Users : DoneWith(SolvedBy(u)) # Listing =>
    \E e \in Exercises \ SolvedBy(u) :
      /\ LessonOf[e] \in Listing
      /\ MayBeUnlocked(LessonOf[e], Listing, DoneWith(SolvedBy(u)))
      /\ (\A l \in Listing \ {LessonOf[e]} : Position[l] # Position[LessonOf[e]]) =>
           ~ MayBeLocked(LessonOf[e], Listing, DoneWith(SolvedBy(u)))
=============================================================================
