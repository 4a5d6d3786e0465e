-------------------------------- MODULE Reads --------------------------------
(***************************************************************************)
(* The read side of the API: the lesson list, the profile, a lesson, the   *)
(* reference solution and the progress of an exercise, and the AI tutor.   *)
(* A request is a sequence of statements under READ COMMITTED, each with   *)
(* its own view of a database that learners and re-ingestion change        *)
(* meanwhile; what they can do to it is Learning.                          *)
(***************************************************************************)
EXTENDS Learning, FiniteSets, Sequences

CONSTANTS
  Readers,
  Wanted,          \* the requests readers may make
  WithSolution,    \* the exercise rows whose solution_code is not blank
  TutorEnabled,    \* whether an OpenAI key is configured
  NoRow

Overviews == {"list", "profile"}
OfExercise == {"solution", "progress", "hint"}

\* What a request is for; `about' is the slug of a lesson or an exercise.
Request ==
  [kind : {"lesson"}, user : Users, about : {Slug[l] : l \in Lessons}]
    \cup [kind : OfExercise, user : Users, about : Exercises]
    \cup [kind : Overviews \cup {"chat"}, user : Users, about : {NoRow}]

ASSUME ReadsAssumption ==
  /\ IsFiniteSet(Lessons) /\ IsFiniteSet(Exercises)
  /\ Wanted \subseteq Request
  /\ WithSolution \subseteq Exercises
  /\ TutorEnabled \in BOOLEAN
  /\ NoRow \notin Lessons

VARIABLES
  pc,         \* reader -> where its handler stands, or how it was answered
  want,       \* reader -> its request
  found,      \* reader -> the lesson row its first statement is about
  loaded,     \* reader -> what was found below that row
  listed,     \* reader -> the published lessons in order, as it saw them
  counted,    \* reader -> the lessons with exercises, as it saw them
  states,     \* reader -> what it computed of every listed lesson
  before,     \* reader -> what its user had solved when it was sent (history)
  steady      \* reader -> nothing was ingested since it was sent (history)

dbVars == learningVars
readVars == <<found, loaded, listed, counted, states>>
history == <<before, steady>>
vars == <<dbVars, pc, want, readVars, history>>

Kind(r) == want[r].kind
Reader(r) == want[r].user
About(r) == want[r].about

Loading == {"row", "prose", "exercises", "texts", "exercise"}
Deriving == {"listing", "totals", "solved"}
Running == {"queued"} \cup Loading \cup Deriving \cup {"progress", "asking"}
Ended == {"200", "403", "404", "500", "503"}

Init ==
  /\ LearningInit
  /\ pc = [r \in Readers |-> "idle"]
  /\ want \in [Readers -> Wanted]
  /\ found = [r \in Readers |-> NoRow]
  /\ loaded = [r \in Readers |-> {}]
  /\ listed = [r \in Readers |-> <<>>]
  /\ counted = [r \in Readers |-> {}]
  /\ states = [r \in Readers |-> <<>>]
  /\ before = [r \in Readers |-> {}]
  /\ steady = [r \in Readers |-> TRUE]

Goto(r, next) == pc' = [pc EXCEPT ![r] = next]

-----------------------------------------------------------------------------
(* What is derived *)

\* The lessons in some order ORDER BY position may deliver.
Orders(listing) ==
  {order \in [1 .. Cardinality(listing) -> listing] :
     \A i, j \in 1 .. Cardinality(listing) :
       i < j => order[i] # order[j] /\ Position[order[i]] <= Position[order[j]]}

\* The aggregates: exercises of the lesson, and how many of them are `done'.
Total(l, withExercises) ==
  IF l \in withExercises THEN Cardinality(ExercisesOf(l)) ELSE 0
Solved(l, withExercises, done) ==
  IF l \in withExercises THEN Cardinality(ExercisesOf(l) \cap done) ELSE 0

\* A faulty variant: one solved exercise is enough.
Completed_Started(l, withExercises, done) == Solved(l, withExercises, done) # 0

Completed(l, withExercises, done) ==
  /\ Total(l, withExercises) # 0
  /\ Solved(l, withExercises, done) >= Total(l, withExercises)

\* A faulty variant: the flag is never taken back.
ComputeStates_OnceUnlocked(order, withExercises, done) ==
  [i \in DOMAIN order |->
    [lesson    |-> order[i],
     total     |-> Total(order[i], withExercises),
     solved    |-> Solved(order[i], withExercises, done),
     completed |-> Completed(order[i], withExercises, done),
     unlocked  |-> \A j \in 1 .. i - 1 : j = 1 => Completed(order[j], withExercises, done)]]

\* The fold: a lesson is unlocked iff it is the first or the one before it is
\* completed.
ComputeStates(order, withExercises, done) ==
  [i \in DOMAIN order |->
    [lesson    |-> order[i],
     total     |-> Total(order[i], withExercises),
     solved    |-> Solved(order[i], withExercises, done),
     completed |-> Completed(order[i], withExercises, done),
     unlocked  |-> i = 1 \/ Completed(order[i - 1], withExercises, done)]]

\* The state of a lesson, and the lesson after it: none or one of each.
StatesOf(r, l) == {s \in {states[r][i] : i \in DOMAIN states[r]} : s.lesson = l}
NextLesson(r, l) ==
  {states[r][i + 1].lesson : i \in {j \in DOMAIN states[r] :
                                      j < Len(states[r]) /\ states[r][j].lesson = l}}

\* A lesson that is not among the published ones counts as unlocked.
Locked(derived, l) == \E i \in DOMAIN derived : derived[i].lesson = l /\ ~ derived[i].unlocked

-----------------------------------------------------------------------------
(* The handlers *)

Send(r) ==
  /\ pc[r] = "idle"
  /\ before' = [before EXCEPT ![r] = SolvedBy(Reader(r))]
  /\ steady' = [steady EXCEPT ![r] = TRUE]
  /\ Goto(r, "queued")
  /\ UNCHANGED <<dbVars, want, readVars>>

\* get_current_user reads the account and takes the connection that the session
\* keeps until the request ends - while the tutor thinks as well.
Begin(r) ==
  /\ pc[r] = "queued"
  /\ Goto(r, IF Kind(r) \in {"hint", "chat"} /\ ~ TutorEnabled THEN "503"
             ELSE CASE Kind(r) = "chat"      -> "asking"
                    [] Kind(r) \in Overviews -> "listing"
                    [] Kind(r) = "lesson"    -> "row"
                    [] Kind(r) = "progress"  -> "progress"
                    [] OTHER                 -> "exercise")
  /\ UNCHANGED <<dbVars, want, readVars, history>>

\* get_lesson_by_slug selects the row, ...
FindLesson(r) ==
  /\ pc[r] = "row"
  /\ IF \E l \in Present : Slug[l] = About(r)
       THEN /\ \E l \in Present : Slug[l] = About(r) /\ found' = [found EXCEPT ![r] = l]
            /\ Goto(r, "prose")
       ELSE UNCHANGED found /\ Goto(r, "404")
  /\ UNCHANGED <<dbVars, want, loaded, listed, counted, states, history>>

\* get_exercise and get_exercise_with_translations: so does the latter.
FindExercise(r) ==
  /\ pc[r] = "exercise"
  /\ IF Exists(About(r))
       THEN /\ found' = [found EXCEPT ![r] = LessonOf[About(r)]]
            /\ Goto(r, IF Kind(r) = "hint" THEN "prose" ELSE "listing")
       ELSE UNCHANGED found /\ Goto(r, "404")
  /\ UNCHANGED <<dbVars, want, loaded, listed, counted, states, history>>

\* ... and then, each in a statement of its own, what is below it.
Load(r, what, next) ==
  /\ pc[r] = what
  /\ loaded' = IF found[r] \in Present
                 THEN [loaded EXCEPT ![r] = @ \cup {what}] ELSE loaded
  /\ Goto(r, next)
  /\ UNCHANGED <<dbVars, want, found, listed, counted, states, history>>

\* A faulty variant: the exercises are not loaded together with the lesson.
LoadProse_NoExercises(r) == Load(r, "prose", "listing")

LoadProse(r) == Load(r, "prose", IF Kind(r) = "hint" THEN "listing" ELSE "exercises")
LoadExercises(r) == Load(r, "exercises", "texts")
LoadTexts(r) == Load(r, "texts", "listing")

ListPublished(r) ==
  /\ pc[r] = "listing"
  /\ \E order \in Orders(Present \cap Published) : listed' = [listed EXCEPT ![r] = order]
  /\ Goto(r, "totals")
  /\ UNCHANGED <<dbVars, want, found, loaded, counted, states, history>>

CountTotals(r) ==
  /\ pc[r] = "totals"
  /\ counted' = [counted EXCEPT ![r] = {l \in Present : ExercisesOf(l) # {}}]
  /\ Goto(r, "solved")
  /\ UNCHANGED <<dbVars, want, found, loaded, listed, states, history>>

\* Where a request goes that is not refused.
Passed(r) ==
  IF Kind(r) \in Overviews \cup {"lesson"} THEN "200"
  ELSE IF Kind(r) = "solution" THEN "progress" ELSE "asking"

\* A faulty variant: only the lesson itself is gated.
CountSolved_LessonsOnly(r) ==
  /\ pc[r] = "solved"
  /\ LET derived == ComputeStates(listed[r], counted[r], SolvedBy(Reader(r))) IN
       /\ states' = [states EXCEPT ![r] = derived]
       /\ Goto(r, IF Kind(r) = "lesson" /\ Locked(derived, found[r]) THEN "403" ELSE Passed(r))
  /\ UNCHANGED <<dbVars, want, found, loaded, listed, counted, history>>

\* With the third statement the states are computed and, with no await in
\* between, the request is refused, answered or goes on.
CountSolved(r) ==
  /\ pc[r] = "solved"
  /\ LET derived == ComputeStates(listed[r], counted[r], SolvedBy(Reader(r))) IN
       /\ states' = [states EXCEPT ![r] = derived]
       /\ Goto(r, IF Kind(r) \notin Overviews /\ Locked(derived, found[r])
                    THEN "403" ELSE Passed(r))
  /\ UNCHANGED <<dbVars, want, found, loaded, listed, counted, history>>

\* A faulty variant: the solution of whatever somebody has solved.
ReadProgress_AnyUser(r) ==
  /\ pc[r] = "progress"
  /\ Goto(r, IF Kind(r) = "progress" THEN "200"
             ELSE IF ~ \E u \in Users : <<u, About(r)>> \in solved THEN "403"
             ELSE IF About(r) \notin WithSolution THEN "404" ELSE "200")
  /\ UNCHANGED <<dbVars, want, readVars, history>>

\* The solution comes from the row the first statement has read: the session
\* still has it.
ReadProgress(r) ==
  /\ pc[r] = "progress"
  /\ Goto(r, IF Kind(r) = "progress" THEN "200"
             ELSE IF <<Reader(r), About(r)>> \notin solved THEN "403"
             ELSE IF About(r) \notin WithSolution THEN "404" ELSE "200")
  /\ UNCHANGED <<dbVars, want, readVars, history>>

\* The model is asked with the statement and the starter code alone; it
\* answers, fails or is given up after the client's time limit.
AskTutor(r) ==
  /\ pc[r] = "asking"
  /\ \E answer \in {"200", "500"} : Goto(r, answer)
  /\ UNCHANGED <<dbVars, want, readVars, history>>

\* A statement raises, or the pool, which the grading requests share, has no
\* connection for the whole of its time limit.
Raise(r) ==
  /\ pc[r] \in Running
  /\ Goto(r, "500")
  /\ UNCHANGED <<dbVars, want, readVars, history>>

-----------------------------------------------------------------------------
(* What changes meanwhile *)

ReadersWait == UNCHANGED <<pc, want, readVars, history>>

Submitted == Submit /\ ReadersWait

Ingested(l) ==
  /\ Ingest(l)
  /\ steady' = [r \in Readers |-> FALSE]
  /\ UNCHANGED <<pc, want, readVars, before>>

Finished ==
  /\ \A r \in Readers : pc[r] \in Ended
  /\ UNCHANGED vars

Handle(r) ==
  \/ Begin(r)
  \/ FindLesson(r) \/ FindExercise(r) \/ LoadProse(r) \/ LoadExercises(r) \/ LoadTexts(r)
  \/ ListPublished(r) \/ CountTotals(r) \/ CountSolved(r)
  \/ ReadProgress(r) \/ AskTutor(r)

Next ==
  \/ \E r \in Readers : Send(r) \/ Handle(r) \/ Raise(r)
  \/ Submitted
  \/ \E l \in Lessons : Ingested(l)
  \/ Finished

Spec == Init /\ [][Next]_vars

-----------------------------------------------------------------------------
(* Correctness *)

States == [lesson : Lessons, total : Nat, solved : Nat, completed : BOOLEAN, unlocked : BOOLEAN]

TypeOK ==
  /\ catalogue \in [Lessons -> {"absent", "present", "deleted"}]
  /\ solved \subseteq Keys /\ admitted \subseteq Keys
  /\ pc \in [Readers -> {"idle"} \cup Running \cup Ended]
  /\ want \in [Readers -> Wanted]
  /\ found \in [Readers -> Lessons \cup {NoRow}]
  /\ loaded \in [Readers -> SUBSET {"prose", "exercises", "texts"}]
  /\ listed \in [Readers -> Seq(Lessons)]
  /\ counted \in [Readers -> SUBSET Lessons]
  /\ states \in [Readers -> Seq(States)]
  /\ before \in [Readers -> SUBSET Exercises]
  /\ steady \in [Readers -> BOOLEAN]

\* The states a request has derived, and the exercises of the lesson it shows.
Derived(r) == {states[r][i] : i \in DOMAIN states[r]}
ShownExercises(r) == IF "exercises" \in loaded[r] THEN ExercisesOf(found[r]) ELSE {}

\* Three statements at three moments never add up to progress nobody made: what
\* a list, a profile or a lesson calls completed the user has solved in full,
\* and no more exercises are counted as solved than there are and than the user
\* has solved, unless the lesson has been replaced since.
ClaimsAreEarned == \A r \in Readers : \A s \in Derived(r) :
  /\ s.solved <= s.total
  /\ s.completed <=> s.total # 0 /\ s.solved = s.total
  /\ \/ catalogue[s.lesson] = "deleted"
     \/ /\ s.completed => ExercisesOf(s.lesson) \subseteq SolvedBy(Reader(r))
        /\ s.solved <= Cardinality(ExercisesOf(s.lesson) \cap SolvedBy(Reader(r)))

\* Without re-ingestion a view lies between the moment its request was sent and
\* now, however many submissions pass in between: it lists every published
\* lesson once and in order, shows as completed and open what was so then, and
\* nothing that is not so now.
ViewsAreBracketed == \A r \in Readers :
  steady[r] /\ states[r] # <<>> =>
    /\ {s.lesson : s \in Derived(r)} = Listing /\ Len(states[r]) = Cardinality(Listing)
    /\ \A s \in Derived(r) :
         /\ s.lesson \in DoneWith(before[r]) => s.completed
         /\ s.completed => s.lesson \in DoneWith(SolvedBy(Reader(r)))
         /\ s.unlocked => MayBeUnlocked(s.lesson, Listing, DoneWith(SolvedBy(Reader(r))))
         /\ ~ s.unlocked => MayBeLocked(s.lesson, Listing, DoneWith(before[r]))

\* The gate of a lesson, a solution and a hint is that of the submissions: what
\* is served for a published lesson is open to the user, what is refused was
\* locked, or not solved, when it was asked for - unless something was ingested.
GateIsFair == \A r \in Readers :
  steady[r] /\ found[r] \in Published =>
    /\ pc[r] \in {"200", "asking", "progress"} =>
         MayBeUnlocked(found[r], Listing, DoneWith(SolvedBy(Reader(r))))
    /\ pc[r] = "403" =>
         \/ MayBeLocked(found[r], Listing, DoneWith(before[r]))
         \/ Kind(r) = "solution" /\ About(r) \notin before[r]

\* The reference solution of an exercise is shown only to who has solved it.
SolutionsAreEarned == \A r \in Readers :
  Kind(r) = "solution" /\ pc[r] = "200" =>
    /\ About(r) \in SolvedBy(Reader(r)) \/ ~ Exists(About(r))
    /\ About(r) \in WithSolution

\* The button at the end of a completed lesson leads to a lesson that is open,
\* or may be listed as open where lessons share a position.
NextLessonIsOpen == \A r \in Readers :
  Kind(r) = "lesson" /\ pc[r] = "200" /\ steady[r] =>
    \A s \in StatesOf(r, found[r]) : s.completed =>
      \A l \in NextLesson(r, found[r]) :
        MayBeUnlocked(l, Listing, DoneWith(SolvedBy(Reader(r))))

\* A lesson is served with its text, all of its exercises and their texts, though
\* each comes from a statement of its own, or its row is gone.
LessonsAreWhole == \A r \in Readers :
  Kind(r) = "lesson" /\ pc[r] = "200" /\ found[r] \in Present =>
    {"prose", "texts"} \subseteq loaded[r] /\ ShownExercises(r) = ExercisesOf(found[r])

\* What the gate of submissions lets a user do, no view takes back: as long as
\* nothing is ingested and positions are distinct, a lesson in which the user
\* has solved an exercise is never shown as locked.
DistinctPositions == \A l, m \in Published \cap Present : Position[l] = Position[m] => l = m
StartedStaysOpen == \A r \in Readers :
  Present = InitialLessons /\ DistinctPositions =>
    \A s \in Derived(r) : s.solved # 0 => s.unlocked

\* No lesson is out of reach: once nothing is ingested any more and no published
\* lesson is without exercises, users who keep submitting, and whose submissions
\* do not fail for ever, complete every lesson.  (One without exercises is never completed and locks
\* all that follow.)
Diligent == {u \in Users : \A e \in Exercises : LessonOf[e] \in Published => <<u, e>> \in Targets}
KeepAtIt == \A k \in Targets :
  WF_vars(Admit(k) /\ ReadersWait) /\ SF_vars(Solve(k) /\ ReadersWait)
DiligenceIsRewarded ==
  KeepAtIt /\ <>[](Listing \subseteq Counting) =>
    <>[](\A u \in Diligent : DoneWith(SolvedBy(u)) = Listing)
=============================================================================
