--------------------------- MODULE LearningProofs ---------------------------
(***************************************************************************)
(* From the handlers to the readers.  The handlers of Grading implement    *)
(* the environment Learning; Site, in which readers run beside them,       *)
(* implements Reads; so what ReadsProofs shows of readers beside learners  *)
(* holds beside the handlers.  In between: the curriculum is never a dead  *)
(* end.                                                                    *)
(***************************************************************************)
EXTENDS Site, GradingProofs, WellFoundedInduction

USE CurriculumAssumption, GradingAssumption

\* A request is past the gate and has not ended.
PastGate == {"insert"} \cup Writing

\* What the gate has read is current until something is ingested, and no handler
\* is at work for a lesson that is not stored yet.
ViewsInv ==
  /\ \A l \in InitialLessons : catalogue[l] # "absent"
  /\ \A r \in Requests :
       pc[r] \in Gating \cup Writing => catalogue[LessonOf[Exercise(r)]] # "absent"
  /\ Present = InitialLessons => \A r \in Requests :
       /\ pc[r] \in {"totals", "solved"} => listed[r] = Present \cap Published
       /\ pc[r] = "solved" => counted[r] = {l \in Present : ExercisesOf(l) # {}}

\* Only an ingestion changes which lessons are stored, only a commit and an
\* ingestion what is solved, and only Admit takes a request past the gate.
LEMMA LearningSteps ==
  ASSUME TypeOK, [Next]_vars
  PROVE  /\ UNCHANGED target
         /\ \/ /\ UNCHANGED <<catalogue, progress>>
               /\ \A r \in Requests : pc'[r] \in PastGate => pc[r] \in PastGate
            \/ \E r \in Requests : Admit(r) \/ Commit(r)
            \/ \E l \in Lessons : Ingest(l)
<1> USE DEF PastGate, Writing, Goto, dbVars, TypeOK
<1>1. ASSUME NEW r \in Requests,
             Send(r) \/ Begin(r) \/ PoolTimeout(r) \/ ListPublished(r) \/ CountTotals(r)
               \/ Refuse(r) \/ CreatePending(r) \/ Grade(r) \/ ReadProgress(r) \/ Flush(r)
               \/ Reply(r) \/ Raise(r)
      PROVE  /\ UNCHANGED <<catalogue, progress, target>>
             /\ \A q \in Requests : pc'[q] \in PastGate => pc[q] \in PastGate
  BY <1>1 DEF Send, Begin, PoolTimeout, ListPublished, CountTotals, Refuse, CreatePending, Grade,
              ReadProgress, Flush, Reply, Raise, Counted, Infrastructure
<1>2. ASSUME NEW r \in Requests, Admit(r) \/ Commit(r)
      PROVE  UNCHANGED target
  BY <1>2 DEF Admit, Commit
<1>3. ASSUME NEW l \in Lessons, Ingest(l)
      PROVE  UNCHANGED target
  BY <1>3 DEF Ingest
<1>4. CASE Crash
  BY <1>4 DEF Crash
<1>5. CASE UNCHANGED vars
  BY <1>5 DEF vars
<1> QED
  BY <1>1, <1>2, <1>3, <1>4, <1>5 DEF Next, Handle, Finished

\* Once something was ingested, the initial curriculum does not come back.
LEMMA NeverBack ==
  ASSUME TypeOK, ViewsInv, [Next]_vars
  PROVE  /\ \A l \in Lessons : catalogue[l] # "absent" => catalogue'[l] # "absent"
         /\ Present' = InitialLessons => UNCHANGED catalogue
<1>1. ASSUME NEW l \in Lessons, Ingest(l)
      PROVE  /\ \A m \in Lessons : catalogue[m] # "absent" => catalogue'[m] # "absent"
             /\ Present' # InitialLessons
  <2>1. l \in Present' /\ l \notin InitialLessons
    BY <1>1 DEF Ingest, Present, ViewsInv, TypeOK
  <2> QED
    BY <1>1, <2>1 DEF Ingest, TypeOK
<1>2. ASSUME NEW r \in Requests, Admit(r) \/ Commit(r)
      PROVE  UNCHANGED catalogue
  BY <1>2 DEF Admit, Commit, dbVars
<1> QED
  BY <1>1, <1>2, LearningSteps

LEMMA ViewsInit == Init => ViewsInv
  BY DEF Init, ViewsInv, Present, Gating, Writing

LEMMA ViewsStep == TypeOK /\ ViewsInv /\ [Next]_vars => ViewsInv'
<1> SUFFICES ASSUME TypeOK, ViewsInv, [Next]_vars PROVE ViewsInv'
  OBVIOUS
<1> USE DEF Gating, Writing, Goto, dbVars, gateVars, TypeOK
<1>1. /\ UNCHANGED target
      /\ \A l \in Lessons : catalogue[l] # "absent" => catalogue'[l] # "absent"
      /\ \A r \in Requests : LessonOf[Exercise(r)] \in Lessons /\ UNCHANGED Exercise(r)
  BY LearningSteps, NeverBack DEF Keys, Exercise
\* It is enough that a request gets to work only for a lesson that is stored, and
\* reads what is stored.
<1>2. ASSUME \A r \in Requests :
               /\ pc'[r] \in Gating \cup Writing =>
                    pc[r] \in Gating \cup Writing \/ Exists(Exercise(r))
               /\ Present' = InitialLessons =>
                    /\ pc'[r] = "totals" => listed'[r] = Present \cap Published
                    /\ pc'[r] = "solved" =>
                         /\ listed'[r] = Present \cap Published
                         /\ counted'[r] = {l \in Present : ExercisesOf(l) # {}}
      PROVE  ViewsInv'
  <2>1. \A l \in InitialLessons : catalogue'[l] # "absent"
    BY <1>1 DEF ViewsInv
  <2>2. \A r \in Requests : pc'[r] \in Gating \cup Writing => catalogue'[LessonOf[Exercise(r)]] # "absent"
    BY <1>1, <1>2 DEF ViewsInv, Exists, Present
  <2>3. Present' = InitialLessons => Present' = Present
    BY NeverBack DEF Present
  <2> QED
    BY <1>1, <1>2, <2>1, <2>2, <2>3 DEF ViewsInv
<1>3. Present' = InitialLessons => Present = InitialLessons
  BY NeverBack DEF Present
<1>4. ASSUME NEW r \in Requests, ListPublished(r) PROVE ViewsInv'
  BY <1>2, <1>3, <1>4 DEF ListPublished, ViewsInv
<1>5. ASSUME NEW r \in Requests, CountTotals(r) PROVE ViewsInv'
  BY <1>2, <1>3, <1>5 DEF CountTotals, ViewsInv
<1>6. ASSUME NEW r \in Requests,
             Send(r) \/ Begin(r) \/ PoolTimeout(r) \/ Admit(r) \/ Refuse(r) \/ CreatePending(r)
               \/ Grade(r) \/ ReadProgress(r) \/ Flush(r) \/ Commit(r) \/ Reply(r) \/ Raise(r)
      PROVE  ViewsInv'
  <2>1. /\ UNCHANGED <<listed, counted>> /\ pc' = [pc EXCEPT ![r] = pc'[r]]
        /\ pc'[r] \notin {"totals", "solved"}
        /\ pc'[r] \in Gating \cup Writing => pc[r] \in Gating \cup Writing \/ Exists(Exercise(r))
    BY <1>6 DEF Send, Begin, PoolTimeout, Admit, Refuse, CreatePending, Grade, ReadProgress, Flush,
                Commit, Reply, Raise, InFlight, Counted, Infrastructure
  <2> QED
    BY <1>2, <1>3, <2>1 DEF ViewsInv
<1>7. CASE Crash
  BY <1>2, <1>3, <1>7 DEF Crash, InFlight, ViewsInv
<1>8. ASSUME NEW l \in Lessons, Ingest(l) PROVE ViewsInv'
  BY <1>2, <1>3, <1>8 DEF Ingest, ViewsInv
<1>9. CASE UNCHANGED vars
  BY <1>2, <1>3, <1>9 DEF vars, ViewsInv
<1> QED
  BY <1>4, <1>5, <1>6, <1>7, <1>8, <1>9 DEF Next, Handle, Finished

LEMMA ViewsInvariant == Spec => []ViewsInv
  BY ViewsInit, ViewsStep, TypeCorrect, PTL DEF Spec

-----------------------------------------------------------------------------
(* The mapping *)

LEMMA MappedDefinitions ==
  /\ Learners!Present = Present
  /\ Learners!Listing = Present \cap Published
  /\ Learners!Counting = {l \in Present : ExercisesOf(l) # {}}
  /\ \A e : Learners!Exists(e) = Exists(e)
  /\ \A l : Learners!Replaced(l) = Replaced(l) /\ Learners!Gone(l) = Gone(l)
BY DEF Learners!Present, Present, Learners!Listing, Learners!Counting, Learners!Exists, Exists,
       Learners!Replaced, Replaced, Learners!Gone, Gone, Learners!ExercisesOf, ExercisesOf

\* Who is admitted: somebody who has not solved the exercise and for whom a
\* handler is past the gate.
LEMMA AdmittedKeys ==
  ASSUME NEW k
  PROVE  k \in Admitted <=>
           /\ k \notin LedgerSolved
           /\ \E r \in Requests : target[r] = k /\ pc[r] \in PastGate /\ Exists(Exercise(r))
BY DEF Admitted, PastGate

LEMMA SolvedKeys ==
  ASSUME TypeOK, NEW k \in Keys
  PROVE  /\ k \in LedgerSolved <=> IsSolved(k)
         /\ Learners!SolvedBy(k[1]) = SolvedBy(k[1])
<1>1. k[1] \in Users
  BY DEF Keys
<1>2. \A e \in Exercises : <<k[1], e>> \in Keys
  BY <1>1 DEF Keys
<1> QED
  BY <1>2 DEF LedgerSolved, Learners!SolvedBy, SolvedBy

\* A step that opens no way past the gate and leaves the database alone makes
\* some of the admitted fail, or none.
LEMMA FailStep ==
  ASSUME TypeOK, UNCHANGED <<catalogue, progress, target>>,
         \A r \in Requests : pc'[r] \in PastGate => pc[r] \in PastGate
  PROVE  [Learners!LearningNext]_(Learners!learningVars)
<1>1. UNCHANGED LedgerSolved
  BY DEF LedgerSolved, IsSolved
<1>2. Admitted' \subseteq Admitted
  <2>1. \A r \in Requests : Exists(Exercise(r))' <=> Exists(Exercise(r))
    BY DEF Exists, Present, Exercise
  <2> QED
    BY <1>1, <2>1 DEF Admitted, PastGate
<1> DEFINE keys == Admitted \ Admitted'
<1>3. CASE keys = {}
  BY <1>1, <1>2, <1>3 DEF Learners!learningVars
<1>4. CASE keys # {}
  <2>1. Learners!Fail(keys) /\ keys \in SUBSET Admitted
    BY <1>1, <1>2, <1>4 DEF Learners!Fail
  <2> HIDE DEF keys
  <2> QED
    BY <2>1 DEF Learners!LearningNext, Learners!Submit
<1> QED
  BY <1>3, <1>4

\* A handler passes the gate: a view of now admits it, or one of before.
LEMMA AdmitStep ==
  ASSUME TypeOK, ViewsInv, NEW r \in Requests, Admit(r)
  PROVE  [Learners!LearningNext]_(Learners!learningVars)
<1> DEFINE k == target[r]
<1>1. /\ k \in Keys /\ k \in Targets /\ k[2] = Exercise(r) /\ k[1] = User(r)
      /\ Exercise(r) \in Exercises /\ LessonOf[Exercise(r)] \in Lessons
  BY DEF TypeOK, Keys, Exercise, User
<1>2. /\ UNCHANGED <<catalogue, progress, target>> /\ pc[r] = "solved"
      /\ pc' = [pc EXCEPT ![r] = "insert"]
  BY DEF Admit, Goto, dbVars
<1>3. UNCHANGED LedgerSolved
  BY <1>2 DEF LedgerSolved, IsSolved
<1>4. Admitted' = IF Exists(k[2]) /\ k \notin LedgerSolved THEN Admitted \cup {k} ELSE Admitted
  <2>1. \A q \in Requests : Exists(Exercise(q))' <=> Exists(Exercise(q))
    BY <1>2 DEF Exists, Present, Exercise
  <2>2. \A q \in Requests : pc'[q] \in PastGate <=> pc[q] \in PastGate \/ q = r
    BY <1>2 DEF TypeOK, PastGate, Writing
  <2>3. ASSUME NEW x
        PROVE  x \in Admitted' <=> x \in Admitted \/ (x = k /\ Exists(k[2]) /\ k \notin LedgerSolved)
    BY <1>1, <1>2, <1>3, <2>1, <2>2 DEF Admitted, PastGate
  <2> HIDE DEF k
  <2>4. CASE Exists(k[2]) /\ k \notin LedgerSolved
    <3>1. \A x : x \in Admitted' <=> x \in Admitted \cup {k}
      BY <2>3, <2>4
    <3> QED
      BY <2>4, <3>1
  <2>5. CASE ~ (Exists(k[2]) /\ k \notin LedgerSolved)
    <3>1. \A x : x \in Admitted' <=> x \in Admitted
      BY <2>3, <2>5
    <3> QED
      BY <2>5, <3>1
  <2> QED
    BY <2>4, <2>5
<1>5. CASE Admitted' = Admitted
  BY <1>2, <1>3, <1>5 DEF Learners!learningVars
<1>6. CASE Admitted' # Admitted
  <2>1. Exists(k[2]) /\ k \in Targets \ (Admitted \cup LedgerSolved) /\ Admitted' = Admitted \cup {k}
    BY <1>1, <1>4, <1>6
  <2>2. CASE Present # InitialLessons
    <3>1. Learners!AdmitOutdated(k)
      BY <1>2, <1>3, <2>1, <2>2, MappedDefinitions DEF Learners!AdmitOutdated
    <3> QED
      BY <1>1, <3>1 DEF Learners!LearningNext, Learners!Submit, Learners!Keys, Keys
  <2>3. CASE Present = InitialLessons
    <3>1. /\ listed[r] = Learners!Listing /\ counted[r] = Learners!Counting
      BY <1>2, <2>3, MappedDefinitions DEF ViewsInv
    <3>2. Completed(r) = Learners!DoneWith(Learners!SolvedBy(k[1]))
      BY <1>1, <3>1, SolvedKeys
         DEF Completed, Learners!DoneWith, Learners!IsCompleted, IsCompleted,
             Learners!ExercisesOf, ExercisesOf
    <3>3. LessonOf[k[2]] \in Published =>
            Learners!MayBeUnlocked(LessonOf[k[2]], Learners!Listing, Learners!DoneWith(Learners!SolvedBy(k[1])))
      <4>1. ASSUME LessonOf[k[2]] \in Published
            PROVE  MayBeUnlocked(LessonOf[k[2]], listed[r], Completed(r))
        BY <1>1, <2>1, <3>1, <4>1, MappedDefinitions DEF Admit, Exists
      <4> QED
        BY <3>1, <3>2, <4>1
           DEF Learners!MayBeUnlocked, MayBeUnlocked, Learners!MayComeFirst, MayComeFirst,
               Learners!DirectlyBefore, DirectlyBefore
    <3>4. Learners!Admit(k)
      BY <1>2, <1>3, <2>1, <3>3, MappedDefinitions DEF Learners!Admit
    <3> QED
      BY <1>1, <3>4 DEF Learners!LearningNext, Learners!Submit, Learners!Keys, Keys
  <2> QED
    BY <2>2, <2>3
<1> QED
  BY <1>5, <1>6

\* A commit solves what was admitted, or what is solved already; one that stores
\* no pass makes its submission fail.
LEMMA CommitStep ==
  ASSUME TypeOK, WritersAreIsolated, NEW r \in Requests, Commit(r)
  PROVE  [Learners!LearningNext]_(Learners!learningVars)
<1> DEFINE k == target[r]
<1>1. /\ k \in Keys /\ k[2] = Exercise(r) /\ Exists(k[2]) /\ pc[r] \in PastGate
      /\ UNCHANGED <<catalogue, target, status>> /\ pc' = [pc EXCEPT ![r] = "reply"]
  BY DEF TypeOK, Keys, Exercise, Commit, Goto, WritersAreIsolated, Writing, PastGate
<1>2. \A x : x \in LedgerSolved' <=> x \in LedgerSolved \/ (x = k /\ status[r] = "passed")
  BY <1>1, CommitSolves DEF LedgerSolved
<1>3. /\ \A q \in Requests : Exists(Exercise(q))' <=> Exists(Exercise(q))
      /\ \A q \in Requests : pc'[q] \in PastGate <=> pc[q] \in PastGate /\ q # r
  BY <1>1 DEF Exists, Present, Exercise, TypeOK, PastGate, Writing
<1>4. \A x : x \in Admitted' => x \in Admitted
  BY <1>1, <1>2, <1>3 DEF Admitted, PastGate
<1>5. \A x : x \in Admitted /\ x # k => x \in Admitted'
  BY <1>1, <1>2, <1>3 DEF Admitted, PastGate
<1>6. k \in Admitted <=> k \notin LedgerSolved
  BY <1>1, AdmittedKeys
<1>7. k \in Admitted' => k \notin LedgerSolved'
  BY DEF Admitted
<1> HIDE DEF k
<1>8. CASE UNCHANGED LedgerSolved /\ UNCHANGED Admitted
  BY <1>1, <1>8 DEF Learners!learningVars
<1>9. CASE UNCHANGED LedgerSolved /\ Admitted' # Admitted
  <2>1. Admitted' = Admitted \ {k} /\ k \in Admitted
    BY <1>4, <1>5, <1>9
  <2>2. Learners!Fail({k}) /\ {k} \in SUBSET Admitted
    BY <1>1, <1>9, <2>1 DEF Learners!Fail
  <2> QED
    BY <2>2 DEF Learners!LearningNext, Learners!Submit
<1>10. CASE LedgerSolved' # LedgerSolved
  <2>1. LedgerSolved' = LedgerSolved \cup {k} /\ k \notin LedgerSolved
    BY <1>2, <1>10
  <2>2. Admitted' = Admitted \ {k} /\ k \in Admitted
    BY <1>4, <1>5, <1>6, <1>7, <2>1
  <2>3. Learners!Solve(k)
    BY <1>1, <2>1, <2>2, MappedDefinitions DEF Learners!Solve
  <2> QED
    BY <1>1, <2>3 DEF Learners!LearningNext, Learners!Submit, Learners!Keys, Keys
<1> QED
  BY <1>8, <1>9, <1>10

\* Ingesting a lesson takes away what was solved below the row it replaces, and
\* who was admitted there; nobody is admitted yet below the row it adds.
LEMMA IngestStep ==
  ASSUME TypeOK, ViewsInv, NEW l \in Lessons, Ingest(l)
  PROVE  Learners!Ingest(l)
<1>1. /\ \A k \in Keys : progress'[k] = IF k[2] \in Gone(l) THEN NoRow ELSE progress[k]
      /\ \A e \in Exercises : Exists(e)' <=> LessonOf[e] = l \/ (Exists(e) /\ e \notin Gone(l))
      /\ UNCHANGED <<pc, target>> /\ catalogue[l] = "absent"
      /\ \A r \in Requests : Exercise(r) \in Exercises /\ UNCHANGED Exercise(r)
                             /\ Exercise(r) = target[r][2]
  <2>1. UNCHANGED <<pc, target>> /\ catalogue[l] = "absent"
    BY DEF Ingest
  <2>2. \A r \in Requests : Exercise(r) \in Exercises /\ UNCHANGED Exercise(r)
                            /\ Exercise(r) = target[r][2]
    BY <2>1 DEF Exercise, TypeOK, Keys
  <2> QED
    BY <2>1, <2>2, IngestKeeps
<1>2. \A r \in Requests : pc[r] \in PastGate => LessonOf[Exercise(r)] # l
  BY <1>1 DEF ViewsInv, PastGate, Gating
<1>3. LedgerSolved' = {k \in LedgerSolved : k[2] \notin Gone(l)}
  BY <1>1 DEF LedgerSolved, IsSolved
<1>4. ASSUME NEW x
      PROVE  x \in Admitted' <=> x \in Admitted /\ x[2] \notin Gone(l)
  <2>1. ASSUME NEW r \in Requests, target[r] = x, pc[r] \in PastGate
        PROVE  Exists(Exercise(r))' <=> Exists(Exercise(r)) /\ x[2] \notin Gone(l)
    BY <1>1, <1>2, <2>1 DEF Exists
  <2>2. x \in Admitted' <=> /\ x \notin LedgerSolved'
                            /\ \E r \in Requests : /\ target[r] = x /\ pc[r] \in PastGate
                                                   /\ Exists(Exercise(r))'
    BY <1>1 DEF Admitted, PastGate
  <2> QED
    BY <1>3, <2>1, <2>2, AdmittedKeys
<1>5. Admitted' = {k \in Admitted : k[2] \notin Gone(l)}
  BY <1>4
<1> QED
  BY <1>3, <1>5, MappedDefinitions DEF Ingest, Learners!Ingest

\* What the mapping rests on; each part is proved invariant above or in GradingProofs.
HandlersInv == TypeOK /\ WritersAreIsolated /\ ViewsInv

LEMMA HandlersInvariant == Spec => []HandlersInv
<1>1. TypeOK /\ WritersAreIsolated /\ ViewsInv => HandlersInv
  BY DEF HandlersInv
<1> QED
  BY <1>1, TypeCorrect, Isolation, ViewsInvariant, PTL

LEMMA LearnersInit == Init => Learners!LearningInit
<1> SUFFICES ASSUME Init PROVE Learners!LearningInit
  OBVIOUS
<1>1. LedgerSolved = {} /\ Admitted = {}
  BY DEF Init, LedgerSolved, IsSolved, Admitted, Writing
<1> QED
  BY <1>1 DEF Init, Learners!LearningInit

\* Every step of the handlers is one of the learners, or none.
LEMMA LearnersStep ==
  ASSUME HandlersInv, [Next]_vars
  PROVE  [Learners!LearningNext]_(Learners!learningVars)
<1> USE DEF HandlersInv
<1>1. CASE /\ UNCHANGED <<catalogue, progress>>
           /\ \A r \in Requests : pc'[r] \in PastGate => pc[r] \in PastGate
  BY <1>1, LearningSteps, FailStep
<1>2. CASE \E r \in Requests : Admit(r) \/ Commit(r)
  BY <1>2, AdmitStep, CommitStep
<1>3. CASE \E l \in Lessons : Ingest(l)
  BY <1>3, IngestStep DEF Learners!LearningNext
<1> QED
  BY <1>1, <1>2, <1>3, LearningSteps

\* To readers the handlers are learners: no interleaving of their transactions, no
\* failure, crash or re-ingestion does to the database what Learning does not.
THEOREM HandlersAreLearners == Spec => ImplementsLearning
<1>1. HandlersInv /\ [Next]_vars => [Learners!LearningNext]_(Learners!learningVars)
  BY LearnersStep
<1> QED
  BY <1>1, LearnersInit, HandlersInvariant, PTL
     DEF Spec, ImplementsLearning, Learners!LearningSpec

-----------------------------------------------------------------------------
(* The curriculum is never a dead end *)

\* Among finitely many lessons one is the first, and one the last.
LEMMA FirstLesson ==
  ASSUME NEW ls \in SUBSET Lessons, IsFiniteSet(ls), ls # {}
  PROVE  \E l \in ls : \A m \in ls : Position[l] <= Position[m]
<1> DEFINE before(l) == {m \in ls : Position[m] < Position[l]}
           befores == {before(l) : l \in ls}
<1>1. IsWellFoundedOn(StrictSubsetOrdering(ls), SUBSET ls)
  <2>1. FiniteSubsetsOf(ls) = SUBSET ls
    BY FS_FiniteSubsetsOfFinite
  <2>2. IsWellFoundedOn(StrictSubsetOrdering(ls), FiniteSubsetsOf(ls))
    BY FS_StrictSubsetOrderingWellFounded
  <2> QED
    BY <2>1, <2>2
<1>2. befores \subseteq SUBSET ls /\ befores # {}
  <2>1. PICK l \in ls : TRUE
    OBVIOUS
  <2>2. before(l) \in befores
    BY <2>1
  <2>3. befores \subseteq SUBSET ls
    OBVIOUS
  <2> QED
    BY <2>2, <2>3
<1>3. PICK x \in befores : \A y \in befores : <<y, x>> \notin StrictSubsetOrdering(ls)
  <2> HIDE DEF befores
  <2> QED
    BY <1>1, <1>2, WFMin
<1>4. PICK l \in ls : x = before(l)
  OBVIOUS
<1>5. \A m \in ls : Position[m] \in Int
  OBVIOUS
<1>6. ASSUME NEW m \in ls, Position[m] < Position[l]
      PROVE  FALSE
  <2>1. before(m) \subseteq before(l) /\ m \in before(l) /\ m \notin before(m)
    BY <1>5, <1>6
  <2>2. before(m) \in SUBSET ls /\ before(l) \in SUBSET ls /\ before(m) # before(l)
    BY <2>1
  <2>3. <<before(m), before(l)>> \in StrictSubsetOrdering(ls)
    <3> HIDE DEF before
    <3> QED
      BY <2>1, <2>2 DEF StrictSubsetOrdering
  <2> QED
    BY <1>3, <1>4, <2>3
<1> QED
  BY <1>5, <1>6

LEMMA LastLesson ==
  ASSUME NEW ls \in SUBSET Lessons, IsFiniteSet(ls), ls # {}
  PROVE  \E l \in ls : \A m \in ls : Position[m] <= Position[l]
<1> DEFINE after(l) == {m \in ls : Position[l] < Position[m]}
           afters == {after(l) : l \in ls}
<1>1. IsWellFoundedOn(StrictSubsetOrdering(ls), SUBSET ls)
  <2>1. FiniteSubsetsOf(ls) = SUBSET ls
    BY FS_FiniteSubsetsOfFinite
  <2>2. IsWellFoundedOn(StrictSubsetOrdering(ls), FiniteSubsetsOf(ls))
    BY FS_StrictSubsetOrderingWellFounded
  <2> QED
    BY <2>1, <2>2
<1>2. afters \subseteq SUBSET ls /\ afters # {}
  <2>1. PICK l \in ls : TRUE
    OBVIOUS
  <2>2. after(l) \in afters
    BY <2>1
  <2>3. afters \subseteq SUBSET ls
    OBVIOUS
  <2> QED
    BY <2>2, <2>3
<1>3. PICK x \in afters : \A y \in afters : <<y, x>> \notin StrictSubsetOrdering(ls)
  <2> HIDE DEF afters
  <2> QED
    BY <1>1, <1>2, WFMin
<1>4. PICK l \in ls : x = after(l)
  OBVIOUS
<1>5. \A m \in ls : Position[m] \in Int
  OBVIOUS
<1>6. ASSUME NEW m \in ls, Position[l] < Position[m]
      PROVE  FALSE
  <2>1. after(m) \subseteq after(l) /\ m \in after(l) /\ m \notin after(m)
    BY <1>5, <1>6
  <2>2. after(m) \in SUBSET ls /\ after(l) \in SUBSET ls /\ after(m) # after(l)
    BY <2>1
  <2>3. <<after(m), after(l)>> \in StrictSubsetOrdering(ls)
    <3> HIDE DEF after
    <3> QED
      BY <2>1, <2>2 DEF StrictSubsetOrdering
  <2> QED
    BY <1>3, <1>4, <2>3
<1> QED
  BY <1>5, <1>6

\* The first lesson that is not completed is unlocked: it comes first, or the one
\* before it is completed.
LEMMA FirstUnfinished ==
  ASSUME NEW shown \in SUBSET Lessons, IsFiniteSet(shown),
         NEW finished \in SUBSET shown, finished # shown
  PROVE  \E l \in shown \ finished :
           /\ MayBeUnlocked(l, shown, finished)
           /\ (\A m \in shown \ {l} : Position[m] # Position[l]) =>
                ~ MayBeLocked(l, shown, finished)
<1>1. shown \ finished # {} /\ IsFiniteSet(shown \ finished)
  BY FS_Subset
<1>2. PICK l \in shown \ finished : \A m \in shown \ finished : Position[l] <= Position[m]
  BY <1>1, FirstLesson
<1>3. \A m \in shown : Position[m] \in Int
  OBVIOUS
<1>4. \A m \in shown : Position[m] < Position[l] => m \in finished
  BY <1>2, <1>3
<1>5. MayBeUnlocked(l, shown, finished)
  <2> DEFINE earlier == {m \in shown : Position[m] < Position[l]}
  <2>1. CASE earlier = {}
    BY <2>1 DEF MayBeUnlocked, MayComeFirst
  <2>2. CASE earlier # {}
    <3>1. IsFiniteSet(earlier)
      BY FS_Subset
    <3>2. PICK p \in earlier : \A m \in earlier : Position[m] <= Position[p]
      BY <2>2, <3>1, LastLesson
    <3>3. p \in DirectlyBefore(l, shown)
      BY <1>3, <3>2 DEF DirectlyBefore
    <3> QED
      BY <1>4, <3>3 DEF MayBeUnlocked
  <2> QED
    BY <2>1, <2>2
<1>6. (\A m \in shown \ {l} : Position[m] # Position[l]) => ~ MayBeLocked(l, shown, finished)
  BY <1>3, <1>4 DEF MayBeLocked, DirectlyBefore
<1> QED
  BY <1>5, <1>6

\* In no state of the grading flow, however its handlers interleave, fail and are
\* overtaken by ingestions, does the gate leave a learner nothing to go on with.
\* It is the unlock rule that sees to it, for any stored lessons and any solved
\* exercises: the first lesson not completed may always be unlocked.
THEOREM NeverADeadEnd ==
  ASSUME IsFiniteSet(Lessons)
  PROVE  Spec => []Learners!NobodyIsStuck
<1>1. Learners!NobodyIsStuck
  <2> SUFFICES ASSUME Learners!Listing \subseteq Learners!Counting, NEW u \in Users,
                      Learners!DoneWith(Learners!SolvedBy(u)) # Learners!Listing
               PROVE  \E e \in Exercises \ Learners!SolvedBy(u) :
                        /\ LessonOf[e] \in Learners!Listing
                        /\ MayBeUnlocked(LessonOf[e], Learners!Listing,
                                         Learners!DoneWith(Learners!SolvedBy(u)))
                        /\ (\A l \in Learners!Listing \ {LessonOf[e]} :
                              Position[l] # Position[LessonOf[e]]) =>
                             ~ MayBeLocked(LessonOf[e], Learners!Listing,
                                           Learners!DoneWith(Learners!SolvedBy(u)))
    BY DEF Learners!NobodyIsStuck, Learners!MayBeUnlocked, Learners!MayBeLocked,
           Learners!MayComeFirst, Learners!DirectlyBefore,
           MayBeUnlocked, MayBeLocked, MayComeFirst, DirectlyBefore
  <2>1. /\ Learners!Listing \in SUBSET Lessons /\ IsFiniteSet(Learners!Listing)
        /\ Learners!DoneWith(Learners!SolvedBy(u)) \in SUBSET Learners!Listing
    BY FS_Subset DEF Learners!Listing, Learners!Present, Learners!DoneWith
  <2>2. PICK l \in Learners!Listing \ Learners!DoneWith(Learners!SolvedBy(u)) :
          /\ MayBeUnlocked(l, Learners!Listing, Learners!DoneWith(Learners!SolvedBy(u)))
          /\ (\A m \in Learners!Listing \ {l} : Position[m] # Position[l]) =>
               ~ MayBeLocked(l, Learners!Listing, Learners!DoneWith(Learners!SolvedBy(u)))
    BY <2>1, FirstUnfinished
  <2>3. PICK e \in Exercises : LessonOf[e] = l /\ e \notin Learners!SolvedBy(u)
    BY <2>2 DEF Learners!DoneWith, Learners!IsCompleted, Learners!ExercisesOf
  <2> QED
    BY <2>2, <2>3
<1> QED
  BY <1>1, PTL

-----------------------------------------------------------------------------
(* Readers beside the handlers *)

\* Site sees Learning through Reads, Grading sees it directly: definition by
\* definition they are the same.
LEMMA SameLearning ==
  /\ Learners!LearningInit <=> Views!LearningInit
  /\ Learners!Submit <=> Views!Submit
  /\ \A l : Learners!Ingest(l) <=> Views!Ingest(l)
  /\ Learners!learningVars = Views!learningVars
BY DEF Learners!ExercisesOf, Views!ExercisesOf, Learners!IsCompleted, Views!IsCompleted,
       Learners!DirectlyBefore, Views!DirectlyBefore, Learners!MayComeFirst,
       Views!MayComeFirst, Learners!MayBeUnlocked, Views!MayBeUnlocked, Learners!Keys,
       Views!Keys, Learners!Present, Views!Present, Learners!Exists, Views!Exists,
       Learners!SolvedBy, Views!SolvedBy, Learners!Listing, Views!Listing, Learners!Counting,
       Views!Counting, Learners!DoneWith, Views!DoneWith, Learners!LearningInit,
       Views!LearningInit, Learners!Admit, Views!Admit, Learners!AdmitOutdated,
       Views!AdmitOutdated, Learners!Fail, Views!Fail, Learners!Solve, Views!Solve,
       Learners!Replaced, Views!Replaced, Learners!Gone, Views!Gone, Learners!Ingest,
       Views!Ingest, Learners!Submit, Views!Submit, Learners!learningVars, Views!learningVars

\* A step that is no ingestion is a submission, or nothing, to the readers.
LEMMA SubmittedStep ==
  ASSUME HandlersInv, HandlersMove
  PROVE  Views!Submitted \/ UNCHANGED Views!vars
<1>1. [Next]_vars /\ UNCHANGED catalogue
  BY DEF HandlersMove, Next, Crash, Handle, Send, Begin, PoolTimeout, ListPublished, CountTotals,
         Admit, Refuse, CreatePending, Grade, ReadProgress, Flush, Commit, Reply, Raise, dbVars
<1>2. Learners!Submit \/ UNCHANGED Learners!learningVars
  <2>1. ASSUME NEW l \in Lessons, Learners!Ingest(l)
        PROVE  FALSE
    BY <1>1, <2>1 DEF Learners!Ingest
  <2> QED
    BY <1>1, <2>1, LearnersStep DEF Learners!LearningNext
<1>3. Views!ReadersWait
  BY DEF HandlersMove, readerVars, Views!ReadersWait, Views!readVars, Views!history
<1>4. CASE Learners!Submit
  BY <1>3, <1>4, SameLearning DEF Views!Submitted
<1>5. CASE UNCHANGED Learners!learningVars
  BY <1>3, <1>5 DEF Learners!learningVars, Views!learningVars, Views!ReadersWait, Views!dbVars,
                    Views!vars
<1> QED
  BY <1>2, <1>4, <1>5

\* Handlers and readers together are, to the handlers, the handlers alone.
LEMMA SiteIsGrading == SiteSpec => Spec
<1>1. SiteInit => Init
  BY DEF SiteInit
<1>2. [SiteNext]_<<vars, readerVars>> => [Next]_vars
  BY DEF SiteNext, HandlersMove, Reingest, ReadersMove, AllOver, Next
<1> QED
  BY <1>1, <1>2, PTL DEF SiteSpec, Spec

\* And to the readers they are readers beside learners, with all of their
\* transactions, locks, failures and crashes.
THEOREM SiteIsReads == SiteSpec => ImplementsReads
<1>1. SiteInit => Views!Init
  <2> SUFFICES ASSUME SiteInit PROVE Views!Init
    OBVIOUS
  <2>1. Views!LearningInit
    BY LearnersInit, SameLearning DEF SiteInit
  <2> QED
    BY <2>1 DEF SiteInit, Views!Init
<1>2. ASSUME HandlersInv, [SiteNext]_<<vars, readerVars>>
      PROVE  [Views!Next]_(Views!vars)
  <2>1. CASE HandlersMove
    BY <1>2, <2>1, SubmittedStep DEF Views!Next
  <2>2. ASSUME NEW l \in Lessons, Reingest(l)
        PROVE  Views!Next
    <3>1. Views!Ingest(l)
      BY <1>2, <2>2, IngestStep, SameLearning DEF Reingest, HandlersInv
    <3> QED
      BY <2>2, <3>1 DEF Reingest, Views!Next, Views!Ingested, Views!readVars
  <2>3. CASE ReadersMove
    BY <2>3 DEF ReadersMove, Views!Next
  <2>4. CASE AllOver
    BY <2>4 DEF AllOver, Views!Next
  <2>5. CASE UNCHANGED <<vars, readerVars>>
    BY <2>5 DEF vars, dbVars, gateVars, readerVars, Views!vars, Views!dbVars, Views!learningVars,
                Views!readVars, Views!history, LedgerSolved, IsSolved, Admitted, Exists, Present,
                Exercise
  <2> QED
    BY <1>2, <2>1, <2>2, <2>3, <2>4, <2>5 DEF SiteNext
<1>3. SiteSpec => []HandlersInv
  BY SiteIsGrading, HandlersInvariant
<1> QED
  BY <1>1, <1>2, <1>3, PTL DEF SiteSpec, ImplementsReads, Views!Spec

\* What is proved of Reads, taken over.
Proved == INSTANCE ReadsProofs WITH
  solved   <- LedgerSolved,
  admitted <- Admitted,
  pc       <- rpc,
  want     <- rwant,
  found    <- rfound,
  loaded   <- rloaded,
  listed   <- rlisted,
  counted  <- rcounted,
  states   <- rstates,
  before   <- rbefore,
  steady   <- rsteady

\* ReadsProofs extends the Reads that Site is made of.
LEMMA SameReads == Views!Spec <=> Proved!Spec
<1>1. /\ Views!Init <=> Proved!Init
      /\ [Views!Next]_(Views!vars) <=> [Proved!Next]_(Proved!vars)
  BY DEF Proved!ExercisesOf, Views!ExercisesOf, Proved!IsCompleted, Views!IsCompleted,
         Proved!DirectlyBefore, Views!DirectlyBefore, Proved!MayComeFirst, Views!MayComeFirst,
         Proved!MayBeUnlocked, Views!MayBeUnlocked, Proved!Keys, Views!Keys, Proved!Present,
         Views!Present, Proved!Exists, Views!Exists, Proved!SolvedBy, Views!SolvedBy,
         Proved!Listing, Views!Listing, Proved!Counting, Views!Counting, Proved!DoneWith,
         Views!DoneWith, Proved!LearningInit, Views!LearningInit, Proved!Admit, Views!Admit,
         Proved!AdmitOutdated, Views!AdmitOutdated, Proved!Fail, Views!Fail, Proved!Solve,
         Views!Solve, Proved!Replaced, Views!Replaced, Proved!Gone, Views!Gone, Proved!Ingest,
         Views!Ingest, Proved!Submit, Views!Submit, Proved!learningVars, Views!learningVars,
         Proved!Cardinality, Views!Cardinality, Proved!Overviews, Views!Overviews, Proved!Kind,
         Views!Kind, Proved!Reader, Views!Reader, Proved!About, Views!About, Proved!Loading,
         Views!Loading, Proved!Deriving, Views!Deriving, Proved!Running, Views!Running,
         Proved!Ended, Views!Ended, Proved!Init, Views!Init, Proved!Goto, Views!Goto,
         Proved!Orders, Views!Orders, Proved!Total, Views!Total, Proved!Solved, Views!Solved,
         Proved!Completed, Views!Completed, Proved!ComputeStates, Views!ComputeStates,
         Proved!Locked, Views!Locked, Proved!Send, Views!Send, Proved!Begin, Views!Begin,
         Proved!FindLesson, Views!FindLesson, Proved!FindExercise, Views!FindExercise,
         Proved!Load, Views!Load, Proved!LoadProse, Views!LoadProse, Proved!LoadExercises,
         Views!LoadExercises, Proved!LoadTexts, Views!LoadTexts,
         Proved!ListPublished, Views!ListPublished, Proved!CountTotals,
         Views!CountTotals, Proved!Passed, Views!Passed, Proved!CountSolved, Views!CountSolved,
         Proved!ReadProgress, Views!ReadProgress, Proved!AskTutor, Views!AskTutor,
         Proved!Raise, Views!Raise, Proved!ReadersWait, Views!ReadersWait, Proved!Submitted,
         Views!Submitted, Proved!Ingested, Views!Ingested, Proved!Finished, Views!Finished,
         Proved!Handle, Views!Handle, Proved!Next, Views!Next, Proved!dbVars, Views!dbVars,
         Proved!readVars, Views!readVars, Proved!history, Views!history, Proved!vars, Views!vars
<1> QED
  BY <1>1, PTL DEF Views!Spec, Proved!Spec

\* In the whole API, with transactions, locks, failures, crashes and re-ingestion
\* beside them, readers are shown nothing that was not earned: no solution, no
\* completed lesson, and no half of a lesson.
THEOREM SiteShowsWhatIsEarned ==
  ASSUME Proved!ReadsAssumption
  PROVE  SiteSpec => [](/\ Proved!SolutionsAreEarned
                        /\ Proved!ClaimsAreEarned
                        /\ Proved!LessonsAreWhole)
<1>1. Proved!CurriculumAssumption /\ Proved!LearningAssumption
  BY CurriculumAssumption, GradingAssumption DEF Proved!CurriculumAssumption,
     Proved!LearningAssumption, Proved!Keys, Keys
<1>2. Proved!Spec => []Proved!SolutionsAreEarned
  BY <1>1, Proved!SolutionsMustBeEarned, PTL
<1>3. Proved!Spec => []Proved!ClaimsAreEarned
  BY <1>1, Proved!ClaimsMustBeEarned, PTL
<1>4. Proved!Spec => []Proved!LessonsAreWhole
  BY <1>1, Proved!LessonsStayWhole, PTL
<1> QED
  BY <1>2, <1>3, <1>4, SiteIsReads, SameReads, PTL DEF ImplementsReads

\* And as long as nothing is re-ingested, views lie between the state their request
\* was sent in and the present one, the gate is fair, and none of them locks what
\* its user has begun to solve.
THEOREM SiteIsFair ==
  ASSUME Proved!ReadsAssumption
  PROVE  SiteSpec => [](/\ Proved!ViewsAreBracketed
                        /\ Proved!GateIsFair
                        /\ Proved!StartedStaysOpen)
<1>1. Proved!CurriculumAssumption /\ Proved!LearningAssumption
  BY CurriculumAssumption, GradingAssumption DEF Proved!CurriculumAssumption,
     Proved!LearningAssumption, Proved!Keys, Keys
<1>2. Proved!Spec => []Proved!ViewsAreBracketed
  BY <1>1, Proved!ViewsStayBracketed, PTL
<1>3. Proved!Spec => []Proved!GateIsFair
  BY <1>1, Proved!GateStaysFair, PTL
<1>4. Proved!Spec => []Proved!StartedStaysOpen
  BY <1>1, Proved!StartedIsNeverLocked, PTL
<1> QED
  BY <1>2, <1>3, <1>4, SiteIsReads, SameReads, PTL DEF ImplementsReads
=============================================================================
