----------------------------- MODULE ReadsProofs ----------------------------
(***************************************************************************)
(* Proofs about Reads, for any curriculum, users, readers and requests.    *)
(***************************************************************************)
EXTENDS Reads, FiniteSetTheorems, TLAPS

USE DEF learningVars

-----------------------------------------------------------------------------
(* What is derived *)

\* An order that ORDER BY position delivers lists each lesson once; the lesson
\* before another one in it comes directly before that one.
LEMMA OrderedListing ==
  ASSUME NEW listing \in SUBSET Lessons, NEW order \in Orders(listing)
  PROVE  /\ order \in Seq(Lessons) /\ Len(order) = Cardinality(listing)
         /\ DOMAIN order = 1 .. Cardinality(listing) /\ Cardinality(listing) \in Nat
         /\ \A i \in DOMAIN order : order[i] \in listing
         /\ \A l \in listing : \E i \in DOMAIN order : order[i] = l
         /\ \A i \in DOMAIN order : IF i = 1 THEN MayComeFirst(order[i], listing)
                                    ELSE order[i - 1] \in DirectlyBefore(order[i], listing)
<1> DEFINE n == Cardinality(listing)
<1>1. IsFiniteSet(listing) /\ n \in Nat
  BY FS_Subset, FS_CardinalityType, ReadsAssumption
<1> HIDE DEF n
<1>2. /\ order \in [1 .. n -> listing]
      /\ \A i, j \in 1 .. n : i < j => order[i] # order[j] /\ Position[order[i]] <= Position[order[j]]
  BY DEF Orders, n
<1>3. \A l \in listing : \E i \in 1 .. n : order[i] = l
  <2>1. order \in Injection(1 .. n, listing)
    BY <1>1, <1>2 DEF Injection, IsInjective
  <2>2. IsFiniteSet(1 .. n) /\ Cardinality(1 .. n) = n
    BY <1>1, FS_Interval
  <2>3. order \in Surjection(1 .. n, listing)
    BY <1>1, <2>1, <2>2, FS_Injection DEF n
  <2> QED
    BY <2>3 DEF Surjection
<1>4. order \in Seq(Lessons) /\ Len(order) = n
  BY <1>1, <1>2
<1>5. ASSUME NEW i \in 1 .. n
      PROVE  IF i = 1 THEN MayComeFirst(order[i], listing)
             ELSE order[i - 1] \in DirectlyBefore(order[i], listing)
  <2>1. \A j \in 1 .. n : Position[order[j]] \in Int
    BY <1>2, CurriculumAssumption
  <2>2. CASE i = 1
    <3>1. \A j \in 1 .. n : ~ Position[order[j]] < Position[order[1]]
      BY <1>1, <1>2, <2>1, <2>2
    <3> QED
      BY <1>3, <2>2, <3>1 DEF MayComeFirst
  <2>3. CASE i # 1
    <3>1. i - 1 \in 1 .. n
      BY <1>1, <2>3
    <3>2. /\ order[i - 1] \in listing \ {order[i]}
          /\ Position[order[i - 1]] <= Position[order[i]]
      BY <1>1, <1>2, <2>3, <3>1
    <3>3. ASSUME NEW j \in 1 .. n
          PROVE  ~ (/\ Position[order[i - 1]] < Position[order[j]]
                    /\ Position[order[j]] < Position[order[i]])
      <4>1. j < i - 1 \/ j = i - 1 \/ j = i \/ i < j
        BY <1>1
      <4> QED
        BY <1>1, <1>2, <2>1, <3>1, <4>1
    <3> QED
      BY <1>3, <2>3, <3>2, <3>3 DEF DirectlyBefore
  <2> QED
    BY <2>2, <2>3
<1> QED
  BY <1>1, <1>2, <1>3, <1>4, <1>5 DEF n

\* The counts of a lesson are numbers; what counts as completed is solved in full.
LEMMA Counts ==
  ASSUME NEW l \in Lessons, NEW withExercises, NEW done
  PROVE  /\ Total(l, withExercises) \in Nat /\ Solved(l, withExercises, done) \in Nat
         /\ Solved(l, withExercises, done) <= Total(l, withExercises)
         /\ Completed(l, withExercises, done) <=>
              /\ Total(l, withExercises) # 0
              /\ Solved(l, withExercises, done) = Total(l, withExercises)
         /\ Completed(l, withExercises, done) => ExercisesOf(l) \subseteq done
         /\ Solved(l, withExercises, done) <= Cardinality(ExercisesOf(l) \cap done)
         /\ Cardinality(ExercisesOf(l) \cap done) \in Nat
<1>1. IsFiniteSet(ExercisesOf(l)) /\ Cardinality(ExercisesOf(l)) \in Nat
  <2>1. ExercisesOf(l) \in SUBSET Exercises
    BY DEF ExercisesOf
  <2> QED
    BY <2>1, FS_Subset, FS_CardinalityType, ReadsAssumption
<1> DEFINE both == ExercisesOf(l) \cap done
<1>2. /\ IsFiniteSet(both) /\ Cardinality(both) \in Nat
      /\ Cardinality(both) <= Cardinality(ExercisesOf(l))
      /\ Cardinality(both) = Cardinality(ExercisesOf(l)) => both = ExercisesOf(l)
  <2>1. both \in SUBSET ExercisesOf(l)
    OBVIOUS
  <2> HIDE DEF both
  <2> QED
    BY <1>1, <2>1, FS_Subset, FS_CardinalityType
<1>3. Cardinality(both) = Cardinality(ExercisesOf(l)) => ExercisesOf(l) \subseteq done
  BY <1>2
<1> QED
  BY <1>1, <1>2, <1>3 DEF Total, Solved, Completed

\* Where the totals are those of all lessons with exercises, completed means what
\* Curriculum says.
LEMMA CompletedAgrees ==
  ASSUME NEW l \in Listing, NEW done
  PROVE  Completed(l, Counting, done) <=> IsCompleted(l, Counting, done)
<1>1. l \in Lessons /\ IsFiniteSet(ExercisesOf(l))
  <2>1. ExercisesOf(l) \in SUBSET Exercises
    BY DEF ExercisesOf
  <2> QED
    BY <2>1, FS_Subset, ReadsAssumption DEF Listing, Present
<1>2. ASSUME IsCompleted(l, Counting, done)
      PROVE  Completed(l, Counting, done)
  <2>1. l \in Counting /\ ExercisesOf(l) # {} /\ ExercisesOf(l) \cap done = ExercisesOf(l)
    BY <1>2 DEF IsCompleted, Counting
  <2>2. Cardinality(ExercisesOf(l)) # 0
    BY <1>1, <2>1, FS_EmptySet
  <2> QED
    BY <1>1, <2>1, <2>2, Counts DEF Completed, Total, Solved
<1>3. ASSUME Completed(l, Counting, done)
      PROVE  IsCompleted(l, Counting, done)
  <2>1. l \in Counting
    BY <1>3 DEF Completed, Total
  <2> QED
    BY <1>1, <1>3, <2>1, Counts DEF IsCompleted
<1> QED
  BY <1>2, <1>3

LEMMA StatesAreStates ==
  ASSUME NEW listing \in SUBSET Lessons, NEW order \in Orders(listing), NEW withExercises, NEW done
  PROVE  ComputeStates(order, withExercises, done) \in Seq(States)
<1> DEFINE derived == ComputeStates(order, withExercises, done)
           n == Cardinality(listing)
<1>1. DOMAIN order = 1 .. n /\ n \in Nat /\ \A i \in 1 .. n : order[i] \in Lessons
  BY OrderedListing
<1> HIDE DEF n
<1>2. ASSUME NEW i \in 1 .. n
      PROVE  [lesson    |-> order[i],
              total     |-> Total(order[i], withExercises),
              solved    |-> Solved(order[i], withExercises, done),
              completed |-> Completed(order[i], withExercises, done),
              unlocked  |-> i = 1 \/ Completed(order[i - 1], withExercises, done)] \in States
  <2>1. /\ Total(order[i], withExercises) \in Nat
        /\ Solved(order[i], withExercises, done) \in Nat
    BY <1>1, Counts
  <2>2. Completed(order[i], withExercises, done) \in BOOLEAN
    BY DEF Completed
  <2>3. (i = 1 \/ Completed(order[i - 1], withExercises, done)) \in BOOLEAN
    OBVIOUS
  <2> QED
    BY <1>1, <2>1, <2>2, <2>3, Zenon DEF States
<1>3. derived \in [1 .. n -> States]
  BY <1>1, <1>2, Zenon DEF ComputeStates
<1> QED
  BY <1>1, <1>3

-----------------------------------------------------------------------------
(* Types, and the way of each request *)

\* Which requests reach which step, and with which row.
Routes == \A r \in Readers :
  /\ pc[r] \in {"row", "exercises", "texts"} => Kind(r) = "lesson"
  /\ pc[r] = "prose" => Kind(r) \in {"lesson", "hint"}
  /\ pc[r] = "exercise" => Kind(r) \in {"solution", "hint"}
  /\ pc[r] \in Deriving => Kind(r) \in Overviews \cup {"lesson", "solution", "hint"}
  /\ pc[r] = "progress" => Kind(r) \in {"progress", "solution"}
  /\ pc[r] = "asking" => Kind(r) \in {"hint", "chat"}
  /\ pc[r] \in {"prose", "exercises", "texts"} => found[r] \in Lessons
  /\ pc[r] \in Deriving /\ Kind(r) \notin Overviews => found[r] \in Lessons
  /\ found[r] \in Lessons => catalogue[found[r]] # "absent"

\* The list a request has seen is one ORDER BY may have delivered.
Listings == \A r \in Readers :
  pc[r] \in {"totals", "solved"} => \E listing \in SUBSET Lessons : listed[r] \in Orders(listing)

BaseInv == TypeOK /\ Routes /\ Listings

LEMMA Requests ==
  ASSUME want \in [Readers -> Wanted], NEW r \in Readers
  PROVE  /\ Kind(r) \in {"lesson", "chat"} \cup OfExercise \cup Overviews
         /\ Kind(r) \in OfExercise => About(r) \in Exercises
         /\ Reader(r) \in Users
  BY ReadsAssumption DEF Request, Kind, About, Reader, OfExercise, Overviews

LEMMA BaseInit == Init => BaseInv
<1> SUFFICES ASSUME Init PROVE BaseInv
  OBVIOUS
<1>1. \A r \in Readers : pc[r] = "idle" /\ found[r] = NoRow /\ states[r] = <<>> /\ listed[r] = <<>>
  BY DEF Init
<1>2. steady \in [Readers -> BOOLEAN]
  BY DEF Init
<1>3. TypeOK
  BY <1>2 DEF Init, LearningInit, TypeOK
<1> QED
  BY <1>1, <1>3, ReadsAssumption DEF BaseInv, Routes, Listings, Deriving

\* Of a submission readers only see that something more is solved.
LEMMA Submitting ==
  ASSUME Submitted
  PROVE  /\ UNCHANGED catalogue /\ solved \subseteq solved' /\ ReadersWait
         /\ solved \subseteq Keys /\ admitted \subseteq Keys =>
              solved' \subseteq Keys /\ admitted' \subseteq Keys
  BY DEF Submitted, Submit, Admit, AdmitOutdated, Solve, Fail

\* A row that was stored is never absent again.
LEMMA RowsStay == [Next]_vars /\ TypeOK =>
                    \A l \in Lessons : /\ catalogue[l] # "absent" => catalogue'[l] # "absent"
                                       /\ catalogue[l] = "deleted" => catalogue'[l] = "deleted"
<1> SUFFICES ASSUME [Next]_vars, TypeOK, NEW l \in Lessons
             PROVE  /\ catalogue[l] # "absent" => catalogue'[l] # "absent"
                    /\ catalogue[l] = "deleted" => catalogue'[l] = "deleted"
  OBVIOUS
<1>1. ASSUME NEW m \in Lessons, Ingested(m)
      PROVE  /\ catalogue[l] # "absent" => catalogue'[l] # "absent"
             /\ catalogue[l] = "deleted" => catalogue'[l] = "deleted"
  BY <1>1 DEF Ingested, Ingest, TypeOK, Replaced, Present
<1>2. UNCHANGED catalogue \/ \E m \in Lessons : Ingested(m)
  BY Submitting DEF Next, Send, Handle, Raise, Begin, FindLesson, FindExercise, LoadProse, LoadExercises, LoadTexts, Load,
         ListPublished, CountTotals, CountSolved, ReadProgress, AskTutor, Finished,
         vars, dbVars
<1> QED
  BY <1>1, <1>2

LEMMA BaseStep == BaseInv /\ [Next]_vars => BaseInv'
<1> SUFFICES ASSUME BaseInv, [Next]_vars PROVE BaseInv'
  OBVIOUS
<1> USE DEF Running, Loading, Deriving, Ended
<1>1. ASSUME NEW r \in Readers, Send(r)
      PROVE  BaseInv'
  <2>1. /\ before' \in [Readers -> SUBSET Exercises]
        /\ steady' \in [Readers -> BOOLEAN]
    BY <1>1 DEF Send, BaseInv, TypeOK, SolvedBy
  <2> QED
    BY <1>1, <2>1 DEF Send, Goto, BaseInv, TypeOK, Routes, Listings, Kind, dbVars, readVars
<1>2. ASSUME NEW r \in Readers, Begin(r)
      PROVE  BaseInv'
  BY <1>2, Requests DEF Begin, Goto, BaseInv, TypeOK, Routes, Listings, Kind, OfExercise, Overviews,
                        dbVars, readVars, history
<1>3. ASSUME NEW r \in Readers, FindLesson(r)
      PROVE  BaseInv'
  <2>1. /\ pc[r] = "row" /\ Kind(r) = "lesson" /\ \A o \in Readers \ {r} : UNCHANGED <<pc[o], found[o]>>
        /\ pc' \in [Readers -> {"idle"} \cup Running \cup Ended] /\ pc'[r] \in {"prose", "404"}
        /\ UNCHANGED <<dbVars, want, loaded, listed, counted, states, history>>
    BY <1>3 DEF FindLesson, Goto, BaseInv, TypeOK, Routes
  <2>2. /\ found' \in [Readers -> Lessons \cup {NoRow}]
        /\ found'[r] \in Lessons => catalogue[found'[r]] # "absent"
        /\ pc'[r] = "prose" => found'[r] \in Lessons
    <3>1. CASE \E l \in Present : found' = [found EXCEPT ![r] = l]
      BY <2>1, <3>1 DEF BaseInv, TypeOK, Present
    <3>2. CASE UNCHANGED found /\ pc'[r] = "404"
      BY <2>1, <3>2 DEF BaseInv, TypeOK, Routes
    <3> QED
      BY <1>3, <2>1, <3>1, <3>2 DEF FindLesson, Goto, BaseInv, TypeOK
  <2>3. TypeOK'
    BY <2>1, <2>2 DEF BaseInv, TypeOK, dbVars, history
  <2>4. Listings'
    BY <2>1 DEF BaseInv, Listings
  <2>5. Routes'
    <3>1. UNCHANGED catalogue /\ \A o \in Readers : UNCHANGED Kind(o)
      BY <2>1 DEF Kind, dbVars
    <3> QED
      BY <2>1, <2>2, <3>1 DEF BaseInv, Routes
  <2> QED
    BY <2>3, <2>4, <2>5 DEF BaseInv
<1>4. ASSUME NEW r \in Readers, FindExercise(r)
      PROVE  BaseInv'
  <2>1. About(r) \in Exercises /\ LessonOf[About(r)] \in Lessons
    BY <1>4, Requests, CurriculumAssumption DEF FindExercise, BaseInv, TypeOK, Routes, OfExercise
  <2>2. /\ pc[r] = "exercise" /\ Kind(r) \in {"solution", "hint"}
        /\ \A o \in Readers \ {r} : UNCHANGED <<pc[o], found[o]>>
        /\ pc' \in [Readers -> {"idle"} \cup Running \cup Ended]
        /\ UNCHANGED <<dbVars, want, loaded, listed, counted, states, history>>
    BY <1>4 DEF FindExercise, Goto, BaseInv, TypeOK, Routes
  <2>3. /\ found' \in [Readers -> Lessons \cup {NoRow}]
        /\ found'[r] \in Lessons => catalogue[found'[r]] # "absent"
        /\ \/ pc'[r] = "prose" /\ Kind(r) = "hint" /\ found'[r] \in Lessons
           \/ pc'[r] = "listing" /\ found'[r] \in Lessons
           \/ pc'[r] = "404"
    BY <1>4, <2>1, <2>2 DEF FindExercise, Goto, BaseInv, TypeOK, Routes, Present, Exists
  <2>4. TypeOK'
    BY <2>2, <2>3 DEF BaseInv, TypeOK, dbVars, history
  <2>5. Listings'
    BY <2>2, <2>3 DEF BaseInv, Listings
  <2>6. Routes'
    <3>1. UNCHANGED catalogue /\ \A o \in Readers : UNCHANGED Kind(o)
      BY <2>2 DEF Kind, dbVars
    <3> QED
      BY <2>2, <2>3, <3>1 DEF BaseInv, Routes
  <2> QED
    BY <2>4, <2>5, <2>6 DEF BaseInv
<1>5. ASSUME NEW r \in Readers, LoadProse(r) \/ LoadExercises(r) \/ LoadTexts(r)
      PROVE  BaseInv'
  <2>1. /\ pc[r] \in {"prose", "exercises", "texts"} /\ \A o \in Readers \ {r} : pc'[o] = pc[o]
        /\ pc' \in [Readers -> {"idle"} \cup Running \cup Ended]
        /\ UNCHANGED <<dbVars, want, found, listed, counted, states, history>>
    BY <1>5 DEF LoadProse, LoadExercises, LoadTexts, Load, Goto, BaseInv, TypeOK
  <2>2. (pc'[r] \in {"exercises", "texts"} /\ Kind(r) = "lesson") \/ pc'[r] = "listing"
    BY <1>5 DEF LoadProse, LoadExercises, LoadTexts, Load, Goto, BaseInv, TypeOK, Routes
  <2>3. loaded' \in [Readers -> SUBSET {"prose", "exercises", "texts"}]
    <3>1. PICK what \in {"prose", "exercises", "texts"} :
            loaded' = IF found[r] \in Present THEN [loaded EXCEPT ![r] = @ \cup {what}] ELSE loaded
      BY <1>5 DEF LoadProse, LoadExercises, LoadTexts, Load
    <3> QED
      BY <3>1 DEF BaseInv, TypeOK
  <2> QED
    BY <2>1, <2>2, <2>3 DEF BaseInv, TypeOK, Routes, Listings, Kind, dbVars, history
<1>6. ASSUME NEW r \in Readers, ListPublished(r)
      PROVE  BaseInv'
  <2>1. PICK order \in Orders(Present \cap Published) : listed' = [listed EXCEPT ![r] = order]
    BY <1>6 DEF ListPublished
  <2>2. Present \cap Published \in SUBSET Lessons
    BY DEF Present
  <2>3. order \in Seq(Lessons)
    BY <2>1, <2>2, OrderedListing
  <2>4. Listings'
    <3>1. listed'[r] = order /\ \A o \in Readers \ {r} : listed'[o] = listed[o] /\ pc'[o] = pc[o]
      BY <1>6, <2>1 DEF ListPublished, Goto, BaseInv, TypeOK
    <3> QED
      BY <2>1, <2>2, <3>1 DEF BaseInv, Listings
  <2>5. TypeOK'
    BY <1>6, <2>1, <2>3 DEF ListPublished, Goto, BaseInv, TypeOK, dbVars, history
  <2>6. Routes'
    BY <1>6 DEF ListPublished, Goto, BaseInv, TypeOK, Routes, Kind, dbVars, history
  <2> QED
    BY <2>4, <2>5, <2>6 DEF BaseInv
<1>7. ASSUME NEW r \in Readers, CountTotals(r)
      PROVE  BaseInv'
  <2>1. counted' \in [Readers -> SUBSET Lessons]
    BY <1>7 DEF CountTotals, BaseInv, TypeOK, Present
  <2> QED
    BY <1>7, <2>1 DEF CountTotals, Goto, BaseInv, TypeOK, Routes, Listings, Kind, dbVars, history
<1>8. ASSUME NEW r \in Readers, CountSolved(r)
      PROVE  BaseInv'
  <2> DEFINE derived == ComputeStates(listed[r], counted[r], SolvedBy(Reader(r)))
  <2>1. derived \in Seq(States)
    BY <1>8, StatesAreStates DEF CountSolved, Passed, BaseInv, Listings
  <2>2. states' = [states EXCEPT ![r] = derived]
    BY <1>8 DEF CountSolved
  <2> HIDE DEF derived
  <2>3. states' \in [Readers -> Seq(States)]
    BY <2>1, <2>2 DEF BaseInv, TypeOK
  <2>4. /\ pc[r] = "solved" /\ \A o \in Readers \ {r} : pc'[o] = pc[o]
        /\ pc'[r] \in {"200", "403", "progress", "asking"}
        /\ pc'[r] = "progress" => Kind(r) = "solution"
        /\ pc'[r] = "asking" => Kind(r) = "hint"
        /\ pc' \in [Readers -> {"idle"} \cup Running \cup Ended]
    BY <1>8 DEF CountSolved, Passed, Goto, BaseInv, TypeOK, Routes, Overviews
  <2> QED
    BY <1>8, <2>3, <2>4 DEF CountSolved, Passed, BaseInv, TypeOK, Routes, Listings, Kind, dbVars, history
<1>9. ASSUME NEW r \in Readers, ReadProgress(r) \/ AskTutor(r) \/ Raise(r)
      PROVE  BaseInv'
  <2>0. /\ \E answer \in Ended : Goto(r, answer)
        /\ UNCHANGED <<dbVars, want, readVars, history>>
    <3>1. CASE ReadProgress(r)
      BY <3>1 DEF ReadProgress, Ended
    <3>2. CASE AskTutor(r)
      BY <3>2 DEF AskTutor, Ended
    <3>3. CASE Raise(r)
      BY <3>3 DEF Raise, Ended
    <3> QED
      BY <1>9, <3>1, <3>2, <3>3
  <2> PICK answer \in Ended : Goto(r, answer)
    BY <2>0
  <2> pc \in [Readers -> {"idle"} \cup Running \cup Ended]
    BY DEF BaseInv, TypeOK
  <2>1. pc'[r] \in Ended /\ \A o \in Readers \ {r} : pc'[o] = pc[o]
    BY DEF Goto
  <2>2. /\ pc' \in [Readers -> {"idle"} \cup Running \cup Ended]
        /\ UNCHANGED <<dbVars, want, readVars, history>>
    BY <2>0 DEF Goto
  <2> QED
    BY <2>1, <2>2 DEF BaseInv, TypeOK, Routes, Listings, Kind, dbVars, readVars, history
<1>10. ASSUME Submitted
       PROVE  BaseInv'
  BY <1>10, Submitting DEF ReadersWait, BaseInv, TypeOK, Routes, Listings, Kind, readVars, history
<1>11. ASSUME NEW l \in Lessons, Ingested(l)
       PROVE  BaseInv'
  <2>1. /\ catalogue' \in [Lessons -> {"absent", "present", "deleted"}]
        /\ steady' \in [Readers -> BOOLEAN]
        /\ solved' \subseteq Keys /\ admitted' \subseteq Keys
    BY <1>11 DEF Ingested, Ingest, BaseInv, TypeOK
  <2>2. \A r \in Readers : found[r] \in Lessons => catalogue'[found[r]] # "absent"
    BY RowsStay DEF BaseInv, Routes
  <2> QED
    BY <1>11, <2>1, <2>2 DEF Ingested, Ingest, BaseInv, TypeOK, Routes, Listings, Kind, readVars
<1>12. CASE UNCHANGED vars
  BY <1>12 DEF vars, BaseInv, TypeOK, Routes, Listings, Kind, dbVars, readVars, history
<1> QED
  BY <1>1, <1>2, <1>3, <1>4, <1>5, <1>6, <1>7, <1>8, <1>9, <1>10, <1>11, <1>12
     DEF Next, Handle, Finished

LEMMA BaseInvariant == Spec => []BaseInv
  BY BaseInit, BaseStep, PTL DEF Spec

\* Every variable keeps its type, whatever is ingested or solved meanwhile.
THEOREM TypeCorrect == Spec => []TypeOK
  BY BaseInvariant, PTL DEF BaseInv

-----------------------------------------------------------------------------
(* What a step is for a reader, and for the database *)

KnownTo(r) == <<pc[r], found[r], loaded[r], listed[r], counted[r], states[r], before[r]>>

\* A step is one of the reader's own, which leaves the database alone, or one of
\* which the reader knows nothing.
LEMMA ReaderSteps ==
  ASSUME BaseInv, [Next]_vars, NEW r \in Readers
  PROVE  /\ UNCHANGED want
         /\ \/ /\ Send(r) \/ Handle(r) \/ Raise(r)
               /\ UNCHANGED dbVars
            \/ /\ UNCHANGED KnownTo(r)
               /\ steady'[r] => steady[r]
<1>1. ASSUME NEW o \in Readers, Send(o)
      PROVE  UNCHANGED dbVars /\ UNCHANGED want
             /\ (o # r => UNCHANGED KnownTo(r) /\ UNCHANGED steady[r])
  BY <1>1 DEF Send, Goto, KnownTo, BaseInv, TypeOK, readVars
<1>2. ASSUME NEW o \in Readers, Handle(o)
      PROVE  UNCHANGED dbVars /\ UNCHANGED want /\ UNCHANGED steady
             /\ (o # r => UNCHANGED KnownTo(r))
  <2>1. CASE Begin(o) \/ ReadProgress(o) \/ AskTutor(o)
    BY <2>1 DEF Begin, ReadProgress, AskTutor, Goto, KnownTo, BaseInv, TypeOK, readVars, history
  <2>2. CASE FindLesson(o) \/ FindExercise(o)
    BY <2>2 DEF FindLesson, FindExercise, Goto, KnownTo, BaseInv, TypeOK, history
  <2>3. CASE LoadProse(o) \/ LoadExercises(o) \/ LoadTexts(o)
    BY <2>3 DEF LoadProse, LoadExercises, LoadTexts, Load, Goto, KnownTo, BaseInv, TypeOK, history
  <2>4. CASE ListPublished(o) \/ CountTotals(o)
    BY <2>4 DEF ListPublished, CountTotals, Goto, KnownTo, BaseInv, TypeOK, history
  <2>5. CASE CountSolved(o)
    BY <2>5 DEF CountSolved, Passed, Goto, KnownTo, BaseInv, TypeOK, history
  <2> QED
    BY <1>2, <2>1, <2>2, <2>3, <2>4, <2>5 DEF Handle
<1>3. ASSUME NEW o \in Readers, Raise(o)
      PROVE  UNCHANGED dbVars /\ UNCHANGED want /\ UNCHANGED steady
             /\ (o # r => UNCHANGED KnownTo(r))
  BY <1>3 DEF Raise, Goto, KnownTo, BaseInv, TypeOK, readVars, history
<1>4. ASSUME Submitted
      PROVE  UNCHANGED want /\ UNCHANGED steady /\ UNCHANGED KnownTo(r)
  BY <1>4, Submitting DEF ReadersWait, KnownTo, readVars, history
<1>5. ASSUME NEW l \in Lessons, Ingested(l)
      PROVE  UNCHANGED want /\ UNCHANGED KnownTo(r) /\ ~ steady'[r]
  BY <1>5 DEF Ingested, Ingest, KnownTo, readVars
<1>6. CASE UNCHANGED vars
  BY <1>6 DEF vars, KnownTo, readVars, history
<1>7. CASE Finished
  BY <1>7 DEF Finished, vars, KnownTo, readVars, history
<1> QED
  BY <1>1, <1>2, <1>3, <1>4, <1>5, <1>6, <1>7 DEF Next

\* Without an ingestion the rows stay and solved exercises stay solved; with one,
\* whatever is forgotten was of a lesson that has been deleted.
LEMMA DatabaseSteps ==
  ASSUME BaseInv, [Next]_vars
  PROVE  \/ UNCHANGED catalogue /\ solved \subseteq solved'
         \/ /\ \E l \in Lessons : Ingested(l)
            /\ \A r \in Readers : ~ steady'[r]
            /\ \A k \in solved : k \in solved' \/ catalogue'[LessonOf[k[2]]] = "deleted"
<1>1. ASSUME NEW l \in Lessons, Ingested(l), NEW k \in solved
      PROVE  k \in solved' \/ catalogue'[LessonOf[k[2]]] = "deleted"
  <2>1. LessonOf[k[2]] \in Replaced(l) => LessonOf[k[2]] # l
    BY <1>1 DEF Ingested, Ingest, Replaced, Present
  <2>2. k[2] \in Exercises /\ LessonOf[k[2]] \in Lessons
    BY CurriculumAssumption DEF BaseInv, TypeOK, Keys
  <2> QED
    BY <1>1, <2>1, <2>2 DEF Ingested, Ingest, Gone
<1>2. ASSUME NEW l \in Lessons, Ingested(l)
      PROVE  \A r \in Readers : ~ steady'[r]
  BY <1>2 DEF Ingested
<1>3. ASSUME Submitted
      PROVE  UNCHANGED catalogue /\ solved \subseteq solved'
  BY <1>3, Submitting
<1>4. ASSUME NEW r \in Readers, Send(r) \/ Handle(r) \/ Raise(r)
      PROVE  UNCHANGED <<catalogue, solved>>
  BY <1>4 DEF Send, Handle, Raise, Begin, FindLesson, FindExercise, LoadProse, LoadExercises, LoadTexts, Load,
         ListPublished, CountTotals, CountSolved, ReadProgress, AskTutor, dbVars
<1>5. CASE UNCHANGED vars \/ Finished
  BY <1>5 DEF vars, Finished, dbVars
<1> QED
  BY <1>1, <1>2, <1>3, <1>4, <1>5 DEF Next

-----------------------------------------------------------------------------
(* Solutions *)

SolutionsInv == \A r \in Readers : Kind(r) = "solution" /\ pc[r] = "200" =>
  /\ \/ About(r) \in SolvedBy(Reader(r))
     \/ catalogue[LessonOf[About(r)]] = "deleted"
  /\ About(r) \in WithSolution

\* The reference solution is shown only to who has solved the exercise, however
\* submissions and ingestion run between the statements of the request.
THEOREM SolutionsMustBeEarned == Spec => []SolutionsAreEarned
<1>1. Init => SolutionsInv
  BY DEF Init, SolutionsInv
<1>2. ASSUME BaseInv, SolutionsInv, [Next]_vars
      PROVE  SolutionsInv'
  <2> SUFFICES ASSUME NEW r \in Readers, Kind(r)' = "solution", pc'[r] = "200"
               PROVE  /\ \/ About(r)' \in SolvedBy(Reader(r))'
                         \/ catalogue'[LessonOf[About(r)']] = "deleted"
                      /\ About(r)' \in WithSolution
    BY DEF SolutionsInv
  <2>1. UNCHANGED <<want, Kind(r), About(r), Reader(r)>>
    BY <1>2, ReaderSteps DEF Kind, About, Reader
  <2>2. Kind(r) = "solution" /\ About(r) \in Exercises /\ LessonOf[About(r)] \in Lessons
        /\ Reader(r) \in Users
    BY <1>2, <2>1, Requests, CurriculumAssumption DEF BaseInv, TypeOK, OfExercise
  <2>3. CASE UNCHANGED KnownTo(r)
    <3>1. /\ About(r) \in SolvedBy(Reader(r)) \/ catalogue[LessonOf[About(r)]] = "deleted"
          /\ About(r) \in WithSolution
      BY <1>2, <2>2, <2>3 DEF SolutionsInv, KnownTo
    <3>2. About(r) \in SolvedBy(Reader(r)) =>
            \/ About(r) \in SolvedBy(Reader(r))'
            \/ catalogue'[LessonOf[About(r)]] = "deleted"
      <4>1. ASSUME <<Reader(r), About(r)>> \in solved
            PROVE  \/ <<Reader(r), About(r)>> \in solved'
                   \/ catalogue'[LessonOf[About(r)]] = "deleted"
        BY <1>2, <4>1, DatabaseSteps
      <4> QED
        BY <2>1, <2>2, <4>1 DEF SolvedBy
    <3>3. catalogue[LessonOf[About(r)]] = "deleted" => catalogue'[LessonOf[About(r)]] = "deleted"
      BY <1>2, <2>2, RowsStay DEF BaseInv
    <3> QED
      BY <2>1, <3>1, <3>2, <3>3
  <2>4. CASE (Send(r) \/ Handle(r) \/ Raise(r)) /\ UNCHANGED dbVars
    <3>1. ReadProgress(r)
      BY <1>2, <2>2, <2>4
         DEF Send, Handle, Raise, Begin, FindLesson, FindExercise, LoadProse, LoadExercises, LoadTexts, Load,
             ListPublished, CountTotals, CountSolved, Passed, AskTutor, Goto, BaseInv, TypeOK, Routes,
             Overviews
    <3>2. <<Reader(r), About(r)>> \in solved /\ About(r) \in WithSolution
      BY <1>2, <2>2, <3>1 DEF ReadProgress, Goto, BaseInv, TypeOK
    <3>3. About(r) \in SolvedBy(Reader(r)) /\ UNCHANGED SolvedBy(Reader(r))
      BY <2>1, <2>2, <2>4, <3>2 DEF SolvedBy, dbVars
    <3> QED
      BY <2>1, <3>2, <3>3
  <2> QED
    BY <1>2, <2>3, <2>4, ReaderSteps
<1>3. SolutionsInv => SolutionsAreEarned
  BY DEF SolutionsInv, SolutionsAreEarned, Exists, Present
<1> QED
  BY <1>1, <1>2, <1>3, BaseInvariant, PTL DEF Spec

-----------------------------------------------------------------------------
(* Whole lessons *)

LoadedInv == \A r \in Readers : Kind(r) = "lesson" /\ found[r] \in Present =>
  /\ pc[r] \in {"exercises", "texts", "listing", "totals", "solved", "200"} => "prose" \in loaded[r]
  /\ pc[r] \in {"texts", "listing", "totals", "solved", "200"} => "exercises" \in loaded[r]
  /\ pc[r] \in {"listing", "totals", "solved", "200"} => "texts" \in loaded[r]

\* A lesson is served with all of its text and exercises, or its row is gone.
THEOREM LessonsStayWhole == Spec => []LessonsAreWhole
<1>1. Init => LoadedInv
  BY DEF Init, LoadedInv
<1>2. ASSUME BaseInv, LoadedInv, [Next]_vars
      PROVE  LoadedInv'
  <2> DEFINE Whole(r) ==
        /\ pc[r] \in {"exercises", "texts", "listing", "totals", "solved", "200"} => "prose" \in loaded[r]
        /\ pc[r] \in {"texts", "listing", "totals", "solved", "200"} => "exercises" \in loaded[r]
        /\ pc[r] \in {"listing", "totals", "solved", "200"} => "texts" \in loaded[r]
  <2> SUFFICES ASSUME NEW r \in Readers, Kind(r)' = "lesson", found'[r] \in Present'
               PROVE  Whole(r)'
    BY DEF LoadedInv
  <2>1. Kind(r) = "lesson"
    BY <1>2, ReaderSteps DEF Kind
  <2>2. CASE UNCHANGED KnownTo(r)
    <3>1. found[r] \in Lessons /\ catalogue[found[r]] # "absent" /\ catalogue'[found[r]] = "present"
      BY <1>2, <2>2 DEF KnownTo, Present, BaseInv, Routes
    <3>2. found[r] \in Present
      BY <1>2, <3>1, RowsStay DEF BaseInv, TypeOK, Present
    <3> QED
      BY <1>2, <2>1, <2>2, <3>2 DEF LoadedInv, KnownTo
  <2>3. CASE (Send(r) \/ Handle(r) \/ Raise(r)) /\ UNCHANGED dbVars
    <3>1. Present' = Present
      BY <2>3 DEF Present, dbVars
    <3>2. CASE FindLesson(r)
      BY <1>2, <3>2 DEF FindLesson, Goto, BaseInv, TypeOK
    <3>3. CASE LoadProse(r)
      BY <1>2, <2>1, <3>1, <3>3 DEF LoadProse, Load, Goto, BaseInv, TypeOK
    <3>4. CASE LoadExercises(r) \/ LoadTexts(r)
      BY <1>2, <2>1, <3>1, <3>4 DEF LoadExercises, LoadTexts, Load, Goto, BaseInv, TypeOK, LoadedInv
    <3>5. CASE ListPublished(r) \/ CountTotals(r) \/ CountSolved(r)
      BY <1>2, <2>1, <3>1, <3>5 DEF ListPublished, CountTotals, CountSolved, Passed, Goto, BaseInv, TypeOK,
                                    LoadedInv
    <3>6. CASE Send(r) \/ Begin(r) \/ Raise(r)
      BY <1>2, <2>1, <3>6 DEF Send, Begin, Raise, Goto, BaseInv, TypeOK, Overviews
    <3>7. CASE FindExercise(r) \/ ReadProgress(r) \/ AskTutor(r)
      BY <1>2, <2>1, <3>7 DEF FindExercise, ReadProgress, AskTutor, BaseInv, Routes
    <3> QED
      BY <2>3, <3>2, <3>3, <3>4, <3>5, <3>6, <3>7 DEF Handle
  <2> QED
    BY <1>2, <2>2, <2>3, ReaderSteps
<1>3. LoadedInv => LessonsAreWhole
  BY DEF LoadedInv, LessonsAreWhole, ShownExercises
<1> QED
  BY <1>1, <1>2, <1>3, BaseInvariant, PTL DEF Spec

-----------------------------------------------------------------------------
(* Claims *)

\* What one derived state claims of its lesson and user.
Claim(s, u) ==
  /\ s.solved <= s.total
  /\ s.completed <=> s.total # 0 /\ s.solved = s.total
  /\ \/ catalogue[s.lesson] = "deleted"
     \/ /\ s.completed => ExercisesOf(s.lesson) \subseteq SolvedBy(u)
        /\ s.solved <= Cardinality(ExercisesOf(s.lesson) \cap SolvedBy(u))

\* What is claimed stays true while more is solved, or until the row is deleted.
LEMMA ClaimsStay ==
  ASSUME BaseInv, [Next]_vars, NEW s \in States, NEW u \in Users, Claim(s, u)
  PROVE  Claim(s, u)'
<1>1. s.lesson \in Lessons /\ s.solved \in Nat /\ s.total \in Nat
  BY DEF States
<1>2. CASE catalogue[s.lesson] = "deleted"
  BY <1>1, <1>2, RowsStay DEF BaseInv, Claim
<1>3. CASE catalogue[s.lesson] # "deleted" /\ catalogue'[s.lesson] # "deleted"
  <2>1. ExercisesOf(s.lesson) \cap SolvedBy(u) \subseteq SolvedBy(u)'
    <3>1. ASSUME NEW e \in ExercisesOf(s.lesson), <<u, e>> \in solved
          PROVE  <<u, e>> \in solved'
      <4>1. LessonOf[e] = s.lesson
        BY DEF ExercisesOf
      <4> QED
        BY <1>3, <3>1, <4>1, DatabaseSteps
    <3> QED
      BY <3>1 DEF SolvedBy
  <2>2. /\ IsFiniteSet(ExercisesOf(s.lesson) \cap SolvedBy(u)')
        /\ Cardinality(ExercisesOf(s.lesson) \cap SolvedBy(u)') \in Nat
        /\ Cardinality(ExercisesOf(s.lesson) \cap SolvedBy(u)) \in Nat
        /\ Cardinality(ExercisesOf(s.lesson) \cap SolvedBy(u))
             <= Cardinality(ExercisesOf(s.lesson) \cap SolvedBy(u)')
    <3> DEFINE now == ExercisesOf(s.lesson) \cap SolvedBy(u)
               next == ExercisesOf(s.lesson) \cap SolvedBy(u)'
    <3>1. now \in SUBSET next /\ next \in SUBSET Exercises
      BY <2>1 DEF ExercisesOf
    <3> HIDE DEF now, next
    <3>2. IsFiniteSet(next) /\ IsFiniteSet(now) /\ Cardinality(now) <= Cardinality(next)
      BY <3>1, FS_Subset, ReadsAssumption
    <3>3. Cardinality(now) \in Nat /\ Cardinality(next) \in Nat
      BY <3>2, FS_CardinalityType
    <3> QED
      BY <3>2, <3>3 DEF now, next
  <2>3. s.completed => ExercisesOf(s.lesson) \subseteq SolvedBy(u)'
    BY <1>3, <2>1 DEF Claim
  <2>4. s.solved <= Cardinality(ExercisesOf(s.lesson) \cap SolvedBy(u)')
    BY <1>1, <1>3, <2>2 DEF Claim
  <2> QED
    BY <2>3, <2>4 DEF Claim
<1>4. CASE catalogue'[s.lesson] = "deleted"
  BY <1>4 DEF Claim
<1> QED
  BY <1>2, <1>3, <1>4

\* What the fold makes of the counts is true when it is made.
LEMMA ClaimsHold ==
  ASSUME NEW listing \in SUBSET Lessons, NEW order \in Orders(listing), NEW withExercises,
         NEW u \in Users, NEW i \in DOMAIN order
  PROVE  Claim(ComputeStates(order, withExercises, SolvedBy(u))[i], u)
<1> DEFINE s == ComputeStates(order, withExercises, SolvedBy(u))[i]
<1>1. order[i] \in Lessons
  BY OrderedListing
<1>2. /\ s.lesson = order[i] /\ s.total = Total(order[i], withExercises)
      /\ s.solved = Solved(order[i], withExercises, SolvedBy(u))
      /\ s.completed <=> Completed(order[i], withExercises, SolvedBy(u))
  BY DEF ComputeStates
<1> HIDE DEF s
<1>3. Claim(s, u)
  BY <1>1, <1>2, Counts DEF Claim
<1> QED
  BY <1>3 DEF s

\* Three statements at three moments never add up to progress nobody made.
THEOREM ClaimsMustBeEarned == Spec => []ClaimsAreEarned
<1> DEFINE ClaimsInv == \A r \in Readers : \A i \in DOMAIN states[r] : Claim(states[r][i], Reader(r))
<1>1. Init => ClaimsInv
  BY DEF Init
<1>2. ASSUME BaseInv, ClaimsInv, [Next]_vars
      PROVE  ClaimsInv'
  <2> SUFFICES ASSUME NEW r \in Readers, NEW i \in DOMAIN states'[r]
               PROVE  Claim(states[r][i], Reader(r))'
    OBVIOUS
  <2>1. UNCHANGED Reader(r) /\ Reader(r) \in Users
    BY <1>2, ReaderSteps, Requests DEF Reader, BaseInv, TypeOK
  <2>2. CASE UNCHANGED states[r]
    <3>1. PICK t \in States : t = states[r][i]
      BY <1>2, <2>2 DEF BaseInv, TypeOK
    <3>2. PICK u \in Users : u = Reader(r)
      BY <2>1
    <3>3. Claim(t, u)
      BY <1>2, <2>2, <3>1, <3>2
    <3>4. Claim(t, u)'
      BY <1>2, <3>3, ClaimsStay
    <3>5. states'[r][i] = t /\ Reader(r)' = u
      BY <2>1, <2>2, <3>1, <3>2
    <3> QED
      BY <3>4, <3>5 DEF Claim
  <2>3. CASE CountSolved(r) /\ UNCHANGED dbVars
    <3>1. PICK listing \in SUBSET Lessons : listed[r] \in Orders(listing)
      BY <1>2, <2>3 DEF CountSolved, Passed, BaseInv, Listings
    <3>2. states'[r] = ComputeStates(listed[r], counted[r], SolvedBy(Reader(r)))
      BY <1>2, <2>3 DEF CountSolved, Passed, BaseInv, TypeOK
    <3>3. i \in DOMAIN listed[r]
      BY <3>2 DEF ComputeStates
    <3>4. Claim(states'[r][i], Reader(r))
      BY <2>1, <3>1, <3>2, <3>3, ClaimsHold
    <3>5. UNCHANGED SolvedBy(Reader(r)) /\ UNCHANGED catalogue
      BY <2>1, <2>3 DEF SolvedBy, dbVars
    <3> QED
      BY <2>1, <3>4, <3>5 DEF Claim
  <2>4. CASE (Send(r) \/ Handle(r) \/ Raise(r)) /\ ~ CountSolved(r)
    BY <2>2, <2>4
       DEF Send, Handle, Raise, Begin, FindLesson, FindExercise, LoadProse, LoadExercises, LoadTexts, Load,
           ListPublished, CountTotals, ReadProgress, AskTutor, readVars
  <2> QED
    BY <1>2, <2>2, <2>3, <2>4, ReaderSteps DEF KnownTo
<1>3. BaseInv /\ ClaimsInv => ClaimsAreEarned
  BY DEF ClaimsAreEarned, Claim, Derived
<1> QED
  BY <1>1, <1>2, <1>3, BaseInvariant, PTL DEF Spec

-----------------------------------------------------------------------------
(* Views between then and now *)

\* What a list of derived states says when `past' was solved at the latest when
\* the request was sent, and `done' is solved by now.
Bracketed(derived, past, done) ==
  /\ DOMAIN derived = 1 .. Len(derived) /\ Len(derived) = Cardinality(Listing)
  /\ \A i \in DOMAIN derived : derived[i].lesson \in Listing
  /\ \A l \in Listing : \E i \in DOMAIN derived : derived[i].lesson = l
  /\ \A i \in DOMAIN derived : IF i = 1 THEN MayComeFirst(derived[i].lesson, Listing)
       ELSE derived[i - 1].lesson \in DirectlyBefore(derived[i].lesson, Listing)
  /\ \A i \in DOMAIN derived :
       /\ derived[i].lesson \in DoneWith(past) => derived[i].completed
       /\ derived[i].completed => derived[i].lesson \in DoneWith(done)
       /\ derived[i].unlocked => MayBeUnlocked(derived[i].lesson, Listing, DoneWith(done))
       /\ ~ derived[i].unlocked => MayBeLocked(derived[i].lesson, Listing, DoneWith(past))

\* The fold brackets when list, totals and rows agree.
LEMMA FoldBrackets ==
  ASSUME NEW order \in Orders(Listing), NEW done, NEW past \in SUBSET done
  PROVE  Bracketed(ComputeStates(order, Counting, done), past, done)
<1> DEFINE derived == ComputeStates(order, Counting, done)
<1>1. Listing \in SUBSET Lessons
  BY DEF Listing, Present
<1>2. /\ DOMAIN order = 1 .. Cardinality(Listing) /\ Cardinality(Listing) \in Nat
      /\ \A i \in DOMAIN order : order[i] \in Listing
      /\ \A l \in Listing : \E i \in DOMAIN order : order[i] = l
      /\ \A i \in DOMAIN order : IF i = 1 THEN MayComeFirst(order[i], Listing)
                                 ELSE order[i - 1] \in DirectlyBefore(order[i], Listing)
  BY <1>1, OrderedListing
<1>3. DOMAIN derived = DOMAIN order
  BY DEF ComputeStates
<1>4. ASSUME NEW i \in DOMAIN order
      PROVE  /\ derived[i].lesson = order[i]
             /\ derived[i].completed <=> Completed(order[i], Counting, done)
             /\ derived[i].unlocked <=> (i = 1 \/ Completed(order[i - 1], Counting, done))
  BY DEF ComputeStates
<1>5. Len(derived) = Cardinality(Listing)
  BY <1>2 DEF ComputeStates
<1> HIDE DEF derived
<1>6. \A l \in Listing : /\ Completed(l, Counting, done) <=> l \in DoneWith(done)
                         /\ l \in DoneWith(past) => l \in DoneWith(done)
  BY CompletedAgrees DEF DoneWith, IsCompleted
<1>7. ASSUME NEW i \in DOMAIN order
      PROVE  /\ derived[i].lesson \in DoneWith(past) => derived[i].completed
             /\ derived[i].completed => derived[i].lesson \in DoneWith(done)
             /\ derived[i].unlocked => MayBeUnlocked(derived[i].lesson, Listing, DoneWith(done))
             /\ ~ derived[i].unlocked => MayBeLocked(derived[i].lesson, Listing, DoneWith(past))
  <2>1. order[i] \in Listing /\ (i # 1 => order[i - 1] \in Listing)
    BY <1>2
  <2> QED
    BY <1>2, <1>4, <1>6, <2>1 DEF MayBeUnlocked, MayBeLocked
<1>8. \A i \in DOMAIN order : i # 1 => i - 1 \in DOMAIN order
  BY <1>2
<1>9. \A i \in DOMAIN derived : IF i = 1 THEN MayComeFirst(derived[i].lesson, Listing)
        ELSE derived[i - 1].lesson \in DirectlyBefore(derived[i].lesson, Listing)
  BY <1>2, <1>3, <1>4, <1>8
<1> QED
  BY <1>2, <1>3, <1>4, <1>5, <1>7, <1>9 DEF Bracketed, derived

\* Bracketing outlasts whatever is solved later.
LEMMA BracketsStay ==
  ASSUME NEW derived, NEW past, NEW done, NEW later, done \subseteq later,
         Bracketed(derived, past, done)
  PROVE  Bracketed(derived, past, later)
  BY DEF Bracketed, DoneWith, IsCompleted, MayBeUnlocked

\* What a reader holds while nothing is ingested.
SteadyView(r) ==
  /\ pc[r] = "idle" => states[r] = <<>> /\ found[r] = NoRow
  /\ found[r] \in Lessons => Kind(r) \in {"lesson", "solution", "hint"}
  /\ found[r] \in Lessons /\ Kind(r) \in {"solution", "hint"} => found[r] = LessonOf[About(r)]
  /\ steady[r] =>
       /\ pc[r] # "idle" => before[r] \subseteq SolvedBy(Reader(r))
       /\ found[r] \in Lessons => found[r] \in Present
       /\ pc[r] \in {"totals", "solved"} => listed[r] \in Orders(Listing)
       /\ pc[r] = "solved" => counted[r] = Counting
       /\ states[r] # <<>> => Bracketed(states[r], before[r], SolvedBy(Reader(r)))

SteadyInv == \A r \in Readers : SteadyView(r)

LEMMA SteadyInit == Init => SteadyInv
  BY ReadsAssumption DEF Init, LearningInit, SteadyInv, SteadyView

LEMMA SteadyStep == BaseInv /\ SteadyInv /\ [Next]_vars => SteadyInv'
<1> SUFFICES ASSUME BaseInv, SteadyInv, [Next]_vars, NEW r \in Readers
             PROVE  SteadyView(r)'
  BY DEF SteadyInv
<1> USE DEF SteadyView
<1>1. UNCHANGED <<want, Kind(r), About(r), Reader(r)>> /\ Reader(r) \in Users
  BY ReaderSteps, Requests DEF Kind, About, Reader, BaseInv, TypeOK
<1>2. SteadyView(r)
  BY DEF SteadyInv
<1>3. CASE UNCHANGED KnownTo(r) /\ (steady'[r] => steady[r])
  <2>1. CASE ~ steady'[r]
    BY <1>1, <1>2, <1>3, <2>1 DEF KnownTo
  <2>2. CASE steady'[r]
    <3>1. UNCHANGED catalogue /\ solved \subseteq solved'
      BY <2>2, DatabaseSteps
    <3>2. UNCHANGED <<Present, Listing, Counting>>
      BY <3>1 DEF Present, Listing, Counting
    <3>3. UNCHANGED Orders(Listing)
      BY <3>2 DEF Orders
    <3>4. SolvedBy(Reader(r)) \subseteq SolvedBy(Reader(r))'
      BY <1>1, <3>1 DEF SolvedBy
    <3>5. states[r] # <<>> => Bracketed(states[r], before[r], SolvedBy(Reader(r)))'
      <4>1. ASSUME Bracketed(states[r], before[r], SolvedBy(Reader(r)))
            PROVE  Bracketed(states[r], before[r], SolvedBy(Reader(r))')
        BY <3>4, <4>1, BracketsStay
      <4> QED
        BY <1>2, <1>3, <2>2, <3>2, <4>1 DEF KnownTo, Bracketed, DoneWith
    <3> QED
      BY <1>1, <1>2, <1>3, <2>2, <3>2, <3>3, <3>4, <3>5 DEF KnownTo
  <2> QED
    BY <2>1, <2>2
<1>4. CASE (Send(r) \/ Handle(r) \/ Raise(r)) /\ UNCHANGED dbVars
  <2>1. /\ UNCHANGED <<Present, Listing, Counting, Orders(Listing), SolvedBy(Reader(r))>>
        /\ UNCHANGED <<catalogue, solved>>
    BY <1>1, <1>4 DEF Present, Listing, Counting, Orders, SolvedBy, dbVars
  <2>2. ASSUME NEW derived, NEW past, NEW done, Bracketed(derived, past, done)
        PROVE  Bracketed(derived, past, done)'
    <3>1. UNCHANGED <<DoneWith(past), DoneWith(done)>>
      BY <2>1 DEF DoneWith
    <3> QED
      BY <2>1, <2>2, <3>1 DEF Bracketed
  <2>3. CASE Send(r)
    <3>1. /\ pc[r] = "idle" /\ pc'[r] = "queued" /\ states'[r] = <<>> /\ found'[r] = NoRow
          /\ before'[r] = SolvedBy(Reader(r))
      BY <1>2, <2>3 DEF Send, Goto, BaseInv, TypeOK, readVars
    <3> QED
      BY <1>1, <2>1, <3>1, ReadsAssumption
  <2>4. CASE Begin(r) \/ ReadProgress(r) \/ AskTutor(r) \/ Raise(r)
    <3>1. pc[r] # "idle" /\ pc'[r] \notin {"idle", "totals", "solved"}
      BY <2>4 DEF Begin, ReadProgress, AskTutor, Raise, Goto, BaseInv, TypeOK, Running, Loading, Deriving
    <3>2. UNCHANGED <<found, states, steady, before>>
      BY <2>4 DEF Begin, ReadProgress, AskTutor, Raise, readVars, history
    <3> QED
      BY <1>1, <1>2, <2>1, <2>2, <3>1, <3>2 DEF Bracketed
  <2>5. CASE FindLesson(r)
    BY <1>1, <1>2, <2>1, <2>2, <2>5 DEF FindLesson, Goto, BaseInv, TypeOK, Routes, Present, history
  <2>6. CASE FindExercise(r)
    BY <1>1, <1>2, <2>1, <2>2, <2>6
       DEF FindExercise, Goto, BaseInv, TypeOK, Routes, Present, Exists, history
  <2>7. CASE LoadProse(r) \/ LoadExercises(r) \/ LoadTexts(r)
    BY <1>1, <1>2, <2>1, <2>2, <2>7 DEF LoadProse, LoadExercises, LoadTexts, Load, Goto, BaseInv, TypeOK, history
  <2>8. CASE ListPublished(r)
    BY <1>1, <1>2, <2>1, <2>2, <2>8 DEF ListPublished, Goto, BaseInv, TypeOK, history, Listing
  <2>9. CASE CountTotals(r)
    BY <1>1, <1>2, <2>1, <2>2, <2>9 DEF CountTotals, Goto, BaseInv, TypeOK, history, Counting
  <2>10. CASE CountSolved(r)
    <3>1. /\ pc[r] = "solved" /\ pc'[r] \notin {"idle", "totals", "solved"}
          /\ UNCHANGED <<found, steady, before>>
          /\ states'[r] = ComputeStates(listed[r], counted[r], SolvedBy(Reader(r)))
      BY <2>10 DEF CountSolved, Passed, Goto, BaseInv, TypeOK, history
    <3>2. ASSUME steady[r]
          PROVE  Bracketed(states'[r], before[r], SolvedBy(Reader(r)))
      <4>1. /\ listed[r] \in Orders(Listing) /\ counted[r] = Counting
            /\ before[r] \in SUBSET SolvedBy(Reader(r))
        BY <1>2, <3>1, <3>2
      <4> QED
        BY <3>1, <4>1, FoldBrackets
    <3>3. steady'[r] => Bracketed(states[r], before[r], SolvedBy(Reader(r)))'
      BY <1>1, <2>1, <3>1, <3>2 DEF Bracketed, DoneWith
    <3> QED
      BY <1>1, <1>2, <2>1, <3>1, <3>3
  <2> QED
    BY <1>4, <2>3, <2>4, <2>5, <2>6, <2>7, <2>8, <2>9, <2>10 DEF Handle
<1> QED
  BY <1>3, <1>4, ReaderSteps

LEMMA SteadyInvariant == Spec => []SteadyInv
  BY SteadyInit, SteadyStep, BaseInvariant, PTL DEF Spec

\* Without re-ingestion a view lies between the moment its request was sent and
\* now, however many submissions pass between its statements.
THEOREM ViewsStayBracketed == Spec => []ViewsAreBracketed
<1>1. SteadyInv => ViewsAreBracketed
  BY DEF SteadyInv, SteadyView, Bracketed, ViewsAreBracketed, Derived
<1> QED
  BY <1>1, SteadyInvariant, PTL

\* The button at the end of a completed lesson leads to a lesson that is open.
THEOREM NextLessonStaysOpen == Spec => []NextLessonIsOpen
<1>1. SteadyInv => NextLessonIsOpen
  <2> SUFFICES ASSUME SteadyInv, NEW r \in Readers, steady[r],
                      NEW s \in StatesOf(r, found[r]), s.completed,
                      NEW l \in NextLesson(r, found[r])
               PROVE  MayBeUnlocked(l, Listing, DoneWith(SolvedBy(Reader(r))))
    BY DEF NextLessonIsOpen
  <2>1. PICK i \in DOMAIN states[r] : s = states[r][i] /\ s.lesson = found[r]
    BY DEF StatesOf
  <2>2. PICK j \in DOMAIN states[r] :
          /\ j < Len(states[r]) /\ states[r][j].lesson = found[r]
          /\ l = states[r][j + 1].lesson
    BY DEF NextLesson
  <2>3. Bracketed(states[r], before[r], SolvedBy(Reader(r)))
    BY <2>1 DEF SteadyInv, SteadyView
  <2>4. found[r] \in DoneWith(SolvedBy(Reader(r)))
    BY <2>1, <2>3 DEF Bracketed
  <2>5. DOMAIN states[r] = 1 .. Len(states[r])
    BY <2>3 DEF Bracketed
  <2>6. j + 1 \in DOMAIN states[r] /\ j + 1 # 1 /\ (j + 1) - 1 = j
    BY <2>2, <2>5
  <2>7. found[r] \in DirectlyBefore(l, Listing)
    <3>1. states[r][(j + 1) - 1].lesson \in DirectlyBefore(states[r][j + 1].lesson, Listing)
      BY <2>3, <2>6 DEF Bracketed
    <3> QED
      BY <2>2, <2>6, <3>1
  <2> QED
    BY <2>4, <2>7 DEF MayBeUnlocked
<1> QED
  BY <1>1, SteadyInvariant, PTL

-----------------------------------------------------------------------------
(* The gate *)

LEMMA OpenStaysOpen == ASSUME NEW l, NEW done, NEW later, done \subseteq later,
                              MayBeUnlocked(l, Listing, DoneWith(done))
                       PROVE  MayBeUnlocked(l, Listing, DoneWith(later))
  BY DEF MayBeUnlocked, DoneWith, IsCompleted

GateView(r) == steady[r] /\ found[r] \in Published =>
  /\ pc[r] \in {"200", "asking", "progress"} =>
       MayBeUnlocked(found[r], Listing, DoneWith(SolvedBy(Reader(r))))
  /\ pc[r] = "403" =>
       \/ MayBeLocked(found[r], Listing, DoneWith(before[r]))
       \/ Kind(r) = "solution" /\ About(r) \notin before[r]

\* What is served for a published lesson is open to the user; what is refused was
\* locked, or not solved, when it was asked for.
THEOREM GateStaysFair == Spec => []GateIsFair
<1> DEFINE GateInv == \A r \in Readers : GateView(r)
<1>1. Init => GateInv
  BY DEF Init, GateView
<1>2. ASSUME BaseInv, SteadyInv, SteadyInv', GateInv, [Next]_vars
      PROVE  GateInv'
  <2> SUFFICES ASSUME NEW r \in Readers, steady'[r], found'[r] \in Published
               PROVE  GateView(r)'
    BY DEF GateView
  <2>1. UNCHANGED <<want, Kind(r), About(r), Reader(r)>> /\ Reader(r) \in Users
    BY <1>2, ReaderSteps, Requests DEF Kind, About, Reader, BaseInv, TypeOK
  <2>2. found'[r] \in Lessons
    BY CurriculumAssumption
  <2>3. CASE UNCHANGED KnownTo(r) /\ (steady'[r] => steady[r])
    <3>1. UNCHANGED catalogue /\ solved \subseteq solved'
      BY <1>2, DatabaseSteps
    <3>2. UNCHANGED <<Listing, Counting>> /\ SolvedBy(Reader(r)) \subseteq SolvedBy(Reader(r))'
      BY <2>1, <3>1 DEF Listing, Counting, Present, SolvedBy
    <3>3. GateView(r) /\ steady[r] /\ UNCHANGED <<pc[r], found[r], before[r]>>
      BY <1>2, <2>3 DEF KnownTo
    <3>4. ASSUME MayBeUnlocked(found[r], Listing, DoneWith(SolvedBy(Reader(r))))
          PROVE  MayBeUnlocked(found[r], Listing, DoneWith(SolvedBy(Reader(r))))'
      <4>1. MayBeUnlocked(found[r], Listing, DoneWith(SolvedBy(Reader(r))'))
        BY <3>2, <3>4, OpenStaysOpen
      <4> QED
        BY <3>2, <3>3, <4>1 DEF DoneWith, MayBeUnlocked
    <3>5. ASSUME MayBeLocked(found[r], Listing, DoneWith(before[r]))
          PROVE  MayBeLocked(found[r], Listing, DoneWith(before[r]))'
      BY <3>2, <3>3, <3>5 DEF DoneWith, MayBeLocked
    <3> QED
      BY <2>1, <3>3, <3>4, <3>5 DEF GateView
  <2>4. CASE (Send(r) \/ Handle(r) \/ Raise(r)) /\ UNCHANGED dbVars
    <3>1. UNCHANGED <<Listing, Counting, SolvedBy(Reader(r))>>
      BY <2>1, <2>4 DEF Listing, Counting, Present, SolvedBy, dbVars
    <3>2. CASE CountSolved(r)
      <4>1. /\ pc[r] = "solved" /\ UNCHANGED <<found[r], before[r]>>
            /\ states'[r] = ComputeStates(listed[r], counted[r], SolvedBy(Reader(r)))
            /\ steady[r] /\ pc'[r] \in {"200", "403", "progress", "asking"}
            /\ pc'[r] = "403" <=> Locked(states'[r], found[r])
        <5> DEFINE derived == ComputeStates(listed[r], counted[r], SolvedBy(Reader(r)))
        <5>1. /\ pc[r] = "solved" /\ UNCHANGED <<found, before, steady>>
              /\ states'[r] = derived
              /\ pc'[r] = IF Kind(r) \notin Overviews /\ Locked(derived, found[r])
                            THEN "403" ELSE Passed(r)
          BY <1>2, <3>2 DEF CountSolved, Passed, Goto, BaseInv, TypeOK, history
        <5> HIDE DEF derived
        <5>2. Kind(r) \notin Overviews
          BY <1>2, <2>2, <5>1 DEF SteadyInv, SteadyView, Overviews
        <5>3. Passed(r) \in {"200", "progress", "asking"}
          BY DEF Passed
        <5>4. pc'[r] = "403" <=> Locked(states'[r], found[r])
          BY <5>1, <5>2, <5>3
        <5> QED
          BY <5>1, <5>3, <5>4 DEF derived
      <4>2. found[r] \in Listing
        BY <1>2, <2>2, <4>1 DEF SteadyInv, SteadyView, Listing
      <4>3. /\ listed[r] \in Orders(Listing) /\ counted[r] = Counting
            /\ before[r] \in SUBSET SolvedBy(Reader(r))
        BY <1>2, <4>1 DEF SteadyInv, SteadyView
      <4>4. Bracketed(states'[r], before[r], SolvedBy(Reader(r)))
        BY <4>1, <4>3, FoldBrackets
      <4>5. CASE pc'[r] = "403"
        <5>1. MayBeLocked(found[r], Listing, DoneWith(before[r]))
          BY <4>1, <4>4, <4>5 DEF Locked, Bracketed
        <5>2. MayBeLocked(found[r], Listing, DoneWith(before[r]))'
          BY <3>1, <4>1, <5>1 DEF DoneWith, MayBeLocked
        <5> QED
          BY <4>5, <5>2 DEF GateView
      <4>6. CASE pc'[r] # "403"
        <5>1. PICK i \in DOMAIN states'[r] : states'[r][i].lesson = found[r]
          BY <4>2, <4>4 DEF Bracketed
        <5>2. states'[r][i].unlocked
          BY <4>1, <4>6, <5>1 DEF Locked
        <5>3. MayBeUnlocked(found[r], Listing, DoneWith(SolvedBy(Reader(r))))
          BY <4>4, <5>1, <5>2 DEF Bracketed
        <5>4. MayBeUnlocked(found[r], Listing, DoneWith(SolvedBy(Reader(r))))'
          BY <3>1, <4>1, <5>3 DEF DoneWith, MayBeUnlocked
        <5> QED
          BY <4>6, <5>4 DEF GateView
      <4> QED
        BY <4>5, <4>6
    <3>3. CASE ReadProgress(r) \/ AskTutor(r)
      <4>1. /\ pc[r] \in {"progress", "asking"} /\ UNCHANGED <<found, before, steady, solved>>
            /\ pc'[r] = "403" => /\ Kind(r) # "progress" /\ pc[r] = "progress"
                                 /\ <<Reader(r), About(r)>> \notin solved
            /\ pc'[r] \notin {"asking", "progress"}
        <5>1. CASE ReadProgress(r)
          BY <1>2, <5>1 DEF ReadProgress, Goto, BaseInv, TypeOK, readVars, history, dbVars
        <5>2. CASE AskTutor(r)
          BY <1>2, <5>2 DEF AskTutor, Goto, BaseInv, TypeOK, readVars, history, dbVars
        <5> QED
          BY <3>3, <5>1, <5>2
      <4>2. MayBeUnlocked(found[r], Listing, DoneWith(SolvedBy(Reader(r))))
        BY <1>2, <4>1 DEF GateView
      <4>3. MayBeUnlocked(found[r], Listing, DoneWith(SolvedBy(Reader(r))))'
        BY <3>1, <4>1, <4>2 DEF DoneWith, MayBeUnlocked
      <4>4. pc'[r] = "403" => Kind(r) = "solution" /\ About(r) \notin before[r]
        BY <1>2, <4>1 DEF BaseInv, Routes, SteadyInv, SteadyView, SolvedBy
      <4> QED
        BY <2>1, <4>1, <4>3, <4>4 DEF GateView
    <3>4. CASE Begin(r)
      <4>1. pc'[r] \in {"asking", "progress"} => Kind(r) \in {"chat", "progress"}
        BY <1>2, <3>4, Requests
           DEF Begin, Goto, BaseInv, TypeOK, Overviews, OfExercise
      <4>2. pc'[r] \notin {"200", "403"}
        BY <1>2, <3>4 DEF Begin, Goto, BaseInv, TypeOK
      <4>3. Kind(r) \in {"lesson", "solution", "hint"}
        BY <1>2, <2>1, <2>2 DEF SteadyInv, SteadyView
      <4> QED
        BY <4>1, <4>2, <4>3 DEF GateView
    <3>5. CASE Send(r) \/ FindLesson(r) \/ FindExercise(r) \/ LoadProse(r) \/ LoadExercises(r) \/ LoadTexts(r)
               \/ ListPublished(r) \/ CountTotals(r) \/ Raise(r)
      <4>1. pc'[r] \notin {"200", "403", "asking", "progress"}
        BY <1>2, <3>5 DEF Send, FindLesson, FindExercise, LoadProse, LoadExercises, LoadTexts, Load,
             ListPublished, CountTotals, Raise, Goto, BaseInv, TypeOK
      <4> QED
        BY <4>1 DEF GateView
    <3> QED
      BY <2>4, <3>2, <3>3, <3>4, <3>5 DEF Handle
  <2> QED
    BY <1>2, <2>3, <2>4, ReaderSteps
<1>3. GateInv => GateIsFair
  BY DEF GateView, GateIsFair
<1> QED
  BY <1>1, <1>2, <1>3, BaseInvariant, SteadyInvariant, PTL DEF Spec

-----------------------------------------------------------------------------
(* What is started stays open *)

\* Whoever is admitted to an exercise, or has solved it, may do so still.
GateOfSubmissions == \A k \in admitted \cup solved : LessonOf[k[2]] \in Published =>
  MayBeUnlocked(LessonOf[k[2]], Listing, DoneWith(SolvedBy(k[1])))

StartedInv ==
  /\ \A l \in InitialLessons : catalogue[l] # "absent"
  /\ Present = InitialLessons => GateOfSubmissions /\ \A r \in Readers : steady[r]

\* An ingestion leaves the initial lessons behind for good.
LEMMA NeverBack == ASSUME BaseInv, StartedInv, [Next]_vars, Present' = InitialLessons
                   PROVE  UNCHANGED catalogue /\ Present = InitialLessons
<1>1. ASSUME NEW l \in Lessons, Ingested(l)
      PROVE  FALSE
  <2>1. l \notin InitialLessons /\ l \in Present'
    BY <1>1 DEF Ingested, Ingest, StartedInv, Present
  <2> QED
    BY <2>1
<1>2. UNCHANGED catalogue
  BY <1>1, DatabaseSteps
<1> QED
  BY <1>2 DEF Present

LEMMA StartedInit == Init => StartedInv
  BY LearningAssumption DEF Init, LearningInit, StartedInv, GateOfSubmissions

LEMMA StartedStep == BaseInv /\ StartedInv /\ [Next]_vars => StartedInv'
<1> SUFFICES ASSUME BaseInv, StartedInv, [Next]_vars PROVE StartedInv'
  OBVIOUS
<1>1. \A l \in InitialLessons : catalogue'[l] # "absent"
  BY RowsStay, LearningAssumption DEF BaseInv, StartedInv
<1>2. ASSUME Present' = InitialLessons
      PROVE  GateOfSubmissions' /\ \A r \in Readers : steady'[r]
  <2>1. /\ UNCHANGED catalogue /\ Present = InitialLessons /\ GateOfSubmissions
        /\ \A r \in Readers : steady[r]
    BY <1>2, NeverBack DEF StartedInv
  <2>2. ~ \E l \in Lessons : Ingested(l)
    <3>1. ASSUME NEW l \in Lessons, Ingested(l)
          PROVE  FALSE
      BY <2>1, <3>1 DEF Ingested, Ingest, BaseInv, TypeOK
    <3> QED
      BY <3>1
  <2>3. solved \subseteq solved'
    BY <2>2, DatabaseSteps
  <2>4. UNCHANGED <<Present, Listing, Counting>>
    BY <2>1 DEF Present, Listing, Counting
  <2>5. \A r \in Readers : steady'[r]
    <3>1. ASSUME NEW r \in Readers, Send(r)
          PROVE  \A o \in Readers : steady'[o]
      BY <2>1, <3>1 DEF Send, BaseInv, TypeOK
    <3>2. ASSUME NEW r \in Readers, Handle(r) \/ Raise(r)
          PROVE  UNCHANGED steady
      BY <3>2 DEF Handle, Raise, Begin, FindLesson, FindExercise, LoadProse, LoadExercises, LoadTexts, Load,
                  ListPublished, CountTotals, CountSolved, ReadProgress, AskTutor, history
    <3>3. ASSUME Submitted
          PROVE  UNCHANGED steady
      BY <3>3, Submitting DEF ReadersWait, history
    <3> QED
      BY <2>1, <2>2, <3>1, <3>2, <3>3 DEF Next, Finished, vars, history
  <2>6. ASSUME NEW k \in admitted \cup solved, LessonOf[k[2]] \in Published
        PROVE  MayBeUnlocked(LessonOf[k[2]], Listing, DoneWith(SolvedBy(k[1])'))
    <3>1. MayBeUnlocked(LessonOf[k[2]], Listing, DoneWith(SolvedBy(k[1])))
      BY <2>1, <2>6 DEF GateOfSubmissions
    <3>2. SolvedBy(k[1]) \subseteq SolvedBy(k[1])'
      BY <2>3 DEF SolvedBy
    <3> QED
      BY <3>1, <3>2, OpenStaysOpen
  <2>7. \A done : DoneWith(done)' = DoneWith(done)
    BY <2>4 DEF DoneWith
  <2>8. ASSUME NEW k \in admitted' \cup solved', LessonOf[k[2]] \in Published
        PROVE  MayBeUnlocked(LessonOf[k[2]], Listing, DoneWith(SolvedBy(k[1])'))
    <3>1. CASE k \in admitted \cup solved
      BY <2>6, <2>8, <3>1
    <3>2. CASE k \notin admitted \cup solved
      <4>1. Submitted
        BY <2>2, <2>8, <3>2
           DEF Next, Send, Handle, Raise, Begin, FindLesson, FindExercise, LoadProse, LoadExercises, LoadTexts,
               Load, ListPublished, CountTotals, CountSolved, ReadProgress, AskTutor,
               Finished, vars, dbVars
      <4>2. PICK o \in Keys : Admit(o) /\ k \in admitted \cup solved \cup {o}
        BY <2>1, <2>8, <3>2, <4>1 DEF Submitted, Submit, Admit, AdmitOutdated, Solve, Fail
      <4>3. Admit(k)
        BY <3>2, <4>2
      <4>4. MayBeUnlocked(LessonOf[k[2]], Listing, DoneWith(SolvedBy(k[1]))) /\ UNCHANGED solved
        BY <2>8, <4>3 DEF Admit
      <4> QED
        BY <4>4 DEF SolvedBy
    <3> QED
      BY <3>1, <3>2
  <2>9. GateOfSubmissions'
    BY <2>4, <2>7, <2>8 DEF GateOfSubmissions, MayBeUnlocked, SolvedBy
  <2> QED
    BY <2>5, <2>9
<1> QED
  BY <1>1, <1>2 DEF StartedInv

\* With distinct positions what may be open is open in every order.
LEMMA OpenMeansOpen ==
  ASSUME DistinctPositions, NEW order \in Orders(Listing), NEW done, NEW i \in DOMAIN order,
         MayBeUnlocked(order[i], Listing, DoneWith(done))
  PROVE  ComputeStates(order, Counting, done)[i].unlocked
<1>1. Listing \in SUBSET Lessons
  BY DEF Listing, Present
<1>2. /\ order[i] \in Listing
      /\ IF i = 1 THEN TRUE ELSE order[i - 1] \in DirectlyBefore(order[i], Listing)
  BY <1>1, OrderedListing
<1>3. \A l \in Listing : Position[l] \in Int
  BY <1>1, CurriculumAssumption
<1>4. \A l, m \in Listing : Position[l] = Position[m] => l = m
  BY DEF DistinctPositions, Listing
<1>5. CASE i = 1
  BY <1>5 DEF ComputeStates
<1>6. CASE i # 1
  <2>1. /\ order[i - 1] \in Listing /\ order[i - 1] # order[i]
        /\ Position[order[i - 1]] <= Position[order[i]]
    BY <1>2, <1>6 DEF DirectlyBefore
  <2>2. Position[order[i - 1]] < Position[order[i]]
    BY <1>2, <1>3, <1>4, <2>1
  <2>3. PICK p \in DirectlyBefore(order[i], Listing) : p \in DoneWith(done)
    BY <2>1, <2>2 DEF MayBeUnlocked, MayComeFirst
  <2>4. p = order[i - 1]
    <3>1. /\ p \in Listing /\ Position[p] < Position[order[i]]
          /\ ~ (Position[p] < Position[order[i - 1]])
          /\ ~ (Position[order[i - 1]] < Position[p])
      BY <1>2, <1>3, <1>4, <1>6, <2>1, <2>2 DEF DirectlyBefore
    <3> QED
      BY <1>3, <1>4, <2>1, <3>1
  <2>5. Completed(order[i - 1], Counting, done)
    BY <2>1, <2>3, <2>4, CompletedAgrees DEF DoneWith
  <2> QED
    BY <1>6, <2>5 DEF ComputeStates
<1> QED
  BY <1>5, <1>6

StartedView(r) == Present = InitialLessons /\ DistinctPositions =>
  \A i \in DOMAIN states[r] : states[r][i].solved # 0 => states[r][i].unlocked

\* What the gate of submissions lets a user do, no view takes back.
THEOREM StartedIsNeverLocked == Spec => []StartedStaysOpen
<1> DEFINE ViewInv == \A r \in Readers : StartedView(r)
<1>1. Init => ViewInv
  BY DEF Init, StartedView
<1>2. ASSUME BaseInv, SteadyInv, StartedInv, ViewInv, [Next]_vars
      PROVE  ViewInv'
  <2> SUFFICES ASSUME NEW r \in Readers, Present' = InitialLessons, DistinctPositions',
                      NEW i \in DOMAIN states'[r], states'[r][i].solved # 0
               PROVE  states'[r][i].unlocked
    BY DEF StartedView
  <2>1. UNCHANGED catalogue /\ Present = InitialLessons
    BY <1>2, NeverBack
  <2>2. DistinctPositions
    BY <2>1 DEF DistinctPositions
  <2>3. CASE UNCHANGED states[r]
    BY <1>2, <2>1, <2>2, <2>3 DEF StartedView
  <2>4. CASE CountSolved(r)
    <3> DEFINE u == Reader(r)
    <3>1. /\ pc[r] = "solved" /\ listed[r] \in Orders(Listing) /\ counted[r] = Counting
          /\ GateOfSubmissions
      BY <1>2, <2>1, <2>4 DEF CountSolved, StartedInv, SteadyInv, SteadyView
    <3>2. states'[r] = ComputeStates(listed[r], Counting, SolvedBy(u))
      BY <1>2, <2>4, <3>1 DEF CountSolved, BaseInv, TypeOK
    <3>3. i \in DOMAIN listed[r] /\ listed[r][i] \in Listing /\ listed[r][i] \in Lessons
      <4>1. Listing \in SUBSET Lessons
        BY DEF Listing, Present
      <4>2. i \in DOMAIN listed[r]
        BY <3>2 DEF ComputeStates
      <4> QED
        BY <3>1, <4>1, <4>2, OrderedListing
    <3>4. Solved(listed[r][i], Counting, SolvedBy(u)) # 0
      BY <3>2, <3>3 DEF ComputeStates
    <3>5. ExercisesOf(listed[r][i]) \cap SolvedBy(u) # {}
      <4>1. Cardinality(ExercisesOf(listed[r][i]) \cap SolvedBy(u)) # 0
        BY <3>4 DEF Solved
      <4> QED
        BY <4>1, FS_EmptySet
    <3>6. PICK e \in Exercises : LessonOf[e] = listed[r][i] /\ <<u, e>> \in solved
      BY <3>5 DEF ExercisesOf, SolvedBy
    <3>7. MayBeUnlocked(listed[r][i], Listing, DoneWith(SolvedBy(u)))
      <4>1. listed[r][i] \in Published
        BY <3>3 DEF Listing
      <4>2. <<u, e>>[1] = u /\ <<u, e>>[2] = e
        OBVIOUS
      <4> QED
        BY <3>1, <3>6, <4>1, <4>2 DEF GateOfSubmissions
    <3> QED
      BY <2>2, <3>1, <3>2, <3>3, <3>7, OpenMeansOpen
  <2>5. CASE (Send(r) \/ Handle(r) \/ Raise(r)) /\ ~ CountSolved(r)
    BY <2>3, <2>5
       DEF Send, Handle, Raise, Begin, FindLesson, FindExercise, LoadProse, LoadExercises, LoadTexts, Load,
           ListPublished, CountTotals, ReadProgress, AskTutor, readVars
  <2> QED
    BY <1>2, <2>3, <2>4, <2>5, ReaderSteps DEF KnownTo
<1>3. ViewInv => StartedStaysOpen
  BY DEF StartedView, StartedStaysOpen, Derived
<1> QED
  BY <1>1, <1>2, <1>3, BaseInvariant, SteadyInvariant, StartedInit, StartedStep, PTL DEF Spec
=============================================================================
