--------------------------- MODULE GradingProofs ----------------------------
(***************************************************************************)
(* Proofs about Grading, for every set of users, lessons and requests.     *)
(***************************************************************************)
EXTENDS Grading, FiniteSetTheorems, TLAPS

USE CurriculumAssumption, GradingAssumption

\* The record that record_attempt writes is a progress row.
LEMMA RecordedType ==
  ASSUME TypeOK, NEW r \in Requests
  PROVE  Recorded(r) \in ProgressRow
<1>1. target[r] \in Keys
  BY DEF TypeOK
<1>2. row[r] \in ProgressRow \cup {NoRow} /\ progress[target[r]] \in ProgressRow \cup {NoRow}
  BY <1>1 DEF TypeOK
<1>3. OrNew(row[r]).attempts + 1 \in Nat
  BY <1>2 DEF OrNew, NewRow, ProgressRow
<1>4. (Solves(r) \/ OrNew(progress[target[r]]).is_solved) \in BOOLEAN
  OBVIOUS
<1>5. (IF Solves(r) THEN r ELSE OrNew(progress[target[r]]).solved_at) \in Requests \cup {NoRow}
  BY <1>2 DEF OrNew, NewRow, ProgressRow
<1>6. ASSUME NEW a \in Nat, NEW b \in BOOLEAN, NEW c \in Requests \cup {NoRow}
      PROVE  [attempts |-> a, last_submission_id |-> r, is_solved |-> b, solved_at |-> c]
               \in ProgressRow
  BY DEF ProgressRow
<1> QED
  BY <1>3, <1>4, <1>5, <1>6, Zenon DEF Recorded

\* Every variable keeps its type, whatever the interleaving.
THEOREM TypeCorrect == Spec => []TypeOK
<1>1. Init => TypeOK
  BY DEF Init, TypeOK, InFlight, Ended, Gating, Writing, Statuses
<1>2. TypeOK /\ [Next]_vars => TypeOK'
  <2> SUFFICES ASSUME TypeOK, [Next]_vars PROVE TypeOK'
    OBVIOUS
  <2> USE DEF TypeOK, InFlight, Ended, Gating, Writing, Goto, dbVars, gateVars
  <2>1. ASSUME NEW r \in Requests, Send(r) PROVE TypeOK'
    BY <2>1 DEF Send
  <2>2. ASSUME NEW r \in Requests, Begin(r) PROVE TypeOK'
    BY <2>2 DEF Begin
  <2>3. ASSUME NEW r \in Requests, PoolTimeout(r) PROVE TypeOK'
    BY <2>3 DEF PoolTimeout
  <2>4. ASSUME NEW r \in Requests, ListPublished(r) PROVE TypeOK'
    BY <2>4 DEF ListPublished, Present
  <2>5. ASSUME NEW r \in Requests, CountTotals(r) PROVE TypeOK'
    BY <2>5 DEF CountTotals, Present
  <2>6. ASSUME NEW r \in Requests, Admit(r) PROVE TypeOK'
    BY <2>6 DEF Admit
  <2>7. ASSUME NEW r \in Requests, Refuse(r) PROVE TypeOK'
    BY <2>7 DEF Refuse
  <2>8. ASSUME NEW r \in Requests, CreatePending(r) PROVE TypeOK'
    BY <2>8 DEF CreatePending
  <2>9. ASSUME NEW r \in Requests, Grade(r) PROVE TypeOK'
    BY <2>9 DEF Grade, Statuses
  <2>10. ASSUME NEW r \in Requests, ReadProgress(r) PROVE TypeOK'
    BY <2>10 DEF ReadProgress
  <2>11. ASSUME NEW r \in Requests, Flush(r) PROVE TypeOK'
    BY <2>11 DEF Flush
  <2>12. ASSUME NEW r \in Requests, Commit(r) PROVE TypeOK'
    BY <2>12, RecordedType DEF Commit, Statuses
  <2>13. ASSUME NEW r \in Requests, Reply(r) PROVE TypeOK'
    BY <2>13 DEF Reply
  <2>14. ASSUME NEW r \in Requests, Raise(r) PROVE TypeOK'
    BY <2>14 DEF Raise
  <2>15. CASE Crash
    BY <2>15 DEF Crash
  <2>16. ASSUME NEW l \in Lessons, Ingest(l) PROVE TypeOK'
    BY <2>16 DEF Ingest
  <2>17. CASE UNCHANGED vars
    BY <2>17 DEF vars
  <2> QED
    BY <2>1, <2>2, <2>3, <2>4, <2>5, <2>6, <2>7, <2>8, <2>9, <2>10, <2>11, <2>12,
       <2>13, <2>14, <2>15, <2>16, <2>17 DEF Next, Handle, Finished
<1> QED
  BY <1>1, <1>2, PTL DEF Spec

-----------------------------------------------------------------------------
(* Writers are isolated *)

\* The only statement that changes a progress row is the commit of the handler
\* that holds it.
LEMMA CommitWrites ==
  ASSUME TypeOK, NEW r \in Requests, Commit(r), NEW k \in Keys
  PROVE  progress'[k] = IF HoldsRow(r) /\ k = target[r] THEN Recorded(r) ELSE progress[k]
BY DEF TypeOK, Commit

\* A commit never takes a solved exercise back, and leaves a row.
LEMMA CommitKeepsSolved ==
  ASSUME TypeOK, NEW r \in Requests, Commit(r), NEW k \in Keys
  PROVE  /\ progress[k] # NoRow => progress'[k] # NoRow
         /\ IsSolved(k) => IsSolved(k)'
<1>1. CASE HoldsRow(r) /\ k = target[r]
  <2>1. progress'[k] = Recorded(r) /\ Recorded(r) \in ProgressRow
    BY <1>1, CommitWrites, RecordedType
  <2>2. IsSolved(k) => Recorded(r).is_solved
    BY <1>1 DEF IsSolved, Recorded, OrNew
  <2> QED
    BY <2>1, <2>2 DEF IsSolved
<1>2. CASE ~ (HoldsRow(r) /\ k = target[r])
  BY <1>2, CommitWrites DEF IsSolved
<1> QED
  BY <1>1, <1>2

\* An ingest touches nothing that belongs to an exercise it does not replace.
LEMMA IngestKeeps ==
  ASSUME TypeOK, NEW l \in Lessons, Ingest(l)
  PROVE  /\ \A k \in Keys : progress'[k] = IF k[2] \in Gone(l) THEN NoRow ELSE progress[k]
         /\ \A e \in Exercises : Exists(e)' <=> LessonOf[e] = l \/ (Exists(e) /\ e \notin Gone(l))
<1>1. \A m \in Lessons : m \in Present' <=> m = l \/ (m \in Present /\ m \notin Replaced(l))
  BY DEF Ingest, Present, TypeOK
<1> QED
  BY <1>1 DEF Ingest, Exists, Gone

\* Handlers that overlap on one progress row cannot invalidate what the others
\* have read: WritersAreIsolated is inductive.
LEMMA IsolationStep == TypeOK /\ WritersAreIsolated /\ [Next]_vars => WritersAreIsolated'
<1> SUFFICES ASSUME TypeOK, WritersAreIsolated, [Next]_vars PROVE WritersAreIsolated'
  OBVIOUS
<1> USE DEF InFlight, Ended, Gating, Writing, Goto, dbVars, gateVars, Exists, Present,
           Exercise, HoldsRow, TypeOK
\* Steps that neither enter a state in which a row is read or held, nor touch the
\* database.
<1>1. ASSUME NEW r \in Requests,
             UNCHANGED <<dbVars, target, status, row>>,
             pc' = [pc EXCEPT ![r] = pc'[r]],
             pc'[r] \in Writing => Exists(Exercise(r)),
             pc'[r] \notin {"flush", "commit"}
      PROVE  WritersAreIsolated'
  BY <1>1 DEF WritersAreIsolated, IsSolved
<1>2. ASSUME NEW r \in Requests,
             Send(r) \/ Begin(r) \/ PoolTimeout(r) \/ ListPublished(r) \/ CountTotals(r)
               \/ Admit(r) \/ Refuse(r) \/ CreatePending(r) \/ Reply(r) \/ Raise(r)
      PROVE  WritersAreIsolated'
  <2>1. UNCHANGED <<dbVars, target, status, row>>
    BY <1>2 DEF Send, Begin, PoolTimeout, ListPublished, CountTotals, Admit, Refuse,
                CreatePending, Reply, Raise
  <2>2. /\ pc' = [pc EXCEPT ![r] = pc'[r]]
        /\ pc'[r] \in Writing => Exists(Exercise(r))
        /\ pc'[r] \notin {"flush", "commit"}
    BY <1>2 DEF Send, Begin, PoolTimeout, ListPublished, CountTotals, Admit, Refuse,
                CreatePending, Reply, Raise
  <2> QED
    BY <2>1, <2>2, <1>1
<1>3. ASSUME NEW r \in Requests, Grade(r) PROVE WritersAreIsolated'
  BY <1>3 DEF Grade, WritersAreIsolated, IsSolved, Counted, Infrastructure
<1>4. ASSUME NEW r \in Requests, ReadProgress(r) PROVE WritersAreIsolated'
  BY <1>4 DEF ReadProgress, WritersAreIsolated, IsSolved
<1>5. ASSUME NEW r \in Requests, Flush(r) PROVE WritersAreIsolated'
  BY <1>5 DEF Flush, WritersAreIsolated, IsSolved
<1>6. ASSUME NEW r \in Requests, Commit(r) PROVE WritersAreIsolated'
  <2>1. UNCHANGED <<catalogue, target, status, row>> /\ pc' = [pc EXCEPT ![r] = "reply"]
    BY <1>6 DEF Commit
  <2> SUFFICES ASSUME NEW q \in Requests
               PROVE  /\ pc'[q] \in Writing => Exists(Exercise(q))'
                      /\ HoldsRow(q)' => \A s \in Requests :
                           HoldsRow(s)' /\ target'[s] = target'[q] => s = q
                      /\ HoldsRow(q)' /\ row'[q] = NoRow => progress'[target'[q]] = NoRow
                      /\ pc'[q] = "flush" \/ HoldsRow(q)' =>
                           /\ row'[q] # NoRow => progress'[target'[q]] # NoRow
                           /\ row'[q] # NoRow /\ row'[q].is_solved => IsSolved(target[q])'
    BY <2>1 DEF WritersAreIsolated
  <2>2. CASE q = r
    BY <2>1, <2>2 DEF WritersAreIsolated
  <2>3. CASE q # r
    <3>1. target[q] \in Keys /\ target' = target
      BY <2>1
    <3>2. HoldsRow(q) => progress'[target[q]] = progress[target[q]]
      BY <1>6, <2>3, <3>1, CommitWrites DEF WritersAreIsolated
    <3> QED
      BY <1>6, <2>1, <2>3, <3>1, <3>2, CommitKeepsSolved DEF WritersAreIsolated
  <2> QED
    BY <2>2, <2>3
<1>7. CASE Crash
  BY <1>7 DEF Crash, WritersAreIsolated, IsSolved
<1>8. ASSUME NEW l \in Lessons, Ingest(l) PROVE WritersAreIsolated'
  <2>1. UNCHANGED <<pc, target, status, row>>
    BY <1>8 DEF Ingest
  <2>2. \A r \in Requests : pc[r] \in Writing =>
          progress'[target[r]] = progress[target[r]] /\ Exists(Exercise(r))'
    <3> SUFFICES ASSUME NEW r \in Requests, pc[r] \in Writing
                 PROVE  progress'[target[r]] = progress[target[r]] /\ Exists(Exercise(r))'
      OBVIOUS
    <3>1. target[r] \in Keys /\ Exercise(r) \in Exercises /\ target' = target
      BY <2>1 DEF Keys
    <3>2. Exercise(r) \notin Gone(l) /\ Exists(Exercise(r))
      BY <1>8 DEF Ingest, WritersAreIsolated
    <3>3. Exists(Exercise(r))'
      BY <1>8, <3>1, <3>2, IngestKeeps
    <3> QED
      BY <1>8, <3>1, <3>2, <3>3, IngestKeeps
  <2> QED
    BY <2>1, <2>2 DEF WritersAreIsolated, IsSolved
<1>9. CASE UNCHANGED vars
  BY <1>9 DEF vars, WritersAreIsolated, IsSolved
<1> QED
  BY <1>2, <1>3, <1>4, <1>5, <1>6, <1>7, <1>8, <1>9 DEF Next, Handle, Finished

\* What a handler read stays true until it writes.
THEOREM Isolation == Spec => []WritersAreIsolated
<1>1. Init => WritersAreIsolated
  BY DEF Init, WritersAreIsolated, Writing, HoldsRow
<1> QED
  BY <1>1, IsolationStep, TypeCorrect, PTL DEF Spec

-----------------------------------------------------------------------------
(* Answers and rows *)

\* AnswersMatchRows, strengthened to be inductive: a request that has not
\* committed has no row, one that has lost its row again has seen its lesson
\* deleted, and a verdict is known before it is recorded.
Uncommitted == {"idle", "queued", "403", "404", "conflict"} \cup Gating \cup Writing

AnswersInv == \A r \in Requests :
  /\ pc[r] \in Uncommitted => submission[r] = NoRow
  /\ pc[r] \in {"reply", "200"} /\ submission[r] = NoRow =>
       catalogue[LessonOf[Exercise(r)]] = "deleted"
  /\ submission[r] \in {NoRow, status[r]} \ {"pending"}
  /\ pc[r] \in {"read", "flush"} => status[r] \in Counted
  /\ pc[r] = "commit" => status[r] \in Counted \cup Infrastructure

\* AnswersMatchRows is inductive together with which handlers have stored nothing yet.
LEMMA AnswersStep ==
  TypeOK /\ WritersAreIsolated /\ AnswersInv /\ [Next]_vars => AnswersInv'
<1> SUFFICES ASSUME TypeOK, WritersAreIsolated, AnswersInv, [Next]_vars PROVE AnswersInv'
  OBVIOUS
<1> USE DEF InFlight, Ended, Gating, Writing, Goto, dbVars, gateVars, Exercise, TypeOK,
           Uncommitted, Statuses, Counted, Infrastructure
<1>1. ASSUME NEW r \in Requests,
             UNCHANGED <<dbVars, target, status>>,
             pc' = [pc EXCEPT ![r] = pc'[r]],
             pc'[r] \in Uncommitted => pc[r] \in Uncommitted,
             pc'[r] \in {"read", "flush", "commit"} => pc[r] \in {"read", "flush"},
             pc'[r] # "reply",
             pc'[r] = "200" => pc[r] = "reply"
      PROVE  AnswersInv'
  BY <1>1 DEF AnswersInv
<1>2. ASSUME NEW r \in Requests,
             Send(r) \/ Begin(r) \/ PoolTimeout(r) \/ ListPublished(r) \/ CountTotals(r)
               \/ Admit(r) \/ Refuse(r) \/ CreatePending(r) \/ ReadProgress(r) \/ Flush(r)
               \/ Reply(r) \/ Raise(r)
      PROVE  AnswersInv'
  <2>1. UNCHANGED <<dbVars, target, status>>
    BY <1>2 DEF Send, Begin, PoolTimeout, ListPublished, CountTotals, Admit, Refuse,
                CreatePending, ReadProgress, Flush, Reply, Raise
  <2>2. /\ pc' = [pc EXCEPT ![r] = pc'[r]]
        /\ pc'[r] \in Uncommitted => pc[r] \in Uncommitted
        /\ pc'[r] \in {"read", "flush", "commit"} => pc[r] \in {"read", "flush"}
        /\ pc'[r] # "reply"
        /\ pc'[r] = "200" => pc[r] = "reply"
    BY <1>2 DEF Send, Begin, PoolTimeout, ListPublished, CountTotals, Admit, Refuse,
                CreatePending, ReadProgress, Flush, Reply, Raise
  <2> QED
    BY <2>1, <2>2, <1>1
<1>3. ASSUME NEW r \in Requests, Grade(r) PROVE AnswersInv'
  BY <1>3 DEF Grade, AnswersInv
<1>4. ASSUME NEW r \in Requests, Commit(r) PROVE AnswersInv'
  BY <1>4 DEF Commit, AnswersInv
<1>5. CASE Crash
  BY <1>5 DEF Crash, AnswersInv
<1>6. ASSUME NEW l \in Lessons, Ingest(l) PROVE AnswersInv'
  <2>1. \A r \in Requests : target[r] \in Keys /\ LessonOf[Exercise(r)] \in Lessons
    BY DEF Keys
  <2>2. UNCHANGED <<pc, target, status>>
    BY <1>6 DEF Ingest
  <2>3. \A r \in Requests : submission'[r] = IF Exercise(r) \in Gone(l) THEN NoRow
                                                                   ELSE submission[r]
    BY <1>6 DEF Ingest
  <2>4. \A m \in Lessons : /\ catalogue[m] = "deleted" => catalogue'[m] = "deleted"
                           /\ m \in Replaced(l) => catalogue'[m] = "deleted"
    BY <1>6 DEF Ingest, Replaced, Present
  <2>5. \A r \in Requests : Exercise(r) \in Gone(l) => catalogue'[LessonOf[Exercise(r)]] = "deleted"
    BY <2>1, <2>4 DEF Gone
  <2> QED
    BY <2>1, <2>2, <2>3, <2>4, <2>5 DEF AnswersInv
<1>7. CASE UNCHANGED vars
  BY <1>7 DEF vars, AnswersInv
<1> QED
  BY <1>2, <1>3, <1>4, <1>5, <1>6, <1>7 DEF Next, Handle, Finished

\* The strengthened invariant holds throughout.
LEMMA AnswersInvariant == Spec => []AnswersInv
<1>1. Init => AnswersInv
  BY DEF Init, AnswersInv, Statuses
<1> QED
  BY <1>1, AnswersStep, TypeCorrect, Isolation, PTL DEF Spec

\* 403, 404 and a failed upsert leave no trace; 200 means stored.
THEOREM AnswersMatch == Spec => []AnswersMatchRows
<1>1. AnswersInv => AnswersMatchRows
  BY DEF AnswersInv, AnswersMatchRows, Uncommitted, Exists, Present
<1> QED
  BY <1>1, AnswersInvariant, PTL

-----------------------------------------------------------------------------
(* Solved exercises *)

\* A commit solves exactly the target of a passing submission.
LEMMA CommitSolves ==
  ASSUME TypeOK, WritersAreIsolated, NEW r \in Requests, Commit(r), NEW k \in Keys
  PROVE  IsSolved(k)' <=> IsSolved(k) \/ (k = target[r] /\ status[r] = "passed")
<1>1. CASE HoldsRow(r) /\ k = target[r]
  <2>1. progress'[k] = Recorded(r) /\ progress'[k] # NoRow
    BY <1>1, CommitWrites, RecordedType
  <2>2. progress'[k].is_solved <=> Solves(r) \/ OrNew(progress[k]).is_solved
    <3>1. Recorded(r).is_solved = (Solves(r) \/ OrNew(progress[target[r]]).is_solved)
      BY DEF Recorded
    <3> QED
      BY <1>1, <2>1, <3>1
  <2>3. OrNew(progress[k]).is_solved <=> IsSolved(k)
    BY DEF OrNew, NewRow, IsSolved
  <2>4. OrNew(row[r]).is_solved => IsSolved(k)
    BY <1>1 DEF OrNew, NewRow, WritersAreIsolated
  <2> QED
    BY <1>1, <2>1, <2>2, <2>3, <2>4 DEF Solves, IsSolved
<1>2. CASE ~ (HoldsRow(r) /\ k = target[r])
  BY <1>2, CommitWrites DEF IsSolved, HoldsRow, Commit, Counted
<1> QED
  BY <1>1, <1>2

\* A commit solves its target exactly when it stores a pass, an ingest forgets both.
LEMMA SolvedStep ==
  TypeOK /\ WritersAreIsolated /\ AnswersInv /\ SolvedIffPassed /\ [Next]_vars
    => SolvedIffPassed'
<1> SUFFICES ASSUME TypeOK, WritersAreIsolated, AnswersInv, SolvedIffPassed, [Next]_vars
             PROVE  SolvedIffPassed'
  OBVIOUS
<1>1. CASE UNCHANGED <<progress, submission, target>>
  BY <1>1 DEF SolvedIffPassed, IsSolved, PassedFor
<1>2. ASSUME NEW r \in Requests, Commit(r) PROVE SolvedIffPassed'
  <2>1. submission' = [submission EXCEPT ![r] = status[r]] /\ target' = target
    BY <1>2 DEF Commit
  <2>2. submission[r] = NoRow
    BY <1>2 DEF Commit, AnswersInv, Uncommitted, Writing
  <2>3. submission[r] # "passed"
    BY <2>2 DEF Statuses, Counted
  <2>4. ASSUME NEW k \in Keys
        PROVE  PassedFor(k)' # {} <=> PassedFor(k) # {} \/ (k = target[r] /\ status[r] = "passed")
    BY <2>1, <2>3 DEF PassedFor, TypeOK
  <2> QED
    BY <1>2, <2>4, CommitSolves DEF SolvedIffPassed
<1>3. ASSUME NEW l \in Lessons, Ingest(l) PROVE SolvedIffPassed'
  <2> SUFFICES ASSUME NEW k \in Keys PROVE IsSolved(k)' <=> PassedFor(k)' # {}
    BY DEF SolvedIffPassed
  <2>1. /\ progress'[k] = IF k[2] \in Gone(l) THEN NoRow ELSE progress[k]
        /\ \A r \in Requests : submission'[r] = IF Exercise(r) \in Gone(l) THEN NoRow
                                                                         ELSE submission[r]
        /\ target' = target
    BY <1>3 DEF Ingest
  <2>2. CASE k[2] \in Gone(l)
    <3>1. PassedFor(k)' = {}
      BY <2>1, <2>2 DEF PassedFor, Exercise, Statuses, Counted
    <3> QED
      BY <2>1, <2>2, <3>1 DEF IsSolved
  <2>3. CASE k[2] \notin Gone(l)
    <3>1. PassedFor(k)' = PassedFor(k)
      BY <2>1, <2>3 DEF PassedFor, Exercise
    <3> QED
      BY <2>1, <2>3, <3>1 DEF IsSolved, SolvedIffPassed
  <2> QED
    BY <2>2, <2>3
<1> QED
  BY <1>1, <1>2, <1>3 DEF Next, Handle, Finished, vars, dbVars, Send, Begin, PoolTimeout,
     ListPublished, CountTotals, Admit, Refuse, CreatePending, Grade, ReadProgress, Flush,
     Reply, Raise, Crash

\* Solved is the same as having a passing submission on record.
THEOREM Solved == Spec => []SolvedIffPassed
<1>1. Init => SolvedIffPassed
  BY DEF Init, SolvedIffPassed, IsSolved, PassedFor, Statuses, Counted
<1> QED
  BY <1>1, SolvedStep, TypeCorrect, Isolation, AnswersInvariant, PTL DEF Spec

\* Only the re-ingestion of its lesson takes a solved exercise back.
THEOREM Sticks == Spec => SolveSticks
<1>1. ASSUME TypeOK, WritersAreIsolated, [Next]_vars, NEW k \in Keys, IsSolved(k)
      PROVE  IsSolved(k)' \/ ~ Exists(k[2])'
  <2>1. CASE UNCHANGED progress
    BY <1>1, <2>1 DEF IsSolved
  <2>2. ASSUME NEW r \in Requests, Commit(r) PROVE IsSolved(k)'
    BY <1>1, <2>2, CommitKeepsSolved
  <2>3. ASSUME NEW l \in Lessons, Ingest(l) PROVE IsSolved(k)' \/ ~ Exists(k[2])'
    <3>1. k[2] \in Exercises
      BY DEF Keys
    <3>2. l \notin Replaced(l)
      BY <2>3 DEF Ingest, Replaced, Present
    <3>3. CASE k[2] \in Gone(l)
      BY <1>1, <2>3, <3>1, <3>2, <3>3, IngestKeeps DEF Gone
    <3>4. CASE k[2] \notin Gone(l)
      BY <1>1, <2>3, <3>4, IngestKeeps DEF IsSolved
    <3> QED
      BY <3>3, <3>4
  <2> QED
    BY <1>1, <2>1, <2>2, <2>3 DEF Next, Handle, Finished, vars, dbVars, Send, Begin,
       PoolTimeout, ListPublished, CountTotals, Admit, Refuse, CreatePending, Grade,
       ReadProgress, Flush, Reply, Raise, Crash
<1>2. TypeOK /\ WritersAreIsolated /\ [Next]_vars =>
        [\A k \in Keys : IsSolved(k) => IsSolved(k)' \/ ~ Exists(k[2])']_vars
  BY <1>1
<1> QED
  BY <1>2, TypeCorrect, Isolation, PTL DEF Spec, SolveSticks

-----------------------------------------------------------------------------
(* The abstract ledger *)

\* Every step of the handlers, of a crash and of an ingest is a step of the
\* ledger, or leaves it alone.
THEOREM Refinement == Spec => ImplementsLedger
<1>1. Init => Abstract!Init
  BY DEF Init, Abstract!Init, LedgerLog, LedgerSolved, IsSolved
<1>2. ASSUME TypeOK, WritersAreIsolated, AnswersInv, [Next]_vars
      PROVE  [Abstract!Next]_<<LedgerLog, LedgerSolved>>
  <2>1. CASE UNCHANGED <<progress, submission, target>>
    BY <2>1 DEF LedgerLog, LedgerSolved, IsSolved
  <2>2. ASSUME NEW r \in Requests, Commit(r) PROVE Abstract!Next
    <3>1. /\ submission' = [submission EXCEPT ![r] = status[r]]
          /\ target' = target /\ target[r] \in Keys
      BY <1>2, <2>2 DEF Commit, TypeOK
    <3>2. submission[r] = NoRow /\ status[r] \in Counted \cup Infrastructure
      BY <1>2, <2>2 DEF Commit, AnswersInv, Uncommitted, Writing
    <3>3. status[r] # NoRow
      BY <3>2 DEF Statuses
    <3>4. LedgerLog[r] = NoRow
      BY <3>2 DEF LedgerLog
    <3>5. LedgerLog' = [LedgerLog EXCEPT ![r] = [key |-> target[r], status |-> status[r]]]
      BY <1>2, <3>1, <3>3 DEF LedgerLog, TypeOK
    <3>6. LedgerSolved' = IF status[r] = "passed" THEN LedgerSolved \cup {target[r]}
                                                  ELSE LedgerSolved
      BY <1>2, <2>2, <3>1, CommitSolves DEF LedgerSolved
    <3>7. Abstract!Record(r, target[r], status[r])
      BY <3>4, <3>5, <3>6 DEF Abstract!Record
    <3>8. target[r] \in Abstract!Keys /\ status[r] \in Abstract!Verdicts
      BY <3>1, <3>2 DEF Keys, Abstract!Keys, Abstract!Verdicts, Counted, Infrastructure
    <3> QED
      BY <3>7, <3>8 DEF Abstract!Next
  <2>3. ASSUME NEW l \in Lessons, Ingest(l) PROVE Abstract!Next
    <3>1. /\ progress' = [k \in Keys |-> IF k[2] \in Gone(l) THEN NoRow ELSE progress[k]]
          /\ submission' = [r \in Requests |->
               IF Exercise(r) \in Gone(l) THEN NoRow ELSE submission[r]]
          /\ target' = target
      BY <2>3 DEF Ingest
    <3>2. LedgerLog' = [r \in Requests |->
            IF LedgerLog[r] # NoRow /\ LedgerLog[r].key[2] \in Gone(l) THEN NoRow
                                                                     ELSE LedgerLog[r]]
      BY <3>1 DEF LedgerLog, Exercise
    <3>3. LedgerSolved' = {k \in LedgerSolved : k[2] \notin Gone(l)}
      BY <3>1 DEF LedgerSolved, IsSolved
    <3>4. Gone(l) \in SUBSET Exercises
      BY DEF Gone
    <3> QED
      BY <3>2, <3>3, <3>4 DEF Abstract!Next, Abstract!Forget
  <2> QED
    BY <1>2, <2>1, <2>2, <2>3 DEF Next, Handle, Finished, vars, dbVars, Send, Begin,
       PoolTimeout, ListPublished, CountTotals, Admit, Refuse, CreatePending, Grade,
       ReadProgress, Flush, Reply, Raise, Crash
<1>3. TypeOK /\ WritersAreIsolated /\ AnswersInv /\ [Next]_vars =>
        [Abstract!Next]_(Abstract!vars)
  BY <1>2 DEF Abstract!vars
<1> QED
  BY <1>1, <1>3, TypeCorrect, Isolation, AnswersInvariant, PTL
     DEF Spec, ImplementsLedger, Abstract!Spec

-----------------------------------------------------------------------------
(* Progress rows and the submissions they count *)

\* A commit adds its own submission to what is counted, and nothing else.
LEMMA CommitCounts ==
  ASSUME TypeOK, AnswersInv, NEW r \in Requests, Commit(r), NEW k \in Keys
  PROVE  /\ r \notin CountedFor(k)
         /\ CountedFor(k)' = IF HoldsRow(r) /\ k = target[r] THEN CountedFor(k) \cup {r}
                                                             ELSE CountedFor(k)
         /\ PassedFor(k) \subseteq PassedFor(k)'
         /\ k = target[r] /\ status[r] = "passed" => r \in PassedFor(k)'
<1>1. submission' = [submission EXCEPT ![r] = status[r]] /\ target' = target
  BY DEF Commit
<1>2. submission[r] \notin Counted
  BY DEF Commit, AnswersInv, Uncommitted, Writing, Statuses
<1> QED
  BY <1>1, <1>2 DEF CountedFor, PassedFor, HoldsRow, Commit, TypeOK, Counted

\* What an ingest does not replace keeps its submissions, what it does loses them.
LEMMA IngestCounts ==
  ASSUME TypeOK, NEW l \in Lessons, Ingest(l), NEW k \in Keys
  PROVE  IF k[2] \in Gone(l)
           THEN CountedFor(k)' = {}
           ELSE CountedFor(k)' = CountedFor(k) /\ PassedFor(k)' = PassedFor(k)
BY DEF Ingest, CountedFor, PassedFor, Exercise, Statuses, Counted

\* AttemptsNeverRunAhead, strengthened to be inductive: the counter a handler has
\* read and will write back is covered by submissions already stored.
AttemptsInv ==
  /\ AttemptsNeverRunAhead
  /\ \A r \in Requests : (pc[r] = "flush" \/ HoldsRow(r)) /\ row[r] # NoRow =>
       row[r].attempts <= Cardinality(CountedFor(target[r]))

\* The counted submissions of a key can be counted.
LEMMA CountedFinite ==
  ASSUME NEW k
  PROVE  IsFiniteSet(CountedFor(k)) /\ Cardinality(CountedFor(k)) \in Nat
<1>1. CountedFor(k) \subseteq Requests
  BY DEF CountedFor
<1> QED
  BY <1>1, FS_Subset, FS_CardinalityType

\* The counter grows by at most as much as the counted submissions do.
LEMMA AttemptsStep ==
  TypeOK /\ WritersAreIsolated /\ AnswersInv /\ AttemptsInv /\ [Next]_vars => AttemptsInv'
<1> SUFFICES ASSUME TypeOK, WritersAreIsolated, AnswersInv, AttemptsInv, [Next]_vars
             PROVE  AttemptsInv'
  OBVIOUS
<1>1. \A r \in Requests : target[r] \in Keys
  BY DEF TypeOK
<1>2. ASSUME UNCHANGED <<progress, submission, target, row>>,
             \A r \in Requests : pc'[r] = "flush" \/ HoldsRow(r)' => pc[r] = "flush" \/ HoldsRow(r)
      PROVE  AttemptsInv'
  BY <1>2 DEF AttemptsInv, AttemptsNeverRunAhead, CountedFor
<1>3. ASSUME NEW r \in Requests, ReadProgress(r) PROVE AttemptsInv'
  <2>1. /\ UNCHANGED <<progress, submission, target, status>>
        /\ row' = [row EXCEPT ![r] = progress[target[r]]]
        /\ pc' = [pc EXCEPT ![r] = "flush"]
    BY <1>3 DEF ReadProgress, Goto, dbVars
  <2>2. \A k \in Keys : CountedFor(k)' = CountedFor(k)
    BY <2>1 DEF CountedFor
  <2>3. AttemptsNeverRunAhead'
    BY <2>1, <2>2 DEF AttemptsInv, AttemptsNeverRunAhead
  <2>4. progress[target[r]] # NoRow =>
          progress[target[r]].attempts <= Cardinality(CountedFor(target[r]))
    BY <1>1, CountedFinite DEF AttemptsInv, AttemptsNeverRunAhead
  <2> QED
    BY <1>1, <2>1, <2>2, <2>3, <2>4 DEF AttemptsInv, HoldsRow, TypeOK
<1>4. ASSUME NEW r \in Requests, Commit(r) PROVE AttemptsInv'
  <2>1. UNCHANGED <<target, status, row>> /\ pc' = [pc EXCEPT ![r] = "reply"]
    BY <1>4 DEF Commit, Goto, gateVars
  <2>2. \A k \in Keys : Cardinality(CountedFor(k)') =
          IF HoldsRow(r) /\ k = target[r] THEN Cardinality(CountedFor(k)) + 1
                                          ELSE Cardinality(CountedFor(k))
    BY <1>4, CommitCounts, CountedFinite, FS_AddElement
  <2>3. ASSUME NEW k \in Keys
        PROVE  IF progress'[k] = NoRow THEN CountedFor(k)' = {}
               ELSE progress'[k].attempts \in 1 .. Cardinality(CountedFor(k)')
    <3>1. CASE HoldsRow(r) /\ k = target[r]
      <4>1. progress'[k] = Recorded(r) /\ Recorded(r) # NoRow
        BY <1>4, <3>1, CommitWrites, RecordedType
      <4>2. Recorded(r).attempts = OrNew(row[r]).attempts + 1
        BY DEF Recorded
      <4>3. OrNew(row[r]).attempts \in 0 .. Cardinality(CountedFor(k))
        BY <3>1, CountedFinite DEF OrNew, NewRow, AttemptsInv, TypeOK, ProgressRow
      <4> QED
        BY <2>2, <3>1, <4>1, <4>2, <4>3, CountedFinite
    <3>2. CASE ~ (HoldsRow(r) /\ k = target[r])
      BY <1>4, <2>2, <3>2, CommitWrites, CommitCounts DEF AttemptsInv, AttemptsNeverRunAhead
    <3> QED
      BY <3>1, <3>2
  <2>4. ASSUME NEW q \in Requests, pc'[q] = "flush" \/ HoldsRow(q)', row'[q] # NoRow
        PROVE  row'[q].attempts <= Cardinality(CountedFor(target[q])')
    <3>1. (pc[q] = "flush" \/ HoldsRow(q)) /\ row'[q] = row[q]
      BY <2>1, <2>4 DEF HoldsRow, TypeOK
    <3>2. row[q].attempts <= Cardinality(CountedFor(target[q])) /\ row[q].attempts \in Nat
      BY <2>4, <3>1 DEF AttemptsInv, TypeOK, ProgressRow
    <3>3. Cardinality(CountedFor(target[q])) <= Cardinality(CountedFor(target[q])')
      BY <1>1, <2>1, <2>2, CountedFinite
    <3>4. Cardinality(CountedFor(target[q])) \in Nat /\ Cardinality(CountedFor(target[q])') \in Nat
      BY <1>1, <2>1, <2>2, CountedFinite
    <3> QED
      BY <3>1, <3>2, <3>3, <3>4
  <2> QED
    BY <2>1, <2>3, <2>4 DEF AttemptsInv, AttemptsNeverRunAhead
<1>5. ASSUME NEW l \in Lessons, Ingest(l) PROVE AttemptsInv'
  <2>1. UNCHANGED <<pc, target, status, row>>
    BY <1>5 DEF Ingest
  <2>2. AttemptsNeverRunAhead'
    BY <1>5, IngestKeeps, IngestCounts DEF AttemptsInv, AttemptsNeverRunAhead
  <2>3. ASSUME NEW q \in Requests, pc[q] \in Writing
        PROVE  CountedFor(target[q])' = CountedFor(target[q])
    <3>1. target[q][2] \notin Gone(l)
      BY <1>5, <2>3 DEF Ingest, Exercise
    <3>2. CountedFor(target[q])' = {s \in Requests : target[s] = target[q] /\ submission'[s] \in Counted}
      BY <2>1 DEF CountedFor
    <3>3. \A s \in Requests : target[s] = target[q] => submission'[s] = submission[s]
      BY <1>5, <3>1 DEF Ingest, Exercise
    <3> QED
      BY <3>2, <3>3 DEF CountedFor
  <2> QED
    BY <2>1, <2>2, <2>3 DEF AttemptsInv, HoldsRow, Writing
<1>6. ASSUME NEW r \in Requests,
             Send(r) \/ Begin(r) \/ PoolTimeout(r) \/ ListPublished(r) \/ CountTotals(r)
               \/ Admit(r) \/ Refuse(r) \/ CreatePending(r) \/ Grade(r) \/ Flush(r)
               \/ Reply(r) \/ Raise(r)
      PROVE  AttemptsInv'
  <2>1. UNCHANGED <<progress, submission, target, row>>
    BY <1>6 DEF Send, Begin, PoolTimeout, ListPublished, CountTotals, Admit, Refuse,
                CreatePending, Grade, Flush, Reply, Raise, dbVars
  <2>2. \A q \in Requests : pc'[q] = "flush" \/ HoldsRow(q)' => pc[q] = "flush" \/ HoldsRow(q)
    BY <1>6 DEF Send, Begin, PoolTimeout, ListPublished, CountTotals, Admit, Refuse,
                CreatePending, Grade, Flush, Reply, Raise, Goto, HoldsRow, TypeOK, Counted,
                Infrastructure
  <2> QED
    BY <1>2, <2>1, <2>2
<1>7. CASE Crash
  BY <1>2, <1>7 DEF Crash, dbVars, HoldsRow
<1>8. CASE UNCHANGED vars
  BY <1>2, <1>8 DEF vars, HoldsRow
<1> QED
  BY <1>3, <1>4, <1>5, <1>6, <1>7, <1>8 DEF Next, Handle, Finished

\* The attempt counter never exceeds the number of counted submissions.
THEOREM Attempts == Spec => []AttemptsNeverRunAhead
<1>1. Init => AttemptsInv
  BY DEF Init, AttemptsInv, AttemptsNeverRunAhead, CountedFor, HoldsRow, Statuses
<1>2. AttemptsInv => AttemptsNeverRunAhead
  BY DEF AttemptsInv
<1> QED
  BY <1>1, <1>2, AttemptsStep, TypeCorrect, Isolation, AnswersInvariant, PTL DEF Spec

-----------------------------------------------------------------------------
(* References *)

\* What a commit refers to is stored with it, what an ingest deletes is not referred to.
LEMMA ReferencesStep ==
  TypeOK /\ AnswersInv /\ ReferencesAreOwn /\ [Next]_vars => ReferencesAreOwn'
<1> SUFFICES ASSUME TypeOK, AnswersInv, ReferencesAreOwn, [Next]_vars PROVE ReferencesAreOwn'
  OBVIOUS
<1>1. CASE UNCHANGED <<progress, submission, target>>
  BY <1>1 DEF ReferencesAreOwn, CountedFor, PassedFor
<1>2. ASSUME NEW r \in Requests, Commit(r) PROVE ReferencesAreOwn'
  <2> SUFFICES ASSUME NEW k \in Keys, progress'[k] # NoRow
               PROVE  /\ progress'[k].last_submission_id \in CountedFor(k)'
                      /\ IF progress'[k].is_solved THEN progress'[k].solved_at \in PassedFor(k)'
                                                   ELSE progress'[k].solved_at = NoRow
    BY DEF ReferencesAreOwn
  <2> DEFINE stored == OrNew(progress[k])
  <2>1. IF stored.is_solved THEN stored.solved_at \in PassedFor(k)
                            ELSE stored.solved_at = NoRow
    BY DEF ReferencesAreOwn, OrNew, NewRow
  <2>2. CASE HoldsRow(r) /\ k = target[r]
    <3>1. progress'[k] = Recorded(r)
      BY <1>2, <2>2, CommitWrites
    <3>2. /\ Recorded(r).last_submission_id = r
          /\ Recorded(r).is_solved = (Solves(r) \/ stored.is_solved)
          /\ Recorded(r).solved_at = IF Solves(r) THEN r ELSE stored.solved_at
      BY <2>2 DEF Recorded
    <3>3. r \in CountedFor(k)' /\ PassedFor(k) \subseteq PassedFor(k)'
      BY <1>2, <2>2, CommitCounts
    <3>4. Solves(r) => r \in PassedFor(k)'
      BY <1>2, <2>2, CommitCounts DEF Solves
    <3> HIDE DEF stored
    <3>5. CASE Solves(r)
      BY <3>1, <3>2, <3>3, <3>4, <3>5
    <3>6. CASE ~ Solves(r)
      BY <2>1, <3>1, <3>2, <3>3, <3>6
    <3> QED
      BY <3>5, <3>6
  <2>3. CASE ~ (HoldsRow(r) /\ k = target[r])
    BY <1>2, <2>3, CommitWrites, CommitCounts DEF ReferencesAreOwn
  <2> QED
    BY <2>2, <2>3
<1>3. ASSUME NEW l \in Lessons, Ingest(l) PROVE ReferencesAreOwn'
  BY <1>3, IngestKeeps, IngestCounts DEF ReferencesAreOwn
<1> QED
  BY <1>1, <1>2, <1>3 DEF Next, Handle, Finished, vars, dbVars, Send, Begin, PoolTimeout,
     ListPublished, CountTotals, Admit, Refuse, CreatePending, Grade, ReadProgress, Flush,
     Reply, Raise, Crash

\* A progress row points at submissions of its own user and exercise.
THEOREM References == Spec => []ReferencesAreOwn
<1>1. Init => ReferencesAreOwn
  BY DEF Init, ReferencesAreOwn
<1> QED
  BY <1>1, ReferencesStep, TypeCorrect, AnswersInvariant, PTL DEF Spec

\* A row is written only for an exercise that is locked against deletion.
LEMMA OrphansStep ==
  TypeOK /\ WritersAreIsolated /\ WritersAreIsolated' /\ NoOrphanRows /\ [Next]_vars
    => NoOrphanRows'
<1> SUFFICES ASSUME TypeOK, WritersAreIsolated, WritersAreIsolated', NoOrphanRows, [Next]_vars
             PROVE  NoOrphanRows'
  OBVIOUS
<1>1. CASE UNCHANGED <<catalogue, progress, submission, target>>
  BY <1>1 DEF NoOrphanRows, WritersAreIsolated, Exists, Present, Exercise
<1>2. ASSUME NEW r \in Requests, Commit(r) PROVE NoOrphanRows'
  <2>1. /\ UNCHANGED <<catalogue, target>> /\ submission' = [submission EXCEPT ![r] = status[r]]
        /\ Exists(Exercise(r))
    BY <1>2 DEF Commit, WritersAreIsolated, Writing
  <2>2. \A e \in Exercises : Exists(e)' <=> Exists(e)
    BY <2>1 DEF Exists, Present
  <2>3. \A q \in Requests : Exercise(q)' = Exercise(q) /\ Exercise(q) \in Exercises
    BY <2>1 DEF Exercise, TypeOK, Keys
  <2>4. ASSUME NEW k \in Keys, progress'[k] # NoRow PROVE Exists(k[2])
    BY <1>2, <2>1, <2>4, CommitWrites DEF NoOrphanRows, Exercise
  <2>5. ASSUME NEW q \in Requests, submission'[q] # NoRow PROVE Exists(Exercise(q))
    BY <2>1, <2>5 DEF NoOrphanRows, TypeOK
  <2>6. \A q \in Requests : pc'[q] \in Writing => Exists(Exercise(q))
    BY <1>2 DEF Commit, Goto, TypeOK, NoOrphanRows, Writing
  <2>7. \A k \in Keys : k[2] \in Exercises
    BY DEF Keys
  <2> QED
    BY <2>1, <2>2, <2>3, <2>4, <2>5, <2>6, <2>7 DEF NoOrphanRows, Exists, Present, Exercise
<1>3. ASSUME NEW l \in Lessons, Ingest(l) PROVE NoOrphanRows'
  <2>1. ASSUME NEW k \in Keys, progress'[k] # NoRow PROVE Exists(k[2])'
    <3>1. k[2] \in Exercises /\ k[2] \notin Gone(l) /\ progress[k] # NoRow
      BY <1>3, <2>1, IngestKeeps DEF Keys
    <3> QED
      BY <1>3, <3>1, IngestKeeps DEF NoOrphanRows
  <2>2. ASSUME NEW q \in Requests, submission'[q] # NoRow PROVE Exists(Exercise(q))'
    <3>1. /\ target' = target /\ Exercise(q) \in Exercises
          /\ Exercise(q) \notin Gone(l) /\ submission[q] # NoRow
      BY <1>3, <2>2 DEF Ingest, Exercise, TypeOK, Keys
    <3>2. Exists(Exercise(q)) /\ Exercise(q)' = Exercise(q)
      BY <3>1 DEF NoOrphanRows, Exercise
    <3>3. LessonOf[Exercise(q)] \in Present'
      BY <1>3, <3>1, <3>2, IngestKeeps DEF Exists
    <3> QED
      BY <3>2, <3>3 DEF Exists
  <2> QED
    BY <2>1, <2>2 DEF NoOrphanRows, WritersAreIsolated
<1> QED
  BY <1>1, <1>2, <1>3 DEF Next, Handle, Finished, vars, dbVars, Send, Begin, PoolTimeout,
     ListPublished, CountTotals, Admit, Refuse, CreatePending, Grade, ReadProgress, Flush,
     Reply, Raise, Crash

\* Re-ingestion leaves no row behind whose exercise is gone.
THEOREM NoOrphans == Spec => []NoOrphanRows
<1>1. Init => NoOrphanRows
  BY DEF Init, NoOrphanRows, Writing
<1> QED
  BY <1>1, OrphansStep, TypeCorrect, Isolation, PTL DEF Spec

-----------------------------------------------------------------------------
(* Lessons are done in order *)

\* The curriculum only grows at its end: nothing that is stored is replaced, and a
\* published lesson is added after all published ones.  Drafts may go anywhere.
AppendOnly == \A l \in Lessons : catalogue[l] = "absent" /\ catalogue'[l] = "present" =>
  /\ \A m \in Present : Slug[m] # Slug[l]
  /\ l \in Published => \A m \in Present \cap Published : Position[m] < Position[l]

\* No two of the published lessons stored at the start share a position.
DistinctPositions == \A l, m \in InitialLessons \cap Published : Position[l] = Position[m] => l = m

\* The user of r has solved all of the published lessons before r's lesson.
CaughtUp(r) == \A p \in Present \cap Published :
  Position[p] < Position[LessonOf[Exercise(r)]] => ExercisesOf(p) \subseteq SolvedBy(User(r))

\* LessonsInOrder, strengthened to be inductive: positions stay distinct, what the
\* gate has listed is a beginning of the present list, with the lesson asked for
\* in it, and a request that is past the gate is caught up already.
OrderInv ==
  /\ \A l, m \in Present \cap Published : Position[l] = Position[m] => l = m
  /\ \A r \in Requests :
       /\ pc[r] \in Gating \cup Writing => Exists(Exercise(r))
       /\ pc[r] \in {"totals", "solved"} =>
            /\ listed[r] \subseteq Present \cap Published
            /\ LessonOf[Exercise(r)] \in Published => LessonOf[Exercise(r)] \in listed[r]
            /\ \A p \in listed[r], q \in Present \cap Published :
                 Position[q] < Position[p] => q \in listed[r]
       /\ pc[r] = "solved" => \A l \in counted[r] : ExercisesOf(l) # {}
       /\ LessonOf[Exercise(r)] \in Published
            /\ (pc[r] \in {"insert"} \cup Writing \/ submission[r] # NoRow) => CaughtUp(r)

\* The gate asks only for the lesson directly before; by induction over what is
\* recorded already, that one cannot be complete without those before it.
LEMMA GateCatchesUp ==
  ASSUME TypeOK, SolvedIffPassed, OrderInv,
         NEW r \in Requests, Admit(r), LessonOf[Exercise(r)] \in Published
  PROVE  CaughtUp(r)
<1> DEFINE l == LessonOf[Exercise(r)]
<1>1. /\ listed[r] \subseteq Present \cap Published /\ l \in listed[r]
      /\ \A q \in Present \cap Published : Position[q] < Position[l] => q \in listed[r]
      /\ \A m \in counted[r] : ExercisesOf(m) # {}
  BY DEF OrderInv, Admit
<1>2. /\ target[r] \in Keys /\ Exercise(r) \in Exercises /\ User(r) \in Users
      /\ l \in Lessons
  BY DEF TypeOK, Keys, Exercise, User
<1>3. MayBeUnlocked(l, listed[r], Completed(r))
  BY <1>1 DEF Admit
<1>4. CASE MayComeFirst(l, listed[r])
  BY <1>1, <1>4 DEF MayComeFirst, CaughtUp
<1>5. ASSUME NEW p \in DirectlyBefore(l, listed[r]), p \in Completed(r) PROVE CaughtUp(r)
  <2>1. /\ ExercisesOf(p) \subseteq SolvedBy(User(r)) /\ ExercisesOf(p) # {}
        /\ p \in Present \cap Published
    BY <1>1, <1>5 DEF Completed, IsCompleted
  <2>2. PICK e \in Exercises : LessonOf[e] = p /\ IsSolved(<<User(r), e>>)
    BY <2>1 DEF ExercisesOf, SolvedBy
  <2>3. <<User(r), e>> \in Keys
    BY <1>2 DEF Keys
  <2>4. PICK s \in Requests : target[s] = <<User(r), e>> /\ submission[s] = "passed"
    BY <2>2, <2>3 DEF SolvedIffPassed, PassedFor
  <2>5. Exercise(s) = e /\ User(s) = User(r) /\ submission[s] # NoRow
    BY <2>4 DEF Exercise, User, Statuses, Counted
  <2>6. CaughtUp(s)
    BY <2>1, <2>2, <2>5 DEF OrderInv
  <2>7. ASSUME NEW q \in Present \cap Published, Position[q] < Position[l]
        PROVE  ExercisesOf(q) \subseteq SolvedBy(User(r))
    <3>1. Position[p] \in Int /\ Position[q] \in Int /\ Position[l] \in Int
      BY <1>2, <2>1
    <3>2. ~ (Position[p] < Position[q])
      BY <1>1, <1>5, <2>7 DEF DirectlyBefore
    <3>3. CASE Position[q] = Position[p]
      BY <2>1, <3>3 DEF OrderInv
    <3>4. CASE Position[q] < Position[p]
      BY <2>2, <2>5, <2>6, <3>4 DEF CaughtUp
    <3> QED
      BY <3>1, <3>2, <3>3, <3>4
  <2> QED
    BY <2>7 DEF CaughtUp
<1> QED
  BY <1>3, <1>4, <1>5 DEF MayBeUnlocked

\* Appending takes nothing away: rows, listings and solved exercises stay, and a
\* new published lesson comes after all that are stored.
LEMMA AppendSteps ==
  ASSUME TypeOK, WritersAreIsolated, [Next]_vars, [AppendOnly]_vars
  PROVE  /\ UNCHANGED target
         /\ Present \subseteq Present'
         /\ \A k \in Keys : IsSolved(k) => IsSolved(k)'
         /\ \A q \in (Present' \cap Published) \ Present :
              \A p \in Present \cap Published : Position[p] < Position[q]
         /\ \A p, q \in (Present' \cap Published) \ Present : p = q
<1>1. ASSUME NEW r \in Requests, Commit(r), NEW k \in Keys, IsSolved(k)
      PROVE  IsSolved(k)'
  BY <1>1, CommitKeepsSolved
<1>2. ASSUME NEW l \in Lessons, Ingest(l)
      PROVE  /\ UNCHANGED target /\ Present' = Present \cup {l} /\ l \notin Present
             /\ \A k \in Keys : IsSolved(k) => IsSolved(k)'
             /\ l \in Published => \A p \in Present \cap Published : Position[p] < Position[l]
  <2>1. catalogue[l] = "absent" /\ catalogue'[l] = "present" /\ l \notin Present
    BY <1>2 DEF Ingest, Present, TypeOK
  <2>2. AppendOnly
    BY <2>1 DEF vars
  <2>3. Replaced(l) = {} /\ Gone(l) = {}
    BY <2>1, <2>2 DEF AppendOnly, Replaced, Gone
  <2>4. Present' = Present \cup {l}
    BY <1>2, <2>1, <2>3 DEF Ingest, Present, TypeOK
  <2>5. \A k \in Keys : progress'[k] = progress[k]
    BY <1>2, <2>3 DEF Ingest
  <2> QED
    BY <1>2, <2>1, <2>2, <2>4, <2>5 DEF Ingest, IsSolved, AppendOnly
<1>3. CASE UNCHANGED <<catalogue, progress, target>>
  BY <1>3 DEF Present, IsSolved
<1>4. ASSUME NEW r \in Requests, Commit(r)
      PROVE  UNCHANGED <<catalogue, target>>
  BY <1>4 DEF Commit
<1>5. CASE \E r \in Requests : Commit(r)
  BY <1>1, <1>4, <1>5 DEF Present
<1>6. CASE \E l \in Lessons : Ingest(l)
  BY <1>2, <1>6
<1> QED
  BY <1>3, <1>5, <1>6 DEF Next, Handle, Finished, vars, dbVars, Send, Begin, PoolTimeout,
     ListPublished, CountTotals, Admit, Refuse, CreatePending, Grade, ReadProgress, Flush,
     Reply, Raise, Crash

\* While the curriculum only grows at its end, whoever is caught up stays so.
LEMMA CaughtUpStays ==
  ASSUME TypeOK, WritersAreIsolated, [Next]_vars, [AppendOnly]_vars,
         NEW r \in Requests, Exists(Exercise(r)), LessonOf[Exercise(r)] \in Published, CaughtUp(r)
  PROVE  CaughtUp(r)'
<1>1. /\ UNCHANGED <<target, Exercise(r), User(r)>> /\ target[r] \in Keys /\ User(r) \in Users
  BY AppendSteps DEF TypeOK, Keys, User, Exercise
<1>2. SolvedBy(User(r)) \subseteq SolvedBy(User(r))'
  BY <1>1, AppendSteps DEF SolvedBy, Keys, IsSolved
<1> SUFFICES ASSUME NEW p \in Present' \cap Published, Position[p] < Position[LessonOf[Exercise(r)]]
             PROVE  ExercisesOf(p) \subseteq SolvedBy(User(r))'
  BY <1>1 DEF CaughtUp
<1>3. LessonOf[Exercise(r)] \in Present \cap Published
  BY DEF Exists
<1>4. Position[p] \in Int /\ Position[LessonOf[Exercise(r)]] \in Int
  BY <1>3 DEF Present
<1>5. p \in Present
  BY <1>3, <1>4, AppendSteps
<1> QED
  BY <1>2, <1>5 DEF CaughtUp

\* Being caught up is preserved: one step of the inductive argument for InOrder.
LEMMA OrderStep ==
  TypeOK /\ WritersAreIsolated /\ WritersAreIsolated' /\ AnswersInv /\ NoOrphanRows
    /\ SolvedIffPassed /\ OrderInv /\ [Next]_vars /\ [AppendOnly]_vars => OrderInv'
<1> SUFFICES ASSUME TypeOK, WritersAreIsolated, WritersAreIsolated', AnswersInv, NoOrphanRows,
                    SolvedIffPassed, OrderInv, [Next]_vars, [AppendOnly]_vars
             PROVE  OrderInv'
  OBVIOUS
<1> USE DEF Goto, dbVars, gateVars, TypeOK
<1>1. /\ UNCHANGED target /\ Present \subseteq Present'
      /\ \A r \in Requests : /\ UNCHANGED Exercise(r) /\ Exercise(r) \in Exercises
                             /\ Exists(Exercise(r)) => Exists(Exercise(r))'
  BY AppendSteps DEF Exercise, Exists, Keys
<1>2. \A l, m \in Present' \cap Published : Position[l] = Position[m] => l = m
  <2>1. \A l \in Present' : Position[l] \in Int
    BY DEF Present
  <2>2. \A l, m \in Present \cap Published : Position[l] = Position[m] => l = m
    BY DEF OrderInv
  <2> QED
    BY <2>1, <2>2, AppendSteps
<1> DEFINE Past(q) == pc[q] \in {"insert"} \cup Writing
           Began(q) == /\ listed[q] \subseteq Present \cap Published
                       /\ LessonOf[Exercise(q)] \in Published => LessonOf[Exercise(q)] \in listed[q]
                       /\ \A p \in listed[q], m \in Present \cap Published :
                            Position[m] < Position[p] => m \in listed[q]
\* What is a beginning of the list stays one.
<1>3. ASSUME NEW q \in Requests, Began(q), UNCHANGED listed[q]
      PROVE  Began(q)'
  <2>1. \A l \in Present' : Position[l] \in Int
    BY DEF Present
  <2>2. \A p \in listed[q], m \in Present' \cap Published : Position[m] < Position[p] => m \in Present
    BY <1>1, <1>3, <2>1, AppendSteps
  <2> QED
    BY <1>1, <1>3, <2>2
\* It is enough that a request gets to work only for a lesson that is stored, reads
\* what is stored, and goes past the gate, or gets a row, only when it is caught up.
<1>4. ASSUME \A q \in Requests :
               /\ pc'[q] \in Gating \cup Writing => Exists(Exercise(q))
               /\ pc'[q] \in {"totals", "solved"} => Began(q)'
               /\ pc'[q] = "solved" => \A l \in counted'[q] : ExercisesOf(l) # {}
               /\ LessonOf[Exercise(q)] \in Published /\ (Past(q)' \/ submission'[q] # NoRow)
                    => CaughtUp(q) /\ Exists(Exercise(q))
      PROVE  OrderInv'
  <2>1. \A q \in Requests : LessonOf[Exercise(q)] \in Published /\ (Past(q)' \/ submission'[q] # NoRow)
          => CaughtUp(q)'
    BY <1>4, CaughtUpStays
  <2> QED
    BY <1>1, <1>2, <1>4, <2>1 DEF OrderInv
\* What holds now of a request that does not move.
<1>5. ASSUME NEW q \in Requests
      PROVE  /\ pc[q] \in Gating \cup Writing => Exists(Exercise(q))
             /\ pc[q] \in {"totals", "solved"} => Began(q)
             /\ pc[q] = "solved" => \A l \in counted[q] : ExercisesOf(l) # {}
             /\ LessonOf[Exercise(q)] \in Published /\ (Past(q) \/ submission[q] # NoRow)
                  => CaughtUp(q) /\ Exists(Exercise(q))
  BY DEF OrderInv, NoOrphanRows, Gating
<1>6. ASSUME NEW r \in Requests, ListPublished(r) PROVE OrderInv'
  <2>1. /\ UNCHANGED <<catalogue, submission, counted>>
        /\ listed' = [listed EXCEPT ![r] = Present \cap Published]
        /\ pc[r] = "listing" /\ pc' = [pc EXCEPT ![r] = "totals"]
    BY <1>6 DEF ListPublished
  <2>2. Began(r)'
    BY <1>1, <1>5, <2>1 DEF Present, Exists, Gating
  <2>3. \A q \in Requests \ {r} : UNCHANGED <<pc[q], listed[q]>>
    BY <2>1
  <2> QED
    BY <1>3, <1>4, <1>5, <2>1, <2>2, <2>3 DEF Gating, Writing
<1>7. ASSUME NEW r \in Requests, CountTotals(r) PROVE OrderInv'
  BY <1>3, <1>4, <1>5, <1>7 DEF CountTotals, Gating, Writing
<1>8. ASSUME NEW r \in Requests, Admit(r) PROVE OrderInv'
  <2>1. LessonOf[Exercise(r)] \in Published => CaughtUp(r)
    BY <1>8, GateCatchesUp
  <2>2. /\ UNCHANGED <<submission, listed, counted>> /\ pc[r] = "solved"
        /\ pc' = [pc EXCEPT ![r] = "insert"]
    BY <1>8 DEF Admit
  <2> QED
    BY <1>3, <1>4, <1>5, <2>1, <2>2 DEF Gating, Writing
<1>9. ASSUME NEW r \in Requests, Commit(r) PROVE OrderInv'
  BY <1>3, <1>4, <1>5, <1>9 DEF Commit, Gating, Writing
<1>10. ASSUME NEW r \in Requests,
              Send(r) \/ Begin(r) \/ PoolTimeout(r) \/ Refuse(r) \/ CreatePending(r)
                \/ Grade(r) \/ ReadProgress(r) \/ Flush(r) \/ Reply(r) \/ Raise(r)
       PROVE  OrderInv'
  <2>1. /\ UNCHANGED <<submission, listed, counted>> /\ pc' = [pc EXCEPT ![r] = pc'[r]]
        /\ Past(r)' => Past(r)
        /\ pc'[r] \notin {"totals", "solved"}
        /\ pc'[r] \in Gating \cup Writing => pc[r] \in Gating \cup Writing \/ Exists(Exercise(r))
    BY <1>10 DEF Send, Begin, PoolTimeout, Refuse, CreatePending, Grade, ReadProgress, Flush, Reply,
       Raise, InFlight, Gating, Writing, Counted, Infrastructure
  <2> QED
    BY <1>3, <1>4, <1>5, <2>1
<1>11. CASE Crash
  BY <1>3, <1>4, <1>5, <1>11 DEF Crash, InFlight, Gating, Writing
<1>12. ASSUME NEW l \in Lessons, Ingest(l) PROVE OrderInv'
  <2>1. /\ UNCHANGED <<pc, listed, counted>>
        /\ \A r \in Requests : submission'[r] # NoRow => submission[r] # NoRow
    BY <1>12 DEF Ingest
  <2> QED
    BY <1>3, <1>4, <1>5, <2>1
<1>13. CASE UNCHANGED vars
  BY <1>3, <1>4, <1>5, <1>13 DEF vars
<1> QED
  BY <1>6, <1>7, <1>8, <1>9, <1>10, <1>11, <1>12, <1>13 DEF Next, Handle, Finished

\* A curriculum with distinct positions that only grows at its end is worked
\* through in order, even by requests that overlap its growing.
THEOREM InOrder ==
  ASSUME DistinctPositions
  PROVE  Spec /\ [][AppendOnly]_vars => []LessonsInOrder
<1>1. Init => OrderInv
  BY DEF Init, OrderInv, Present, DistinctPositions, Gating, Writing
<1>2. TypeOK /\ WritersAreIsolated /\ WritersAreIsolated' /\ AnswersInv /\ NoOrphanRows
        /\ SolvedIffPassed /\ OrderInv /\ [Next]_vars /\ [AppendOnly]_vars => OrderInv'
  BY OrderStep
<1>3. OrderInv => LessonsInOrder
  BY DEF OrderInv, LessonsInOrder, CaughtUp
<1> QED
  BY <1>1, <1>2, <1>3, TypeCorrect, Isolation, AnswersInvariant, Solved, NoOrphans, PTL DEF Spec

\* In particular without any ingestion.
COROLLARY InOrderWithoutIngestion ==
  ASSUME InitialLessons = Lessons, DistinctPositions
  PROVE  Spec => []LessonsInOrder
<1> DEFINE NothingAbsent == \A l \in Lessons : catalogue[l] # "absent"
<1>1. Init => NothingAbsent
  BY DEF Init
<1>2. NothingAbsent /\ [Next]_vars => NothingAbsent'
  <2> SUFFICES ASSUME NothingAbsent, [Next]_vars PROVE UNCHANGED catalogue
    OBVIOUS
  <2>1. ASSUME NEW l \in Lessons PROVE ~ Ingest(l)
    BY DEF Ingest
  <2> QED
    BY <2>1 DEF Next, Handle, Finished, vars, dbVars, Send, Begin, PoolTimeout, ListPublished,
       CountTotals, Admit, Refuse, CreatePending, Grade, ReadProgress, Flush, Commit, Reply, Raise,
       Crash
<1>3. NothingAbsent => AppendOnly
  BY DEF AppendOnly
<1> QED
  BY <1>1, <1>2, <1>3, InOrder, PTL DEF Spec
=============================================================================
