------------------------------ MODULE Grading -------------------------------
(***************************************************************************)
(* The grading flow of the API: POST /api/submissions as a program of      *)
(* awaits, many of them interleaved by the event loop over one Postgres    *)
(* database, with lesson re-ingestion (seed.py) running beside them.       *)
(*                                                                         *)
(* A request is one transaction under READ COMMITTED: each of its          *)
(* statements reads the rows committed when the statement runs, its writes *)
(* become visible when the route commits, and closing the session without  *)
(* a commit rolls them back.  `progress' and `submission' are the          *)
(* committed rows; what a request has read or written but not committed is *)
(* in the variables indexed by requests.  A submission row is named by the *)
(* request that inserts it.                                                *)
(***************************************************************************)
EXTENDS Curriculum, FiniteSets

CONSTANTS
  Users,
  Requests,        \* the POSTs clients ever send, each answered at most once
  Targets,         \* the <<user, exercise>> pairs they are sent for
  InitialLessons,  \* the lesson rows stored at the start
  PoolSize,        \* connections the engine's pool may open
  NoRow            \* "no such row" in the database

Keys == Users \X Exercises

Counted == {"passed", "failed"}          \* runner_error is empty
Infrastructure == {"error", "timeout"}   \* runner_error is set
Statuses == {"pending"} \cup Counted \cup Infrastructure

\* solved_at is modelled by the request whose grade set it.
ProgressRow ==
  [attempts : Nat, is_solved : BOOLEAN, solved_at : Requests \cup {NoRow},
   last_submission_id : Requests]

ASSUME GradingAssumption ==
  /\ Targets \subseteq Keys
  /\ InitialLessons \subseteq Lessons
  /\ \A l, m \in InitialLessons : Slug[l] = Slug[m] => l = m
  /\ IsFiniteSet(Requests)
  /\ PoolSize \in Nat \ {0}
  /\ NoRow \notin Requests \cup Statuses
  /\ NoRow \notin ProgressRow

VARIABLES
  catalogue,   \* lesson row -> "absent", "present" or "deleted"
  progress,    \* <<user, exercise>> -> the committed progress row, or NoRow
  submission,  \* request -> status of the committed submission row, or NoRow
  pc,          \* request -> where its handler stands, or how it ended
  target,      \* request -> the authenticated user and the exercise of the body
  listed,      \* request -> published lessons, as the gate's 1st query saw them
  counted,     \* request -> lessons with exercises, as its 2nd query saw them
  status,      \* request -> status of its own, uncommitted submission row
  row          \* request -> the progress row record_attempt read, or NoRow

gateVars == <<listed, counted>>
dbVars == <<catalogue, progress, submission>>
vars == <<catalogue, progress, submission, pc, target, listed, counted, status, row>>

-----------------------------------------------------------------------------
(* Rows *)

NewRow == [attempts |-> 0, is_solved |-> FALSE, solved_at |-> NoRow]

Present == {l \in Lessons : catalogue[l] = "present"}
Exists(e) == LessonOf[e] \in Present

User(r) == target[r][1]
Exercise(r) == target[r][2]

IsSolved(k) == progress[k] # NoRow /\ progress[k].is_solved
SolvedBy(u) == {e \in Exercises : IsSolved(<<u, e>>)}

(* Where a handler can stand *)
Gating == {"listing", "totals", "solved", "insert"}
Writing == {"running", "read", "flush", "commit"}   \* holds FOR KEY SHARE locks
InFlight == {"queued", "reply"} \cup Gating \cup Writing
Ended == {"200", "403", "404", "500", "conflict", "lost"}
Connected == {r \in Requests : pc[r] \in (InFlight \ {"queued"})}

Goto(r, next) == pc' = [pc EXCEPT ![r] = next]

Init ==
  /\ catalogue = [l \in Lessons |-> IF l \in InitialLessons THEN "present" ELSE "absent"]
  /\ progress = [k \in Keys |-> NoRow]
  /\ submission = [r \in Requests |-> NoRow]
  /\ pc = [r \in Requests |-> "idle"]
  /\ target \in [Requests -> Targets]
  /\ listed = [r \in Requests |-> {}]
  /\ counted = [r \in Requests |-> {}]
  /\ status = [r \in Requests |-> "pending"]
  /\ row = [r \in Requests |-> NoRow]

-----------------------------------------------------------------------------
(* Arrival *)

\* A client sends the request.
Send(r) ==
  /\ pc[r] = "idle"
  /\ Goto(r, "queued")
  /\ UNCHANGED <<dbVars, target, gateVars, status, row>>

\* The first statement takes a connection, which the session keeps until the
\* request ends; get_exercise answers 404 for an exercise that is not stored.
Begin(r) ==
  /\ pc[r] = "queued"
  /\ Cardinality(Connected) < PoolSize
  /\ Goto(r, IF Exists(Exercise(r)) THEN "listing" ELSE "404")
  /\ UNCHANGED <<dbVars, target, gateVars, status, row>>

\* Every connection stayed taken for the pool's timeout.
PoolTimeout(r) ==
  /\ pc[r] = "queued"
  /\ Cardinality(Connected) >= PoolSize
  /\ Goto(r, "500")
  /\ UNCHANGED <<dbVars, target, gateVars, status, row>>

-----------------------------------------------------------------------------
(* The gate: get_lesson_states is three statements, each with its own view *)

ListPublished(r) ==
  /\ pc[r] = "listing"
  /\ listed' = [listed EXCEPT ![r] = Present \cap Published]
  /\ Goto(r, "totals")
  /\ UNCHANGED <<dbVars, target, counted, status, row>>

CountTotals(r) ==
  /\ pc[r] = "totals"
  /\ counted' = [counted EXCEPT ![r] = {l \in Present : ExercisesOf(l) # {}}]
  /\ Goto(r, "solved")
  /\ UNCHANGED <<dbVars, target, listed, status, row>>

\* A faulty variant: the solved exercises of every user count.
Completed_AnyUser(r) ==
  LET done == {e \in Exercises : \E u \in Users : IsSolved(<<u, e>>)}
  IN {l \in listed[r] : IsCompleted(l, counted[r], done)}

Completed(r) == {l \in listed[r] : IsCompleted(l, counted[r], SolvedBy(User(r)))}

\* A lesson that is not among the published ones is treated as unlocked.
Admit(r) ==
  /\ pc[r] = "solved"
  /\ LET l == LessonOf[Exercise(r)] IN
       l \in listed[r] => MayBeUnlocked(l, listed[r], Completed(r))
  /\ Goto(r, "insert")
  /\ UNCHANGED <<dbVars, target, gateVars, status, row>>

Refuse(r) ==
  /\ pc[r] = "solved"
  /\ LET l == LessonOf[Exercise(r)] IN
       l \in listed[r] /\ MayBeLocked(l, listed[r], Completed(r))
  /\ Goto(r, "403")
  /\ UNCHANGED <<dbVars, target, gateVars, status, row>>

-----------------------------------------------------------------------------
(* Grading and recording *)

\* Faulty variants, for showing that the properties notice: no foreign key; a
\* handler that goes straight to its answer; writers that do not wait, or that
\* wait for each other's reads.
CreatePending_Unchecked(r) ==
  /\ pc[r] = "insert"
  /\ Goto(r, "running")
  /\ UNCHANGED <<dbVars, target, gateVars, status, row>>

Commit_Forgotten(r) ==
  /\ pc[r] = "commit"
  /\ Goto(r, "reply")
  /\ UNCHANGED <<dbVars, target, gateVars, status, row>>

HoldsRow_AnyVerdict(r) == pc[r] = "commit"

\* The INSERT checks its foreign keys: it fails when the exercise was deleted
\* since the request looked it up, else it keeps the row from being deleted.
CreatePending(r) ==
  /\ pc[r] = "insert"
  /\ Goto(r, IF Exists(Exercise(r)) THEN "running" ELSE "500")
  /\ UNCHANGED <<dbVars, target, gateVars, status, row>>

\* The sandbox returns; the row is finalized inside the transaction.  A run with
\* a runner error is not counted as an attempt.
Grade(r) ==
  /\ pc[r] = "running"
  /\ \E s \in Counted \cup Infrastructure :
       /\ status' = [status EXCEPT ![r] = s]
       /\ Goto(r, IF s \in Counted THEN "read" ELSE "commit")
  /\ UNCHANGED <<dbVars, target, gateVars, row>>

\* record_attempt reads the progress row...
ReadProgress(r) ==
  /\ pc[r] = "read"
  /\ row' = [row EXCEPT ![r] = progress[target[r]]]
  /\ Goto(r, "flush")
  /\ UNCHANGED <<dbVars, target, gateVars, status>>

\* The row lock of an UPDATE, or the unique key an INSERT has taken.
HoldsRow(r) == pc[r] = "commit" /\ status[r] \in Counted

Flush_NoWait(r) ==
  /\ pc[r] = "flush"
  /\ Goto(r, IF row[r] = NoRow /\ progress[target[r]] # NoRow THEN "conflict" ELSE "commit")
  /\ UNCHANGED <<dbVars, target, gateVars, status, row>>

Flush_WaitsForReaders(r) ==
  /\ pc[r] = "flush"
  /\ ~ \E s \in Requests \ {r} : target[s] = target[r] /\ pc[s] \in {"flush", "commit"}
  /\ Goto(r, IF row[r] = NoRow /\ progress[target[r]] # NoRow THEN "conflict" ELSE "commit")
  /\ UNCHANGED <<dbVars, target, gateVars, status, row>>

\* ... and writes it back.  Both statements wait for a transaction that wrote
\* the same row; an INSERT that finds the key committed meanwhile raises.
Flush(r) ==
  /\ pc[r] = "flush"
  /\ ~ \E s \in Requests : target[s] = target[r] /\ HoldsRow(s)
  /\ Goto(r, IF row[r] = NoRow /\ progress[target[r]] # NoRow THEN "conflict" ELSE "commit")
  /\ UNCHANGED <<dbVars, target, gateVars, status, row>>

OrNew(stored) == IF stored = NoRow THEN NewRow ELSE stored

Solves_AnyVerdict(r) == ~ OrNew(row[r]).is_solved

\* A pass solves the exercise, unless the row that was read says it is solved.
Solves(r) == status[r] = "passed" /\ ~ OrNew(row[r]).is_solved

\* A faulty variant: every column is written back as it was read.
Recorded_AllColumns(r) ==
  LET read == OrNew(row[r])
  IN [attempts           |-> read.attempts + 1,
      last_submission_id |-> r,
      is_solved          |-> Solves(r) \/ read.is_solved,
      solved_at          |-> IF Solves(r) THEN r ELSE read.solved_at]

\* The row as record_attempt leaves it: the counter comes from the row that was
\* read, and the UPDATE names only the columns that were assigned, so the
\* others keep what is stored now.
Recorded(r) ==
  LET stored == OrNew(progress[target[r]])
  IN [attempts           |-> OrNew(row[r]).attempts + 1,
      last_submission_id |-> r,
      is_solved          |-> Solves(r) \/ stored.is_solved,
      solved_at          |-> IF Solves(r) THEN r ELSE stored.solved_at]

Commit(r) ==
  /\ pc[r] = "commit"
  /\ submission' = [submission EXCEPT ![r] = status[r]]
  /\ progress' = IF HoldsRow(r) THEN [progress EXCEPT ![target[r]] = Recorded(r)]
                                ELSE progress
  /\ Goto(r, "reply")
  /\ UNCHANGED <<catalogue, target, gateVars, status, row>>

Reply(r) ==
  /\ pc[r] = "reply"
  /\ Goto(r, "200")
  /\ UNCHANGED <<dbVars, target, gateVars, status, row>>

-----------------------------------------------------------------------------
(* What goes wrong, and what runs beside the requests *)

\* A statement, the sandbox client or the response raises: 500, and the session
\* is closed without a commit.
Raise(r) ==
  /\ pc[r] \in InFlight \ {"queued"}
  /\ Goto(r, "500")
  /\ UNCHANGED <<dbVars, target, gateVars, status, row>>

\* The API process dies and is restarted; Postgres rolls back what was open.
Crash ==
  /\ \E r \in Requests : pc[r] \in InFlight
  /\ pc' = [r \in Requests |-> IF pc[r] \in InFlight THEN "lost" ELSE pc[r]]
  /\ UNCHANGED <<dbVars, target, gateVars, status, row>>

\* seed.py stores a new version of a lesson: the old row of the slug is deleted,
\* with its exercises, submissions and progress by cascade.  The delete waits
\* for transactions that hold a lock on one of those exercises.
Replaced(l) == {m \in Present : Slug[m] = Slug[l]}
Gone(l) == {e \in Exercises : LessonOf[e] \in Replaced(l)}

Ingest(l) ==
  /\ catalogue[l] = "absent"
  /\ \A r \in Requests : pc[r] \in Writing => Exercise(r) \notin Gone(l)
  /\ catalogue' = [m \in Lessons |-> IF m = l THEN "present"
                                     ELSE IF m \in Replaced(l) THEN "deleted"
                                     ELSE catalogue[m]]
  /\ progress' = [k \in Keys |-> IF k[2] \in Gone(l) THEN NoRow ELSE progress[k]]
  /\ submission' = [r \in Requests |->
       IF Exercise(r) \in Gone(l) THEN NoRow ELSE submission[r]]
  /\ UNCHANGED <<pc, target, gateVars, status, row>>

\* Every request is over: nothing is left to do.
Finished ==
  /\ \A r \in Requests : pc[r] \in Ended
  /\ UNCHANGED vars

Handle(r) ==
  \/ Begin(r) \/ PoolTimeout(r)
  \/ ListPublished(r) \/ CountTotals(r) \/ Admit(r) \/ Refuse(r)
  \/ CreatePending(r) \/ Grade(r) \/ ReadProgress(r) \/ Flush(r) \/ Commit(r) \/ Reply(r)

Next ==
  \/ \E r \in Requests : Send(r) \/ Handle(r) \/ Raise(r)
  \/ Crash
  \/ \E l \in Lessons : Ingest(l)
  \/ Finished

Spec == Init /\ [][Next]_vars

\* The event loop resumes every handler whose await is over; a connection is
\* waited for at most the pool's timeout, a lock as long as another handler takes
\* to commit, and the sandbox at most the wall-clock limit, provided that the
\* docker daemon answers its `docker rm', for which there is no limit: this is
\* what Sandbox's EveryCallReturns says under DaemonAnswers.
Fairness == \A r \in Requests : WF_vars(Handle(r))
FairSpec == Spec /\ Fairness

-----------------------------------------------------------------------------
(* Correctness *)

TypeOK ==
  /\ catalogue \in [Lessons -> {"absent", "present", "deleted"}]
  /\ progress \in [Keys -> ProgressRow \cup {NoRow}]
  /\ submission \in [Requests -> Statuses \cup {NoRow}]
  /\ pc \in [Requests -> {"idle"} \cup InFlight \cup Ended]
  /\ target \in [Requests -> Targets]
  /\ listed \in [Requests -> SUBSET Lessons]
  /\ counted \in [Requests -> SUBSET Lessons]
  /\ status \in [Requests -> Statuses]
  /\ row \in [Requests -> ProgressRow \cup {NoRow}]

CountedFor(k) == {r \in Requests : target[r] = k /\ submission[r] \in Counted}
PassedFor(k) == {r \in Requests : target[r] = k /\ submission[r] = "passed"}

\* The progress row and the submission log never disagree on what is solved:
\* an exercise is solved for a user exactly when one of the user's submissions
\* for it passed, however grading requests interleave, fail or are cut off
\* between reading the progress row and committing it.
SolvedIffPassed == \A k \in Keys : IsSolved(k) <=> PassedFor(k) # {}

\* Infrastructure failures never create or bump a progress row and a graded
\* attempt always leaves one, in the same commit as its submission; the counter
\* may fall behind the submissions it counts but never runs ahead of them.
AttemptsNeverRunAhead == \A k \in Keys :
  IF progress[k] = NoRow
    THEN CountedFor(k) = {}
    ELSE progress[k].attempts \in 1 .. Cardinality(CountedFor(k))

\* The references of a progress row point at rows that are still stored and
\* belong to the same user and exercise: the last counted submission, and as the
\* origin of solved_at one that passed.
ReferencesAreOwn == \A k \in Keys : progress[k] # NoRow =>
  /\ progress[k].last_submission_id \in CountedFor(k)
  /\ IF progress[k].is_solved THEN progress[k].solved_at \in PassedFor(k)
                              ELSE progress[k].solved_at = NoRow

\* Re-ingesting a lesson leaves nothing behind: every committed submission and
\* progress row, and every row a running request has inserted, is for an
\* exercise that is stored.
NoOrphanRows ==
  /\ \A k \in Keys : progress[k] # NoRow => Exists(k[2])
  /\ \A r \in Requests : submission[r] # NoRow \/ pc[r] \in Writing => Exists(Exercise(r))

\* What the answer of a request says about the database: 403, 404 and the
\* failures of record_attempt leave no trace, 200 means the verdict was stored,
\* and no stored verdict is still pending.
AnswersMatchRows == \A r \in Requests :
  /\ pc[r] \in {"403", "404", "conflict"} => submission[r] = NoRow
  /\ pc[r] = "200" /\ submission[r] = NoRow => ~ Exists(Exercise(r))
  /\ submission[r] \in {NoRow, status[r]} \ {"pending"}

\* The gate looks only at the lesson directly before the submitted one, in three
\* reads at different times; still nobody gets ahead.  With distinct positions
\* and no re-ingestion, a stored submission for a published lesson means that
\* its user has solved every exercise of every published lesson before it.
LessonsInOrder == \A r \in Requests :
  LET l == LessonOf[Exercise(r)] IN
    submission[r] # NoRow /\ l \in Published =>
      \A p \in Present \cap Published :
        Position[p] < Position[l] => ExercisesOf(p) \subseteq SolvedBy(User(r))

\* What lets handlers that read a row early write it late: nobody deletes an
\* exercise a handler is writing for, two handlers never hold the same progress
\* row, the holder of a row it means to insert is alone with the key, and what a
\* handler read as present or solved still is.
WritersAreIsolated == \A r \in Requests :
  /\ pc[r] \in Writing => Exists(Exercise(r))
  /\ HoldsRow(r) => \A s \in Requests : HoldsRow(s) /\ target[s] = target[r] => s = r
  /\ HoldsRow(r) /\ row[r] = NoRow => progress[target[r]] = NoRow
  /\ pc[r] = "flush" \/ HoldsRow(r) =>
       /\ row[r] # NoRow => progress[target[r]] # NoRow
       /\ row[r] # NoRow /\ row[r].is_solved => IsSolved(target[r])

\* A solve sticks: no later failure, race or crash un-solves an exercise.  Only
\* re-ingesting its lesson does, because the exercise itself is then gone.
SolveSticks == [][\A k \in Keys : IsSolved(k) => IsSolved(k)' \/ ~ Exists(k[2])']_vars

\* Every request that was sent is answered, or lost to a crash: no handler waits
\* for ever for a connection or another handler's row lock, nor for the sandbox,
\* as long as the docker daemon answers.
EveryRequestEnds == \A r \in Requests : pc[r] = "queued" ~> pc[r] \in Ended

\* Handlers, transactions, locks, crashes and re-ingestion together implement
\* the ledger: each of their steps is one step of it, or none.
LedgerLog == [r \in Requests |->
  IF submission[r] = NoRow THEN NoRow
  ELSE [key |-> target[r], status |-> submission[r]]]
LedgerSolved == {k \in Keys : IsSolved(k)}

Abstract == INSTANCE Ledger WITH log <- LedgerLog, solved <- LedgerSolved
ImplementsLedger == Abstract!Spec

\* To readers the same handlers are learners: a submission is admitted from its
\* gate until its commit, and stops being so when it fails.  No interleaving,
\* failure or re-ingestion does to the database what Learning does not.
Admitted ==
  {target[r] : r \in {s \in Requests : /\ pc[s] \in {"insert"} \cup Writing
                                      /\ Exists(Exercise(s))}} \ LedgerSolved

Learners == INSTANCE Learning WITH solved <- LedgerSolved, admitted <- Admitted
ImplementsLearning == Learners!LearningSpec

-----------------------------------------------------------------------------
(* What a comment says, and the code does not keep *)

\* "Upsert progress after a graded attempt": recording an attempt succeeds
\* whether or not there is a row.  Two overlapping first attempts both insert.
UpsertSucceeds == \A r \in Requests : pc[r] # "conflict"
=============================================================================
