# python-coach in TLA+

python-coach is a web platform for learning Python: a learner reads a lesson,
submits code for an exercise, the API runs the exercise's pytest tests against it
in a throw-away Docker container, and stores the verdict and the learner's
progress. Lessons unlock one after the other. This directory holds the
specification of the parts of it that are hard to get right, the TLC models that
check them, and the TLAPS proofs.

`API` below stands for `src/services/api/src/python_coach`.

## Inventory

| Component | State it keeps | Operations | Hard behaviour |
|---|---|---|---|
| Grading requests (`API/controllers/submissions.py`, `API/transport/rest/submissions`, `API/storage/_submissions.py`, `_progress.py`) | submission and progress rows; per request a session, i.e. one transaction on one pooled connection | POST /api/submissions: look up, gate, insert pending, run the sandbox, finalize, record the attempt, commit | many handlers interleave at every await over READ COMMITTED rows; read-modify-write of the progress row; failure or crash between insert and commit; a connection is held while the sandbox runs |
| Sequential unlock (`API/controllers/lessons.py`, `API/storage/_lessons.py`) | none: derived from lessons, exercises and progress | `get_lesson_states` and the fold `_compute_states` | three statements at three moments; ties in `position`; lessons without exercises |
| Lesson ingestion (`API/seed.py`) | lesson, exercise and test rows | delete a slug's lesson with everything below it, insert the new version | runs beside submissions for the exercises it deletes |
| Sandbox client (`API/clients/sandbox.py`) | a CLI process, a container, a staging directory per call | spawn, wait with a limit, remove by name, kill, reap, clean up | the CLI, the daemon and the submitted program are processes of their own; the limit passes at any point; awaits raise |
| Runner and verdict (`src/services/sandbox/runner/run_tests.py`, `_parse`, `_status_from_result`) | collected results, one payload | collect reports, print the payload, parse, classify | results and pass mark come from different reports; the submitted code runs in the runner's process and can end it, end the session or print what it likes; the run is cut off anywhere |
| Read side (`get_lesson`, `list_published_lessons`, `get_profile`, `get_exercise_solution`, `list_progress`) | none: per request a session and what its statements have returned | GETs | views assembled from up to seven statements, each at a moment of its own, while grading and ingestion run; a gate computed from some of them |
| Accounts (`API/controllers/auth.py`, `security.py`, `API/storage/_users.py`, `API/clients/email.py`) | user rows; signed tokens, stored nowhere | register, confirm, login, resolve the current user | concurrent registration; mail sent before the commit; expiry and purposes of tokens |
| Browser application (`src/services/api/static/*.js`) | token, route, lesson list, solved flags, cached profile | routing, submitting, logging in and out | answers that arrive after a logout or a route change; caches that outlive what they show |
| Provisioning (`src/services/api/docker-entrypoint.sh`, `API/seed.py`) | the lesson table | migrate, count, seed file by file when nothing is stored, serve | a stop or a failure in the middle of seeding; two containers that migrate or seed at once |
| Schema migrations (`API/migrations`) | the revision and the rows of every table | `alembic upgrade head`, `downgrade -1` | prose moves between columns and tables; constraints that come back over rows that break them; two upgrades at once |
| AI tutor (`API/controllers/ai.py`, `API/clients/llm.py`) | none | look up, gate, one HTTP call | keeps its pooled connection while the model thinks |
| Settings, application assembly, languages, theme | configuration and presentation | - | none of its own |

How they interact. A browser sends a request with a bearer token; the API resolves
the user and runs the handler as a coroutine over its own session. The grading
handler calls the unlock fold, the submission and progress tables and, in between,
the sandbox client, which starts the docker CLI; the CLI asks the daemon for a
container; in it the runner drives pytest and prints one payload, which travels
back through the CLI's output. Ingestion and the API share nothing but the
database. The event loop is single-threaded: steps of handlers interleave only
at awaits, which is where every action of `Grading` begins and ends.

What makes each part correct:

- grading: progress rows and submissions agree on what is solved, a solve is never
  lost, failures leave no trace, every request ends;
- unlock: nobody gets ahead of the curriculum;
- ingestion: nothing is left behind, nothing else is lost;
- sandbox: a call ends if the daemon answers, leaves no container, and reports only
  verdicts of runs that ended;
- verdict: passes are earned, failures have a reason, runs that were killed or timed
  out do not count;
- read side: what a view claims lies between the moment it was asked for and now,
  what is open to submissions is not locked for reading, a solution is shown only to
  who solved the exercise, every lesson can be reached;
- accounts: at most one account per address, no session without a
  confirmed address, a token serves only its purpose;
- browser: one section at a time, never a blank page with nothing on its way, a way
  in and a way out, no mark or completion that nobody earned;
- provisioning: nobody serves on a schema that is not at the head, no text is lost in
  migrations, what is seeded is complete, a deployment takes nothing away and whoever is
  started again serves in the end.

## Modules

| Module | What it is |
|---|---|
| `Curriculum` | lesson and exercise rows as constants, completion and the unlock rule |
| `Grading` | requests, transactions, locks, pool, crash and ingestion; extends `Curriculum` |
| `Ledger` | what grading promises, in two actions; `Grading` implements it |
| `Learning` | what a reader can tell of grading: who has passed a gate, who has solved what, what an ingestion takes away; extends `Curriculum`; `Grading` implements it too |
| `GradingProofs` | the theorems about `Grading` |
| `Site` | the readers of `Reads` beside the handlers of `Grading`, on one database |
| `LearningProofs` | `Grading` implements `Learning`, `Site` implements `Reads`, and what follows for readers beside handlers |
| `Sandbox` | calls of `_docker_run` against the CLI, the daemon and the program |
| `SandboxProofs` | the theorems about `Sandbox` |
| `Verdict` | from pytest's reports to the status of a submission |
| `VerdictProofs` | the theorems about `Verdict` |
| `Reads` | lesson list, profile, lesson, solution, progress and tutor, statement by statement, beside learners and ingestion; extends `Learning` |
| `ReadsProofs` | the theorems about `Reads` |
| `Schema` | the revisions of the database and what each migration makes of the rows |
| `Provision` | containers that migrate, seed and serve, with stops and rollbacks; extends `Schema` |
| `ProvisionProofs` | the theorems about `Provision` and the migrations |
| `Auth` | registration, confirmation, login and tokens |
| `Registry` | what accounts promise: the way of a person from nobody to registered to confirmed; `Auth` implements it |
| `AuthProofs` | the theorems about `Auth` |
| `Browser` | one tab: router, login, lists, checks and their late answers |
| `BrowserProofs` | the theorems about `Browser` |
| `MCGrading`, `MCSandbox`, `MCVerdict`, `MCReads`, `MCProvision`, `MCAuth`, `MCBrowser` | the small instances TLC checks |

### Grading and Curriculum

The committed database is `catalogue` (which lesson rows are stored), `progress` and
`submission`. Everything else is indexed by request: `pc`, where its handler stands
or how it ended; `listed` and `counted`, what the first two statements of the gate
returned; `status`, of the row it has inserted and not committed; `row`, the progress
row `record_attempt` has read. A request's writes are kept out of the committed
variables until `Commit`, and dropped by every other way of ending, which is what
closing an uncommitted session does.

| Action | Code |
|---|---|
| `Send`, `Begin`, `PoolTimeout` | the request arrives, takes its connection (or waits until the pool gives up), `get_exercise` |
| `ListPublished`, `CountTotals`, `Admit`, `Refuse` | `get_lesson_states`: one statement each, the decision is taken with the third |
| `CreatePending` | `create_pending_submission`: fails on its foreign key when the exercise is gone, else locks the exercise against deletion |
| `Grade` | `sandbox.run` returns, `finalize_submission`; a runner error skips the attempt |
| `ReadProgress`, `Flush` | `record_attempt`: the SELECT, and the INSERT or UPDATE with its wait for other writers and the unique key |
| `Commit`, `Reply` | the route's commit and its answer |
| `Raise`, `Crash` | an exception anywhere: 500 and rollback; the process dies |
| `Ingest(l)` | `seed._ingest`, one transaction: the old row of the slug goes with its exercises, submissions and progress; it waits for lock holders |

Three points of PostgreSQL and SQLAlchemy decide what is true, and the model has them
as they are: READ COMMITTED statements see what is committed when they run; a
writer waits for the transaction that wrote the same row or inserted the same key;
and an UPDATE names only the columns the handler assigned, which is why a stale
read loses an increment of `attempts` but never un-solves an exercise. A value of
`Lessons` or `Exercises` is a row, not a slug: a new version of a lesson is another
value, because its rows have new ids. `solved_at` is the request whose grade set
it. Text, code, locales and test files are data no property looks at.

`Grading` implements two abstract specifications. `Ledger` is what it promises to whoever
counts: a grade is recorded in one step, or not at all. `Learning` is what it promises to whoever
reads: `solved` are the solved progress rows, `admitted` the targets of requests between
their gate and their commit (`Admitted`).

ORDER BY position leaves the order of ties open; `MayBeUnlocked` and `MayBeLocked`
can then both hold, and the model takes either.

### Sandbox

A call is its coroutine (`pc`, `outcome`), its CLI process (`cli`), what the daemon
has been asked and has not done (`requested`) and its container. `Spawn`,
`SpawnFails`, `Communicate`, `Timeout`, `RemoveTimedOut`, `Kill`, `Reap`, `Cleanup`
are the statements of `_docker_run`; `Interrupt`, `InterruptCleanup` and
`RemoveFails` are its exceptions; `AskCreate`, `AskStart`, `GiveUp`, `Detach`,
`Create`, `Start` are the CLI and the daemon, modelled from how the code uses them
(external); `Finish` is the submitted program, which may never happen. Three sets
of calls describe the surroundings: for a call in `Slow` the daemon may answer a rm
before it has acted on an earlier create; the awaits of one in `Interrupted` may
raise; the removal of one in `Unremoved` may fail. A call in none of them is `Calm`.
The promise about containers is made for calm calls, whatever happens to others
beside them.

`printed` says that the output holds a pair of markers; whose, and what is between them,
is the subject of `Verdict`. `Communicate` therefore ends in a verdict, a runner error
(an invalid or a failed payload) or an exception of `_parse`.

### Verdict

`RunPhase` makes pytest's report of one phase of one test and hands it to the
collector, as `pytest_runtest_logreport` filters and labels it. `ending` is how the
session came to an end:

| `ending` | Action | What happens |
|---|---|---|
| `complete` | `EndSession`, `Collect` | all tests are done, or none was found; the exit code depends on the reports |
| `interrupted` | `Interrupt`, `CollectFails` | `KeyboardInterrupt`, `pytest.exit` or a file that cannot be loaded: `pytest.main` returns early with a code other than 0, and `main` prints what was collected so far |
| `exit 0` | `Interrupt` | the same, and the program has asked for exit code 0 |
| `killed` | `Killed` | out of memory, or the interpreter is ended: the runner prints no payload |
| `timeout` | `TimedOut` | the wall-clock limit: whatever was printed is dropped |

`output` is what stands between the first markers in the CLI's output. It need not be what
the runner has printed: the submitted code may have printed markers, or pytest's report may
quote them (`PrintsItself`, also before the process is killed). It is then no JSON (`garbled`), JSON
of another shape (`misshapen`, with which `_parse` raises: `ParseRaises`), or a payload of the
program's own (`foreign`), with any pass mark and results. `Parse` and `Grade` are `_parse` and
`_status_from_result`.

What a verdict promises is an equivalence, where the payload is the runner's own: a submission is
passed exactly when its session ran to its end and nothing failed, or was left with exit code 0
(`PassesAreEarned`), and counted as an attempt exactly when `pytest.main` returned, however, with
something to judge (`CutOffRunsAreNotCounted`). A run that timed out is never counted, whatever was printed.
Messages are values; the only thing that matters of their wording is whether they
mention the wall clock, because the code looks for that.

### Reads

A reader is a request (`want`: its kind, its user, and the slug or exercise it is about)
and the handler that answers it (`pc`). `found` is the row of its first statement,
`loaded` what it has read below that row, `listed` and `counted` what the first two
statements of `get_lesson_states` returned, and `states` what the fold made of them.
Readers write nothing. Their environment is `Learning`: a learner passes the gate of a submission
(`Admit`), is answered with a passing verdict (`Solve`) or with anything else, a failure or the death of
the process included (`Fail`), and lessons are ingested. A gate that has read its lessons before
an ingestion may admit to what is locked by now (`AdmitOutdated`). That this is all the
handlers can do is not assumed: `Grading` implements `Learning`, by a run and by a theorem, and
it is that refinement which showed that an environment without `Fail` and
`AdmitOutdated` would have been stricter than the code. `before` and `steady` are history: what the user had
solved when the request was sent, and whether anything has been ingested since.

| Action | Code |
|---|---|
| `Send`, `Begin` | the request arrives; `get_current_user`; hint and chat end with 503 without a key |
| `FindLesson`, `LoadProse`, `LoadExercises`, `LoadTexts` | `get_lesson_by_slug`: the row, and its `selectinload`s in statements of their own: its text, its exercises, their texts |
| `FindExercise` | `get_exercise`, or `get_exercise_with_translations`, whose text is `LoadProse` |
| `ListPublished`, `CountTotals`, `CountSolved` | `get_lesson_states`; with the third statement the states are computed and the request is refused (403), answered or goes on |
| `ReadProgress` | the progress of an exercise; for a solution also the decision of `get_exercise_solution` |
| `AskTutor` | `LLMClient`: it answers, fails or runs into its time limit |
| `Raise` | a statement fails, or the pool has no connection for the whole of its time limit |
| `Submitted` (`Admit`, `AdmitOutdated`, `Fail`, `Solve`), `Ingested` | what submissions and `seed._ingest` do meanwhile |

The rule of `Curriculum` says which lessons may be unlocked; `ComputeStates` is the fold
of `_compute_states` over the list in the order the database has delivered. That the two
agree is the lemma `FoldBrackets` of `ReadsProofs`.

### Site

The whole API on one database: the variables of `Grading`, those of the readers of `Reads`, and
steps of either. `HandlersMove` is a step of a submission handler or the death of all of them, `Reingest` an
ingestion, `ReadersMove` the next statement of a reader, which sees what is committed.
Readers and handlers share the pool of connections; in `Site` whoever finds none fails
(`Begin` and then `Raise` of a handler, `Raise` of a reader), which a pool of
any size allows. When the process dies, its readers fail one by one.

`Site` multiplies the states of its two parts and is not among the runs. It is the subject of
theorems instead: `Site` implements `Reads`, so that every theorem about readers holds beside
the real handlers.

### Schema and Provision

A database is a record: its revision, whether PostgreSQL knows the type
`submissionstatus`, the prose of every lesson row, and the progress rows. `CreateTables`,
`SplitProse` and `AddOwners` are the three upgrades; `DropTables`, `MergeProse` and
`DropOwners` go back; `CanUpgrade` and `CanDropOwners` say when PostgreSQL refuses.
`UpgradeHead` runs what is missing, in one transaction. Text is named by the language it was
written in, which is all that copying and falling back can mix up.

| Action | Code |
|---|---|
| `Start`, `ReadRevision`, `Upgrade` | step b of the entrypoint: alembic reads the revision, and runs what was missing then; when it is there by now, it fails and `set -e` ends the container |
| `Count` | step c: the number of lessons decides between seeding and serving |
| `FindExisting`, `Store` | `seed._ingest` for one file: the SELECT, and the transaction that replaces the row, which fails on the unique slug when somebody else has stored it |
| `Stop` | the container is stopped, dies, or a step of it fails; what its processes knew goes with it |
| `Learn` | a learner's progress, recorded by a container that serves |
| `Rollback` | an operator's `alembic downgrade -1` with everything stopped |

The database starts empty, or as one of the two older revisions with every fixture in it and
perhaps progress, which is what older versions of the application leave behind.
`cutShort` is history: somebody was stopped behind the first of its files.

### Auth

A registration is a handler (`pc`) and the row it commits (`account`); ids come from a
sequence and are never used again, so the registration names the row. `sent` and
`tokens` are the world outside: mails that have gone out, and signed tokens, which
the server stores nowhere and which stay valid until they expire, whatever becomes of
the transaction that minted them.

| Action | Code |
|---|---|
| `Send`, `Lookup` | `register_user`: the length of the password, the SELECT by normalised address |
| `Insert` | `create_user`: the INSERT, which waits for another one of the same address and fails when that commits |
| `Mail`, `MailFails` | `send_confirmation`, inside the transaction |
| `Commit`, `Reply`, `Raise`, `Crash` | the route's commit and answer; failure and death before that |
| `Confirm`, `CommitConfirmation`, `ConfirmationFails` | `confirm_email` reads the account of the token; the route commits the flag |
| `Login` | `login`: a confirmed account of the address gets an access token |
| `Serve` | `get_current_user`: token, purpose, account - and not whether it is confirmed |
| `Expire` | the clock |

`Registry` has no transactions, row ids or tokens: `standing` is what becomes of a person,
`mailed` who has been sent a link, `sessions` who has one, `served` who has been answered in
one. `Auth` implements it with a person's standing read off the stored accounts
(`Standing`): an address that is taken stays taken, a confirmed one stays confirmed, a link goes
only to addresses without an account, a session only to a confirmed one.

### Browser

JavaScript runs to completion between awaits, and every await of these scripts is of
a fetch. A coroutine is therefore the fetch it awaits (`tasks`): what for, with whose
token, and what the server has decided. `browser` is everything else in the tab:
`token` (localStorage) and `stash` (the destination in sessionStorage) survive a
reload; `page` is what the URL asked for, `ready` whether profile.js has run yet,
`shown` the visible sections, `view` is activeView, `data` whose list, lesson or profile
a view has cached, `marks` is `_solved` and `completed` the lesson's flag. Functions of
the code are operators of the same names on that record, so that a handler reads like
the code it models: `GoOn(b)` is `OnAuthenticated(RenderAuthChrome(HideAuthGate(b)))`.

| Action | Code |
|---|---|
| `Visit`, `LoadProfileScript` | a page is loaded: boot() up to its first await; the last script arrives |
| `SubmitLogin`, `ClickLogout`, `SwitchLocale`, `Check` | the user's events |
| `Serve`, `ReadProgress`, `SolveElsewhere` | the server decides what an answer says; progress is fetched exercise by exercise |
| `LoginAnswered`, `MeAnswered`, `BootAnswered` | doLogin and boot after each await |
| `ListAnswered`, `LessonAnswered`, `ProgressAnswered`, `ProfileAnswered` | the views after theirs, with 401, 403 and other errors |
| `CheckAnswered`, `RefreshAnswered` | `_check` and `_refreshLessonCompletion` |
| `Lost` | a fetch rejects, before or after the server has acted |

A served request keeps its answer until the coroutine resumes, so answers overtake
one another. Only a page load drops coroutines; new exercise blocks merely detach the
checks of the old ones.

## Runs

Passing runs:

| Run | Instance | Shows |
|---|---|---|
| `Grading_requests` | three lessons and a draft at the third one's position, two users, three requests, as many connections | every interleaving of overlapping grades, failures and a crash keeps rows and log in agreement: `SolvedIffPassed`, `AttemptsNeverRunAhead`, `ReferencesAreOwn`, `AnswersMatchRows`, `WritersAreIsolated`; nobody gets ahead: `LessonsInOrder`; and to readers the handlers are learners: the refinement `ImplementsLearning` |
| `Grading_reingest` | three requests for one progress row, two connections, a lesson that may be ingested again, with fairness | `NoOrphanRows`, the refinement `ImplementsLedger`, and `EveryRequestEnds` |
| `Sandbox_calls` | a calm call and one with every trouble, with fairness | `CalmCallsCleanUp`, `VerdictsAreReal`, and, if the daemon answers, `EveryCallReturns` and `RunawaysAreStopped` |
| `Verdict_runs` | three tests, every ending, every payload of the program's own with one result or none | `PassesAreEarned`, `FailuresAreShown`, `CutOffRunsAreNotCounted` |
| `Reads_views` | two lessons and a draft, a newer version of the second lesson and a third one without exercises, one learner, one reader with any of eleven requests | `ClaimsAreEarned`, `ViewsAreBracketed`, `GateIsFair`, `SolutionsAreEarned`, `LessonsAreWhole`, `StartedStaysOpen`, `DiligenceIsRewarded` |
| `Provision_starts` | three fixtures in one or two languages, two containers, two stops, three rollbacks, two users, with fairness | `TypeOK` (what is stored fits the tables of its revision), `ServesAtHead`, `ProseIsWhole`, `SeededUnlessCutShort`, `DeploymentsKeepProgress`, `StartsRecover` |
| `Auth_accounts` | three registrations of one person under two spellings, one with a weak password, and one of another person, with fairness | `OneAccountPerPerson`, `AccountsHaveLinks`, the refinement `ImplementsRegistry`, `EveryRegistrationEnds` |
| `Browser_page` | two accounts, a lesson of two exercises, two coroutines | `TypeOK` (one section at a time), `NeverBlank`, `NoStrandedGate`, `CanLogOut`, `MarksAreEarned`, `CompletionIsEarned` |

Runs that show a disagreement of the code with its own comments or documents:

| Run | What it shows |
|---|---|
| `Grading_conflict` | two overlapping first attempts both insert; the second request fails with a 500 and its graded submission is rolled back |
| `Sandbox_interrupted` | on the exception path the CLI lives on and creates its container after the `finally` clause has removed nothing |
| `Browser_logged_out` | the answer to a request for the lesson list arrives after the logout and replaces the gate by the list of the account that has left |
| `Provision_partial` | a container stopped between two fixtures leaves one lesson; every later start counts it, skips the seeding and serves |

Two requests make a race, the third makes one that runs into the outcome of a
race. One instance has more requests than connections, so that the pool is exhausted
and `PoolTimeout` fires. Two lessons make a gate, three tell the lesson directly
before from all lessons before; the second user works on the first of them, so that what
one has solved cannot open a lesson to the other. One newer version of a lesson is enough to delete
rows under a running request. Requests are symmetric in the safety runs; no
symmetry is used with liveness. Calls of the sandbox share nothing in the model;
a calm and a troubled one show both kinds and that one does not disturb the other.
Readers write nothing and do not see each other, so that one reader shows all a
reader can see; its learner has four exercises to solve, and three ingestions can come between
its statements. Two registrations of one address race, the third is refused, whichever way the race
went. Two coroutines of a tab overtake each other; two accounts mix up what belongs
to whom; two exercises are the least a lesson can be half solved with. Two containers race;
three fixtures make a first, a middle and a last one; three rollbacks reach the empty
database, and two users are the least for which the unique index of the older schema cannot
come back.

Two counters are bounded by the guards of their actions: `MaxStops` for stops and
failures of containers, `MaxRollbacks` for rollbacks. Two stops are enough to stop each
container once or one of them twice. Everywhere else requests, lessons and calls are finite sets, and
everything counts those.

Where a type invariant says no more than types (`Grading`, `Sandbox`, `Reads`, `Auth`) it is proved
and not repeated in a run. So are `SolveSticks`, `SessionsAreConfirmed` and `NobodyIsStuck`, which the
refinements of `Learning` and `Registry` contain, or which follow from the unlock rule.

Every property of a passing run is kept honest by a faulty variant of a definition
in the same module (`Recorded_AllColumns`, `Flush_NoWait`, `Cleanup_NoBackstop`,
...), a bug that code could have; with it in place the property fails.

### Fairness

`Grading`: weak fairness of each request's handler. The event loop resumes every
handler whose await is over; the pool wait and the run of the container are bounded by
time-outs; a row lock is held by another handler that has only its commit left. That the sandbox
returns supposes that the docker daemon answers (`DaemonAnswers` of `Sandbox`).
Clients need not send, and nothing has to crash, fail or be ingested.

`Sandbox`: weak fairness of what a call does by itself (`OwnSteps`): spawning, the wait that
the timer of `wait_for` bounds, the kill and the reaping. None for the CLI, and none for `Finish`: a submitted
program may run for ever. `_force_remove` awaits `docker rm` outside the `wait_for` and without a
limit of its own, on the time-out path and in the `finally`. That the daemon answers it, and carries
out the creates it has accepted, is therefore no fairness of the specification but an assumption
that `EveryCallReturns` and `RunawaysAreStopped` name (`DaemonAnswers`); with a daemon that
hangs they are false, and so is `EveryRequestEnds`.

`Reads`: none for readers, which wait for nothing but time limits: a handler is a chain of
statements. `DiligenceIsRewarded` has its assumptions in its own statement: learners keep submitting
solutions that pass (`KeepAtIt`), and from some time on every published lesson has exercises.
Of `Solve` that is strong fairness: a submission may fail again and again, and the gate
closes behind it each time, but one that is repeated for ever is not unlucky for ever.

`Provision`: weak fairness of each container. Docker starts again what has ended, and a
migration or an ingestion takes finitely long. Stops are bounded; rollbacks need an operator
and are never owed.

`Auth`: weak fairness of the lookup, the INSERT, the commit and the answer of each registration.
`EveryRegistrationEnds` names its assumption: that the mail server answers. `smtplib` is called
without a time limit, and without the assumption the property is false.

`Verdict` and `Browser` state no liveness: nothing says that a program ends, or that a fetch is
answered; one that fails is not repeated. None is claimed of confirmations either: a link may be lost or expire, and
nothing in the code sends it again.

## Theorems

All of these hold for every value of the constants that satisfies the named
assumptions (`CurriculumAssumption`, `GradingAssumption`, `SandboxAssumption`,
`LearningAssumption`, `ReadsAssumption`, `SchemaAssumption`, `ProvisionAssumption`, `AuthAssumption`,
`BrowserAssumption`), which only give the constants their types, make the stored slugs
unique, the sets of requests, lessons and exercises finite, the pool and the lesson of the
lesson page non-empty and every fixture written in at least one language.

- `TypeCorrect`: `TypeOK` is inductive.
- `Isolation`: `WritersAreIsolated` is inductive with `TypeOK`. It is the bridge from
  what a handler read to what is stored when it writes: the exercise still exists,
  nobody else holds the row, an absent row is still absent at the flush and a solved
  one still solved. All other proofs rest on it.
- `AnswersMatch`: `AnswersMatchRows`, strengthened by `AnswersInv` (a request that has not
  committed has no submission, and only graded ones get to the commit).
- `Solved`, `Sticks`: by `CommitSolves`, a commit changes what is solved exactly as its
  verdict says, although it writes a row it read earlier.
- `Refinement`: each action maps to `Record`, `Forget` or a stutter of `Ledger`.
- `Attempts`: strengthened by `AttemptsInv`: what a handler has read never exceeds
  what is counted.
- `References`, `NoOrphans`: directly inductive, given the ones above.
- `InOrder`: for distinct positions and a curriculum that only grows at its end (`AppendOnly`): no stored
  lesson is replaced, a published one comes after those there are, drafts go anywhere. The
  hypothesis is about what ingestion does and is needed: a replaced lesson has lost its
  solves, and one that is put in the middle is unsolved by everybody who is past it.
  `OrderInv` says that what a gate has read is a beginning of the published lessons, with no
  gap before its own, that the lessons it counts have exercises, and that a request past the gate is caught up
  with all lessons before its own. The step is `GateCatchesUp`: the lesson directly before
  is complete and has an exercise, so a submission of the same user for it passed
  (`SolvedIffPassed`), and that user was caught up when it was stored. The gate looks
  back one lesson, the theorem all of them. `InOrderWithoutIngestion` is the case in which nothing
  is left to ingest.
- `HandlersAreLearners`: each action of `Grading` maps to a step of `Learning` or to a stutter. Two
  invariants make it so. `ViewsInv`: until something is ingested, what a gate
  has listed and counted is current, and once it was, the first curriculum never comes back
  (`NeverBack`), so that a gate is either exact, up to the order of ties, or outdated.
  `HandlersInv` adds the isolation of writers, which is why a commit of `Grading` solves exactly
  the exercise of its request. The three statements of a gate are one `Admit`, although what is solved
  changes between them: it is decided with the last one.
- `NeverADeadEnd`: `NobodyIsStuck` in every state of the handlers. It is a fact about the unlock
  rule, for any stored lessons and any solved exercises, by the first lesson
  not completed, which exists because lessons are finitely many (`FirstLesson`, `LastLesson`,
  `FirstUnfinished`). It is the safety half of `DiligenceIsRewarded`, for every curriculum.
- `SiteIsReads`: a step of a handler maps to `Submitted` or leaves the readers' world alone
  (`SiteIsGrading`, `SubmittedStep`), an ingestion to `Ingested`, a reader's step to itself.
- `SiteShowsWhatIsEarned`, `SiteIsFair`: the theorems of `ReadsProofs`, instantiated with the database of
  the handlers, carried over by `SiteIsReads`.
- `SandboxTypeCorrect`; `RealVerdicts`: from `LifeInv`, that a container goes through its life
  once; `NoneOutlives`: for calm calls, from `CleanInv`, that by the final removal the CLI can
  ask for nothing more.
- `AuthTypeCorrect`: with `TypeInv`, that a confirmation about to be written has its account.
- `OneAccount`: from `KeyInv`, that who has inserted a row is alone with its address among
  stored accounts and those about to commit; `AccountsHaveLinks` (`Links`) from it and
  `LinkInv`.
- `Sessions`: `SessionsAreConfirmed` is inductive: only a confirmed account gets a session, and
  no account is removed or unconfirmed again. This is what makes it safe that `get_current_user`
  does not look at the flag.
- `AccountsAreTheRegistry`: each action of `Auth` maps to a step of `Registry` or to a stutter. `AccountsInv`
  collects the invariants above; the steps are named after what they map to. `StandingOf`
  says that the account a handler is about to store or to confirm is the only one of its person
  (`KeyInv`), so that nobody else's standing changes with it.
- `CutOffRunsDoNotCount`, `PassesRestOnEvidence`, `FailuresHaveReasons`: from `VerdictInv`,
  which follows what is known at each phase of a run: that the collected results are those of
  the reports kept, and how the session has ended once it has; `PayloadInv`, that a payload of the runner's own
  says what was collected and how the session ended; once it is parsed, that the result says
  what the payload says. The first two contain equivalences, and need both directions of each link in that
  chain. `ExitCode` says when pytest's exit code is 0. The number of failures shown is bounded by an
  injection from failed phases to results, also for sessions that were interrupted. Excepted
  are payloads of the program's own; an interrupted session may be `failed` with nothing that failed,
  and one left with exit code 0 is `passed`: that is what the code does.
- `ReadsProofs.TypeCorrect`: `TypeOK` is inductive with `BaseInv`, which says what each step of a handler
  has found: rows that were stored, orders of published lessons, states computed from these.
- `SolutionsMustBeEarned`, `LessonsStayWhole`: what is checked or loaded of a row stays so
  until the row is deleted, because rows are never stored again (`RowsStay`).
- `ClaimsMustBeEarned`: each claim is monotone until its lesson is deleted (`ClaimsStay`).
- `ViewsStayBracketed`, `NextLessonStaysOpen`: `SteadyInv` says that without ingestion all
  three statements see the same curriculum, and that what was solved only grows, so that
  the fold lies between the two ends (`FoldBrackets`, `BracketsStay`).
- `GateStaysFair`: from `SteadyInv`, for what has been served or refused.
- `StartedIsNeverLocked`: `StartedInv` says that whoever has solved something in a lesson, or has been
  admitted to it, had completed the lesson before. With distinct positions that is the lesson the fold looks at.
- `ProvisionProofs.TypeCorrect`, `EveryoneServesAtHead`: one inductive invariant, `BaseInv`, of `TypeOK`, `ServesAtHead`
  and `Bookkeeping`, over a lemma for each migration, there and back.
- `ProseStaysWhole`: each migration keeps `ReadsAsWritten`, whatever came before it.
- `DeploymentsAreHarmless`: an action property, from the same invariant.
- `SeedingCompletes`: `StoredInOrder` says that as long as nobody has been stopped amid its files,
  what is stored are the first so many fixtures, everybody who seeds stands at or before the next
  one, and somebody seeds unless none or all are stored.
- `BrowserTypeOK`, `BrowserNeverBlank`, `BrowserNoStrandedGate`, `BrowserCanLogOut`: from
  `OnItsWay`, which says of each thing a page may lack which fetch under way will supply it. It
  is stronger than the properties in two places: with nothing shown and nobody logged in, a list is
  on its way, for the answer to boot's fetch then does nothing; and a page that still
  lacks its controls because it boots awaits nothing else, so that no other answer can show a
  view first. `Proper` says what a piece of synchronous code must leave behind, `Running`
  that this is enough, and there is one lemma for each function that several handlers call.
- `BrowserMarksAreEarned`, `BrowserCompletionIsEarned`: `Honest` says that what the server has
  answered is solved by the account of the token the request carried, and that this
  account has been logged in since the page was loaded.

Only model-checked: liveness (`EveryRequestEnds`, `EveryCallReturns`,
`RunawaysAreStopped`, `DiligenceIsRewarded`, `EveryRegistrationEnds`, `StartsRecover`), which is out of the prover's reach.
`DiligenceIsRewarded` has a safety half that is proved, `NeverADeadEnd`. Every invariant, action property and
refinement of a passing run is stated by a theorem.

## Limits of the model

- Ties in position: `LessonsInOrder` is claimed for distinct positions of published lessons. The schema does
  not enforce them.
- Re-ingestion: the gate is not evaluated again after the sandbox, so a submission can be
  stored for a lesson that a re-ingestion has locked meanwhile; `LessonsInOrder` is
  claimed of a curriculum that only grows at its end.
- A lesson without exercises is never completed and blocks those after it. The code says so;
  the model does too; no property forbids it.
- A container that is running when the API process dies is not removed by anybody. The
  sandbox module has no crash of the process.
- An increment of `attempts` is lost when two grades of one exercise overlap. The model has it; no
  document of the repository promises otherwise.
- `STORAGE_CONTRACT.md:99` and `clients/sandbox_result.py:34` say that an exercise passes only when
  every collected test has passed. The code asks for pytest's exit code and for one collected
  result: a test that is skipped in its body, or fails as expected, is listed as a failed result
  of a run that passed. The model has it, and `PassesAreEarned` says that nothing has failed, not
  that everything has passed. The document and the code disagree here.
- A session ended by `KeyboardInterrupt` or `pytest.exit` prints a complete payload with some of the
  results. It counts as an attempt; it can be failed with only passed results to show, and with
  the exit code 0 of the program's choice it passes. `_parse` takes what stands between the first
  markers for the runner's payload, whoever printed it. Both are in the model; the
  properties of `Verdict` except them by name (`ending`, `output`).
- `STORAGE_CONTRACT.md:62` (and the paragraph on fields that are never sent to the frontend) says
  that `solution_code` is never exposed by the API. That is out of date: `get_exercise_solution` serves
  it to a learner who has solved the exercise, which is what `SolutionsAreEarned` is about.
- A `docker rm` that never returns holds its call, and the request behind it, for good.
- In `Reads` a lesson that is replaced while it is read is not among the published ones any
  more and counts as unlocked: its old version is served without the gate, and without what was
  not loaded yet. `GateIsFair` is claimed of requests during which nothing is ingested,
  `LessonsAreWhole` of rows that are still stored.
- `Learning` lets a gate admit to anything once something was ingested (`AdmitOutdated`), which is more than
  an outdated view can do, and `Site` lets the pool be empty at any time; both give readers
  more to cope with than the code. GET /api/submissions/{id} is one statement and left out.
  What the tutor is asked, and the shape of the answers, is text.
- A container that has counted no lesson and is late replaces what another one has seeded and
  serves, with the progress made on it; `DeploymentsKeepProgress` begins when nobody seeds.
- After a rollback to the empty database the type `submissionstatus` is left, and no container can start
  (`Stuck`); after two accounts have tried one exercise, the last migration cannot be
  rolled back. `StartsRecover` excepts the former; nothing promises the latter.
- Several API processes over one database behave like more requests, except that a
  crash takes only some of them.
- Two overlapping passes both set `solved_at`, and the later commit replaces the time of the
  first; `is_solved` sticks, the time does not, and no property says it does.
- Logout is local and cancels nothing. A view may show the account that was logged in before
  (the cached profile, the lesson while the new one loads), a mark may stem from a check of
  that account, a 401 to its request logs out the present one, and an older refresh may hide
  the completion panel again. The model has all of these; the properties claim what remains.
- One tab. Another one can change the token under it.
- Staging files in a temporary directory, user deletion (no code does it) and the wording
  of messages are left out.

## Plan

In this order:

1. `Curriculum`, `Grading`, `Ledger`: the core. Done, with proofs.
2. `Sandbox`: done, with proofs of its safety properties.
3. `Verdict`: done, with proofs.
4. `Reads`: done, with proofs. `Learning` and `Site` put it beside `Grading` itself, by refinement: done, with
   proofs.
5. `Auth`: done, with proofs; `Registry`, which it implements, too.
6. `Browser`: done, with proofs.
7. `Schema`, `Provision`: done, with proofs.
8. Next to prove: an abstract specification of the sandbox call, and of a start of the
   container, with the refinements.
9. Left aside: the panels of the tutor and of the reference solution and the registration form in the
   browser, and a second tab.
