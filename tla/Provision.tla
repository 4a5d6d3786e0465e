----------------------------- MODULE Provision -----------------------------
(***************************************************************************)
(* Containers of the API that provision themselves on every start          *)
(* (docker-entrypoint.sh): they migrate the database, seed it when it      *)
(* holds no lesson, and serve.  `set -eu' ends a container with the first  *)
(* step that fails; then, and whenever it is stopped or dies, it may be    *)
(* started again.  Nothing keeps two of them from starting together.       *)
(* The image build of the sandbox (step a) never fails a start and changes *)
(* nothing here.                                                           *)
(***************************************************************************)
EXTENDS Schema, FiniteSets

CONSTANTS
  Containers, NoRow,
  MaxStops,      \* how often a container is stopped or fails on the way (bound)
  MaxRollbacks   \* how often an operator rolls a revision back (bound)

ASSUME ProvisionAssumption == MaxStops \in Nat /\ MaxRollbacks \in Nat /\ NoRow \notin Rows

VARIABLES
  db,         \* the committed database
  pc,         \* container -> the step of the entrypoint it is at
  seen,       \* container -> the revision alembic found
  at,         \* container -> the index of the fixture it seeds
  existing,   \* container -> the row of that slug _ingest found
  stops, rollbacks,
  cutShort    \* somebody was stopped amid its fixtures (history)

vars == <<db, pc, seen, at, existing, stops, rollbacks, cutShort>>

Seeding == {"seeding", "storing"}
Steps == {"off", "migrating", "upgrading", "counting", "serving"} \cup Seeding

\* What older versions of the application have left behind: every fixture in
\* its first row, its prose single or not, and progress nobody owns.
Legacy ==
  LET rows == [slug : Slugs, version : {1}]
      tried == {{}} \cup {{[owner |-> Nobody, row |-> r]} : r \in rows}
  IN  {[revision |-> InitialSchema, statusType |-> TRUE, progress |-> t,
        prose |-> [r \in rows |-> [only |-> Borrowed(r.slug)["en"]]]] : t \in tried}
        \cup
      {[revision |-> Bilingual, statusType |-> TRUE, progress |-> t,
        prose |-> [r \in rows |-> Borrowed(r.slug)]] : t \in tried}

Init ==
  /\ db \in {EmptyDatabase} \cup Legacy
  /\ pc = [c \in Containers |-> "off"]
  /\ seen = [c \in Containers |-> Base]
  /\ at = [c \in Containers |-> 1]
  /\ existing = [c \in Containers |-> NoRow]
  /\ stops = 0 /\ rollbacks = 0
  /\ cutShort = FALSE

Goto(c, step) == pc' = [pc EXCEPT ![c] = step]

\* What its processes knew goes with the container.
Leave(c) ==
  /\ Goto(c, "off")
  /\ seen' = [seen EXCEPT ![c] = Base]
  /\ at' = [at EXCEPT ![c] = 1]
  /\ existing' = [existing EXCEPT ![c] = NoRow]

-----------------------------------------------------------------------------
(* The entrypoint *)

Start(c) ==
  /\ pc[c] = "off"
  /\ Goto(c, "migrating")
  /\ UNCHANGED <<db, seen, at, existing, stops, rollbacks, cutShort>>

\* alembic reads the revision at the beginning of its transaction, ...
ReadRevision(c) ==
  /\ pc[c] = "migrating"
  /\ seen' = [seen EXCEPT ![c] = db.revision]
  /\ Goto(c, IF db.revision = Latest THEN "counting" ELSE "upgrading")
  /\ UNCHANGED <<db, at, existing, stops, rollbacks, cutShort>>

\* A faulty variant: a failed migration does not stop the start.
Upgrade_Tolerant(c) ==
  /\ pc[c] = "upgrading"
  /\ db' = IF seen[c] = db.revision /\ CanUpgrade(db) THEN UpgradeHead(db) ELSE db
  /\ Goto(c, "counting")
  /\ UNCHANGED <<seen, at, existing, stops, rollbacks, cutShort>>

\* ... and runs what it found missing.  When somebody else has committed the
\* same migrations meanwhile, the first of them fails on what is there already.
Upgrade(c) ==
  /\ pc[c] = "upgrading"
  /\ IF seen[c] = db.revision /\ CanUpgrade(db)
       THEN db' = UpgradeHead(db) /\ Goto(c, "counting") /\ UNCHANGED <<seen, at, existing>>
       ELSE UNCHANGED db /\ Leave(c)
  /\ UNCHANGED <<stops, rollbacks, cutShort>>

\* A faulty variant: seed on every start, as the Dockerfile says.
Count_Always(c) ==
  /\ pc[c] = "counting"
  /\ Goto(c, "seeding")
  /\ UNCHANGED <<db, seen, at, existing, stops, rollbacks, cutShort>>

Count(c) ==
  /\ pc[c] = "counting"
  /\ Goto(c, IF Stored(db) = {} /\ FixtureFiles # <<>> THEN "seeding" ELSE "serving")
  /\ UNCHANGED <<db, seen, at, existing, stops, rollbacks, cutShort>>

StoredAs(slug) == {r \in Stored(db) : r.slug = slug}
File(c) == FixtureFiles[at[c]]

\* seed._ingest: SELECT the lesson by its slug, ...
FindExisting(c) ==
  /\ pc[c] = "seeding"
  /\ \/ \E r \in StoredAs(File(c)) : existing' = [existing EXCEPT ![c] = r]
     \/ StoredAs(File(c)) = {} /\ existing' = [existing EXCEPT ![c] = NoRow]
  /\ Goto(c, "storing")
  /\ UNCHANGED <<db, seen, at, stops, rollbacks, cutShort>>

\* What the table holds when the row that was found is deleted, with all below
\* it, and the new one is inserted.
NewRow(c) ==
  [slug |-> File(c), version |-> IF existing[c] = NoRow THEN 1 ELSE existing[c].version + 1]
Reseeded(c) ==
  LET kept == Stored(db) \ {existing[c]}
  IN  [db EXCEPT !.prose = [r \in kept \cup {NewRow(c)} |->
                              IF r = NewRow(c) THEN Borrowed(File(c)) ELSE db.prose[r]],
                 !.progress = {p \in @ : p.row # existing[c]}]

\* A faulty variant: the loop leaves out the last file.
Store_LastLeftOut(c) ==
  /\ pc[c] = "storing"
  /\ IF StoredAs(File(c)) \subseteq {existing[c]}
       THEN /\ db' = Reseeded(c)
            /\ IF at[c] >= Len(FixtureFiles) - 1
                 THEN Goto(c, "serving") /\ UNCHANGED at
                 ELSE Goto(c, "seeding") /\ at' = [at EXCEPT ![c] = @ + 1]
            /\ existing' = [existing EXCEPT ![c] = NoRow]
            /\ UNCHANGED seen
       ELSE UNCHANGED db /\ Leave(c)
  /\ UNCHANGED <<stops, rollbacks, cutShort>>

\* ... delete it, insert the new one and commit; the slug is unique.  Each file
\* is a process and a transaction of its own.
Store(c) ==
  /\ pc[c] = "storing"
  /\ IF StoredAs(File(c)) \subseteq {existing[c]}
       THEN /\ db' = Reseeded(c)
            /\ IF at[c] = Len(FixtureFiles)
                 THEN Goto(c, "serving") /\ UNCHANGED at
                 ELSE Goto(c, "seeding") /\ at' = [at EXCEPT ![c] = @ + 1]
            /\ existing' = [existing EXCEPT ![c] = NoRow]
            /\ UNCHANGED seen
       ELSE UNCHANGED db /\ Leave(c)
  /\ UNCHANGED <<stops, rollbacks, cutShort>>

\* The container is redeployed or dies, or a step of it fails: a file is
\* malformed, the database is away.
Stop(c) ==
  /\ pc[c] # "off" /\ stops < MaxStops
  /\ Leave(c)
  /\ stops' = stops + 1
  /\ cutShort' = (cutShort \/ (pc[c] \in Seeding /\ at[c] > 1))
  /\ UNCHANGED <<db, rollbacks>>

-----------------------------------------------------------------------------
(* What happens around it *)

\* A learner's attempt is recorded by a container that serves.
Learn(u, r) ==
  /\ \E c \in Containers : pc[c] = "serving"
  /\ db' = [db EXCEPT !.progress = @ \cup {[owner |-> u, row |-> r]}]
  /\ UNCHANGED <<pc, seen, at, existing, stops, rollbacks, cutShort>>

\* `alembic downgrade -1', with everything stopped.
Rollback ==
  /\ \A c \in Containers : pc[c] = "off"
  /\ rollbacks < MaxRollbacks
  /\ CanDowngrade(db)
  /\ db' = DowngradeOne(db)
  /\ rollbacks' = rollbacks + 1
  /\ UNCHANGED <<pc, seen, at, existing, stops, cutShort>>

Provide(c) ==
  \/ Start(c) \/ ReadRevision(c) \/ Upgrade(c)
  \/ Count(c) \/ FindExisting(c) \/ Store(c)

Next ==
  \/ \E c \in Containers : Provide(c) \/ Stop(c)
  \/ \E u \in Users, r \in Stored(db) : Learn(u, r)
  \/ Rollback

Spec == Init /\ [][Next]_vars

\* What has ended is started again, and no step takes for ever.
FairSpec == Spec /\ \A c \in Containers : WF_vars(Provide(c))

-----------------------------------------------------------------------------
(* Correctness *)

TypeOK ==
  /\ WellFormed(db)
  /\ pc \in [Containers -> Steps]
  /\ seen \in [Containers -> Base .. Latest]
  /\ at \in [Containers -> Nat]
  /\ \A c \in Containers : pc[c] \in Seeding => at[c] \in 1 .. Len(FixtureFiles)
  /\ existing \in [Containers -> Rows \cup {NoRow}]
  /\ stops \in 0 .. MaxStops /\ rollbacks \in 0 .. MaxRollbacks
  /\ cutShort \in BOOLEAN

\* Whoever serves or seeds finds the schema its models are written for, however
\* many containers migrate at once and whoever of them dies.
ServesAtHead == \A c \in Containers :
  pc[c] \in {"counting", "serving"} \cup Seeding => db.revision = Latest

\* Migrations there and back lose no English and leave no language empty: a
\* lesson reads as it was written, or in English where a rollback has been.
ProseIsWhole == ReadsAsWritten(db)

\* Containers that seed at the same time make each other fail, but never all of
\* them: when nobody seeds any more and nobody was stopped amid its files, every
\* fixture is stored.
SeededUnlessCutShort ==
  /\ \E c \in Containers : pc[c] = "serving"
  /\ \A c \in Containers : pc[c] \notin Seeding
  /\ ~ cutShort
  => {r.slug : r \in Stored(db)} = Slugs

\* Once lessons are stored and nobody seeds, deployments take nothing away: it
\* stays so, whatever is started, stopped or fails, and every lesson row and all
\* progress is kept.  Only an operator's rollback ends it.
Settled ==
  /\ db.revision = Latest /\ Stored(db) # {}
  /\ \A c \in Containers : pc[c] \notin Seeding
DeploymentsKeepProgress ==
  [][Settled /\ db'.revision = Latest =>
       /\ Settled'
       /\ Stored(db) \subseteq Stored(db')
       /\ db.progress \subseteq db'.progress]_vars

\* Who is started again in the end serves: neither a failed start nor two starts
\* at once leave a database no container can start on.  (A rollback down to the
\* empty database does: the type of submission.status outlives it.)
Stuck == db.revision = Base /\ db.statusType
StartsRecover == []~ Stuck => <>[](\A c \in Containers : pc[c] = "serving")

-----------------------------------------------------------------------------
(* What a comment says, and the code does not keep *)

\* "Real methodist lessons the entrypoint seeds idempotently on every start.":
\* whoever serves has all of them.
SeedsOnEveryStart == \A c \in Containers :
  pc[c] = "serving" => {r.slug : r \in Stored(db)} = Slugs
=============================================================================
