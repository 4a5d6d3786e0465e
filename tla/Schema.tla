------------------------------- MODULE Schema -------------------------------
(***************************************************************************)
(* The revisions of the database schema (migrations/versions) and what     *)
(* each migration makes of the rows that are stored.  `alembic upgrade     *)
(* head' runs all that are missing in one transaction (env.py).            *)
(*                                                                         *)
(* A database is a record: its revision; whether PostgreSQL knows the type *)
(* of submission.status; the prose of every stored lesson, its exercise    *)
(* included; and the progress rows.  Prose is named by the language it was *)
(* written in.  A lesson row is a slug and the number of the row among     *)
(* those stored for it, which stands for its id.                           *)
(***************************************************************************)
EXTENDS Integers, Sequences

CONSTANTS
  FixtureFiles,  \* the slugs of the fixtures, in the order of their file names
  Authored,      \* slug -> the languages its prose was written in
  Users, Nobody

Locales == {"en", "ru"}
Blank == "blank"  \* no text at all

Slugs == {FixtureFiles[i] : i \in DOMAIN FixtureFiles}

ASSUME SchemaAssumption ==
  /\ FixtureFiles \in Seq(Slugs)
  /\ \A i, j \in DOMAIN FixtureFiles : FixtureFiles[i] = FixtureFiles[j] => i = j
  /\ Authored \in [Slugs -> (SUBSET Locales) \ {{}}]
  /\ Nobody \notin Users

\* The empty database, and the three revisions.
Base == 0
InitialSchema == 1   \* 115ed2b5049d
Bilingual == 2       \* 655ae2549a7d
PerUser == 3         \* 46ea8a09380f
Latest == PerUser

Rows == [slug : Slugs, version : Nat]

Stored(d) == DOMAIN d.prose

Columns(d) == IF d.revision = InitialSchema THEN {"only"} ELSE Locales
Owners(d) == IF d.revision = PerUser THEN Users ELSE {Nobody}

\* What is stored fits the tables of its revision.
WellFormed(d) ==
  /\ DOMAIN d = {"revision", "statusType", "prose", "progress"}
  /\ d.revision \in Base .. Latest /\ d.statusType \in BOOLEAN
  /\ Stored(d) \subseteq Rows
  /\ \A r \in Stored(d) : d.prose[r] \in [Columns(d) -> Locales \cup {Blank}]
  /\ d.progress \subseteq [owner : Owners(d), row : Stored(d)]

NoProse == [r \in {} |-> <<>>]

EmptyDatabase ==
  [revision |-> Base, statusType |-> FALSE, prose |-> NoProse, progress |-> {}]

\* seed._locales: a language in which nothing is written borrows English, or
\* else what there is.
Borrowed(slug) ==
  [loc \in Locales |-> IF loc \in Authored[slug] THEN loc
                       ELSE IF "en" \in Authored[slug] THEN "en"
                       ELSE CHOOSE other \in Authored[slug] : TRUE]

\* A lesson reads as it was written, or in English.
ReadsAsWritten(d) == \A r \in Stored(d) : \A col \in Columns(d) :
  d.prose[r][col] \in IF col = "only" THEN {Borrowed(r.slug)["en"]}
                      ELSE {Borrowed(r.slug)[col], Borrowed(r.slug)["en"]}

-----------------------------------------------------------------------------
(* The migrations *)

\* CREATE TYPE fails when the type exists.
CreateTables(d) ==
  [d EXCEPT !.revision = InitialSchema, !.statusType = TRUE, !.prose = NoProse, !.progress = {}]

\* The tables are dropped, the type is not.
DropTables(d) ==
  [d EXCEPT !.revision = Base, !.prose = NoProse, !.progress = {}]

\* A faulty variant: the rows are copied for English alone.
SplitProse_EnglishOnly(d) ==
  [d EXCEPT !.revision = Bilingual,
             !.prose = [r \in Stored(d) |->
                          [loc \in Locales |-> IF loc = "en" THEN d.prose[r]["only"] ELSE Blank]]]

\* The one text becomes the text in either language.
SplitProse(d) ==
  [d EXCEPT !.revision = Bilingual,
             !.prose = [r \in Stored(d) |-> [loc \in Locales |-> d.prose[r]["only"]]]]

\* English is kept, the other language is lost.
MergeProse(d) ==
  [d EXCEPT !.revision = InitialSchema,
             !.prose = [r \in Stored(d) |-> [only |-> d.prose[r]["en"]]]]

\* A faulty variant: progress is kept, for nobody.
AddOwners_KeepsRows(d) == [d EXCEPT !.revision = PerUser]

\* Progress without an owner is cleared: user_id is NOT NULL.
AddOwners(d) == [d EXCEPT !.revision = PerUser, !.progress = {}]

\* The old unique index on exercise_id comes back: one row for each exercise.
CanDropOwners(d) ==
  \A p, q \in d.progress : p.row = q.row => p = q

DropOwners(d) ==
  [d EXCEPT !.revision = Bilingual,
             !.progress = {[p EXCEPT !.owner = Nobody] : p \in @}]

-----------------------------------------------------------------------------
(* alembic *)

\* A faulty variant: user_id is added to rows that have no owner.
CanUpgrade_NotNull(d) ==
  /\ d.revision = Base => ~ d.statusType
  /\ d.revision # PerUser => d.progress = {}

CanUpgrade(d) == d.revision = Base => ~ d.statusType

UpgradeHead(d) ==
  CASE d.revision = Base          -> AddOwners(SplitProse(CreateTables(d)))
    [] d.revision = InitialSchema -> AddOwners(SplitProse(d))
    [] d.revision = Bilingual     -> AddOwners(d)
    [] OTHER                       -> d

CanDowngrade(d) == d.revision # Base /\ (d.revision = PerUser => CanDropOwners(d))

DowngradeOne(d) ==
  CASE d.revision = PerUser   -> DropOwners(d)
    [] d.revision = Bilingual -> MergeProse(d)
    [] OTHER                   -> DropTables(d)
=============================================================================
