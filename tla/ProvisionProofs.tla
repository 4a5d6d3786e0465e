-------------------------- MODULE ProvisionProofs --------------------------
(***************************************************************************)
(* Proofs about Schema and Provision, for any fixtures, any number of      *)
(* containers, stops and rollbacks.                                        *)
(***************************************************************************)
EXTENDS Provision, TLAPS

\* What the prose proof needs of a language: it is borrowed from one there is.
LEMMA BorrowedIsALanguage == ASSUME NEW slug \in Slugs
                             PROVE  Borrowed(slug) \in [Locales -> Locales]
<1>1. PICK other \in Authored[slug] : TRUE
  BY SchemaAssumption
<1>2. (CHOOSE o \in Authored[slug] : TRUE) \in Authored[slug]
  BY <1>1
<1> QED
  BY <1>2, SchemaAssumption DEF Borrowed, Locales

(* Each migration keeps a database well-formed and readable. *)

LEMMA Creating == ASSUME NEW d, WellFormed(d)
                  PROVE  /\ WellFormed(CreateTables(d)) /\ ReadsAsWritten(CreateTables(d))
                         /\ CreateTables(d).revision = InitialSchema
                         /\ Stored(CreateTables(d)) = {}
<1> DEFINE new == CreateTables(d)
<1>1. /\ DOMAIN new = {"revision", "statusType", "prose", "progress"}
      /\ new.revision = InitialSchema /\ new.statusType = TRUE /\ new.progress = {}
      /\ DOMAIN new.prose = {}
  BY DEF WellFormed, CreateTables, NoProse
<1> HIDE DEF new
<1>2. Stored(new) = {}
  BY <1>1 DEF Stored
<1>3. WellFormed(new)
  <2>1. new.statusType \in BOOLEAN
    BY <1>1
  <2> QED
    BY <1>1, <1>2, <2>1 DEF WellFormed, Base, InitialSchema, Bilingual, PerUser, Latest
<1>4. ReadsAsWritten(new)
  BY <1>2 DEF ReadsAsWritten
<1> QED
  BY <1>1, <1>2, <1>3, <1>4 DEF new

LEMMA Dropping == ASSUME NEW d, WellFormed(d)
                  PROVE  /\ WellFormed(DropTables(d)) /\ ReadsAsWritten(DropTables(d))
                         /\ DropTables(d).revision = Base
                         /\ Stored(DropTables(d)) = {}
<1> DEFINE new == DropTables(d)
<1>1. /\ DOMAIN new = {"revision", "statusType", "prose", "progress"}
      /\ new.revision = Base /\ new.statusType = d.statusType /\ new.progress = {}
      /\ DOMAIN new.prose = {}
  BY DEF WellFormed, DropTables, NoProse
<1> HIDE DEF new
<1>2. Stored(new) = {}
  BY <1>1 DEF Stored
<1>3. WellFormed(new)
  BY <1>1, <1>2 DEF WellFormed, Base, InitialSchema, Bilingual, PerUser, Latest
<1>4. ReadsAsWritten(new)
  BY <1>2 DEF ReadsAsWritten
<1> QED
  BY <1>1, <1>2, <1>3, <1>4 DEF new

LEMMA Splitting == ASSUME NEW d, WellFormed(d), d.revision = InitialSchema
                   PROVE  /\ WellFormed(SplitProse(d))
                          /\ ReadsAsWritten(d) => ReadsAsWritten(SplitProse(d))
                          /\ SplitProse(d).revision = Bilingual
                          /\ Stored(SplitProse(d)) = Stored(d)
<1> DEFINE new == SplitProse(d)
<1>1. /\ DOMAIN new = {"revision", "statusType", "prose", "progress"}
      /\ new.revision = Bilingual /\ new.statusType = d.statusType /\ new.progress = d.progress
      /\ new.prose = [r \in Stored(d) |-> [loc \in Locales |-> d.prose[r]["only"]]]
  BY DEF WellFormed, SplitProse
<1> HIDE DEF new
<1>2. Stored(new) = Stored(d)
  BY <1>1 DEF Stored
<1>3. Columns(d) = {"only"} /\ Columns(new) = Locales /\ Owners(new) = Owners(d)
  BY <1>1 DEF Columns, Owners, InitialSchema, Bilingual, PerUser
<1>4. \A r \in Stored(d) : d.prose[r]["only"] \in Locales \cup {Blank}
  BY <1>3 DEF WellFormed
<1>5. WellFormed(new)
  BY <1>1, <1>2, <1>3, <1>4 DEF WellFormed, Base, Latest, Bilingual, PerUser
<1>6. ReadsAsWritten(d) => ReadsAsWritten(new)
  BY <1>1, <1>2, <1>3 DEF ReadsAsWritten, Locales
<1> QED
  BY <1>1, <1>2, <1>5, <1>6 DEF new

LEMMA Merging == ASSUME NEW d, WellFormed(d), d.revision = Bilingual
                 PROVE  /\ WellFormed(MergeProse(d))
                        /\ ReadsAsWritten(d) => ReadsAsWritten(MergeProse(d))
                        /\ MergeProse(d).revision = InitialSchema
                        /\ Stored(MergeProse(d)) = Stored(d)
<1> DEFINE new == MergeProse(d)
<1>1. /\ DOMAIN new = {"revision", "statusType", "prose", "progress"}
      /\ new.revision = InitialSchema /\ new.statusType = d.statusType /\ new.progress = d.progress
      /\ new.prose = [r \in Stored(d) |-> [only |-> d.prose[r]["en"]]]
  BY DEF WellFormed, MergeProse
<1> HIDE DEF new
<1>2. Stored(new) = Stored(d)
  BY <1>1 DEF Stored
<1>3. Columns(new) = {"only"} /\ Columns(d) = Locales /\ Owners(new) = Owners(d)
  BY <1>1 DEF Columns, Owners, InitialSchema, Bilingual, PerUser
<1>4. \A r \in Stored(d) : d.prose[r]["en"] \in Locales \cup {Blank}
  BY <1>3 DEF WellFormed, Locales
<1>5. \A r \in Stored(d) : new.prose[r] = [col \in {"only"} |-> d.prose[r]["en"]]
  BY <1>1
<1>6. WellFormed(new)
  BY <1>1, <1>2, <1>3, <1>4, <1>5 DEF WellFormed, Base, Latest, InitialSchema, PerUser
<1>7. ReadsAsWritten(d) => ReadsAsWritten(new)
  BY <1>1, <1>2, <1>3, <1>5 DEF ReadsAsWritten, Locales
<1> QED
  BY <1>1, <1>2, <1>6, <1>7 DEF new

LEMMA Adding == ASSUME NEW d, WellFormed(d), d.revision = Bilingual
                PROVE  /\ WellFormed(AddOwners(d))
                       /\ ReadsAsWritten(d) => ReadsAsWritten(AddOwners(d))
                       /\ AddOwners(d).revision = Latest
                       /\ Stored(AddOwners(d)) = Stored(d)
<1> DEFINE new == AddOwners(d)
<1>1. /\ DOMAIN new = {"revision", "statusType", "prose", "progress"}
      /\ new.revision = PerUser /\ new.statusType = d.statusType /\ new.progress = {}
      /\ new.prose = d.prose
  BY DEF WellFormed, AddOwners
<1> HIDE DEF new
<1>2. Stored(new) = Stored(d) /\ Columns(new) = Locales /\ Columns(d) = Locales
  BY <1>1 DEF Stored, Columns, InitialSchema, Bilingual, PerUser
<1>3. WellFormed(new)
  BY <1>1, <1>2 DEF WellFormed, Base, Latest, PerUser
<1>4. ReadsAsWritten(d) => ReadsAsWritten(new)
  BY <1>1, <1>2 DEF ReadsAsWritten
<1> QED
  BY <1>1, <1>2, <1>3, <1>4 DEF new, Latest

LEMMA Removing == ASSUME NEW d, WellFormed(d), d.revision = PerUser
                  PROVE  /\ WellFormed(DropOwners(d))
                         /\ ReadsAsWritten(d) => ReadsAsWritten(DropOwners(d))
                         /\ DropOwners(d).revision = Bilingual
                         /\ Stored(DropOwners(d)) = Stored(d)
<1> DEFINE new == DropOwners(d)
<1>1. /\ DOMAIN new = {"revision", "statusType", "prose", "progress"}
      /\ new.revision = Bilingual /\ new.statusType = d.statusType
      /\ new.progress = {[p EXCEPT !.owner = Nobody] : p \in d.progress}
      /\ new.prose = d.prose
  BY DEF WellFormed, DropOwners
<1> HIDE DEF new
<1>2. /\ Stored(new) = Stored(d) /\ Columns(new) = Locales /\ Columns(d) = Locales
      /\ Owners(new) = {Nobody}
  BY <1>1 DEF Stored, Columns, Owners, InitialSchema, Bilingual, PerUser
<1>3. new.progress \subseteq [owner : Owners(new), row : Stored(new)]
  BY <1>1, <1>2 DEF WellFormed
<1>4. WellFormed(new)
  BY <1>1, <1>2, <1>3 DEF WellFormed, Base, Latest, Bilingual, PerUser
<1>5. ReadsAsWritten(d) => ReadsAsWritten(new)
  BY <1>1, <1>2 DEF ReadsAsWritten
<1> QED
  BY <1>1, <1>2, <1>4, <1>5 DEF new

\* `upgrade head' ends at the head, with what was stored, readable as before.
LEMMA Upgrading == ASSUME NEW d, WellFormed(d)
                   PROVE  /\ WellFormed(UpgradeHead(d))
                          /\ ReadsAsWritten(d) => ReadsAsWritten(UpgradeHead(d))
                          /\ UpgradeHead(d).revision = Latest
                          /\ d.revision # Base => Stored(UpgradeHead(d)) = Stored(d)
                          /\ d.revision = Base => Stored(UpgradeHead(d)) = {}
<1> USE DEF Base, InitialSchema, Bilingual, PerUser, Latest
<1>1. CASE d.revision = Base
  <2> DEFINE created == CreateTables(d)
             split == SplitProse(created)
  <2>1. /\ WellFormed(created) /\ ReadsAsWritten(created) /\ created.revision = InitialSchema
        /\ Stored(created) = {}
    BY Creating
  <2> HIDE DEF created
  <2>2. /\ WellFormed(split) /\ ReadsAsWritten(split) /\ split.revision = Bilingual
        /\ Stored(split) = {}
    BY <2>1, Splitting
  <2> HIDE DEF split
  <2>3. /\ WellFormed(AddOwners(split)) /\ ReadsAsWritten(AddOwners(split))
        /\ AddOwners(split).revision = Latest /\ Stored(AddOwners(split)) = {}
    BY <2>2, Adding
  <2>4. UpgradeHead(d) = AddOwners(split)
    BY <1>1 DEF UpgradeHead, split, created
  <2> QED
    BY <1>1, <2>3, <2>4
<1>2. CASE d.revision = InitialSchema
  <2> DEFINE split == SplitProse(d)
  <2>1. /\ WellFormed(split) /\ (ReadsAsWritten(d) => ReadsAsWritten(split))
        /\ split.revision = Bilingual /\ Stored(split) = Stored(d)
    BY <1>2, Splitting
  <2> HIDE DEF split
  <2>2. /\ WellFormed(AddOwners(split)) /\ (ReadsAsWritten(d) => ReadsAsWritten(AddOwners(split)))
        /\ AddOwners(split).revision = Latest /\ Stored(AddOwners(split)) = Stored(d)
    BY <2>1, Adding
  <2>3. UpgradeHead(d) = AddOwners(split)
    BY <1>2 DEF UpgradeHead, split
  <2> QED
    BY <1>2, <2>2, <2>3
<1>3. CASE d.revision = Bilingual
  BY <1>3, Adding DEF UpgradeHead
<1>4. CASE d.revision = PerUser
  BY <1>4 DEF UpgradeHead
<1> QED
  BY <1>1, <1>2, <1>3, <1>4 DEF WellFormed

\* One step back keeps what is stored, or ends at the empty database.
LEMMA Downgrading == ASSUME NEW d, WellFormed(d), CanDowngrade(d)
                     PROVE  /\ WellFormed(DowngradeOne(d))
                            /\ ReadsAsWritten(d) => ReadsAsWritten(DowngradeOne(d))
                            /\ DowngradeOne(d).revision # Latest
                            /\ Stored(DowngradeOne(d)) \in {Stored(d), {}}
<1> USE DEF Base, InitialSchema, Bilingual, PerUser, Latest
<1>1. CASE d.revision = PerUser
  BY <1>1, Removing DEF DowngradeOne
<1>2. CASE d.revision = Bilingual
  BY <1>2, Merging DEF DowngradeOne
<1>3. CASE d.revision = InitialSchema
  BY <1>3, Dropping DEF DowngradeOne
<1> QED
  BY <1>1, <1>2, <1>3 DEF WellFormed, CanDowngrade

-----------------------------------------------------------------------------
(* The fixtures, in the order of their names *)

PrefixOf(k) == {FixtureFiles[i] : i \in 1 .. k}

LEMMA Prefixes == /\ Len(FixtureFiles) \in Nat
                  /\ PrefixOf(0) = {}
                  /\ PrefixOf(Len(FixtureFiles)) = Slugs
                  /\ \A k \in Nat : PrefixOf(k + 1) = PrefixOf(k) \cup {FixtureFiles[k + 1]}
                  /\ \A j \in 1 .. Len(FixtureFiles), k \in 0 .. Len(FixtureFiles) :
                       FixtureFiles[j] \in PrefixOf(k) => j <= k
<1>1. Len(FixtureFiles) \in Nat /\ DOMAIN FixtureFiles = 1 .. Len(FixtureFiles)
  BY SchemaAssumption
<1>2. \A j \in 1 .. Len(FixtureFiles), k \in 0 .. Len(FixtureFiles) :
        FixtureFiles[j] \in PrefixOf(k) => j <= k
  BY <1>1, SchemaAssumption DEF PrefixOf
<1>3. PrefixOf(0) = {}
  BY DEF PrefixOf
<1>4. PrefixOf(Len(FixtureFiles)) = Slugs
  BY <1>1 DEF PrefixOf, Slugs
<1>5. ASSUME NEW k \in Nat
      PROVE  PrefixOf(k + 1) = PrefixOf(k) \cup {FixtureFiles[k + 1]}
  <2>1. 1 .. (k + 1) = (1 .. k) \cup {k + 1}
    OBVIOUS
  <2> QED
    BY <2>1 DEF PrefixOf
<1> QED
  BY <1>1, <1>2, <1>3, <1>4, <1>5

LEMMA FilesHaveSlugs == ASSUME NEW j \in 1 .. Len(FixtureFiles)
                        PROVE  FixtureFiles[j] \in Slugs
  BY SchemaAssumption DEF Slugs

-----------------------------------------------------------------------------
(* The inductive invariant *)

\* Who is not yet at its fixtures begins with the first; the row found has the
\* slug of the file that is stored.
Bookkeeping == \A c \in Containers :
  /\ pc[c] \in {"off", "migrating", "upgrading", "counting"} => at[c] = 1
  /\ pc[c] = "storing" /\ existing[c] # NoRow => existing[c].slug = File(c)

StoredSlugs == {r.slug : r \in Stored(db)}

\* The first k fixtures are stored; nobody is further, and who would store the
\* next is there unless somebody was stopped.
StoredUpTo(k) ==
  /\ StoredSlugs = PrefixOf(k)
  /\ \A c \in Containers : pc[c] \in Seeding => at[c] <= k + 1
  /\ \A c \in Containers : pc[c] = "serving" => k # 0 \/ Len(FixtureFiles) = 0
  /\ k = 0 \/ k = Len(FixtureFiles) \/ cutShort
       \/ \E c \in Containers : pc[c] \in Seeding /\ at[c] = k + 1

StoredInOrder == \E k \in 0 .. Len(FixtureFiles) : StoredUpTo(k)

BaseInv == TypeOK /\ ServesAtHead /\ Bookkeeping

\* What Store makes of the database.
LEMMA Reseeding == ASSUME BaseInv, NEW c \in Containers, pc[c] = "storing"
                   PROVE  /\ WellFormed(Reseeded(c))
                          /\ ReadsAsWritten(db) => ReadsAsWritten(Reseeded(c))
                          /\ Reseeded(c).revision = Latest
                          /\ Stored(Reseeded(c)) = (Stored(db) \ {existing[c]}) \cup {NewRow(c)}
                          /\ {r.slug : r \in Stored(Reseeded(c))} = StoredSlugs \cup {File(c)}
<1> DEFINE new == Reseeded(c)
           rows == (Stored(db) \ {existing[c]}) \cup {NewRow(c)}
<1>1. WellFormed(db) /\ db.revision = Latest
  BY DEF BaseInv, TypeOK, ServesAtHead, Seeding
<1>2. File(c) \in Slugs /\ Borrowed(File(c)) \in [Locales -> Locales]
  BY FilesHaveSlugs, BorrowedIsALanguage DEF BaseInv, TypeOK, Seeding, File
<1>3. existing[c] \in Rows \cup {NoRow}
  BY DEF BaseInv, TypeOK
<1>4. NewRow(c) \in Rows /\ NewRow(c).slug = File(c)
  BY <1>2, <1>3 DEF NewRow, Rows
<1>5. /\ DOMAIN new = {"revision", "statusType", "prose", "progress"}
      /\ new.revision = db.revision /\ new.statusType = db.statusType
      /\ new.prose = [r \in rows |-> IF r = NewRow(c) THEN Borrowed(File(c)) ELSE db.prose[r]]
      /\ new.progress = {p \in db.progress : p.row # existing[c]}
  BY <1>1 DEF WellFormed, Reseeded
<1> HIDE DEF new
<1>6. Stored(new) = rows
  BY <1>5 DEF Stored
<1>7. /\ Columns(new) = Locales /\ Columns(db) = Locales
      /\ Owners(new) = Users /\ Owners(db) = Users
  BY <1>1, <1>5 DEF Columns, Owners, Latest, PerUser, InitialSchema
<1>8. WellFormed(new)
  <2>1. \A r \in rows : new.prose[r] \in [Columns(new) -> Locales \cup {Blank}]
    BY <1>1, <1>2, <1>5, <1>7 DEF WellFormed
  <2>2. new.progress \subseteq [owner : Users, row : rows]
    BY <1>1, <1>5, <1>7 DEF WellFormed
  <2>3. rows \subseteq Rows
    BY <1>1, <1>4 DEF WellFormed
  <2> QED
    BY <1>1, <1>5, <1>6, <1>7, <2>1, <2>2, <2>3 DEF WellFormed
<1>9. ASSUME ReadsAsWritten(db) PROVE ReadsAsWritten(new)
  BY <1>4, <1>5, <1>6, <1>7, <1>9 DEF ReadsAsWritten, Locales
<1>10. {r.slug : r \in rows} = StoredSlugs \cup {File(c)}
  <2>1. existing[c] \in Stored(db) => existing[c].slug = File(c)
    BY <1>1, ProvisionAssumption DEF BaseInv, Bookkeeping, WellFormed
  <2> QED
    BY <1>4, <2>1 DEF StoredSlugs
<1> QED
  BY <1>1, <1>5, <1>6, <1>8, <1>9, <1>10 DEF new

LEMMA LegacyFits == ASSUME NEW d \in {EmptyDatabase} \cup Legacy
                    PROVE  /\ WellFormed(d) /\ ReadsAsWritten(d)
                           /\ {r.slug : r \in Stored(d)} \in {{}, Slugs}
<1> DEFINE rows == [slug : Slugs, version : {1}]
<1> USE DEF Base, InitialSchema, Bilingual, PerUser, Latest
<1>1. rows \subseteq Rows /\ {r.slug : r \in rows} = Slugs
  <2>1. \A s \in Slugs : \E r \in rows : r.slug = s
    <3>1. ASSUME NEW s \in Slugs
          PROVE  [slug |-> s, version |-> 1] \in rows /\ [slug |-> s, version |-> 1].slug = s
      OBVIOUS
    <3> QED
      BY <3>1
  <2>2. \A r \in rows : r.slug \in Slugs
    OBVIOUS
  <2> HIDE DEF rows
  <2>3. {r.slug : r \in rows} = Slugs
    BY <2>1, <2>2
  <2> QED
    BY <2>3 DEF Rows, rows
<1>2. \A r \in rows : /\ Borrowed(r.slug) \in [Locales -> Locales]
                     /\ Borrowed(r.slug)["en"] \in Locales
  BY BorrowedIsALanguage DEF Locales
<1> HIDE DEF rows
<1>3. CASE d = EmptyDatabase
  <2>1. d = [revision |-> 0, statusType |-> FALSE, prose |-> NoProse, progress |-> {}]
    BY <1>3 DEF EmptyDatabase
  <2>2. DOMAIN d = {"revision", "statusType", "prose", "progress"}
    BY <2>1
  <2>3. d.statusType \in BOOLEAN
    BY <2>1
  <2>4. Stored(d) = {} /\ d.revision = 0 /\ d.progress = {}
    BY <2>1 DEF Stored, NoProse
  <2>5. WellFormed(d)
    BY <2>2, <2>3, <2>4 DEF WellFormed
  <2> QED
    BY <2>4, <2>5 DEF ReadsAsWritten
<1>4. ASSUME NEW tried, tried \subseteq [owner : {Nobody}, row : rows],
             d = [revision |-> 1, statusType |-> TRUE, progress |-> tried,
                  prose |-> [r \in rows |-> [only |-> Borrowed(r.slug)["en"]]]]
      PROVE  WellFormed(d) /\ ReadsAsWritten(d) /\ Stored(d) = rows
  <2>1. d.statusType \in BOOLEAN
    BY <1>4
  <2>2. /\ DOMAIN d = {"revision", "statusType", "prose", "progress"}
        /\ d.revision = 1 /\ d.progress = tried /\ Stored(d) = rows
        /\ \A r \in rows : d.prose[r] = [only |-> Borrowed(r.slug)["en"]]
    BY <1>4 DEF Stored
  <2>3. Columns(d) = {"only"} /\ Owners(d) = {Nobody}
    BY <2>2 DEF Columns, Owners
  <2>4. ASSUME NEW r \in rows
        PROVE  /\ d.prose[r] \in [Columns(d) -> Locales \cup {Blank}]
               /\ d.prose[r]["only"] = Borrowed(r.slug)["en"]
    <3>1. d.prose[r] = [col \in {"only"} |-> Borrowed(r.slug)["en"]]
      BY <2>2
    <3> QED
      BY <1>2, <2>3, <3>1
  <2>5. d.progress \subseteq [owner : Owners(d), row : Stored(d)]
    BY <1>4, <2>2, <2>3
  <2>6. WellFormed(d)
    BY <1>1, <2>1, <2>2, <2>4, <2>5 DEF WellFormed
  <2> QED
    BY <2>2, <2>3, <2>4, <2>6 DEF ReadsAsWritten
<1>5. ASSUME NEW tried, tried \subseteq [owner : {Nobody}, row : rows],
             d = [revision |-> 2, statusType |-> TRUE, progress |-> tried,
                  prose |-> [r \in rows |-> Borrowed(r.slug)]]
      PROVE  WellFormed(d) /\ ReadsAsWritten(d) /\ Stored(d) = rows
  <2>1. d.statusType \in BOOLEAN
    BY <1>5
  <2>2. /\ DOMAIN d = {"revision", "statusType", "prose", "progress"}
        /\ d.revision = 2 /\ d.progress = tried /\ Stored(d) = rows
        /\ \A r \in rows : d.prose[r] = Borrowed(r.slug)
    BY <1>5 DEF Stored
  <2>3. Columns(d) = Locales /\ Owners(d) = {Nobody}
    BY <2>2 DEF Columns, Owners
  <2>4. \A r \in rows : d.prose[r] \in [Columns(d) -> Locales \cup {Blank}]
    BY <1>2, <2>2, <2>3
  <2>5. d.progress \subseteq [owner : Owners(d), row : Stored(d)]
    BY <1>5, <2>2, <2>3
  <2>6. WellFormed(d)
    BY <1>1, <2>1, <2>2, <2>4, <2>5 DEF WellFormed
  <2> QED
    BY <2>2, <2>3, <2>6 DEF ReadsAsWritten, Locales
<1>6. CASE d \in Legacy
  <2> DEFINE tries == {{}} \cup {{[owner |-> Nobody, row |-> r]} : r \in rows}
  <2>1. \A tried \in tries : tried \subseteq [owner : {Nobody}, row : rows]
    OBVIOUS
  <2>2. \E tried \in tries :
          \/ d = [revision |-> 1, statusType |-> TRUE, progress |-> tried,
                  prose |-> [r \in rows |-> [only |-> Borrowed(r.slug)["en"]]]]
          \/ d = [revision |-> 2, statusType |-> TRUE, progress |-> tried,
                  prose |-> [r \in rows |-> Borrowed(r.slug)]]
    BY <1>6, Zenon DEF Legacy, rows
  <2> QED
    BY <1>1, <1>4, <1>5, <2>1, <2>2
<1> QED
  BY <1>3, <1>6

LEMMA BaseInit == Init => BaseInv
<1> SUFFICES ASSUME Init PROVE BaseInv
  OBVIOUS
<1>1. WellFormed(db)
  BY LegacyFits DEF Init
<1>2. cutShort \in BOOLEAN
  BY DEF Init
<1>3. TypeOK
  BY <1>1, <1>2, ProvisionAssumption
     DEF Init, TypeOK, Steps, Seeding, Base, Latest, PerUser
<1> QED
  BY <1>3 DEF Init, BaseInv, ServesAtHead, Bookkeeping, Seeding

LEMMA BaseStep == BaseInv /\ [Next]_vars => BaseInv'
<1> SUFFICES ASSUME BaseInv, [Next]_vars PROVE BaseInv'
  OBVIOUS
<1> USE DEF BaseInv, Bookkeeping, ServesAtHead, File
<1>1. ASSUME NEW c \in Containers, Start(c)
      PROVE  BaseInv'
  BY <1>1 DEF Start, Goto, TypeOK, Steps, Seeding
<1>2. ASSUME NEW c \in Containers, ReadRevision(c)
      PROVE  BaseInv'
  <2>1. db.revision \in Base .. Latest
    BY DEF TypeOK, WellFormed
  <2> QED
    BY <1>2, <2>1 DEF ReadRevision, Goto, TypeOK, Steps, Seeding
<1>3. ASSUME NEW c \in Containers, Upgrade(c)
      PROVE  BaseInv'
  <2>1. WellFormed(UpgradeHead(db)) /\ UpgradeHead(db).revision = Latest
    BY Upgrading DEF TypeOK
  <2>2. CASE db' = UpgradeHead(db) /\ Goto(c, "counting") /\ UNCHANGED <<seen, at, existing>>
    BY <1>3, <2>1, <2>2 DEF Upgrade, Goto, TypeOK, Steps, Seeding
  <2>3. CASE UNCHANGED db /\ Leave(c)
    BY <1>3, <2>3 DEF Upgrade, Leave, Goto, TypeOK, Steps, Seeding, Base, Latest, PerUser
  <2> QED
    BY <1>3, <2>2, <2>3 DEF Upgrade
<1>4. ASSUME NEW c \in Containers, Count(c)
      PROVE  BaseInv'
  <2>1. FixtureFiles # <<>> => Len(FixtureFiles) \in Nat /\ 1 <= Len(FixtureFiles)
    BY SchemaAssumption
  <2> QED
    BY <1>4, <2>1 DEF Count, Goto, TypeOK, Steps, Seeding
<1>5. ASSUME NEW c \in Containers, FindExisting(c)
      PROVE  BaseInv'
  <2>1. existing' \in [Containers -> Rows \cup {NoRow}]
    BY <1>5 DEF FindExisting, StoredAs, TypeOK, WellFormed
  <2>2. existing'[c] # NoRow => existing'[c].slug = File(c)
    BY <1>5 DEF FindExisting, StoredAs, TypeOK
  <2>3. \A o \in Containers \ {c} : existing'[o] = existing[o]
    BY <1>5 DEF FindExisting, TypeOK
  <2> QED
    BY <1>5, <2>1, <2>2, <2>3 DEF FindExisting, Goto, TypeOK, Steps, Seeding
<1>6. ASSUME NEW c \in Containers, Store(c)
      PROVE  BaseInv'
  <2>1. WellFormed(Reseeded(c)) /\ Reseeded(c).revision = Latest
    BY <1>6, Reseeding DEF Store
  <2>2. Len(FixtureFiles) \in Nat /\ at[c] \in 1 .. Len(FixtureFiles)
    BY <1>6, SchemaAssumption DEF Store, TypeOK, Seeding
  <2>3. CASE /\ db' = Reseeded(c) /\ Goto(c, "serving") /\ UNCHANGED <<at, seen>>
             /\ existing' = [existing EXCEPT ![c] = NoRow]
    BY <1>6, <2>1, <2>2, <2>3 DEF Store, Goto, TypeOK, Steps, Seeding
  <2>4. CASE /\ db' = Reseeded(c) /\ at[c] # Len(FixtureFiles) /\ Goto(c, "seeding")
             /\ at' = [at EXCEPT ![c] = @ + 1] /\ existing' = [existing EXCEPT ![c] = NoRow]
             /\ UNCHANGED seen
    BY <1>6, <2>1, <2>2, <2>4 DEF Store, Goto, TypeOK, Steps, Seeding
  <2>5. CASE UNCHANGED db /\ Leave(c)
    BY <1>6, <2>5 DEF Store, Leave, Goto, TypeOK, Steps, Seeding, Base, Latest, PerUser
  <2> QED
    BY <1>6, <2>3, <2>4, <2>5 DEF Store
<1>7. ASSUME NEW c \in Containers, Stop(c)
      PROVE  BaseInv'
  <2>1. cutShort' \in BOOLEAN
    BY <1>7 DEF Stop
  <2>2. stops' \in 0 .. MaxStops
    BY <1>7, ProvisionAssumption DEF Stop, TypeOK
  <2> QED
    BY <1>7, <2>1, <2>2 DEF Stop, Leave, Goto, TypeOK, Steps, Seeding, Base, Latest, PerUser
<1>8. ASSUME NEW u \in Users, NEW r \in Stored(db), Learn(u, r)
      PROVE  BaseInv'
  <2>1. WellFormed(db) /\ db.revision = Latest
    BY <1>8 DEF Learn, TypeOK
  <2>2. Owners(db) = Users
    BY <2>1 DEF Owners, Latest
  <2>3. /\ DOMAIN db' = {"revision", "statusType", "prose", "progress"}
        /\ db'.revision = db.revision /\ db'.statusType = db.statusType /\ db'.prose = db.prose
        /\ db'.progress = db.progress \cup {[owner |-> u, row |-> r]}
    BY <1>8, <2>1 DEF Learn, WellFormed
  <2>4. Columns(db') = Columns(db) /\ Owners(db') = Users /\ Stored(db') = Stored(db)
    BY <2>2, <2>3 DEF Columns, Owners, Stored
  <2>5. WellFormed(db')
    BY <2>1, <2>2, <2>3, <2>4 DEF WellFormed
  <2> QED
    BY <1>8, <2>3, <2>5 DEF Learn, TypeOK, Seeding
<1>9. CASE Rollback
  <2>1. WellFormed(DowngradeOne(db))
    BY <1>9, Downgrading DEF Rollback, TypeOK
  <2>2. rollbacks' \in 0 .. MaxRollbacks
    BY <1>9, ProvisionAssumption DEF Rollback, TypeOK
  <2> QED
    BY <1>9, <2>1, <2>2 DEF Rollback, TypeOK, Seeding
<1>10. CASE UNCHANGED vars
  BY <1>10 DEF vars, TypeOK, Seeding
<1> QED
  BY <1>1, <1>2, <1>3, <1>4, <1>5, <1>6, <1>7, <1>8, <1>9, <1>10 DEF Next, Provide

LEMMA BaseInvariant == Spec => []BaseInv
  BY BaseInit, BaseStep, PTL DEF Spec

\* Every variable keeps its type, and what is stored fits the tables of the
\* schema's revision, after any migrations, there and back.
THEOREM TypeCorrect == Spec => []TypeOK
  BY BaseInvariant, PTL DEF BaseInv

\* Nobody counts lessons, seeds or serves on a schema that is not at the head.
THEOREM EveryoneServesAtHead == Spec => []ServesAtHead
  BY BaseInvariant, PTL DEF BaseInv

-----------------------------------------------------------------------------
(* The prose *)

\* A lesson reads as it was written, or in English, through migrations, seeding
\* and rollbacks in any order.
THEOREM ProseStaysWhole == Spec => []ProseIsWhole
<1>1. Init => ProseIsWhole
  BY LegacyFits DEF Init, ProseIsWhole
<1>2. ASSUME BaseInv, ProseIsWhole, [Next]_vars
      PROVE  ProseIsWhole'
  <2> SUFFICES ReadsAsWritten(db')
    BY DEF ProseIsWhole
  <2>1. WellFormed(db) /\ ReadsAsWritten(db)
    BY <1>2 DEF BaseInv, TypeOK, ProseIsWhole
  <2>2. ASSUME NEW c \in Containers, Upgrade(c)
        PROVE  ReadsAsWritten(db')
    BY <2>1, <2>2, Upgrading DEF Upgrade
  <2>3. ASSUME NEW c \in Containers, Store(c)
        PROVE  ReadsAsWritten(db')
    <3>1. ReadsAsWritten(Reseeded(c))
      BY <1>2, <2>1, <2>3, Reseeding DEF Store
    <3> QED
      BY <2>1, <2>3, <3>1 DEF Store
  <2>4. ASSUME NEW u \in Users, NEW r \in Stored(db), Learn(u, r)
        PROVE  ReadsAsWritten(db')
    <3>1. db'.prose = db.prose /\ db'.revision = db.revision
      BY <2>1, <2>4 DEF Learn, WellFormed
    <3> QED
      BY <2>1, <3>1 DEF ReadsAsWritten, Stored, Columns
  <2>5. CASE Rollback
    BY <2>1, <2>5, Downgrading DEF Rollback
  <2>6. CASE UNCHANGED db
    BY <2>1, <2>6
  <2>7. ASSUME NEW c \in Containers,
               Start(c) \/ ReadRevision(c) \/ Count(c) \/ FindExisting(c) \/ Stop(c)
        PROVE  UNCHANGED db
    BY <2>7 DEF Start, ReadRevision, Count, FindExisting, Stop
  <2> QED
    BY <1>2, <2>2, <2>3, <2>4, <2>5, <2>6, <2>7 DEF Next, Provide, vars
<1> QED
  BY <1>1, <1>2, BaseInvariant, PTL DEF Spec

-----------------------------------------------------------------------------
(* Deployments *)

\* Once lessons are stored and nobody seeds, no start, stop or failure takes a
\* lesson row or a progress row away.
THEOREM DeploymentsAreHarmless == Spec => DeploymentsKeepProgress
<1>1. ASSUME BaseInv, [Next]_vars, Settled, db'.revision = Latest
      PROVE  /\ Settled' /\ Stored(db) \subseteq Stored(db')
             /\ db.progress \subseteq db'.progress
  <2> USE DEF Settled, Seeding
  <2>1. WellFormed(db) /\ pc \in [Containers -> Steps]
    BY <1>1 DEF BaseInv, TypeOK
  <2>2. ASSUME NEW c \in Containers, Start(c) \/ ReadRevision(c) \/ Count(c)
        PROVE  UNCHANGED db /\ \A o \in Containers : pc'[o] \notin Seeding
    BY <1>1, <2>1, <2>2 DEF Start, ReadRevision, Count, Goto
  <2>3. ASSUME NEW c \in Containers, Stop(c)
        PROVE  UNCHANGED db /\ \A o \in Containers : pc'[o] \notin Seeding
    BY <1>1, <2>1, <2>3 DEF Stop, Leave, Goto
  <2>4. ASSUME NEW c \in Containers, Upgrade(c)
        PROVE  UNCHANGED db /\ \A o \in Containers : pc'[o] \notin Seeding
    <3>1. UpgradeHead(db) = db
      BY <1>1 DEF UpgradeHead, Base, InitialSchema, Bilingual, Latest, PerUser
    <3> QED
      BY <1>1, <2>1, <2>4, <3>1 DEF Upgrade, Leave, Goto
  <2>5. ASSUME NEW c \in Containers, FindExisting(c) \/ Store(c)
        PROVE  FALSE
    BY <1>1, <2>5 DEF FindExisting, Store
  <2>6. ASSUME NEW u \in Users, NEW r \in Stored(db), Learn(u, r)
        PROVE  /\ db'.prose = db.prose /\ db.progress \subseteq db'.progress
               /\ UNCHANGED pc
    BY <2>1, <2>6 DEF Learn, WellFormed
  <2>7. CASE Rollback
    BY <1>1, <2>1, <2>7, Downgrading DEF Rollback
  <2>8. CASE UNCHANGED vars
    BY <1>1, <2>8 DEF vars
  <2>9. CASE UNCHANGED db /\ \A o \in Containers : pc'[o] \notin Seeding
    BY <1>1, <2>9
  <2>10. CASE \E u \in Users, r \in Stored(db) : Learn(u, r)
    BY <1>1, <2>6, <2>10 DEF Stored
  <2> QED
    BY <1>1, <2>2, <2>3, <2>4, <2>5, <2>7, <2>8, <2>9, <2>10 DEF Next, Provide
<1>2. BaseInv /\ [Next]_vars =>
        (Settled /\ db'.revision = Latest =>
           Settled' /\ Stored(db) \subseteq Stored(db') /\ db.progress \subseteq db'.progress)
  BY <1>1
<1> QED
  BY <1>2, BaseInvariant, PTL DEF Spec, DeploymentsKeepProgress

-----------------------------------------------------------------------------
(* Seeding *)

LEMMA OrderInit == Init => StoredInOrder
<1> SUFFICES ASSUME Init PROVE StoredInOrder
  OBVIOUS
<1>1. StoredSlugs = {} \/ StoredSlugs = Slugs
  BY LegacyFits DEF Init, StoredSlugs
<1>2. ASSUME NEW k \in {0, Len(FixtureFiles)}, StoredSlugs = PrefixOf(k)
      PROVE  StoredUpTo(k)
  BY <1>2, Prefixes DEF Init, StoredUpTo, Seeding
<1>3. /\ 0 \in 0 .. Len(FixtureFiles) /\ Len(FixtureFiles) \in 0 .. Len(FixtureFiles)
      /\ PrefixOf(0) = {} /\ PrefixOf(Len(FixtureFiles)) = Slugs
  BY Prefixes
<1>4. CASE StoredSlugs = {}
  BY <1>2, <1>3, <1>4 DEF StoredInOrder
<1>5. CASE StoredSlugs = Slugs
  BY <1>2, <1>3, <1>5 DEF StoredInOrder
<1> QED
  BY <1>1, <1>4, <1>5

LEMMA OrderStep == BaseInv /\ StoredInOrder /\ [Next]_vars => StoredInOrder'
<1> SUFFICES ASSUME BaseInv, StoredInOrder, [Next]_vars PROVE StoredInOrder'
  OBVIOUS
<1> DEFINE last == Len(FixtureFiles)
<1>1. PICK k \in 0 .. last : StoredUpTo(k)
  BY DEF StoredInOrder
<1>2. last \in Nat /\ k \in Nat
  BY Prefixes
<1>3. \A i \in 0 .. last : StoredUpTo(i)' => StoredInOrder'
  BY DEF StoredInOrder
<1>4. /\ pc \in [Containers -> Steps] /\ at \in [Containers -> Nat] /\ WellFormed(db)
      /\ \A c \in Containers : pc[c] \in Seeding => at[c] \in 1 .. last
  BY DEF BaseInv, TypeOK
<1>5. StoredSlugs = {} <=> Stored(db) = {}
  BY DEF StoredSlugs
<1> HIDE DEF last
<1> USE DEF Seeding
\* A step that neither stores nor lets anybody seed or serve.
<1>6. ASSUME StoredSlugs' = StoredSlugs, UNCHANGED <<at, cutShort>>,
             \A c \in Containers : /\ (pc'[c] \in Seeding) = (pc[c] \in Seeding)
                                   /\ pc'[c] = "serving" => pc[c] = "serving"
      PROVE  StoredInOrder'
  BY <1>1, <1>2, <1>3, <1>6 DEF StoredUpTo, last
<1>7. ASSUME NEW c \in Containers, Start(c) \/ ReadRevision(c) \/ FindExisting(c)
      PROVE  StoredInOrder'
  BY <1>4, <1>6, <1>7 DEF Start, ReadRevision, FindExisting, Goto, StoredSlugs
<1>8. ASSUME NEW c \in Containers, Upgrade(c)
      PROVE  StoredInOrder'
  <2>1. CASE db' = UpgradeHead(db) /\ Goto(c, "counting") /\ UNCHANGED <<seen, at, existing>>
    <3>1. CASE db.revision # Base
      <4>1. StoredSlugs' = StoredSlugs
        BY <1>4, <2>1, <3>1, Upgrading DEF StoredSlugs
      <4> QED
        BY <1>4, <1>6, <1>8, <2>1, <4>1 DEF Upgrade, Goto
    <3>2. CASE db.revision = Base
      <4>1. StoredSlugs' = {}
        BY <1>4, <2>1, <3>2, Upgrading DEF StoredSlugs
      <4>2. \A o \in Containers : pc'[o] \notin Seeding \cup {"serving"}
        BY <1>4, <2>1, <3>2 DEF Goto, BaseInv, ServesAtHead, Base, Latest, PerUser
      <4>3. StoredUpTo(0)'
        BY <4>1, <4>2, Prefixes DEF StoredUpTo
      <4> QED
        BY <1>2, <1>3, <4>3
    <3> QED
      BY <3>1, <3>2
  <2>2. CASE UNCHANGED db /\ Leave(c)
    <3>1. at[c] = 1
      BY <1>8 DEF Upgrade, BaseInv, Bookkeeping
    <3>2. UNCHANGED <<at, cutShort>>
      BY <1>4, <1>8, <2>2, <3>1 DEF Upgrade, Leave
    <3> QED
      BY <1>4, <1>6, <1>8, <2>2, <3>2 DEF Upgrade, Leave, Goto, StoredSlugs
  <2> QED
    BY <1>8, <2>1, <2>2 DEF Upgrade
<1>9. ASSUME NEW c \in Containers, Count(c)
      PROVE  StoredInOrder'
  <2>1. at[c] = 1
    BY <1>9 DEF Count, BaseInv, Bookkeeping
  <2>2. StoredSlugs' = StoredSlugs /\ UNCHANGED <<at, cutShort>>
    BY <1>9 DEF Count, StoredSlugs
  <2>3. pc'[c] \in {"seeding", "serving"} /\ pc[c] = "counting"
    BY <1>4, <1>9 DEF Count, Goto
  <2>4. \A o \in Containers \ {c} : pc'[o] = pc[o]
    BY <1>4, <1>9 DEF Count, Goto
  <2>5. pc'[c] = "serving" => k # 0 \/ last = 0
    <3>1. pc'[c] = "serving" => Stored(db) # {} \/ FixtureFiles = <<>>
      BY <1>4, <1>9 DEF Count, Goto
    <3>2. FixtureFiles = <<>> => last = 0
      BY DEF last
    <3> QED
      BY <1>1, <1>5, <3>1, <3>2, Prefixes DEF StoredUpTo
  <2>6. StoredUpTo(k)'
    BY <1>1, <1>2, <2>1, <2>2, <2>3, <2>4, <2>5 DEF StoredUpTo, last
  <2> QED
    BY <1>3, <2>6
<1>10. ASSUME NEW c \in Containers, Store(c)
       PROVE  StoredInOrder'
  <2>1. /\ pc[c] = "storing" /\ at[c] \in 1 .. last /\ at[c] <= k + 1
        /\ UNCHANGED cutShort
    BY <1>1, <1>4, <1>10 DEF Store, StoredUpTo
  <2>2. CASE db' = Reseeded(c)
             /\ IF at[c] = last THEN Goto(c, "serving") /\ UNCHANGED at
                                ELSE Goto(c, "seeding") /\ at' = [at EXCEPT ![c] = @ + 1]
    <3>1. StoredSlugs' = StoredSlugs \cup {File(c)}
      BY <2>1, <2>2, Reseeding DEF StoredSlugs
    <3>2. \A o \in Containers \ {c} : pc'[o] = pc[o] /\ at'[o] = at[o]
      BY <1>4, <2>2 DEF Goto
    <3>3. \/ at[c] = last /\ pc'[c] = "serving"
          \/ at[c] < last /\ pc'[c] = "seeding" /\ at'[c] = at[c] + 1
      BY <1>2, <1>4, <2>1, <2>2 DEF Goto
    <3>4. CASE at[c] = k + 1
      <4>1. StoredSlugs' = PrefixOf(k + 1)
        BY <1>1, <1>2, <3>1, <3>4, Prefixes DEF StoredUpTo, File
      <4>2. k + 1 \in 0 .. last
        BY <1>2, <2>1, <3>4
      <4>3. \A o \in Containers : pc'[o] \in Seeding => at'[o] <= k + 2
        BY <1>1, <1>2, <1>4, <3>2, <3>3, <3>4 DEF StoredUpTo
      <4>4. k + 1 = last \/ (pc'[c] \in Seeding /\ at'[c] = k + 2)
        BY <1>2, <3>3, <3>4
      <4>5. StoredUpTo(k + 1)'
        BY <1>2, <4>1, <4>3, <4>4 DEF StoredUpTo, last
      <4> QED
        BY <1>3, <4>2, <4>5
    <3>5. CASE at[c] # k + 1
      <4>1. at[c] <= k /\ k # 0
        BY <1>2, <2>1, <3>5
      <4>2. File(c) \in PrefixOf(k)
        BY <1>2, <2>1, <4>1 DEF PrefixOf, File
      <4>3. StoredSlugs' = PrefixOf(k)
        BY <1>1, <3>1, <4>2 DEF StoredUpTo
      <4>4. \A o \in Containers : pc'[o] \in Seeding => at'[o] <= k + 1
        BY <1>1, <1>2, <1>4, <3>2, <3>3, <4>1 DEF StoredUpTo
      <4>5. ASSUME NEW o \in Containers, pc[o] \in Seeding, at[o] = k + 1
            PROVE  pc'[o] \in Seeding /\ at'[o] = k + 1
        BY <3>2, <3>5, <4>5
      <4>6. StoredUpTo(k)'
        BY <1>1, <2>1, <4>1, <4>3, <4>4, <4>5 DEF StoredUpTo
      <4> QED
        BY <1>3, <4>6
    <3> QED
      BY <3>4, <3>5
  <2>3. CASE ~ (StoredAs(File(c)) \subseteq {existing[c]}) /\ UNCHANGED db /\ Leave(c)
    <3>1. File(c) \in PrefixOf(k)
      <4>1. PICK r \in Stored(db) : r.slug = File(c)
        BY <2>3 DEF StoredAs
      <4> QED
        BY <1>1, <4>1 DEF StoredUpTo, StoredSlugs
    <3>2. at[c] <= k
      BY <2>1, <3>1, Prefixes DEF File, last
    <3>3. /\ \A o \in Containers \ {c} : pc'[o] = pc[o] /\ at'[o] = at[o]
          /\ pc'[c] = "off"
      BY <1>4, <2>3 DEF Leave, Goto
    <3>4. ASSUME NEW o \in Containers, pc[o] \in Seeding, at[o] = k + 1
          PROVE  pc'[o] \in Seeding /\ at'[o] = k + 1
      BY <1>2, <2>1, <3>2, <3>3, <3>4
    <3>5. StoredSlugs' = StoredSlugs
      BY <2>3 DEF StoredSlugs
    <3>6. StoredUpTo(k)'
      BY <1>1, <2>1, <3>3, <3>4, <3>5 DEF StoredUpTo
    <3> QED
      BY <1>3, <3>6
  <2> QED
    BY <1>10, <2>2, <2>3 DEF Store, last
<1>11. ASSUME NEW c \in Containers, Stop(c)
       PROVE  StoredInOrder'
  <2>1. /\ \A o \in Containers \ {c} : pc'[o] = pc[o] /\ at'[o] = at[o]
        /\ pc'[c] = "off" /\ StoredSlugs' = StoredSlugs
    BY <1>4, <1>11 DEF Stop, Leave, Goto, StoredSlugs
  <2>2. cutShort \/ (pc[c] \in Seeding /\ at[c] > 1) => cutShort'
    BY <1>11 DEF Stop
  <2>3. k = 0 \/ k = last \/ cutShort'
          \/ \E o \in Containers : pc'[o] \in Seeding /\ at'[o] = k + 1
    <3>1. CASE pc[c] \in Seeding /\ at[c] = k + 1 /\ k # 0
      BY <1>2, <2>2, <3>1
    <3>2. CASE ~ (pc[c] \in Seeding /\ at[c] = k + 1)
      BY <1>1, <2>1, <2>2, <3>2 DEF StoredUpTo, last
    <3> QED
      BY <3>1, <3>2
  <2>4. StoredUpTo(k)'
    BY <1>1, <2>1, <2>3 DEF StoredUpTo, last
  <2> QED
    BY <1>3, <2>4
<1>12. ASSUME NEW u \in Users, NEW r \in Stored(db), Learn(u, r)
       PROVE  StoredInOrder'
  <2>1. StoredSlugs' = StoredSlugs
    BY <1>4, <1>12 DEF Learn, WellFormed, StoredSlugs, Stored
  <2> QED
    BY <1>6, <1>12, <2>1 DEF Learn
<1>13. CASE Rollback
  <2>1. Stored(db') = Stored(db) \/ Stored(db') = {}
    BY <1>4, <1>13, Downgrading DEF Rollback
  <2>2. CASE Stored(db') = Stored(db)
    BY <1>6, <1>13, <2>2 DEF Rollback, StoredSlugs
  <2>3. CASE Stored(db') = {}
    <3>1. StoredUpTo(0)'
      BY <1>13, <2>3, Prefixes DEF Rollback, StoredUpTo, StoredSlugs
    <3> QED
      BY <1>2, <1>3, <3>1
  <2> QED
    BY <2>1, <2>2, <2>3
<1>14. CASE UNCHANGED vars
  BY <1>6, <1>14 DEF vars, StoredSlugs
<1> QED
  BY <1>7, <1>8, <1>9, <1>10, <1>11, <1>12, <1>13, <1>14 DEF Next, Provide

\* When somebody serves, nobody seeds and nobody was stopped amid its fixtures,
\* every fixture is stored, however many containers have seeded at once.
THEOREM SeedingCompletes == Spec => []SeededUnlessCutShort
<1>1. BaseInv /\ StoredInOrder => SeededUnlessCutShort
  BY Prefixes DEF StoredInOrder, StoredUpTo, StoredSlugs, SeededUnlessCutShort
<1> QED
  BY <1>1, OrderInit, OrderStep, BaseInvariant, PTL DEF Spec
=============================================================================
