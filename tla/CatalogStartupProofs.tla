------------------------- MODULE CatalogStartupProofs -------------------------
(***************************************************************************)
(* Proofs about CatalogStartup, for any commands, configurations, history   *)
(* of analyses and curations of the release before.                        *)
(***************************************************************************)
EXTENDS CatalogStartup, TLAPS

-----------------------------------------------------------------------------
(* The inductive invariant.                                                *)

Analyses  == Seq([track : Tracks, ok : BOOLEAN])
IsCuration(k) == k = [id |-> k.id, prompt |-> k.prompt, status |-> k.status]

\* The columns of a database.
IsDatabase(db) ==
    /\ db = [version |-> db.version, tables |-> db.tables, analyses |-> db.analyses,
             projection |-> db.projection, curations |-> db.curations,
             sources |-> db.sources, linked |-> db.linked]
    /\ db.analyses \in Analyses
    /\ \A k \in db.curations : IsCuration(k)

\* What the version of a database says about the rest of it.
VersionTells(db) ==
    /\ db.version = 0 => /\ db.analyses = << >> /\ db.projection = << >>
                         /\ db.curations = {}
    /\ db.version \in 6..Current => db.tables = OldTables(db.version)
    /\ db.version \in 7..Current => db.projection = LatestSuccess(db.analyses)
    /\ db.version = Current => \A k \in db.curations : k.prompt # Blank

Phases == {"closed", "version", "pending", "check", "script", "record", "sources", "up",
           "refused"}

Shape ==
    /\ TypeOK
    /\ IsDatabase(catalog)
    /\ pc \in [Commands -> Phases]
    /\ todo \in [Commands -> SUBSET Names]
    /\ config = [c \in Commands |-> config[c]]

Supported  == catalog.version = 0 \/ catalog.version \in 6..Current
Applied(n) == IF n = 0 THEN catalog.version # 0 ELSE catalog.version >= To(n)

\* What a command found out is still so, unless it met another one.
CommandKnows(c) ==
    /\ pc[c] \notin {"closed", "version", "refused"} => Supported
    /\ pc[c] \in {"check", "script", "record"} =>
           /\ todo[c] # {} /\ Names \ todo[c] \subseteq ledger
           /\ todo[c] \cap ledger # {} => c \in met
    /\ pc[c] = "script" /\ catalog.version # From(Migration(c)) => c \in met
    /\ pc[c] = "record" => Applied(Migration(c))
    /\ pc[c] \in {"sources", "up"} => ledger = Names
    /\ pc[c] = "up" => DOMAIN config[c] \subseteq DOMAIN catalog.sources
    /\ \A s \in DOMAIN config[c] : ~IsWithin(Database, config[c][s])

\* Two commands that start up at the same time have met.
MetEachOther ==
    \A c, d \in Commands : c # d /\ Starting(c) /\ Starting(d) => c \in met

Sound ==
    /\ Shape /\ VersionTells(catalog) /\ LedgerIsTrue /\ CatalogIsOutsideSources
    /\ MetEachOther /\ AStartAloneSucceeds
    /\ \A c \in Commands : CommandKnows(c)

-----------------------------------------------------------------------------
(* Lemmas about the operators.                                             *)

\* The tables of each version: a migration adds its own.
LEMMA TablesOf ==
    /\ OldTables(6) = BaseTables
    /\ OldTables(7) = OldTables(6) \cup {"current_track_analysis"}
    /\ OldTables(8) = OldTables(7) \cup
           {"input facts of technical_audio_metadata", "audio_fingerprints",
            "duplicate_quality_selections"}
    /\ OldTables(9) = OldTables(8) \cup
           {"mastering_analysis", "current_mastering_analysis", "current_dj_analysis"}
    /\ OldTables(10) = OldTables(9) \cup CurationTables
    /\ OldTables(11) = OldTables(10) \cup {"checked curation text"}
    /\ OldTables(11) = CatalogTables
<1>1. ASSUME NEW v
      PROVE  /\ Backfill(Empty(v)).tables = {"current_track_analysis"}
             /\ AddDuplicates(Empty(v)).tables =
                    {"input facts of technical_audio_metadata", "audio_fingerprints",
                     "duplicate_quality_selections"}
             /\ AddMastering(Empty(v)).tables =
                    {"mastering_analysis", "current_mastering_analysis", "current_dj_analysis"}
  BY DEF Backfill, AddDuplicates, AddMastering, Empty
<1>2. OldTables(6) = BaseTables
  BY DEF OldTables
<1>3. OldTables(7) = BaseTables \cup Backfill(Empty(7)).tables
  BY DEF OldTables
<1>4. OldTables(8) = BaseTables \cup Backfill(Empty(8)).tables \cup AddDuplicates(Empty(8)).tables
  BY DEF OldTables
<1>5. OldTables(9) = BaseTables \cup Backfill(Empty(9)).tables \cup AddDuplicates(Empty(9)).tables
                     \cup AddMastering(Empty(9)).tables
  BY DEF OldTables
<1>6. OldTables(10) = BaseTables \cup Backfill(Empty(10)).tables
                      \cup AddDuplicates(Empty(10)).tables
                      \cup AddMastering(Empty(10)).tables \cup CurationTables
  BY DEF OldTables
<1>7. OldTables(11) = BaseTables \cup Backfill(Empty(11)).tables
                      \cup AddDuplicates(Empty(11)).tables
                      \cup AddMastering(Empty(11)).tables \cup CurationTables
                      \cup {"checked curation text"}
  BY DEF OldTables
<1>8. OldTables(11) = CatalogTables
  BY <1>1, <1>7 DEF CatalogTables
<1> QED
  BY <1>1, <1>2, <1>3, <1>4, <1>5, <1>6, <1>7, <1>8

LEMMA TablesGrow == \A v \in 6..Current : OldTables(v) \subseteq CatalogTables
<1>1. \A v \in 6..11 : v = 6 \/ v = 7 \/ v = 8 \/ v = 9 \/ v = 10 \/ v = 11
  OBVIOUS
<1> QED
  BY <1>1, TablesOf DEF Current

\* The versions a migration goes from and to.
LEMMA Versions ==
    ASSUME NEW n \in Names
    PROVE  /\ From(n) \in Nat /\ To(n) \in 7..Current /\ From(n) < To(n)
           /\ n = 0 => From(n) = 0 /\ To(n) = Current
           /\ n # 0 => From(n) = n + 5 /\ To(n) = n + 6 /\ From(n) \in 6..10
<1>1. n = 0 \/ n = 1 \/ n = 2 \/ n = 3 \/ n = 4 \/ n = 5
  BY DEF Names
<1> QED
  BY <1>1 DEF From, To, Current

LEMMA NoSuccess == LatestSuccess(<< >>) = << >>
  BY DEF LatestSuccess

\* The next migration is the lowest pending one.
LEMMA MigrationIsFirst ==
    ASSUME NEW c, todo[c] \subseteq Names, todo[c] # {}
    PROVE  /\ Migration(c) \in todo[c] /\ Migration(c) \in Names
           /\ \A m \in todo[c] : Migration(c) <= m
<1>1. \E n \in todo[c] : \A m \in todo[c] : n <= m
  <2>1. \A n \in todo[c] : n = 0 \/ n = 1 \/ n = 2 \/ n = 3 \/ n = 4 \/ n = 5
    BY DEF Names
  <2>2. CASE 0 \in todo[c]
    BY <2>1, <2>2
  <2>3. CASE 0 \notin todo[c] /\ 1 \in todo[c]
    BY <2>1, <2>3
  <2>4. CASE 0 \notin todo[c] /\ 1 \notin todo[c] /\ 2 \in todo[c]
    BY <2>1, <2>4
  <2>5. CASE 0 \notin todo[c] /\ 1 \notin todo[c] /\ 2 \notin todo[c] /\ 3 \in todo[c]
    BY <2>1, <2>5
  <2>6. CASE \A n \in 0..3 : n \notin todo[c]
    BY <2>1, <2>6
  <2> QED
    BY <2>2, <2>3, <2>4, <2>5, <2>6
<1> QED
  BY <1>1 DEF Migration

\* The rows a migration may not lose.
KeepsRows(old, new) ==
    /\ new.analyses = old.analyses /\ new.sources = old.sources /\ new.linked = old.linked
    /\ \A k \in old.curations : \E l \in new.curations :
          /\ l.id = k.id /\ l.status = k.status
          /\ k.prompt # Blank => l.prompt = k.prompt

\* What a script leaves when it applies: the next version, what that says, and
\* every row there was.
LEMMA ScriptKeeps ==
    ASSUME NEW db, IsDatabase(db), VersionTells(db), NEW n \in Names,
           db.version = From(n), n = 0 => db.tables = {}
    PROVE  /\ IsDatabase(Script(n, db)) /\ VersionTells(Script(n, db))
           /\ Script(n, db).version = To(n)
           /\ KeepsRows(db, Script(n, db))
<1>1. n = 0 \/ n = 1 \/ n = 2 \/ n = 3 \/ n = 4 \/ n = 5
  BY DEF Names
<1>2. CASE n = 0
  <2>1. Script(n, db) = [db EXCEPT !.tables = CatalogTables, !.version = Current]
    BY <1>2 DEF Script, To, IsDatabase
  <2> QED
    BY <1>2, <2>1, TablesOf, NoSuccess
    DEF IsDatabase, VersionTells, KeepsRows, From, To, Current
<1>3. CASE n = 1
  <2>1. Script(n, db) = [db EXCEPT !.tables = @ \cup {"current_track_analysis"},
                                   !.projection = LatestSuccess(db.analyses), !.version = 7]
    BY <1>3 DEF Script, To, From, IsDatabase, Backfill
  <2>2. db.tables = OldTables(6) /\ db.version = 6
    BY <1>3 DEF VersionTells, From, Current
  <2>3. /\ Script(n, db).tables = OldTables(7) /\ Script(n, db).version = 7
        /\ Script(n, db).projection = LatestSuccess(db.analyses)
        /\ IsDatabase(Script(n, db)) /\ KeepsRows(db, Script(n, db))
    BY <2>1, <2>2, TablesOf DEF IsDatabase, KeepsRows
  <2> QED
    BY <1>3, <2>2, <2>3 DEF VersionTells, KeepsRows, To, From, Current
<1>4. CASE n = 2
  <2>1. Script(n, db) = [db EXCEPT !.tables = @ \cup
                {"input facts of technical_audio_metadata", "audio_fingerprints",
                 "duplicate_quality_selections"}, !.version = 8]
    BY <1>4 DEF Script, To, From, IsDatabase, AddDuplicates
  <2>2. db.tables = OldTables(7) /\ db.version = 7
    BY <1>4 DEF VersionTells, From, Current
  <2>3. /\ Script(n, db).tables = OldTables(8) /\ Script(n, db).version = 8
        /\ Script(n, db).projection = db.projection
        /\ IsDatabase(Script(n, db)) /\ KeepsRows(db, Script(n, db))
    BY <2>1, <2>2, TablesOf DEF IsDatabase, KeepsRows
  <2> QED
    BY <1>4, <2>2, <2>3 DEF VersionTells, KeepsRows, To, From, Current
<1>5. CASE n = 3
  <2>1. Script(n, db) = [db EXCEPT !.tables = @ \cup
                {"mastering_analysis", "current_mastering_analysis", "current_dj_analysis"},
                                   !.version = 9]
    BY <1>5 DEF Script, To, From, IsDatabase, AddMastering
  <2>2. db.tables = OldTables(8) /\ db.version = 8
    BY <1>5 DEF VersionTells, From, Current
  <2>3. /\ Script(n, db).tables = OldTables(9) /\ Script(n, db).version = 9
        /\ Script(n, db).projection = db.projection
        /\ IsDatabase(Script(n, db)) /\ KeepsRows(db, Script(n, db))
    BY <2>1, <2>2, TablesOf DEF IsDatabase, KeepsRows
  <2> QED
    BY <1>5, <2>2, <2>3 DEF VersionTells, KeepsRows, To, From, Current
<1>6. CASE n = 4
  <2>1. Script(n, db) = [db EXCEPT !.tables = @ \cup CurationTables, !.version = 10]
    BY <1>6 DEF Script, To, From, IsDatabase, AddCurations
  <2>2. db.tables = OldTables(9) /\ db.version = 9
    BY <1>6 DEF VersionTells, From, Current
  <2>3. /\ Script(n, db).tables = OldTables(10) /\ Script(n, db).version = 10
        /\ Script(n, db).projection = db.projection
        /\ IsDatabase(Script(n, db)) /\ KeepsRows(db, Script(n, db))
    BY <2>1, <2>2, TablesOf DEF IsDatabase, KeepsRows
  <2> QED
    BY <1>6, <2>2, <2>3 DEF VersionTells, KeepsRows, To, From, Current
<1>7. CASE n = 5
  <2> DEFINE checked(k) == [k EXCEPT !.prompt = IF @ = Blank THEN Placeholder ELSE @]
  <2>1. Script(n, db) = [db EXCEPT !.tables = @ \cup {"checked curation text"},
                                   !.curations = {checked(k) : k \in db.curations},
                                   !.version = 11]
    BY <1>7 DEF Script, To, From, IsDatabase, CheckText
  <2>2. ASSUME NEW k \in db.curations
        PROVE  /\ IsCuration(checked(k)) /\ checked(k).prompt # Blank
               /\ checked(k).id = k.id /\ checked(k).status = k.status
               /\ k.prompt # Blank => checked(k).prompt = k.prompt
    <3>1. k = [id |-> k.id, prompt |-> k.prompt, status |-> k.status]
      BY DEF IsDatabase, IsCuration
    <3>2. checked(k) = [id |-> k.id, status |-> k.status,
                        prompt |-> IF k.prompt = Blank THEN Placeholder ELSE k.prompt]
      BY <3>1
    <3>3. Placeholder # Blank
      BY DEF Placeholder, Blank
    <3> HIDE DEF checked
    <3> QED
      BY <3>2, <3>3 DEF IsCuration
  <2> HIDE DEF checked
  <2>3. db.tables = OldTables(10) /\ db.version = 10 /\ db.projection = LatestSuccess(db.analyses)
    BY <1>7 DEF VersionTells, From, Current
  <2>4. /\ Script(n, db).tables = OldTables(11) /\ Script(n, db).version = 11
        /\ Script(n, db).projection = db.projection
        /\ Script(n, db).analyses = db.analyses /\ Script(n, db).sources = db.sources
        /\ Script(n, db).linked = db.linked
        /\ Script(n, db).curations = {checked(k) : k \in db.curations}
    BY <2>1, <2>3, TablesOf DEF IsDatabase
  <2>5. IsDatabase(Script(n, db))
    <3>1. \A k \in Script(n, db).curations : IsCuration(k)
      BY <2>2, <2>4
    <3>2. Script(n, db).analyses \in Analyses
      BY <2>4 DEF IsDatabase
    <3> QED
      BY <2>1, <3>1, <3>2 DEF IsDatabase
  <2>6. KeepsRows(db, Script(n, db)) /\ \A l \in Script(n, db).curations : l.prompt # Blank
    BY <2>2, <2>4 DEF KeepsRows
  <2> QED
    BY <1>7, <2>3, <2>4, <2>5, <2>6 DEF VersionTells, To, From, Current
<1> QED
  BY <1>1, <1>2, <1>3, <1>4, <1>5, <1>6, <1>7

-----------------------------------------------------------------------------
(* The initial states: what releases before this one left.                 *)

LEMMA InitCatalog ==
    ASSUME Init
    PROVE  /\ IsDatabase(catalog) /\ VersionTells(catalog) /\ LedgerIsTrue
           /\ catalog.version \in 0..12 /\ catalog.tables \subseteq CatalogTables
           /\ ledger \subseteq Names /\ catalog.sources = << >>
<1>1. \A v : IsDatabase(Empty(v))
  BY DEF IsDatabase, Empty, Analyses
<1>2. CASE /\ catalog \in {Empty(0), [Empty(0) EXCEPT !.tables = {"tracks"}],
                           Empty(5), Empty(12)}
           /\ ledger = {}
  <2>1. /\ IsDatabase(catalog) /\ catalog.version \in {0, 5, 12}
        /\ catalog.tables = {} \/ catalog.tables = {"tracks"}
        /\ catalog.analyses = << >> /\ catalog.projection = << >> /\ catalog.curations = {}
        /\ catalog.sources = << >>
    BY <1>1, <1>2 DEF Empty, IsDatabase
  <2>2. "tracks" \in CatalogTables
    BY DEF CatalogTables, BaseTables
  <2> QED
    BY <1>2, <2>1, <2>2 DEF VersionTells, LedgerIsTrue, Current
<1>3. ASSUME NEW v \in 6..Current, NEW linked \in BOOLEAN,
             catalog = Old(v, linked),
             ledger \in {{}, {n \in Names : n > 0 /\ To(n) <= v} \cup {0},
                         {n \in Names : n > 0 /\ To(n) < v} \cup {0}}
      PROVE  /\ IsDatabase(catalog) /\ VersionTells(catalog) /\ LedgerIsTrue
             /\ catalog.version \in 0..12 /\ catalog.tables \subseteq CatalogTables
             /\ ledger \subseteq Names /\ catalog.sources = << >>
  <2>1. /\ catalog.version = v /\ catalog.tables = OldTables(v)
        /\ catalog.analyses = History /\ catalog.sources = << >>
        /\ catalog.projection = IF v >= 7 THEN LatestSuccess(History) ELSE << >>
        /\ catalog.curations = IF v = 10 THEN Legacy
                               ELSE IF v = 11 THEN {k \in Legacy : k.prompt # Blank} ELSE {}
    BY <1>3 DEF Old
  <2>2. \A k \in Legacy : IsCuration(k)
    BY StartupAssumption DEF IsCuration
  <2>3. IsDatabase(catalog)
    <3>1. /\ catalog.analyses \in Analyses
          /\ \A k \in catalog.curations : IsCuration(k)
      BY <2>1, <2>2, StartupAssumption DEF Analyses
    <3>2. catalog = [version |-> catalog.version, tables |-> catalog.tables,
                     analyses |-> catalog.analyses, projection |-> catalog.projection,
                     curations |-> catalog.curations, sources |-> catalog.sources,
                     linked |-> catalog.linked]
      BY <1>3 DEF Old
    <3> QED
      BY <3>1, <3>2 DEF IsDatabase
  <2>4. VersionTells(catalog)
    BY <2>1 DEF VersionTells, Current
  <2>5. ledger \subseteq Names /\ \A n \in ledger : n # 0 => To(n) <= v
    BY <1>3, Versions DEF Names, Current
  <2>6. LedgerIsTrue
    BY <2>1, <2>5, Versions DEF LedgerIsTrue, Current
  <2> QED
    BY <2>1, <2>3, <2>4, <2>5, <2>6, TablesGrow DEF Current
<1> QED
  BY <1>2, <1>3 DEF Init

LEMMA InitSound == Init => Sound
<1> SUFFICES ASSUME Init PROVE Sound
  OBVIOUS
<1>1. /\ pc = [c \in Commands |-> "closed"] /\ todo = [c \in Commands |-> {}]
      /\ config = [c \in Commands |-> << >>] /\ starts = 0
  BY DEF Init
<1>2. Shape
  BY <1>1, InitCatalog, StartupAssumption DEF Shape, TypeOK, Phases, Names
<1>3. CatalogIsOutsideSources
  BY InitCatalog DEF CatalogIsOutsideSources
<1>4. MetEachOther /\ AStartAloneSucceeds
  BY <1>1 DEF MetEachOther, AStartAloneSucceeds, Starting
<1>5. ASSUME NEW c \in Commands PROVE CommandKnows(c)
  BY <1>1 DEF CommandKnows
<1> QED
  BY <1>2, <1>3, <1>4, <1>5, InitCatalog DEF Sound

-----------------------------------------------------------------------------
(* The steps of one command.                                               *)

LEMMA MigrationSame ==
    ASSUME NEW c, todo'[c] = todo[c] PROVE Migration(c)' = Migration(c)
  BY DEF Migration

\* What another command knows, when the version and the ledger stay.
LEMMA KnownOfOthers ==
    ASSUME NEW d, CommandKnows(d), UNCHANGED <<pc[d], todo[d], config[d], ledger>>,
           catalog'.version = catalog.version,
           DOMAIN catalog.sources \subseteq DOMAIN catalog'.sources,
           d \in met => d \in met'
    PROVE  CommandKnows(d)'
<1>1. Migration(d)' = Migration(d)
  BY MigrationSame
<1>2. Supported' <=> Supported
  BY DEF Supported
<1>3. Applied(Migration(d))' <=> Applied(Migration(d))
  BY <1>1 DEF Applied
<1>4. (\A s \in DOMAIN config[d] : ~IsWithin(Database, config[d][s]))'
  BY DEF CommandKnows
<1> QED
  BY <1>1, <1>2, <1>3, <1>4 DEF CommandKnows

\* A step of a command within its start that touches only its own locals.
LEMMA OwnStep ==
    ASSUME Sound, NEW c \in Commands, NEW where \in Phases, Goto(c, where),
           todo' \in [Commands -> SUBSET Names],
           \A d \in Commands : d # c => todo'[d] = todo[d],
           UNCHANGED <<catalog, ledger, config, starts, met>>,
           Starting(c), CommandKnows(c)',
           where = "refused" =>
               \/ c \in met \/ ~catalog.linked
               \/ catalog.version \in 1..5 \/ catalog.version > Current
               \/ /\ catalog.version = 0 /\ catalog.tables # {}
    PROVE  Sound'
<1>1. /\ Shape /\ VersionTells(catalog) /\ LedgerIsTrue /\ CatalogIsOutsideSources
      /\ MetEachOther /\ AStartAloneSucceeds /\ \A d \in Commands : CommandKnows(d)
  BY DEF Sound
<1>2. /\ pc' \in [Commands -> Phases] /\ pc'[c] = where
      /\ \A d \in Commands : d # c => pc'[d] = pc[d]
  BY <1>1 DEF Shape, Goto
<1>3. Shape'
  BY <1>1, <1>2 DEF Shape, TypeOK
<1>4. VersionTells(catalog)' /\ LedgerIsTrue' /\ CatalogIsOutsideSources'
  BY <1>1 DEF LedgerIsTrue, CatalogIsOutsideSources
<1>5. MetEachOther'
  BY <1>1, <1>2 DEF MetEachOther, Starting
<1>6. AStartAloneSucceeds'
  BY <1>1, <1>2 DEF AStartAloneSucceeds
<1>7. ASSUME NEW d \in Commands, d # c PROVE CommandKnows(d)'
  BY <1>1, <1>2, <1>7, KnownOfOthers
<1> QED
  BY <1>3, <1>4, <1>5, <1>6, <1>7 DEF Sound

\* The columns of the variables.
LEMMA Columns ==
    ASSUME Sound, NEW c \in Commands
    PROVE  /\ CommandKnows(c) /\ todo[c] \subseteq Names /\ DOMAIN todo = Commands
           /\ todo \in [Commands -> SUBSET Names]
           /\ catalog.version \in 0..12 /\ ledger \subseteq Names
           /\ pc[c] \in Phases /\ pc \in [Commands -> Phases]
  BY DEF Sound, Shape, TypeOK

LEMMA CheckSupportedSound == ASSUME Sound, NEW c \in Commands, CheckSupported(c) PROVE Sound'
<1>1. PICK where \in Phases : Goto(c, where) /\ where = IF Supported THEN "pending" ELSE "refused"
  BY DEF CheckSupported, Supported, Phases
<1>2. pc'[c] = where /\ pc[c] = "version" /\ UNCHANGED <<catalog, ledger, todo, config, starts, met>>
  BY <1>1, Columns DEF Goto, CheckSupported
<1>3. CommandKnows(c)'
  BY <1>1, <1>2, Columns DEF CommandKnows, Supported
<1>4. where = "refused" => catalog.version \in 1..5 \/ catalog.version > Current
  BY <1>1, Columns DEF Supported, Current
<1> QED
  BY <1>1, <1>2, <1>3, <1>4, Columns, OwnStep DEF Starting

LEMMA ListPendingSound == ASSUME Sound, NEW c \in Commands, ListPending(c) PROVE Sound'
<1>1. PICK where \in Phases :
         Goto(c, where) /\ where = IF Names \subseteq ledger THEN "sources" ELSE "check"
  BY DEF ListPending, Phases
<1>2. /\ pc'[c] = where /\ pc[c] = "pending" /\ UNCHANGED <<catalog, ledger, config, starts, met>>
      /\ todo'[c] = Names \ ledger /\ todo' \in [Commands -> SUBSET Names]
      /\ \A d \in Commands : d # c => todo'[d] = todo[d]
  BY <1>1, Columns DEF Goto, ListPending
<1>3. CommandKnows(c)'
  <2>1. where \in {"sources", "check"} /\ (where = "sources" => ledger = Names)
        /\ (where = "check" => Names \ ledger # {})
    BY <1>1, Columns
  <2>2. Supported' /\ \A s \in DOMAIN config'[c] : ~IsWithin(Database, config'[c][s])
    BY <1>2, Columns DEF CommandKnows, Supported
  <2> QED
    BY <1>2, <2>1, <2>2 DEF CommandKnows
<1> QED
  BY <1>1, <1>2, <1>3, OwnStep DEF Starting

\* What is pending is of a later version than what is recorded.
LEMMA LedgerOrders ==
    ASSUME Sound, NEW c \in Commands, pc[c] = "check",
           catalog.version # From(Migration(c))
    PROVE  Applied(Migration(c))
<1>1. /\ todo[c] # {} /\ todo[c] \subseteq Names /\ Names \ todo[c] \subseteq ledger
      /\ Supported /\ LedgerIsTrue /\ catalog.version \in 0..12
  BY Columns DEF CommandKnows, Sound
<1> DEFINE n == Migration(c)
<1>2. n \in Names /\ \A m \in todo[c] : n <= m
  BY <1>1, MigrationIsFirst
<1>3. catalog.version # From(n)
  OBVIOUS
<1> HIDE DEF n
<1>4. CASE n = 0
  BY <1>3, <1>4 DEF Applied, From, n
<1>5. CASE n # 0
  <2>1. n - 1 \in Names /\ n - 1 \in ledger
    BY <1>1, <1>2, <1>5 DEF Names
  <2>2. catalog.version >= n + 5
    <3>1. CASE n = 1
      BY <1>1, <2>1, <3>1 DEF LedgerIsTrue, Supported, Current
    <3>2. CASE n # 1
      BY <1>1, <1>2, <1>5, <2>1, <3>2, Versions DEF LedgerIsTrue, Names
    <3> QED
      BY <3>1, <3>2
  <2> QED
    BY <1>1, <1>2, <1>3, <1>5, <2>2, Versions DEF Applied, Names, n
<1> QED
  BY <1>4, <1>5

LEMMA ReadVersionSound == ASSUME Sound, NEW c \in Commands, ReadVersion(c) PROVE Sound'
<1>1. PICK where \in Phases :
         Goto(c, where) /\ where = IF catalog.version = From(Migration(c)) THEN "script" ELSE "record"
  BY DEF ReadVersion, Phases
<1>2. pc'[c] = where /\ pc[c] = "check" /\ UNCHANGED <<catalog, ledger, todo, config, starts, met>>
  BY <1>1, Columns DEF Goto, ReadVersion
<1>3. Migration(c)' = Migration(c)
  BY <1>2, MigrationSame
<1>4. where = "record" => Applied(Migration(c))'
  BY <1>1, <1>2, <1>3, LedgerOrders DEF Applied
<1>5. CommandKnows(c)'
  BY <1>1, <1>2, <1>3, <1>4, Columns DEF CommandKnows, Supported
<1> QED
  BY <1>1, <1>2, <1>5, Columns, OwnStep DEF Starting

\* A script that applies takes the version on; a command that meant to run the
\* same one, or another, has met this one.
LEMMA RunScriptSound == ASSUME Sound, NEW c \in Commands, RunScript(c) PROVE Sound'
<1> DEFINE n == Migration(c)
<1>1. /\ Shape /\ VersionTells(catalog) /\ LedgerIsTrue /\ CatalogIsOutsideSources
      /\ MetEachOther /\ AStartAloneSucceeds /\ \A d \in Commands : CommandKnows(d)
  BY DEF Sound
<1>2. /\ pc[c] = "script" /\ UNCHANGED <<ledger, todo, config, starts, met>>
      /\ n \in Names /\ Starting(c) /\ Migration(c)' = n
  BY <1>1, Columns, MigrationIsFirst, MigrationSame DEF RunScript, CommandKnows, Starting
<1>3. CASE ~Applicable(n)
  <2>1. Goto(c, "refused") /\ UNCHANGED catalog /\ pc'[c] = "refused"
    BY <1>3, Columns DEF RunScript, Goto
  <2>2. CommandKnows(c)'
    BY <1>1, <1>2, <2>1 DEF CommandKnows
  <2>3. \/ c \in met \/ ~catalog.linked
        \/ /\ catalog.version = 0 /\ catalog.tables # {}
    BY <1>1, <1>2, <1>3, Versions DEF Applicable, CommandKnows
  <2> QED
    BY <1>2, <2>1, <2>2, <2>3, Columns, OwnStep DEF Phases
<1>4. CASE Applicable(n)
  <2>1. /\ catalog' = Script(n, catalog) /\ Goto(c, "record") /\ catalog.version = From(n)
        /\ n = 0 => catalog.tables = {}
    BY <1>4 DEF RunScript, Applicable
  <2>2. /\ pc' \in [Commands -> Phases] /\ pc'[c] = "record"
        /\ \A d \in Commands : d # c => pc'[d] = pc[d]
    BY <2>1, Columns DEF Goto, Phases
  <2>3. /\ IsDatabase(catalog') /\ VersionTells(catalog') /\ catalog'.version = To(n)
        /\ KeepsRows(catalog, catalog')
    BY <1>1, <1>2, <2>1, ScriptKeeps DEF Shape
  <2>4. catalog'.version \in 7..Current /\ catalog.version < catalog'.version
        /\ catalog.version \in Nat
    BY <1>2, <2>1, <2>3, Versions
  <2>5. Shape'
    <3>1. catalog'.tables \subseteq CatalogTables
      BY <2>3, <2>4, TablesGrow DEF VersionTells, Current
    <3> QED
      BY <1>1, <1>2, <2>2, <2>3, <2>4, <3>1 DEF Shape, TypeOK, Current
  <2>6. LedgerIsTrue'
    <3>1. \A m \in Names : To(m) \in Nat
      BY Versions DEF Current
    <3> QED
      BY <1>1, <1>2, <2>4, <3>1 DEF LedgerIsTrue, Current, Shape, TypeOK
  <2>7. CatalogIsOutsideSources' /\ MetEachOther'
    BY <1>1, <1>2, <2>2, <2>3 DEF CatalogIsOutsideSources, KeepsRows, MetEachOther, Starting
  <2>8. AStartAloneSucceeds'
    <3>1. ASSUME NEW d \in Commands, pc'[d] = "refused"
          PROVE  d \in met \/ ~catalog'.linked
      <4>1. pc[d] = "refused"
        BY <2>2, <3>1
      <4>2. catalog.version \notin 1..5 /\ ~(catalog.version > Current)
        BY <1>1, <1>2, Columns DEF CommandKnows, Supported, Current
      <4>3. ~(catalog.version = 0 /\ catalog.tables # {})
        BY <1>2, <2>1, Versions
      <4> QED
        BY <1>1, <2>3, <4>1, <4>2, <4>3 DEF AStartAloneSucceeds, KeepsRows
    <3> QED
      BY <1>2, <3>1 DEF AStartAloneSucceeds
  <2>9. ASSUME NEW d \in Commands PROVE CommandKnows(d)'
    <3>1. CASE d = c
      <4>1. Applied(n)'
        BY <1>2, <2>3, <2>4, Versions DEF Applied
      <4> QED
        BY <1>1, <1>2, <2>2, <2>4, <3>1, <4>1 DEF CommandKnows, Supported
    <3>2. CASE d # c
      <4>1. pc'[d] = pc[d] /\ CommandKnows(d) /\ Migration(d)' = Migration(d)
        BY <1>1, <1>2, <2>2, <3>2, MigrationSame
      <4>2. Supported'
        BY <2>4 DEF Supported, Current
      <4>3. Starting(d) => d \in met
        BY <1>1, <1>2, <3>2 DEF MetEachOther
      <4>4. pc[d] = "record" => Applied(Migration(d))'
        <5>1. pc[d] = "record" => Migration(d) \in Names /\ Applied(Migration(d))
          BY <4>1, Columns, MigrationIsFirst DEF CommandKnows
        <5> QED
          BY <2>4, <4>1, <5>1, Versions DEF Applied, Current
      <4> QED
        BY <1>2, <2>3, <4>1, <4>2, <4>3, <4>4 DEF CommandKnows, KeepsRows, Starting
    <3> QED
      BY <3>1, <3>2
  <2> QED
    BY <2>3, <2>5, <2>6, <2>7, <2>8, <2>9 DEF Sound
<1> QED
  BY <1>3, <1>4

\* The row of a migration is true, because its version was reached.
LEMMA RecordSound == ASSUME Sound, NEW c \in Commands, Record(c) PROVE Sound'
<1> DEFINE n == Migration(c)
<1>1. /\ Shape /\ VersionTells(catalog) /\ LedgerIsTrue /\ CatalogIsOutsideSources
      /\ MetEachOther /\ AStartAloneSucceeds /\ \A d \in Commands : CommandKnows(d)
  BY DEF Sound
<1>2. /\ pc[c] = "record" /\ UNCHANGED <<catalog, config, starts, met>>
      /\ n \in Names /\ n \in todo[c] /\ Starting(c) /\ Applied(n)
      /\ \A m \in todo[c] : n <= m
  BY <1>1, Columns, MigrationIsFirst DEF Record, CommandKnows, Starting
<1>3. CASE n \in ledger
  <2>1. Goto(c, "refused") /\ UNCHANGED <<ledger, todo>> /\ pc'[c] = "refused"
    BY <1>3, Columns DEF Record, Goto
  <2>2. CommandKnows(c)' /\ c \in met
    BY <1>1, <1>2, <1>3, <2>1 DEF CommandKnows
  <2> QED
    BY <1>2, <2>1, <2>2, Columns, OwnStep DEF Phases
<1>4. CASE n \notin ledger
  <2>1. PICK where \in {"sources", "check"} :
           /\ Goto(c, where) /\ where = IF todo[c] = {n} THEN "sources" ELSE "check"
    BY <1>4 DEF Record
  <2>2. /\ ledger' = ledger \cup {n} /\ todo' = [todo EXCEPT ![c] = @ \ {n}]
    BY <1>4 DEF Record
  <2>3. /\ pc' \in [Commands -> Phases] /\ pc'[c] = where
        /\ \A d \in Commands : d # c => pc'[d] = pc[d]
        /\ todo' \in [Commands -> SUBSET Names] /\ todo'[c] = todo[c] \ {n}
        /\ \A d \in Commands : d # c => todo'[d] = todo[d]
    BY <2>1, <2>2, Columns DEF Goto, Phases
  <2> HIDE DEF n
  <2>4. Shape'
    BY <1>1, <1>2, <2>2, <2>3 DEF Shape, TypeOK
  <2>5. LedgerIsTrue'
    BY <1>1, <1>2, <2>2 DEF LedgerIsTrue, Applied
  <2>6. CatalogIsOutsideSources' /\ MetEachOther' /\ AStartAloneSucceeds'
    BY <1>1, <1>2, <2>1, <2>3
    DEF CatalogIsOutsideSources, MetEachOther, AStartAloneSucceeds, Starting
  <2>7. ASSUME NEW d \in Commands PROVE CommandKnows(d)'
    <3>1. CASE d = c
      <4>1. /\ Names \ todo[c] \subseteq ledger /\ todo[c] \subseteq Names
            /\ todo[c] \cap ledger # {} => c \in met
        BY <1>1, <1>2, Columns DEF CommandKnows
      <4>2. /\ where = "check" => todo'[c] # {}
            /\ where = "sources" => ledger' = Names
            /\ Names \ todo'[c] \subseteq ledger'
            /\ todo'[c] \cap ledger' # {} => c \in met
        BY <1>1, <1>2, <2>1, <2>2, <2>3, <4>1, Columns
      <4>3. Supported' /\ \A s \in DOMAIN config'[c] : ~IsWithin(Database, config'[c][s])
        BY <1>1, <1>2 DEF CommandKnows, Supported
      <4> QED
        BY <1>2, <2>1, <2>3, <3>1, <4>2, <4>3 DEF CommandKnows
    <3>2. CASE d # c
      <4>1. pc'[d] = pc[d] /\ todo'[d] = todo[d] /\ CommandKnows(d)
            /\ Migration(d)' = Migration(d)
        BY <1>1, <2>3, <3>2, MigrationSame
      <4>2. Starting(d) => d \in met
        BY <1>1, <1>2, <3>2 DEF MetEachOther
      <4>3. ledger = Names => ledger' = Names
        BY <1>2, <2>2
      <4> QED
        BY <1>2, <2>2, <4>1, <4>2, <4>3 DEF CommandKnows, Starting, Supported, Applied
    <3> QED
      BY <3>1, <3>2
  <2> QED
    BY <1>1, <1>2, <2>4, <2>5, <2>6, <2>7 DEF Sound
<1> QED
  BY <1>3, <1>4

LEMMA UpsertKeeps ==
    ASSUME NEW rows, NEW new
    PROVE  /\ DOMAIN Upsert(rows, new) = DOMAIN rows \cup DOMAIN new
           /\ \A s \in DOMAIN Upsert(rows, new) :
                 \/ s \in DOMAIN new /\ Upsert(rows, new)[s] = new[s]
                 \/ s \in DOMAIN rows /\ Upsert(rows, new)[s] = rows[s]
  BY DEF Upsert

\* The rows of a database whose sources are replaced.
LEMMA SourcesReplaced ==
    ASSUME NEW db, IsDatabase(db), VersionTells(db), NEW rows
    PROVE  LET new == [db EXCEPT !.sources = rows]
           IN  /\ IsDatabase(new) /\ VersionTells(new) /\ new.sources = rows
               /\ new.version = db.version /\ new.tables = db.tables
               /\ new.linked = db.linked /\ new.analyses = db.analyses
               /\ new.curations = db.curations
<1> DEFINE new == [db EXCEPT !.sources = rows]
<1>1. new = [version |-> db.version, tables |-> db.tables, analyses |-> db.analyses,
             projection |-> db.projection, curations |-> db.curations,
             sources |-> rows, linked |-> db.linked]
  BY DEF IsDatabase
<1>2. /\ new.sources = rows /\ new.projection = db.projection
      /\ new.version = db.version /\ new.tables = db.tables
      /\ new.linked = db.linked /\ new.analyses = db.analyses
      /\ new.curations = db.curations
  BY <1>1
<1>3. IsDatabase(new)
  BY <1>1, <1>2 DEF IsDatabase
<1> HIDE DEF new
<1>4. VersionTells(new)
  BY <1>2 DEF VersionTells
<1> QED
  BY <1>2, <1>3, <1>4 DEF new

LEMMA WriteSourcesSound == ASSUME Sound, NEW c \in Commands, WriteSources(c) PROVE Sound'
<1>1. /\ Shape /\ VersionTells(catalog) /\ LedgerIsTrue /\ CatalogIsOutsideSources
      /\ MetEachOther /\ AStartAloneSucceeds /\ \A d \in Commands : CommandKnows(d)
  BY DEF Sound
<1>2. /\ pc[c] = "sources" /\ UNCHANGED <<ledger, todo, config, starts, met>>
      /\ catalog' = [catalog EXCEPT !.sources = Upsert(catalog.sources, config[c])]
      /\ pc' \in [Commands -> Phases] /\ pc'[c] = "up"
      /\ \A d \in Commands : d # c => pc'[d] = pc[d]
  BY Columns DEF WriteSources, Goto, Phases
<1>3. /\ IsDatabase(catalog') /\ VersionTells(catalog')
      /\ catalog'.sources = Upsert(catalog.sources, config[c])
      /\ catalog'.version = catalog.version /\ catalog'.tables = catalog.tables
      /\ catalog'.linked = catalog.linked
  BY <1>1, <1>2, SourcesReplaced DEF Shape
<1>4. Shape'
  BY <1>1, <1>2, <1>3 DEF Shape, TypeOK
<1>5. LedgerIsTrue' /\ MetEachOther' /\ AStartAloneSucceeds'
  BY <1>1, <1>2, <1>3 DEF LedgerIsTrue, MetEachOther, AStartAloneSucceeds, Starting
<1> DEFINE rows == catalog'.sources
<1>6. /\ DOMAIN rows = DOMAIN catalog.sources \cup DOMAIN config[c]
      /\ \A s \in DOMAIN rows : \/ s \in DOMAIN config[c] /\ rows[s] = config[c][s]
                                \/ s \in DOMAIN catalog.sources /\ rows[s] = catalog.sources[s]
  <2>1. /\ DOMAIN Upsert(catalog.sources, config[c]) = DOMAIN catalog.sources \cup DOMAIN config[c]
        /\ \A s \in DOMAIN Upsert(catalog.sources, config[c]) :
              \/ /\ s \in DOMAIN config[c]
                 /\ Upsert(catalog.sources, config[c])[s] = config[c][s]
              \/ /\ s \in DOMAIN catalog.sources
                 /\ Upsert(catalog.sources, config[c])[s] = catalog.sources[s]
    BY UpsertKeeps, Zenon
  <2> QED
    BY <1>3, <2>1
<1>7. CatalogIsOutsideSources'
  BY <1>1, <1>6 DEF CatalogIsOutsideSources, CommandKnows
<1>8. CommandKnows(c)'
  BY <1>1, <1>2, <1>3, <1>6 DEF CommandKnows, Supported
<1>9. ASSUME NEW d \in Commands, d # c PROVE CommandKnows(d)'
  BY <1>1, <1>2, <1>3, <1>6, <1>9, KnownOfOthers
<1> QED
  BY <1>3, <1>4, <1>5, <1>7, <1>8, <1>9 DEF Sound

\* An open application appends an analysis and its projection, or a curation.
LEMMA UseWrites ==
    ASSUME Sound, NEW c \in Commands, Use(c)
    PROVE  /\ IsDatabase(catalog') /\ VersionTells(catalog')
           /\ catalog'.version = catalog.version /\ catalog'.tables = catalog.tables
           /\ catalog'.linked = catalog.linked /\ catalog'.sources = catalog.sources
           /\ Len(catalog'.analyses) >= Len(catalog.analyses)
           /\ catalog.curations \subseteq catalog'.curations
           /\ UNCHANGED <<ledger, pc, todo, config, starts, met>>
<1>1. /\ IsDatabase(catalog) /\ VersionTells(catalog) /\ pc[c] = "up"
      /\ catalog.version = Current /\ UNCHANGED <<ledger, pc, todo, config, starts, met>>
  <2>1. /\ ledger = Names /\ Supported /\ LedgerIsTrue /\ catalog.version \in 0..12
    BY Columns DEF Use, CommandKnows, Sound
  <2>2. 5 \in Names /\ To(5) = 11
    BY DEF Names, To, From
  <2>3. catalog.version = Current
    <3>1. catalog.version >= 11
      BY <2>1, <2>2 DEF LedgerIsTrue
    <3> QED
      BY <2>1, <3>1 DEF Supported, Current
  <2> QED
    BY <2>3 DEF Use, Sound, Shape
<1>2. ASSUME NEW t \in Tracks, NEW ok \in BOOLEAN, NEW more,
             more = Append(catalog.analyses, [track |-> t, ok |-> ok]),
             catalog' = [catalog EXCEPT !.analyses = more, !.projection = LatestSuccess(more)]
      PROVE  /\ IsDatabase(catalog') /\ VersionTells(catalog')
             /\ catalog'.version = catalog.version /\ catalog'.tables = catalog.tables
             /\ catalog'.linked = catalog.linked /\ catalog'.sources = catalog.sources
             /\ Len(catalog'.analyses) >= Len(catalog.analyses)
             /\ catalog'.curations = catalog.curations
  <2>1. /\ more \in Analyses /\ Len(more) = Len(catalog.analyses) + 1
        /\ Len(catalog.analyses) \in Nat
    BY <1>1, <1>2 DEF IsDatabase, Analyses
  <2>2. catalog' = [version |-> catalog.version, tables |-> catalog.tables, analyses |-> more,
                    projection |-> LatestSuccess(more), curations |-> catalog.curations,
                    sources |-> catalog.sources, linked |-> catalog.linked]
    BY <1>1, <1>2 DEF IsDatabase
  <2>3. /\ catalog'.version = catalog.version /\ catalog'.tables = catalog.tables
        /\ catalog'.linked = catalog.linked /\ catalog'.sources = catalog.sources
        /\ catalog'.analyses = more /\ catalog'.projection = LatestSuccess(more)
        /\ catalog'.curations = catalog.curations
    BY <2>2
  <2>4. IsDatabase(catalog')
    BY <1>1, <2>1, <2>2, <2>3 DEF IsDatabase
  <2>5. VersionTells(catalog')
    BY <1>1, <2>3 DEF VersionTells, Current
  <2> QED
    BY <2>1, <2>3, <2>4, <2>5
<1>3. ASSUME NEW new, new = [id |-> "new", prompt |-> "text", status |-> "draft"],
             catalog' = [catalog EXCEPT !.curations = @ \cup {new}]
      PROVE  /\ IsDatabase(catalog') /\ VersionTells(catalog')
             /\ catalog'.version = catalog.version /\ catalog'.tables = catalog.tables
             /\ catalog'.linked = catalog.linked /\ catalog'.sources = catalog.sources
             /\ catalog'.analyses = catalog.analyses
             /\ catalog'.curations = catalog.curations \cup {new}
  <2>1. catalog' = [version |-> catalog.version, tables |-> catalog.tables,
                    analyses |-> catalog.analyses, projection |-> catalog.projection,
                    curations |-> catalog.curations \cup {new},
                    sources |-> catalog.sources, linked |-> catalog.linked]
    BY <1>1, <1>3 DEF IsDatabase
  <2>2. /\ catalog'.version = catalog.version /\ catalog'.tables = catalog.tables
        /\ catalog'.linked = catalog.linked /\ catalog'.sources = catalog.sources
        /\ catalog'.analyses = catalog.analyses /\ catalog'.projection = catalog.projection
        /\ catalog'.curations = catalog.curations \cup {new}
    BY <2>1
  <2>3. IsCuration(new) /\ new.prompt # Blank
    BY <1>3 DEF IsCuration, Blank
  <2>4. IsDatabase(catalog')
    BY <1>1, <2>1, <2>2, <2>3 DEF IsDatabase
  <2>5. VersionTells(catalog')
    BY <1>1, <2>2, <2>3 DEF VersionTells, Current
  <2> QED
    BY <2>2, <2>4, <2>5
<1>4. Len(catalog.analyses) \in Nat
  BY <1>1 DEF IsDatabase, Analyses
<1>5. CASE \E t \in Tracks, ok \in BOOLEAN :
               LET more == Append(catalog.analyses, [track |-> t, ok |-> ok])
               IN  catalog' = [catalog EXCEPT !.analyses = more,
                                              !.projection = LatestSuccess(more)]
  BY <1>1, <1>2, <1>5
<1>6. CASE LET new == [id |-> "new", prompt |-> "text", status |-> "draft"]
           IN  catalog' = [catalog EXCEPT !.curations = @ \cup {new}]
  <2> DEFINE new == [id |-> "new", prompt |-> "text", status |-> "draft"]
  <2>1. catalog' = [catalog EXCEPT !.curations = @ \cup {new}]
    BY <1>6
  <2>2. /\ IsDatabase(catalog') /\ VersionTells(catalog')
        /\ catalog'.version = catalog.version /\ catalog'.tables = catalog.tables
        /\ catalog'.linked = catalog.linked /\ catalog'.sources = catalog.sources
        /\ catalog'.analyses = catalog.analyses
        /\ catalog'.curations = catalog.curations \cup {new}
    BY <1>3, <2>1
  <2> HIDE DEF new
  <2> QED
    BY <1>1, <1>4, <2>2
<1> QED
  BY <1>5, <1>6 DEF Use

LEMMA UseSound == ASSUME Sound, NEW c \in Commands, Use(c) PROVE Sound'
<1>1. /\ Shape /\ LedgerIsTrue /\ CatalogIsOutsideSources
      /\ MetEachOther /\ AStartAloneSucceeds /\ \A d \in Commands : CommandKnows(d)
  BY DEF Sound
<1>2. /\ IsDatabase(catalog') /\ VersionTells(catalog')
      /\ catalog'.version = catalog.version /\ catalog'.tables = catalog.tables
      /\ catalog'.linked = catalog.linked /\ catalog'.sources = catalog.sources
      /\ UNCHANGED <<ledger, pc, todo, config, starts, met>>
  BY UseWrites
<1>3. Shape'
  BY <1>1, <1>2 DEF Shape, TypeOK
<1>4. LedgerIsTrue' /\ MetEachOther' /\ AStartAloneSucceeds' /\ CatalogIsOutsideSources'
  BY <1>1, <1>2
  DEF LedgerIsTrue, MetEachOther, AStartAloneSucceeds, CatalogIsOutsideSources, Starting
<1>5. ASSUME NEW d \in Commands PROVE CommandKnows(d)'
  BY <1>1, <1>2, KnownOfOthers
<1> QED
  BY <1>2, <1>3, <1>4, <1>5 DEF Sound

\* WorkspaceConfig.load accepts no source that holds the catalog.
LEMMA LoadedOutside ==
    ASSUME NEW file, Loads(file)
    PROVE  \A s \in DOMAIN SourcesOf(file) : ~IsWithin(Database, SourcesOf(file)[s])
<1> DEFINE sources == ToSet(file.sources)
<1>1. \A source \in sources : ~IsWithin(Database, source.root)
  BY DEF Loads, ToSet
<1> HIDE DEF sources
<1>2. ASSUME NEW s \in {source.id : source \in sources}
      PROVE  ~IsWithin(Database, (CHOOSE source \in sources : source.id = s).root)
  <2>1. \E source \in sources : source.id = s
    BY <1>2
  <2>2. (CHOOSE source \in sources : source.id = s) \in sources
    BY <2>1
  <2> QED
    BY <1>1, <2>2
<1> QED
  BY <1>2 DEF SourcesOf, sources

LEMMA OpenSound == ASSUME Sound, NEW c \in Commands, Open(c) PROVE Sound'
<1>1. /\ Shape /\ VersionTells(catalog) /\ LedgerIsTrue /\ CatalogIsOutsideSources
      /\ MetEachOther /\ AStartAloneSucceeds /\ \A d \in Commands : CommandKnows(d)
  BY DEF Sound
<1>2. PICK file \in Configs : Loads(file) /\ config' = [config EXCEPT ![c] = SourcesOf(file)]
  BY DEF Open
<1> DEFINE others == {d \in Commands \ {c} : Starting(d)}
<1>3. /\ pc[c] = "closed" /\ UNCHANGED <<catalog, ledger, todo>>
      /\ starts' = starts + 1 /\ starts < MaxStarts
      /\ met' = met \cup others \cup (IF others = {} THEN {} ELSE {c})
      /\ pc' \in [Commands -> Phases] /\ pc'[c] = "version"
      /\ \A d \in Commands : d # c => pc'[d] = pc[d]
  BY Columns DEF Open, Goto, Phases
<1>4. /\ config' = [d \in Commands |-> config'[d]] /\ config'[c] = SourcesOf(file)
      /\ \A d \in Commands : d # c => config'[d] = config[d]
  BY <1>1, <1>2 DEF Shape
<1>5. Shape'
  BY <1>1, <1>3, <1>4, StartupAssumption DEF Shape, TypeOK
<1>6. VersionTells(catalog)' /\ LedgerIsTrue' /\ CatalogIsOutsideSources'
  BY <1>1, <1>3 DEF LedgerIsTrue, CatalogIsOutsideSources
<1>7. MetEachOther' /\ AStartAloneSucceeds'
  BY <1>1, <1>3 DEF MetEachOther, AStartAloneSucceeds, Starting
<1>8. CommandKnows(c)'
  BY <1>2, <1>3, <1>4, LoadedOutside DEF CommandKnows
<1>9. ASSUME NEW d \in Commands, d # c PROVE CommandKnows(d)'
  BY <1>1, <1>3, <1>4, <1>9, KnownOfOthers
<1> QED
  BY <1>1, <1>3, <1>5, <1>6, <1>7, <1>8, <1>9 DEF Sound

LEMMA CloseSound == ASSUME Sound, NEW c \in Commands, Close(c) PROVE Sound'
<1>1. /\ Shape /\ VersionTells(catalog) /\ LedgerIsTrue /\ CatalogIsOutsideSources
      /\ MetEachOther /\ AStartAloneSucceeds /\ \A d \in Commands : CommandKnows(d)
  BY DEF Sound
<1>2. /\ UNCHANGED <<catalog, ledger, starts>> /\ met' = met \ {c}
      /\ pc' \in [Commands -> Phases] /\ pc'[c] = "closed"
      /\ todo' \in [Commands -> SUBSET Names]
      /\ config' = [d \in Commands |-> config'[d]] /\ config'[c] = << >>
      /\ \A d \in Commands : d # c => UNCHANGED <<pc[d], todo[d], config[d]>>
  BY <1>1, Columns DEF Close, Goto, Phases, Shape
<1>3. Shape'
  BY <1>1, <1>2 DEF Shape, TypeOK
<1>4. VersionTells(catalog)' /\ LedgerIsTrue' /\ CatalogIsOutsideSources'
  BY <1>1, <1>2 DEF LedgerIsTrue, CatalogIsOutsideSources
<1>5. MetEachOther' /\ AStartAloneSucceeds'
  BY <1>1, <1>2 DEF MetEachOther, AStartAloneSucceeds, Starting
<1>6. CommandKnows(c)'
  BY <1>2 DEF CommandKnows
<1>7. ASSUME NEW d \in Commands, d # c PROVE CommandKnows(d)'
  BY <1>1, <1>2, <1>7, KnownOfOthers
<1> QED
  BY <1>1, <1>2, <1>3, <1>4, <1>5, <1>6, <1>7 DEF Sound

LEMMA StepSound == ASSUME Sound, [Next]_vars PROVE Sound'
<1>1. ASSUME NEW c \in Commands, Step(c) PROVE Sound'
  BY <1>1, OpenSound, CheckSupportedSound, ListPendingSound, ReadVersionSound,
     RunScriptSound, RecordSound, WriteSourcesSound, UseSound, CloseSound DEF Step
<1>2. CASE UNCHANGED vars
  <2>1. UNCHANGED <<catalog, ledger, pc, todo, config, starts, met>>
    BY <1>2 DEF vars
  <2>2. /\ Shape' /\ VersionTells(catalog)' /\ LedgerIsTrue' /\ CatalogIsOutsideSources'
        /\ MetEachOther' /\ AStartAloneSucceeds'
    BY <2>1 DEF Sound, Shape, TypeOK, LedgerIsTrue, CatalogIsOutsideSources, MetEachOther,
       AStartAloneSucceeds, Starting
  <2>3. ASSUME NEW c \in Commands PROVE CommandKnows(c)'
    BY <2>1, Columns, KnownOfOthers
  <2> QED
    BY <2>2, <2>3 DEF Sound
<1> QED
  BY <1>1, <1>2 DEF Next

LEMMA AlwaysSound == Spec => []Sound
<1>1. Init => Sound
  BY InitSound
<1>2. Sound /\ [Next]_vars => Sound'
  BY StepSound
<1> QED
  BY <1>1, <1>2, PTL DEF Spec

-----------------------------------------------------------------------------
(* The theorems.                                                           *)

\* At the current version a catalog is what an empty one would have been given,
\* with the rows its history makes; a ledger row means the version was reached;
\* an open application has such a catalog, with its sources, and none of them
\* holds the catalog (migrate, WorkspaceConfig.load, CoreApplication).
THEOREM CatalogSound == Spec => []CatalogIsSound
<1>1. Sound => CatalogIsSound
  <2> SUFFICES ASSUME Sound PROVE CatalogIsSound
    OBVIOUS
  <2>1. TypeOK /\ LedgerIsTrue /\ CatalogIsOutsideSources
    BY DEF Sound, Shape
  <2>2. CatalogIsCurrent
    <3>1. OldTables(Current) = CatalogTables
      BY TablesOf DEF Current
    <3> QED
      BY <3>1 DEF Sound, VersionTells, CatalogIsCurrent, Current
  <2>3. OpenMeansCurrent
    <3>1. 5 \in Names /\ To(5) = 11
      BY DEF Names, To, From
    <3> QED
      BY <2>1, <3>1, Columns
      DEF CommandKnows, OpenMeansCurrent, LedgerIsTrue, Supported, Current
  <2> QED
    BY <2>1, <2>2, <2>3 DEF CatalogIsSound
<1> QED
  BY <1>1, AlwaysSound, PTL

\* A start is refused only by a catalog that cannot be opened, or because another
\* command was starting up with it (migrate, Migrations.apply).
THEOREM StartAloneSucceeds == Spec => []AStartAloneSucceeds
<1>1. Sound => AStartAloneSucceeds
  BY DEF Sound
<1> QED
  BY <1>1, AlwaysSound, PTL

\* The version moves one migration at a time and no step loses an analysis, a
\* curation, its status or a source (_run_script_transaction, upsert).
THEOREM StartupKeepsAll == Spec => NothingIsLost
<1> DEFINE Kept ==
        /\ catalog'.version \in {catalog.version}
              \cup {To(n) : n \in {m \in Names : From(m) = catalog.version}}
        /\ Len(catalog'.analyses) >= Len(catalog.analyses)
        /\ \A k \in catalog.curations : \E l \in catalog'.curations :
              /\ l.id = k.id /\ l.status = k.status
              /\ k.prompt # Blank => l.prompt = k.prompt
        /\ DOMAIN catalog.sources \subseteq DOMAIN catalog'.sources
<1>1. ASSUME Sound, [Next]_vars PROVE Kept \/ UNCHANGED catalog
  <2>1. Len(catalog.analyses) \in Nat
    BY <1>1 DEF Sound, Shape, IsDatabase, Analyses
  <2>2. ASSUME NEW c \in Commands, RunScript(c) PROVE Kept \/ UNCHANGED catalog
    <3>1. Migration(c) \in Names
      BY <1>1, <2>2, Columns, MigrationIsFirst DEF RunScript, CommandKnows
    <3>2. CASE ~Applicable(Migration(c))
      BY <2>2, <3>2 DEF RunScript
    <3>3. CASE Applicable(Migration(c))
      <4>1. /\ catalog' = Script(Migration(c), catalog)
            /\ catalog.version = From(Migration(c))
            /\ Migration(c) = 0 => catalog.tables = {}
        BY <2>2, <3>3 DEF RunScript, Applicable
      <4>2. /\ catalog'.version = To(Migration(c)) /\ KeepsRows(catalog, catalog')
        BY <1>1, <3>1, <4>1, ScriptKeeps DEF Sound, Shape
      <4> QED
        BY <2>1, <3>1, <4>1, <4>2 DEF KeepsRows
    <3> QED
      BY <3>2, <3>3
  <2>3. ASSUME NEW c \in Commands, WriteSources(c) PROVE Kept
    <3>1. /\ catalog'.sources = Upsert(catalog.sources, config[c])
          /\ catalog'.version = catalog.version /\ catalog'.analyses = catalog.analyses
          /\ catalog'.curations = catalog.curations
      BY <1>1, <2>3, SourcesReplaced DEF WriteSources, Sound, Shape
    <3>2. DOMAIN catalog.sources \subseteq DOMAIN Upsert(catalog.sources, config[c])
      BY DEF Upsert
    <3> QED
      BY <2>1, <3>1, <3>2
  <2>4. ASSUME NEW c \in Commands, Use(c) PROVE Kept
    BY <1>1, <2>1, <2>4, UseWrites
  <2>5. ASSUME NEW c \in Commands, Step(c) PROVE Kept \/ UNCHANGED catalog
    BY <2>2, <2>3, <2>4, <2>5
    DEF Step, Open, CheckSupported, ListPending, ReadVersion, Record, Close
  <2> QED
    BY <1>1, <2>5 DEF Next, vars
<1>2. Sound /\ [Next]_vars => [Kept]_catalog
  BY <1>1
<1> QED
  BY <1>2, AlwaysSound, PTL DEF Spec, NothingIsLost
=============================================================================
