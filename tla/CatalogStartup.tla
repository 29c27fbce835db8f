-------------------------- MODULE CatalogStartup --------------------------
(***************************************************************************)
(* Opening the catalog: every command loads its workspace configuration    *)
(* (core/config.py), migrates the database it opens (core/catalog/         *)
(* migrations.py) and writes the configured sources into it                *)
(* (CoreApplication in core/application/app.py).                           *)
(*                                                                         *)
(* A migration is a script in a transaction of its own, which also sets    *)
(* user_version; the row that records it is written by sqlite-utils after  *)
(* that transaction.  Commands start concurrently on the same file, read   *)
(* the version before they have the write lock, and may be killed between  *)
(* any two steps; a call may raise (a busy database, a full disk).         *)
(***************************************************************************)
EXTENDS Naturals, Sequences, FiniteSetsExt, SequencesExt

CONSTANTS
    Commands,     \* commands that open the catalog
    Tracks,       \* rows of tracks
    History,      \* analyses of an old catalog: [track, ok], in order of id
    Legacy,       \* its curations: [id, prompt, status]
    Database,     \* the path of the catalog: a sequence of directory names
    Configs,      \* configuration files: [exports, sources], the sources a
                  \* sequence of [id, root]
    MaxStarts     \* bound: starts of commands

Current == 11                                   \* CURRENT_VERSION
Names == 0..5                                   \* the registered migrations
From(n) == IF n = 0 THEN 0 ELSE n + 5           \* the version each is for
To(n) == IF n = 0 THEN Current ELSE From(n) + 1
Blank == "blank"
Placeholder == "Legacy prompt unavailable"

BaseTables ==
    {"library_sources", "scan_runs", "tracks", "directories", "embedded_metadata",
     "technical_audio_metadata", "library_artifacts", "analysis_runs", "audio_analysis",
     "track_sections", "track_events"}
CurationTables == {"curation_creations", "curation_creation_tracks"}

\* catalog.sql, what an empty database gets.
CatalogTables ==
    BaseTables \cup CurationTables
    \cup {"current_track_analysis", "input facts of technical_audio_metadata",
          "audio_fingerprints", "duplicate_quality_selections", "mastering_analysis",
          "current_mastering_analysis", "current_dj_analysis", "checked curation text"}

ASSUME StartupAssumption ==
    /\ History \in Seq([track : Tracks, ok : BOOLEAN])
    /\ Legacy \subseteq [id : STRING, prompt : STRING, status : STRING]
    /\ \A k, l \in Legacy : k.id = l.id => k = l
    /\ MaxStarts \in Nat

VARIABLES
    catalog,   \* the committed database
    ledger,    \* migrations with a row in _sqlite_migrations
    pc,        \* each command: "closed", "version", "pending", "check", "script",
               \* "record", "sources", "up" or "refused"
    todo,      \* the migrations it still has to apply, lowest first
    config,    \* its sources: ids to their roots
    starts,    \* starts so far
    met        \* history: commands another one was starting up with

vars == <<catalog, ledger, pc, todo, config, starts, met>>

Starting(c) == pc[c] \in {"version", "pending", "check", "script", "record", "sources"}

\* current_track_analysis: the success with the greatest id, of every track.
LatestSuccess(analyses) ==
    LET ok(t) == {i \in DOMAIN analyses : analyses[i].ok /\ analyses[i].track = t}
    IN  [t \in {t \in Tracks : ok(t) # {}} |-> Max(ok(t))]

\* Mutant of Backfill: the last analysis counts, succeeded or not.
BackfillAny(db) ==
    LET of(t) == {i \in DOMAIN db.analyses : db.analyses[i].track = t}
    IN  [db EXCEPT !.tables = @ \cup {"current_track_analysis"},
                   !.projection = [t \in {t \in Tracks : of(t) # {}} |-> Max(of(t))]]

\* migrate-20260827105404.sql
Backfill(db) == [db EXCEPT !.tables = @ \cup {"current_track_analysis"},
                           !.projection = LatestSuccess(db.analyses)]

\* migrate-20260827225144.sql
AddDuplicates(db) ==
    [db EXCEPT !.tables = @ \cup {"input facts of technical_audio_metadata",
                                  "audio_fingerprints", "duplicate_quality_selections"}]

\* migrate-20260828150213.sql
AddMastering(db) ==
    [db EXCEPT !.tables = @ \cup {"mastering_analysis", "current_mastering_analysis",
                                  "current_dj_analysis"}]

\* migrate-20260905221652.sql
AddCurations(db) == [db EXCEPT !.tables = @ \cup CurationTables]

\* Mutant of CheckText: the tables are built anew, empty.
CheckTextOnly(db) ==
    [db EXCEPT !.tables = @ \cup {"checked curation text"}, !.curations = {}]

\* migrate-20260907063758.sql: the rows are copied to tables that refuse a
\* blank text, which gets a placeholder.
CheckText(db) ==
    [db EXCEPT !.tables = @ \cup {"checked curation text"},
               !.curations = {[k EXCEPT !.prompt = IF @ = Blank THEN Placeholder ELSE @] :
                                  k \in db.curations}]

\* What the script of migration n makes of the catalog, user_version included.
Script(n, db) ==
    LET new == CASE n = 0 -> [db EXCEPT !.tables = CatalogTables]
                 [] n = 1 -> Backfill(db)
                 [] n = 2 -> AddDuplicates(db)
                 [] n = 3 -> AddMastering(db)
                 [] n = 4 -> AddCurations(db)
                 [] n = 5 -> CheckText(db)
    IN  [new EXCEPT !.version = To(n)]

\* A catalog of version v, as the releases before this one left it.
Empty(v) == [version |-> v, tables |-> {}, analyses |-> << >>, projection |-> << >>,
             curations |-> {}, sources |-> << >>, linked |-> TRUE]

OldTables(v) ==
    BaseTables \cup (IF v >= 7 THEN Backfill(Empty(v)).tables ELSE {})
               \cup (IF v >= 8 THEN AddDuplicates(Empty(v)).tables ELSE {})
               \cup (IF v >= 9 THEN AddMastering(Empty(v)).tables ELSE {})
               \cup (IF v >= 10 THEN CurationTables ELSE {})
               \cup (IF v >= 11 THEN {"checked curation text"} ELSE {})

Old(v, linked) ==
    [version |-> v, tables |-> OldTables(v), analyses |-> History,
     projection |-> IF v >= 7 THEN LatestSuccess(History) ELSE << >>,
     curations |-> IF v = 10 THEN Legacy
                   ELSE IF v = 11 THEN {k \in Legacy : k.prompt # Blank} ELSE {},
     sources |-> << >>, linked |-> linked]

\* An empty file, a database that is not a catalog, an unsupported version or
\* one of 6 to 11, with the ledger rows the release that left it had written:
\* none before sqlite-utils, or all, or all but the last when it was killed.
Init ==
    /\ \/ /\ catalog \in {Empty(0), [Empty(0) EXCEPT !.tables = {"tracks"}], Empty(5), Empty(12)}
          /\ ledger = {}
       \/ \E v \in 6..Current, linked \in BOOLEAN :
              /\ catalog = Old(v, linked)
              /\ ledger \in {{}, {n \in Names : n > 0 /\ To(n) <= v} \cup {0},
                             {n \in Names : n > 0 /\ To(n) < v} \cup {0}}
    /\ pc = [c \in Commands |-> "closed"]
    /\ todo = [c \in Commands |-> {}]
    /\ config = [c \in Commands |-> << >>]
    /\ starts = 0
    /\ met = {}

\* The shape of the catalog, its ledger and each start.
TypeOK ==
    /\ catalog.version \in 0..12 /\ catalog.tables \subseteq CatalogTables
    /\ ledger \subseteq Names
    /\ \A c \in Commands : todo[c] \subseteq Names
    /\ starts \in 0..MaxStarts

-----------------------------------------------------------------------------
(* One command *)

Goto(c, where) == pc' = [pc EXCEPT ![c] = where]

\* _is_within
IsWithin(path, root) == IsPrefix(root, path)

\* Mutant of Loads: the roots are compared with the exports only.
LoadsExports(file) ==
    /\ \A i \in DOMAIN file.sources : file.sources[i].id # Blank
    /\ \A i, j \in DOMAIN file.sources : file.sources[i].id = file.sources[j].id => i = j
    /\ \A i \in DOMAIN file.sources : ~IsWithin(file.exports, file.sources[i].root)

\* WorkspaceConfig.load accepts the file: no blank id, none twice, and neither
\* the catalog nor the exports under a source.
Loads(file) ==
    /\ \A i \in DOMAIN file.sources : file.sources[i].id # Blank
    /\ \A i, j \in DOMAIN file.sources : file.sources[i].id = file.sources[j].id => i = j
    /\ \A i \in DOMAIN file.sources, path \in {Database, file.exports} :
           ~IsWithin(path, file.sources[i].root)

\* The sources it lists, as the rows they become.
SourcesOf(file) ==
    [s \in {source.id : source \in ToSet(file.sources)} |->
        (CHOOSE source \in ToSet(file.sources) : source.id = s).root]

\* load_config and Database.open; a file that is not accepted ends the command.
Open(c) ==
    /\ pc[c] = "closed"
    /\ starts < MaxStarts
    /\ starts' = starts + 1
    /\ Goto(c, "version")
    /\ LET others == {d \in Commands \ {c} : Starting(d)}
       IN  met' = met \cup others \cup (IF others = {} THEN {} ELSE {c})
    /\ \E file \in Configs :
           Loads(file) /\ config' = [config EXCEPT ![c] = SourcesOf(file)]
    /\ UNCHANGED <<catalog, ledger, todo>>

\* migrate: versions 1 to 5 and later ones are refused.
CheckSupported(c) ==
    /\ pc[c] = "version"
    /\ Goto(c, IF catalog.version = 0 \/ catalog.version \in 6..Current THEN "pending"
               ELSE "refused")
    /\ UNCHANGED <<catalog, ledger, todo, config, starts, met>>

\* Migrations.apply of sqlite-utils: those without a row, in order.
ListPending(c) ==
    /\ pc[c] = "pending"
    /\ todo' = [todo EXCEPT ![c] = Names \ ledger]
    /\ Goto(c, IF Names \subseteq ledger THEN "sources" ELSE "check")
    /\ UNCHANGED <<catalog, ledger, config, starts, met>>

Migration(c) == CHOOSE n \in todo[c] : \A m \in todo[c] : n <= m

\* Mutant of ReadVersion: a pending script is run, whatever the version.
ReadVersionNever(c) ==
    /\ pc[c] = "check"
    /\ Goto(c, "script")
    /\ UNCHANGED <<catalog, ledger, todo, config, starts, met>>

\* The registered function reads the version before it has the write lock.
ReadVersion(c) ==
    /\ pc[c] = "check"
    /\ Goto(c, IF catalog.version = From(Migration(c)) THEN "script" ELSE "record")
    /\ UNCHANGED <<catalog, ledger, todo, config, starts, met>>

\* Mutant of Applicable: the version is not read again under the write lock.
ApplicableUnlocked(n) ==
    /\ n = 0 => catalog.tables = {}
    /\ catalog.linked

\* What _run_script_transaction checks between BEGIN IMMEDIATE and COMMIT.
Applicable(n) ==
    /\ catalog.version = From(n)
    /\ n = 0 => catalog.tables = {}
    /\ catalog.linked

RunScript(c) ==
    /\ pc[c] = "script"
    /\ IF Applicable(Migration(c))
       THEN catalog' = Script(Migration(c), catalog) /\ Goto(c, "record")
       ELSE UNCHANGED catalog /\ Goto(c, "refused")
    /\ UNCHANGED <<ledger, todo, config, starts, met>>

\* The row of the migration: it is unique, a second one raises.
Record(c) ==
    /\ pc[c] = "record"
    /\ IF Migration(c) \in ledger
       THEN Goto(c, "refused") /\ UNCHANGED <<ledger, todo>>
       ELSE /\ ledger' = ledger \cup {Migration(c)}
            /\ todo' = [todo EXCEPT ![c] = @ \ {Migration(c)}]
            /\ Goto(c, IF todo[c] = {Migration(c)} THEN "sources" ELSE "check")
    /\ UNCHANGED <<catalog, config, starts, met>>

\* Mutant of Upsert: the rows of the configuration replace all others.
UpsertReplacing(rows, new) == new

\* SourceRepository.upsert, for each configured source.
Upsert(rows, new) ==
    [s \in DOMAIN rows \cup DOMAIN new |-> IF s \in DOMAIN new THEN new[s] ELSE rows[s]]

\* The sources are written in one transaction; the application is open.
WriteSources(c) ==
    /\ pc[c] = "sources"
    /\ catalog' = [catalog EXCEPT !.sources = Upsert(@, config[c])]
    /\ Goto(c, "up")
    /\ UNCHANGED <<ledger, todo, config, starts, met>>

\* An open application records an analysis, or stores a curation.
Use(c) ==
    /\ pc[c] = "up"
    /\ \/ /\ Len(catalog.analyses) <= Len(History)
          /\ \E t \in Tracks, ok \in BOOLEAN :
                 LET more == Append(catalog.analyses, [track |-> t, ok |-> ok])
                 IN  catalog' = [catalog EXCEPT !.analyses = more,
                                                !.projection = LatestSuccess(more)]
       \/ LET new == [id |-> "new", prompt |-> "text", status |-> "draft"]
          IN  new \notin catalog.curations
              /\ catalog' = [catalog EXCEPT !.curations = @ \cup {new}]
    /\ UNCHANGED <<ledger, pc, todo, config, starts, met>>

\* It ends; or a call raises or it is killed while it starts, when an open
\* transaction is rolled back.
Close(c) ==
    /\ pc[c] # "closed"
    /\ Goto(c, "closed")
    /\ todo' = [todo EXCEPT ![c] = {}]
    /\ config' = [config EXCEPT ![c] = << >>]
    /\ met' = met \ {c}
    /\ UNCHANGED <<catalog, ledger, starts>>

Step(c) ==
    \/ Open(c) \/ CheckSupported(c) \/ ListPending(c) \/ ReadVersion(c) \/ RunScript(c)
    \/ Record(c) \/ WriteSources(c) \/ Use(c) \/ Close(c)

Next == \E c \in Commands : Step(c)

Spec == Init /\ [][Next]_vars

-----------------------------------------------------------------------------
(* Properties *)

\* A row says a migration was applied only when the version is beyond it: a
\* start that skips the migration skips nothing (sqlite-utils reads only rows).
LedgerIsTrue ==
    \A n \in ledger : IF n = 0 THEN catalog.version # 0 ELSE catalog.version >= To(n)

\* At the current version the catalog is what an empty one would have been
\* given, whatever version it came from, and its derived rows are those of its
\* history: the latest success of each track, no blank curation text.
CatalogIsCurrent ==
    catalog.version = Current =>
        /\ catalog.tables = CatalogTables
        /\ catalog.projection = LatestSuccess(catalog.analyses)
        /\ \A k \in catalog.curations : k.prompt # Blank

\* An application that is open works on such a catalog, with its sources in it.
OpenMeansCurrent ==
    \A c \in Commands : pc[c] = "up" =>
        /\ catalog.version = Current /\ ledger = Names
        /\ DOMAIN config[c] \subseteq DOMAIN catalog.sources

\* No source, of whatever configuration it came from, holds the catalog itself:
\* no scan of it would observe what the scan is writing (config.py:223-225).
CatalogIsOutsideSources ==
    \A s \in DOMAIN catalog.sources : ~IsWithin(Database, catalog.sources[s])

\* The four together, with the types: what a start leaves can be worked on.
CatalogIsSound ==
    /\ TypeOK /\ LedgerIsTrue /\ CatalogIsCurrent /\ OpenMeansCurrent
    /\ CatalogIsOutsideSources

\* A start is refused only by a catalog that can never be opened, or because
\* another command was starting up with it: one that was killed between a
\* script and its row does not lock the next one out.
AStartAloneSucceeds ==
    \A c \in Commands : pc[c] = "refused" =>
        \/ c \in met
        \/ ~catalog.linked
        \/ catalog.version \in 1..5 \/ catalog.version > Current
        \/ catalog.version = 0 /\ catalog.tables # {}

\* The version moves by one migration at a time and never back, and no step
\* loses an analysis, a curation, its status or a source.
NothingIsLost ==
    [][/\ catalog'.version \in {catalog.version}
              \cup {To(n) : n \in {m \in Names : From(m) = catalog.version}}
       /\ Len(catalog'.analyses) >= Len(catalog.analyses)
       /\ \A k \in catalog.curations : \E l \in catalog'.curations :
              /\ l.id = k.id /\ l.status = k.status
              /\ k.prompt # Blank => l.prompt = k.prompt
       /\ DOMAIN catalog.sources \subseteq DOMAIN catalog'.sources]_catalog
=============================================================================
