# A verification development of dj-digger

TLA+ modules for the parts of dj-digger whose correctness depends on order,
interleaving and failure: starting up and migrating the catalog, scanning,
metadata, the audio analysis with its worker processes and its history, duplicates,
curation, background jobs, the copies and exports, and `refresh`, which composes
most of them. TLC checks small instances; TLAPS proves every safety property of these
runs for every value of the constants. Liveness stays with TLC.

Paths below are relative to the repository; `core/` and `cli/` stand for
`src/dj_digger/core/` and `src/dj_digger/cli/`.

## 1. Inventory

dj-digger is a set of short-lived commands over one SQLite catalog and the
read-only music library. There is no server: concurrency is several commands at
once (a user, a background job, an agent that calls the CLI) and, inside one
command, worker threads that each drive a child process.

| Component | State it keeps | Operations | What makes it correct |
|---|---|---|---|
| Catalog database (`core/catalog/database.py`, `repositories.py`, `sql/`) | SQLite file, lock files | transactions, advisory lock, queries | a transaction is all or nothing; one holder per lock name |
| Migrations (`core/catalog/migrations.py`) | `schema_migrations` ledger, schema | `migrate` on every start | each script applied once, ledger agrees with schema |
| Scanning (`core/scanning/`, `core/application/scan.py`) | `scan_runs`, `tracks`, `directories`, `library_artifacts`, `track_events` | begin, observe, succeed, fail | only a complete traversal declares absence; events tell the presence story; one scan per source |
| Analysis (`core/analysis/pipeline.py`, `persistence.py`, `core/catalog/current_analysis.py`) | `analysis_runs`, `audio_analysis`, `current_track_analysis`, advisory lock | reconcile, select, start, persist, finish, rebuild | append-only history, projection = newest success, honest counters, no wasted and no stale reuse |
| Worker protocol (`core/analysis/worker_client.py`, `worker.py`, `core/concurrency.py`) | child processes, pipes | spawn, read bounded output, time out, kill the group | no worker and no decoder runs on, no output without bound, every extraction is answered |
| Background jobs (`core/jobs.py`, `cli/background.py`, `cli/runtime.py`) | one record file per job, a file lock | create, start, record result, fail, mark unknown, list | a terminal record is final and true; a lost process is noticed |
| Export publication (`core/application/export.py`) | destination link, generation directories | stage, promote, switch, clean, roll back | but for the two calls that replace a legacy directory the destination is a complete export; a returned path survives the next publication |
| Export writers (`core/exports/`, `core/analysis/exporters.py`) | staged files | write facets from one read transaction | one snapshot; no value beside facts older than those it was stored under |
| Refresh (`core/application/refresh.py`) | none of its own | scan, metadata, analysis, duplicates, export in order | stop rule, aggregated status |
| Metadata (`core/metadata/exiftool.py`) | `track_metadata` | batch extraction with per-file fallback | tags are not older than the facts they are stored under |
| Duplicates and mastering (`core/duplicates/`) | fingerprints, groups, mastering projections, best-quality marks | fingerprint, group, measure, mark | groups and marks agree with the present tracks |
| Curation (`core/curation/`, `core/mcp_server.py`) | `curation_creations` and their tracks | search, resolve, agent loop, create draft, validate | a stored draft is grounded in the catalog; what the tools answer adds up |
| Set copies and curation exports (`core/set_copy.py`, `core/application/copy_set.py`, `core/exports/curation.py`) | copied files, playlists, staging directories | plan, copy atomically, verify the source, publish | a copy is complete and of the file verified; a list names only copies; of what others put there only what the policy allows is overwritten |
| Signal processing (`core/analysis/rhythm.py`, `spectrum.py`, ...) | none | numeric functions | out of scope of model checking |
| Configuration (`core/config.py`, `core/application/app.py`) | the workspace file, `library_sources` | load, write the sources at every start | the catalog is in no source; starting loses no source |
| CLI, diagnostics, read-only queries | none that is shared | parsing, presentation | out of scope |

Interactions. Every command opens the catalog, migrates it and rewrites the
source rows (`CoreApplication.__init__`); so merely starting a command can change
what another one is selecting from. Scan writes the facts (size, mtime) that
analysis, metadata and duplicates select by; analysis reads the file itself
later, in a worker. Export reads the catalog in one read transaction and then
only touches the filesystem. A background job is an ordinary command whose
parent and whose listings share its record file.

Hard behaviours: commands that overlap without a lock (export, rebuild, scan),
crashes between two transactions or two filesystem calls, facts that are read
long before they are used, results that arrive in completion order, and writers
that race for the last word on a job. `PROJECT.json` lists them under `hazards`
with their lines.

## 2. Modules

| Module | Models | Extends / instantiates |
|---|---|---|
| `AnalysisPipeline` | `analyze` commands, crashes, scans, edits, rebuild | instantiates `AnalysisHistory` |
| `AnalysisHistory` | abstract: what a reader of the catalog may see | |
| `ScanCatalog` | `scan` commands over the presence rows and events | |
| `BackgroundJobs` | launchers, children, listings | |
| `ExportPublication` | `export` commands over the destination and its storage | |
| `DuplicateDetection` | `duplicates` commands: fingerprints, mastering, best-quality marks | |
| `CatalogStartup` | configuration, migrations and sources of every start | |
| `MetadataRefresh` | `metadata` commands: selection, exiftool, rows and events | |
| `RefreshPipeline` | `refresh` beside other commands, and what an export publishes | extends `MetadataRefresh` |
| `AnalysisWorker` | one extraction: client threads, pipes, worker process | |
| `Enumeration` | pure: a finite set of numbers in increasing order, `ORDER BY id` and the order of lines | |
| `CandidateCatalog` | pure: candidates, search, paging, resolution, overview of one catalog | extends `Enumeration` |
| `CurationAgent` | the agent loop, drafts and their validation | extends `CandidateCatalog` |
| `SetCopy` | `copy` and the export of a curation | extends `Enumeration` |
| `*Proofs` | theorems and proofs about the module of that name (section 4); those of `AnalysisWorker` are in `AnalysisPipelineProofs`, those of `CandidateCatalog`, `CurationAgent` and `SetCopy` in `CurationProofs` | extend the modules |
| `MC*` | the instances TLC checks: model values, small catalogs and symmetry | extend the above |

How they fit: `CatalogStartup` is the beginning of every command; each command's own
module starts with the catalog open. `RefreshPipeline` composes the stages: metadata
is the detailed one (it extends `MetadataRefresh`), a scan of a source and the start
of an analysis are one step each, which `ScanCatalog` and `AnalysisPipeline` take
apart, and `AnalysisWorker` is one `Extract` step of the latter. `StageExport` of
`RefreshPipeline` says what the facets hold, `ExportPublication` how they reach the
destination. `CandidateCatalog` has no state: its operators are functions of one
snapshot, because every query of the code is one read transaction.

Operators named "Mutant of X" in a comment are plausible bugs: each replaces X in
a run and must then break the property it is paired with in `PROJECT.json`. They
belong to no specification.

### AnalysisPipeline

One step is one SQLite transaction or query; everything may interleave between
two steps.

| Model | Code |
|---|---|
| `lock`, `Acquire` | `advisory_lock("analysis-pipeline")`, non-blocking; the loser raises and is not a step |
| `Reconcile`, `Settled` | `reconcile_running_runs` |
| `Select`, `Pending` | `pending_analysis` or `eligible_for_analysis`; scope and `--limit` keep an arbitrary subset |
| `ReadReusable`, `Reusable` | `ids_with_current_analysis`, a second query |
| `StartRun` | `start_run` |
| `Extract`, `WorkerFree` | a worker under `bounded_results`; it reads the file as it is then |
| `Persist`, `Advance` | `persist_outcome` and `CurrentAnalysisProjector.advance` in one transaction, with the facts of the `Track` selected before |
| `Finish`, `Release` | `finish_run`, leaving the `with` block |
| `Abort` | SIGKILL or an exception anywhere: the kernel drops the `flock` |
| `Rebuild` | `rebuild-current-analysis`, which takes no advisory lock |
| `EditFile`, `Rescan`, `Reconfigure` | the library, a scan, a source that changes its `enabled` or `analyze` |

`disk[t]` and `catalog[t]` are version numbers that stand for (size, mtime).
They only grow: a file that is edited and given its old size and mtime again is
outside the model, as it is outside what the program can notice. `ReusableIsFresh`
depends on it.

### ScanCatalog

One step is one transaction or one directory entry. Files are audio files,
DJ artifacts and directories (`KindOf`), which differ in their facts and events and
share no rows. `Visit` reads the entry of one
path at an arbitrary moment of the traversal (os.scandir gives no order), `Raise`
is any exception of the traversal or of a transaction, `Fail` and `FailSuppressed`
are the two outcomes of `lifecycle.fail` under `contextlib.suppress`. `wasAbsent`
is a history variable: the files of the source that did not exist at some moment
since the scan began. `outcome` is what the command reports of each run. Crashed
scans leave their row `running`; the unique index then refuses the source, as in
the code.

### BackgroundJobs

Each read-modify-write of a record happens under one `flock` and ends in
`os.replace`, so it is one step; `SettleRaises` and `StartRaises` are the writes
that raise, before or after the replacement. `launcher[j]` follows `launch()`
line by line, `child[j]` the detached process, `pid` its identity in the process
table: a child is a zombie until its launcher reaps it or ends, and a free pid may
be given to another job or to an unrelated process (`others`). `Reaped` and
`NotReaped` are the two ways out of `_terminate_bounded`. `result` and `lost` are
history variables. One user and one pid namespace are assumed.

### ExportPublication

One step is one filesystem call of `_publish_group`. `content` of a generation is
`reserved` after `mkdtemp`, `complete` after the staged directory replaced it, `partial`
while `rmtree` is at work. `MoveLegacy` moves whatever the destination has become since
`CheckLegacy` looked, as `os.replace` does. `Switch` is the `os.replace` of the link and
`MarkSwitched` the assignment after it: an interrupt between the two still finds
`switched` unset. `RollBack` is the `except`/`finally` before that assignment, whose
restore may raise and whose `rmtree` may leave a part, `VerifyFails` an error after it,
and `ReturnDeferred` a cleanup that raised. `torn` says that a publication was stopped
between two calls that only together replace the destination; the next switch resets it.
`before`, `switched`, `answered`, `overlapped` and `torn` are history variables:
properties about publications that do not overlap are conditioned on `overlapped`, which
says that two commands were ever in `_publish_group` at the same time. A killed command
counts as ended.

### DuplicateDetection

One step is one query or one transaction of `DuplicateService.analyze` or of
`QualitySelector.mark_best_quality`, or one tool that reads a file.

| Model | Code |
|---|---|
| `Start`, `Upserted`, `StartUp` | start-up writes the configured sources; one that was dropped from the file stays as it was |
| `Begin`, `BeginMark` | `analyze` under `advisory_lock("duplicates")`; `mark-best-quality` without a lock |
| `Select`, `PresentTracks` | `present_tracks` and `reusable_fingerprint` |
| `Fingerprint`, `Probe`, `Persist` | a worker of `_extract_all` reads the file twice; the transaction stores what it found under the facts of the `Track` selected before |
| `MissingRoot` | `_path_for` outside the `try`: a `KeyError` ends the command |
| `Invalidate`, `Groups` | `invalidate_stale_quality_selections`, `groups` |
| `Measure`, `Store`, `StoreRefused`, `RebuildDj` | `_analyze_mastering`, `_persist` and the foreign key of `current_dj_analysis`, `rebuild_dj` |
| `ReadPresent`, `ReadFacts`, `Refuse`, `Elect`, `MissingFacts`, `Commit` | `mark_best_quality`, line by line; `facts_by_track` may lack a member of a group read later |
| `Abort` | SIGKILL, a missing ffmpeg or an error of the database |
| `EditFile`, `MoveFile`, `Reconfigure`, `Scan` | the library, the configuration file, a scan |

The two queries of `_current_facts` are one step: one transaction writes both
rows and a row labelled with other facts is no row, so reading them apart gives no
other answer. The reads of `Select` are one step because only the holder of the
lock writes fingerprints. Audio and facts of a version are constants (`HashOf`,
`FactsOf`); `RankKey` is `_rank_key` with 0 for NULL. As in the analysis, versions
only grow. `unprobed` and `same` are history fields of a command.

### CatalogStartup

`Open` reads the workspace file (`Loads`: the checks of `WorkspaceConfig.load` on
sources, database and exports), `CheckSupported` the version, `ListPending` the ledger,
`ReadVersion` the version again, before the script's transaction, which compares it once
more (`Applicable`). `RunScript` is one script in its transaction, `Record` the ledger
row in another one, `WriteSources` the upsert of the configured sources. Names 0..5 are
the registered migrations, `From` and `To` their versions, `todo` the ones still to be
applied, in their order; a script is what it does to the set of tables, the projection,
the curations and the version. Initial states are an empty file, a database that is no
catalog, an unsupported version, and versions 6 to 11 with the ledger rows a release
could have left, with blank prompts and failed attempts. `Close` is the end of a
command, and the exception or the kill at any step of its start. `met` is a history
variable: the commands that were not alone between their opening and their end.

### MetadataRefresh and RefreshPipeline

| Model | Code |
|---|---|
| `CountPresent`, `VersionMissing`, `SelectEligible`, `Outdated` | `present_count`, `version`, `eligible_tracks`, each a query |
| `ReadTags`, `BatchRaises` | `extract_many`: a batch of files read one by one, by a process that may fail as a whole |
| `Store`, `MetadataRow`, `Discard` | the one transaction with rows, events and counts; its rollback |
| `Observed`, `Reconciled` | the two transactions of a scan: what it saw is stored, then what it did not see is missing |
| `ScanSucceeds`, `ScanFails`, `Blocked`, `DecideAfterScan` | the stages of `RefreshUseCase.execute` and its stop rule; a scan may fail after its observation was committed |
| `BeginAnalysis` ... `AbandonAnalysis` | `AnalyzeUseCase` under the advisory lock, also of a second command |
| `TrackRows`, `AnalysisRows`, `CanPublish`, `StageExport`, `Publish` | the facets of one read transaction and their publication |
| `WorstStatus`, `StatusOf` | `worst_status` and the result |

The fields of a file are a function of its version (`TagsOf`). A published row has the
facts its track has when the export is staged, beside the metadata and the attempt with
the facts they were stored under: `ValuesFollowFacts` compares the two, and
`RowsShowTheirAttempt`, which would have them equal, is a known exception (section 3).
An analysis selects only tracks of sources whose `analyze` is set (`Analyzable`).
`scanned` and `alone` are history variables of a refresh: what its own scans stored, and
that no other command wrote to the catalog until it staged its export; `publisher` is
the refresh that published last.

### AnalysisWorker

`main` is `extract` and `_communicate_bounded` line by line, `reader[s]` the two
draining threads, `pipe` what the kernel holds. The worker boots, reads its request to
the end of file, goes through the stages of `CompositeAudioExtractor` with a decoder
child in the first two, answers and exits; it may write noise, garble its answer,
fail a stage, hang or crash at any moment. `CloseInput` is a request that was written;
`InputBroken` is a worker that died before it read it: `stdin.close()` either passes or
raises the `BrokenPipeError` again, which leaves the process to Python (`Collect`) and the
threads to themselves. `KillGroup` is `killpg`. `ExtractOutcome` has the
order of the checks after the join. Units stand for reads of a pipe.

### CandidateCatalog and CurationAgent

A snapshot (`Row`) has for each track its source, presence, facts, fingerprint,
analysis, technical format and tags, each with the facts it was measured from.
`GroupKey`, `Candidates`, `Matches`, `Selected`, `Search`, `Resolvable`, `Details` and
`Overview` follow `core/curation/catalog.py` query by query. `CurationAgent` is
`CurationAgent.run`: `Respond` is a completion with any calls, `Refuse` one of the
refusals, `SearchCandidates`, `GetCandidates`, `ReadOverview` the read tools,
`ResolveCreation` and `StoreDraft` the two transactions of `create_curation`,
`ReadFails` and `StoreFails` the errors of the catalog in them, the read-back of a draft
that is already committed included, and `Ground` the check of the answer. `shown` is a
history variable: what the searches and gets of a run have returned. `Timeout` may
happen in every state the deadline covers. `CheckDraft` and `Validate` are `curation
validate`. `CatalogChanges` puts another snapshot in place: a scan, an edit, a
measurement, a reconfiguration.

### SetCopy

A file is an inode with a version; a command reads the first and the second half of
it in two steps (`OpenSource`, `ReadHalf`), so that an edit in place can tear a copy.
`OpenSource` begins with the look at the target name, which must be new or a regular
file; `VerifyUnchanged` is `_verify_source_unchanged`, `Place` the `os.replace` of the
temporary file over whatever is there by then, a directory excepted (the policy
`replace`), `Recheck` the second check of `export_curation`. The target directory `dir`
maps names to what they are: a copy with the command that made it, or somebody's file,
link or directory. `Intrude` and `Occupy` are those others; `during` remembers which
commands had already looked when it appeared.

`PlanEntries` reads a playlist by the prefixes of its lines: `#EXTGRP:` begins a group,
any other `#` a comment, the rest are tracks. `ManifestLines` is the playlist a command
writes, which may be the input of the next one, as it will be read: the line of a track
begins with its group, so under a group of `Hashed`, whose name begins with `#`
(`_validate_group` accepts it), it is a comment. `PublishPlaylist` and `PublishListing`
are `_publish_text`, which does not look at what it replaces. `Fail` leaves what a `copy`
has placed and the list it has published, unlinks the temporary file, and removes of a
staging directory what `rmtree` manages to (`Remains`). `Vacant` is what lets `os.replace`
move a staging directory. The portable variant of the copy has the same steps under other
names.

## 3. Runs

| Run | Instance | Shows |
|---|---|---|
| `analysis` | 2 tracks, 2 commands, 2 workers, 1 edit per file, 1 finished run and 1 aborted one | type, projection, ownership, counters and status, reuse, refinement of `AnalysisHistory` |
| `analysis_progress` | 1 track, 2 commands, 2 identities, up to 3 runs, fair | interrupted runs get settled |
| `scan` | an audio file and a directory in one source, an artifact in another, 2 commands, 3 runs, 2 edits | presence, events and runs agree |
| `jobs` | 2 jobs, 2 pids, 1 unrelated process, fair | truthful, final records; a lost process is noticed |
| `publication` | 2 commands, 3 publications, 2 catalog versions, legacy directory or none (4,667,519 states) | complete destination, the calls that can tear it, kept path, rollback, order, bounded storage |
| `duplicates` | 3 tracks in 2 sources, 2 commands, 2 workers, 2 changes | fresh rows, latest projections, truthful success, marks of a stable scope |
| `curation` | 3 tracks in 2 sources, 4 snapshots, 1 agent of 3 turns, 2 validators, 2 changes, fair (451,836 states) | grounded drafts and answers, exact paging, one validation, every run ends |
| `set_copies` | 2 files, 2 commands, 3 input playlists with a group that begins with `#`, 2 curations, 2 names others use, 1 change of theirs (673,021 states) | whole copies, complete sets that read back, no temporary file left, others overwritten only as the policy says |
| `startup` | 2 commands, 3 starts, 6 configuration files, versions 0, 5 and 6 to 12 | sound catalog, a start alone succeeds, nothing lost |
| `worker` | request 2, pipes 2, limits 2 and 1, response up to 3, noise up to 2, fair (116,690 states) | sound answers, nothing runs on, every extraction and its threads end, all but a broken pipe reap the worker |
| `refresh` | 2 sources with a file each, a refresh, a metadata and an analyze command, another scan, 2 edits (1,927,009 states) | no value is ahead of the facts beside it, publications are what they say, events tell every change |
| `measuring_raises` | as `duplicates`, 1 change | violation: measuring a changed duplicate again raises |

Why the bounds are enough. `analysis`: with two commands one can be killed mid-run while
the other starts, reconciles and fills its own run; two tracks give two outcomes in
either order and a partial run; one edit per file is enough for a file to differ from
its catalog row, its snapshot and its stored attempt at once. A third run (a reuse of a
reuse, a second identity) is what `analysis_progress` adds. `scan`: three runs are a
success, a failure and a success of one source, or two overlapping sources; two edits
remove and restore a file; the kinds never meet in one row, so one of each is enough.
`jobs`: two pids and three claimants force reuse. `publication`: three publications are
what it takes for a generation to be active, previous and garbage; the legacy directory
occurs in half of the initial states. `duplicates`: two copies in one source and one in
another make groups within and across sources; two commands are a first and a second
measurement, or an analysis and a marking at once; two changes, counted over edits,
moves, configuration, failures and aborts, are a file that leaves and returns around a
marking, or a source that is dropped while a file changes. `u` is in the catalog of
fingerprints from the start (`Known`), as an earlier command leaves it. `curation`: two
copies of a recording and a track without fingerprint give every quality status; pages
of one candidate put a boundary everywhere; two changes let a track leave between
resolution, storage and grounding and come back. `set_copies`: two commands copy the
same file under two groups, copy over each other's set or race for one destination; one
change, of a file, of a name both use or of the destination, hits any of the steps
between planning and publication, and every property of the run is about one such
change. `startup`: three starts are a killed one, the one beside it and the one after.
`worker`: a response beyond its limit, noise beyond its limit and a full pipe all occur.
`refresh`: an edit before and after the selection of one file; each of the three other
commands between any two stages.

`MaxVersion`, `MaxRuns`, `MaxAborts`, `MaxEdits`, `MaxOthers`, `MaxPublications`,
`MaxChanges`, `MaxCommands`, `MaxStarts`, `MaxCalls`, `MaxResponse` and `MaxNoise` are
the only bounds; each is a conjunct of the guards it limits. `MaxTurns`, `MaxTracks`,
`MaxRefs`, `Workers`, `Limit` and `PipeSize` are parameters of the program or its
platform.

The mutants of `PROJECT.json` say what each property would catch: each is a plausible
change of one definition under which the run fails.

Deadlock is checked in both runs of `AnalysisPipeline`, where a rebuild is always
possible. The other modules really stop: the commands end, and a source whose row is
stuck admits no further scan. Their configurations say so. Symmetry is used only
where the properties are safety properties.

### Fairness

* `AnalysisPipeline!FairSpec`: weak fairness of each command's own steps (it
  waits only for workers, which are killed at `--track-timeout`) and of *some*
  command starting again. Without the second nothing would ever settle an
  interrupted run: the program does it at the next `analyze` only. `RunsAreSettled`
  is to be read with that assumption. Nothing fair is assumed of crashes or of the
  environment.
* `BackgroundJobs!FairSpec`: the launcher goes on, a command ends, unrelated
  processes end, and `jobs` is run again and again; a listing is the only thing
  that notices a vanished process.
* `AnalysisWorker!FairWorkerSpec`: the three threads of the client go on. Nothing is assumed
  of the worker: it may hang at any stage.
* `CurationAgent!FairSpec`: what the command does on its own goes on, and its deadline
  passes (`asyncio.timeout_at`). The service may never answer.

### What the violation says

* `MeasuringNeverRaises`: `docs/ARCHITECTURE.md` "failed per-track attempts yield
  partial command results", but the upsert of `current_mastering_analysis`
  (`core/duplicates/mastering_repository.py:118`) renumbers the row that
  `current_dj_analysis` references with no ON UPDATE action. Measure a group, edit
  one of its files, scan, measure again: SQLite refuses, the error ends the command,
  and every later one, since only the end of a measurement rebuilds the referencing
  table.

### Known exceptions

These statements are kept in the modules, commented as exceptions, and belong to no
run. Adding one to the configuration named shows the behaviour.

| Statement | Configuration | What happens |
|---|---|---|
| `FailedScanIsRecorded` | `MCScanCatalog.cfg` | README.md:347 "A failed scan is recorded", but an error of `lifecycle.fail` is suppressed (`core/application/scan.py:59`): the source is reported failed, its row stays `running`, and the partial unique index refuses every later scan of it. A killed scan leaves the same row; nothing settles it. |
| `DeadJobIsShown` | `MCBackgroundJobs.cfg` | docs/cli-usage.md:56 "a job whose process died without reporting a result is shown as `unknown`", but listings examine only `running` records (`core/jobs.py:238`): a launcher killed between `Popen` and `start` leaves a `starting` record for ever. |
| `ReplacementIsAtomic` | `MCExportPublication.cfg` | `core/application/export.py:62` "Validate and atomically publish one consistent catalog export", `docs/ARCHITECTURE.md:50` "atomic export replacement". A directory written by an older release is moved away (168) and then replaced by a link (176). A kill in between, or a call that raises there and a restore (185) that raises too, leaves nothing at the destination; the next publication finds no previous generation and its cleanup deletes the directory that was moved. An interrupt after the rename and before `switched = True` (177) removes the generation the link names. `PublishedStaysComplete` and `DestinationNeverGoesBack` name exactly these calls (`torn`) and say what holds all the same. |
| `PathKeptThroughConcurrent` | `MCExportPublication.cfg` | `ExportResult` promises that a returned path survives one concurrent publication; the cleanup keeps only the caller's own generation and the one it saw when it started (`core/application/export.py:291`). |
| `CleanAnalysisAllowsMarking` | `MCDuplicateDetection.cfg` | docs/cli-usage.md:212 tells a user whose marking is refused to "analyze that scope first"; once ffprobe has failed on a file whose fingerprint was stored, every further analysis reuses the fingerprint, never probes again and answers succeeded, and marking stays refused. |
| `OnlyShownTracks` | `MCCurationAgent.cfg` | docs/curation.md:20-22 "A track absent from the catalog results cannot be selected or persisted. The agent must inspect every selection", but the agent passes `create_curation` on in any turn (`core/curation/agent.py:196`). The tool resolves every reference itself, so a draft names available tracks (`Grounded`); that a search or a get of the run returned them nobody asks. |
| `FailedRunStoresNothing` | `MCCurationAgent.cfg` | docs/curation.md:99-104: a failure fails closed and "no ungrounded draft is stored", but the tool stores the draft (`core/curation/agent.py:211`) before it is grounded (line 259); a timeout or a stale reference afterwards reports a failed run and leaves it. |
| `ListsReplaceNoLink` | `MCSetCopy.cfg` | docs/cli-usage.md:94-96 "Track and manifest replacements are atomic. Existing regular files with the same generated names are replaced, while symbolic links and non-file destinations are refused." That is so of tracks (`core/set_copy.py:140`); `_publish_text` (79) replaces a link or file at the name of a list. `OthersAreKept` says what holds of the tracks, and that a link which appears after the look is replaced as well. |
| `EveryAnswerReaps` | `MCAnalysisWorker.cfg` | A worker that dies before it has read its request: `stdin.close()` (`core/analysis/worker_client.py:130`) raises the error of the pipe again, past `wait()` and the joins. The process stays a zombie until Python collects it, its threads end on their own (`ExtractEnds`), and an overflow in the meantime is reported as a broken pipe. |
| `StrangersAreSpared` | `MCAnalysisWorker.cfg` | A draining thread that meets its limit after the worker was reaped signals a process group whose id may have been given away (`core/analysis/worker_client.py:108`). |
| `RowsShowTheirAttempt` | `MCRefreshPipeline.cfg` | `core/analysis/exporters.py:218` "Persisted attempt identity is authoritative over payload duplicates", but the size and mtime of a row are those of the track, the attempt's own (`input_size_bytes`, `input_mtime_ns`) are not read. After an edit and a scan, and until the next analysis, a row names the new file and carries the values of the old one. What holds is `ValuesFollowFacts`: never the reverse. |
| `SkippedIsACount` | `MCRefreshPipeline.cfg` | A scan that commits between `present_count` and `eligible_tracks` makes `skipped` negative. |

Seen while modelling, with no statement of the repository to hold them to:

* `MissingRoot` (a source dropped from the configuration makes every duplicate
  analysis without `--source` fail) and `MissingFacts` (a track that returns during a
  marking) end the command with a `KeyError`.
* The analysis facet refuses while the newest run is `running` (`CanPublish`), live or
  abandoned: until the next `analyze` settles it, every export and every refresh that
  published would, fails at its export.
* `library_tracks` and the facet of the tracks join metadata and the current analysis to a
  track without comparing facts; a consumer that needs current ones must compare them, as
  `PublishedIsWhatItSays` does. A published row of metadata does not carry the facts it was
  read under.
* `copy` removes nothing when it fails: the tracks placed so far stay, without a list or
  with the playlist alone. An export of a curation removes its staging directory, if it can.
* The playlist of a set with a group whose name begins with `#` does not read back: the
  tracks of that group are comments to the next `copy`.
* `CurationRepository.validate` is idempotent, as its docstring says; `curation validate`
  refuses a curation that is no draft before it gets there (`core/application/app.py:253`).
* Of two metadata commands the one that commits last wins, also when its facts are the
  older ones: the row is then outdated and selected again by the next command.
* `present_count` ignores the path prefix, so `skipped` counts tracks outside it.
* The request is written before the timeout starts: `ExtractEnds` holds for requests
  that fit the pipe, which those the code writes do.

## 4. Proofs

The proof modules extend the modules TLC checks, so that both speak of the same
definitions. Each theorem holds for every number of tracks, sources, commands, runs
and steps, and for every value of the bounds, from the assumption of its module alone.
The assumptions say that the library is finite, that constants have their types, that
the name for "nobody" is no command, and that bounds are numbers; the groups of an input
playlist are not empty (`_validate_group`) and a search asks for one candidate at least
(`CurationCatalog.search`). TLC evaluates them in every run.

| Module | Theorem | Property | Inductive invariant |
|---|---|---|---|
| `AnalysisPipelineProofs` | `TypeCorrect`, `ProjectionCorrect` | `TypeOK`, `ProjectionIsLatestSuccess` | `Projected` |
| | `OwnerKeepsItsRun`, `SingleRunningRun` | `OwnedRunStaysRunning`, `AtMostOneRunning` | `Owned` |
| | `RunRecordsTrue` | `RunRecordIsTrue` | `Counted` |
| | `ReuseIsSound` | `ReusableIsFresh` | `Fresh` |
| | `NothingRedone` | `NeverRedoesReusableWork` | `Worked` |
| | `AppendOnly`, `Refinement` | `HistoryIsAppendOnly`, `ImplementsHistory` | `Projected`, `Owned` |
| | `AnswersTrue`, `WorkIsStopped` | `AnswerIsSound`, `NothingRunsOn` | `Sound` (of the worker) |
| `ScanCatalogProofs` | `TypeCorrect`, `AbsenceReconciled`, `EventsTellPresence` | `TypeOK`, `AbsenceIsReconciled`, `PresenceFollowsEvents` | `Consistent` |
| | `MissingFilesWereAbsent` | `MissingWasAbsent` | `Consistent`, `Witnessed` |
| `BackgroundJobsProofs` | `TerminalStopped`, `ResultsHonoured`, `LaunchAnswersTrue`, `RecordsForward` | `TerminalMeansStopped`, `ResultsAreHonoured`, `LaunchAnswerIsTrue`, `LifecycleMovesForward` | `Known` |
| `ExportPublicationProofs` | `PublishedKept`, `NeverGoesBack`, `StorageBounded` | `PublishedStaysComplete`, `DestinationNeverGoesBack`, `StorageIsBounded` | `Kept` |
| `CatalogStartupProofs` | `CatalogSound`, `StartAloneSucceeds`, `StartupKeepsAll` | `CatalogIsSound`, `AStartAloneSucceeds`, `NothingIsLost` | `Sound` |
| `RefreshPipelineProofs` | `FactsKept`, `PublicationSays`, `EventsTell` | `FactsAreKept`, `PublishedIsWhatItSays`, `EventsTellEveryChange` | `Refreshed` |
| `DuplicateDetectionProofs` | `RowsFresh`, `MasteringLatest`, `SuccessIsCurrent`, `MarkingIsBest` | `StoredRowsAreFresh`, `MasteringIsLatest`, `SucceededMeansCurrent`, `StableMarkingIsBest` | `Analysed` |
| `CurationProofs` | `StoredIsGrounded`, `ReadsTellTheCatalog`, `DraftsAreKept` | `Grounded`, `ReadsAddUp`, `DraftsOnlyGetValidated` | `Curated` |
| | `CopiesStayTrue`, `SetsStaySettled` | `CopiesAreTrue`, `SetsAreSettled` | `Copying` |
| | `OthersStayKept` | `OthersAreKept` | `Copying` |

Hardly any of the properties is inductive as it stands; each invariant was checked by
TLC on an instance like those of section 3 before it was proved. The proof that the
steps preserve it takes them one by one. What each invariant adds, and why:

* Analysis. `Projected`: an appended attempt has the largest id, so `Advance` and the
  rebuild agree on the newest success. `Owned`: a command between `Acquire` and
  `Release` holds the lock; between `Reconcile` and `StartRun` no run is running;
  afterwards only the holder's run is. This is why nothing reconciles the run of a live
  command, and why runs never pile up. `Fresh`: catalog, snapshots, outcomes and
  attempts are ordered in time; facts equal to the disk therefore squeeze the content.
  `Worked`: the tracks a command has yet to extract or to persist have no successful
  attempt under its snapshot, which survives other commands because the lock makes this
  one the only one that appends. `Counted`: the analyzed, reused and failed tracks of a
  command's run and those it still has to extract or to store make up what it selected
  (`WorkAccounted`), so that a run that finishes has counted its whole selection; the
  counters of every run are those of the attempts it has.
* `Refinement`: `StartRun` is `Begin`, `Persist` is `Record`, `Finish` and `Reconcile`
  are `Settle` (or a stutter when there was nothing to reconcile), everything else
  stutters, including the rebuild, which by `Projected` changes nothing.
* Scanning. `Consistent`: a running run is the newest of its source and belongs to one
  command at most, so a run that reconciles meets no observation of a later one.
  `Witnessed`: while a scan runs, a file that is gone, or that it neither has still to
  visit nor has seen, is in `wasAbsent`; so what it reconciles was absent while it ran.
* Jobs. `Known` says of one job what the position of its launcher and the code of its
  record tell of the process; jobs share only process ids, and the step of one leaves
  what is known of another (`KnownOfOthers`). Listings write only records whose process
  executes no more, since while it does its pid answers.
* Publication. `Kept` is the types, what a command may name, and, as long as no two
  publications have overlapped, `Alone`: unless a publication was torn, the newest
  generation, or the legacy export before the first switch, is the destination or is where
  the one command that moved it can put it back from; the generation before the newest is
  complete, torn or not; a command before its switch has touched nothing but its own
  generation and the legacy directory, and one that cleans has spared both.
* Start-up. `Sound`: the version of a catalog says what tables it has and what its
  rows must be (`VersionTells`), a ledger row that its migration's version was reached,
  and what a start has found out is still so unless another start met it
  (`CommandKnows`). The scripts are followed one by one, as is what each keeps.
* Worker. `Sound`: which positions of client thread, draining threads and worker
  process go together, that whoever killed the group left nothing of it running, and
  that buffered, piped and written units add up while no limit was met. Only the answer of
  a broken pipe is given before the worker is reaped and the threads are joined; the worker
  runs no more then, because that is what broke the pipe.
* Refresh. `Refreshed`: versions are ordered in time from the file over the selection to
  the row, and from what a value was stored under to the facts of its track, which is
  what an export joins; the command that analyses holds the lock and writes in the last
  run; every staged or published export is of one catalog; and while nobody else writes,
  each stage of a refresh has achieved for all sources what `PublishedIsWhatItSays`
  finally says (`Undisturbed`).
* Duplicates. `Analysed`: versions are ordered in time, also of results on their way;
  every listed track without a current fingerprint is still pending unless something
  failed; and a marking knows of each track it has read, as long as the catalog keeps
  the facts listed, the row that is stored. Two steps are needed that no lock protects:
  a row is replaced only by one with later facts (`PersistIsOfOlder`), so that a
  command that listed a track under the present facts reads what stays; and the ranked
  members of a group are, in a stable scope, all its members (`RankedDecide`). That the
  best copy exists and is unique for any ranks is `BestIs`: the ranks are ordered
  strictly and totally, and a finite set has a least element of a strict order
  (`Least`, from the well-foundedness of the strict subset order; induction over sets
  is not available to the provers).
* Curation. `Curated`: the two halves of `create_curation` are two transactions, so what
  the first one resolved is remembered with its snapshot (`Commissioned`); a stored draft
  has its two snapshots in the history (`DraftOK`), which only grows (`Extends`), so that
  what was true of them stays true whatever is committed. Of an answer it says that its
  tracks are candidates of the snapshot it was checked against (`Answered`). `PagesOK` is
  the paging property made inductive: the pages so far are the matches up to the cursor
  as long as they were read from one snapshot, and the cursor is followed by a match.
  Below it lie facts about one catalog that no step changes: a recording has exactly one
  candidate because the copies are ordered strictly and totally, so candidates and
  recordings are in bijection, which is why distinct tracks are distinct recordings and
  why the two countings of the overview agree; and `Ascending` lists every member of a
  finite set once, in order.
* Copies. `Copying`: what was read of an open inode is not older than its `fstat` and not
  newer than what the inode holds (`ReadingOK`), and versions of an inode only grow, so
  the second `fstat` squeezes both halves to one version; the staging directory has one
  whole copy of the expected version for each track done (`StagingOK`); the targets of
  the entries done are copies in the directory (`SetOK`), and what a command copies to may
  change into another command's copy but never into anything else (`NothingLost`); a command
  past its look at a name finds there what it accepted, or something that appeared since and
  remembers it (`LookedOK`); a command that no other one overlapped finds its tracks
  (`Mine`) and the lists as it left them (`ListsOK`).
* Reading a playlist back (`ReadBack`) is a fact about all sequences of entries, and
  needs that once a plan has a group it keeps one (`GroupsHold`): an entry without group
  after one with a group would read back with that group. Every plan has this property,
  because a group line holds until the next one, for the tracks of `--track` too, which
  follow. The line of each entry is a strictly increasing function (`LineOf`), so the
  track lines of the written playlist are its values at the entries whose group does not
  begin with `#`, in order (`AscendingIsUnique`: a set has one increasing enumeration),
  and the last group line before one of them is that of its entry. Where this is
  induction over the entries, it is done as a least counterexample (`LeastNumber`).
* `OthersAreKept` needs `LookedOK`: `Place` itself refuses only a directory, so that a link
  it replaces was not there when the command looked follows from what others may have done
  since.

What the proofs found out about the models: `RefreshPipeline` let an analysis select
tracks of sources that are not analyzable, and stated `PublishedIsWhatItSays` of any
refresh that had published, which is false of the first of two; both are corrected.
`PresenceFollowsEvents` and `todo` of `CatalogStartup` avoid operators that take an
operator as argument or are recursive: no fact about those could be proved. For the same
reason `Selected`, `ManifestLines` and `PlanEntries` say by position what the code
builds in a loop. The alternatives of `QualityStatus` overlapped, so that the value of
its CASE was an arbitrary one of them; it has the order of the code
(`core/curation/catalog.py:413`) now.

Only model-checked, and why:

* `RunsAreSettled`, `MissingProcessIsNoticed`, `ExtractEnds`, `RunsEnd`: liveness under
  fairness and ENABLED are out of the prover's reach.
Every invariant and every action property of a passing run is stated by a theorem above.
No module declares a RECURSIVE operator.

## 5. Not modelled

* The contents of an analysis, its sections, its numbers and confidence values, and
  signal processing as a whole: no property distinguishes them and they keep no state.
* Corrupt job records, sanitising of diagnostics, log files.
* Connections, pragmas and SQLite's busy timeout: a transaction that times out is
  an exception, which the models have (`Abort`, `Raise`, the refusals of a start).
* Types and ranges of single settings, presenters, completion, help, and the read-only
  queries of the command line and the MCP server that curation does not use.
* Names of copied files with line separators or blanks at their ends, and groups that begin
  with `#EXTGRP:`: the playlist of such a set does not read back either. A temporary file
  that cannot be unlinked. Sets copied from two input playlists of different names into one
  directory have two pairs of lists; the model has one.
* The normalisation of one tag, one column or one file name: tables without order or
  failure.
* Column selection, TSV, JSON and HTML serialisation, the audit of an export and the
  support snapshot: written into a staged file, which publication handles as one step.
* The HTTP exchange with a completion service, its byte limits and its retries of
  nothing: a completion answers or raises (`CompletionFails`).
* The listing of duplicates (`describe_groups`, `compare_group`) only reads; loudness
  values and gains are numbers no property distinguishes;
  `MasteringRepository.rebuild_current` has no caller.

## 6. State of the plan

Modelling is complete up to the list of section 5, and so are the proofs of safety. What
rests on the bounds of section 3 alone is liveness: `RunsAreSettled`,
`MissingProcessIsNoticed`, `ExtractEnds` and `RunsEnd`. When the code changes, the map in
`PROJECT.json` names the definitions that stand for the lines touched; the runs say first
whether a property still holds, and the proof that breaks says which step relied on what
was changed.
