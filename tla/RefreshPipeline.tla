-------------------------- MODULE RefreshPipeline --------------------------
(***************************************************************************)
(* RefreshUseCase.execute (core/application/refresh.py): scan, metadata,   *)
(* analysis and export in order, and the catalog projections an export     *)
(* publishes (exports/tracks.py, analysis/exporters.py, and the staging    *)
(* half of application/export.py).                                         *)
(*                                                                         *)
(* Each stage is the use case another command may run at the same time.    *)
(* The scan of a source and the start of an analysis are single steps      *)
(* here: ScanCatalog and AnalysisPipeline take them apart.                 *)
(***************************************************************************)
EXTENDS MetadataRefresh

CONSTANTS
    Sources,      \* configured, enabled sources
    SourceOf,     \* the source of each track
    Required,     \* sources with set_eligible
    Analyzable,   \* sources with analyze
    Refreshers,   \* refresh commands
    Analyzers,    \* analyze commands
    MaxRuns,      \* bound: rows of analysis_runs
    MaxEdits,     \* bound: edits of the library
    MaxOthers,    \* bound: other commands (scan of a source, metadata, analyze)
    Nobody        \* holds the analysis lock when it is free

ASSUME RefreshAssumption ==
    /\ SourceOf \in [Tracks -> Sources]
    /\ Required \subseteq Sources /\ Analyzable \subseteq Sources
    /\ Refreshers \subseteq Extractors
    /\ Analyzers \cap Extractors = {}
    /\ Nobody \notin Extractors \cup Analyzers
    /\ MaxRuns \in Nat /\ MaxEdits \in Nat /\ MaxOthers \in Nat

Commands == Extractors \cup Analyzers

VARIABLES
    attempts,     \* newest audio_analysis row of each track: input facts and success
    runs,         \* analysis_runs, with the tracks its analysis_failed events name
    lock,         \* holder of the analysis-pipeline advisory lock
    todo,         \* tracks a command still has to analyse
    snap,         \* the facts they were selected with
    unscanned,    \* sources a refresh has not scanned yet
    failedScans,  \* sources whose scan failed in it
    outcome,      \* status of its analysis
    staged,       \* what a refresh has staged
    results,      \* RefreshResult of each refresh
    destination,  \* what the exports path holds
    publisher,    \* history: the refresh that published it
    edits,        \* edits so far (bound only)
    others,       \* other commands so far (bound only)
    scanned,      \* history: facts its own scans stored, 0 for none or missing
    alone         \* history: nobody else wrote to the catalog since it started

analysisVars == <<attempts, runs, lock, todo, snap>>
publication  == <<destination, publisher>>
refreshVars  == <<unscanned, failedScans, outcome, staged, results, publication, scanned>>
bounds       == <<edits, others>>
vars         == <<metadataVars, analysisVars, refreshVars, bounds, alone>>

NoRun     == [status |-> "none", eligible |-> 0, analyzed |-> 0, failures |-> {}]
Nothing   == [tracks |-> {}, analysis |-> {}, run |-> NoRun]
NoResult  == [status |-> "none", published |-> FALSE]
NoAttempt == [facts |-> 0, ok |-> FALSE]

-----------------------------------------------------------------------------
\* Either the workspace is new, or an earlier refresh left it up to date.
Init ==
    /\ files \in [Tracks -> {0, 1}]
    /\ \E upToDate \in BOOLEAN :
         LET known(t) == upToDate /\ files[t] = 1
             analyzed == {t \in Tracks : known(t) /\ SourceOf[t] \in Analyzable}
         IN  /\ tracks = [t \in Tracks |-> [facts |-> IF known(t) THEN 1 ELSE 0,
                                            present |-> known(t)]]
             /\ metadata = [t \in Tracks |-> IF known(t) THEN [facts |-> 1, read |-> 1]
                                             ELSE NoRow]
             /\ attempts = [t \in Tracks |-> IF t \in analyzed THEN [facts |-> 1, ok |-> TRUE]
                                             ELSE NoAttempt]
             /\ runs = IF upToDate
                       THEN <<[NoRun EXCEPT !.status = "succeeded",
                                            !.eligible = Cardinality(analyzed),
                                            !.analyzed = Cardinality(analyzed)]>>
                       ELSE << >>
    /\ events = [t \in Tracks |-> << >>]
    /\ pc = [p \in Commands |-> IF p \in Refreshers THEN "scan"
                                ELSE IF p \in Extractors THEN "count" ELSE "analyze"]
    /\ present = [p \in Extractors |-> 0]
    /\ eligible = [p \in Extractors |-> NoFacts]
    /\ tags = [p \in Extractors |-> NoFacts]
    /\ unread = [p \in Extractors |-> {}]
    /\ counted = [p \in Extractors |-> NotRun]
    /\ lock = Nobody
    /\ todo = [p \in Commands |-> {}]
    /\ snap = [p \in Commands |-> NoFacts]
    /\ unscanned = [p \in Refreshers |-> Sources]
    /\ failedScans = [p \in Refreshers |-> {}]
    /\ outcome = [p \in Refreshers |-> "none"]
    /\ staged = [p \in Refreshers |-> Nothing]
    /\ results = [p \in Refreshers |-> NoResult]
    /\ destination = Nothing
    /\ publisher = Nobody
    /\ edits = 0
    /\ others = 0
    /\ scanned = [p \in Refreshers |-> NoFacts]
    /\ alone = [p \in Refreshers |-> TRUE]

\* The library is edited: a file is removed, or replaced by a newer one, or
\* comes back as its newest version.
Edit(t) ==
    /\ edits < MaxEdits
    /\ edits' = edits + 1
    /\ \E version \in {0, MaxVersion} :
         /\ version # files[t]
         /\ files' = [files EXCEPT ![t] = version]
    /\ UNCHANGED <<catalog, pc, extraction, analysisVars, refreshVars, others, alone>>

Started(p) == pc[p] # "scan" \/ unscanned[p] # Sources

\* p wrote to the catalog: no other refresh is alone any more, from its first
\* scan until it staged its export.
Disturb(p) ==
    alone' = [r \in Refreshers |->
                 alone[r] /\ (r = p \/ pc[r] \in {"switch", "end"} \/ ~Started(r))]

\* A command beside the refresh begins.
AnotherCommand == others < MaxOthers /\ others' = others + 1

-----------------------------------------------------------------------------
(* Scan *)

TracksOf(source) == {t \in Tracks : SourceOf[t] = source}

\* ScanLifecycle.observe: one transaction stores what the traversal saw, and
\* says nothing of what it did not see.
Observed(source) ==
    [t \in Tracks |-> IF t \in TracksOf(source) /\ files[t] # 0
                      THEN [facts |-> files[t], present |-> TRUE] ELSE tracks[t]]

\* A successful scan: observe, then reconcile what is missing.
Reconciled(source) ==
    [t \in Tracks |-> IF t \in TracksOf(source) /\ files[t] = 0
                      THEN [tracks[t] EXCEPT !.present = FALSE] ELSE Observed(source)[t]]

ScanSucceeds(p, source) ==
    /\ pc[p] = "scan"
    /\ source \in unscanned[p]
    /\ tracks' = Reconciled(source)
    /\ scanned' = [scanned EXCEPT ![p] =
           [t \in Tracks |-> IF t \in TracksOf(source) THEN files[t] ELSE @[t]]]
    /\ unscanned' = [unscanned EXCEPT ![p] = @ \ {source}]
    /\ Disturb(p)
    /\ UNCHANGED <<files, metadata, events, pc, extraction, analysisVars, failedScans,
                   outcome, staged, results, publication, bounds>>

\* The traversal raises, or the scan fails once it has observed.
ScanFails(p, source) ==
    /\ pc[p] = "scan"
    /\ source \in unscanned[p]
    /\ \/ UNCHANGED <<tracks, alone>>
       \/ tracks' = Observed(source) /\ Disturb(p)
    /\ unscanned' = [unscanned EXCEPT ![p] = @ \ {source}]
    /\ failedScans' = [failedScans EXCEPT ![p] = @ \cup {source}]
    /\ UNCHANGED <<files, metadata, events, pc, extraction, analysisVars, outcome, staged,
                   results, publication, scanned, bounds>>

\* `scan` run by hand or by cron, which may fail once it has observed.
OtherScan(source) ==
    /\ AnotherCommand
    /\ tracks' \in {Observed(source), Reconciled(source)}
    /\ Disturb(Nobody)
    /\ UNCHANGED <<files, metadata, events, pc, extraction, analysisVars, refreshVars, edits>>

\* Mutant of Blocked: only a scan that fails everywhere stops the refresh.
BlockedByAll(p) == failedScans[p] = Sources

\* A failed scan of a set-eligible source.
Blocked(p) == failedScans[p] \cap Required # {}

Report(p, status, published) ==
    results' = [results EXCEPT ![p] = [status |-> status, published |-> published]]

\* Publication stops, or metadata follows.
DecideAfterScan(p) ==
    /\ pc[p] = "scan"
    /\ unscanned[p] = {}
    /\ IF Blocked(p)
       THEN Report(p, "failed", FALSE) /\ pc' = [pc EXCEPT ![p] = "end"]
       ELSE UNCHANGED results /\ pc' = [pc EXCEPT ![p] = "count"]
    /\ UNCHANGED <<files, catalog, extraction, analysisVars, unscanned, failedScans, outcome,
                   staged, publication, scanned, bounds, alone>>

-----------------------------------------------------------------------------
(* Metadata *)

Metadata(p) ==
    /\ MetadataStep(p)
    /\ IF UNCHANGED <<metadata, events>> THEN UNCHANGED alone ELSE Disturb(p)
    /\ IF pc[p] = "count" /\ p \notin Refreshers THEN AnotherCommand ELSE UNCHANGED others
    /\ UNCHANGED <<analysisVars, refreshVars, edits>>

-----------------------------------------------------------------------------
(* Analysis *)

IsAnalyzed(t) == attempts[t].ok /\ attempts[t].facts = tracks[t].facts

\* _derive_status, as the run's counters are committed.
DeriveStatus(eligibles, done, failed) ==
    CASE failed = 0 /\ done >= eligibles -> "succeeded"
      [] ~(failed = 0 /\ done >= eligibles) /\ done > 0 -> "partial"
      [] OTHER -> "failed"

\* What a run ends as: its status follows from what it committed.
Ended(run) == [run EXCEPT !.status =
                   DeriveStatus(run.eligible, run.analyzed, Cardinality(run.failures))]

\* `analyze` starts here; in a refresh, metadata comes first.
CanAnalyze(p) == pc[p] = (IF p \in Refreshers THEN "extracted" ELSE "analyze")

\* The lock is free: settle abandoned runs, select, and record the new run.
BeginAnalysis(p) ==
    /\ CanAnalyze(p)
    /\ lock = Nobody
    /\ Len(runs) < MaxRuns
    /\ LET chosen == {t \in Present : SourceOf[t] \in Analyzable /\ ~IsAnalyzed(t)}
           settled == [r \in DOMAIN runs |->
                          IF runs[r].status = "running" THEN Ended(runs[r]) ELSE runs[r]]
       IN  /\ todo' = [todo EXCEPT ![p] = chosen]
           /\ snap' = [snap EXCEPT ![p] = [t \in Tracks |-> tracks[t].facts]]
           /\ runs' = Append(settled, [status |-> "running", eligible |-> Cardinality(chosen),
                                       analyzed |-> 0, failures |-> {}])
    /\ lock' = p
    /\ pc' = [pc EXCEPT ![p] = "analyzing"]
    /\ Disturb(p)
    /\ IF p \in Analyzers THEN AnotherCommand ELSE UNCHANGED others
    /\ UNCHANGED <<files, catalog, extraction, attempts, refreshVars, edits>>

\* StateConflictError leaves refresh.
AnalysisIsHeld(p) ==
    /\ CanAnalyze(p)
    /\ lock # Nobody
    /\ pc' = [pc EXCEPT ![p] = "end"]
    /\ UNCHANGED <<files, catalog, extraction, analysisVars, refreshVars, bounds, alone>>

\* One outcome, committed on its own.
AnalyzeTrack(p, t) ==
    /\ pc[p] = "analyzing"
    /\ t \in todo[p]
    /\ \E ok \in BOOLEAN :
         /\ ok => files[t] # 0
         /\ attempts' = [attempts EXCEPT ![t] = [facts |-> snap[p][t], ok |-> ok]]
         /\ runs' = IF ok THEN [runs EXCEPT ![Len(runs)].analyzed = @ + 1]
                    ELSE [runs EXCEPT ![Len(runs)].failures = @ \cup {t}]
    /\ todo' = [todo EXCEPT ![p] = @ \ {t}]
    /\ Disturb(p)
    /\ UNCHANGED <<files, catalog, pc, extraction, lock, snap, refreshVars, bounds>>

FinishAnalysis(p) ==
    /\ pc[p] = "analyzing"
    /\ todo[p] = {}
    /\ runs' = [runs EXCEPT ![Len(runs)] = Ended(@)]
    /\ lock' = Nobody
    /\ snap' = [snap EXCEPT ![p] = NoFacts]
    /\ IF p \in Refreshers
       THEN /\ outcome' = [outcome EXCEPT ![p] = Ended(runs[Len(runs)]).status]
            /\ pc' = [pc EXCEPT ![p] = "export"]
       ELSE /\ UNCHANGED outcome
            /\ pc' = [pc EXCEPT ![p] = "end"]
    /\ Disturb(p)
    /\ UNCHANGED <<files, catalog, extraction, attempts, todo, unscanned, failedScans, staged,
                   results, publication, scanned, bounds>>

\* The command is killed, or an exception leaves the analysis: its run stays.
AbandonAnalysis(p) ==
    /\ pc[p] = "analyzing"
    /\ todo' = [todo EXCEPT ![p] = {}]
    /\ snap' = [snap EXCEPT ![p] = NoFacts]
    /\ lock' = Nobody
    /\ pc' = [pc EXCEPT ![p] = "end"]
    /\ UNCHANGED <<files, catalog, extraction, attempts, runs, refreshVars, bounds, alone>>

-----------------------------------------------------------------------------
(* Export *)

\* TracksExporter: every present track with its metadata row, whatever facts
\* that row was read under.
TrackRows == {[track |-> t, facts |-> tracks[t].facts, metadata |-> metadata[t]] : t \in Present}

\* AnalysisExporter._analysis_rows: the newest attempt of every present track,
\* under the facts the track has now.
AnalysisRows == {[track |-> t, facts |-> tracks[t].facts, attempt |-> attempts[t]] :
                     t \in {u \in Present : attempts[u] # NoAttempt}}

\* Mutant of CanPublish: the summary of a run in progress passes its schema.
CanPublishRunning == runs # << >>

\* _run_summary needs a run, and its schema knows only settled ones.
CanPublish == runs # << >> /\ runs[Len(runs)].status # "running"

\* Every facet is read in one transaction, validated and staged.
StageExport(p) ==
    /\ pc[p] = "export"
    /\ CanPublish
    /\ staged' = [staged EXCEPT ![p] =
           [tracks |-> TrackRows, analysis |-> AnalysisRows, run |-> runs[Len(runs)]]]
    /\ pc' = [pc EXCEPT ![p] = "switch"]
    /\ UNCHANGED <<files, catalog, extraction, analysisVars, unscanned, failedScans, outcome,
                   results, publication, scanned, bounds, alone>>

\* An invalid row, no settled run, a full disk: the staged files are removed.
ExportRaises(p) ==
    /\ pc[p] \in {"export", "switch"}
    /\ staged' = [staged EXCEPT ![p] = Nothing]
    /\ Report(p, "failed", FALSE)
    /\ pc' = [pc EXCEPT ![p] = "end"]
    /\ UNCHANGED <<files, catalog, extraction, analysisVars, unscanned, failedScans, outcome,
                   publication, scanned, bounds, alone>>

\* Mutant of WorstStatus: the last stage decides.
WorstStatusLast(statuses) == statuses[Len(statuses)]

\* worst_status of the scans, the metadata and the analysis.
WorstStatus(statuses) ==
    LET severity == [succeeded |-> 0, partial |-> 1, failed |-> 2]
    IN  CHOOSE status \in {statuses[i] : i \in DOMAIN statuses} :
            \A i \in DOMAIN statuses : severity[status] >= severity[statuses[i]]

StatusOf(p) == WorstStatus(<<IF failedScans[p] = {} THEN "succeeded" ELSE "partial",
                             MetadataStatus(counted[p]), outcome[p]>>)

\* Mutant of Publish: the track rows are read again for the publication.
PublishRereading(p) ==
    /\ pc[p] = "switch"
    /\ destination' = [staged[p] EXCEPT !.tracks = TrackRows]
    /\ publisher' = p
    /\ staged' = [staged EXCEPT ![p] = Nothing]
    /\ Report(p, StatusOf(p), TRUE)
    /\ pc' = [pc EXCEPT ![p] = "end"]
    /\ UNCHANGED <<files, catalog, extraction, analysisVars, unscanned, failedScans, outcome,
                   scanned, bounds, alone>>

\* The destination is switched.  An exception after the switch is reported as
\* a refresh that did not publish.
Publish(p) ==
    /\ pc[p] = "switch"
    /\ destination' = staged[p]
    /\ publisher' = p
    /\ staged' = [staged EXCEPT ![p] = Nothing]
    /\ Report(p, StatusOf(p), TRUE) \/ Report(p, "failed", FALSE)
    /\ pc' = [pc EXCEPT ![p] = "end"]
    /\ UNCHANGED <<files, catalog, extraction, analysisVars, unscanned, failedScans, outcome,
                   scanned, bounds, alone>>

-----------------------------------------------------------------------------
RefreshStep(p) ==
    \/ \E source \in Sources : ScanSucceeds(p, source) \/ ScanFails(p, source)
    \/ DecideAfterScan(p)
    \/ StageExport(p)
    \/ ExportRaises(p)
    \/ Publish(p)

AnalyzeStep(p) ==
    \/ BeginAnalysis(p)
    \/ AnalysisIsHeld(p)
    \/ \E t \in Tracks : AnalyzeTrack(p, t)
    \/ FinishAnalysis(p)
    \/ AbandonAnalysis(p)

Next ==
    \/ \E t \in Tracks : Edit(t)
    \/ \E source \in Sources : OtherScan(source)
    \/ \E p \in Refreshers : RefreshStep(p)
    \/ \E p \in Extractors : Metadata(p)
    \/ \E p \in Commands : AnalyzeStep(p)

Spec == Init /\ [][Next]_vars

-----------------------------------------------------------------------------
(* Properties *)

Row     == [facts: 0..MaxVersion, read: 0..MaxVersion]
Attempt == [facts: 0..MaxVersion, ok: BOOLEAN]
Status  == {"none", "running", "succeeded", "partial", "failed"}
RunRow  == [status: Status, eligible: Nat, analyzed: Nat, failures: SUBSET Tracks]

TypeOK ==
    /\ tracks \in [Tracks -> [facts: 0..MaxVersion, present: BOOLEAN]]
    /\ metadata \in [Tracks -> Row]
    /\ attempts \in [Tracks -> Attempt]
    /\ \A r \in DOMAIN runs : runs[r] \in RunRow
    /\ lock \in Commands \cup {Nobody}
    /\ counted \in [Extractors -> [extracted: Nat, failed: Nat, skipped: Int]]
    /\ results \in [Refreshers -> [status: Status, published: BOOLEAN]]
    /\ destination.run \in RunRow

\* The files of an export describe one catalog and one finished analysis: each
\* analysis row is about a published track with the same facts, the run summary
\* is of a settled run, and the failures it lists are the failed attempts of
\* the analysis rows.
IsOneCatalog(export) ==
    LET run == export.run
    IN  /\ \A row \in export.analysis : \E track \in export.tracks :
              track.track = row.track /\ track.facts = row.facts
        /\ run.status = "succeeded" => run.failures = {}
        /\ export # Nothing => run.status \in {"succeeded", "partial", "failed"}
        /\ \A row \in export.analysis : row.track \in run.failures => ~row.attempt.ok

\* Beside each value an export publishes stand the facts its track had when the
\* export was staged: the facts the value was stored under, or newer ones, and
\* never older; and the value was read no earlier than the facts it was stored
\* under.
ValuesFollowFacts(export) ==
    /\ \A row \in export.tracks :
          row.metadata.facts <= row.facts /\ row.metadata.facts <= row.metadata.read
    /\ \A row \in export.analysis : row.attempt.facts <= row.facts

\* A row of the catalog never passes old tags for those of newer facts; what is
\* published of it is one catalog, whose facts no stored value is ahead of.
FactsAreKept ==
    /\ TypeOK
    /\ MetadataIsOfItsFacts
    /\ IsOneCatalog(destination) /\ ValuesFollowFacts(destination)

\* Known exception, in no run.  A comment of the analysis exporter says that the
\* identity of the attempt is what a row publishes (exporters.py:218).  The size and mtime it publishes are the
\* track's: after an edit and a scan, without a new analysis, they are those of
\* the new file beside the values of the old one.
RowsShowTheirAttempt == \A row \in destination.analysis : row.attempt.facts = row.facts

\* The files say what the scans of p found: every file with its facts, the
\* metadata and, where its source is analysed, the successful analysis of those
\* facts.
SaysWhatWasScanned(p, export) ==
    /\ {row.track : row \in export.tracks} = {t \in Tracks : scanned[p][t] # 0}
    /\ \A row \in export.tracks :
          /\ row.facts = scanned[p][row.track]
          /\ row.metadata.facts = row.facts
          /\ SourceOf[row.track] \in Analyzable =>
                \E analysis \in export.analysis :
                    /\ analysis.track = row.track
                    /\ analysis.attempt = [facts |-> row.facts, ok |-> TRUE]

\* What `succeeded` promises of a publication no other command wrote into: until
\* the next one, the destination holds exactly what its scans found, read and
\* analysed; and a publication never follows a failed scan of a set-eligible
\* source.
PublishedIsWhatItSays ==
    \A p \in Refreshers :
        results[p].published =>
            /\ failedScans[p] \cap Required = {}
            /\ publisher = p /\ alone[p] /\ results[p].status = "succeeded" =>
                   SaysWhatWasScanned(p, destination)
=============================================================================
