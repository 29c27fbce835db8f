------------------------ MODULE RefreshPipelineProofs ------------------------
(***************************************************************************)
(* Proofs about RefreshPipeline and the MetadataRefresh it extends, for    *)
(* any tracks, sources and commands and any number of steps.               *)
(***************************************************************************)
EXTENDS RefreshPipeline, FiniteSetTheorems, TLAPS

-----------------------------------------------------------------------------
(* The inductive invariant: the types ...                                  *)

Versions == 0..MaxVersion
Event    == [type : {"changed", "failed"}, fields : SUBSET Fields]
Places   == {"scan", "count", "version", "extract", "extracted", "analyze", "analyzing",
             "export", "switch", "end"}
TrackRow    == [track : Tracks, facts : Versions, metadata : Row]
AnalysisRow == [track : Tracks, facts : Versions, attempt : Attempt]
Export      == [tracks : SUBSET TrackRow, analysis : SUBSET AnalysisRow, run : RunRow]
Result      == [extracted : Nat, failed : Nat, skipped : Int]

CatalogTypes ==
    /\ files \in [Tracks -> Versions]
    /\ tracks \in [Tracks -> [facts : Versions, present : BOOLEAN]]
    /\ metadata \in [Tracks -> Row]
    /\ events \in [Tracks -> Seq(Event)]
    /\ attempts \in [Tracks -> Attempt]
    /\ runs \in Seq(RunRow)
    /\ lock \in Commands \cup {Nobody}

CommandTypes ==
    /\ pc \in [Commands -> Places]
    /\ present \in [Extractors -> Nat]
    /\ eligible \in [Extractors -> [Tracks -> Versions]]
    /\ tags \in [Extractors -> [Tracks -> Versions]]
    /\ unread \in [Extractors -> SUBSET Tracks]
    /\ counted \in [Extractors -> Result]
    /\ todo \in [Commands -> SUBSET Tracks]
    /\ snap \in [Commands -> [Tracks -> Versions]]

RefreshTypes ==
    /\ unscanned \in [Refreshers -> SUBSET Sources]
    /\ failedScans \in [Refreshers -> SUBSET Sources]
    /\ outcome \in [Refreshers -> Status]
    /\ staged \in [Refreshers -> Export]
    /\ results \in [Refreshers -> [status : Status, published : BOOLEAN]]
    /\ destination \in Export
    /\ scanned \in [Refreshers -> [Tracks -> Versions]]
    /\ alone \in [Refreshers -> BOOLEAN]

Typed == CatalogTypes /\ CommandTypes /\ RefreshTypes

\* ... the order of versions: a track is no newer than its file, when that
\* exists; what is stored of a track, and what a command selected of it, is no
\* newer than the track; and exiftool read the file after that ...
VersionsGrow ==
    /\ \A t \in Tracks :
          /\ files[t] # 0 => tracks[t].facts <= files[t]
          /\ metadata[t].facts <= tracks[t].facts
          /\ attempts[t].facts <= tracks[t].facts
    /\ \A p \in Commands, t \in Tracks : snap[p][t] <= tracks[t].facts
    /\ \A p \in Extractors, t \in Tracks :
          /\ eligible[p][t] <= tracks[t].facts
          /\ tags[p][t] # 0 => eligible[p][t] <= tags[p][t]
          /\ pc[p] # "extract" => tags[p][t] = 0
    /\ \A t \in Tracks : IsPresent(t) => tracks[t].facts # 0
    /\ MetadataIsOfItsFacts

\* ... the runs: who analyses holds the lock and writes in the last run, which
\* is running, and a failure of the last run is the newest attempt ...
LastRun == runs[Len(runs)]

RunsAreTrue ==
    /\ \A p \in Commands : pc[p] = "analyzing" =>
          /\ lock = p /\ Len(runs) >= 1 /\ LastRun.status = "running"
          /\ todo[p] \cap LastRun.failures = {}
    /\ \A r \in 1..Len(runs) :
          /\ runs[r].status # "none"
          /\ runs[r].status = "succeeded" => runs[r].failures = {}
    /\ Len(runs) >= 1 => \A t \in LastRun.failures : ~attempts[t].ok

\* ... the exports ...
ExportsAreOne ==
    \A export \in {destination} \cup {staged[p] : p \in Refreshers} :
        IsOneCatalog(export) /\ ValuesFollowFacts(export)

\* ... how far a refresh is ...
Advanced(p) ==
    /\ pc[p] # "scan" => unscanned[p] = {}
    /\ pc[p] \notin {"scan", "end"} => ~Blocked(p)
    /\ pc[p] \in {"export", "switch"} => outcome[p] \in {"succeeded", "partial", "failed"}
    /\ results[p].published => pc[p] = "end" /\ ~Blocked(p)
    /\ publisher = p => pc[p] = "end"

\* ... and, while nobody else writes, what each of its stages has achieved.
Scanned(p) ==
    pc[p] \notin {"switch", "end"} =>
        \A t \in Tracks : SourceOf[t] \notin unscanned[p] \cup failedScans[p] =>
            /\ IsPresent(t) <=> scanned[p][t] # 0
            /\ IsPresent(t) => tracks[t].facts = scanned[p][t]

Selected(p) ==
    pc[p] = "extract" =>
        \A t \in Present : \/ eligible[p][t] = tracks[t].facts
                           \/ eligible[p][t] = 0 /\ metadata[t].facts = tracks[t].facts

Described(p) ==
    pc[p] \in {"extracted", "analyzing", "export"} /\ counted[p].failed = 0 =>
        \A t \in Present : metadata[t].facts = tracks[t].facts

ToAnalyze == {t \in Present : SourceOf[t] \in Analyzable}

Analyzing(p) ==
    pc[p] = "analyzing" =>
        /\ \A t \in ToAnalyze : t \in todo[p] \/ IsAnalyzed(t) \/ t \in LastRun.failures
        /\ \A t \in todo[p] : snap[p][t] = tracks[t].facts

Analyzed(p) ==
    pc[p] = "export" /\ outcome[p] = "succeeded" => \A t \in ToAnalyze : IsAnalyzed(t)

Staged(p) ==
    pc[p] = "switch" /\ StatusOf(p) = "succeeded" => SaysWhatWasScanned(p, staged[p])

Published(p) ==
    publisher = p /\ results[p].published /\ results[p].status = "succeeded" =>
        SaysWhatWasScanned(p, destination)

Undisturbed(p) ==
    alone[p] => /\ Scanned(p) /\ Selected(p) /\ Described(p) /\ Analyzing(p) /\ Analyzed(p)
                /\ Staged(p) /\ Published(p)

Refreshed ==
    /\ Typed /\ VersionsGrow /\ RunsAreTrue /\ ExportsAreOne
    /\ \A p \in Refreshers : Advanced(p) /\ Undisturbed(p)
-----------------------------------------------------------------------------
(* Sets of tracks, statuses and runs.                                      *)

Settled == {"succeeded", "partial", "failed"}

LEMMA Sizes ==
    ASSUME NEW S, S \subseteq Tracks
    PROVE  IsFiniteSet(S) /\ Cardinality(S) \in Nat /\ (Cardinality(S) = 0 <=> S = {})
<1>1. IsFiniteSet(S)
  BY FS_Subset, MetadataAssumption
<1> QED  BY <1>1, FS_CardinalityType, FS_EmptySet

LEMMA Zero == 0 \in Versions /\ 1 \in Versions /\ MaxVersion \in Versions /\ Versions \subseteq Nat
  BY MetadataAssumption DEF Versions

\* The worst of three statuses is one of them, and `succeeded` only if all are.
LEMMA WorstIsOne ==
    ASSUME NEW a \in Settled, NEW b \in Settled, NEW c \in Settled
    PROVE  /\ WorstStatus(<<a, b, c>>) \in Settled
           /\ WorstStatus(<<a, b, c>>) = "succeeded" =>
                  a = "succeeded" /\ b = "succeeded" /\ c = "succeeded"
<1> DEFINE severity == [succeeded |-> 0, partial |-> 1, failed |-> 2]
           st == <<a, b, c>>
           worst(s) == \A i \in DOMAIN st : severity[s] >= severity[st[i]]
           w == CHOOSE s \in {st[i] : i \in DOMAIN st} : worst(s)
<1>1. DOMAIN st = {1, 2, 3} /\ st[1] = a /\ st[2] = b /\ st[3] = c
  OBVIOUS
<1>2. {st[i] : i \in DOMAIN st} = {a, b, c}
  BY <1>1
<1>3. severity["succeeded"] = 0 /\ severity["partial"] = 1 /\ severity["failed"] = 2
  OBVIOUS
<1>4. WorstStatus(st) = w
  BY DEF WorstStatus
<1> HIDE DEF severity, st, w
<1>5. \E s \in {st[i] : i \in DOMAIN st} : worst(s)
  BY <1>1, <1>2, <1>3 DEF Settled
<1>6. w \in {a, b, c} /\ worst(w)
  BY <1>2, <1>5 DEF w
<1>7. w \in Settled
  BY <1>6
<1>8. w = "succeeded" => a = "succeeded" /\ b = "succeeded" /\ c = "succeeded"
  BY <1>1, <1>3, <1>6 DEF Settled
<1>9. WorstStatus(<<a, b, c>>) = w
  BY <1>4 DEF st
<1> QED  BY <1>7, <1>8, <1>9

LEMMA MetadataStatusIs ==
    ASSUME NEW r \in Result
    PROVE  MetadataStatus(r) \in Settled /\ (MetadataStatus(r) = "succeeded" => r.failed = 0)
  BY DEF Result, MetadataStatus, Settled

\* A run that ends keeps what it recorded, and succeeds only without a failure.
LEMMA EndedIs ==
    ASSUME NEW run \in RunRow
    PROVE  /\ Ended(run) \in RunRow /\ Ended(run).status \in Settled
           /\ Ended(run).failures = run.failures
           /\ Ended(run).status = "succeeded" => run.failures = {}
<1>1. run.failures \subseteq Tracks /\ run.eligible \in Nat /\ run.analyzed \in Nat
  BY DEF RunRow
<1>2. Cardinality(run.failures) \in Nat /\ (Cardinality(run.failures) = 0 <=> run.failures = {})
  BY <1>1, Sizes
<1> DEFINE status == DeriveStatus(run.eligible, run.analyzed, Cardinality(run.failures))
<1>3. status \in Settled /\ (status = "succeeded" => run.failures = {})
  BY <1>1, <1>2 DEF DeriveStatus, Settled
<1>4. Ended(run) = [run EXCEPT !.status = status]
  BY DEF Ended
<1> HIDE DEF status
<1>5. Ended(run).status = status /\ Ended(run).failures = run.failures
  BY <1>4 DEF RunRow
<1>6. Ended(run) \in RunRow
  BY <1>3, <1>4 DEF RunRow, Status, Settled
<1> QED  BY <1>3, <1>5, <1>6

-----------------------------------------------------------------------------
(* The initial states.                                                     *)

LEMMA InitTyped == Init => Typed
<1> SUFFICES ASSUME Init PROVE Typed
  OBVIOUS
<1>1. PICK upToDate \in BOOLEAN :
         LET known(t) == upToDate /\ files[t] = 1
             analyzed == {t \in Tracks : known(t) /\ SourceOf[t] \in Analyzable}
         IN  /\ tracks = [t \in Tracks |-> [facts |-> IF known(t) THEN 1 ELSE 0,
                                            present |-> known(t)]]
             /\ metadata = [t \in Tracks |-> IF known(t) THEN [facts |-> 1, read |-> 1]
                                             ELSE NoRow]
             /\ attempts = [t \in Tracks |-> IF t \in analyzed THEN [facts |-> 1, ok |-> TRUE]
                                             ELSE NoAttempt]
             /\ runs = IF upToDate
                       THEN <<[NoRun EXCEPT !.status = "succeeded",
                                            !.eligible = Cardinality(analyzed),
                                            !.analyzed = Cardinality(analyzed)]>>
                       ELSE << >>
  BY DEF Init
<1> DEFINE known(t) == upToDate /\ files[t] = 1
           analyzed == {t \in Tracks : known(t) /\ SourceOf[t] \in Analyzable}
<1>2. files \in [Tracks -> Versions]
  BY Zero DEF Init
<1>3. tracks \in [Tracks -> [facts : Versions, present : BOOLEAN]]
  <2>1. tracks = [t \in Tracks |-> [facts |-> IF known(t) THEN 1 ELSE 0, present |-> known(t)]]
    BY <1>1
  <2>2. \A t \in Tracks : known(t) \in BOOLEAN
    OBVIOUS
  <2>3. \A t \in Tracks : [facts |-> IF known(t) THEN 1 ELSE 0, present |-> known(t)]
                              \in [facts : Versions, present : BOOLEAN]
    BY <2>2, Zero
  <2> QED  BY <2>1, <2>3
<1>4. metadata \in [Tracks -> Row]
  <2>1. metadata = [t \in Tracks |-> IF known(t) THEN [facts |-> 1, read |-> 1] ELSE NoRow]
    BY <1>1
  <2>2. [facts |-> 1, read |-> 1] \in Row /\ NoRow \in Row
    BY Zero DEF Row, NoRow, Versions
  <2> QED  BY <2>1, <2>2
<1>5. attempts \in [Tracks -> Attempt]
  <2>1. attempts = [t \in Tracks |-> IF t \in analyzed THEN [facts |-> 1, ok |-> TRUE]
                                     ELSE NoAttempt]
    BY <1>1
  <2>2. [facts |-> 1, ok |-> TRUE] \in Attempt /\ NoAttempt \in Attempt
    BY Zero DEF Attempt, NoAttempt, Versions
  <2> QED  BY <2>1, <2>2
<1>6. runs \in Seq(RunRow)
  <2>1. Cardinality(analyzed) \in Nat
    BY Sizes
  <2>2. [NoRun EXCEPT !.status = "succeeded", !.eligible = Cardinality(analyzed),
                      !.analyzed = Cardinality(analyzed)] \in RunRow
    BY <2>1 DEF NoRun, RunRow, Status
  <2> HIDE DEF analyzed
  <2> QED  BY <1>1, <2>2 DEF analyzed
<1>7. events \in [Tracks -> Seq(Event)]
  BY DEF Init
<1>8. lock \in Commands \cup {Nobody}
  BY DEF Init
<1>9. pc \in [Commands -> Places]
  BY DEF Init, Places
<1>10. /\ present \in [Extractors -> Nat]
       /\ eligible \in [Extractors -> [Tracks -> Versions]]
       /\ tags \in [Extractors -> [Tracks -> Versions]]
       /\ unread \in [Extractors -> SUBSET Tracks]
       /\ counted \in [Extractors -> Result]
       /\ todo \in [Commands -> SUBSET Tracks]
       /\ snap \in [Commands -> [Tracks -> Versions]]
  <2>1. NoFacts \in [Tracks -> Versions]
    BY Zero DEF NoFacts
  <2>2. NotRun \in Result
    BY DEF NotRun, Result
  <2> QED  BY <2>1, <2>2 DEF Init
<1>11. RefreshTypes
  <2>1. NoFacts \in [Tracks -> Versions]
    BY Zero DEF NoFacts
  <2>2. Nothing \in Export
    BY DEF Nothing, Export, NoRun, RunRow, Status
  <2>3. NoResult \in [status : Status, published : BOOLEAN]
    BY DEF NoResult, Status
  <2> QED  BY <2>1, <2>2, <2>3 DEF Init, RefreshTypes, Status
<1> QED
  BY <1>2, <1>3, <1>4, <1>5, <1>6, <1>7, <1>8, <1>9, <1>10, <1>11
     DEF Typed, CatalogTypes, CommandTypes

LEMMA InitRefreshed == Init => Refreshed
<1> SUFFICES ASSUME Init PROVE Refreshed
  OBVIOUS
<1>1. Typed
  BY InitTyped
<1>2. PICK upToDate \in BOOLEAN :
         LET known(t) == upToDate /\ files[t] = 1
             analyzed == {t \in Tracks : known(t) /\ SourceOf[t] \in Analyzable}
         IN  /\ tracks = [t \in Tracks |-> [facts |-> IF known(t) THEN 1 ELSE 0,
                                            present |-> known(t)]]
             /\ metadata = [t \in Tracks |-> IF known(t) THEN [facts |-> 1, read |-> 1]
                                             ELSE NoRow]
             /\ attempts = [t \in Tracks |-> IF t \in analyzed THEN [facts |-> 1, ok |-> TRUE]
                                             ELSE NoAttempt]
             /\ runs = IF upToDate
                       THEN <<[NoRun EXCEPT !.status = "succeeded",
                                            !.eligible = Cardinality(analyzed),
                                            !.analyzed = Cardinality(analyzed)]>>
                       ELSE << >>
  BY DEF Init
<1>3. VersionsGrow
  <2>1. \A t \in Tracks : files[t] \in {0, 1}
    BY DEF Init
  <2>2. \A t \in Tracks : /\ tracks[t].facts \in {0, 1} /\ (files[t] = 0 => tracks[t].facts = 0)
                          /\ tracks[t].present => tracks[t].facts = 1
    BY <1>2, <2>1
  <2>3. \A t \in Tracks : /\ metadata[t].read = metadata[t].facts /\ metadata[t].facts \in Nat
                          /\ metadata[t].facts \in {0, tracks[t].facts}
    BY <1>2 DEF NoRow
  <2>4. \A p \in Extractors, t \in Tracks : eligible[p][t] = 0 /\ tags[p][t] = 0
    BY DEF Init, NoFacts
  <2>5. \A t \in Tracks : attempts[t].facts \in {0, tracks[t].facts}
    BY <1>2 DEF NoAttempt
  <2>6. \A p \in Commands, t \in Tracks : snap[p][t] = 0
    BY DEF Init, NoFacts
  <2> QED  BY <2>1, <2>2, <2>3, <2>4, <2>5, <2>6 DEF VersionsGrow, IsPresent, MetadataIsOfItsFacts
<1>4. RunsAreTrue
  <2>1. \A p \in Commands : pc[p] # "analyzing"
    BY DEF Init
  <2>2. \A r \in 1..Len(runs) : runs[r].status = "succeeded" /\ runs[r].failures = {}
    <3>1. \/ runs = << >>
          \/ \E n : runs = <<[NoRun EXCEPT !.status = "succeeded", !.eligible = n,
                                            !.analyzed = n]>>
      BY <1>2
    <3>2. ASSUME NEW n, runs = <<[NoRun EXCEPT !.status = "succeeded", !.eligible = n,
                                               !.analyzed = n]>>
          PROVE  \A r \in 1..Len(runs) : runs[r].status = "succeeded" /\ runs[r].failures = {}
      <4>1. Len(runs) = 1 /\ runs[1] = [NoRun EXCEPT !.status = "succeeded", !.eligible = n,
                                                    !.analyzed = n]
        BY <3>2
      <4>2. runs[1].status = "succeeded" /\ runs[1].failures = {}
        BY <4>1 DEF NoRun
      <4>3. \A r \in 1..Len(runs) : r = 1
        BY <4>1
      <4> QED  BY <4>2, <4>3
    <3>3. CASE runs = << >>
      BY <3>3
    <3> QED  BY <3>1, <3>2, <3>3
  <2>3. Len(runs) >= 1 => LastRun.failures = {}
    BY <1>1, <2>2 DEF LastRun, Typed, CatalogTypes
  <2> QED  BY <2>1, <2>2, <2>3 DEF RunsAreTrue
<1>5. ExportsAreOne
  <2>1. IsOneCatalog(Nothing) /\ ValuesFollowFacts(Nothing)
    BY DEF IsOneCatalog, ValuesFollowFacts, Nothing, NoRun
  <2>2. destination = Nothing /\ \A p \in Refreshers : staged[p] = Nothing
    BY DEF Init
  <2> QED  BY <2>1, <2>2 DEF ExportsAreOne
<1>6. ASSUME NEW p \in Refreshers PROVE Advanced(p) /\ Undisturbed(p)
  <2>1. p \in Commands /\ p # Nobody
    BY RefreshAssumption DEF Commands
  <2>2. /\ pc[p] = "scan" /\ unscanned[p] = Sources /\ results[p].published = FALSE
        /\ publisher # p
    BY <2>1 DEF Init, NoResult
  <2>3. \A t \in Tracks : SourceOf[t] \in unscanned[p]
    BY <2>2, RefreshAssumption
  <2>4. Advanced(p)
    BY <2>2 DEF Advanced
  <2>5. Undisturbed(p)
    BY <2>2, <2>3 DEF Undisturbed, Scanned, Selected, Described, Analyzing, Analyzed, Staged,
                      Published
  <2> QED  BY <2>4, <2>5
<1> QED  BY <1>1, <1>3, <1>4, <1>5, <1>6 DEF Refreshed

-----------------------------------------------------------------------------
(* Every step keeps the types.                                             *)

LEMMA Members ==
    /\ Refreshers \subseteq Extractors /\ Extractors \subseteq Commands
    /\ Refreshers \subseteq Commands /\ Analyzers \subseteq Commands
    /\ Analyzers \cap Extractors = {}
    /\ \A p \in Commands : p # Nobody
  BY RefreshAssumption DEF Commands

LEMMA RowsAreTyped ==
    ASSUME Typed
    PROVE  /\ TrackRows \in SUBSET TrackRow /\ AnalysisRows \in SUBSET AnalysisRow
           /\ Present \subseteq Tracks /\ ToAnalyze \subseteq Tracks
  BY DEF Typed, CatalogTypes, TrackRows, AnalysisRows, TrackRow, AnalysisRow, Present, ToAnalyze

LEMMA DisturbTypes ==
    ASSUME alone \in [Refreshers -> BOOLEAN], NEW p, Disturb(p)
    PROVE  alone' \in [Refreshers -> BOOLEAN]
  BY DEF Disturb

LEMMA EditTypes ==
    ASSUME Typed, NEW t \in Tracks, Edit(t)
    PROVE  Typed'
<1>1. files' \in [Tracks -> Versions]
  BY Zero DEF Edit, Typed, CatalogTypes
<1> QED
  BY <1>1 DEF Edit, Typed, CatalogTypes, CommandTypes, RefreshTypes, catalog, extraction,
     analysisVars, refreshVars, publication

\* What a scan of a source leaves in the tracks, whether it succeeds or fails.
LEMMA ReconciledTypes ==
    ASSUME Typed, NEW source, NEW stored \in {Observed(source), Reconciled(source)}
    PROVE  stored \in [Tracks -> [facts : Versions, present : BOOLEAN]]
<1>1. \A t \in Tracks : tracks[t] \in [facts : Versions, present : BOOLEAN] /\ files[t] \in Versions
  BY DEF Typed, CatalogTypes
<1>2. \A t \in Tracks :
          [facts |-> files[t], present |-> TRUE] \in [facts : Versions, present : BOOLEAN]
  BY <1>1
<1>3. \A t \in Tracks :
          [tracks[t] EXCEPT !.present = FALSE] \in [facts : Versions, present : BOOLEAN]
  BY <1>1
<1>4. Observed(source) \in [Tracks -> [facts : Versions, present : BOOLEAN]]
  BY <1>1, <1>2 DEF Observed
<1>5. Reconciled(source) \in [Tracks -> [facts : Versions, present : BOOLEAN]]
  BY <1>3, <1>4 DEF Reconciled
<1> QED  BY <1>4, <1>5

LEMMA ScanTypes ==
    ASSUME Typed, NEW source,
           OtherScan(source) \/ \E p \in Refreshers :
               ScanSucceeds(p, source) \/ ScanFails(p, source) \/ DecideAfterScan(p)
    PROVE  Typed'
<1> USE DEF Typed, CatalogTypes, CommandTypes, RefreshTypes
<1>1. CASE OtherScan(source)
  BY <1>1, ReconciledTypes, DisturbTypes DEF OtherScan, extraction, analysisVars, refreshVars,
     publication
<1>2. ASSUME NEW p \in Refreshers, ScanSucceeds(p, source) PROVE Typed'
  <2>1. scanned' \in [Refreshers -> [Tracks -> Versions]]
    <3>1. [t \in Tracks |-> IF t \in TracksOf(source) THEN files[t] ELSE scanned[p][t]]
              \in [Tracks -> Versions]
      OBVIOUS
    <3> QED  BY <1>2, <3>1 DEF ScanSucceeds
  <2>2. unscanned' \in [Refreshers -> SUBSET Sources]
    BY <1>2 DEF ScanSucceeds
  <2> QED
    BY <1>2, <2>1, <2>2, ReconciledTypes, DisturbTypes
       DEF ScanSucceeds, extraction, analysisVars, publication
<1>3. ASSUME NEW p \in Refreshers, ScanFails(p, source) PROVE Typed'
  BY <1>3, ReconciledTypes, DisturbTypes DEF ScanFails, extraction, analysisVars, publication
<1>4. ASSUME NEW p \in Refreshers, DecideAfterScan(p) PROVE Typed'
  <2>1. pc' \in [Commands -> Places]
    <3>1. pc' = [pc EXCEPT ![p] = "end"] \/ pc' = [pc EXCEPT ![p] = "count"]
      BY <1>4 DEF DecideAfterScan
    <3> QED  BY <3>1 DEF Places
  <2>2. results' \in [Refreshers -> [status : Status, published : BOOLEAN]]
    <3>1. results' = results \/ Report(p, "failed", FALSE)
      BY <1>4 DEF DecideAfterScan
    <3>2. [status |-> "failed", published |-> FALSE] \in [status : Status, published : BOOLEAN]
      BY DEF Status
    <3> QED  BY <3>1, <3>2 DEF Report
  <2> QED
    BY <1>4, <2>1, <2>2 DEF DecideAfterScan, catalog, extraction, analysisVars, publication
<1> QED  BY <1>1, <1>2, <1>3, <1>4

LEMMA AppendEvent ==
    ASSUME Typed, NEW t \in Tracks, NEW fields \in SUBSET Fields
    PROVE  /\ Append(events[t], Failed) \in Seq(Event)
           /\ Append(events[t], Changed(fields)) \in Seq(Event)
           /\ events[t] \in Seq(Event)
<1>1. Failed \in Event /\ Changed(fields) \in Event
  BY DEF Failed, Changed, Event
<1> QED  BY <1>1 DEF Typed, CatalogTypes

LEMMA CountingTypes ==
    ASSUME NEW r \in Result, NEW m \in Nat, NEW n \in Nat
    PROVE  [r EXCEPT !.extracted = m, !.failed = n] \in Result
  BY DEF Result

LEMMA MetadataTypes ==
    ASSUME Typed, NEW p \in Extractors, Metadata(p)
    PROVE  Typed'
<1> USE DEF Typed, CatalogTypes, CommandTypes, RefreshTypes
<1>1. /\ attempts' = attempts /\ runs' = runs /\ lock' = lock /\ todo' = todo /\ snap' = snap
      /\ unscanned' = unscanned /\ failedScans' = failedScans /\ outcome' = outcome
      /\ staged' = staged /\ results' = results /\ destination' = destination
      /\ scanned' = scanned /\ alone' \in [Refreshers -> BOOLEAN] /\ MetadataStep(p)
  BY DisturbTypes DEF Metadata, analysisVars, refreshVars, publication
<1>2. Present \subseteq Tracks /\ Eligible(p) \subseteq Tracks /\ p \in Commands
  BY Members DEF Present, Eligible
<1>3. CASE CountPresent(p)
  <2>1. Cardinality(Present) \in Nat
    BY <1>2, Sizes
  <2>2. pc' \in [Commands -> Places]
    BY <1>3 DEF CountPresent, Places
  <2> QED  BY <1>1, <1>3, <2>1, <2>2 DEF CountPresent, catalog
<1>4. CASE VersionMissing(p)
  <2>1. counted' \in [Extractors -> Result]
    <3>1. [NotRun EXCEPT !.failed = Cardinality(Present)] \in Result
      BY <1>2, Sizes DEF NotRun, Result
    <3> QED  BY <1>4, <3>1 DEF VersionMissing
  <2>2. pc' \in [Commands -> Places]
    BY <1>4 DEF VersionMissing, Places
  <2>3. events' \in [Tracks -> Seq(Event)]
    BY <1>4, AppendEvent DEF VersionMissing
  <2> QED  BY <1>1, <1>4, <2>1, <2>2, <2>3 DEF VersionMissing
<1>5. CASE SelectEligible(p)
  <2>1. PICK chosen \in SUBSET Present :
          /\ eligible' = [eligible EXCEPT ![p] =
                            [t \in Tracks |-> IF t \in chosen THEN tracks[t].facts ELSE 0]]
          /\ unread' = [unread EXCEPT ![p] = chosen]
          /\ counted' = [counted EXCEPT ![p] =
                            [NotRun EXCEPT !.skipped = present[p] - Cardinality(chosen)]]
          /\ pc' = [pc EXCEPT ![p] = IF chosen = {} THEN "extracted" ELSE "extract"]
    BY <1>5 DEF SelectEligible
  <2>2. counted' \in [Extractors -> Result]
    <3>1. Cardinality(chosen) \in Nat
      BY <1>2, Sizes
    <3>2. [NotRun EXCEPT !.skipped = present[p] - Cardinality(chosen)] \in Result
      <4>1. present[p] - Cardinality(chosen) \in Int
        BY <3>1
      <4> QED  BY <4>1 DEF NotRun, Result
    <3> QED  BY <2>1, <3>2
  <2>3. eligible' \in [Extractors -> [Tracks -> Versions]]
    <3>1. [t \in Tracks |-> IF t \in chosen THEN tracks[t].facts ELSE 0] \in [Tracks -> Versions]
      BY Zero
    <3> QED  BY <2>1, <3>1
  <2>4. pc' \in [Commands -> Places]
    BY <2>1 DEF Places
  <2>5. unread' \in [Extractors -> SUBSET Tracks]
    BY <1>2, <2>1
  <2> QED  BY <1>1, <1>5, <2>2, <2>3, <2>4, <2>5 DEF SelectEligible, catalog
<1>6. ASSUME NEW t \in Tracks, ReadTags(p, t) PROVE Typed'
  <2>1. tags' \in [Extractors -> [Tracks -> Versions]]
    BY <1>6, Zero DEF ReadTags
  <2> QED  BY <1>1, <1>6, <2>1 DEF ReadTags, catalog
<1>7. CASE BatchRaises(p)
  <2>1. NoFacts \in [Tracks -> Versions]
    BY Zero DEF NoFacts
  <2> QED  BY <1>1, <1>7, <2>1 DEF BatchRaises, catalog
<1>8. CASE Store(p)
  <2> DEFINE extracted == {t \in Eligible(p) : tags[p][t] # 0}
             changed(t) == ChangedFields(metadata[t].read, tags[p][t])
  <2>1. NoFacts \in [Tracks -> Versions]
    BY Zero DEF NoFacts
  <2>2. eligible' \in [Extractors -> [Tracks -> Versions]]
        /\ tags' \in [Extractors -> [Tracks -> Versions]] /\ present' = present
    BY <1>8, <2>1 DEF Store, Discard
  <2>3. counted' \in [Extractors -> Result]
    <3>1. Cardinality(extracted) \in Nat /\ Cardinality(Eligible(p) \ extracted) \in Nat
      BY <1>2, Sizes
    <3>2. counted' = [counted EXCEPT ![p].extracted = Cardinality(extracted),
                                     ![p].failed = Cardinality(Eligible(p) \ extracted)]
      BY <1>8 DEF Store, Count
    <3> HIDE DEF extracted
    <3>3. [counted[p] EXCEPT !.extracted = Cardinality(extracted),
                             !.failed = Cardinality(Eligible(p) \ extracted)] \in Result
      BY <3>1, CountingTypes
    <3>4. counted' = [counted EXCEPT ![p] =
              [counted[p] EXCEPT !.extracted = Cardinality(extracted),
                                 !.failed = Cardinality(Eligible(p) \ extracted)]]
      BY <3>2
    <3> QED  BY <3>3, <3>4
  <2>4. metadata' \in [Tracks -> Row]
    BY <1>8 DEF Store, MetadataRow, Row, Versions
  <2>5. events' \in [Tracks -> Seq(Event)]
    <3>1. \A t \in Tracks : changed(t) \in SUBSET Fields
      BY DEF ChangedFields
    <3>2. events' = [t \in Tracks |->
               CASE t \in Eligible(p) \ extracted -> Append(events[t], Failed)
                 [] t \in extracted /\ changed(t) # {} -> Append(events[t], Changed(changed(t)))
                 [] OTHER -> events[t]]
      BY <1>8 DEF Store
    <3> HIDE DEF extracted, changed
    <3> QED  BY <3>1, <3>2, AppendEvent
  <2>6. pc' \in [Commands -> Places]
    BY <1>8 DEF Store, Places
  <2> QED  BY <1>1, <1>8, <2>2, <2>3, <2>4, <2>5, <2>6 DEF Store
<1> QED  BY <1>1, <1>3, <1>4, <1>5, <1>6, <1>7, <1>8 DEF MetadataStep

\* The run in progress: what an outcome records in it, and how it ends.
LEMMA LastRunTypes ==
    ASSUME NEW rs \in Seq(RunRow), Len(rs) >= 1, NEW run \in RunRow
    PROVE  /\ Len(rs) \in 1..Len(rs) /\ rs[Len(rs)] \in RunRow
           /\ [rs EXCEPT ![Len(rs)] = run] \in Seq(RunRow)
           /\ Len([rs EXCEPT ![Len(rs)] = run]) = Len(rs)
  OBVIOUS

LEMMA OutcomeTypes ==
    ASSUME NEW run \in RunRow, NEW t \in Tracks
    PROVE  /\ [run EXCEPT !.analyzed = run.analyzed + 1] \in RunRow
           /\ [run EXCEPT !.failures = run.failures \cup {t}] \in RunRow
  BY DEF RunRow

SettledRuns == [r \in DOMAIN runs |-> IF runs[r].status = "running" THEN Ended(runs[r])
                                      ELSE runs[r]]

LEMMA SettledRunsAre ==
    ASSUME Typed
    PROVE  /\ SettledRuns \in Seq(RunRow) /\ Len(SettledRuns) = Len(runs) /\ Len(runs) \in Nat
           /\ \A r \in 1..Len(runs) :
                 SettledRuns[r] = IF runs[r].status = "running" THEN Ended(runs[r]) ELSE runs[r]
<1>1. runs \in Seq(RunRow) /\ Len(runs) \in Nat /\ DOMAIN runs = 1..Len(runs)
      /\ \A r \in 1..Len(runs) : runs[r] \in RunRow
  BY DEF Typed, CatalogTypes
<1>2. \A r \in 1..Len(runs) : Ended(runs[r]) \in RunRow
  BY <1>1, EndedIs
<1> QED  BY <1>1, <1>2 DEF SettledRuns

LEMMA AnalyzeTypes ==
    ASSUME Typed, RunsAreTrue, NEW p \in Commands, AnalyzeStep(p)
    PROVE  Typed'
<1>1. CatalogTypes /\ CommandTypes /\ RefreshTypes
  BY DEF Typed
<1>2. /\ files' = files /\ tracks' = tracks /\ metadata' = metadata /\ events' = events
      /\ present' = present /\ eligible' = eligible /\ tags' = tags /\ unread' = unread
      /\ counted' = counted
      /\ unscanned' = unscanned /\ failedScans' = failedScans /\ staged' = staged
      /\ results' = results /\ destination' = destination /\ scanned' = scanned
  BY DEF AnalyzeStep, BeginAnalysis, AnalysisIsHeld, AnalyzeTrack, FinishAnalysis,
     AbandonAnalysis, catalog, extraction, refreshVars, publication
<1>3. alone' \in [Refreshers -> BOOLEAN]
  <2>1. alone' = alone \/ Disturb(p)
    BY DEF AnalyzeStep, BeginAnalysis, AnalysisIsHeld, AnalyzeTrack, FinishAnalysis,
       AbandonAnalysis
  <2> QED  BY <1>1, <2>1, DisturbTypes DEF RefreshTypes
<1>4. NoFacts \in [Tracks -> Versions]
  BY Zero DEF NoFacts
<1>5. CASE BeginAnalysis(p)
  <2>1. PICK chosen \in SUBSET Tracks :
          /\ todo' = [todo EXCEPT ![p] = chosen]
          /\ snap' = [snap EXCEPT ![p] = [t \in Tracks |-> tracks[t].facts]]
          /\ runs' = Append(SettledRuns, [status |-> "running", eligible |-> Cardinality(chosen),
                                          analyzed |-> 0, failures |-> {}])
    BY <1>5, RowsAreTyped DEF BeginAnalysis, SettledRuns
  <2>2. Cardinality(chosen) \in Nat
    BY Sizes
  <2>3. [status |-> "running", eligible |-> Cardinality(chosen), analyzed |-> 0,
         failures |-> {}] \in RunRow
    BY <2>2 DEF RunRow, Status
  <2>4. runs' \in Seq(RunRow)
    BY <2>1, <2>3, SettledRunsAre
  <2>5. todo' \in [Commands -> SUBSET Tracks] /\ snap' \in [Commands -> [Tracks -> Versions]]
    BY <1>1, <2>1 DEF CommandTypes, CatalogTypes
  <2>6. /\ attempts' = attempts /\ lock' = p /\ outcome' = outcome
        /\ pc' = [pc EXCEPT ![p] = "analyzing"]
    BY <1>5 DEF BeginAnalysis, refreshVars
  <2>7. pc' \in [Commands -> Places]
    BY <1>1, <2>6 DEF CommandTypes, Places
  <2> QED
    BY <1>1, <1>2, <1>3, <2>4, <2>5, <2>6, <2>7
       DEF Typed, CatalogTypes, CommandTypes, RefreshTypes
<1>6. CASE AnalysisIsHeld(p)
  <2>1. /\ attempts' = attempts /\ lock' = lock /\ outcome' = outcome /\ runs' = runs
        /\ todo' = todo /\ snap' = snap /\ pc' = [pc EXCEPT ![p] = "end"]
    BY <1>6 DEF AnalysisIsHeld, refreshVars, analysisVars
  <2>2. pc' \in [Commands -> Places]
    BY <1>1, <2>1 DEF CommandTypes, Places
  <2> QED  BY <1>1, <1>2, <1>3, <2>1, <2>2 DEF Typed, CatalogTypes, CommandTypes, RefreshTypes
<1>7. ASSUME NEW t \in Tracks, AnalyzeTrack(p, t) PROVE Typed'
  <2>1. Len(runs) >= 1 /\ runs \in Seq(RunRow) /\ LastRun \in RunRow
    <3>1. Len(runs) >= 1 /\ runs \in Seq(RunRow)
      BY <1>1, <1>7 DEF AnalyzeTrack, RunsAreTrue, CatalogTypes
    <3> QED  BY <3>1, LastRunTypes DEF LastRun
  <2>2. PICK ok \in BOOLEAN :
          /\ attempts' = [attempts EXCEPT ![t] = [facts |-> snap[p][t], ok |-> ok]]
          /\ runs' = IF ok THEN [runs EXCEPT ![Len(runs)].analyzed = @ + 1]
                     ELSE [runs EXCEPT ![Len(runs)].failures = @ \cup {t}]
    BY <1>7 DEF AnalyzeTrack
  <2>3. attempts' \in [Tracks -> Attempt]
    <3>1. [facts |-> snap[p][t], ok |-> ok] \in Attempt
      BY <1>1 DEF CommandTypes, Attempt, Versions
    <3> QED  BY <1>1, <2>2, <3>1 DEF CatalogTypes
  <2>4. runs' \in Seq(RunRow)
    <3>1. CASE ok
      <4>1. runs' = [runs EXCEPT ![Len(runs)] = [LastRun EXCEPT !.analyzed = LastRun.analyzed + 1]]
        BY <2>1, <2>2, <3>1 DEF LastRun
      <4> QED  BY <2>1, <4>1, OutcomeTypes, LastRunTypes
    <3>2. CASE ~ok
      <4>1. runs' = [runs EXCEPT ![Len(runs)] =
                        [LastRun EXCEPT !.failures = LastRun.failures \cup {t}]]
        BY <2>1, <2>2, <3>2 DEF LastRun
      <4> QED  BY <2>1, <4>1, OutcomeTypes, LastRunTypes
    <3> QED  BY <3>1, <3>2
  <2>5. /\ lock' = lock /\ outcome' = outcome /\ snap' = snap /\ pc' = pc
        /\ todo' = [todo EXCEPT ![p] = todo[p] \ {t}]
    BY <1>7 DEF AnalyzeTrack, refreshVars
  <2>6. todo' \in [Commands -> SUBSET Tracks]
    BY <1>1, <2>5 DEF CommandTypes
  <2> QED
    BY <1>1, <1>2, <1>3, <2>3, <2>4, <2>5, <2>6 DEF Typed, CatalogTypes, CommandTypes, RefreshTypes
<1>8. CASE FinishAnalysis(p)
  <2>1. Len(runs) >= 1 /\ runs \in Seq(RunRow) /\ LastRun \in RunRow
    <3>1. Len(runs) >= 1 /\ runs \in Seq(RunRow)
      BY <1>1, <1>8 DEF FinishAnalysis, RunsAreTrue, CatalogTypes
    <3> QED  BY <3>1, LastRunTypes DEF LastRun
  <2>2. /\ runs' = [runs EXCEPT ![Len(runs)] = Ended(LastRun)]
        /\ snap' = [snap EXCEPT ![p] = NoFacts]
        /\ attempts' = attempts /\ lock' = Nobody /\ todo' = todo
        /\ \/ outcome' = outcome /\ pc' = [pc EXCEPT ![p] = "end"]
           \/ /\ outcome' = [outcome EXCEPT ![p] = Ended(LastRun).status]
              /\ pc' = [pc EXCEPT ![p] = "export"]
    BY <1>8, <2>1 DEF FinishAnalysis, LastRun
  <2>3. runs' \in Seq(RunRow)
    BY <2>1, <2>2, EndedIs, LastRunTypes
  <2>4. snap' \in [Commands -> [Tracks -> Versions]]
    BY <1>1, <1>4, <2>2 DEF CommandTypes
  <2>5. outcome' \in [Refreshers -> Status]
    BY <1>1, <2>1, <2>2, EndedIs DEF RefreshTypes, Settled, Status
  <2>6. pc' \in [Commands -> Places]
    BY <1>1, <2>2 DEF CommandTypes, Places
  <2> QED
    BY <1>1, <1>2, <1>3, <2>2, <2>3, <2>4, <2>5, <2>6
       DEF Typed, CatalogTypes, CommandTypes, RefreshTypes
<1>9. CASE AbandonAnalysis(p)
  <2>1. /\ todo' = [todo EXCEPT ![p] = {}] /\ snap' = [snap EXCEPT ![p] = NoFacts]
        /\ lock' = Nobody /\ pc' = [pc EXCEPT ![p] = "end"]
        /\ attempts' = attempts /\ runs' = runs /\ outcome' = outcome
    BY <1>9 DEF AbandonAnalysis, refreshVars
  <2>2. pc' \in [Commands -> Places]
    BY <1>1, <2>1 DEF CommandTypes, Places
  <2>3. todo' \in [Commands -> SUBSET Tracks] /\ snap' \in [Commands -> [Tracks -> Versions]]
    BY <1>1, <1>4, <2>1 DEF CommandTypes
  <2> QED
    BY <1>1, <1>2, <1>3, <2>1, <2>2, <2>3 DEF Typed, CatalogTypes, CommandTypes, RefreshTypes
<1> QED  BY <1>5, <1>6, <1>7, <1>8, <1>9 DEF AnalyzeStep

LEMMA StatusIs ==
    ASSUME Typed, NEW p \in Refreshers, outcome[p] \in Settled
    PROVE  /\ StatusOf(p) \in Settled
           /\ StatusOf(p) = "succeeded" =>
                  /\ failedScans[p] = {} /\ outcome[p] = "succeeded"
                  /\ MetadataStatus(counted[p]) = "succeeded" /\ counted[p].failed = 0
<1>1. counted[p] \in Result
  BY Members DEF Typed, CommandTypes
<1>2. MetadataStatus(counted[p]) \in Settled
      /\ (MetadataStatus(counted[p]) = "succeeded" => counted[p].failed = 0)
  BY <1>1, MetadataStatusIs
<1> DEFINE scans == IF failedScans[p] = {} THEN "succeeded" ELSE "partial"
<1>3. scans \in Settled /\ (scans = "succeeded" => failedScans[p] = {})
  BY DEF Settled
<1>4. StatusOf(p) = WorstStatus(<<scans, MetadataStatus(counted[p]), outcome[p]>>)
  BY DEF StatusOf
<1> HIDE DEF scans
<1> QED  BY <1>2, <1>3, <1>4, WorstIsOne

LEMMA ExportTypes ==
    ASSUME Typed, NEW p \in Refreshers, Advanced(p),
           StageExport(p) \/ ExportRaises(p) \/ Publish(p)
    PROVE  Typed'
<1>1. CatalogTypes /\ CommandTypes /\ RefreshTypes
  BY DEF Typed
<1>2. /\ files' = files /\ tracks' = tracks /\ metadata' = metadata /\ events' = events
      /\ attempts' = attempts /\ runs' = runs /\ lock' = lock
      /\ present' = present /\ eligible' = eligible /\ tags' = tags /\ unread' = unread
      /\ counted' = counted /\ todo' = todo /\ snap' = snap
      /\ unscanned' = unscanned /\ failedScans' = failedScans /\ outcome' = outcome
      /\ scanned' = scanned /\ alone' = alone
  BY DEF StageExport, ExportRaises, Publish, catalog, extraction, analysisVars
<1>3. pc' \in [Commands -> Places]
  <2>1. pc' = [pc EXCEPT ![p] = "switch"] \/ pc' = [pc EXCEPT ![p] = "end"]
    BY DEF StageExport, ExportRaises, Publish
  <2> QED  BY <1>1, <2>1 DEF CommandTypes, Places
<1>4. Nothing \in Export
  BY DEF Nothing, Export, NoRun, RunRow, Status
<1>5. [status |-> "failed", published |-> FALSE] \in [status : Status, published : BOOLEAN]
  BY DEF Status
<1>6. CASE StageExport(p)
  <2>1. LastRun \in RunRow
    <3>1. Len(runs) >= 1 /\ runs \in Seq(RunRow)
      BY <1>1, <1>6 DEF StageExport, CanPublish, CatalogTypes
    <3> QED  BY <3>1, LastRunTypes DEF LastRun
  <2>2. [tracks |-> TrackRows, analysis |-> AnalysisRows, run |-> LastRun] \in Export
    BY <2>1, RowsAreTyped DEF Export
  <2>3. staged' \in [Refreshers -> Export]
    BY <1>1, <1>6, <2>2 DEF StageExport, RefreshTypes, LastRun
  <2>4. results' = results /\ destination' = destination
    BY <1>6 DEF StageExport, publication
  <2> QED
    BY <1>1, <1>2, <1>3, <2>3, <2>4 DEF Typed, CatalogTypes, CommandTypes, RefreshTypes
<1>7. CASE ExportRaises(p)
  <2>1. staged' = [staged EXCEPT ![p] = Nothing] /\ destination' = destination
        /\ results' = [results EXCEPT ![p] = [status |-> "failed", published |-> FALSE]]
    BY <1>7 DEF ExportRaises, publication, Report
  <2>2. staged' \in [Refreshers -> Export]
        /\ results' \in [Refreshers -> [status : Status, published : BOOLEAN]]
    BY <1>1, <1>4, <1>5, <2>1 DEF RefreshTypes
  <2> QED
    BY <1>1, <1>2, <1>3, <2>1, <2>2 DEF Typed, CatalogTypes, CommandTypes, RefreshTypes
<1>8. CASE Publish(p)
  <2>1. /\ staged' = [staged EXCEPT ![p] = Nothing] /\ destination' = staged[p]
        /\ \/ results' = [results EXCEPT ![p] = [status |-> StatusOf(p), published |-> TRUE]]
           \/ results' = [results EXCEPT ![p] = [status |-> "failed", published |-> FALSE]]
    BY <1>8 DEF Publish, Report
  <2>2. outcome[p] \in Settled
    BY <1>8 DEF Publish, Advanced, Settled
  <2>3. StatusOf(p) \in Status
    BY <2>2, StatusIs DEF Status, Settled
  <2>4. [status |-> StatusOf(p), published |-> TRUE] \in [status : Status, published : BOOLEAN]
    BY <2>3
  <2>5. staged' \in [Refreshers -> Export] /\ destination' \in Export
        /\ results' \in [Refreshers -> [status : Status, published : BOOLEAN]]
    BY <1>1, <1>4, <1>5, <2>1, <2>4 DEF RefreshTypes
  <2> QED
    BY <1>1, <1>2, <1>3, <2>5 DEF Typed, CatalogTypes, CommandTypes, RefreshTypes
<1> QED  BY <1>6, <1>7, <1>8

LEMMA NextTyped ==
    ASSUME Refreshed, Next
    PROVE  Typed'
<1>1. ASSUME NEW p \in Refreshers, RefreshStep(p) PROVE Typed'
  <2>1. CASE DecideAfterScan(p)
    BY <2>1, ScanTypes DEF Refreshed
  <2>2. CASE StageExport(p) \/ ExportRaises(p) \/ Publish(p)
    BY <2>2, ExportTypes DEF Refreshed
  <2>3. ASSUME NEW source \in Sources, ScanSucceeds(p, source) \/ ScanFails(p, source)
        PROVE  Typed'
    BY <2>3, ScanTypes DEF Refreshed
  <2> QED  BY <1>1, <2>1, <2>2, <2>3 DEF RefreshStep
<1> QED
  BY <1>1, EditTypes, ScanTypes, MetadataTypes, AnalyzeTypes DEF Next, Refreshed

-----------------------------------------------------------------------------
(* Every step keeps the order of versions.                                 *)

\* What the order of versions is about, when a step leaves it alone.
LEMMA VersionsUntouched ==
    ASSUME VersionsGrow, Typed, files' = files, tracks' = tracks, metadata' = metadata,
           attempts' = attempts, snap' = snap, eligible' = eligible, tags' = tags,
           \A p \in Extractors : pc'[p] = "extract" <=> pc[p] = "extract"
    PROVE  VersionsGrow'
  BY DEF VersionsGrow, IsPresent, MetadataIsOfItsFacts

\* A scan only moves the facts of a track forward, to those of its file.
LEMMA ScanGrows ==
    ASSUME Typed, VersionsGrow, NEW source,
           tracks' \in {tracks, Observed(source), Reconciled(source)},
           files' = files, metadata' = metadata, attempts' = attempts, snap' = snap,
           eligible' = eligible, tags' = tags, pc' = pc
    PROVE  VersionsGrow'
<1>1. ASSUME NEW t \in Tracks
      PROVE  /\ files[t] # 0 => tracks'[t].facts <= files[t]
             /\ tracks'[t].present => tracks'[t].facts # 0
             /\ tracks[t].facts <= tracks'[t].facts
             /\ tracks'[t].facts \in Nat
  <2>0. tracks[t] \in [facts : Versions, present : BOOLEAN] /\ tracks[t].facts \in Nat
        /\ files[t] \in Nat
    BY Zero DEF Typed, CatalogTypes
  <2>1. \/ tracks'[t] = tracks[t]
        \/ files[t] # 0 /\ tracks'[t] = [facts |-> files[t], present |-> TRUE]
        \/ files[t] = 0 /\ tracks'[t] = [tracks[t] EXCEPT !.present = FALSE]
    BY DEF Observed, Reconciled
  <2>2. CASE tracks'[t] = tracks[t]
    BY <2>0, <2>2 DEF VersionsGrow, IsPresent
  <2>3. CASE files[t] # 0 /\ tracks'[t] = [facts |-> files[t], present |-> TRUE]
    BY <2>0, <2>3 DEF VersionsGrow
  <2>4. CASE files[t] = 0 /\ tracks'[t] = [tracks[t] EXCEPT !.present = FALSE]
    BY <2>0, <2>4
  <2> QED  BY <2>1, <2>2, <2>3, <2>4
<1>2. /\ \A t \in Tracks : /\ metadata[t].facts \in Nat /\ attempts[t].facts \in Nat
                           /\ tracks[t].facts \in Nat
      /\ \A p \in Commands, t \in Tracks : snap[p][t] \in Nat
      /\ \A p \in Extractors, t \in Tracks : eligible[p][t] \in Nat
  BY Zero DEF Typed, CatalogTypes, CommandTypes, Row, Attempt, Versions
<1>3. \A a, b, c \in Nat : a <= b /\ b <= c => a <= c
  OBVIOUS
<1>4. \A t \in Tracks : /\ metadata[t].facts <= tracks'[t].facts
                        /\ attempts[t].facts <= tracks'[t].facts
  BY <1>1, <1>2, <1>3 DEF VersionsGrow
<1>5. \A p \in Commands, t \in Tracks : snap[p][t] <= tracks'[t].facts
  BY <1>1, <1>2, <1>3 DEF VersionsGrow
<1>6. \A p \in Extractors, t \in Tracks : eligible[p][t] <= tracks'[t].facts
  BY <1>1, <1>2, <1>3 DEF VersionsGrow
<1> QED  BY <1>1, <1>4, <1>5, <1>6 DEF VersionsGrow, IsPresent, MetadataIsOfItsFacts

LEMMA EditGrows ==
    ASSUME Typed, VersionsGrow, NEW e \in Tracks, Edit(e)
    PROVE  VersionsGrow'
<1>1. PICK version \in {0, MaxVersion} : files' = [files EXCEPT ![e] = version]
  BY DEF Edit
<1>2. /\ tracks' = tracks /\ metadata' = metadata /\ eligible' = eligible /\ tags' = tags
      /\ pc' = pc /\ attempts' = attempts /\ snap' = snap
  BY DEF Edit, catalog, extraction, analysisVars
<1>3. \A t \in Tracks : files'[t] # 0 => files'[t] = files[t] \/ files'[t] = MaxVersion
  BY <1>1 DEF Typed, CatalogTypes
<1>4. \A t \in Tracks : tracks[t].facts \in 0..MaxVersion
  BY DEF Typed, CatalogTypes, Versions
<1>5. \A n \in 0..MaxVersion : n <= MaxVersion
  OBVIOUS
<1> QED  BY <1>2, <1>3, <1>4, <1>5 DEF VersionsGrow, IsPresent, MetadataIsOfItsFacts

LEMMA MetadataGrows ==
    ASSUME Typed, VersionsGrow, NEW p \in Extractors, MetadataStep(p),
           attempts' = attempts, snap' = snap
    PROVE  VersionsGrow'
<1>1. p \in Commands /\ files' = files /\ tracks' = tracks
  BY Members DEF MetadataStep, CountPresent, VersionMissing, SelectEligible, ReadTags,
     BatchRaises, Store, catalog
<1>2. CASE CountPresent(p) \/ VersionMissing(p)
  <2>1. /\ metadata' = metadata /\ eligible' = eligible /\ tags' = tags
        /\ \A q \in Extractors : pc'[q] = "extract" <=> pc[q] = "extract"
    BY <1>2, Members DEF CountPresent, VersionMissing, catalog, Typed, CommandTypes
  <2> QED  BY <1>1, <2>1, VersionsUntouched
<1>3. CASE SelectEligible(p)
  <2>1. PICK chosen \in SUBSET Present :
          eligible' = [eligible EXCEPT ![p] =
                            [t \in Tracks |-> IF t \in chosen THEN tracks[t].facts ELSE 0]]
    BY <1>3 DEF SelectEligible
  <2>2. /\ metadata' = metadata /\ tags' = tags /\ pc[p] = "version"
        /\ \A q \in Extractors \ {p} : pc'[q] = pc[q]
    BY <1>3, Members DEF SelectEligible, catalog, Typed, CommandTypes
  <2>3. \A t \in Tracks : eligible'[p][t] \in {0, tracks[t].facts}
    BY <2>1 DEF Typed, CommandTypes
  <2>4. \A q \in Extractors \ {p} : eligible'[q] = eligible[q]
    BY <2>1 DEF Typed, CommandTypes
  <2>5. \A t \in Tracks : tags[p][t] = 0
    BY <2>2 DEF VersionsGrow
  <2>6. \A t \in Tracks : tracks[t].facts \in Nat
    BY Zero DEF Typed, CatalogTypes
  <2>7. \A t \in Tracks : eligible'[p][t] <= tracks[t].facts /\ tags'[p][t] = 0
    BY <2>2, <2>3, <2>5, <2>6
  <2>8. \A q \in Extractors, t \in Tracks :
          /\ eligible'[q][t] <= tracks'[t].facts
          /\ tags'[q][t] # 0 => eligible'[q][t] <= tags'[q][t]
          /\ pc'[q] # "extract" => tags'[q][t] = 0
    BY <1>1, <2>2, <2>4, <2>7 DEF VersionsGrow
  <2> QED  BY <1>1, <2>2, <2>8 DEF VersionsGrow, IsPresent, MetadataIsOfItsFacts
<1>4. ASSUME NEW u \in Tracks, ReadTags(p, u) PROVE VersionsGrow'
  <2>1. PICK readable \in BOOLEAN :
            tags' = [tags EXCEPT ![p][u] = IF readable THEN files[u] ELSE 0]
    BY <1>4 DEF ReadTags
  <2>2. metadata' = metadata /\ eligible' = eligible /\ pc' = pc /\ pc[p] = "extract"
    BY <1>4 DEF ReadTags, catalog
  <2>3. \A q \in Extractors, t \in Tracks :
            tags'[q][t] = tags[q][t] \/ (q = p /\ t = u /\ tags'[q][t] \in {0, files[u]})
    <3>1. PICK read \in {0, files[u]} : tags' = [tags EXCEPT ![p][u] = read]
      BY <2>1
    <3> QED  BY <3>1 DEF Typed, CommandTypes
  <2>4. \A q \in Extractors, t \in Tracks : tags'[q][t] # 0 => eligible[q][t] <= tags'[q][t]
    <3>1. /\ \A q \in Extractors : eligible[q][u] \in Nat
          /\ tracks[u].facts \in Nat /\ files[u] \in Nat
      <4>1. \A q \in Extractors : eligible[q][u] \in Versions
        BY DEF Typed, CommandTypes
      <4>2. tracks[u].facts \in Versions /\ files[u] \in Versions
        BY DEF Typed, CatalogTypes
      <4> QED  BY <4>1, <4>2, Zero
    <3>2. \A q \in Extractors : files[u] # 0 => eligible[q][u] <= files[u]
      BY <3>1 DEF VersionsGrow
    <3> QED  BY <2>3, <3>2 DEF VersionsGrow
  <2> QED  BY <1>1, <2>2, <2>3, <2>4 DEF VersionsGrow, IsPresent, MetadataIsOfItsFacts
<1>5. CASE BatchRaises(p)
  <2>1. metadata' = metadata /\ eligible' = eligible /\ pc' = pc /\ pc[p] = "extract"
    BY <1>5 DEF BatchRaises, catalog
  <2>2. \A q \in Extractors, t \in Tracks : tags'[q][t] = tags[q][t] \/ tags'[q][t] = 0
    BY <1>5 DEF BatchRaises, Typed, CommandTypes, NoFacts
  <2> QED  BY <1>1, <2>1, <2>2 DEF VersionsGrow, IsPresent, MetadataIsOfItsFacts
<1>6. CASE Store(p)
  <2>1. \A q \in Extractors, t \in Tracks :
          /\ q # p => eligible'[q] = eligible[q] /\ tags'[q] = tags[q] /\ pc'[q] = pc[q]
          /\ q = p => eligible'[q][t] = 0 /\ tags'[q][t] = 0
    BY <1>6 DEF Store, Discard, NoFacts, Typed, CommandTypes
  <2>2. \A t \in Tracks :
          \/ metadata'[t] = metadata[t]
          \/ tags[p][t] # 0 /\ metadata'[t] = [facts |-> eligible[p][t], read |-> tags[p][t]]
    BY <1>6 DEF Store, MetadataRow
  <2>3. \A t \in Tracks : metadata'[t].read >= metadata'[t].facts
    <3> SUFFICES ASSUME NEW t \in Tracks PROVE metadata'[t].read >= metadata'[t].facts
      OBVIOUS
    <3>1. eligible[p][t] \in Nat /\ tags[p][t] \in Nat
      BY Zero DEF Typed, CommandTypes
    <3>2. tags[p][t] # 0 => eligible[p][t] <= tags[p][t]
      BY DEF VersionsGrow
    <3>3. CASE metadata'[t] = metadata[t]
      BY <3>3 DEF VersionsGrow, MetadataIsOfItsFacts
    <3>4. CASE /\ tags[p][t] # 0
               /\ metadata'[t] = [facts |-> eligible[p][t], read |-> tags[p][t]]
      <4>1. metadata'[t].facts = eligible[p][t] /\ metadata'[t].read = tags[p][t]
        BY <3>4
      <4> QED  BY <3>1, <3>2, <3>4, <4>1
    <3> QED  BY <2>2, <3>3, <3>4
  <2>4. \A t \in Tracks : tracks[t].facts \in Nat
    BY Zero DEF Typed, CatalogTypes
  <2>5. \A q \in Extractors, t \in Tracks :
          /\ eligible'[q][t] <= tracks'[t].facts
          /\ tags'[q][t] # 0 => eligible'[q][t] <= tags'[q][t]
          /\ pc'[q] # "extract" => tags'[q][t] = 0
    BY <1>1, <2>1, <2>4 DEF VersionsGrow
  <2>6. \A t \in Tracks : metadata'[t].facts <= tracks[t].facts
    <3> SUFFICES ASSUME NEW t \in Tracks PROVE metadata'[t].facts <= tracks[t].facts
      OBVIOUS
    <3>1. CASE metadata'[t] = metadata[t]
      BY <3>1 DEF VersionsGrow
    <3>2. CASE metadata'[t] = [facts |-> eligible[p][t], read |-> tags[p][t]]
      <4>1. metadata'[t].facts = eligible[p][t]
        BY <3>2
      <4> QED  BY <4>1 DEF VersionsGrow
    <3> QED  BY <2>2, <3>1, <3>2
  <2> QED  BY <1>1, <2>3, <2>5, <2>6 DEF VersionsGrow, IsPresent, MetadataIsOfItsFacts
<1> QED  BY <1>2, <1>3, <1>4, <1>5, <1>6 DEF MetadataStep

\* An attempt is stored under the facts the run selected, and those are the
\* track's when it starts.
LEMMA AnalyzeGrows ==
    ASSUME Typed, VersionsGrow, NEW p \in Commands, AnalyzeStep(p)
    PROVE  VersionsGrow'
<1>1. /\ files' = files /\ tracks' = tracks /\ metadata' = metadata
      /\ eligible' = eligible /\ tags' = tags
  BY DEF AnalyzeStep, BeginAnalysis, AnalysisIsHeld, AnalyzeTrack, FinishAnalysis,
     AbandonAnalysis, catalog, extraction
<1>2. \A q \in Extractors : pc'[q] = "extract" <=> pc[q] = "extract"
  BY Members DEF AnalyzeStep, BeginAnalysis, AnalysisIsHeld, AnalyzeTrack,
     FinishAnalysis, AbandonAnalysis, CanAnalyze, Typed, CommandTypes
<1>3. \A t \in Tracks : tracks[t].facts \in Nat
  BY Zero DEF Typed, CatalogTypes
<1>4. \A q \in Commands, t \in Tracks : snap'[q][t] \in {0, snap[q][t], tracks[t].facts}
  <2>1. CASE BeginAnalysis(p)
    BY <2>1 DEF BeginAnalysis, Typed, CommandTypes
  <2>2. CASE FinishAnalysis(p) \/ AbandonAnalysis(p)
    <3>1. snap' = [snap EXCEPT ![p] = NoFacts] /\ \A t \in Tracks : NoFacts[t] = 0
      BY <2>2 DEF FinishAnalysis, AbandonAnalysis, NoFacts
    <3> HIDE DEF NoFacts
    <3> QED  BY <3>1 DEF Typed, CommandTypes
  <2>3. CASE AnalysisIsHeld(p) \/ \E t \in Tracks : AnalyzeTrack(p, t)
    BY <2>3 DEF AnalysisIsHeld, AnalyzeTrack, analysisVars
  <2> QED  BY <2>1, <2>2, <2>3 DEF AnalyzeStep
<1>5. \A t \in Tracks : attempts'[t].facts \in {attempts[t].facts, snap[p][t]}
  <2>1. ASSUME NEW u \in Tracks, AnalyzeTrack(p, u)
        PROVE  \A t \in Tracks : attempts'[t].facts \in {attempts[t].facts, snap[p][t]}
    <3>1. PICK ok \in BOOLEAN : attempts' = [attempts EXCEPT ![u] = [facts |-> snap[p][u], ok |-> ok]]
      BY <2>1 DEF AnalyzeTrack
    <3> QED  BY <3>1 DEF Typed, CatalogTypes
  <2>2. CASE ~\E u \in Tracks : AnalyzeTrack(p, u)
    BY <2>2 DEF AnalyzeStep, BeginAnalysis, AnalysisIsHeld, FinishAnalysis, AbandonAnalysis,
       analysisVars
  <2> QED  BY <2>1, <2>2
<1>6. /\ \A q \in Commands, t \in Tracks : snap'[q][t] <= tracks'[t].facts
      /\ \A t \in Tracks : attempts'[t].facts <= tracks'[t].facts
  BY <1>1, <1>3, <1>4, <1>5 DEF VersionsGrow
<1> QED  BY <1>1, <1>2, <1>6 DEF VersionsGrow, IsPresent, MetadataIsOfItsFacts

LEMMA NextGrows ==
    ASSUME Refreshed, Next
    PROVE  VersionsGrow'
<1>1. Typed /\ VersionsGrow
  BY DEF Refreshed
<1>2. ASSUME NEW t \in Tracks, Edit(t) PROVE VersionsGrow'
  BY <1>1, <1>2, EditGrows
<1>3. ASSUME NEW source \in Sources, OtherScan(source) PROVE VersionsGrow'
  BY <1>1, <1>3, ScanGrows DEF OtherScan, extraction, analysisVars
<1>4. ASSUME NEW p \in Refreshers, NEW source \in Sources,
             ScanSucceeds(p, source) \/ ScanFails(p, source)
      PROVE  VersionsGrow'
  BY <1>1, <1>4, ScanGrows DEF ScanSucceeds, ScanFails, extraction, analysisVars
<1>5. ASSUME NEW p \in Extractors, Metadata(p) PROVE VersionsGrow'
  BY <1>1, <1>5, MetadataGrows DEF Metadata, analysisVars
<1>6. ASSUME NEW p \in Refreshers,
             DecideAfterScan(p) \/ StageExport(p) \/ ExportRaises(p) \/ Publish(p)
      PROVE  VersionsGrow'
  <2>1. /\ files' = files /\ tracks' = tracks /\ metadata' = metadata
        /\ attempts' = attempts /\ snap' = snap /\ eligible' = eligible /\ tags' = tags
    BY <1>6 DEF DecideAfterScan, StageExport, ExportRaises, Publish, catalog, extraction,
       analysisVars
  <2>2. \A q \in Extractors : pc'[q] = "extract" <=> pc[q] = "extract"
    BY <1>1, <1>6, Members DEF DecideAfterScan, StageExport, ExportRaises, Publish,
       Typed, CommandTypes
  <2> QED  BY <1>1, <2>1, <2>2, VersionsUntouched
<1>7. ASSUME NEW p \in Commands, AnalyzeStep(p) PROVE VersionsGrow'
  BY <1>1, <1>7, AnalyzeGrows
<1> QED  BY <1>2, <1>3, <1>4, <1>5, <1>6, <1>7 DEF Next, RefreshStep

-----------------------------------------------------------------------------
(* Every step keeps what the runs say, and the exports.                    *)

\* One command analyses at a time, and the others leave the runs alone.
LEMMA AnalyzingIsAlone ==
    ASSUME RunsAreTrue
    PROVE  \A p, q \in Commands : pc[p] = "analyzing" /\ pc[q] = "analyzing" => p = q
  BY DEF RunsAreTrue

LEMMA RunsUntouched ==
    ASSUME Typed, RunsAreTrue, runs' = runs, attempts' = attempts,
           \A q \in Commands : pc'[q] = "analyzing" =>
               pc[q] = "analyzing" /\ lock' = lock /\ todo'[q] = todo[q]
    PROVE  RunsAreTrue'
  BY DEF RunsAreTrue, LastRun

LEMMA AnalyzeRuns ==
    ASSUME Typed, RunsAreTrue, NEW p \in Commands, AnalyzeStep(p)
    PROVE  RunsAreTrue'
<1>1. /\ runs \in Seq(RunRow) /\ Len(runs) \in Nat
      /\ \A r \in 1..Len(runs) : runs[r] \in RunRow
  BY DEF Typed, CatalogTypes
<1>2. CASE BeginAnalysis(p)
  <2>1. PICK chosen \in SUBSET Tracks :
          /\ todo' = [todo EXCEPT ![p] = chosen]
          /\ runs' = Append(SettledRuns, [status |-> "running", eligible |-> Cardinality(chosen),
                                          analyzed |-> 0, failures |-> {}])
    BY <1>2, RowsAreTyped DEF BeginAnalysis, SettledRuns
  <2>2. /\ SettledRuns \in Seq(RunRow) /\ Len(SettledRuns) = Len(runs)
        /\ \A r \in 1..Len(runs) :
              SettledRuns[r] = IF runs[r].status = "running" THEN Ended(runs[r]) ELSE runs[r]
    BY SettledRunsAre
  <2>3. /\ Len(runs') = Len(runs) + 1
        /\ \A r \in 1..Len(runs) : runs'[r] = SettledRuns[r]
        /\ runs'[Len(runs) + 1].status = "running" /\ runs'[Len(runs) + 1].failures = {}
    BY <2>1, <2>2
  <2>4. LastRun'.status = "running" /\ LastRun'.failures = {}
    BY <2>3 DEF LastRun
  <2>5. \A r \in 1..Len(runs) :
          /\ runs'[r].status # "none"
          /\ runs'[r].status = "succeeded" => runs'[r].failures = {}
    <3> SUFFICES ASSUME NEW r \in 1..Len(runs)
                 PROVE  /\ runs'[r].status # "none"
                        /\ runs'[r].status = "succeeded" => runs'[r].failures = {}
      OBVIOUS
    <3>1. CASE runs[r].status = "running"
      <4>1. runs'[r] = Ended(runs[r])
        BY <2>2, <2>3, <3>1
      <4> QED  BY <1>1, <4>1, EndedIs DEF Settled
    <3>2. CASE runs[r].status # "running"
      <4>1. runs'[r] = runs[r]
        BY <2>2, <2>3, <3>2
      <4> QED  BY <4>1 DEF RunsAreTrue
    <3> QED  BY <3>1, <3>2
  <2>6. \A r \in 1..Len(runs') :
          /\ runs'[r].status # "none"
          /\ runs'[r].status = "succeeded" => runs'[r].failures = {}
    BY <1>1, <2>3, <2>5
  <2>7. /\ lock' = p /\ attempts' = attempts /\ lock = Nobody
        /\ \A q \in Commands : pc'[q] = "analyzing" => q = p \/ pc[q] = "analyzing"
    BY <1>2 DEF BeginAnalysis, Typed, CommandTypes
  <2>8. \A q \in Commands : pc'[q] = "analyzing" => q = p
    BY <2>7, Members DEF RunsAreTrue
  <2> QED  BY <1>1, <2>3, <2>4, <2>6, <2>7, <2>8 DEF RunsAreTrue
<1>3. CASE AnalysisIsHeld(p)
  <2>1. /\ runs' = runs /\ attempts' = attempts /\ lock' = lock /\ todo' = todo
        /\ \A q \in Commands : pc'[q] = "analyzing" => pc[q] = "analyzing"
    BY <1>3 DEF AnalysisIsHeld, analysisVars, Typed, CommandTypes
  <2> QED  BY <2>1, RunsUntouched
<1>4. ASSUME NEW t \in Tracks, AnalyzeTrack(p, t) PROVE RunsAreTrue'
  <2>1. /\ pc[p] = "analyzing" /\ t \in todo[p] /\ pc' = pc /\ lock' = lock /\ lock = p
        /\ Len(runs) >= 1 /\ LastRun.status = "running" /\ todo[p] \cap LastRun.failures = {}
        /\ todo'[p] = todo[p] \ {t}
    BY <1>4 DEF AnalyzeTrack, RunsAreTrue, Typed, CommandTypes
  <2>2. PICK ok \in BOOLEAN :
          /\ attempts' = [attempts EXCEPT ![t] = [facts |-> snap[p][t], ok |-> ok]]
          /\ runs' = IF ok THEN [runs EXCEPT ![Len(runs)].analyzed = @ + 1]
                     ELSE [runs EXCEPT ![Len(runs)].failures = @ \cup {t}]
    BY <1>4 DEF AnalyzeTrack
  <2>3. LastRun \in RunRow /\ Len(runs) \in 1..Len(runs)
    BY <1>1, <2>1, LastRunTypes DEF LastRun
  <2>4. /\ Len(runs') = Len(runs)
        /\ \A r \in 1..Len(runs) : r # Len(runs) => runs'[r] = runs[r]
        /\ runs'[Len(runs)].status = "running"
        /\ runs'[Len(runs)].failures = IF ok THEN LastRun.failures ELSE LastRun.failures \cup {t}
    <3>1. CASE ok
      <4>1. runs' = [runs EXCEPT ![Len(runs)] = [LastRun EXCEPT !.analyzed = LastRun.analyzed + 1]]
        BY <1>1, <2>2, <2>3, <3>1 DEF LastRun
      <4>2. runs'[Len(runs)] = [LastRun EXCEPT !.analyzed = LastRun.analyzed + 1]
        BY <1>1, <2>3, <4>1
      <4>3. runs'[Len(runs)].status = "running" /\ runs'[Len(runs)].failures = LastRun.failures
        BY <2>1, <2>3, <4>2 DEF RunRow
      <4> QED  BY <1>1, <3>1, <4>1, <4>3
    <3>2. CASE ~ok
      <4>1. runs' = [runs EXCEPT ![Len(runs)] =
                        [LastRun EXCEPT !.failures = LastRun.failures \cup {t}]]
        BY <1>1, <2>2, <2>3, <3>2 DEF LastRun
      <4>2. runs'[Len(runs)] = [LastRun EXCEPT !.failures = LastRun.failures \cup {t}]
        BY <1>1, <2>3, <4>1
      <4>3. /\ runs'[Len(runs)].status = "running"
            /\ runs'[Len(runs)].failures = LastRun.failures \cup {t}
        BY <2>1, <2>3, <4>2 DEF RunRow
      <4> QED  BY <1>1, <3>2, <4>1, <4>3
    <3> QED  BY <3>1, <3>2
  <2>5. LastRun'.status = "running"
        /\ LastRun'.failures = IF ok THEN LastRun.failures ELSE LastRun.failures \cup {t}
    BY <2>4 DEF LastRun
  <2>6. \A q \in Commands : pc'[q] = "analyzing" => q = p
    BY <2>1, AnalyzingIsAlone
  <2>7. todo'[p] \cap LastRun'.failures = {}
    BY <2>1, <2>5
  <2>8. \A u \in LastRun'.failures : ~attempts'[u].ok
    <3>1. LastRun.failures \subseteq Tracks
      BY <2>3 DEF RunRow
    <3>2. \A u \in Tracks : attempts'[u] = IF u = t THEN [facts |-> snap[p][t], ok |-> ok]
                                           ELSE attempts[u]
      BY <2>2 DEF Typed, CatalogTypes
    <3>3. t \notin LastRun.failures
      BY <2>1
    <3>4. \A u \in LastRun.failures : ~attempts'[u].ok
      BY <2>1, <3>1, <3>2, <3>3 DEF RunsAreTrue
    <3>5. ~ok => ~attempts'[t].ok
      BY <3>2
    <3> QED  BY <2>5, <3>4, <3>5
  <2>9. \A r \in 1..Len(runs') :
          /\ runs'[r].status # "none"
          /\ runs'[r].status = "succeeded" => runs'[r].failures = {}
    BY <2>4 DEF RunsAreTrue
  <2> QED  BY <2>1, <2>4, <2>5, <2>6, <2>7, <2>8, <2>9 DEF RunsAreTrue
<1>5. CASE FinishAnalysis(p)
  <2>1. /\ pc[p] = "analyzing" /\ Len(runs) >= 1
        /\ \A q \in Commands : pc'[q] = "analyzing" => pc[q] = "analyzing" /\ q # p
    BY <1>5 DEF FinishAnalysis, RunsAreTrue, Typed, CommandTypes
  <2>2. LastRun \in RunRow /\ Len(runs) \in 1..Len(runs)
    BY <1>1, <2>1, LastRunTypes DEF LastRun
  <2>3. runs' = [runs EXCEPT ![Len(runs)] = Ended(LastRun)] /\ attempts' = attempts
    BY <1>1, <1>5, <2>2 DEF FinishAnalysis, LastRun
  <2>4. /\ Len(runs') = Len(runs) /\ runs'[Len(runs)] = Ended(LastRun)
        /\ \A r \in 1..Len(runs) : r # Len(runs) => runs'[r] = runs[r]
    BY <1>1, <2>2, <2>3
  <2>5. /\ Ended(LastRun).status \in Settled /\ Ended(LastRun).failures = LastRun.failures
        /\ Ended(LastRun).status = "succeeded" => LastRun.failures = {}
    BY <2>2, EndedIs
  <2>6. LastRun' = Ended(LastRun)
    BY <2>4 DEF LastRun
  <2>7. \A q \in Commands : pc'[q] # "analyzing"
    BY <2>1, AnalyzingIsAlone
  <2>8. \A r \in 1..Len(runs') :
          /\ runs'[r].status # "none"
          /\ runs'[r].status = "succeeded" => runs'[r].failures = {}
    BY <2>4, <2>5 DEF RunsAreTrue, Settled
  <2>9. \A t \in LastRun'.failures : ~attempts'[t].ok
    BY <2>1, <2>3, <2>5, <2>6 DEF RunsAreTrue
  <2> QED  BY <2>7, <2>8, <2>9 DEF RunsAreTrue
<1>6. CASE AbandonAnalysis(p)
  <2>1. /\ runs' = runs /\ attempts' = attempts /\ pc[p] = "analyzing"
        /\ \A q \in Commands : pc'[q] = "analyzing" => pc[q] = "analyzing" /\ q # p
    BY <1>6 DEF AbandonAnalysis, Typed, CommandTypes
  <2>2. \A q \in Commands : pc'[q] # "analyzing"
    BY <2>1, AnalyzingIsAlone
  <2> QED  BY <2>1, <2>2, RunsUntouched
<1> QED  BY <1>2, <1>3, <1>4, <1>5, <1>6 DEF AnalyzeStep

LEMMA NextRuns ==
    ASSUME Refreshed, Next
    PROVE  RunsAreTrue'
<1>1. Typed /\ RunsAreTrue
  BY DEF Refreshed
<1>2. ASSUME NEW p \in Commands, AnalyzeStep(p) PROVE RunsAreTrue'
  BY <1>1, <1>2, AnalyzeRuns
<1>3. ASSUME \/ \E t \in Tracks : Edit(t)
             \/ \E source \in Sources : OtherScan(source)
             \/ \E p \in Refreshers : RefreshStep(p)
             \/ \E p \in Extractors : Metadata(p)
      PROVE  RunsAreTrue'
  <2>1. /\ runs' = runs /\ attempts' = attempts /\ lock' = lock /\ todo' = todo
    BY <1>3 DEF Edit, OtherScan, RefreshStep, ScanSucceeds, ScanFails, DecideAfterScan,
       StageExport, ExportRaises, Publish, Metadata, analysisVars
  <2>2. \A q \in Commands : pc'[q] = "analyzing" => pc[q] = "analyzing"
    <3>1. CASE \E p \in Extractors : Metadata(p)
      BY <1>1, <3>1, Members DEF Metadata, MetadataStep, CountPresent, VersionMissing,
         SelectEligible, ReadTags, BatchRaises, Store, Typed, CommandTypes
    <3>2. CASE \E p \in Refreshers : RefreshStep(p)
      BY <1>1, <3>2, Members DEF RefreshStep, ScanSucceeds, ScanFails, DecideAfterScan,
         StageExport, ExportRaises, Publish, Typed, CommandTypes
    <3>3. CASE (\E t \in Tracks : Edit(t)) \/ \E source \in Sources : OtherScan(source)
      BY <3>3 DEF Edit, OtherScan
    <3> QED  BY <1>3, <3>1, <3>2, <3>3
  <2> QED  BY <1>1, <2>1, <2>2, RunsUntouched
<1> QED  BY <1>2, <1>3 DEF Next

\* What is staged is one catalog: the rows are read together, and the run is
\* the last one, settled.
LEMMA NextExports ==
    ASSUME Refreshed, Next
    PROVE  ExportsAreOne'
<1>1. Typed /\ VersionsGrow /\ RunsAreTrue /\ ExportsAreOne
  BY DEF Refreshed
<1>2. IsOneCatalog(Nothing) /\ ValuesFollowFacts(Nothing)
  BY DEF IsOneCatalog, ValuesFollowFacts, Nothing, NoRun
<1>3. ASSUME NEW p \in Refreshers, StageExport(p) PROVE ExportsAreOne'
  <2> DEFINE new == [tracks |-> TrackRows, analysis |-> AnalysisRows, run |-> LastRun]
  <2>1. Len(runs) >= 1 /\ LastRun \in RunRow /\ LastRun.status # "running" /\ Len(runs) \in 1..Len(runs)
    <3>1. Len(runs) >= 1 /\ runs \in Seq(RunRow) /\ LastRun.status # "running"
      BY <1>1, <1>3 DEF StageExport, CanPublish, Typed, CatalogTypes, LastRun
    <3> QED  BY <3>1, LastRunTypes DEF LastRun
  <2>2. /\ LastRun.status # "none" /\ LastRun.status \in Status
        /\ LastRun.status = "succeeded" => LastRun.failures = {}
        /\ \A t \in LastRun.failures : ~attempts[t].ok
    BY <1>1, <2>1 DEF RunsAreTrue, LastRun, RunRow
  <2>3. \A row \in AnalysisRows : \E track \in TrackRows :
              track.track = row.track /\ track.facts = row.facts
    <3> SUFFICES ASSUME NEW t \in Present
                 PROVE  \E track \in TrackRows : track.track = t /\ track.facts = tracks[t].facts
      BY DEF AnalysisRows
    <3>1. [track |-> t, facts |-> tracks[t].facts, metadata |-> metadata[t]] \in TrackRows
      BY DEF TrackRows
    <3> QED  BY <3>1
  <2>4. \A row \in AnalysisRows : row.track \in LastRun.failures => ~row.attempt.ok
    BY <2>2 DEF AnalysisRows
  <2>5. new.tracks = TrackRows /\ new.analysis = AnalysisRows /\ new.run = LastRun
    OBVIOUS
  <2> HIDE DEF new
  <2>6. IsOneCatalog(new) /\ ValuesFollowFacts(new)
    <3>1. IsOneCatalog(new)
      BY <2>1, <2>2, <2>3, <2>4, <2>5 DEF IsOneCatalog, Status
    <3>2. \A row \in TrackRows :
              row.metadata.facts <= row.facts /\ row.metadata.facts <= row.metadata.read
      <4> SUFFICES ASSUME NEW t \in Tracks
                   PROVE  /\ metadata[t].facts <= tracks[t].facts
                          /\ metadata[t].facts <= metadata[t].read
        BY DEF TrackRows, Present
      <4>1. metadata[t].facts \in Nat /\ metadata[t].read \in Nat
        BY <1>1, Zero DEF Typed, CatalogTypes, Row, Versions
      <4> QED  BY <1>1, <4>1 DEF VersionsGrow, MetadataIsOfItsFacts
    <3>3. \A row \in AnalysisRows : row.attempt.facts <= row.facts
      BY <1>1 DEF AnalysisRows, VersionsGrow, Present
    <3> QED  BY <2>5, <3>1, <3>2, <3>3 DEF ValuesFollowFacts
  <2>7. /\ destination' = destination
        /\ \A q \in Refreshers : staged'[q] = staged[q] \/ staged'[q] = new
    BY <1>1, <1>3 DEF StageExport, publication, Typed, RefreshTypes, new, LastRun
  <2>8. \A export \in {destination'} \cup {staged'[q] : q \in Refreshers} :
            export = new \/ export \in {destination} \cup {staged[q] : q \in Refreshers}
    BY <2>7
  <2> QED  BY <1>1, <2>6, <2>8 DEF ExportsAreOne, IsOneCatalog, ValuesFollowFacts
<1>4. ASSUME NEW p \in Refreshers, ExportRaises(p) \/ Publish(p) PROVE ExportsAreOne'
  <2>1. /\ destination' = destination \/ destination' = staged[p]
        /\ \A q \in Refreshers : staged'[q] = staged[q] \/ staged'[q] = Nothing
    BY <1>1, <1>4 DEF ExportRaises, Publish, publication, Typed, RefreshTypes
  <2>2. \A export \in {destination'} \cup {staged'[q] : q \in Refreshers} :
            export = Nothing \/ export \in {destination} \cup {staged[q] : q \in Refreshers}
    BY <1>4, <2>1
  <2> QED  BY <1>1, <1>2, <2>2 DEF ExportsAreOne, IsOneCatalog, ValuesFollowFacts
<1>5. ASSUME destination' = destination, staged' = staged PROVE ExportsAreOne'
  BY <1>1, <1>5 DEF ExportsAreOne, IsOneCatalog, ValuesFollowFacts
<1>6. ASSUME NEW p \in Refreshers, \/ DecideAfterScan(p)
                                   \/ \E source \in Sources : ScanSucceeds(p, source) \/ ScanFails(p, source)
      PROVE  destination' = destination /\ staged' = staged
  BY <1>6 DEF DecideAfterScan, ScanSucceeds, ScanFails, publication
<1>7. ASSUME \/ \E t \in Tracks : Edit(t)
             \/ \E source \in Sources : OtherScan(source)
             \/ \E p \in Extractors : Metadata(p)
             \/ \E p \in Commands : AnalyzeStep(p)
      PROVE  destination' = destination /\ staged' = staged
  BY <1>7 DEF Edit, OtherScan, Metadata, AnalyzeStep, BeginAnalysis, AnalysisIsHeld,
     AnalyzeTrack, FinishAnalysis, AbandonAnalysis, refreshVars, publication
<1> QED  BY <1>3, <1>4, <1>5, <1>6, <1>7 DEF Next, RefreshStep

-----------------------------------------------------------------------------
(* What a step of somebody else is to a refresh.                           *)

\* It leaves the refresh where it is, and what it writes to the catalog the
\* refresh is told of, unless it has not started or has staged its export.
ByAnother(p) ==
    /\ pc'[p] = pc[p] /\ unscanned'[p] = unscanned[p] /\ failedScans'[p] = failedScans[p]
    /\ eligible'[p] = eligible[p] /\ counted'[p] = counted[p] /\ todo'[p] = todo[p]
    /\ snap'[p] = snap[p] /\ outcome'[p] = outcome[p] /\ staged'[p] = staged[p]
    /\ results'[p] = results[p] /\ scanned'[p] = scanned[p]
    /\ pc[p] = "analyzing" => runs' = runs
    /\ publisher' # p \/ (publisher' = publisher /\ destination' = destination)
    /\ alone'[p] => alone[p] /\ \/ pc[p] \in {"switch", "end"} \/ ~Started(p)
                                \/ tracks' = tracks /\ metadata' = metadata /\ attempts' = attempts

LEMMA DisturbIs ==
    ASSUME Typed, NEW q, Disturb(q), NEW p \in Refreshers, p # q, alone'[p]
    PROVE  alone[p] /\ (pc[p] \in {"switch", "end"} \/ ~Started(p))
  BY Zenon DEF Disturb

LEMMA AnothersScan ==
    ASSUME Typed, NEW p \in Refreshers, NEW source,
           \/ OtherScan(source)
           \/ \E q \in Refreshers \ {p} :
                 ScanSucceeds(q, source) \/ ScanFails(q, source) \/ DecideAfterScan(q)
    PROVE  ByAnother(p)
<1>1. p # Nobody
  BY Members
<1>2. alone'[p] => alone[p] /\ \/ pc[p] \in {"switch", "end"} \/ ~Started(p)
                               \/ tracks' = tracks /\ metadata' = metadata /\ attempts' = attempts
  <2>1. CASE OtherScan(source)
    BY <1>1, <2>1, DisturbIs DEF OtherScan
  <2>2. ASSUME NEW q \in Refreshers \ {p},
               ScanSucceeds(q, source) \/ ScanFails(q, source) \/ DecideAfterScan(q)
        PROVE  \/ Disturb(q)
               \/ alone' = alone /\ tracks' = tracks /\ metadata' = metadata /\ attempts' = attempts
    BY <2>2 DEF ScanSucceeds, ScanFails, DecideAfterScan, catalog, analysisVars
  <2>3. ASSUME NEW q \in Refreshers \ {p}, Disturb(q)
        PROVE  alone'[p] => alone[p] /\ (pc[p] \in {"switch", "end"} \/ ~Started(p))
    BY <2>3, DisturbIs
  <2>4. CASE ~OtherScan(source)
    <3>1. PICK q \in Refreshers \ {p} :
              ScanSucceeds(q, source) \/ ScanFails(q, source) \/ DecideAfterScan(q)
      BY <2>4
    <3>2. CASE Disturb(q)
      BY <2>3, <3>2
    <3>3. CASE ~Disturb(q)
      BY <2>2, <3>1, <3>3
    <3> QED  BY <3>2, <3>3
  <2> QED  BY <2>1, <2>4
<1>3. CASE OtherScan(source)
  BY <1>2, <1>3 DEF OtherScan, ByAnother, extraction, analysisVars, refreshVars, publication
<1>4. ASSUME NEW q \in Refreshers \ {p},
             ScanSucceeds(q, source) \/ ScanFails(q, source) \/ DecideAfterScan(q)
      PROVE  ByAnother(p)
  <2>1. /\ eligible' = eligible /\ counted' = counted /\ todo' = todo /\ snap' = snap
        /\ outcome' = outcome /\ staged' = staged /\ runs' = runs
        /\ publisher' = publisher /\ destination' = destination
    BY <1>4 DEF ScanSucceeds, ScanFails, DecideAfterScan, extraction, analysisVars, publication
  <2>2. /\ pc'[p] = pc[p] /\ unscanned'[p] = unscanned[p] /\ failedScans'[p] = failedScans[p]
        /\ results'[p] = results[p] /\ scanned'[p] = scanned[p]
    BY <1>4, Members DEF ScanSucceeds, ScanFails, DecideAfterScan, Report, Typed, CommandTypes,
       RefreshTypes
  <2> QED  BY <1>2, <2>1, <2>2 DEF ByAnother
<1> QED  BY <1>3, <1>4

LEMMA AnothersMetadata ==
    ASSUME Typed, NEW p \in Refreshers, NEW q \in Extractors \ {p}, Metadata(q)
    PROVE  ByAnother(p)
<1>1. /\ todo' = todo /\ snap' = snap /\ runs' = runs /\ attempts' = attempts
      /\ unscanned' = unscanned /\ failedScans' = failedScans /\ outcome' = outcome
      /\ staged' = staged /\ results' = results /\ scanned' = scanned
      /\ publisher' = publisher /\ destination' = destination
  BY DEF Metadata, analysisVars, refreshVars, publication
<1>2. MetadataStep(q) /\ p \in Commands /\ p \in Extractors /\ q \in Commands
  BY Members DEF Metadata
<1>3. pc'[p] = pc[p] /\ eligible'[p] = eligible[p] /\ counted'[p] = counted[p] /\ tracks' = tracks
  BY <1>2 DEF MetadataStep, CountPresent, VersionMissing, SelectEligible, ReadTags, BatchRaises,
     Store, Discard, Count, catalog, Typed, CommandTypes
<1>4. alone'[p] => alone[p] /\ \/ pc[p] \in {"switch", "end"} \/ ~Started(p)
                               \/ metadata' = metadata
  <2>1. CASE UNCHANGED <<metadata, events>>
    BY <2>1 DEF Metadata
  <2>2. CASE ~UNCHANGED <<metadata, events>>
    BY <2>2, DisturbIs DEF Metadata
  <2> QED  BY <2>1, <2>2
<1> QED  BY <1>1, <1>3, <1>4 DEF ByAnother

LEMMA AnothersAnalysis ==
    ASSUME Typed, RunsAreTrue, NEW p \in Refreshers, NEW q \in Commands \ {p}, AnalyzeStep(q)
    PROVE  ByAnother(p)
<1>1. /\ tracks' = tracks /\ metadata' = metadata /\ eligible' = eligible /\ counted' = counted
      /\ unscanned' = unscanned /\ failedScans' = failedScans /\ staged' = staged
      /\ results' = results /\ scanned' = scanned
      /\ publisher' = publisher /\ destination' = destination
  BY DEF AnalyzeStep, BeginAnalysis, AnalysisIsHeld, AnalyzeTrack, FinishAnalysis,
     AbandonAnalysis, catalog, extraction, refreshVars, publication
<1>2. /\ pc'[p] = pc[p] /\ todo'[p] = todo[p] /\ snap'[p] = snap[p] /\ outcome'[p] = outcome[p]
  BY Members DEF AnalyzeStep, BeginAnalysis, AnalysisIsHeld, AnalyzeTrack, FinishAnalysis,
     AbandonAnalysis, analysisVars, refreshVars, Typed, CommandTypes, RefreshTypes
<1>3. pc[p] = "analyzing" => runs' = runs
  <2>1. pc[p] = "analyzing" => lock = p /\ pc[q] # "analyzing" /\ p # Nobody
    BY Members DEF RunsAreTrue
  <2> QED
    BY <2>1 DEF AnalyzeStep, BeginAnalysis, AnalysisIsHeld, AnalyzeTrack, FinishAnalysis,
       AbandonAnalysis, analysisVars
<1>4. alone'[p] => alone[p] /\ \/ pc[p] \in {"switch", "end"} \/ ~Started(p)
                               \/ attempts' = attempts
  <2>1. CASE Disturb(q)
    BY <2>1, DisturbIs
  <2>2. CASE ~Disturb(q)
    <3>1. alone' = alone /\ attempts' = attempts
      BY <2>2 DEF AnalyzeStep, BeginAnalysis, AnalysisIsHeld, AnalyzeTrack, FinishAnalysis,
         AbandonAnalysis, analysisVars
    <3> QED  BY <3>1
  <2> QED  BY <2>1, <2>2
<1> QED  BY <1>1, <1>2, <1>3, <1>4 DEF ByAnother

LEMMA AnothersExport ==
    ASSUME Typed, NEW p \in Refreshers, NEW q \in Refreshers \ {p},
           StageExport(q) \/ ExportRaises(q) \/ Publish(q)
    PROVE  ByAnother(p)
<1>1. /\ tracks' = tracks /\ metadata' = metadata /\ attempts' = attempts /\ runs' = runs
      /\ eligible' = eligible /\ counted' = counted /\ todo' = todo /\ snap' = snap
      /\ unscanned' = unscanned /\ failedScans' = failedScans /\ outcome' = outcome
      /\ scanned' = scanned /\ alone' = alone
  BY DEF StageExport, ExportRaises, Publish, catalog, extraction, analysisVars
<1>2. pc'[p] = pc[p] /\ staged'[p] = staged[p] /\ results'[p] = results[p]
  BY Members DEF StageExport, ExportRaises, Publish, Report, Typed, CommandTypes, RefreshTypes
<1>3. publisher' # p \/ (publisher' = publisher /\ destination' = destination)
  BY DEF StageExport, ExportRaises, Publish, publication
<1> QED  BY <1>1, <1>2, <1>3 DEF ByAnother

\* Every step is one of p's own or somebody else's.
LEMMA OwnOrAnothers ==
    ASSUME Refreshed, Next, NEW p \in Refreshers
    PROVE  \/ ByAnother(p)
           \/ RefreshStep(p) \/ Metadata(p) \/ AnalyzeStep(p)
<1>1. Typed /\ RunsAreTrue
  BY DEF Refreshed
<1>2. ASSUME NEW t \in Tracks, Edit(t) PROVE ByAnother(p)
  BY <1>2 DEF Edit, ByAnother, catalog, extraction, analysisVars, refreshVars, publication
<1>3. ASSUME NEW source \in Sources, OtherScan(source) PROVE ByAnother(p)
  BY <1>1, <1>3, AnothersScan
<1>4. ASSUME NEW q \in Refreshers \ {p}, RefreshStep(q) PROVE ByAnother(p)
  <2>1. CASE StageExport(q) \/ ExportRaises(q) \/ Publish(q)
    BY <1>1, <2>1, AnothersExport
  <2>2. CASE DecideAfterScan(q)
    BY <1>1, <2>2, AnothersScan
  <2>3. ASSUME NEW source \in Sources, ScanSucceeds(q, source) \/ ScanFails(q, source)
        PROVE  ByAnother(p)
    BY <1>1, <2>3, AnothersScan
  <2> QED  BY <1>4, <2>1, <2>2, <2>3 DEF RefreshStep
<1>5. ASSUME NEW q \in Extractors \ {p}, Metadata(q) PROVE ByAnother(p)
  BY <1>1, <1>5, AnothersMetadata
<1>6. ASSUME NEW q \in Commands \ {p}, AnalyzeStep(q) PROVE ByAnother(p)
  BY <1>1, <1>6, AnothersAnalysis
<1> QED  BY <1>2, <1>3, <1>4, <1>5, <1>6 DEF Next

LEMMA AnotherKeeps ==
    ASSUME Typed, NEW p \in Refreshers, Advanced(p), Undisturbed(p), ByAnother(p)
    PROVE  Advanced(p)' /\ Undisturbed(p)'
<1>1. Advanced(p)'
  BY DEF ByAnother, Advanced, Blocked
<1>2. ASSUME alone'[p] PROVE Undisturbed(p)'
  <2>1. /\ alone[p] /\ Scanned(p) /\ Selected(p) /\ Described(p) /\ Analyzing(p) /\ Analyzed(p)
        /\ Staged(p) /\ Published(p)
    BY <1>2 DEF ByAnother, Undisturbed
  <2>2. Staged(p)'
    BY <2>1 DEF ByAnother, Staged, StatusOf, SaysWhatWasScanned
  <2>3. Published(p)'
    BY <2>1 DEF ByAnother, Published, SaysWhatWasScanned
  <2>4. CASE pc[p] \in {"switch", "end"}
    <3>1. pc'[p] \in {"switch", "end"}
      BY <2>4 DEF ByAnother
    <3>2. Scanned(p)' /\ Selected(p)' /\ Described(p)' /\ Analyzing(p)' /\ Analyzed(p)'
      BY <3>1 DEF Scanned, Selected, Described, Analyzing, Analyzed
    <3> QED  BY <2>2, <2>3, <3>2 DEF Undisturbed
  <2>5. CASE ~Started(p)
    <3>1. pc'[p] = "scan" /\ unscanned'[p] = Sources
      BY <2>5 DEF ByAnother, Started
    <3>2. \A t \in Tracks : SourceOf[t] \in unscanned'[p]
      BY <3>1, RefreshAssumption
    <3>3. Scanned(p)' /\ Selected(p)' /\ Described(p)' /\ Analyzing(p)' /\ Analyzed(p)'
      BY <3>1, <3>2 DEF Scanned, Selected, Described, Analyzing, Analyzed
    <3> QED  BY <2>2, <2>3, <3>3 DEF Undisturbed
  <2>6. CASE tracks' = tracks /\ metadata' = metadata /\ attempts' = attempts
    <3>1. Scanned(p)'
      BY <2>1, <2>6 DEF ByAnother, Scanned, IsPresent
    <3>2. Selected(p)' /\ Described(p)'
      BY <2>1, <2>6 DEF ByAnother, Selected, Described, Present, IsPresent
    <3>3. Analyzing(p)' /\ Analyzed(p)'
      BY <2>1, <2>6 DEF ByAnother, Analyzing, Analyzed, Present, IsPresent, ToAnalyze,
                        IsAnalyzed, LastRun
    <3> QED  BY <2>2, <2>3, <3>1, <3>2, <3>3 DEF Undisturbed
  <2> QED  BY <1>2, <2>4, <2>5, <2>6 DEF ByAnother
<1> QED  BY <1>1, <1>2 DEF Undisturbed

-----------------------------------------------------------------------------
(* A refresh's own steps.                                                  *)

\* Before its end a refresh has published nothing.
LEMMA NotYetPublished ==
    ASSUME NEW p \in Refreshers, Advanced(p), pc[p] # "end"
    PROVE  ~results[p].published /\ publisher # p
  BY DEF Advanced

\* A command that writes does not disturb itself.
LEMMA OwnAlone ==
    ASSUME Typed, NEW p \in Refreshers, Disturb(p) \/ alone' = alone
    PROVE  alone'[p] => alone[p]
<1>1. CASE Disturb(p)
  BY <1>1, Zenon DEF Disturb
<1>2. CASE alone' = alone
  BY <1>2
<1> QED  BY <1>1, <1>2

\* A refresh that ends without publishing promises nothing more.
LEMMA EndingIsFree ==
    ASSUME NEW p \in Refreshers, Advanced(p), pc[p] # "end", pc'[p] = "end",
           unscanned'[p] = {}, publisher' = publisher,
           results'[p] = results[p] \/ results'[p].published = FALSE
    PROVE  Advanced(p)' /\ Undisturbed(p)'
<1>1. ~results'[p].published /\ publisher' # p
  BY NotYetPublished
<1>2. Advanced(p)'
  BY <1>1 DEF Advanced
<1>3. Undisturbed(p)'
  BY <1>1 DEF Undisturbed, Scanned, Selected, Described, Analyzing, Analyzed, Staged, Published
<1> QED  BY <1>2, <1>3

LEMMA OwnScan ==
    ASSUME Typed, NEW p \in Refreshers, Advanced(p), Undisturbed(p),
           \/ DecideAfterScan(p)
           \/ \E source \in Sources : ScanSucceeds(p, source) \/ ScanFails(p, source)
    PROVE  Advanced(p)' /\ Undisturbed(p)'
<1>1. pc[p] = "scan" /\ ~results[p].published /\ publisher # p /\ p \in Commands
  BY NotYetPublished, Members DEF DecideAfterScan, ScanSucceeds, ScanFails
<1>2. publisher' = publisher
  BY DEF DecideAfterScan, ScanSucceeds, ScanFails, publication
<1>3. alone'[p] => alone[p]
  <2>1. Disturb(p) \/ alone' = alone
    BY DEF DecideAfterScan, ScanSucceeds, ScanFails
  <2> QED  BY <2>1, OwnAlone
<1>4. CASE DecideAfterScan(p)
  <2>1. CASE Blocked(p)
    <3>1. /\ pc'[p] = "end" /\ unscanned' = unscanned /\ unscanned[p] = {}
          /\ results'[p] = [status |-> "failed", published |-> FALSE]
      BY <1>1, <1>4, <2>1 DEF DecideAfterScan, Report, Typed, CommandTypes, RefreshTypes
    <3>2. unscanned'[p] = {} /\ results'[p].published = FALSE /\ pc[p] # "end"
      BY <1>1, <3>1
    <3> QED  BY <1>2, <3>1, <3>2, EndingIsFree
  <2>2. CASE ~Blocked(p)
    <3>1. /\ pc'[p] = "count" /\ unscanned' = unscanned /\ unscanned[p] = {}
          /\ results' = results /\ failedScans' = failedScans /\ scanned' = scanned
          /\ tracks' = tracks
      BY <1>1, <1>4, <2>2 DEF DecideAfterScan, catalog, Typed, CommandTypes
    <3>2. Advanced(p)'
      BY <1>1, <1>2, <2>2, <3>1 DEF Advanced, Blocked
    <3>3. Undisturbed(p)'
      BY <1>1, <1>2, <1>3, <3>1 DEF Undisturbed, Scanned, Selected, Described, Analyzing,
         Analyzed, Staged, Published, IsPresent
    <3> QED  BY <3>2, <3>3
  <2> QED  BY <2>1, <2>2
<1>5. ASSUME pc'[p] = "scan", results' = results, Undisturbed(p), alone'[p] => Scanned(p)'
      PROVE  Advanced(p)' /\ Undisturbed(p)'
  <2>1. Advanced(p)'
    BY <1>1, <1>2, <1>5 DEF Advanced
  <2>2. Undisturbed(p)'
    BY <1>1, <1>2, <1>5 DEF Undisturbed, Selected, Described, Analyzing, Analyzed, Staged, Published
  <2> QED  BY <2>1, <2>2
<1>6. ASSUME NEW source \in Sources, ScanSucceeds(p, source)
      PROVE  Advanced(p)' /\ Undisturbed(p)'
  <2>1. /\ pc' = pc /\ results' = results /\ failedScans' = failedScans
        /\ unscanned'[p] = unscanned[p] \ {source} /\ tracks' = Reconciled(source)
        /\ scanned'[p] = [t \in Tracks |-> IF t \in TracksOf(source) THEN files[t]
                                           ELSE scanned[p][t]]
    BY <1>6 DEF ScanSucceeds, Typed, RefreshTypes
  <2>2. ASSUME alone'[p], NEW t \in Tracks, SourceOf[t] \notin unscanned'[p] \cup failedScans'[p]
        PROVE  /\ tracks'[t].present <=> scanned'[p][t] # 0
               /\ tracks'[t].present => tracks'[t].facts = scanned'[p][t]
    <3>1. CASE t \in TracksOf(source) /\ files[t] # 0
      <4>1. tracks'[t] = [facts |-> files[t], present |-> TRUE] /\ scanned'[p][t] = files[t]
        BY <2>1, <3>1 DEF Reconciled, Observed
      <4> QED  BY <3>1, <4>1
    <3>2. CASE t \in TracksOf(source) /\ files[t] = 0
      <4>1. tracks'[t] = [tracks[t] EXCEPT !.present = FALSE] /\ scanned'[p][t] = 0
        BY <2>1, <3>2 DEF Reconciled
      <4>2. tracks[t] \in [facts : Versions, present : BOOLEAN]
        BY DEF Typed, CatalogTypes
      <4>3. tracks'[t].present = FALSE
        BY <4>1, <4>2
      <4> QED  BY <4>1, <4>3
    <3>3. CASE t \notin TracksOf(source)
      <4>1. tracks'[t] = tracks[t] /\ scanned'[p][t] = scanned[p][t]
        BY <2>1, <3>3 DEF Reconciled, Observed
      <4>2. SourceOf[t] \notin unscanned[p] \cup failedScans[p]
        BY <2>1, <2>2, <3>3 DEF TracksOf
      <4>3. Scanned(p)
        BY <1>3, <2>2 DEF Undisturbed
      <4> QED  BY <1>1, <4>1, <4>2, <4>3 DEF Scanned, IsPresent
    <3> QED  BY <3>1, <3>2, <3>3
  <2>3. alone'[p] => Scanned(p)'
    BY <2>2 DEF Scanned, IsPresent
  <2> QED  BY <1>1, <1>5, <2>1, <2>3
<1>7. ASSUME NEW source \in Sources, ScanFails(p, source)
      PROVE  Advanced(p)' /\ Undisturbed(p)'
  <2>1. /\ pc' = pc /\ results' = results /\ scanned' = scanned
        /\ unscanned'[p] = unscanned[p] \ {source}
        /\ failedScans'[p] = failedScans[p] \cup {source}
        /\ tracks' = tracks \/ tracks' = Observed(source)
    BY <1>7 DEF ScanFails, Typed, RefreshTypes
  <2>2. \A t \in Tracks : SourceOf[t] # source => tracks'[t] = tracks[t]
    BY <2>1 DEF Observed, TracksOf
  <2>3. alone'[p] => Scanned(p)'
    BY <1>3, <2>1, <2>2 DEF Undisturbed, Scanned, IsPresent
  <2> QED  BY <1>1, <1>5, <2>1, <2>3
<1> QED  BY <1>4, <1>6, <1>7

LEMMA OwnMetadata ==
    ASSUME Typed, VersionsGrow, NEW p \in Refreshers, Advanced(p), Undisturbed(p), Metadata(p)
    PROVE  Advanced(p)' /\ Undisturbed(p)'
<1>1. MetadataStep(p) /\ p \in Commands /\ p \in Extractors
  BY Members DEF Metadata
<1>2. pc[p] \in {"count", "version", "extract"} /\ pc'[p] \in {"version", "extract", "extracted"}
  BY <1>1 DEF MetadataStep, CountPresent, VersionMissing, SelectEligible, ReadTags, BatchRaises,
     Store, Typed, CommandTypes
<1>3. ~results[p].published /\ publisher # p
  BY <1>2, NotYetPublished
<1>4. /\ unscanned' = unscanned /\ failedScans' = failedScans /\ results' = results
      /\ scanned' = scanned /\ publisher' = publisher
  BY DEF Metadata, refreshVars, publication
<1>5. tracks' = tracks
  BY <1>1 DEF MetadataStep, CountPresent, VersionMissing, SelectEligible, ReadTags, BatchRaises,
     Store, catalog
<1>6. Advanced(p)'
  BY <1>2, <1>3, <1>4 DEF Advanced, Blocked
<1>7. alone'[p] => alone[p]
  <2>1. Disturb(p) \/ alone' = alone
    BY DEF Metadata
  <2> QED  BY <2>1, OwnAlone
<1>8. alone[p] => Scanned(p)'
  BY <1>2, <1>4, <1>5 DEF Undisturbed, Scanned, IsPresent
<1>9. Present' = Present
  BY <1>5 DEF Present, IsPresent
<1>10. ASSUME alone[p] PROVE Selected(p)' /\ Described(p)'
  <2>1. Selected(p) /\ \A t \in Present : t \in Tracks /\ tracks[t].facts # 0
    BY <1>10 DEF Undisturbed, VersionsGrow, Present
  <2>2. CASE CountPresent(p)
    <3>1. pc'[p] = "version"
      BY <1>1, <2>2 DEF CountPresent, Typed, CommandTypes
    <3> QED  BY <3>1 DEF Selected, Described
  <2>3. CASE VersionMissing(p)
    <3>1. pc'[p] = "extracted" /\ counted'[p] = [NotRun EXCEPT !.failed = Cardinality(Present)]
      BY <1>1, <2>3 DEF VersionMissing, Typed, CommandTypes
    <3>2. counted'[p].failed = Cardinality(Present)
      BY <3>1 DEF NotRun
    <3>3. counted'[p].failed = 0 => Present = {}
      BY <3>2, Sizes, RowsAreTyped
    <3> QED  BY <1>9, <3>1, <3>3 DEF Selected, Described
  <2>4. CASE SelectEligible(p)
    <3>1. PICK force \in BOOLEAN :
             LET chosen == {t \in Present : force \/ Outdated(t)}
             IN  /\ eligible' = [eligible EXCEPT ![p] =
                                    [t \in Tracks |-> IF t \in chosen THEN tracks[t].facts ELSE 0]]
                 /\ pc' = [pc EXCEPT ![p] = IF chosen = {} THEN "extracted" ELSE "extract"]
      BY <2>4 DEF SelectEligible
    <3> DEFINE chosen == {t \in Present : force \/ Outdated(t)}
    <3>2. metadata' = metadata
      BY <2>4 DEF SelectEligible, catalog
    <3>3. \A t \in Tracks : eligible'[p][t] = IF t \in chosen THEN tracks[t].facts ELSE 0
      BY <1>1, <3>1 DEF Typed, CommandTypes
    <3>4. \A t \in Present : t \notin chosen => metadata[t].facts = tracks[t].facts
      BY DEF Outdated
    <3>5. pc'[p] = "extracted" => chosen = {}
      BY <1>1, <3>1 DEF Typed, CommandTypes
    <3> HIDE DEF chosen
    <3>6. Selected(p)'
      BY <1>5, <1>9, <2>1, <3>2, <3>3, <3>4 DEF Selected
    <3>7. Described(p)'
      BY <1>2, <1>5, <1>9, <3>2, <3>4, <3>5 DEF Described
    <3> QED  BY <3>6, <3>7
  <2>5. CASE BatchRaises(p) \/ \E t \in Tracks : ReadTags(p, t)
    <3>1. pc' = pc /\ pc[p] = "extract" /\ eligible' = eligible /\ metadata' = metadata
      BY <2>5 DEF BatchRaises, ReadTags, catalog
    <3> QED  BY <1>5, <1>9, <2>1, <3>1 DEF Selected, Described
  <2>6. CASE Store(p)
    <3> DEFINE extracted == {t \in Eligible(p) : tags[p][t] # 0}
    <3>1. pc[p] = "extract" /\ pc'[p] = "extracted"
      BY <1>1, <2>6 DEF Store, Typed, CommandTypes
    <3>2. counted'[p].failed = Cardinality(Eligible(p) \ extracted)
      <4>1. counted' = [counted EXCEPT ![p].extracted = Cardinality(extracted),
                                       ![p].failed = Cardinality(Eligible(p) \ extracted)]
        BY <2>6 DEF Store, Count
      <4>2. counted[p] \in Result /\ counted \in [Extractors -> Result]
        BY <1>1 DEF Typed, CommandTypes
      <4> HIDE DEF extracted
      <4>3. counted'[p] = [counted[p] EXCEPT !.extracted = Cardinality(extracted),
                                             !.failed = Cardinality(Eligible(p) \ extracted)]
        BY <1>1, <4>1, <4>2
      <4> QED  BY <4>2, <4>3 DEF Result
    <3>3. counted'[p].failed = 0 => Eligible(p) \subseteq extracted
      <4>1. Eligible(p) \ extracted \subseteq Tracks
        BY DEF Eligible
      <4> HIDE DEF extracted
      <4>2. Cardinality(Eligible(p) \ extracted) = 0 => Eligible(p) \ extracted = {}
        BY <4>1, Sizes
      <4> QED  BY <3>2, <4>2
    <3>4. \A t \in Tracks :
              metadata'[t] = IF t \in extracted
                             THEN [facts |-> eligible[p][t], read |-> tags[p][t]]
                             ELSE metadata[t]
      BY <2>6 DEF Store, MetadataRow
    <3>5. ASSUME counted'[p].failed = 0, NEW t \in Present
          PROVE  metadata'[t].facts = tracks[t].facts
      <4>1. t \in Tracks /\ tracks[t].facts # 0
        BY <2>1
      <4>2. \/ eligible[p][t] = tracks[t].facts
            \/ eligible[p][t] = 0 /\ metadata[t].facts = tracks[t].facts
        BY <2>1, <3>1 DEF Selected
      <4>3. CASE eligible[p][t] = tracks[t].facts
        <5>1. t \in extracted
          BY <3>3, <3>5, <4>1, <4>3 DEF Eligible
        <5>2. metadata'[t] = [facts |-> eligible[p][t], read |-> tags[p][t]]
          BY <3>4, <4>1, <5>1
        <5> QED  BY <4>3, <5>2
      <4>4. CASE eligible[p][t] = 0 /\ metadata[t].facts = tracks[t].facts
        <5>1. t \notin extracted
          BY <4>4 DEF Eligible
        <5> QED  BY <3>4, <4>1, <4>4, <5>1
      <4> QED  BY <4>2, <4>3, <4>4
    <3>6. Selected(p)' /\ Described(p)'
      BY <1>5, <1>9, <3>1, <3>5 DEF Selected, Described
    <3> QED  BY <3>6
  <2> QED  BY <1>1, <2>2, <2>3, <2>4, <2>5, <2>6 DEF MetadataStep
<1>11. Analyzing(p)' /\ Analyzed(p)' /\ Staged(p)' /\ Published(p)'
  BY <1>2, <1>3, <1>4 DEF Analyzing, Analyzed, Staged, Published
<1> QED  BY <1>6, <1>7, <1>8, <1>10, <1>11 DEF Undisturbed

LEMMA OwnAnalysis ==
    ASSUME Typed, RunsAreTrue, NEW p \in Refreshers, Advanced(p), Undisturbed(p), AnalyzeStep(p)
    PROVE  Advanced(p)' /\ Undisturbed(p)'
<1>1. p \in Commands /\ p \in Refreshers
  BY Members
<1>2. pc[p] \in {"extracted", "analyzing"}
  BY <1>1 DEF AnalyzeStep, BeginAnalysis, AnalysisIsHeld, AnalyzeTrack, FinishAnalysis,
     AbandonAnalysis, CanAnalyze
<1>3. ~results[p].published /\ publisher # p /\ unscanned[p] = {} /\ ~Blocked(p)
  BY <1>2, NotYetPublished DEF Advanced
<1>4. /\ unscanned' = unscanned /\ failedScans' = failedScans /\ results' = results
      /\ scanned' = scanned /\ publisher' = publisher
      /\ tracks' = tracks /\ metadata' = metadata /\ counted' = counted
  BY DEF AnalyzeStep, BeginAnalysis, AnalysisIsHeld, AnalyzeTrack, FinishAnalysis,
     AbandonAnalysis, refreshVars, publication, catalog, extraction
<1>5. alone'[p] => alone[p]
  <2>1. Disturb(p) \/ alone' = alone
    BY DEF AnalyzeStep, BeginAnalysis, AnalysisIsHeld, AnalyzeTrack, FinishAnalysis,
       AbandonAnalysis
  <2> QED  BY <2>1, OwnAlone
<1>6. CASE AnalysisIsHeld(p) \/ AbandonAnalysis(p)
  <2>1. pc'[p] = "end"
    BY <1>1, <1>6 DEF AnalysisIsHeld, AbandonAnalysis, Typed, CommandTypes
  <2> QED  BY <1>2, <1>3, <1>4, <2>1, EndingIsFree
<1>7. ASSUME pc'[p] \in {"analyzing", "export"}, pc'[p] = "export" => outcome'[p] \in Settled,
             alone[p] => Analyzing(p)' /\ Analyzed(p)'
      PROVE  Advanced(p)' /\ Undisturbed(p)'
  <2>1. Advanced(p)'
    BY <1>3, <1>4, <1>7 DEF Advanced, Blocked, Settled
  <2>2. alone[p] => Scanned(p)' /\ Selected(p)'
    BY <1>2, <1>4, <1>7 DEF Undisturbed, Scanned, Selected, IsPresent
  <2>3. alone[p] => Described(p)'
    BY <1>2, <1>4, <1>7 DEF Undisturbed, Described, Present, IsPresent
  <2>4. Staged(p)' /\ Published(p)'
    BY <1>3, <1>4, <1>7 DEF Staged, Published
  <2> QED  BY <1>5, <1>7, <2>1, <2>2, <2>3, <2>4 DEF Undisturbed
<1>8. ToAnalyze' = ToAnalyze /\ ToAnalyze \subseteq Tracks /\ (alone[p] => Analyzing(p))
  BY <1>4 DEF ToAnalyze, Present, IsPresent, Undisturbed
<1>9. /\ runs \in Seq(RunRow) /\ attempts \in [Tracks -> Attempt] /\ todo[p] \subseteq Tracks
  BY <1>1 DEF Typed, CatalogTypes, CommandTypes
<1>10. CASE BeginAnalysis(p)
  <2>1. /\ pc'[p] = "analyzing" /\ attempts' = attempts
        /\ todo'[p] = {t \in Present : SourceOf[t] \in Analyzable /\ ~IsAnalyzed(t)}
        /\ snap'[p] = [t \in Tracks |-> tracks[t].facts]
    BY <1>1, <1>10 DEF BeginAnalysis, Typed, CommandTypes
  <2>2. ASSUME NEW t \in ToAnalyze' PROVE t \in todo'[p] \/ IsAnalyzed(t)'
    <3>1. t \in Present /\ SourceOf[t] \in Analyzable
      BY <1>8 DEF ToAnalyze
    <3>2. IsAnalyzed(t)' <=> IsAnalyzed(t)
      BY <1>4, <2>1 DEF IsAnalyzed
    <3> QED  BY <2>1, <3>1, <3>2
  <2>3. \A t \in todo'[p] : snap'[p][t] = tracks'[t].facts
    BY <1>4, <2>1 DEF Present
  <2>4. Analyzing(p)' /\ Analyzed(p)'
    BY <2>1, <2>2, <2>3 DEF Analyzing, Analyzed
  <2> QED  BY <1>7, <2>1, <2>4
<1>11. ASSUME NEW t \in Tracks, AnalyzeTrack(p, t) PROVE Advanced(p)' /\ Undisturbed(p)'
  <2>1. /\ pc[p] = "analyzing" /\ pc' = pc /\ snap' = snap /\ t \in todo[p]
        /\ Len(runs) >= 1 /\ todo'[p] = todo[p] \ {t}
    BY <1>1, <1>11 DEF AnalyzeTrack, RunsAreTrue, Typed, CommandTypes
  <2>2. PICK ok \in BOOLEAN :
          /\ attempts' = [attempts EXCEPT ![t] = [facts |-> snap[p][t], ok |-> ok]]
          /\ runs' = IF ok THEN [runs EXCEPT ![Len(runs)].analyzed = @ + 1]
                     ELSE [runs EXCEPT ![Len(runs)].failures = @ \cup {t}]
    BY <1>11 DEF AnalyzeTrack
  <2>3. LastRun \in RunRow /\ Len(runs) \in 1..Len(runs)
    BY <1>9, <2>1, LastRunTypes DEF LastRun
  <2>4. LastRun'.failures = IF ok THEN LastRun.failures ELSE LastRun.failures \cup {t}
    <3>1. CASE ok
      <4>1. runs' = [runs EXCEPT ![Len(runs)] = [LastRun EXCEPT !.analyzed = LastRun.analyzed + 1]]
        BY <1>9, <2>2, <2>3, <3>1 DEF LastRun
      <4>2. LastRun' = [LastRun EXCEPT !.analyzed = LastRun.analyzed + 1]
        BY <1>9, <2>3, <4>1 DEF LastRun
      <4> QED  BY <2>3, <3>1, <4>2 DEF RunRow
    <3>2. CASE ~ok
      <4>1. runs' = [runs EXCEPT ![Len(runs)] =
                        [LastRun EXCEPT !.failures = LastRun.failures \cup {t}]]
        BY <1>9, <2>2, <2>3, <3>2 DEF LastRun
      <4>2. runs'[Len(runs)] = [LastRun EXCEPT !.failures = LastRun.failures \cup {t}]
        BY <1>9, <2>3, <4>1
      <4>3. runs'[Len(runs)].failures = LastRun.failures \cup {t} /\ Len(runs') = Len(runs)
        BY <1>9, <2>3, <4>1, <4>2 DEF RunRow
      <4> QED  BY <3>2, <4>3 DEF LastRun
    <3> QED  BY <3>1, <3>2
  <2>5. \A u \in Tracks : attempts'[u] = IF u = t THEN [facts |-> snap[p][t], ok |-> ok]
                                         ELSE attempts[u]
    BY <1>9, <2>2
  <2>6. ASSUME alone[p] PROVE Analyzing(p)'
    <3>1. /\ \A u \in ToAnalyze : u \in todo[p] \/ IsAnalyzed(u) \/ u \in LastRun.failures
          /\ \A u \in todo[p] : snap[p][u] = tracks[u].facts
      BY <1>8, <2>1, <2>6 DEF Analyzing
    <3>2. ASSUME NEW u \in ToAnalyze
          PROVE  u \in todo'[p] \/ IsAnalyzed(u)' \/ u \in LastRun'.failures
      <4>0. u \in Tracks
        BY <1>8
      <4>1. CASE u = t /\ ok
        <5>1. attempts'[u].ok /\ attempts'[u].facts = tracks[u].facts
          BY <2>1, <2>5, <3>1, <4>1
        <5> QED  BY <1>4, <5>1 DEF IsAnalyzed
      <4>2. CASE u = t /\ ~ok
        BY <2>4, <4>2
      <4>3. CASE u # t
        <5>1. attempts'[u] = attempts[u]
          BY <2>5, <4>0, <4>3
        <5> QED  BY <1>4, <2>1, <2>4, <3>1, <4>3, <5>1 DEF IsAnalyzed
      <4> QED  BY <4>1, <4>2, <4>3
    <3>3. \A u \in todo'[p] : snap'[p][u] = tracks'[u].facts
      BY <1>4, <2>1, <3>1
    <3> QED  BY <1>8, <3>2, <3>3 DEF Analyzing
  <2>7. Analyzed(p)'
    BY <2>1 DEF Analyzed
  <2> QED  BY <1>7, <2>1, <2>6, <2>7
<1>12. CASE FinishAnalysis(p)
  <2>1. /\ pc[p] = "analyzing" /\ pc'[p] = "export" /\ todo[p] = {} /\ attempts' = attempts
        /\ Len(runs) >= 1 /\ outcome'[p] = Ended(LastRun).status
    BY <1>1, <1>12 DEF FinishAnalysis, RunsAreTrue, LastRun, Typed, CommandTypes, RefreshTypes
  <2>2. LastRun \in RunRow
    BY <1>9, <2>1, LastRunTypes DEF LastRun
  <2>3. outcome'[p] \in Settled /\ (outcome'[p] = "succeeded" => LastRun.failures = {})
    BY <2>1, <2>2, EndedIs
  <2>4. ASSUME alone[p] PROVE Analyzed(p)'
    <3>1. \A u \in ToAnalyze : IsAnalyzed(u) \/ u \in LastRun.failures
      BY <1>8, <2>1, <2>4 DEF Analyzing
    <3>2. outcome'[p] = "succeeded" => \A u \in ToAnalyze' : IsAnalyzed(u)'
      BY <1>4, <1>8, <2>1, <2>3, <3>1 DEF IsAnalyzed
    <3> QED  BY <3>2 DEF Analyzed
  <2>5. Analyzing(p)'
    BY <2>1 DEF Analyzing
  <2> QED  BY <1>7, <2>1, <2>3, <2>4, <2>5
<1> QED  BY <1>6, <1>10, <1>11, <1>12 DEF AnalyzeStep

\* What is staged when every stage succeeded says what was scanned.
LEMMA StagedSays ==
    ASSUME Typed, NEW p \in Refreshers, Advanced(p), Undisturbed(p), alone[p],
           pc[p] = "export", StatusOf(p) = "succeeded",
           NEW export, export.tracks = TrackRows, export.analysis = AnalysisRows
    PROVE  SaysWhatWasScanned(p, export)
<1>1. outcome[p] \in Settled /\ unscanned[p] = {}
  BY DEF Advanced, Settled
<1>2. failedScans[p] = {} /\ outcome[p] = "succeeded" /\ counted[p].failed = 0
  BY <1>1, StatusIs
<1>3. \A t \in Tracks : /\ IsPresent(t) <=> scanned[p][t] # 0
                        /\ IsPresent(t) => tracks[t].facts = scanned[p][t]
  BY <1>1, <1>2 DEF Undisturbed, Scanned
<1>4. \A t \in Present : metadata[t].facts = tracks[t].facts
  BY <1>2 DEF Undisturbed, Described
<1>5. \A t \in ToAnalyze : IsAnalyzed(t)
  BY <1>2 DEF Undisturbed, Analyzed
<1>6. Present = {t \in Tracks : scanned[p][t] # 0}
  BY <1>3 DEF Present
<1>7. {row.track : row \in TrackRows} = Present
  <2>1. \A row \in TrackRows : row.track \in Present
    BY DEF TrackRows
  <2>2. ASSUME NEW t \in Present PROVE \E row \in TrackRows : row.track = t
    <3>1. [track |-> t, facts |-> tracks[t].facts, metadata |-> metadata[t]] \in TrackRows
      BY DEF TrackRows
    <3> QED  BY <3>1
  <2> QED  BY <2>1, <2>2
<1>8. ASSUME NEW row \in TrackRows
      PROVE  /\ row.facts = scanned[p][row.track]
             /\ row.metadata.facts = row.facts
             /\ SourceOf[row.track] \in Analyzable =>
                   \E analysis \in AnalysisRows :
                       /\ analysis.track = row.track
                       /\ analysis.attempt = [facts |-> row.facts, ok |-> TRUE]
  <2>1. PICK t \in Present :
            row = [track |-> t, facts |-> tracks[t].facts, metadata |-> metadata[t]]
    BY DEF TrackRows
  <2>2. row.track = t /\ row.facts = tracks[t].facts /\ row.metadata = metadata[t]
    BY <2>1
  <2>3. t \in Tracks /\ IsPresent(t)
    BY DEF Present
  <2>4. ASSUME SourceOf[t] \in Analyzable
        PROVE  \E analysis \in AnalysisRows :
                   /\ analysis.track = t
                   /\ analysis.attempt = [facts |-> tracks[t].facts, ok |-> TRUE]
    <3>1. attempts[t].ok /\ attempts[t].facts = tracks[t].facts
      BY <1>5, <2>4 DEF ToAnalyze, IsAnalyzed
    <3>2. attempts[t] \in Attempt
      BY <2>3 DEF Typed, CatalogTypes
    <3>3. attempts[t] = [facts |-> tracks[t].facts, ok |-> TRUE]
      BY <3>1, <3>2 DEF Attempt
    <3>4. attempts[t] # NoAttempt
      BY <3>3 DEF NoAttempt
    <3>5. [track |-> t, facts |-> tracks[t].facts, attempt |-> attempts[t]] \in AnalysisRows
      BY <3>4 DEF AnalysisRows
    <3> QED  BY <3>3, <3>5
  <2> QED  BY <1>3, <1>4, <2>2, <2>3, <2>4
<1> QED  BY <1>6, <1>7, <1>8 DEF SaysWhatWasScanned

LEMMA OwnExport ==
    ASSUME Typed, NEW p \in Refreshers, Advanced(p), Undisturbed(p),
           StageExport(p) \/ ExportRaises(p) \/ Publish(p)
    PROVE  Advanced(p)' /\ Undisturbed(p)'
<1>1. p \in Commands /\ pc[p] \in {"export", "switch"}
  BY Members DEF StageExport, ExportRaises, Publish
<1>2. /\ ~results[p].published /\ publisher # p /\ unscanned[p] = {} /\ ~Blocked(p)
      /\ outcome[p] \in Settled
  BY <1>1, NotYetPublished DEF Advanced, Settled
<1>3. /\ unscanned' = unscanned /\ failedScans' = failedScans /\ outcome' = outcome
      /\ counted' = counted /\ scanned' = scanned /\ alone' = alone /\ tracks' = tracks
  BY DEF StageExport, ExportRaises, Publish, catalog, extraction
<1>4. CASE StageExport(p)
  <2> DEFINE new == [tracks |-> TrackRows, analysis |-> AnalysisRows, run |-> LastRun]
  <2>1. /\ pc[p] = "export" /\ pc'[p] = "switch" /\ staged'[p] = new
        /\ results' = results /\ publisher' = publisher
    BY <1>1, <1>4 DEF StageExport, publication, LastRun, Typed, CommandTypes, RefreshTypes
  <2>2. Advanced(p)'
    BY <1>2, <1>3, <2>1 DEF Advanced, Blocked, Settled
  <2>3. new.tracks = TrackRows /\ new.analysis = AnalysisRows
    OBVIOUS
  <2> HIDE DEF new
  <2>4. alone[p] /\ StatusOf(p) = "succeeded" => SaysWhatWasScanned(p, new)
    BY <2>1, <2>3, StagedSays
  <2>5. alone[p] => Staged(p)'
    BY <1>3, <2>1, <2>4 DEF Staged, StatusOf, SaysWhatWasScanned
  <2>6. Undisturbed(p)'
    BY <1>2, <1>3, <2>1, <2>5 DEF Undisturbed, Scanned, Selected, Described, Analyzing,
       Analyzed, Published
  <2> QED  BY <2>2, <2>6
<1>5. CASE ExportRaises(p)
  <2>1. /\ pc'[p] = "end" /\ results'[p] = [status |-> "failed", published |-> FALSE]
        /\ publisher' = publisher
    BY <1>1, <1>5 DEF ExportRaises, Report, publication, Typed, CommandTypes, RefreshTypes
  <2>2. unscanned'[p] = {} /\ results'[p].published = FALSE /\ pc[p] # "end"
    BY <1>1, <1>2, <1>3, <2>1
  <2> QED  BY <2>1, <2>2, EndingIsFree
<1>6. CASE Publish(p)
  <2>1. /\ pc[p] = "switch" /\ pc'[p] = "end" /\ destination' = staged[p]
        /\ \/ results'[p] = [status |-> StatusOf(p), published |-> TRUE]
           \/ results'[p] = [status |-> "failed", published |-> FALSE]
    BY <1>1, <1>6 DEF Publish, Report, Typed, CommandTypes, RefreshTypes
  <2>2. Advanced(p)'
    BY <1>2, <1>3, <2>1 DEF Advanced, Blocked
  <2>3. alone[p] /\ results'[p].published /\ results'[p].status = "succeeded" =>
            SaysWhatWasScanned(p, staged[p])
    <3>1. results'[p].published => results'[p].status = StatusOf(p)
      BY <2>1
    <3> QED  BY <2>1, <3>1 DEF Undisturbed, Staged
  <2>4. alone[p] => Published(p)'
    BY <1>3, <2>1, <2>3 DEF Published, SaysWhatWasScanned
  <2>5. Undisturbed(p)'
    BY <1>3, <2>1, <2>4 DEF Undisturbed, Scanned, Selected, Described, Analyzing, Analyzed, Staged
  <2> QED  BY <2>2, <2>5
<1> QED  BY <1>4, <1>5, <1>6

-----------------------------------------------------------------------------
(* The invariant is inductive.                                             *)

LEMMA NextKeeps == Refreshed /\ [Next]_vars => Refreshed'
<1>1. CASE Refreshed /\ UNCHANGED vars
  <2>1. /\ UNCHANGED <<files, tracks, metadata, events, pc, present, eligible, tags, unread>>
        /\ UNCHANGED <<counted, attempts, runs, lock, todo, snap, unscanned, failedScans>>
        /\ UNCHANGED <<outcome, staged, results, destination, publisher, scanned, alone>>
    BY <1>1 DEF vars, metadataVars, catalog, extraction, analysisVars, refreshVars, publication
  <2>2. Typed'
    BY <1>1, <2>1 DEF Refreshed, Typed, CatalogTypes, CommandTypes, RefreshTypes
  <2>3. VersionsGrow'
    BY <1>1, <2>1, VersionsUntouched DEF Refreshed
  <2>4. RunsAreTrue'
    BY <1>1, <2>1, RunsUntouched DEF Refreshed
  <2>5. ExportsAreOne'
    BY <1>1, <2>1 DEF Refreshed, ExportsAreOne, IsOneCatalog
  <2>6. ASSUME NEW p \in Refreshers PROVE Advanced(p)' /\ Undisturbed(p)'
    <3>1. Advanced(p) /\ Undisturbed(p)
      BY <1>1 DEF Refreshed
    <3>2. ByAnother(p)
      BY <2>1 DEF ByAnother
    <3> QED  BY <1>1, <3>1, <3>2, AnotherKeeps DEF Refreshed
  <2> QED  BY <2>2, <2>3, <2>4, <2>5, <2>6 DEF Refreshed
<1>2. CASE Refreshed /\ Next
  <2>1. Typed' /\ VersionsGrow' /\ RunsAreTrue' /\ ExportsAreOne'
    BY <1>2, NextTyped, NextGrows, NextRuns, NextExports
  <2>2. ASSUME NEW p \in Refreshers PROVE Advanced(p)' /\ Undisturbed(p)'
    <3>1. Typed /\ VersionsGrow /\ RunsAreTrue /\ Advanced(p) /\ Undisturbed(p)
      BY <1>2 DEF Refreshed
    <3>2. CASE ByAnother(p)
      BY <3>1, <3>2, AnotherKeeps
    <3>3. CASE RefreshStep(p)
      <4>1. \/ DecideAfterScan(p)
            \/ \E source \in Sources : ScanSucceeds(p, source) \/ ScanFails(p, source)
            \/ StageExport(p) \/ ExportRaises(p) \/ Publish(p)
        BY <3>3 DEF RefreshStep
      <4> QED  BY <3>1, <4>1, OwnScan, OwnExport
    <3>4. CASE Metadata(p)
      BY <3>1, <3>4, OwnMetadata
    <3>5. CASE AnalyzeStep(p)
      BY <3>1, <3>5, OwnAnalysis
    <3> QED  BY <1>2, <3>2, <3>3, <3>4, <3>5, OwnOrAnothers
  <2> QED  BY <2>1, <2>2 DEF Refreshed
<1> QED  BY <1>1, <1>2

LEMMA AlwaysRefreshed == Spec => []Refreshed
  BY InitRefreshed, NextKeeps, PTL DEF Spec

-----------------------------------------------------------------------------
(* What follows from it.                                                   *)

\* Every row was read from a file at least as recent as the facts it is stored
\* under (EmbeddedMetadataRepository.upsert); the published files describe one
\* catalog and one finished analysis, and the facts they put beside a value are
\* those it was stored under or newer ones (the exporters of ExportUseCase).
THEOREM FactsKept == Spec => []FactsAreKept
<1>1. ASSUME Refreshed PROVE FactsAreKept
  <2>1. /\ Typed /\ MetadataIsOfItsFacts
        /\ IsOneCatalog(destination) /\ ValuesFollowFacts(destination)
    BY <1>1 DEF Refreshed, VersionsGrow, ExportsAreOne
  <2>2. /\ tracks \in [Tracks -> [facts : 0..MaxVersion, present : BOOLEAN]]
        /\ \A r \in DOMAIN runs : runs[r] \in RunRow
        /\ destination.run \in RunRow
    BY <2>1 DEF Typed, CatalogTypes, RefreshTypes, Versions, Export
  <2>3. TypeOK
    BY <2>1, <2>2 DEF Typed, CatalogTypes, CommandTypes, RefreshTypes, Result, TypeOK
  <2> QED  BY <2>1, <2>3 DEF FactsAreKept
<1> QED  BY <1>1, AlwaysRefreshed, PTL

\* A refresh that reports a publication was not stopped by a failed scan of a
\* set-eligible source; and if it succeeded and nobody else wrote to the catalog,
\* the destination says exactly what its scans found (RefreshUseCase.execute).
THEOREM PublicationSays == Spec => []PublishedIsWhatItSays
<1>1. ASSUME Refreshed PROVE PublishedIsWhatItSays
  <2>1. ASSUME NEW p \in Refreshers, results[p].published
        PROVE  /\ failedScans[p] \cap Required = {}
               /\ publisher = p /\ alone[p] /\ results[p].status = "succeeded" =>
                      SaysWhatWasScanned(p, destination)
    BY <1>1, <2>1 DEF Refreshed, Advanced, Blocked, Undisturbed, Published
  <2> QED  BY <2>1 DEF PublishedIsWhatItSays
<1> QED  BY <1>1, AlwaysRefreshed, PTL

\* The event of a track and its row are one: what a step tells of it.
TellsTheChange(t) ==
    LET fields == IF metadata'[t] = NoRow THEN {}
                  ELSE ChangedFields(metadata[t].read, metadata'[t].read)
        told == IF fields = {} THEN << >> ELSE <<Changed(fields)>>
    IN  \/ events'[t] = events[t] \o told
        \/ fields = {} /\ events'[t] = Append(events[t], Failed)

LEMMA SameTagsChangeNothing == \A version \in Versions : ChangedFields(version, version) = {}
<1>1. TagsOf(0).title = 0 /\ TagsOf(0).comment = 0
  BY DEF TagsOf
<1>2. \A field \in Fields : TagsOf(0)[field] = 0
  BY <1>1 DEF Fields
<1> QED  BY <1>2 DEF ChangedFields

\* A row that stays is told by no event or by a failure.
LEMMA KeptRowTells ==
    ASSUME Typed, NEW t \in Tracks, metadata'[t] = metadata[t],
           events'[t] = events[t] \/ events'[t] = Append(events[t], Failed)
    PROVE  TellsTheChange(t)
<1>1. metadata[t].read \in Versions /\ events[t] \in Seq(Event)
  BY DEF Typed, CatalogTypes, Row, Versions
<1>2. ChangedFields(metadata[t].read, metadata'[t].read) = {}
  BY <1>1, SameTagsChangeNothing
<1>3. events[t] \o << >> = events[t]
  BY <1>1
<1> QED  BY <1>2, <1>3 DEF TellsTheChange

LEMMA StoreTells ==
    ASSUME Typed, VersionsGrow, NEW p \in Extractors, Store(p), NEW t \in Tracks
    PROVE  TellsTheChange(t)
<1> DEFINE extracted == {u \in Eligible(p) : tags[p][u] # 0}
           changed == ChangedFields(metadata[t].read, tags[p][t])
<1>1. metadata'[t] = IF t \in extracted THEN MetadataRow(eligible[p][t], tags[p][t])
                     ELSE metadata[t]
  BY DEF Store
<1>2. events'[t] = CASE t \in Eligible(p) \ extracted -> Append(events[t], Failed)
                     [] t \in extracted /\ changed # {} -> Append(events[t], Changed(changed))
                     [] OTHER -> events[t]
  BY DEF Store
<1>3. events[t] \in Seq(Event) /\ extracted \subseteq Eligible(p)
  BY DEF Typed, CatalogTypes
<1>4. CASE t \notin extracted
  <2> HIDE DEF extracted, changed
  <2>1. events'[t] = events[t] \/ events'[t] = Append(events[t], Failed)
    BY <1>2, <1>4
  <2>2. metadata'[t] = metadata[t]
    BY <1>1, <1>4
  <2> QED  BY <2>1, <2>2, KeptRowTells
<1>5. CASE t \in extracted
  <2>1. eligible[p][t] # 0 /\ tags[p][t] # 0
    BY <1>5 DEF Eligible
  <2>2. metadata'[t] = [facts |-> eligible[p][t], read |-> tags[p][t]]
    BY <1>1, <1>5 DEF MetadataRow
  <2>3. metadata'[t] # NoRow /\ metadata'[t].read = tags[p][t]
    BY <2>1, <2>2 DEF NoRow
  <2>4. events'[t] = events[t] \o (IF changed = {} THEN << >> ELSE <<Changed(changed)>>)
    <3> HIDE DEF extracted, changed
    <3>1. CASE changed = {}
      BY <1>2, <1>3, <1>5, <3>1
    <3>2. CASE changed # {}
      <4>1. events'[t] = Append(events[t], Changed(changed))
        BY <1>2, <1>5, <3>2
      <4>2. events[t] \o <<Changed(changed)>> = Append(events[t], Changed(changed))
        BY <1>3
      <4> QED  BY <3>2, <4>1, <4>2
    <3> QED  BY <3>1, <3>2
  <2> QED  BY <2>3, <2>4 DEF TellsTheChange
<1> QED  BY <1>4, <1>5

\* Whoever stores a row, and whatever was stored since its track was selected,
\* one event names exactly the fields in which the row changed
\* (MetadataService.refresh, EventRepository).
THEOREM EventsTell == Spec => EventsTellEveryChange
<1>1. ASSUME Refreshed, [Next]_vars
      PROVE  [\A t \in Tracks : TellsTheChange(t)]_<<metadata, events>>
  <2>1. Typed /\ VersionsGrow
    BY <1>1 DEF Refreshed
  <2>2. ASSUME NEW p \in Extractors, MetadataStep(p)
        PROVE  \/ \A t \in Tracks : TellsTheChange(t)
               \/ UNCHANGED <<metadata, events>>
    <3>1. CASE Store(p)
      BY <2>1, <3>1, StoreTells
    <3>2. CASE VersionMissing(p)
      <4>1. ASSUME NEW t \in Tracks PROVE TellsTheChange(t)
        <5>1. metadata'[t] = metadata[t]
          BY <3>2 DEF VersionMissing
        <5>2. events'[t] = events[t] \/ events'[t] = Append(events[t], Failed)
          BY <3>2 DEF VersionMissing
        <5> QED  BY <2>1, <5>1, <5>2, KeptRowTells
      <4> QED  BY <4>1
    <3>3. CASE CountPresent(p) \/ SelectEligible(p) \/ BatchRaises(p)
               \/ \E t \in Tracks : ReadTags(p, t)
      BY <3>3 DEF CountPresent, SelectEligible, BatchRaises, ReadTags, catalog
    <3> QED  BY <2>2, <3>1, <3>2, <3>3 DEF MetadataStep
  <2>3. CASE \E p \in Extractors : Metadata(p)
    BY <2>2, <2>3 DEF Metadata
  <2>4. CASE \/ UNCHANGED vars
             \/ \E t \in Tracks : Edit(t)
             \/ \E source \in Sources : OtherScan(source)
             \/ \E p \in Refreshers : RefreshStep(p)
             \/ \E p \in Commands : AnalyzeStep(p)
    <3>1. UNCHANGED <<metadata, events>>
      BY <2>4 DEF vars, metadataVars, catalog, Edit, OtherScan, RefreshStep, ScanSucceeds,
         ScanFails, DecideAfterScan, StageExport, ExportRaises, Publish, AnalyzeStep,
         BeginAnalysis, AnalysisIsHeld, AnalyzeTrack, FinishAnalysis, AbandonAnalysis
    <3> QED  BY <3>1
  <2> QED  BY <1>1, <2>3, <2>4 DEF Next
<1>2. Spec => [][\A t \in Tracks : TellsTheChange(t)]_<<metadata, events>>
  BY <1>1, AlwaysRefreshed, PTL DEF Spec
<1> QED  BY <1>2 DEF EventsTellEveryChange, TellsTheChange
=============================================================================
