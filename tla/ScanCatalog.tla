---------------------------- MODULE ScanCatalog ----------------------------
(***************************************************************************)
(* Scanning: ScanUseCase.execute (core/application/scan.py) drives         *)
(* ScanLifecycle begin / observe / succeed / fail (core/scanning/          *)
(* lifecycle.py) around one traversal by SourceScanner.                    *)
(*                                                                         *)
(* Several scan commands may run on one catalog.  Each transaction is one  *)
(* step; the library is edited while it is traversed; a scan may fail in   *)
(* any transaction or be killed anywhere.                                  *)
(*                                                                         *)
(* An item is what SourceScanner recognises in a source, named by its      *)
(* source-relative path: an audio file (a row of tracks), a DJ artifact    *)
(* (library_artifacts) or a directory (directories).  Only the presence of *)
(* an audio file has events.                                               *)
(***************************************************************************)
EXTENDS Integers, Sequences, FiniteSets

CONSTANTS
    Files,       \* source-relative paths that may hold an item
    Sources,     \* configured sources
    SourceOf,    \* the source each file belongs to
    KindOf,      \* what its name makes of it
    Scanners,    \* concurrently running scan commands
    MaxVersion,  \* bound: distinct (size_bytes, mtime_ns) of one file
    MaxRuns,     \* bound: rows of scan_runs
    MaxEdits     \* bound: edits of the library

ASSUME ScanAssumption ==
    /\ IsFiniteSet(Files)
    /\ SourceOf \in [Files -> Sources]
    /\ KindOf \in [Files -> {"audio", "artifact", "directory"}]
    /\ MaxVersion \in Nat \ {0}
    /\ MaxRuns \in Nat
    /\ MaxEdits \in Nat

VARIABLES
    disk,        \* facts of each file now, 0 when it does not exist
    edits,       \* edits so far (bound only)
    scanRuns,    \* scan_runs, indexed by id
    tracks,      \* the row of each item: presence "none" when there is none
    events,      \* track_events of each file, oldest first
    lastOk,      \* library_sources.last_successful_scan_id, 0 for NULL
    pc,          \* where each scan command is in the loop over sources
    run,         \* run_id of the source being scanned
    unvisited,   \* files whose directory entry was not read yet
    seen,        \* the paths of the observation, 0 for a path not in it
    outcome,     \* what the command reports of each run: ScanSourceResult
    wasAbsent    \* history: files that did not exist at some time of the scan

catalogVars == <<scanRuns, tracks, events, lastOk>>
scanVars    == <<pc, run, unvisited, seen, wasAbsent>>
vars        == <<disk, edits, catalogVars, scanVars, outcome>>

Facts   == 0..MaxVersion
ScanRun == [source: Sources, status: {"running", "succeeded", "failed"},
            audioSeen: Nat, artifactsSeen: Nat]
Track   == [presence: {"none", "present", "missing"}, facts: Facts, lastSeen: Nat]
Event   == [type: {"discovered", "restored", "missing", "changed"}, run: Nat]

FilesOf(source) == {f \in Files : SourceOf[f] = source}
OfKind(kind)    == {f \in Files : KindOf[f] = kind}
Seen(s)         == {f \in Files : seen[s][f] # 0}

IsRunning(r) == r \in 1..Len(scanRuns) /\ scanRuns[r].status = "running"

NewRun(source) ==
    [source |-> source, status |-> "running", audioSeen |-> 0, artifactsSeen |-> 0]

-----------------------------------------------------------------------------
Init ==
    /\ disk \in [Files -> {0, 1}]
    /\ edits = 0
    /\ scanRuns = << >>
    /\ tracks = [f \in Files |-> [presence |-> "none", facts |-> 0, lastSeen |-> 0]]
    /\ events = [f \in Files |-> << >>]
    /\ lastOk = [source \in Sources |-> 0]
    /\ pc = [s \in Scanners |-> "idle"]
    /\ run = [s \in Scanners |-> 0]
    /\ unvisited = [s \in Scanners |-> {}]
    /\ seen = [s \in Scanners |-> [f \in Files |-> 0]]
    /\ outcome = << >>
    /\ wasAbsent = [s \in Scanners |-> {}]

\* Mutant of Begin: no unique index on the running scan of a source.
BeginAgain(s, source) ==
    /\ pc[s] = "idle"
    /\ Len(scanRuns) < MaxRuns
    /\ scanRuns' = Append(scanRuns, NewRun(source))
    /\ outcome' = Append(outcome, "none")
    /\ pc' = [pc EXCEPT ![s] = "scan"]
    /\ run' = [run EXCEPT ![s] = Len(scanRuns) + 1]
    /\ unvisited' = [unvisited EXCEPT ![s] = FilesOf(source)]
    /\ seen' = [seen EXCEPT ![s] = [f \in Files |-> 0]]
    /\ wasAbsent' = [wasAbsent EXCEPT ![s] = {f \in FilesOf(source) : disk[f] = 0}]
    /\ UNCHANGED <<disk, edits, tracks, events, lastOk>>

\* INSERT of a running row; the partial unique index refuses a second one.
Begin(s, source) ==
    /\ pc[s] = "idle"
    /\ Len(scanRuns) < MaxRuns
    /\ \A r \in 1..Len(scanRuns) : scanRuns[r].source = source => ~IsRunning(r)
    /\ scanRuns' = Append(scanRuns, NewRun(source))
    /\ outcome' = Append(outcome, "none")
    /\ pc' = [pc EXCEPT ![s] = "scan"]
    /\ run' = [run EXCEPT ![s] = Len(scanRuns) + 1]
    /\ unvisited' = [unvisited EXCEPT ![s] = FilesOf(source)]
    /\ seen' = [seen EXCEPT ![s] = [f \in Files |-> 0]]
    /\ wasAbsent' = [wasAbsent EXCEPT ![s] = {f \in FilesOf(source) : disk[f] = 0}]
    /\ UNCHANGED <<disk, edits, tracks, events, lastOk>>

\* os.scandir reaches the entry and stats it.
Visit(s, f) ==
    /\ pc[s] = "scan"
    /\ f \in unvisited[s]
    /\ seen' = [seen EXCEPT ![s][f] = disk[f]]
    /\ unvisited' = [unvisited EXCEPT ![s] = @ \ {f}]
    /\ UNCHANGED <<disk, edits, catalogVars, pc, run, outcome, wasAbsent>>

\* Mutant of Scanned: a directory that cannot be read is skipped.
ScannedPartly(s) ==
    /\ pc[s] = "scan"
    /\ pc' = [pc EXCEPT ![s] = "observe"]
    /\ UNCHANGED <<disk, edits, catalogVars, run, unvisited, seen, outcome, wasAbsent>>

\* The whole traversal succeeded.
Scanned(s) ==
    /\ pc[s] = "scan"
    /\ unvisited[s] = {}
    /\ pc' = [pc EXCEPT ![s] = "observe"]
    /\ UNCHANGED <<disk, edits, catalogVars, run, unvisited, seen, outcome, wasAbsent>>

\* The root is not a directory or an entry cannot be read, or the observe or
\* succeed transaction raises and is rolled back.
Raise(s) ==
    /\ pc[s] \in {"scan", "observe", "succeed"}
    /\ pc' = [pc EXCEPT ![s] = "fail"]
    /\ UNCHANGED <<disk, edits, catalogVars, run, unvisited, seen, outcome, wasAbsent>>

\* Mutant of Observed: the transition is stored as a state.
ObservedRestored(track, facts, r) ==
    [presence |-> IF track.presence = "missing" THEN "restored" ELSE "present",
     facts |-> facts, lastSeen |-> r]

\* TrackRepository.observe of one path: the row ...
Observed(track, facts, r) == [presence |-> "present", facts |-> facts, lastSeen |-> r]

\* DirectoryRepository.observe keeps no facts ...
DirectoryObserved(r) == [presence |-> "present", facts |-> 0, lastSeen |-> r]

\* ... ArtifactRepository.observe those of this run.
ArtifactObserved(facts, r) == [presence |-> "present", facts |-> facts, lastSeen |-> r]

Row(f, facts, r) ==
    CASE KindOf[f] = "audio"     -> Observed(tracks[f], facts, r)
      [] KindOf[f] = "artifact"  -> ArtifactObserved(facts, r)
      [] KindOf[f] = "directory" -> DirectoryObserved(r)

\* Mutant of Transition: a restored file is only reported when it changed.
TransitionOfChange(track, facts, r) ==
    IF track.presence = "none" THEN <<[type |-> "discovered", run |-> r]>>
    ELSE IF track.facts = facts THEN << >>
    ELSE IF track.presence = "missing"
         THEN <<[type |-> "restored", run |-> r], [type |-> "changed", run |-> r]>>
         ELSE <<[type |-> "changed", run |-> r]>>

\* ... and the events of its transition.
Transition(track, facts, r) ==
    IF track.presence = "none" THEN <<[type |-> "discovered", run |-> r]>>
    ELSE (IF track.presence = "missing" THEN <<[type |-> "restored", run |-> r]>> ELSE << >>)
         \o (IF track.facts # facts THEN <<[type |-> "changed", run |-> r]>> ELSE << >>)

\* require_running raises unless the run is still running.
Observe(s) ==
    /\ pc[s] = "observe"
    /\ IsRunning(run[s])
    /\ tracks' = [f \in Files |->
                     IF f \in Seen(s) THEN Row(f, seen[s][f], run[s]) ELSE tracks[f]]
    /\ events' = [f \in Files |->
                     IF f \in Seen(s) \cap OfKind("audio")
                     THEN events[f] \o Transition(tracks[f], seen[s][f], run[s])
                     ELSE events[f]]
    /\ scanRuns' = [scanRuns EXCEPT ![run[s]].audioSeen = Cardinality(Seen(s) \cap OfKind("audio")),
                                    ![run[s]].artifactsSeen =
                                        Cardinality(Seen(s) \cap OfKind("artifact"))]
    /\ pc' = [pc EXCEPT ![s] = "succeed"]
    /\ UNCHANGED <<disk, edits, lastOk, run, unvisited, seen, outcome, wasAbsent>>

\* Mutant of NotSeen: compares with the previous success instead of this run.
NotSeenBefore(r) ==
    {f \in FilesOf(scanRuns[r].source) :
        tracks[f].presence = "present" /\ tracks[f].lastSeen < lastOk[SourceOf[f]]}

\* mark_missing_not_seen: present rows of the source another run saw last.
NotSeen(r) ==
    {f \in FilesOf(scanRuns[r].source) : tracks[f].presence = "present" /\ tracks[f].lastSeen # r}

\* What the command forgets when it goes on to the next source.
Leave(s) ==
    /\ pc' = [pc EXCEPT ![s] = "idle"]
    /\ run' = [run EXCEPT ![s] = 0]
    /\ unvisited' = [unvisited EXCEPT ![s] = {}]
    /\ seen' = [seen EXCEPT ![s] = [f \in Files |-> 0]]
    /\ wasAbsent' = [wasAbsent EXCEPT ![s] = {}]

\* Reconcile absence and finish the run in one transaction.
Succeed(s) ==
    /\ pc[s] = "succeed"
    /\ IsRunning(run[s])
    /\ LET r == run[s]
           missing == NotSeen(r)
       IN  /\ tracks' = [f \in Files |->
                  IF f \in missing THEN [tracks[f] EXCEPT !.presence = "missing"] ELSE tracks[f]]
           /\ events' = [f \in Files |->
                  IF f \in missing \cap OfKind("audio")
                  THEN Append(events[f], [type |-> "missing", run |-> r]) ELSE events[f]]
           /\ scanRuns' = [scanRuns EXCEPT ![r].status = "succeeded"]
           /\ lastOk' = [lastOk EXCEPT ![scanRuns[r].source] = r]
           /\ outcome' = [outcome EXCEPT ![r] = "succeeded"]
    /\ Leave(s)
    /\ UNCHANGED <<disk, edits>>

\* Mutant of Fail: a failed scan reconciles absence as well.
FailReconciles(s) ==
    /\ pc[s] = "fail"
    /\ IsRunning(run[s])
    /\ events' = [f \in Files |->
           IF f \in NotSeen(run[s]) THEN Append(events[f], [type |-> "missing", run |-> run[s]])
           ELSE events[f]]
    /\ scanRuns' = [scanRuns EXCEPT ![run[s]].status = "failed"]
    /\ outcome' = [outcome EXCEPT ![run[s]] = "failed"]
    /\ Leave(s)
    /\ UNCHANGED <<disk, edits, tracks, lastOk>>

\* lifecycle.fail commits, and the command reports the failure.
Fail(s) ==
    /\ pc[s] = "fail"
    /\ IsRunning(run[s])
    /\ scanRuns' = [scanRuns EXCEPT ![run[s]].status = "failed"]
    /\ outcome' = [outcome EXCEPT ![run[s]] = "failed"]
    /\ Leave(s)
    /\ UNCHANGED <<disk, edits, tracks, events, lastOk>>

\* contextlib.suppress swallows an error of lifecycle.fail itself.
FailSuppressed(s) ==
    /\ pc[s] = "fail"
    /\ outcome' = [outcome EXCEPT ![run[s]] = "failed"]
    /\ Leave(s)
    /\ UNCHANGED <<disk, edits, catalogVars>>

Crash(s) ==
    /\ pc[s] # "idle"
    /\ Leave(s)
    /\ UNCHANGED <<disk, edits, catalogVars, outcome>>

\* Files are added, changed, removed and put back while scans run.
Edit(f) ==
    /\ edits < MaxEdits
    /\ \E version \in (IF KindOf[f] = "directory" THEN {0, 1} ELSE Facts) \ {disk[f]} :
         /\ disk' = [disk EXCEPT ![f] = version]
         /\ wasAbsent' = [s \in Scanners |->
                IF /\ version = 0 /\ pc[s] # "idle"
                   /\ SourceOf[f] = scanRuns[run[s]].source
                THEN wasAbsent[s] \cup {f} ELSE wasAbsent[s]]
    /\ edits' = edits + 1
    /\ UNCHANGED <<catalogVars, pc, run, unvisited, seen, outcome>>

Step(s) ==
    \/ \E source \in Sources : Begin(s, source)
    \/ \E f \in Files : Visit(s, f)
    \/ Scanned(s) \/ Raise(s) \/ Observe(s) \/ Succeed(s)
    \/ Fail(s) \/ FailSuppressed(s) \/ Crash(s)

Next ==
    \/ \E s \in Scanners : Step(s)
    \/ \E f \in Files : Edit(f)

Spec == Init /\ [][Next]_vars

-----------------------------------------------------------------------------
(* Properties *)

\* The shape of the catalog's rows and of each scan in progress.
TypeOK ==
    /\ disk \in [Files -> Facts]
    /\ edits \in Nat
    /\ scanRuns \in Seq(ScanRun)
    /\ tracks \in [Files -> Track]
    /\ events \in [Files -> Seq(Event)]
    /\ lastOk \in [Sources -> Nat]
    /\ pc \in [Scanners -> {"idle", "scan", "observe", "succeed", "fail"}]
    /\ run \in [Scanners -> Nat]
    /\ unvisited \in [Scanners -> SUBSET Files]
    /\ seen \in [Scanners -> [Files -> Facts]]
    /\ outcome \in Seq({"none", "succeeded", "failed"})
    /\ wasAbsent \in [Scanners -> SUBSET Files]

\* The events of a file that tell of its presence, oldest first.
PresenceEvents(story) == {i \in 1..Len(story) : story[i].type # "changed"}

Shown(event) == IF event.type = "missing" THEN "missing" ELSE "present"

\* One discovery first, then missing and restored in turn, ending in presence.
Tells(story, presence) ==
    LET told == PresenceEvents(story)
    IN  /\ told = {} <=> presence = "none"
        /\ \A i \in told :
             /\ story[i].type = "discovered" <=> \A j \in told : i <= j
             /\ (\A j \in told : j <= i) => presence = Shown(story[i])
             /\ \A j \in told :
                  i < j /\ (\A k \in told : k <= i \/ j <= k) => Shown(story[i]) # Shown(story[j])

\* track_events tell the whole presence story of an audio file: they begin with
\* its discovery, alternate, and end in the state the track row shows.
PresenceFollowsEvents == \A f \in OfKind("audio") : Tells(events[f], tracks[f].presence)

\* Every "missing" event belongs to a run that succeeded.
OnlySuccessReconciles ==
    \A f \in Files : \A i \in 1..Len(events[f]) :
        events[f][i].type = "missing" => scanRuns[events[f][i].run].status = "succeeded"

\* What is shown as present was seen by the last success or by a later run; what
\* is shown as missing was not seen by it.
ReconciledSinceLastSuccess ==
    \A f \in Files :
        /\ tracks[f].presence = "present" => tracks[f].lastSeen >= lastOk[SourceOf[f]]
        /\ tracks[f].presence = "missing" => tracks[f].lastSeen < lastOk[SourceOf[f]]

\* Absence is reconciled by successful scans and by nothing else: a scan that
\* failed, was killed or ran beside another one (lifecycle.py:84-102, the unique
\* index of scan_runs) leaves the presence of every item as the last success and
\* the observations since then make it.
AbsenceIsReconciled == OnlySuccessReconciles /\ ReconciledSinceLastSuccess

\* A file is declared missing only if it really did not exist at some moment of
\* the scan that says so, however the library changed during the traversal.
MissingWasAbsent ==
    [][\A f \in Files :
          tracks[f].presence = "present" /\ tracks'[f].presence = "missing" =>
              \E s \in Scanners : pc[s] = "succeed" /\ f \in wasAbsent[s]]_vars

\* Known exception, in no run.  "A failed scan is recorded" (README.md:347): but a
\* run the command reports as failed stays running when recording it fails too.
FailedScanIsRecorded ==
    \A r \in 1..Len(outcome) : outcome[r] = "failed" => scanRuns[r].status = "failed"
=============================================================================
