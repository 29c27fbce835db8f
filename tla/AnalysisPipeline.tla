-------------------------- MODULE AnalysisPipeline --------------------------
(***************************************************************************)
(* The isolated audio analysis: AnalysisPipeline.run (core/analysis/       *)
(* pipeline.py) over AnalysisPersistence (core/analysis/persistence.py),   *)
(* the current_track_analysis projection and the pending/reusable queries  *)
(* of TrackRepository.                                                     *)
(*                                                                         *)
(* Several `analyze` processes share one catalog.  Each SQLite transaction *)
(* is one step; between two steps of a pipeline any other process, a scan  *)
(* or an edit of the library may happen, and the pipeline may die.         *)
(*                                                                         *)
(* A file's (size_bytes, mtime_ns) is a version number that only grows: an *)
(* edited file never shows old facts again.                                *)
(***************************************************************************)
EXTENDS Integers, Sequences, FiniteSets

CONSTANTS
    Tracks,       \* rows of the tracks table
    Procs,        \* concurrently running analyze commands
    NoProc,       \* the lock is free
    Identities,   \* (schema version, analyzer version, config hash)
    Workers,      \* --workers
    MaxVersion,   \* bound: edits of one file
    MaxRuns,      \* bound: invocations that are not aborted
    MaxAborts     \* bound: crashes and aborted invocations

ASSUME PipelineAssumption ==
    /\ IsFiniteSet(Tracks)
    /\ NoProc \notin Procs
    /\ Workers \in Nat \ {0}
    /\ MaxVersion \in Nat
    /\ MaxRuns \in Nat
    /\ MaxAborts \in Nat

VARIABLES
    disk,         \* version of each file now
    catalog,      \* version of each file the last committed scan observed
    analyzable,   \* tracks present in an enabled source with analyze = 1
    runs,         \* analysis_runs, indexed by id
    attempts,     \* audio_analysis, indexed by id: append-only
    current,      \* current_track_analysis: track -> attempt id, 0 if no row
    lock,         \* holder of the advisory lock "analysis-pipeline"
    pc,           \* where each process is in AnalysisPipeline.run
    identity,     \* its analysis identity
    forced,       \* --force
    selected,     \* the tracks it selected ...
    snap,         \* ... and the file facts of the Track objects it holds
    reused,       \* selected tracks that need no extraction
    todo,         \* tracks not handed to a worker yet
    done,         \* worker outcomes not persisted yet
    run,          \* the id start_run returned
    aborts        \* aborted invocations so far (bound only)

library  == <<disk, catalog, analyzable>>
database == <<runs, attempts, current>>
request  == <<identity, forced, selected, snap, reused>>
vars     == <<library, database, lock, pc, request, todo, done, run, aborts>>

Statuses == {"running", "succeeded", "partial", "failed"}
Versions == 0..MaxVersion

Run     == [status: Statuses, eligible: Nat, analyzed: Nat, reused: Nat, failed: Nat]
Attempt == [track: Tracks, run: Nat, identity: Identities,
            facts: Versions, content: Versions, ok: BOOLEAN]
Outcome == [track: Tracks, content: Versions, ok: BOOLEAN]

-----------------------------------------------------------------------------
(* Queries *)

\* A retained successful attempt for these facts and this identity.
HasSuccess(t, version, id) ==
    \E i \in 1..Len(attempts) :
        /\ attempts[i].ok
        /\ attempts[i].track = t
        /\ attempts[i].facts = version
        /\ attempts[i].identity = id

Reusable(id) == {t \in analyzable : HasSuccess(t, catalog[t], id)}

\* pending_analysis: the anti-join of the same rows.
Pending(id) == analyzable \ Reusable(id)

AttemptsOf(r, ok) == {i \in 1..Len(attempts) : attempts[i].run = r /\ attempts[i].ok = ok}

\* Mutant of DeriveStatus: no failure is taken for success.
DeriveStatusWithoutAccounting(eligible, analyzed, reusedCount, failed) ==
    IF failed = 0 THEN "succeeded"
    ELSE IF analyzed + reusedCount > 0 THEN "partial"
    ELSE "failed"

\* Mutant of DeriveStatus: a status the catalog does not know.
DeriveStatusInterrupted(eligible, analyzed, reusedCount, failed) ==
    IF analyzed + reusedCount + failed < eligible THEN "interrupted"
    ELSE IF failed = 0 THEN "succeeded" ELSE "partial"

\* _derive_status
DeriveStatus(eligible, analyzed, reusedCount, failed) ==
    IF failed = 0 /\ analyzed + reusedCount + failed >= eligible THEN "succeeded"
    ELSE IF analyzed + reusedCount > 0 THEN "partial"
    ELSE "failed"

\* The newest successful attempt of t, 0 when it has none.
IsLatestSuccess(t, i) ==
    /\ i = 0 \/ (i \in 1..Len(attempts) /\ attempts[i].ok /\ attempts[i].track = t)
    /\ \A j \in 1..Len(attempts) : attempts[j].ok /\ attempts[j].track = t => j <= i

-----------------------------------------------------------------------------
Init ==
    /\ disk = [t \in Tracks |-> 0]
    /\ catalog = disk
    /\ analyzable = Tracks
    /\ runs = << >>
    /\ attempts = << >>
    /\ current = [t \in Tracks |-> 0]
    /\ lock = NoProc
    /\ pc = [p \in Procs |-> "idle"]
    /\ identity \in [Procs -> Identities]
    /\ forced = [p \in Procs |-> FALSE]
    /\ selected = [p \in Procs |-> {}]
    /\ snap = [p \in Procs |-> [t \in Tracks |-> 0]]
    /\ reused = [p \in Procs |-> {}]
    /\ todo = [p \in Procs |-> {}]
    /\ done = [p \in Procs |-> {}]
    /\ run = [p \in Procs |-> 0]
    /\ aborts = 0

\* Mutant of Acquire: the advisory lock is not taken.
AcquireWithoutLock(p) ==
    /\ pc[p] = "idle"
    /\ Len(runs) < MaxRuns + aborts
    /\ lock' = p
    /\ pc' = [pc EXCEPT ![p] = "reconcile"]
    /\ UNCHANGED <<library, database, request, todo, done, run, aborts>>

\* Take the non-blocking lock; a command that finds it held fails at once.
Acquire(p) ==
    /\ pc[p] = "idle"
    /\ lock = NoProc
    /\ Len(runs) < MaxRuns + aborts
    /\ lock' = p
    /\ pc' = [pc EXCEPT ![p] = "reconcile"]
    /\ UNCHANGED <<library, database, request, todo, done, run, aborts>>

\* Mutant of Settled: every attempt of the run counts as analysed.
SettledCountsAllAttempts(r) ==
    LET analyzed == Cardinality(AttemptsOf(r, TRUE) \cup AttemptsOf(r, FALSE))
    IN  [runs[r] EXCEPT
            !.status = DeriveStatus(runs[r].eligible, analyzed, runs[r].reused, 0),
            !.analyzed = analyzed,
            !.failed = 0]

\* reconcile_running_runs: recount every abandoned run from its attempts.
Settled(r) ==
    LET analyzed == Cardinality(AttemptsOf(r, TRUE))
        failed == Cardinality(AttemptsOf(r, FALSE))
    IN  [runs[r] EXCEPT
            !.status = DeriveStatus(runs[r].eligible, analyzed, runs[r].reused, failed),
            !.analyzed = analyzed,
            !.failed = failed]

\* Mutant of Reconcile: an inner join, which misses runs without attempts.
ReconcileByInnerJoin(p) ==
    /\ pc[p] = "reconcile"
    /\ runs' = [r \in DOMAIN runs |->
                   IF /\ runs[r].status = "running"
                      /\ AttemptsOf(r, TRUE) \cup AttemptsOf(r, FALSE) # {}
                   THEN Settled(r) ELSE runs[r]]
    /\ pc' = [pc EXCEPT ![p] = "select"]
    /\ UNCHANGED <<library, attempts, current, lock, request, todo, done, run, aborts>>

\* One transaction settles every run that is still running.
Reconcile(p) ==
    /\ pc[p] = "reconcile"
    /\ runs' = [r \in DOMAIN runs |->
                   IF runs[r].status = "running" THEN Settled(r) ELSE runs[r]]
    /\ pc' = [pc EXCEPT ![p] = "select"]
    /\ UNCHANGED <<library, attempts, current, lock, request, todo, done, run, aborts>>

\* One query; the scope (source, path prefix) and --limit keep any part of it.
Select(p) ==
    /\ pc[p] = "select"
    /\ \E id \in Identities, force \in BOOLEAN :
         \E chosen \in SUBSET (IF force THEN analyzable ELSE Pending(id)) :
            /\ identity' = [identity EXCEPT ![p] = id]
            /\ forced' = [forced EXCEPT ![p] = force]
            /\ selected' = [selected EXCEPT ![p] = chosen]
            /\ snap' = [snap EXCEPT ![p] =
                            [t \in Tracks |-> IF t \in chosen THEN catalog[t] ELSE 0]]
    /\ pc' = [pc EXCEPT ![p] = "reuse"]
    /\ UNCHANGED <<library, database, lock, reused, todo, done, run, aborts>>

\* A second query, outside any transaction that would cover both.
ReadReusable(p) ==
    /\ pc[p] = "reuse"
    /\ LET found == IF forced[p] THEN selected[p] \cap Reusable(identity[p]) ELSE {}
       IN  /\ reused' = [reused EXCEPT ![p] = found]
           /\ todo' = [todo EXCEPT ![p] = selected[p] \ found]
    /\ pc' = [pc EXCEPT ![p] = "start"]
    /\ UNCHANGED <<library, database, lock, identity, forced, selected, snap, done, run, aborts>>

StartRun(p) ==
    /\ pc[p] = "start"
    /\ runs' = Append(runs, [status |-> "running", eligible |-> Cardinality(selected[p]),
                             analyzed |-> 0, reused |-> Cardinality(reused[p]), failed |-> 0])
    /\ run' = [run EXCEPT ![p] = Len(runs) + 1]
    /\ pc' = [pc EXCEPT ![p] = "extract"]
    /\ UNCHANGED <<library, attempts, current, lock, request, todo, done, aborts>>

\* bounded_results: an outcome holds its worker until it is persisted.
WorkerFree(p) == Cardinality(done[p]) < Workers

\* A worker child reads the file as it is now, whatever the catalog says of it.
Extract(p, t) ==
    /\ pc[p] = "extract"
    /\ t \in todo[p]
    /\ WorkerFree(p)
    /\ \E ok \in BOOLEAN :
         done' = [done EXCEPT ![p] = @ \cup {[track |-> t, content |-> disk[t], ok |-> ok]}]
    /\ todo' = [todo EXCEPT ![p] = @ \ {t}]
    /\ UNCHANGED <<library, database, lock, pc, request, run, aborts>>

\* Mutant of Advance: an existing row is never replaced.
AdvanceOnlyOnce(t, id) == [current EXCEPT ![t] = IF @ = 0 THEN id ELSE @]

\* CurrentAnalysisProjector.advance: only a newer attempt replaces the row.
Advance(t, id) == [current EXCEPT ![t] = IF id > @ THEN id ELSE @]

\* Mutant of Persist: the facts are read again when the outcome arrives.
PersistWithFreshFacts(p, outcome) ==
    /\ pc[p] = "extract"
    /\ outcome \in done[p]
    /\ attempts' = Append(attempts, [track |-> outcome.track, run |-> run[p],
                                     identity |-> identity[p],
                                     facts |-> catalog[outcome.track],
                                     content |-> outcome.content, ok |-> outcome.ok])
    /\ current' = IF outcome.ok THEN Advance(outcome.track, Len(attempts) + 1) ELSE current
    /\ runs' = IF outcome.ok THEN [runs EXCEPT ![run[p]].analyzed = @ + 1]
                             ELSE [runs EXCEPT ![run[p]].failed = @ + 1]
    /\ done' = [done EXCEPT ![p] = @ \ {outcome}]
    /\ UNCHANGED <<library, lock, pc, request, todo, run, aborts>>

\* Mutant of Persist: a retry overwrites the failed attempt it repeats.
PersistOverFailure(p, outcome) ==
    LET attempt == [track |-> outcome.track, run |-> run[p], identity |-> identity[p],
                    facts |-> snap[p][outcome.track],
                    content |-> outcome.content, ok |-> outcome.ok]
        old == {i \in 1..Len(attempts) : attempts[i].track = outcome.track /\ ~attempts[i].ok}
    IN  /\ pc[p] = "extract"
        /\ outcome \in done[p]
        /\ attempts' = IF old = {} THEN Append(attempts, attempt)
                       ELSE [i \in DOMAIN attempts |-> IF i \in old THEN attempt ELSE attempts[i]]
        /\ current' = IF outcome.ok /\ old = {} THEN Advance(outcome.track, Len(attempts) + 1)
                      ELSE current
        /\ runs' = IF outcome.ok THEN [runs EXCEPT ![run[p]].analyzed = @ + 1]
                                 ELSE [runs EXCEPT ![run[p]].failed = @ + 1]
        /\ done' = [done EXCEPT ![p] = @ \ {outcome}]
        /\ UNCHANGED <<library, lock, pc, request, todo, run, aborts>>

\* persist_outcome: attempt, projection and counter commit together, the
\* facts being those of the Track selected before the extraction.
Persist(p, outcome) ==
    /\ pc[p] = "extract"
    /\ outcome \in done[p]
    /\ attempts' = Append(attempts, [track |-> outcome.track, run |-> run[p],
                                     identity |-> identity[p],
                                     facts |-> snap[p][outcome.track],
                                     content |-> outcome.content, ok |-> outcome.ok])
    /\ current' = IF outcome.ok THEN Advance(outcome.track, Len(attempts) + 1) ELSE current
    /\ runs' = IF outcome.ok THEN [runs EXCEPT ![run[p]].analyzed = @ + 1]
                             ELSE [runs EXCEPT ![run[p]].failed = @ + 1]
    /\ done' = [done EXCEPT ![p] = @ \ {outcome}]
    /\ UNCHANGED <<library, lock, pc, request, todo, run, aborts>>

\* finish_run: the status follows from the committed counters.
Finish(p) ==
    /\ pc[p] = "extract"
    /\ todo[p] = {} /\ done[p] = {}
    /\ LET r == runs[run[p]]
       IN  runs' = [runs EXCEPT ![run[p]].status =
                       DeriveStatus(r.eligible, r.analyzed, r.reused, r.failed)]
    /\ pc' = [pc EXCEPT ![p] = "release"]
    /\ UNCHANGED <<library, attempts, current, lock, request, todo, done, run, aborts>>

\* What a process forgets when its invocation is over.
Forget(p) ==
    /\ pc' = [pc EXCEPT ![p] = "idle"]
    /\ lock' = NoProc
    /\ forced' = [forced EXCEPT ![p] = FALSE]
    /\ selected' = [selected EXCEPT ![p] = {}]
    /\ snap' = [snap EXCEPT ![p] = [t \in Tracks |-> 0]]
    /\ reused' = [reused EXCEPT ![p] = {}]
    /\ todo' = [todo EXCEPT ![p] = {}]
    /\ done' = [done EXCEPT ![p] = {}]
    /\ run' = [run EXCEPT ![p] = 0]
    /\ UNCHANGED <<library, database, identity>>

Release(p) ==
    /\ pc[p] = "release"
    /\ Forget(p)
    /\ UNCHANGED aborts

\* The process is killed, or a transaction raises and the exception leaves
\* run(): SQLite keeps what was committed and the lock is dropped.
Abort(p) ==
    /\ pc[p] # "idle"
    /\ aborts < MaxAborts
    /\ Forget(p)
    /\ aborts' = aborts + 1

-----------------------------------------------------------------------------
(* The rest of the system *)

\* Mutant of Rebuild: the newest attempt of a track, successful or not.
RebuildFromNewestAttempt ==
    /\ current' = [t \in Tracks |->
           LET mine == {i \in 1..Len(attempts) : attempts[i].track = t}
           IN  IF mine = {} THEN 0 ELSE CHOOSE i \in mine : \A j \in mine : j <= i]
    /\ UNCHANGED <<library, runs, attempts, lock, pc, request, todo, done, run, aborts>>

\* database rebuild-current-analysis: no advisory lock, one transaction.
Rebuild ==
    /\ current' = [t \in Tracks |->
                      CHOOSE i \in 0..Len(attempts) : IsLatestSuccess(t, i)]
    /\ UNCHANGED <<library, runs, attempts, lock, pc, request, todo, done, run, aborts>>

EditFile(t) ==
    /\ disk[t] < MaxVersion
    /\ disk' = [disk EXCEPT ![t] = @ + 1]
    /\ UNCHANGED <<catalog, analyzable, database, lock, pc, request, todo, done, run, aborts>>

\* A scan commits what it read from the file some time ago.
Rescan(t) ==
    /\ \E version \in Versions :
         /\ catalog[t] < version /\ version <= disk[t]
         /\ catalog' = [catalog EXCEPT ![t] = version]
    /\ UNCHANGED <<disk, analyzable, database, lock, pc, request, todo, done, run, aborts>>

\* A scan marks t missing or restores it, or its source is reconfigured.
Reconfigure(t) ==
    /\ analyzable' = IF t \in analyzable THEN analyzable \ {t} ELSE analyzable \cup {t}
    /\ UNCHANGED <<disk, catalog, database, lock, pc, request, todo, done, run, aborts>>

Step(p) ==
    \/ Reconcile(p)
    \/ Select(p)
    \/ ReadReusable(p)
    \/ StartRun(p)
    \/ \E t \in Tracks : Extract(p, t)
    \/ \E outcome \in done[p] : Persist(p, outcome)
    \/ Finish(p)
    \/ Release(p)

Environment ==
    \/ Rebuild
    \/ \E t \in Tracks : EditFile(t) \/ Rescan(t) \/ Reconfigure(t)

Next ==
    \/ \E p \in Procs : Acquire(p) \/ Step(p) \/ Abort(p)
    \/ Environment

Spec == Init /\ [][Next]_vars

\* A pipeline waits for nothing but its workers, and every worker is killed at
\* its timeout; an operator who sees an interrupted run starts another one.
FairSpec ==
    /\ Spec
    /\ \A p \in Procs : WF_vars(Step(p))
    /\ WF_vars(\E p \in Procs : Acquire(p))

-----------------------------------------------------------------------------
(* Properties *)

\* The shape of the catalog's rows and of each process's memory.
TypeOK ==
    /\ disk \in [Tracks -> Versions]
    /\ catalog \in [Tracks -> Versions]
    /\ analyzable \subseteq Tracks
    /\ runs \in Seq(Run)
    /\ attempts \in Seq(Attempt)
    /\ current \in [Tracks -> Nat]
    /\ lock \in Procs \cup {NoProc}
    /\ pc \in [Procs -> {"idle", "reconcile", "select", "reuse", "start", "extract", "release"}]
    /\ identity \in [Procs -> Identities]
    /\ forced \in [Procs -> BOOLEAN]
    /\ selected \in [Procs -> SUBSET Tracks]
    /\ snap \in [Procs -> [Tracks -> Versions]]
    /\ reused \in [Procs -> SUBSET Tracks]
    /\ todo \in [Procs -> SUBSET Tracks]
    /\ done \in [Procs -> SUBSET Outcome]
    /\ run \in [Procs -> Nat]
    /\ aborts \in Nat

\* "current_track_analysis is a materialized projection of the newest
\* successful row": no interleaving of outcomes, crashes and unlocked
\* rebuilds ever shows a reader anything else.
ProjectionIsLatestSuccess == \A t \in Tracks : IsLatestSuccess(t, current[t])

\* A pipeline that is extracting still owns a running run: no other command
\* reconciles a run whose owner is alive.
OwnedRunStaysRunning ==
    \A p \in Procs : pc[p] = "extract" =>
        run[p] \in 1..Len(runs) /\ runs[run[p]].status = "running"

\* Abandoned runs never pile up: at most one run is running, live or dead.
AtMostOneRunning ==
    \A r, s \in 1..Len(runs) :
        runs[r].status = "running" /\ runs[s].status = "running" => r = s

\* The aggregate counters are those of the attempt history, whether a run
\* finished, died half-way or was reconciled.
CountersMatchHistory ==
    \A r \in 1..Len(runs) :
        /\ runs[r].analyzed = Cardinality(AttemptsOf(r, TRUE))
        /\ runs[r].failed = Cardinality(AttemptsOf(r, FALSE))

\* A run is reported "succeeded" only if every selected track was reused or
\* analysed without a failure, and never counts more than it selected.
HonestStatus ==
    \A r \in 1..Len(runs) :
        LET accounted == runs[r].analyzed + runs[r].reused + runs[r].failed
        IN  /\ accounted <= runs[r].eligible
            /\ runs[r].status = "succeeded" => runs[r].failed = 0 /\ accounted = runs[r].eligible

\* What analysis_runs says is true whatever crashed in between: it is settled
\* from the attempts (persistence.py:140-179), one run at most is unsettled, and
\* none claims a success it cannot account for.
RunRecordIsTrue == AtMostOneRunning /\ CountersMatchHistory /\ HonestStatus

\* Outside --force, nothing is extracted that already has a successful attempt
\* for the same facts and identity, whatever other commands did since.
NeverRedoesReusableWork ==
    \A p \in Procs : pc[p] = "extract" /\ ~forced[p] =>
        \A t \in todo[p] \cup {outcome.track : outcome \in done[p]} :
            ~HasSuccess(t, snap[p][t], identity[p])

\* An attempt that can be reused for the file as it is now was computed from
\* the file as it is now, although extraction reads it without any lock.
ReusableIsFresh ==
    \A i \in 1..Len(attempts) :
        attempts[i].facts = disk[attempts[i].track] =>
            attempts[i].content = attempts[i].facts

\* The attempt history only grows and a finished run is never touched again.
HistoryIsAppendOnly ==
    [][/\ Len(attempts) <= Len(attempts')
       /\ \A i \in 1..Len(attempts) : attempts'[i] = attempts[i]
       /\ \A r \in 1..Len(runs) : runs[r].status # "running" => runs'[r] = runs[r]]_vars

\* The status of each run, as a reader of the catalog sees it.
runStatus == [r \in 1..Len(runs) |-> runs[r].status]

History == INSTANCE AnalysisHistory WITH status <- runStatus

\* Whatever the pipelines, crashes and rebuilds do, a reader of the catalog
\* sees only what AnalysisHistory allows.
ImplementsHistory == History!Spec

\* As long as analyze is run again, an interrupted run does not stay running.
RunsAreSettled ==
    \A r \in 1..(MaxRuns + MaxAborts) :
        (r <= Len(runs) /\ runs[r].status = "running")
            ~> (r <= Len(runs) /\ runs[r].status # "running")

=============================================================================
