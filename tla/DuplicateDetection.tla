------------------------- MODULE DuplicateDetection -------------------------
(***************************************************************************)
(* Duplicates: DuplicateService.analyze (core/duplicates/service.py) and   *)
(* QualitySelector.mark_best_quality (core/duplicates/quality.py), which   *)
(* runs inside analyze and, without the advisory lock, on its own.         *)
(*                                                                         *)
(* One analyze fingerprints and probes files with bounded workers, stores  *)
(* each result in a transaction of its own, groups tracks by their hash,   *)
(* measures the members of groups, rebuilds the DJ projection and marks    *)
(* the best copies.  Meanwhile files are edited, moved away and back,      *)
(* scans rewrite the catalog and other commands reconfigure the sources.   *)
(*                                                                         *)
(* A version of a file stands for its (size_bytes, mtime_ns) and its       *)
(* audio; it never returns to an earlier one.  Version 0 means none.       *)
(***************************************************************************)
EXTENDS Integers, Sequences, FiniteSets, FiniteSetsExt

CONSTANTS
    Tracks, Sources, Procs,
    NoTrack, NoProc,
    AllSources,   \* the scope of a command without --source
    SourceOf,     \* source of each track
    Hashes,       \* fingerprint hashes
    HashOf,       \* hash of the audio of each version of a track
    FactsOf,      \* technical facts a probe finds in each version
    TrackOrder,   \* rank of each track by source_id, relative_path, id
    Scopes,       \* scopes mark-best-quality is given
    Known,        \* tracks an earlier command has fingerprinted and probed
    Requests,     \* what analyze may be asked for: scope, mark, mastering
    Workers,      \* --workers
    MaxVersion,   \* bound: versions of one file
    MaxChanges,   \* bound: edits, moves, reconfigurations, failures, aborts
    MaxCommands   \* bound: commands started

ASSUME DuplicateAssumption ==
    /\ IsFiniteSet(Tracks) /\ SourceOf \in [Tracks -> Sources]
    /\ HashOf \in [Tracks -> [1..MaxVersion -> Hashes]]
    /\ FactsOf \in [Tracks -> [1..MaxVersion ->
           [lossless: {"yes", "no", "unknown"}, bit_depth: Nat, sample_rate: Nat, bitrate: Nat]]]
    /\ TrackOrder \in [Tracks -> Nat]
    /\ \A t, u \in Tracks : t # u => TrackOrder[t] # TrackOrder[u]
    /\ Known \subseteq Tracks
    /\ Scopes \subseteq Sources \cup {AllSources}
    /\ Requests \subseteq [scope: Sources \cup {AllSources}, mark: BOOLEAN, mastering: BOOLEAN]
    /\ NoTrack \notin Tracks /\ NoProc \notin Procs /\ AllSources \notin Sources
    /\ Workers \in Nat \ {0}
    /\ {MaxVersion, MaxChanges, MaxCommands} \subseteq Nat \ {0}

VARIABLES
    disk,        \* version of each file
    gone,        \* files moved out of the library
    config,      \* state of each source in the configuration file
    changes,     \* changes so far (bound only)
    catalog,     \* tracks.size_bytes and mtime_ns: the version last scanned
    present,     \* tracks whose presence_status is present
    enabled,     \* library_sources with enabled = 1
    fingerprint, \* audio_fingerprints: input facts, version that was read
    technical,   \* technical_audio_metadata, likewise
    attempts,    \* mastering_analysis, indexed by id
    mastering,   \* current_mastering_analysis: id of the attempt, 0 if none
    dj,          \* current_dj_analysis: the mastering row it references
    selection,   \* duplicate_quality_selections by source and hash
    lock,        \* holder of the advisory lock "duplicates"
    cmd,         \* local state of each command
    started      \* commands started (bound only)

library     == <<disk, gone, config>>
tracksVars  == <<catalog, present, enabled>>
audioVars   == <<fingerprint, technical>>
masterVars  == <<attempts, mastering, dj>>
stored      == <<audioVars, masterVars, selection>>
environment == <<library, tracksVars>>
vars        == <<environment, stored, changes, lock, cmd, started>>

Version == 0..MaxVersion
Row     == [facts: Version, content: Version]
Attempt == [track: Tracks, facts: Version, ok: BOOLEAN]
NoRow   == [facts |-> 0, content |-> 0]
NoWork  == [step |-> "none", content |-> 0, probed |-> 0]
Nothing == [t \in Tracks |-> 0]

Idle == [pc |-> "idle", scope |-> AllSources, mark |-> FALSE, mastering |-> FALSE,
         roots |-> {}, seen |-> Nothing, listed |-> Nothing, members |-> Nothing, todo |-> {},
         work |-> [t \in Tracks |-> NoWork], failed |-> FALSE, unprobed |-> FALSE,
         unmeasured |-> FALSE, known |-> Nothing, chosen |-> << >>,
         same |-> TRUE]  \* history: the scope was the same when the groups were read

SourceStates == {"enabled", "disabled", "absent"}

InScope(t, scope) == scope \in {AllSources, SourceOf[t]}

\* present_tracks: what a command remembers of each track, 0 if not listed.
PresentTracks(scope) ==
    [t \in Tracks |-> IF t \in present /\ SourceOf[t] \in enabled /\ InScope(t, scope)
                      THEN catalog[t] ELSE 0]

Listed(seen) == {t \in Tracks : seen[t] # 0}

\* Tracks with a fingerprint that groups() joins, and the hash stored for one.
Current(scope)  == {t \in Listed(PresentTracks(scope)) : fingerprint[t].facts = catalog[t]}
HashStored(t)   == HashOf[t][fingerprint[t].content]
Sharing(ts, t)  == {u \in ts : HashStored(u) = HashStored(t)}

\* groups(): the tracks that share their hash with another one in the scope.
GroupMembers(scope) ==
    LET ts == Current(scope) IN {t \in ts : Cardinality(Sharing(ts, t)) >= 2}

\* The quality rank of a track with the facts of one version: lower is better.
Unknown(x) == IF x = 0 THEN -1 ELSE x
RankKey(t, version) ==
    LET facts == FactsOf[t][version] IN
    CASE facts.lossless = "yes" ->
             <<0, -Unknown(facts.bit_depth), -Unknown(facts.sample_rate), TrackOrder[t]>>
      [] facts.lossless = "no" ->
             <<1, -Unknown(facts.bitrate), -Unknown(facts.sample_rate), TrackOrder[t]>>
      [] OTHER -> <<2, 0, 0, TrackOrder[t]>>

Precedes(k, l) == \E i \in DOMAIN k : k[i] < l[i] /\ \A j \in 1..(i - 1) : k[j] = l[j]

\* min of the members by rank, with the facts that were read of each.
Best(members, facts) ==
    CHOOSE t \in members : \A u \in members \ {t} :
        Precedes(RankKey(t, facts[t]), RankKey(u, facts[u]))

\* The winner of each group of one source; NoTrack where it has no group.
Winners(source, members, facts) ==
    [h \in Hashes |->
        LET mine == {t \in members : SourceOf[t] = source /\ HashStored(t) = h}
        IN IF Cardinality(mine) >= 2 THEN Best(mine, facts) ELSE NoTrack]

MarkedSources(scope, seen) ==
    IF scope = AllSources THEN {SourceOf[t] : t \in Listed(seen)} ELSE {scope}

-----------------------------------------------------------------------------
Init ==
    /\ disk = [t \in Tracks |-> 1]
    /\ gone = {}
    /\ config = [source \in Sources |-> "enabled"]
    /\ changes = 0
    /\ catalog = [t \in Tracks |-> 1]
    /\ present = Tracks
    /\ enabled = Sources
    /\ fingerprint = [t \in Tracks |-> IF t \in Known THEN [facts |-> 1, content |-> 1] ELSE NoRow]
    /\ technical = fingerprint
    /\ attempts = << >>
    /\ mastering = Nothing
    /\ dj = Nothing
    /\ selection = [source \in Sources |-> [h \in Hashes |-> NoTrack]]
    /\ lock = NoProc
    /\ cmd = [p \in Procs |-> Idle]
    /\ started = 0

At(p, pc) == cmd[p].pc = pc

\* What the environment and the tools may do MaxChanges times.
Change == changes < MaxChanges /\ changes' = changes + 1

\* A step of p that only changes its own record.
Becomes(p, record) ==
    /\ cmd' = [cmd EXCEPT ![p] = record]
    /\ UNCHANGED <<environment, stored, lock, started>>
Local(p, record) == Becomes(p, record) /\ UNCHANGED changes

\* A tool reads the file of t: the version it finds, or 0 when it fails.
Reads(t, version, readable) ==
    \/ version = disk[t] /\ readable /\ UNCHANGED changes
    \/ version = 0 /\ readable /\ Change
    \/ version = 0 /\ ~readable /\ UNCHANGED changes

Errors == {"no root", "foreign key", "no facts", "aborted"}

\* An error escapes: nothing of an open transaction remains.
Raise(p, error) ==
    /\ cmd' = [cmd EXCEPT ![p] = [Idle EXCEPT !.pc = error]]
    /\ lock' = IF lock = p THEN NoProc ELSE lock
    /\ UNCHANGED <<environment, stored, started>>

\* Start-up updates the sources the configuration names and leaves a row whose
\* source was dropped from it as it is.
Upserted ==
    {source \in Sources : \/ config[source] = "enabled"
                          \/ config[source] = "absent" /\ source \in enabled}

Configured == {source \in Sources : config[source] # "absent"}

\* A named scope must be an enabled source of the configuration.
Start(p, record) ==
    /\ At(p, "idle")
    /\ started < MaxCommands
    /\ record.scope \in {AllSources} \cup {source \in Sources : config[source] = "enabled"}
    /\ started' = started + 1
    /\ enabled' = Upserted
    /\ cmd' = [cmd EXCEPT ![p] = record]
    /\ UNCHANGED <<library, catalog, present, stored, changes>>

\* Mutant of Begin: the advisory lock is not respected.
BeginUnlocked(p, request) ==
    /\ lock' = p
    /\ Start(p, [Idle EXCEPT !.pc = "select", !.roots = Configured, !.scope = request.scope,
                             !.mark = request.mark, !.mastering = request.mastering])

Begin(p, request) ==
    /\ lock = NoProc
    /\ lock' = p
    /\ Start(p, [Idle EXCEPT !.pc = "select", !.roots = Configured, !.scope = request.scope,
                             !.mark = request.mark, !.mastering = request.mastering])

\* duplicates mark-best-quality takes no lock.
BeginMark(p, scope) ==
    /\ Start(p, [Idle EXCEPT !.pc = "present", !.scope = scope])
    /\ UNCHANGED lock

\* present_tracks and the reusable fingerprints, which only the holder of the
\* lock writes.
Select(p) ==
    LET seen == PresentTracks(cmd[p].scope) IN
    /\ At(p, "select")
    /\ Local(p, [cmd[p] EXCEPT
           !.pc = "extract", !.seen = seen,
           !.todo = {t \in Listed(seen) : fingerprint[t].facts # seen[t]}])

Working(p) == {t \in Tracks : cmd[p].work[t] # NoWork}

\* TRACK_ORDER: tracks are taken up in this order.
First(ts) == CHOOSE t \in ts : \A u \in ts : TrackOrder[t] <= TrackOrder[u]

\* bounded_results: at most Workers results are in flight or unconsumed.
Submit(p, t, work) ==
    /\ Cardinality(Working(p)) < Workers
    /\ Becomes(p, [cmd[p] EXCEPT !.todo = @ \ {t}, !.work[t] = work])

\* A worker fingerprints the file as it is now, or fails to.
Fingerprint(p, t) ==
    /\ At(p, "extract")
    /\ cmd[p].todo # {} /\ t = First(cmd[p].todo)
    /\ SourceOf[t] \in cmd[p].roots
    /\ \E version \in Version :
        /\ Reads(t, version, t \notin gone)
        /\ Submit(p, t, [NoWork EXCEPT !.step = IF version = 0 THEN "ready" ELSE "probe",
                                       !.content = version])

\* A source dropped from the configuration stays enabled in the catalog:
\* _path_for finds no root, and the KeyError escapes through the result.
MissingRoot(p, t) ==
    /\ At(p, "extract")
    /\ cmd[p].todo # {} /\ t = First(cmd[p].todo)
    /\ SourceOf[t] \notin cmd[p].roots
    /\ Raise(p, "no root") /\ UNCHANGED changes

\* ffprobe reads the same path, later; any error is swallowed.
Probe(p, t) ==
    /\ At(p, "extract")
    /\ cmd[p].work[t].step = "probe"
    /\ \E version \in Version :
        /\ Reads(t, version, t \notin gone)
        /\ Becomes(p, [cmd[p] EXCEPT !.work[t].step = "ready", !.work[t].probed = version,
                                     !.unprobed = @ \/ version = 0])

\* upsert_fingerprint: what a worker read, under the facts of the Track it was given.
FingerprintRow(facts, content) == [facts |-> facts, content |-> content]

\* upsert_facts: likewise, the loudness measured before is left alone.
TechnicalRow(facts, content) == [facts |-> facts, content |-> content]

\* Mutant of Persist: the row is stored under the facts of the catalog now.
PersistUnderNewFacts(p, t) ==
    LET work == cmd[p].work[t] IN
    /\ At(p, "extract")
    /\ work.step = "ready"
    /\ cmd' = [cmd EXCEPT ![p].work[t] = NoWork, ![p].failed = @ \/ work.content = 0]
    /\ fingerprint' = IF work.content = 0 THEN fingerprint
                      ELSE [fingerprint EXCEPT ![t] = FingerprintRow(catalog[t], work.content)]
    /\ technical' = IF work.probed = 0 THEN technical
                    ELSE [technical EXCEPT ![t] = TechnicalRow(catalog[t], work.probed)]
    /\ UNCHANGED <<environment, masterVars, selection, changes, lock, started>>

\* The results are consumed one by one in the command's own thread; what a
\* worker has read is stored under the facts the track was selected with.
Persist(p, t) ==
    LET work == cmd[p].work[t] IN
    /\ At(p, "extract")
    /\ work.step = "ready"
    /\ cmd' = [cmd EXCEPT ![p].work[t] = NoWork, ![p].failed = @ \/ work.content = 0]
    /\ fingerprint' = IF work.content = 0 THEN fingerprint
                      ELSE [fingerprint EXCEPT ![t] = FingerprintRow(cmd[p].seen[t], work.content)]
    /\ technical' = IF work.probed = 0 THEN technical
                    ELSE [technical EXCEPT ![t] = TechnicalRow(cmd[p].seen[t], work.probed)]
    /\ UNCHANGED <<environment, masterVars, selection, changes, lock, started>>

Extracted(p) == At(p, "extract") /\ cmd[p].todo = {} /\ Working(p) = {}

\* A selection survives while its track is present with a current fingerprint
\* of that hash and current technical facts.
StillSupports(t, h) ==
    /\ t \in present
    /\ fingerprint[t].facts = catalog[t]
    /\ HashStored(t) = h
    /\ technical[t].facts = catalog[t]

Invalidate(p) ==
    /\ Extracted(p)
    /\ cmd' = [cmd EXCEPT ![p].pc = "groups"]
    /\ selection' = [source \in Sources |-> [h \in Hashes |->
           LET t == selection[source][h] IN
           IF t # NoTrack /\ StillSupports(t, h) THEN t ELSE NoTrack]]
    /\ UNCHANGED <<environment, audioVars, masterVars, changes, lock, started>>

\* Marking follows unless a fingerprint failed.
AfterMastering(c) ==
    [c EXCEPT !.pc = IF c.mark /\ ~c.failed THEN "present" ELSE "return", !.roots = {}]

Measured(t, facts) == mastering[t] # 0 /\ attempts[mastering[t]].facts = facts

\* groups() of the scope and, with --mastering, which members to measure.
Groups(p) ==
    LET c       == cmd[p]
        members == GroupMembers(c.scope)
        facts   == [t \in Tracks |-> IF t \in members THEN catalog[t] ELSE 0] IN
    /\ At(p, "groups")
    /\ Local(p, IF c.mastering /\ members # {}
                THEN [c EXCEPT !.pc = "measure", !.members = facts,
                               !.todo = {t \in members : ~Measured(t, facts[t])}]
                ELSE AfterMastering(c))

\* ffmpeg measures the file; every error, a missing root too, is a result.
\* Groups come in some order of their hashes, their members in TRACK_ORDER.
Measure(p, t) ==
    /\ At(p, "measure")
    /\ t \in cmd[p].todo /\ t = First(Sharing(cmd[p].todo, t))
    /\ \E version \in Version :
        /\ Reads(t, version, t \notin gone /\ SourceOf[t] \in cmd[p].roots)
        /\ Submit(p, t, [NoWork EXCEPT !.step = "ready", !.content = version])

\* Mutant of Store: a failed attempt takes over the projection too.
StoreAlways(p, t) ==
    LET ok == cmd[p].work[t].content # 0
        id == Len(attempts) + 1 IN
    /\ At(p, "measure")
    /\ cmd[p].work[t].step = "ready"
    /\ ok => dj[t] = 0
    /\ attempts' = Append(attempts, [track |-> t, facts |-> cmd[p].members[t], ok |-> ok])
    /\ mastering' = [mastering EXCEPT ![t] = id]
    /\ cmd' = [cmd EXCEPT ![p].work[t] = NoWork, ![p].unmeasured = @ \/ ~ok]
    /\ UNCHANGED <<environment, audioVars, dj, selection, changes, lock, started>>

\* Mutant of Store: the id is not the one the insert was given.
StoreNextId(p, t) ==
    LET ok == cmd[p].work[t].content # 0
        id == Len(attempts) + 2 IN
    /\ At(p, "measure")
    /\ cmd[p].work[t].step = "ready"
    /\ ok => dj[t] = 0
    /\ attempts' = Append(attempts, [track |-> t, facts |-> cmd[p].members[t], ok |-> ok])
    /\ mastering' = IF ok THEN [mastering EXCEPT ![t] = id] ELSE mastering
    /\ cmd' = [cmd EXCEPT ![p].work[t] = NoWork, ![p].unmeasured = @ \/ ~ok]
    /\ UNCHANGED <<environment, audioVars, dj, selection, changes, lock, started>>

\* _persist: the attempt and, if it succeeded, the projection.
Store(p, t) ==
    LET ok == cmd[p].work[t].content # 0
        id == Len(attempts) + 1 IN
    /\ At(p, "measure")
    /\ cmd[p].work[t].step = "ready"
    /\ ok => dj[t] = 0
    /\ attempts' = Append(attempts, [track |-> t, facts |-> cmd[p].members[t], ok |-> ok])
    /\ mastering' = IF ok THEN [mastering EXCEPT ![t] = id] ELSE mastering
    /\ cmd' = [cmd EXCEPT ![p].work[t] = NoWork, ![p].unmeasured = @ \/ ~ok]
    /\ UNCHANGED <<environment, audioVars, dj, selection, changes, lock, started>>

\* current_dj_analysis still references the row the upsert would renumber: the
\* foreign key fails, the transaction is rolled back and the error escapes.
StoreRefused(p, t) ==
    /\ At(p, "measure")
    /\ cmd[p].work[t].step = "ready"
    /\ cmd[p].work[t].content # 0
    /\ dj[t] # 0
    /\ Raise(p, "foreign key") /\ UNCHANGED changes

RebuildDj(p) ==
    /\ At(p, "measure")
    /\ cmd[p].todo = {} /\ Working(p) = {}
    /\ dj' = mastering
    /\ cmd' = [cmd EXCEPT ![p] = AfterMastering(cmd[p])]
    /\ UNCHANGED <<environment, audioVars, attempts, mastering, selection, changes, lock, started>>

\* mark_best_quality lists the tracks again.
ReadPresent(p) ==
    LET seen == PresentTracks(cmd[p].scope) IN
    /\ At(p, "present")
    /\ Local(p, [cmd[p] EXCEPT !.pc = "facts", !.listed = seen, !.todo = Listed(seen)])

\* _current_facts: the version whose facts are stored, 0 when not current.
\* Both rows are written by one transaction, so one step reads them.
ReadFacts(p, t) ==
    LET current == {fingerprint[t].facts, technical[t].facts} = {cmd[p].listed[t]} IN
    /\ At(p, "facts")
    /\ cmd[p].todo # {} /\ t = First(cmd[p].todo)
    /\ Local(p, [cmd[p] EXCEPT !.todo = @ \ {t},
                               !.known[t] = IF current THEN technical[t].content ELSE 0])

\* mark_best_quality returns and forgets what it read.
Marked(c) == [c EXCEPT !.pc = "return", !.listed = Nothing, !.known = Nothing,
                       !.chosen = << >>, !.same = TRUE]

\* One track without current facts and nothing is marked.
Refuse(p) ==
    /\ At(p, "facts") /\ cmd[p].todo = {}
    /\ Listed(cmd[p].known) # Listed(cmd[p].listed)
    /\ Local(p, Marked(cmd[p]))

CanElect(p) ==
    /\ At(p, "facts") /\ cmd[p].todo = {}
    /\ Listed(cmd[p].known) = Listed(cmd[p].listed)

\* The members groups() returns now that have a rival in a marked source.
Ranked(p) ==
    LET c       == cmd[p]
        members == GroupMembers(c.scope)
        rivals(t) == {u \in Sharing(members, t) : SourceOf[u] = SourceOf[t]}
    IN {t \in members : SourceOf[t] \in MarkedSources(c.scope, c.listed)
                        /\ Cardinality(rivals(t)) >= 2}

\* The groups are queried and the winners computed before they are stored.
Elect(p) ==
    LET c == cmd[p] IN
    /\ CanElect(p)
    /\ Ranked(p) \subseteq Listed(c.known)
    /\ Local(p, [c EXCEPT !.pc = "commit", !.same = c.listed = PresentTracks(c.scope), !.chosen =
           [source \in MarkedSources(c.scope, c.listed) |-> Winners(source, Ranked(p), c.known)]])

\* A ranked member was not listed: facts_by_track has no entry for it.
MissingFacts(p) ==
    /\ CanElect(p)
    /\ ~ (Ranked(p) \subseteq Listed(cmd[p].known))
    /\ Raise(p, "no facts") /\ UNCHANGED changes

\* Mutant of Commit: selections are inserted without deleting the old ones.
CommitMerging(p) ==
    /\ At(p, "commit")
    /\ selection' = [source \in Sources |->
           [h \in Hashes |->
               IF source \in DOMAIN cmd[p].chosen /\ cmd[p].chosen[source][h] # NoTrack
               THEN cmd[p].chosen[source][h] ELSE selection[source][h]]]
    /\ cmd' = [cmd EXCEPT ![p] = Marked(@)]
    /\ UNCHANGED <<environment, audioVars, masterVars, changes, lock, started>>

\* replace_quality_selections of every marked source, in one transaction.
Commit(p) ==
    /\ At(p, "commit")
    /\ selection' = [source \in Sources |->
           IF source \in DOMAIN cmd[p].chosen THEN cmd[p].chosen[source] ELSE selection[source]]
    /\ cmd' = [cmd EXCEPT ![p] = Marked(@)]
    /\ UNCHANGED <<environment, audioVars, masterVars, changes, lock, started>>

\* DuplicateAnalysisResult.status; a refused marking does not show in it.
Succeeds(p) == At(p, "return") /\ lock = p /\ ~cmd[p].failed /\ ~cmd[p].unmeasured

Return(p) ==
    /\ cmd[p].pc \in {"return"} \cup Errors
    /\ cmd' = [cmd EXCEPT ![p] = Idle]
    /\ lock' = IF lock = p THEN NoProc ELSE lock
    /\ UNCHANGED <<environment, stored, changes, started>>

\* The command is killed, or an error of the database or of a missing ffmpeg
\* escapes; what was committed stays.
Abort(p) ==
    /\ cmd[p].pc \notin {"idle"} \cup Errors
    /\ Raise(p, "aborted") /\ Change

-----------------------------------------------------------------------------
\* The library and the other commands.
EditFile(t) ==
    /\ Change
    /\ t \notin gone
    /\ disk[t] < MaxVersion
    /\ disk' = [disk EXCEPT ![t] = @ + 1]
    /\ UNCHANGED <<gone, config, tracksVars, stored, lock, cmd, started>>

\* The file leaves the library, or returns as it was.
MoveFile(t) ==
    /\ Change
    /\ gone' = IF t \in gone THEN gone \ {t} ELSE gone \cup {t}
    /\ UNCHANGED <<disk, config, tracksVars, stored, lock, cmd, started>>

\* The operator edits the configuration file.
Reconfigure(source, state) ==
    /\ Change
    /\ config[source] # state
    /\ config' = [config EXCEPT ![source] = state]
    /\ UNCHANGED <<disk, gone, tracksVars, stored, lock, cmd, started>>

\* The start-up of another command.
StartUp ==
    /\ enabled' = Upserted
    /\ UNCHANGED <<library, catalog, present, stored, changes, lock, cmd, started>>

\* The transactions of one scan of a source, as far as tracks show them.
Scan(source) ==
    LET found == {t \in Tracks \ gone : SourceOf[t] = source} IN
    /\ config[source] = "enabled"
    /\ catalog' = [t \in Tracks |-> IF t \in found THEN disk[t] ELSE catalog[t]]
    /\ present' = {t \in present : SourceOf[t] # source} \cup found
    /\ UNCHANGED <<library, changes, enabled, stored, lock, cmd, started>>

Next ==
    \/ \E p \in Procs :
        \/ \E request \in Requests : Begin(p, request)
        \/ \E scope \in Scopes : BeginMark(p, scope)
        \/ Select(p) \/ Invalidate(p) \/ Groups(p) \/ RebuildDj(p)
        \/ ReadPresent(p) \/ Refuse(p) \/ Elect(p) \/ MissingFacts(p) \/ Commit(p)
        \/ Return(p) \/ Abort(p)
        \/ \E t \in Tracks :
            \/ Fingerprint(p, t) \/ MissingRoot(p, t) \/ Probe(p, t) \/ Persist(p, t)
            \/ Measure(p, t) \/ Store(p, t) \/ StoreRefused(p, t)
            \/ ReadFacts(p, t)
    \/ \E t \in Tracks : EditFile(t) \/ MoveFile(t)
    \/ StartUp
    \/ \E source \in Sources :
        \/ Scan(source)
        \/ \E state \in SourceStates : Reconfigure(source, state)

Spec == Init /\ [][Next]_vars

-----------------------------------------------------------------------------
Work == [step: {"none", "probe", "ready"}, content: Version, probed: Version]
Pcs  == {"idle", "select", "extract", "groups", "measure", "present", "facts",
         "commit", "return"} \cup Errors

\* The shape of the library, the tables and each command's memory.
TypeOK ==
    /\ disk \in [Tracks -> 1..MaxVersion] /\ catalog \in [Tracks -> 1..MaxVersion]
    /\ gone \subseteq Tracks /\ present \subseteq Tracks /\ enabled \subseteq Sources
    /\ config \in [Sources -> SourceStates]
    /\ fingerprint \in [Tracks -> Row] /\ technical \in [Tracks -> Row]
    /\ attempts \in Seq(Attempt)
    /\ mastering \in [Tracks -> 0..Len(attempts)] /\ dj \in [Tracks -> 0..Len(attempts)]
    /\ selection \in [Sources -> [Hashes -> Tracks \cup {NoTrack}]]
    /\ lock \in Procs \cup {NoProc}
    /\ \A p \in Procs :
        /\ cmd[p].pc \in Pcs
        /\ {cmd[p].seen, cmd[p].listed, cmd[p].members, cmd[p].known} \subseteq [Tracks -> Version]
        /\ cmd[p].todo \subseteq Tracks
        /\ cmd[p].work \in [Tracks -> Work]

\* A row that the catalog takes for current was read from that version of the
\* file or a later one, and one that agrees with the disk from exactly that.
RowsAreFresh ==
    \A t \in Tracks : \A row \in {fingerprint[t], technical[t]} :
        /\ row.facts <= row.content
        /\ row.facts = disk[t] => row.content = disk[t]

\* Whatever happens between a scan, the reads of the file and the stores
\* (service.py:375-401), no row is paired with facts of another version of its
\* file: once the catalog agrees with the disk, groups() and the ranking use the
\* audio as it is.
StoredRowsAreFresh == TypeOK /\ RowsAreFresh

\* current_mastering_analysis is the last successful attempt of each track and
\* current_dj_analysis, if it has the track, was derived from that very row,
\* after any mixture of failures, re-measurements and killed commands.
MasteringIsLatest ==
    \A t \in Tracks :
        /\ mastering[t] =
              LET ok == {i \in DOMAIN attempts : attempts[i].track = t /\ attempts[i].ok}
              IN IF ok = {} THEN 0 ELSE Max(ok)
        /\ dj[t] \in {0, mastering[t]}

\* An analyze about to answer "succeeded" has a fingerprint of every track it
\* listed, and with --mastering a measurement of every member of a group, under
\* exactly the facts it listed them with, whether it made or reused them.
SucceededMeansCurrent ==
    \A p \in Procs : Succeeds(p) =>
        \A t \in Tracks :
            /\ cmd[p].seen[t] # 0 => fingerprint[t].facts = cmd[p].seen[t]
            /\ cmd[p].members[t] # 0 => Measured(t, cmd[p].members[t])

\* Marking reads tracks, facts and groups one query at a time and without a
\* lock.  If the tracks of the scope are, both when it reads the groups and when
\* it stores the winners, what it listed at first, every group of every marked
\* source gets the best of its members as the catalog then describes them, and
\* a hash that is no group there gets none.
StableMarkingIsBest ==
    [][\A p \in Procs :
        LET c     == cmd[p]
            facts == [t \in Tracks |-> technical[t].content] IN
        At(p, "commit") /\ cmd'[p].pc = "return" /\ c.same /\ c.listed = PresentTracks(c.scope) =>
            \A source \in MarkedSources(c.scope, c.listed) :
                selection'[source] = Winners(source, Current(c.scope), facts)]_vars

\* What docs/ARCHITECTURE.md:339 says of a measurement that fails: the command
\* counts it and ends; it does not raise.
MeasuringNeverRaises == \A p \in Procs : ~At(p, "foreign key")

\* Known exception, in no run.  What docs/cli-usage.md:212 says against a refusal
\* to mark, "analyze that scope first": but an analysis in which nothing failed may
\* reuse a fingerprint and leave marking without the technical facts it needs.
CleanAnalysisAllowsMarking ==
    \A p \in Procs : Succeeds(p) /\ ~cmd[p].unprobed =>
        \A t \in Listed(cmd[p].seen) : technical[t].facts = cmd[p].seen[t]
=============================================================================
