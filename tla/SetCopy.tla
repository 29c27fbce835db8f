------------------------------ MODULE SetCopy ------------------------------
(***************************************************************************)
(* Copies of tracks out of the library: the standalone `copy` command      *)
(* (core/application/copy_set.py), the export of a curation                *)
(* (core/exports/curation.py) and the copy of one track both use           *)
(* (core/set_copy.py).                                                     *)
(*                                                                         *)
(* The library is somebody else's: while a command copies, its files are   *)
(* edited in place, replaced and removed.  A file is an inode with one     *)
(* version of its content; size, mtime and ctime tell versions apart, and  *)
(* reading it takes two steps, so a copy of a file that is being written   *)
(* may be torn.  Commands interleave at every filesystem call, any call    *)
(* may raise, and a command may be killed.                                 *)
(***************************************************************************)
EXTENDS Integers, Sequences, FiniteSets, SequencesExt, Enumeration

CONSTANTS
    Files,        \* tracks of the library
    SourceOf,     \* the configured source of each
    Curations,    \* curations to export: their tracks, in order
    Playlists,    \* input playlists of `copy`: sequences of lines
    Extra,        \* its --track options
    Hashed,       \* groups that begin with # (and not with #EXTGRP:)
    Names,        \* names of the target directory that others may use, too
    Copiers,      \* commands
    MaxEdits      \* bound: changes others make

NoGroup == ""

\* A line of a playlist is what its prefix says: a group after #EXTGRP:, a comment
\* after any other #, else a track.  _validate_group: a group is not empty.
Line == [line: {"group"}, group: STRING \ {NoGroup}] \cup [line: {"track"}, file: Files]
        \cup [line: {"comment"}]

ASSUME CopyAssumption ==
    /\ IsFiniteSet(Files)
    /\ Playlists \subseteq Seq(Line)
    /\ Curations \subseteq Seq(Files) \ {<< >>}
    /\ Extra \in Seq(Files)
    /\ Names \subseteq [order: Nat, file: Files, group: STRING]
    /\ 0 \notin Copiers
    /\ MaxEdits \in Nat

VARIABLES
    path,      \* the inode of each file, 0 when it is missing
    version,   \* the version each inode holds
    known,     \* the version the catalog has of each file
    edits,     \* changes so far
    copier, job,   \* each command: where it is and what it was asked for
    plan,      \* the entries it copies, in order
    index,     \* the entry it is at
    fd, seen,  \* the inode it has open and the version fstat gave for it
    halves,    \* what it has read of it
    dir,       \* the directory a set is copied into: what each name is there
    staging,   \* the staging directory of each export
    scratch,   \* commands whose temporary file exists
    playlist,  \* what the name of its playlist is there
    listing,   \* what the name of its text list is
    output,    \* what the destination of the exports is
    overlap    \* history: commands that ran while another one did

library == <<path, version, known, edits>>
reading == <<fd, seen, halves>>
command == <<copier, job, plan, index, reading, scratch, overlap>>
results == <<dir, staging, playlist, listing, output>>
copyVars    == <<library, command, results>>

Group(g) == [line |-> "group", group |-> g]
Comment == [line |-> "comment"]
Track(f) == [line |-> "track", file |-> f]
Entry(f, g) == [file |-> f, group |-> g]

\* current_group after the first n lines.
GroupAt(lines, n) ==
    LET groups == {i \in 1..n : lines[i].line = "group"}
    IN  IF groups = {} THEN NoGroup ELSE lines[Max(groups)].group

\* The tracks a playlist lists, in order.
ListedEntries(lines) ==
    LET tracks == Ascending({i \in DOMAIN lines : lines[i].line = "track"})
    IN  [k \in DOMAIN tracks |-> Entry(lines[tracks[k]].file, GroupAt(lines, tracks[k]))]

\* Mutant of PlanEntries: the --track options have no group.
PlanEntriesUngrouped(lines, extra) ==
    ListedEntries(lines) \o [i \in DOMAIN extra |-> Entry(extra[i], NoGroup)]

\* _plan_entries: a group holds until the next one, for the --track options too.
PlanEntries(lines, extra) ==
    ListedEntries(lines)
    \o [i \in DOMAIN extra |-> Entry(extra[i], GroupAt(lines, Len(lines)))]

\* "NN - name" in the directory of its group.
Target(entries, i) == [order |-> i, file |-> entries[i].file, group |-> entries[i].group]

\* group != last_group, and there is one.
IsNewGroup(entries, i) ==
    entries[i].group \notin {NoGroup, IF i = 1 THEN NoGroup ELSE entries[i - 1].group}

\* The line of the playlist that names track i: a line of its own for each track so
\* far, and one for each group.
LineOf(entries, i) == i + Cardinality({j \in 1..i : IsNewGroup(entries, j)})

\* The lines of the playlist, as they are read: a group is written where it
\* changes, and the line of a track begins with its group.
ManifestLines(entries) ==
    [n \in 1..(IF entries = << >> THEN 0 ELSE LineOf(entries, Len(entries))) |->
        LET i == Min({j \in DOMAIN entries : n <= LineOf(entries, j)})
        IN  IF n # LineOf(entries, i) THEN Group(entries[i].group)
            ELSE IF entries[i].group \in Hashed THEN Comment
            ELSE Track(Target(entries, i))]

NoJob == [kind |-> "none", expected |-> << >>]
Nothing == [kind |-> "absent", by |-> 0, entries |-> << >>]
List(c, entries) == [kind |-> "list", by |-> c, entries |-> entries]
Whole(copy) == copy[1] = copy[2]

Busy    == {"resolve", "open", "read", "verify", "place", "recheck", "playlist", "listing",
            "owner", "publish"}
Over    == {"done", "failed", "killed"}
Present(f) == path[f] # 0

CopyTypeOK ==
    /\ path \in [Files -> 0..Len(version)] /\ version \in Seq(Nat)
    /\ edits \in 0..MaxEdits
    /\ copier \in [Copiers -> {"idle"} \cup Busy \cup Over]
    /\ \A c \in Copiers : /\ index[c] \in 0..Len(plan[c]) + 1
                          /\ fd[c] \in 0..Len(version)
                          /\ Len(halves[c]) <= 2
                          /\ staging[c].tracks # << >> => staging[c].exists
    /\ \A t \in DOMAIN dir : dir[t].kind \in {"track", "file", "link", "folder"}
    /\ \A m \in {playlist, listing} : m.kind \in {"absent", "list", "file", "link", "folder"}
    /\ output.kind \in {"absent", "empty", "other", "export"}

CopyInit ==
    /\ path = CHOOSE ids \in [Files -> 1..Cardinality(Files)] : IsInjective(ids)
    /\ version = [i \in 1..Cardinality(Files) |-> 1]
    /\ known = [f \in Files |-> 1]
    /\ edits = 0
    /\ copier = [c \in Copiers |-> "idle"]
    /\ job = [c \in Copiers |-> NoJob]
    /\ plan = [c \in Copiers |-> << >>]
    /\ index = [c \in Copiers |-> 0]
    /\ fd = [c \in Copiers |-> 0]
    /\ seen = [c \in Copiers |-> 0]
    /\ halves = [c \in Copiers |-> << >>]
    /\ dir = [t \in {} |-> << >>]
    /\ staging = [c \in Copiers |-> [exists |-> FALSE, tracks |-> << >>]]
    /\ scratch = {}
    /\ playlist = Nothing
    /\ listing = Nothing
    /\ output = [kind |-> "absent", by |-> 0, copies |-> << >>]
    /\ overlap = {}

-----------------------------------------------------------------------------
(* The library and the destination, in other hands *)

Edited == edits < MaxEdits /\ edits' = edits + 1

EditInPlace(f) ==
    /\ Edited
    /\ Present(f)
    /\ version' = [version EXCEPT ![path[f]] = @ + 1]
    /\ UNCHANGED <<path, known, command, results>>

\* A new inode under the old name, with a new content or the known one.
ReplaceFile(f) ==
    /\ Edited
    /\ \E v \in {known[f], known[f] + 1} : version' = Append(version, v)
    /\ path' = [path EXCEPT ![f] = Len(version) + 1]
    /\ UNCHANGED <<known, command, results>>

RemoveFile(f) ==
    /\ Edited
    /\ Present(f)
    /\ path' = [path EXCEPT ![f] = 0]
    /\ UNCHANGED <<version, known, command, results>>

Rescan(f) ==
    /\ Present(f)
    /\ known[f] # version[path[f]]
    /\ known' = [known EXCEPT ![f] = version[path[f]]]
    /\ UNCHANGED <<path, version, edits, command, results>>

Extend(f, key, value) == [k \in DOMAIN f \cup {key} |-> IF k = key THEN value ELSE f[k]]

\* Is c copying a track to this name, past its look at what is there?
CopiesTo(c, t) ==
    /\ copier[c] \in {"read", "verify", "place"} /\ job[c].kind = "set"
    /\ Target(plan[c], index[c]) = t

\* Of somebody else: a regular file, a link or special file, or a directory; and
\* (history) the commands that were copying to its name.
Foreign(kind, t) == [kind |-> kind, by |-> 0, copy |-> << >>,
                     during |-> {c \in Copiers : CopiesTo(c, t)}]

\* Somebody creates something in the target directory.
Intrude ==
    /\ Edited
    /\ \E kind \in {"file", "link", "folder"} :
         \/ /\ \E t \in Names \ DOMAIN dir : dir' = Extend(dir, t, Foreign(kind, t))
            /\ UNCHANGED <<playlist, listing>>
         \/ /\ playlist.kind = "absent"
            /\ playlist' = [playlist EXCEPT !.kind = kind]
            /\ UNCHANGED <<dir, listing>>
         \/ /\ listing.kind = "absent"
            /\ listing' = [listing EXCEPT !.kind = kind]
            /\ UNCHANGED <<dir, playlist>>
    /\ UNCHANGED <<path, version, known, command, staging, output>>

\* Somebody creates something at the destination of the exports.
Occupy ==
    /\ Edited
    /\ output.kind = "absent"
    /\ \E kind \in {"empty", "other"} : output' = [output EXCEPT !.kind = kind]
    /\ UNCHANGED <<path, version, known, command, dir, staging, playlist, listing>>

-----------------------------------------------------------------------------
(* Starting *)

Running(c) == copier[c] \in Busy

Begin(c, what, entries, expected, at) ==
    /\ copier[c] = "idle"
    /\ job' = [job EXCEPT ![c] = [kind |-> what, expected |-> expected]]
    /\ plan' = [plan EXCEPT ![c] = entries]
    /\ index' = [index EXCEPT ![c] = 1]
    /\ copier' = [copier EXCEPT ![c] = at]
    /\ overlap' = IF \E d \in Copiers : Running(d)
                  THEN overlap \cup {c} \cup {d \in Copiers : Running(d)} ELSE overlap

\* CopySetUseCase.execute up to the loop: every entry must be there.
StartCopy(c) ==
    /\ \E lines \in Playlists :
           LET entries == PlanEntries(lines, Extra)
           IN  /\ entries # << >>
               /\ \A i \in DOMAIN entries : Present(entries[i].file)
               /\ Begin(c, "set", entries, << >>, "open")
    /\ UNCHANGED <<library, reading, scratch, results>>

\* export_curation: the destination is free, and one read transaction gives
\* the tracks and their facts.  A playlist of paths is for a single source.
StartExport(c) ==
    /\ output.kind = "absent"
    /\ \E tracks \in Curations, what \in {"report", "paths", "copies"} :
           /\ what = "paths" => \A i, j \in DOMAIN tracks :
                                    SourceOf[tracks[i]] = SourceOf[tracks[j]]
           /\ Begin(c, what, [i \in DOMAIN tracks |-> Entry(tracks[i], NoGroup)],
                    [i \in DOMAIN tracks |-> known[tracks[i]]],
                    IF what = "report" THEN "publish" ELSE "resolve")
    /\ staging' = [staging EXCEPT ![c].exists = TRUE]
    /\ UNCHANGED <<library, reading, scratch, dir, playlist, listing, output>>

\* The locals of a command that is over are gone; what it was asked for is
\* kept for the properties when it succeeded.
Leave(c, how) ==
    /\ copier' = [copier EXCEPT ![c] = how]
    /\ job' = [job EXCEPT ![c] = IF how = "done" THEN @ ELSE NoJob]
    /\ plan' = [plan EXCEPT ![c] = << >>]
    /\ index' = [index EXCEPT ![c] = 0]
    /\ fd' = [fd EXCEPT ![c] = 0]
    /\ seen' = [seen EXCEPT ![c] = 0]
    /\ halves' = [halves EXCEPT ![c] = << >>]

File(c) == plan[c][index[c]].file
Expected(c) == job[c].expected[index[c]]
Last1(c) == index[c] = Len(plan[c])

\* _resolve_track of an export: the file is there with the facts of the catalog.
Resolved(c) == Present(File(c)) /\ version[path[File(c)]] = Expected(c)

ResolveAll(c) ==
    /\ copier[c] = "resolve"
    /\ Resolved(c)
    /\ index' = [index EXCEPT ![c] = IF Last1(c) THEN 1 ELSE @ + 1]
    /\ copier' = [copier EXCEPT ![c] = IF ~Last1(c) THEN "resolve"
                               ELSE IF job[c].kind = "copies" THEN "open" ELSE "publish"]
    /\ UNCHANGED <<library, job, plan, reading, scratch, overlap, results>>

-----------------------------------------------------------------------------
(* copy_track_atomic *)

Here(c) == Target(plan[c], index[c])
Is(t, kinds) == t \in DOMAIN dir /\ dir[t].kind \in kinds

\* Mutant of OpenSource: what is at the name is not looked at.
OpenSourceUnchecked(c) ==
    /\ copier[c] = "open"
    /\ Present(File(c))
    /\ job[c].kind = "copies" => version[path[File(c)]] = Expected(c)
    /\ fd' = [fd EXCEPT ![c] = path[File(c)]]
    /\ seen' = [seen EXCEPT ![c] = version[path[File(c)]]]
    /\ halves' = [halves EXCEPT ![c] = << >>]
    /\ scratch' = scratch \cup {c}
    /\ copier' = [copier EXCEPT ![c] = "read"]
    /\ UNCHANGED <<library, job, plan, index, overlap, results>>

\* What is at the name, unless it is new, is a regular file; then the temporary
\* file, the source, its fstat and the expected facts, if any.
OpenSource(c) ==
    /\ copier[c] = "open"
    /\ job[c].kind = "set" => ~Is(Here(c), {"link", "folder"})
    /\ Present(File(c))
    /\ job[c].kind = "copies" => version[path[File(c)]] = Expected(c)
    /\ fd' = [fd EXCEPT ![c] = path[File(c)]]
    /\ seen' = [seen EXCEPT ![c] = version[path[File(c)]]]
    /\ halves' = [halves EXCEPT ![c] = << >>]
    /\ scratch' = scratch \cup {c}
    /\ copier' = [copier EXCEPT ![c] = "read"]
    /\ UNCHANGED <<library, job, plan, index, overlap, results>>

\* copyfileobj reads what the open inode holds at that moment.
ReadHalf(c) ==
    /\ copier[c] = "read"
    /\ halves' = [halves EXCEPT ![c] = Append(@, version[fd[c]])]
    /\ copier' = [copier EXCEPT ![c] = IF Len(halves[c]) = 1 THEN "verify" ELSE "read"]
    /\ UNCHANGED <<library, job, plan, index, fd, seen, scratch, overlap, results>>

\* Mutant of VerifyUnchanged: only the path is looked at.
VerifyPath(c) ==
    /\ copier[c] = "verify"
    /\ path[File(c)] = fd[c]
    /\ copier' = [copier EXCEPT ![c] = "place"]
    /\ UNCHANGED <<library, job, plan, index, reading, scratch, overlap, results>>

\* _verify_source_unchanged: the inode as it was, and still under its name.
VerifyUnchanged(c) ==
    /\ copier[c] = "verify"
    /\ version[fd[c]] = seen[c]
    /\ path[File(c)] = fd[c]
    /\ copier' = [copier EXCEPT ![c] = "place"]
    /\ UNCHANGED <<library, job, plan, index, reading, scratch, overlap, results>>

Placed(c) == [kind |-> "track", by |-> c, copy |-> halves[c], during |-> {}]

\* Mutant of Copied: a file that is there already is taken for the copy.
CopiedOnce(c) == IF Here(c) \in DOMAIN dir THEN dir ELSE Extend(dir, Here(c), Placed(c))

\* The policy `replace`.
Copied(c) == Extend(dir, Here(c), Placed(c))

\* os.replace of the temporary file, over anything but a directory.
Place(c) ==
    /\ copier[c] = "place"
    /\ IF job[c].kind = "set"
       THEN /\ ~Is(Here(c), {"folder"})
            /\ dir' = Copied(c)
            /\ UNCHANGED staging
       ELSE /\ staging' = [staging EXCEPT ![c].tracks = Append(@, halves[c])]
            /\ UNCHANGED dir
    /\ scratch' = scratch \ {c}
    /\ copier' = [copier EXCEPT ![c] = IF job[c].kind = "copies" THEN "recheck"
                               ELSE IF Last1(c) THEN "playlist" ELSE "open"]
    /\ index' = [index EXCEPT ![c] = IF job[c].kind = "set" /\ ~Last1(c) THEN @ + 1 ELSE @]
    /\ fd' = [fd EXCEPT ![c] = 0]
    /\ seen' = [seen EXCEPT ![c] = 0]
    /\ halves' = [halves EXCEPT ![c] = << >>]
    /\ UNCHANGED <<library, job, plan, overlap, playlist, listing, output>>

\* The export resolves a track once more after its copy.
Recheck(c) ==
    /\ copier[c] = "recheck"
    /\ Resolved(c)
    /\ index' = [index EXCEPT ![c] = IF Last1(c) THEN @ ELSE @ + 1]
    /\ copier' = [copier EXCEPT ![c] = IF Last1(c) THEN "publish" ELSE "open"]
    /\ UNCHANGED <<library, job, plan, reading, scratch, overlap, results>>

-----------------------------------------------------------------------------
(* Publication *)

\* _publish_text: os.replace, without a look at what is there.
PublishPlaylist(c) ==
    /\ copier[c] = "playlist"
    /\ playlist.kind # "folder"
    /\ playlist' = List(c, plan[c])
    /\ copier' = [copier EXCEPT ![c] = "listing"]
    /\ UNCHANGED <<library, job, plan, index, reading, scratch, overlap, dir, staging,
                   listing, output>>

PublishListing(c) ==
    /\ copier[c] = "listing"
    /\ listing.kind # "folder"
    /\ listing' = List(c, plan[c])
    /\ copier' = [copier EXCEPT ![c] = "owner"]
    /\ UNCHANGED <<library, job, plan, index, reading, scratch, overlap, dir, staging,
                   playlist, output>>

\* _set_recursive_ownership, and the result.
SetOwner(c) ==
    /\ copier[c] = "owner"
    /\ Leave(c, "done")
    /\ UNCHANGED <<library, scratch, overlap, results>>

\* os.replace of a directory succeeds over nothing and over an empty directory.
Vacant == output.kind \in {"absent", "empty"}

PublishExport(c) ==
    /\ copier[c] = "publish"
    /\ Vacant
    /\ output' = [kind |-> "export", by |-> c, copies |-> staging[c].tracks]
    /\ staging' = [staging EXCEPT ![c] = [exists |-> FALSE, tracks |-> << >>]]
    /\ Leave(c, "done")
    /\ UNCHANGED <<library, scratch, overlap, dir, playlist, listing>>

-----------------------------------------------------------------------------
(* Failure *)

\* Mutant of Fail: the temporary file of the track being copied stays.
FailLittering(c) ==
    /\ Running(c)
    /\ Leave(c, "failed")
    /\ staging' = [staging EXCEPT ![c] = [exists |-> FALSE, tracks |-> << >>]]
    /\ UNCHANGED <<library, scratch, overlap, dir, playlist, listing, output>>

\* What rmtree leaves of the staging directory: it ignores its errors.
Remains(c) == {[exists |-> FALSE, tracks |-> << >>],
               [exists |-> staging[c].exists, tracks |-> << >>], staging[c]}

\* A check that does not hold, or any call that raises: the temporary file is
\* unlinked and an export removes its staging directory; the tracks a `copy` has
\* placed, and a list it has published, stay.
Fail(c) ==
    /\ Running(c)
    /\ Leave(c, "failed")
    /\ scratch' = scratch \ {c}
    /\ \E left \in Remains(c) : staging' = [staging EXCEPT ![c] = left]
    /\ UNCHANGED <<library, overlap, dir, playlist, listing, output>>

KillCopier(c) ==
    /\ Running(c)
    /\ Leave(c, "killed")
    /\ UNCHANGED <<library, scratch, overlap, results>>

Step(c) ==
    \/ StartCopy(c) \/ StartExport(c) \/ ResolveAll(c)
    \/ OpenSource(c) \/ ReadHalf(c) \/ VerifyUnchanged(c) \/ Place(c) \/ Recheck(c)
    \/ PublishPlaylist(c) \/ PublishListing(c) \/ SetOwner(c) \/ PublishExport(c)
    \/ Fail(c) \/ KillCopier(c)

CopyNext ==
    \/ \E f \in Files : EditInPlace(f) \/ ReplaceFile(f) \/ RemoveFile(f) \/ Rescan(f)
    \/ Intrude
    \/ Occupy
    \/ \E c \in Copiers : Step(c)

CopySpec == CopyInit /\ [][CopyNext]_copyVars

-----------------------------------------------------------------------------
(* Properties *)

\* No copy is torn, in the set, in a staging directory or published: each is
\* one version of its source, whatever wrote to the library meanwhile
\* (copy_track_atomic verifies the open inode after reading it).
CopiesAreWhole ==
    /\ \A t \in DOMAIN dir : dir[t].kind = "track" => Whole(dir[t].copy)
    /\ \A c \in Copiers : \A i \in DOMAIN staging[c].tracks : Whole(staging[c].tracks[i])

\* A published export is complete and is what the catalog described when it
\* was read: with copies, one of every track of the curation, in order, each
\* of the version whose facts the catalog had (export_curation).
ExportsMatchTheCatalog ==
    output.kind = "export" =>
        LET j == job[output.by]
        IN  IF j.kind = "copies"
            THEN output.copies = [i \in DOMAIN j.expected |-> <<j.expected[i], j.expected[i]>>]
            ELSE output.copies = << >>

\* The run checks the two together, with the types.
CopiesAreTrue == CopyTypeOK /\ CopiesAreWhole /\ ExportsMatchTheCatalog

\* A published list names only tracks that a command copied there; the playlist
\* read as an input again gives the entries of the set with their groups, but for
\* those whose group begins with #: their lines are read as comments.
SetsReadBack ==
    /\ \A m \in {playlist, listing} : \A i \in DOMAIN m.entries :
           Is(Target(m.entries, i), {"track"})
    /\ LET entries == playlist.entries
           plain   == Ascending({i \in DOMAIN entries : entries[i].group \notin Hashed})
       IN  PlanEntries(ManifestLines(entries), << >>)
               = [k \in DOMAIN plain |-> Entry(Target(entries, plain[k]), entries[plain[k]].group)]

\* Before it hands the set over to its owner, a `copy` that overlapped no other one
\* has both lists published and every track of them copied by itself, whatever was
\* there before; afterwards the two lists stay one set until the next playlist.
SetsAreComplete ==
    \A c \in Copiers \ overlap :
        /\ copier[c] = "owner" =>
               /\ playlist = List(c, plan[c]) /\ listing = playlist
               /\ \A i \in DOMAIN plan[c] : dir[Target(plan[c], i)].by = c
        /\ copier[c] = "done" /\ job[c].kind = "set" /\ playlist.by = c => listing = playlist

\* No temporary file is left by a command that could unlink it, nor the staging
\* directory of an export that succeeded.  What a failed `copy` has placed stays.
NothingLeftBehind ==
    \A c \in Copiers : /\ copier[c] \in {"done", "failed"} => c \notin scratch
                       /\ copier[c] = "done" => ~staging[c].exists

\* What a set is, once it is published, and what a command leaves beside it.
SetsAreSettled == SetsReadBack /\ SetsAreComplete /\ NothingLeftBehind

\* Others' names in the target directory: only a command that copies a track to a
\* name changes what is there, never a directory, and a link only if it appeared
\* after the command had looked (copy_track_atomic).  And what is at the
\* destination of an export, but for an empty directory, is never overwritten, also
\* when it appeared after the export had started.
OthersAreKept ==
    [][/\ \A t \in DOMAIN dir : t \in DOMAIN dir' /\
             (dir'[t] = dir[t]
              \/ /\ CopiesTo(dir'[t].by, t)
                 /\ \/ dir[t].kind \in {"track", "file"}
                    \/ dir[t].kind = "link" /\ dir'[t].by \in dir[t].during)
       /\ output.kind \in {"export", "other"} => output' = output]_<<dir, output>>

\* Known exception, in no run.  docs/cli-usage.md:94-96 says of tracks and manifests that symbolic
\* links at the generated names are refused: a manifest replaces the link.
ListsReplaceNoLink ==
    [][\A m \in {<<playlist, playlist'>>, <<listing, listing'>>} :
           m[1].kind = "link" => m[2] = m[1]]_<<playlist, listing>>
=============================================================================
