-------------------------- MODULE MetadataRefresh --------------------------
(***************************************************************************)
(* Embedded metadata: MetadataService.refresh and ExifToolExtractor        *)
(* (core/metadata/exiftool.py) over EmbeddedMetadataRepository and         *)
(* EventRepository (core/catalog/repositories.py).                         *)
(*                                                                         *)
(* The service selects tracks by the facts of the catalog, lets exiftool   *)
(* read their files outside any transaction, and stores every row in one   *)
(* transaction.  Nothing locks metadata: two commands may do this at once, *)
(* while files are edited and scans commit.                                *)
(*                                                                         *)
(* A file's facts (size and mtime) are its version; the tags exiftool      *)
(* finds in it are a function of that version.                             *)
(***************************************************************************)
EXTENDS Integers, Sequences, FiniteSets

CONSTANTS
    Tracks,      \* source-relative paths of audio files
    Id,          \* tracks.id of each
    Extractors,  \* commands that extract metadata
    MaxVersion   \* bound: versions of one file

ASSUME MetadataAssumption ==
    /\ IsFiniteSet(Tracks) /\ Id \in [Tracks -> Nat] /\ MaxVersion \in Nat \ {0}

VARIABLES
    files,     \* version of each file now, 0 when it does not exist
    tracks,    \* tracks: facts 0 when there is no row
    metadata,  \* embedded_metadata: input facts and the version that was read
    events,    \* metadata events of each track, oldest first
    pc,        \* where each command is
    present,   \* present_count, read first
    eligible,  \* facts of each selected Track, 0 when it is not selected
    tags,      \* version exiftool read of each selected track, 0 for none
    unread,    \* selected tracks of the batches still to be read
    counted    \* MetadataRunResult of each command

catalog      == <<tracks, metadata, events>>
extraction   == <<present, eligible, tags, unread, counted>>
metadataVars == <<files, catalog, pc, extraction>>

NoFacts   == [t \in Tracks |-> 0]
NotRun    == [extracted |-> 0, failed |-> 0, skipped |-> 0]
NoRow     == [facts |-> 0, read |-> 0]
IsPresent(t) == tracks[t].present
Present   == {t \in Tracks : IsPresent(t)}
Stored(t) == metadata[t] # NoRow

-----------------------------------------------------------------------------
(* Tags and the events about them *)

\* Two owned tags: one that every edit changes, one that few do, and that is
\* absent (0) from the first version.
TagsOf(version) == [title |-> version, comment |-> version \div 2]
Fields == {"title", "comment"}

\* _changed_fields: against no row, the fields that have a value.
ChangedFields(previous, version) ==
    {field \in Fields : TagsOf(version)[field] #
                            (IF previous = 0 THEN 0 ELSE TagsOf(previous)[field])}

Changed(fields) == [type |-> "changed", fields |-> fields]
Failed          == [type |-> "failed", fields |-> {}]

\* The status property of MetadataRunResult.
MetadataStatus(result) ==
    CASE result.failed = 0 -> "succeeded"
      [] result.failed > 0 /\ result.extracted = 0 -> "failed"
      [] OTHER -> "partial"

-----------------------------------------------------------------------------
(* MetadataService.refresh *)

CountPresent(p) ==
    /\ pc[p] = "count"
    /\ present' = [present EXCEPT ![p] = Cardinality(Present)]
    /\ pc' = [pc EXCEPT ![p] = "version"]
    /\ UNCHANGED <<files, catalog, eligible, tags, unread, counted>>

\* exiftool is missing: one transaction records a failure of every present track.
VersionMissing(p) ==
    /\ pc[p] = "version"
    /\ events' = [t \in Tracks |-> IF IsPresent(t) THEN Append(events[t], Failed) ELSE events[t]]
    /\ counted' = [counted EXCEPT ![p] = [NotRun EXCEPT !.failed = Cardinality(Present)]]
    /\ present' = [present EXCEPT ![p] = 0]
    /\ pc' = [pc EXCEPT ![p] = "extracted"]
    /\ UNCHANGED <<files, tracks, metadata, eligible, tags, unread>>

\* Mutant of Outdated: a row is trusted once it exists.
OutdatedOnlyMissing(t) == ~Stored(t)

Outdated(t) == ~Stored(t) \/ metadata[t].facts # tracks[t].facts

\* The version is known.  eligible_tracks: present tracks without a row for their facts, or all of
\* them (--force, or another extractor or normalisation version).
SelectEligible(p) ==
    /\ pc[p] = "version"
    /\ \E force \in BOOLEAN :
         LET chosen == {t \in Present : force \/ Outdated(t)}
         IN  /\ eligible' = [eligible EXCEPT ![p] =
                                [t \in Tracks |-> IF t \in chosen THEN tracks[t].facts ELSE 0]]
             /\ unread' = [unread EXCEPT ![p] = chosen]
             /\ counted' = [counted EXCEPT ![p] =
                                [NotRun EXCEPT !.skipped = present[p] - Cardinality(chosen)]]
             /\ pc' = [pc EXCEPT ![p] = IF chosen = {} THEN "extracted" ELSE "extract"]
    /\ present' = [present EXCEPT ![p] = 0]
    /\ UNCHANGED <<files, catalog, tags>>

Eligible(p) == {t \in Tracks : eligible[p][t] # 0}

\* In the order of the ids, exiftool reads one file as it is now, or reports no
\* metadata for it; a file that is gone has none.
ReadTags(p, t) ==
    /\ pc[p] = "extract"
    /\ t \in unread[p]
    /\ \A u \in unread[p] : Id[t] <= Id[u]
    /\ \E readable \in BOOLEAN :
         tags' = [tags EXCEPT ![p][t] = IF readable THEN files[t] ELSE 0]
    /\ unread' = [unread EXCEPT ![p] = @ \ {t}]
    /\ UNCHANGED <<files, catalog, pc, present, eligible, counted>>

\* One batch raises (timeout, no output, invalid JSON): what the other batches
\* returned is lost too.
BatchRaises(p) ==
    /\ pc[p] = "extract"
    /\ tags' = [tags EXCEPT ![p] = NoFacts]
    /\ unread' = [unread EXCEPT ![p] = {}]
    /\ UNCHANGED <<files, catalog, pc, present, eligible, counted>>

\* What every command forgets once it stored its batch.
Discard(p) ==
    /\ eligible' = [eligible EXCEPT ![p] = NoFacts]
    /\ tags' = [tags EXCEPT ![p] = NoFacts]
    /\ UNCHANGED present

Count(p, extracted) ==
    counted' = [counted EXCEPT ![p].extracted = Cardinality(extracted),
                               ![p].failed = Cardinality(Eligible(p) \ extracted)]

\* EmbeddedMetadataRepository.upsert: every column replaced, under the facts of
\* the Track the batch was selected with.
MetadataRow(facts, read) == [facts |-> facts, read |-> read]

\* Mutant of Store: the rows take the facts the catalog has by now.
StoreFreshFacts(p) ==
    LET extracted == {t \in Eligible(p) : tags[p][t] # 0}
    IN  /\ pc[p] = "extract" /\ unread[p] = {}
        /\ metadata' = [t \in Tracks |-> IF t \in extracted
                            THEN MetadataRow(tracks[t].facts, tags[p][t])
                            ELSE metadata[t]]
        /\ Count(p, extracted) /\ Discard(p)
        /\ pc' = [pc EXCEPT ![p] = "extracted"]
        /\ UNCHANGED <<files, tracks, events, unread>>

\* Mutant of Store: the event compares with what exiftool found, not with the row.
StoreComparingFacts(p) ==
    LET extracted == {t \in Eligible(p) : tags[p][t] # 0}
    IN  /\ pc[p] = "extract" /\ unread[p] = {}
        /\ metadata' = [t \in Tracks |-> IF t \in extracted
                            THEN MetadataRow(eligible[p][t], tags[p][t])
                            ELSE metadata[t]]
        /\ events' = [t \in Tracks |->
               IF t \in extracted /\ tags[p][t] # eligible[p][t]
               THEN Append(events[t], Changed(ChangedFields(eligible[p][t], tags[p][t])))
               ELSE events[t]]
        /\ Count(p, extracted) /\ Discard(p)
        /\ pc' = [pc EXCEPT ![p] = "extracted"]
        /\ UNCHANGED <<files, tracks, unread>>

\* One transaction: a row or a failure event for each selected track, and an
\* event for the fields in which the row it replaces differs.
Store(p) ==
    LET extracted == {t \in Eligible(p) : tags[p][t] # 0}
        changed(t) == ChangedFields(metadata[t].read, tags[p][t])
    IN  /\ pc[p] = "extract" /\ unread[p] = {}
        /\ metadata' = [t \in Tracks |-> IF t \in extracted
                            THEN MetadataRow(eligible[p][t], tags[p][t])
                            ELSE metadata[t]]
        /\ events' = [t \in Tracks |->
               CASE t \in Eligible(p) \ extracted -> Append(events[t], Failed)
                 [] t \in extracted /\ changed(t) # {} -> Append(events[t], Changed(changed(t)))
                 [] OTHER -> events[t]]
        /\ Count(p, extracted) /\ Discard(p)
        /\ pc' = [pc EXCEPT ![p] = "extracted"]
        /\ UNCHANGED <<files, tracks, unread>>

MetadataStep(p) ==
    \/ CountPresent(p)
    \/ VersionMissing(p)
    \/ SelectEligible(p)
    \/ \E t \in Tracks : ReadTags(p, t)
    \/ BatchRaises(p)
    \/ Store(p)

-----------------------------------------------------------------------------
(* Properties *)

\* A row was read from a file at least as recent as the facts it is stored
\* under: a file edited after its scan can only make its row look outdated,
\* never pass old tags for those of the new file.
MetadataIsOfItsFacts == \A t \in Tracks : metadata[t].read >= metadata[t].facts

\* embedded_metadata_changed tells the history of a row: each change of its
\* values appends one event with exactly the fields that changed, also when
\* another command stored a row between the selection and the transaction.
EventsTellEveryChange ==
    [][\A t \in Tracks :
          LET fields == IF metadata'[t] = NoRow THEN {}
                        ELSE ChangedFields(metadata[t].read, metadata'[t].read)
              told == IF fields = {} THEN << >> ELSE <<Changed(fields)>>
          IN  \/ events'[t] = events[t] \o told
              \/ fields = {} /\ events'[t] = Append(events[t], Failed)]_<<metadata, events>>

\* Known exception, in no run.  The command's report accounts for the tracks it
\* counted: but a scan that commits between present_count and eligible_tracks makes more
\* tracks eligible than were counted, and `skipped` is negative.
SkippedIsACount == \A p \in Extractors : counted[p].skipped >= 0
=============================================================================
