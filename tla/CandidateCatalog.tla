-------------------------- MODULE CandidateCatalog --------------------------
(***************************************************************************)
(* The read model that curation works on (core/curation/catalog.py): which *)
(* tracks are candidates, one per recording, how a search pages through    *)
(* them, and what a reference resolves to.                                 *)
(*                                                                         *)
(* Every operator is a function of one snapshot of the catalog, as every   *)
(* query of the code is one read transaction.  A snapshot has the rows of  *)
(* the tracks and the sources that are set_eligible.  `facts` is the       *)
(* version of a file (its size and mtime); a fingerprint, an analysis and  *)
(* a format each carry the facts they were measured from, the tags do not. *)
(***************************************************************************)
EXTENDS Integers, Sequences, FiniteSets, SequencesExt, Enumeration

CONSTANTS
    NoHash,    \* the empty fingerprint
    NoWord,    \* a search without a query
    MaxRefs    \* get_candidates takes at most so many references (20)

\* An optional number of a row that is NULL.
Unknown == -1

\* Sources and paths stand for themselves in the order of their names.
Row ==
    [source: Nat, path: Nat, present: BOOLEAN, facts: Nat,
     print: [hash: STRING, facts: Nat],
     analysis: [status: {"missing", "failed", "succeeded"}, facts: Nat, bpm: Int],
     format: [facts: Nat, lossless: {"yes", "no", "unknown"}, depth: Int, bitrate: Int, rate: Int],
     words: SUBSET STRING, bpm: Int]

Available(lib) ==
    {t \in DOMAIN lib.rows : lib.rows[t].present /\ lib.rows[t].source \in lib.eligible}

\* Mutant of Fingerprint: the fingerprint of an older file still groups it.
StaleFingerprint(row) == row.print.hash

\* The joins of _rows keep what was measured from the file as it is.
Fingerprint(row) == IF row.print.facts = row.facts THEN row.print.hash ELSE NoHash
Format(row) ==
    IF row.format.facts = row.facts THEN row.format
    ELSE [row.format EXCEPT !.lossless = "unknown", !.depth = Unknown,
                            !.bitrate = Unknown, !.rate = Unknown]
AnalysisStatus(row) ==
    CASE row.analysis.status = "failed" -> "failed"
      [] row.analysis.status = "succeeded" /\ row.analysis.facts = row.facts -> "ok"
      [] OTHER -> "missing"
PayloadBpm(row) == IF AnalysisStatus(row) = "ok" THEN row.analysis.bpm ELSE Unknown

-----------------------------------------------------------------------------
(* Ranking: one candidate for the tracks that share a current fingerprint. *)

GroupKey(lib, t) ==
    IF Fingerprint(lib.rows[t]) = NoHash THEN <<"track", t>>
    ELSE <<"print", Fingerprint(lib.rows[t])>>

Members(lib, t) == {u \in Available(lib) : GroupKey(lib, u) = GroupKey(lib, t)}

QualityKey(lib, t) ==
    LET row == lib.rows[t]
        f   == Format(row)
    IN  << CASE f.lossless = "yes" -> 0 [] f.lossless = "no" -> 1 [] OTHER -> 2,
           - (IF f.lossless = "yes" THEN f.depth ELSE Unknown),
           - (IF f.lossless = "no" THEN f.bitrate ELSE Unknown),
           - f.rate, row.source, row.path, t >>

\* Python's order of tuples.
Precedes(a, b) == \E i \in DOMAIN a : a[i] < b[i] /\ \A j \in 1..(i - 1) : a[j] = b[j]

Candidates(lib) ==
    {t \in Available(lib) : \A u \in Members(lib, t) \ {t} :
                               Precedes(QualityKey(lib, t), QualityKey(lib, u))}

QualityComplete(row) ==
    LET f == Format(row)
    IN  /\ f.lossless # "unknown"
        /\ f.rate # Unknown
        /\ IF f.lossless = "yes" THEN f.depth # Unknown ELSE f.bitrate # Unknown

QualityStatus(lib, t) ==
    IF Fingerprint(lib.rows[t]) = NoHash THEN "unverified_unfingerprinted"
    ELSE IF Members(lib, t) = {t} THEN "unique"
    ELSE IF \A u \in Members(lib, t) : QualityComplete(lib.rows[u]) THEN "verified_best"
    ELSE "best_effort"

-----------------------------------------------------------------------------
(* Search: filters look at the candidate, a query at its whole group.      *)

GroupWords(lib, t) == UNION {lib.rows[u].words : u \in Members(lib, t)}

Bpm(row) == IF PayloadBpm(row) # Unknown THEN PayloadBpm(row) ELSE row.bpm

Matches(lib, t, f) ==
    LET row == lib.rows[t]
    IN  /\ f.sources # {} => row.source \in f.sources
        /\ f.bpm_max # Unknown => Bpm(row) # Unknown /\ Bpm(row) <= f.bpm_max
        /\ f.lossless # "any" => Format(row).lossless = f.lossless
        /\ f.analysed => AnalysisStatus(row) = "ok"
        /\ f.query # NoWord => f.query \in GroupWords(lib, t)

SuppressedMatch(lib, t, query) ==
    /\ query # NoWord
    /\ query \in GroupWords(lib, t) \ lib.rows[t].words

\* payload bpm `or` tag bpm: a measured 0 shows the tag.
ShownBpm(row) == IF PayloadBpm(row) \notin {Unknown, 0} THEN PayloadBpm(row) ELSE row.bpm

Summary(lib, t, f) ==
    [track |-> t, bpm |-> ShownBpm(lib.rows[t]), status |-> AnalysisStatus(lib.rows[t]),
     quality |-> QualityStatus(lib, t), members |-> Cardinality(Members(lib, t)),
     suppressed |-> SuppressedMatch(lib, t, f.query)]

NoCursor == [after |-> 0]
Cursor(after, f, limit) == [after |-> after, filters |-> f, limit |-> limit]

\* Mutant of CursorFits: any cursor is taken.
AnyCursorFits(cursor, f, limit) == TRUE

\* A cursor is bound to the filters and the limit it was issued for.
CursorFits(cursor, f, limit) ==
    cursor = NoCursor \/ (cursor.filters = f /\ cursor.limit = limit)

Selected(lib, f, after) ==
    Ascending({t \in Candidates(lib) : t > after /\ Matches(lib, t, f)})

\* Mutant of Search: the next page starts after the last match, not after the page.
SearchSkipping(lib, f, limit, cursor) ==
    LET ids == Selected(lib, f, cursor.after)
        page == SubSeq(ids, 1, IF limit < Len(ids) THEN limit ELSE Len(ids))
    IN  [tracks |-> page, summaries |-> [i \in DOMAIN page |-> Summary(lib, page[i], f)],
         next |-> IF Len(ids) > limit THEN Cursor(page[limit] + 1, f, limit) ELSE NoCursor]

\* One page, and the cursor of the next one while there is more.
Search(lib, f, limit, cursor) ==
    LET ids == Selected(lib, f, cursor.after)
        page == SubSeq(ids, 1, IF limit < Len(ids) THEN limit ELSE Len(ids))
    IN  [tracks |-> page, summaries |-> [i \in DOMAIN page |-> Summary(lib, page[i], f)],
         next |-> IF Len(ids) > limit THEN Cursor(page[limit], f, limit) ELSE NoCursor]

-----------------------------------------------------------------------------
(* get_candidates: references are <<source, track>>.                       *)

Ref(lib, t) == <<lib.rows[t].source, t>>

\* Mutant of Resolvable: a suppressed duplicate may be referenced.
ResolvableDuplicate(lib, refs) ==
    /\ Len(refs) \in 1..MaxRefs
    /\ IsInjective(refs)
    /\ \A i \in DOMAIN refs : \E t \in Available(lib) : refs[i] = Ref(lib, t)

Resolvable(lib, refs) ==
    /\ Len(refs) \in 1..MaxRefs
    /\ IsInjective(refs)
    /\ \A i \in DOMAIN refs : \E t \in Candidates(lib) : refs[i] = Ref(lib, t)

\* _details of one candidate: what it tells of the file comes from the file as it is.
Details(lib, t) ==
    LET row == lib.rows[t]
    IN  [ref |-> Ref(lib, t), status |-> AnalysisStatus(row), bpm |-> PayloadBpm(row),
         format |-> Format(row), quality |-> QualityStatus(lib, t),
         members |-> Cardinality(Members(lib, t))]

-----------------------------------------------------------------------------
(* overview: the rows, and two counts of their own.                        *)

Fingerprinted(lib) ==
    {t \in Available(lib) : lib.rows[t].print.hash # NoHash
                            /\ lib.rows[t].print.facts = lib.rows[t].facts}

\* How many candidates have each value of an attribute.
Tally(attribute, values) ==
    [v \in values |-> Cardinality({t \in DOMAIN attribute : attribute[t] = v})]

Overview(lib) ==
    LET rows == Candidates(lib)
    IN  [available |-> Cardinality(Available(lib)),
         candidates |-> Cardinality(rows),
         analysis |-> Tally([t \in rows |-> AnalysisStatus(lib.rows[t])],
                            {"ok", "failed", "missing"}),
         fingerprinted |-> Cardinality(Fingerprinted(lib)),
         quality |-> Tally([t \in rows |-> QualityStatus(lib, t)],
                           {"unique", "verified_best", "best_effort",
                            "unverified_unfingerprinted"})]
=============================================================================
