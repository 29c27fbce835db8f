--------------------------- MODULE CurationAgent ---------------------------
(***************************************************************************)
(* Curation: the bounded loop between a language model and the catalog     *)
(* tools (core/curation/agent.py), the tools (core/mcp_server.py), the     *)
(* drafts they store (core/curation/repository.py) and the commands that   *)
(* validate them, while other commands commit changes to the catalog.      *)
(*                                                                         *)
(* Each tool reads a snapshot of its own, and create_curation reads in one *)
(* transaction what it stores in another: a change may commit between any  *)
(* two.  The completion is a request to a service that may answer          *)
(* anything, fail, or not answer before the deadline of the run.           *)
(***************************************************************************)
EXTENDS CandidateCatalog

CONSTANTS
    Libraries,       \* a sequence: the snapshots the catalog may go through
    Filters, Limits, \* searches the model may ask for
    Agents,          \* `curation create` commands
    Validators,      \* `curation validate` commands
    MaxTurns,        \* max_turns of the configuration
    MaxTracks,       \* max_tracks of the request
    MaxCalls,        \* bound: reads in one response (a write may follow one)
    MaxChanges,      \* bound: changes of the catalog
    Nobody           \* validated_at of a draft

TrackIds == DOMAIN Libraries[1].rows

\* The snapshots have the rows of the same tracks, under their ids; a search asks
\* for at least one (CurationCatalog.search).
ASSUME CurationAssumption ==
    /\ Libraries # << >>
    /\ Libraries \in Seq([rows: [TrackIds -> Row], eligible: SUBSET Nat])
    /\ TrackIds \subseteq Nat \ {0} /\ IsFiniteSet(TrackIds)
    /\ Limits \subseteq Nat \ {0}
    /\ MaxRefs \in Nat
    /\ MaxTurns \in Nat \ {0}
    /\ MaxTracks \in Nat \ {0}
    /\ MaxCalls \in Nat \ {0}
    /\ MaxChanges \in Nat

VARIABLES
    history,   \* the snapshots of the catalog so far, the current one last
    drafts,    \* curation_creations, in the order they were stored
    pc,        \* where each agent is
    turns,     \* completions it has had
    calls,     \* tool calls of the last response it has not made yet
    alone,     \* that response had one call
    resolved,  \* the snapshot in which create_curation resolved its tracks
    draft,     \* the draft it stored, 0 for none
    outcome,   \* how the run ended
    paging,    \* history: the pages of its last search
    shown,     \* history: the tracks its searches and gets have returned
    checking   \* where each validator is, and the draft it looks at

agent == <<pc, turns, calls, alone, resolved, draft, outcome, paging, shown>>
vars  == <<history, drafts, agent, checking>>

At(n)   == Libraries[history[n]]
catalog == At(Len(history))
Tracks  == DOMAIN catalog.rows
Now     == Len(history)

Outcome == {"none", "success", "stale", "unavailable", "client", "timeout", "killed"}

Forbidden == [tool |-> "forbidden"]
Ask(f, limit, again) == [tool |-> "search", filters |-> f, limit |-> limit, again |-> again]
Look(refs) == [tool |-> "get", refs |-> refs]
Create(refs) == [tool |-> "create", refs |-> refs]

\* References to rows of the catalog, and to a row it does not have.
Refs == {Ref(catalog, t) : t \in Tracks} \cup {<<0, 0>>}
RefLists == (UNION {[1..n -> Refs] : n \in 0..MaxTracks}) \cup {SetToSeq(Refs \ {<<0, 0>>})}

Reads  == {Ask(f, l, again) : f \in Filters, l \in Limits, again \in BOOLEAN}
          \cup {Look(<<r>>) : r \in Refs} \cup {[tool |-> "overview"]}
Writes == {Create(refs) : refs \in RefLists}

\* The pages of a search, and the snapshots they were read from.
NoPages == [ids |-> << >>, next |-> NoCursor, snapshots |-> {}, query |-> << >>]

TypeOK ==
    /\ history # << >> /\ history \in Seq(DOMAIN Libraries)
    /\ \A i \in DOMAIN drafts :
           /\ drafts[i].tracks \in Seq(Tracks)
           /\ drafts[i].status \in {"draft", "validated"}
           /\ drafts[i].validated \in Validators \cup {Nobody}
    /\ pc \in [Agents -> {"idle", "completing", "calling", "storing", "stored", "ended"}]
    /\ turns \in [Agents -> 0..MaxTurns]
    /\ outcome \in [Agents -> Outcome]
    /\ \A a \in Agents : /\ draft[a] \in 0..Len(drafts)
                         /\ Len(calls[a]) <= MaxCalls + 1
                         /\ pc[a] = "ended" <=> outcome[a] # "none"
    /\ \A v \in Validators : checking[v].draft \in 0..Len(drafts)

Init ==
    /\ history \in {<<n>> : n \in DOMAIN Libraries}
    /\ drafts = << >>
    /\ pc = [a \in Agents |-> "idle"]
    /\ turns = [a \in Agents |-> 0]
    /\ calls = [a \in Agents |-> << >>]
    /\ alone = [a \in Agents |-> FALSE]
    /\ resolved = [a \in Agents |-> 0]
    /\ draft = [a \in Agents |-> 0]
    /\ outcome = [a \in Agents |-> "none"]
    /\ paging = [a \in Agents |-> NoPages]
    /\ shown = [a \in Agents |-> {}]
    /\ checking = [v \in Validators |-> [at |-> "idle", draft |-> 0]]

\* A scan, a metadata, analysis or duplicates command, or a new configuration.
CatalogChanges ==
    /\ Len(history) <= MaxChanges
    /\ \E n \in DOMAIN Libraries \ {Last(history)} : history' = Append(history, n)
    /\ UNCHANGED <<drafts, agent, checking>>

-----------------------------------------------------------------------------
(* The agent *)

\* The run is over, and its local state with it.
End(a, result) ==
    /\ pc' = [pc EXCEPT ![a] = "ended"]
    /\ outcome' = [outcome EXCEPT ![a] = result]
    /\ turns' = [turns EXCEPT ![a] = 0]
    /\ calls' = [calls EXCEPT ![a] = << >>]
    /\ alone' = [alone EXCEPT ![a] = FALSE]
    /\ paging' = [paging EXCEPT ![a] = NoPages]
    /\ shown' = [shown EXCEPT ![a] = {}]

Run(a) ==
    /\ pc[a] = "idle"
    /\ pc' = [pc EXCEPT ![a] = "completing"]
    /\ UNCHANGED <<history, drafts, turns, calls, alone, resolved, draft, outcome, paging,
                   shown, checking>>

\* The for loop is exhausted.
TurnsExhausted(a) ==
    /\ pc[a] = "completing"
    /\ turns[a] = MaxTurns
    /\ End(a, "timeout")
    /\ UNCHANGED <<history, drafts, resolved, draft, checking>>

\* Mutant of Respond: the turn is not counted.
RespondUncounted(a, response) ==
    /\ pc[a] = "completing"
    /\ turns[a] < MaxTurns
    /\ calls' = [calls EXCEPT ![a] = response]
    /\ alone' = [alone EXCEPT ![a] = Len(response) = 1]
    /\ pc' = [pc EXCEPT ![a] = "calling"]
    /\ UNCHANGED <<history, drafts, turns, resolved, draft, outcome, paging, shown, checking>>

\* A response with tool calls.
Respond(a, response) ==
    /\ pc[a] = "completing"
    /\ turns[a] < MaxTurns
    /\ turns' = [turns EXCEPT ![a] = @ + 1]
    /\ calls' = [calls EXCEPT ![a] = response]
    /\ alone' = [alone EXCEPT ![a] = Len(response) = 1]
    /\ pc' = [pc EXCEPT ![a] = "calling"]
    /\ UNCHANGED <<history, drafts, resolved, draft, outcome, paging, shown, checking>>

NoToolCall(a) ==
    /\ pc[a] = "completing"
    /\ turns[a] < MaxTurns
    /\ End(a, "stale")
    /\ UNCHANGED <<history, drafts, resolved, draft, checking>>

\* The process of the completion does not start, dies, is killed at the deadline,
\* answers too much or an answer that cannot be read, or reports an error.
CompletionFails(a) ==
    /\ pc[a] = "completing"
    /\ turns[a] < MaxTurns
    /\ End(a, "client")
    /\ UNCHANGED <<history, drafts, resolved, draft, checking>>

\* asyncio.timeout cancels the run at its next await: in the completion, whose
\* process is killed, or around a tool call, whose own work has no await.
Timeout(a) ==
    /\ pc[a] \in {"completing", "calling", "stored"}
    /\ End(a, "timeout")
    /\ UNCHANGED <<history, drafts, resolved, draft, checking>>

\* The command is killed, or leaves by an exception it does not translate.
Kill(a) ==
    /\ pc[a] \notin {"idle", "ended"}
    /\ End(a, "killed")
    /\ UNCHANGED <<history, drafts, resolved, draft, checking>>

Call(a, tool) == pc[a] = "calling" /\ calls[a] # << >> /\ Head(calls[a]).tool = tool

NextCall(a) == calls' = [calls EXCEPT ![a] = Tail(@)]

\* A tool that is not offered, or arguments that are not a JSON object.
Refuse(a) ==
    /\ Call(a, "forbidden")
    /\ \E result \in {"stale", "client"} : End(a, result)
    /\ UNCHANGED <<history, drafts, resolved, draft, checking>>

ReadOverview(a) ==
    /\ Call(a, "overview")
    /\ NextCall(a)
    /\ UNCHANGED <<history, drafts, pc, turns, alone, resolved, draft, outcome, paging, shown,
                   checking>>

\* A search, from the beginning or with the cursor of the last page.
SearchCandidates(a) ==
    /\ Call(a, "search")
    /\ LET ask    == Head(calls[a])
           cursor == IF ask.again THEN paging[a].next ELSE NoCursor
           page   == Search(catalog, ask.filters, ask.limit, cursor)
           first  == cursor = NoCursor
       IN IF CursorFits(cursor, ask.filters, ask.limit)
          THEN /\ NextCall(a)
               /\ paging' = [paging EXCEPT ![a] =
                      [ids |-> (IF first THEN << >> ELSE @.ids) \o page.tracks,
                       next |-> page.next,
                       snapshots |-> (IF first THEN {} ELSE @.snapshots) \cup {Now},
                       query |-> IF first THEN <<ask.filters, ask.limit>> ELSE @.query]]
               /\ shown' = [shown EXCEPT ![a] = @ \cup Range(page.tracks)]
               /\ UNCHANGED <<pc, outcome, turns, alone>>
          ELSE End(a, "unavailable")
    /\ UNCHANGED <<history, drafts, resolved, draft, checking>>

TracksOf(refs) == [i \in DOMAIN refs |-> refs[i][2]]

GetCandidates(a) ==
    /\ Call(a, "get")
    /\ LET refs == Head(calls[a]).refs
       IN IF Resolvable(catalog, refs)
          THEN /\ NextCall(a)
               /\ shown' = [shown EXCEPT ![a] = @ \cup Range(TracksOf(refs))]
               /\ UNCHANGED <<pc, outcome, turns, alone, paging>>
          ELSE End(a, "unavailable")
    /\ UNCHANGED <<history, drafts, resolved, draft, checking>>

\* A tool, or the check of what was stored, cannot open or read the catalog.  The
\* agent tells the errors of a write by their words, and those of this one are of
\* an unavailable track.
ReadFails(a) ==
    /\ \/ /\ pc[a] = "calling" /\ calls[a] # << >>
          /\ LET tool == Head(calls[a]).tool
             IN  /\ tool # "forbidden"
                 /\ End(a, IF tool = "create" THEN "stale" ELSE "unavailable")
       \/ pc[a] = "stored" /\ End(a, "stale")
    /\ UNCHANGED <<history, drafts, resolved, draft, checking>>

\* Mutant of ResolveCreation: a write among other calls, or of too many tracks.
ResolveCreationUnguarded(a) ==
    /\ Call(a, "create")
    /\ IF ~Resolvable(catalog, Head(calls[a]).refs)
       THEN End(a, "stale") /\ UNCHANGED resolved
       ELSE /\ pc' = [pc EXCEPT ![a] = "storing"]
            /\ resolved' = [resolved EXCEPT ![a] = Now]
            /\ UNCHANGED <<outcome, turns, calls, alone, paging, shown>>
    /\ UNCHANGED <<history, drafts, draft, checking>>

\* The guards of the agent, then the first half of create_curation.
ResolveCreation(a) ==
    /\ Call(a, "create")
    /\ LET refs == Head(calls[a]).refs
       IN IF ~alone[a] \/ Len(refs) > MaxTracks
          THEN End(a, "stale") /\ UNCHANGED resolved
          ELSE IF refs = << >>
          THEN End(a, "unavailable") /\ UNCHANGED resolved
          ELSE IF ~Resolvable(catalog, refs)
          THEN End(a, "stale") /\ UNCHANGED resolved
          ELSE /\ pc' = [pc EXCEPT ![a] = "storing"]
               /\ resolved' = [resolved EXCEPT ![a] = Now]
               /\ UNCHANGED <<outcome, turns, calls, alone, paging, shown>>
    /\ UNCHANGED <<history, drafts, draft, checking>>

\* Mutant of StillAvailable: create_draft trusts what was resolved.
TrustResolved(lib, tracks) == TRUE

\* Does create_draft's count find every track available?
StillAvailable(lib, tracks) == \A i \in DOMAIN tracks : tracks[i] \in Available(lib)

\* create_draft: one transaction.
Insert(a) ==
    LET tracks == TracksOf(Head(calls[a]).refs)
    IN  /\ StillAvailable(catalog, tracks)
        /\ drafts' = Append(drafts, [tracks |-> tracks, status |-> "draft",
                                     validated |-> Nobody, resolvedAt |-> resolved[a],
                                     storedAt |-> Now])
        /\ draft' = [draft EXCEPT ![a] = Len(drafts) + 1]

StoreDraft(a) ==
    /\ pc[a] = "storing"
    /\ IF StillAvailable(catalog, TracksOf(Head(calls[a]).refs))
       THEN /\ Insert(a)
            /\ pc' = [pc EXCEPT ![a] = "stored"]
            /\ UNCHANGED <<outcome, turns, calls, alone, paging, shown>>
       ELSE End(a, "stale") /\ UNCHANGED <<drafts, draft>>
    /\ UNCHANGED <<history, resolved, checking>>

\* The database is locked or unavailable, before the transaction or when the
\* draft it committed is read back.
StoreFails(a) ==
    /\ pc[a] = "storing"
    /\ Insert(a) \/ UNCHANGED <<drafts, draft>>
    /\ End(a, "unavailable")
    /\ UNCHANGED <<history, resolved, checking>>

\* Mutant of Ground: what was stored is answered as it is.
GroundNothing(a) ==
    /\ pc[a] = "stored"
    /\ End(a, "success")
    /\ resolved' = [resolved EXCEPT ![a] = Now]
    /\ UNCHANGED <<history, drafts, draft, checking>>

\* _ground_creation: the stored tracks are resolved again.
Ground(a) ==
    /\ pc[a] = "stored"
    /\ LET tracks == drafts[draft[a]].tracks
           refs   == [i \in DOMAIN tracks |-> Ref(catalog, tracks[i])]
       IN  /\ End(a, IF Len(tracks) <= MaxTracks /\ Resolvable(catalog, refs)
                     THEN "success" ELSE "stale")
           /\ resolved' = [resolved EXCEPT ![a] = Now]
    /\ UNCHANGED <<history, drafts, draft, checking>>

NextTurn(a) ==
    /\ pc[a] = "calling"
    /\ calls[a] = << >>
    /\ pc' = [pc EXCEPT ![a] = "completing"]
    /\ UNCHANGED <<history, drafts, turns, calls, alone, resolved, draft, outcome, paging,
                   shown, checking>>

-----------------------------------------------------------------------------
(* `curation validate`: get, then an update of its own transaction. *)

CheckDraft(v) ==
    /\ checking[v].at = "idle"
    /\ \E d \in DOMAIN drafts :
           checking' = [checking EXCEPT ![v] =
               [at |-> IF drafts[d].status = "draft" THEN "update" ELSE "refused", draft |-> d]]
    /\ UNCHANGED <<history, drafts, agent>>

\* Mutant of Validate: the update has no status in its condition.
ValidateAgain(v) ==
    /\ checking[v].at = "update"
    /\ drafts' = [drafts EXCEPT ![checking[v].draft].status = "validated",
                                ![checking[v].draft].validated = v]
    /\ checking' = [checking EXCEPT ![v].at = "validated"]
    /\ UNCHANGED <<history, agent>>

\* WHERE status = 'draft': a draft another command has validated stays as it is.
Validate(v) ==
    /\ checking[v].at = "update"
    /\ LET d == checking[v].draft
       IN drafts' = IF drafts[d].status = "draft"
                    THEN [drafts EXCEPT ![d].status = "validated", ![d].validated = v]
                    ELSE drafts
    /\ checking' = [checking EXCEPT ![v].at = "validated"]
    /\ UNCHANGED <<history, agent>>

-----------------------------------------------------------------------------
Responses == {<<w>> : w \in Writes \cup {Forbidden}}
             \cup (UNION {[1..n -> Reads] : n \in 1..MaxCalls})
             \cup {<<[tool |-> "overview"], Create(<<r>>)>> : r \in Refs}

\* What the command does on its own, whatever the service answers.
OwnStep(a) ==
    \/ TurnsExhausted(a) \/ NoToolCall(a) \/ CompletionFails(a) \/ Timeout(a)
    \/ Refuse(a) \/ ReadOverview(a) \/ SearchCandidates(a) \/ GetCandidates(a) \/ ReadFails(a)
    \/ ResolveCreation(a) \/ StoreDraft(a) \/ StoreFails(a) \/ Ground(a) \/ NextTurn(a)

Next ==
    \/ CatalogChanges
    \/ \E a \in Agents : Run(a) \/ OwnStep(a) \/ Kill(a)
    \/ \E a \in Agents, response \in Responses : Respond(a, response)
    \/ \E v \in Validators : CheckDraft(v) \/ Validate(v)

\* The service may never answer; the deadline passes, and the calls to the
\* catalog wait for nothing outside.
Fairness == \A a \in Agents : WF_vars(OwnStep(a))

Spec == Init /\ [][Next]_vars
FairSpec == Spec /\ Fairness

-----------------------------------------------------------------------------
(* Properties *)

Recordings(lib, tracks) == {GroupKey(lib, tracks[i]) : i \in DOMAIN tracks}

\* A stored draft has between one and max_tracks tracks, no recording twice
\* among the copies the catalog knew when they were resolved, and every track
\* was available in the transaction that stored it (create_curation,
\* create_draft): whatever the model asked for and whatever was committed.
DraftsAreGrounded ==
    \A i \in DOMAIN drafts :
        LET d == drafts[i]
        IN  /\ Len(d.tracks) \in 1..MaxTracks
            /\ Cardinality(Recordings(At(d.resolvedAt), d.tracks)) = Len(d.tracks)
            /\ \A j \in DOMAIN d.tracks : d.tracks[j] \in Available(At(d.storedAt))

\* A run that answers has stored exactly the draft it answers with, and every
\* track of it was still the candidate of its recording when it answered.
SuccessIsGrounded ==
    \A a \in Agents : outcome[a] = "success" =>
        /\ draft[a] # 0
        /\ \A i \in DOMAIN drafts[draft[a]].tracks :
               drafts[draft[a]].tracks[i] \in Candidates(At(resolved[a]))

\* What curation stores and answers is grounded in the catalog.
Grounded == TypeOK /\ DraftsAreGrounded /\ SuccessIsGrounded

\* Following the cursors of a search gives no track twice, whatever commits
\* between the pages; when nothing does, the pages together are the matches.
PagingIsExact ==
    \A a \in Agents :
        LET p == paging[a]
            matches(n) == {t \in Candidates(At(n)) : Matches(At(n), t, p.query[1])}
        IN  /\ \A i, j \in DOMAIN p.ids : i < j => p.ids[i] < p.ids[j]
            /\ \A n \in p.snapshots : p.snapshots = {n} =>
                   IF p.next = NoCursor THEN Range(p.ids) = matches(n)
                   ELSE Range(p.ids) \subseteq matches(n) /\ Range(p.ids) # matches(n)

\* The two countings of the overview agree: every available track is a
\* candidate or a duplicate of one, and only tracks with a current
\* fingerprint are duplicates.
OverviewAddsUp ==
    LET o == Overview(catalog)
    IN  /\ o.candidates - o.quality["unverified_unfingerprinted"] <= o.fingerprinted
        /\ o.available - o.fingerprinted = o.quality["unverified_unfingerprinted"]
        /\ o.analysis["ok"] + o.analysis["failed"] + o.analysis["missing"] = o.candidates

\* What the read tools tell the model of the catalog adds up.
ReadsAddUp == PagingIsExact /\ OverviewAddsUp

\* A stored draft keeps its tracks, and is validated at most once: of two
\* commands that validate it together the first one counts.
DraftsOnlyGetValidated ==
    [][\A i \in DOMAIN drafts :
           /\ drafts'[i].tracks = drafts[i].tracks
           /\ drafts[i].status = "validated" => drafts'[i] = drafts[i]]_drafts

\* A run ends, however the completion service behaves (max_turns, the deadline).
RunsEnd == \A a \in Agents : pc[a] = "completing" ~> pc[a] = "ended"

\* Known exception, in no run.  docs/curation.md:20-22 says that a track absent from
\* the results of the catalog cannot be selected or persisted, and that every
\* selection is inspected: the write tool resolves what it is asked for, and nothing
\* asks whether a search or a get of the run has returned it.
OnlyShownTracks ==
    \A a \in Agents : pc[a] = "stored" => Range(drafts[draft[a]].tracks) \subseteq shown[a]

\* Known exception, in no run.  What docs/curation.md:99-104 promises of a run that
\* fails: but the draft is stored before it is grounded, and stays.
FailedRunStoresNothing ==
    \A a \in Agents : outcome[a] \in {"stale", "unavailable", "timeout"} => draft[a] = 0
=============================================================================
