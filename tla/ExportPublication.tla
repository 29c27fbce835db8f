------------------------- MODULE ExportPublication -------------------------
(***************************************************************************)
(* Publication of an export: ExportUseCase.execute and _publish_group      *)
(* (core/application/export.py).                                           *)
(*                                                                         *)
(* A publication stages its files, moves them into a generation directory  *)
(* and switches the destination, a symbolic link, to it.  Nothing locks    *)
(* the destination or the storage: every filesystem call is a step, other  *)
(* `export` commands interleave with it, any call may raise, an interrupt  *)
(* may be raised between two of them, and the process may be killed.       *)
(*                                                                         *)
(* The files of an export are the version of the catalog they were read    *)
(* from, in one read transaction.                                          *)
(***************************************************************************)
EXTENDS Naturals, Sequences, FiniteSets

CONSTANTS
    Publishers,       \* export commands that may run at the same time
    MaxVersion,       \* bound: changes of the catalog
    MaxPublications   \* bound: publications

ASSUME PublicationAssumption == MaxVersion \in Nat \ {0} /\ MaxPublications \in Nat

VARIABLES
    catalog,      \* version of the catalog
    destination,  \* what the destination path is
    generations,  \* directories of .dj-digger-publications, in creation order
    pc,           \* where each command is in _publish_group
    snapshot,     \* the version it staged
    generation,   \* its generation, 0 before there is one
    previous,     \* previous_generation, 0 for None
    moved,        \* previous_directory: the legacy export it moved, 0 for None
    doomed,       \* what its cleanup listed and has not removed yet
    before,       \* history: the destination when it started
    switched,     \* history: generations in the order they became the destination
    answered,     \* history: generations whose path was returned to a consumer
    overlapped,   \* history: two publications ran at the same time
    torn          \* history: the last publication that touched the destination was
                  \* stopped between two calls that only together replace it

command == <<pc, snapshot, generation, previous, moved, doomed, before>>
history == <<switched, answered, overlapped, torn>>
vars    == <<catalog, destination, generations, command, history>>

Generation  == [content: {"reserved", "complete", "partial", "gone"}, version: 0..MaxVersion]
Destination == [kind: {"none", "directory"}, target: {0}] \cup [kind: {"link"}, target: Nat \ {0}]

NoDestination == [kind |-> "none", target |-> 0]
Directory     == [kind |-> "directory", target |-> 0]
LinkTo(g)     == [kind |-> "link", target |-> g]

InStorage(g) == g \in 1..Len(generations) /\ generations[g].content # "gone"
Newest       == switched[Len(switched)]

\* The command has moved the legacy export away and nothing took its place.
Restorable(p) == InStorage(moved[p]) /\ destination.kind = "none"

-----------------------------------------------------------------------------
\* A first export finds nothing, or the directory an older release wrote.
Init ==
    /\ catalog = 1
    /\ destination \in {NoDestination, Directory}
    /\ generations = << >>
    /\ pc = [p \in Publishers |-> "idle"]
    /\ snapshot = [p \in Publishers |-> 0]
    /\ generation = [p \in Publishers |-> 0]
    /\ previous = [p \in Publishers |-> 0]
    /\ moved = [p \in Publishers |-> 0]
    /\ doomed = [p \in Publishers |-> {}]
    /\ before = [p \in Publishers |-> NoDestination]
    /\ switched = << >>
    /\ answered = {}
    /\ overlapped = FALSE
    /\ torn = FALSE

CatalogChanges ==
    /\ catalog < MaxVersion
    /\ catalog' = catalog + 1
    /\ UNCHANGED <<destination, generations, command, history>>

\* Every facet is staged from one read transaction.
Stage(p) ==
    /\ pc[p] = "idle"
    /\ Len(generations) < MaxPublications
    /\ snapshot' = [snapshot EXCEPT ![p] = catalog]
    /\ before' = [before EXCEPT ![p] = destination]
    /\ overlapped' = (overlapped \/ \E q \in Publishers : pc[q] # "idle")
    /\ pc' = [pc EXCEPT ![p] = "previous"]
    /\ UNCHANGED <<catalog, destination, generations, generation, previous, moved,
                   doomed, switched, answered, torn>>

ReadPrevious(p) ==
    /\ pc[p] = "previous"
    /\ previous' = [previous EXCEPT ![p] =
           IF destination.kind = "link" /\ InStorage(destination.target)
           THEN destination.target ELSE 0]
    /\ pc' = [pc EXCEPT ![p] = "reserve"]
    /\ UNCHANGED <<catalog, destination, generations, snapshot, generation, moved,
                   doomed, before, history>>

\* mkdtemp: an empty directory holds the name.
Reserve(p) ==
    /\ pc[p] = "reserve"
    /\ generations' = Append(generations, [content |-> "reserved", version |-> snapshot[p]])
    /\ generation' = [generation EXCEPT ![p] = Len(generations) + 1]
    /\ pc' = [pc EXCEPT ![p] = "promote"]
    /\ UNCHANGED <<catalog, destination, snapshot, previous, moved, doomed, before, history>>

\* rmdir, then os.replace of the staged directory.
Promote(p) ==
    /\ pc[p] = "promote"
    /\ InStorage(generation[p])
    /\ generations' = [generations EXCEPT ![generation[p]].content = "complete"]
    /\ pc' = [pc EXCEPT ![p] = "legacy"]
    /\ UNCHANGED <<catalog, destination, snapshot, generation, previous, moved,
                   doomed, before, history>>

\* Is the destination a real directory?
CheckLegacy(p) ==
    /\ pc[p] = "legacy"
    /\ pc' = [pc EXCEPT ![p] = IF destination.kind = "directory" THEN "move" ELSE "switch"]
    /\ UNCHANGED <<catalog, destination, generations, snapshot, generation, previous, moved,
                   doomed, before, history>>

\* os.replace of whatever the destination has become: the legacy directory, or
\* the link another command put there since, which is lost inside the storage.
MoveLegacy(p) ==
    /\ pc[p] = "move"
    /\ destination.kind # "none"
    /\ LET legacy == IF destination.kind = "directory" THEN Len(generations) + 1 ELSE 0
       IN  /\ generations' = IF legacy = 0 THEN generations
                             ELSE Append(generations, [content |-> "complete", version |-> 0])
           /\ moved' = [moved EXCEPT ![p] = legacy]
           /\ previous' = [previous EXCEPT ![p] = legacy]
    /\ destination' = NoDestination
    /\ pc' = [pc EXCEPT ![p] = "switch"]
    /\ UNCHANGED <<catalog, snapshot, generation, doomed, before, history>>

\* Mutant of Switch: the link is switched before its generation is there.
SwitchEarly(p) ==
    /\ pc[p] = "reserve"
    /\ destination' = LinkTo(generation[p])
    /\ switched' = Append(switched, generation[p])
    /\ torn' = FALSE
    /\ pc' = [pc EXCEPT ![p] = "flag"]
    /\ UNCHANGED <<catalog, generations, snapshot, generation, previous, moved,
                   doomed, before, answered, overlapped>>

\* os.replace of the link: atomic, but impossible over a real directory.
Switch(p) ==
    /\ pc[p] = "switch"
    /\ destination.kind # "directory"
    /\ destination' = LinkTo(generation[p])
    /\ switched' = Append(switched, generation[p])
    /\ torn' = FALSE
    /\ pc' = [pc EXCEPT ![p] = "flag"]
    /\ UNCHANGED <<catalog, generations, snapshot, generation, previous, moved,
                   doomed, before, answered, overlapped>>

\* switched = True: from here on an error undoes nothing.
MarkSwitched(p) ==
    /\ pc[p] = "flag"
    /\ pc' = [pc EXCEPT ![p] = "verify"]
    /\ UNCHANGED <<catalog, destination, generations, snapshot, generation, previous, moved,
                   doomed, before, history>>

\* generation.resolve(strict=True)
Verify(p) ==
    /\ pc[p] = "verify"
    /\ InStorage(generation[p])
    /\ pc' = [pc EXCEPT ![p] = "list"]
    /\ UNCHANGED <<catalog, destination, generations, snapshot, generation, previous, moved,
                   doomed, before, history>>

\* Mutant of List: only the previous generation is kept.
ListKeepsPrevious(p) ==
    /\ pc[p] = "list"
    /\ doomed' = [doomed EXCEPT ![p] =
           {g \in 1..Len(generations) : InStorage(g)} \ {previous[p]}]
    /\ pc' = [pc EXCEPT ![p] = "clean"]
    /\ UNCHANGED <<catalog, destination, generations, snapshot, generation, previous, moved,
                   before, history>>

\* Mutant of List: only the active generation is kept.
ListKeepsActive(p) ==
    /\ pc[p] = "list"
    /\ doomed' = [doomed EXCEPT ![p] =
           {g \in 1..Len(generations) : InStorage(g)} \ {generation[p]}]
    /\ pc' = [pc EXCEPT ![p] = "clean"]
    /\ UNCHANGED <<catalog, destination, generations, snapshot, generation, previous, moved,
                   before, history>>

\* Mutant of List: only what is older than the previous generation is listed.
ListOlder(p) ==
    /\ pc[p] = "list"
    /\ doomed' = [doomed EXCEPT ![p] =
           {g \in 1..Len(generations) : InStorage(g) /\ g < previous[p]}]
    /\ pc' = [pc EXCEPT ![p] = "clean"]
    /\ UNCHANGED <<catalog, destination, generations, snapshot, generation, previous, moved,
                   before, history>>

\* _cleanup_generations: everything but the active and the previous generation.
List(p) ==
    /\ pc[p] = "list"
    /\ doomed' = [doomed EXCEPT ![p] =
           {g \in 1..Len(generations) : InStorage(g)} \ {generation[p], previous[p]}]
    /\ pc' = [pc EXCEPT ![p] = "clean"]
    /\ UNCHANGED <<catalog, destination, generations, snapshot, generation, previous, moved,
                   before, history>>

\* rmtree has removed some of the files ...
RemovePart(p, g) ==
    /\ pc[p] = "clean"
    /\ g \in doomed[p]
    /\ generations[g].content = "complete"
    /\ generations' = [generations EXCEPT ![g].content = "partial"]
    /\ UNCHANGED <<catalog, destination, command, history>>

\* ... and then all of them.
Remove(p, g) ==
    /\ pc[p] = "clean"
    /\ g \in doomed[p]
    /\ InStorage(g)
    /\ generations' = [generations EXCEPT ![g].content = "gone"]
    /\ doomed' = [doomed EXCEPT ![p] = @ \ {g}]
    /\ UNCHANGED <<catalog, destination, pc, snapshot, generation, previous, moved,
                   before, history>>

\* The command ends and forgets everything.
End(p) ==
    /\ pc' = [pc EXCEPT ![p] = "idle"]
    /\ snapshot' = [snapshot EXCEPT ![p] = 0]
    /\ generation' = [generation EXCEPT ![p] = 0]
    /\ previous' = [previous EXCEPT ![p] = 0]
    /\ moved' = [moved EXCEPT ![p] = 0]
    /\ doomed' = [doomed EXCEPT ![p] = {}]
    /\ before' = [before EXCEPT ![p] = NoDestination]
    /\ UNCHANGED <<switched, overlapped>>

\* execute returns the result; the consumer keeps its generation_path.
Return(p) ==
    /\ pc[p] = "clean"
    /\ doomed[p] = {}
    /\ answered' = answered \cup {generation[p]}
    /\ End(p)
    /\ UNCHANGED <<catalog, destination, generations, torn>>

\* The cleanup raised: the result carries a warning, the rest is left there.
ReturnDeferred(p) ==
    /\ pc[p] \in {"list", "clean"}
    /\ answered' = answered \cup {generation[p]}
    /\ End(p)
    /\ UNCHANGED <<catalog, destination, generations, torn>>

\* rmtree that ignores errors: what it may leave of a generation.
Remains(g) ==
    {generations[g].content, "gone"}
        \cup (IF generations[g].content = "complete" THEN {"partial"} ELSE {})

\* The exception handler: the legacy export put back or not, and what is left of
\* the command's own generation.
Undo(p, restored, remains) ==
    generations' = [g \in DOMAIN generations |->
        IF g = generation[p] THEN [generations[g] EXCEPT !.content = remains]
        ELSE IF restored /\ g = moved[p] THEN [generations[g] EXCEPT !.content = "gone"]
        ELSE generations[g]]

\* Mutant of RollBack: the generation is removed, the legacy export is not restored.
RollBackGenerationOnly(p) ==
    /\ pc[p] \in {"previous", "reserve", "promote", "legacy", "move", "switch"}
    /\ Undo(p, FALSE, "gone")
    /\ End(p)
    /\ UNCHANGED <<catalog, destination, answered, torn>>

\* Mutant of RollBack: an error after the switch is rolled back as well.
RollBackAfterSwitch(p) ==
    /\ pc[p] \in {"previous", "reserve", "promote", "legacy", "move", "switch", "verify"}
    /\ destination' = before[p]
    /\ Undo(p, FALSE, "gone")
    /\ End(p)
    /\ UNCHANGED <<catalog, answered, torn>>

\* A call raised, or an interrupt did, before `switched` was set: the legacy
\* directory goes back where the destination is free, unless that os.replace
\* raises too, and the generation is removed, also when the link names it already.
RollBack(p) ==
    /\ pc[p] \in {"previous", "reserve", "promote", "legacy", "move", "switch", "flag"}
    /\ \E restored \in BOOLEAN :
           /\ restored => Restorable(p)
           /\ destination' = IF restored THEN Directory ELSE destination
           /\ \E remains \in IF generation[p] = 0 THEN {"gone"} ELSE Remains(generation[p]) :
                  Undo(p, restored, remains)
           /\ torn' = (torn \/ pc[p] = "flag" \/ (Restorable(p) /\ ~restored))
    /\ End(p)
    /\ UNCHANGED <<catalog, answered>>

\* The new generation vanished: the error leaves the switched link in place.
VerifyFails(p) ==
    /\ pc[p] = "verify"
    /\ ~InStorage(generation[p])
    /\ End(p)
    /\ UNCHANGED <<catalog, destination, generations, answered, torn>>

\* A kill, or an interrupt once `switched` is set: nothing is undone.
Crash(p) ==
    /\ pc[p] # "idle"
    /\ torn' = (torn \/ (pc[p] = "switch" /\ Restorable(p)))
    /\ End(p)
    /\ UNCHANGED <<catalog, destination, generations, answered>>

Step(p) ==
    \/ Stage(p) \/ ReadPrevious(p) \/ Reserve(p) \/ Promote(p) \/ CheckLegacy(p)
    \/ MoveLegacy(p) \/ Switch(p) \/ MarkSwitched(p) \/ Verify(p) \/ List(p)
    \/ \E g \in doomed[p] : RemovePart(p, g) \/ Remove(p, g)
    \/ Return(p) \/ ReturnDeferred(p) \/ RollBack(p) \/ VerifyFails(p) \/ Crash(p)

Next == CatalogChanges \/ \E p \in Publishers : Step(p)

Spec == Init /\ [][Next]_vars

-----------------------------------------------------------------------------
(* Properties *)

\* The shape of the filesystem and of each command's memory.
TypeOK ==
    /\ catalog \in 1..MaxVersion
    /\ destination \in Destination
    /\ generations \in Seq(Generation)
    /\ pc \in [Publishers -> {"idle", "previous", "reserve", "promote", "legacy", "move",
                              "switch", "flag", "verify", "list", "clean"}]
    /\ snapshot \in [Publishers -> 0..MaxVersion]
    /\ generation \in [Publishers -> Nat]
    /\ previous \in [Publishers -> Nat]
    /\ moved \in [Publishers -> Nat]
    /\ doomed \in [Publishers -> SUBSET Nat]
    /\ before \in [Publishers -> Destination]
    /\ switched \in Seq(Nat)
    /\ answered \subseteq Nat
    /\ overlapped \in BOOLEAN /\ torn \in BOOLEAN

\* Without overlap and but for a torn publication the destination always is the
\* newest complete export, be it the legacy directory; it is nothing only where
\* there never was an export (no generation holds a legacy one), or while a
\* command is between moving the legacy export and switching the link.
DestinationIsComplete ==
    ~overlapped /\ ~torn =>
        \/ /\ switched # << >> /\ destination = LinkTo(Newest)
           /\ generations[Newest].content = "complete"
        \/ switched = << >> /\ destination = Directory
        \/ /\ switched = << >> /\ destination = NoDestination
           /\ \/ \A g \in 1..Len(generations) : generations[g].version # 0
              \/ \E p \in Publishers :
                     pc[p] = "switch" /\ InStorage(moved[p])
                         /\ generations[moved[p]].content = "complete"

\* Without overlap the path a consumer was given outlives the next publication,
\* complete, even when that one is killed after its switch or torn.
PathKeptThroughNext ==
    ~overlapped =>
        \A i \in 1..Len(switched) :
            i >= Len(switched) - 1 /\ switched[i] \in answered =>
                generations[switched[i]].content = "complete"

\* Publications that do not overlap, each of them failing at any filesystem call
\* (export.py:141-208), keep a complete export: the destination is one, and so is
\* the path the last answer but one gave.  What tears the destination, until the
\* next switch, is a kill or a failed restore between moving the legacy export and
\* switching (168-176, 185), and an interrupt between the switch and the
\* assignment that records it (176-177); the path outlives these too.
PublishedStaysComplete == TypeOK /\ DestinationIsComplete /\ PathKeptThroughNext

\* Nothing is below a legacy export, which is below every generation.
Rank(d, gens) ==
    CASE d.kind = "none" -> 0
      [] d.kind = "directory" -> 1
      [] d.kind = "link" -> 1 + gens[d.target].version

\* No step takes what is shown back to an older catalog, to the legacy export or
\* to nothing, but for moving the legacy export out of the way.
ShowsNoOlder ==
    ~overlapped' =>
        \/ Rank(destination, generations) <= Rank(destination', generations')
        \/ \E p \in Publishers : MoveLegacy(p) /\ destination = Directory

\* A command that ends, however it does, leaves the destination as it found it or
\* on its own export, unless this end tears it.
LeavesOldOrNew(p) ==
    pc[p] # "idle" /\ pc'[p] = "idle" /\ ~overlapped' /\ (torn' => torn) =>
        destination' \in {before[p], LinkTo(generation[p])}

\* Without overlap no failure, rollback or kill takes the destination back: it
\* moves on to a newer catalog or is what the command found (export.py:161-191),
\* the legacy export included.
DestinationNeverGoesBack ==
    [][ShowsNoOlder /\ \A p \in Publishers : LeavesOldOrNew(p)]_vars

\* Known exception, in no run.  "Validate and atomically publish one consistent
\* catalog export" (export.py:62), "atomic export replacement"
\* (docs/ARCHITECTURE.md:50): a command that ends, killed or not, leaves the old
\* export or the new one.  Over a directory of an older release it may leave none.
ReplacementIsAtomic ==
    [][\A p \in Publishers :
          pc[p] # "idle" /\ pc'[p] = "idle" /\ ~overlapped' =>
              destination' \in {before[p], LinkTo(generation[p])}]_vars

\* What failed and killed publications left behind does not pile up: once a
\* cleanup has run to its end, two generations are left.
StorageIsBounded ==
    [][\A p \in Publishers :
          ~overlapped /\ pc[p] = "clean" /\ doomed[p] = {} /\ pc'[p] = "idle" =>
              Cardinality({g \in 1..Len(generations) : InStorage(g)}) <= 2]_vars

\* Known exception, in no run.  "The path is kept through one immediately
\* concurrent publication as the previous generation" (export.py:43-45): but the
\* cleanup keeps only its own generation and the one it saw when it started.
PathKeptThroughConcurrent ==
    \A i \in 1..Len(switched) :
        i >= Len(switched) - 1 /\ switched[i] \in answered =>
            generations[switched[i]].content = "complete"

=============================================================================
