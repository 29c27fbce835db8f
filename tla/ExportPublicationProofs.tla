----------------------- MODULE ExportPublicationProofs -----------------------
(***************************************************************************)
(* Proofs about ExportPublication, for any commands and any number of      *)
(* publications.                                                           *)
(***************************************************************************)
EXTENDS ExportPublication, FiniteSetTheorems, TLAPS

-----------------------------------------------------------------------------
(* The inductive invariant.                                                *)

Unswitched == {"previous", "reserve", "promote", "legacy", "move", "switch"}
Reserved   == {"promote", "legacy", "move", "switch", "flag", "verify", "list", "clean"}
Switched   == {"flag", "verify", "list", "clean"}
Complete(g) == generations[g].content = "complete"

\* What holds with any overlap.  A command names generations that were made and
\* nothing before it has made or moved one ...
NamesWhatIsMade(p) ==
    /\ pc[p] \in Reserved => generation[p] \in 1..Len(generations)
    /\ pc[p] \in {"idle", "previous", "reserve"} => generation[p] = 0
    /\ pc[p] \in {"idle", "previous", "reserve", "promote", "legacy", "move"} => moved[p] = 0
    /\ doomed[p] \subseteq 1..Len(generations)
    /\ snapshot[p] <= catalog
    /\ pc[p] # "idle" => snapshot[p] # 0

\* ... and what was the destination was made, from a catalog there was.
NamesAreMade ==
    /\ \A p \in Publishers : NamesWhatIsMade(p)
    /\ \A i \in 1..Len(switched) : switched[i] \in 1..Len(generations)
    /\ answered \subseteq 1..Len(generations)
    /\ \A g \in 1..Len(generations) : generations[g].version <= catalog

\* Without overlap, one command at a time is not idle.
OneAtATime == \A p, q \in Publishers : p # q => pc[p] = "idle" \/ pc[q] = "idle"

\* The newest generation is the destination, complete unless it is torn, and the
\* one before it is there too if it was answered.
TwoAreKept ==
    /\ switched # << >> => destination = LinkTo(Newest) /\ (torn \/ Complete(Newest))
    /\ switched # << >> /\ torn => Newest \notin answered
    /\ Len(switched) >= 2 /\ switched[Len(switched) - 1] \in answered =>
           Complete(switched[Len(switched) - 1])

\* Before the first switch the legacy export, if there was one, is the
\* destination or has been moved by a command of P that will switch.
LegacyKept(P) ==
    /\ switched = << >> =>
           \/ destination = Directory
           \/ /\ destination = NoDestination
              /\ \/ torn
                 \/ \A g \in 1..Len(generations) : generations[g].version # 0
                 \/ \E p \in P : pc[p] = "switch" /\ moved[p] # 0
    /\ torn => destination # Directory

\* Before its switch a command has touched nothing but its own generation and
\* the legacy directory.
Untouched(p) ==
    /\ pc[p] \in Unswitched /\ moved[p] = 0 => destination = before[p]
    /\ pc[p] = "move" => destination = Directory
    /\ pc[p] = "switch" /\ moved[p] # 0 =>
           /\ destination = NoDestination /\ before[p] = Directory /\ ~torn
           /\ moved[p] \in 1..Len(generations) /\ Complete(moved[p])
    /\ pc[p] \in {"promote", "legacy", "move", "switch"} =>
           \A i \in 1..Len(switched) : switched[i] # generation[p]
    /\ pc[p] \in {"legacy", "move", "switch"} => Complete(generation[p])
    /\ pc[p] \in Reserved => generation[p] \notin answered

\* The generation a command found is the one it will keep.
PreviousIsKept(p) ==
    /\ pc[p] \in {"reserve", "promote", "legacy", "move", "switch"}
           /\ switched # << >> /\ ~torn => previous[p] = Newest
    /\ pc[p] \in Switched =>
           /\ switched # << >> /\ Newest = generation[p] /\ ~torn
           /\ Len(switched) >= 2 =>
                  /\ switched[Len(switched) - 1] # generation[p]
                  /\ switched[Len(switched) - 1] \in answered =>
                         previous[p] = switched[Len(switched) - 1]
    /\ pc[p] = "clean" =>
           /\ generation[p] \notin doomed[p] /\ previous[p] \notin doomed[p]
           /\ \A g \in 1..Len(generations) :
                  InStorage(g) => g \in doomed[p] \cup {generation[p], previous[p]}

\* It staged the catalog after every generation there is.
StagedLast(p) ==
    /\ pc[p] # "idle" => \A g \in 1..Len(generations) : generations[g].version <= snapshot[p]
    /\ pc[p] \in Reserved => generations[generation[p]].version = snapshot[p]

Alone ==
    /\ OneAtATime /\ TwoAreKept /\ LegacyKept(Publishers)
    /\ \A p \in Publishers : Untouched(p) /\ PreviousIsKept(p) /\ StagedLast(p)

Kept == TypeOK /\ NamesAreMade /\ (~overlapped => Alone)
-----------------------------------------------------------------------------
(* What a step does to the generations.                                    *)

\* The generations of D are now c, the others and every version are as before.
Marked(D, c) ==
    /\ generations' \in Seq(Generation) /\ Len(generations') = Len(generations)
    /\ \A g \in 1..Len(generations) :
           /\ generations'[g].version = generations[g].version
           /\ generations'[g].content = IF g \in D THEN c ELSE generations[g].content

\* What a roll-back does: only the command's own generation may differ, and the
\* legacy one it put back.
Undone(p) ==
    /\ generations' \in Seq(Generation) /\ Len(generations') = Len(generations)
    /\ \A g \in 1..Len(generations) :
           /\ generations'[g].version = generations[g].version
           /\ g # generation[p] /\ (g # moved[p] \/ ~Restorable(p)) =>
                  generations'[g] = generations[g]

\* A generation is added, with content c and version v.
Added(c, v) ==
    /\ generations' \in Seq(Generation) /\ Len(generations') = Len(generations) + 1
    /\ generations'[Len(generations) + 1].content = c
    /\ generations'[Len(generations) + 1].version = v
    /\ \A g \in 1..Len(generations) : generations'[g] = generations[g]

LEMMA Marking ==
    ASSUME NEW D, NEW c \in {"reserved", "complete", "partial", "gone"},
           generations \in Seq(Generation),
           generations' = [g \in DOMAIN generations |->
               IF g \in D THEN [generations[g] EXCEPT !.content = c] ELSE generations[g]]
    PROVE  Marked(D, c)
<1>1. Len(generations) \in Nat /\ DOMAIN generations = 1..Len(generations)
      /\ \A g \in 1..Len(generations) : generations[g] \in Generation
  OBVIOUS
<1>2. \A g \in 1..Len(generations) : generations'[g] \in Generation
  BY <1>1 DEF Generation
<1>3. generations' \in Seq(Generation) /\ Len(generations') = Len(generations)
  BY <1>1, <1>2
<1>4. \A g \in 1..Len(generations) :
          /\ generations'[g].version = generations[g].version
          /\ generations'[g].content = IF g \in D THEN c ELSE generations[g].content
  BY <1>1 DEF Generation
<1> QED  BY <1>3, <1>4 DEF Marked

LEMMA MarkingOne ==
    ASSUME NEW h \in 1..Len(generations),
           NEW c \in {"reserved", "complete", "partial", "gone"},
           generations \in Seq(Generation),
           generations' = [generations EXCEPT ![h].content = c]
    PROVE  Marked({h}, c)
<1>1. Len(generations) \in Nat /\ DOMAIN generations = 1..Len(generations)
  OBVIOUS
<1>2. generations' = [g \in DOMAIN generations |->
          IF g \in {h} THEN [generations[g] EXCEPT !.content = c] ELSE generations[g]]
  BY <1>1
<1> QED  BY <1>2, Marking

LEMMA Adding ==
    ASSUME NEW c \in {"reserved", "complete", "partial", "gone"}, NEW v \in 0..MaxVersion,
           generations \in Seq(Generation),
           generations' = Append(generations, [content |-> c, version |-> v])
    PROVE  Added(c, v)
  BY DEF Generation, Added

\* Storage and completeness, without their records.
LEMMA MarkedStorage ==
    ASSUME NEW D, NEW c, generations \in Seq(Generation), Marked(D, c)
    PROVE  \A g \in 1..Len(generations) :
               /\ g \notin D => (Complete(g)' <=> Complete(g)) /\ (InStorage(g)' <=> InStorage(g))
               /\ g \in D /\ c = "complete" => Complete(g)'
               /\ InStorage(g)' /\ c = "partial" => InStorage(g) \/ g \in D
               /\ c = "gone" /\ InStorage(g)' => InStorage(g) /\ g \notin D
  BY DEF Marked, Complete, InStorage

-----------------------------------------------------------------------------
LEMMA InitKept == Init => Kept
<1> SUFFICES ASSUME Init PROVE Kept
  OBVIOUS
<1>1. TypeOK
  <2>1. NoDestination \in Destination /\ Directory \in Destination
    BY DEF Destination, NoDestination, Directory
  <2>2. destination \in Destination /\ before \in [Publishers -> Destination]
    BY <2>1 DEF Init
  <2>3. generations \in Seq(Generation) /\ switched \in Seq(Nat)
    BY DEF Init
  <2>4. /\ catalog \in 1..MaxVersion /\ answered \subseteq Nat
        /\ snapshot \in [Publishers -> 0..MaxVersion]
    BY PublicationAssumption DEF Init
  <2>5. /\ pc \in [Publishers -> {"idle", "previous", "reserve", "promote", "legacy",
                                  "move", "switch", "flag", "verify", "list", "clean"}]
        /\ generation \in [Publishers -> Nat] /\ previous \in [Publishers -> Nat]
        /\ moved \in [Publishers -> Nat] /\ doomed \in [Publishers -> SUBSET Nat]
    BY DEF Init
  <2>6. overlapped \in BOOLEAN /\ torn \in BOOLEAN
    BY Zenon DEF Init
  <2> QED  BY <2>2, <2>3, <2>4, <2>5, <2>6 DEF TypeOK
<1>2. NamesAreMade
  BY DEF Init, NamesAreMade, NamesWhatIsMade, Reserved
<1>3. Alone
  BY DEF Init, Alone, OneAtATime, TwoAreKept, LegacyKept, Untouched, PreviousIsKept,
         StagedLast, Unswitched, Switched, Reserved
<1> QED  BY <1>1, <1>2, <1>3 DEF Kept
-----------------------------------------------------------------------------
(* Every step keeps the types and the names.                               *)

\* The end of a command, whatever it did to the destination and generations.
LEMMA EndTypes ==
    ASSUME TypeOK, NEW p \in Publishers, End(p)
    PROVE  /\ pc' \in [Publishers -> {"idle", "previous", "reserve", "promote", "legacy",
                                      "move", "switch", "flag", "verify", "list", "clean"}]
           /\ snapshot' \in [Publishers -> 0..MaxVersion]
           /\ generation' \in [Publishers -> Nat] /\ previous' \in [Publishers -> Nat]
           /\ moved' \in [Publishers -> Nat] /\ doomed' \in [Publishers -> SUBSET Nat]
           /\ before' \in [Publishers -> Destination]
           /\ switched' = switched /\ overlapped' = overlapped
<1>1. NoDestination \in Destination
  BY DEF NoDestination, Destination
<1> QED  BY <1>1, PublicationAssumption DEF TypeOK, End

\* How each action changes the generations.
LEMMA Effects ==
    ASSUME TypeOK, NamesAreMade, NEW p \in Publishers
    PROVE  /\ Reserve(p) => Added("reserved", snapshot[p])
           /\ Promote(p) => Marked({generation[p]}, "complete")
           /\ MoveLegacy(p) =>
                  \/ destination = Directory /\ Added("complete", 0)
                  \/ destination.kind = "link" /\ generations' = generations
           /\ \A g \in doomed[p] : RemovePart(p, g) => Marked({g}, "partial")
           /\ \A g \in doomed[p] : Remove(p, g) => Marked({g}, "gone")
           /\ RollBack(p) =>
                  Undone(p)
<1>1. Reserve(p) => Added("reserved", snapshot[p])
  BY Adding DEF Reserve, TypeOK
<1>2. Promote(p) => Marked({generation[p]}, "complete")
  BY MarkingOne DEF Promote, TypeOK, InStorage
<1>3. ASSUME MoveLegacy(p)
      PROVE  \/ destination = Directory /\ Added("complete", 0)
             \/ destination.kind = "link" /\ generations' = generations
  <2>1. CASE destination.kind = "directory"
    <3>1. destination = Directory
      BY <2>1 DEF TypeOK, Destination, Directory
    <3>2. generations' = Append(generations, [content |-> "complete", version |-> 0])
      BY <1>3, <2>1 DEF MoveLegacy, TypeOK
    <3>3. 0 \in 0..MaxVersion
      BY PublicationAssumption
    <3> QED  BY <3>1, <3>2, <3>3, Adding DEF TypeOK
  <2>2. CASE destination.kind # "directory"
    BY <1>3, <2>2 DEF MoveLegacy, TypeOK, Destination
  <2> QED  BY <2>1, <2>2
<1>4. ASSUME NEW g \in doomed[p]
      PROVE  /\ RemovePart(p, g) => Marked({g}, "partial")
             /\ Remove(p, g) => Marked({g}, "gone")
  <2>1. g \in 1..Len(generations)
    BY <1>4 DEF NamesAreMade, NamesWhatIsMade
  <2> QED  BY <2>1, MarkingOne DEF RemovePart, Remove, TypeOK
<1>5. ASSUME RollBack(p) PROVE Undone(p)
  <2>1. generation[p] = 0 \/ generation[p] \in 1..Len(generations)
    BY <1>5 DEF RollBack, NamesAreMade, NamesWhatIsMade, Reserved
  <2>2. \A g \in 1..Len(generations) : generations[g] \in Generation
    BY DEF TypeOK
  <2>3. (IF generation[p] = 0 THEN {"gone"} ELSE Remains(generation[p]))
            \subseteq {"reserved", "complete", "partial", "gone"}
    BY <2>1, <2>2 DEF Remains, Generation
  <2>4. PICK restored \in BOOLEAN, remains \in {"reserved", "complete", "partial", "gone"} :
            (restored => Restorable(p)) /\ Undo(p, restored, remains)
    BY <1>5, <2>3 DEF RollBack
  <2>5. /\ Len(generations) \in Nat /\ DOMAIN generations = 1..Len(generations)
        /\ DOMAIN generations' = 1..Len(generations)
        /\ generations' = [g \in 1..Len(generations) |-> generations'[g]]
    BY <2>4 DEF Undo, TypeOK
  <2>6. ASSUME NEW g \in 1..Len(generations)
        PROVE  /\ generations'[g] \in Generation
               /\ generations'[g].version = generations[g].version
               /\ g # generation[p] /\ (g # moved[p] \/ ~Restorable(p)) =>
                      generations'[g] = generations[g]
    BY <2>2, <2>4, <2>5 DEF Undo, Generation
  <2>7. generations' \in Seq(Generation) /\ Len(generations') = Len(generations)
    BY <2>5, <2>6
  <2> QED  BY <2>6, <2>7 DEF Undone
<1> QED  BY <1>1, <1>2, <1>3, <1>4, <1>5

LEMMA StepTypes ==
    ASSUME TypeOK, NamesAreMade, NEW p \in Publishers, Step(p)
    PROVE  TypeOK'
<1> USE DEF TypeOK
<1>1. CASE Stage(p)
  BY <1>1 DEF Stage
<1>2. CASE ReadPrevious(p)
  BY <1>2 DEF ReadPrevious, Destination, history
<1>3. CASE Reserve(p)
  <2>1. generations' \in Seq(Generation)
    BY <1>3, Effects DEF Added
  <2>2. generation' \in [Publishers -> Nat]
    BY <1>3 DEF Reserve
  <2> QED  BY <1>3, <2>1, <2>2 DEF Reserve, history
<1>4. CASE Promote(p)
  BY <1>4, Effects DEF Promote, Marked, history
<1>5. CASE CheckLegacy(p)
  BY <1>5 DEF CheckLegacy, history
<1>6. CASE MoveLegacy(p)
  <2>1. generations' \in Seq(Generation)
    BY <1>6, Effects DEF Added
  <2>2. destination' \in Destination
    BY <1>6 DEF MoveLegacy, Destination, NoDestination
  <2>3. moved' \in [Publishers -> Nat] /\ previous' \in [Publishers -> Nat]
    BY <1>6 DEF MoveLegacy
  <2> QED  BY <1>6, <2>1, <2>2, <2>3 DEF MoveLegacy, history
<1>7. CASE Switch(p)
  <2>1. generation[p] \in Nat \ {0}
    BY <1>7 DEF Switch, NamesAreMade, NamesWhatIsMade, Reserved
  <2>2. destination' \in Destination
    BY <1>7, <2>1 DEF Switch, Destination, LinkTo
  <2>3. torn' \in BOOLEAN
    BY <1>7 DEF Switch
  <2> QED  BY <1>7, <2>2, <2>3 DEF Switch
<1>8. CASE MarkSwitched(p) \/ Verify(p)
  BY <1>8 DEF MarkSwitched, Verify, history
<1>9. CASE List(p)
  BY <1>9 DEF List, history
<1>10. ASSUME NEW g \in doomed[p], RemovePart(p, g) PROVE TypeOK'
  BY <1>10, Effects DEF RemovePart, Marked, command, history
<1>11. ASSUME NEW g \in doomed[p], Remove(p, g) PROVE TypeOK'
  BY <1>11, Effects DEF Remove, Marked, history
<1>12. CASE Return(p)
  BY <1>12, EndTypes DEF Return
<1>13. CASE ReturnDeferred(p)
  BY <1>13, EndTypes DEF ReturnDeferred
<1>14. CASE RollBack(p)
  <2>1. generations' \in Seq(Generation)
    BY <1>14, Effects DEF Undone
  <2>2. destination' \in Destination
    BY <1>14 DEF RollBack, Destination, Directory
  <2>3. catalog' = catalog /\ answered' = answered /\ End(p)
    BY <1>14 DEF RollBack
  <2>4. torn' \in BOOLEAN
    BY <1>14 DEF RollBack
  <2> QED  BY <2>1, <2>2, <2>3, <2>4, EndTypes
<1>15. CASE VerifyFails(p)
  BY <1>15, EndTypes DEF VerifyFails
<1>16. CASE Crash(p)
  BY <1>16, EndTypes DEF Crash
<1> QED
  BY <1>1, <1>2, <1>3, <1>4, <1>5, <1>6, <1>7, <1>8, <1>9, <1>10, <1>11, <1>12, <1>13,
     <1>14, <1>15, <1>16 DEF Step

\* Generations are only added, and none is newer than the catalog.
LEMMA StepMakes ==
    ASSUME TypeOK, NamesAreMade, NEW p \in Publishers, Step(p)
    PROVE  /\ Len(generations) \in Nat /\ Len(generations') \in Nat
           /\ Len(generations) <= Len(generations') /\ catalog' = catalog
           /\ \A g \in 1..Len(generations) :
                  generations'[g].version = generations[g].version
           /\ \A g \in 1..Len(generations') : generations'[g].version <= catalog'
<1> DEFINE Made ==
        /\ Len(generations) \in Nat /\ Len(generations') \in Nat
        /\ Len(generations) <= Len(generations')
        /\ \A g \in 1..Len(generations) : generations'[g].version = generations[g].version
        /\ \A g \in 1..Len(generations') : generations'[g].version <= catalog
<1>1. catalog' = catalog
  BY DEF Step, Stage, ReadPrevious, Reserve, Promote, CheckLegacy, MoveLegacy, Switch,
         MarkSwitched, Verify, List, RemovePart, Remove, Return, ReturnDeferred, RollBack,
         VerifyFails, Crash
<1>2. /\ Len(generations) \in Nat /\ catalog \in Nat
      /\ \A g \in 1..Len(generations) : generations[g].version <= catalog
  <2>1. Len(generations) \in Nat /\ catalog \in Nat
    BY PublicationAssumption DEF TypeOK
  <2> QED  BY <2>1 DEF NamesAreMade
<1>3. ASSUME NEW D, NEW c, Marked(D, c) PROVE Made
  BY <1>2, <1>3 DEF Marked
<1>4. ASSUME NEW c, NEW v \in 0..catalog, Added(c, v) PROVE Made
  BY <1>2, <1>4 DEF Added
<1>5. ASSUME generations' = generations PROVE Made
  BY <1>2, <1>5
<1>6. snapshot[p] \in 0..catalog
  BY PublicationAssumption DEF TypeOK, NamesAreMade, NamesWhatIsMade
<1>7. Made
  <2> HIDE DEF Made
  <2>1. CASE Reserve(p)
    BY <2>1, <1>4, <1>6, Effects
  <2>2. CASE Promote(p)
    BY <2>2, <1>3, Effects
  <2>3. CASE MoveLegacy(p)
    <3>1. 0 \in 0..catalog
      BY <1>2
    <3> QED  BY <2>3, <3>1, <1>4, <1>5, Effects
  <2>4. CASE \E g \in doomed[p] : RemovePart(p, g) \/ Remove(p, g)
    BY <2>4, <1>3, Effects
  <2>5. CASE RollBack(p)
    <3>1. Undone(p)
      BY <2>5, Effects
    <3> QED  BY <3>1, <1>2 DEF Undone, Made
  <2>6. CASE \/ Stage(p) \/ ReadPrevious(p) \/ CheckLegacy(p) \/ Switch(p)
             \/ MarkSwitched(p) \/ Verify(p) \/ List(p) \/ Return(p) \/ ReturnDeferred(p) \/ VerifyFails(p) \/ Crash(p)
    <3>1. generations' = generations
      BY <2>6 DEF Stage, ReadPrevious, CheckLegacy, Switch, MarkSwitched, Verify, List, Return,
                  ReturnDeferred, VerifyFails, Crash
    <3> QED  BY <3>1, <1>5
  <2> QED  BY <2>1, <2>2, <2>3, <2>4, <2>5, <2>6 DEF Step
<1> QED  BY <1>1, <1>7

LEMMA StepNames ==
    ASSUME TypeOK, NamesAreMade, NEW p \in Publishers, Step(p)
    PROVE  NamesAreMade'
<1>1. TypeOK'
  BY StepTypes
<1>2. /\ Len(generations) \in Nat /\ Len(generations') \in Nat
      /\ Len(generations) <= Len(generations') /\ catalog' = catalog
      /\ \A g \in 1..Len(generations') : generations'[g].version <= catalog'
  BY StepMakes
<1>3. ASSUME NEW q \in Publishers, q # p PROVE NamesWhatIsMade(q)'
  <2>1. /\ pc'[q] = pc[q] /\ generation'[q] = generation[q] /\ moved'[q] = moved[q]
        /\ doomed'[q] = doomed[q] /\ snapshot'[q] = snapshot[q]
    BY <1>3 DEF Step, Stage, ReadPrevious, Reserve, Promote, CheckLegacy, MoveLegacy, Switch,
         MarkSwitched, Verify, List, RemovePart, Remove, Return, ReturnDeferred, RollBack,
         VerifyFails, Crash, End, TypeOK, command, history
  <2> QED  BY <2>1, <1>2 DEF NamesAreMade, NamesWhatIsMade
<1>4. NamesWhatIsMade(p)'
  <2> USE <1>2 DEF TypeOK, NamesAreMade, NamesWhatIsMade, Reserved
  <2>1. CASE Stage(p)
    BY <2>1, PublicationAssumption DEF Stage
  <2>2. CASE ReadPrevious(p)
    BY <2>2 DEF ReadPrevious
  <2>3. CASE Reserve(p)
    <3>1. Len(generations') = Len(generations) + 1
      BY <2>3, Effects DEF Added
    <3> QED  BY <3>1, <2>3 DEF Reserve
  <2>4. CASE Promote(p)
    BY <2>4 DEF Promote
  <2>5. CASE CheckLegacy(p)
    BY <2>5 DEF CheckLegacy
  <2>6. CASE MoveLegacy(p)
    BY <2>6 DEF MoveLegacy
  <2>7. CASE Switch(p)
    BY <2>7 DEF Switch
  <2>8. CASE MarkSwitched(p) \/ Verify(p)
    BY <2>8 DEF MarkSwitched, Verify
  <2>9. CASE List(p)
    BY <2>9 DEF List
  <2>10. ASSUME NEW g \in doomed[p], RemovePart(p, g) PROVE NamesWhatIsMade(p)'
    BY <2>10 DEF RemovePart, command
  <2>11. ASSUME NEW g \in doomed[p], Remove(p, g) PROVE NamesWhatIsMade(p)'
    BY <2>11 DEF Remove
  <2>12. CASE End(p)
    BY <2>12, PublicationAssumption DEF End
  <2> QED
    BY <2>1, <2>2, <2>3, <2>4, <2>5, <2>6, <2>7, <2>8, <2>9, <2>10, <2>11, <2>12
       DEF Step, Return, ReturnDeferred, RollBack, VerifyFails, Crash
<1>5. \A i \in 1..Len(switched') : switched'[i] \in 1..Len(generations')
  <2>1. CASE Switch(p)
    <3>1. generation[p] \in 1..Len(generations)
      BY <2>1 DEF Switch, NamesAreMade, NamesWhatIsMade, Reserved
    <3>2. switched' = Append(switched, generation[p]) /\ switched \in Seq(Nat)
      BY <2>1 DEF Switch, TypeOK
    <3>3. /\ Len(switched') = Len(switched) + 1 /\ Len(switched) \in Nat
          /\ switched'[Len(switched) + 1] = generation[p]
          /\ \A i \in 1..Len(switched) : switched'[i] = switched[i]
      BY <3>2, <3>1
    <3> QED  BY <3>1, <3>3, <1>2 DEF NamesAreMade
  <2>2. CASE ~Switch(p)
    <3>1. switched' = switched
      BY <2>2 DEF Step, Stage, ReadPrevious, Reserve, Promote, CheckLegacy, MoveLegacy,
           MarkSwitched, Verify, List, RemovePart, Remove, Return, ReturnDeferred, RollBack, VerifyFails,
           Crash, End, history
    <3> QED  BY <3>1, <1>2 DEF NamesAreMade
  <2> QED  BY <2>1, <2>2
<1>6. answered' \subseteq 1..Len(generations')
  <2>1. CASE Return(p) \/ ReturnDeferred(p)
    <3>1. pc[p] \in Reserved /\ answered' = answered \cup {generation[p]}
      BY <2>1 DEF Return, ReturnDeferred, Reserved
    <3>2. generation[p] \in 1..Len(generations)
      BY <3>1 DEF NamesAreMade, NamesWhatIsMade
    <3>3. answered \subseteq 1..Len(generations)
      BY DEF NamesAreMade
    <3>4. 1..Len(generations) \subseteq 1..Len(generations')
      BY <1>2
    <3> QED  BY <3>1, <3>2, <3>3, <3>4
  <2>2. CASE ~(Return(p) \/ ReturnDeferred(p))
    <3>1. answered' = answered
      BY <2>2 DEF Step, Stage, ReadPrevious, Reserve, Promote, CheckLegacy, MoveLegacy, Switch,
           MarkSwitched, Verify, List, RemovePart, Remove, RollBack, VerifyFails, Crash, history
    <3> QED  BY <3>1, <1>2 DEF NamesAreMade
  <2> QED  BY <2>1, <2>2
<1> QED  BY <1>2, <1>3, <1>4, <1>5, <1>6 DEF NamesAreMade

-----------------------------------------------------------------------------
(* A command that runs alone.                                              *)

\* The others are idle, and stay so.
LEMMA OthersIdle ==
    ASSUME TypeOK, OneAtATime, ~overlapped', NEW p \in Publishers, Step(p)
    PROVE  /\ ~overlapped
           /\ \A q \in Publishers \ {p} : pc[q] = "idle" /\ pc'[q] = "idle"
<1>1. CASE Stage(p)
  BY <1>1 DEF Stage, TypeOK
<1>2. CASE ~Stage(p)
  <2>1. overlapped' = overlapped /\ pc[p] # "idle"
    BY <1>2 DEF Step, ReadPrevious, Reserve, Promote, CheckLegacy, MoveLegacy, Switch,
         MarkSwitched, Verify, List, RemovePart, Remove, Return, ReturnDeferred, RollBack, VerifyFails,
         Crash, End, history
  <2>2. \A q \in Publishers \ {p} : pc'[q] = pc[q]
    BY <1>2 DEF Step, ReadPrevious, Reserve, Promote, CheckLegacy, MoveLegacy, Switch,
         MarkSwitched, Verify, List, RemovePart, Remove, Return, ReturnDeferred, RollBack, VerifyFails,
         Crash, End, TypeOK, command
  <2> QED  BY <2>1, <2>2 DEF OneAtATime
<1> QED  BY <1>1, <1>2

\* An idle command promises nothing.
LEMMA IdleIsFree ==
    ASSUME NEW q \in Publishers, pc[q] = "idle"
    PROVE  Untouched(q) /\ PreviousIsKept(q) /\ StagedLast(q)
  BY DEF Untouched, PreviousIsKept, StagedLast, Unswitched, Switched, Reserved

\* So a step is about the command that takes it.
LEMMA AloneStep ==
    ASSUME TypeOK, Alone, ~overlapped', NEW p \in Publishers, Step(p),
           TwoAreKept', LegacyKept({p})', Untouched(p)', PreviousIsKept(p)', StagedLast(p)'
    PROVE  Alone'
<1>1. \A q \in Publishers \ {p} : pc'[q] = "idle"
  BY OthersIdle DEF Alone
<1>2. \A q \in Publishers \ {p} : Untouched(q)' /\ PreviousIsKept(q)' /\ StagedLast(q)'
  <2> SUFFICES ASSUME NEW q \in Publishers \ {p}
               PROVE  Untouched(q)' /\ PreviousIsKept(q)' /\ StagedLast(q)'
    OBVIOUS
  <2>1. pc'[q] = "idle"
    BY <1>1
  <2> QED  BY <2>1 DEF Untouched, PreviousIsKept, StagedLast, Unswitched, Switched, Reserved
<1>3. OneAtATime'
  BY <1>1 DEF OneAtATime
<1>4. LegacyKept(Publishers)'
  BY DEF LegacyKept
<1> QED  BY <1>2, <1>3, <1>4 DEF Alone

\* What holds of a command and of the destination while it runs alone.
Mine(p) ==
    /\ TwoAreKept /\ LegacyKept({p}) /\ Untouched(p) /\ PreviousIsKept(p) /\ StagedLast(p)

LEMMA SwitchedAreThere ==
    ASSUME TypeOK, NamesAreMade
    PROVE  /\ Len(switched) \in Nat /\ Len(generations) \in Nat
           /\ switched # << >> => Newest \in 1..Len(generations) /\ Len(switched) >= 1
           /\ Len(switched) >= 2 => switched[Len(switched) - 1] \in 1..Len(generations)
           /\ Len(switched) >= 1 => switched # << >>
  BY DEF TypeOK, NamesAreMade, Newest

\* The legacy export stays where it is at every step but these: moving it,
\* switching, and the end of a command.
LEMMA LegacyStays ==
    ASSUME NEW p \in Publishers, LegacyKept({p}), pc[p] # "switch",
           destination' = destination, switched' = switched, torn' = torn,
           \A g \in 1..Len(generations') : generations'[g].version = 0 =>
               g \in 1..Len(generations) /\ generations[g].version = 0
    PROVE  LegacyKept({p})'
  BY DEF LegacyKept

LEMMA MineBegins ==
    ASSUME TypeOK, NamesAreMade, NEW p \in Publishers, Mine(p),
           Stage(p) \/ ReadPrevious(p) \/ Reserve(p) \/ Promote(p) \/ CheckLegacy(p)
    PROVE  Mine(p)'
<1>1. /\ Len(switched) \in Nat /\ Len(generations) \in Nat
      /\ switched # << >> => Newest \in 1..Len(generations) /\ Len(switched) >= 1
      /\ Len(switched) >= 2 => switched[Len(switched) - 1] \in 1..Len(generations)
  BY SwitchedAreThere
<1>2. NamesWhatIsMade(p) /\ \A g \in 1..Len(generations) : generations[g].version <= catalog
  BY DEF NamesAreMade
<1>3. CASE Stage(p)
  <2>1. TwoAreKept'
    BY <1>3 DEF Stage, Mine, TwoAreKept, Newest, Complete
  <2>2. /\ pc'[p] = "previous" /\ moved'[p] = 0 /\ destination' = before'[p]
        /\ snapshot'[p] = catalog /\ generations' = generations
    BY <1>2, <1>3 DEF Stage, TypeOK, NamesWhatIsMade
  <2>3. Untouched(p)' /\ PreviousIsKept(p)'
    BY <2>2 DEF Untouched, PreviousIsKept, Switched, Reserved
  <2>4. StagedLast(p)'
    BY <2>2, <1>2 DEF StagedLast, Reserved
  <2>5. LegacyKept({p})'
    BY <1>3, LegacyStays DEF Stage, Mine
  <2> QED  BY <2>1, <2>3, <2>4, <2>5 DEF Mine
<1>4. CASE ReadPrevious(p)
  <2>1. TwoAreKept'
    BY <1>4 DEF ReadPrevious, history, Mine, TwoAreKept, Newest, Complete
  <2>2. /\ pc[p] = "previous" /\ pc'[p] = "reserve" /\ moved' = moved
        /\ destination' = destination /\ before' = before /\ switched' = switched
        /\ snapshot' = snapshot /\ generations' = generations
        /\ torn' = torn /\ answered' = answered
    BY <1>4 DEF ReadPrevious, TypeOK, history
  <2>3. switched # << >> /\ ~torn => previous'[p] = Newest
    <3> SUFFICES ASSUME switched # << >>, ~torn PROVE previous'[p] = Newest
      OBVIOUS
    <3>1. destination = LinkTo(Newest) /\ Complete(Newest)
      BY DEF Mine, TwoAreKept
    <3>2. destination.kind = "link" /\ destination.target = Newest
      BY <3>1 DEF LinkTo
    <3>3. InStorage(destination.target)
      BY <3>1, <3>2, <1>1 DEF InStorage, Complete
    <3> QED  BY <1>4, <3>2, <3>3 DEF ReadPrevious, TypeOK
  <2>4. PreviousIsKept(p)'
    BY <2>2, <2>3 DEF PreviousIsKept, Switched, Newest
  <2>5. Untouched(p)' /\ StagedLast(p)'
    BY <2>2 DEF Mine, Untouched, Unswitched, StagedLast, Reserved
  <2>6. LegacyKept({p})'
    BY <2>2, LegacyStays DEF Mine
  <2> QED  BY <2>1, <2>4, <2>5, <2>6 DEF Mine
<1>5. CASE Reserve(p)
  <2>1. Added("reserved", snapshot[p])
    BY <1>5, Effects
  <2>2. /\ pc[p] = "reserve" /\ pc'[p] = "promote" /\ moved' = moved
        /\ destination' = destination /\ before' = before /\ switched' = switched
        /\ snapshot' = snapshot /\ previous' = previous
        /\ generation'[p] = Len(generations) + 1
        /\ torn' = torn /\ answered' = answered
    BY <1>5 DEF Reserve, TypeOK, history
  <2>3. \A g \in 1..Len(generations) : Complete(g) => Complete(g)'
    BY <2>1 DEF Added, Complete
  <2>4. TwoAreKept'
    BY <2>2, <2>3, <1>1 DEF Mine, TwoAreKept, Newest
  <2>5. /\ \A i \in 1..Len(switched) : switched[i] # generation'[p]
        /\ generation'[p] \notin answered
    BY <2>2, <1>1 DEF NamesAreMade
  <2>6. Untouched(p)'
    BY <2>2, <2>5, <1>2 DEF Reserved, Mine, Untouched, Unswitched, NamesWhatIsMade
  <2>7. PreviousIsKept(p)'
    BY <2>2 DEF Mine, PreviousIsKept, Switched, Newest
  <2>8. snapshot[p] \in Nat
    BY PublicationAssumption DEF TypeOK
  <2>9. StagedLast(p)'
    BY <2>1, <2>2, <2>8, <1>1 DEF Mine, StagedLast, Reserved, Added
  <2>10. LegacyKept({p})'
    <3>1. snapshot[p] # 0
      BY <2>2, <1>2 DEF NamesWhatIsMade
    <3>2. \A g \in 1..Len(generations') : generations'[g].version = 0 =>
              g \in 1..Len(generations) /\ generations[g].version = 0
      BY <2>1, <3>1, <1>1 DEF Added
    <3> QED  BY <2>2, <3>2, LegacyStays DEF Mine
  <2> QED  BY <2>4, <2>6, <2>7, <2>9, <2>10 DEF Mine
<1>6. CASE Promote(p)
  <2>1. Marked({generation[p]}, "complete") /\ generation[p] \in 1..Len(generations)
    BY <1>6, Effects DEF Promote, InStorage
  <2>2. /\ pc[p] = "promote" /\ pc'[p] = "legacy" /\ moved' = moved
        /\ destination' = destination /\ before' = before /\ switched' = switched
        /\ snapshot' = snapshot /\ previous' = previous /\ generation' = generation
        /\ torn' = torn /\ answered' = answered
    BY <1>6 DEF Promote, TypeOK, history
  <2>3. /\ \A g \in 1..Len(generations) : Complete(g) => Complete(g)'
        /\ Complete(generation[p])'
    BY <2>1, <2>2 DEF Marked, Complete
  <2>4. TwoAreKept'
    BY <2>2, <2>3, <1>1 DEF Mine, TwoAreKept, Newest
  <2>5. Untouched(p)'
    BY <2>2, <2>3, <1>2 DEF Mine, Untouched, Unswitched, Reserved, NamesWhatIsMade, Complete
  <2>6. PreviousIsKept(p)'
    BY <2>2 DEF Mine, PreviousIsKept, Switched, Newest
  <2>7. StagedLast(p)'
    BY <2>1, <2>2, <1>1 DEF Mine, StagedLast, Reserved, Marked
  <2>8. LegacyKept({p})'
    BY <2>1, <2>2, LegacyStays DEF Mine, Marked
  <2> QED  BY <2>4, <2>5, <2>6, <2>7, <2>8 DEF Mine
<1>7. CASE CheckLegacy(p)
  <2>1. /\ pc[p] = "legacy" /\ pc'[p] \in {"move", "switch"} /\ moved' = moved
        /\ pc'[p] = "move" => destination = Directory
        /\ destination' = destination /\ before' = before /\ switched' = switched
        /\ snapshot' = snapshot /\ previous' = previous /\ generation' = generation
        /\ generations' = generations /\ torn' = torn /\ answered' = answered
    BY <1>7 DEF CheckLegacy, TypeOK, history, Destination, Directory
  <2>2. TwoAreKept'
    BY <2>1 DEF Mine, TwoAreKept, Newest, Complete
  <2>3. moved[p] = 0
    BY <2>1, <1>2 DEF NamesWhatIsMade
  <2>4. Untouched(p)'
    BY <2>1, <2>3 DEF Mine, Untouched, Unswitched, Reserved, Complete
  <2>5. PreviousIsKept(p)' /\ StagedLast(p)'
    BY <2>1 DEF Mine, PreviousIsKept, Switched, Newest, StagedLast, Reserved
  <2>6. LegacyKept({p})'
    BY <2>1, LegacyStays DEF Mine
  <2> QED  BY <2>2, <2>4, <2>5, <2>6 DEF Mine
<1> QED  BY <1>3, <1>4, <1>5, <1>6, <1>7

LEMMA MineSwitches ==
    ASSUME TypeOK, NamesAreMade, NEW p \in Publishers, Mine(p),
           MoveLegacy(p) \/ Switch(p) \/ MarkSwitched(p) \/ Verify(p)
    PROVE  Mine(p)'
<1>1. /\ Len(switched) \in Nat /\ Len(generations) \in Nat
      /\ switched # << >> => Newest \in 1..Len(generations) /\ Len(switched) >= 1
      /\ Len(switched) >= 2 => switched[Len(switched) - 1] \in 1..Len(generations)
      /\ Len(switched) >= 1 => switched # << >>
  BY SwitchedAreThere
<1>2. NamesWhatIsMade(p)
  BY DEF NamesAreMade
<1>3. CASE MoveLegacy(p)
  <2>1. pc[p] = "move" /\ destination = Directory /\ moved[p] = 0 /\ before[p] = Directory
    BY <1>3, <1>2 DEF MoveLegacy, Mine, Untouched, Unswitched, NamesWhatIsMade
  <2>2. destination.kind = "directory"
    BY <2>1 DEF Directory
  <2>3. Added("complete", 0)
    BY <1>3, <2>2, Effects
  <2>4. switched = << >>
    BY <2>2 DEF Mine, TwoAreKept, LinkTo
  <2>5. /\ pc'[p] = "switch" /\ moved'[p] = Len(generations) + 1
        /\ destination' = NoDestination /\ before' = before /\ switched' = << >>
        /\ snapshot' = snapshot /\ generation' = generation
        /\ torn' = torn /\ answered' = answered /\ ~torn
    BY <1>3, <2>1, <2>2, <2>4 DEF MoveLegacy, TypeOK, history, Mine, LegacyKept
  <2>6. generation[p] \in 1..Len(generations) /\ Complete(generation[p])
    BY <2>1, <1>2 DEF Mine, Untouched, NamesWhatIsMade, Reserved
  <2>7. Complete(generation[p])' /\ Complete(moved[p])' /\ Len(switched') = 0
    BY <2>3, <2>5, <2>6 DEF Added, Complete
  <2>8. TwoAreKept' /\ PreviousIsKept(p)'
    BY <2>5, <2>7 DEF TwoAreKept, PreviousIsKept, Switched
  <2>9. Untouched(p)'
    <3>1. generation[p] \notin answered
      BY <2>1 DEF Mine, Untouched, Reserved
    <3> QED  BY <3>1, <2>1, <2>3, <2>5, <2>7, <1>1 DEF Untouched, Unswitched, Added
  <2>10. snapshot[p] \in Nat
    BY PublicationAssumption DEF TypeOK
  <2>11. StagedLast(p)'
    BY <2>1, <2>3, <2>5, <2>6, <2>10, <1>1 DEF Mine, StagedLast, Reserved, Added
  <2>12. LegacyKept({p})'
    <3>1. moved'[p] # 0 /\ destination' # Directory
      BY <2>5, <1>1 DEF NoDestination, Directory
    <3> QED  BY <2>5, <3>1 DEF LegacyKept
  <2> QED  BY <2>8, <2>9, <2>11, <2>12 DEF Mine
<1>4. CASE Switch(p)
  <2>1. /\ pc[p] = "switch" /\ pc'[p] = "flag" /\ destination' = LinkTo(generation[p])
        /\ switched' = Append(switched, generation[p])
        /\ snapshot' = snapshot /\ generation' = generation /\ generations' = generations
        /\ previous' = previous /\ ~torn' /\ answered' = answered
    BY <1>4 DEF Switch, TypeOK
  <2>2. /\ generation[p] \in 1..Len(generations) /\ Complete(generation[p])
        /\ generation[p] \notin answered
        /\ \A i \in 1..Len(switched) : switched[i] # generation[p]
    BY <2>1, <1>2 DEF Mine, Untouched, NamesWhatIsMade, Reserved
  <2>3. switched \in Seq(Nat) /\ generation[p] \in Nat
    BY DEF TypeOK
  <2>4. /\ Len(switched') = Len(switched) + 1 /\ switched'[Len(switched')] = generation[p]
        /\ switched' # << >>
        /\ Len(switched') >= 2 =>
               switched # << >> /\ switched'[Len(switched') - 1] = switched[Len(switched)]
    BY <2>1, <2>3
  <2>5. Newest' = generation[p] /\ (Len(switched') >= 2 => switched'[Len(switched') - 1] = Newest)
    BY <2>4 DEF Newest
  <2>6. \A g : Complete(g)' = Complete(g)
    BY <2>1 DEF Complete
  <2>7. /\ Len(switched') >= 2 => Newest # generation[p]
        /\ switched # << >> /\ Newest \in answered => Complete(Newest) /\ ~torn
    BY <2>2, <2>4, <1>1 DEF Newest, Mine, TwoAreKept
  <2>8. TwoAreKept'
    BY <2>1, <2>2, <2>4, <2>5, <2>6, <2>7 DEF TwoAreKept
  <2>9. PreviousIsKept(p)'
    BY <2>1, <2>4, <2>5, <2>7 DEF Mine, PreviousIsKept, Switched
  <2>10. Untouched(p)' /\ StagedLast(p)'
    BY <2>1, <2>2 DEF Mine, Untouched, Unswitched, StagedLast, Reserved
  <2>11. LegacyKept({p})'
    BY <2>1, <2>4 DEF LegacyKept
  <2> QED  BY <2>8, <2>9, <2>10, <2>11 DEF Mine
<1>5. CASE MarkSwitched(p) \/ Verify(p)
  <2>1. /\ pc[p] \in {"flag", "verify"} /\ pc'[p] \in {"verify", "list"}
        /\ destination' = destination
        /\ switched' = switched /\ snapshot' = snapshot /\ generation' = generation
        /\ generations' = generations /\ previous' = previous
        /\ torn' = torn /\ answered' = answered
    BY <1>5 DEF MarkSwitched, Verify, TypeOK, history
  <2>2. LegacyKept({p})'
    BY <2>1, LegacyStays DEF Mine
  <2> QED
    BY <2>1, <2>2 DEF Mine, TwoAreKept, Newest, Complete, Untouched, Unswitched, StagedLast,
         Reserved, PreviousIsKept, Switched
<1> QED  BY <1>3, <1>4, <1>5

LEMMA MineCleans ==
    ASSUME TypeOK, NamesAreMade, NEW p \in Publishers, Mine(p),
           List(p) \/ \E g \in doomed[p] : RemovePart(p, g) \/ Remove(p, g)
    PROVE  Mine(p)'
<1>1. /\ Len(switched) \in Nat /\ Len(generations) \in Nat
      /\ switched # << >> => Newest \in 1..Len(generations) /\ Len(switched) >= 1
      /\ Len(switched) >= 2 => switched[Len(switched) - 1] \in 1..Len(generations)
  BY SwitchedAreThere
<1>2. CASE List(p)
  <2>1. /\ pc[p] = "list" /\ pc'[p] = "clean" /\ destination' = destination
        /\ switched' = switched /\ snapshot' = snapshot /\ generation' = generation
        /\ generations' = generations /\ previous' = previous
        /\ torn' = torn /\ answered' = answered
        /\ doomed'[p] = {g \in 1..Len(generations) : InStorage(g)} \ {generation[p], previous[p]}
    BY <1>2 DEF List, TypeOK, history
  <2>2. /\ generation[p] \notin doomed'[p] /\ previous[p] \notin doomed'[p]
        /\ \A g \in 1..Len(generations) :
               InStorage(g) => g \in doomed'[p] \cup {generation[p], previous[p]}
    BY <2>1
  <2>3. \A g : InStorage(g)' = InStorage(g)
    BY <2>1 DEF InStorage
  <2>4. PreviousIsKept(p)'
    BY <2>1, <2>2, <2>3 DEF Mine, PreviousIsKept, Switched, Newest
  <2>5. TwoAreKept' /\ Untouched(p)' /\ StagedLast(p)'
    BY <2>1 DEF Mine, TwoAreKept, Newest, Complete, Untouched, Unswitched, StagedLast, Reserved
  <2>6. LegacyKept({p})'
    BY <2>1, LegacyStays DEF Mine
  <2> QED  BY <2>4, <2>5, <2>6 DEF Mine
<1>3. ASSUME NEW g \in doomed[p], RemovePart(p, g) \/ Remove(p, g) PROVE Mine(p)'
  <2>1. /\ pc[p] = "clean" /\ pc' = pc /\ destination' = destination
        /\ switched' = switched /\ snapshot' = snapshot /\ generation' = generation
        /\ previous' = previous /\ torn' = torn /\ answered' = answered
    BY <1>3 DEF RemovePart, Remove, command, history
  <2>2. PICK c \in {"partial", "gone"} :
            Marked({g}, c) /\ doomed'[p] = IF c = "gone" THEN doomed[p] \ {g} ELSE doomed[p]
    <3>1. CASE RemovePart(p, g)
      BY <3>1, Effects DEF RemovePart, command
    <3>2. CASE Remove(p, g)
      BY <3>2, Effects DEF Remove, TypeOK
    <3> QED  BY <1>3, <3>1, <3>2
  <2>3. /\ switched # << >> /\ Newest = generation[p] /\ g # generation[p] /\ g # previous[p]
        /\ ~torn /\ generation[p] \notin answered
        /\ Len(switched) >= 2 =>
               /\ switched[Len(switched) - 1] # generation[p]
               /\ switched[Len(switched) - 1] \in answered =>
                      previous[p] = switched[Len(switched) - 1]
        /\ generation[p] \notin doomed[p] /\ previous[p] \notin doomed[p]
        /\ \A h \in 1..Len(generations) :
               InStorage(h) => h \in doomed[p] \cup {generation[p], previous[p]}
    BY <2>1 DEF Mine, PreviousIsKept, Untouched, Reserved, Switched
  <2>4. \A h \in 1..Len(generations) : h # g => Complete(h)' = Complete(h)
    BY <2>2 DEF Marked, Complete
  <2>5. TwoAreKept'
    BY <2>1, <2>3, <2>4, <1>1 DEF Mine, TwoAreKept, Newest
  <2>6. Untouched(p)' /\ StagedLast(p)'
    BY <2>1, <2>2 DEF Mine, Untouched, Unswitched, StagedLast, Reserved, Marked, NamesAreMade,
                      NamesWhatIsMade
  <2>7. \A h \in 1..Len(generations) :
            InStorage(h)' => h \in doomed'[p] \cup {generation[p], previous[p]}
    BY <2>2, <2>3 DEF Marked, InStorage
  <2>8. Len(generations') = Len(generations)
    BY <2>2 DEF Marked
  <2>9. generation[p] \notin doomed'[p] /\ previous[p] \notin doomed'[p]
    BY <2>2, <2>3
  <2>10. PreviousIsKept(p)'
    BY <2>1, <2>3, <2>7, <2>8, <2>9 DEF PreviousIsKept, Switched, Newest
  <2>11. LegacyKept({p})'
    BY <2>1, <2>2, LegacyStays DEF Mine, Marked
  <2> QED  BY <2>5, <2>6, <2>10, <2>11 DEF Mine
<1> QED  BY <1>2, <1>3

LEMMA MineEnds ==
    ASSUME TypeOK, NamesAreMade, NEW p \in Publishers, Mine(p),
           \/ Return(p) \/ ReturnDeferred(p) \/ RollBack(p) \/ VerifyFails(p) \/ Crash(p)
    PROVE  Mine(p)'
<1>1. /\ Len(switched) \in Nat /\ Len(generations) \in Nat
      /\ switched # << >> => Newest \in 1..Len(generations) /\ Len(switched) >= 1
      /\ Len(switched) >= 2 => switched[Len(switched) - 1] \in 1..Len(generations)
  BY SwitchedAreThere
<1>2. pc'[p] = "idle" /\ switched' = switched
  BY DEF Return, ReturnDeferred, RollBack, VerifyFails, Crash, End, TypeOK
<1>3. Untouched(p)' /\ PreviousIsKept(p)' /\ StagedLast(p)'
  BY <1>2 DEF Untouched, PreviousIsKept, StagedLast, Unswitched, Switched, Reserved
<1>4. CASE Return(p) \/ ReturnDeferred(p)
  <2>1. /\ pc[p] \in Switched /\ destination' = destination /\ generations' = generations
        /\ torn' = torn /\ answered' = answered \cup {generation[p]}
    BY <1>4 DEF Return, ReturnDeferred, Switched
  <2>2. /\ switched # << >> /\ Newest = generation[p] /\ ~torn /\ Complete(Newest)
        /\ Len(switched) >= 2 => switched[Len(switched) - 1] # generation[p]
    BY <2>1 DEF Mine, PreviousIsKept, TwoAreKept
  <2>3. TwoAreKept'
    BY <1>2, <2>1, <2>2 DEF Mine, TwoAreKept, Newest, Complete
  <2>4. LegacyKept({p})'
    BY <1>2, <2>1, <2>2 DEF LegacyKept
  <2> QED  BY <1>3, <2>3, <2>4 DEF Mine
<1>5. CASE VerifyFails(p) \/ Crash(p)
  <2>1. destination' = destination /\ generations' = generations /\ answered' = answered
    BY <1>5 DEF VerifyFails, Crash
  <2>2. (torn => torn') /\ (torn' => torn \/ (pc[p] = "switch" /\ Restorable(p)))
    <3>1. CASE VerifyFails(p)
      <4>1. torn' = torn
        BY <3>1 DEF VerifyFails
      <4> QED  BY <4>1
    <3>2. CASE Crash(p)
      BY <3>2 DEF Crash
    <3> QED  BY <1>5, <3>1, <3>2
  <2>3. pc[p] = "switch" /\ moved[p] # 0 => torn'
    <3> SUFFICES ASSUME pc[p] = "switch", moved[p] # 0 PROVE torn'
      OBVIOUS
    <3>1. Restorable(p)
      BY <1>1 DEF Mine, Untouched, Complete, Restorable, InStorage, NoDestination
    <3> QED  BY <1>5, <3>1 DEF VerifyFails, Crash
  <2>4. Restorable(p) => switched = << >> /\ destination # Directory
    BY DEF Restorable, Mine, TwoAreKept, LinkTo, Directory
  <2>5. TwoAreKept'
    <3>1. switched # << >> => (torn' <=> torn)
      BY <2>2, <2>4
    <3> QED  BY <1>2, <2>1, <3>1 DEF Mine, TwoAreKept, Newest, Complete
  <2>6. LegacyKept({p})'
    <3>1. torn' => destination # Directory
      BY <2>2, <2>4 DEF Mine, LegacyKept
    <3> QED  BY <1>2, <2>1, <2>2, <2>3, <3>1 DEF Mine, LegacyKept
  <2> QED  BY <1>3, <2>5, <2>6 DEF Mine
<1>6. CASE RollBack(p)
  <2>1. Undone(p)
    BY <1>6, Effects
  <2>2. answered' = answered
    BY <1>6 DEF RollBack
  <2>3. ASSUME switched # << >> PROVE Mine(p)'
    <3>1. /\ destination = LinkTo(Newest) /\ ~Restorable(p)
          /\ pc[p] \in Unswitched \cup {"flag"}
      BY <1>6, <2>3 DEF Mine, TwoAreKept, LinkTo, Restorable, RollBack, Unswitched
    <3>2. destination' = destination /\ (torn' <=> torn \/ pc[p] = "flag")
      BY <1>6, <3>1 DEF RollBack
    <3>3. \A h \in 1..Len(generations) : h # generation[p] => Complete(h)' = Complete(h)
      BY <2>1, <3>1, <1>1 DEF Undone, Complete
    <3>4. ASSUME ~torn' PROVE Newest # generation[p]
      <4>1. pc[p] \in Unswitched
        BY <3>1, <3>2, <3>4
      <4>2. generation[p] = 0 \/ \A i \in 1..Len(switched) : switched[i] # generation[p]
        BY <4>1 DEF Mine, Untouched, Unswitched, NamesAreMade, NamesWhatIsMade
      <4> QED  BY <4>2, <2>3, <1>1 DEF Newest
    <3>5. Len(switched) >= 2 => switched[Len(switched) - 1] # generation[p]
      <4>1. CASE pc[p] = "flag"
        BY <4>1 DEF Mine, PreviousIsKept, Switched
      <4>2. CASE pc[p] # "flag"
        BY <4>2, <3>1, <1>1 DEF Mine, Untouched, Unswitched, NamesAreMade, NamesWhatIsMade
      <4> QED  BY <4>1, <4>2
    <3>6. torn' => Newest \notin answered
      BY <3>2, <2>3 DEF Mine, TwoAreKept, PreviousIsKept, Untouched, Switched, Reserved
    <3>7. TwoAreKept'
      BY <1>1, <1>2, <2>2, <2>3, <3>2, <3>3, <3>4, <3>5, <3>6 DEF Mine, TwoAreKept, Newest
    <3>8. LegacyKept({p})'
      BY <1>2, <2>3, <3>1, <3>2 DEF LegacyKept, LinkTo, Directory
    <3> QED  BY <1>3, <3>7, <3>8 DEF Mine
  <2>4. ASSUME switched = << >> PROVE Mine(p)'
    <3>1. pc[p] # "flag"
      BY <2>4 DEF Mine, PreviousIsKept, Switched
    <3>2. PICK restored \in BOOLEAN :
              /\ restored => Restorable(p)
              /\ destination' = IF restored THEN Directory ELSE destination
              /\ torn' <=> torn \/ (Restorable(p) /\ ~restored)
      BY <1>6, <3>1 DEF RollBack
    <3>3. TwoAreKept'
      BY <1>2, <2>4 DEF TwoAreKept
    <3>4. \A g \in 1..Len(generations') : generations'[g].version = 0 =>
              g \in 1..Len(generations) /\ generations[g].version = 0
      BY <2>1 DEF Undone
    <3>5. pc[p] = "switch" /\ moved[p] # 0 => Restorable(p) /\ ~torn
      BY <1>1 DEF Mine, Untouched, Complete, Restorable, InStorage, NoDestination
    <3>6. restored => ~torn
      <4>1. \/ moved[p] # 0 /\ (pc[p] # "flag" => pc[p] = "switch")
            \/ ~Restorable(p)
        BY <1>6 DEF Restorable, InStorage, RollBack, NamesAreMade, NamesWhatIsMade
      <4> QED  BY <3>1, <3>2, <3>5, <4>1
    <3>7. LegacyKept({p})'
      <4>1. CASE restored
        BY <4>1, <3>2, <3>6 DEF LegacyKept
      <4>2. CASE ~restored
        <5>1. /\ destination' = destination /\ (torn => torn') /\ (Restorable(p) => torn')
              /\ torn' => torn \/ destination # Directory
          BY <3>2, <4>2 DEF Restorable, Directory
        <5>2. \/ destination = Directory
              \/ /\ destination = NoDestination
                 /\ \/ torn \/ \A g \in 1..Len(generations) : generations[g].version # 0
                    \/ pc[p] = "switch" /\ moved[p] # 0
          BY <2>4 DEF Mine, LegacyKept
        <5>3. torn => destination # Directory
          BY DEF Mine, LegacyKept
        <5> QED  BY <5>1, <5>2, <5>3, <3>4, <3>5 DEF LegacyKept
      <4> QED  BY <4>1, <4>2
    <3> QED  BY <1>3, <3>3, <3>7 DEF Mine
  <2> QED  BY <2>3, <2>4
<1> QED  BY <1>4, <1>5, <1>6

LEMMA NextKeeps == Kept /\ [Next]_vars => Kept'
<1> SUFFICES ASSUME Kept, [Next]_vars PROVE Kept'
  OBVIOUS
<1>1. CASE UNCHANGED vars
  BY <1>1 DEF vars, command, history, Kept, TypeOK, NamesAreMade, NamesWhatIsMade, Alone,
     OneAtATime, TwoAreKept, LegacyKept, Untouched, PreviousIsKept, StagedLast, Newest, Complete, InStorage
<1>2. CASE CatalogChanges
  <2>1. TypeOK'
    BY <1>2, PublicationAssumption DEF Kept, TypeOK, CatalogChanges, command, history
  <2>2. NamesAreMade'
    <3>1. catalog \in Nat /\ catalog' = catalog + 1
      BY <1>2, PublicationAssumption DEF Kept, TypeOK, CatalogChanges
    <3>2. \A g \in 1..Len(generations) : generations[g] \in Generation
      BY DEF Kept, TypeOK
    <3>3. \A g \in 1..Len(generations) : generations[g].version \in Nat
      BY <3>2, PublicationAssumption DEF Generation
    <3>4. \A p \in Publishers : snapshot[p] \in Nat
      BY PublicationAssumption DEF Kept, TypeOK
    <3>5. /\ pc' = pc /\ generation' = generation /\ moved' = moved /\ doomed' = doomed
          /\ snapshot' = snapshot /\ generations' = generations /\ switched' = switched
      BY <1>2 DEF CatalogChanges, command, history
    <3>6. answered' = answered
      BY <1>2 DEF CatalogChanges, history
    <3> QED  BY <3>1, <3>3, <3>4, <3>5, <3>6 DEF Kept, NamesAreMade, NamesWhatIsMade
  <2>3. Alone => Alone'
    BY <1>2 DEF CatalogChanges, command, history, Alone,
       OneAtATime, TwoAreKept, LegacyKept, Untouched, PreviousIsKept, StagedLast, Newest, Complete, InStorage
  <2>4. overlapped' = overlapped
    BY <1>2 DEF CatalogChanges, history
  <2> QED  BY <2>1, <2>2, <2>3, <2>4 DEF Kept
<1>3. ASSUME NEW p \in Publishers, Step(p) PROVE Kept'
  <2>1. TypeOK /\ NamesAreMade /\ TypeOK' /\ NamesAreMade'
    BY <1>3, StepTypes, StepNames DEF Kept
  <2>2. ASSUME ~overlapped' PROVE Alone'
    <3>1. Alone
      <4>1. overlapped' = overlapped \/ Stage(p)
        BY <1>3 DEF Step, ReadPrevious, Reserve, Promote, CheckLegacy, MoveLegacy, Switch,
           MarkSwitched, Verify, List, RemovePart, Remove, Return, ReturnDeferred, RollBack, VerifyFails,
           Crash, End, history
      <4>2. ~overlapped
        BY <2>2, <4>1 DEF Stage
      <4> QED  BY <4>2 DEF Kept
    <3>2. Mine(p)
      <4>1. \A q \in Publishers \ {p} : pc[q] = "idle"
        BY <2>1, <2>2, <3>1, <1>3, OthersIdle DEF Alone
      <4>2. LegacyKept({p})
        BY <3>1, <4>1 DEF Alone, LegacyKept
      <4> QED  BY <3>1, <4>2 DEF Alone, Mine
    <3>3. Mine(p)'
      BY <2>1, <3>2, <1>3, MineBegins, MineSwitches, MineCleans, MineEnds DEF Step
    <3> QED  BY <2>1, <2>2, <3>1, <3>3, <1>3, AloneStep DEF Mine
  <2> QED  BY <2>1, <2>2 DEF Kept
<1> QED  BY <1>1, <1>2, <1>3 DEF Next

LEMMA AlwaysKept == Spec => []Kept
  BY InitKept, NextKeeps, PTL DEF Spec

-----------------------------------------------------------------------------
(* The theorems.                                                           *)

\* Publications that do not overlap, each of them failing at any call
\* (export.py:141-208), keep a complete export at the destination, the legacy
\* directory included, unless one is torn, and at the path the last answer but one
\* gave even then.
THEOREM PublishedKept == Spec => []PublishedStaysComplete
<1>1. Kept => PublishedStaysComplete
  <2> SUFFICES ASSUME Kept PROVE PublishedStaysComplete
    OBVIOUS
  <2>1. /\ Len(switched) \in Nat
        /\ Len(switched) >= 2 => switched[Len(switched) - 1] \in 1..Len(generations)
        /\ Len(switched) >= 1 => switched # << >>
    BY SwitchedAreThere DEF Kept
  <2>2. DestinationIsComplete
    <3> SUFFICES ASSUME ~overlapped, ~torn
                 PROVE  \/ /\ switched # << >> /\ destination = LinkTo(Newest)
                           /\ generations[Newest].content = "complete"
                        \/ switched = << >> /\ destination = Directory
                        \/ /\ switched = << >> /\ destination = NoDestination
                           /\ \/ \A g \in 1..Len(generations) : generations[g].version # 0
                              \/ \E p \in Publishers :
                                     pc[p] = "switch" /\ InStorage(moved[p])
                                         /\ generations[moved[p]].content = "complete"
      BY DEF DestinationIsComplete
    <3>1. Alone
      BY DEF Kept
    <3>2. ASSUME NEW p \in Publishers, pc[p] = "switch", moved[p] # 0
          PROVE  InStorage(moved[p]) /\ generations[moved[p]].content = "complete"
      BY <3>1, <3>2 DEF Alone, Untouched, Complete, InStorage
    <3> QED  BY <3>1, <3>2 DEF Alone, TwoAreKept, LegacyKept, Complete
  <2>3. ASSUME ~overlapped, NEW i \in 1..Len(switched), i >= Len(switched) - 1,
               switched[i] \in answered
        PROVE  generations[switched[i]].content = "complete"
    <3>1. TwoAreKept
      BY <2>3 DEF Kept, Alone
    <3>2. i = Len(switched) \/ (Len(switched) >= 2 /\ i = Len(switched) - 1)
      BY <2>1, <2>3
    <3> QED  BY <2>1, <2>3, <3>1, <3>2 DEF TwoAreKept, Newest, Complete
  <2>4. PathKeptThroughNext
    BY <2>3 DEF PathKeptThroughNext
  <2> QED  BY <2>2, <2>4 DEF PublishedStaysComplete, Kept
<1> QED  BY <1>1, AlwaysKept, PTL

\* Overlap is never forgotten.
LEMMA OverlapIsKept == [Next]_vars /\ ~overlapped' => ~overlapped
<1>1. ASSUME [Next]_vars PROVE overlapped' = overlapped \/ \E p \in Publishers : Stage(p)
  BY <1>1 DEF Next, CatalogChanges, Step, ReadPrevious, Reserve, Promote, CheckLegacy,
     MoveLegacy, Switch, MarkSwitched, Verify, List, RemovePart, Remove, Return,
     ReturnDeferred, RollBack, VerifyFails, Crash, End, history, vars
<1> QED  BY <1>1 DEF Stage

LEMMA OldOrNewIsLeft ==
    ASSUME Kept, [Next]_vars, NEW p \in Publishers
    PROVE  LeavesOldOrNew(p)
<1> SUFFICES ASSUME pc[p] # "idle", pc'[p] = "idle", ~overlapped', torn' => torn
             PROVE  destination' \in {before[p], LinkTo(generation[p])}
  BY DEF LeavesOldOrNew
<1>1. /\ TypeOK /\ NamesWhatIsMade(p) /\ TwoAreKept
      /\ Untouched(p) /\ PreviousIsKept(p)
  BY OverlapIsKept DEF Kept, Alone, NamesAreMade
<1>2. \/ Return(p) \/ ReturnDeferred(p) \/ VerifyFails(p) \/ Crash(p) \/ RollBack(p)
  <2>1. ASSUME NEW q \in Publishers, q # p, Step(q) PROVE pc'[p] = pc[p]
    BY <1>1, <2>1 DEF Step, Stage, ReadPrevious, Reserve, Promote, CheckLegacy, MoveLegacy,
       Switch, MarkSwitched, Verify, List, RemovePart, Remove, Return, ReturnDeferred, RollBack,
       VerifyFails, Crash, End, TypeOK, command
  <2>2. Step(p)
    BY <2>1 DEF Next, CatalogChanges, command, vars
  <2> QED
    BY <1>1, <2>2 DEF Step, Stage, ReadPrevious, Reserve, Promote, CheckLegacy, MoveLegacy,
       Switch, MarkSwitched, Verify, List, RemovePart, Remove, TypeOK, command
<1>3. CASE pc[p] \in Switched
  <2>1. destination = LinkTo(generation[p]) /\ destination.kind = "link"
    BY <1>1, <1>3 DEF PreviousIsKept, TwoAreKept, LinkTo
  <2> QED
    BY <1>2, <2>1 DEF Return, ReturnDeferred, VerifyFails, Crash, RollBack, Restorable
<1>4. CASE pc[p] \notin Switched
  <2>1. pc[p] \in Unswitched /\ (Crash(p) \/ RollBack(p))
    BY <1>1, <1>2, <1>4 DEF TypeOK, Switched, Unswitched, Return, ReturnDeferred, VerifyFails
  <2>2. CASE moved[p] = 0
    <3>1. destination = before[p] /\ ~Restorable(p)
      BY <1>1, <2>1, <2>2 DEF Untouched, Restorable, InStorage
    <3> QED  BY <2>1, <3>1 DEF Crash, RollBack
  <2>3. CASE moved[p] # 0
    <3>1. pc[p] = "switch"
      BY <1>1, <2>1, <2>3 DEF NamesWhatIsMade, Unswitched
    <3>2. before[p] = Directory /\ ~torn /\ Restorable(p)
      BY <1>1, <2>3, <3>1 DEF Untouched, Complete, Restorable, InStorage, NoDestination
    <3> QED  BY <2>1, <3>1, <3>2 DEF Crash, RollBack
  <2> QED  BY <2>2, <2>3
<1> QED  BY <1>3, <1>4

LEMMA NeverOlder ==
    ASSUME Kept, [Next]_vars
    PROVE  ShowsNoOlder
<1> SUFFICES ASSUME ~overlapped', ~\E p \in Publishers : MoveLegacy(p) /\ destination = Directory
             PROVE  Rank(destination, generations) <= Rank(destination', generations')
  BY DEF ShowsNoOlder
<1>1. TypeOK /\ NamesAreMade /\ Alone
  BY OverlapIsKept DEF Kept
<1>2. /\ destination.kind \in {"none", "directory", "link"}
      /\ destination.kind = "link" =>
             /\ switched # << >> /\ destination.target = Newest
             /\ Newest \in 1..Len(generations) /\ generations[Newest].version \in Nat
  <2>1. switched = << >> => destination.kind # "link"
    BY <1>1 DEF Alone, LegacyKept, Directory, NoDestination
  <2>2. switched # << >> => destination.target = Newest /\ Newest \in 1..Len(generations)
    BY <1>1, SwitchedAreThere DEF Alone, TwoAreKept, LinkTo
  <2>3. \A g \in 1..Len(generations) : generations[g] \in Generation
    BY <1>1 DEF TypeOK
  <2>4. \A g \in 1..Len(generations) : generations[g].version \in Nat
    BY <2>3, PublicationAssumption DEF Generation
  <2>5. destination.kind \in {"none", "directory", "link"}
    BY <1>1 DEF TypeOK, Destination
  <2> QED  BY <2>1, <2>2, <2>4, <2>5
<1>3. \A g \in 1..Len(generations) : generations'[g].version = generations[g].version
  <2>1. ASSUME NEW p \in Publishers, Step(p)
        PROVE  \A g \in 1..Len(generations) : generations'[g].version = generations[g].version
    BY <1>1, <2>1, StepMakes
  <2>2. CASE CatalogChanges \/ UNCHANGED vars
    BY <2>2 DEF CatalogChanges, vars
  <2> QED  BY <2>1, <2>2 DEF Next
<1>4. CASE destination' = destination
  BY <1>2, <1>3, <1>4 DEF Rank
<1>5. CASE \E p \in Publishers : Switch(p)
  <2>1. PICK p \in Publishers : Switch(p)
    BY <1>5
  <2>2. /\ pc[p] = "switch" /\ generations' = generations /\ destination' = LinkTo(generation[p])
        /\ destination.kind # "directory"
    BY <2>1 DEF Switch
  <2>3. StagedLast(p) /\ generation[p] \in 1..Len(generations)
    BY <1>1, <2>2 DEF Alone, NamesAreMade, NamesWhatIsMade, Reserved
  <2>4. generations[generation[p]] \in Generation
    BY <1>1, <2>3 DEF TypeOK
  <2>5. generations[generation[p]].version \in Nat
    BY <2>4, PublicationAssumption DEF Generation
  <2>6. destination.kind = "link" =>
            generations[Newest].version <= generations[generation[p]].version
    BY <1>2, <2>2, <2>3 DEF StagedLast, Reserved
  <2>7. destination'.kind = "link" /\ destination'.target = generation[p]
    BY <2>2 DEF LinkTo
  <2> QED  BY <1>2, <2>2, <2>5, <2>6, <2>7 DEF Rank
<1>6. CASE destination' # destination /\ ~\E p \in Publishers : Switch(p)
  <2>1. PICK p \in Publishers : MoveLegacy(p) \/ RollBack(p)
    BY <1>6 DEF Next, CatalogChanges, Step, Stage, ReadPrevious, Reserve, Promote,
         CheckLegacy, MarkSwitched, Verify, List, RemovePart, Remove, Return, ReturnDeferred,
         VerifyFails, Crash, vars
  <2>2. ~MoveLegacy(p)
    BY <1>1 DEF Alone, Untouched, MoveLegacy
  <2>3. destination.kind = "none" /\ destination' = Directory
    BY <1>6, <2>1, <2>2 DEF RollBack, Restorable
  <2> QED  BY <2>3 DEF Rank, Directory
<1> QED  BY <1>4, <1>5, <1>6

\* Without overlap the destination moves on to a newer catalog and is otherwise
\* what it was, the legacy export included: only moving the legacy export away
\* takes it down, and every command that ends leaves what it found or its own
\* export, unless this end tears it (export.py:161-191).
THEOREM NeverGoesBack == Spec => DestinationNeverGoesBack
<1>1. Kept /\ [Next]_vars => ShowsNoOlder /\ \A p \in Publishers : LeavesOldOrNew(p)
  BY NeverOlder, OldOrNewIsLeft
<1>2. Kept /\ [Next]_vars =>
          [ShowsNoOlder /\ \A p \in Publishers : LeavesOldOrNew(p)]_vars
  BY <1>1
<1> QED  BY <1>2, AlwaysKept, PTL DEF Spec, DestinationNeverGoesBack

LEMMA TwoAtMost ==
    ASSUME NEW a, NEW b
    PROVE  \A S \in SUBSET {a, b} : Cardinality(S) <= 2
<1>1. IsFiniteSet({}) /\ Cardinality({}) = 0
  BY FS_EmptySet
<1>2. IsFiniteSet({b}) /\ Cardinality({b}) = 1
  BY FS_Singleton
<1>3. IsFiniteSet({a, b}) /\ Cardinality({a, b}) <= 2
  <2>1. IsFiniteSet({b} \cup {a}) /\ Cardinality({b} \cup {a}) <= 2
    BY <1>2, FS_AddElement
  <2>2. {b} \cup {a} = {a, b}
    OBVIOUS
  <2> QED  BY <2>1, <2>2
<1> SUFFICES ASSUME NEW S \in SUBSET {a, b} PROVE Cardinality(S) <= 2
  OBVIOUS
<1>4. IsFiniteSet(S) /\ Cardinality(S) <= Cardinality({a, b})
  BY <1>3, FS_Subset
<1>5. Cardinality(S) \in Nat /\ Cardinality({a, b}) \in Nat
  BY <1>3, <1>4, FS_CardinalityType
<1> QED  BY <1>3, <1>4, <1>5

\* What failed and killed publications left behind does not pile up: once a
\* cleanup has run to its end, two generations are left (export.py:283-292).
THEOREM StorageBounded == Spec => StorageIsBounded
<1>1. ASSUME Kept, NEW p \in Publishers, ~overlapped, pc[p] = "clean", doomed[p] = {}
      PROVE  Cardinality({g \in 1..Len(generations) : InStorage(g)}) <= 2
  <2>1. PreviousIsKept(p)
    BY <1>1 DEF Kept, Alone
  <2>2. {g \in 1..Len(generations) : InStorage(g)} \in SUBSET {generation[p], previous[p]}
    BY <1>1, <2>1 DEF PreviousIsKept
  <2> QED  BY <2>2, TwoAtMost
<1>2. Kept /\ [Next]_vars =>
          [\A p \in Publishers :
              ~overlapped /\ pc[p] = "clean" /\ doomed[p] = {} /\ pc'[p] = "idle" =>
                  Cardinality({g \in 1..Len(generations) : InStorage(g)}) <= 2]_vars
  BY <1>1
<1> QED  BY <1>2, AlwaysKept, PTL DEF Spec, StorageIsBounded
=============================================================================
