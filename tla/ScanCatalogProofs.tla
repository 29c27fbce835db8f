-------------------------- MODULE ScanCatalogProofs --------------------------
(***************************************************************************)
(* Proofs about ScanCatalog, for any finite library, any sources, any      *)
(* number of scan commands and any of the bounds.                          *)
(***************************************************************************)
EXTENDS ScanCatalog, SequenceTheorems, FiniteSetTheorems, TLAPS

-----------------------------------------------------------------------------
(* Rows and events *)

\* Appending to a sequence keeps what it holds.
LEMMA Appended ==
    ASSUME NEW S, NEW s \in Seq(S), NEW e \in S
    PROVE  /\ Append(s, e) \in Seq(S)
           /\ Len(s) \in Nat
           /\ Len(Append(s, e)) = Len(s) + 1
           /\ \A i \in 1..Len(s) : Append(s, e)[i] = s[i]
           /\ Append(s, e)[Len(s) + 1] = e
  BY AppendProperties, LenProperties

\* The paths of an observation are finitely many.
LEMMA SeenCounted ==
    ASSUME NEW s, NEW kind
    PROVE  Cardinality(Seen(s) \cap OfKind(kind)) \in Nat
<1>1. Seen(s) \cap OfKind(kind) \subseteq Files
  BY DEF Seen, OfKind
<1> QED
  BY <1>1, ScanAssumption, FS_Subset, FS_CardinalityType

\* Whatever the kind of an observed item, its row shows it present, seen by
\* this run.
LEMMA RowShowsPresent ==
    ASSUME NEW f \in Files, NEW facts \in Facts, NEW r \in Nat
    PROVE  /\ Row(f, facts, r) \in Track
           /\ Row(f, facts, r).presence = "present"
           /\ Row(f, facts, r).lastSeen = r
<1>1. KindOf[f] \in {"audio", "artifact", "directory"} /\ 0 \in Facts
  BY ScanAssumption DEF Facts
<1>2. Row(f, facts, r) \in {[presence |-> "present", facts |-> facts, lastSeen |-> r],
                            [presence |-> "present", facts |-> 0, lastSeen |-> r]}
  BY <1>1 DEF Row, Observed, ArtifactObserved, DirectoryObserved
<1>3. \A x \in Facts : [presence |-> "present", facts |-> x, lastSeen |-> r] \in Track
  BY DEF Track
<1> QED
  BY <1>1, <1>2, <1>3

\* A transition appends at most a restoration and a change.
LEMMA TransitionAppends ==
    ASSUME NEW story \in Seq(Event), NEW track \in Track, NEW facts \in Facts, NEW r \in Nat
    PROVE  \E discovered, restored, changed \in Event :
              /\ discovered.type = "discovered" /\ discovered.run = r
              /\ restored.type = "restored" /\ restored.run = r
              /\ changed.type = "changed" /\ changed.run = r
              /\ track.presence = "none" =>
                    story \o Transition(track, facts, r) = Append(story, discovered)
              /\ track.presence = "present" =>
                    story \o Transition(track, facts, r) \in {story, Append(story, changed)}
              /\ track.presence = "missing" =>
                    story \o Transition(track, facts, r) \in
                       {Append(story, restored), Append(Append(story, restored), changed)}
<1> DEFINE discovered == [type |-> "discovered", run |-> r]
           restored == [type |-> "restored", run |-> r]
           changed == [type |-> "changed", run |-> r]
<1>1. discovered \in Event /\ restored \in Event /\ changed \in Event
  BY DEF Event
<1>2. /\ discovered.type = "discovered" /\ discovered.run = r
      /\ restored.type = "restored" /\ restored.run = r
      /\ changed.type = "changed" /\ changed.run = r
  OBVIOUS
<1>3. Transition(track, facts, r) =
        IF track.presence = "none" THEN <<discovered>>
        ELSE (IF track.presence = "missing" THEN <<restored>> ELSE << >>)
             \o (IF track.facts # facts THEN <<changed>> ELSE << >>)
  BY DEF Transition
<1> HIDE DEF discovered, restored, changed
<1>4. CASE track.presence = "none"
  <2>1. story \o Transition(track, facts, r) = Append(story, discovered)
    BY <1>1, <1>3, <1>4, AppendIsConcat
  <2> QED
    BY <1>1, <1>2, <1>4, <2>1
<1>5. CASE track.presence = "present"
  <2>1. CASE track.facts # facts
    <3>1. <<changed>> \in Seq(Event)
      BY <1>1
    <3>2. Transition(track, facts, r) = << >> \o <<changed>>
      BY <1>3, <1>5, <2>1
    <3>3. << >> \o <<changed>> = <<changed>>
      BY <3>1, ConcatEmptySeq
    <3>4. story \o <<changed>> = Append(story, changed)
      BY <1>1, AppendIsConcat
    <3>5. story \o Transition(track, facts, r) = Append(story, changed)
      BY <3>2, <3>3, <3>4
    <3> QED
      BY <1>1, <1>2, <1>5, <3>5
  <2>2. CASE track.facts = facts
    <3>1. << >> \in Seq(Event)
      BY EmptySeq
    <3>2. Transition(track, facts, r) = << >> \o << >>
      BY <1>3, <1>5, <2>2
    <3>3. << >> \o << >> = << >>
      BY <3>1, ConcatEmptySeq
    <3>4. story \o Transition(track, facts, r) = story
      BY <3>2, <3>3, ConcatEmptySeq
    <3> QED
      BY <1>1, <1>2, <1>5, <3>4
  <2> QED
    BY <2>1, <2>2
<1>6. CASE track.presence = "missing"
  <2>1. /\ <<restored>> \in Seq(Event) /\ <<changed>> \in Seq(Event)
        /\ Append(story, restored) \in Seq(Event)
    BY <1>1, Appended
  <2>2. story \o <<restored>> = Append(story, restored)
    BY <1>1, AppendIsConcat
  <2>3. CASE track.facts # facts
    <3>1. Transition(track, facts, r) = <<restored>> \o <<changed>>
      BY <1>3, <1>6, <2>3
    <3>2. story \o (<<restored>> \o <<changed>>) = Append(story, restored) \o <<changed>>
      <4>1. (story \o <<restored>>) \o <<changed>> = story \o (<<restored>> \o <<changed>>)
        BY <2>1, ConcatAssociative
      <4> QED
        BY <2>2, <4>1
    <3>3. Append(story, restored) \o <<changed>> = Append(Append(story, restored), changed)
      BY <1>1, <2>1, AppendIsConcat
    <3>4. story \o Transition(track, facts, r) = Append(Append(story, restored), changed)
      BY <3>1, <3>2, <3>3
    <3> QED
      BY <1>1, <1>2, <1>6, <3>4
  <2>4. CASE track.facts = facts
    <3>1. Transition(track, facts, r) = <<restored>> \o << >>
      BY <1>3, <1>6, <2>4
    <3>2. <<restored>> \o << >> = <<restored>>
      BY <2>1, ConcatEmptySeq
    <3>3. story \o Transition(track, facts, r) = Append(story, restored)
      BY <2>2, <3>1, <3>2
    <3> QED
      BY <1>1, <1>2, <1>6, <3>3
  <2> QED
    BY <2>3, <2>4
<1>7. track.presence \in {"none", "present", "missing"}
  BY DEF Track
<1> QED
  BY <1>4, <1>5, <1>6, <1>7

\* The events of a file after an observation.
Extended(story, track, facts, r) == story \o Transition(track, facts, r)

\* So an observation keeps the events of a file and adds none that declares it
\* missing.
LEMMA TransitionKeeps ==
    ASSUME NEW story \in Seq(Event), NEW track \in Track, NEW facts \in Facts, NEW r \in Nat,
           NEW after, after = Extended(story, track, facts, r)
    PROVE  /\ after \in Seq(Event)
           /\ Len(story) \in Nat /\ Len(after) \in Nat /\ Len(story) <= Len(after)
           /\ \A i \in 1..Len(story) : after[i] = story[i]
           /\ \A i \in 1..Len(after) :
                 i > Len(story) => after[i].run = r /\ after[i].type # "missing"
<1>1. PICK discovered, restored, changed \in Event :
              /\ discovered.type = "discovered" /\ discovered.run = r
              /\ restored.type = "restored" /\ restored.run = r
              /\ changed.type = "changed" /\ changed.run = r
              /\ track.presence = "none" => after = Append(story, discovered)
              /\ track.presence = "present" => after \in {story, Append(story, changed)}
              /\ track.presence = "missing" =>
                    after \in {Append(story, restored), Append(Append(story, restored), changed)}
  BY TransitionAppends DEF Extended
<1>2. track.presence \in {"none", "present", "missing"}
  BY DEF Track
<1>3. Len(story) \in Nat
  BY LenProperties
<1>4. ASSUME NEW e \in Event, e.run = r, e.type # "missing", after = Append(story, e)
      PROVE  /\ after \in Seq(Event) /\ Len(after) = Len(story) + 1
             /\ \A i \in 1..Len(story) : after[i] = story[i]
             /\ after[Len(story) + 1] = e
  BY <1>4, Appended
<1>5. ASSUME after = Append(Append(story, restored), changed)
      PROVE  /\ after \in Seq(Event) /\ Len(after) = Len(story) + 2
             /\ \A i \in 1..Len(story) : after[i] = story[i]
             /\ after[Len(story) + 1] = restored /\ after[Len(story) + 2] = changed
  <2> DEFINE middle == Append(story, restored)
  <2>1. /\ middle \in Seq(Event) /\ Len(middle) = Len(story) + 1
        /\ \A i \in 1..Len(story) : middle[i] = story[i]
        /\ middle[Len(story) + 1] = restored
    BY Appended
  <2> HIDE DEF middle
  <2>2. /\ Append(middle, changed) \in Seq(Event)
        /\ Len(Append(middle, changed)) = Len(middle) + 1
        /\ \A i \in 1..Len(middle) : Append(middle, changed)[i] = middle[i]
        /\ Append(middle, changed)[Len(middle) + 1] = changed
    BY <2>1, Appended
  <2> QED
    BY <1>3, <1>5, <2>1, <2>2 DEF middle
<1>6. CASE after = story
  BY <1>3, <1>6
<1>7. CASE \E e \in {discovered, restored, changed} : after = Append(story, e)
  <2>1. PICK e \in {discovered, restored, changed} : after = Append(story, e)
    BY <1>7
  <2>2. e \in Event /\ e.run = r /\ e.type # "missing"
    BY <1>1
  <2> QED
    BY <1>3, <1>4, <2>1, <2>2
<1>8. CASE after = Append(Append(story, restored), changed)
  BY <1>1, <1>3, <1>5, <1>8
<1> QED
  BY <1>1, <1>2, <1>6, <1>7, <1>8

\* One more event continues the story: a change leaves it, another event turns it.
LEMMA StoryContinues ==
    ASSUME NEW story \in Seq(Event), NEW presence, Tells(story, presence), NEW e \in Event
    PROVE  /\ e.type = "changed" => Tells(Append(story, e), presence)
           /\ /\ e.type # "changed"
              /\ e.type = "discovered" <=> presence = "none"
              /\ Shown(e) # presence
              => Tells(Append(story, e), Shown(e))
<1> DEFINE after == Append(story, e)
           n == Len(story) + 1
<1>1. /\ Len(story) \in Nat /\ Len(after) = n /\ after[n] = e
      /\ \A i \in 1..Len(story) : after[i] = story[i]
  BY Appended
<1>2. \A i \in PresenceEvents(story) : i \in 1..Len(story) /\ i < n /\ after[i] = story[i]
  BY <1>1 DEF PresenceEvents
<1>3. ASSUME e.type = "changed" PROVE Tells(after, presence)
  <2>1. PresenceEvents(after) = PresenceEvents(story)
    BY <1>1, <1>3 DEF PresenceEvents
  <2> HIDE DEF after
  <2> QED
    BY <1>2, <2>1 DEF Tells
<1>4. ASSUME e.type # "changed", e.type = "discovered" <=> presence = "none",
             Shown(e) # presence
      PROVE  Tells(after, Shown(e))
  <2>1. PresenceEvents(after) = PresenceEvents(story) \cup {n}
    BY <1>1, <1>4 DEF PresenceEvents
  <2> DEFINE told == PresenceEvents(story)
  <2>2. Shown(e) # "none" /\ n \in Nat
    BY <1>1 DEF Shown
  <2>3. told \subseteq Nat /\ \A i \in told : i < n /\ after[i] = story[i]
    BY <1>1, <1>2 DEF PresenceEvents
  <2>4. told = {} <=> presence = "none"
    BY DEF Tells
  <2>5. \A i \in told :
          /\ story[i].type = "discovered" <=> \A j \in told : i <= j
          /\ (\A j \in told : j <= i) => presence = Shown(story[i])
          /\ \A j \in told :
               i < j /\ (\A k \in told : k <= i \/ j <= k) => Shown(story[i]) # Shown(story[j])
    BY DEF Tells
  <2> HIDE DEF after, n, told
  <2>6. ASSUME NEW i \in told \cup {n}
        PROVE  after[i].type = "discovered" <=> \A j \in told \cup {n} : i <= j
    <3>1. CASE i = n
      <4>1. (\A j \in told \cup {n} : n <= j) <=> told = {}
        BY <2>2, <2>3
      <4> QED
        BY <1>1, <1>4, <2>4, <3>1, <4>1
    <3>2. CASE i \in told
      BY <2>2, <2>3, <2>5, <3>2
    <3> QED
      BY <3>1, <3>2
  <2>7. ASSUME NEW i \in told \cup {n}, \A j \in told \cup {n} : j <= i
        PROVE  Shown(e) = Shown(after[i])
    BY <1>1, <2>2, <2>3, <2>7
  <2>8. ASSUME NEW i \in told \cup {n}, NEW j \in told \cup {n}, i < j,
               \A k \in told \cup {n} : k <= i \/ j <= k
        PROVE  Shown(after[i]) # Shown(after[j])
    <3>1. i \in told
      BY <2>2, <2>3, <2>8
    <3>2. CASE j = n
      <4>1. \A k \in told : k <= i
        BY <2>2, <2>3, <2>8, <3>2
      <4>2. presence = Shown(story[i])
        BY <2>5, <3>1, <4>1
      <4> QED
        BY <1>1, <1>4, <2>3, <3>1, <3>2, <4>2
    <3>3. CASE j \in told
      BY <2>3, <2>5, <2>8, <3>1, <3>3
    <3> QED
      BY <3>2, <3>3
  <2> QED
    BY <2>1, <2>2, <2>6, <2>7, <2>8 DEF Tells, told
<1> QED
  BY <1>3, <1>4

\* What an observation adds leaves a story that ends in a present file.
LEMMA StoryOfObservation ==
    ASSUME NEW story \in Seq(Event), NEW track \in Track, NEW facts \in Facts, NEW r \in Nat,
           Tells(story, track.presence)
    PROVE  Tells(story \o Transition(track, facts, r), "present")
<1> DEFINE after == story \o Transition(track, facts, r)
<1>1. PICK discovered, restored, changed \in Event :
              /\ discovered.type = "discovered" /\ discovered.run = r
              /\ restored.type = "restored" /\ restored.run = r
              /\ changed.type = "changed" /\ changed.run = r
              /\ track.presence = "none" => after = Append(story, discovered)
              /\ track.presence = "present" => after \in {story, Append(story, changed)}
              /\ track.presence = "missing" =>
                    after \in {Append(story, restored), Append(Append(story, restored), changed)}
  BY TransitionAppends
<1>2. track.presence \in {"none", "present", "missing"}
  BY DEF Track
<1>3. Shown(discovered) = "present" /\ Shown(restored) = "present"
  BY <1>1 DEF Shown
<1> HIDE DEF after
<1>4. Tells(after, "present")
  <2>1. CASE track.presence = "none"
    BY <1>1, <1>3, <2>1, StoryContinues
  <2>2. CASE track.presence = "present"
    BY <1>1, <2>2, StoryContinues
  <2>3. CASE track.presence = "missing"
    <3>1. Tells(Append(story, restored), "present") /\ Append(story, restored) \in Seq(Event)
      BY <1>1, <1>3, <2>3, StoryContinues, Appended
    <3>2. Tells(Append(Append(story, restored), changed), "present")
      BY <1>1, <3>1, StoryContinues
    <3> QED
      BY <1>1, <2>3, <3>1, <3>2
  <2> QED
    BY <1>2, <2>1, <2>2, <2>3
<1> QED
  BY <1>4 DEF after

-----------------------------------------------------------------------------
(* Who owns what.  The unique index of scan_runs makes the running run of a  *)
(* source its newest one, and one living command at most its owner.          *)

RunsAreIds ==
    /\ \A c \in Sources : lastOk[c] # 0 =>
          /\ lastOk[c] \in 1..Len(scanRuns)
          /\ scanRuns[lastOk[c]].source = c
          /\ scanRuns[lastOk[c]].status = "succeeded"
    /\ \A f \in Files : tracks[f].lastSeen # 0 =>
          /\ tracks[f].lastSeen \in 1..Len(scanRuns)
          /\ scanRuns[tracks[f].lastSeen].source = SourceOf[f]
    /\ \A f \in Files : \A i \in 1..Len(events[f]) : events[f][i].run \in 1..Len(scanRuns)

RunningIsNewest ==
    \A r, q \in 1..Len(scanRuns) :
        IsRunning(r) /\ scanRuns[q].source = scanRuns[r].source => q <= r

Owns(s) ==
    /\ IsRunning(run[s])
    /\ unvisited[s] \subseteq FilesOf(scanRuns[run[s]].source)
    /\ Seen(s) \subseteq FilesOf(scanRuns[run[s]].source)

ScannersOwnRuns ==
    \A s \in Scanners : pc[s] # "idle" =>
        /\ Owns(s)
        /\ \A other \in Scanners : pc[other] # "idle" /\ run[other] = run[s] => other = s

Consistent ==
    TypeOK /\ RunsAreIds /\ RunningIsNewest /\ ScannersOwnRuns /\ Len(outcome) = Len(scanRuns)

\* The columns of a row of scan_runs.
LEMMA RunColumns ==
    ASSUME TypeOK
    PROVE  /\ Len(scanRuns) \in Nat
           /\ \A r \in 1..Len(scanRuns) :
                 scanRuns[r] \in ScanRun /\ scanRuns[r].source \in Sources
<1>1. scanRuns \in [1..Len(scanRuns) -> ScanRun] /\ Len(scanRuns) \in Nat
  BY LenProperties DEF TypeOK
<1> QED
  BY <1>1 DEF ScanRun

\* An empty catalog is consistent.
LEMMA InitConsistent == Init => Consistent
<1> SUFFICES ASSUME Init PROVE Consistent
  OBVIOUS
<1>1. /\ scanRuns \in Seq(ScanRun) /\ outcome \in Seq({"none", "succeeded", "failed"})
      /\ << >> \in Seq(Event)
      /\ Len(scanRuns) = 0 /\ Len(outcome) = 0 /\ \A f \in Files : Len(events[f]) = 0
  BY EmptySeq DEF Init
<1>2. {0, 1} \subseteq Facts /\ 0 \in Facts
  BY ScanAssumption DEF Facts
<1>3. [presence |-> "none", facts |-> 0, lastSeen |-> 0] \in Track
  BY <1>2 DEF Track
<1>4. TypeOK
  BY <1>1, <1>2, <1>3 DEF Init, TypeOK
<1>5. \A f \in Files : tracks[f].lastSeen = 0
  BY DEF Init
<1>6. RunsAreIds
  BY <1>1, <1>5 DEF Init, RunsAreIds
<1>7. RunningIsNewest /\ ScannersOwnRuns
  BY <1>1 DEF Init, RunningIsNewest, ScannersOwnRuns
<1> QED
  BY <1>1, <1>4, <1>6, <1>7 DEF Consistent

\* begin appends a running run.
LEMMA BeginRuns ==
    ASSUME TypeOK, NEW s \in Scanners, NEW c \in Sources, Begin(s, c)
    PROVE  /\ scanRuns' \in Seq(ScanRun)
           /\ Len(scanRuns') = Len(scanRuns) + 1
           /\ \A r \in 1..Len(scanRuns) : scanRuns'[r] = scanRuns[r]
           /\ scanRuns'[Len(scanRuns) + 1].source = c
           /\ scanRuns'[Len(scanRuns) + 1].status = "running"
<1>1. NewRun(c) \in ScanRun /\ NewRun(c).source = c /\ NewRun(c).status = "running"
  BY DEF NewRun, ScanRun
<1>2. scanRuns' = Append(scanRuns, NewRun(c)) /\ scanRuns \in Seq(ScanRun)
  BY DEF Begin, TypeOK
<1> QED
  BY <1>1, <1>2, Appended

\* Observing, succeeding and failing write the run of the command, and settle it
\* or leave it running; they leave every other run and every source alone.
LEMMA RunWritten ==
    ASSUME TypeOK, NEW s \in Scanners, IsRunning(run[s]), Observe(s) \/ Succeed(s) \/ Fail(s)
    PROVE  /\ scanRuns' \in Seq(ScanRun)
           /\ Len(scanRuns') = Len(scanRuns)
           /\ \A r \in 1..Len(scanRuns) : r # run[s] => scanRuns'[r] = scanRuns[r]
           /\ scanRuns'[run[s]].source = scanRuns[run[s]].source
           /\ scanRuns'[run[s]].status =
                 IF Observe(s) THEN "running" ELSE IF Succeed(s) THEN "succeeded" ELSE "failed"
<1> DEFINE r == run[s]
           row == scanRuns[r]
           audio == Cardinality(Seen(s) \cap OfKind("audio"))
           artifacts == Cardinality(Seen(s) \cap OfKind("artifact"))
           counted == [row EXCEPT !.audioSeen = audio, !.artifactsSeen = artifacts]
           settled(status) == [row EXCEPT !.status = status]
<1>1. row \in ScanRun /\ r \in 1..Len(scanRuns) /\ row.status = "running"
      /\ DOMAIN scanRuns = 1..Len(scanRuns)
  BY RunColumns, LenProperties DEF TypeOK, IsRunning
<1>2. audio \in Nat /\ artifacts \in Nat
  BY SeenCounted
<1>3. counted \in ScanRun /\ counted.source = row.source /\ counted.status = "running"
  <2> HIDE DEF audio, artifacts, row
  <2> QED
    BY <1>1, <1>2 DEF ScanRun
<1>4. \A status \in {"succeeded", "failed"} :
         /\ settled(status) \in ScanRun /\ settled(status).source = row.source
         /\ settled(status).status = status
  BY <1>1 DEF ScanRun
<1>5. \A new \in ScanRun : scanRuns' = [scanRuns EXCEPT ![r] = new] =>
         /\ scanRuns' \in Seq(ScanRun)
         /\ Len(scanRuns') = Len(scanRuns)
         /\ \A q \in 1..Len(scanRuns) : q # r => scanRuns'[q] = scanRuns[q]
         /\ scanRuns'[r] = new
  BY <1>1, ExceptSeq DEF TypeOK
<1>6. CASE Observe(s)
  <2>1. scanRuns' = [scanRuns EXCEPT ![r] = counted]
    BY <1>1, <1>6 DEF Observe
  <2> HIDE DEF counted, row
  <2> QED
    BY <1>3, <1>5, <1>6, <2>1 DEF row
<1>7. CASE Succeed(s)
  <2>1. scanRuns' = [scanRuns EXCEPT ![r] = settled("succeeded")] /\ ~Observe(s)
    BY <1>1, <1>7 DEF Succeed, Observe
  <2>2. settled("succeeded") \in ScanRun /\ settled("succeeded").source = row.source
        /\ settled("succeeded").status = "succeeded"
    BY <1>4
  <2> HIDE DEF settled, row
  <2> QED
    BY <1>5, <1>7, <2>1, <2>2 DEF row
<1>8. CASE Fail(s)
  <2>1. scanRuns' = [scanRuns EXCEPT ![r] = settled("failed")] /\ ~Observe(s) /\ ~Succeed(s)
    BY <1>1, <1>8 DEF Fail, Observe, Succeed
  <2>2. settled("failed") \in ScanRun /\ settled("failed").source = row.source
        /\ settled("failed").status = "failed"
    BY <1>4
  <2> HIDE DEF settled, row
  <2> QED
    BY <1>5, <1>8, <2>1, <2>2 DEF row
<1> QED
  BY <1>6, <1>7, <1>8

\* Runs keep their source and their verdict.
RunsStand ==
    /\ Len(scanRuns) <= Len(scanRuns')
    /\ \A r \in 1..Len(scanRuns) :
          /\ scanRuns'[r].source = scanRuns[r].source
          /\ scanRuns[r].status # "running" => scanRuns'[r].status = scanRuns[r].status

\* Ids that were ids of runs stay so.
LEMMA IdsKept ==
    ASSUME TypeOK, TypeOK', RunsAreIds, RunsStand, UNCHANGED <<lastOk, tracks, events>>
    PROVE  RunsAreIds'
<1>1. Len(scanRuns) \in Nat /\ Len(scanRuns') \in Nat
  BY LenProperties DEF TypeOK
<1>2. \A r \in 1..Len(scanRuns) : r \in 1..Len(scanRuns')
  BY <1>1 DEF RunsStand
<1>3. ASSUME NEW c \in Sources, lastOk[c] # 0
      PROVE  /\ lastOk[c] \in 1..Len(scanRuns')
             /\ scanRuns'[lastOk[c]].source = c
             /\ scanRuns'[lastOk[c]].status = "succeeded"
  BY <1>2, <1>3 DEF RunsAreIds, RunsStand
<1>4. ASSUME NEW f \in Files, tracks[f].lastSeen # 0
      PROVE  /\ tracks[f].lastSeen \in 1..Len(scanRuns')
             /\ scanRuns'[tracks[f].lastSeen].source = SourceOf[f]
  BY <1>2, <1>4 DEF RunsAreIds, RunsStand
<1>5. ASSUME NEW f \in Files, NEW i \in 1..Len(events[f])
      PROVE  events[f][i].run \in 1..Len(scanRuns')
  BY <1>2 DEF RunsAreIds
<1> QED
  BY <1>3, <1>4, <1>5 DEF RunsAreIds

\* A command whose memory and run are left alone still owns its run.
LEMMA OwnsKept ==
    ASSUME NEW s \in Scanners, Owns(s), UNCHANGED <<run[s], unvisited[s], seen[s]>>,
           IsRunning(run[s])', scanRuns'[run[s]].source = scanRuns[run[s]].source
    PROVE  Owns(s)'
<1>1. Seen(s)' = Seen(s) /\ run'[s] = run[s] /\ unvisited'[s] = unvisited[s]
  BY DEF Seen
<1> QED
  BY <1>1 DEF Owns

\* begin keeps the catalog consistent: the index refuses a second running run.
LEMMA BeginConsistent ==
    ASSUME Consistent, NEW s \in Scanners, NEW c \in Sources, Begin(s, c)
    PROVE  Consistent'
<1> DEFINE n == Len(scanRuns) + 1
<1>1. TypeOK /\ RunsAreIds /\ RunningIsNewest /\ ScannersOwnRuns /\ Len(outcome) = Len(scanRuns)
  BY DEF Consistent
<1>2. /\ scanRuns' \in Seq(ScanRun) /\ Len(scanRuns') = n
      /\ \A r \in 1..Len(scanRuns) : scanRuns'[r] = scanRuns[r]
      /\ scanRuns'[n].source = c /\ scanRuns'[n].status = "running"
  BY <1>1, BeginRuns
<1>3. Len(scanRuns) \in Nat
  BY <1>1, RunColumns
<1>4. /\ pc' = [pc EXCEPT ![s] = "scan"] /\ run' = [run EXCEPT ![s] = n]
      /\ unvisited' = [unvisited EXCEPT ![s] = FilesOf(c)]
      /\ seen' = [seen EXCEPT ![s] = [f \in Files |-> 0]]
      /\ wasAbsent' = [wasAbsent EXCEPT ![s] = {f \in FilesOf(c) : disk[f] = 0}]
      /\ UNCHANGED <<disk, edits, tracks, events, lastOk>> /\ pc[s] = "idle"
  BY DEF Begin
<1>5. outcome' \in Seq({"none", "succeeded", "failed"}) /\ Len(outcome') = n
  BY <1>1, Appended DEF Begin, TypeOK
<1>6. TypeOK'
  <2>1. FilesOf(c) \subseteq Files /\ 0 \in Facts /\ n \in Nat
    BY <1>3, ScanAssumption DEF FilesOf, Facts
  <2>2. [f \in Files |-> 0] \in [Files -> Facts]
    BY <2>1
  <2>3. seen' \in [Scanners -> [Files -> Facts]]
    BY <1>1, <1>4, <2>2 DEF TypeOK
  <2>4. run' \in [Scanners -> Nat] /\ unvisited' \in [Scanners -> SUBSET Files]
    BY <1>1, <1>4, <2>1 DEF TypeOK
  <2>5. wasAbsent' \in [Scanners -> SUBSET Files]
    BY <1>1, <1>4, <2>1 DEF TypeOK
  <2>6. pc' \in [Scanners -> {"idle", "scan", "observe", "succeed", "fail"}]
    BY <1>1, <1>4 DEF TypeOK
  <2> QED
    BY <1>1, <1>2, <1>4, <1>5, <2>3, <2>4, <2>5, <2>6 DEF TypeOK
<1>7. RunsAreIds'
  BY <1>1, <1>2, <1>3, <1>4, <1>6, IdsKept DEF RunsStand
<1>8. \A r \in 1..Len(scanRuns) : scanRuns[r].source = c => ~IsRunning(r)
  BY DEF Begin
<1>9. RunningIsNewest'
  <2> SUFFICES ASSUME NEW r \in 1..n, NEW q \in 1..n, scanRuns'[r].status = "running",
                      scanRuns'[q].source = scanRuns'[r].source
               PROVE  q <= r
    BY <1>2 DEF RunningIsNewest, IsRunning
  <2>1. CASE r = n
    BY <1>3, <2>1
  <2>2. CASE r # n /\ q # n
    <3>1. r \in 1..Len(scanRuns) /\ q \in 1..Len(scanRuns)
      BY <1>3, <2>2
    <3> QED
      BY <1>1, <1>2, <3>1 DEF RunningIsNewest, IsRunning
  <2>3. CASE r # n /\ q = n
    <3>1. r \in 1..Len(scanRuns)
      BY <1>3, <2>3
    <3>2. scanRuns[r].source = c /\ IsRunning(r)
      BY <1>2, <2>3, <3>1 DEF IsRunning
    <3> QED
      BY <1>8, <3>1, <3>2
  <2> QED
    BY <2>1, <2>2, <2>3
<1>10. ScannersOwnRuns'
  <2>1. Owns(s)'
    <3>1. run'[s] = n /\ unvisited'[s] = FilesOf(c) /\ seen'[s] = [f \in Files |-> 0]
      BY <1>1, <1>4 DEF TypeOK
    <3>2. Seen(s)' = {}
      BY <3>1 DEF Seen
    <3>3. IsRunning(run[s])'
      BY <1>2, <1>3, <3>1 DEF IsRunning
    <3> QED
      BY <1>2, <3>1, <3>2, <3>3 DEF Owns, FilesOf
  <2>2. ASSUME NEW other \in Scanners, other # s, pc'[other] # "idle"
        PROVE  Owns(other)' /\ run'[other] = run[other] /\ run[other] \in 1..Len(scanRuns)
               /\ pc[other] # "idle"
    <3>1. pc'[other] = pc[other] /\ UNCHANGED <<run[other], unvisited[other], seen[other]>>
      BY <1>1, <1>4, <2>2 DEF TypeOK
    <3>2. Owns(other) /\ run[other] \in 1..Len(scanRuns)
      BY <1>1, <2>2, <3>1 DEF ScannersOwnRuns, Owns, IsRunning
    <3>3. IsRunning(run[other])' /\ scanRuns'[run[other]].source = scanRuns[run[other]].source
      BY <1>2, <1>3, <3>1, <3>2 DEF Owns, IsRunning
    <3> QED
      BY <2>2, <3>1, <3>2, <3>3, OwnsKept
  <2>3. run'[s] = n
    BY <1>1, <1>4 DEF TypeOK
  <2> SUFFICES ASSUME NEW one \in Scanners, NEW other \in Scanners, pc'[one] # "idle",
                      pc'[other] # "idle", run'[other] = run'[one]
               PROVE  other = one
    BY <2>1, <2>2 DEF ScannersOwnRuns
  <2> QED
    BY <1>1, <1>3, <2>2, <2>3 DEF ScannersOwnRuns
<1> QED
  BY <1>2, <1>5, <1>6, <1>7, <1>9, <1>10 DEF Consistent

\* So does a command that traverses, or raises, without touching the catalog.
LEMMA TraversalConsistent ==
    ASSUME Consistent, NEW s \in Scanners,
           (\E f \in Files : Visit(s, f)) \/ Scanned(s) \/ Raise(s)
    PROVE  Consistent'
<1>1. TypeOK /\ RunsAreIds /\ RunningIsNewest /\ ScannersOwnRuns /\ Len(outcome) = Len(scanRuns)
  BY DEF Consistent
<1>2. /\ UNCHANGED <<disk, edits, catalogVars, run, outcome, wasAbsent>> /\ pc[s] # "idle"
      /\ pc' \in [Scanners -> {"idle", "scan", "observe", "succeed", "fail"}]
      /\ \A q \in Scanners : pc'[q] # "idle" <=> pc[q] # "idle"
  BY <1>1 DEF Visit, Scanned, Raise, TypeOK
<1>3. /\ seen' \in [Scanners -> [Files -> Facts]] /\ unvisited' \in [Scanners -> SUBSET Files]
      /\ \A q \in Scanners : /\ unvisited'[q] \subseteq unvisited[q]
                             /\ Seen(q)' \subseteq Seen(q) \cup unvisited[q]
  <2>1. CASE UNCHANGED <<seen, unvisited>>
    BY <1>1, <2>1 DEF TypeOK, Seen
  <2>2. CASE \E f \in Files : Visit(s, f)
    <3>1. PICK f \in Files : Visit(s, f)
      BY <2>2
    <3>2. f \in unvisited[s] /\ seen' = [seen EXCEPT ![s][f] = disk[f]]
          /\ unvisited' = [unvisited EXCEPT ![s] = @ \ {f}]
      BY <3>1 DEF Visit
    <3>3. disk[f] \in Facts
      BY <1>1 DEF TypeOK
    <3>4. seen' \in [Scanners -> [Files -> Facts]] /\ unvisited' \in [Scanners -> SUBSET Files]
      BY <1>1, <3>2, <3>3 DEF TypeOK
    <3>5. \A q \in Scanners, g \in Files : seen'[q][g] = seen[q][g] \/ (q = s /\ g = f)
      BY <1>1, <3>2 DEF TypeOK
    <3>6. \A q \in Scanners : unvisited'[q] \subseteq unvisited[q]
      BY <1>1, <3>2 DEF TypeOK
    <3> QED
      BY <3>2, <3>4, <3>5, <3>6 DEF Seen
  <2> QED
    BY <2>1, <2>2 DEF Scanned, Raise
<1>4. TypeOK'
  BY <1>1, <1>2, <1>3 DEF TypeOK, catalogVars
<1>5. RunsAreIds' /\ RunningIsNewest' /\ Len(outcome') = Len(scanRuns')
  BY <1>1, <1>2 DEF RunsAreIds, RunningIsNewest, IsRunning, catalogVars
<1>6. ASSUME NEW q \in Scanners, pc[q] # "idle" PROVE Owns(q)'
  <2>1. Owns(q) /\ UNCHANGED <<run, scanRuns>>
    BY <1>1, <1>2, <1>6 DEF ScannersOwnRuns, catalogVars
  <2> QED
    BY <1>3, <2>1 DEF Owns, IsRunning
<1>7. ScannersOwnRuns'
  BY <1>1, <1>2, <1>6 DEF ScannersOwnRuns
<1> QED
  BY <1>4, <1>5, <1>7 DEF Consistent

\* The rows and the events that an observation leaves.
LEMMA ObservationWritten ==
    ASSUME TypeOK, NEW s \in Scanners, Observe(s)
    PROVE  /\ tracks' \in [Files -> Track] /\ events' \in [Files -> Seq(Event)]
           /\ \A f \in Files :
                 /\ f \in Seen(s) => tracks'[f].presence = "present"
                                     /\ tracks'[f].lastSeen = run[s]
                 /\ f \notin Seen(s) => tracks'[f] = tracks[f] /\ events'[f] = events[f]
                 /\ Len(events[f]) <= Len(events'[f])
                 /\ \A i \in 1..Len(events[f]) : events'[f][i] = events[f][i]
                 /\ \A i \in 1..Len(events'[f]) : i > Len(events[f]) =>
                       events'[f][i].run = run[s] /\ events'[f][i].type # "missing"
<1>1. /\ tracks' = [f \in Files |->
                      IF f \in Seen(s) THEN Row(f, seen[s][f], run[s]) ELSE tracks[f]]
      /\ events' = [f \in Files |->
                      IF f \in Seen(s) \cap OfKind("audio")
                      THEN events[f] \o Transition(tracks[f], seen[s][f], run[s])
                      ELSE events[f]]
  BY DEF Observe
<1>2. \A f \in Files : /\ seen[s][f] \in Facts /\ run[s] \in Nat /\ tracks[f] \in Track
                       /\ events[f] \in Seq(Event) /\ Len(events[f]) \in Nat
  BY LenProperties DEF TypeOK
<1>3. ASSUME NEW f \in Files
      PROVE  /\ tracks'[f] \in Track
             /\ f \in Seen(s) => tracks'[f].presence = "present" /\ tracks'[f].lastSeen = run[s]
             /\ f \notin Seen(s) => tracks'[f] = tracks[f]
  BY <1>1, <1>2, RowShowsPresent
<1>4. ASSUME NEW f \in Files
      PROVE  /\ events'[f] \in Seq(Event)
             /\ f \notin Seen(s) => events'[f] = events[f]
             /\ Len(events[f]) <= Len(events'[f])
             /\ \A i \in 1..Len(events[f]) : events'[f][i] = events[f][i]
             /\ \A i \in 1..Len(events'[f]) : i > Len(events[f]) =>
                   events'[f][i].run = run[s] /\ events'[f][i].type # "missing"
  <2>1. CASE f \in Seen(s) \cap OfKind("audio")
    <3>1. events'[f] = events[f] \o Transition(tracks[f], seen[s][f], run[s])
      BY <1>1, <2>1
    <3>2. /\ events'[f] \in Seq(Event) /\ Len(events[f]) <= Len(events'[f])
          /\ \A i \in 1..Len(events[f]) : events'[f][i] = events[f][i]
          /\ \A i \in 1..Len(events'[f]) : i > Len(events[f]) =>
                events'[f][i].run = run[s] /\ events'[f][i].type # "missing"
      <4>1. /\ seen[s][f] \in Facts /\ run[s] \in Nat /\ tracks[f] \in Track
            /\ events[f] \in Seq(Event)
        BY <1>2
      <4>2. events'[f] = Extended(events[f], tracks[f], seen[s][f], run[s])
        BY <3>1 DEF Extended
      <4> QED
        BY <4>1, <4>2, TransitionKeeps
    <3> QED
      BY <2>1, <3>2
  <2>2. CASE f \notin Seen(s) \cap OfKind("audio")
    <3>1. events'[f] = events[f]
      BY <1>1, <2>2
    <3> QED
      BY <1>2, <3>1
  <2> QED
    BY <2>1, <2>2
<1>5. tracks' \in [Files -> Track] /\ events' \in [Files -> Seq(Event)]
  <2>1. DOMAIN tracks' = Files /\ DOMAIN events' = Files
    BY <1>1
  <2> QED
    BY <1>1, <1>3, <1>4, <2>1
<1> QED
  BY <1>3, <1>4, <1>5

\* Two commands that scan do so in different sources.
LEMMA SourcesApart ==
    ASSUME Consistent, NEW s \in Scanners, NEW q \in Scanners, q # s,
           pc[s] # "idle", pc[q] # "idle"
    PROVE  scanRuns[run[q]].source # scanRuns[run[s]].source
<1>1. /\ run[s] \in 1..Len(scanRuns) /\ run[q] \in 1..Len(scanRuns)
      /\ IsRunning(run[s]) /\ IsRunning(run[q]) /\ run[s] # run[q]
  BY DEF Consistent, ScannersOwnRuns, Owns, IsRunning
<1> QED
  BY <1>1, RunColumns DEF Consistent, RunningIsNewest

\* Writing the run of a command disturbs neither the order of the runs nor the
\* others who own one.
LEMMA OthersOwn ==
    ASSUME Consistent, NEW s \in Scanners, pc[s] # "idle",
           Observe(s) \/ Succeed(s) \/ Fail(s)
    PROVE  /\ RunsStand /\ RunningIsNewest'
           /\ \A q \in Scanners : q # s /\ pc[q] # "idle" => Owns(q)'
<1>1. TypeOK /\ RunningIsNewest /\ ScannersOwnRuns /\ IsRunning(run[s])
  BY DEF Consistent, ScannersOwnRuns, Owns
<1>2. /\ Len(scanRuns') = Len(scanRuns)
      /\ \A r \in 1..Len(scanRuns) : r # run[s] => scanRuns'[r] = scanRuns[r]
      /\ scanRuns'[run[s]].source = scanRuns[run[s]].source
  BY <1>1, RunWritten
<1>3. Len(scanRuns) \in Nat /\ run[s] \in 1..Len(scanRuns)
      /\ scanRuns[run[s]].status = "running"
  BY <1>1, RunColumns DEF IsRunning
<1>4. RunsStand
  BY <1>2, <1>3 DEF RunsStand
<1>5. RunningIsNewest'
  <2>1. \A r \in 1..Len(scanRuns) :
           /\ scanRuns'[r].source = scanRuns[r].source
           /\ scanRuns'[r].status = "running" => scanRuns[r].status = "running"
    BY <1>2, <1>3
  <2> QED
    BY <1>1, <1>2, <2>1 DEF RunningIsNewest, IsRunning
<1>6. ASSUME NEW q \in Scanners, q # s, pc[q] # "idle" PROVE Owns(q)'
  <2>1. Owns(q) /\ run[q] # run[s] /\ IsRunning(run[q])
    BY <1>1, <1>6 DEF ScannersOwnRuns, Owns
  <2>2. UNCHANGED <<run[q], unvisited[q], seen[q]>>
    BY <1>1, <1>6 DEF Observe, Succeed, Fail, Leave, TypeOK
  <2>3. IsRunning(run[q])' /\ scanRuns'[run[q]].source = scanRuns[run[q]].source
    BY <1>2, <2>1, <2>2 DEF IsRunning
  <2> QED
    BY <2>1, <2>2, <2>3, OwnsKept
<1> QED
  BY <1>4, <1>5, <1>6

\* An observation keeps the catalog consistent.
LEMMA ObserveConsistent ==
    ASSUME Consistent, NEW s \in Scanners, Observe(s)
    PROVE  Consistent'
<1>1. TypeOK /\ RunsAreIds /\ ScannersOwnRuns /\ Len(outcome) = Len(scanRuns)
      /\ pc[s] # "idle" /\ Owns(s)
  BY DEF Consistent, Observe, ScannersOwnRuns
<1>2. /\ scanRuns' \in Seq(ScanRun) /\ Len(scanRuns') = Len(scanRuns)
      /\ scanRuns'[run[s]].source = scanRuns[run[s]].source
      /\ scanRuns'[run[s]].status = "running"
  BY <1>1, RunWritten DEF Owns
<1>3. /\ RunsStand /\ RunningIsNewest'
      /\ \A q \in Scanners : q # s /\ pc[q] # "idle" => Owns(q)'
  BY <1>1, OthersOwn
<1>4. /\ tracks' \in [Files -> Track] /\ events' \in [Files -> Seq(Event)]
      /\ \A f \in Files :
            /\ f \in Seen(s) => tracks'[f].lastSeen = run[s]
            /\ f \notin Seen(s) => tracks'[f] = tracks[f]
            /\ \A i \in 1..Len(events[f]) : events'[f][i] = events[f][i]
            /\ \A i \in 1..Len(events'[f]) : i > Len(events[f]) => events'[f][i].run = run[s]
  BY <1>1, ObservationWritten
<1>5. /\ UNCHANGED <<disk, edits, lastOk, run, unvisited, seen, outcome, wasAbsent>>
      /\ pc' = [pc EXCEPT ![s] = "succeed"]
  BY DEF Observe
<1>6. TypeOK'
  BY <1>1, <1>2, <1>4, <1>5 DEF TypeOK
<1>7. /\ Len(scanRuns) \in Nat /\ run[s] \in 1..Len(scanRuns)
      /\ \A f \in Files : Len(events[f]) \in Nat /\ Len(events'[f]) \in Nat
  BY <1>1, <1>4, RunColumns, LenProperties DEF Owns, IsRunning, TypeOK
<1>8. RunsAreIds'
  <2>1. ASSUME NEW f \in Files, tracks'[f].lastSeen # 0
        PROVE  /\ tracks'[f].lastSeen \in 1..Len(scanRuns)
               /\ scanRuns'[tracks'[f].lastSeen].source = SourceOf[f]
    <3>1. CASE f \in Seen(s)
      BY <1>1, <1>2, <1>4, <1>7, <3>1 DEF Owns, FilesOf
    <3>2. CASE f \notin Seen(s)
      BY <1>1, <1>3, <1>4, <2>1, <3>2 DEF RunsAreIds, RunsStand
    <3> QED
      BY <3>1, <3>2
  <2>2. ASSUME NEW f \in Files, NEW i \in 1..Len(events'[f])
        PROVE  events'[f][i].run \in 1..Len(scanRuns)
    BY <1>1, <1>4, <1>7 DEF RunsAreIds
  <2>3. ASSUME NEW c \in Sources, lastOk[c] # 0
        PROVE  /\ lastOk[c] \in 1..Len(scanRuns)
               /\ scanRuns'[lastOk[c]].source = c
               /\ scanRuns'[lastOk[c]].status = "succeeded"
    BY <1>1, <1>3, <2>3 DEF RunsAreIds, RunsStand
  <2> QED
    BY <1>2, <1>5, <2>1, <2>2, <2>3 DEF RunsAreIds
<1>9. ScannersOwnRuns'
  <2>1. IsRunning(run[s])' /\ UNCHANGED <<run[s], unvisited[s], seen[s]>>
    BY <1>2, <1>5, <1>7 DEF IsRunning
  <2>2. Owns(s)'
    BY <1>1, <1>2, <2>1, OwnsKept
  <2>3. \A q \in Scanners : pc'[q] # "idle" <=> pc[q] # "idle"
    BY <1>1, <1>5 DEF TypeOK
  <2> QED
    BY <1>1, <1>3, <1>5, <2>2, <2>3 DEF ScannersOwnRuns
<1> QED
  BY <1>1, <1>2, <1>3, <1>5, <1>6, <1>8, <1>9 DEF Consistent

\* A command that leaves its source forgets it and nothing else.
LEMMA Left ==
    ASSUME TypeOK, NEW s \in Scanners, Leave(s)
    PROVE  /\ pc' \in [Scanners -> {"idle", "scan", "observe", "succeed", "fail"}]
           /\ run' \in [Scanners -> Nat] /\ unvisited' \in [Scanners -> SUBSET Files]
           /\ seen' \in [Scanners -> [Files -> Facts]]
           /\ wasAbsent' \in [Scanners -> SUBSET Files]
           /\ pc'[s] = "idle"
           /\ \A q \in Scanners : q # s =>
                 UNCHANGED <<pc[q], run[q], unvisited[q], seen[q], wasAbsent[q]>>
<1>1. [f \in Files |-> 0] \in [Files -> Facts]
  BY ScanAssumption DEF Facts
<1>2. seen' \in [Scanners -> [Files -> Facts]]
  BY <1>1 DEF Leave, TypeOK
<1>3. /\ pc' \in [Scanners -> {"idle", "scan", "observe", "succeed", "fail"}]
      /\ run' \in [Scanners -> Nat] /\ unvisited' \in [Scanners -> SUBSET Files]
      /\ wasAbsent' \in [Scanners -> SUBSET Files] /\ pc'[s] = "idle"
  BY DEF Leave, TypeOK
<1>4. \A q \in Scanners : q # s =>
         UNCHANGED <<pc[q], run[q], unvisited[q], seen[q], wasAbsent[q]>>
  BY DEF Leave, TypeOK
<1> QED
  BY <1>2, <1>3, <1>4

\* The rows and the events that a success leaves.
LEMMA ReconciliationWritten ==
    ASSUME TypeOK, NEW s \in Scanners, Succeed(s)
    PROVE  /\ tracks' \in [Files -> Track] /\ events' \in [Files -> Seq(Event)]
           /\ \A f \in Files :
                 /\ tracks'[f].lastSeen = tracks[f].lastSeen
                 /\ tracks'[f].presence =
                       IF f \in NotSeen(run[s]) THEN "missing" ELSE tracks[f].presence
                 /\ Len(events[f]) <= Len(events'[f])
                 /\ \A i \in 1..Len(events[f]) : events'[f][i] = events[f][i]
                 /\ \A i \in 1..Len(events'[f]) : i > Len(events[f]) =>
                       events'[f][i].run = run[s]
<1> DEFINE event == [type |-> "missing", run |-> run[s]]
<1>1. \A f \in Files : /\ run[s] \in Nat /\ tracks[f] \in Track
                       /\ events[f] \in Seq(Event) /\ Len(events[f]) \in Nat
  BY LenProperties DEF TypeOK
<1>2. /\ tracks' = [f \in Files |-> IF f \in NotSeen(run[s])
                                    THEN [tracks[f] EXCEPT !.presence = "missing"]
                                    ELSE tracks[f]]
      /\ events' = [f \in Files |-> IF f \in NotSeen(run[s]) \cap OfKind("audio")
                                    THEN Append(events[f], event) ELSE events[f]]
  BY DEF Succeed
<1>3. run[s] \in Nat
  BY DEF TypeOK
<1>4. event \in Event /\ event.run = run[s]
  BY <1>3 DEF Event
<1>5. ASSUME NEW f \in Files
      PROVE  /\ tracks'[f] \in Track
             /\ tracks'[f].lastSeen = tracks[f].lastSeen
             /\ tracks'[f].presence =
                   IF f \in NotSeen(run[s]) THEN "missing" ELSE tracks[f].presence
  BY <1>1, <1>2 DEF Track
<1>6. ASSUME NEW f \in Files
      PROVE  /\ events'[f] \in Seq(Event)
             /\ Len(events[f]) <= Len(events'[f])
             /\ \A i \in 1..Len(events[f]) : events'[f][i] = events[f][i]
             /\ \A i \in 1..Len(events'[f]) : i > Len(events[f]) => events'[f][i].run = run[s]
  <2> HIDE DEF event
  <2>1. events'[f] = events[f] \/ events'[f] = Append(events[f], event)
    BY <1>2
  <2>2. CASE events'[f] = events[f]
    BY <1>1, <2>2
  <2>3. CASE events'[f] = Append(events[f], event)
    BY <1>1, <1>4, <2>3, Appended
  <2> QED
    BY <2>1, <2>2, <2>3
<1>7. DOMAIN tracks' = Files /\ DOMAIN events' = Files
  BY <1>2
<1>8. tracks' \in [Files -> Track] /\ events' \in [Files -> Seq(Event)]
  BY <1>2, <1>5, <1>6, <1>7
<1> QED
  BY <1>5, <1>6, <1>8

\* What a command reports of its run.
LEMMA OutcomeReported ==
    ASSUME TypeOK, NEW r \in 1..Len(outcome), NEW verdict \in {"succeeded", "failed"},
           outcome' = [outcome EXCEPT ![r] = verdict]
    PROVE  outcome' \in Seq({"none", "succeeded", "failed"}) /\ Len(outcome') = Len(outcome)
  BY ExceptSeq DEF TypeOK

\* Those who stay own their runs, the one who left owns none.
LEMMA OwnersAfterLeaving ==
    ASSUME TypeOK, ScannersOwnRuns, NEW s \in Scanners, Leave(s),
           \A q \in Scanners : q # s /\ pc[q] # "idle" => Owns(q)'
    PROVE  ScannersOwnRuns'
<1>1. /\ pc'[s] = "idle"
      /\ \A q \in Scanners : q # s => pc'[q] = pc[q] /\ run'[q] = run[q]
  BY Left
<1> QED
  BY <1>1 DEF ScannersOwnRuns

\* A success keeps the catalog consistent.
LEMMA SucceedConsistent ==
    ASSUME Consistent, NEW s \in Scanners, Succeed(s)
    PROVE  Consistent'
<1> DEFINE r == run[s]
           c == scanRuns[r].source
<1>1. TypeOK /\ RunsAreIds /\ ScannersOwnRuns /\ Len(outcome) = Len(scanRuns)
      /\ pc[s] # "idle" /\ Owns(s) /\ Leave(s)
  BY DEF Consistent, Succeed, ScannersOwnRuns
<1>2. Succeed(s) /\ ~Observe(s)
  BY DEF Succeed, Observe
<1>3. /\ scanRuns' \in Seq(ScanRun) /\ Len(scanRuns') = Len(scanRuns)
      /\ scanRuns'[r].source = c /\ scanRuns'[r].status = "succeeded"
  BY <1>1, <1>2, RunWritten DEF Owns
<1>4. /\ RunsStand /\ RunningIsNewest'
      /\ \A q \in Scanners : q # s /\ pc[q] # "idle" => Owns(q)'
  BY <1>1, OthersOwn
<1>5. /\ Len(scanRuns) \in Nat /\ r \in 1..Len(scanRuns) /\ c \in Sources
      /\ \A f \in Files : Len(events[f]) \in Nat
  BY <1>1, RunColumns, LenProperties DEF Owns, IsRunning, TypeOK
<1>6. /\ tracks' \in [Files -> Track] /\ events' \in [Files -> Seq(Event)]
      /\ \A f \in Files :
            /\ tracks'[f].lastSeen = tracks[f].lastSeen
            /\ \A i \in 1..Len(events[f]) : events'[f][i] = events[f][i]
            /\ \A i \in 1..Len(events'[f]) : i > Len(events[f]) => events'[f][i].run = r
  BY <1>1, ReconciliationWritten
<1>7. lastOk' = [lastOk EXCEPT ![c] = r] /\ UNCHANGED <<disk, edits>>
      /\ outcome' = [outcome EXCEPT ![r] = "succeeded"]
  BY DEF Succeed
<1>8. outcome' \in Seq({"none", "succeeded", "failed"}) /\ Len(outcome') = Len(scanRuns')
  BY <1>1, <1>3, <1>5, <1>7, OutcomeReported
<1>9. lastOk' \in [Sources -> Nat]
  BY <1>1, <1>5, <1>7 DEF TypeOK
<1>10. TypeOK'
  BY <1>1, <1>3, <1>6, <1>7, <1>8, <1>9, Left DEF TypeOK
<1>11. RunsAreIds'
  <2>1. ASSUME NEW d \in Sources, lastOk'[d] # 0
        PROVE  /\ lastOk'[d] \in 1..Len(scanRuns)
               /\ scanRuns'[lastOk'[d]].source = d
               /\ scanRuns'[lastOk'[d]].status = "succeeded"
    <3>1. CASE d = c
      BY <1>1, <1>3, <1>5, <1>7, <3>1 DEF TypeOK
    <3>2. CASE d # c
      <4>1. lastOk'[d] = lastOk[d]
        BY <1>1, <1>7, <3>2 DEF TypeOK
      <4> QED
        BY <1>1, <1>4, <2>1, <4>1 DEF RunsAreIds, RunsStand
    <3> QED
      BY <3>1, <3>2
  <2>2. ASSUME NEW f \in Files, tracks'[f].lastSeen # 0
        PROVE  /\ tracks'[f].lastSeen \in 1..Len(scanRuns)
               /\ scanRuns'[tracks'[f].lastSeen].source = SourceOf[f]
    BY <1>1, <1>4, <1>6, <2>2 DEF RunsAreIds, RunsStand
  <2>3. ASSUME NEW f \in Files, NEW i \in 1..Len(events'[f])
        PROVE  events'[f][i].run \in 1..Len(scanRuns)
    <3>1. i \in 1..Len(events[f]) \/ i > Len(events[f])
      BY <1>5
    <3> QED
      BY <1>1, <1>5, <1>6, <3>1 DEF RunsAreIds
  <2> QED
    BY <1>3, <2>1, <2>2, <2>3 DEF RunsAreIds
<1>12. ScannersOwnRuns'
  BY <1>1, <1>4, OwnersAfterLeaving
<1> QED
  BY <1>4, <1>8, <1>10, <1>11, <1>12 DEF Consistent

\* So does a recorded failure, ...
LEMMA FailConsistent ==
    ASSUME Consistent, NEW s \in Scanners, Fail(s)
    PROVE  Consistent'
<1>1. TypeOK /\ RunsAreIds /\ ScannersOwnRuns /\ Len(outcome) = Len(scanRuns)
      /\ pc[s] # "idle" /\ Owns(s) /\ Leave(s)
  BY DEF Consistent, Fail, ScannersOwnRuns
<1>2. scanRuns' \in Seq(ScanRun) /\ Len(scanRuns') = Len(scanRuns)
  BY <1>1, RunWritten DEF Owns
<1>3. /\ RunsStand /\ RunningIsNewest'
      /\ \A q \in Scanners : q # s /\ pc[q] # "idle" => Owns(q)'
  BY <1>1, OthersOwn
<1>4. UNCHANGED <<disk, edits, tracks, events, lastOk>>
      /\ outcome' = [outcome EXCEPT ![run[s]] = "failed"]
  BY DEF Fail
<1>5. outcome' \in Seq({"none", "succeeded", "failed"}) /\ Len(outcome') = Len(scanRuns')
  BY <1>1, <1>2, <1>4, OutcomeReported DEF Owns, IsRunning
<1>6. TypeOK'
  BY <1>1, <1>2, <1>4, <1>5, Left DEF TypeOK
<1>7. RunsAreIds'
  BY <1>1, <1>3, <1>4, <1>6, IdsKept
<1>8. ScannersOwnRuns'
  BY <1>1, <1>3, OwnersAfterLeaving
<1> QED
  BY <1>3, <1>5, <1>6, <1>7, <1>8 DEF Consistent

\* ... one that could not be recorded, and a crash: the run stays running.
LEMMA AbandonConsistent ==
    ASSUME Consistent, NEW s \in Scanners, FailSuppressed(s) \/ Crash(s)
    PROVE  Consistent'
<1>1. TypeOK /\ RunsAreIds /\ RunningIsNewest /\ ScannersOwnRuns /\ Len(outcome) = Len(scanRuns)
      /\ pc[s] # "idle" /\ Owns(s) /\ Leave(s)
  BY DEF Consistent, FailSuppressed, Crash, ScannersOwnRuns
<1>2. UNCHANGED <<disk, edits, scanRuns, tracks, events, lastOk>>
      /\ (outcome' = outcome \/ outcome' = [outcome EXCEPT ![run[s]] = "failed"])
  BY DEF FailSuppressed, Crash, catalogVars
<1>3. outcome' \in Seq({"none", "succeeded", "failed"}) /\ Len(outcome') = Len(scanRuns')
  <2>1. run[s] \in 1..Len(outcome)
    BY <1>1 DEF Owns, IsRunning
  <2>2. CASE outcome' = outcome
    BY <1>1, <1>2, <2>2 DEF TypeOK
  <2>3. CASE outcome' = [outcome EXCEPT ![run[s]] = "failed"]
    BY <1>1, <1>2, <2>1, <2>3, OutcomeReported
  <2> QED
    BY <1>2, <2>2, <2>3
<1>4. TypeOK'
  BY <1>1, <1>2, <1>3, Left DEF TypeOK
<1>5. RunsAreIds' /\ RunningIsNewest'
  BY <1>1, <1>2 DEF RunsAreIds, RunningIsNewest, IsRunning
<1>6. ASSUME NEW q \in Scanners, q # s, pc[q] # "idle" PROVE Owns(q)'
  <2>1. Owns(q) /\ UNCHANGED <<run[q], unvisited[q], seen[q]>>
    BY <1>1, <1>6, Left DEF ScannersOwnRuns
  <2>2. IsRunning(run[q])' /\ scanRuns'[run[q]].source = scanRuns[run[q]].source
    BY <1>2, <2>1 DEF Owns, IsRunning
  <2> QED
    BY <2>1, <2>2, OwnsKept
<1>7. ScannersOwnRuns'
  BY <1>1, <1>6, OwnersAfterLeaving
<1> QED
  BY <1>3, <1>4, <1>5, <1>7 DEF Consistent

\* An edit of the library touches neither catalog nor commands.
LEMMA EditConsistent ==
    ASSUME Consistent, NEW f \in Files, Edit(f)
    PROVE  Consistent'
<1>1. TypeOK /\ RunsAreIds /\ RunningIsNewest /\ ScannersOwnRuns /\ Len(outcome) = Len(scanRuns)
  BY DEF Consistent
<1>2. PICK version \in (IF KindOf[f] = "directory" THEN {0, 1} ELSE Facts) \ {disk[f]} :
         /\ disk' = [disk EXCEPT ![f] = version]
         /\ wasAbsent' = [s \in Scanners |->
                IF /\ version = 0 /\ pc[s] # "idle"
                   /\ SourceOf[f] = scanRuns[run[s]].source
                THEN wasAbsent[s] \cup {f} ELSE wasAbsent[s]]
  BY DEF Edit
<1>3. version \in Facts
  BY ScanAssumption DEF Facts
<1>4. disk' \in [Files -> Facts] /\ wasAbsent' \in [Scanners -> SUBSET Files]
  BY <1>1, <1>2, <1>3 DEF TypeOK
<1>5. UNCHANGED <<scanRuns, tracks, events, lastOk, pc, run, unvisited, seen, outcome>>
      /\ edits' = edits + 1
  BY DEF Edit, catalogVars
<1>6. TypeOK'
  BY <1>1, <1>4, <1>5 DEF TypeOK
<1>7. RunsAreIds' /\ RunningIsNewest' /\ ScannersOwnRuns'
  BY <1>1, <1>5 DEF RunsAreIds, RunningIsNewest, ScannersOwnRuns, Owns, Seen, IsRunning
<1> QED
  BY <1>1, <1>5, <1>6, <1>7 DEF Consistent

\* Every step keeps the catalog consistent.
LEMMA StepConsistent == Consistent /\ [Next]_vars => Consistent'
<1> SUFFICES ASSUME Consistent, [Next]_vars PROVE Consistent'
  OBVIOUS
<1>1. ASSUME NEW s \in Scanners, Step(s) PROVE Consistent'
  BY <1>1, BeginConsistent, TraversalConsistent, ObserveConsistent, SucceedConsistent,
     FailConsistent, AbandonConsistent DEF Step
<1>2. CASE UNCHANGED vars
  BY <1>2 DEF vars, catalogVars, scanVars, Consistent, TypeOK, RunsAreIds, RunningIsNewest,
     ScannersOwnRuns, Owns, Seen, IsRunning
<1> QED
  BY <1>1, <1>2, EditConsistent DEF Next

\* The catalog is consistent forever.
LEMMA ConsistentInvariant == Spec => []Consistent
  BY InitConsistent, StepConsistent, PTL DEF Spec

\* Rows, events and commands keep their shape.
THEOREM TypeCorrect == Spec => []TypeOK
<1>1. Consistent => TypeOK
  BY DEF Consistent
<1> QED
  BY <1>1, ConsistentInvariant, PTL

-----------------------------------------------------------------------------
(* Absence.  The run of a command that reconciles is the newest of its       *)
(* source, so what another run saw last was seen before it.                  *)

\* No step without an observation or a success touches rows or events.
LEMMA CatalogUntouched ==
    ASSUME [Next]_vars, ~ \E s \in Scanners : Observe(s) \/ Succeed(s)
    PROVE  UNCHANGED <<tracks, events, lastOk>>
  BY DEF Next, Step, Begin, Visit, Scanned, Raise, Fail, FailSuppressed, Crash, Edit,
     vars, catalogVars

\* No step takes back a verdict.
LEMMA VerdictsStand ==
    ASSUME Consistent, [Next]_vars
    PROVE  RunsStand
<1>1. TypeOK /\ Len(scanRuns) \in Nat
  BY RunColumns DEF Consistent
<1>2. ASSUME NEW s \in Scanners, NEW c \in Sources, Begin(s, c) PROVE RunsStand
  BY <1>1, <1>2, BeginRuns DEF RunsStand
<1>3. ASSUME NEW s \in Scanners, Observe(s) \/ Succeed(s) \/ Fail(s) PROVE RunsStand
  <2>1. pc[s] # "idle"
    BY <1>3 DEF Observe, Succeed, Fail
  <2> QED
    BY <1>3, <2>1, OthersOwn
<1>4. ASSUME UNCHANGED scanRuns PROVE RunsStand
  BY <1>1, <1>4 DEF RunsStand
<1> QED
  BY <1>2, <1>3, <1>4
  DEF Next, Step, Visit, Scanned, Raise, FailSuppressed, Crash, Edit, vars, catalogVars

\* An empty catalog shows nothing to reconcile.
LEMMA InitReconciled == Init => AbsenceIsReconciled
<1> SUFFICES ASSUME Init PROVE AbsenceIsReconciled
  OBVIOUS
<1>1. \A f \in Files : Len(events[f]) = 0 /\ tracks[f].presence = "none"
  BY EmptySeq DEF Init
<1> QED
  BY <1>1 DEF AbsenceIsReconciled, OnlySuccessReconciles, ReconciledSinceLastSuccess

\* Every step keeps absence reconciled by successes alone.
LEMMA StepReconciled ==
    ASSUME Consistent, AbsenceIsReconciled, [Next]_vars
    PROVE  AbsenceIsReconciled'
<1>1. TypeOK /\ RunsAreIds /\ RunningIsNewest /\ ScannersOwnRuns /\ RunsStand
      /\ OnlySuccessReconciles /\ ReconciledSinceLastSuccess
  BY VerdictsStand DEF Consistent, AbsenceIsReconciled
<1>2. /\ Len(scanRuns) \in Nat
      /\ \A f \in Files : /\ Len(events[f]) \in Nat /\ tracks[f].lastSeen \in Nat
                          /\ SourceOf[f] \in Sources /\ lastOk[SourceOf[f]] \in Nat
  BY <1>1, RunColumns, LenProperties, ScanAssumption DEF TypeOK, Track
<1>3. ASSUME NEW s \in Scanners, pc[s] # "idle",
             NEW f \in Files, SourceOf[f] = scanRuns[run[s]].source
      PROVE  lastOk[SourceOf[f]] < run[s] /\ tracks[f].lastSeen <= run[s]
  <2>1. /\ IsRunning(run[s]) /\ run[s] \in 1..Len(scanRuns)
        /\ scanRuns[run[s]].status = "running"
    BY <1>1, <1>3 DEF ScannersOwnRuns, Owns, IsRunning
  <2>2. lastOk[SourceOf[f]] # 0 =>
          /\ lastOk[SourceOf[f]] \in 1..Len(scanRuns)
          /\ scanRuns[lastOk[SourceOf[f]]].source = scanRuns[run[s]].source
          /\ scanRuns[lastOk[SourceOf[f]]].status = "succeeded"
    BY <1>1, <1>2, <1>3 DEF RunsAreIds
  <2>3. tracks[f].lastSeen # 0 =>
          /\ tracks[f].lastSeen \in 1..Len(scanRuns)
          /\ scanRuns[tracks[f].lastSeen].source = scanRuns[run[s]].source
    BY <1>1, <1>3 DEF RunsAreIds
  <2>4. lastOk[SourceOf[f]] # 0 => lastOk[SourceOf[f]] <= run[s] /\ lastOk[SourceOf[f]] # run[s]
    BY <1>1, <2>1, <2>2 DEF RunningIsNewest
  <2>5. tracks[f].lastSeen # 0 => tracks[f].lastSeen <= run[s]
    BY <1>1, <2>1, <2>3 DEF RunningIsNewest
  <2> QED
    BY <1>2, <2>1, <2>4, <2>5
<1>4. ASSUME NEW s \in Scanners, Observe(s) PROVE AbsenceIsReconciled'
  <2>1. /\ pc[s] # "idle" /\ Owns(s) /\ UNCHANGED lastOk
    BY <1>1, <1>4 DEF Observe, ScannersOwnRuns
  <2>2. \A f \in Files :
           /\ f \in Seen(s) => tracks'[f].presence = "present" /\ tracks'[f].lastSeen = run[s]
           /\ f \notin Seen(s) => tracks'[f] = tracks[f]
           /\ \A i \in 1..Len(events[f]) : events'[f][i] = events[f][i]
           /\ \A i \in 1..Len(events'[f]) : i > Len(events[f]) => events'[f][i].type # "missing"
    BY <1>1, <1>4, ObservationWritten
  <2>3. OnlySuccessReconciles'
    <3> SUFFICES ASSUME NEW f \in Files, NEW i \in 1..Len(events'[f]),
                        events'[f][i].type = "missing"
                 PROVE  scanRuns'[events'[f][i].run].status = "succeeded"
      BY DEF OnlySuccessReconciles
    <3>1. i \in 1..Len(events[f]) /\ events'[f][i] = events[f][i]
      BY <1>2, <2>2
    <3>2. events[f][i].run \in 1..Len(scanRuns)
          /\ scanRuns[events[f][i].run].status = "succeeded"
      BY <1>1, <3>1 DEF RunsAreIds, OnlySuccessReconciles
    <3> QED
      BY <1>1, <3>1, <3>2 DEF RunsStand
  <2>4. ReconciledSinceLastSuccess'
    <3> SUFFICES ASSUME NEW f \in Files
                 PROVE  /\ tracks'[f].presence = "present" =>
                              tracks'[f].lastSeen >= lastOk[SourceOf[f]]
                        /\ tracks'[f].presence = "missing" =>
                              tracks'[f].lastSeen < lastOk[SourceOf[f]]
      BY <2>1 DEF ReconciledSinceLastSuccess
    <3>1. CASE f \in Seen(s)
      <4>1. SourceOf[f] = scanRuns[run[s]].source
        BY <2>1, <3>1 DEF Owns, FilesOf
      <4>2. lastOk[SourceOf[f]] < run[s] /\ run[s] \in Nat
        BY <1>1, <1>3, <2>1, <4>1 DEF TypeOK
      <4> QED
        BY <1>2, <2>2, <3>1, <4>2
    <3>2. CASE f \notin Seen(s)
      BY <1>1, <2>2, <3>2 DEF ReconciledSinceLastSuccess
    <3> QED
      BY <3>1, <3>2
  <2> QED
    BY <2>3, <2>4 DEF AbsenceIsReconciled
<1>5. ASSUME NEW s \in Scanners, Succeed(s) PROVE AbsenceIsReconciled'
  <2> DEFINE r == run[s]
             c == scanRuns[r].source
  <2>1. /\ pc[s] # "idle" /\ Owns(s) /\ lastOk' = [lastOk EXCEPT ![c] = r]
    BY <1>1, <1>5 DEF Succeed, ScannersOwnRuns
  <2>2. \A f \in Files :
           /\ tracks'[f].lastSeen = tracks[f].lastSeen
           /\ tracks'[f].presence = IF f \in NotSeen(r) THEN "missing" ELSE tracks[f].presence
           /\ \A i \in 1..Len(events[f]) : events'[f][i] = events[f][i]
           /\ \A i \in 1..Len(events'[f]) : i > Len(events[f]) => events'[f][i].run = r
    BY <1>1, <1>5, ReconciliationWritten
  <2>3. scanRuns'[r].status = "succeeded" /\ r \in 1..Len(scanRuns)
    <3>1. Succeed(s) /\ ~Observe(s)
      BY <1>5 DEF Succeed, Observe
    <3> QED
      BY <1>1, <2>1, <3>1, RunWritten DEF Owns, IsRunning
  <2>4. OnlySuccessReconciles'
    <3> SUFFICES ASSUME NEW f \in Files, NEW i \in 1..Len(events'[f]),
                        events'[f][i].type = "missing"
                 PROVE  scanRuns'[events'[f][i].run].status = "succeeded"
      BY DEF OnlySuccessReconciles
    <3>1. CASE i > Len(events[f])
      BY <2>2, <2>3, <3>1
    <3>2. CASE ~(i > Len(events[f]))
      <4>1. i \in 1..Len(events[f]) /\ events'[f][i] = events[f][i]
        BY <1>2, <2>2, <3>2
      <4>2. events[f][i].run \in 1..Len(scanRuns)
            /\ scanRuns[events[f][i].run].status = "succeeded"
        BY <1>1, <4>1 DEF RunsAreIds, OnlySuccessReconciles
      <4> QED
        BY <1>1, <4>1, <4>2 DEF RunsStand
    <3> QED
      BY <3>1, <3>2
  <2>5. ReconciledSinceLastSuccess'
    <3> SUFFICES ASSUME NEW f \in Files
                 PROVE  /\ tracks'[f].presence = "present" =>
                              tracks[f].lastSeen >= lastOk'[SourceOf[f]]
                        /\ tracks'[f].presence = "missing" =>
                              tracks[f].lastSeen < lastOk'[SourceOf[f]]
      BY <2>2 DEF ReconciledSinceLastSuccess
    <3>1. CASE SourceOf[f] = c
      <4>1. lastOk'[SourceOf[f]] = r
        BY <1>1, <1>2, <2>1, <3>1 DEF TypeOK
      <4>2. lastOk[SourceOf[f]] < r /\ tracks[f].lastSeen <= r /\ r \in Nat
        BY <1>1, <1>3, <2>1, <3>1 DEF TypeOK
      <4>3. f \in NotSeen(r) <=> tracks[f].presence = "present" /\ tracks[f].lastSeen # r
        BY <3>1 DEF NotSeen, FilesOf
      <4>4. tracks[f].presence = "missing" => tracks[f].lastSeen < lastOk[SourceOf[f]]
        BY <1>1 DEF ReconciledSinceLastSuccess
      <4> QED
        BY <1>2, <2>2, <4>1, <4>2, <4>3, <4>4
    <3>2. CASE SourceOf[f] # c
      <4>1. lastOk'[SourceOf[f]] = lastOk[SourceOf[f]]
        BY <1>1, <1>2, <2>1, <3>2 DEF TypeOK
      <4>2. f \notin NotSeen(r)
        BY <3>2 DEF NotSeen, FilesOf
      <4> QED
        BY <1>1, <2>2, <4>1, <4>2 DEF ReconciledSinceLastSuccess
    <3> QED
      BY <3>1, <3>2
  <2> QED
    BY <2>4, <2>5 DEF AbsenceIsReconciled
<1>6. CASE ~ \E s \in Scanners : Observe(s) \/ Succeed(s)
  <2>1. UNCHANGED <<tracks, events, lastOk>>
    BY <1>6, CatalogUntouched
  <2>2. OnlySuccessReconciles'
    <3> SUFFICES ASSUME NEW f \in Files, NEW i \in 1..Len(events[f]),
                        events[f][i].type = "missing"
                 PROVE  scanRuns'[events[f][i].run].status = "succeeded"
      BY <2>1 DEF OnlySuccessReconciles
    <3>1. events[f][i].run \in 1..Len(scanRuns)
          /\ scanRuns[events[f][i].run].status = "succeeded"
      BY <1>1 DEF RunsAreIds, OnlySuccessReconciles
    <3> QED
      BY <1>1, <3>1 DEF RunsStand
  <2>3. ReconciledSinceLastSuccess'
    BY <1>1, <2>1 DEF ReconciledSinceLastSuccess
  <2> QED
    BY <2>2, <2>3 DEF AbsenceIsReconciled
<1> QED
  BY <1>4, <1>5, <1>6

\* Absence follows from successful scans and from nothing else.
THEOREM AbsenceReconciled == Spec => []AbsenceIsReconciled
<1>1. Consistent /\ AbsenceIsReconciled /\ [Next]_vars => AbsenceIsReconciled'
  BY StepReconciled
<1> QED
  BY <1>1, InitReconciled, ConsistentInvariant, PTL DEF Spec

-----------------------------------------------------------------------------
(* Witnesses of absence.  Between the traversal and the reconciliation       *)
(* nobody else writes the rows of the source, because nobody else owns a run *)
(* of it.                                                                    *)

AbsenceWitnessed ==
    \A s \in Scanners : pc[s] # "idle" =>
        \A f \in FilesOf(scanRuns[run[s]].source) :
            /\ disk[f] = 0 => f \in wasAbsent[s]
            /\ f \in unvisited[s] \/ f \in Seen(s) \/ f \in wasAbsent[s]

ObservationStands ==
    \A s \in Scanners :
        /\ pc[s] \in {"observe", "succeed"} => unvisited[s] = {}
        /\ pc[s] = "succeed" => \A f \in Seen(s) : tracks[f].lastSeen = run[s]

Witnessed == AbsenceWitnessed /\ ObservationStands

\* A command the step leaves alone keeps its witnesses.
LEMMA WitnessKept ==
    ASSUME Consistent, [Next]_vars, Witnessed, NEW s \in Scanners, pc[s] # "idle",
           UNCHANGED <<disk, pc[s], run[s], unvisited[s], seen[s], wasAbsent[s]>>
    PROVE  \A f \in FilesOf(scanRuns'[run'[s]].source) :
              /\ disk'[f] = 0 => f \in wasAbsent'[s]
              /\ f \in unvisited'[s] \/ f \in Seen(s)' \/ f \in wasAbsent'[s]
<1>1. scanRuns'[run'[s]].source = scanRuns[run[s]].source /\ Seen(s)' = Seen(s)
  BY VerdictsStand DEF Consistent, ScannersOwnRuns, Owns, IsRunning, RunsStand, Seen
<1> QED
  BY <1>1 DEF Witnessed, AbsenceWitnessed

\* Every step keeps the witnesses of those who go on.
LEMMA StepAbsence ==
    ASSUME Consistent, Witnessed, [Next]_vars
    PROVE  AbsenceWitnessed'
<1>1. TypeOK /\ ScannersOwnRuns /\ AbsenceWitnessed /\ RunsStand
  BY VerdictsStand DEF Consistent, Witnessed
<1>2. \A q \in Scanners : pc[q] # "idle" =>
         run[q] \in 1..Len(scanRuns) /\ scanRuns'[run[q]].source = scanRuns[run[q]].source
  BY <1>1 DEF ScannersOwnRuns, Owns, IsRunning, RunsStand
<1>3. ASSUME NEW s \in Scanners, NEW c \in Sources, Begin(s, c) PROVE AbsenceWitnessed'
  <2>1. /\ scanRuns'[run'[s]].source = c /\ unvisited'[s] = FilesOf(c)
        /\ wasAbsent'[s] = {f \in FilesOf(c) : disk[f] = 0} /\ UNCHANGED disk
    BY <1>1, <1>3, BeginRuns DEF Begin, TypeOK
  <2>2. \A q \in Scanners : q # s =>
           UNCHANGED <<disk, pc[q], run[q], unvisited[q], seen[q], wasAbsent[q]>>
    BY <1>1, <1>3 DEF Begin, TypeOK
  <2> QED
    BY <2>1, <2>2, WitnessKept DEF AbsenceWitnessed
<1>4. ASSUME NEW s \in Scanners, NEW f \in Files, Visit(s, f) PROVE AbsenceWitnessed'
  <2>1. /\ f \in unvisited[s] /\ seen' = [seen EXCEPT ![s][f] = disk[f]]
        /\ unvisited' = [unvisited EXCEPT ![s] = @ \ {f}] /\ pc[s] # "idle"
        /\ UNCHANGED <<disk, scanRuns, pc, run, wasAbsent>>
    BY <1>4 DEF Visit, catalogVars
  <2>2. \A q \in Scanners, g \in Files :
           seen'[q][g] = IF q = s /\ g = f THEN disk[f] ELSE seen[q][g]
    BY <1>1, <2>1 DEF TypeOK
  <2>3. \A q \in Scanners : unvisited'[q] = IF q = s THEN unvisited[s] \ {f} ELSE unvisited[q]
    BY <1>1, <2>1 DEF TypeOK
  <2> SUFFICES ASSUME NEW q \in Scanners, pc[q] # "idle",
                      NEW g \in FilesOf(scanRuns[run[q]].source)
               PROVE  /\ disk[g] = 0 => g \in wasAbsent[q]
                      /\ g \in unvisited'[q] \/ seen'[q][g] # 0 \/ g \in wasAbsent[q]
    BY <2>1 DEF AbsenceWitnessed, Seen, FilesOf
  <2>4. /\ disk[g] = 0 => g \in wasAbsent[q]
        /\ g \in unvisited[q] \/ seen[q][g] # 0 \/ g \in wasAbsent[q]
    BY <1>1 DEF AbsenceWitnessed, Seen
  <2>5. g \in Files
    BY DEF FilesOf
  <2> QED
    BY <2>2, <2>3, <2>4, <2>5
<1>5. ASSUME NEW s \in Scanners, Scanned(s) \/ Raise(s) \/ Observe(s) PROVE AbsenceWitnessed'
  <2>1. /\ UNCHANGED <<disk, run, unvisited, seen, wasAbsent>> /\ pc[s] # "idle"
        /\ \A q \in Scanners : pc'[q] # "idle" <=> pc[q] # "idle"
    BY <1>1, <1>5 DEF Scanned, Raise, Observe, TypeOK
  <2> QED
    BY <1>1, <1>2, <2>1 DEF AbsenceWitnessed, Seen
<1>6. ASSUME NEW s \in Scanners, Succeed(s) \/ Fail(s) \/ FailSuppressed(s) \/ Crash(s)
      PROVE  AbsenceWitnessed'
  <2>1. Leave(s) /\ UNCHANGED disk
    BY <1>6 DEF Succeed, Fail, FailSuppressed, Crash
  <2>2. pc'[s] = "idle" /\ \A q \in Scanners : q # s =>
           UNCHANGED <<disk, pc[q], run[q], unvisited[q], seen[q], wasAbsent[q]>>
    BY <1>1, <2>1, Left
  <2> QED
    BY <2>2, WitnessKept DEF AbsenceWitnessed
<1>7. ASSUME NEW f \in Files, Edit(f) PROVE AbsenceWitnessed'
  <2>1. PICK version \in (IF KindOf[f] = "directory" THEN {0, 1} ELSE Facts) \ {disk[f]} :
           /\ disk' = [disk EXCEPT ![f] = version]
           /\ wasAbsent' = [s \in Scanners |->
                  IF /\ version = 0 /\ pc[s] # "idle"
                     /\ SourceOf[f] = scanRuns[run[s]].source
                  THEN wasAbsent[s] \cup {f} ELSE wasAbsent[s]]
    BY <1>7 DEF Edit
  <2>2. UNCHANGED <<scanRuns, pc, run, unvisited, seen>>
    BY <1>7 DEF Edit, catalogVars
  <2> SUFFICES ASSUME NEW q \in Scanners, pc[q] # "idle",
                      NEW g \in FilesOf(scanRuns[run[q]].source)
               PROVE  /\ disk'[g] = 0 => g \in wasAbsent'[q]
                      /\ g \in unvisited[q] \/ g \in Seen(q) \/ g \in wasAbsent'[q]
    BY <2>2 DEF AbsenceWitnessed, Seen
  <2>3. /\ disk[g] = 0 => g \in wasAbsent[q]
        /\ g \in unvisited[q] \/ g \in Seen(q) \/ g \in wasAbsent[q]
        /\ wasAbsent[q] \subseteq wasAbsent'[q]
    BY <1>1, <2>1 DEF AbsenceWitnessed
  <2>4. g \in Files /\ SourceOf[g] = scanRuns[run[q]].source
    BY DEF FilesOf
  <2>5. CASE g = f
    BY <1>1, <2>1, <2>3, <2>4, <2>5 DEF TypeOK
  <2>6. CASE g # f
    BY <1>1, <2>1, <2>3, <2>4, <2>6 DEF TypeOK
  <2> QED
    BY <2>5, <2>6
<1>8. CASE UNCHANGED vars
  BY <1>1, <1>8 DEF vars, catalogVars, scanVars, AbsenceWitnessed, Seen
<1> QED
  BY <1>3, <1>4, <1>5, <1>6, <1>7, <1>8 DEF Next, Step

\* What a command observed stands until it reconciles.
LEMMA StepObservation ==
    ASSUME Consistent, Witnessed, [Next]_vars
    PROVE  ObservationStands'
<1>1. TypeOK /\ ScannersOwnRuns /\ ObservationStands
  BY DEF Consistent, Witnessed
<1>2. ASSUME NEW q \in Scanners, UNCHANGED <<pc[q], run[q], unvisited[q], seen[q]>>,
             pc[q] = "succeed" => \A f \in Seen(q) : tracks'[f].lastSeen = tracks[f].lastSeen
      PROVE  /\ pc'[q] \in {"observe", "succeed"} => unvisited'[q] = {}
             /\ pc'[q] = "succeed" => \A f \in Seen(q)' : tracks'[f].lastSeen = run'[q]
  BY <1>1, <1>2 DEF ObservationStands, Seen
<1>3. ASSUME NEW s \in Scanners, NEW c \in Sources, Begin(s, c) PROVE ObservationStands'
  <2>1. /\ pc'[s] = "scan" /\ UNCHANGED tracks
        /\ \A q \in Scanners : q # s => UNCHANGED <<pc[q], run[q], unvisited[q], seen[q]>>
    BY <1>1, <1>3 DEF Begin, TypeOK
  <2> QED
    BY <1>2, <2>1 DEF ObservationStands
<1>4. ASSUME NEW s \in Scanners, NEW f \in Files, Visit(s, f) PROVE ObservationStands'
  <2>1. /\ pc'[s] = "scan" /\ UNCHANGED tracks
        /\ \A q \in Scanners : q # s => UNCHANGED <<pc[q], run[q], unvisited[q], seen[q]>>
    BY <1>1, <1>4 DEF Visit, TypeOK, catalogVars
  <2> QED
    BY <1>2, <2>1 DEF ObservationStands
<1>5. ASSUME NEW s \in Scanners, Scanned(s) \/ Raise(s) PROVE ObservationStands'
  <2>1. /\ pc'[s] = "fail" \/ (pc'[s] = "observe" /\ unvisited'[s] = {})
        /\ UNCHANGED <<tracks, run, unvisited, seen>>
        /\ \A q \in Scanners : q # s => UNCHANGED pc[q]
    BY <1>1, <1>5 DEF Scanned, Raise, TypeOK, catalogVars
  <2> QED
    BY <1>2, <2>1 DEF ObservationStands
<1>6. ASSUME NEW s \in Scanners, Observe(s) PROVE ObservationStands'
  <2>1. /\ pc[s] = "observe" /\ pc'[s] = "succeed" /\ UNCHANGED <<run, unvisited, seen>>
        /\ \A q \in Scanners : q # s => UNCHANGED pc[q]
    BY <1>1, <1>6 DEF Observe, TypeOK
  <2>2. \A f \in Files : /\ f \in Seen(s) => tracks'[f].lastSeen = run[s]
                         /\ f \notin Seen(s) => tracks'[f] = tracks[f]
    BY <1>1, <1>6, ObservationWritten
  <2>3. ASSUME NEW q \in Scanners, q # s, pc[q] = "succeed", NEW f \in Seen(q)
        PROVE  tracks'[f].lastSeen = tracks[f].lastSeen
    <3>1. scanRuns[run[q]].source # scanRuns[run[s]].source
      BY <2>1, <2>3, SourcesApart
    <3>2. f \in Files /\ SourceOf[f] = scanRuns[run[q]].source
      BY <1>1, <2>3 DEF ScannersOwnRuns, Owns, FilesOf
    <3>3. f \notin Seen(s)
      BY <1>1, <2>1, <3>1, <3>2 DEF ScannersOwnRuns, Owns, FilesOf
    <3> QED
      BY <2>2, <3>2, <3>3
  <2>4. unvisited[s] = {} /\ \A f \in Seen(s)' : tracks'[f].lastSeen = run'[s]
    BY <1>1, <2>1, <2>2 DEF ObservationStands, Seen
  <2> QED
    BY <1>2, <2>1, <2>3, <2>4 DEF ObservationStands
<1>7. ASSUME NEW s \in Scanners, Succeed(s) \/ Fail(s) \/ FailSuppressed(s) \/ Crash(s)
      PROVE  ObservationStands'
  <2>1. Leave(s)
    BY <1>7 DEF Succeed, Fail, FailSuppressed, Crash
  <2>2. pc'[s] = "idle" /\ \A q \in Scanners : q # s =>
           UNCHANGED <<pc[q], run[q], unvisited[q], seen[q]>>
    BY <1>1, <2>1, Left
  <2>3. \A f \in Files : tracks'[f].lastSeen = tracks[f].lastSeen
    BY <1>1, <1>7, ReconciliationWritten DEF Fail, FailSuppressed, Crash, catalogVars
  <2>4. \A q \in Scanners : Seen(q) \subseteq Files
    BY DEF Seen
  <2> QED
    BY <1>2, <2>2, <2>3, <2>4 DEF ObservationStands
<1>8. CASE UNCHANGED vars \/ \E f \in Files : Edit(f)
  <2>1. UNCHANGED <<pc, run, unvisited, seen, tracks>>
    BY <1>8 DEF vars, catalogVars, scanVars, Edit
  <2> QED
    BY <1>1, <2>1 DEF ObservationStands, Seen
<1> QED
  BY <1>3, <1>4, <1>5, <1>6, <1>7, <1>8 DEF Next, Step

\* Only a success declares items missing, and only those its command did not see
\* while nobody else observed its source.
LEMMA MissingWitnessed ==
    ASSUME Consistent, Witnessed, [Next]_vars,
           NEW f \in Files, tracks[f].presence = "present", tracks'[f].presence = "missing"
    PROVE  \E s \in Scanners : pc[s] = "succeed" /\ f \in wasAbsent[s]
<1>1. TypeOK
  BY DEF Consistent
<1>2. ~ \E s \in Scanners : Observe(s)
  BY <1>1, ObservationWritten
<1>3. PICK s \in Scanners : Succeed(s)
  BY <1>2, CatalogUntouched
<1>4. f \in NotSeen(run[s]) /\ pc[s] = "succeed"
  BY <1>1, <1>3, ReconciliationWritten DEF Succeed
<1>5. f \in FilesOf(scanRuns[run[s]].source) /\ tracks[f].lastSeen # run[s]
  BY <1>4 DEF NotSeen
<1>6. f \notin unvisited[s] /\ f \notin Seen(s)
  BY <1>4, <1>5 DEF Witnessed, ObservationStands
<1>7. f \in wasAbsent[s]
  BY <1>4, <1>5, <1>6 DEF Witnessed, AbsenceWitnessed
<1> QED
  BY <1>4, <1>7

\* A file is declared missing only if it did not exist at some moment of the
\* scan that says so, however the library changed meanwhile.
THEOREM MissingFilesWereAbsent == Spec => MissingWasAbsent
<1> DEFINE Justified ==
             \A f \in Files :
                tracks[f].presence = "present" /\ tracks'[f].presence = "missing" =>
                    \E s \in Scanners : pc[s] = "succeed" /\ f \in wasAbsent[s]
<1>1. Init => Witnessed
  BY DEF Init, Witnessed, AbsenceWitnessed, ObservationStands
<1>2. Consistent /\ Witnessed /\ [Next]_vars => Witnessed'
  BY StepAbsence, StepObservation DEF Witnessed
<1>3. Consistent /\ Witnessed /\ [Next]_vars => Justified
  BY MissingWitnessed
<1>4. MissingWasAbsent <=> [][Justified]_vars
  BY DEF MissingWasAbsent
<1> HIDE DEF Justified
<1> QED
  BY <1>1, <1>2, <1>3, <1>4, ConsistentInvariant, PTL DEF Spec

-----------------------------------------------------------------------------
(* The presence story of an audio file. *)

\* A story begins with nothing to tell.
LEMMA InitStory == Init => PresenceFollowsEvents
<1> SUFFICES ASSUME Init, NEW f \in OfKind("audio")
             PROVE  Tells(events[f], tracks[f].presence)
  BY DEF PresenceFollowsEvents
<1>1. f \in Files
  BY DEF OfKind
<1>2. tracks[f].presence = "none" /\ Len(events[f]) = 0
  BY <1>1, EmptySeq DEF Init
<1>3. PresenceEvents(events[f]) = {}
  BY <1>2 DEF PresenceEvents
<1> QED
  BY <1>2, <1>3 DEF Tells

\* Every observation and every reconciliation continues it.
LEMMA StepStory ==
    ASSUME Consistent, PresenceFollowsEvents, [Next]_vars
    PROVE  PresenceFollowsEvents'
<1>1. TypeOK /\ OfKind("audio") \subseteq Files
  BY DEF Consistent, OfKind
<1>2. ASSUME NEW s \in Scanners, Observe(s), NEW f \in OfKind("audio")
      PROVE  Tells(events'[f], tracks'[f].presence)
  <2>1. /\ f \in Seen(s) => tracks'[f].presence = "present"
        /\ f \notin Seen(s) => tracks'[f] = tracks[f] /\ events'[f] = events[f]
    BY <1>1, <1>2, ObservationWritten
  <2>2. Tells(events[f], tracks[f].presence)
    BY DEF PresenceFollowsEvents
  <2>3. ASSUME f \in Seen(s) PROVE Tells(events'[f], "present")
    <3>1. events'[f] = events[f] \o Transition(tracks[f], seen[s][f], run[s])
      BY <1>1, <1>2, <2>3 DEF Observe
    <3>2. /\ seen[s][f] \in Facts /\ run[s] \in Nat /\ tracks[f] \in Track
          /\ events[f] \in Seq(Event)
      BY <1>1 DEF TypeOK
    <3>3. Tells(events[f] \o Transition(tracks[f], seen[s][f], run[s]), "present")
      BY <2>2, <3>2, StoryOfObservation
    <3> QED
      BY <3>1, <3>3
  <2> QED
    BY <2>1, <2>2, <2>3
<1>3. ASSUME NEW s \in Scanners, Succeed(s), NEW f \in OfKind("audio")
      PROVE  Tells(events'[f], tracks'[f].presence)
  <2> DEFINE event == [type |-> "missing", run |-> run[s]]
  <2>1. /\ tracks'[f].presence = IF f \in NotSeen(run[s]) THEN "missing" ELSE tracks[f].presence
        /\ f \in NotSeen(run[s]) => tracks[f].presence = "present"
    BY <1>1, <1>3, ReconciliationWritten DEF NotSeen
  <2>2. events'[f] = IF f \in NotSeen(run[s]) THEN Append(events[f], event) ELSE events[f]
    BY <1>1, <1>3 DEF Succeed
  <2>3. Tells(events[f], tracks[f].presence) /\ events[f] \in Seq(Event) /\ run[s] \in Nat
    BY <1>1 DEF PresenceFollowsEvents, TypeOK
  <2>4. event \in Event /\ event.type = "missing" /\ Shown(event) = "missing"
    BY <2>3 DEF Event, Shown
  <2> HIDE DEF event
  <2>5. CASE f \in NotSeen(run[s])
    <3>1. Tells(events[f], "present")
      BY <2>1, <2>3, <2>5
    <3>2. Tells(Append(events[f], event), "missing")
      BY <2>3, <2>4, <3>1, StoryContinues
    <3> QED
      BY <2>1, <2>2, <2>5, <3>2
  <2>6. CASE f \notin NotSeen(run[s])
    BY <2>1, <2>2, <2>3, <2>6
  <2> QED
    BY <2>5, <2>6
<1>4. CASE ~ \E s \in Scanners : Observe(s) \/ Succeed(s)
  BY <1>4, CatalogUntouched DEF PresenceFollowsEvents
<1> QED
  BY <1>2, <1>3, <1>4 DEF PresenceFollowsEvents

\* The events of an audio file tell its whole presence story.
THEOREM EventsTellPresence == Spec => []PresenceFollowsEvents
<1>1. Consistent /\ PresenceFollowsEvents /\ [Next]_vars => PresenceFollowsEvents'
  BY StepStory
<1> QED
  BY <1>1, InitStory, ConsistentInvariant, PTL DEF Spec

=============================================================================
