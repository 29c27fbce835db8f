------------------------ MODULE DuplicateDetectionProofs ------------------------
(***************************************************************************)
(* Proofs about DuplicateDetection, for any library, any number of         *)
(* commands and workers, and any number of steps.                          *)
(***************************************************************************)
EXTENDS DuplicateDetection, FiniteSetTheorems, WellFoundedInduction, TLAPS

-----------------------------------------------------------------------------
(* The inductive invariant: the types ...                                  *)

Memory  == [Tracks -> Version]
Choice  == [Hashes -> Tracks \cup {NoTrack}]
Elections == UNION {[sources -> Choice] : sources \in SUBSET Sources}

Command ==
    [pc : Pcs, scope : Sources \cup {AllSources}, mark : BOOLEAN, mastering : BOOLEAN,
     roots : SUBSET Sources, seen : Memory, listed : Memory, members : Memory,
     todo : SUBSET Tracks, work : [Tracks -> Work], failed : BOOLEAN, unprobed : BOOLEAN,
     unmeasured : BOOLEAN, known : Memory, chosen : Elections, same : BOOLEAN]

LibraryTypes ==
    /\ disk \in [Tracks -> 1..MaxVersion] /\ catalog \in [Tracks -> 1..MaxVersion]
    /\ gone \subseteq Tracks /\ present \subseteq Tracks /\ enabled \subseteq Sources
    /\ config \in [Sources -> SourceStates]

StoredTypes ==
    /\ fingerprint \in [Tracks -> Row] /\ technical \in [Tracks -> Row]
    /\ attempts \in Seq(Attempt)
    /\ mastering \in [Tracks -> 0..Len(attempts)] /\ dj \in [Tracks -> 0..Len(attempts)]
    /\ selection \in [Sources -> Choice]

Typed ==
    /\ LibraryTypes /\ StoredTypes
    /\ lock \in Procs \cup {NoProc}
    /\ cmd \in [Procs -> Command]

\* ... who holds the lock, and what a command remembers where ...
Analysing == {"select", "extract", "groups", "measure"}

Ordered(p) ==
    /\ cmd[p].pc \in Analysing => lock = p
    /\ lock = p => cmd[p].pc \notin {"idle"} \cup Errors
    /\ cmd[p].pc \notin {"extract", "measure"} => cmd[p].work = [t \in Tracks |-> NoWork]
    /\ cmd[p].pc \notin {"facts", "commit"} => cmd[p].known = Nothing

\* ... the order of versions: a row was read from a file no older than its facts,
\* and nothing is newer than the file ...
RowIsFresh(t, row) == row.facts <= row.content /\ row.content <= disk[t] /\ row.facts <= catalog[t]

VersionsGrow ==
    \A t \in Tracks :
        /\ catalog[t] <= disk[t]
        /\ RowIsFresh(t, fingerprint[t]) /\ RowIsFresh(t, technical[t])

WorkIsFresh(p) ==
    \A t \in Tracks :
        /\ cmd[p].seen[t] <= catalog[t] /\ cmd[p].listed[t] <= catalog[t]
        /\ \A version \in {cmd[p].work[t].content, cmd[p].work[t].probed} :
              version # 0 => cmd[p].seen[t] <= version /\ version <= disk[t]

\* ... what an analysis still has to do, and what it has done ...
Pending(p, t) == t \in cmd[p].todo \/ cmd[p].work[t] # NoWork

Extracting(p) ==
    cmd[p].pc = "extract" =>
        \A t \in Tracks : /\ Pending(p, t) => fingerprint[t].facts < cmd[p].seen[t]
                          /\ t \in cmd[p].todo => cmd[p].work[t] = NoWork

Covered(p) ==
    lock = p /\ cmd[p].pc # "select" /\ ~cmd[p].failed =>
        \A t \in Tracks : cmd[p].seen[t] # 0 =>
            \/ fingerprint[t].facts = cmd[p].seen[t]
            \/ cmd[p].pc = "extract" /\ Pending(p, t)

MembersMeasured(p) ==
    lock = p /\ ~cmd[p].unmeasured =>
        \A t \in Tracks : cmd[p].members[t] # 0 =>
            \/ Measured(t, cmd[p].members[t])
            \/ cmd[p].pc = "measure" /\ Pending(p, t)

\* ... and, while the catalog keeps the facts a marking listed, what it has read
\* is what is stored, and what it has chosen are the winners.
Reading(p) ==
    \A t \in Tracks : cmd[p].known[t] # 0 /\ catalog[t] = cmd[p].listed[t] =>
        /\ fingerprint[t].facts = catalog[t] /\ technical[t].facts = catalog[t]
        /\ technical[t].content = cmd[p].known[t]

Elected(p) ==
    cmd[p].pc = "commit" =>
        /\ Listed(cmd[p].known) = Listed(cmd[p].listed)
        /\ DOMAIN cmd[p].chosen = MarkedSources(cmd[p].scope, cmd[p].listed)
        /\ cmd[p].same /\ (\A t \in Listed(cmd[p].listed) : catalog[t] = cmd[p].listed[t]) =>
              \A source \in MarkedSources(cmd[p].scope, cmd[p].listed) :
                  cmd[p].chosen[source] = Winners(source, Listed(cmd[p].listed), cmd[p].known)

Commanded(p) ==
    /\ Ordered(p) /\ WorkIsFresh(p) /\ Extracting(p) /\ Covered(p) /\ MembersMeasured(p)
    /\ Reading(p) /\ Elected(p)

Analysed ==
    /\ Typed /\ VersionsGrow /\ MasteringIsLatest
    /\ \A p \in Procs : Commanded(p)

-----------------------------------------------------------------------------
(* The least of some tracks, and the best of some copies.                  *)

\* A finite set has an element that nothing precedes in a strict order.
LEMMA Least ==
    ASSUME NEW S, IsFiniteSet(S), S # {}, NEW R,
           \A x \in S : <<x, x>> \notin R,
           \A x, y, z \in S : <<x, y>> \in R /\ <<y, z>> \in R => <<x, z>> \in R
    PROVE  \E x \in S : \A y \in S : <<y, x>> \notin R
<1> DEFINE below(x) == {y \in S : <<y, x>> \in R}
           belows == {below(x) : x \in S}
<1>1. belows \subseteq FiniteSubsetsOf(S)
  <2>1. \A T \in SUBSET S : IsFiniteSet(T)
    BY FS_Subset
  <2>2. \A x \in S : below(x) \in SUBSET S
    OBVIOUS
  <2> QED  BY <2>1, <2>2 DEF FiniteSubsetsOf
<1>2. belows # {}
  <2>1. PICK x \in S : TRUE
    OBVIOUS
  <2>2. below(x) \in belows
    OBVIOUS
  <2> QED  BY <2>2
<1> HIDE DEF belows
<1>3. \E m \in belows : \A b \in belows : <<b, m>> \notin StrictSubsetOrdering(S)
  BY <1>1, <1>2, FS_StrictSubsetOrderingWellFounded, WFMin
<1>4. PICK x \in S : \A b \in belows : <<b, below(x)>> \notin StrictSubsetOrdering(S)
  BY <1>3 DEF belows
<1>5. ASSUME NEW y \in S, <<y, x>> \in R PROVE FALSE
  <2>1. below(y) \in belows
    BY DEF belows
  <2>2. below(y) \subseteq below(x)
    BY <1>5
  <2>3. y \in below(x) /\ y \notin below(y)
    BY <1>5
  <2>4. below(y) \in SUBSET S /\ below(x) \in SUBSET S
    OBVIOUS
  <2> HIDE DEF below
  <2>5. below(y) # below(x)
    BY <2>3
  <2>6. <<below(y), below(x)>> \in StrictSubsetOrdering(S)
    BY <2>2, <2>4, <2>5 DEF StrictSubsetOrdering
  <2> QED  BY <1>4, <2>1, <2>6
<1> QED  BY <1>5

LEMMA TracksFinite ==
    ASSUME NEW ts, ts \subseteq Tracks
    PROVE  IsFiniteSet(ts)
  BY FS_Subset, DuplicateAssumption

\* TRACK_ORDER: the first of some tracks is one of them.
LEMMA FirstIs ==
    ASSUME NEW ts, ts \subseteq Tracks, ts # {}
    PROVE  First(ts) \in ts
<1> DEFINE R == {ss \in ts \X ts : TrackOrder[ss[1]] < TrackOrder[ss[2]]}
<1>1. \A t \in Tracks : TrackOrder[t] \in Nat
  BY DuplicateAssumption
<1>2. \A t, u \in ts : <<t, u>> \in R <=> TrackOrder[t] < TrackOrder[u]
  OBVIOUS
<1> HIDE DEF R
<1>3. PICK t \in ts : \A u \in ts : <<u, t>> \notin R
  <2>1. \A t \in ts : <<t, t>> \notin R
    BY <1>1, <1>2
  <2>2. \A t, u, v \in ts : <<t, u>> \in R /\ <<u, v>> \in R => <<t, v>> \in R
    BY <1>1, <1>2
  <2>3. IsFiniteSet(ts)
    BY TracksFinite
  <2> QED  BY <2>1, <2>2, <2>3, Least
<1>4. ASSUME NEW u \in ts PROVE TrackOrder[t] <= TrackOrder[u]
  <2>1. ~(TrackOrder[u] < TrackOrder[t])
    BY <1>2, <1>3
  <2>2. TrackOrder[t] \in Nat /\ TrackOrder[u] \in Nat
    BY <1>1
  <2> QED  BY <2>1, <2>2
<1> QED  BY <1>4 DEF First

Key == [1..4 -> Int]

\* Python compares tuples place by place.
LEMMA PrecedesIs ==
    ASSUME NEW k \in Key, NEW l \in Key
    PROVE  Precedes(k, l) <=>
              \/ k[1] < l[1]
              \/ k[1] = l[1] /\ k[2] < l[2]
              \/ k[1] = l[1] /\ k[2] = l[2] /\ k[3] < l[3]
              \/ k[1] = l[1] /\ k[2] = l[2] /\ k[3] = l[3] /\ k[4] < l[4]
<1>1. DOMAIN k = {1, 2, 3, 4}
  BY DEF Key
<1>2. 1..(1 - 1) = {} /\ 1..(2 - 1) = {1} /\ 1..(3 - 1) = {1, 2} /\ 1..(4 - 1) = {1, 2, 3}
  OBVIOUS
<1> QED  BY <1>1, <1>2 DEF Precedes

LEMMA KeysAreOrdered ==
    /\ \A k \in Key : ~Precedes(k, k)
    /\ \A k, l, m \in Key : Precedes(k, l) /\ Precedes(l, m) => Precedes(k, m)
    /\ \A k, l \in Key : k[4] # l[4] => Precedes(k, l) \/ Precedes(l, k)
<1>1. \A k \in Key : k[1] \in Int /\ k[2] \in Int /\ k[3] \in Int /\ k[4] \in Int
  BY DEF Key
<1> QED  BY <1>1, PrecedesIs

LEMMA RankKeyIs ==
    ASSUME NEW t \in Tracks, NEW version \in 1..MaxVersion
    PROVE  RankKey(t, version) \in Key /\ RankKey(t, version)[4] = TrackOrder[t]
<1> DEFINE facts == FactsOf[t][version]
<1>1. /\ facts \in [lossless : {"yes", "no", "unknown"}, bit_depth : Nat, sample_rate : Nat,
                    bitrate : Nat]
      /\ TrackOrder[t] \in Nat
  BY DuplicateAssumption
<1> HIDE DEF facts
<1>2. /\ -Unknown(facts.bit_depth) \in Int /\ -Unknown(facts.sample_rate) \in Int
      /\ -Unknown(facts.bitrate) \in Int
  BY <1>1 DEF Unknown
<1>3. RankKey(t, version) =
         CASE facts.lossless = "yes" ->
                 <<0, -Unknown(facts.bit_depth), -Unknown(facts.sample_rate), TrackOrder[t]>>
           [] facts.lossless = "no" ->
                 <<1, -Unknown(facts.bitrate), -Unknown(facts.sample_rate), TrackOrder[t]>>
           [] OTHER -> <<2, 0, 0, TrackOrder[t]>>
  BY DEF RankKey, facts
<1>4. \A a, b, c \in Int : <<a, b, c, TrackOrder[t]>> \in Key
                           /\ <<a, b, c, TrackOrder[t]>>[4] = TrackOrder[t]
  BY <1>1 DEF Key
<1> QED  BY <1>1, <1>2, <1>3, <1>4

\* Some copies whose facts are known have exactly one best, and it is one of them.
LEMMA BestIs ==
    ASSUME NEW members, members \subseteq Tracks, members # {}, NEW facts,
           \A t \in members : facts[t] \in 1..MaxVersion
    PROVE  /\ Best(members, facts) \in members
           /\ \A t \in members :
                 (\A u \in members \ {t} :
                     Precedes(RankKey(t, facts[t]), RankKey(u, facts[u])))
                 <=> t = Best(members, facts)
<1> DEFINE key(t) == RankKey(t, facts[t])
           R == {ss \in members \X members : Precedes(key(ss[1]), key(ss[2]))}
           wins(t) == \A u \in members \ {t} : Precedes(key(t), key(u))
<1>1. \A t \in members : key(t) \in Key /\ key(t)[4] = TrackOrder[t]
  BY RankKeyIs
<1>2. \A t, u \in members : <<t, u>> \in R <=> Precedes(key(t), key(u))
  OBVIOUS
<1>3. \A t, u \in members : t # u => key(t)[4] # key(u)[4]
  BY <1>1, DuplicateAssumption
<1> HIDE DEF R, key
<1>4. PICK t \in members : \A u \in members : <<u, t>> \notin R
  <2>1. \A u \in members : <<u, u>> \notin R
    BY <1>1, <1>2, KeysAreOrdered
  <2>2. \A u, v, w \in members : <<u, v>> \in R /\ <<v, w>> \in R => <<u, w>> \in R
    BY <1>1, <1>2, KeysAreOrdered
  <2>3. IsFiniteSet(members)
    BY TracksFinite
  <2> QED  BY <2>1, <2>2, <2>3, Least
<1>5. wins(t)
  BY <1>1, <1>2, <1>3, <1>4, KeysAreOrdered
<1>6. \A u, v \in members : wins(u) /\ wins(v) => u = v
  BY <1>1, KeysAreOrdered
<1>7. Best(members, facts) = CHOOSE u \in members : wins(u)
  BY DEF Best, key
<1> HIDE DEF wins
<1>8. Best(members, facts) \in members /\ wins(Best(members, facts))
  BY <1>5, <1>7
<1>9. \A u \in members : wins(u) <=> u = Best(members, facts)
  BY <1>6, <1>8
<1> QED  BY <1>8, <1>9 DEF wins, key
-----------------------------------------------------------------------------
(* Winners, and what they depend on.                                       *)

GroupOf(source, members, h) == {t \in members : SourceOf[t] = source /\ HashStored(t) = h}

LEMMA WinnersAre ==
    ASSUME NEW source, NEW members, members \subseteq Tracks, NEW facts,
           \A t \in members : facts[t] \in 1..MaxVersion
    PROVE  Winners(source, members, facts) \in Choice
<1>1. ASSUME NEW h \in Hashes
      PROVE  (IF Cardinality(GroupOf(source, members, h)) >= 2
              THEN Best(GroupOf(source, members, h), facts) ELSE NoTrack) \in Tracks \cup {NoTrack}
  <2> DEFINE mine == GroupOf(source, members, h)
  <2>1. mine \subseteq members
    BY DEF GroupOf
  <2> HIDE DEF mine
  <2>2. CASE Cardinality(mine) >= 2
    <3>1. mine # {}
      BY <2>2, FS_EmptySet
    <3>2. Best(mine, facts) \in mine
      BY <2>1, <3>1, BestIs
    <3> QED  BY <2>1, <2>2, <3>2 DEF mine
  <2>3. CASE ~(Cardinality(mine) >= 2)
    BY <2>3 DEF mine
  <2> QED  BY <2>2, <2>3
<1> QED  BY <1>1 DEF Winners, Choice, GroupOf

\* Only the tracks of each group and their facts decide.
LEMMA WinnersAgree ==
    ASSUME NEW source, NEW members, members \subseteq Tracks, NEW others, others \subseteq Tracks,
           NEW facts, NEW seen,
           \A t \in members : facts[t] = seen[t] /\ facts[t] \in 1..MaxVersion,
           \A h \in Hashes :
               \/ GroupOf(source, others, h) = GroupOf(source, members, h)
               \/ /\ Cardinality(GroupOf(source, others, h)) < 2
                  /\ Cardinality(GroupOf(source, members, h)) < 2
    PROVE  Winners(source, others, seen) = Winners(source, members, facts)
<1> DEFINE winner(ts, f, h) == IF Cardinality(GroupOf(source, ts, h)) >= 2
                               THEN Best(GroupOf(source, ts, h), f) ELSE NoTrack
<1>1. ASSUME NEW h \in Hashes PROVE winner(others, seen, h) = winner(members, facts, h)
  <2> DEFINE mine == GroupOf(source, members, h)
  <2>1. mine \subseteq members
    BY DEF GroupOf
  <2>2. IsFiniteSet(mine) /\ IsFiniteSet(GroupOf(source, others, h))
    BY <2>1, TracksFinite DEF GroupOf
  <2>3. Cardinality(mine) \in Nat /\ Cardinality(GroupOf(source, others, h)) \in Nat
    BY <2>2, FS_CardinalityType
  <2>4. CASE Cardinality(GroupOf(source, others, h)) < 2 /\ Cardinality(mine) < 2
    BY <2>3, <2>4
  <2>5. CASE GroupOf(source, others, h) = mine /\ Cardinality(mine) >= 2
    <3> HIDE DEF mine
    <3>1. mine # {}
      BY <2>5, FS_EmptySet
    <3>2. \A t \in mine : /\ facts[t] \in 1..MaxVersion /\ seen[t] \in 1..MaxVersion
                          /\ RankKey(t, facts[t]) = RankKey(t, seen[t])
      BY <2>1
    <3>3. Best(mine, facts) \in mine /\ Best(mine, seen) \in mine
      BY <2>1, <3>1, <3>2, BestIs
    <3>4. \A u \in mine \ {Best(mine, facts)} :
              Precedes(RankKey(Best(mine, facts), facts[Best(mine, facts)]), RankKey(u, facts[u]))
      BY <2>1, <3>1, <3>2, <3>3, BestIs
    <3>5. \A u \in mine \ {Best(mine, facts)} :
              Precedes(RankKey(Best(mine, facts), seen[Best(mine, facts)]), RankKey(u, seen[u]))
      BY <3>2, <3>3, <3>4
    <3>6. Best(mine, facts) = Best(mine, seen)
      BY <2>1, <3>1, <3>2, <3>3, <3>5, BestIs
    <3> QED  BY <2>5, <3>6 DEF mine
  <2>6. CASE GroupOf(source, others, h) = mine /\ ~(Cardinality(mine) >= 2)
    BY <2>6
  <2> QED  BY <2>3, <2>4, <2>5, <2>6
<1>2. Winners(source, others, seen) = [h \in Hashes |-> winner(others, seen, h)]
  BY DEF Winners, GroupOf
<1>3. Winners(source, members, facts) = [h \in Hashes |-> winner(members, facts, h)]
  BY DEF Winners, GroupOf
<1> HIDE DEF winner
<1> QED  BY <1>1, <1>2, <1>3

\* Winners stay while the hashes of the members do.
LEMMA WinnersStay ==
    ASSUME NEW source, NEW members, NEW facts,
           \A t \in members : fingerprint'[t] = fingerprint[t]
    PROVE  Winners(source, members, facts)' = Winners(source, members, facts)
<1>1. \A t \in members : HashStored(t)' = HashStored(t)
  BY DEF HashStored
<1>2. \A h \in Hashes : {t \in members : SourceOf[t] = source /\ HashStored(t)' = h}
                        = {t \in members : SourceOf[t] = source /\ HashStored(t) = h}
  BY <1>1
<1> QED  BY <1>2 DEF Winners
-----------------------------------------------------------------------------
(* Types.                                                                  *)

LEMMA NothingIs ==
    /\ 0 \in Version /\ 1 \in 1..MaxVersion /\ 1..MaxVersion \subseteq Version
    /\ Version \subseteq Nat
    /\ NoWork \in Work /\ Nothing \in Memory /\ NoRow \in Row /\ << >> \in Elections
    /\ \A t \in Tracks : Nothing[t] = 0
<1>1. MaxVersion \in Nat \ {0}
  BY DuplicateAssumption
<1>2. 0 \in Version /\ 1 \in 1..MaxVersion /\ 1..MaxVersion \subseteq Version /\ Version \subseteq Nat
  BY <1>1 DEF Version
<1>3. NoWork \in Work /\ Nothing \in Memory /\ NoRow \in Row
  BY <1>2 DEF NoWork, Work, Nothing, Memory, NoRow, Row
<1>4. << >> \in [{} -> Choice]
  OBVIOUS
<1>5. << >> \in Elections
  BY <1>4 DEF Elections
<1> QED  BY <1>2, <1>3, <1>5 DEF Nothing

LEMMA IdleIs ==
    /\ Idle \in Command
    /\ \A e \in Errors : [Idle EXCEPT !.pc = e] \in Command
  BY NothingIs, Zenon DEF Idle, Command, Pcs, Errors

LEMMA PresentTracksAre ==
    ASSUME Typed, NEW scope
    PROVE  /\ PresentTracks(scope) \in Memory
           /\ \A t \in Tracks : PresentTracks(scope)[t] \in {0, catalog[t]}
           /\ Listed(PresentTracks(scope)) \subseteq Tracks
  BY NothingIs DEF Typed, LibraryTypes, PresentTracks, Memory, Listed

LEMMA InitTyped == Init => Typed
<1> SUFFICES ASSUME Init PROVE Typed
  OBVIOUS
<1>1. LibraryTypes
  BY NothingIs DEF Init, LibraryTypes, SourceStates
<1>2. fingerprint \in [Tracks -> Row] /\ technical \in [Tracks -> Row]
  BY NothingIs DEF Init, Row, NoRow
<1>3. /\ attempts \in Seq(Attempt) /\ mastering \in [Tracks -> 0..Len(attempts)]
      /\ dj \in [Tracks -> 0..Len(attempts)]
  <2>1. attempts = << >> /\ attempts \in Seq(Attempt) /\ 0 \in 0..Len(attempts)
    BY DEF Init
  <2> QED  BY <2>1 DEF Init, Nothing
<1>4. selection \in [Sources -> Choice]
  BY DEF Init, Choice
<1>5. lock \in Procs \cup {NoProc} /\ cmd \in [Procs -> Command]
  BY IdleIs DEF Init
<1> QED  BY <1>1, <1>2, <1>3, <1>4, <1>5 DEF Typed, StoredTypes

\* The records of the commands, one step at a time.
LEMMA RecordStep ==
    ASSUME Typed, NEW p \in Procs, NEW record \in Command,
           cmd' = [cmd EXCEPT ![p] = record]
    PROVE  cmd' \in [Procs -> Command]
  BY DEF Typed

LEMMA StartsTyped ==
    ASSUME Typed, NEW p \in Procs,
           \/ \E request \in Requests : Begin(p, request)
           \/ \E scope \in Scopes : BeginMark(p, scope)
    PROVE  cmd' \in [Procs -> Command]
<1>1. /\ {source \in Sources : config[source] = "enabled"} \subseteq Sources
      /\ Configured \subseteq Sources
  BY DEF Configured
<1>2. ASSUME NEW request \in Requests, Begin(p, request) PROVE cmd' \in [Procs -> Command]
  <2> DEFINE record == [Idle EXCEPT !.pc = "select", !.roots = Configured, !.scope = request.scope,
                             !.mark = request.mark, !.mastering = request.mastering]
  <2>1. request.scope \in Sources \cup {AllSources} /\ request.mark \in BOOLEAN
        /\ request.mastering \in BOOLEAN
    BY DuplicateAssumption
  <2>2. record \in Command
    BY <1>1, <2>1, IdleIs DEF Command, Pcs
  <2>3. cmd' = [cmd EXCEPT ![p] = record]
    BY <1>2 DEF Begin, Start
  <2> HIDE DEF record
  <2> QED  BY <2>2, <2>3, RecordStep
<1>3. ASSUME NEW scope \in Scopes, BeginMark(p, scope) PROVE cmd' \in [Procs -> Command]
  <2> DEFINE record == [Idle EXCEPT !.pc = "present", !.scope = scope]
  <2>1. scope \in Sources \cup {AllSources}
    BY DuplicateAssumption
  <2>2. record \in Command
    BY <2>1, IdleIs DEF Command, Pcs
  <2>3. cmd' = [cmd EXCEPT ![p] = record]
    BY <1>3 DEF BeginMark, Start
  <2> HIDE DEF record
  <2> QED  BY <2>2, <2>3, RecordStep
<1> QED  BY <1>2, <1>3

LEMMA EndsTyped ==
    ASSUME Typed, NEW p \in Procs,
           \/ MissingFacts(p) \/ Return(p) \/ Abort(p)
           \/ \E t \in Tracks : MissingRoot(p, t) \/ StoreRefused(p, t)
    PROVE  cmd' \in [Procs -> Command]
<1>1. CASE Return(p)
  <2>1. cmd' = [cmd EXCEPT ![p] = Idle]
    BY <1>1 DEF Return
  <2> QED  BY <2>1, IdleIs, RecordStep
<1>2. CASE \E e \in Errors : Raise(p, e)
  <2>1. PICK e \in Errors : cmd' = [cmd EXCEPT ![p] = [Idle EXCEPT !.pc = e]]
    BY <1>2 DEF Raise
  <2>2. [Idle EXCEPT !.pc = e] \in Command
    BY IdleIs
  <2> QED  BY <2>1, <2>2, RecordStep
<1> QED  BY <1>1, <1>2 DEF MissingFacts, MissingRoot, StoreRefused, Abort, Errors

LEMMA ExtractionTyped ==
    ASSUME Typed, NEW p \in Procs,
           \/ Select(p) \/ Invalidate(p) \/ Groups(p) \/ RebuildDj(p)
           \/ \E t \in Tracks : \/ Fingerprint(p, t) \/ Probe(p, t) \/ Persist(p, t)
                                \/ Measure(p, t) \/ Store(p, t)
    PROVE  cmd' \in [Procs -> Command]
<1> DEFINE c == cmd[p]
<1>1. c \in Command /\ c.work \in [Tracks -> Work] /\ c.todo \in SUBSET Tracks
  BY DEF Typed, Command
<1>2. \A content, probed \in Version, step \in {"none", "probe", "ready"} :
          [step |-> step, content |-> content, probed |-> probed] \in Work
  BY DEF Work
<1>3. CASE Select(p)
  <2> DEFINE seen == PresentTracks(c.scope)
             todo == {t \in Listed(seen) : fingerprint[t].facts # seen[t]}
             record == [c EXCEPT !.pc = "extract", !.seen = seen, !.todo = todo]
  <2>1. seen \in Memory /\ todo \in SUBSET Tracks
    BY PresentTracksAre
  <2>2. cmd' = [cmd EXCEPT ![p] = record]
    BY <1>3 DEF Select, Local, Becomes
  <2> HIDE DEF c, seen, todo
  <2>3. record \in Command
    BY <1>1, <2>1 DEF Command, Pcs
  <2> HIDE DEF record
  <2> QED  BY <2>2, <2>3, RecordStep
<1>4. CASE Invalidate(p)
  <2>1. cmd' = [cmd EXCEPT ![p] = [c EXCEPT !.pc = "groups"]]
    BY <1>4 DEF Invalidate
  <2> HIDE DEF c
  <2>2. [c EXCEPT !.pc = "groups"] \in Command
    BY <1>1 DEF Command, Pcs
  <2> QED  BY <2>1, <2>2, RecordStep
<1>5. AfterMastering(c) \in Command
  <2> HIDE DEF c
  <2>1. c.mark \in BOOLEAN /\ c.failed \in BOOLEAN
    BY <1>1 DEF Command
  <2> QED  BY <1>1, <2>1 DEF AfterMastering, Command, Pcs
<1>6. CASE Groups(p)
  <2> DEFINE members == GroupMembers(c.scope)
             facts == [t \in Tracks |-> IF t \in members THEN catalog[t] ELSE 0]
             todo == {t \in members : ~Measured(t, facts[t])}
             record == [c EXCEPT !.pc = "measure", !.members = facts, !.todo = todo]
  <2>1. members \subseteq Tracks
    BY PresentTracksAre DEF GroupMembers, Current
  <2>2. facts \in Memory /\ todo \in SUBSET Tracks
    BY <2>1, NothingIs DEF Memory, Typed, LibraryTypes
  <2>3. \/ cmd' = [cmd EXCEPT ![p] = record]
        \/ cmd' = [cmd EXCEPT ![p] = AfterMastering(c)]
    BY <1>6 DEF Groups, Local, Becomes
  <2> HIDE DEF c, facts, todo
  <2>4. record \in Command
    BY <1>1, <2>2 DEF Command, Pcs
  <2> HIDE DEF record
  <2> QED  BY <1>5, <2>3, <2>4, RecordStep
<1>7. CASE RebuildDj(p)
  <2>1. cmd' = [cmd EXCEPT ![p] = AfterMastering(c)]
    BY <1>7 DEF RebuildDj
  <2> QED  BY <1>5, <2>1, RecordStep
<1>8. ASSUME NEW t \in Tracks, NEW work \in Work, Submit(p, t, work)
      PROVE  cmd' \in [Procs -> Command]
  <2> DEFINE works == [c.work EXCEPT ![t] = work]
             record == [c EXCEPT !.todo = c.todo \ {t}, !.work = works]
  <2>1. works \in [Tracks -> Work]
    BY <1>1
  <2>2. cmd' = [cmd EXCEPT ![p] = record]
    BY <1>8 DEF Submit, Becomes
  <2> HIDE DEF c, works
  <2>3. record \in Command
    BY <1>1, <2>1 DEF Command
  <2> HIDE DEF record
  <2> QED  BY <2>2, <2>3, RecordStep
<1>9. ASSUME NEW t \in Tracks, Fingerprint(p, t) PROVE cmd' \in [Procs -> Command]
  <2>1. PICK version \in Version :
            Submit(p, t, [NoWork EXCEPT !.step = IF version = 0 THEN "ready" ELSE "probe",
                                        !.content = version])
    BY <1>9 DEF Fingerprint
  <2>2. [NoWork EXCEPT !.step = IF version = 0 THEN "ready" ELSE "probe",
                       !.content = version] \in Work
    BY NothingIs DEF NoWork, Work
  <2> QED  BY <1>8, <2>1, <2>2
<1>10. ASSUME NEW t \in Tracks, Measure(p, t) PROVE cmd' \in [Procs -> Command]
  <2>1. PICK version \in Version :
            Submit(p, t, [NoWork EXCEPT !.step = "ready", !.content = version])
    BY <1>10 DEF Measure
  <2>2. [NoWork EXCEPT !.step = "ready", !.content = version] \in Work
    BY NothingIs DEF NoWork, Work
  <2> QED  BY <1>8, <2>1, <2>2
<1>11. ASSUME NEW t \in Tracks, Probe(p, t) PROVE cmd' \in [Procs -> Command]
  <2>1. PICK version \in Version :
            cmd' = [cmd EXCEPT ![p] = [c EXCEPT !.work[t].step = "ready",
                        !.work[t].probed = version, !.unprobed = @ \/ version = 0]]
    BY <1>11 DEF Probe, Becomes
  <2> DEFINE works == [c.work EXCEPT ![t] = [c.work[t] EXCEPT !.step = "ready", !.probed = version]]
             record == [c EXCEPT !.work = works, !.unprobed = c.unprobed \/ version = 0]
  <2>2. [c.work[t] EXCEPT !.step = "ready", !.probed = version] \in Work
    BY <1>1 DEF Work
  <2>3. works \in [Tracks -> Work]
    BY <1>1, <2>2
  <2>4. c.unprobed \in BOOLEAN
    BY <1>1 DEF Command
  <2>5. cmd' = [cmd EXCEPT ![p] = record]
    BY <1>1, <2>1
  <2> HIDE DEF c, works
  <2>6. record \in Command
    BY <1>1, <2>3, <2>4 DEF Command
  <2> HIDE DEF record
  <2> QED  BY <2>5, <2>6, RecordStep
<1>12. ASSUME NEW t \in Tracks, Persist(p, t) \/ Store(p, t) PROVE cmd' \in [Procs -> Command]
  <2> DEFINE works == [c.work EXCEPT ![t] = NoWork]
             persisted == [c EXCEPT !.work = works, !.failed = c.failed \/ c.work[t].content = 0]
             measured == [c EXCEPT !.work = works,
                                   !.unmeasured = c.unmeasured \/ ~(c.work[t].content # 0)]
  <2>1. works \in [Tracks -> Work]
    BY <1>1, NothingIs
  <2>2. c.failed \in BOOLEAN /\ c.unmeasured \in BOOLEAN
    BY <1>1 DEF Command
  <2>3. cmd' = [cmd EXCEPT ![p] = persisted] \/ cmd' = [cmd EXCEPT ![p] = measured]
    <3>1. CASE Persist(p, t)
      BY <3>1 DEF Persist
    <3>2. CASE Store(p, t)
      BY <3>2 DEF Store
    <3> QED  BY <1>12, <3>1, <3>2
  <2> HIDE DEF c, works
  <2>4. persisted \in Command
    BY <1>1, <2>1, <2>2 DEF Command
  <2>5. measured \in Command
    BY <1>1, <2>1, <2>2 DEF Command
  <2> HIDE DEF persisted, measured
  <2> QED  BY <2>3, <2>4, <2>5, RecordStep
<1> QED  BY <1>3, <1>4, <1>6, <1>7, <1>9, <1>10, <1>11, <1>12

LEMMA ListedIs ==
    ASSUME NEW memory \in Memory
    PROVE  /\ Listed(memory) \subseteq Tracks
           /\ \A t \in Listed(memory) : memory[t] \in 1..MaxVersion
  BY NothingIs, DuplicateAssumption DEF Memory, Listed, Version

LEMMA MarkingTyped ==
    ASSUME Typed, NEW p \in Procs,
           \/ ReadPresent(p) \/ Refuse(p) \/ Elect(p) \/ Commit(p)
           \/ \E t \in Tracks : ReadFacts(p, t)
    PROVE  cmd' \in [Procs -> Command]
<1> DEFINE c == cmd[p]
<1>1. /\ c \in Command /\ c.todo \in SUBSET Tracks /\ c.known \in Memory /\ c.listed \in Memory
      /\ c.scope \in Sources \cup {AllSources}
  BY DEF Typed, Command
<1>2. CASE ReadPresent(p)
  <2> DEFINE seen == PresentTracks(c.scope)
             record == [c EXCEPT !.pc = "facts", !.listed = seen, !.todo = Listed(seen)]
  <2>1. seen \in Memory /\ Listed(seen) \in SUBSET Tracks
    BY PresentTracksAre
  <2>2. cmd' = [cmd EXCEPT ![p] = record]
    BY <1>2 DEF ReadPresent, Local, Becomes
  <2> HIDE DEF c, seen
  <2>3. record \in Command
    BY <1>1, <2>1 DEF Command, Pcs
  <2> HIDE DEF record
  <2> QED  BY <2>2, <2>3, RecordStep
<1>3. ASSUME NEW t \in Tracks, ReadFacts(p, t) PROVE cmd' \in [Procs -> Command]
  <2> DEFINE version == IF {fingerprint[t].facts, technical[t].facts} = {c.listed[t]}
                        THEN technical[t].content ELSE 0
             known == [c.known EXCEPT ![t] = version]
             record == [c EXCEPT !.todo = c.todo \ {t}, !.known = known]
  <2>1. technical[t].content \in Version
    BY DEF Typed, StoredTypes, Row
  <2>2. known \in Memory
    BY <1>1, <2>1, NothingIs DEF Memory
  <2>3. cmd' = [cmd EXCEPT ![p] = record]
    <3>1. cmd' = [cmd EXCEPT ![p] = [c EXCEPT !.todo = @ \ {t}, !.known[t] = version]]
      BY <1>3 DEF ReadFacts, Local, Becomes
    <3> HIDE DEF version
    <3> QED  BY <1>1, <3>1
  <2> HIDE DEF c, known
  <2>4. record \in Command
    BY <1>1, <2>2 DEF Command
  <2> HIDE DEF record
  <2> QED  BY <2>3, <2>4, RecordStep
<1>4. Marked(c) \in Command
  <2> HIDE DEF c
  <2> QED  BY <1>1, NothingIs DEF Marked, Command, Pcs
<1>5. CASE Refuse(p)
  <2>1. cmd' = [cmd EXCEPT ![p] = Marked(c)]
    BY <1>5 DEF Refuse, Local, Becomes
  <2> QED  BY <1>4, <2>1, RecordStep
<1>6. CASE Commit(p)
  <2>1. cmd' = [cmd EXCEPT ![p] = Marked(c)]
    BY <1>6 DEF Commit
  <2> QED  BY <1>4, <2>1, RecordStep
<1>7. CASE Elect(p)
  <2> DEFINE marked == MarkedSources(c.scope, c.listed)
             chosen == [source \in marked |-> Winners(source, Ranked(p), c.known)]
             same == c.listed = PresentTracks(c.scope)
             record == [c EXCEPT !.pc = "commit", !.same = same, !.chosen = chosen]
  <2>1. marked \subseteq Sources
    <3>1. Listed(c.listed) \subseteq Tracks
      BY <1>1, ListedIs
    <3> QED  BY <1>1, <3>1, DuplicateAssumption DEF MarkedSources
  <2>2. Ranked(p) \subseteq Tracks /\ \A t \in Ranked(p) : c.known[t] \in 1..MaxVersion
    BY <1>1, <1>7, ListedIs DEF Elect
  <2>3. \A source \in marked : Winners(source, Ranked(p), c.known) \in Choice
    BY <2>2, WinnersAre
  <2>4. chosen \in [marked -> Choice]
    BY <2>3
  <2> HIDE DEF marked
  <2>5. cmd' = [cmd EXCEPT ![p] = record]
    BY <1>7 DEF Elect, Local, Becomes, marked
  <2>6. chosen \in Elections
    BY <2>1, <2>4 DEF Elections
  <2>7. same \in BOOLEAN
    OBVIOUS
  <2> HIDE DEF c, chosen, same
  <2>8. record \in Command
    BY <1>1, <2>6, <2>7 DEF Command, Pcs
  <2> HIDE DEF record
  <2> QED  BY <2>5, <2>8, RecordStep
<1> QED  BY <1>2, <1>3, <1>5, <1>6, <1>7

\* A step of a command, and one of the library around them.
CommandStep(p) ==
    \/ \E request \in Requests : Begin(p, request)
    \/ \E scope \in Scopes : BeginMark(p, scope)
    \/ Select(p) \/ Invalidate(p) \/ Groups(p) \/ RebuildDj(p)
    \/ ReadPresent(p) \/ Refuse(p) \/ Elect(p) \/ MissingFacts(p) \/ Commit(p)
    \/ Return(p) \/ Abort(p)
    \/ \E t \in Tracks :
        \/ Fingerprint(p, t) \/ MissingRoot(p, t) \/ Probe(p, t) \/ Persist(p, t)
        \/ Measure(p, t) \/ Store(p, t) \/ StoreRefused(p, t)
        \/ ReadFacts(p, t)

LibraryStep ==
    \/ \E t \in Tracks : EditFile(t) \/ MoveFile(t)
    \/ StartUp
    \/ \E source \in Sources :
        Scan(source) \/ \E state \in SourceStates : Reconfigure(source, state)

LEMMA NextIs == Next <=> LibraryStep \/ \E p \in Procs : CommandStep(p)
  BY DEF Next, CommandStep, LibraryStep

\* Five steps write to the tables.
LEMMA CommandStores ==
    ASSUME NEW p \in Procs, CommandStep(p)
    PROVE  \/ UNCHANGED stored
           \/ Invalidate(p) \/ RebuildDj(p) \/ Commit(p)
           \/ \E t \in Tracks : Persist(p, t) \/ Store(p, t)
<1>1. ASSUME \/ \E request \in Requests : Begin(p, request)
             \/ \E scope \in Scopes : BeginMark(p, scope)
             \/ Select(p) \/ Groups(p) \/ ReadPresent(p) \/ Refuse(p) \/ Elect(p)
             \/ MissingFacts(p) \/ Return(p) \/ Abort(p)
      PROVE  UNCHANGED stored
  BY <1>1 DEF Begin, BeginMark, Start, Select, Groups, ReadPresent, Refuse, Elect,
     MissingFacts, Return, Abort, Local, Becomes, Raise
<1>2. ASSUME NEW t \in Tracks,
             \/ Fingerprint(p, t) \/ MissingRoot(p, t) \/ Probe(p, t) \/ Measure(p, t)
             \/ StoreRefused(p, t) \/ ReadFacts(p, t)
      PROVE  UNCHANGED stored
  BY <1>2 DEF Fingerprint, MissingRoot, Probe, Measure, StoreRefused, ReadFacts, Submit,
     Local, Becomes, Raise
<1> QED  BY <1>1, <1>2 DEF CommandStep

LEMMA WhoStores ==
    ASSUME Next
    PROVE  \/ UNCHANGED stored
           \/ \E p \in Procs : \/ Invalidate(p) \/ RebuildDj(p) \/ Commit(p)
                               \/ \E t \in Tracks : Persist(p, t) \/ Store(p, t)
<1>1. LibraryStep => UNCHANGED stored
  BY DEF LibraryStep, EditFile, MoveFile, StartUp, Scan, Reconfigure
<1> QED  BY <1>1, CommandStores, NextIs

\* The tables.
LEMMA StoredTyped ==
    ASSUME Typed, Next
    PROVE  StoredTypes'
<1>1. StoredTypes /\ \A p \in Procs : cmd[p] \in Command
  BY DEF Typed
<1>2. CASE UNCHANGED stored
  BY <1>1, <1>2 DEF StoredTypes, stored, audioVars, masterVars
<1>3. ASSUME NEW p \in Procs, NEW t \in Tracks, Persist(p, t) PROVE StoredTypes'
  <2>1. /\ cmd[p].work[t] \in Work /\ cmd[p].seen[t] \in Version
    BY <1>1 DEF Command, Memory
  <2>2. \A version \in Version : FingerprintRow(cmd[p].seen[t], version) \in Row
                                 /\ TechnicalRow(cmd[p].seen[t], version) \in Row
    BY <2>1 DEF FingerprintRow, TechnicalRow, Row
  <2>3. cmd[p].work[t].content \in Version /\ cmd[p].work[t].probed \in Version
    BY <2>1 DEF Work
  <2>4. fingerprint' \in [Tracks -> Row] /\ technical' \in [Tracks -> Row]
    BY <1>1, <1>3, <2>2, <2>3 DEF Persist, StoredTypes
  <2>5. UNCHANGED <<masterVars, selection>>
    BY <1>3 DEF Persist
  <2> QED  BY <1>1, <2>4, <2>5 DEF StoredTypes, masterVars
<1>4. ASSUME NEW p \in Procs, Invalidate(p) PROVE StoredTypes'
  <2>1. selection' = [source \in Sources |-> [h \in Hashes |->
           LET t == selection[source][h] IN
           IF t # NoTrack /\ StillSupports(t, h) THEN t ELSE NoTrack]]
    BY <1>4 DEF Invalidate
  <2>2. \A source \in Sources, h \in Hashes : selection[source][h] \in Tracks \cup {NoTrack}
    BY <1>1 DEF StoredTypes, Choice
  <2>3. selection' \in [Sources -> Choice]
    BY <2>1, <2>2 DEF Choice
  <2>4. UNCHANGED <<audioVars, masterVars>>
    BY <1>4 DEF Invalidate
  <2> QED  BY <1>1, <2>3, <2>4 DEF StoredTypes, audioVars, masterVars
<1>5. ASSUME NEW p \in Procs, NEW t \in Tracks, Store(p, t) PROVE StoredTypes'
  <2> DEFINE ok == cmd[p].work[t].content # 0
             attempt == [track |-> t, facts |-> cmd[p].members[t], ok |-> ok]
  <2>1. cmd[p].members[t] \in Version
    BY <1>1 DEF Command, Memory
  <2>2. attempt \in Attempt
    BY <2>1 DEF Attempt
  <2>3. /\ attempts' = Append(attempts, attempt) /\ UNCHANGED <<audioVars, dj, selection>>
        /\ mastering' = IF ok THEN [mastering EXCEPT ![t] = Len(attempts) + 1] ELSE mastering
    BY <1>5 DEF Store
  <2> HIDE DEF attempt, ok
  <2>4. attempts' \in Seq(Attempt) /\ Len(attempts') = Len(attempts) + 1 /\ Len(attempts) \in Nat
    BY <1>1, <2>2, <2>3 DEF StoredTypes
  <2>5. mastering' \in [Tracks -> 0..Len(attempts')] /\ dj' \in [Tracks -> 0..Len(attempts')]
    BY <1>1, <2>3, <2>4 DEF StoredTypes
  <2> QED  BY <1>1, <2>3, <2>4, <2>5 DEF StoredTypes, audioVars
<1>6. ASSUME NEW p \in Procs, RebuildDj(p) PROVE StoredTypes'
  BY <1>1, <1>6 DEF RebuildDj, StoredTypes, audioVars
<1>7. ASSUME NEW p \in Procs, Commit(p) PROVE StoredTypes'
  <2>1. cmd[p].chosen \in Elections
    BY <1>1 DEF Command
  <2>2. PICK sources \in SUBSET Sources : cmd[p].chosen \in [sources -> Choice]
    BY <2>1 DEF Elections
  <2>3. selection' \in [Sources -> Choice] /\ UNCHANGED <<audioVars, masterVars>>
    BY <1>1, <1>7, <2>2 DEF Commit, StoredTypes
  <2> QED  BY <1>1, <2>3 DEF StoredTypes, audioVars, masterVars
<1> QED  BY <1>2, <1>3, <1>4, <1>5, <1>6, <1>7, WhoStores

\* No step of a command changes a file or the facts of the catalog.
LEMMA LibraryUntouched ==
    ASSUME NEW p \in Procs, CommandStep(p)
    PROVE  UNCHANGED <<disk, gone, config, catalog, present>> /\ enabled' \in {enabled, Upserted}
<1>1. CASE \/ \E request \in Requests : Begin(p, request)
           \/ \E scope \in Scopes : BeginMark(p, scope)
  BY <1>1 DEF Begin, BeginMark, Start, library
<1>2. CASE \/ Select(p) \/ Invalidate(p) \/ Groups(p) \/ RebuildDj(p)
           \/ ReadPresent(p) \/ Refuse(p) \/ Elect(p) \/ MissingFacts(p) \/ Commit(p)
           \/ Return(p) \/ Abort(p)
  BY <1>2 DEF Select, Invalidate, Groups, RebuildDj, ReadPresent, Refuse, Elect, MissingFacts,
     Commit, Return, Abort, Local, Becomes, Raise, environment, library, tracksVars
<1>3. ASSUME NEW t \in Tracks,
             \/ Fingerprint(p, t) \/ MissingRoot(p, t) \/ Probe(p, t) \/ Persist(p, t)
             \/ Measure(p, t) \/ Store(p, t) \/ StoreRefused(p, t) \/ ReadFacts(p, t)
      PROVE  UNCHANGED <<disk, gone, config, catalog, present, enabled>>
  BY <1>3 DEF Fingerprint, MissingRoot, Probe, Persist, Measure, Store, StoreRefused, ReadFacts,
     Submit, Local, Becomes, Raise, environment, library, tracksVars
<1> QED  BY <1>1, <1>2, <1>3 DEF CommandStep

\* A command takes the lock when it is free and gives back its own.
LEMMA LockSteps ==
    ASSUME NEW p \in Procs, CommandStep(p)
    PROVE  \/ lock' = lock
           \/ lock = NoProc /\ lock' = p
           \/ lock = p /\ lock' = NoProc
<1>1. CASE \/ \E request \in Requests : Begin(p, request)
           \/ \E scope \in Scopes : BeginMark(p, scope)
  BY <1>1 DEF Begin, BeginMark
<1>2. CASE \/ Select(p) \/ Invalidate(p) \/ Groups(p) \/ RebuildDj(p)
           \/ ReadPresent(p) \/ Refuse(p) \/ Elect(p) \/ MissingFacts(p) \/ Commit(p)
           \/ Return(p) \/ Abort(p)
  BY <1>2 DEF Select, Invalidate, Groups, RebuildDj, ReadPresent, Refuse, Elect, MissingFacts,
     Commit, Return, Abort, Local, Becomes, Raise
<1>3. ASSUME NEW t \in Tracks,
             \/ Fingerprint(p, t) \/ MissingRoot(p, t) \/ Probe(p, t) \/ Persist(p, t)
             \/ Measure(p, t) \/ Store(p, t) \/ StoreRefused(p, t) \/ ReadFacts(p, t)
      PROVE  lock' = lock \/ (lock = p /\ lock' = NoProc)
  BY <1>3 DEF Fingerprint, MissingRoot, Probe, Persist, Measure, Store, StoreRefused, ReadFacts,
     Submit, Local, Becomes, Raise
<1> QED  BY <1>1, <1>2, <1>3 DEF CommandStep

\* Files only get newer, and the catalog only catches up with them.
Grown ==
    /\ LibraryTypes'
    /\ \A t \in Tracks :
          catalog[t] <= catalog'[t] /\ disk[t] <= disk'[t] /\ catalog'[t] <= disk'[t]

LEMMA VersionsOnlyGrow ==
    ASSUME Typed, VersionsGrow, Next
    PROVE  Grown
<1>1. /\ LibraryTypes
      /\ \A t \in Tracks : catalog[t] \in Nat /\ disk[t] \in Nat /\ catalog[t] <= disk[t]
  BY NothingIs DEF Typed, LibraryTypes, VersionsGrow
<1>2. Upserted \subseteq Sources
  BY DEF Upserted
<1>3. CASE UNCHANGED <<disk, gone, config, catalog, present>> /\ enabled' \in {enabled, Upserted}
  BY <1>1, <1>2, <1>3 DEF LibraryTypes, Grown
<1>4. ASSUME NEW u \in Tracks, EditFile(u) PROVE Grown
  <2>1. /\ disk' = [disk EXCEPT ![u] = disk[u] + 1] /\ disk[u] < MaxVersion
        /\ UNCHANGED <<gone, config, catalog, present, enabled>>
    BY <1>4 DEF EditFile, tracksVars
  <2>2. disk[u] + 1 \in 1..MaxVersion
    <3>1. MaxVersion \in Nat /\ disk[u] \in Nat
      BY <1>1, DuplicateAssumption
    <3> QED  BY <2>1, <3>1
  <2> QED  BY <1>1, <2>1, <2>2 DEF LibraryTypes, Grown
<1>5. ASSUME NEW u \in Tracks, MoveFile(u) PROVE Grown
  BY <1>1, <1>5 DEF MoveFile, LibraryTypes, tracksVars, Grown
<1>6. ASSUME NEW source \in Sources, Scan(source) PROVE Grown
  <2>1. /\ \A u \in Tracks : catalog'[u] \in {catalog[u], disk[u]}
        /\ catalog' = [u \in Tracks |-> catalog'[u]]
        /\ present' \subseteq Tracks
    BY <1>1, <1>6 DEF Scan, LibraryTypes
  <2>2. UNCHANGED <<disk, gone, config, enabled>>
    BY <1>6 DEF Scan, library
  <2>3. catalog' \in [Tracks -> 1..MaxVersion]
    BY <1>1, <2>1 DEF LibraryTypes
  <2> QED  BY <1>1, <2>1, <2>2, <2>3 DEF LibraryTypes, Grown
<1>7. ASSUME NEW source \in Sources, NEW state \in SourceStates, Reconfigure(source, state)
      PROVE  Grown
  BY <1>1, <1>7 DEF Reconfigure, LibraryTypes, tracksVars, Grown
<1>8. CASE StartUp
  BY <1>1, <1>2, <1>8 DEF StartUp, LibraryTypes, library, Grown
<1> QED
  BY <1>3, <1>4, <1>5, <1>6, <1>7, <1>8, NextIs, LibraryUntouched DEF LibraryStep

LEMMA NextTyped ==
    ASSUME Typed, VersionsGrow, Next
    PROVE  Typed'
<1>1. LibraryTypes' /\ StoredTypes'
  BY VersionsOnlyGrow, StoredTyped DEF Grown
<1>2. lock' \in Procs \cup {NoProc}
  BY NextIs, LockSteps DEF LibraryStep, EditFile, MoveFile, StartUp, Scan, Reconfigure, Typed
<1>3. cmd' \in [Procs -> Command]
  <2>1. CASE LibraryStep
    BY <2>1 DEF LibraryStep, EditFile, MoveFile, StartUp, Scan, Reconfigure, Typed
  <2>2. ASSUME NEW p \in Procs, CommandStep(p) PROVE cmd' \in [Procs -> Command]
    <3>1. CASE \/ \E request \in Requests : Begin(p, request)
               \/ \E scope \in Scopes : BeginMark(p, scope)
      BY <3>1, StartsTyped
    <3>2. CASE \/ MissingFacts(p) \/ Return(p) \/ Abort(p)
               \/ \E t \in Tracks : MissingRoot(p, t) \/ StoreRefused(p, t)
      BY <3>2, EndsTyped
    <3>3. CASE \/ Select(p) \/ Invalidate(p) \/ Groups(p) \/ RebuildDj(p)
               \/ \E t \in Tracks : \/ Fingerprint(p, t) \/ Probe(p, t) \/ Persist(p, t)
                                    \/ Measure(p, t) \/ Store(p, t)
      BY <3>3, ExtractionTyped
    <3>4. CASE \/ ReadPresent(p) \/ Refuse(p) \/ Elect(p) \/ Commit(p)
               \/ \E t \in Tracks : ReadFacts(p, t)
      BY <3>4, MarkingTyped
    <3> QED  BY <2>2, <3>1, <3>2, <3>3, <3>4 DEF CommandStep
  <2> QED  BY <2>1, <2>2, NextIs
<1> QED  BY <1>1, <1>2, <1>3 DEF Typed

-----------------------------------------------------------------------------
(* The order of versions, and the projections of mastering.                *)

LEMMA NextGrows ==
    ASSUME Analysed, Next
    PROVE  VersionsGrow'
<1>1. Typed /\ VersionsGrow /\ Grown /\ LibraryTypes
  BY VersionsOnlyGrow DEF Analysed, Typed
<1>2. \A t \in Tracks :
          /\ catalog[t] \in Nat /\ disk[t] \in Nat /\ catalog'[t] \in Nat /\ disk'[t] \in Nat
          /\ fingerprint[t].facts \in Nat /\ fingerprint[t].content \in Nat
          /\ technical[t].facts \in Nat /\ technical[t].content \in Nat
  BY <1>1, NothingIs DEF Typed, LibraryTypes, StoredTypes, Row, Grown
<1>3. ASSUME NEW t \in Tracks, NEW row, row.facts \in Nat, row.content \in Nat, RowIsFresh(t, row)
      PROVE  row.facts <= row.content /\ row.content <= disk'[t] /\ row.facts <= catalog'[t]
  BY <1>1, <1>2, <1>3 DEF RowIsFresh, Grown
<1>4. CASE fingerprint' = fingerprint /\ technical' = technical
  BY <1>1, <1>2, <1>3, <1>4 DEF VersionsGrow, RowIsFresh, Grown
<1>5. ASSUME NEW p \in Procs, NEW t \in Tracks, Persist(p, t) PROVE VersionsGrow'
  <2> DEFINE work == cmd[p].work[t]
             facts == cmd[p].seen[t]
  <2>1. UNCHANGED <<disk, catalog>>
    BY <1>5, LibraryUntouched DEF CommandStep
  <2>2. facts \in Nat /\ work.content \in Nat /\ work.probed \in Nat
    <3>1. cmd[p].seen \in [Tracks -> Version] /\ cmd[p].work \in [Tracks -> Work]
      BY <1>1 DEF Typed, Command, Memory
    <3>2. facts \in Version /\ work \in Work
      BY <3>1
    <3> QED  BY <3>2, NothingIs DEF Work
  <2>3. /\ facts <= catalog[t]
        /\ work.content # 0 => facts <= work.content /\ work.content <= disk[t]
        /\ work.probed # 0 => facts <= work.probed /\ work.probed <= disk[t]
    BY DEF Analysed, Commanded, WorkIsFresh
  <2>4. /\ fingerprint' = IF work.content = 0 THEN fingerprint
                          ELSE [fingerprint EXCEPT ![t] = [facts |-> facts, content |-> work.content]]
        /\ technical' = IF work.probed = 0 THEN technical
                        ELSE [technical EXCEPT ![t] = [facts |-> facts, content |-> work.probed]]
    BY <1>5 DEF Persist, FingerprintRow, TechnicalRow
  <2> HIDE DEF work, facts
  <2>5. ASSUME NEW u \in Tracks
        PROVE  /\ fingerprint'[u] = fingerprint[u] \/ RowIsFresh(u, fingerprint'[u])
               /\ technical'[u] = technical[u] \/ RowIsFresh(u, technical'[u])
    BY <1>1, <2>2, <2>3, <2>4 DEF Typed, StoredTypes, RowIsFresh
  <2>6. \A u \in Tracks : RowIsFresh(u, fingerprint'[u]) /\ RowIsFresh(u, technical'[u])
    BY <1>1, <2>5 DEF VersionsGrow
  <2> QED  BY <1>1, <2>1, <2>6 DEF VersionsGrow, RowIsFresh
<1>6. CASE UNCHANGED audioVars
  BY <1>4, <1>6 DEF audioVars
<1>7. UNCHANGED audioVars \/ \E p \in Procs, t \in Tracks : Persist(p, t)
  BY WhoStores DEF stored, Invalidate, RebuildDj, Commit, Store
<1> QED  BY <1>5, <1>6, <1>7

OkAttempts(t) == {i \in DOMAIN attempts : attempts[i].track = t /\ attempts[i].ok}

LEMMA NextLatest ==
    ASSUME Typed, MasteringIsLatest, Next
    PROVE  MasteringIsLatest'
<1>1. CASE UNCHANGED masterVars
  BY <1>1 DEF MasteringIsLatest, masterVars
<1>2. ASSUME NEW p \in Procs, RebuildDj(p) PROVE MasteringIsLatest'
  BY <1>2 DEF MasteringIsLatest, RebuildDj
<1>3. ASSUME NEW p \in Procs, NEW t \in Tracks, Store(p, t) PROVE MasteringIsLatest'
  <2> DEFINE ok == cmd[p].work[t].content # 0
             id == Len(attempts) + 1
  <2>1. /\ attempts' = Append(attempts, [track |-> t, facts |-> cmd[p].members[t], ok |-> ok])
        /\ mastering' = IF ok THEN [mastering EXCEPT ![t] = id] ELSE mastering
        /\ dj' = dj /\ (ok => dj[t] = 0)
    BY <1>3 DEF Store
  <2>2. attempts \in Seq(Attempt) /\ Len(attempts) \in Nat /\ mastering \in [Tracks -> 0..Len(attempts)]
    BY DEF Typed, StoredTypes
  <2> HIDE DEF ok
  <2>3. /\ DOMAIN attempts' = 1..id /\ DOMAIN attempts = 1..Len(attempts)
        /\ attempts'[id].track = t /\ attempts'[id].ok = ok
        /\ \A i \in 1..Len(attempts) : attempts'[i] = attempts[i]
    BY <2>1, <2>2
  <2>4. ASSUME NEW u \in Tracks
        PROVE  /\ mastering'[u] = IF OkAttempts(u)' = {} THEN 0 ELSE Max(OkAttempts(u)')
               /\ dj'[u] \in {0, mastering'[u]}
    <3>1. mastering[u] = (IF OkAttempts(u) = {} THEN 0 ELSE Max(OkAttempts(u)))
          /\ dj[u] \in {0, mastering[u]}
      BY DEF MasteringIsLatest, OkAttempts
    <3>2. CASE u = t /\ ok
      <4>1. id \in OkAttempts(u)' /\ \A i \in OkAttempts(u)' : i \in Nat /\ id >= i
        <5>1. OkAttempts(u)' = {i \in 1..id : attempts'[i].track = u /\ attempts'[i].ok}
          BY <2>3 DEF OkAttempts
        <5>2. id \in 1..id /\ \A i \in 1..id : i \in Nat /\ id >= i
          BY <2>2
        <5> QED  BY <2>3, <3>2, <5>1, <5>2
      <4>2. Max(OkAttempts(u)') = id
        BY <2>2, <4>1 DEF Max
      <4> QED  BY <2>1, <2>2, <3>2, <4>1, <4>2
    <3>3. CASE ~(u = t /\ ok)
      <4>1. OkAttempts(u)' = OkAttempts(u)
        BY <2>2, <2>3, <3>3 DEF OkAttempts
      <4>2. mastering'[u] = mastering[u] /\ dj'[u] = dj[u]
        BY <2>1, <2>2, <3>3
      <4> QED  BY <3>1, <4>1, <4>2
    <3> QED  BY <3>2, <3>3
  <2> QED  BY <2>4 DEF MasteringIsLatest, OkAttempts
<1> QED  BY <1>1, <1>2, <1>3, WhoStores DEF stored, Invalidate, Commit, Persist

-----------------------------------------------------------------------------
(* What the steps of others may do to a command.                           *)

Kept(q) ==
    /\ cmd'[q] = cmd[q]
    /\ lock' = q <=> lock = q
    /\ Grown
    /\ lock = q => UNCHANGED <<fingerprint, attempts, mastering>>
    /\ \A t \in Tracks : \/ fingerprint'[t] = fingerprint[t] /\ technical'[t] = technical[t]
                         \/ fingerprint[t].facts < catalog[t]

\* Only a command in "extract" or "measure" is still at work on a track.
LEMMA Bounds ==
    ASSUME Typed, VersionsGrow
    PROVE  /\ \A t \in Tracks :
                 /\ catalog[t] \in Nat /\ disk[t] \in Nat /\ fingerprint[t].facts \in Nat
                 /\ catalog[t] # 0 /\ fingerprint[t].facts <= catalog[t]
           /\ \A p \in Procs, t \in Tracks :
                 /\ cmd[p].seen[t] \in Version /\ cmd[p].seen[t] \in Nat
                 /\ cmd[p].listed[t] \in Nat /\ cmd[p].known[t] \in Nat
                 /\ cmd[p].members[t] \in Nat /\ cmd[p].work[t] \in Work
                 /\ cmd[p].work[t].content \in Nat /\ cmd[p].work[t].probed \in Nat
<1>1. \A t \in Tracks :
          /\ catalog[t] \in Nat /\ disk[t] \in Nat /\ fingerprint[t].facts \in Nat
          /\ catalog[t] # 0 /\ fingerprint[t].facts <= catalog[t]
  <2>1. \A t \in Tracks : catalog[t] \in 1..MaxVersion /\ disk[t] \in 1..MaxVersion
                          /\ fingerprint[t] \in Row
    BY DEF Typed, LibraryTypes, StoredTypes
  <2> QED  BY <2>1, NothingIs DEF VersionsGrow, RowIsFresh, Row
<1>2. ASSUME NEW p \in Procs
      PROVE  /\ cmd[p].seen \in Memory /\ cmd[p].listed \in Memory /\ cmd[p].known \in Memory
             /\ cmd[p].members \in Memory /\ cmd[p].work \in [Tracks -> Work]
  BY DEF Typed, Command
<1>3. ASSUME NEW p \in Procs, NEW t \in Tracks
      PROVE  /\ cmd[p].seen[t] \in Version /\ cmd[p].seen[t] \in Nat
             /\ cmd[p].listed[t] \in Nat /\ cmd[p].known[t] \in Nat
             /\ cmd[p].members[t] \in Nat /\ cmd[p].work[t] \in Work
             /\ cmd[p].work[t].content \in Nat /\ cmd[p].work[t].probed \in Nat
  <2>1. /\ cmd[p].seen[t] \in Version /\ cmd[p].listed[t] \in Version
        /\ cmd[p].known[t] \in Version /\ cmd[p].members[t] \in Version /\ cmd[p].work[t] \in Work
    BY <1>2 DEF Memory
  <2>2. cmd[p].work[t].content \in Version /\ cmd[p].work[t].probed \in Version
    BY <2>1 DEF Work
  <2> QED  BY <2>1, <2>2, NothingIs
<1> QED  BY <1>1, <1>3

\* Who persists a row holds the lock, and the row is older than the catalog.
LEMMA PersistIsOfOlder ==
    ASSUME Analysed, NEW p \in Procs, NEW t \in Tracks, Persist(p, t)
    PROVE  /\ lock = p /\ fingerprint[t].facts < catalog[t]
           /\ fingerprint[t].facts < cmd[p].seen[t]
           /\ \A u \in Tracks \ {t} : fingerprint'[u] = fingerprint[u] /\ technical'[u] = technical[u]
<1>1. Typed /\ VersionsGrow /\ Ordered(p) /\ WorkIsFresh(p) /\ Extracting(p)
  BY DEF Analysed, Commanded
<1>2. cmd[p].pc = "extract" /\ cmd[p].work[t].step = "ready"
  BY DEF Persist, At
<1>3. lock = p /\ cmd[p].work[t] # NoWork
  BY <1>1, <1>2 DEF Ordered, Analysing, NoWork
<1>4. fingerprint[t].facts < cmd[p].seen[t] /\ cmd[p].seen[t] <= catalog[t]
  BY <1>1, <1>2, <1>3 DEF Extracting, Pending, WorkIsFresh
<1>5. \A u \in Tracks \ {t} : fingerprint'[u] = fingerprint[u] /\ technical'[u] = technical[u]
  BY <1>1 DEF Persist, Typed, StoredTypes
<1> QED  BY <1>1, <1>3, <1>4, <1>5, Bounds

LEMMA OthersAreKept ==
    ASSUME Analysed, Next, NEW q \in Procs
    PROVE  CommandStep(q) \/ Kept(q)
<1>1. Typed /\ VersionsGrow /\ Grown /\ q # NoProc
  BY VersionsOnlyGrow, DuplicateAssumption DEF Analysed
<1>2. CASE LibraryStep
  <2>1. UNCHANGED <<stored, lock, cmd>>
    BY <1>2 DEF LibraryStep, EditFile, MoveFile, StartUp, Scan, Reconfigure
  <2> QED  BY <1>1, <2>1 DEF Kept, stored, audioVars, masterVars
<1>3. ASSUME NEW p \in Procs \ {q}, CommandStep(p) PROVE Kept(q)
  <2>1. lock' = q <=> lock = q
    BY <1>1, <1>3, LockSteps
  <2>2. cmd'[q] = cmd[q]
    <3>1. CASE \/ \E request \in Requests : Begin(p, request)
               \/ \E scope \in Scopes : BeginMark(p, scope)
      BY <1>1, <3>1 DEF Begin, BeginMark, Start, Typed
    <3>2. CASE \/ Select(p) \/ Invalidate(p) \/ Groups(p) \/ RebuildDj(p)
               \/ ReadPresent(p) \/ Refuse(p) \/ Elect(p) \/ MissingFacts(p) \/ Commit(p)
               \/ Return(p) \/ Abort(p)
      BY <1>1, <3>2 DEF Select, Invalidate, Groups, RebuildDj, ReadPresent, Refuse, Elect,
         MissingFacts, Commit, Return, Abort, Local, Becomes, Raise, Typed
    <3>3. ASSUME NEW t \in Tracks,
                 \/ Fingerprint(p, t) \/ MissingRoot(p, t) \/ Probe(p, t) \/ Persist(p, t)
                 \/ Measure(p, t) \/ Store(p, t) \/ StoreRefused(p, t) \/ ReadFacts(p, t)
          PROVE  cmd'[q] = cmd[q]
      BY <1>1, <3>3 DEF Fingerprint, MissingRoot, Probe, Persist, Measure, Store, StoreRefused,
         ReadFacts, Submit, Local, Becomes, Raise, Typed
    <3> QED  BY <1>3, <3>1, <3>2, <3>3 DEF CommandStep
  <2>3. /\ lock = q => UNCHANGED <<fingerprint, attempts, mastering>>
        /\ \A t \in Tracks : \/ fingerprint'[t] = fingerprint[t] /\ technical'[t] = technical[t]
                             \/ fingerprint[t].facts < catalog[t]
    <3>1. CASE UNCHANGED stored
      BY <3>1 DEF stored, audioVars, masterVars
    <3>2. CASE Invalidate(p) \/ RebuildDj(p) \/ Commit(p)
      BY <3>2 DEF Invalidate, RebuildDj, Commit, audioVars, masterVars
    <3>3. ASSUME NEW t \in Tracks, Persist(p, t)
          PROVE  /\ lock = p /\ UNCHANGED <<attempts, mastering>>
                 /\ \A u \in Tracks : \/ fingerprint'[u] = fingerprint[u]
                                         /\ technical'[u] = technical[u]
                                      \/ fingerprint[u].facts < catalog[u]
      BY <3>3, PersistIsOfOlder DEF Persist, masterVars
    <3>4. ASSUME NEW t \in Tracks, Store(p, t)
          PROVE  lock = p /\ UNCHANGED audioVars
      BY <3>4 DEF Store, At, Analysed, Commanded, Ordered, Analysing
    <3> QED  BY <1>3, <3>1, <3>2, <3>3, <3>4, CommandStores DEF audioVars
  <2> QED  BY <1>1, <2>1, <2>2, <2>3 DEF Kept
<1> QED  BY <1>2, <1>3, NextIs

\* They leave true what a command relies on.
LEMMA KeptCommand ==
    ASSUME Typed, VersionsGrow, NEW q \in Procs, Commanded(q), Kept(q)
    PROVE  Commanded(q)'
<1>1. /\ cmd'[q] = cmd[q] /\ (lock' = q <=> lock = q)
      /\ lock = q => UNCHANGED <<fingerprint, attempts, mastering>>
      /\ \A t \in Tracks : /\ catalog[t] <= catalog'[t] /\ disk[t] <= disk'[t]
                           /\ catalog'[t] \in Nat /\ disk'[t] \in Nat
  BY NothingIs DEF Kept, Grown, LibraryTypes
<1>2. /\ Ordered(q) /\ WorkIsFresh(q) /\ Extracting(q) /\ Covered(q) /\ MembersMeasured(q)
      /\ Reading(q) /\ Elected(q)
  BY DEF Commanded
<1>3. Ordered(q)'
  BY <1>1, <1>2 DEF Ordered
<1>4. WorkIsFresh(q)'
  <2>1. ASSUME NEW t \in Tracks
        PROVE  /\ cmd[q].seen[t] <= catalog'[t] /\ cmd[q].listed[t] <= catalog'[t]
               /\ \A version \in {cmd[q].work[t].content, cmd[q].work[t].probed} :
                     version # 0 => cmd[q].seen[t] <= version /\ version <= disk'[t]
    <3>1. /\ cmd[q].seen[t] <= catalog[t] /\ cmd[q].listed[t] <= catalog[t]
          /\ \A version \in {cmd[q].work[t].content, cmd[q].work[t].probed} :
                version # 0 => cmd[q].seen[t] <= version /\ version <= disk[t]
      BY <1>2 DEF WorkIsFresh
    <3> QED  BY <1>1, <3>1, Bounds
  <2> QED  BY <1>1, <2>1 DEF WorkIsFresh
<1>5. Extracting(q)'
  BY <1>1, <1>2 DEF Extracting, Ordered, Analysing, Pending
<1>6. Covered(q)'
  BY <1>1, <1>2 DEF Covered, Pending
<1>7. MembersMeasured(q)'
  BY <1>1, <1>2 DEF MembersMeasured, Pending, Measured
<1>8. \A t \in Tracks : catalog'[t] = cmd[q].listed[t] => catalog[t] = cmd[q].listed[t]
  BY <1>1, <1>2, Bounds DEF WorkIsFresh
<1>9. \A t \in Tracks : cmd[q].known[t] # 0 /\ catalog[t] = cmd[q].listed[t] =>
          fingerprint'[t] = fingerprint[t] /\ technical'[t] = technical[t]
  BY <1>2, Bounds DEF Reading, Kept
<1>10. Reading(q)'
  BY <1>1, <1>2, <1>8, <1>9 DEF Reading
<1>11. Elected(q)'
  <2> SUFFICES ASSUME cmd[q].pc = "commit" PROVE Elected(q)'
    BY <1>1 DEF Elected
  <2>1. /\ Listed(cmd[q].known) = Listed(cmd[q].listed)
        /\ DOMAIN cmd[q].chosen = MarkedSources(cmd[q].scope, cmd[q].listed)
    BY <1>2 DEF Elected
  <2>2. ASSUME cmd[q].same, \A t \in Listed(cmd[q].listed) : catalog'[t] = cmd[q].listed[t],
               NEW source \in MarkedSources(cmd[q].scope, cmd[q].listed)
        PROVE  cmd[q].chosen[source] = Winners(source, Listed(cmd[q].listed), cmd[q].known)'
    <3>1. \A t \in Listed(cmd[q].listed) : t \in Tracks /\ cmd[q].known[t] # 0
      BY <2>1 DEF Listed
    <3>2. \A t \in Listed(cmd[q].listed) : catalog[t] = cmd[q].listed[t]
      BY <1>8, <2>2, <3>1
    <3>3. cmd[q].chosen[source] = Winners(source, Listed(cmd[q].listed), cmd[q].known)
      BY <1>2, <2>2, <3>2 DEF Elected
    <3>4. \A t \in Listed(cmd[q].listed) : fingerprint'[t] = fingerprint[t]
      BY <1>9, <3>1, <3>2
    <3>5. PICK c : c = cmd[q]
      OBVIOUS
    <3>6. Winners(source, Listed(c.listed), c.known)' = Winners(source, Listed(c.listed), c.known)
      BY <3>4, <3>5, WinnersStay
    <3>7. cmd'[q] = c
      BY <1>1, <3>5
    <3> QED  BY <3>3, <3>5, <3>6, <3>7 DEF Winners, HashStored
  <2> QED  BY <1>1, <2>1, <2>2 DEF Elected, MarkedSources, Listed
<1> QED  BY <1>3, <1>4, <1>5, <1>6, <1>7, <1>10, <1>11 DEF Commanded

-----------------------------------------------------------------------------
(* What a command's own steps do to it.                                    *)

Fresh(record) ==
    /\ record.work = [t \in Tracks |-> NoWork]
    /\ record.seen = Nothing /\ record.listed = Nothing
    /\ record.members = Nothing /\ record.known = Nothing

LEMMA IdleIsFresh ==
    /\ Fresh(Idle) /\ Idle.pc = "idle"
    /\ \A e \in Errors : Fresh([Idle EXCEPT !.pc = e]) /\ [Idle EXCEPT !.pc = e].pc = e
  BY DEF Fresh, Idle

\* A command that begins, ends or fails remembers nothing.
LEMMA FreshCommand ==
    ASSUME Typed, NEW p \in Procs, Fresh(cmd'[p]),
           LibraryTypes',
           \/ cmd'[p].pc = "select" /\ lock' = p
           \/ cmd'[p].pc \in {"idle", "present"} \cup Errors /\ lock' # p
    PROVE  Commanded(p)'
<1>1. /\ \A t \in Tracks : /\ cmd'[p].seen[t] = 0 /\ cmd'[p].listed[t] = 0
                           /\ cmd'[p].members[t] = 0 /\ cmd'[p].known[t] = 0
                           /\ cmd'[p].work[t] = NoWork
      /\ NoWork.content = 0 /\ NoWork.probed = 0
  BY NothingIs DEF Fresh, NoWork
<1>2. Ordered(p)'
  BY DEF Ordered, Fresh, Analysing, Errors
<1>3. WorkIsFresh(p)'
  <2>1. \A t \in Tracks : 0 <= catalog'[t]
    BY NothingIs DEF LibraryTypes
  <2> QED  BY <1>1, <2>1 DEF WorkIsFresh
<1>4. Extracting(p)' /\ Covered(p)' /\ MembersMeasured(p)' /\ Reading(p)'
  BY <1>1 DEF Extracting, Covered, MembersMeasured, Reading, Errors
<1>5. Elected(p)'
  BY DEF Elected, Errors
<1> QED  BY <1>2, <1>3, <1>4, <1>5 DEF Commanded

LEMMA OwnEnds ==
    ASSUME Analysed, Grown, NEW p \in Procs,
           \/ \E request \in Requests : Begin(p, request)
           \/ \E scope \in Scopes : BeginMark(p, scope)
           \/ MissingFacts(p) \/ Return(p) \/ Abort(p)
           \/ \E t \in Tracks : MissingRoot(p, t) \/ StoreRefused(p, t)
    PROVE  Commanded(p)'
<1>1. Typed /\ LibraryTypes' /\ p # NoProc /\ Ordered(p)
  BY DuplicateAssumption DEF Analysed, Grown, Commanded
<1>2. ASSUME NEW request \in Requests, Begin(p, request) PROVE Commanded(p)'
  <2> DEFINE record == [Idle EXCEPT !.pc = "select", !.roots = Configured, !.scope = request.scope,
                             !.mark = request.mark, !.mastering = request.mastering]
  <2>1. cmd'[p] = record /\ lock' = p
    BY <1>1, <1>2 DEF Begin, Start, Typed
  <2>2. Fresh(record) /\ record.pc = "select"
    BY DEF Fresh, Idle
  <2> HIDE DEF record
  <2> QED  BY <1>1, <2>1, <2>2, FreshCommand
<1>3. ASSUME NEW scope \in Scopes, BeginMark(p, scope) PROVE Commanded(p)'
  <2> DEFINE record == [Idle EXCEPT !.pc = "present", !.scope = scope]
  <2>1. cmd'[p] = record /\ lock' = lock /\ cmd[p].pc = "idle"
    BY <1>1, <1>3 DEF BeginMark, Start, At, Typed
  <2>2. Fresh(record) /\ record.pc = "present"
    BY DEF Fresh, Idle
  <2>3. lock' # p
    BY <1>1, <2>1 DEF Ordered
  <2> HIDE DEF record
  <2> QED  BY <1>1, <2>1, <2>2, <2>3, FreshCommand
<1>4. CASE Return(p)
  <2>1. cmd'[p] = Idle /\ lock' # p
    BY <1>1, <1>4 DEF Return, Typed
  <2> QED  BY <1>1, <2>1, IdleIsFresh, FreshCommand
<1>5. CASE \E e \in Errors : Raise(p, e)
  <2>1. PICK e \in Errors : cmd'[p] = [Idle EXCEPT !.pc = e] /\ lock' # p
    BY <1>1, <1>5 DEF Raise, Typed
  <2>2. Fresh(cmd'[p]) /\ cmd'[p].pc = e
    BY <2>1, IdleIsFresh
  <2> QED  BY <1>1, <2>1, <2>2, FreshCommand
<1> QED
  BY <1>2, <1>3, <1>4, <1>5 DEF MissingFacts, Abort, MissingRoot, StoreRefused, Errors

\* Marking leaves the analysis alone that it may be the end of ...
LEMMA MarkingKeepsAnalysis ==
    ASSUME Typed, NEW p \in Procs, Commanded(p),
           cmd[p].pc \in {"present", "facts", "commit"},
           cmd'[p].pc \in {"present", "facts", "commit", "return"},
           cmd'[p].seen = cmd[p].seen, cmd'[p].work = cmd[p].work,
           cmd'[p].members = cmd[p].members, cmd'[p].failed = cmd[p].failed,
           cmd'[p].unmeasured = cmd[p].unmeasured, UNCHANGED <<lock, catalog, disk>>,
           UNCHANGED <<fingerprint, attempts, mastering>>,
           cmd'[p].pc \notin {"facts", "commit"} => cmd'[p].known = Nothing,
           \A t \in Tracks : cmd'[p].listed[t] <= catalog[t],
           Reading(p)', Elected(p)'
    PROVE  Commanded(p)'
<1>1. Ordered(p)'
  BY DEF Commanded, Ordered, Analysing, Errors
<1>2. WorkIsFresh(p)'
  BY DEF Commanded, WorkIsFresh
<1>3. Extracting(p)'
  BY DEF Extracting
<1>4. Covered(p)'
  BY DEF Commanded, Covered
<1>5. MembersMeasured(p)'
  BY DEF Commanded, MembersMeasured, Measured
<1> QED  BY <1>1, <1>2, <1>3, <1>4, <1>5 DEF Commanded

\* ... and an analysis has nothing to do with a marking yet.
LEMMA AnalysisKeepsMarking ==
    ASSUME Typed, NEW p \in Procs, Commanded(p), cmd[p].pc \in Analysing,
           cmd'[p].pc \in Analysing \cup {"present", "return"}, cmd'[p].known = cmd[p].known
    PROVE  cmd'[p].known = Nothing /\ Reading(p)' /\ Elected(p)'
<1>1. cmd'[p].known = Nothing
  BY DEF Commanded, Ordered, Analysing
<1>2. Reading(p)'
  BY <1>1, NothingIs DEF Reading
<1>3. Elected(p)'
  BY DEF Elected, Analysing
<1> QED  BY <1>1, <1>2, <1>3

\* If the listed tracks are those of the scope and facts were read of each,
\* groups() joins exactly these, and the facts are the stored ones.
LEMMA ListedAreCurrent ==
    ASSUME Typed, NEW p \in Procs, Reading(p),
           Listed(cmd[p].known) = Listed(cmd[p].listed),
           cmd[p].listed = PresentTracks(cmd[p].scope)
    PROVE  /\ Current(cmd[p].scope) = Listed(cmd[p].listed)
           /\ \A t \in Listed(cmd[p].listed) :
                 /\ t \in Tracks /\ catalog[t] = cmd[p].listed[t]
                 /\ technical[t].content = cmd[p].known[t] /\ cmd[p].known[t] \in 1..MaxVersion
<1> DEFINE c == cmd[p]
           all == Listed(c.listed)
<1>1. c.known \in Memory /\ all \subseteq Tracks
  BY ListedIs DEF Typed, Command
<1>2. \A t \in all : c.known[t] \in 1..MaxVersion
  BY <1>1, ListedIs
<1>3. \A t \in all : c.known[t] # 0 /\ c.listed[t] = catalog[t]
  <2>1. \A t \in Tracks : c.listed[t] \in {0, catalog[t]}
    BY PresentTracksAre
  <2> QED  BY <2>1 DEF Listed
<1>4. \A t \in all : fingerprint[t].facts = catalog[t] /\ technical[t].content = c.known[t]
  BY <1>1, <1>3 DEF Reading
<1>5. Current(c.scope) = all
  BY <1>4 DEF Current
<1> QED  BY <1>1, <1>2, <1>3, <1>4, <1>5

\* If the listed tracks are those of the scope, all of them have a current
\* fingerprint, and the ranked members decide like all of them.
LEMMA RankedDecide ==
    ASSUME Analysed, NEW p \in Procs, CanElect(p), Ranked(p) \subseteq Listed(cmd[p].known),
           cmd[p].listed = PresentTracks(cmd[p].scope),
           NEW source \in MarkedSources(cmd[p].scope, cmd[p].listed)
    PROVE  Winners(source, Ranked(p), cmd[p].known)
               = Winners(source, Listed(cmd[p].listed), cmd[p].known)
<1> DEFINE c == cmd[p]
           all == Listed(c.listed)
<1>1. Typed /\ Reading(p)
  BY DEF Analysed, Commanded
<1>2. c.known \in Memory /\ c.listed \in Memory /\ Listed(c.known) = all
  BY <1>1 DEF Typed, Command, CanElect
<1>3. all \subseteq Tracks /\ \A t \in all : c.known[t] \in 1..MaxVersion
  BY <1>2, ListedIs
<1>5. Current(c.scope) = all
  BY <1>1, <1>2, ListedAreCurrent
<1>6. Ranked(p) \subseteq all
  BY <1>2
<1>7. ASSUME NEW h \in Hashes
      PROVE  \/ GroupOf(source, Ranked(p), h) = GroupOf(source, all, h)
             \/ /\ Cardinality(GroupOf(source, Ranked(p), h)) < 2
                /\ Cardinality(GroupOf(source, all, h)) < 2
  <2> DEFINE mine == GroupOf(source, all, h)
             few == GroupOf(source, Ranked(p), h)
  <2>1. few \subseteq mine /\ mine \subseteq Tracks
    BY <1>3, <1>6 DEF GroupOf
  <2> HIDE DEF mine, few
  <2>2. IsFiniteSet(mine) /\ IsFiniteSet(few)
    BY <2>1, TracksFinite
  <2>3. Cardinality(few) <= Cardinality(mine) /\ Cardinality(mine) \in Nat /\ Cardinality(few) \in Nat
    BY <2>1, <2>2, FS_Subset, FS_CardinalityType
  <2>4. CASE Cardinality(mine) >= 2
    <3>1. ASSUME NEW t \in mine PROVE t \in few
      <4>1. t \in all /\ SourceOf[t] = source /\ HashStored(t) = h
        BY <3>1 DEF mine, GroupOf
      <4>2. mine \subseteq Sharing(all, t) /\ Sharing(all, t) \subseteq Tracks
        BY <1>3, <4>1 DEF mine, GroupOf, Sharing
      <4>3. Cardinality(Sharing(all, t)) >= 2
        <5>1. IsFiniteSet(Sharing(all, t))
          BY <4>2, TracksFinite
        <5>2. Cardinality(mine) <= Cardinality(Sharing(all, t)) /\ Cardinality(Sharing(all, t)) \in Nat
          BY <4>2, <5>1, FS_Subset, FS_CardinalityType
        <5> QED  BY <2>3, <2>4, <5>2
      <4>4. t \in GroupMembers(c.scope)
        BY <1>5, <4>1, <4>3 DEF GroupMembers
      <4>5. \A u \in mine : u \in GroupMembers(c.scope)
        <5>1. ASSUME NEW u \in mine PROVE u \in GroupMembers(c.scope)
          <6>1. u \in all /\ HashStored(u) = HashStored(t)
            BY <4>1, <5>1 DEF mine, GroupOf
          <6>2. Sharing(all, u) = Sharing(all, t)
            BY <6>1 DEF Sharing
          <6> QED  BY <1>5, <4>3, <6>1, <6>2 DEF GroupMembers
        <5> QED  BY <5>1
      <4> DEFINE rivals == {u \in Sharing(GroupMembers(c.scope), t) : SourceOf[u] = SourceOf[t]}
      <4>6. rivals = mine
        <5>1. GroupMembers(c.scope) \subseteq all
          BY <1>5 DEF GroupMembers
        <5> QED  BY <4>1, <4>5, <5>1 DEF Sharing, mine, GroupOf
      <4>7. t \in Ranked(p)
        BY <2>4, <4>1, <4>4, <4>6 DEF Ranked
      <4> QED  BY <4>1, <4>7 DEF few, GroupOf
    <3> QED  BY <2>1, <3>1 DEF mine, few
  <2>5. CASE ~(Cardinality(mine) >= 2)
    BY <2>3, <2>5 DEF mine, few
  <2> QED  BY <2>4, <2>5
<1> HIDE DEF c, all
<1>8. Winners(source, Ranked(p), c.known) = Winners(source, all, c.known)
  BY <1>3, <1>6, <1>7, WinnersAgree
<1> QED  BY <1>8 DEF c, all

LEMMA OwnMarking ==
    ASSUME Analysed, NEW p \in Procs,
           \/ ReadPresent(p) \/ Refuse(p) \/ Elect(p) \/ Commit(p)
           \/ \E t \in Tracks : ReadFacts(p, t)
    PROVE  Commanded(p)'
<1> DEFINE c == cmd[p]
<1>1. /\ Typed /\ VersionsGrow /\ Commanded(p) /\ Ordered(p) /\ WorkIsFresh(p) /\ Reading(p)
      /\ c \in Command /\ c.known \in Memory
  BY DEF Analysed, Commanded, Typed, Command
<1>2. /\ UNCHANGED <<lock, catalog, disk>>
      /\ UNCHANGED <<fingerprint, technical, attempts, mastering>>
  BY DEF ReadPresent, Refuse, Elect, Commit, ReadFacts, Local, Becomes, environment, library,
     tracksVars, stored, audioVars, masterVars
<1>3. c.pc \in {"present", "facts", "commit"} /\ (c.pc = "present" => c.known = Nothing)
  BY <1>1 DEF ReadPresent, Refuse, Elect, CanElect, Commit, ReadFacts, At, Ordered, Errors
<1>4. \A t \in Tracks : c.listed[t] <= catalog[t] /\ 0 <= catalog[t]
  BY <1>1, Bounds DEF WorkIsFresh
<1>5. CASE ReadPresent(p)
  <2> DEFINE seen == PresentTracks(c.scope)
             record == [c EXCEPT !.pc = "facts", !.listed = seen, !.todo = Listed(seen)]
  <2>1. cmd'[p] = record /\ c.pc = "present"
    BY <1>1, <1>5 DEF ReadPresent, Local, Becomes, At, Typed
  <2>2. \A t \in Tracks : seen[t] <= catalog[t]
    <3>1. \A t \in Tracks : seen[t] \in {0, catalog[t]} /\ catalog[t] \in Nat
      BY <1>1, PresentTracksAre, Bounds
    <3> QED  BY <3>1
  <2> HIDE DEF c, seen
  <2>3. /\ cmd'[p].pc = "facts" /\ cmd'[p].listed = seen /\ cmd'[p].known = c.known
        /\ cmd'[p].seen = c.seen /\ cmd'[p].work = c.work /\ cmd'[p].members = c.members
        /\ cmd'[p].failed = c.failed /\ cmd'[p].unmeasured = c.unmeasured
    BY <1>1, <2>1 DEF Command
  <2> HIDE DEF record
  <2>4. Reading(p)'
    BY <1>3, <2>1, <2>3, NothingIs DEF Reading
  <2>5. Elected(p)'
    BY <2>3 DEF Elected
  <2> QED  BY <1>1, <1>2, <1>3, <2>2, <2>3, <2>4, <2>5, MarkingKeepsAnalysis DEF c
<1>6. ASSUME NEW t \in Tracks, ReadFacts(p, t) PROVE Commanded(p)'
  <2> DEFINE version == IF {fingerprint[t].facts, technical[t].facts} = {c.listed[t]}
                        THEN technical[t].content ELSE 0
             known == [c.known EXCEPT ![t] = version]
             record == [c EXCEPT !.todo = c.todo \ {t}, !.known = known]
  <2>1. cmd'[p] = record /\ c.pc = "facts"
    <3>1. cmd' = [cmd EXCEPT ![p] = [c EXCEPT !.todo = @ \ {t}, !.known[t] = version]]
      BY <1>6 DEF ReadFacts, Local, Becomes
    <3>2. c.pc = "facts"
      BY <1>6 DEF ReadFacts, At
    <3> HIDE DEF version
    <3>3. cmd'[p] = [c EXCEPT !.todo = @ \ {t}, !.known[t] = version]
      BY <1>1, <3>1 DEF Typed
    <3> QED  BY <1>1, <3>2, <3>3
  <2>2. version # 0 => /\ fingerprint[t].facts = c.listed[t] /\ technical[t].facts = c.listed[t]
                       /\ version = technical[t].content
    OBVIOUS
  <2> HIDE DEF c, version
  <2>3. /\ cmd'[p].pc = "facts" /\ cmd'[p].listed = c.listed /\ cmd'[p].known = known
        /\ cmd'[p].seen = c.seen /\ cmd'[p].work = c.work /\ cmd'[p].members = c.members
        /\ cmd'[p].failed = c.failed /\ cmd'[p].unmeasured = c.unmeasured
    BY <1>1, <2>1 DEF Command
  <2> HIDE DEF record
  <2>4. \A u \in Tracks : known[u] = IF u = t THEN version ELSE c.known[u]
    BY <1>1 DEF Memory
  <2> HIDE DEF known
  <2>5. Reading(p)'
    <3>1. ASSUME NEW u \in Tracks, known[u] # 0, catalog[u] = c.listed[u]
          PROVE  /\ fingerprint[u].facts = catalog[u] /\ technical[u].facts = catalog[u]
                 /\ technical[u].content = known[u]
      <4>1. CASE u = t
        BY <2>2, <2>4, <3>1, <4>1
      <4>2. CASE u # t
        BY <1>1, <2>4, <3>1, <4>2 DEF Reading, c
      <4> QED  BY <4>1, <4>2
    <3> QED  BY <1>2, <2>3, <3>1 DEF Reading
  <2>6. Elected(p)'
    BY <2>3 DEF Elected
  <2> QED  BY <1>1, <1>2, <1>3, <1>4, <2>3, <2>5, <2>6, MarkingKeepsAnalysis DEF c
<1>7. CASE Refuse(p) \/ Commit(p)
  <2>1. cmd'[p] = Marked(c)
    BY <1>1, <1>7 DEF Refuse, Commit, Local, Becomes, Typed
  <2> HIDE DEF c
  <2>2. /\ cmd'[p].pc = "return" /\ cmd'[p].listed = Nothing /\ cmd'[p].known = Nothing
        /\ cmd'[p].seen = c.seen /\ cmd'[p].work = c.work /\ cmd'[p].members = c.members
        /\ cmd'[p].failed = c.failed /\ cmd'[p].unmeasured = c.unmeasured
    BY <1>1, <2>1 DEF Marked, Command
  <2>3. Reading(p)' /\ Elected(p)' /\ \A t \in Tracks : cmd'[p].listed[t] <= catalog[t]
    BY <1>4, <2>2, NothingIs DEF Reading, Elected
  <2> QED  BY <1>1, <1>2, <1>3, <2>2, <2>3, MarkingKeepsAnalysis DEF c
<1>8. CASE Elect(p)
  <2> DEFINE marked == MarkedSources(c.scope, c.listed)
             chosen == [source \in marked |-> Winners(source, Ranked(p), c.known)]
             same == c.listed = PresentTracks(c.scope)
             record == [c EXCEPT !.pc = "commit", !.same = same, !.chosen = chosen]
  <2>1. cmd'[p] = record /\ CanElect(p) /\ Ranked(p) \subseteq Listed(c.known)
    BY <1>1, <1>8 DEF Elect, Local, Becomes, Typed
  <2>2. Listed(c.known) = Listed(c.listed) /\ DOMAIN chosen = marked
    BY <2>1 DEF CanElect
  <2>3. ASSUME same, NEW source \in marked
        PROVE  chosen[source] = Winners(source, Listed(c.listed), c.known)
    <3>1. chosen[source] = Winners(source, Ranked(p), c.known)
      OBVIOUS
    <3> QED  BY <2>1, <2>3, <3>1, RankedDecide
  <2> HIDE DEF c, chosen, same
  <2>4. /\ cmd'[p].pc = "commit" /\ cmd'[p].listed = c.listed /\ cmd'[p].known = c.known
        /\ cmd'[p].seen = c.seen /\ cmd'[p].work = c.work /\ cmd'[p].members = c.members
        /\ cmd'[p].failed = c.failed /\ cmd'[p].unmeasured = c.unmeasured
        /\ cmd'[p].scope = c.scope /\ cmd'[p].same = same /\ cmd'[p].chosen = chosen
    BY <1>1, <2>1 DEF Command
  <2> HIDE DEF record
  <2>5. Reading(p)'
    BY <1>1, <1>2, <2>4 DEF Reading, c
  <2>6. Elected(p)'
    <3>1. \A source \in marked : Winners(source, Listed(cmd[p].listed), cmd[p].known)'
                                     = Winners(source, Listed(c.listed), c.known)
      BY <1>2, <2>4 DEF Winners, HashStored, Listed
    <3> QED  BY <2>2, <2>3, <2>4, <3>1 DEF Elected, MarkedSources, Listed
  <2> QED  BY <1>1, <1>2, <1>3, <1>4, <2>4, <2>5, <2>6, MarkingKeepsAnalysis DEF c
<1> QED  BY <1>5, <1>6, <1>7, <1>8

\* Extracting and measuring: what such a step has to show.
LEMMA AnalysisStep ==
    ASSUME Typed, NEW p \in Procs, Commanded(p), cmd[p].pc \in Analysing,
           cmd'[p].pc \in (Analysing \ {"select"}) \cup {"present", "return"},
           UNCHANGED <<lock, catalog, disk>>,
           cmd'[p].known = cmd[p].known, cmd'[p].listed = cmd[p].listed,
           cmd'[p].pc \notin {"extract", "measure"} => cmd'[p].work = [t \in Tracks |-> NoWork],
           \A t \in Tracks :
              /\ cmd'[p].seen[t] <= catalog[t]
              /\ \A version \in {cmd'[p].work[t].content, cmd'[p].work[t].probed} :
                    version # 0 => cmd'[p].seen[t] <= version /\ version <= disk[t],
           Extracting(p)', Covered(p)', MembersMeasured(p)'
    PROVE  Commanded(p)'
<1>1. cmd'[p].known = Nothing /\ Reading(p)' /\ Elected(p)'
  BY AnalysisKeepsMarking
<1>2. Ordered(p)'
  BY <1>1 DEF Commanded, Ordered, Analysing, Errors
<1>3. WorkIsFresh(p)'
  BY DEF Commanded, WorkIsFresh
<1> QED  BY <1>1, <1>2, <1>3 DEF Commanded

LEMMA Submitted ==
    ASSUME Typed, NEW p \in Procs, NEW t \in Tracks, NEW work \in Work, Submit(p, t, work)
    PROVE  /\ UNCHANGED <<environment, stored, lock>>
           /\ cmd'[p].pc = cmd[p].pc /\ cmd'[p].todo = cmd[p].todo \ {t}
           /\ \A u \in Tracks : cmd'[p].work[u] = IF u = t THEN work ELSE cmd[p].work[u]
           /\ cmd'[p].seen = cmd[p].seen /\ cmd'[p].failed = cmd[p].failed
           /\ cmd'[p].members = cmd[p].members /\ cmd'[p].unmeasured = cmd[p].unmeasured
           /\ cmd'[p].known = cmd[p].known /\ cmd'[p].listed = cmd[p].listed
<1>1. PICK c : c = cmd[p]
  OBVIOUS
<1>2. c \in Command /\ c.work \in [Tracks -> Work]
  BY <1>1 DEF Typed, Command
<1>3. cmd'[p] = [c EXCEPT !.todo = @ \ {t}, !.work[t] = work]
  BY <1>1 DEF Submit, Becomes, Typed
<1>4. UNCHANGED <<environment, stored, lock>>
  BY DEF Submit, Becomes
<1> QED  BY <1>1, <1>2, <1>3, <1>4 DEF Command

LEMMA NothingAtWork ==
    ASSUME Typed, NEW p \in Procs, Working(p) = {}
    PROVE  cmd[p].work = [t \in Tracks |-> NoWork]
<1>1. cmd[p].work \in [Tracks -> Work]
  BY DEF Typed, Command
<1>2. \A t \in Tracks : cmd[p].work[t] = NoWork
  BY DEF Working
<1> QED  BY <1>1, <1>2

\* Extracting leaves what was measured before alone.
LEMMA ExtractionKeepsMembers ==
    ASSUME NEW p \in Procs, Commanded(p), cmd[p].pc \in {"select", "extract"},
           cmd'[p].members = cmd[p].members, cmd'[p].unmeasured = cmd[p].unmeasured,
           UNCHANGED <<lock, attempts, mastering>>
    PROVE  MembersMeasured(p)'
  BY DEF Commanded, MembersMeasured, Measured

LEMMA OwnExtraction ==
    ASSUME Analysed, NEW p \in Procs,
           \/ Select(p) \/ Invalidate(p)
           \/ \E t \in Tracks : Fingerprint(p, t) \/ Probe(p, t) \/ Persist(p, t)
    PROVE  Commanded(p)'
<1> DEFINE c == cmd[p]
<1>1. /\ Typed /\ VersionsGrow /\ Commanded(p) /\ Ordered(p) /\ WorkIsFresh(p)
      /\ Extracting(p) /\ Covered(p) /\ c \in Command
      /\ c.work \in [Tracks -> Work] /\ c.todo \subseteq Tracks
  BY DEF Analysed, Commanded, Typed, Command
<1>2. UNCHANGED <<lock, catalog, disk, attempts, mastering>>
  BY DEF Select, Invalidate, Fingerprint, Probe, Persist, Submit, Local, Becomes, environment,
     library, tracksVars, stored, masterVars
<1>3. c.pc \in {"select", "extract"} /\ lock = p /\ lock' = p
  BY <1>1, <1>2 DEF Select, Invalidate, Extracted, Fingerprint, Probe, Persist, At, Ordered,
     Analysing
<1>4. NoWork.content = 0 /\ NoWork.probed = 0 /\ NoWork.step = "none"
  BY DEF NoWork
<1>5. \A t \in Tracks :
          /\ c.seen[t] <= catalog[t] /\ catalog[t] <= disk[t]
          /\ c.seen[t] \in Nat /\ catalog[t] \in Nat /\ disk[t] \in Nat
          /\ \A version \in {c.work[t].content, c.work[t].probed} :
                version # 0 => c.seen[t] <= version /\ version <= disk[t]
  BY <1>1, Bounds DEF WorkIsFresh, VersionsGrow
<1>6. CASE Select(p)
  <2> DEFINE seen == PresentTracks(c.scope)
             todo == {t \in Listed(seen) : fingerprint[t].facts # seen[t]}
             record == [c EXCEPT !.pc = "extract", !.seen = seen, !.todo = todo]
  <2>1. cmd'[p] = record /\ c.pc = "select" /\ fingerprint' = fingerprint
    BY <1>1, <1>6 DEF Select, Local, Becomes, At, Typed, stored, audioVars
  <2>2. \A t \in Tracks : seen[t] \in {0, catalog[t]}
    BY <1>1, PresentTracksAre
  <2>3. \A t \in Tracks : t \in todo <=> seen[t] # 0 /\ fingerprint[t].facts # seen[t]
    BY DEF Listed
  <2>4. \A t \in Tracks : c.work[t] = NoWork
    BY <1>1, <2>1 DEF Ordered
  <2> HIDE DEF c, seen, todo
  <2>5. /\ cmd'[p].pc = "extract" /\ cmd'[p].seen = seen /\ cmd'[p].todo = todo
        /\ cmd'[p].work = c.work /\ cmd'[p].members = c.members /\ cmd'[p].known = c.known
        /\ cmd'[p].listed = c.listed /\ cmd'[p].unmeasured = c.unmeasured
    BY <1>1, <2>1 DEF Command
  <2> HIDE DEF record
  <2>6. Extracting(p)'
    <3>1. ASSUME NEW t \in Tracks, t \in todo PROVE fingerprint[t].facts < seen[t]
      BY <1>1, <2>2, <2>3, <3>1, Bounds
    <3> QED  BY <2>1, <2>4, <2>5, <3>1 DEF Extracting, Pending
  <2>7. Covered(p)'
    BY <2>1, <2>3, <2>5 DEF Covered, Pending
  <2>8. MembersMeasured(p)'
    BY <1>1, <1>2, <1>3, <2>5, ExtractionKeepsMembers DEF c
  <2>9. ASSUME NEW t \in Tracks
        PROVE  /\ cmd'[p].seen[t] <= catalog[t]
               /\ \A version \in {cmd'[p].work[t].content, cmd'[p].work[t].probed} : version = 0
    BY <1>4, <1>5, <2>2, <2>4, <2>5
  <2> QED  BY <1>1, <1>2, <1>3, <2>5, <2>6, <2>7, <2>8, <2>9, AnalysisStep DEF c, Analysing
<1>7. CASE Invalidate(p)
  <2> DEFINE record == [c EXCEPT !.pc = "groups"]
  <2>1. /\ cmd'[p] = record /\ c.pc = "extract" /\ c.todo = {} /\ Working(p) = {}
        /\ fingerprint' = fingerprint
    BY <1>1, <1>7 DEF Invalidate, Extracted, At, Typed, audioVars
  <2>2. c.work = [t \in Tracks |-> NoWork]
    BY <1>1, <2>1, NothingAtWork
  <2>3. /\ cmd'[p].pc = "groups" /\ cmd'[p].seen = c.seen /\ cmd'[p].failed = c.failed
        /\ cmd'[p].work = c.work /\ cmd'[p].members = c.members /\ cmd'[p].known = c.known
        /\ cmd'[p].listed = c.listed /\ cmd'[p].unmeasured = c.unmeasured
    BY <1>1, <2>1 DEF Command
  <2> HIDE DEF record
  <2>4. Extracting(p)'
    BY <2>3 DEF Extracting
  <2>5. Covered(p)'
    BY <1>1, <1>3, <2>1, <2>2, <2>3 DEF Covered, Pending
  <2>6. MembersMeasured(p)'
    BY <1>1, <1>2, <1>3, <2>3, ExtractionKeepsMembers
  <2> QED
    BY <1>1, <1>2, <1>3, <1>5, <2>2, <2>3, <2>4, <2>5, <2>6, AnalysisStep DEF Analysing
<1>8. ASSUME NEW t \in Tracks, Fingerprint(p, t) PROVE Commanded(p)'
  <2>1. PICK version \in Version, work \in Work :
            /\ Reads(t, version, t \notin gone) /\ Submit(p, t, work)
            /\ work.content = version /\ work.probed = 0 /\ work # NoWork
    <3>1. PICK version \in Version :
              /\ Reads(t, version, t \notin gone)
              /\ Submit(p, t, [NoWork EXCEPT !.step = IF version = 0 THEN "ready" ELSE "probe",
                                             !.content = version])
      BY <1>8 DEF Fingerprint
    <3> DEFINE work == [NoWork EXCEPT !.step = IF version = 0 THEN "ready" ELSE "probe",
                                      !.content = version]
    <3>2. work \in Work /\ work.content = version /\ work.probed = 0 /\ work # NoWork
      BY NothingIs DEF NoWork, Work
    <3> QED  BY <3>1, <3>2
  <2>3. c.pc = "extract" /\ t \in c.todo
    <3>1. c.pc = "extract" /\ c.todo # {} /\ t = First(c.todo)
      BY <1>8 DEF Fingerprint, At
    <3> QED  BY <1>1, <3>1, FirstIs
  <2>4. fingerprint' = fingerprint
    BY <1>1, <2>1, Submitted DEF stored, audioVars
  <2>5. version \in {0, disk[t]}
    BY <2>1 DEF Reads
  <2>6. /\ cmd'[p].pc = c.pc /\ cmd'[p].todo = c.todo \ {t}
        /\ \A u \in Tracks : cmd'[p].work[u] = IF u = t THEN work ELSE c.work[u]
        /\ cmd'[p].seen = c.seen /\ cmd'[p].failed = c.failed
        /\ cmd'[p].members = c.members /\ cmd'[p].unmeasured = c.unmeasured
        /\ cmd'[p].known = c.known /\ cmd'[p].listed = c.listed
    BY <1>1, <2>1, Submitted
  <2>7. Extracting(p)'
    BY <1>1, <2>3, <2>4, <2>6 DEF Extracting, Pending
  <2>8. Covered(p)'
    BY <1>1, <1>3, <2>1, <2>3, <2>4, <2>6 DEF Covered, Pending
  <2>9. MembersMeasured(p)'
    BY <1>1, <1>2, <1>3, <2>6, ExtractionKeepsMembers
  <2>10. ASSUME NEW u \in Tracks
         PROVE  \A v \in {cmd'[p].work[u].content, cmd'[p].work[u].probed} :
                    v # 0 => cmd'[p].seen[u] <= v /\ v <= disk[u]
    <3>1. CASE u = t
      BY <1>5, <2>1, <2>5, <2>6, <3>1
    <3>2. CASE u # t
      BY <1>5, <2>6, <3>2
    <3> QED  BY <3>1, <3>2
  <2> QED
    BY <1>1, <1>2, <1>3, <1>5, <2>3, <2>6, <2>7, <2>8, <2>9, <2>10, AnalysisStep DEF Analysing
<1>9. ASSUME NEW t \in Tracks, Probe(p, t) PROVE Commanded(p)'
  <2>1. PICK version \in Version :
            /\ Reads(t, version, t \notin gone)
            /\ Becomes(p, [c EXCEPT !.work[t].step = "ready", !.work[t].probed = version,
                                    !.unprobed = @ \/ version = 0])
    BY <1>9 DEF Probe
  <2> DEFINE work == [c.work[t] EXCEPT !.step = "ready", !.probed = version]
             works == [c.work EXCEPT ![t] = work]
             record == [c EXCEPT !.work = works, !.unprobed = c.unprobed \/ version = 0]
  <2>2. c.pc = "extract" /\ c.work[t].step = "probe" /\ c.work[t] \in Work
    BY <1>1, <1>9 DEF Probe, At
  <2>3. /\ work.content = c.work[t].content /\ work.probed = version /\ work.step = "ready"
        /\ work # NoWork /\ c.work[t] # NoWork
    BY <1>4, <2>2 DEF Work
  <2> HIDE DEF work
  <2>4. cmd'[p] = record /\ fingerprint' = fingerprint
    BY <1>1, <2>1 DEF Becomes, Typed, work, stored, audioVars
  <2>5. version \in {0, disk[t]}
    BY <2>1 DEF Reads
  <2>6. \A u \in Tracks : works[u] = IF u = t THEN work ELSE c.work[u]
    BY <1>1
  <2> HIDE DEF c, works
  <2>7. /\ cmd'[p].pc = "extract" /\ cmd'[p].seen = c.seen /\ cmd'[p].failed = c.failed
        /\ cmd'[p].work = works /\ cmd'[p].members = c.members /\ cmd'[p].known = c.known
        /\ cmd'[p].listed = c.listed /\ cmd'[p].unmeasured = c.unmeasured
        /\ cmd'[p].todo = c.todo
    BY <1>1, <2>2, <2>4 DEF Command
  <2> HIDE DEF record
  <2>8. Extracting(p)'
    BY <1>1, <2>2, <2>3, <2>4, <2>6, <2>7 DEF Extracting, Pending, c
  <2>9. Covered(p)'
    BY <1>1, <1>3, <2>2, <2>3, <2>4, <2>6, <2>7 DEF Covered, Pending, c
  <2>10. MembersMeasured(p)'
    BY <1>1, <1>2, <1>3, <2>7, ExtractionKeepsMembers DEF c
  <2>11. ASSUME NEW u \in Tracks
         PROVE  \A v \in {cmd'[p].work[u].content, cmd'[p].work[u].probed} :
                    v # 0 => cmd'[p].seen[u] <= v /\ v <= disk[u]
    <3>1. CASE u = t
      BY <1>5, <2>3, <2>5, <2>6, <2>7, <3>1
    <3>2. CASE u # t
      BY <1>5, <2>6, <2>7, <3>2
    <3> QED  BY <3>1, <3>2
  <2> QED
    BY <1>1, <1>2, <1>3, <1>5, <2>2, <2>7, <2>8, <2>9, <2>10, <2>11, AnalysisStep DEF c, Analysing
<1>10. ASSUME NEW t \in Tracks, Persist(p, t) PROVE Commanded(p)'
  <2> DEFINE works == [c.work EXCEPT ![t] = NoWork]
             record == [c EXCEPT !.work = works, !.failed = c.failed \/ c.work[t].content = 0]
  <2>1. cmd'[p] = record /\ c.pc = "extract" /\ c.work[t].step = "ready"
    BY <1>1, <1>10 DEF Persist, At, Typed
  <2>2. /\ fingerprint[t].facts < c.seen[t]
        /\ \A u \in Tracks \ {t} : fingerprint'[u] = fingerprint[u]
        /\ c.work[t].content # 0 => fingerprint'[t].facts = c.seen[t]
    <3>1. c.work[t].content # 0 => fingerprint'[t].facts = c.seen[t]
      BY <1>1, <1>10 DEF Persist, FingerprintRow, Typed, StoredTypes
    <3> QED  BY <1>10, <3>1, PersistIsOfOlder
  <2>3. \A u \in Tracks : works[u] = IF u = t THEN NoWork ELSE c.work[u]
    BY <1>1
  <2>4. c.work[t] # NoWork /\ t \notin c.todo
    BY <1>1, <1>4, <2>1 DEF Extracting
  <2> HIDE DEF c, works
  <2>5. /\ cmd'[p].pc = "extract" /\ cmd'[p].seen = c.seen
        /\ cmd'[p].failed = (c.failed \/ c.work[t].content = 0)
        /\ cmd'[p].work = works /\ cmd'[p].members = c.members /\ cmd'[p].known = c.known
        /\ cmd'[p].listed = c.listed /\ cmd'[p].unmeasured = c.unmeasured
        /\ cmd'[p].todo = c.todo
    BY <1>1, <2>1 DEF Command
  <2> HIDE DEF record
  <2>6. Extracting(p)'
    <3>1. ASSUME NEW u \in Tracks
          PROVE  /\ u \in c.todo \/ works[u] # NoWork => fingerprint'[u].facts < c.seen[u]
                 /\ u \in c.todo => works[u] = NoWork
      <4>1. CASE u = t
        BY <2>3, <2>4, <4>1
      <4>2. CASE u # t
        BY <1>1, <2>1, <2>2, <2>3, <4>2 DEF Extracting, Pending, c
      <4> QED  BY <4>1, <4>2
    <3> QED  BY <2>5, <3>1 DEF Extracting, Pending
  <2>7. Covered(p)'
    <3>1. ASSUME ~cmd'[p].failed, NEW u \in Tracks, c.seen[u] # 0
          PROVE  fingerprint'[u].facts = c.seen[u] \/ u \in c.todo \/ works[u] # NoWork
      <4>1. CASE u = t
        BY <2>2, <2>5, <3>1, <4>1
      <4>2. CASE u # t
        BY <1>1, <1>3, <2>1, <2>2, <2>3, <2>5, <3>1, <4>2 DEF Covered, Pending, c
      <4> QED  BY <4>1, <4>2
    <3> QED  BY <2>5, <3>1 DEF Covered, Pending
  <2>8. MembersMeasured(p)'
    BY <1>1, <1>2, <1>3, <2>5, ExtractionKeepsMembers DEF c
  <2>9. \A u \in Tracks : \A v \in {cmd'[p].work[u].content, cmd'[p].work[u].probed} :
            v # 0 => cmd'[p].seen[u] <= v /\ v <= disk[u]
    BY <1>4, <1>5, <2>3, <2>5
  <2> QED
    BY <1>1, <1>2, <1>3, <1>5, <2>1, <2>5, <2>6, <2>7, <2>8, <2>9, AnalysisStep DEF c, Analysing
<1> QED  BY <1>6, <1>7, <1>8, <1>9, <1>10

\* Measuring leaves what was extracted before alone.
LEMMA MeasuringKeepsFingerprints ==
    ASSUME NEW p \in Procs, Commanded(p), cmd[p].pc \in {"groups", "measure"},
           cmd'[p].pc \in {"measure", "present", "return"},
           cmd'[p].seen = cmd[p].seen, cmd'[p].failed = cmd[p].failed,
           UNCHANGED <<lock, fingerprint>>
    PROVE  Extracting(p)' /\ Covered(p)'
<1>1. Extracting(p)'
  BY DEF Extracting
<1>2. Covered(p)'
  BY DEF Commanded, Covered
<1> QED  BY <1>1, <1>2

LEMMA AfterMasteringIs ==
    ASSUME NEW c \in Command
    PROVE  LET after == AfterMastering(c) IN
           /\ after.pc \in {"present", "return"} /\ after.seen = c.seen
           /\ after.failed = c.failed /\ after.work = c.work /\ after.members = c.members
           /\ after.unmeasured = c.unmeasured /\ after.known = c.known /\ after.listed = c.listed
  BY DEF AfterMastering, Command

LEMMA OwnMeasuring ==
    ASSUME Analysed, NEW p \in Procs,
           \/ Groups(p) \/ RebuildDj(p)
           \/ \E t \in Tracks : Measure(p, t) \/ Store(p, t)
    PROVE  Commanded(p)'
<1> DEFINE c == cmd[p]
<1>1. /\ Typed /\ VersionsGrow /\ Commanded(p) /\ Ordered(p) /\ WorkIsFresh(p)
      /\ MembersMeasured(p) /\ c \in Command
      /\ c.work \in [Tracks -> Work] /\ c.todo \subseteq Tracks
  BY DEF Analysed, Commanded, Typed, Command
<1>2. UNCHANGED <<lock, catalog, disk, fingerprint>>
  BY DEF Groups, RebuildDj, Measure, Store, Submit, Local, Becomes, environment,
     library, tracksVars, stored, audioVars
<1>3. c.pc \in {"groups", "measure"} /\ lock = p /\ lock' = p
  BY <1>1, <1>2 DEF Groups, RebuildDj, Measure, Store, At, Ordered, Analysing
<1>4. NoWork.content = 0 /\ NoWork.probed = 0 /\ NoWork.step = "none"
  BY DEF NoWork
<1>5. \A t \in Tracks :
          /\ c.seen[t] <= catalog[t] /\ catalog[t] <= disk[t]
          /\ c.seen[t] \in Nat /\ catalog[t] \in Nat /\ disk[t] \in Nat
          /\ \A version \in {c.work[t].content, c.work[t].probed} :
                version # 0 => c.seen[t] <= version /\ version <= disk[t]
  BY <1>1, Bounds DEF WorkIsFresh, VersionsGrow
<1>6. ASSUME cmd'[p] = AfterMastering(c), c.work = [t \in Tracks |-> NoWork],
             UNCHANGED <<attempts, mastering>>, c.pc = "measure" => c.todo = {}
      PROVE  Commanded(p)'
  <2>1. /\ cmd'[p].pc \in {"present", "return"} /\ cmd'[p].seen = c.seen
        /\ cmd'[p].failed = c.failed /\ cmd'[p].work = c.work /\ cmd'[p].members = c.members
        /\ cmd'[p].unmeasured = c.unmeasured /\ cmd'[p].known = c.known
        /\ cmd'[p].listed = c.listed
    BY <1>1, <1>6, AfterMasteringIs
  <2>2. Extracting(p)' /\ Covered(p)'
    BY <1>1, <1>2, <1>3, <2>1, MeasuringKeepsFingerprints
  <2>3. MembersMeasured(p)'
    BY <1>1, <1>3, <1>6, <2>1 DEF MembersMeasured, Measured, Pending
  <2> QED  BY <1>1, <1>2, <1>3, <1>5, <1>6, <2>1, <2>2, <2>3, AnalysisStep DEF Analysing
<1>7. CASE Groups(p)
  <2> DEFINE members == GroupMembers(c.scope)
             facts == [t \in Tracks |-> IF t \in members THEN catalog[t] ELSE 0]
             todo == {t \in members : ~Measured(t, facts[t])}
             record == [c EXCEPT !.pc = "measure", !.members = facts, !.todo = todo]
  <2>1. /\ UNCHANGED <<attempts, mastering>> /\ c.pc = "groups"
        /\ cmd'[p] = record \/ cmd'[p] = AfterMastering(c)
    BY <1>1, <1>7 DEF Groups, Local, Becomes, At, Typed, stored, masterVars
  <2>2. c.work = [t \in Tracks |-> NoWork]
    BY <1>1, <2>1 DEF Ordered
  <2>3. CASE cmd'[p] = record
    <3>1. members \subseteq Tracks
      BY <1>1, PresentTracksAre DEF GroupMembers, Current
    <3>2. \A t \in Tracks : facts[t] # 0 => Measured(t, facts[t]) \/ t \in todo
      BY <3>1
    <3> HIDE DEF c, facts, todo
    <3>3. /\ cmd'[p].pc = "measure" /\ cmd'[p].seen = c.seen /\ cmd'[p].failed = c.failed
          /\ cmd'[p].work = c.work /\ cmd'[p].members = facts /\ cmd'[p].todo = todo
          /\ cmd'[p].known = c.known /\ cmd'[p].listed = c.listed
      BY <1>1, <2>3 DEF Command
    <3>4. Extracting(p)' /\ Covered(p)'
      BY <1>1, <1>2, <1>3, <3>3, MeasuringKeepsFingerprints DEF c
    <3>5. MembersMeasured(p)'
      BY <2>1, <3>2, <3>3 DEF MembersMeasured, Measured, Pending
    <3> QED
      BY <1>1, <1>2, <1>3, <1>5, <2>2, <3>3, <3>4, <3>5, AnalysisStep DEF Analysing, c
  <2>4. CASE cmd'[p] = AfterMastering(c)
    BY <1>6, <2>1, <2>2, <2>4
  <2> QED  BY <2>1, <2>3, <2>4
<1>8. CASE RebuildDj(p)
  <2>1. cmd'[p] = AfterMastering(c) /\ UNCHANGED <<attempts, mastering>>
    BY <1>1, <1>8 DEF RebuildDj, Typed
  <2>2. c.todo = {} /\ Working(p) = {}
    BY <1>8 DEF RebuildDj
  <2>3. c.work = [t \in Tracks |-> NoWork]
    BY <1>1, <2>2, NothingAtWork
  <2> QED  BY <1>6, <2>1, <2>2, <2>3
<1>9. ASSUME NEW t \in Tracks, Measure(p, t) PROVE Commanded(p)'
  <2>1. PICK version \in Version, work \in Work :
            /\ Reads(t, version, t \notin gone /\ SourceOf[t] \in c.roots) /\ Submit(p, t, work)
            /\ work.content = version /\ work.probed = 0 /\ work # NoWork
    <3>1. PICK version \in Version :
              /\ Reads(t, version, t \notin gone /\ SourceOf[t] \in c.roots)
              /\ Submit(p, t, [NoWork EXCEPT !.step = "ready", !.content = version])
      BY <1>9 DEF Measure
    <3> DEFINE work == [NoWork EXCEPT !.step = "ready", !.content = version]
    <3>2. work \in Work /\ work.content = version /\ work.probed = 0 /\ work # NoWork
      BY NothingIs DEF NoWork, Work
    <3> QED  BY <3>1, <3>2
  <2>2. c.pc = "measure"
    BY <1>9 DEF Measure, At
  <2>3. UNCHANGED <<attempts, mastering>>
    BY <1>1, <2>1, Submitted DEF stored, masterVars
  <2>4. version \in {0, disk[t]}
    BY <2>1 DEF Reads
  <2>5. /\ cmd'[p].pc = c.pc /\ cmd'[p].todo = c.todo \ {t}
        /\ \A u \in Tracks : cmd'[p].work[u] = IF u = t THEN work ELSE c.work[u]
        /\ cmd'[p].seen = c.seen /\ cmd'[p].failed = c.failed
        /\ cmd'[p].members = c.members /\ cmd'[p].unmeasured = c.unmeasured
        /\ cmd'[p].known = c.known /\ cmd'[p].listed = c.listed
    BY <1>1, <2>1, Submitted
  <2>6. Extracting(p)' /\ Covered(p)'
    BY <1>1, <1>2, <1>3, <2>2, <2>5, MeasuringKeepsFingerprints
  <2>7. MembersMeasured(p)'
    BY <1>1, <1>3, <2>1, <2>2, <2>3, <2>5 DEF MembersMeasured, Measured, Pending
  <2>8. ASSUME NEW u \in Tracks
        PROVE  \A v \in {cmd'[p].work[u].content, cmd'[p].work[u].probed} :
                   v # 0 => cmd'[p].seen[u] <= v /\ v <= disk[u]
    <3>1. CASE u = t
      BY <1>5, <2>1, <2>4, <2>5, <3>1
    <3>2. CASE u # t
      BY <1>5, <2>5, <3>2
    <3> QED  BY <3>1, <3>2
  <2> QED
    BY <1>1, <1>2, <1>3, <1>5, <2>2, <2>5, <2>6, <2>7, <2>8, AnalysisStep DEF Analysing
<1>10. ASSUME NEW t \in Tracks, Store(p, t) PROVE Commanded(p)'
  <2> DEFINE ok == c.work[t].content # 0
             id == Len(attempts) + 1
             works == [c.work EXCEPT ![t] = NoWork]
             record == [c EXCEPT !.work = works, !.unmeasured = c.unmeasured \/ ~ok]
  <2>1. /\ cmd'[p] = record /\ c.pc = "measure"
        /\ attempts' = Append(attempts, [track |-> t, facts |-> c.members[t], ok |-> ok])
        /\ mastering' = IF ok THEN [mastering EXCEPT ![t] = id] ELSE mastering
    BY <1>1, <1>10 DEF Store, At, Typed
  <2>2. /\ attempts \in Seq(Attempt) /\ Len(attempts) \in Nat
        /\ mastering \in [Tracks -> 0..Len(attempts)]
    BY <1>1 DEF Typed, StoredTypes
  <2>3. \A u \in Tracks : works[u] = IF u = t THEN NoWork ELSE c.work[u]
    BY <1>1
  <2> HIDE DEF c, works, ok
  <2>4. /\ attempts'[id].facts = c.members[t]
        /\ \A i \in 1..Len(attempts) : attempts'[i] = attempts[i]
    BY <2>1, <2>2
  <2>5. /\ \A u \in Tracks \ {t} : mastering'[u] = mastering[u]
        /\ ok => mastering'[t] = id
        /\ \A u \in Tracks : mastering[u] \in 0..Len(attempts)
    BY <2>1, <2>2
  <2>6. /\ cmd'[p].pc = "measure" /\ cmd'[p].seen = c.seen /\ cmd'[p].failed = c.failed
        /\ cmd'[p].work = works /\ cmd'[p].members = c.members /\ cmd'[p].todo = c.todo
        /\ cmd'[p].known = c.known /\ cmd'[p].listed = c.listed
        /\ cmd'[p].unmeasured = (c.unmeasured \/ ~ok)
    BY <1>1, <2>1 DEF Command
  <2> HIDE DEF record
  <2>7. Extracting(p)' /\ Covered(p)'
    BY <1>1, <1>2, <1>3, <2>6, MeasuringKeepsFingerprints DEF c
  <2>8. ASSUME NEW u \in Tracks \ {t}, Measured(u, c.members[u])
        PROVE  Measured(u, c.members[u])'
    <3>1. mastering'[u] = mastering[u] /\ mastering[u] \in 1..Len(attempts)
      BY <2>2, <2>5, <2>8 DEF Measured
    <3>2. attempts'[mastering[u]].facts = c.members[u]
      BY <2>4, <2>8, <3>1 DEF Measured
    <3> QED  BY <2>6, <3>1, <3>2 DEF Measured, c
  <2>9. MembersMeasured(p)'
    <3>1. ASSUME ~cmd'[p].unmeasured, NEW u \in Tracks, c.members[u] # 0
          PROVE  \/ mastering'[u] # 0 /\ attempts'[mastering'[u]].facts = c.members[u]
                 \/ u \in c.todo \/ works[u] # NoWork
      <4>1. CASE u = t
        <5>1. ok
          BY <2>6, <3>1, Zenon
        <5>2. mastering'[t] = id /\ id # 0 /\ attempts'[id].facts = c.members[t]
          BY <2>2, <2>4, <2>5, <5>1
        <5> QED  BY <4>1, <5>2
      <4>2. CASE u # t
        <5>1. Measured(u, c.members[u]) \/ u \in c.todo \/ c.work[u] # NoWork
          BY <1>1, <1>3, <2>6, <3>1 DEF MembersMeasured, Pending, c
        <5> QED  BY <2>3, <2>6, <2>8, <4>2, <5>1 DEF Measured, c
      <4> QED  BY <4>1, <4>2
    <3> QED  BY <2>6, <3>1 DEF MembersMeasured, Pending, Measured
  <2>10. \A u \in Tracks : \A v \in {cmd'[p].work[u].content, cmd'[p].work[u].probed} :
             v # 0 => cmd'[p].seen[u] <= v /\ v <= disk[u]
    BY <1>4, <1>5, <2>3, <2>6
  <2> QED
    BY <1>1, <1>2, <1>3, <1>5, <2>6, <2>7, <2>9, <2>10, AnalysisStep DEF c, Analysing
<1> QED  BY <1>7, <1>8, <1>9, <1>10

-----------------------------------------------------------------------------
(* The invariant.                                                          *)

LEMMA InitAnalysed == Init => Analysed
<1> SUFFICES ASSUME Init PROVE Analysed
  OBVIOUS
<1>1. Typed
  BY InitTyped
<1>2. VersionsGrow
  BY NothingIs DEF Init, VersionsGrow, RowIsFresh, NoRow
<1>3. MasteringIsLatest
  <2>1. \A t \in Tracks : {i \in DOMAIN attempts : attempts[i].track = t /\ attempts[i].ok} = {}
    BY DEF Init
  <2>2. \A t \in Tracks : mastering[t] = 0 /\ dj[t] = 0
    BY NothingIs DEF Init
  <2> QED  BY <2>1, <2>2 DEF MasteringIsLatest
<1>4. ASSUME NEW p \in Procs PROVE Commanded(p)
  <2>1. cmd[p] = Idle /\ lock # p
    BY DuplicateAssumption DEF Init
  <2>2. Fresh(cmd[p]) /\ cmd[p].pc = "idle"
    BY <2>1, IdleIsFresh
  <2>3. /\ \A t \in Tracks : /\ cmd[p].seen[t] = 0 /\ cmd[p].listed[t] = 0
                             /\ cmd[p].members[t] = 0 /\ cmd[p].known[t] = 0
                             /\ cmd[p].work[t] = NoWork
        /\ NoWork.content = 0 /\ NoWork.probed = 0
    BY <2>2, NothingIs DEF Fresh, NoWork
  <2>4. Ordered(p)
    BY <2>1, <2>2 DEF Ordered, Fresh, Analysing
  <2>5. WorkIsFresh(p)
    <3>1. \A t \in Tracks : 0 <= catalog[t]
      BY <1>1, Bounds, <1>2
    <3> QED  BY <2>3, <3>1 DEF WorkIsFresh
  <2>6. Extracting(p) /\ Covered(p) /\ MembersMeasured(p) /\ Reading(p) /\ Elected(p)
    BY <2>1, <2>2, <2>3 DEF Extracting, Covered, MembersMeasured, Reading, Elected
  <2> QED  BY <2>4, <2>5, <2>6 DEF Commanded
<1> QED  BY <1>1, <1>2, <1>3, <1>4 DEF Analysed

\* The own steps of a command.
LEMMA OwnSteps ==
    ASSUME Analysed, Grown, NEW p \in Procs, CommandStep(p)
    PROVE  Commanded(p)'
<1>1. CASE \/ \E request \in Requests : Begin(p, request)
           \/ \E scope \in Scopes : BeginMark(p, scope)
           \/ MissingFacts(p) \/ Return(p) \/ Abort(p)
           \/ \E t \in Tracks : MissingRoot(p, t) \/ StoreRefused(p, t)
  BY <1>1, OwnEnds
<1>2. CASE \/ Select(p) \/ Invalidate(p)
           \/ \E t \in Tracks : Fingerprint(p, t) \/ Probe(p, t) \/ Persist(p, t)
  BY <1>2, OwnExtraction
<1>3. CASE \/ Groups(p) \/ RebuildDj(p)
           \/ \E t \in Tracks : Measure(p, t) \/ Store(p, t)
  BY <1>3, OwnMeasuring
<1>4. CASE \/ ReadPresent(p) \/ Refuse(p) \/ Elect(p) \/ Commit(p)
           \/ \E t \in Tracks : ReadFacts(p, t)
  BY <1>4, OwnMarking
<1> QED  BY <1>1, <1>2, <1>3, <1>4 DEF CommandStep

LEMMA NextAnalysed ==
    ASSUME Analysed, Next
    PROVE  Analysed'
<1>1. Typed /\ VersionsGrow /\ MasteringIsLatest /\ \A p \in Procs : Commanded(p)
  BY DEF Analysed
<1>2. Typed' /\ VersionsGrow' /\ MasteringIsLatest' /\ Grown
  BY <1>1, NextTyped, NextGrows, NextLatest, VersionsOnlyGrow
<1>3. ASSUME NEW p \in Procs PROVE Commanded(p)'
  <2>1. CommandStep(p) \/ Kept(p)
    BY OthersAreKept
  <2> QED  BY <1>1, <1>2, <2>1, KeptCommand, OwnSteps
<1> QED  BY <1>2, <1>3 DEF Analysed

LEMMA StutterAnalysed ==
    ASSUME Analysed, UNCHANGED vars
    PROVE  Analysed'
<1>1. UNCHANGED <<library, tracksVars, audioVars, masterVars, selection, lock, cmd>>
  BY DEF vars, environment, stored
<1>2. Typed' /\ VersionsGrow' /\ MasteringIsLatest'
  BY <1>1 DEF Analysed, Typed, LibraryTypes, StoredTypes, VersionsGrow, RowIsFresh,
     MasteringIsLatest, library, tracksVars, audioVars, masterVars
<1>3. ASSUME NEW p \in Procs PROVE Commanded(p)'
  <2>1. Kept(p)
    <3>1. LibraryTypes' /\ \A t \in Tracks : catalog[t] \in Nat /\ disk[t] \in Nat
                                             /\ catalog[t] <= disk[t]
      BY <1>2, Bounds DEF Analysed, Typed, VersionsGrow
    <3> QED  BY <1>1, <3>1 DEF Kept, Grown, library, tracksVars, audioVars, masterVars
  <2> QED  BY <2>1, KeptCommand DEF Analysed
<1> QED  BY <1>2, <1>3 DEF Analysed

LEMMA AlwaysAnalysed == Spec => []Analysed
<1>1. Analysed /\ [Next]_vars => Analysed'
  BY NextAnalysed, StutterAnalysed
<1> QED  BY <1>1, InitAnalysed, PTL DEF Spec

-----------------------------------------------------------------------------
(* The theorems.                                                           *)

\* upsert_fingerprint and upsert_facts never pair the facts of one version of a
\* file with what a tool read of an older one, and if the facts are those of the
\* file on disk the row is exact, whatever was edited or scanned meanwhile.
THEOREM RowsFresh == Spec => []StoredRowsAreFresh
<1>1. Analysed => StoredRowsAreFresh
  <2> SUFFICES ASSUME Analysed PROVE StoredRowsAreFresh
    OBVIOUS
  <2>1. Typed /\ VersionsGrow
    BY DEF Analysed
  <2>2. TypeOK
    <3>1. \A p \in Procs :
              /\ cmd[p].pc \in Pcs
              /\ {cmd[p].seen, cmd[p].listed, cmd[p].members, cmd[p].known} \subseteq Memory
              /\ cmd[p].todo \subseteq Tracks
              /\ cmd[p].work \in [Tracks -> Work]
      BY <2>1 DEF Typed, Command
    <3> QED  BY <2>1, <3>1 DEF TypeOK, Typed, LibraryTypes, StoredTypes, Memory, Choice
  <2>3. RowsAreFresh
    <3>1. \A t \in Tracks : /\ disk[t] \in Nat /\ fingerprint[t] \in Row /\ technical[t] \in Row
                            /\ RowIsFresh(t, fingerprint[t]) /\ RowIsFresh(t, technical[t])
      BY <2>1, Bounds DEF Typed, StoredTypes, VersionsGrow
    <3>2. ASSUME NEW t \in Tracks, NEW row \in Row, RowIsFresh(t, row)
          PROVE  row.facts <= row.content /\ (row.facts = disk[t] => row.content = disk[t])
      <4>1. row.facts \in Nat /\ row.content \in Nat
        BY NothingIs DEF Row
      <4> QED  BY <3>1, <3>2, <4>1 DEF RowIsFresh
    <3> QED  BY <3>1, <3>2 DEF RowsAreFresh
  <2> QED  BY <2>2, <2>3 DEF StoredRowsAreFresh
<1> QED  BY <1>1, AlwaysAnalysed, PTL

\* current_mastering_analysis shows the last successful measurement of each track
\* and current_dj_analysis that row or none, whatever fails, is measured again,
\* is killed or is rebuilt in between.
THEOREM MasteringLatest == Spec => []MasteringIsLatest
<1>1. Analysed => MasteringIsLatest
  BY DEF Analysed
<1> QED  BY <1>1, AlwaysAnalysed, PTL

\* An analyze that answers "succeeded" has a fingerprint of every track it listed
\* and, with --mastering, a measurement of every member of a group, under the
\* very facts it listed them with, whatever other commands did meanwhile.
THEOREM SuccessIsCurrent == Spec => []SucceededMeansCurrent
<1>1. Analysed => SucceededMeansCurrent
  BY DEF Analysed, Commanded, Covered, MembersMeasured, SucceededMeansCurrent, Succeeds, At
<1> QED  BY <1>1, AlwaysAnalysed, PTL

\* What is elected is committed, and nothing else ends a marking well.
LEMMA CommitEnds ==
    ASSUME Analysed, [Next]_vars, NEW p \in Procs, At(p, "commit"), cmd'[p].pc = "return"
    PROVE  Commit(p)
<1>1. Next
  BY DEF vars, At
<1>2. CommandStep(p)
  BY <1>1, OthersAreKept DEF Kept, At
<1>3. ~ (Return(p) \/ Abort(p) \/ MissingFacts(p))
  <2>1. ASSUME NEW e \in Errors, Raise(p, e) PROVE FALSE
    BY <2>1, IdleIsFresh DEF Raise, Analysed, Typed, Errors
  <2> QED  BY <2>1 DEF Return, Abort, MissingFacts, At, Errors
<1>4. ~ \E t \in Tracks : \/ Fingerprint(p, t) \/ MissingRoot(p, t) \/ Probe(p, t) \/ Persist(p, t)
                          \/ Measure(p, t) \/ Store(p, t) \/ StoreRefused(p, t) \/ ReadFacts(p, t)
  BY DEF Fingerprint, MissingRoot, Probe, Persist, Measure, Store, StoreRefused, ReadFacts, At
<1> QED
  BY <1>2, <1>3, <1>4 DEF CommandStep, Begin, BeginMark, Start, Select, Invalidate, Extracted,
     Groups, RebuildDj, ReadPresent, Refuse, Elect, CanElect, At

\* If the tracks of the scope are, when the groups are read and when the winners
\* are stored, what mark_best_quality listed at first, every group of a marked
\* source gets its best copy and no other hash has one: for every choice of
\* hashes, qualities, orders and scopes, and although nothing is locked.
THEOREM MarkingIsBest == Spec => StableMarkingIsBest
<1>1. ASSUME Analysed, [Next]_vars, NEW p \in Procs, At(p, "commit"), cmd'[p].pc = "return",
             cmd[p].same, cmd[p].listed = PresentTracks(cmd[p].scope),
             NEW source \in MarkedSources(cmd[p].scope, cmd[p].listed)
      PROVE  selection'[source] = Winners(source, Current(cmd[p].scope),
                                          [t \in Tracks |-> technical[t].content])
  <2> DEFINE c == cmd[p]
             all == Listed(c.listed)
             facts == [t \in Tracks |-> technical[t].content]
  <2>1. Typed /\ Reading(p) /\ Elected(p) /\ c.pc = "commit"
    BY <1>1 DEF Analysed, Commanded, At
  <2>2. /\ Current(c.scope) = all
        /\ \A t \in all : /\ t \in Tracks /\ catalog[t] = c.listed[t]
                          /\ technical[t].content = c.known[t] /\ c.known[t] \in 1..MaxVersion
    BY <1>1, <2>1, ListedAreCurrent DEF Elected
  <2>3. /\ c.chosen[source] = Winners(source, all, c.known)
        /\ source \in DOMAIN c.chosen
    BY <1>1, <2>1, <2>2 DEF Elected
  <2>4. DOMAIN c.chosen \subseteq Sources
    BY <2>1 DEF Typed, Command, Elections
  <2>5. selection'[source] = c.chosen[source]
    BY <1>1, <2>3, <2>4, CommitEnds DEF Commit
  <2>6. Winners(source, all, c.known) = Winners(source, all, facts)
    <3>1. all \subseteq Tracks /\ \A t \in all : facts[t] = c.known[t] /\ facts[t] \in 1..MaxVersion
      BY <2>2
    <3> HIDE DEF c, all, facts
    <3> QED  BY <3>1, WinnersAgree
  <2> QED  BY <2>2, <2>3, <2>5, <2>6
<1>2. Analysed /\ [Next]_vars =>
          [\A p \in Procs :
              LET c     == cmd[p]
                  facts == [t \in Tracks |-> technical[t].content] IN
              At(p, "commit") /\ cmd'[p].pc = "return" /\ c.same /\ c.listed = PresentTracks(c.scope) =>
                  \A source \in MarkedSources(c.scope, c.listed) :
                      selection'[source] = Winners(source, Current(c.scope), facts)]_vars
  BY <1>1
<1> QED  BY <1>2, AlwaysAnalysed, PTL DEF Spec, StableMarkingIsBest
=============================================================================
