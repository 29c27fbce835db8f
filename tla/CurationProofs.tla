--------------------------- MODULE CurationProofs ---------------------------
(***************************************************************************)
(* Proofs about the two halves of curation: CurationAgent, the loop that   *)
(* stores drafts, for any libraries, requests, agents and validators; and  *)
(* SetCopy, the commands that copy tracks out of the library.              *)
(***************************************************************************)
EXTENDS CurationAgent, SetCopy, FiniteSetTheorems, SequenceTheorems, WellFoundedInduction, TLAPS

-----------------------------------------------------------------------------
(* Least elements, and sets of numbers in order                            *)

\* A finite set has an element that nothing precedes in a strict order.
LEMMA Least ==
    ASSUME NEW S, IsFiniteSet(S), S # {}, NEW R,
           \A x \in S : <<x, x>> \notin R,
           \A x, y, z \in S : <<x, y>> \in R /\ <<y, z>> \in R => <<x, z>> \in R
    PROVE  \E x \in S : \A y \in S : <<y, x>> \notin R
<1> DEFINE below(x) == {y \in S : <<y, x>> \in R}
           belows == {below(x) : x \in S}
<1>1. belows \subseteq FiniteSubsetsOf(S)
  <2>1. \A T \in SUBSET S : IsFiniteSet(T)
    BY FS_Subset
  <2>2. \A x \in S : below(x) \in SUBSET S
    OBVIOUS
  <2> QED  BY <2>1, <2>2 DEF FiniteSubsetsOf
<1>2. belows # {}
  <2>1. PICK x \in S : TRUE
    OBVIOUS
  <2>2. below(x) \in belows
    OBVIOUS
  <2> QED  BY <2>2
<1> HIDE DEF belows
<1>3. \E m \in belows : \A b \in belows : <<b, m>> \notin StrictSubsetOrdering(S)
  BY <1>1, <1>2, FS_StrictSubsetOrderingWellFounded, WFMin
<1>4. PICK x \in S : \A b \in belows : <<b, below(x)>> \notin StrictSubsetOrdering(S)
  BY <1>3 DEF belows
<1>5. ASSUME NEW y \in S, <<y, x>> \in R PROVE FALSE
  <2>1. below(y) \in belows
    BY DEF belows
  <2>2. below(y) \subseteq below(x)
    BY <1>5
  <2>3. y \in below(x) /\ y \notin below(y)
    BY <1>5
  <2>4. below(y) \in SUBSET S /\ below(x) \in SUBSET S
    OBVIOUS
  <2> HIDE DEF below
  <2>5. below(y) # below(x)
    BY <2>3
  <2>6. <<below(y), below(x)>> \in StrictSubsetOrdering(S)
    BY <2>2, <2>4, <2>5 DEF StrictSubsetOrdering
  <2> QED  BY <1>4, <2>1, <2>6
<1> QED  BY <1>5

\* A finite set of numbers has a least and a greatest one.
LEMMA LeastOfFinite ==
    ASSUME NEW S, IsFiniteSet(S), S \subseteq Int, S # {}
    PROVE  \E x \in S : \A y \in S : x <= y
<1> DEFINE R == {ss \in S \X S : ss[1] < ss[2]}
<1>1. \A x, y \in S : <<x, y>> \in R <=> x < y
  OBVIOUS
<1> HIDE DEF R
<1>2. /\ \A x \in S : <<x, x>> \notin R
      /\ \A x, y, z \in S : <<x, y>> \in R /\ <<y, z>> \in R => <<x, z>> \in R
  BY <1>1
<1>3. PICK x \in S : \A y \in S : <<y, x>> \notin R
  BY <1>2, Least
<1>4. ASSUME NEW y \in S PROVE x <= y
  <2>1. x \in Int /\ y \in Int /\ <<y, x>> \notin R
    BY <1>3
  <2> QED  BY <1>1, <2>1
<1> QED  BY <1>4

LEMMA GreatestOfFinite ==
    ASSUME NEW S, IsFiniteSet(S), S \subseteq Int, S # {}
    PROVE  \E x \in S : \A y \in S : x >= y
<1> DEFINE R == {ss \in S \X S : ss[1] > ss[2]}
<1>1. \A x, y \in S : <<x, y>> \in R <=> x > y
  OBVIOUS
<1> HIDE DEF R
<1>2. /\ \A x \in S : <<x, x>> \notin R
      /\ \A x, y, z \in S : <<x, y>> \in R /\ <<y, z>> \in R => <<x, z>> \in R
  BY <1>1
<1>3. PICK x \in S : \A y \in S : <<y, x>> \notin R
  BY <1>2, Least
<1>4. ASSUME NEW y \in S PROVE x >= y
  <2>1. x \in Int /\ y \in Int /\ <<y, x>> \notin R
    BY <1>3
  <2> QED  BY <1>1, <2>1
<1> QED  BY <1>4

\* Of the numbers at which something goes wrong there is a first one.
LEMMA LeastNumber ==
    ASSUME NEW S, S \subseteq Nat, S # {}
    PROVE  \E x \in S : \A y \in S : x <= y
<1>1. PICK n \in S : TRUE
  OBVIOUS
<1> DEFINE T == {m \in S : m <= n}
<1>2. IsFiniteSet(T) /\ T \subseteq Int /\ T # {}
  <2>1. n \in Nat /\ n \in S
    BY <1>1
  <2>3. T \subseteq 0..n /\ n \in T
    <3>1. \A m \in T : m \in Nat /\ m <= n
      OBVIOUS
    <3>2. \A m \in T : m \in 0..n
      BY <2>1, <3>1
    <3>3. n \in T
      BY <2>1
    <3> QED  BY <3>2, <3>3
  <2>2. IsFiniteSet(0..n)
    BY <2>1, FS_Interval
  <2>4. 0..n \subseteq Int
    OBVIOUS
  <2> HIDE DEF T
  <2>5. IsFiniteSet(T)
    BY <2>2, <2>3, FS_Subset
  <2> QED  BY <2>3, <2>4, <2>5
<1>3. PICK x \in T : \A y \in T : x <= y
  <2> HIDE DEF T
  <2> QED  BY <1>2, LeastOfFinite
<1>4. ASSUME NEW y \in S PROVE x <= y
  <2>1. n \in Nat /\ x \in Nat /\ y \in Nat /\ x <= n
    BY <1>1
  <2>2. CASE y <= n
    BY <1>3, <2>2
  <2>3. CASE ~(y <= n)
    BY <2>1, <2>3
  <2> QED  BY <2>2, <2>3
<1> QED  BY <1>4

LEMMA MaxIs ==
    ASSUME NEW S, IsFiniteSet(S), S \subseteq Int, S # {}
    PROVE  Max(S) \in S /\ \A y \in S : y <= Max(S)
<1>1. \E x \in S : \A y \in S : x >= y
  BY GreatestOfFinite
<1> QED  BY <1>1 DEF Max

LEMMA MinIs ==
    ASSUME NEW S, S \subseteq Nat, S # {}
    PROVE  Min(S) \in S /\ \A y \in S : Min(S) <= y
<1>1. \E x \in S : \A y \in S : x <= y
  BY LeastNumber
<1> QED  BY <1>1 DEF Min

\* Every finite set of numbers can be listed in order: take the greatest out,
\* list the others, and put it last.
LEMMA AscendingExists ==
    ASSUME NEW S, IsFiniteSet(S), S \subseteq Int
    PROVE  \E s \in [1..Cardinality(S) -> S] : \A i, j \in DOMAIN s : i < j => s[i] < s[j]
<1> DEFINE Listed(T) ==
        \E s \in [1..Cardinality(T) -> T] : \A i, j \in DOMAIN s : i < j => s[i] < s[j]
           bad == {T \in SUBSET S : ~Listed(T)}
<1>1. SUFFICES ASSUME bad # {} PROVE FALSE
  OBVIOUS
<1>2. \A T \in SUBSET S : IsFiniteSet(T)
  BY FS_Subset
<1>3. bad \subseteq FiniteSubsetsOf(S)
  BY <1>2 DEF FiniteSubsetsOf
<1> HIDE DEF Listed
<1>4. PICK T \in bad : \A U \in bad : <<U, T>> \notin StrictSubsetOrdering(S)
  <2> HIDE DEF bad
  <2> QED  BY <1>1, <1>3, FS_StrictSubsetOrderingWellFounded, WFMin
<1>5. IsFiniteSet(T) /\ T \subseteq Int /\ ~Listed(T)
  BY <1>2
<1>6. T # {}
  <2>1. SUFFICES ASSUME T = {} PROVE FALSE
    OBVIOUS
  <2>2. Cardinality(T) = 0 /\ 1..0 = {}
    BY <2>1, FS_EmptySet
  <2>3. [i \in 1..0 |-> 0] \in [1..Cardinality(T) -> T]
    BY <2>2
  <2>4. \A i, j \in DOMAIN [k \in 1..0 |-> 0] : i < j => FALSE
    BY <2>2
  <2> QED  BY <1>5, <2>3, <2>4 DEF Listed
<1>7. PICK m \in T : \A y \in T : m >= y
  BY <1>5, <1>6, GreatestOfFinite
<1> DEFINE U == T \ {m}
           n == Cardinality(U)
<1>8. IsFiniteSet(U) /\ n \in Nat /\ Cardinality(T) = n + 1
  <2>1. IsFiniteSet(U) /\ n = Cardinality(T) - 1
    BY <1>5, <1>7, FS_RemoveElement
  <2>2. n \in Nat /\ Cardinality(T) \in Nat
    <3> HIDE DEF U
    <3> QED  BY <1>5, <2>1, FS_CardinalityType
  <2> QED  BY <2>1, <2>2
<1>9. Listed(U)
  <2>1. U \in SUBSET S /\ T \in SUBSET S /\ U \subseteq T /\ U # T
    OBVIOUS
  <2>2. <<U, T>> \in StrictSubsetOrdering(S)
    BY <2>1 DEF StrictSubsetOrdering
  <2> QED  BY <1>4, <2>1, <2>2
<1>10. PICK s \in [1..n -> U] : \A i, j \in 1..n : i < j => s[i] < s[j]
  <2> HIDE DEF U
  <2> QED  BY <1>9 DEF Listed
<1> DEFINE t == [i \in 1..(n + 1) |-> IF i = n + 1 THEN m ELSE s[i]]
<1>11. t \in [1..Cardinality(T) -> T]
  <2>1. \A i \in 1..(n + 1) : i # n + 1 => i \in 1..n
    BY <1>8
  <2>2. \A i \in 1..n : s[i] \in T
    BY <1>10
  <2>3. \A i \in 1..(n + 1) : t[i] \in T
    BY <2>1, <2>2, <1>7
  <2> QED  BY <1>8, <2>3
<1>12. ASSUME NEW i \in 1..(n + 1), NEW j \in 1..(n + 1), i < j PROVE t[i] < t[j]
  <2> HIDE DEF n
  <2>1. i \in 1..n
    BY <1>8, <1>12
  <2>2. s[i] \in T /\ s[i] # m /\ t[i] = s[i]
    BY <1>10, <2>1, <1>8
  <2>3. CASE j = n + 1
    <3>1. m \in Int /\ s[i] \in Int /\ m >= s[i] /\ t[j] = m
      BY <1>5, <1>7, <2>2, <2>3
    <3> QED  BY <2>2, <3>1
  <2>4. CASE j # n + 1
    <3>1. j \in 1..n
      BY <1>8, <2>4
    <3> QED  BY <1>10, <1>12, <2>1, <2>2, <2>4, <3>1
  <2> QED  BY <2>3, <2>4
<1>13. DOMAIN t = 1..(n + 1)
  OBVIOUS
<1> HIDE DEF t
<1> QED  BY <1>5, <1>11, <1>12, <1>13 DEF Listed

\* Ascending lists exactly the elements of the set, each once.
LEMMA AscendingIs ==
    ASSUME NEW S, IsFiniteSet(S), S \subseteq Int
    PROVE  /\ Cardinality(S) \in Nat
           /\ Ascending(S) \in [1..Cardinality(S) -> S]
           /\ \A i, j \in 1..Cardinality(S) : i < j => Ascending(S)[i] < Ascending(S)[j]
           /\ \A x \in S : \E i \in 1..Cardinality(S) : Ascending(S)[i] = x
<1> DEFINE n == Cardinality(S)
           s == Ascending(S)
<1>1. s \in [1..n -> S] /\ \A i, j \in DOMAIN s : i < j => s[i] < s[j]
  BY AscendingExists DEF Ascending
<1>2. n \in Nat
  BY FS_CardinalityType
<1>3. DOMAIN s = 1..n
  BY <1>1
<1> HIDE DEF s
<1>4. \A i, j \in 1..n : s[i] = s[j] => i = j
  <2>1. SUFFICES ASSUME NEW i \in 1..n, NEW j \in 1..n, s[i] = s[j], i # j PROVE FALSE
    OBVIOUS
  <2>2. i < j \/ j < i
    BY <1>2, <2>1
  <2>3. s[i] \in Int /\ s[j] \in Int
    BY <1>1
  <2> QED  BY <1>1, <1>3, <2>1, <2>2, <2>3
<1>5. s \in Injection(1..n, S)
  BY <1>1, <1>4 DEF Injection, IsInjective
<1>6. Cardinality(1..n) = n
  BY <1>2, FS_Interval
<1>7. s \in Surjection(1..n, S)
  BY <1>5, <1>6, FS_Injection
<1>8. \A x \in S : \E i \in 1..n : s[i] = x
  BY <1>7 DEF Surjection
<1> QED  BY <1>1, <1>2, <1>3, <1>8 DEF s

-----------------------------------------------------------------------------
(* Sequences *)

\* A function on the numbers up to n is a sequence of that length.
LEMMA FunctionIsSequence ==
    ASSUME NEW S, NEW n \in Nat, NEW f \in [1..n -> S]
    PROVE  f \in Seq(S) /\ Len(f) = n
<1>1. f \in Seq(S)
  BY SeqDef
<1>2. Len(f) \in Nat /\ DOMAIN f = 1..Len(f)
  BY <1>1, LenProperties
<1>3. 1..Len(f) = 1..n
  BY <1>2
<1> QED  BY <1>1, <1>2, <1>3

\* The first m elements of a sequence.
LEMMA PrefixIs ==
    ASSUME NEW S, NEW s, NEW m \in Nat, \A i \in 1..m : s[i] \in S
    PROVE  /\ SubSeq(s, 1, m) \in Seq(S) /\ Len(SubSeq(s, 1, m)) = m
           /\ \A i \in 1..m : SubSeq(s, 1, m)[i] = s[i]
<1> DEFINE t == SubSeq(s, 1, m)
<1>1. /\ t \in Seq(S) /\ Len(t) = IF 1 <= m THEN m - 1 + 1 ELSE 0
      /\ \A i \in 1..(m - 1 + 1) : t[i] = s[1 + i - 1]
  BY SubSeqProperties
<1> HIDE DEF t
<1>2. ASSUME NEW i \in 1..m PROVE t[i] = s[i]
  <2>1. i \in 1..(m - 1 + 1) /\ 1 + i - 1 = i
    OBVIOUS
  <2>2. t[i] = s[1 + i - 1]
    BY <1>1, <2>1
  <2> QED  BY <2>1, <2>2
<1> QED  BY <1>1, <1>2 DEF t

-----------------------------------------------------------------------------
(* The read model: one candidate for a recording                           *)

Lib  == [rows: [TrackIds -> Row], eligible: SUBSET Nat]
Key  == [1..7 -> Int]
File5 == [facts: Nat, lossless: {"yes", "no", "unknown"}, depth: Int, bitrate: Int, rate: Int]

\* Of two different keys of this order at most one is before the other.
LEMMA PrecedesIsAsymmetric ==
    ASSUME NEW k \in Key, NEW l \in Key, Precedes(k, l), Precedes(l, k)
    PROVE  FALSE
<1>1. DOMAIN k = 1..7 /\ DOMAIN l = 1..7
  BY DEF Key
<1>2. PICK i \in 1..7 : k[i] < l[i] /\ \A m \in 1..(i - 1) : k[m] = l[m]
  BY <1>1 DEF Precedes
<1>3. PICK j \in 1..7 : l[j] < k[j] /\ \A m \in 1..(j - 1) : l[m] = k[m]
  BY <1>1 DEF Precedes
<1>4. /\ k[i] \in Int /\ l[i] \in Int /\ k[j] \in Int /\ l[j] \in Int
      /\ i \in Int /\ j \in Int
  BY DEF Key
<1>5. CASE i < j
  <2>1. i \in 1..(j - 1)
    BY <1>5
  <2> QED  BY <1>2, <1>3, <1>4, <2>1
<1>6. CASE j < i
  <2>1. j \in 1..(i - 1)
    BY <1>6
  <2> QED  BY <1>2, <1>3, <1>4, <2>1
<1>7. CASE i = j
  BY <1>2, <1>3, <1>4, <1>7
<1> QED  BY <1>4, <1>5, <1>6, <1>7

LEMMA LibraryIs ==
    ASSUME NEW lib \in Lib
    PROVE  /\ DOMAIN lib.rows = TrackIds
           /\ \A t \in TrackIds : lib.rows[t] \in Row /\ t \in Nat \ {0}
           /\ Available(lib) \subseteq TrackIds /\ IsFiniteSet(Available(lib))
           /\ Candidates(lib) \subseteq Available(lib) /\ IsFiniteSet(Candidates(lib))
<1>1. lib.rows \in [TrackIds -> Row]
  BY DEF Lib
<1>2. DOMAIN lib.rows = TrackIds /\ \A t \in TrackIds : lib.rows[t] \in Row /\ t \in Nat \ {0}
  BY <1>1, CurationAssumption
<1>3. Available(lib) \subseteq TrackIds
  BY <1>2 DEF Available
<1>4. Candidates(lib) \subseteq Available(lib)
  BY DEF Candidates
<1>5. IsFiniteSet(Available(lib))
  BY <1>3, CurationAssumption, FS_Subset
<1>6. IsFiniteSet(Candidates(lib))
  BY <1>4, <1>5, FS_Subset
<1> QED  BY <1>2, <1>3, <1>4, <1>5, <1>6

LEMMA FormatIs ==
    ASSUME NEW row \in Row
    PROVE  Format(row) \in File5
<1>1. row.format \in File5
  BY DEF Row, File5
<1>2. Unknown \in Int
  BY DEF Unknown
<1>3. [row.format EXCEPT !.lossless = "unknown", !.depth = Unknown,
                         !.bitrate = Unknown, !.rate = Unknown] \in File5
  BY <1>1, <1>2 DEF File5
<1> QED  BY <1>1, <1>3 DEF Format

LEMMA QualityKeyIs ==
    ASSUME NEW lib \in Lib, NEW t \in TrackIds
    PROVE  QualityKey(lib, t) \in Key
<1> DEFINE row == lib.rows[t]
           f   == Format(row)
<1>1. row \in Row /\ t \in Int
  BY LibraryIs
<1>2. row.source \in Int /\ row.path \in Int
  BY <1>1 DEF Row
<1>3. f.depth \in Int /\ f.bitrate \in Int /\ f.rate \in Int /\ Unknown \in Int
  BY <1>1, FormatIs DEF File5, Unknown
<1> HIDE DEF row, f
<1> DEFINE k1 == CASE f.lossless = "yes" -> 0 [] f.lossless = "no" -> 1 [] OTHER -> 2
           k2 == - (IF f.lossless = "yes" THEN f.depth ELSE Unknown)
           k3 == - (IF f.lossless = "no" THEN f.bitrate ELSE Unknown)
<1>4. k1 \in Int
  OBVIOUS
<1>5. k2 \in Int /\ k3 \in Int /\ - f.rate \in Int
  BY <1>3
<1> HIDE DEF k1, k2, k3
<1>6. << k1, k2, k3, - f.rate, row.source, row.path, t >> \in Key
  BY <1>1, <1>2, <1>4, <1>5 DEF Key
<1> QED  BY <1>6 DEF QualityKey, row, f, k1, k2, k3

\* Two candidates are never copies of one recording.
LEMMA OneCandidate ==
    ASSUME NEW lib \in Lib, NEW t \in Candidates(lib), NEW u \in Candidates(lib),
           GroupKey(lib, t) = GroupKey(lib, u)
    PROVE  t = u
<1>1. SUFFICES ASSUME t # u PROVE FALSE
  OBVIOUS
<1>2. t \in Available(lib) /\ u \in Available(lib) /\ t \in TrackIds /\ u \in TrackIds
  BY LibraryIs
<1>3. u \in Members(lib, t) \ {t} /\ t \in Members(lib, u) \ {u}
  BY <1>1, <1>2 DEF Members
<1>4. /\ Precedes(QualityKey(lib, t), QualityKey(lib, u))
      /\ Precedes(QualityKey(lib, u), QualityKey(lib, t))
  BY <1>3 DEF Candidates
<1>5. QualityKey(lib, t) \in Key /\ QualityKey(lib, u) \in Key
  BY <1>2, QualityKeyIs
<1> QED  BY <1>4, <1>5, PrecedesIsAsymmetric

\* A track without a fingerprint is a recording of its own.
LEMMA UnfingerprintedIsCandidate ==
    ASSUME NEW lib \in Lib, NEW t \in Available(lib), Fingerprint(lib.rows[t]) = NoHash
    PROVE  t \in Candidates(lib)
<1>1. GroupKey(lib, t) = <<"track", t>>
  BY DEF GroupKey
<1>2. ASSUME NEW u \in Members(lib, t) PROVE u = t
  <2>1. GroupKey(lib, u) = <<"track", t>>
    BY <1>1 DEF Members
  <2>2. CASE Fingerprint(lib.rows[u]) = NoHash
    <3>1. <<"track", u>> = <<"track", t>>
      BY <2>1, <2>2 DEF GroupKey
    <3> QED  BY <3>1
  <2>3. CASE Fingerprint(lib.rows[u]) # NoHash
    <3>1. <<"print", Fingerprint(lib.rows[u])>> = <<"track", t>>
      BY <2>1, <2>3 DEF GroupKey
    <3> QED  BY <3>1
  <2> QED  BY <2>2, <2>3
<1>3. Members(lib, t) \ {t} = {}
  BY <1>2
<1> QED  BY <1>3 DEF Candidates

\* The references of a curation that resolves name candidates of different
\* recordings, each once.
LEMMA ResolvedTracks ==
    ASSUME NEW lib \in Lib, NEW refs \in Seq(Nat \X Nat), Resolvable(lib, refs)
    PROVE  /\ Len(refs) # 0
           /\ DOMAIN TracksOf(refs) = 1..Len(refs) /\ TracksOf(refs) \in Seq(TrackIds)
           /\ Len(TracksOf(refs)) = Len(refs)
           /\ \A i \in 1..Len(refs) : TracksOf(refs)[i] \in Candidates(lib)
           /\ Cardinality(Recordings(lib, TracksOf(refs))) = Len(refs)
<1> DEFINE n == Len(refs)
           ts == TracksOf(refs)
<1>1. n \in Nat /\ DOMAIN refs = 1..n
  BY LenProperties
<1>2. DOMAIN ts = 1..n /\ \A i \in 1..n : ts[i] = refs[i][2]
  BY <1>1 DEF TracksOf
<1>3. \A i \in 1..n : \E t \in Candidates(lib) : refs[i] = <<lib.rows[t].source, t>>
  BY <1>1 DEF Resolvable, Ref
<1>4. \A i \in 1..n : ts[i] \in Candidates(lib) /\ refs[i] = <<lib.rows[ts[i]].source, ts[i]>>
  <2> HIDE DEF ts
  <2>1. SUFFICES ASSUME NEW i \in 1..n
                 PROVE  ts[i] \in Candidates(lib) /\ refs[i] = <<lib.rows[ts[i]].source, ts[i]>>
    OBVIOUS
  <2>2. PICK t \in Candidates(lib) : refs[i] = <<lib.rows[t].source, t>>
    BY <1>3
  <2>3. ts[i] = t
    BY <1>2, <2>2
  <2> QED  BY <2>2, <2>3
<1>5. n # 0
  BY <1>1 DEF Resolvable
<1>6. ts \in [1..n -> TrackIds] /\ ts \in Seq(TrackIds) /\ Len(ts) = n
  <2>1. \A i \in 1..n : ts[i] \in TrackIds
    BY <1>4, LibraryIs
  <2>2. ts = [i \in 1..n |-> refs[i][2]]
    BY <1>1 DEF TracksOf
  <2> HIDE DEF ts
  <2>3. ts \in [1..n -> TrackIds]
    BY <1>2, <2>1, <2>2
  <2>4. ts \in Seq(TrackIds) /\ Len(ts) = n
    BY <1>1, <2>3, FunctionIsSequence
  <2> QED  BY <2>3, <2>4
<1> HIDE DEF ts
<1>7. \A i, j \in 1..n : GroupKey(lib, ts[i]) = GroupKey(lib, ts[j]) => i = j
  <2>1. SUFFICES ASSUME NEW i \in 1..n, NEW j \in 1..n,
                        GroupKey(lib, ts[i]) = GroupKey(lib, ts[j])
                 PROVE  i = j
    OBVIOUS
  <2>2. ts[i] = ts[j]
    BY <1>4, <2>1, OneCandidate
  <2>3. refs[i] = refs[j]
    BY <1>4, <2>2
  <2> QED  BY <1>1, <2>3 DEF Resolvable, IsInjective
<1> DEFINE g == [i \in 1..n |-> GroupKey(lib, ts[i])]
           R == Recordings(lib, ts)
<1>8. R = {GroupKey(lib, ts[i]) : i \in 1..n}
  BY <1>2 DEF Recordings, ts
<1>9. g \in Surjection(1..n, R) /\ g \in Injection(1..n, R)
  <2>1. g \in [1..n -> R]
    BY <1>8
  <2>2. \A r \in R : \E i \in 1..n : g[i] = r
    BY <1>8
  <2>3. \A i, j \in 1..n : g[i] = g[j] => i = j
    BY <1>7
  <2> QED  BY <2>1, <2>2, <2>3 DEF Surjection, Injection, IsInjective
<1>10. IsFiniteSet(1..n) /\ Cardinality(1..n) = n
  <2> HIDE DEF n
  <2> QED  BY <1>1, <1>5, FS_Interval
<1>11. Cardinality(R) = n
  <2> HIDE DEF g, R
  <2> QED  BY <1>9, <1>10, FS_Surjection
<1> QED  BY <1>2, <1>4, <1>5, <1>6, <1>11 DEF ts

-----------------------------------------------------------------------------
(* The invariant of the agents                                             *)

Request ==
    [tool: {"search"}, filters: Filters, limit: Limits, again: BOOLEAN]
    \cup [tool: {"get", "create"}, refs: Seq(Nat \X Nat)]
    \cup {[tool |-> "overview"], Forbidden}

Draft ==
    [tracks: Seq(TrackIds), status: {"draft", "validated"},
     validated: Validators \cup {Nobody}, resolvedAt: Nat, storedAt: Nat]

NextPage == [after: TrackIds, filters: Filters, limit: Limits]
Pages ==
    [ids: Seq(TrackIds), next: {NoCursor} \cup NextPage, snapshots: SUBSET Nat,
     query: {<< >>} \cup (Filters \X Limits)]

Stage == {"idle", "completing", "calling", "storing", "stored", "ended"}
Looking == [at: {"idle", "update", "refused", "validated"}, draft: Nat]

Typed ==
    /\ history \in Seq(DOMAIN Libraries) /\ history # << >>
    /\ drafts \in Seq(Draft)
    /\ pc \in [Agents -> Stage]
    /\ turns \in [Agents -> 0..MaxTurns]
    /\ calls \in [Agents -> Seq(Request)]
    /\ alone \in [Agents -> BOOLEAN]
    /\ resolved \in [Agents -> Nat]
    /\ draft \in [Agents -> Nat]
    /\ outcome \in [Agents -> Outcome]
    /\ paging \in [Agents -> Pages]
    /\ checking \in [Validators -> Looking]

\* The n-th snapshot of a history of the catalog.
LibAt(h, n) == Libraries[h[n]]

\* DraftsAreGrounded of one draft.
DraftOK(h, d) ==
    /\ d.resolvedAt \in 1..Len(h) /\ d.storedAt \in 1..Len(h)
    /\ Len(d.tracks) \in 1..MaxTracks
    /\ Cardinality(Recordings(LibAt(h, d.resolvedAt), d.tracks)) = Len(d.tracks)
    /\ \A j \in 1..Len(d.tracks) : d.tracks[j] \in Available(LibAt(h, d.storedAt))

\* Between its two halves create_curation holds what the first one resolved.
Commissioned(h, cs, n) ==
    /\ cs # << >> /\ Head(cs).tool = "create"
    /\ n \in 1..Len(h)
    /\ Len(Head(cs).refs) <= MaxTracks
    /\ Resolvable(LibAt(h, n), Head(cs).refs)

Answered(h, tracks, n) ==
    /\ n \in 1..Len(h)
    /\ \A i \in 1..Len(tracks) : tracks[i] \in Candidates(LibAt(h, n))

AgentOK(a) ==
    /\ draft[a] \in 0..Len(drafts)
    /\ Len(calls[a]) <= MaxCalls + 1
    /\ pc[a] = "ended" <=> outcome[a] # "none"
    /\ pc[a] = "storing" => Commissioned(history, calls[a], resolved[a])
    /\ pc[a] = "stored" => draft[a] # 0
    /\ outcome[a] = "success" =>
           draft[a] # 0 /\ Answered(history, drafts[draft[a]].tracks, resolved[a])

CheckOK(v) ==
    /\ checking[v].draft \in 0..Len(drafts)
    /\ checking[v].at = "update" => checking[v].draft # 0

\* What a search finds in a snapshot, over all its pages.
Found(lib, f) == {t \in Candidates(lib) : Matches(lib, t, f)}

\* The pages so far are the matches up to the cursor, when they were read from
\* one snapshot.
PagesOK(h, p) ==
    /\ \A i, j \in 1..Len(p.ids) : i < j => p.ids[i] < p.ids[j]
    /\ p.snapshots \subseteq 1..Len(h)
    /\ p.next # NoCursor =>
           /\ p.ids # << >> /\ p.snapshots # {}
           /\ p.next.after = p.ids[Len(p.ids)]
           /\ p.query = <<p.next.filters, p.next.limit>>
    /\ \A n \in p.snapshots : p.snapshots = {n} =>
           LET found == Found(LibAt(h, n), p.query[1])
           IN  IF p.next = NoCursor THEN Range(p.ids) = found
               ELSE /\ Range(p.ids) = {t \in found : t <= p.next.after}
                    /\ \E t \in found : t > p.next.after

Curated ==
    /\ Typed
    /\ \A i \in 1..Len(drafts) : DraftOK(history, drafts[i])
    /\ \A a \in Agents : AgentOK(a) /\ PagesOK(history, paging[a])
    /\ \A v \in Validators : CheckOK(v)

\* A history that goes on keeps its snapshots.
Extends(h, g) ==
    /\ Len(h) \in Nat /\ Len(g) \in Nat /\ Len(h) <= Len(g)
    /\ \A n \in 1..Len(h) : g[n] = h[n]

Still(b) ==
    /\ pc'[b] = pc[b] /\ calls'[b] = calls[b] /\ resolved'[b] = resolved[b]
    /\ draft'[b] = draft[b] /\ outcome'[b] = outcome[b] /\ paging'[b] = paging[b]

LEMMA HistoryIs ==
    ASSUME Typed
    PROVE  /\ Now \in Nat \ {0} /\ history \in [1..Now -> DOMAIN Libraries]
           /\ \A n \in 1..Now : At(n) \in Lib /\ At(n) = LibAt(history, n)
           /\ catalog \in Lib /\ catalog = LibAt(history, Now) /\ Tracks = TrackIds
           /\ Extends(history, history)
<1>1. history \in Seq(DOMAIN Libraries) /\ history # << >>
  BY DEF Typed
<1>2. Len(history) \in Nat \ {0} /\ history \in [1..Len(history) -> DOMAIN Libraries]
  BY <1>1, LenProperties, EmptySeq
<1>3. Libraries \in Seq(Lib)
  BY CurationAssumption DEF Lib
<1>4. \A k \in DOMAIN Libraries : Libraries[k] \in Lib
  <2>1. Libraries \in [1..Len(Libraries) -> Lib]
    BY <1>3, LenProperties
  <2> QED  BY <2>1
<1>5. \A n \in 1..Len(history) : At(n) \in Lib
  BY <1>2, <1>4 DEF At
<1>6. Len(history) \in 1..Len(history)
  BY <1>2
<1>7. catalog \in Lib /\ catalog = LibAt(history, Len(history))
  BY <1>5, <1>6 DEF catalog, LibAt, At
<1>8. Tracks = TrackIds
  BY <1>7, LibraryIs DEF Tracks
<1> QED  BY <1>2, <1>5, <1>7, <1>8 DEF Now, LibAt, At, Extends

LEMMA ExtendsKeeps ==
    ASSUME NEW h, NEW g, Extends(h, g)
    PROVE  /\ \A n \in 1..Len(h) : n \in 1..Len(g) /\ LibAt(g, n) = LibAt(h, n)
           /\ \A d : DraftOK(h, d) => DraftOK(g, d)
           /\ \A cs, n : Commissioned(h, cs, n) => Commissioned(g, cs, n)
           /\ \A tracks, n : Answered(h, tracks, n) => Answered(g, tracks, n)
           /\ \A p : PagesOK(h, p) => PagesOK(g, p)
<1>1. \A n \in 1..Len(h) : n \in 1..Len(g) /\ LibAt(g, n) = LibAt(h, n)
  BY DEF Extends, LibAt
<1>2. ASSUME NEW d, DraftOK(h, d) PROVE DraftOK(g, d)
  BY <1>1, <1>2 DEF DraftOK
<1>3. ASSUME NEW cs, NEW n, Commissioned(h, cs, n) PROVE Commissioned(g, cs, n)
  BY <1>1, <1>3 DEF Commissioned
<1>4. ASSUME NEW tracks, NEW n, Answered(h, tracks, n) PROVE Answered(g, tracks, n)
  BY <1>1, <1>4 DEF Answered
<1>5. ASSUME NEW p, PagesOK(h, p) PROVE PagesOK(g, p)
  <2>1. \A n \in p.snapshots : n \in 1..Len(g) /\ LibAt(g, n) = LibAt(h, n)
    BY <1>1, <1>5 DEF PagesOK
  <2> QED  BY <1>5, <2>1 DEF PagesOK
<1> QED  BY <1>1, <1>2, <1>3, <1>4, <1>5

\* A step that extends the history and the drafts, and moves some agents, keeps
\* what it does not touch.
LEMMA Framed ==
    ASSUME Curated, Typed', NEW moved,
           Extends(history, history'),
           Len(drafts) \in Nat, Len(drafts') \in Nat, Len(drafts) <= Len(drafts'),
           \A i \in 1..Len(drafts) : drafts'[i].tracks = drafts[i].tracks,
           \A i \in 1..Len(drafts') : DraftOK(history', drafts'[i]),
           \A b \in Agents \ moved : Still(b),
           \A a \in Agents \cap moved : AgentOK(a)' /\ PagesOK(history', paging'[a]),
           \A v \in Validators : CheckOK(v)'
    PROVE  Curated'
<1>1. ASSUME NEW b \in Agents PROVE AgentOK(b)' /\ PagesOK(history', paging'[b])
  <2>1. CASE b \in moved
    BY <2>1
  <2>2. CASE b \notin moved
    <3>1. Still(b)
      BY <2>2
    <3>2. AgentOK(b) /\ PagesOK(history, paging[b])
      BY DEF Curated
    <3>3. PagesOK(history', paging'[b])
      BY <3>1, <3>2, ExtendsKeeps DEF Still
    <3>4. draft'[b] \in 0..Len(drafts')
      BY <3>1, <3>2 DEF Still, AgentOK
    <3>5. pc'[b] = "storing" => Commissioned(history', calls'[b], resolved'[b])
      BY <3>1, <3>2, ExtendsKeeps DEF Still, AgentOK
    <3>6. outcome'[b] = "success" =>
             draft'[b] # 0 /\ Answered(history', drafts'[draft'[b]].tracks, resolved'[b])
      <4>1. SUFFICES ASSUME outcome'[b] = "success"
                     PROVE  draft'[b] # 0
                            /\ Answered(history', drafts'[draft'[b]].tracks, resolved'[b])
        OBVIOUS
      <4>2. draft[b] # 0 /\ Answered(history, drafts[draft[b]].tracks, resolved[b])
        BY <3>1, <3>2, <4>1 DEF Still, AgentOK
      <4>3. draft[b] \in 1..Len(drafts)
        BY <3>2, <4>2 DEF AgentOK
      <4>4. drafts'[draft[b]].tracks = drafts[draft[b]].tracks
        BY <4>3
      <4>5. Answered(history', drafts[draft[b]].tracks, resolved[b])
        BY <4>2, ExtendsKeeps
      <4> QED  BY <3>1, <4>2, <4>4, <4>5 DEF Still
    <3> QED  BY <3>1, <3>2, <3>3, <3>4, <3>5, <3>6 DEF Still, AgentOK
  <2> QED  BY <2>1, <2>2
<1> QED  BY <1>1 DEF Curated

-----------------------------------------------------------------------------
(* The steps of the agents                                                 *)

LEMMA CuratedStutter == Curated /\ UNCHANGED vars => Curated'
<1> SUFFICES ASSUME Curated, UNCHANGED vars PROVE Curated'
  OBVIOUS
<1>1. Typed'
  BY DEF Curated, Typed, vars, agent
<1>2. \A a \in Agents : AgentOK(a)'
  BY DEF Curated, AgentOK, vars, agent
<1>3. \A v \in Validators : CheckOK(v)'
  BY DEF Curated, CheckOK, vars
<1> QED  BY <1>1, <1>2, <1>3 DEF Curated, vars, agent

LEMMA NoPagesOK ==
    ASSUME NEW h
    PROVE  NoPages \in Pages /\ PagesOK(h, NoPages)
<1>1. NoPages.ids = << >> /\ NoPages.snapshots = {} /\ NoPages.next = NoCursor
  BY DEF NoPages
<1>2. << >> \in Seq(TrackIds) /\ Len(<< >>) = 0
  BY EmptySeq
<1> QED  BY <1>1, <1>2 DEF Pages, PagesOK, NoPages

\* A step of agent a alone, which stores nothing and does not end the run.
LEMMA AgentMoved ==
    ASSUME Curated, Typed', NEW a \in Agents,
           UNCHANGED <<history, drafts, draft, outcome, checking>>,
           \A b \in Agents \ {a} : Still(b),
           pc[a] # "ended", pc'[a] \notin {"ended", "stored"},
           Len(calls'[a]) <= MaxCalls + 1,
           pc'[a] = "storing" => Commissioned(history, calls'[a], resolved'[a]),
           PagesOK(history, paging'[a])
    PROVE  Curated'
<1>1. Typed /\ AgentOK(a)
  BY DEF Curated
<1>2. outcome[a] = "none"
  BY <1>1 DEF AgentOK
<1>3. AgentOK(a)'
  BY <1>1, <1>2 DEF AgentOK
<1>4. Extends(history, history')
  BY <1>1, HistoryIs
<1>5. Len(drafts) \in Nat
  BY <1>1, LenProperties DEF Typed
<1>6. \A i \in 1..Len(drafts') : DraftOK(history', drafts'[i])
  BY DEF Curated
<1>7. \A v \in Validators : CheckOK(v)'
  BY DEF Curated, CheckOK
<1>8. \A x \in Agents \cap {a} : AgentOK(x)' /\ PagesOK(history', paging'[x])
  BY <1>3
<1>9. drafts' = drafts /\ Len(drafts') \in Nat /\ Len(drafts) <= Len(drafts')
  BY <1>5
<1> QED  BY <1>4, <1>5, <1>6, <1>7, <1>8, <1>9, Framed

\* The end of a run.
LEMMA RunEnded ==
    ASSUME Curated, NEW a \in Agents, NEW result \in Outcome \ {"none"}, End(a, result),
           UNCHANGED <<history, drafts, draft, checking>>,
           resolved' \in [Agents -> Nat], \A b \in Agents \ {a} : resolved'[b] = resolved[b],
           result = "success" =>
               draft[a] # 0 /\ Answered(history, drafts[draft[a]].tracks, resolved'[a])
    PROVE  Curated'
<1>1. Typed /\ AgentOK(a)
  BY DEF Curated
<1>2. << >> \in Seq(Request) /\ Len(<< >>) = 0
  BY EmptySeq
<1>3. /\ pc' \in [Agents -> Stage] /\ outcome' \in [Agents -> Outcome]
      /\ turns' \in [Agents -> 0..MaxTurns] /\ alone' \in [Agents -> BOOLEAN]
  <2>1. 0 \in 0..MaxTurns
    BY CurationAssumption
  <2> QED  BY <1>1, <2>1 DEF Typed, End, Stage
<1>4. calls' \in [Agents -> Seq(Request)] /\ paging' \in [Agents -> Pages]
  BY <1>1, <1>2, NoPagesOK DEF Typed, End
<1>5. Typed'
  BY <1>1, <1>3, <1>4 DEF Typed
<1>6. \A b \in Agents \ {a} : Still(b)
  BY <1>1 DEF Typed, End, Still
<1>7. /\ pc'[a] = "ended" /\ outcome'[a] = result /\ calls'[a] = << >> /\ paging'[a] = NoPages
  BY <1>1 DEF Typed, End
<1>8. AgentOK(a)'
  <2>1. Len(calls'[a]) <= MaxCalls + 1
    BY <1>2, <1>7, CurationAssumption
  <2> QED  BY <1>1, <1>7, <2>1 DEF AgentOK
<1>9. PagesOK(history', paging'[a])
  BY <1>7, NoPagesOK
<1>10. Extends(history, history')
  BY <1>1, HistoryIs
<1>11. Len(drafts) \in Nat
  BY <1>1, LenProperties DEF Typed
<1>12. \A i \in 1..Len(drafts') : DraftOK(history', drafts'[i])
  BY DEF Curated
<1>13. \A v \in Validators : CheckOK(v)'
  BY DEF Curated, CheckOK
<1>14. \A x \in Agents \cap {a} : AgentOK(x)' /\ PagesOK(history', paging'[x])
  BY <1>8, <1>9
<1>15. drafts' = drafts /\ Len(drafts') \in Nat /\ Len(drafts) <= Len(drafts')
  BY <1>11
<1> QED  BY <1>5, <1>6, <1>10, <1>11, <1>12, <1>13, <1>14, <1>15, Framed

\* The ends that answer with nothing.
LEMMA RunStopped ==
    ASSUME Curated, NEW a \in Agents, NEW result \in Outcome \ {"none", "success"},
           End(a, result), UNCHANGED <<history, drafts, resolved, draft, checking>>
    PROVE  Curated'
<1>1. resolved \in [Agents -> Nat]
  BY DEF Curated, Typed
<1> QED  BY <1>1, RunEnded

LEMMA EndsPreserve ==
    ASSUME Curated, NEW a \in Agents,
           \/ TurnsExhausted(a) \/ NoToolCall(a) \/ CompletionFails(a) \/ Timeout(a)
           \/ Kill(a) \/ Refuse(a) \/ ReadFails(a)
    PROVE  Curated'
<1>0. {"timeout", "stale", "unavailable", "client", "killed"} \subseteq Outcome \ {"none", "success"}
  BY DEF Outcome
<1>1. CASE TurnsExhausted(a)
  BY <1>0, <1>1, RunStopped DEF TurnsExhausted
<1>2. CASE NoToolCall(a)
  BY <1>0, <1>2, RunStopped DEF NoToolCall
<1>3. CASE CompletionFails(a)
  BY <1>0, <1>3, RunStopped DEF CompletionFails
<1>4. CASE Timeout(a)
  BY <1>0, <1>4, RunStopped DEF Timeout
<1>5. CASE Kill(a)
  BY <1>0, <1>5, RunStopped DEF Kill
<1>6. CASE Refuse(a)
  <2>1. PICK result \in {"stale", "client"} : End(a, result)
    BY <1>6 DEF Refuse
  <2> QED  BY <1>0, <1>6, <2>1, RunStopped DEF Refuse
<1>7. CASE ReadFails(a)
  <2>1. End(a, "stale") \/ End(a, "unavailable")
    BY <1>7 DEF ReadFails
  <2> QED  BY <1>0, <1>7, <2>1, RunStopped DEF ReadFails
<1> QED  BY <1>1, <1>2, <1>3, <1>4, <1>5, <1>6, <1>7

LEMMA RunPreserves ==
    ASSUME Curated, NEW a \in Agents, Run(a) \/ NextTurn(a)
    PROVE  Curated'
<1>1. Typed /\ AgentOK(a) /\ PagesOK(history, paging[a])
  BY DEF Curated
<1>2. Typed'
  BY <1>1 DEF Typed, Run, NextTurn, Stage
<1>3. pc'[a] = "completing" /\ pc[a] # "ended"
  BY <1>1 DEF Typed, Run, NextTurn
<1>4. \A b \in Agents \ {a} : Still(b)
  BY <1>1 DEF Typed, Run, NextTurn, Still
<1>5. UNCHANGED <<history, drafts, draft, outcome, checking, calls, paging>>
  BY DEF Run, NextTurn
<1>6. Len(calls'[a]) <= MaxCalls + 1
  BY <1>1, <1>5 DEF AgentOK
<1> QED  BY <1>1, <1>2, <1>3, <1>4, <1>5, <1>6, AgentMoved

\* Whatever the service asks for, the requests of a response are of these kinds.
LEMMA RefsAre ==
    ASSUME Typed
    PROVE  Refs \subseteq Nat \X Nat /\ IsFiniteSet(Refs)
<1>1. catalog \in Lib /\ Tracks = TrackIds
  BY HistoryIs
<1>2. \A t \in TrackIds : Ref(catalog, t) \in Nat \X Nat
  <2>1. SUFFICES ASSUME NEW t \in TrackIds PROVE Ref(catalog, t) \in Nat \X Nat
    OBVIOUS
  <2>2. catalog.rows[t] \in Row /\ t \in Nat
    BY <1>1, LibraryIs
  <2>3. catalog.rows[t].source \in Nat
    BY <2>2 DEF Row
  <2> QED  BY <2>2, <2>3 DEF Ref
<1> DEFINE named == {Ref(catalog, t) : t \in TrackIds}
           ref == [t \in TrackIds |-> Ref(catalog, t)]
<1>3. Refs = named \cup {<<0, 0>>}
  BY <1>1 DEF Refs
<1>4. ref \in Surjection(TrackIds, named)
  BY DEF Surjection
<1>5. IsFiniteSet(named)
  <2> HIDE DEF ref, named
  <2> QED  BY <1>4, CurationAssumption, FS_Surjection
<1>6. IsFiniteSet(named \cup {<<0, 0>>})
  <2> HIDE DEF named
  <2> QED  BY <1>5, FS_AddElement
<1> QED  BY <1>2, <1>3, <1>6

LEMMA RefListsAre ==
    ASSUME Typed
    PROVE  RefLists \subseteq Seq(Nat \X Nat)
<1>1. Refs \subseteq Nat \X Nat /\ IsFiniteSet(Refs)
  BY RefsAre
<1>2. ASSUME NEW n \in 0..MaxTracks, NEW refs \in [1..n -> Refs] PROVE refs \in Seq(Nat \X Nat)
  <2>1. n \in Nat /\ refs \in [1..n -> Nat \X Nat]
    BY <1>1, CurationAssumption
  <2> QED  BY <2>1, FunctionIsSequence
<1> DEFINE S == Refs \ {<<0, 0>>}
<1>3. SetToSeq(S) \in Seq(Nat \X Nat)
  <2>1. IsFiniteSet(S) /\ S \subseteq Nat \X Nat
    BY <1>1, FS_Subset
  <2> HIDE DEF S
  <2>2. Cardinality(S) \in Nat /\ ExistsBijection(1..Cardinality(S), S)
    BY <2>1, FS_CardinalityType
  <2>3. \E f \in [1..Cardinality(S) -> S] : IsInjective(f)
    BY <2>2 DEF ExistsBijection, Bijection, Injection, IsInjective
  <2>4. SetToSeq(S) \in [1..Cardinality(S) -> S]
    BY <2>3 DEF SetToSeq
  <2>5. SetToSeq(S) \in [1..Cardinality(S) -> Nat \X Nat]
    BY <2>1, <2>4
  <2> QED  BY <2>2, <2>5, FunctionIsSequence
<1>4. ASSUME NEW refs \in RefLists PROVE refs \in Seq(Nat \X Nat)
  <2>1. (\E n \in 0..MaxTracks : refs \in [1..n -> Refs]) \/ refs = SetToSeq(S)
    <3> DEFINE family == {[1..n -> Refs] : n \in 0..MaxTracks}
    <3>1. refs \in (UNION family) \cup {SetToSeq(S)}
      BY <1>4 DEF RefLists
    <3>2. \A F \in family : \E n \in 0..MaxTracks : F = [1..n -> Refs]
      OBVIOUS
    <3> HIDE DEF family, S
    <3>3. CASE refs \in UNION family
      <4>1. PICK F \in family : refs \in F
        BY <3>3
      <4> QED  BY <3>2, <4>1
    <3> QED  BY <3>1, <3>3
  <2> HIDE DEF S
  <2> QED  BY <1>2, <1>3, <2>1
<1> QED  BY <1>4

LEMMA ResponsesAre ==
    ASSUME Typed, NEW response \in Responses
    PROVE  response \in Seq(Request) /\ Len(response) <= MaxCalls + 1
<1>1. MaxCalls \in Nat \ {0}
  BY CurationAssumption
<1>2. \A refs \in RefLists : Create(refs) \in Request
  BY RefListsAre DEF Create, Request
<1>3. Forbidden \in Request /\ [tool |-> "overview"] \in Request
  BY DEF Request
<1>4. \A r \in Refs : <<r>> \in Seq(Nat \X Nat)
  BY RefsAre
<1>5. \A r \in Refs : Look(<<r>>) \in Request /\ Create(<<r>>) \in Request
  BY <1>4 DEF Look, Create, Request
<1>6. \A f \in Filters, l \in Limits, again \in BOOLEAN : Ask(f, l, again) \in Request
  BY DEF Ask, Request
<1>7. Reads \subseteq Request
  <2>1. SUFFICES ASSUME NEW x \in Reads PROVE x \in Request
    OBVIOUS
  <2>2. \/ \E f \in Filters, l \in Limits, again \in BOOLEAN : x = Ask(f, l, again)
        \/ \E r \in Refs : x = Look(<<r>>)
        \/ x = [tool |-> "overview"]
    BY <2>1 DEF Reads
  <2> QED  BY <1>3, <1>5, <1>6, <2>2
<1>8. CASE \E w \in Writes \cup {Forbidden} : response = <<w>>
  <2>1. PICK w \in Writes \cup {Forbidden} : response = <<w>>
    BY <1>8
  <2>2. w \in Request
    BY <1>2, <1>3 DEF Writes
  <2> QED  BY <1>1, <2>1, <2>2
<1>9. CASE \E n \in 1..MaxCalls : response \in [1..n -> Reads]
  <2>1. PICK n \in 1..MaxCalls : response \in [1..n -> Reads]
    BY <1>9
  <2>2. n \in Nat /\ response \in [1..n -> Request]
    BY <1>1, <1>7, <2>1
  <2>3. response \in Seq(Request) /\ Len(response) = n
    BY <2>2, FunctionIsSequence
  <2> QED  BY <1>1, <2>1, <2>3
<1>10. CASE \E r \in Refs : response = <<[tool |-> "overview"], Create(<<r>>)>>
  <2>1. PICK r \in Refs : response = <<[tool |-> "overview"], Create(<<r>>)>>
    BY <1>10
  <2>2. [tool |-> "overview"] \in Request /\ Create(<<r>>) \in Request
    BY <1>3, <1>5
  <2> QED  BY <1>1, <2>1, <2>2
<1>11. \/ \E w \in Writes \cup {Forbidden} : response = <<w>>
       \/ \E n \in 1..MaxCalls : response \in [1..n -> Reads]
       \/ \E r \in Refs : response = <<[tool |-> "overview"], Create(<<r>>)>>
  <2> DEFINE family == {[1..n -> Reads] : n \in 1..MaxCalls}
             single == {<<w>> : w \in Writes \cup {Forbidden}}
             mixed  == {<<[tool |-> "overview"], Create(<<r>>)>> : r \in Refs}
  <2>1. response \in single \cup (UNION family) \cup mixed
    BY DEF Responses
  <2>2. \A F \in family : \E n \in 1..MaxCalls : F = [1..n -> Reads]
    OBVIOUS
  <2>3. CASE response \in single
    BY <2>3
  <2>4. CASE response \in mixed
    BY <2>4
  <2> HIDE DEF family, single, mixed
  <2>5. CASE response \in UNION family
    <3>1. PICK F \in family : response \in F
      BY <2>5
    <3> QED  BY <2>2, <3>1
  <2> QED  BY <2>1, <2>3, <2>4, <2>5
<1> QED  BY <1>8, <1>9, <1>10, <1>11

LEMMA RespondPreserves ==
    ASSUME Curated, NEW a \in Agents, NEW response \in Responses, Respond(a, response)
    PROVE  Curated'
<1>1. Typed /\ AgentOK(a) /\ PagesOK(history, paging[a])
  BY DEF Curated
<1>2. response \in Seq(Request) /\ Len(response) <= MaxCalls + 1
  BY <1>1, ResponsesAre
<1>3. turns' \in [Agents -> 0..MaxTurns]
  <2>1. turns \in [Agents -> 0..MaxTurns] /\ MaxTurns \in Nat
    BY <1>1, CurationAssumption DEF Typed
  <2>2. turns[a] < MaxTurns /\ turns' = [turns EXCEPT ![a] = @ + 1]
    BY DEF Respond
  <2>3. turns[a] + 1 \in 0..MaxTurns
    BY <2>1, <2>2
  <2> QED  BY <2>1, <2>2, <2>3
<1>4. Typed'
  BY <1>1, <1>2, <1>3 DEF Typed, Respond, Stage
<1>5. pc'[a] = "calling" /\ pc[a] # "ended" /\ calls'[a] = response
  BY <1>1 DEF Typed, Respond
<1>6. \A b \in Agents \ {a} : Still(b)
  BY <1>1 DEF Typed, Respond, Still
<1>7. UNCHANGED <<history, drafts, draft, outcome, checking, paging>>
  BY DEF Respond
<1> QED  BY <1>1, <1>2, <1>4, <1>5, <1>6, <1>7, AgentMoved

-----------------------------------------------------------------------------
(* Searches *)

\* What a page has to be: the first matches after the cursor, and a cursor for
\* the rest while there is one.
PageOf(lib, f, limit, after, page) ==
    LET rest == {t \in Found(lib, f) : t > after}
        ids  == page.tracks
    IN  /\ ids \in Seq(TrackIds)
        /\ \A i, j \in 1..Len(ids) : i < j => ids[i] < ids[j]
        /\ \A i \in 1..Len(ids) : ids[i] \in rest
        /\ \/ page.next = NoCursor /\ Range(ids) = rest
           \/ /\ page.next # NoCursor
              /\ page.next \in [after: TrackIds, filters: {f}, limit: {limit}]
              /\ ids # << >> /\ page.next.after = ids[Len(ids)]
              /\ Range(ids) = {t \in rest : t <= page.next.after}
              /\ \E t \in rest : t > page.next.after

LEMMA CursorIs ==
    ASSUME NEW after \in TrackIds, NEW f, NEW limit
    PROVE  Cursor(after, f, limit) \in [after: TrackIds, filters: {f}, limit: {limit}]
           /\ Cursor(after, f, limit).after = after /\ Cursor(after, f, limit) # NoCursor
<1>1. after # 0
  BY CurationAssumption
<1>2. Cursor(after, f, limit).after = after /\ NoCursor.after = 0
  BY DEF Cursor, NoCursor
<1> QED  BY <1>1, <1>2 DEF Cursor

LEMMA SearchIs ==
    ASSUME NEW lib \in Lib, NEW f, NEW limit \in Limits, NEW cursor, cursor.after \in Nat
    PROVE  PageOf(lib, f, limit, cursor.after, Search(lib, f, limit, cursor))
<1> DEFINE after == cursor.after
           rest == {t \in Found(lib, f) : t > after}
           n == Cardinality(rest)
           ids == Ascending(rest)
           m == IF limit < Len(ids) THEN limit ELSE Len(ids)
           page == SubSeq(ids, 1, m)
           next == IF Len(ids) > limit THEN Cursor(page[limit], f, limit) ELSE NoCursor
<1>1. rest \subseteq TrackIds /\ IsFiniteSet(rest) /\ rest \subseteq Int
  <2>1. rest \subseteq Candidates(lib)
    BY DEF Found
  <2>2. Candidates(lib) \subseteq TrackIds /\ IsFiniteSet(Candidates(lib))
    BY LibraryIs
  <2> HIDE DEF rest
  <2> QED  BY <2>1, <2>2, FS_Subset, CurationAssumption
<1>2. Selected(lib, f, after) = ids
  <2>1. {t \in Candidates(lib) : t > after /\ Matches(lib, t, f)} = rest
    BY DEF Found
  <2> QED  BY <2>1 DEF Selected
<1>3. /\ Search(lib, f, limit, cursor).tracks = page
      /\ Search(lib, f, limit, cursor).next = next
  BY <1>2 DEF Search
<1> HIDE DEF rest
<1>4. /\ n \in Nat /\ ids \in [1..n -> rest]
      /\ \A i, j \in 1..n : i < j => ids[i] < ids[j]
      /\ \A t \in rest : \E i \in 1..n : ids[i] = t
  BY <1>1, AscendingIs
<1> HIDE DEF n, ids
<1>5. Len(ids) = n
  BY <1>4, FunctionIsSequence
<1>6. limit \in Nat \ {0} /\ m \in 0..n /\ (limit < n => m = limit) /\ (~(limit < n) => m = n)
  BY <1>4, <1>5, CurationAssumption
<1> HIDE DEF m
<1>7. page \in Seq(rest) /\ Len(page) = m /\ \A i \in 1..m : page[i] = ids[i]
  <2>1. m \in Nat /\ \A i \in 1..m : ids[i] \in rest
    BY <1>4, <1>6
  <2> QED  BY <2>1, PrefixIs
<1> HIDE DEF page
<1>8. page \in Seq(TrackIds)
  BY <1>1, <1>7, SeqMonotonic
<1>9. \A i \in 1..m : page[i] \in rest
  BY <1>4, <1>6, <1>7
<1>10. \A i, j \in 1..m : i < j => page[i] < page[j]
  BY <1>4, <1>6, <1>7
<1>11. Range(page) = {page[i] : i \in 1..m}
  BY <1>7, LenProperties DEF Range
<1>12. CASE ~(limit < n)
  <2>1. next = NoCursor
    BY <1>4, <1>5, <1>6, <1>12
  <2>2. \A t \in rest : t \in Range(page)
    <3>1. m = n
      BY <1>6, <1>12
    <3> QED  BY <1>4, <1>7, <1>11, <3>1
  <2>3. Range(page) = rest
    BY <1>9, <1>11, <2>2
  <2> HIDE DEF next
  <2> QED  BY <1>3, <1>7, <1>8, <1>9, <1>10, <2>1, <2>3 DEF PageOf, rest
<1>13. CASE limit < n
  <2>1. m = limit /\ m \in 1..n /\ m + 1 \in 1..n
    BY <1>4, <1>6, <1>13
  <2> DEFINE last == page[m]
  <2>2. last \in TrackIds /\ last = ids[m] /\ last \in Int
    <3>1. m \in 1..m
      BY <2>1
    <3>2. page[m] \in rest /\ page[m] = ids[m]
      BY <1>7, <1>9, <3>1
    <3> QED  BY <1>1, <3>2
  <2>3. next = Cursor(last, f, limit)
    BY <1>4, <1>5, <1>6, <1>13, <2>1
  <2> HIDE DEF last, next
  <2>4. /\ next # NoCursor /\ next \in [after: TrackIds, filters: {f}, limit: {limit}]
        /\ next.after = last
    BY <2>2, <2>3, CursorIs
  <2>5. page # << >> /\ last = page[Len(page)]
    <3>1. Len(page) # 0 /\ page # << >>
      BY <1>6, <1>7, <2>1, EmptySeq
    <3> QED  BY <1>7, <3>1 DEF last
  <2>6. \A i \in 1..n : i > m => ids[i] > last
    <3>1. SUFFICES ASSUME NEW i \in 1..n, i > m PROVE ids[i] > last
      OBVIOUS
    <3>2. ids[m] < ids[i]
      BY <1>4, <2>1, <3>1
    <3>3. ids[i] \in Int
      BY <1>1, <1>4
    <3> QED  BY <2>2, <3>2, <3>3
  <2>7. \A i \in 1..m : page[i] <= last
    <3>1. SUFFICES ASSUME NEW i \in 1..m PROVE page[i] <= last
      OBVIOUS
    <3>2. page[i] \in Int /\ i \in Int /\ m \in Int /\ i <= m
      <4>1. page[i] \in Int
        BY <1>1, <1>9
      <4>2. m \in Int
        BY <2>1
      <4> QED  BY <4>1, <4>2
    <3>3. CASE i < m
      <4>1. page[i] < page[m]
        BY <1>10, <2>1, <3>3
      <4> QED  BY <2>2, <3>2, <4>1 DEF last
    <3>4. CASE i = m
      BY <2>2, <3>4 DEF last
    <3> QED  BY <3>2, <3>3, <3>4
  <2>8. \A t \in rest : t <= last => t \in Range(page)
    <3>1. SUFFICES ASSUME NEW t \in rest, t <= last PROVE t \in Range(page)
      OBVIOUS
    <3>2. PICK i \in 1..n : ids[i] = t
      BY <1>4
    <3>3. t \in Int
      BY <1>1
    <3>4. ~(i > m)
      BY <2>2, <2>6, <3>1, <3>2, <3>3
    <3>5. i \in 1..m
      BY <2>1, <3>4
    <3> QED  BY <1>7, <1>11, <3>2, <3>5
  <2>9. Range(page) = {t \in rest : t <= last}
    BY <1>9, <1>11, <2>7, <2>8
  <2>10. \E t \in rest : t > last
    <3>1. ids[m + 1] \in rest /\ ids[m + 1] > last
      BY <1>4, <2>1, <2>6
    <3> QED  BY <3>1
  <2> QED  BY <1>3, <1>7, <1>8, <1>9, <1>10, <2>4, <2>5, <2>9, <2>10 DEF PageOf, rest
<1> QED  BY <1>12, <1>13

-----------------------------------------------------------------------------
(* Tool calls *)

LEMMA CallIs ==
    ASSUME Typed, NEW a \in Agents, NEW tool, Call(a, tool)
    PROVE  /\ calls[a] \in Seq(Request) /\ calls[a] # << >> /\ Head(calls[a]) \in Request
           /\ Tail(calls[a]) \in Seq(Request) /\ Len(Tail(calls[a])) = Len(calls[a]) - 1
           /\ Len(calls[a]) \in Nat /\ pc[a] = "calling"
           /\ tool = "search" => Head(calls[a]) \in
                  [tool: {"search"}, filters: Filters, limit: Limits, again: BOOLEAN]
           /\ tool \in {"get", "create"} => Head(calls[a]).refs \in Seq(Nat \X Nat)
<1>1. /\ calls[a] \in Seq(Request) /\ calls[a] # << >> /\ pc[a] = "calling"
      /\ Head(calls[a]).tool = tool
  BY DEF Typed, Call
<1>2. /\ Head(calls[a]) \in Request /\ Tail(calls[a]) \in Seq(Request)
      /\ Len(Tail(calls[a])) = Len(calls[a]) - 1 /\ Len(calls[a]) \in Nat
  BY <1>1, HeadTailProperties, LenProperties
<1> DEFINE call == Head(calls[a])
<1>3. \/ call \in [tool: {"search"}, filters: Filters, limit: Limits, again: BOOLEAN]
      \/ call \in [tool: {"get", "create"}, refs: Seq(Nat \X Nat)]
      \/ call.tool \in {"overview", "forbidden"}
  BY <1>2 DEF Request, Forbidden
<1> QED  BY <1>1, <1>2, <1>3

LEMMA ReadOverviewPreserves ==
    ASSUME Curated, NEW a \in Agents, ReadOverview(a)
    PROVE  Curated'
<1>1. Typed /\ AgentOK(a) /\ PagesOK(history, paging[a])
  BY DEF Curated
<1>2. /\ Tail(calls[a]) \in Seq(Request) /\ Len(Tail(calls[a])) = Len(calls[a]) - 1
      /\ Len(calls[a]) \in Nat /\ pc[a] = "calling"
  BY <1>1, CallIs DEF ReadOverview
<1>3. Typed'
  BY <1>1, <1>2 DEF Typed, ReadOverview, NextCall
<1>4. \A b \in Agents \ {a} : Still(b)
  BY <1>1 DEF Typed, ReadOverview, NextCall, Still
<1>5. /\ calls'[a] = Tail(calls[a]) /\ pc' = pc /\ paging' = paging
      /\ UNCHANGED <<history, drafts, draft, outcome, checking>>
  BY <1>1 DEF Typed, ReadOverview, NextCall
<1>6. Len(calls'[a]) <= MaxCalls + 1
  BY <1>1, <1>2, <1>5, CurationAssumption DEF AgentOK
<1> QED  BY <1>1, <1>2, <1>3, <1>4, <1>5, <1>6, AgentMoved

LEMMA GetCandidatesPreserves ==
    ASSUME Curated, NEW a \in Agents, GetCandidates(a)
    PROVE  Curated'
<1>1. Typed /\ AgentOK(a) /\ PagesOK(history, paging[a])
  BY DEF Curated
<1>2. /\ Tail(calls[a]) \in Seq(Request) /\ Len(Tail(calls[a])) = Len(calls[a]) - 1
      /\ Len(calls[a]) \in Nat /\ pc[a] = "calling"
  BY <1>1, CallIs DEF GetCandidates
<1>3. CASE End(a, "unavailable")
  BY <1>3, RunStopped DEF GetCandidates, Outcome
<1>4. CASE NextCall(a) /\ UNCHANGED <<pc, outcome, turns, alone, paging>>
  <2>1. Typed'
    BY <1>1, <1>2, <1>4 DEF Typed, GetCandidates, NextCall
  <2>2. \A b \in Agents \ {a} : Still(b)
    BY <1>1, <1>4 DEF Typed, GetCandidates, NextCall, Still
  <2>3. /\ calls'[a] = Tail(calls[a]) /\ pc' = pc /\ paging' = paging
        /\ UNCHANGED <<history, drafts, draft, outcome, checking>>
    BY <1>1, <1>4 DEF Typed, GetCandidates, NextCall
  <2>4. Len(calls'[a]) <= MaxCalls + 1
    BY <1>1, <1>2, <2>3, CurationAssumption DEF AgentOK
  <2> QED  BY <1>1, <1>2, <2>1, <2>2, <2>3, <2>4, AgentMoved
<1> QED  BY <1>3, <1>4 DEF GetCandidates

LEMMA ResolveCreationPreserves ==
    ASSUME Curated, NEW a \in Agents, ResolveCreation(a)
    PROVE  Curated'
<1>1. Typed /\ AgentOK(a) /\ PagesOK(history, paging[a])
  BY DEF Curated
<1>2. calls[a] # << >> /\ Head(calls[a]).tool = "create" /\ pc[a] = "calling"
  BY DEF ResolveCreation, Call
<1>3. CASE (End(a, "stale") \/ End(a, "unavailable")) /\ UNCHANGED resolved
  BY <1>3, RunStopped DEF ResolveCreation, Outcome
<1>4. CASE /\ ~(Len(Head(calls[a]).refs) > MaxTracks)
           /\ Resolvable(catalog, Head(calls[a]).refs)
           /\ pc' = [pc EXCEPT ![a] = "storing"]
           /\ resolved' = [resolved EXCEPT ![a] = Now]
           /\ UNCHANGED <<outcome, turns, calls, alone, paging>>
  <2>1. Now \in Nat \ {0} /\ catalog = LibAt(history, Now) /\ Now = Len(history)
    BY <1>1, HistoryIs DEF Now
  <2>2. Typed'
    BY <1>1, <1>4, <2>1 DEF Typed, ResolveCreation, Stage
  <2>3. \A b \in Agents \ {a} : Still(b)
    BY <1>1, <1>4 DEF Typed, ResolveCreation, Still
  <2>4. /\ pc'[a] = "storing" /\ resolved'[a] = Now /\ calls' = calls /\ paging' = paging
        /\ UNCHANGED <<history, drafts, draft, outcome, checking>>
    BY <1>1, <1>4 DEF Typed, ResolveCreation
  <2>5. Len(Head(calls[a]).refs) <= MaxTracks
    <3>1. Head(calls[a]).refs \in Seq(Nat \X Nat)
      BY <1>1, CallIs DEF ResolveCreation
    <3>2. Len(Head(calls[a]).refs) \in Nat
      BY <3>1, LenProperties
    <3> QED  BY <1>4, <3>2, CurationAssumption
  <2>6. Commissioned(history, calls'[a], resolved'[a])
    BY <1>2, <1>4, <2>1, <2>4, <2>5 DEF Commissioned
  <2>7. Len(calls'[a]) <= MaxCalls + 1
    BY <1>1, <2>4 DEF AgentOK
  <2> QED  BY <1>1, <1>2, <2>2, <2>3, <2>4, <2>6, <2>7, AgentMoved
<1> QED  BY <1>3, <1>4 DEF ResolveCreation

\* The page a search gives, put after the pages before it.
LEMMA PagesContinue ==
    ASSUME NEW h, Len(h) \in Nat \ {0}, NEW lib \in Lib, lib = LibAt(h, Len(h)),
           NEW p \in Pages, PagesOK(h, p),
           NEW f \in Filters, NEW limit \in Limits,
           NEW cursor, cursor = NoCursor \/ cursor = p.next, CursorFits(cursor, f, limit),
           NEW page, PageOf(lib, f, limit, cursor.after, page),
           NEW q \in Pages,
           q.ids = (IF cursor = NoCursor THEN << >> ELSE p.ids) \o page.tracks,
           q.next = page.next,
           q.snapshots = (IF cursor = NoCursor THEN {} ELSE p.snapshots) \cup {Len(h)},
           q.query = (IF cursor = NoCursor THEN <<f, limit>> ELSE p.query)
    PROVE  PagesOK(h, q)
<1> DEFINE now   == Len(h)
           found == Found(lib, f)
<1>1. cursor.after \in Nat /\ (cursor = NoCursor => cursor.after = 0)
  <2>1. NoCursor.after = 0
    BY DEF NoCursor
  <2>2. p.next # NoCursor => p.next.after \in Nat
    <3>1. p.next \in {NoCursor} \cup NextPage
      BY DEF Pages
    <3>2. p.next \in NextPage => p.next.after \in TrackIds
      BY DEF NextPage
    <3> QED  BY <3>1, <3>2, CurationAssumption
  <2> QED  BY <2>1, <2>2
<1>3. \A t \in found : t \in Int /\ t > 0
  <2>1. found \subseteq TrackIds
    BY LibraryIs DEF Found
  <2>2. \A t \in TrackIds : t \in Int /\ t > 0
    BY CurationAssumption
  <2> QED  BY <2>1, <2>2
<1> HIDE DEF found
<1> DEFINE ids == page.tracks
           rest == {t \in found : t > cursor.after}
<1>4. /\ ids \in Seq(TrackIds)
      /\ \A i, j \in 1..Len(ids) : i < j => ids[i] < ids[j]
      /\ \A i \in 1..Len(ids) : ids[i] \in rest
  BY DEF PageOf, found
<1>10. \/ page.next = NoCursor /\ Range(ids) = rest
       \/ /\ page.next # NoCursor
          /\ page.next \in [after: TrackIds, filters: {f}, limit: {limit}]
          /\ ids # << >> /\ page.next.after = ids[Len(ids)]
          /\ Range(ids) = {t \in rest : t <= page.next.after}
          /\ \E t \in rest : t > page.next.after
  BY DEF PageOf, found
<1>5. page.next # NoCursor => page.next.filters = f /\ page.next.limit = limit
  BY <1>10
<1>6. Len(ids) \in Nat /\ (ids # << >> => Len(ids) # 0)
  BY <1>4, LenProperties, EmptySeq
<1>7. /\ \A t \in TrackIds : t \in Int
      /\ \A t : t \in rest <=> t \in found /\ t > cursor.after
  BY CurationAssumption
<1> HIDE DEF ids, rest
<1>8. CASE cursor = NoCursor
  <2>1. q.ids = ids
    BY <1>4, <1>8, ConcatEmptySeq DEF ids
  <2>2. q.next = page.next /\ q.snapshots = {now} /\ q.query = <<f, limit>>
    BY <1>8
  <2>3. rest = found
    BY <1>1, <1>3, <1>8 DEF rest
  <2>4. q.next # NoCursor => q.query = <<q.next.filters, q.next.limit>>
    BY <1>5, <2>2
  <2>5. \A n \in q.snapshots : n = now /\ n \in 1..Len(h) /\ Found(LibAt(h, n), q.query[1]) = found
    BY <2>2 DEF found
  <2> QED  BY <1>4, <1>10, <2>1, <2>2, <2>3, <2>4, <2>5 DEF PagesOK
<1>9. CASE cursor # NoCursor
  <2>1. /\ cursor = p.next /\ p.next # NoCursor
        /\ cursor.filters = f /\ cursor.limit = limit
    BY <1>9 DEF CursorFits
  <2>2. /\ q.ids = p.ids \o ids /\ q.next = page.next
        /\ q.snapshots = p.snapshots \cup {now} /\ q.query = p.query
    BY <1>9 DEF ids
  <2>3. /\ p.ids \in Seq(TrackIds) /\ p.ids # << >> /\ p.snapshots # {}
        /\ cursor.after = p.ids[Len(p.ids)] /\ p.query = <<f, limit>>
        /\ p.snapshots \subseteq 1..now
        /\ \A i, j \in 1..Len(p.ids) : i < j => p.ids[i] < p.ids[j]
    BY <2>1 DEF PagesOK, Pages
  <2> DEFINE k == Len(p.ids)
             l == Len(ids)
  <2>4. k \in Nat \ {0} /\ \A i \in 1..k : p.ids[i] \in TrackIds
    BY <2>3, EmptySeq, ElementOfSeq
  <2>5. /\ q.ids \in Seq(TrackIds) /\ Len(q.ids) = k + l
        /\ \A i \in 1..(k + l) : q.ids[i] = IF i <= k THEN p.ids[i] ELSE ids[i - k]
    <3>1. q.ids = p.ids \o ids /\ p.ids \in Seq(TrackIds) /\ ids \in Seq(TrackIds)
      BY <1>4, <2>2, <2>3
    <3>2. /\ p.ids \o ids \in Seq(TrackIds) /\ Len(p.ids \o ids) = Len(p.ids) + Len(ids)
          /\ \A i \in 1..(Len(p.ids) + Len(ids)) :
                 (p.ids \o ids)[i] = IF i <= Len(p.ids) THEN p.ids[i] ELSE ids[i - Len(p.ids)]
      BY <3>1, ConcatProperties
    <3> QED  BY <3>1, <3>2
  <2>6. Range(q.ids) = Range(p.ids) \cup Range(ids)
    <3>1. q.ids = p.ids \o ids /\ p.ids \in Seq(TrackIds) /\ ids \in Seq(TrackIds)
      BY <1>4, <2>2, <2>3
    <3>2. Range(p.ids \o ids) = Range(p.ids) \cup Range(ids)
      BY <3>1, RangeConcatenation
    <3> QED  BY <3>1, <3>2
  <2> HIDE DEF k, l
  <2>7. \A i \in 1..k : p.ids[i] <= cursor.after
    <3>1. SUFFICES ASSUME NEW i \in 1..k PROVE p.ids[i] <= cursor.after
      OBVIOUS
    <3>2. p.ids[i] \in Int /\ cursor.after \in Int /\ cursor.after = p.ids[k]
      <4>1. p.ids[i] \in TrackIds
        BY <2>4
      <4> QED  BY <1>1, <1>7, <2>3, <4>1 DEF k
    <3>3. i = k \/ i < k
      BY <2>4
    <3>4. i < k => p.ids[i] < p.ids[k]
      BY <2>3, <2>4 DEF k
    <3> QED  BY <3>2, <3>3, <3>4
  <2>8. \A i \in 1..l : ids[i] > cursor.after /\ ids[i] \in Int
    <3>1. \A i \in 1..l : ids[i] \in rest
      BY <1>4 DEF l
    <3> QED  BY <1>3, <1>7, <3>1
  <2>9. \A i, j \in 1..Len(q.ids) : i < j => q.ids[i] < q.ids[j]
    <3>1. SUFFICES ASSUME NEW i \in 1..(k + l), NEW j \in 1..(k + l), i < j
                   PROVE  q.ids[i] < q.ids[j]
      BY <2>5
    <3>2. l \in Nat
      BY <1>6 DEF l
    <3>3. CASE j <= k
      <4>1. i \in 1..k /\ j \in 1..k
        BY <2>4, <3>1, <3>3
      <4>2. p.ids[i] < p.ids[j]
        BY <2>3, <3>1, <4>1 DEF k
      <4>3. q.ids[i] = p.ids[i] /\ q.ids[j] = p.ids[j]
        <5>1. i <= k /\ j <= k
          BY <2>4, <4>1
        <5> QED  BY <2>5, <3>1, <5>1
      <4> QED  BY <4>2, <4>3
    <3>4. CASE i > k
      <4>1. i - k \in 1..l /\ j - k \in 1..l /\ i - k < j - k
        BY <2>4, <3>1, <3>2, <3>4
      <4>2. q.ids[i] = ids[i - k] /\ q.ids[j] = ids[j - k]
        <5>1. ~(i <= k) /\ ~(j <= k)
          BY <2>4, <3>1, <3>2, <3>4
        <5> QED  BY <2>5, <3>1, <5>1
      <4> QED  BY <1>4, <4>1, <4>2 DEF l
    <3>5. CASE i <= k /\ ~(j <= k)
      <4>1. i \in 1..k /\ j - k \in 1..l
        BY <2>4, <3>1, <3>2, <3>5
      <4>2. q.ids[i] = p.ids[i] /\ q.ids[j] = ids[j - k]
        BY <2>5, <3>5
      <4>3. p.ids[i] \in Int /\ ids[j - k] \in Int /\ cursor.after \in Int
        <5>1. p.ids[i] \in TrackIds
          BY <2>4, <4>1
        <5> QED  BY <1>1, <1>7, <2>8, <4>1, <5>1
      <4>4. p.ids[i] <= cursor.after /\ ids[j - k] > cursor.after
        BY <2>7, <2>8, <4>1
      <4>5. p.ids[i] < ids[j - k]
        BY <4>3, <4>4
      <4> QED  BY <4>2, <4>5
    <3>6. j <= k \/ i > k \/ (i <= k /\ ~(j <= k))
      BY <2>4, <3>1, <3>2
    <3> QED  BY <3>3, <3>4, <3>5, <3>6
  <2>10. q.snapshots \subseteq 1..Len(h)
    BY <2>2, <2>3
  <2>11. q.next # NoCursor =>
             /\ q.ids # << >> /\ q.snapshots # {}
             /\ q.next.after = q.ids[Len(q.ids)]
             /\ q.query = <<q.next.filters, q.next.limit>>
    <3>1. SUFFICES ASSUME q.next # NoCursor
                   PROVE  /\ q.ids # << >> /\ q.snapshots # {}
                          /\ q.next.after = q.ids[Len(q.ids)]
                          /\ q.query = <<q.next.filters, q.next.limit>>
      OBVIOUS
    <3>2. q.next.after = ids[l] /\ l # 0 /\ l \in Nat
      BY <1>6, <1>10, <2>2, <3>1 DEF l
    <3>3. q.ids[k + l] = ids[l] /\ Len(q.ids) # 0
      <4>1. k + l \in 1..(k + l) /\ ~(k + l <= k) /\ (k + l) - k = l /\ k + l # 0
        BY <2>4, <3>2
      <4>2. q.ids[k + l] = ids[(k + l) - k]
        BY <2>5, <4>1
      <4> QED  BY <2>5, <4>1, <4>2
    <3>4. q.ids # << >>
      BY <3>3, EmptySeq
    <3> QED  BY <1>5, <2>2, <2>3, <2>5, <3>1, <3>2, <3>3, <3>4
  <2>12. ASSUME NEW n \in q.snapshots, q.snapshots = {n}
         PROVE  IF q.next = NoCursor THEN Range(q.ids) = found
                ELSE /\ Range(q.ids) = {t \in found : t <= q.next.after}
                     /\ \E t \in found : t > q.next.after
    <3>1. n = now /\ p.snapshots = {now}
      BY <2>2, <2>3, <2>12
    <3>2. Range(p.ids) = {t \in found : t <= cursor.after}
      BY <2>1, <2>3, <3>1 DEF PagesOK, found
    <3>3. cursor.after \in Int /\ \A t \in found : t \in Int
      BY <1>1, <1>3
    <3>4. CASE q.next = NoCursor
      <4>1. Range(ids) = rest
        BY <1>10, <2>2, <3>4
      <4>2. found = {t \in found : t <= cursor.after} \cup rest
        BY <3>3 DEF rest
      <4> QED  BY <2>6, <3>2, <3>4, <4>1, <4>2
    <3>5. CASE q.next # NoCursor
      <4>1. /\ Range(ids) = {t \in rest : t <= q.next.after}
            /\ \E t \in rest : t > q.next.after
            /\ q.next.after = ids[l] /\ l # 0 /\ l \in Nat
        BY <1>6, <1>10, <2>2, <3>5 DEF l
      <4>2. q.next.after \in Int /\ cursor.after < q.next.after
        <5>1. l \in 1..l
          BY <4>1
        <5> QED  BY <2>8, <3>3, <4>1, <5>1
      <4>3. {t \in found : t <= q.next.after}
                = {t \in found : t <= cursor.after} \cup {t \in rest : t <= q.next.after}
        <5>1. \A t \in found : t <= q.next.after <=> t <= cursor.after \/ (t > cursor.after /\ t <= q.next.after)
          BY <3>3, <4>2
        <5> QED  BY <1>7, <5>1
      <4>4. \E t \in found : t > q.next.after
        BY <1>7, <4>1
      <4> QED  BY <2>6, <3>2, <3>5, <4>1, <4>3, <4>4
    <3> QED  BY <3>4, <3>5
  <2>13. \A n \in q.snapshots : q.snapshots = {n} =>
             n = now /\ Found(LibAt(h, n), q.query[1]) = found
    BY <2>2, <2>3 DEF found
  <2> HIDE DEF rest, now
  <2> QED  BY <2>9, <2>10, <2>11, <2>12, <2>13 DEF PagesOK
<1> QED  BY <1>8, <1>9

LEMMA SearchCandidatesPreserves ==
    ASSUME Curated, NEW a \in Agents, SearchCandidates(a)
    PROVE  Curated'
<1> DEFINE ask    == Head(calls[a])
           cursor == IF ask.again THEN paging[a].next ELSE NoCursor
           page   == Search(catalog, ask.filters, ask.limit, cursor)
           first  == cursor = NoCursor
           next   == [ids |-> (IF first THEN << >> ELSE paging[a].ids) \o page.tracks,
                      next |-> page.next,
                      snapshots |-> (IF first THEN {} ELSE paging[a].snapshots) \cup {Now},
                      query |-> IF first THEN <<ask.filters, ask.limit>> ELSE paging[a].query]
<1>1. Typed /\ AgentOK(a) /\ PagesOK(history, paging[a])
  BY DEF Curated
<1>2. /\ Tail(calls[a]) \in Seq(Request) /\ Len(Tail(calls[a])) = Len(calls[a]) - 1
      /\ Len(calls[a]) \in Nat /\ pc[a] = "calling"
      /\ ask \in [tool: {"search"}, filters: Filters, limit: Limits, again: BOOLEAN]
  BY <1>1, CallIs DEF SearchCandidates
<1>3. CASE End(a, "unavailable")
  BY <1>3, RunStopped DEF SearchCandidates, Outcome
<1>4. CASE /\ CursorFits(cursor, ask.filters, ask.limit)
           /\ NextCall(a)
           /\ paging' = [paging EXCEPT ![a] = next]
           /\ UNCHANGED <<pc, outcome, turns, alone>>
  <2>1. /\ Now \in Nat \ {0} /\ catalog \in Lib /\ catalog = LibAt(history, Now)
        /\ Now = Len(history)
    BY <1>1, HistoryIs DEF Now
  <2>2. ask.filters \in Filters /\ ask.limit \in Limits
    BY <1>2
  <2>3. paging[a] \in Pages
    BY <1>1 DEF Typed
  <2>4. cursor \in {NoCursor, paging[a].next}
    OBVIOUS
  <2>5. cursor.after \in Nat
    <3>1. NoCursor.after = 0
      BY DEF NoCursor
    <3>2. paging[a].next \in {NoCursor} \cup NextPage
      BY <2>3 DEF Pages
    <3>3. paging[a].next \in NextPage => paging[a].next.after \in TrackIds
      BY DEF NextPage
    <3>4. paging[a].next.after \in Nat
      BY <3>1, <3>2, <3>3, CurationAssumption
    <3> QED  BY <2>4, <3>1, <3>4
  <2> HIDE DEF ask, cursor
  <2>6. PageOf(catalog, ask.filters, ask.limit, cursor.after, page)
    BY <2>1, <2>2, <2>5, SearchIs
  <2> HIDE DEF page
  <2>7. page.tracks \in Seq(TrackIds) /\ page.next \in {NoCursor} \cup NextPage
    <3>1. /\ page.tracks \in Seq(TrackIds)
          /\ \/ page.next = NoCursor
             \/ page.next \in [after: TrackIds, filters: {ask.filters}, limit: {ask.limit}]
      BY <2>6 DEF PageOf
    <3> QED  BY <2>2, <3>1 DEF NextPage
  <2>8. next \in Pages
    <3>1. paging[a].ids \in Seq(TrackIds) /\ << >> \in Seq(TrackIds)
      BY <2>3, EmptySeq DEF Pages
    <3>2. (IF first THEN << >> ELSE paging[a].ids) \in Seq(TrackIds)
      BY <3>1
    <3>3. next.ids \in Seq(TrackIds)
      BY <2>7, <3>2, ConcatProperties
    <3>4. next.snapshots \in SUBSET Nat
      BY <2>1, <2>3 DEF Pages
    <3>5. next.query \in {<< >>} \cup (Filters \X Limits)
      BY <2>2, <2>3 DEF Pages
    <3> QED  BY <2>7, <3>3, <3>4, <3>5 DEF Pages
  <2>9. PagesOK(history, next)
    <3>1. /\ next.ids = (IF cursor = NoCursor THEN << >> ELSE paging[a].ids) \o page.tracks
          /\ next.next = page.next
          /\ next.snapshots = (IF cursor = NoCursor THEN {} ELSE paging[a].snapshots)
                              \cup {Len(history)}
          /\ next.query = IF cursor = NoCursor THEN <<ask.filters, ask.limit>>
                          ELSE paging[a].query
      BY <2>1
    <3>2. Len(history) \in Nat \ {0} /\ catalog = LibAt(history, Len(history))
      BY <2>1
    <3>3. CursorFits(cursor, ask.filters, ask.limit) /\ PagesOK(history, paging[a])
      BY <1>1, <1>4
    <3>4. catalog \in Lib /\ (cursor = NoCursor \/ cursor = paging[a].next)
      BY <2>1, <2>4
    <3> HIDE DEF next
    <3> QED  BY <2>2, <2>3, <2>6, <2>8, <3>1, <3>2, <3>3, <3>4, PagesContinue
  <2> HIDE DEF next
  <2>10. Typed'
    BY <1>1, <1>2, <1>4, <2>8 DEF Typed, SearchCandidates, NextCall
  <2>11. \A b \in Agents \ {a} : Still(b)
    BY <1>1, <1>4 DEF Typed, SearchCandidates, NextCall, Still
  <2>12. /\ calls'[a] = Tail(calls[a]) /\ pc' = pc /\ paging'[a] = next
         /\ UNCHANGED <<history, drafts, draft, outcome, checking>>
    BY <1>1, <1>4 DEF Typed, SearchCandidates, NextCall
  <2>13. Len(calls'[a]) <= MaxCalls + 1
    BY <1>1, <1>2, <2>12, CurationAssumption DEF AgentOK
  <2> QED  BY <1>1, <1>2, <2>9, <2>10, <2>11, <2>12, <2>13, AgentMoved
<1> QED  BY <1>3, <1>4 DEF SearchCandidates

\* What create_draft stores is what the resolved references name, also when the
\* run ends before it has read it back.
LEMMA InsertPreserves ==
    ASSUME Curated, NEW a \in Agents, Insert(a), pc[a] = "storing",
           UNCHANGED <<history, resolved, checking>>,
           \/ /\ pc' = [pc EXCEPT ![a] = "stored"]
              /\ UNCHANGED <<outcome, turns, calls, alone, paging>>
           \/ End(a, "unavailable")
    PROVE  Curated'
<1> DEFINE refs   == Head(calls[a]).refs
           tracks == TracksOf(refs)
           new    == [tracks |-> tracks, status |-> "draft", validated |-> Nobody,
                      resolvedAt |-> resolved[a], storedAt |-> Now]
           stops  == End(a, "unavailable")
<1>1. Typed /\ AgentOK(a) /\ PagesOK(history, paging[a])
  BY DEF Curated
<1>2. /\ StillAvailable(catalog, tracks)
      /\ drafts' = Append(drafts, new)
      /\ draft' = [draft EXCEPT ![a] = Len(drafts) + 1]
  BY DEF Insert
<1>3. Commissioned(history, calls[a], resolved[a])
  BY <1>1 DEF AgentOK
<1>4. refs \in Seq(Nat \X Nat)
  <2>1. calls[a] # << >> /\ Head(calls[a]).tool = "create" /\ calls[a] \in Seq(Request)
    BY <1>1, <1>3 DEF Commissioned, Typed
  <2>2. Head(calls[a]) \in Request
    BY <2>1, HeadTailProperties
  <2> QED  BY <2>1, <2>2 DEF Request, Forbidden
<1>5. /\ resolved[a] \in 1..Len(history) /\ Len(refs) <= MaxTracks
      /\ Resolvable(LibAt(history, resolved[a]), refs)
  BY <1>3 DEF Commissioned
<1>6. /\ LibAt(history, resolved[a]) \in Lib /\ Len(history) \in Nat \ {0}
      /\ catalog = LibAt(history, Len(history)) /\ catalog \in Lib /\ Now = Len(history)
  BY <1>1, <1>5, HistoryIs DEF Now
<1> HIDE DEF refs
<1>7. /\ Len(refs) # 0 /\ tracks \in Seq(TrackIds) /\ DOMAIN tracks = 1..Len(refs)
      /\ Len(tracks) = Len(refs)
      /\ Cardinality(Recordings(LibAt(history, resolved[a]), tracks)) = Len(refs)
  BY <1>4, <1>5, <1>6, ResolvedTracks
<1>8. Len(refs) \in Nat
  BY <1>4, LenProperties
<1> HIDE DEF tracks
<1>9. new \in Draft
  <2>1. resolved[a] \in Nat
    BY <1>1 DEF Typed
  <2> QED  BY <1>6, <1>7, <2>1 DEF Draft
<1>10. /\ new.tracks = tracks /\ new.resolvedAt = resolved[a] /\ new.storedAt = Now
  OBVIOUS
<1> HIDE DEF new
<1>11. DraftOK(history, new)
  <2>1. \A j \in 1..Len(tracks) : tracks[j] \in Available(catalog)
    BY <1>2, <1>7 DEF StillAvailable
  <2>2. Len(tracks) \in 1..MaxTracks
    BY <1>5, <1>7, <1>8, CurationAssumption
  <2>3. Len(history) \in 1..Len(history)
    BY <1>6
  <2> QED  BY <1>5, <1>6, <1>7, <1>10, <2>1, <2>2, <2>3 DEF DraftOK
<1>12. /\ drafts' \in Seq(Draft) /\ Len(drafts') = Len(drafts) + 1
       /\ \A i \in 1..Len(drafts) : drafts'[i] = drafts[i]
       /\ drafts'[Len(drafts) + 1] = new /\ Len(drafts) \in Nat
  BY <1>1, <1>2, <1>9, AppendProperties, LenProperties DEF Typed
<1>13. draft' \in [Agents -> Nat] /\ draft'[a] = Len(drafts) + 1
       /\ \A b \in Agents \ {a} : draft'[b] = draft[b]
  BY <1>1, <1>2, <1>12 DEF Typed
<1>14. << >> \in Seq(Request) /\ Len(<< >>) = 0 /\ 0 \in 0..MaxTurns
  BY EmptySeq, CurationAssumption
<1>15. Typed'
  <2>1. CASE stops
    <3>1. /\ pc' \in [Agents -> Stage] /\ outcome' \in [Agents -> Outcome]
          /\ turns' \in [Agents -> 0..MaxTurns] /\ alone' \in [Agents -> BOOLEAN]
      BY <1>1, <1>14, <2>1 DEF Typed, End, Stage, Outcome
    <3>2. calls' \in [Agents -> Seq(Request)] /\ paging' \in [Agents -> Pages]
      BY <1>1, <1>14, <2>1, NoPagesOK DEF Typed, End
    <3> QED  BY <1>1, <1>12, <1>13, <3>1, <3>2 DEF Typed
  <2>2. CASE /\ pc' = [pc EXCEPT ![a] = "stored"]
             /\ UNCHANGED <<outcome, turns, calls, alone, paging>>
    <3>1. pc' \in [Agents -> Stage]
      BY <1>1, <2>2 DEF Typed, Stage
    <3> QED  BY <1>1, <1>12, <1>13, <2>2, <3>1 DEF Typed
  <2> QED  BY <2>1, <2>2
<1>16. \A b \in Agents \ {a} : Still(b)
  BY <1>1, <1>13 DEF Typed, End, Still
<1>17. AgentOK(a)' /\ PagesOK(history', paging'[a])
  <2>1. CASE stops
    <3>1. /\ pc'[a] = "ended" /\ outcome'[a] = "unavailable"
          /\ calls'[a] = << >> /\ paging'[a] = NoPages
      BY <1>1, <2>1 DEF Typed, End
    <3>2. Len(calls'[a]) <= MaxCalls + 1
      BY <1>14, <3>1, CurationAssumption
    <3> QED  BY <1>12, <1>13, <3>1, <3>2, NoPagesOK DEF AgentOK
  <2>2. CASE /\ pc' = [pc EXCEPT ![a] = "stored"]
             /\ UNCHANGED <<outcome, turns, calls, alone, paging>>
    <3>1. outcome'[a] = "none" /\ pc'[a] = "stored"
      BY <1>1, <2>2 DEF AgentOK, Typed
    <3>2. draft'[a] \in 0..Len(drafts') /\ draft'[a] # 0
      BY <1>12, <1>13
    <3>3. Len(calls'[a]) <= MaxCalls + 1
      BY <1>1, <2>2 DEF AgentOK
    <3> QED  BY <1>1, <2>2, <3>1, <3>2, <3>3 DEF AgentOK
  <2> QED  BY <2>1, <2>2
<1>18. \A i \in 1..Len(drafts') : DraftOK(history', drafts'[i])
  <2>1. SUFFICES ASSUME NEW i \in 1..Len(drafts') PROVE DraftOK(history', drafts'[i])
    OBVIOUS
  <2>2. i \in 1..Len(drafts) \/ i = Len(drafts) + 1
    BY <1>12
  <2>3. \A k \in 1..Len(drafts) : DraftOK(history, drafts[k])
    BY DEF Curated
  <2> QED  BY <1>11, <1>12, <2>2, <2>3
<1>19. \A v \in Validators : CheckOK(v)'
  BY <1>12 DEF Curated, CheckOK
<1>20. Extends(history, history')
  BY <1>1, HistoryIs
<1>21. /\ Len(drafts') \in Nat /\ Len(drafts) <= Len(drafts')
       /\ \A i \in 1..Len(drafts) : drafts'[i].tracks = drafts[i].tracks
  BY <1>12
<1>22. \A x \in Agents \cap {a} : AgentOK(x)' /\ PagesOK(history', paging'[x])
  BY <1>17
<1> QED  BY <1>12, <1>15, <1>16, <1>18, <1>19, <1>20, <1>21, <1>22, Framed

LEMMA StorePreserves ==
    ASSUME Curated, NEW a \in Agents, StoreDraft(a) \/ StoreFails(a)
    PROVE  Curated'
<1>1. CASE StoreDraft(a)
  <2>1. CASE End(a, "stale") /\ UNCHANGED <<drafts, draft>>
    BY <1>1, <2>1, RunStopped DEF StoreDraft, Outcome
  <2>2. CASE /\ Insert(a)
             /\ pc' = [pc EXCEPT ![a] = "stored"]
             /\ UNCHANGED <<outcome, turns, calls, alone, paging>>
    BY <1>1, <2>2, InsertPreserves DEF StoreDraft
  <2> QED  BY <1>1, <2>1, <2>2 DEF StoreDraft
<1>2. CASE StoreFails(a)
  <2>1. CASE UNCHANGED <<drafts, draft>>
    BY <1>2, <2>1, RunStopped DEF StoreFails, Outcome
  <2>2. CASE Insert(a)
    BY <1>2, <2>2, InsertPreserves DEF StoreFails
  <2> QED  BY <1>2, <2>1, <2>2 DEF StoreFails
<1> QED  BY <1>1, <1>2

\* A draft that is resolved again consists of candidates.
LEMMA GroundPreserves ==
    ASSUME Curated, NEW a \in Agents, Ground(a)
    PROVE  Curated'
<1> DEFINE tracks == drafts[draft[a]].tracks
           refs   == [i \in DOMAIN tracks |-> Ref(catalog, tracks[i])]
           good   == Len(tracks) <= MaxTracks /\ Resolvable(catalog, refs)
           result == IF good THEN "success" ELSE "stale"
<1>1. Typed /\ AgentOK(a)
  BY DEF Curated
<1>2. /\ pc[a] = "stored" /\ End(a, result) /\ resolved' = [resolved EXCEPT ![a] = Now]
      /\ UNCHANGED <<history, drafts, draft, checking>>
  BY DEF Ground
<1>3. /\ Now \in Nat \ {0} /\ catalog \in Lib /\ catalog = LibAt(history, Now)
      /\ Now = Len(history)
  BY <1>1, HistoryIs DEF Now
<1>4. draft[a] \in 1..Len(drafts) /\ draft[a] # 0
  BY <1>1, <1>2 DEF AgentOK
<1>5. tracks \in Seq(TrackIds)
  <2>1. drafts[draft[a]] \in Draft
    BY <1>1, <1>4, ElementOfSeq DEF Typed
  <2> QED  BY <2>1 DEF Draft
<1> HIDE DEF tracks
<1>6. resolved' \in [Agents -> Nat] /\ resolved'[a] = Now
      /\ \A b \in Agents \ {a} : resolved'[b] = resolved[b]
  BY <1>1, <1>2, <1>3 DEF Typed
<1>7. ASSUME good PROVE Answered(history, tracks, Now)
  <2>1. DOMAIN tracks = 1..Len(tracks)
    BY <1>5, LenProperties
  <2>2. ASSUME NEW i \in 1..Len(tracks) PROVE tracks[i] \in Candidates(catalog)
    <3>1. i \in DOMAIN refs /\ refs[i] = Ref(catalog, tracks[i])
      BY <2>1
    <3>2. PICK t \in Candidates(catalog) : refs[i] = Ref(catalog, t)
      BY <1>7, <3>1 DEF Resolvable
    <3>3. t = tracks[i]
      BY <3>1, <3>2 DEF Ref
    <3> QED  BY <3>2, <3>3
  <2>3. Now \in 1..Len(history)
    BY <1>3
  <2> QED  BY <1>3, <2>2, <2>3 DEF Answered
<1>8. result \in Outcome \ {"none"} /\ (result = "success" => good)
  BY DEF Outcome
<1> HIDE DEF good, result
<1>9. result = "success" =>
          draft[a] # 0 /\ Answered(history, drafts[draft[a]].tracks, resolved'[a])
  BY <1>4, <1>6, <1>7, <1>8 DEF tracks
<1> QED  BY <1>2, <1>6, <1>8, <1>9, RunEnded

-----------------------------------------------------------------------------
(* Other commands *)

LEMMA CatalogChangesPreserves ==
    ASSUME Curated, CatalogChanges
    PROVE  Curated'
<1>1. Typed
  BY DEF Curated
<1>2. PICK n \in DOMAIN Libraries : history' = Append(history, n)
  BY DEF CatalogChanges
<1>3. UNCHANGED <<drafts, pc, turns, calls, alone, resolved, draft, outcome, paging, checking>>
  BY DEF CatalogChanges, agent
<1>4. /\ history' \in Seq(DOMAIN Libraries) /\ history' # << >>
      /\ Len(history') = Len(history) + 1
      /\ \A i \in 1..Len(history) : history'[i] = history[i]
      /\ Len(history) \in Nat
  <2>1. history \in Seq(DOMAIN Libraries)
    BY <1>1 DEF Typed
  <2> QED  BY <1>2, <2>1, AppendProperties, LenProperties
<1>5. Typed'
  BY <1>1, <1>3, <1>4 DEF Typed
<1>6. Extends(history, history')
  BY <1>4 DEF Extends
<1>7. Len(drafts) \in Nat
  BY <1>1, LenProperties DEF Typed
<1>8. \A i \in 1..Len(drafts') : DraftOK(history', drafts'[i])
  BY <1>3, <1>6, ExtendsKeeps DEF Curated
<1>9. \A b \in Agents \ {} : Still(b)
  BY <1>3 DEF Still
<1>10. \A v \in Validators : CheckOK(v)'
  BY <1>3 DEF Curated, CheckOK
<1>11. \A a \in Agents \cap {} : AgentOK(a)' /\ PagesOK(history', paging'[a])
  OBVIOUS
<1>12. /\ Len(drafts') \in Nat /\ Len(drafts) <= Len(drafts')
       /\ \A i \in 1..Len(drafts) : drafts'[i].tracks = drafts[i].tracks
  BY <1>3, <1>7
<1> QED  BY <1>5, <1>6, <1>7, <1>8, <1>9, <1>10, <1>11, <1>12, Framed

\* What the update of `curation validate` changes of the drafts.
LEMMA ValidateIs ==
    ASSUME Curated, NEW v \in Validators, Validate(v)
    PROVE  /\ drafts' \in Seq(Draft) /\ Len(drafts') = Len(drafts) /\ Len(drafts) \in Nat
           /\ \A i \in 1..Len(drafts) :
                  /\ drafts'[i].tracks = drafts[i].tracks
                  /\ drafts'[i].resolvedAt = drafts[i].resolvedAt
                  /\ drafts'[i].storedAt = drafts[i].storedAt
                  /\ drafts[i].status = "validated" => drafts'[i] = drafts[i]
<1> DEFINE d   == checking[v].draft
           new == [[drafts[d] EXCEPT !.status = "validated"] EXCEPT !.validated = v]
<1>1. Typed /\ CheckOK(v)
  BY DEF Curated
<1>2. drafts \in Seq(Draft) /\ Len(drafts) \in Nat /\ drafts \in [1..Len(drafts) -> Draft]
  BY <1>1, LenProperties DEF Typed
<1>3. d \in 1..Len(drafts)
  BY <1>1 DEF Validate, CheckOK
<1>4. CASE drafts[d].status = "draft"
  <2>1. drafts' = [drafts EXCEPT ![d].status = "validated", ![d].validated = v]
    BY <1>4 DEF Validate
  <2>2. drafts[d] \in Draft
    BY <1>2, <1>3
  <2>3. /\ new \in Draft /\ new.tracks = drafts[d].tracks
        /\ new.resolvedAt = drafts[d].resolvedAt /\ new.storedAt = drafts[d].storedAt
    BY <2>2 DEF Draft
  <2>4. drafts' = [drafts EXCEPT ![d] = new]
    BY <1>2, <1>3, <2>1
  <2> HIDE DEF new, d
  <2>5. /\ drafts' \in Seq(Draft) /\ Len(drafts') = Len(drafts)
        /\ \A i \in 1..Len(drafts) : drafts'[i] = IF i = d THEN new ELSE drafts[i]
    BY <1>2, <1>3, <2>3, <2>4, ExceptSeq
  <2> QED  BY <1>2, <1>4, <2>3, <2>5
<1>5. CASE drafts[d].status # "draft"
  <2>1. drafts' = drafts
    BY <1>5 DEF Validate
  <2> QED  BY <1>2, <2>1
<1> QED  BY <1>4, <1>5

LEMMA ValidatorPreserves ==
    ASSUME Curated, NEW v \in Validators, CheckDraft(v) \/ Validate(v)
    PROVE  Curated'
<1>1. Typed /\ CheckOK(v)
  BY DEF Curated
<1>2. drafts \in Seq(Draft) /\ Len(drafts) \in Nat
  BY <1>1, LenProperties DEF Typed
<1>3. /\ drafts' \in Seq(Draft) /\ Len(drafts') = Len(drafts)
      /\ \A i \in 1..Len(drafts) : /\ drafts'[i].tracks = drafts[i].tracks
                                   /\ drafts'[i].resolvedAt = drafts[i].resolvedAt
                                   /\ drafts'[i].storedAt = drafts[i].storedAt
  <2>1. CASE CheckDraft(v)
    <3>1. drafts' = drafts
      BY <2>1 DEF CheckDraft
    <3> QED  BY <1>2, <3>1
  <2>2. CASE Validate(v)
    BY <2>2, ValidateIs
  <2> QED  BY <2>1, <2>2
<1>4. UNCHANGED <<history, pc, turns, calls, alone, resolved, draft, outcome, paging>>
  BY DEF CheckDraft, Validate, agent
<1>5. checking' \in [Validators -> Looking] /\ \A u \in Validators : CheckOK(u)'
  <2>1. CASE CheckDraft(v)
    <3>1. PICK d \in DOMAIN drafts : checking' = [checking EXCEPT ![v] =
               [at |-> IF drafts[d].status = "draft" THEN "update" ELSE "refused", draft |-> d]]
      BY <2>1 DEF CheckDraft
    <3>2. d \in 1..Len(drafts)
      BY <1>2, LenProperties
    <3>3. checking' \in [Validators -> Looking]
      BY <1>1, <1>2, <3>1, <3>2 DEF Typed, Looking
    <3>4. ASSUME NEW u \in Validators PROVE CheckOK(u)'
      <4>1. CheckOK(u)
        BY DEF Curated
      <4>2. checking'[u].draft = IF u = v THEN d ELSE checking[u].draft
        BY <1>1, <3>1 DEF Typed
      <4>3. u # v => checking'[u] = checking[u]
        BY <1>1, <3>1 DEF Typed
      <4> QED  BY <1>2, <1>3, <3>2, <4>1, <4>2, <4>3 DEF CheckOK
    <3> QED  BY <3>3, <3>4
  <2>2. CASE Validate(v)
    <3>1. checking' = [checking EXCEPT ![v].at = "validated"]
      BY <2>2 DEF Validate
    <3>2. checking' \in [Validators -> Looking]
      BY <1>1, <3>1 DEF Typed, Looking
    <3>3. ASSUME NEW u \in Validators PROVE CheckOK(u)'
      <4>1. CheckOK(u)
        BY DEF Curated
      <4>2. checking'[u].draft = checking[u].draft
        BY <1>1, <3>1 DEF Typed, Looking
      <4>3. checking'[u].at = "update" => checking[u].at = "update"
        BY <1>1, <3>1 DEF Typed, Looking
      <4> QED  BY <1>3, <4>1, <4>2, <4>3 DEF CheckOK
    <3> QED  BY <3>2, <3>3
  <2> QED  BY <2>1, <2>2
<1>6. Typed'
  BY <1>1, <1>3, <1>4, <1>5 DEF Typed
<1>7. Extends(history, history')
  BY <1>1, <1>4, HistoryIs
<1>8. \A i \in 1..Len(drafts') : DraftOK(history', drafts'[i])
  BY <1>3, <1>4 DEF Curated, DraftOK
<1>9. \A b \in Agents \ {} : Still(b)
  BY <1>4 DEF Still
<1>10. \A a \in Agents \cap {} : AgentOK(a)' /\ PagesOK(history', paging'[a])
  OBVIOUS
<1>11. /\ Len(drafts') \in Nat /\ Len(drafts) <= Len(drafts')
       /\ \A i \in 1..Len(drafts) : drafts'[i].tracks = drafts[i].tracks
  BY <1>2, <1>3
<1> QED  BY <1>2, <1>5, <1>6, <1>7, <1>8, <1>9, <1>10, <1>11, Framed

LEMMA InitCurated == Init => Curated
<1> SUFFICES ASSUME Init PROVE Curated
  OBVIOUS
<1>1. history \in Seq(DOMAIN Libraries) /\ history # << >>
  <2>1. PICK n \in DOMAIN Libraries : history = <<n>>
    BY DEF Init
  <2> QED  BY <2>1
<1>2. drafts \in Seq(Draft) /\ Len(drafts) = 0
  BY EmptySeq DEF Init
<1>3. << >> \in Seq(Request) /\ Len(<< >>) = 0
  BY EmptySeq
<1>4. 0 \in 0..MaxTurns /\ MaxCalls \in Nat
  BY CurationAssumption
<1>5. \A a \in Agents :
          /\ pc[a] = "idle" /\ calls[a] = << >> /\ draft[a] = 0 /\ outcome[a] = "none"
          /\ paging[a] = NoPages
  BY DEF Init
<1>6. Typed
  <2>1. /\ pc \in [Agents -> Stage] /\ turns \in [Agents -> 0..MaxTurns]
        /\ calls \in [Agents -> Seq(Request)] /\ alone \in [Agents -> BOOLEAN]
    BY <1>3, <1>4 DEF Init, Stage
  <2>2. /\ resolved \in [Agents -> Nat] /\ draft \in [Agents -> Nat]
        /\ outcome \in [Agents -> Outcome] /\ paging \in [Agents -> Pages]
    BY NoPagesOK DEF Init, Outcome
  <2>3. checking \in [Validators -> Looking]
    BY DEF Init, Looking
  <2> QED  BY <1>1, <1>2, <2>1, <2>2, <2>3 DEF Typed
<1>7. \A a \in Agents : AgentOK(a) /\ PagesOK(history, paging[a])
  BY <1>2, <1>3, <1>4, <1>5, NoPagesOK DEF AgentOK
<1>8. \A v \in Validators : CheckOK(v)
  BY <1>2 DEF Init, CheckOK
<1> QED  BY <1>2, <1>6, <1>7, <1>8 DEF Curated

LEMMA NextCurated == Curated /\ [Next]_vars => Curated'
<1> SUFFICES ASSUME Curated, [Next]_vars PROVE Curated'
  OBVIOUS
<1>1. CASE UNCHANGED vars
  BY <1>1, CuratedStutter
<1>2. CASE CatalogChanges
  BY <1>2, CatalogChangesPreserves
<1>3. ASSUME NEW a \in Agents, Run(a) \/ OwnStep(a) \/ Kill(a) PROVE Curated'
  <2>1. CASE Run(a) \/ NextTurn(a)
    BY <2>1, RunPreserves
  <2>2. CASE \/ TurnsExhausted(a) \/ NoToolCall(a) \/ CompletionFails(a) \/ Timeout(a)
             \/ Kill(a) \/ Refuse(a) \/ ReadFails(a)
    BY <2>2, EndsPreserve
  <2>3. CASE ReadOverview(a)
    BY <2>3, ReadOverviewPreserves
  <2>4. CASE SearchCandidates(a)
    BY <2>4, SearchCandidatesPreserves
  <2>5. CASE GetCandidates(a)
    BY <2>5, GetCandidatesPreserves
  <2>6. CASE ResolveCreation(a)
    BY <2>6, ResolveCreationPreserves
  <2>7. CASE StoreDraft(a) \/ StoreFails(a)
    BY <2>7, StorePreserves
  <2>8. CASE Ground(a)
    BY <2>8, GroundPreserves
  <2> QED  BY <1>3, <2>1, <2>2, <2>3, <2>4, <2>5, <2>6, <2>7, <2>8 DEF OwnStep
<1>4. ASSUME NEW a \in Agents, NEW response \in Responses, Respond(a, response) PROVE Curated'
  BY <1>4, RespondPreserves
<1>5. ASSUME NEW v \in Validators, CheckDraft(v) \/ Validate(v) PROVE Curated'
  BY <1>5, ValidatorPreserves
<1> QED  BY <1>1, <1>2, <1>3, <1>4, <1>5 DEF Next

LEMMA SpecCurated == Spec => []Curated
<1> QED  BY InitCurated, NextCurated, PTL DEF Spec

-----------------------------------------------------------------------------
(* What the invariant gives *)

LEMMA CuratedIsGrounded == Curated => Grounded
<1> SUFFICES ASSUME Curated PROVE Grounded
  OBVIOUS
<1>1. Typed
  BY DEF Curated
<1>2. /\ Now = Len(history) /\ Tracks = TrackIds /\ Now \in Nat
  BY <1>1, HistoryIs DEF Now
<1>3. \A n : At(n) = LibAt(history, n)
  BY DEF At, LibAt
<1>4. DOMAIN drafts = 1..Len(drafts) /\ \A i \in 1..Len(drafts) : drafts[i] \in Draft
  BY <1>1, LenProperties, ElementOfSeq DEF Typed
<1>5. \A i \in 1..Len(drafts) :
          /\ drafts[i].tracks \in Seq(TrackIds)
          /\ drafts[i].status \in {"draft", "validated"}
          /\ drafts[i].validated \in Validators \cup {Nobody}
  BY <1>4 DEF Draft
<1>6. \A i \in 1..Len(drafts) : DOMAIN drafts[i].tracks = 1..Len(drafts[i].tracks)
  BY <1>5, LenProperties
<1>7. TypeOK
  BY <1>1, <1>2, <1>4, <1>5 DEF Curated, Typed, AgentOK, CheckOK, TypeOK, Stage
<1>8. DraftsAreGrounded
  <2>1. SUFFICES ASSUME NEW i \in 1..Len(drafts)
                 PROVE  LET d == drafts[i]
                        IN  /\ Len(d.tracks) \in 1..MaxTracks
                            /\ Cardinality(Recordings(At(d.resolvedAt), d.tracks)) = Len(d.tracks)
                            /\ \A j \in DOMAIN d.tracks : d.tracks[j] \in Available(At(d.storedAt))
    BY <1>4 DEF DraftsAreGrounded
  <2>2. DraftOK(history, drafts[i])
    BY DEF Curated
  <2> QED  BY <1>3, <1>6, <2>2 DEF DraftOK
<1>9. SuccessIsGrounded
  <2>1. SUFFICES ASSUME NEW a \in Agents, outcome[a] = "success"
                 PROVE  /\ draft[a] # 0
                        /\ \A i \in DOMAIN drafts[draft[a]].tracks :
                               drafts[draft[a]].tracks[i] \in Candidates(At(resolved[a]))
    BY DEF SuccessIsGrounded
  <2>2. AgentOK(a)
    BY DEF Curated
  <2>3. /\ draft[a] \in 1..Len(drafts)
        /\ Answered(history, drafts[draft[a]].tracks, resolved[a])
    BY <2>1, <2>2 DEF AgentOK
  <2> QED  BY <1>3, <1>6, <2>3 DEF Answered
<1> QED  BY <1>7, <1>8, <1>9 DEF Grounded

\* Whatever the model asks for and whatever is committed meanwhile: what is
\* stored has at most max_tracks tracks, no recording twice, all available when
\* it was stored, and what is answered is still a candidate each.
THEOREM StoredIsGrounded == Spec => []Grounded
<1> QED  BY SpecCurated, CuratedIsGrounded, PTL

\* The two countings of the overview agree on every catalog.
LEMMA OverviewIs ==
    ASSUME NEW lib \in Lib
    PROVE  LET o == Overview(lib)
           IN  /\ o.candidates - o.quality["unverified_unfingerprinted"] <= o.fingerprinted
               /\ o.available - o.fingerprinted = o.quality["unverified_unfingerprinted"]
               /\ o.analysis["ok"] + o.analysis["failed"] + o.analysis["missing"] = o.candidates
<1> DEFINE A  == Available(lib)
           C  == Candidates(lib)
           F  == Fingerprinted(lib)
           U  == {t \in C : QualityStatus(lib, t) = "unverified_unfingerprinted"}
           with(status) == {t \in C : AnalysisStatus(lib.rows[t]) = status}
           quality == [t \in C |-> QualityStatus(lib, t)]
           analysis == [t \in C |-> AnalysisStatus(lib.rows[t])]
<1>1. /\ IsFiniteSet(A) /\ IsFiniteSet(C) /\ C \subseteq A
  BY LibraryIs
<1>2. F = {t \in A : Fingerprint(lib.rows[t]) # NoHash}
  BY DEF Fingerprinted, Fingerprint
<1>3. U = {t \in C : Fingerprint(lib.rows[t]) = NoHash}
  BY DEF QualityStatus
<1>4. A \ F = U /\ F \subseteq A /\ A \cap F = F
  BY <1>1, <1>2, <1>3, UnfingerprintedIsCandidate
<1>5. C \ U \subseteq F /\ C \cap U = U
  BY <1>1, <1>2, <1>3
<1>6. /\ {t \in DOMAIN quality : quality[t] = "unverified_unfingerprinted"} = U
      /\ \A status : {t \in DOMAIN analysis : analysis[t] = status} = with(status)
  OBVIOUS
<1> DEFINE o == Overview(lib)
<1>7. /\ o.available = Cardinality(A) /\ o.candidates = Cardinality(C)
      /\ o.fingerprinted = Cardinality(F)
  BY DEF Overview
<1>8. o.quality["unverified_unfingerprinted"] = Cardinality(U)
  BY <1>6 DEF Overview, Tally
<1>9. \A status \in {"ok", "failed", "missing"} : o.analysis[status] = Cardinality(with(status))
  BY <1>6 DEF Overview, Tally
<1> HIDE DEF o, quality, analysis, A, C, F
<1>10. /\ IsFiniteSet(F) /\ Cardinality(A) - Cardinality(F) = Cardinality(U)
       /\ Cardinality(F) \in Nat /\ Cardinality(A) \in Nat
  <2> HIDE DEF U
  <2>1. IsFiniteSet(F)
    BY <1>1, <1>4, FS_Subset
  <2>2. Cardinality(U) = Cardinality(A) - Cardinality(F)
    <3>1. Cardinality(A \ F) = Cardinality(A) - Cardinality(A \cap F)
      BY <1>1, FS_Difference
    <3> QED  BY <1>4, <3>1
  <2> QED  BY <1>1, <2>1, <2>2, FS_CardinalityType
<1>11. Cardinality(C) - Cardinality(U) <= Cardinality(F)
  <2> HIDE DEF U
  <2>1. Cardinality(C \ U) = Cardinality(C) - Cardinality(U)
    BY <1>1, <1>5, FS_Difference
  <2>2. Cardinality(C \ U) <= Cardinality(F)
    BY <1>5, <1>10, FS_Subset
  <2> QED  BY <2>1, <2>2
<1>12. Cardinality(with("ok")) + Cardinality(with("failed")) + Cardinality(with("missing"))
           = Cardinality(C)
  <2> DEFINE X == with("ok")
             Y == with("failed")
             Z == with("missing")
  <2>1. C = (X \cup Y) \cup Z
    BY DEF AnalysisStatus
  <2>2. X \cap Y = {} /\ (X \cup Y) \cap Z = {}
    OBVIOUS
  <2>3. X \subseteq C /\ Y \subseteq C /\ Z \subseteq C /\ X \cup Y \subseteq C
    OBVIOUS
  <2> HIDE DEF X, Y, Z
  <2>4. IsFiniteSet(X) /\ IsFiniteSet(Y) /\ IsFiniteSet(Z) /\ IsFiniteSet(X \cup Y)
    BY <1>1, <2>3, FS_Subset
  <2>5. Cardinality({}) = 0
    BY FS_EmptySet
  <2>6. Cardinality(X \cup Y) = Cardinality(X) + Cardinality(Y) - 0
    BY <2>2, <2>4, <2>5, FS_Union
  <2>7. Cardinality((X \cup Y) \cup Z) = Cardinality(X \cup Y) + Cardinality(Z) - 0
    BY <2>2, <2>4, <2>5, FS_Union
  <2>8. Cardinality(X) \in Nat /\ Cardinality(Y) \in Nat /\ Cardinality(Z) \in Nat
    BY <2>4, FS_CardinalityType
  <2>9. Cardinality(X) + Cardinality(Y) + Cardinality(Z) = Cardinality(C)
    BY <2>1, <2>6, <2>7, <2>8
  <2> QED  BY <2>9 DEF X, Y, Z
<1> HIDE DEF U, with
<1> QED  BY <1>7, <1>8, <1>9, <1>10, <1>11, <1>12 DEF o

LEMMA CuratedReads == Curated => ReadsAddUp
<1> SUFFICES ASSUME Curated PROVE ReadsAddUp
  OBVIOUS
<1>1. Typed
  BY DEF Curated
<1>2. catalog \in Lib
  BY <1>1, HistoryIs
<1>3. OverviewAddsUp
  BY <1>2, OverviewIs DEF OverviewAddsUp
<1>4. ASSUME NEW a \in Agents
      PROVE  LET p == paging[a]
                 matches(n) == {t \in Candidates(At(n)) : Matches(At(n), t, p.query[1])}
             IN  /\ \A i, j \in DOMAIN p.ids : i < j => p.ids[i] < p.ids[j]
                 /\ \A n \in p.snapshots : p.snapshots = {n} =>
                        IF p.next = NoCursor THEN Range(p.ids) = matches(n)
                        ELSE Range(p.ids) \subseteq matches(n) /\ Range(p.ids) # matches(n)
  <2> DEFINE p == paging[a]
             found(n) == Found(LibAt(history, n), p.query[1])
  <2>1. PagesOK(history, p) /\ p \in Pages
    BY <1>1 DEF Curated, Typed
  <2>2. p.ids \in Seq(TrackIds)
    BY <2>1 DEF Pages
  <2>3. \A i, j \in DOMAIN p.ids : i < j => p.ids[i] < p.ids[j]
    BY <2>1, <2>2, LenProperties DEF PagesOK
  <2>4. \A n : found(n) = {t \in Candidates(At(n)) : Matches(At(n), t, p.query[1])}
    BY DEF Found, LibAt, At
  <2>5. ASSUME NEW n \in p.snapshots, p.snapshots = {n}
        PROVE  IF p.next = NoCursor THEN Range(p.ids) = found(n)
               ELSE Range(p.ids) \subseteq found(n) /\ Range(p.ids) # found(n)
    <3>1. IF p.next = NoCursor THEN Range(p.ids) = found(n)
          ELSE /\ Range(p.ids) = {t \in found(n) : t <= p.next.after}
               /\ \E t \in found(n) : t > p.next.after
      BY <2>1, <2>5 DEF PagesOK
    <3>2. CASE p.next = NoCursor
      BY <3>1, <3>2
    <3>3. CASE p.next # NoCursor
      <4>1. PICK t \in found(n) : t > p.next.after
        BY <3>1, <3>3
      <4>2. t \in Int /\ p.next.after \in Int
        <5>1. n \in 1..Now
          BY <2>1, <2>5 DEF PagesOK, Now
        <5>2. LibAt(history, n) \in Lib
          BY <1>1, <5>1, HistoryIs
        <5>3. t \in TrackIds
          BY <5>2, LibraryIs DEF Found
        <5>4. p.next \in NextPage
          BY <2>1, <3>3 DEF Pages
        <5>5. p.next.after \in TrackIds
          BY <5>4 DEF NextPage
        <5> QED  BY <5>3, <5>5, CurationAssumption
      <4>3. ~(t <= p.next.after)
        BY <4>1, <4>2
      <4>4. t \notin Range(p.ids)
        BY <3>1, <3>3, <4>3
      <4>5. Range(p.ids) \subseteq found(n)
        BY <3>1, <3>3
      <4> QED  BY <3>3, <4>1, <4>4, <4>5
    <3> QED  BY <3>2, <3>3
  <2> QED  BY <2>3, <2>4, <2>5
<1>5. PagingIsExact
  BY <1>4 DEF PagingIsExact
<1> QED  BY <1>3, <1>5 DEF ReadsAddUp

\* Following the cursors of a search gives the matches, each once, when nothing
\* commits between the pages, and the two countings of the overview agree.
THEOREM ReadsTellTheCatalog == Spec => []ReadsAddUp
<1> QED  BY SpecCurated, CuratedReads, PTL

LEMMA DraftStep ==
    ASSUME Curated, Next
    PROVE  \A i \in DOMAIN drafts :
               /\ drafts'[i].tracks = drafts[i].tracks
               /\ drafts[i].status = "validated" => drafts'[i] = drafts[i]
<1>1. drafts \in Seq(Draft) /\ Len(drafts) \in Nat /\ DOMAIN drafts = 1..Len(drafts)
  BY LenProperties DEF Curated, Typed
<1>2. CASE drafts' = drafts
  BY <1>2
<1>3. ASSUME NEW a \in Agents, StoreDraft(a) \/ StoreFails(a)
      PROVE  \A i \in DOMAIN drafts : drafts'[i] = drafts[i]
  <2>1. drafts' = drafts \/ \E d : drafts' = Append(drafts, d)
    BY <1>3 DEF StoreDraft, StoreFails, Insert
  <2>2. ASSUME NEW d, drafts' = Append(drafts, d), NEW i \in 1..Len(drafts)
        PROVE  drafts'[i] = drafts[i]
    BY <1>1, <2>2
  <2> QED  BY <1>1, <2>1, <2>2
<1>4. ASSUME NEW v \in Validators, Validate(v)
      PROVE  \A i \in DOMAIN drafts :
               /\ drafts'[i].tracks = drafts[i].tracks
               /\ drafts[i].status = "validated" => drafts'[i] = drafts[i]
  BY <1>1, <1>4, ValidateIs
<1>5. CASE CatalogChanges
  BY <1>2, <1>5 DEF CatalogChanges
<1>6. ASSUME NEW a \in Agents, Run(a) \/ Kill(a) \/ \E response \in Responses : Respond(a, response)
      PROVE  drafts' = drafts
  BY <1>6 DEF Run, Kill, Respond
<1>7. ASSUME NEW a \in Agents, OwnStep(a), ~StoreDraft(a), ~StoreFails(a)
      PROVE  drafts' = drafts
  BY <1>7 DEF OwnStep, TurnsExhausted, NoToolCall, CompletionFails, Timeout, Refuse,
              ReadOverview, ReadFails, SearchCandidates, GetCandidates, ResolveCreation, Ground, NextTurn
<1>8. ASSUME NEW v \in Validators, CheckDraft(v) PROVE drafts' = drafts
  BY <1>8 DEF CheckDraft
<1> QED  BY <1>2, <1>3, <1>4, <1>5, <1>6, <1>7, <1>8 DEF Next

\* A stored draft keeps its tracks and is validated at most once.
THEOREM DraftsAreKept == Spec => DraftsOnlyGetValidated
<1>1. Curated /\ [Next]_vars =>
          [\A i \in DOMAIN drafts :
               /\ drafts'[i].tracks = drafts[i].tracks
               /\ drafts[i].status = "validated" => drafts'[i] = drafts[i]]_drafts
  BY DraftStep DEF vars
<1> QED  BY <1>1, SpecCurated, PTL DEF Spec, DraftsOnlyGetValidated

-----------------------------------------------------------------------------
(* The invariant of the copies                                             *)

Planned == [file: Files, group: STRING \cup {NoGroup}]
Copies  == [kind: {"absent", "empty", "other", "export"}, by: Copiers \cup {0},
            copies: Seq(Seq(Nat))]
Lists   == [kind: {"absent", "file", "link", "folder"}, by: {0}, entries: {<< >>}]
           \cup [kind: {"list"}, by: Copiers, entries: Seq(Planned)]

\* What may be at a name of the target directory.
Object(o) == o.kind \in {"track", "file", "link", "folder"} /\ (o.kind = "track" => Whole(o.copy))

CopyTyped ==
    /\ version \in Seq(Nat) /\ path \in [Files -> 0..Len(version)]
    /\ known \in [Files -> Nat] /\ edits \in 0..MaxEdits
    /\ copier \in [Copiers -> {"idle"} \cup Busy \cup Over]
    /\ job \in [Copiers -> [kind: {"none", "set", "report", "paths", "copies"},
                            expected: Seq(Nat)]]
    /\ plan \in [Copiers -> Seq(Planned)]
    /\ index \in [Copiers -> Nat] /\ fd \in [Copiers -> Nat] /\ seen \in [Copiers -> Nat]
    /\ halves \in [Copiers -> Seq(Nat)]
    /\ staging \in [Copiers -> [exists: BOOLEAN, tracks: Seq(Seq(Nat))]]
    /\ playlist \in Lists /\ listing \in Lists /\ output \in Copies
    /\ \A t \in DOMAIN dir : Object(dir[t])

\* What a command at each place was asked for.
KindsAt(at) ==
    IF at \in {"playlist", "listing", "owner"} THEN {"set"}
    ELSE IF at \in {"open", "read", "verify", "place"} THEN {"set", "copies"}
    ELSE IF at = "recheck" THEN {"copies"}
    ELSE IF at = "resolve" THEN {"paths", "copies"}
    ELSE {"report", "paths", "copies"}

PlanOK(c) ==
    IF Running(c)
    THEN /\ index[c] \in 1..Len(plan[c])
         /\ job[c].kind \in KindsAt(copier[c])
         /\ job[c].kind # "set" => Len(job[c].expected) = Len(plan[c])
         /\ copier[c] = "playlist" => index[c] = Len(plan[c])
    ELSE plan[c] = << >> /\ index[c] = 0

\* What has been read of an open inode is not older than its fstat, and not
\* newer than what it holds; the check finds them to be the same.
ReadingOK(c) ==
    /\ fd[c] \in 0..Len(version)
    /\ copier[c] \in {"read", "verify", "place"} =>
           fd[c] # 0 /\ (job[c].kind = "copies" => seen[c] = Expected(c))
    /\ copier[c] \in {"read", "verify"} =>
           /\ seen[c] <= version[fd[c]]
           /\ \A k \in 1..Len(halves[c]) :
                  seen[c] <= halves[c][k] /\ halves[c][k] <= version[fd[c]]
    /\ copier[c] = "place" => \A k \in 1..Len(halves[c]) : halves[c][k] = seen[c]
    /\ Len(halves[c]) \in IF copier[c] = "read" THEN 0..1
                          ELSE IF copier[c] \in {"verify", "place"} THEN {2} ELSE {0}

\* How many tracks the staging directory has.
Staged(c) ==
    IF copier[c] = "resolve" THEN 0
    ELSE IF copier[c] = "publish" THEN Len(plan[c])
    ELSE IF copier[c] = "recheck" THEN index[c]
    ELSE index[c] - 1

StagingOK(c) ==
    LET s == staging[c]
    IN  /\ s.tracks # << >> => s.exists
        /\ \A i \in 1..Len(s.tracks) : Whole(s.tracks[i])
        /\ copier[c] \in {"idle", "done"} => ~s.exists
        /\ Running(c) => (s.exists <=> job[c].kind # "set")
        /\ Running(c) /\ job[c].kind \in {"report", "paths"} => s.tracks = << >>
        /\ Running(c) /\ job[c].kind = "copies" =>
               /\ Len(s.tracks) = Staged(c)
               /\ \A i \in 1..Len(s.tracks) :
                      s.tracks[i] = <<job[c].expected[i], job[c].expected[i]>>

\* Once a plan has a group it keeps one.
GroupsHold(entries) ==
    \A i, j \in 1..Len(entries) : i < j /\ entries[i].group # NoGroup => entries[j].group # NoGroup

AllThere(entries) == \A i \in 1..Len(entries) : Is(Target(entries, i), {"track"})

SetOK(c) ==
    /\ GroupsHold(plan[c])
    /\ Running(c) /\ job[c].kind = "set" =>
           \A i \in 1..Len(plan[c]) :
               i < index[c] \/ copier[c] \in {"playlist", "listing", "owner"} =>
                   Is(Target(plan[c], i), {"track"})

\* A name that is being copied to has been looked at.
LookedOK(c) ==
    \A t \in DOMAIN dir :
        CopiesTo(c, t) => dir[t].kind \in {"track", "file"} \/ c \in dir[t].during

ScratchOK(c) == c \in scratch => copier[c] \in {"read", "verify", "place", "killed"}

\* The tracks a command has placed are its own.
Mine(c) ==
    Running(c) /\ job[c].kind = "set" =>
        \A i \in 1..Len(plan[c]) :
            i < index[c] \/ copier[c] \in {"playlist", "listing", "owner"} =>
                dir[Target(plan[c], i)].by = c

\* A command that no other one overlaps finds its set as it left it.
ListsOK(c) ==
    c \notin overlap =>
        /\ Running(c) => \A d \in Copiers \ {c} : ~Running(d)
        /\ Mine(c)
        /\ copier[c] = "listing" => playlist = List(c, plan[c])
        /\ copier[c] = "owner" => playlist = List(c, plan[c]) /\ listing = playlist
        /\ copier[c] = "done" /\ job[c].kind = "set" /\ playlist.by = c =>
               listing = playlist /\ \A d \in Copiers : copier[d] # "listing"

OutputOK ==
    output.kind = "export" =>
        /\ output.by \in Copiers /\ copier[output.by] = "done"
        /\ ExportsMatchTheCatalog

CopyOK(c) ==
    /\ PlanOK(c) /\ ReadingOK(c) /\ StagingOK(c) /\ SetOK(c) /\ LookedOK(c) /\ ScratchOK(c)
    /\ ListsOK(c)

Copying ==
    /\ CopyTyped
    /\ \A c \in Copiers : CopyOK(c)
    /\ AllThere(playlist.entries) /\ AllThere(listing.entries)
    /\ GroupsHold(playlist.entries)
    /\ OutputOK

-----------------------------------------------------------------------------
(* What the playlists of `copy` give                                       *)

LEMMA LineIs ==
    ASSUME NEW l \in Line
    PROVE  /\ l.line \in {"group", "track", "comment"}
           /\ l.line = "group" => l.group \in STRING /\ l.group # NoGroup
           /\ l.line = "track" => l.file \in Files
<1>1. CASE l \in [line: {"group"}, group: STRING \ {NoGroup}]
  BY <1>1
<1>2. CASE l \in [line: {"track"}, file: Files]
  BY <1>2
<1>3. CASE l \in [line: {"comment"}]
  BY <1>3
<1> QED  BY <1>1, <1>2, <1>3 DEF Line

\* The group after n lines is the one of the last group line among them, and
\* is empty exactly when there is none.
LEMMA GroupAtIs ==
    ASSUME NEW lines \in Seq(Line), NEW n \in 0..Len(lines)
    PROVE  /\ GroupAt(lines, n) \in STRING \cup {NoGroup}
           /\ GroupAt(lines, n) # NoGroup <=> \E i \in 1..n : lines[i].line = "group"
           /\ \A i \in 1..n :
                  /\ lines[i].line = "group"
                  /\ \A j \in 1..n : i < j => lines[j].line # "group"
                  => GroupAt(lines, n) = lines[i].group
<1> DEFINE groups == {i \in 1..n : lines[i].line = "group"}
<1>1. Len(lines) \in Nat /\ \A i \in 1..n : i \in 1..Len(lines) /\ lines[i] \in Line
  BY ElementOfSeq, LenProperties
<1>2. IsFiniteSet(groups) /\ groups \subseteq Int
  <2>1. n \in Int /\ 1 \in Int
    BY <1>1
  <2>2. IsFiniteSet(1..n) /\ groups \subseteq 1..n
    BY <2>1, FS_Interval
  <2>3. IsFiniteSet(groups)
    BY <2>2, FS_Subset
  <2> QED  BY <2>2, <2>3
<1>3. CASE groups = {}
  <2>1. GroupAt(lines, n) = NoGroup
    BY <1>3 DEF GroupAt
  <2>2. \A i \in 1..n : lines[i].line # "group"
    BY <1>3
  <2> HIDE DEF groups
  <2> QED  BY <2>1, <2>2
<1>4. CASE groups # {}
  <2> DEFINE m == Max(groups)
  <2>1. m \in groups /\ \A i \in groups : i <= m
    <3> HIDE DEF groups
    <3> QED  BY <1>2, <1>4, MaxIs
  <2>2. GroupAt(lines, n) = lines[m].group
    BY <1>4 DEF GroupAt
  <2> HIDE DEF m
  <2>3. lines[m].group \in STRING /\ lines[m].group # NoGroup
    BY <2>1, <1>1, LineIs
  <2>4. ASSUME NEW i \in 1..n, lines[i].line = "group",
               \A j \in 1..n : i < j => lines[j].line # "group"
        PROVE  m = i
    BY <2>1, <2>4
  <2> QED  BY <2>1, <2>2, <2>3, <2>4
<1> QED  BY <1>3, <1>4

LEMMA GroupAtHolds ==
    ASSUME NEW lines \in Seq(Line), NEW n \in 0..Len(lines), NEW m \in 0..Len(lines), n <= m,
           GroupAt(lines, n) # NoGroup
    PROVE  GroupAt(lines, m) # NoGroup
<1>1. Len(lines) \in Nat
  BY LenProperties
<1>2. PICK i \in 1..n : lines[i].line = "group"
  BY GroupAtIs
<1>3. i \in 1..m
  <2>1. n \in Int /\ m \in Int /\ i \in Int /\ 1 <= i /\ i <= n /\ n <= m
    BY <1>1, <1>2
  <2> QED  BY <2>1
<1> QED  BY <1>2, <1>3, GroupAtIs

\* The entries of a playlist: where each stands, in increasing order.
LEMMA ListedIs ==
    ASSUME NEW lines \in Seq(Line)
    PROVE  /\ ListedEntries(lines) \in Seq(Planned)
           /\ \E at \in [1..Len(ListedEntries(lines)) -> 1..Len(lines)] :
                  /\ at = Ascending({i \in DOMAIN lines : lines[i].line = "track"})
                  /\ \A k \in 1..Len(ListedEntries(lines)) :
                         /\ lines[at[k]].line = "track"
                         /\ ListedEntries(lines)[k]
                                = Entry(lines[at[k]].file, GroupAt(lines, at[k]))
                  /\ \A k, l \in 1..Len(ListedEntries(lines)) : k < l => at[k] < at[l]
<1> DEFINE S == {i \in DOMAIN lines : lines[i].line = "track"}
           n == Cardinality(S)
           at == Ascending(S)
           e == ListedEntries(lines)
<1>1. Len(lines) \in Nat /\ DOMAIN lines = 1..Len(lines)
  BY LenProperties
<1>2. \A i \in 1..Len(lines) : lines[i] \in Line
  BY ElementOfSeq
<1>3. IsFiniteSet(S) /\ S \subseteq Int
  <2>1. IsFiniteSet(1..Len(lines)) /\ S \subseteq 1..Len(lines)
    BY <1>1, FS_Interval
  <2>2. IsFiniteSet(S)
    BY <2>1, FS_Subset
  <2> QED  BY <2>1, <2>2
<1>4. \A i \in S : i \in 1..Len(lines) /\ lines[i].line = "track"
  BY <1>1
<1>5. e = [k \in DOMAIN at |-> Entry(lines[at[k]].file, GroupAt(lines, at[k]))]
  BY DEF ListedEntries
<1> HIDE DEF S
<1>6. n \in Nat /\ at \in [1..n -> S] /\ \A k, l \in 1..n : k < l => at[k] < at[l]
  BY <1>3, AscendingIs
<1> HIDE DEF n, at, e
<1>7. ASSUME NEW k \in 1..n PROVE Entry(lines[at[k]].file, GroupAt(lines, at[k])) \in Planned
  <2>1. at[k] \in 1..Len(lines) /\ lines[at[k]].line = "track"
    BY <1>4, <1>6
  <2>2. at[k] \in 0..Len(lines) /\ lines[at[k]] \in Line
    BY <1>1, <1>2, <2>1
  <2>3. GroupAt(lines, at[k]) \in STRING \cup {NoGroup}
    BY <2>2, GroupAtIs
  <2>4. lines[at[k]].file \in Files
    BY <2>1, <2>2, LineIs
  <2> QED  BY <2>3, <2>4 DEF Entry, Planned
<1>8. DOMAIN at = 1..n
  BY <1>6
<1>9. e \in [1..n -> Planned]
  BY <1>5, <1>7, <1>8
<1>10. e \in Seq(Planned) /\ Len(e) = n
  BY <1>6, <1>9, FunctionIsSequence
<1>11. at \in [1..n -> 1..Len(lines)] /\ \A k \in 1..n : lines[at[k]].line = "track"
  BY <1>4, <1>6
<1>12. \A k \in 1..n : e[k] = Entry(lines[at[k]].file, GroupAt(lines, at[k]))
  BY <1>5, <1>8
<1> QED  BY <1>6, <1>10, <1>11, <1>12 DEF at, e, S

LEMMA ListedHold ==
    ASSUME NEW lines \in Seq(Line)
    PROVE  /\ GroupsHold(ListedEntries(lines))
           /\ \A k \in 1..Len(ListedEntries(lines)) :
                  ListedEntries(lines)[k].group # NoGroup => GroupAt(lines, Len(lines)) # NoGroup
<1> DEFINE e == ListedEntries(lines)
<1>1. e \in Seq(Planned) /\ Len(lines) \in Nat
  BY ListedIs, LenProperties
<1>2. PICK at \in [1..Len(e) -> 1..Len(lines)] :
          /\ \A k \in 1..Len(e) : e[k] = Entry(lines[at[k]].file, GroupAt(lines, at[k]))
          /\ \A k, l \in 1..Len(e) : k < l => at[k] < at[l]
  BY ListedIs
<1> HIDE DEF e
<1>3. \A k \in 1..Len(e) : e[k].group = GroupAt(lines, at[k])
  <2>1. \A f, g : Entry(f, g).group = g
    BY DEF Entry
  <2> QED  BY <1>2, <2>1
<1>4. \A k \in 1..Len(e) : at[k] \in 0..Len(lines) /\ at[k] <= Len(lines)
  BY <1>1, <1>2
<1>5. Len(lines) \in 0..Len(lines)
  BY <1>1
<1>6. ASSUME NEW i \in 1..Len(e), NEW j \in 1..Len(e), i < j, e[i].group # NoGroup
      PROVE  e[j].group # NoGroup
  <2>1. at[i] <= at[j]
    <3>1. at[i] < at[j]
      BY <1>2, <1>6
    <3>2. at[i] \in Int /\ at[j] \in Int
      BY <1>1, <1>4
    <3> QED  BY <3>1, <3>2
  <2> QED  BY <1>3, <1>4, <1>6, <2>1, GroupAtHolds
<1>7. GroupsHold(e)
  BY <1>6 DEF GroupsHold
<1>8. \A k \in 1..Len(e) : e[k].group # NoGroup => GroupAt(lines, Len(lines)) # NoGroup
  BY <1>3, <1>4, <1>5, GroupAtHolds
<1> QED  BY <1>7, <1>8 DEF e

\* A plan of entries, whose groups hold.
LEMMA PlanEntriesIs ==
    ASSUME NEW lines \in Seq(Line), NEW extra \in Seq(Files)
    PROVE  /\ PlanEntries(lines, extra) \in Seq(Planned)
           /\ GroupsHold(PlanEntries(lines, extra))
<1> DEFINE e == ListedEntries(lines)
           g == GroupAt(lines, Len(lines))
           x == [i \in DOMAIN extra |-> Entry(extra[i], g)]
           p == e \o x
<1>1. e \in Seq(Planned)
  BY ListedIs
<1>2. g \in STRING \cup {NoGroup}
  <2>1. Len(lines) \in 0..Len(lines)
    BY LenProperties
  <2> QED  BY <2>1, GroupAtIs
<1>3. GroupsHold(e) /\ \A k \in 1..Len(e) : e[k].group # NoGroup => g # NoGroup
  BY ListedHold
<1> HIDE DEF e, g
<1>4. Len(extra) \in Nat /\ DOMAIN extra = 1..Len(extra)
      /\ \A i \in 1..Len(extra) : extra[i] \in Files
  BY LenProperties, ElementOfSeq
<1>5. x \in [1..Len(extra) -> Planned] /\ \A i \in 1..Len(extra) : x[i].group = g
  BY <1>2, <1>4 DEF Planned, Entry
<1>6. x \in Seq(Planned) /\ Len(x) = Len(extra)
  <2> HIDE DEF x
  <2> QED  BY <1>4, <1>5, FunctionIsSequence
<1> HIDE DEF x
<1>7. /\ p \in Seq(Planned) /\ Len(p) = Len(e) + Len(x)
      /\ \A i \in 1..Len(e) + Len(x) : p[i] = IF i <= Len(e) THEN e[i] ELSE x[i - Len(e)]
  BY <1>1, <1>6, ConcatProperties
<1>8. Len(e) \in Nat /\ Len(x) \in Nat
  BY <1>1, <1>6, LenProperties
<1> HIDE DEF p
<1>9. ASSUME NEW i \in 1..Len(p), NEW j \in 1..Len(p), i < j, p[i].group # NoGroup
      PROVE  p[j].group # NoGroup
  <2>1. CASE j <= Len(e)
    <3>1. i \in 1..Len(e) /\ j \in 1..Len(e)
      <4>1. i \in Int /\ j \in Int /\ 1 <= i /\ 1 <= j
        OBVIOUS
      <4> QED  BY <1>8, <1>9, <2>1, <4>1
    <3>2. p[i] = e[i] /\ p[j] = e[j]
      BY <1>7, <1>8, <3>1, <2>1
    <3> QED  BY <1>3, <1>9, <3>1, <3>2 DEF GroupsHold
  <2>2. CASE ~(j <= Len(e))
    <3>1. j - Len(e) \in 1..Len(extra)
      BY <1>6, <1>7, <1>8, <2>2
    <3>2. p[j].group = g
      BY <1>5, <1>7, <1>8, <2>2, <3>1
    <3>3. CASE i <= Len(e)
      <4>1. i \in 1..Len(e)
        BY <1>8, <3>3
      <4>2. p[i] = e[i]
        BY <1>7, <1>8, <4>1, <3>3
      <4> QED  BY <1>3, <1>9, <3>2, <4>1, <4>2
    <3>4. CASE ~(i <= Len(e))
      <4>1. i - Len(e) \in 1..Len(extra)
        BY <1>6, <1>7, <1>8, <3>4
      <4>2. p[i].group = g
        BY <1>5, <1>7, <1>8, <3>4, <4>1
      <4> QED  BY <1>9, <3>2, <4>2
    <3> QED  BY <3>3, <3>4
  <2> QED  BY <2>1, <2>2
<1>10. GroupsHold(p)
  BY <1>9 DEF GroupsHold
<1> QED  BY <1>7, <1>10 DEF PlanEntries, p, e, x, g

-----------------------------------------------------------------------------
(* What a step leaves alone                                                *)

Untouched(d) ==
    /\ copier'[d] = copier[d] /\ job'[d] = job[d] /\ plan'[d] = plan[d] /\ index'[d] = index[d]
    /\ fd'[d] = fd[d] /\ seen'[d] = seen[d] /\ halves'[d] = halves[d]
    /\ staging'[d] = staging[d] /\ (d \in scratch' => d \in scratch)

NothingLost ==
    /\ Len(version) <= Len(version')
    /\ \A i \in 1..Len(version) : version[i] <= version'[i]
    /\ DOMAIN dir \subseteq DOMAIN dir'
    /\ \A t \in DOMAIN dir' :
           \/ t \in DOMAIN dir /\ dir'[t] = dir[t]
           \/ dir'[t].kind = "track"
           \/ t \notin DOMAIN dir /\ \A d \in Copiers : CopiesTo(d, t) => d \in dir'[t].during

Own(c) ==
    PlanOK(c) /\ ReadingOK(c) /\ StagingOK(c) /\ SetOK(c) /\ LookedOK(c) /\ ScratchOK(c)

LEMMA TracksStay ==
    ASSUME NothingLost, NEW t, Is(t, {"track"})
    PROVE  Is(t, {"track"})'
BY DEF NothingLost, Is

LEMMA NotLooking ==
    ASSUME NEW c \in Copiers, copier'[c] \notin {"read", "verify", "place"}
    PROVE  LookedOK(c)'
BY DEF LookedOK, CopiesTo

LEMMA ListIs ==
    ASSUME NEW m \in Lists
    PROVE  /\ m.entries \in Seq(Planned) /\ m.kind \in {"absent", "list", "file", "link", "folder"}
           /\ m.by = 0 => m.entries = << >>
           /\ m.by \in Copiers => m.by # 0 /\ m.kind = "list"
           /\ m.kind = "absent" =>
                  /\ m.by = 0
                  /\ \A kind \in {"file", "link", "folder"} :
                         [m EXCEPT !.kind = kind] \in Lists /\ [m EXCEPT !.kind = kind].by = 0
<1>1. << >> \in Seq(Planned) /\ 0 \notin Copiers
  BY EmptySeq, CopyAssumption
<1>2. CASE m \in [kind: {"absent", "file", "link", "folder"}, by: {0}, entries: {<< >>}]
  BY <1>1, <1>2 DEF Lists
<1>3. CASE m \in [kind: {"list"}, by: Copiers, entries: Seq(Planned)]
  BY <1>1, <1>3
<1> QED  BY <1>2, <1>3 DEF Lists

LEMMA MineStays ==
    ASSUME Copying, NEW c \in Copiers, Running(c), dir' = dir, plan'[c] = plan[c],
           job'[c] = job[c], index'[c] = index[c],
           copier'[c] \in {"playlist", "listing", "owner"} =>
               copier[c] \in {"playlist", "listing", "owner"}
    PROVE  c \notin overlap => Mine(c)'
<1>1. SUFFICES ASSUME c \notin overlap PROVE Mine(c)'
  OBVIOUS
<1>2. Mine(c)
  BY <1>1 DEF Copying, CopyOK, ListsOK
<1> QED  BY <1>2 DEF Mine

LEMMA ReadingUntouched ==
    ASSUME NEW d \in Copiers, CopyTyped, CopyTyped', ReadingOK(d), Untouched(d), NothingLost
    PROVE  ReadingOK(d)'
<1> DEFINE n == Len(version)
           m == Len(version')
           h == halves[d]
           q == fd[d]
           s == seen[d]
           w == copier[d]
<1>1. n \in Nat /\ m \in Nat /\ n <= m
  <2>1. version \in Seq(Nat) /\ version' \in Seq(Nat)
    BY DEF CopyTyped
  <2> QED  BY <2>1, LenProperties DEF NothingLost
<1>2. /\ fd'[d] = q /\ seen'[d] = s /\ halves'[d] = h /\ copier'[d] = w
      /\ job'[d] = job[d] /\ index'[d] = index[d]
  BY DEF Untouched
<1>3. Expected(d)' = Expected(d)
  BY <1>2 DEF Expected
<1>4. s \in Nat /\ h \in Seq(Nat)
  BY DEF CopyTyped
<1>5. q \in 0..n
  BY DEF ReadingOK
<1>6. ASSUME q # 0 PROVE version[q] <= version'[q] /\ version[q] \in Nat /\ version'[q] \in Nat
  <2>1. q \in 1..n /\ q \in 1..m
    BY <1>1, <1>5, <1>6
  <2>2. version \in Seq(Nat) /\ version' \in Seq(Nat)
    BY DEF CopyTyped
  <2> QED  BY <2>1, <2>2, ElementOfSeq DEF NothingLost
<1>7. q \in 0..m
  BY <1>1, <1>5
<1>8. w \in {"read", "verify"} => q # 0
  BY DEF ReadingOK
<1>9. \A k \in 1..Len(h) : h[k] \in Nat
  BY <1>4, ElementOfSeq
<1>10. ASSUME w \in {"read", "verify"}
       PROVE  s <= version'[q] /\ \A k \in 1..Len(h) : s <= h[k] /\ h[k] <= version'[q]
  <2>1. s <= version[q] /\ \A k \in 1..Len(h) : s <= h[k] /\ h[k] <= version[q]
    BY <1>10 DEF ReadingOK
  <2>2. version[q] <= version'[q] /\ version[q] \in Int /\ version'[q] \in Int
    BY <1>6, <1>8, <1>10
  <2> QED  BY <1>4, <1>9, <2>1, <2>2
<1>11. /\ w \in {"read", "verify", "place"} => q # 0 /\ (job[d].kind = "copies" => s = Expected(d))
       /\ w = "place" => \A k \in 1..Len(h) : h[k] = s
       /\ Len(h) \in IF w = "read" THEN 0..1
                     ELSE IF w \in {"verify", "place"} THEN {2} ELSE {0}
  BY DEF ReadingOK
<1> HIDE DEF h, q, s, w, m
<1> QED  BY <1>2, <1>3, <1>7, <1>10, <1>11 DEF ReadingOK, m

LEMMA OwnUntouched ==
    ASSUME NEW d \in Copiers, CopyTyped, CopyTyped', Own(d), Untouched(d), NothingLost
    PROVE  Own(d)'
<1>1. Running(d)' <=> Running(d)
  BY DEF Running, Untouched
<1>2. PlanOK(d)'
  BY <1>1 DEF Own, PlanOK, Untouched
<1>3. ReadingOK(d)'
  BY ReadingUntouched DEF Own
<1>4. StagingOK(d)'
  BY <1>1 DEF Own, StagingOK, Untouched, Staged
<1>5. SetOK(d)'
  <2>1. \A e, i : Is(Target(e, i), {"track"}) => Is(Target(e, i), {"track"})'
    BY TracksStay
  <2> QED  BY <1>1, <2>1 DEF Own, SetOK, Untouched, GroupsHold
<1>6. ScratchOK(d)'
  BY DEF Own, ScratchOK, Untouched
<1>7. LookedOK(d)'
  <2>1. SUFFICES ASSUME NEW t \in DOMAIN dir', CopiesTo(d, t)'
                 PROVE  dir'[t].kind \in {"track", "file"} \/ d \in dir'[t].during
    BY DEF LookedOK
  <2>2. CopiesTo(d, t)
    BY <2>1 DEF CopiesTo, Untouched
  <2> QED  BY <2>2 DEF NothingLost, Own, LookedOK
<1> QED  BY <1>2, <1>3, <1>4, <1>5, <1>6, <1>7 DEF Own

\* The destination of the exports, while nobody publishes one.
LEMMA OutputKept ==
    ASSUME CopyTyped, OutputOK, output' = output,
           \A d \in Copiers : copier[d] = "done" => copier'[d] = "done" /\ job'[d] = job[d]
    PROVE  OutputOK'
<1>1. CASE output.kind # "export"
  BY <1>1 DEF OutputOK
<1>2. CASE output.kind = "export"
  <2>1. output.by \in Copiers /\ copier[output.by] = "done" /\ ExportsMatchTheCatalog
    BY <1>2 DEF OutputOK
  <2>2. copier'[output.by] = "done" /\ job'[output.by] = job[output.by]
    BY <2>1
  <2>3. ExportsMatchTheCatalog'
    BY <2>1, <2>2 DEF ExportsMatchTheCatalog
  <2> QED  BY <2>1, <2>2, <2>3 DEF OutputOK
<1> QED  BY <1>1, <1>2

\* The lists, in a step of c that writes none.
LEMMA ListsKept ==
    ASSUME NEW c \in Copiers, \A d \in Copiers : ListsOK(d), CopyTyped, Running(c),
           \A d \in Copiers \ {c} : Untouched(d),
           playlist' = playlist, listing' = listing, overlap' = overlap,
           copier'[c] \notin {"listing", "owner"},
           copier'[c] = "done" /\ job'[c].kind = "set" => job[c].kind = "set" /\ copier[c] = "owner",
           c \notin overlap => Mine(c)', NEW d \in Copiers
    PROVE  ListsOK(d)'
<1>1. \A e \in Copiers : Running(e)' => Running(e)
  <2>1. \A e \in Copiers \ {c} : copier'[e] = copier[e]
    BY DEF Untouched
  <2> QED  BY <2>1 DEF Running
<1>2. \A e \in Copiers : copier'[e] = "listing" => copier[e] = "listing"
  BY DEF Untouched
<1>3. SUFFICES ASSUME d \notin overlap PROVE ListsOK(d)'
  BY DEF ListsOK
<1>4. Running(d)' => \A e \in Copiers \ {d} : ~Running(e)'
  BY <1>1, <1>3 DEF ListsOK
<1>5. CASE d = c
  <2>1. \A e \in Copiers \ {c} : ~Running(e)
    BY <1>3, <1>5 DEF ListsOK
  <2>2. copier'[c] = "done" /\ job'[c].kind = "set" =>
            listing = playlist /\ \A e \in Copiers : copier'[e] # "listing"
    <3>1. SUFFICES ASSUME copier'[c] = "done", job'[c].kind = "set"
                   PROVE  listing = playlist /\ \A e \in Copiers : copier'[e] # "listing"
      OBVIOUS
    <3>2. listing = playlist
      BY <1>3, <1>5, <3>1 DEF ListsOK
    <3>3. \A e \in Copiers \ {c} : copier[e] # "listing"
      BY <2>1 DEF Running, Busy
    <3> QED  BY <1>2, <3>2, <3>3
  <2> QED  BY <1>3, <1>4, <1>5, <2>2 DEF ListsOK
<1>6. CASE d # c
  <2>1. ~Running(d)
    BY <1>3, <1>6 DEF ListsOK
  <2>2. copier'[d] = copier[d] /\ job'[d] = job[d]
    BY <1>6 DEF Untouched
  <2>3. copier'[d] # "listing" /\ copier'[d] # "owner" /\ Mine(d)'
    BY <2>1, <2>2 DEF Running, Busy, Mine
  <2> QED  BY <1>2, <1>3, <1>4, <2>2, <2>3 DEF ListsOK
<1> QED  BY <1>5, <1>6

\* A step of one command that publishes nothing.
LEMMA CopierMoves ==
    ASSUME Copying, NEW c \in Copiers, Running(c), CopyTyped', Own(c)', NothingLost,
           \A d \in Copiers \ {c} : Untouched(d),
           playlist' = playlist, listing' = listing, output' = output, overlap' = overlap,
           copier'[c] \notin {"listing", "owner"},
           copier'[c] = "done" /\ job'[c].kind = "set" => job[c].kind = "set" /\ copier[c] = "owner",
           c \notin overlap => Mine(c)'
    PROVE  Copying'
<1>1. \A d \in Copiers : CopyOK(d) /\ Own(d)
  BY DEF Copying, CopyOK, Own
<1>2. \A d \in Copiers : Own(d)'
  BY <1>1, OwnUntouched DEF Copying
<1>3. \A d \in Copiers : ListsOK(d)'
  <2>1. CopyTyped /\ \A d \in Copiers : ListsOK(d)
    BY <1>1 DEF Copying, CopyOK
  <2> QED  BY <2>1, ListsKept
<1>4. \A d \in Copiers : CopyOK(d)'
  BY <1>2, <1>3 DEF CopyOK, Own
<1>5. AllThere(playlist.entries)' /\ AllThere(listing.entries)' /\ GroupsHold(playlist.entries)'
  <2>1. \A e, i : Is(Target(e, i), {"track"}) => Is(Target(e, i), {"track"})'
    BY TracksStay
  <2> QED  BY <2>1 DEF Copying, AllThere, GroupsHold
<1>6. OutputOK'
  <2>1. copier[c] # "done"
    BY DEF Running, Busy
  <2>2. \A d \in Copiers : copier[d] = "done" => copier'[d] = "done" /\ job'[d] = job[d]
    BY <2>1 DEF Untouched
  <2> QED  BY <2>2, OutputKept DEF Copying
<1> QED  BY <1>4, <1>5, <1>6 DEF Copying

-----------------------------------------------------------------------------
(* The library and the destination, in other hands                         *)

\* A step that leaves every command as it is.
LEMMA OthersMove ==
    ASSUME Copying, CopyTyped', NothingLost, UNCHANGED <<command, staging>>,
           \A t \in DOMAIN dir : dir'[t] = dir[t],
           playlist' = playlist \/ (playlist.by = 0 /\ playlist'.by = 0),
           listing' = listing \/ (listing.by = 0 /\ listing'.by = 0),
           output' = output \/ output'.kind # "export"
    PROVE  Copying'
<1>0. /\ playlist \in Lists /\ listing \in Lists /\ playlist' \in Lists /\ listing' \in Lists
      /\ 0 \notin Copiers
  BY CopyAssumption DEF Copying, CopyTyped
<1>1. \A d \in Copiers : Untouched(d)
  BY DEF Untouched, command, reading
<1>2. \A d \in Copiers : Own(d) /\ ListsOK(d)
  BY DEF Copying, CopyOK, Own
<1>3. \A d \in Copiers : Own(d)'
  BY <1>1, <1>2, OwnUntouched DEF Copying
<1>4. ASSUME NEW d \in Copiers PROVE ListsOK(d)'
  <2>1. SUFFICES ASSUME d \notin overlap PROVE ListsOK(d)'
    BY DEF ListsOK, command
  <2>2. ListsOK(d) /\ SetOK(d)
    BY <1>2 DEF Own
  <2>3. \A e \in Copiers : Running(e)' <=> Running(e)
    BY DEF Running, command
  <2>4. /\ copier' = copier /\ job' = job /\ plan' = plan /\ index' = index
        /\ overlap' = overlap
    BY DEF command
  <2>5. Mine(d)'
    <3>1. Mine(d)
      BY <2>1, <2>2 DEF ListsOK
    <3>2. \A i \in 1..Len(plan[d]) :
             Is(Target(plan[d], i), {"track"}) =>
                 dir'[Target(plan[d], i)] = dir[Target(plan[d], i)]
      BY DEF Is
    <3> QED  BY <2>2, <2>3, <2>4, <3>1, <3>2 DEF Mine, SetOK
  <2>6. copier[d] = "listing" => playlist' = List(d, plan[d])
    BY <1>0, <2>1, <2>2 DEF ListsOK, List
  <2>7. copier[d] = "owner" => playlist' = List(d, plan[d]) /\ listing' = playlist'
    BY <1>0, <2>1, <2>2 DEF ListsOK, List
  <2>8. copier[d] = "done" /\ job[d].kind = "set" /\ playlist'.by = d =>
            listing' = playlist' /\ \A e \in Copiers : copier[e] # "listing"
    BY <1>0, <2>1, <2>2 DEF ListsOK
  <2> QED  BY <2>1, <2>2, <2>3, <2>4, <2>5, <2>6, <2>7, <2>8 DEF ListsOK
<1>5. \A d \in Copiers : CopyOK(d)'
  BY <1>3, <1>4 DEF CopyOK, Own
<1>6. AllThere(playlist.entries)' /\ AllThere(listing.entries)' /\ GroupsHold(playlist.entries)'
  <2>1. playlist'.entries = playlist.entries /\ listing'.entries = listing.entries
    BY <1>0, ListIs
  <2>2. \A e, i : Is(Target(e, i), {"track"}) => Is(Target(e, i), {"track"})'
    BY TracksStay
  <2> QED  BY <2>1, <2>2 DEF Copying, AllThere, GroupsHold
<1>7. OutputOK'
  <2>1. CASE output' = output
    <3>1. \A d \in Copiers : copier'[d] = copier[d] /\ job'[d] = job[d]
      BY <1>1 DEF Untouched
    <3> QED  BY <2>1, <3>1, OutputKept DEF Copying
  <2>2. CASE output'.kind # "export"
    BY <2>2 DEF OutputOK
  <2> QED  BY <2>1, <2>2
<1> QED  BY <1>5, <1>6, <1>7 DEF Copying

LEMMA LibraryTyped ==
    ASSUME CopyTyped, UNCHANGED <<command, results>>, version' \in Seq(Nat),
           path' \in [Files -> 0..Len(version')], known' \in [Files -> Nat], edits' \in 0..MaxEdits
    PROVE  CopyTyped'
<1>1. UNCHANGED <<copier, job, plan, index, fd, seen, halves, dir, staging, playlist, listing, output>>
  BY DEF command, reading, results
<1> QED  BY <1>1 DEF CopyTyped, Object, Whole

LEMMA LibraryMoves ==
    ASSUME Copying, NEW f \in Files,
           EditInPlace(f) \/ ReplaceFile(f) \/ RemoveFile(f) \/ Rescan(f)
    PROVE  Copying'
<1> DEFINE n == Len(version)
<1>1. /\ version \in Seq(Nat) /\ n \in Nat /\ \A i \in 1..n : version[i] \in Nat
      /\ path \in [Files -> 0..n] /\ known \in [Files -> Nat] /\ edits \in 0..MaxEdits
      /\ MaxEdits \in Nat /\ CopyTyped
  <2>1. version \in Seq(Nat)
    BY DEF Copying, CopyTyped
  <2> QED  BY <2>1, LenProperties, ElementOfSeq, CopyAssumption DEF Copying, CopyTyped
<1>2. UNCHANGED <<command, results>>
  BY DEF EditInPlace, ReplaceFile, RemoveFile, Rescan
<1>3. edits' \in 0..MaxEdits
  <2>1. CASE Edited
    BY <1>1, <2>1 DEF Edited
  <2>2. CASE edits' = edits
    BY <1>1, <2>2
  <2> QED  BY <2>1, <2>2 DEF EditInPlace, ReplaceFile, RemoveFile, Rescan
<1>4. /\ version' \in Seq(Nat) /\ path' \in [Files -> 0..Len(version')] /\ known' \in [Files -> Nat]
      /\ n <= Len(version') /\ \A i \in 1..n : version[i] <= version'[i]
  <2>1. CASE EditInPlace(f)
    <3> DEFINE q == path[f]
               v == [version EXCEPT ![q] = version[q] + 1]
    <3>1. q \in 1..n
      <4>1. q \in 0..n /\ q # 0
        BY <1>1, <2>1 DEF EditInPlace, Present
      <4> QED  BY <1>1, <4>1
    <3>2. version' = v /\ path' = path /\ known' = known
      BY <2>1 DEF EditInPlace
    <3>3. version[q] \in Nat /\ version[q] + 1 \in Nat
      BY <1>1, <3>1
    <3>4. v \in Seq(Nat) /\ Len(v) = n
          /\ \A i \in 1..n : v[i] = IF i = q THEN version[q] + 1 ELSE version[i]
      <4> HIDE DEF q
      <4> QED  BY <1>1, <3>1, <3>3, ExceptSeq
    <3> HIDE DEF v, q
    <3>5. ASSUME NEW i \in 1..n PROVE version[i] <= v[i]
      <4>1. version[i] \in Int
        BY <1>1
      <4>2. CASE i = q
        BY <3>3, <3>4, <4>2
      <4>3. CASE i # q
        <5>1. v[i] = version[i]
          BY <3>4, <4>3
        <5> QED  BY <4>1, <5>1
      <4> QED  BY <4>2, <4>3
    <3> QED  BY <1>1, <3>2, <3>4, <3>5
  <2>2. CASE ReplaceFile(f)
    <3>1. PICK v \in {known[f], known[f] + 1} : version' = Append(version, v)
      BY <2>2 DEF ReplaceFile
    <3>2. v \in Nat
      <4>1. known[f] \in Nat
        BY <1>1
      <4> QED  BY <3>1, <4>1
    <3> DEFINE w == Append(version, v)
    <3>3. w \in Seq(Nat) /\ Len(w) = n + 1 /\ \A i \in 1..n : w[i] = version[i]
      BY <1>1, <3>2, AppendProperties
    <3> HIDE DEF w
    <3>4. version' = w
      BY <3>1 DEF w
    <3>5. path' \in [Files -> 0..Len(w)] /\ known' = known
      <4>1. path' = [path EXCEPT ![f] = n + 1] /\ known' = known
        BY <2>2 DEF ReplaceFile
      <4>2. n + 1 \in 0..Len(w) /\ \A g \in Files : path[g] \in 0..Len(w)
        BY <1>1, <3>3
      <4> QED  BY <1>1, <4>1, <4>2
    <3>6. \A i \in 1..n : version[i] <= w[i]
      BY <1>1, <3>3
    <3> QED  BY <1>1, <3>3, <3>4, <3>5, <3>6
  <2>3. CASE RemoveFile(f)
    <3>1. version' = version /\ known' = known /\ path' = [path EXCEPT ![f] = 0]
      BY <2>3 DEF RemoveFile
    <3> QED  BY <1>1, <3>1
  <2>4. CASE Rescan(f)
    <3>1. version' = version /\ path' = path /\ known' = [known EXCEPT ![f] = version[path[f]]]
      BY <2>4 DEF Rescan
    <3>2. path[f] \in 1..n
      BY <1>1, <2>4 DEF Rescan, Present
    <3> QED  BY <1>1, <3>1, <3>2
  <2> QED  BY <2>1, <2>2, <2>3, <2>4
<1>5. CopyTyped'
  BY <1>1, <1>2, <1>3, <1>4, LibraryTyped
<1>6. UNCHANGED <<command, dir, staging, playlist, listing, output>>
  BY <1>2 DEF results
<1>7. NothingLost
  BY <1>4, <1>6 DEF NothingLost
<1> QED  BY <1>5, <1>6, <1>7, OthersMove

LEMMA VersionsKept ==
    ASSUME CopyTyped, version' = version
    PROVE  /\ Len(version) <= Len(version')
           /\ \A i \in 1..Len(version) : version[i] <= version'[i]
<1>1. version \in Seq(Nat)
  BY DEF CopyTyped
<1>2. Len(version) \in Nat /\ \A i \in 1..Len(version) : version[i] \in Nat
  BY <1>1, LenProperties, ElementOfSeq
<1> QED  BY <1>2

LEMMA NothingLostHere ==
    ASSUME CopyTyped, version' = version, dir' = dir
    PROVE  NothingLost
BY VersionsKept DEF NothingLost

LEMMA IntrudePreserves == Copying /\ Intrude => Copying'
<1> SUFFICES ASSUME Copying, Intrude PROVE Copying'
  OBVIOUS
<1>1. CopyTyped /\ playlist \in Lists /\ listing \in Lists
  BY DEF Copying, CopyTyped
<1>2. /\ UNCHANGED <<path, version, known, command, staging, output>>
      /\ edits < MaxEdits /\ edits' = edits + 1
  BY DEF Intrude, Edited
<1>3. edits' \in 0..MaxEdits
  <2>1. edits \in 0..MaxEdits /\ MaxEdits \in Nat
    BY <1>1, CopyAssumption DEF CopyTyped
  <2> QED  BY <1>2, <2>1
<1>4. PICK kind \in {"file", "link", "folder"} :
          \/ /\ \E t \in Names \ DOMAIN dir : dir' = Extend(dir, t, Foreign(kind, t))
             /\ UNCHANGED <<playlist, listing>>
          \/ /\ playlist.kind = "absent"
             /\ playlist' = [playlist EXCEPT !.kind = kind]
             /\ UNCHANGED <<dir, listing>>
          \/ /\ listing.kind = "absent"
             /\ listing' = [listing EXCEPT !.kind = kind]
             /\ UNCHANGED <<dir, playlist>>
  BY DEF Intrude
<1>5. /\ playlist' \in Lists /\ listing' \in Lists
      /\ playlist' = playlist \/ (playlist.by = 0 /\ playlist'.by = 0)
      /\ listing' = listing \/ (listing.by = 0 /\ listing'.by = 0)
  BY <1>1, <1>4, ListIs
<1>6. /\ DOMAIN dir \subseteq DOMAIN dir' /\ \A t \in DOMAIN dir : dir'[t] = dir[t]
      /\ \A t \in DOMAIN dir' \ DOMAIN dir :
             /\ dir'[t].kind = kind
             /\ \A d \in Copiers : CopiesTo(d, t) => d \in dir'[t].during
  <2>1. CASE dir' = dir
    BY <2>1
  <2>2. CASE \E t \in Names \ DOMAIN dir : dir' = Extend(dir, t, Foreign(kind, t))
    <3>1. PICK t \in Names \ DOMAIN dir : dir' = Extend(dir, t, Foreign(kind, t))
      BY <2>2
    <3>2. Foreign(kind, t).kind = kind
          /\ \A d \in Copiers : CopiesTo(d, t) => d \in Foreign(kind, t).during
      BY DEF Foreign
    <3> QED  BY <3>1, <3>2 DEF Extend
  <2> QED  BY <1>4, <2>1, <2>2
<1>7. NothingLost
  BY <1>1, <1>2, <1>6, VersionsKept DEF NothingLost
<1>8. \A t \in DOMAIN dir' : Object(dir'[t])
  BY <1>1, <1>6 DEF CopyTyped, Object
<1>9. CopyTyped'
  BY <1>1, <1>2, <1>3, <1>5, <1>8 DEF CopyTyped, Object, Whole, command, reading
<1> QED  BY <1>2, <1>5, <1>6, <1>7, <1>9, OthersMove

LEMMA OccupyPreserves == Copying /\ Occupy => Copying'
<1> SUFFICES ASSUME Copying, Occupy PROVE Copying'
  OBVIOUS
<1>1. CopyTyped
  BY DEF Copying
<1>2. /\ UNCHANGED <<path, version, known, command, dir, staging, playlist, listing>>
      /\ edits < MaxEdits /\ edits' = edits + 1
  BY DEF Occupy, Edited
<1>3. PICK kind \in {"empty", "other"} : output' = [output EXCEPT !.kind = kind]
  BY DEF Occupy
<1>4. output' \in Copies /\ output'.kind # "export"
  <2>1. output \in Copies
    BY <1>1 DEF CopyTyped
  <2> QED  BY <1>3, <2>1 DEF Copies
<1>5. edits' \in 0..MaxEdits
  <2>1. edits \in 0..MaxEdits /\ MaxEdits \in Nat
    BY <1>1, CopyAssumption DEF CopyTyped
  <2> QED  BY <1>2, <2>1
<1>6. CopyTyped'
  BY <1>1, <1>2, <1>4, <1>5 DEF CopyTyped, Object, Whole, command, reading
<1> QED  BY <1>1, <1>2, <1>4, <1>6, NothingLostHere, OthersMove

-----------------------------------------------------------------------------
(* The steps of a command                                                  *)

LEMMA CopierIs ==
    ASSUME Copying, NEW c \in Copiers
    PROVE  /\ CopyTyped /\ Own(c)
           /\ version \in Seq(Nat) /\ path \in [Files -> 0..Len(version)] /\ known \in [Files -> Nat]
           /\ copier[c] \in {"idle"} \cup Busy \cup Over
           /\ job[c].kind \in {"none", "set", "report", "paths", "copies"}
           /\ job[c].expected \in Seq(Nat) /\ plan[c] \in Seq(Planned)
           /\ index[c] \in Nat /\ fd[c] \in Nat /\ seen[c] \in Nat /\ halves[c] \in Seq(Nat)
           /\ staging[c].exists \in BOOLEAN /\ staging[c].tracks \in Seq(Seq(Nat))
<1>1. CopyTyped /\ CopyOK(c)
  BY DEF Copying
<1>2. Own(c)
  BY <1>1 DEF CopyOK, Own
<1>3. job[c] \in [kind: {"none", "set", "report", "paths", "copies"}, expected: Seq(Nat)]
  BY <1>1 DEF CopyTyped
<1>4. staging[c] \in [exists: BOOLEAN, tracks: Seq(Seq(Nat))]
  BY <1>1 DEF CopyTyped
<1> QED  BY <1>1, <1>2, <1>3, <1>4 DEF CopyTyped

\* What a running command is at: an entry of its plan.
LEMMA RunningIs ==
    ASSUME Copying, NEW c \in Copiers, Running(c)
    PROVE  /\ index[c] \in 1..Len(plan[c]) /\ Len(plan[c]) \in Nat
           /\ plan[c][index[c]] \in Planned /\ File(c) \in Files
           /\ job[c].kind \in KindsAt(copier[c])
           /\ job[c].kind # "set" => Len(job[c].expected) = Len(plan[c]) /\ Expected(c) \in Nat
<1>1. PlanOK(c) /\ plan[c] \in Seq(Planned) /\ job[c].expected \in Seq(Nat)
  BY CopierIs DEF Own
<1>2. /\ index[c] \in 1..Len(plan[c]) /\ job[c].kind \in KindsAt(copier[c])
      /\ job[c].kind # "set" => Len(job[c].expected) = Len(plan[c])
  BY <1>1 DEF PlanOK
<1>3. Len(plan[c]) \in Nat /\ plan[c][index[c]] \in Planned
  BY <1>1, <1>2, LenProperties, ElementOfSeq
<1>4. File(c) \in Files
  BY <1>3 DEF File, Planned
<1>5. job[c].kind # "set" => Expected(c) \in Nat
  BY <1>1, <1>2, ElementOfSeq DEF Expected
<1> QED  BY <1>2, <1>3, <1>4, <1>5

\* A function changed at one command.
LEMMA AtOne ==
    ASSUME NEW S, NEW f \in [Copiers -> S], NEW c \in Copiers, NEW v \in S, NEW g,
           g = [f EXCEPT ![c] = v]
    PROVE  g \in [Copiers -> S] /\ g[c] = v /\ \A d \in Copiers \ {c} : g[d] = f[d]
OBVIOUS

LEMMA ResolveAllPreserves ==
    ASSUME Copying, NEW c \in Copiers, ResolveAll(c)
    PROVE  Copying'
<1> DEFINE i == index[c]
           n == Len(plan[c])
           at == IF ~Last1(c) THEN "resolve" ELSE IF job[c].kind = "copies" THEN "open" ELSE "publish"
           j == IF Last1(c) THEN 1 ELSE i + 1
<1>1. copier[c] = "resolve" /\ Running(c)
  BY DEF ResolveAll, Running, Busy
<1>2. /\ index' = [index EXCEPT ![c] = j] /\ copier' = [copier EXCEPT ![c] = at]
      /\ UNCHANGED <<library, job, plan, reading, scratch, overlap, results>>
  BY DEF ResolveAll
<1>3. /\ CopyTyped /\ Own(c) /\ i \in 1..n /\ n \in Nat
      /\ job[c].kind \in {"paths", "copies"} /\ (Last1(c) <=> i = n)
  BY <1>1, CopierIs, RunningIs DEF KindsAt, Last1
<1>4. j \in 1..n /\ at \in {"resolve", "open", "publish"} /\ at \in Busy /\ j \in Nat
  BY <1>3 DEF Busy
<1> HIDE DEF at, j
<1>5. CopyTyped'
  BY <1>2, <1>3, <1>4 DEF CopyTyped, library, reading, results, Object, Whole
<1>6. copier'[c] = at /\ index'[c] = j /\ Running(c)'
  BY <1>2, <1>3, <1>4 DEF CopyTyped, Running
<1>7. \A d \in Copiers \ {c} : Untouched(d)
  BY <1>2, <1>3 DEF CopyTyped, Untouched, reading, results
<1>8. PlanOK(c)'
  BY <1>1, <1>2, <1>3, <1>4, <1>6 DEF Own, PlanOK, KindsAt, at
<1>9. ReadingOK(c)'
  BY <1>1, <1>2, <1>3, <1>4, <1>6 DEF Own, ReadingOK, library, reading
<1>10. StagingOK(c)'
  <2>1. staging'[c] = staging[c] /\ job'[c] = job[c] /\ plan'[c] = plan[c]
    BY <1>2 DEF results
  <2>2. Len(staging[c].tracks) = 0 \/ job[c].kind = "paths"
    BY <1>1, <1>3 DEF Own, StagingOK, Staged
  <2>3. staging[c].exists
    BY <1>1, <1>3 DEF Own, StagingOK
  <2>4. job[c].kind = "copies" => Staged(c)' = 0
    BY <1>3, <1>6, <2>1 DEF Staged, at, j
  <2>5. at \notin {"idle", "done"}
    BY <1>4
  <2> QED  BY <1>1, <1>3, <1>6, <2>1, <2>2, <2>3, <2>4, <2>5 DEF Own, StagingOK
<1>11. SetOK(c)'
  BY <1>2, <1>3 DEF Own, SetOK, GroupsHold, Is
<1>12. ScratchOK(c)'
  BY <1>1, <1>2, <1>3 DEF Own, ScratchOK
<1>13. NothingLost
  BY <1>2, <1>3, NothingLostHere DEF library, results
<1>14. LookedOK(c)' /\ Mine(c)'
  <2>1. copier'[c] \notin {"read", "verify", "place"} /\ job'[c].kind # "set"
    BY <1>2, <1>3, <1>4, <1>6
  <2> QED  BY <2>1, NotLooking DEF Mine
<1> QED
  BY <1>1, <1>2, <1>4, <1>5, <1>6, <1>7, <1>8, <1>9, <1>10, <1>11, <1>12, <1>13, <1>14,
     CopierMoves DEF Own, results

LEMMA OpenSourcePreserves ==
    ASSUME Copying, NEW c \in Copiers, OpenSource(c)
    PROVE  Copying'
<1> DEFINE p == path[File(c)]
           s == version[p]
<1>1. copier[c] = "open" /\ Running(c)
  BY DEF OpenSource, Running, Busy
<1>2. /\ fd' = [fd EXCEPT ![c] = p] /\ seen' = [seen EXCEPT ![c] = s]
      /\ halves' = [halves EXCEPT ![c] = << >>] /\ scratch' = scratch \cup {c}
      /\ copier' = [copier EXCEPT ![c] = "read"] /\ p # 0
      /\ job[c].kind = "copies" => s = Expected(c)
      /\ job[c].kind = "set" => ~Is(Here(c), {"link", "folder"})
      /\ UNCHANGED <<library, job, plan, index, overlap, results>>
  BY DEF OpenSource, Present
<1>3. /\ CopyTyped /\ Own(c) /\ job[c].kind \in {"set", "copies"} /\ version \in Seq(Nat)
      /\ path \in [Files -> 0..Len(version)] /\ File(c) \in Files
  BY <1>1, CopierIs, RunningIs DEF KindsAt
<1>4. Len(version) \in Nat /\ p \in 1..Len(version) /\ p \in Nat /\ s \in Nat
  <2>1. Len(version) \in Nat /\ p \in 0..Len(version)
    BY <1>3, LenProperties
  <2>2. p \in 1..Len(version)
    BY <1>2, <2>1
  <2> QED  BY <1>3, <2>1, <2>2, ElementOfSeq
<1> HIDE DEF p, s
<1>5. << >> \in Seq(Nat) /\ Len(<< >>) = 0
  BY EmptySeq
<1>6. CopyTyped'
  BY <1>2, <1>3, <1>4, <1>5 DEF CopyTyped, library, results, Object, Whole, Busy
<1>7. /\ copier'[c] = "read" /\ fd'[c] = p /\ seen'[c] = s /\ halves'[c] = << >>
      /\ index'[c] = index[c] /\ job' = job /\ plan' = plan /\ staging' = staging
      /\ version' = version /\ dir' = dir
  BY <1>2, <1>3 DEF CopyTyped, library, results
<1>8. Running(c)'
  BY <1>7 DEF Running, Busy
<1>9. \A d \in Copiers \ {c} : Untouched(d)
  BY <1>2, <1>3 DEF CopyTyped, Untouched, results
<1>10. PlanOK(c)'
  BY <1>1, <1>3, <1>7, <1>8 DEF Own, PlanOK, KindsAt
<1>11. ReadingOK(c)'
  <2>1. Expected(c)' = Expected(c)
    BY <1>7 DEF Expected
  <2>2. version'[p] = s
    BY <1>7 DEF s
  <2>3. Len(halves'[c]) = 0 /\ \A k \in 1..Len(halves'[c]) : FALSE
    BY <1>5, <1>7
  <2>4. p \in 0..Len(version') /\ p # 0 /\ s <= s
    BY <1>4, <1>7
  <2> QED  BY <1>2, <1>7, <2>1, <2>2, <2>3, <2>4 DEF ReadingOK
<1>12. StagingOK(c)'
  BY <1>1, <1>7, <1>8 , <1>3 DEF Own, StagingOK, Staged
<1>13. SetOK(c)'
  BY <1>1, <1>3, <1>7, <1>8 DEF Own, SetOK, GroupsHold, Is
<1>14. ScratchOK(c)'
  BY <1>7 DEF ScratchOK
<1>15. NothingLost
  BY <1>3, <1>7, NothingLostHere
<1>16. LookedOK(c)'
  <2>1. SUFFICES ASSUME NEW t \in DOMAIN dir, CopiesTo(c, t)'
                 PROVE  dir[t].kind \in {"track", "file"}
    BY <1>7 DEF LookedOK
  <2>2. job[c].kind = "set" /\ t = Here(c)
    BY <1>7, <2>1 DEF CopiesTo, Here
  <2>3. dir[t].kind \notin {"link", "folder"}
    BY <1>2, <2>1, <2>2 DEF Is
  <2> QED  BY <1>3, <2>3 DEF CopyTyped, Object
<1>17. c \notin overlap => Mine(c)'
  BY <1>1, <1>7, MineStays
<1> QED
  BY <1>1, <1>2, <1>6, <1>7, <1>9, <1>10, <1>11, <1>12, <1>13, <1>14, <1>15, <1>16, <1>17,
     CopierMoves DEF Own, results

LEMMA ReadHalfPreserves ==
    ASSUME Copying, NEW c \in Copiers, ReadHalf(c)
    PROVE  Copying'
<1> DEFINE h == halves[c]
           q == fd[c]
           v == version[q]
           h2 == Append(h, v)
           at == IF Len(h) = 1 THEN "verify" ELSE "read"
<1>1. copier[c] = "read" /\ Running(c)
  BY DEF ReadHalf, Running, Busy
<1>2. /\ halves' = [halves EXCEPT ![c] = h2] /\ copier' = [copier EXCEPT ![c] = at]
      /\ UNCHANGED <<library, job, plan, index, fd, seen, scratch, overlap, results>>
  BY DEF ReadHalf
<1>3. /\ CopyTyped /\ Own(c) /\ job[c].kind \in {"set", "copies"} /\ version \in Seq(Nat)
      /\ h \in Seq(Nat) /\ seen[c] \in Nat
  BY <1>1, CopierIs, RunningIs DEF KindsAt
<1>4. /\ q \in 0..Len(version) /\ q # 0 /\ Len(h) \in 0..1 /\ seen[c] <= v
      /\ job[c].kind = "copies" => seen[c] = Expected(c)
      /\ \A k \in 1..Len(h) : seen[c] <= h[k] /\ h[k] <= v
  BY <1>1, <1>3 DEF Own, ReadingOK
<1>5. v \in Nat
  <2>1. Len(version) \in Nat
    BY <1>3, LenProperties
  <2>2. q \in 1..Len(version)
    BY <1>4, <2>1
  <2> QED  BY <1>3, <2>2, ElementOfSeq
<1>6. /\ h2 \in Seq(Nat) /\ Len(h2) = Len(h) + 1 /\ h2[Len(h) + 1] = v
      /\ \A k \in 1..Len(h) : h2[k] = h[k]
  BY <1>3, <1>5, AppendProperties
<1>7. ASSUME NEW k \in 1..Len(h2) PROVE seen[c] <= h2[k] /\ h2[k] <= v
  <2>1. k \in 1..Len(h) \/ k = Len(h) + 1
    BY <1>4, <1>6
  <2>2. v <= v
    BY <1>5
  <2> HIDE DEF h2, v, h
  <2> QED  BY <1>4, <1>6, <2>1, <2>2
<1>8. at \in {"read", "verify"} /\ Len(h2) \in IF at = "read" THEN 0..1 ELSE {2}
  <2> HIDE DEF h, h2
  <2>1. CASE Len(h) = 1
    <3>1. at = "verify" /\ Len(h2) = 2
      BY <1>6, <2>1
    <3> QED  BY <3>1
  <2>2. CASE Len(h) = 0
    <3>1. at = "read" /\ Len(h2) = 1
      BY <1>6, <2>2
    <3> QED  BY <3>1
  <2>3. Len(h) = 0 \/ Len(h) = 1
    BY <1>4
  <2> QED  BY <2>1, <2>2, <2>3
<1> HIDE DEF h2, at
<1>9. CopyTyped'
  BY <1>2, <1>3, <1>6, <1>8 DEF CopyTyped, library, results, Object, Whole, Busy
<1>10. /\ copier'[c] = at /\ halves'[c] = h2 /\ fd' = fd /\ seen' = seen /\ index' = index
       /\ job' = job /\ plan' = plan /\ staging' = staging /\ version' = version /\ dir' = dir
  BY <1>2, <1>3 DEF CopyTyped, library, results
<1>11. Running(c)'
  BY <1>8, <1>10 DEF Running, Busy
<1>12. \A d \in Copiers \ {c} : Untouched(d)
  BY <1>2, <1>3 DEF CopyTyped, Untouched, results
<1>13. PlanOK(c)'
  BY <1>1, <1>3, <1>8, <1>10, <1>11 DEF Own, PlanOK, KindsAt
<1>14. ReadingOK(c)'
  <2>1. Expected(c)' = Expected(c)
    BY <1>10 DEF Expected
  <2> QED  BY <1>4, <1>7, <1>8, <1>10, <2>1 DEF ReadingOK
<1>15. StagingOK(c)'
  BY <1>1, <1>3, <1>8, <1>10, <1>11 DEF Own, StagingOK, Staged
<1>16. SetOK(c)'
  BY <1>1, <1>3, <1>8, <1>10, <1>11 DEF Own, SetOK, GroupsHold, Is
<1>17. ScratchOK(c)'
  BY <1>8, <1>10 DEF ScratchOK
<1>18. NothingLost
  BY <1>3, <1>10, NothingLostHere
<1>19. LookedOK(c)' /\ (c \notin overlap => Mine(c)')
  <2>1. \A t : CopiesTo(c, t)' => CopiesTo(c, t)
    BY <1>1, <1>10 DEF CopiesTo
  <2>2. c \notin overlap => Mine(c)'
    BY <1>1, <1>8, <1>10, MineStays
  <2> QED  BY <1>3, <1>10, <2>1, <2>2 DEF Own, LookedOK
<1> QED
  BY <1>1, <1>2, <1>8, <1>9, <1>10, <1>12, <1>13, <1>14, <1>15, <1>16, <1>17, <1>18, <1>19,
     CopierMoves DEF Own, results

LEMMA VerifyPreserves ==
    ASSUME Copying, NEW c \in Copiers, VerifyUnchanged(c)
    PROVE  Copying'
<1>1. copier[c] = "verify" /\ Running(c)
  BY DEF VerifyUnchanged, Running, Busy
<1>2. /\ copier' = [copier EXCEPT ![c] = "place"] /\ version[fd[c]] = seen[c]
      /\ UNCHANGED <<library, job, plan, index, reading, scratch, overlap, results>>
  BY DEF VerifyUnchanged
<1>3. /\ CopyTyped /\ Own(c) /\ job[c].kind \in {"set", "copies"}
      /\ halves[c] \in Seq(Nat) /\ seen[c] \in Nat
  BY <1>1, CopierIs, RunningIs DEF KindsAt
<1>4. CopyTyped'
  BY <1>2, <1>3 DEF CopyTyped, library, reading, results, Object, Whole, Busy
<1>5. /\ copier'[c] = "place" /\ halves' = halves /\ fd' = fd /\ seen' = seen /\ index' = index
      /\ job' = job /\ plan' = plan /\ staging' = staging /\ version' = version /\ dir' = dir
  BY <1>2, <1>3 DEF CopyTyped, library, reading, results
<1>6. Running(c)'
  BY <1>5 DEF Running, Busy
<1>7. \A d \in Copiers \ {c} : Untouched(d)
  BY <1>2, <1>3 DEF CopyTyped, Untouched, reading, results
<1>8. PlanOK(c)'
  BY <1>1, <1>3, <1>5, <1>6 DEF Own, PlanOK, KindsAt
<1>9. ReadingOK(c)'
  <2>1. Expected(c)' = Expected(c)
    BY <1>5 DEF Expected
  <2>2. /\ fd[c] \in 0..Len(version) /\ fd[c] # 0 /\ Len(halves[c]) = 2
        /\ job[c].kind = "copies" => seen[c] = Expected(c)
        /\ \A k \in 1..Len(halves[c]) : seen[c] <= halves[c][k] /\ halves[c][k] <= seen[c]
    BY <1>1, <1>2, <1>3 DEF Own, ReadingOK
  <2>3. ASSUME NEW k \in 1..Len(halves[c]) PROVE halves[c][k] = seen[c]
    <3>1. halves[c][k] \in Nat
      BY <1>3, ElementOfSeq
    <3> QED  BY <1>3, <2>2, <3>1
  <2> QED  BY <1>5, <2>1, <2>2, <2>3 DEF ReadingOK
<1>10. StagingOK(c)'
  BY <1>1, <1>3, <1>5, <1>6 DEF Own, StagingOK, Staged
<1>11. SetOK(c)'
  BY <1>1, <1>3, <1>5, <1>6 DEF Own, SetOK, GroupsHold, Is
<1>12. ScratchOK(c)'
  BY <1>5 DEF ScratchOK
<1>13. NothingLost
  BY <1>3, <1>5, NothingLostHere
<1>14. LookedOK(c)' /\ (c \notin overlap => Mine(c)')
  <2>1. \A t : CopiesTo(c, t)' => CopiesTo(c, t)
    BY <1>1, <1>5 DEF CopiesTo
  <2>2. c \notin overlap => Mine(c)'
    BY <1>1, <1>5, MineStays
  <2> QED  BY <1>3, <1>5, <2>1, <2>2 DEF Own, LookedOK
<1> QED
  BY <1>1, <1>2, <1>4, <1>5, <1>7, <1>8, <1>9, <1>10, <1>11, <1>12, <1>13, <1>14, CopierMoves
     DEF Own, results

\* What is put in place is one version, and of an export the expected one.
LEMMA ReadIsWhole ==
    ASSUME Copying, NEW c \in Copiers, copier[c] = "place"
    PROVE  /\ halves[c] \in Seq(Nat) /\ Whole(halves[c])
           /\ job[c].kind = "copies" => halves[c] = <<Expected(c), Expected(c)>>
<1> DEFINE h == halves[c]
<1>1. /\ h \in Seq(Nat) /\ Len(h) = 2 /\ \A k \in 1..Len(h) : h[k] = seen[c]
      /\ job[c].kind = "copies" => seen[c] = Expected(c)
      /\ seen[c] \in Nat
  BY CopierIs DEF Own, ReadingOK
<1> HIDE DEF h
<1>2. h[1] = seen[c] /\ h[2] = seen[c]
  BY <1>1
<1>3. h = <<seen[c], seen[c]>>
  <2> DEFINE w == <<seen[c], seen[c]>>
  <2>1. w \in Seq(Nat) /\ Len(w) = 2 /\ \A k \in 1..2 : w[k] = seen[c]
    BY <1>1
  <2> HIDE DEF w
  <2>2. h = w
    BY <1>1, <2>1, SeqEqual
  <2> QED  BY <2>2 DEF w
<1> QED  BY <1>1, <1>2, <1>3 DEF Whole, h

LEMMA PlacePreserves ==
    ASSUME Copying, NEW c \in Copiers, Place(c)
    PROVE  Copying'
<1> DEFINE i == index[c]
           n == Len(plan[c])
           h == halves[c]
           k == job[c].kind
           t == Target(plan[c], i)
           s == staging[c].tracks
           at == IF k = "copies" THEN "recheck" ELSE IF Last1(c) THEN "playlist" ELSE "open"
           j == IF k = "set" /\ ~Last1(c) THEN i + 1 ELSE i
<1>1. copier[c] = "place" /\ Running(c)
  BY DEF Place, Running, Busy
<1>2. /\ k = "set" => dir' = Extend(dir, t, Placed(c)) /\ staging' = staging
      /\ k # "set" => staging' = [staging EXCEPT ![c].tracks = Append(s, h)] /\ dir' = dir
      /\ scratch' = scratch \ {c} /\ copier' = [copier EXCEPT ![c] = at]
      /\ index' = [index EXCEPT ![c] = j]
      /\ fd' = [fd EXCEPT ![c] = 0] /\ seen' = [seen EXCEPT ![c] = 0]
      /\ halves' = [halves EXCEPT ![c] = << >>]
      /\ UNCHANGED <<library, job, plan, overlap, playlist, listing, output>>
  BY DEF Place, Copied, Here
<1>3. /\ CopyTyped /\ Own(c) /\ k \in {"set", "copies"} /\ i \in 1..n /\ n \in Nat
      /\ h \in Seq(Nat) /\ Whole(h) /\ (k = "copies" => h = <<Expected(c), Expected(c)>>)
      /\ s \in Seq(Seq(Nat)) /\ (Last1(c) <=> i = n)
  BY <1>1, CopierIs, RunningIs, ReadIsWhole DEF KindsAt, Last1
<1>4. j \in 1..n /\ j \in Nat /\ at \in {"recheck", "playlist", "open"}
  BY <1>3
<1>5. << >> \in Seq(Nat) /\ Len(<< >>) = 0
  BY EmptySeq
<1>6. /\ Append(s, h) \in Seq(Seq(Nat)) /\ Len(Append(s, h)) = Len(s) + 1
      /\ Append(s, h)[Len(s) + 1] = h /\ \A m \in 1..Len(s) : Append(s, h)[m] = s[m]
      /\ Len(s) \in Nat
  BY <1>3, AppendProperties, LenProperties
<1> DEFINE s2 == Append(s, h)
<1> HIDE DEF s2
<1>7. /\ Own(c)
      /\ k = "copies" => /\ Len(s) = i - 1
                         /\ \A m \in 1..Len(s) :
                                s[m] = <<job[c].expected[m], job[c].expected[m]>>
      /\ staging[c].exists <=> k # "set"
      /\ \A m \in 1..Len(s) : Whole(s[m])
      /\ k = "set" => s = << >> /\ \A m \in 1..n : m < i => Is(Target(plan[c], m), {"track"})
      /\ GroupsHold(plan[c])
  BY <1>1, <1>3 DEF Own, StagingOK, SetOK, Staged
<1>8. /\ DOMAIN dir \subseteq DOMAIN dir'
      /\ k = "set" => t \in DOMAIN dir' /\ dir'[t].kind = "track" /\ dir'[t].by = c
      /\ \A u \in DOMAIN dir' : u # t \/ k # "set" => u \in DOMAIN dir /\ dir'[u] = dir[u]
      /\ \A u \in DOMAIN dir' : Object(dir'[u])
  <2>1. CASE k = "set"
    <3>1. dir' = [u \in DOMAIN dir \cup {t} |-> IF u = t THEN Placed(c) ELSE dir[u]]
      BY <1>2, <2>1 DEF Extend
    <3>2. /\ Placed(c).kind = "track" /\ Placed(c).by = c /\ Object(Placed(c))
      BY <1>3 DEF Placed, Object
    <3>3. \A u \in DOMAIN dir : Object(dir[u])
      BY <1>3 DEF CopyTyped
    <3> HIDE DEF h, t
    <3>4. DOMAIN dir' = DOMAIN dir \cup {t} /\ dir'[t] = Placed(c)
          /\ \A u \in DOMAIN dir' : u # t => u \in DOMAIN dir /\ dir'[u] = dir[u]
      BY <3>1
    <3> QED  BY <2>1, <3>2, <3>3, <3>4
  <2>2. CASE k # "set"
    BY <1>2, <1>3, <2>2 DEF CopyTyped
  <2> QED  BY <2>1, <2>2
<1> HIDE DEF at, j
<1>9. staging' \in [Copiers -> [exists: BOOLEAN, tracks: Seq(Seq(Nat))]]
      /\ staging'[c].exists = staging[c].exists
      /\ staging'[c].tracks = (IF k = "set" THEN s ELSE s2)
      /\ \A d \in Copiers \ {c} : staging'[d] = staging[d]
  <2>1. staging \in [Copiers -> [exists: BOOLEAN, tracks: Seq(Seq(Nat))]]
    BY <1>3 DEF CopyTyped
  <2>2. k # "set" => staging' = [staging EXCEPT ![c].tracks = s2]
    BY <1>2 DEF s2
  <2>3. s2 \in Seq(Seq(Nat))
    BY <1>6 DEF s2
  <2>4. CASE k = "set"
    BY <1>2, <2>1, <2>4
  <2>5. CASE k # "set"
    BY <2>1, <2>2, <2>3, <2>5
  <2> QED  BY <2>4, <2>5
<1>10. CopyTyped'
  <2>1. copier' \in [Copiers -> {"idle"} \cup Busy \cup Over] /\ index' \in [Copiers -> Nat]
    BY <1>2, <1>3, <1>4 DEF CopyTyped, Busy
  <2>2. fd' \in [Copiers -> Nat] /\ seen' \in [Copiers -> Nat] /\ halves' \in [Copiers -> Seq(Nat)]
    BY <1>2, <1>3, <1>5 DEF CopyTyped
  <2> QED  BY <1>2, <1>3, <1>8, <1>9, <2>1, <2>2 DEF CopyTyped, library
<1>11. /\ copier'[c] = at /\ index'[c] = j /\ fd'[c] = 0 /\ halves'[c] = << >>
       /\ job' = job /\ plan' = plan /\ version' = version
  BY <1>2, <1>3 DEF CopyTyped, library
<1>12. Running(c)'
  BY <1>4, <1>11 DEF Running, Busy
<1>13. \A d \in Copiers \ {c} : Untouched(d)
  BY <1>2, <1>3, <1>9 DEF CopyTyped, Untouched
<1>14. PlanOK(c)'
  <2>1. k # "set" => Len(job[c].expected) = n
    BY <1>1, <1>7 DEF Own, PlanOK
  <2>2. at = "playlist" => j = n
    BY <1>3 DEF at, j
  <2>3. job'[c].kind \in KindsAt(at)
    BY <1>3, <1>11 DEF KindsAt, at
  <2> QED  BY <1>4, <1>11, <1>12, <2>1, <2>2, <2>3 DEF PlanOK
<1>15. ReadingOK(c)'
  <2>1. Len(version) \in Nat
    BY <1>3, LenProperties DEF CopyTyped
  <2>2. 0 \in 0..Len(version')
    BY <1>11, <2>1
  <2> QED  BY <1>4, <1>5, <1>11, <2>2 DEF ReadingOK
<1>16. StagingOK(c)'
  <2>1. at \notin {"idle", "done"}
    BY <1>4
  <2>2. CASE k = "set"
    BY <1>3, <1>7, <1>9, <1>11, <1>12, <2>1, <2>2 DEF StagingOK
  <2>3. CASE k = "copies"
    <3>1. Staged(c)' = i /\ at = "recheck"
      BY <1>11, <2>3 DEF Staged, at, j
    <3>2. /\ Len(s2) = i /\ s2[i] = h /\ \A m \in 1..Len(s2) : m \in 1..Len(s) \/ m = i
          /\ \A m \in 1..Len(s) : s2[m] = s[m]
      <4>1. /\ Len(s2) = Len(s) + 1 /\ s2[Len(s) + 1] = h /\ Len(s) \in Nat
            /\ \A m \in 1..Len(s) : s2[m] = s[m]
        BY <1>6 DEF s2
      <4>2. Len(s) = i - 1 /\ i \in Nat
        BY <1>3, <1>7, <2>3
      <4> HIDE DEF s, h, i
      <4>3. \A m \in 1..i : m \in 1..(i - 1) \/ m = i
        BY <4>2
      <4> QED  BY <4>1, <4>2, <4>3
    <3>3. h = <<job[c].expected[i], job[c].expected[i]>>
      BY <1>3, <2>3 DEF Expected
    <3>4. \A m \in 1..Len(s2) : /\ Whole(s2[m])
                                /\ s2[m] = <<job[c].expected[m], job[c].expected[m]>>
      <4> HIDE DEF s, h
      <4> QED  BY <1>3, <1>7, <2>3, <3>2, <3>3
    <3>5. staging'[c].tracks = s2 /\ staging'[c].exists
      BY <1>7, <1>9, <2>3
    <3> QED  BY <1>11, <1>12, <2>1, <2>3, <3>1, <3>2, <3>4, <3>5 DEF StagingOK
  <2> QED  BY <1>3, <2>2, <2>3
<1>19. NothingLost
  <2>1. \A u \in DOMAIN dir' : (u \in DOMAIN dir /\ dir'[u] = dir[u]) \/ dir'[u].kind = "track"
    BY <1>8
  <2> QED  BY <1>3, <1>8, <1>11, <2>1, VersionsKept DEF NothingLost
<1>17. SetOK(c)'
  <2>1. SUFFICES ASSUME k = "set", NEW m \in 1..n, m < j \/ at \in {"playlist", "listing", "owner"}
                 PROVE  Is(Target(plan[c], m), {"track"})'
    BY <1>7, <1>11 DEF SetOK, GroupsHold
  <2>2. m < i \/ m = i
    BY <1>3, <2>1 DEF j, at
  <2>3. CASE m = i
    <3>1. t \in DOMAIN dir' /\ dir'[t].kind = "track" /\ plan'[c] = plan[c]
      BY <1>2, <1>8, <2>1
    <3> QED  BY <2>3, <3>1 DEF Is
  <2>4. CASE m < i
    <3>1. Is(Target(plan[c], m), {"track"}) /\ plan'[c] = plan[c]
      BY <1>2, <1>7, <2>1, <2>4
    <3>2. \A u : Is(u, {"track"}) => u \in DOMAIN dir' /\ dir'[u].kind = "track"
      BY <1>8 DEF Is
    <3> QED  BY <3>1, <3>2 DEF Is
  <2> QED  BY <2>2, <2>3, <2>4
<1>18. ScratchOK(c)'
  BY <1>2 DEF ScratchOK
<1>20. LookedOK(c)'
  BY <1>4, <1>11, NotLooking
<1>21. c \notin overlap => Mine(c)'
  <2>1. SUFFICES ASSUME c \notin overlap, k = "set", NEW m \in 1..n,
                        m < j \/ at \in {"playlist", "listing", "owner"}
                 PROVE  dir'[Target(plan[c], m)].by = c
    BY <1>11 DEF Mine
  <2>2. m < i \/ m = i
    BY <1>3, <2>1 DEF j, at
  <2>3. CASE m = i
    BY <1>8, <2>1, <2>3
  <2>4. CASE m < i
    <3>1. Mine(c)
      BY <2>1 DEF Copying, CopyOK, ListsOK
    <3>2. dir[Target(plan[c], m)].by = c
      BY <1>1, <2>1, <2>4, <3>1 DEF Mine
    <3>3. Target(plan[c], m) # t /\ Target(plan[c], m) \in DOMAIN dir
      <4>1. Target(plan[c], m).order = m /\ t.order = i /\ m # i
        BY <1>3, <2>4 DEF Target
      <4>2. Is(Target(plan[c], m), {"track"})
        BY <1>7, <2>1, <2>4
      <4> QED  BY <4>1, <4>2 DEF Is
    <3> QED  BY <1>8, <3>2, <3>3
  <2> QED  BY <2>2, <2>3, <2>4
<1> QED
  BY <1>1, <1>2, <1>4, <1>10, <1>11, <1>13, <1>14, <1>15, <1>16, <1>17, <1>18, <1>19, <1>20, <1>21,
     CopierMoves DEF Own

LEMMA RecheckPreserves ==
    ASSUME Copying, NEW c \in Copiers, Recheck(c)
    PROVE  Copying'
<1> DEFINE i == index[c]
           n == Len(plan[c])
           at == IF Last1(c) THEN "publish" ELSE "open"
           j == IF Last1(c) THEN i ELSE i + 1
<1>1. copier[c] = "recheck" /\ Running(c)
  BY DEF Recheck, Running, Busy
<1>2. /\ index' = [index EXCEPT ![c] = j] /\ copier' = [copier EXCEPT ![c] = at]
      /\ UNCHANGED <<library, job, plan, reading, scratch, overlap, results>>
  BY DEF Recheck
<1>3. /\ CopyTyped /\ Own(c) /\ i \in 1..n /\ n \in Nat
      /\ job[c].kind = "copies" /\ (Last1(c) <=> i = n)
  BY <1>1, CopierIs, RunningIs DEF KindsAt, Last1
<1>4. j \in 1..n /\ at \in {"open", "publish"} /\ at \in Busy /\ j \in Nat
  BY <1>3 DEF Busy
<1>5. Staged(c) = i /\ (at = "publish" => n = i) /\ (at = "open" => j - 1 = i)
  BY <1>1, <1>3 DEF Staged
<1> HIDE DEF at, j
<1>6. CopyTyped'
  BY <1>2, <1>3, <1>4 DEF CopyTyped, library, reading, results, Object, Whole
<1>7. /\ copier'[c] = at /\ index'[c] = j /\ Running(c)' /\ job' = job /\ plan' = plan
      /\ staging' = staging /\ dir' = dir
  BY <1>2, <1>3, <1>4 DEF CopyTyped, Running, results
<1>8. \A d \in Copiers \ {c} : Untouched(d)
  BY <1>2, <1>3 DEF CopyTyped, Untouched, reading, results
<1>9. PlanOK(c)'
  BY <1>1, <1>3, <1>4, <1>7 DEF Own, PlanOK, KindsAt
<1>10. ReadingOK(c)'
  BY <1>1, <1>2, <1>3, <1>4, <1>7 DEF Own, ReadingOK, library, reading
<1>11. StagingOK(c)'
  <2>1. Staged(c)' = i
    BY <1>4, <1>5, <1>7 DEF Staged
  <2>2. at \notin {"idle", "done"}
    BY <1>4
  <2> QED  BY <1>1, <1>3, <1>5, <1>7, <2>1, <2>2 DEF Own, StagingOK
<1>12. SetOK(c)'
  BY <1>3, <1>7 DEF Own, SetOK, GroupsHold, Is
<1>13. ScratchOK(c)'
  BY <1>1, <1>2, <1>3 DEF Own, ScratchOK
<1>14. NothingLost
  BY <1>2, <1>3, NothingLostHere DEF library, results
<1>15. LookedOK(c)' /\ Mine(c)'
  <2>1. copier'[c] \notin {"read", "verify", "place"} /\ job'[c].kind # "set"
    BY <1>3, <1>4, <1>7
  <2> QED  BY <2>1, NotLooking DEF Mine
<1> QED
  BY <1>1, <1>2, <1>4, <1>6, <1>7, <1>8, <1>9, <1>10, <1>11, <1>12, <1>13, <1>14, <1>15, CopierMoves
     DEF Own, results

-----------------------------------------------------------------------------
(* Publication and failure                                                 *)

\* What a command that is over has kept.
LEMMA Left ==
    ASSUME Copying, NEW c \in Copiers, NEW how, how \in Over, Leave(c, how)
    PROVE  /\ copier' \in [Copiers -> {"idle"} \cup Busy \cup Over]
           /\ job' \in [Copiers -> [kind: {"none", "set", "report", "paths", "copies"},
                                    expected: Seq(Nat)]]
           /\ plan' \in [Copiers -> Seq(Planned)] /\ index' \in [Copiers -> Nat]
           /\ fd' \in [Copiers -> Nat] /\ seen' \in [Copiers -> Nat]
           /\ halves' \in [Copiers -> Seq(Nat)]
           /\ copier'[c] = how /\ plan'[c] = << >> /\ index'[c] = 0 /\ fd'[c] = 0
           /\ halves'[c] = << >> /\ ~Running(c)'
           /\ how = "done" => job' = job
           /\ how # "done" => job'[c].kind = "none"
           /\ \A d \in Copiers \ {c} :
                  /\ copier'[d] = copier[d] /\ job'[d] = job[d] /\ plan'[d] = plan[d]
                  /\ index'[d] = index[d] /\ fd'[d] = fd[d] /\ seen'[d] = seen[d]
                  /\ halves'[d] = halves[d]
<1>1. CopyTyped
  BY DEF Copying
<1>2. << >> \in Seq(Nat) /\ << >> \in Seq(Planned)
  BY EmptySeq
<1>3. NoJob \in [kind: {"none", "set", "report", "paths", "copies"}, expected: Seq(Nat)]
  BY <1>2 DEF NoJob
<1>4. how \in {"idle"} \cup Busy \cup Over /\ how \notin Busy
  BY DEF Over, Busy
<1>5. /\ copier' = [copier EXCEPT ![c] = how]
      /\ plan' = [plan EXCEPT ![c] = << >>] /\ index' = [index EXCEPT ![c] = 0]
      /\ fd' = [fd EXCEPT ![c] = 0] /\ seen' = [seen EXCEPT ![c] = 0]
      /\ halves' = [halves EXCEPT ![c] = << >>]
  BY DEF Leave
<1>6. /\ copier' \in [Copiers -> {"idle"} \cup Busy \cup Over] /\ copier'[c] = how
      /\ \A d \in Copiers \ {c} : copier'[d] = copier[d]
  BY <1>1, <1>4, <1>5 DEF CopyTyped
<1>7. /\ job' \in [Copiers -> [kind: {"none", "set", "report", "paths", "copies"},
                               expected: Seq(Nat)]]
      /\ how = "done" => job' = job
      /\ how # "done" => job'[c].kind = "none"
      /\ \A d \in Copiers \ {c} : job'[d] = job[d]
  <2> DEFINE J == [kind: {"none", "set", "report", "paths", "copies"}, expected: Seq(Nat)]
  <2>1. job \in [Copiers -> J] /\ NoJob \in J /\ NoJob.kind = "none"
    BY <1>1, <1>3 DEF CopyTyped, NoJob
  <2> HIDE DEF J
  <2>2. CASE how = "done"
    <3>1. job' = [job EXCEPT ![c] = job[c]]
      BY <2>2 DEF Leave
    <3>2. job' = job
      BY <2>1, <3>1
    <3> QED  BY <2>1, <2>2, <3>2 DEF J
  <2>3. CASE how # "done"
    <3>1. job' = [job EXCEPT ![c] = NoJob]
      BY <2>3 DEF Leave
    <3>2. /\ job' \in [Copiers -> J] /\ job'[c] = NoJob
          /\ \A d \in Copiers \ {c} : job'[d] = job[d]
      BY <2>1, <3>1
    <3> QED  BY <2>1, <2>3, <3>2 DEF J
  <2> QED  BY <2>2, <2>3
<1>8. /\ plan' \in [Copiers -> Seq(Planned)] /\ index' \in [Copiers -> Nat]
      /\ plan'[c] = << >> /\ index'[c] = 0
      /\ \A d \in Copiers \ {c} : plan'[d] = plan[d] /\ index'[d] = index[d]
  BY <1>1, <1>2, <1>5 DEF CopyTyped
<1>9. /\ fd' \in [Copiers -> Nat] /\ seen' \in [Copiers -> Nat] /\ halves' \in [Copiers -> Seq(Nat)]
      /\ fd'[c] = 0 /\ halves'[c] = << >>
      /\ \A d \in Copiers \ {c} :
             fd'[d] = fd[d] /\ seen'[d] = seen[d] /\ halves'[d] = halves[d]
  BY <1>1, <1>2, <1>5 DEF CopyTyped
<1>10. ~Running(c)'
  BY <1>4, <1>6 DEF Running
<1> QED  BY <1>6, <1>7, <1>8, <1>9, <1>10

\* The own part of a command that has left, and no longer copies.
LEMMA LeftOwn ==
    ASSUME CopyTyped', NEW c \in Copiers, ~Running(c)', copier'[c] \in Over, plan'[c] = << >>,
           index'[c] = 0, fd'[c] = 0, halves'[c] = << >>, StagingOK(c)',
           c \in scratch' => copier'[c] = "killed"
    PROVE  Own(c)'
<1>1. PlanOK(c)'
  BY DEF PlanOK
<1>2. ReadingOK(c)'
  <2>1. version' \in Seq(Nat)
    BY DEF CopyTyped
  <2>2. 0 \in 0..Len(version')
    BY <2>1, LenProperties
  <2>3. Len(halves'[c]) = 0
    BY EmptySeq
  <2>4. copier'[c] \notin {"read", "verify", "place"}
    BY DEF Over
  <2> QED  BY <2>2, <2>3, <2>4 DEF ReadingOK
<1>3. SetOK(c)'
  <2>1. Len(plan'[c]) = 0
    BY EmptySeq
  <2> QED  BY <2>1 DEF SetOK, GroupsHold
<1>4. ScratchOK(c)'
  BY DEF ScratchOK
<1>5. LookedOK(c)'
  BY NotLooking DEF Over
<1> QED  BY <1>1, <1>2, <1>3, <1>4, <1>5 DEF Own

NotStaged == [exists |-> FALSE, tracks |-> << >>]

LEMMA NotStagedIs ==
    /\ NotStaged \in [exists: BOOLEAN, tracks: Seq(Seq(Nat))]
    /\ NotStaged.exists = FALSE /\ NotStaged.tracks = << >> /\ Len(NotStaged.tracks) = 0
<1>1. << >> \in Seq(Seq(Nat)) /\ Len(<< >>) = 0
  BY EmptySeq
<1> QED  BY <1>1 DEF NotStaged

LEMMA FailPreserves ==
    ASSUME Copying, NEW c \in Copiers, Fail(c)
    PROVE  Copying'
<1>1. PICK left \in Remains(c) :
          /\ Running(c) /\ Leave(c, "failed") /\ scratch' = scratch \ {c}
          /\ staging' = [staging EXCEPT ![c] = left]
          /\ UNCHANGED <<library, overlap, dir, playlist, listing, output>>
  BY DEF Fail
<1>2. "failed" \in Over
  BY DEF Over
<1>3. CopyTyped /\ staging \in [Copiers -> [exists: BOOLEAN, tracks: Seq(Seq(Nat))]]
  BY DEF Copying, CopyTyped
<1>4. /\ staging' \in [Copiers -> [exists: BOOLEAN, tracks: Seq(Seq(Nat))]]
      /\ staging'[c] = left /\ \A d \in Copiers \ {c} : staging'[d] = staging[d]
      /\ left.tracks # << >> => left.exists
      /\ \A i \in 1..Len(left.tracks) : Whole(left.tracks[i])
  <2>1. StagingOK(c) /\ staging[c] \in [exists: BOOLEAN, tracks: Seq(Seq(Nat))]
    BY <1>3 DEF Copying, CopyOK
  <2>2. CASE left = staging[c]
    BY <1>1, <1>3, <2>1, <2>2 DEF StagingOK
  <2>3. CASE left.tracks = << >> /\ left \in [exists: BOOLEAN, tracks: Seq(Seq(Nat))]
    BY <1>1, <1>3, <2>3, EmptySeq
  <2>4. [exists |-> staging[c].exists, tracks |-> << >>] \in [exists: BOOLEAN, tracks: Seq(Seq(Nat))]
        /\ NotStaged \in [exists: BOOLEAN, tracks: Seq(Seq(Nat))]
    <3>1. << >> \in Seq(Seq(Nat)) /\ staging[c].exists \in BOOLEAN
      BY <2>1, EmptySeq
    <3> QED  BY <3>1, NotStagedIs
  <2>5. left \in {NotStaged, [exists |-> staging[c].exists, tracks |-> << >>], staging[c]}
    BY <1>1 DEF Remains, NotStaged
  <2> QED  BY <2>2, <2>3, <2>4, <2>5, NotStagedIs
<1>5. CopyTyped'
  BY <1>1, <1>2, <1>3, <1>4, Left DEF CopyTyped, library, Object, Whole
<1>6. \A d \in Copiers \ {c} : Untouched(d)
  BY <1>1, <1>2, <1>4, Left DEF Untouched
<1>7. StagingOK(c)'
  <2>1. ~Running(c)'
    BY <1>1, <1>2, Left
  <2>2. copier'[c] = "failed"
    BY <1>1, <1>2, Left
  <2> QED  BY <1>4, <2>1, <2>2 DEF StagingOK
<1>8. Own(c)'
  <2>1. c \notin scratch'
    BY <1>1
  <2> QED  BY <1>1, <1>2, <1>5, <1>7, <2>1, Left, LeftOwn
<1>9. NothingLost
  BY <1>1, <1>3, NothingLostHere DEF library
<1>10. copier'[c] = "failed"
  BY <1>1, <1>2, Left
<1>11. Mine(c)'
  BY <1>1, <1>2, Left DEF Mine
<1> QED  BY <1>1, <1>5, <1>6, <1>8, <1>9, <1>10, <1>11, CopierMoves

LEMMA KillPreserves ==
    ASSUME Copying, NEW c \in Copiers, KillCopier(c)
    PROVE  Copying'
<1>1. Running(c) /\ Leave(c, "killed") /\ UNCHANGED <<library, scratch, overlap, results>>
  BY DEF KillCopier
<1>2. "killed" \in Over
  BY DEF Over
<1>3. CopyTyped /\ StagingOK(c)
  BY DEF Copying, CopyOK
<1>4. CopyTyped'
  BY <1>1, <1>2, <1>3, Left DEF CopyTyped, library, results, Object, Whole
<1>5. \A d \in Copiers \ {c} : Untouched(d)
  BY <1>1, <1>2, Left DEF Untouched, results
<1>6. copier'[c] = "killed" /\ ~Running(c)'
  BY <1>1, <1>2, Left
<1>7. StagingOK(c)'
  BY <1>1, <1>3, <1>6 DEF StagingOK, results
<1>8. Own(c)'
  BY <1>1, <1>2, <1>4, <1>6, <1>7, Left, LeftOwn
<1>9. NothingLost
  BY <1>1, <1>3, NothingLostHere DEF library, results
<1>10. Mine(c)'
  BY <1>6 DEF Mine
<1> QED  BY <1>1, <1>4, <1>5, <1>6, <1>8, <1>9, <1>10, CopierMoves DEF results

LEMMA SetOwnerPreserves ==
    ASSUME Copying, NEW c \in Copiers, SetOwner(c)
    PROVE  Copying'
<1>1. copier[c] = "owner" /\ Leave(c, "done") /\ UNCHANGED <<library, scratch, overlap, results>>
  BY DEF SetOwner
<1>2. "done" \in Over
  BY DEF Over
<1>3. CopyTyped /\ StagingOK(c) /\ ScratchOK(c)
  BY DEF Copying, CopyOK
<1>4. Running(c)
  BY <1>1 DEF Running, Busy
<1>5. job[c].kind = "set"
  BY <1>1, <1>4, RunningIs DEF KindsAt
<1>6. CopyTyped'
  BY <1>1, <1>2, <1>3, Left DEF CopyTyped, library, results, Object, Whole
<1>7. \A d \in Copiers \ {c} : Untouched(d)
  BY <1>1, <1>2, Left DEF Untouched, results
<1>8. copier'[c] = "done" /\ ~Running(c)' /\ job' = job
  BY <1>1, <1>2, Left
<1>9. StagingOK(c)'
  <2>1. staging'[c] = staging[c] /\ ~staging[c].exists
    BY <1>1, <1>3, <1>4, <1>5 DEF StagingOK, results
  <2> QED  BY <1>3, <1>8, <2>1 DEF StagingOK
<1>10. c \notin scratch'
  BY <1>1, <1>3 DEF ScratchOK
<1>11. Own(c)'
  BY <1>1, <1>2, <1>6, <1>8, <1>9, <1>10, Left, LeftOwn
<1>12. NothingLost
  BY <1>1, <1>3, NothingLostHere DEF library, results
<1>13. Mine(c)'
  BY <1>8 DEF Mine
<1> QED  BY <1>1, <1>4, <1>5, <1>6, <1>7, <1>8, <1>11, <1>12, <1>13, CopierMoves DEF results

\* A step that changes nothing of what the others have: all but their lists.
LEMMA OthersKept ==
    ASSUME Copying, NEW c \in Copiers, CopyTyped', Own(c)', NothingLost,
           \A d \in Copiers \ {c} : Untouched(d), \A d \in Copiers : ListsOK(d)'
    PROVE  \A d \in Copiers : CopyOK(d)'
<1>1. \A d \in Copiers : Own(d)
  BY DEF Copying, CopyOK, Own
<1>2. \A d \in Copiers : Own(d)'
  BY <1>1, OwnUntouched DEF Copying
<1> QED  BY <1>2 DEF CopyOK, Own

LEMMA PublishPlaylistPreserves ==
    ASSUME Copying, NEW c \in Copiers, PublishPlaylist(c)
    PROVE  Copying'
<1> DEFINE m == List(c, plan[c])
<1>1. copier[c] = "playlist" /\ Running(c)
  BY DEF PublishPlaylist, Running, Busy
<1>2. /\ playlist' = m /\ copier' = [copier EXCEPT ![c] = "listing"]
      /\ UNCHANGED <<library, job, plan, index, reading, scratch, overlap, dir, staging,
                     listing, output>>
  BY DEF PublishPlaylist
<1>3. /\ CopyTyped /\ Own(c) /\ plan[c] \in Seq(Planned) /\ job[c].kind = "set"
      /\ \A d \in Copiers : ListsOK(d)
  BY <1>1, CopierIs, RunningIs DEF KindsAt, Copying, CopyOK
<1>4. m \in Lists /\ m.entries = plan[c] /\ m.by = c
  BY <1>3 DEF Lists, List
<1> HIDE DEF m
<1>5. CopyTyped'
  BY <1>2, <1>3, <1>4 DEF CopyTyped, library, reading, Object, Whole, Busy
<1>6. /\ copier'[c] = "listing" /\ index' = index /\ job' = job /\ plan' = plan
      /\ staging' = staging /\ dir' = dir /\ version' = version
  BY <1>2, <1>3 DEF CopyTyped, library
<1>7. Running(c)' /\ \A d \in Copiers \ {c} : copier'[d] = copier[d]
  BY <1>2, <1>3, <1>6 DEF CopyTyped, Running, Busy
<1>8. \A d \in Copiers \ {c} : Untouched(d)
  BY <1>2, <1>3 DEF CopyTyped, Untouched, reading
<1>9. PlanOK(c)'
  BY <1>1, <1>3, <1>6, <1>7 DEF Own, PlanOK, KindsAt
<1>10. ReadingOK(c)'
  BY <1>1, <1>2, <1>3, <1>6 DEF Own, ReadingOK, library, reading
<1>11. StagingOK(c)'
  BY <1>1, <1>3, <1>6, <1>7 DEF Own, StagingOK
<1>12. SetOK(c)'
  BY <1>1, <1>3, <1>6, <1>7 DEF Own, SetOK, GroupsHold, Is
<1>13. ScratchOK(c)'
  BY <1>1, <1>2, <1>3, <1>6 DEF Own, ScratchOK
<1>14. NothingLost /\ LookedOK(c)'
  BY <1>3, <1>6, NothingLostHere, NotLooking
<1>15. ASSUME NEW d \in Copiers, d \notin overlap PROVE ListsOK(d)'
  <2>1. \A e \in Copiers : Running(e)' <=> Running(e)
    BY <1>1, <1>7 DEF Running
  <2>2. Running(d)' => \A e \in Copiers \ {d} : ~Running(e)'
    BY <1>3, <1>15, <2>1 DEF ListsOK
  <2>5. CASE d = c
    <3>0. Mine(c)'
      BY <1>1, <1>6, <1>15, <2>5, MineStays
    <3> QED  BY <1>2, <1>6, <2>2, <2>5, <3>0 DEF ListsOK, m
  <2>4. CASE d # c
    <3>1. ~Running(d)
      BY <1>1, <1>3, <1>15, <2>4 DEF ListsOK
    <3>2. copier'[d] # "listing" /\ copier'[d] # "owner" /\ Mine(d)'
      BY <1>7, <2>1, <2>4, <3>1 DEF Running, Busy, Mine
    <3>3. playlist'.by # d
      BY <1>2, <1>4, <2>4
    <3> QED  BY <2>2, <3>2, <3>3 DEF ListsOK
  <2> QED  BY <2>4, <2>5
<1>16. \A d \in Copiers : ListsOK(d)'
  BY <1>2, <1>15 DEF ListsOK
<1>17. \A d \in Copiers : CopyOK(d)'
  BY <1>5, <1>8, <1>9, <1>10, <1>11, <1>12, <1>13, <1>14, <1>16, OthersKept DEF Own
<1>18. AllThere(plan[c]) /\ GroupsHold(plan[c])
  BY <1>1, <1>3 DEF Own, SetOK, AllThere
<1>19. AllThere(playlist.entries)' /\ GroupsHold(playlist.entries)' /\ AllThere(listing.entries)'
  BY <1>2, <1>4, <1>6, <1>18 DEF AllThere, GroupsHold, Copying, Is
<1>20. OutputOK'
  <2>1. \A d \in Copiers : copier[d] = "done" => copier'[d] = "done" /\ job'[d] = job[d]
    BY <1>1, <1>6, <1>7
  <2> QED  BY <1>2, <1>3, <2>1, OutputKept DEF Copying
<1> QED  BY <1>5, <1>17, <1>19, <1>20 DEF Copying

LEMMA PublishListingPreserves ==
    ASSUME Copying, NEW c \in Copiers, PublishListing(c)
    PROVE  Copying'
<1> DEFINE m == List(c, plan[c])
<1>1. copier[c] = "listing" /\ Running(c)
  BY DEF PublishListing, Running, Busy
<1>2. /\ listing' = m /\ copier' = [copier EXCEPT ![c] = "owner"]
      /\ UNCHANGED <<library, job, plan, index, reading, scratch, overlap, dir, staging,
                     playlist, output>>
  BY DEF PublishListing
<1>3. /\ CopyTyped /\ Own(c) /\ plan[c] \in Seq(Planned) /\ job[c].kind = "set"
      /\ \A d \in Copiers : ListsOK(d)
  BY <1>1, CopierIs, RunningIs DEF KindsAt, Copying, CopyOK
<1>4. m \in Lists /\ m.entries = plan[c] /\ m.by = c
  BY <1>3 DEF Lists, List
<1> HIDE DEF m
<1>5. CopyTyped'
  BY <1>2, <1>3, <1>4 DEF CopyTyped, library, reading, Object, Whole, Busy
<1>6. /\ copier'[c] = "owner" /\ index' = index /\ job' = job /\ plan' = plan
      /\ staging' = staging /\ dir' = dir /\ version' = version
  BY <1>2, <1>3 DEF CopyTyped, library
<1>7. Running(c)' /\ \A d \in Copiers \ {c} : copier'[d] = copier[d]
  BY <1>2, <1>3, <1>6 DEF CopyTyped, Running, Busy
<1>8. \A d \in Copiers \ {c} : Untouched(d)
  BY <1>2, <1>3 DEF CopyTyped, Untouched, reading
<1>9. PlanOK(c)'
  BY <1>1, <1>3, <1>6, <1>7 DEF Own, PlanOK, KindsAt
<1>10. ReadingOK(c)'
  BY <1>1, <1>2, <1>3, <1>6 DEF Own, ReadingOK, library, reading
<1>11. StagingOK(c)'
  BY <1>1, <1>3, <1>6, <1>7 DEF Own, StagingOK
<1>12. SetOK(c)'
  BY <1>1, <1>3, <1>6, <1>7 DEF Own, SetOK, GroupsHold, Is
<1>13. ScratchOK(c)'
  BY <1>1, <1>2, <1>3, <1>6 DEF Own, ScratchOK
<1>14. NothingLost /\ LookedOK(c)'
  BY <1>3, <1>6, NothingLostHere, NotLooking
<1>15. ASSUME NEW d \in Copiers, d \notin overlap PROVE ListsOK(d)'
  <2>1. \A e \in Copiers : Running(e)' <=> Running(e)
    BY <1>1, <1>7 DEF Running
  <2>2. Running(d)' => \A e \in Copiers \ {d} : ~Running(e)'
    BY <1>3, <1>15, <2>1 DEF ListsOK
  <2>5. CASE d = c
    <3>0. Mine(c)'
      BY <1>1, <1>6, <1>15, <2>5, MineStays
    <3>1. playlist = m
      BY <1>1, <1>3, <1>15, <2>5 DEF ListsOK, m
    <3> QED  BY <1>2, <1>6, <2>2, <2>5, <3>0, <3>1 DEF ListsOK, m
  <2>4. CASE d # c
    <3>1. ~Running(d)
      BY <1>1, <1>3, <1>15, <2>4 DEF ListsOK
    <3>2. copier'[d] # "listing" /\ copier'[d] # "owner" /\ Mine(d)'
      BY <1>7, <2>1, <2>4, <3>1 DEF Running, Busy, Mine
    <3>3. ~(copier[d] = "done" /\ job[d].kind = "set" /\ playlist.by = d)
      BY <1>1, <1>3, <1>15 DEF ListsOK
    <3>4. ~(copier'[d] = "done" /\ job'[d].kind = "set" /\ playlist'.by = d)
      BY <1>2, <1>6, <1>7, <2>4, <3>3
    <3> QED  BY <2>2, <3>2, <3>4 DEF ListsOK
  <2> QED  BY <2>4, <2>5
<1>16. \A d \in Copiers : ListsOK(d)'
  BY <1>2, <1>15 DEF ListsOK
<1>17. \A d \in Copiers : CopyOK(d)'
  BY <1>5, <1>8, <1>9, <1>10, <1>11, <1>12, <1>13, <1>14, <1>16, OthersKept DEF Own
<1>18. AllThere(plan[c])
  BY <1>1, <1>3 DEF Own, SetOK, AllThere
<1>19. AllThere(playlist.entries)' /\ GroupsHold(playlist.entries)' /\ AllThere(listing.entries)'
  BY <1>2, <1>4, <1>6, <1>18 DEF AllThere, GroupsHold, Copying, Is
<1>20. OutputOK'
  <2>1. \A d \in Copiers : copier[d] = "done" => copier'[d] = "done" /\ job'[d] = job[d]
    BY <1>1, <1>6, <1>7
  <2> QED  BY <1>2, <1>3, <2>1, OutputKept DEF Copying
<1> QED  BY <1>5, <1>17, <1>19, <1>20 DEF Copying

LEMMA PublishExportPreserves ==
    ASSUME Copying, NEW c \in Copiers, PublishExport(c)
    PROVE  Copying'
<1> DEFINE o == [kind |-> "export", by |-> c, copies |-> staging[c].tracks]
           e == job[c].expected
           s == staging[c].tracks
<1>1. /\ copier[c] = "publish" /\ Leave(c, "done") /\ output' = o
      /\ staging' = [staging EXCEPT ![c] = NotStaged]
      /\ UNCHANGED <<library, scratch, overlap, dir, playlist, listing>>
  BY DEF PublishExport, NotStaged
<1>2. "done" \in Over /\ Running(c)
  BY <1>1 DEF Over, Running, Busy
<1>3. /\ CopyTyped /\ Own(c) /\ job[c].kind \in {"report", "paths", "copies"}
      /\ \A d \in Copiers : ListsOK(d)
      /\ staging \in [Copiers -> [exists: BOOLEAN, tracks: Seq(Seq(Nat))]]
      /\ s \in Seq(Seq(Nat)) /\ e \in Seq(Nat) /\ Len(e) = Len(plan[c])
  BY <1>1, <1>2, CopierIs, RunningIs DEF KindsAt, Copying, CopyOK, CopyTyped
<1>4. /\ staging' \in [Copiers -> [exists: BOOLEAN, tracks: Seq(Seq(Nat))]]
      /\ staging'[c] = NotStaged /\ \A d \in Copiers \ {c} : staging'[d] = staging[d]
  BY <1>1, <1>3, NotStagedIs
<1>5. o \in Copies /\ o.kind = "export" /\ o.by = c /\ o.copies = s
  BY <1>3 DEF Copies
<1> HIDE DEF o
<1>6. CopyTyped'
  BY <1>1, <1>2, <1>3, <1>4, <1>5, Left DEF CopyTyped, library, Object, Whole
<1>7. \A d \in Copiers \ {c} : Untouched(d)
  BY <1>1, <1>2, <1>4, Left DEF Untouched
<1>8. copier'[c] = "done" /\ ~Running(c)' /\ job' = job
      /\ \A d \in Copiers \ {c} : copier'[d] = copier[d]
  BY <1>1, <1>2, Left
<1>9. StagingOK(c)'
  BY <1>4, <1>8, NotStagedIs DEF StagingOK
<1>10. c \notin scratch'
  BY <1>1, <1>3 DEF Own, ScratchOK
<1>11. Own(c)'
  BY <1>1, <1>2, <1>6, <1>8, <1>9, <1>10, Left, LeftOwn
<1>12. NothingLost
  BY <1>1, <1>3, NothingLostHere DEF library
<1>13. \A d \in Copiers : ListsOK(d)'
  <2>1. ASSUME NEW d \in Copiers PROVE ListsOK(d)'
    <3>1. CopyTyped /\ Running(c) /\ copier'[c] \notin {"listing", "owner"}
          /\ (copier'[c] = "done" /\ job'[c].kind = "set" => job[c].kind = "set" /\ copier[c] = "owner")
      BY <1>2, <1>3, <1>8
    <3>2. playlist' = playlist /\ listing' = listing /\ overlap' = overlap /\ Mine(c)'
      BY <1>1, <1>8 DEF Mine
    <3> QED  BY <1>3, <1>7, <3>1, <3>2, ListsKept
  <2> QED  BY <2>1
<1>14. \A d \in Copiers : CopyOK(d)'
  BY <1>6, <1>7, <1>11, <1>12, <1>13, OthersKept
<1>15. AllThere(playlist.entries)' /\ GroupsHold(playlist.entries)' /\ AllThere(listing.entries)'
  BY <1>1 DEF AllThere, GroupsHold, Copying, Is
<1>16. s = IF job[c].kind = "copies" THEN [i \in DOMAIN e |-> <<e[i], e[i]>>] ELSE << >>
  <2>1. CASE job[c].kind = "copies"
    <3>1. Len(s) = Len(plan[c]) /\ \A i \in 1..Len(s) : s[i] = <<e[i], e[i]>>
      BY <1>1, <1>2, <1>3, <2>1 DEF Own, StagingOK, Staged
    <3>2. DOMAIN s = 1..Len(e) /\ DOMAIN e = 1..Len(e) /\ s \in [1..Len(s) -> Seq(Nat)]
      BY <1>3, <3>1, LenProperties
    <3> HIDE DEF s, e
    <3>3. s = [i \in 1..Len(e) |-> s[i]]
      BY <3>1, <3>2, <1>3
    <3>4. \A i \in 1..Len(e) : s[i] = <<e[i], e[i]>>
      BY <1>3, <3>1
    <3>5. s = [i \in 1..Len(e) |-> <<e[i], e[i]>>]
      BY <3>3, <3>4
    <3> QED  BY <2>1, <3>2, <3>5
  <2>2. CASE job[c].kind # "copies"
    BY <1>1, <1>2, <1>3, <2>2 DEF Own, StagingOK
  <2> QED  BY <2>1, <2>2
<1>17. OutputOK'
  <2>1. ExportsMatchTheCatalog'
    BY <1>1, <1>5, <1>8, <1>16 DEF ExportsMatchTheCatalog
  <2> QED  BY <1>1, <1>5, <1>8, <2>1 DEF OutputOK
<1> QED  BY <1>6, <1>14, <1>15, <1>17 DEF Copying

-----------------------------------------------------------------------------
(* Starting                                                                *)

\* A command that starts overlaps every one that runs.
LEMMA BeginLists ==
    ASSUME Copying, NEW c \in Copiers, NEW what, NEW entries, NEW expected,
           NEW at \in {"open", "resolve", "publish"}, Begin(c, what, entries, expected, at),
           playlist' = playlist, listing' = listing, NEW d \in Copiers
    PROVE  ListsOK(d)'
<1>1. \A e \in Copiers : ListsOK(e)
  BY DEF Copying, CopyOK
<1>2. /\ copier[c] = "idle" /\ copier'[c] = at
      /\ \A e \in Copiers \ {c} : copier'[e] = copier[e] /\ job'[e] = job[e]
      /\ overlap' = IF \E e \in Copiers : Running(e)
                    THEN overlap \cup {c} \cup {e \in Copiers : Running(e)} ELSE overlap
  BY DEF Begin, Copying, CopyTyped
<1>3. ~Running(c) /\ \A e \in Copiers \ {c} : Running(e)' <=> Running(e)
  BY <1>2 DEF Running, Busy
<1>4. SUFFICES ASSUME d \notin overlap' PROVE ListsOK(d)'
  BY DEF ListsOK
<1>5. d \notin overlap
  BY <1>2, <1>4
<1>6. \A e \in Copiers : copier'[e] = "listing" => copier[e] = "listing"
  BY <1>2
<1>7. CASE \E e \in Copiers : Running(e)
  <2>1. d # c /\ ~Running(d)
    BY <1>2, <1>4, <1>7
  <2>2. ~Running(d)' /\ copier'[d] = copier[d] /\ job'[d] = job[d]
    BY <1>2, <1>3, <2>1
  <2>3. copier'[d] # "listing" /\ copier'[d] # "owner" /\ Mine(d)'
    BY <2>2 DEF Running, Busy, Mine
  <2> QED  BY <1>1, <1>5, <1>6, <2>2, <2>3 DEF ListsOK
<1>8. CASE ~\E e \in Copiers : Running(e)
  <2>1. \A e \in Copiers \ {c} : ~Running(e)'
    BY <1>3, <1>8
  <2>2. CASE d = c
    <3>1. index'[c] = 1 /\ \A i \in 1..Len(plan'[c]) : ~(i < 1)
      BY DEF Begin, Copying, CopyTyped
    <3>2. Mine(c)'
      BY <1>2, <3>1 DEF Mine
    <3> QED  BY <1>2, <2>1, <2>2, <3>2 DEF ListsOK
  <2>3. CASE d # c
    <3>1. ~Running(d)' /\ copier'[d] = copier[d] /\ job'[d] = job[d]
      BY <1>2, <2>1, <2>3
    <3>2. copier'[d] # "listing" /\ copier'[d] # "owner" /\ Mine(d)'
      BY <3>1 DEF Running, Busy, Mine
    <3> QED  BY <1>1, <1>5, <1>6, <3>1, <3>2 DEF ListsOK
  <2> QED  BY <2>2, <2>3
<1> QED  BY <1>7, <1>8

\* What a command begins with.
LEMMA BeginPreserves ==
    ASSUME Copying, NEW c \in Copiers, NEW what \in {"set", "report", "paths", "copies"},
           NEW entries \in Seq(Planned), NEW expected \in Seq(Nat),
           NEW at \in {"open", "resolve", "publish"}, Begin(c, what, entries, expected, at),
           entries # << >>, GroupsHold(entries), what \in KindsAt(at),
           what # "set" => Len(expected) = Len(entries),
           at = "open" => what = "set", at = "publish" => what = "report",
           staging' \in [Copiers -> [exists: BOOLEAN, tracks: Seq(Seq(Nat))]],
           staging'[c].tracks = staging[c].tracks, staging'[c].exists <=> what # "set",
           \A d \in Copiers \ {c} : staging'[d] = staging[d],
           UNCHANGED <<library, reading, scratch, dir, playlist, listing, output>>
    PROVE  Copying'
<1>1. /\ copier[c] = "idle" /\ job' = [job EXCEPT ![c] = [kind |-> what, expected |-> expected]]
      /\ plan' = [plan EXCEPT ![c] = entries] /\ index' = [index EXCEPT ![c] = 1]
      /\ copier' = [copier EXCEPT ![c] = at]
  BY DEF Begin
<1>2. CopyTyped /\ Own(c) /\ Len(entries) \in Nat \ {0}
  BY CopierIs, EmptySeq
<1>3. at \in Busy
  BY DEF Busy
<1> DEFINE J == [kind: {"none", "set", "report", "paths", "copies"}, expected: Seq(Nat)]
           r == [kind |-> what, expected |-> expected]
<1>4. r \in J /\ r.kind = what /\ r.expected = expected
  OBVIOUS
<1>5. /\ job' \in [Copiers -> J] /\ job'[c] = r /\ \A d \in Copiers \ {c} : job'[d] = job[d]
  <2>1. job \in [Copiers -> J]
    BY <1>2 DEF CopyTyped
  <2> HIDE DEF J
  <2> QED  BY <1>1, <1>4, <2>1 DEF r
<1> HIDE DEF r
<1>6. /\ copier' \in [Copiers -> {"idle"} \cup Busy \cup Over] /\ copier'[c] = at
      /\ \A d \in Copiers \ {c} : copier'[d] = copier[d]
  BY <1>1, <1>2, <1>3 DEF CopyTyped
<1>7. /\ plan' \in [Copiers -> Seq(Planned)] /\ index' \in [Copiers -> Nat]
      /\ plan'[c] = entries /\ index'[c] = 1
      /\ \A d \in Copiers \ {c} : plan'[d] = plan[d] /\ index'[d] = index[d]
  BY <1>1, <1>2 DEF CopyTyped
<1>8. CopyTyped'
  BY <1>2, <1>5, <1>6, <1>7 DEF CopyTyped, library, reading, Object, Whole
<1>9. Running(c)' /\ ~Running(c)
  BY <1>1, <1>3, <1>6 DEF Running, Busy
<1>10. \A d \in Copiers \ {c} : Untouched(d)
  BY <1>5, <1>6, <1>7 DEF Untouched, reading
<1>11. 1 \in 1..Len(entries)
  BY <1>2
<1>12. PlanOK(c)'
  BY <1>4, <1>5, <1>6, <1>7, <1>9, <1>11 DEF PlanOK
<1>13. ReadingOK(c)'
  BY <1>1, <1>2, <1>6 DEF Own, ReadingOK, library, reading
<1>14. StagingOK(c)'
  <2>1. ~staging[c].exists /\ staging[c].tracks = << >> /\ Len(staging[c].tracks) = 0
    BY <1>1, <1>2, EmptySeq DEF Own, StagingOK
  <2>2. what = "copies" => Staged(c)' = 0
    BY <1>6, <1>7 DEF KindsAt, Staged
  <2> QED  BY <1>4, <1>5, <1>6, <1>9, <2>1, <2>2 DEF StagingOK
<1>15. SetOK(c)'
  <2>1. \A i \in 1..Len(entries) : ~(i < 1)
    BY <1>2
  <2> QED  BY <1>6, <1>7, <2>1 DEF SetOK, GroupsHold
<1>16. ScratchOK(c)'
  BY <1>1, <1>2 DEF Own, ScratchOK
<1>17. NothingLost /\ LookedOK(c)'
  BY <1>2, <1>6, NothingLostHere, NotLooking DEF library
<1>18. \A d \in Copiers : ListsOK(d)'
  BY BeginLists
<1>19. \A d \in Copiers : CopyOK(d)'
  BY <1>8, <1>10, <1>12, <1>13, <1>14, <1>15, <1>16, <1>17, <1>18, OthersKept DEF Own
<1>20. AllThere(playlist.entries)' /\ GroupsHold(playlist.entries)' /\ AllThere(listing.entries)'
  BY DEF AllThere, GroupsHold, Copying, Is
<1>21. OutputOK'
  <2>1. \A d \in Copiers : copier[d] = "done" => copier'[d] = "done" /\ job'[d] = job[d]
    BY <1>1, <1>5, <1>6
  <2> QED  BY <1>2, <2>1, OutputKept DEF Copying
<1> QED  BY <1>8, <1>19, <1>20, <1>21 DEF Copying

LEMMA StartCopyPreserves ==
    ASSUME Copying, NEW c \in Copiers, StartCopy(c)
    PROVE  Copying'
<1>1. PICK lines \in Playlists :
          LET entries == PlanEntries(lines, Extra)
          IN  entries # << >> /\ Begin(c, "set", entries, << >>, "open")
  BY DEF StartCopy
<1> DEFINE entries == PlanEntries(lines, Extra)
<1>2. entries \in Seq(Planned) /\ GroupsHold(entries)
  <2>1. lines \in Seq(Line) /\ Extra \in Seq(Files)
    BY CopyAssumption
  <2> QED  BY <2>1, PlanEntriesIs
<1>3. entries # << >> /\ Begin(c, "set", entries, << >>, "open")
  BY <1>1
<1> HIDE DEF entries
<1>4. << >> \in Seq(Nat)
  BY EmptySeq
<1>5. "set" \in KindsAt("open")
  BY DEF KindsAt
<1>6. UNCHANGED <<library, reading, scratch, results>>
  BY DEF StartCopy
<1>7. /\ staging' = staging /\ staging \in [Copiers -> [exists: BOOLEAN, tracks: Seq(Seq(Nat))]]
      /\ UNCHANGED <<library, reading, scratch, dir, playlist, listing, output>>
  BY <1>6 DEF Copying, CopyTyped, results
<1>8. ~staging[c].exists
  <2>1. copier[c] = "idle" /\ StagingOK(c)
    BY <1>3 DEF Begin, Copying, CopyOK
  <2> QED  BY <2>1 DEF StagingOK
<1> QED  BY <1>2, <1>3, <1>4, <1>5, <1>7, <1>8, BeginPreserves

LEMMA StartExportPreserves ==
    ASSUME Copying, NEW c \in Copiers, StartExport(c)
    PROVE  Copying'
<1>1. PICK tracks \in Curations, what \in {"report", "paths", "copies"} :
          Begin(c, what, [i \in DOMAIN tracks |-> Entry(tracks[i], NoGroup)],
                [i \in DOMAIN tracks |-> known[tracks[i]]],
                IF what = "report" THEN "publish" ELSE "resolve")
  BY DEF StartExport
<1> DEFINE n == Len(tracks)
           entries == [i \in DOMAIN tracks |-> Entry(tracks[i], NoGroup)]
           expected == [i \in DOMAIN tracks |-> known[tracks[i]]]
           at == IF what = "report" THEN "publish" ELSE "resolve"
<1>2. tracks \in Seq(Files) /\ tracks # << >>
  BY CopyAssumption
<1>3. n \in Nat /\ n # 0 /\ DOMAIN tracks = 1..n /\ \A i \in 1..n : tracks[i] \in Files
  BY <1>2, LenProperties, EmptySeq, ElementOfSeq
<1>4. known \in [Files -> Nat] /\ CopyTyped
  BY DEF Copying, CopyTyped
<1>5. entries \in [1..n -> Planned] /\ \A i \in 1..n : entries[i].group = NoGroup
  BY <1>3 DEF Entry, Planned
<1>6. expected \in [1..n -> Nat]
  BY <1>3, <1>4
<1> HIDE DEF entries, expected, n
<1>7. entries \in Seq(Planned) /\ Len(entries) = n
  BY <1>3, <1>5, FunctionIsSequence
<1>8. expected \in Seq(Nat) /\ Len(expected) = n
  BY <1>3, <1>6, FunctionIsSequence
<1>9. GroupsHold(entries) /\ entries # << >>
  <2>1. GroupsHold(entries)
    BY <1>5, <1>7 DEF GroupsHold
  <2>2. entries # << >>
    BY <1>3, <1>7, EmptySeq
  <2> QED  BY <2>1, <2>2
<1>10. Begin(c, what, entries, expected, at)
  BY <1>1 DEF entries, expected
<1>11. what \in KindsAt(at) /\ at \in {"resolve", "publish"} /\ (at = "publish" => what = "report")
  BY DEF KindsAt
<1> HIDE DEF at
<1>12. /\ staging' = [staging EXCEPT ![c].exists = TRUE]
       /\ UNCHANGED <<library, reading, scratch, dir, playlist, listing, output>>
  BY DEF StartExport
<1>13. /\ staging' \in [Copiers -> [exists: BOOLEAN, tracks: Seq(Seq(Nat))]]
       /\ staging'[c].tracks = staging[c].tracks /\ staging'[c].exists = TRUE
       /\ \A d \in Copiers \ {c} : staging'[d] = staging[d]
  <2>1. staging \in [Copiers -> [exists: BOOLEAN, tracks: Seq(Seq(Nat))]]
    BY <1>4 DEF CopyTyped
  <2> QED  BY <1>12, <2>1
<1>14. staging'[c].exists <=> what # "set"
  BY <1>13
<1>15. at = "open" => what = "set"
  BY <1>11
<1>16. what # "set" => Len(expected) = Len(entries)
  BY <1>7, <1>8
<1>17. what \in {"set", "report", "paths", "copies"} /\ at \in {"open", "resolve", "publish"}
  BY <1>11
<1>18. entries \in Seq(Planned) /\ entries # << >> /\ GroupsHold(entries)
  BY <1>7, <1>9
<1>19. what \in KindsAt(at)
  BY <1>11
<1>20. at = "publish" => what = "report"
  BY <1>11
<1>21. UNCHANGED <<library, reading, scratch, dir, playlist, listing, output>>
  BY <1>12
<1> QED
  BY <1>8, <1>10, <1>13, <1>14, <1>15, <1>16, <1>17, <1>18, <1>19, <1>20, <1>21, BeginPreserves

-----------------------------------------------------------------------------
(* The invariant                                                           *)

\* The inodes of the library at the start.
LEMMA FirstInodes ==
    CopyInit => path \in [Files -> 1..Cardinality(Files)] /\ Cardinality(Files) \in Nat
<1> DEFINE n == Cardinality(Files)
<1>1. IsFiniteSet(Files) /\ n \in Nat
  BY CopyAssumption, FS_CardinalityType
<1>2. IsFiniteSet(1..n) /\ Cardinality(1..n) = n
  BY <1>1, FS_Interval
<1>3. ExistsBijection(Files, 1..n)
  <2> HIDE DEF n
  <2>1. Cardinality(Files) = Cardinality(1..n)
    BY <1>2 DEF n
  <2> QED  BY <1>1, <1>2, <2>1, FS_SameCardinalityBij
<1>4. \E ids \in [Files -> 1..n] : IsInjective(ids)
  BY <1>3 DEF ExistsBijection, Bijection, Injection
<1>5. SUFFICES ASSUME CopyInit PROVE path \in [Files -> 1..n]
  BY <1>1
<1>6. path = CHOOSE ids \in [Files -> 1..n] : IsInjective(ids)
  BY <1>5 DEF CopyInit
<1> HIDE DEF n
<1> QED  BY <1>4, <1>6

LEMMA CopyInitIs == CopyInit => Copying
<1> SUFFICES ASSUME CopyInit PROVE Copying
  OBVIOUS
<1> DEFINE n == Cardinality(Files)
<1>1. path \in [Files -> 1..n] /\ n \in Nat
  BY FirstInodes
<1>2. version \in Seq(Nat) /\ Len(version) = n
  <2>1. version = [i \in 1..n |-> 1]
    BY DEF CopyInit
  <2> HIDE DEF n
  <2>2. version \in [1..n -> Nat]
    BY <2>1
  <2> QED  BY <1>1, <2>2, FunctionIsSequence
<1> HIDE DEF n
<1>3. path \in [Files -> 0..Len(version)]
  BY <1>1, <1>2
<1>4. /\ << >> \in Seq(Nat) /\ << >> \in Seq(Planned) /\ << >> \in Seq(Seq(Nat)) /\ Len(<< >>) = 0
  BY EmptySeq
<1>5. /\ copier = [c \in Copiers |-> "idle"] /\ job = [c \in Copiers |-> NoJob]
      /\ plan = [c \in Copiers |-> << >>] /\ index = [c \in Copiers |-> 0]
      /\ fd = [c \in Copiers |-> 0] /\ seen = [c \in Copiers |-> 0]
      /\ halves = [c \in Copiers |-> << >>] /\ scratch = {}
      /\ staging = [c \in Copiers |-> NotStaged]
      /\ output = [kind |-> "absent", by |-> 0, copies |-> << >>]
  BY DEF CopyInit, NotStaged
<1>6. known = [f \in Files |-> 1] /\ edits = 0 /\ dir = [t \in {} |-> << >>] /\ MaxEdits \in Nat
  BY CopyAssumption DEF CopyInit
<1>7. playlist = Nothing /\ listing = Nothing
  BY DEF CopyInit
<1>8. Nothing \in Lists /\ Nothing.entries = << >>
  BY <1>4 DEF Nothing, Lists
<1>9. NoJob \in [kind: {"none", "set", "report", "paths", "copies"}, expected: Seq(Nat)]
  BY <1>4 DEF NoJob
<1>10. output \in Copies
  BY <1>4, <1>5 DEF Copies
<1>11. CopyTyped
  <2>1. staging \in [Copiers -> [exists: BOOLEAN, tracks: Seq(Seq(Nat))]]
    BY <1>5, NotStagedIs
  <2>2. job \in [Copiers -> [kind: {"none", "set", "report", "paths", "copies"},
                             expected: Seq(Nat)]]
    BY <1>5, <1>9
  <2>3. /\ copier \in [Copiers -> {"idle"} \cup Busy \cup Over] /\ plan \in [Copiers -> Seq(Planned)]
        /\ index \in [Copiers -> Nat] /\ fd \in [Copiers -> Nat] /\ seen \in [Copiers -> Nat]
        /\ halves \in [Copiers -> Seq(Nat)]
    BY <1>4, <1>5
  <2>4. known \in [Files -> Nat] /\ edits \in 0..MaxEdits /\ DOMAIN dir = {}
    BY <1>6
  <2> QED  BY <1>2, <1>3, <1>7, <1>8, <1>10, <2>1, <2>2, <2>3, <2>4 DEF CopyTyped
<1>12. ASSUME NEW c \in Copiers PROVE CopyOK(c)
  <2>1. copier[c] = "idle" /\ ~Running(c)
    BY <1>5 DEF Running, Busy
  <2>2. PlanOK(c)
    BY <1>5, <2>1 DEF PlanOK
  <2>3. ReadingOK(c)
    <3>1. 0 \in 0..Len(version)
      BY <1>1, <1>2
    <3> QED  BY <1>4, <1>5, <2>1, <3>1 DEF ReadingOK
  <2>4. StagingOK(c)
    <3>1. staging[c] = NotStaged
      BY <1>5
    <3> QED  BY <2>1, <3>1, NotStagedIs DEF StagingOK
  <2>5. SetOK(c)
    <3>1. Len(plan[c]) = 0
      BY <1>4, <1>5
    <3> QED  BY <3>1 DEF SetOK, GroupsHold
  <2>6. ScratchOK(c)
    BY <1>5 DEF ScratchOK
  <2>7. ListsOK(c)
    BY <2>1 DEF ListsOK, Mine
  <2>8. LookedOK(c)
    BY <2>1 DEF LookedOK, CopiesTo
  <2> QED  BY <2>2, <2>3, <2>4, <2>5, <2>6, <2>7, <2>8 DEF CopyOK
<1>13. AllThere(playlist.entries) /\ AllThere(listing.entries) /\ GroupsHold(playlist.entries)
  BY <1>4, <1>7, <1>8 DEF AllThere, GroupsHold
<1>14. OutputOK
  BY <1>5 DEF OutputOK
<1> QED  BY <1>11, <1>12, <1>13, <1>14 DEF Copying

LEMMA CopyNextIs == Copying /\ [CopyNext]_copyVars => Copying'
<1> SUFFICES ASSUME Copying, [CopyNext]_copyVars PROVE Copying'
  OBVIOUS
<1>1. CASE \E f \in Files : EditInPlace(f) \/ ReplaceFile(f) \/ RemoveFile(f) \/ Rescan(f)
  BY <1>1, LibraryMoves
<1>2. CASE Intrude \/ Occupy
  BY <1>2, IntrudePreserves, OccupyPreserves
<1>3. ASSUME NEW c \in Copiers, Step(c) PROVE Copying'
  <2>1. CASE StartCopy(c) \/ StartExport(c) \/ ResolveAll(c)
    BY <2>1, StartCopyPreserves, StartExportPreserves, ResolveAllPreserves
  <2>2. CASE OpenSource(c) \/ ReadHalf(c) \/ VerifyUnchanged(c)
    BY <2>2, OpenSourcePreserves, ReadHalfPreserves, VerifyPreserves
  <2>3. CASE Place(c) \/ Recheck(c)
    BY <2>3, PlacePreserves, RecheckPreserves
  <2>4. CASE PublishPlaylist(c) \/ PublishListing(c) \/ SetOwner(c) \/ PublishExport(c)
    BY <2>4, PublishPlaylistPreserves, PublishListingPreserves, SetOwnerPreserves,
       PublishExportPreserves
  <2>5. CASE Fail(c) \/ KillCopier(c)
    BY <2>5, FailPreserves, KillPreserves
  <2> QED  BY <1>3, <2>1, <2>2, <2>3, <2>4, <2>5 DEF Step
<1>4. CASE UNCHANGED copyVars
  <2>1. UNCHANGED <<library, command, results>>
    BY <1>4 DEF copyVars
  <2>2. CopyTyped
    BY DEF Copying
  <2>3. CopyTyped'
    BY <2>1, <2>2 DEF CopyTyped, Object, Whole, library, command, reading, results
  <2>4. NothingLost
    BY <2>1, <2>2, NothingLostHere DEF library, results
  <2>5. UNCHANGED <<command, dir, staging, playlist, listing, output>>
    BY <2>1 DEF results
  <2> QED  BY <2>3, <2>4, <2>5, OthersMove
<1> QED  BY <1>1, <1>2, <1>3, <1>4 DEF CopyNext

LEMMA SpecCopying == CopySpec => []Copying
<1>1. CopyInit => Copying
  BY CopyInitIs
<1>2. Copying /\ [CopyNext]_copyVars => Copying'
  BY CopyNextIs
<1> QED  BY <1>1, <1>2, PTL DEF CopySpec

\* Types, whole copies, and a published export as the catalog described it.
LEMMA CopyingIsTrue == Copying => CopiesAreTrue
<1> SUFFICES ASSUME Copying PROVE CopiesAreTrue
  OBVIOUS
<1>1. CopyTyped /\ OutputOK
  BY DEF Copying
<1>2. ASSUME NEW c \in Copiers
      PROVE  /\ index[c] \in 0..Len(plan[c]) + 1 /\ fd[c] \in 0..Len(version) /\ Len(halves[c]) <= 2
             /\ staging[c].tracks # << >> => staging[c].exists
             /\ \A i \in DOMAIN staging[c].tracks : Whole(staging[c].tracks[i])
  <2>1. Own(c) /\ plan[c] \in Seq(Planned) /\ staging[c].tracks \in Seq(Seq(Nat))
    BY CopierIs
  <2>2. index[c] \in 0..Len(plan[c]) + 1
    <3>1. Len(plan[c]) \in Nat
      BY <2>1, LenProperties
    <3>2. index[c] \in 1..Len(plan[c]) \/ index[c] = 0
      BY <2>1 DEF Own, PlanOK
    <3> QED  BY <3>1, <3>2
  <2>3. fd[c] \in 0..Len(version) /\ Len(halves[c]) <= 2
    <3>1. Len(halves[c]) \in 0..1 \/ Len(halves[c]) = 2 \/ Len(halves[c]) = 0
      BY <2>1 DEF Own, ReadingOK
    <3>2. fd[c] \in 0..Len(version)
      BY <2>1 DEF Own, ReadingOK
    <3>3. Len(halves[c]) <= 2
      <4> DEFINE l == Len(halves[c])
      <4>1. l \in 0..1 \/ l = 2 \/ l = 0
        BY <3>1
      <4> HIDE DEF l
      <4>2. l <= 2
        BY <4>1
      <4> QED  BY <4>2 DEF l
    <3> QED  BY <3>2, <3>3
  <2>4. /\ staging[c].tracks # << >> => staging[c].exists
        /\ \A i \in 1..Len(staging[c].tracks) : Whole(staging[c].tracks[i])
    BY <2>1 DEF Own, StagingOK
  <2>5. DOMAIN staging[c].tracks = 1..Len(staging[c].tracks)
    BY <2>1, LenProperties
  <2> QED  BY <2>2, <2>3, <2>4, <2>5
<1>3. output.kind \in {"absent", "empty", "other", "export"}
  BY <1>1 DEF CopyTyped, Copies
<1>7. /\ \A t \in DOMAIN dir : Object(dir[t])
      /\ \A m \in {playlist, listing} : m.kind \in {"absent", "list", "file", "link", "folder"}
  BY <1>1, ListIs DEF CopyTyped
<1>4. CopyTypeOK
  BY <1>1, <1>2, <1>3, <1>7 DEF CopyTypeOK, CopyTyped, Object
<1>5. CopiesAreWhole
  BY <1>2, <1>7 DEF CopiesAreWhole, Object
<1>6. ExportsMatchTheCatalog
  BY <1>1 DEF OutputOK, ExportsMatchTheCatalog
<1> QED  BY <1>4, <1>5, <1>6 DEF CopiesAreTrue

\* No copy is torn, and a published export with copies has one of every track
\* of the curation, each of the version the catalog described when it was read,
\* whatever edited, replaced or removed the files and whichever commands ran
\* meanwhile (copy_track_atomic, _verify_source_unchanged, export_curation).
THEOREM CopiesStayTrue == CopySpec => []CopiesAreTrue
<1>1. Copying => CopiesAreTrue
  BY CopyingIsTrue
<1> QED  BY <1>1, SpecCopying, PTL

\* What a step does to the names of others.
KeptStep ==
    /\ \A t \in DOMAIN dir : t \in DOMAIN dir' /\
          (dir'[t] = dir[t]
           \/ /\ CopiesTo(dir'[t].by, t)
              /\ \/ dir[t].kind \in {"track", "file"}
                 \/ dir[t].kind = "link" /\ dir'[t].by \in dir[t].during)
    /\ output.kind \in {"export", "other"} => output' = output

LEMMA PlaceKeeps ==
    ASSUME Copying, NEW c \in Copiers, Place(c), job[c].kind = "set"
    PROVE  KeptStep
<1> DEFINE t == Here(c)
<1>1. CopyTyped /\ LookedOK(c)
  BY DEF Copying, CopyOK
<1>2. /\ ~Is(t, {"folder"}) /\ output' = output /\ copier[c] = "place"
      /\ dir' = [u \in DOMAIN dir \cup {t} |-> IF u = t THEN Placed(c) ELSE dir[u]]
  BY DEF Place, Copied, Extend
<1>3. CopiesTo(c, t) /\ Placed(c).by = c
  BY <1>2 DEF CopiesTo, Here, Placed
<1> HIDE DEF t
<1>4. dir'[t] = Placed(c) /\ \A u \in DOMAIN dir : u \in DOMAIN dir' /\ (u # t => dir'[u] = dir[u])
  BY <1>2
<1>5. t \in DOMAIN dir =>
          dir[t].kind \in {"track", "file"} \/ (dir[t].kind = "link" /\ c \in dir[t].during)
  BY <1>1, <1>2, <1>3 DEF CopyTyped, Object, LookedOK, Is
<1>6. ASSUME NEW u \in DOMAIN dir
      PROVE  \/ dir'[u] = dir[u]
             \/ /\ CopiesTo(dir'[u].by, u)
                /\ \/ dir[u].kind \in {"track", "file"}
                   \/ dir[u].kind = "link" /\ dir'[u].by \in dir[u].during
  BY <1>3, <1>4, <1>5
<1> QED  BY <1>2, <1>4, <1>6 DEF KeptStep

LEMMA OthersStep == Copying /\ CopyNext => KeptStep
<1> SUFFICES ASSUME Copying, CopyNext PROVE KeptStep
  OBVIOUS
<1>1. dir' = dir /\ output' = output => KeptStep
  BY DEF KeptStep
<1>2. ASSUME NEW f \in Files, EditInPlace(f) \/ ReplaceFile(f) \/ RemoveFile(f) \/ Rescan(f)
      PROVE  KeptStep
  BY <1>1, <1>2 DEF EditInPlace, ReplaceFile, RemoveFile, Rescan, results
<1>3. CASE Occupy
  BY <1>3 DEF Occupy, KeptStep
<1>4. CASE Intrude
  <2>1. output' = output
    BY <1>4 DEF Intrude
  <2>2. dir' = dir \/ \E t, o : t \notin DOMAIN dir /\ dir' = Extend(dir, t, o)
    BY <1>4 DEF Intrude
  <2>3. \A t \in DOMAIN dir : t \in DOMAIN dir' /\ dir'[t] = dir[t]
    BY <2>2 DEF Extend
  <2> QED  BY <2>1, <2>3 DEF KeptStep
<1>5. ASSUME NEW c \in Copiers, Step(c) PROVE KeptStep
  <2>1. CASE Place(c)
    <3>1. CASE job[c].kind = "set"
      BY <2>1, <3>1, PlaceKeeps
    <3>2. CASE job[c].kind # "set"
      BY <1>1, <2>1, <3>2 DEF Place
    <3> QED  BY <3>1, <3>2
  <2>2. CASE PublishExport(c)
    <3>1. dir' = dir /\ output.kind \notin {"export", "other"}
      BY <2>2 DEF PublishExport, Vacant
    <3> QED  BY <3>1 DEF KeptStep
  <2>3. CASE ~Place(c) /\ ~PublishExport(c)
    <3>1. dir' = dir /\ output' = output
      BY <1>5, <2>3 DEF Step, StartCopy, StartExport, ResolveAll, OpenSource, ReadHalf,
         VerifyUnchanged, Recheck, PublishPlaylist, PublishListing, SetOwner, Fail,
         KillCopier, results
    <3> QED  BY <1>1, <3>1
  <2> QED  BY <2>1, <2>2, <2>3
<1> QED  BY <1>2, <1>3, <1>4, <1>5 DEF CopyNext

\* A copy replaces nothing but another track or a regular file, and a link only if
\* it appeared after the command had looked at the name; and an export never
\* replaces what is at its destination, one that started before it was there
\* included (copy_track_atomic, export_curation).
THEOREM OthersStayKept == CopySpec => OthersAreKept
<1>1. Copying /\ [CopyNext]_copyVars => [KeptStep]_<<dir, output>>
  BY OthersStep DEF copyVars, results
<1> QED  BY <1>1, SpecCopying, PTL DEF CopySpec, OthersAreKept, KeptStep

-----------------------------------------------------------------------------
(* The published playlist, read as an input again                          *)

\* An increasing function lists its values in order.
LEMMA AscendingIsUnique ==
    ASSUME NEW n \in Nat, NEW f \in [1..n -> Int], \A i, j \in 1..n : i < j => f[i] < f[j],
           NEW S, S = {f[i] : i \in 1..n}
    PROVE  Ascending(S) = f
<1> DEFINE s == Ascending(S)
<1>1. \A i, j \in 1..n : f[i] = f[j] => i = j
  <2>1. SUFFICES ASSUME NEW i \in 1..n, NEW j \in 1..n, f[i] = f[j], i # j PROVE FALSE
    OBVIOUS
  <2>2. i < j \/ j < i
    BY <2>1
  <2>3. f[i] \in Int /\ f[j] \in Int
    OBVIOUS
  <2> QED  BY <2>1, <2>2, <2>3
<1>2. f \in Bijection(1..n, S)
  <2>1. f \in [1..n -> S] /\ \A t \in S : \E i \in 1..n : f[i] = t
    OBVIOUS
  <2>2. DOMAIN f = 1..n
    OBVIOUS
  <2> QED  BY <1>1, <2>1, <2>2 DEF Bijection, Injection, Surjection, IsInjective
<1>3. IsFiniteSet(S) /\ Cardinality(S) = n
  <2>1. IsFiniteSet(1..n) /\ Cardinality(1..n) = n
    BY FS_Interval
  <2>2. ExistsBijection(1..n, S)
    BY <1>2 DEF ExistsBijection
  <2> QED  BY <2>1, <2>2, FS_Bijection
<1>4. S \subseteq Int
  OBVIOUS
<1>5. /\ s \in [1..n -> S] /\ \A i, j \in 1..n : i < j => s[i] < s[j]
      /\ \A x \in S : \E i \in 1..n : s[i] = x
  BY <1>3, <1>4, AscendingIs
<1> HIDE DEF s
<1> DEFINE B == {i \in 1..n : s[i] # f[i]}
<1>6. B = {}
  <2>1. SUFFICES ASSUME B # {} PROVE FALSE
    OBVIOUS
  <2>2. PICK k \in B : \A i \in B : k <= i
    <3>1. B \subseteq Nat
      OBVIOUS
    <3> HIDE DEF B
    <3> QED  BY <2>1, <3>1, LeastNumber
  <2>3. k \in 1..n /\ s[k] # f[k] /\ s[k] \in Int /\ f[k] \in Int /\ s[k] \in S /\ f[k] \in S
    BY <1>4, <1>5, <2>2
  <2>4. \A i \in 1..n : i < k => s[i] = f[i]
    <3>1. SUFFICES ASSUME NEW i \in 1..n, i < k, s[i] # f[i] PROVE FALSE
      OBVIOUS
    <3>2. i \in B
      BY <3>1
    <3>3. k <= i /\ k \in Int
      BY <2>2, <2>3, <3>2
    <3> QED  BY <3>1, <3>3
  <2>5. PICK a \in 1..n : f[a] = s[k]
    BY <2>3
  <2>6. PICK b \in 1..n : s[b] = f[k]
    BY <1>5, <2>3
  <2>7. f[k] < s[k]
    <3>1. ~(a < k)
      <4>1. SUFFICES ASSUME a < k PROVE FALSE
        OBVIOUS
      <4>2. s[a] = s[k] /\ s[a] < s[k]
        BY <1>5, <2>3, <2>4, <2>5, <4>1
      <4> QED  BY <2>3, <4>2
    <3>2. a # k
      BY <2>3, <2>5
    <3>3. k < a
      BY <2>3, <3>1, <3>2
    <3> QED  BY <2>3, <2>5, <3>3
  <2>8. s[k] < f[k]
    <3>1. ~(b < k)
      <4>1. SUFFICES ASSUME b < k PROVE FALSE
        OBVIOUS
      <4>2. f[b] = f[k] /\ f[b] < f[k]
        BY <2>3, <2>4, <2>6, <4>1
      <4> QED  BY <2>3, <4>2
    <3>2. b # k
      BY <2>3, <2>6
    <3>3. k < b
      BY <2>3, <3>1, <3>2
    <3> QED  BY <1>5, <2>3, <2>6, <3>3
  <2> QED  BY <2>3, <2>7, <2>8
<1>7. s = f
  <2>1. \A i \in 1..n : s[i] = f[i]
    BY <1>6
  <2>2. s = [i \in 1..n |-> s[i]] /\ f = [i \in 1..n |-> f[i]]
    BY <1>5
  <2> QED  BY <2>1, <2>2
<1> QED  BY <1>7 DEF s

\* A group line changes the current group, a track line does not.
LEMMA GroupAfterTrack ==
    ASSUME NEW lines, NEW n \in Nat, lines[n + 1].line # "group"
    PROVE  GroupAt(lines, n + 1) = GroupAt(lines, n)
<1>1. \A i \in 1..(n + 1) : i \in 1..n \/ i = n + 1
  OBVIOUS
<1>2. \A i \in 1..n : i \in 1..(n + 1)
  OBVIOUS
<1>3. {i \in 1..(n + 1) : lines[i].line = "group"} = {i \in 1..n : lines[i].line = "group"}
  BY <1>1, <1>2
<1> QED  BY <1>3 DEF GroupAt

LEMMA GroupAfterGroup ==
    ASSUME NEW lines, NEW n \in Nat, lines[n + 1].line = "group"
    PROVE  GroupAt(lines, n + 1) = lines[n + 1].group
<1> DEFINE groups == {i \in 1..(n + 1) : lines[i].line = "group"}
<1>1. n + 1 \in groups /\ \A i \in groups : i \in Nat /\ i <= n + 1
  OBVIOUS
<1>2. IsFiniteSet(groups) /\ groups \subseteq Int /\ groups # {}
  <2>1. IsFiniteSet(1..(n + 1)) /\ groups \subseteq 1..(n + 1)
    BY FS_Interval
  <2>2. IsFiniteSet(groups)
    <3> HIDE DEF groups
    <3> QED  BY <2>1, FS_Subset
  <2> QED  BY <1>1, <2>1, <2>2
<1>3. GroupAt(lines, n + 1) = lines[Max(groups)].group
  BY <1>2 DEF GroupAt
<1> HIDE DEF groups
<1>4. Max(groups) \in groups /\ \A i \in groups : i <= Max(groups)
  BY <1>2, MaxIs
<1>5. Max(groups) = n + 1
  BY <1>1, <1>4
<1> QED  BY <1>3, <1>5

LEMMA NoGroupYet == ASSUME NEW lines PROVE GroupAt(lines, 0) = NoGroup
<1>1. {i \in 1..0 : lines[i].line = "group"} = {}
  OBVIOUS
<1> QED  BY <1>1 DEF GroupAt

\* Each track takes a line, after one for its group when that is new.
LEMMA LinesAre ==
    ASSUME NEW e
    PROVE  /\ \A i \in Nat : LineOf(e, i) \in Nat /\ LineOf(e, i) >= i
           /\ LineOf(e, 0) = 0
           /\ \A i \in Nat \ {0} :
                  LineOf(e, i) = LineOf(e, i - 1) + (IF IsNewGroup(e, i) THEN 2 ELSE 1)
           /\ \A i, j \in Nat : i < j => LineOf(e, i) < LineOf(e, j)
<1> DEFINE new(i) == {j \in 1..i : IsNewGroup(e, j)}
<1>1. \A i : LineOf(e, i) = i + Cardinality(new(i))
  BY DEF LineOf
<1>2. ASSUME NEW i \in Nat PROVE IsFiniteSet(new(i)) /\ Cardinality(new(i)) \in Nat
  <2>1. IsFiniteSet(1..i) /\ new(i) \subseteq 1..i
    BY FS_Interval
  <2>2. IsFiniteSet(new(i))
    <3> HIDE DEF new
    <3> QED  BY <2>1, FS_Subset
  <2> HIDE DEF new
  <2> QED  BY <2>2, FS_CardinalityType
<1>3. Cardinality(new(0)) = 0
  <2>1. new(0) = {}
    OBVIOUS
  <2> QED  BY <2>1, FS_EmptySet
<1>4. ASSUME NEW i \in Nat \ {0}
      PROVE  Cardinality(new(i)) = Cardinality(new(i - 1)) + (IF IsNewGroup(e, i) THEN 1 ELSE 0)
  <2>1. i - 1 \in Nat /\ \A j \in 1..i : j \in 1..(i - 1) \/ j = i
    OBVIOUS
  <2>2. \A j \in 1..(i - 1) : j \in 1..i
    OBVIOUS
  <2>3. i \in 1..i /\ i \notin 1..(i - 1)
    OBVIOUS
  <2>4. CASE IsNewGroup(e, i)
    <3>1. new(i) = new(i - 1) \cup {i} /\ i \notin new(i - 1)
      BY <2>1, <2>2, <2>3, <2>4
    <3>2. IsFiniteSet(new(i - 1))
      BY <1>2, <2>1
    <3> HIDE DEF new
    <3>3. Cardinality(new(i)) = Cardinality(new(i - 1)) + 1
      BY <3>1, <3>2, FS_AddElement
    <3> QED  BY <2>4, <3>3
  <2>5. CASE ~IsNewGroup(e, i)
    <3>1. new(i) = new(i - 1)
      BY <2>1, <2>2, <2>5
    <3>2. Cardinality(new(i - 1)) \in Nat
      BY <1>2, <2>1
    <3> HIDE DEF new
    <3> QED  BY <2>5, <3>1, <3>2
  <2> QED  BY <2>4, <2>5
<1>5. ASSUME NEW i \in Nat, NEW j \in Nat, i < j
      PROVE  Cardinality(new(i)) <= Cardinality(new(j))
  <2>1. \A k \in 1..i : k \in 1..j
    BY <1>5
  <2>2. new(i) \subseteq new(j)
    BY <2>1
  <2>3. IsFiniteSet(new(j))
    BY <1>2
  <2> HIDE DEF new
  <2> QED  BY <2>2, <2>3, FS_Subset
<1> HIDE DEF new
<1>6. \A i \in Nat : LineOf(e, i) \in Nat /\ LineOf(e, i) >= i
  BY <1>1, <1>2
<1>7. LineOf(e, 0) = 0
  BY <1>1, <1>3
<1>8. ASSUME NEW i \in Nat \ {0}
      PROVE  LineOf(e, i) = LineOf(e, i - 1) + (IF IsNewGroup(e, i) THEN 2 ELSE 1)
  <2>1. i - 1 \in Nat
    OBVIOUS
  <2>2. Cardinality(new(i - 1)) \in Nat
    BY <1>2, <2>1
  <2>3. LineOf(e, i) = i + Cardinality(new(i)) /\ LineOf(e, i - 1) = i - 1 + Cardinality(new(i - 1))
    BY <1>1
  <2> QED  BY <1>4, <2>2, <2>3
<1>9. ASSUME NEW i \in Nat, NEW j \in Nat, i < j PROVE LineOf(e, i) < LineOf(e, j)
  <2>1. Cardinality(new(i)) \in Nat /\ Cardinality(new(j)) \in Nat
    BY <1>2
  <2>2. LineOf(e, i) = i + Cardinality(new(i)) /\ LineOf(e, j) = j + Cardinality(new(j))
    BY <1>1
  <2> QED  BY <1>5, <1>9, <2>1, <2>2
<1> QED  BY <1>6, <1>7, <1>8, <1>9

LEMMA TrackIs ==
    ASSUME NEW t
    PROVE  Track(t).line = "track" /\ Track(t).line # "group" /\ Track(t).file = t
BY DEF Track

LEMMA CommentIs == Comment.line = "comment" /\ Comment.line # "group" /\ Comment.line # "track"
BY DEF Comment

\* The line of a track, as it is read.
TrackLine(e, k) == IF e[k].group \in Hashed THEN Comment ELSE Track(Target(e, k))

LEMMA TrackLineIs ==
    ASSUME NEW e, NEW k
    PROVE  /\ TrackLine(e, k).line # "group"
           /\ TrackLine(e, k).line = "track" <=> e[k].group \notin Hashed
           /\ e[k].group \notin Hashed => TrackLine(e, k).file = Target(e, k)
BY TrackIs, CommentIs DEF TrackLine

LEMMA GroupIs ==
    ASSUME NEW g
    PROVE  Group(g).line = "group" /\ Group(g).line # "track" /\ Group(g).group = g
BY DEF Group

\* The line of a track names it; a line between two of them is a group line,
\* for the group that is new with the next track.
LEMMA ManifestIs ==
    ASSUME NEW e \in Seq(Planned)
    PROVE  /\ DOMAIN ManifestLines(e) = 1..LineOf(e, Len(e))
           /\ \A k \in 1..Len(e) :
                  /\ LineOf(e, k) \in 1..LineOf(e, Len(e))
                  /\ ManifestLines(e)[LineOf(e, k)] = TrackLine(e, k)
                  /\ IsNewGroup(e, k) =>
                         /\ LineOf(e, k) - 1 \in 1..LineOf(e, Len(e))
                         /\ ManifestLines(e)[LineOf(e, k) - 1] = Group(e[k].group)
           /\ \A m \in 1..LineOf(e, Len(e)) :
                  \E k \in 1..Len(e) :
                      m = LineOf(e, k) \/ ManifestLines(e)[m] = Group(e[k].group)
<1> DEFINE n == Len(e)
           L(i) == LineOf(e, i)
           M == ManifestLines(e)
           reach(m) == {j \in 1..n : m <= L(j)}
<1>1. n \in Nat /\ DOMAIN e = 1..n /\ (e = << >> => n = 0)
  BY LenProperties, EmptySeq
<1>2. /\ \A i \in Nat : L(i) \in Nat /\ L(i) >= i
      /\ L(0) = 0
      /\ \A i \in Nat \ {0} : L(i) = L(i - 1) + (IF IsNewGroup(e, i) THEN 2 ELSE 1)
      /\ \A i, j \in Nat : i < j => L(i) < L(j)
  BY LinesAre
<1>3. (IF e = << >> THEN 0 ELSE LineOf(e, Len(e))) = L(n)
  BY <1>1, <1>2
<1>4. M = [m \in 1..L(n) |-> LET i == Min(reach(m))
                             IN  IF m = L(i) THEN TrackLine(e, i) ELSE Group(e[i].group)]
  BY <1>1, <1>3 DEF ManifestLines, TrackLine
<1>0. n \in Nat
  BY <1>1
<1> HIDE DEF L, M, n
<1>5. ASSUME NEW k \in 1..n, NEW m \in 1..L(n), m <= L(k), L(k - 1) < m
      PROVE  M[m] = IF m = L(k) THEN TrackLine(e, k) ELSE Group(e[k].group)
  <2>1. k \in reach(m) /\ reach(m) \subseteq Nat
    BY <1>1, <1>5
  <2>2. Min(reach(m)) \in reach(m) /\ \A j \in reach(m) : Min(reach(m)) <= j
    <3> HIDE DEF reach
    <3> QED  BY <2>1, MinIs
  <2>3. \A j \in reach(m) : j >= k
    <3>1. SUFFICES ASSUME NEW j \in 1..n, m <= L(j), j < k PROVE FALSE
      BY <1>1
    <3>2. j = k - 1 \/ j < k - 1
      BY <1>1, <3>1
    <3>3. L(j) <= L(k - 1) /\ L(j) \in Nat /\ L(k - 1) \in Nat
      <4>1. j \in Nat /\ k - 1 \in Nat
        BY <1>0
      <4>2. L(j) \in Nat /\ L(k - 1) \in Nat
        BY <1>2, <4>1
      <4>3. L(j) = L(k - 1) \/ L(j) < L(k - 1)
        BY <1>2, <3>2, <4>1
      <4> QED  BY <4>2, <4>3
    <3>4. m \in Nat
      OBVIOUS
    <3> QED  BY <1>5, <3>1, <3>3, <3>4
  <2>4. Min(reach(m)) = k
    <3>1. Min(reach(m)) \in Nat /\ k \in Nat /\ Min(reach(m)) <= k /\ Min(reach(m)) >= k
      BY <2>1, <2>2, <2>3
    <3> HIDE DEF reach
    <3> QED  BY <3>1
  <2> HIDE DEF reach
  <2> QED  BY <1>4, <2>4
<1>6. ASSUME NEW k \in 1..n
      PROVE  /\ k \in Nat \ {0} /\ k - 1 \in Nat /\ L(k) \in 1..L(n) /\ L(k - 1) < L(k)
             /\ L(k) \in Nat /\ L(k - 1) \in Nat
  <2>1. k \in Nat \ {0} /\ k - 1 \in Nat /\ k - 1 < k /\ (k = n \/ k < n)
    BY <1>0
  <2>2. L(k) \in Nat /\ L(k) >= k /\ L(k - 1) < L(k) /\ L(k - 1) \in Nat /\ L(n) \in Nat
    BY <1>1, <1>2, <2>1
  <2>3. L(k) <= L(n)
    <3>1. L(k) = L(n) \/ L(k) < L(n)
      BY <1>0, <1>2, <2>1
    <3> QED  BY <2>2, <3>1
  <2> QED  BY <2>1, <2>2, <2>3
<1>7. DOMAIN M = 1..L(n)
  BY <1>4
<1>8. ASSUME NEW k \in 1..n PROVE M[L(k)] = TrackLine(e, k)
  <2>1. L(k) <= L(k)
    BY <1>6
  <2> QED  BY <1>5, <1>6, <2>1
<1>9. ASSUME NEW k \in 1..n, IsNewGroup(e, k)
      PROVE  L(k) - 1 \in 1..L(n) /\ M[L(k) - 1] = Group(e[k].group)
  <2>1. L(k) = L(k - 1) + 2
    BY <1>2, <1>6, <1>9
  <2>2. L(k) \in Nat /\ L(k - 1) \in Nat /\ L(n) \in Nat /\ L(k) <= L(n)
    <3>1. L(n) \in Nat
      BY <1>0, <1>2
    <3> QED  BY <1>6, <3>1
  <2>3. L(k) - 1 <= L(k) /\ L(k - 1) < L(k) - 1 /\ L(k) - 1 # L(k)
    BY <2>1, <2>2
  <2>4. L(k) - 1 \in 1..L(n)
    BY <2>1, <2>2
  <2> QED  BY <1>5, <2>3, <2>4
<1>10. ASSUME NEW m \in 1..L(n)
       PROVE  \E k \in 1..n : m = L(k) \/ M[m] = Group(e[k].group)
  <2>1. n # 0 /\ n \in 1..n
    <3>1. n # 0
      <4>1. SUFFICES ASSUME n = 0 PROVE FALSE
        OBVIOUS
      <4>2. L(n) = 0
        BY <1>2, <4>1
      <4> QED  BY <4>2
    <3> QED  BY <1>0, <3>1
  <2>2. n \in reach(m) /\ reach(m) \subseteq Nat
    <3>1. L(n) \in Nat
      BY <1>6, <2>1
    <3>2. m <= L(n)
      BY <3>1
    <3> QED  BY <1>1, <2>1, <3>2
  <2>3. PICK k \in reach(m) : \A j \in reach(m) : k <= j
    <3> HIDE DEF reach
    <3> QED  BY <2>2, LeastNumber
  <2>4. k \in 1..n /\ m <= L(k)
    BY <2>3
  <2>5. L(k - 1) < m
    <3>1. CASE k = 1
      <4>1. k - 1 = 0
        BY <3>1
      <4>2. L(k - 1) = 0
        BY <1>2, <4>1
      <4> QED  BY <4>2
    <3>2. CASE k # 1
      <4>1. k - 1 \in 1..n /\ k \in Nat
        BY <1>1, <2>4, <3>2
      <4>2. k - 1 \notin reach(m)
        <5>1. ~(k <= k - 1)
          BY <4>1
        <5> HIDE DEF reach
        <5> QED  BY <2>3, <5>1
      <4>3. ~(m <= L(k - 1)) /\ L(k - 1) \in Nat
        BY <1>6, <2>4, <4>1, <4>2
      <4> QED  BY <4>3
    <3> QED  BY <3>1, <3>2
  <2>6. M[m] = IF m = L(k) THEN TrackLine(e, k) ELSE Group(e[k].group)
    BY <1>5, <2>4, <2>5
  <2> QED  BY <2>4, <2>6
<1> QED  BY <1>6, <1>7, <1>8, <1>9, <1>10 DEF L, M, n

\* The current group at the line of a track is its group.
LEMMA GroupOfLine ==
    ASSUME NEW e \in Seq(Planned), GroupsHold(e), NEW k \in 1..Len(e)
    PROVE  GroupAt(ManifestLines(e), LineOf(e, k)) = e[k].group
<1> DEFINE n == Len(e)
           L(i) == LineOf(e, i)
           M == ManifestLines(e)
           B == {i \in 1..n : GroupAt(M, L(i)) # e[i].group}
<1>1. n \in Nat
  BY LenProperties
<1>2. /\ \A i \in Nat : L(i) \in Nat /\ L(i) >= i
      /\ L(0) = 0
      /\ \A i \in Nat \ {0} : L(i) = L(i - 1) + (IF IsNewGroup(e, i) THEN 2 ELSE 1)
  BY LinesAre
<1>3. /\ \A i \in 1..n : M[L(i)] = TrackLine(e, i)
      /\ \A i \in 1..n : IsNewGroup(e, i) => M[L(i) - 1] = Group(e[i].group)
  BY ManifestIs
<1> HIDE DEF L, M
<1>4. B = {}
  <2>1. SUFFICES ASSUME B # {} PROVE FALSE
    OBVIOUS
  <2>2. PICK i \in B : \A j \in B : i <= j
    <3>1. B \subseteq Nat
      OBVIOUS
    <3> HIDE DEF B
    <3> QED  BY <2>1, <3>1, LeastNumber
  <2>3. i \in 1..n /\ GroupAt(M, L(i)) # e[i].group
    BY <2>2
  <2>4. i \in Nat \ {0} /\ i - 1 \in Nat /\ L(i) \in Nat /\ L(i) >= 1 /\ L(i - 1) \in Nat
    <3>1. i \in Nat /\ i >= 1
      BY <2>3
    <3> QED  BY <1>2, <3>1
  <2>5. GroupAt(M, L(i)) = GroupAt(M, L(i) - 1)
    <3>1. L(i) - 1 \in Nat /\ (L(i) - 1) + 1 = L(i)
      BY <2>4
    <3>2. M[(L(i) - 1) + 1].line # "group"
      BY <1>3, <2>3, <3>1, TrackLineIs
    <3>3. GroupAt(M, (L(i) - 1) + 1) = GroupAt(M, L(i) - 1)
      BY <3>1, <3>2, GroupAfterTrack
    <3> QED  BY <3>1, <3>3
  <2>6. CASE IsNewGroup(e, i)
    <3>1. L(i) = L(i - 1) + 2
      BY <1>2, <2>4, <2>6
    <3>2. L(i) - 2 \in Nat /\ (L(i) - 2) + 1 = L(i) - 1
      BY <2>4, <3>1
    <3>3. M[(L(i) - 2) + 1] = Group(e[i].group)
      BY <1>3, <2>3, <2>6, <3>2
    <3>4. M[(L(i) - 2) + 1].line = "group" /\ M[(L(i) - 2) + 1].group = e[i].group
      BY <3>3, GroupIs
    <3>5. GroupAt(M, (L(i) - 2) + 1) = e[i].group
      BY <3>2, <3>4, GroupAfterGroup
    <3> QED  BY <2>3, <2>5, <3>2, <3>5
  <2>7. CASE ~IsNewGroup(e, i)
    <3>1. L(i) = L(i - 1) + 1
      BY <1>2, <2>4, <2>7
    <3>2. L(i) - 1 = L(i - 1)
      BY <2>4, <3>1
    <3>3. GroupAt(M, L(i)) = GroupAt(M, L(i - 1))
      BY <2>5, <3>2
    <3>4. CASE i = 1
      <4>1. i - 1 = 0
        BY <3>4
      <4>2. L(i - 1) = 0
        BY <1>2, <4>1
      <4>3. GroupAt(M, L(i)) = NoGroup
        BY <3>3, <4>2, NoGroupYet
      <4>4. e[i].group = NoGroup
        BY <2>7, <3>4 DEF IsNewGroup
      <4> QED  BY <2>3, <4>3, <4>4
    <3>5. CASE i # 1
      <4>1. i - 1 \in 1..n /\ i - 1 < i
        BY <1>1, <2>3, <3>5
      <4>2. GroupAt(M, L(i - 1)) = e[i - 1].group
        <5>1. i - 1 \notin B
          <6>1. ~(i <= i - 1)
            BY <2>4
          <6> HIDE DEF B
          <6> QED  BY <2>2, <6>1
        <5> QED  BY <4>1, <5>1
      <4>3. e[i].group = NoGroup \/ e[i].group = e[i - 1].group
        BY <2>7, <3>5 DEF IsNewGroup
      <4>4. e[i].group = NoGroup => e[i - 1].group = NoGroup
        BY <2>3, <4>1 DEF GroupsHold
      <4> QED  BY <2>3, <3>3, <4>2, <4>3, <4>4
    <3> QED  BY <3>4, <3>5
  <2> QED  BY <2>6, <2>7
<1>5. k \in 1..n /\ k \notin B
  BY <1>4
<1>6. GroupAt(M, L(k)) = e[k].group
  BY <1>5
<1> QED  BY <1>6 DEF L, M

\* The positions of the entries whose lines name a track, in order.
LEMMA PlainIs ==
    ASSUME NEW e \in Seq(Planned)
    PROVE  LET plain == Ascending({i \in DOMAIN e : e[i].group \notin Hashed})
           IN  \E p \in Nat :
                   /\ plain \in [1..p -> Int] /\ DOMAIN plain = 1..p
                   /\ \A i, j \in 1..p : i < j => plain[i] < plain[j]
                   /\ \A k \in 1..p : plain[k] \in 1..Len(e) /\ e[plain[k]].group \notin Hashed
                   /\ \A i \in 1..Len(e) : e[i].group \notin Hashed => \E k \in 1..p : plain[k] = i
<1> DEFINE n == Len(e)
           P == {i \in DOMAIN e : e[i].group \notin Hashed}
           plain == Ascending(P)
           p == Cardinality(P)
<1>1. n \in Nat /\ DOMAIN e = 1..n
  BY LenProperties
<1>2. /\ \A i \in P : i \in 1..n /\ e[i].group \notin Hashed
      /\ \A i \in 1..n : e[i].group \notin Hashed => i \in P
  BY <1>1
<1> HIDE DEF P
<1>3. IsFiniteSet(P) /\ P \subseteq Int
  <2>1. IsFiniteSet(1..n) /\ P \subseteq 1..n
    BY <1>1, <1>2, FS_Interval
  <2>2. IsFiniteSet(P)
    BY <2>1, FS_Subset
  <2> QED  BY <1>1, <2>1, <2>2
<1>4. /\ p \in Nat /\ plain \in [1..p -> P]
      /\ \A i, j \in 1..p : i < j => plain[i] < plain[j]
      /\ \A x \in P : \E i \in 1..p : plain[i] = x
  BY <1>3, AscendingIs
<1> HIDE DEF p, plain, n
<1>5. plain \in [1..p -> Int] /\ DOMAIN plain = 1..p /\ \A k \in 1..p : plain[k] \in P
  BY <1>3, <1>4
<1>6. \A k \in 1..p : plain[k] \in 1..n /\ e[plain[k]].group \notin Hashed
  BY <1>2, <1>5
<1>7. \A i \in 1..n : e[i].group \notin Hashed => \E k \in 1..p : plain[k] = i
  BY <1>2, <1>4
<1> QED  BY <1>4, <1>5, <1>6, <1>7 DEF plain, P, n

\* Read as an input again, the playlist of a set gives its entries, but for those
\* whose lines are comments.
LEMMA ReadBack ==
    ASSUME NEW e \in Seq(Planned), GroupsHold(e)
    PROVE  LET plain == Ascending({i \in DOMAIN e : e[i].group \notin Hashed})
           IN  PlanEntries(ManifestLines(e), << >>)
                   = [k \in DOMAIN plain |-> Entry(Target(e, plain[k]), e[plain[k]].group)]
<1> DEFINE plain == Ascending({i \in DOMAIN e : e[i].group \notin Hashed})
           n == Len(e)
           L(i) == LineOf(e, i)
           M == ManifestLines(e)
           S == {m \in DOMAIN M : M[m].line = "track"}
<1>1. n \in Nat /\ DOMAIN e = 1..n
  BY LenProperties
<1>2. \A i \in Nat : L(i) \in Nat
  BY LinesAre
<1>3. \A i, j \in Nat : i < j => L(i) < L(j)
  BY LinesAre
<1>4. /\ DOMAIN M = 1..L(n)
      /\ \A k \in 1..n : L(k) \in 1..L(n) /\ M[L(k)] = TrackLine(e, k)
      /\ \A m \in 1..L(n) : \E k \in 1..n : m = L(k) \/ M[m] = Group(e[k].group)
  BY ManifestIs
<1>5. \A k \in 1..n : GroupAt(M, L(k)) = e[k].group
  BY GroupOfLine
<1>6. ListedEntries(M)
          = [k \in DOMAIN Ascending(S) |->
                 Entry(M[Ascending(S)[k]].file, GroupAt(M, Ascending(S)[k]))]
  BY DEF ListedEntries
<1>15. PICK p \in Nat :
          /\ plain \in [1..p -> Int] /\ DOMAIN plain = 1..p
          /\ \A i, j \in 1..p : i < j => plain[i] < plain[j]
          /\ \A k \in 1..p : plain[k] \in 1..n /\ e[plain[k]].group \notin Hashed
          /\ \A i \in 1..n : e[i].group \notin Hashed => \E k \in 1..p : plain[k] = i
  BY PlainIs
<1> DEFINE f == [k \in 1..p |-> L(plain[k])]
           r == [k \in 1..p |-> Entry(Target(e, plain[k]), e[plain[k]].group)]
<1> HIDE DEF L, M, plain, n
<1>16. \A k \in 1..p : /\ plain[k] \in 1..n /\ plain[k] \in Nat
                       /\ L(plain[k]) \in 1..L(n) /\ M[L(plain[k])].line = "track"
                       /\ M[L(plain[k])].file = Target(e, plain[k])
  <2>1. ASSUME NEW i \in 1..n, e[i].group \notin Hashed
        PROVE  /\ i \in Nat /\ L(i) \in 1..L(n)
               /\ M[L(i)].line = "track" /\ M[L(i)].file = Target(e, i)
    <3>1. M[L(i)] = TrackLine(e, i)
      BY <1>4
    <3>2. TrackLine(e, i).line = "track" /\ TrackLine(e, i).file = Target(e, i)
      BY <2>1, TrackLineIs
    <3> QED  BY <1>1, <1>4, <3>1, <3>2
  <2> QED  BY <1>15, <2>1
<1>7. f \in [1..p -> Int] /\ \A i, j \in 1..p : i < j => f[i] < f[j]
  <2>1. ASSUME NEW k \in 1..p PROVE L(plain[k]) \in Int
    <3>1. plain[k] \in Nat
      BY <1>16
    <3> QED  BY <1>2, <3>1
  <2>2. ASSUME NEW i \in 1..p, NEW j \in 1..p, i < j PROVE f[i] < f[j]
    <3>1. plain[i] < plain[j] /\ plain[i] \in Nat /\ plain[j] \in Nat
      BY <1>15, <1>16, <2>2
    <3> QED  BY <1>3, <3>1
  <2> QED  BY <2>1, <2>2
<1>8. S = {f[i] : i \in 1..p}
  <2>1. ASSUME NEW m \in S PROVE \E k \in 1..p : m = f[k]
    <3>1. m \in 1..L(n) /\ M[m].line = "track"
      BY <1>4
    <3>2. \A g : M[m] # Group(g)
      BY <3>1, GroupIs
    <3>3. PICK i \in 1..n : m = L(i)
      BY <1>4, <3>1, <3>2
    <3>4. e[i].group \notin Hashed
      BY <1>4, <3>1, <3>3, TrackLineIs
    <3>5. PICK k \in 1..p : plain[k] = i
      BY <1>15, <3>4
    <3> QED  BY <3>3, <3>5
  <2>2. ASSUME NEW k \in 1..p PROVE f[k] \in S
    <3>1. M[L(plain[k])].line = "track"
      BY <1>16
    <3> QED  BY <1>4, <1>16, <3>1
  <2> HIDE DEF S, f
  <2> QED  BY <2>1, <2>2
<1>9. Ascending(S) = f
  <2> HIDE DEF S, f
  <2> QED  BY <1>15, <1>7, <1>8, AscendingIsUnique
<1>10. ListedEntries(M) = r
  <2>1. ListedEntries(M) = [k \in 1..p |-> Entry(M[f[k]].file, GroupAt(M, f[k]))]
    <3>1. DOMAIN f = 1..p
      OBVIOUS
    <3> HIDE DEF S, f
    <3> QED  BY <1>6, <1>9, <3>1
  <2>2. ASSUME NEW k \in 1..p
        PROVE  Entry(M[f[k]].file, GroupAt(M, f[k]))
                   = Entry(Target(e, plain[k]), e[plain[k]].group)
    <3>1. f[k] = L(plain[k])
      OBVIOUS
    <3>2. M[L(plain[k])].file = Target(e, plain[k])
      BY <1>16
    <3> QED  BY <1>5, <1>16, <3>1, <3>2
  <2> HIDE DEF f
  <2> QED  BY <2>1, <2>2
<1> DEFINE R == {r[i] : i \in 1..p}
           x == [i \in DOMAIN << >> |-> Entry((<< >>)[i], GroupAt(M, Len(M)))]
<1>11. r \in Seq(R)
  <2>1. r \in [1..p -> R]
    OBVIOUS
  <2> HIDE DEF r, R
  <2> QED  BY <1>15, <2>1, FunctionIsSequence
<1>12. x = << >>
  <2>1. DOMAIN << >> = {}
    <3>1. << >> \in Seq(R) /\ Len(<< >>) = 0
      BY EmptySeq
    <3>2. DOMAIN << >> = 1..0
      BY <3>1, LenProperties
    <3> QED  BY <3>2
  <2>2. x \in [1..0 -> R]
    BY <2>1
  <2> HIDE DEF x, R
  <2>3. x \in Seq(R) /\ Len(x) = 0
    BY <2>2, FunctionIsSequence
  <2> QED  BY <2>3, EmptySeq
<1>13. PlanEntries(M, << >>) = ListedEntries(M) \o x
  BY DEF PlanEntries
<1> HIDE DEF r, x, R
<1>14. PlanEntries(M, << >>) = r
  BY <1>10, <1>11, <1>12, <1>13, ConcatEmptySeq
<1> QED  BY <1>14, <1>15 DEF r, M, plain

\* The published lists are complete, and nothing else is left.
LEMMA CopyingIsSettled == Copying => SetsAreSettled
<1> SUFFICES ASSUME Copying PROVE SetsAreSettled
  OBVIOUS
<1>1. /\ CopyTyped /\ AllThere(playlist.entries) /\ AllThere(listing.entries)
      /\ GroupsHold(playlist.entries) /\ \A c \in Copiers : CopyOK(c)
  BY DEF Copying
<1>2. playlist.entries \in Seq(Planned) /\ listing.entries \in Seq(Planned)
  BY <1>1, ListIs DEF CopyTyped
<1>3. \A m \in {playlist, listing} : \A i \in DOMAIN m.entries :
          Is(Target(m.entries, i), {"track"})
  <2>1. DOMAIN playlist.entries = 1..Len(playlist.entries)
        /\ DOMAIN listing.entries = 1..Len(listing.entries)
    BY <1>2, LenProperties
  <2> QED  BY <1>1, <2>1 DEF AllThere
<1>4. SetsReadBack
  BY <1>1, <1>2, <1>3, ReadBack DEF SetsReadBack
<1>5. ASSUME NEW c \in Copiers \ overlap
      PROVE  /\ copier[c] = "owner" =>
                    /\ playlist = List(c, plan[c]) /\ listing = playlist
                    /\ \A i \in DOMAIN plan[c] : dir[Target(plan[c], i)].by = c
             /\ copier[c] = "done" /\ job[c].kind = "set" /\ playlist.by = c => listing = playlist
  <2>1. ListsOK(c)
    BY <1>1 DEF CopyOK
  <2>2. ASSUME copier[c] = "owner" PROVE \A i \in DOMAIN plan[c] : dir[Target(plan[c], i)].by = c
    <3>1. Running(c)
      BY <2>2 DEF Running, Busy
    <3>2. job[c].kind = "set" /\ DOMAIN plan[c] = 1..Len(plan[c])
      <4>1. plan[c] \in Seq(Planned)
        BY CopierIs
      <4> QED  BY <2>2, <3>1, <4>1, RunningIs, LenProperties DEF KindsAt
    <3> QED  BY <2>1, <2>2, <3>1, <3>2 DEF ListsOK, Mine
  <2> QED  BY <2>1, <2>2 DEF ListsOK
<1>6. SetsAreComplete
  BY <1>5 DEF SetsAreComplete
<1>7. NothingLeftBehind
  BY <1>1 DEF NothingLeftBehind, CopyOK, ScratchOK, StagingOK
<1> QED  BY <1>4, <1>6, <1>7 DEF SetsAreSettled

\* A published list names only tracks a command copied there; the playlist, read as
\* an input again, gives the set with its groups, but for the tracks of groups that
\* begin with #; a `copy` that nobody overlapped has published both lists and copied
\* every track of them itself before it hands the set over; and no temporary file is
\* left by a command that could unlink it (copy_set.py, set_copy.py).
THEOREM SetsStaySettled == CopySpec => []SetsAreSettled
<1>1. Copying => SetsAreSettled
  BY CopyingIsSettled
<1> QED  BY <1>1, SpecCopying, PTL
=============================================================================
