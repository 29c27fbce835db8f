----------------------- MODULE AnalysisPipelineProofs -----------------------
(***************************************************************************)
(* Proofs about the analysis: AnalysisPipeline, for any set of tracks, any *)
(* number of analyze commands and any of the bounds, and at the end        *)
(* AnalysisWorker, the process that extracts one track.                    *)
(***************************************************************************)
EXTENDS AnalysisPipeline, AnalysisWorker, SequenceTheorems, FiniteSetTheorems, TLAPS

-----------------------------------------------------------------------------
(* Sequences and records *)

\* A function on an interval of naturals is a sequence of that length.
LEMMA FunctionIsSequence ==
    ASSUME NEW S, NEW n \in Nat, NEW f \in [1..n -> S]
    PROVE  f \in Seq(S) /\ Len(f) = n
<1>1. f \in Seq(S)
  BY SeqDef
<1>2. Len(f) \in Nat /\ DOMAIN f = 1..Len(f)
  BY <1>1, LenProperties
<1>3. 1..Len(f) = 1..n
  BY <1>2
<1> QED
  BY <1>1, <1>2, <1>3

\* Appending to a sequence keeps what it holds.
LEMMA Appended ==
    ASSUME NEW S, NEW s \in Seq(S), NEW e \in S
    PROVE  /\ Append(s, e) \in Seq(S)
           /\ Len(Append(s, e)) = Len(s) + 1
           /\ \A i \in 1..Len(s) : Append(s, e)[i] = s[i]
           /\ Append(s, e)[Len(s) + 1] = e
  BY AppendProperties

\* The ids of a run's attempts are finitely many.
LEMMA AttemptsFinite ==
    ASSUME attempts \in Seq(Attempt), NEW r, NEW ok
    PROVE  IsFiniteSet(AttemptsOf(r, ok))
<1>1. Len(attempts) \in Nat
  BY LenProperties
<1>2. IsFiniteSet(1..Len(attempts))
  BY <1>1, FS_Interval
<1>3. AttemptsOf(r, ok) \subseteq 1..Len(attempts)
  BY DEF AttemptsOf
<1> QED
  BY <1>2, <1>3, FS_Subset

\* So their number is one.
LEMMA AttemptsCounted ==
    ASSUME attempts \in Seq(Attempt), NEW r, NEW ok
    PROVE  Cardinality(AttemptsOf(r, ok)) \in Nat
  BY AttemptsFinite, FS_CardinalityType

\* The tracks a command selects.
LEMMA SelectionCounted ==
    ASSUME NEW S \in SUBSET Tracks
    PROVE  Cardinality(S) \in Nat
  BY PipelineAssumption, FS_Subset, FS_CardinalityType

\* _derive_status answers one of the three statuses of a settled run.
LEMMA StatusDerived ==
    ASSUME NEW e, NEW a, NEW u, NEW f
    PROVE  DeriveStatus(e, a, u, f) \in Statuses \ {"running"}
  BY DEF DeriveStatus, Statuses

-----------------------------------------------------------------------------
(* Type correctness and the projection.  The two go together: Rebuild        *)
(* chooses the newest success of a track, which exists because the           *)
(* projection shows it.                                                      *)

Projected == TypeOK /\ ProjectionIsLatestSuccess

\* rebuild-current-analysis finds what the projection already shows.
LEMMA RebuildChangesNothing ==
    ASSUME Projected, Rebuild
    PROVE  UNCHANGED vars
<1>1. Len(attempts) \in Nat
  BY LenProperties DEF Projected, TypeOK
<1>2. ASSUME NEW t \in Tracks
      PROVE  (CHOOSE i \in 0..Len(attempts) : IsLatestSuccess(t, i)) = current[t]
  <2> DEFINE chosen == CHOOSE i \in 0..Len(attempts) : IsLatestSuccess(t, i)
  <2>1. IsLatestSuccess(t, current[t]) /\ current[t] \in 0..Len(attempts)
    BY <1>1 DEF Projected, TypeOK, ProjectionIsLatestSuccess, IsLatestSuccess
  <2>2. IsLatestSuccess(t, chosen) /\ chosen \in 0..Len(attempts)
    BY <2>1
  <2>3. \A i, j \in 0..Len(attempts) :
            IsLatestSuccess(t, i) /\ IsLatestSuccess(t, j) => i = j
    BY <1>1 DEF IsLatestSuccess
  <2> QED
    BY <2>1, <2>2, <2>3
<1>3. current' = current
  BY <1>2 DEF Rebuild, Projected, TypeOK
<1> QED
  BY <1>3 DEF Rebuild, vars, library, database, request

\* An empty catalog projects nothing.
LEMMA InitProjected == Init => Projected
<1> SUFFICES ASSUME Init PROVE Projected
  OBVIOUS
<1>1. runs \in Seq(Run) /\ attempts \in Seq(Attempt) /\ Len(attempts) = 0
  BY EmptySeq DEF Init
<1>2. TypeOK
  BY <1>1, PipelineAssumption DEF Init, TypeOK, Versions
<1>3. ProjectionIsLatestSuccess
  BY <1>1 DEF Init, ProjectionIsLatestSuccess, IsLatestSuccess
<1> QED
  BY <1>2, <1>3 DEF Projected

\* Reconciling rewrites runs into well-formed runs.
LEMMA ReconcileTyped ==
    ASSUME TypeOK, NEW p \in Procs, Reconcile(p)
    PROVE  /\ runs' \in Seq(Run)
           /\ Len(runs') = Len(runs)
           /\ \A r \in 1..Len(runs) :
                 runs'[r] = IF runs[r].status = "running" THEN Settled(r) ELSE runs[r]
<1>1. runs \in [1..Len(runs) -> Run] /\ Len(runs) \in Nat /\ DOMAIN runs = 1..Len(runs)
  BY LenProperties DEF TypeOK
<1>2. ASSUME NEW r \in 1..Len(runs) PROVE Settled(r) \in Run
  <2> DEFINE analyzed == Cardinality(AttemptsOf(r, TRUE))
             failed == Cardinality(AttemptsOf(r, FALSE))
             status == DeriveStatus(runs[r].eligible, analyzed, runs[r].reused, failed)
  <2>1. analyzed \in Nat /\ failed \in Nat
    BY AttemptsCounted DEF TypeOK
  <2>2. status \in Statuses
    BY StatusDerived
  <2>3. runs[r] \in Run
    BY <1>1
  <2>4. Settled(r) = [runs[r] EXCEPT !.status = status, !.analyzed = analyzed, !.failed = failed]
    BY DEF Settled
  <2> HIDE DEF analyzed, failed, status
  <2> QED
    BY <2>1, <2>2, <2>3, <2>4 DEF Run
<1>3. runs' = [r \in 1..Len(runs) |->
                  IF runs[r].status = "running" THEN Settled(r) ELSE runs[r]]
  BY <1>1 DEF Reconcile
<1>4. runs' \in [1..Len(runs) -> Run]
  BY <1>1, <1>2, <1>3
<1> QED
  BY <1>1, <1>3, <1>4, FunctionIsSequence

\* start_run appends a well-formed run.
LEMMA StartRunTyped ==
    ASSUME TypeOK, NEW p \in Procs, StartRun(p)
    PROVE  /\ runs' \in Seq(Run)
           /\ Len(runs') = Len(runs) + 1
           /\ \A r \in 1..Len(runs) : runs'[r] = runs[r]
           /\ runs'[Len(runs) + 1].status = "running"
           /\ run' = [run EXCEPT ![p] = Len(runs) + 1]
           /\ run' \in [Procs -> Nat]
<1> DEFINE new == [status |-> "running", eligible |-> Cardinality(selected[p]),
                   analyzed |-> 0, reused |-> Cardinality(reused[p]), failed |-> 0]
<1>1. selected[p] \in SUBSET Tracks /\ reused[p] \in SUBSET Tracks
  BY DEF TypeOK
<1>2. Cardinality(selected[p]) \in Nat /\ Cardinality(reused[p]) \in Nat
  BY <1>1, SelectionCounted
<1>3. new \in Run
  BY <1>2 DEF Run, Statuses
<1>4. runs' = Append(runs, new)
  BY DEF StartRun
<1>5. runs \in Seq(Run) /\ Len(runs) \in Nat
  BY LenProperties DEF TypeOK
<1>6. new.status = "running"
  OBVIOUS
<1> HIDE DEF new
<1>7. run' = [run EXCEPT ![p] = Len(runs) + 1] /\ run' \in [Procs -> Nat]
  BY <1>5 DEF StartRun, TypeOK
<1> QED
  BY <1>3, <1>4, <1>5, <1>6, <1>7, Appended

\* persist_outcome appends a well-formed attempt and keeps the runs well-formed.
LEMMA PersistTyped ==
    ASSUME TypeOK, NEW p \in Procs, NEW outcome \in done[p], Persist(p, outcome)
    PROVE  /\ outcome \in Outcome
           /\ attempts' \in Seq(Attempt)
           /\ Len(attempts') = Len(attempts) + 1
           /\ \A i \in 1..Len(attempts) : attempts'[i] = attempts[i]
           /\ attempts'[Len(attempts) + 1] =
                  [track |-> outcome.track, run |-> run[p], identity |-> identity[p],
                   facts |-> snap[p][outcome.track], content |-> outcome.content,
                   ok |-> outcome.ok]
           /\ runs' \in Seq(Run)
           /\ Len(runs') = Len(runs)
           /\ \A r \in 1..Len(runs) :
                 runs'[r].status = runs[r].status /\ (r # run[p] => runs'[r] = runs[r])
<1> DEFINE new == [track |-> outcome.track, run |-> run[p], identity |-> identity[p],
                   facts |-> snap[p][outcome.track], content |-> outcome.content,
                   ok |-> outcome.ok]
<1>1. outcome \in Outcome
  BY DEF TypeOK
<1>2. new \in Attempt
  BY <1>1 DEF TypeOK, Outcome, Attempt
<1>3. attempts' = Append(attempts, new)
  BY DEF Persist
<1>4. attempts \in Seq(Attempt)
  BY DEF TypeOK
<1>5. runs \in [1..Len(runs) -> Run] /\ Len(runs) \in Nat
  BY LenProperties DEF TypeOK
<1>6. runs' = IF outcome.ok THEN [runs EXCEPT ![run[p]].analyzed = @ + 1]
                            ELSE [runs EXCEPT ![run[p]].failed = @ + 1]
  BY DEF Persist
<1>7. runs' \in [1..Len(runs) -> Run]
  <2>1. \A row \in Run : [row EXCEPT !.analyzed = @ + 1] \in Run
    BY DEF Run
  <2>2. \A row \in Run : [row EXCEPT !.failed = @ + 1] \in Run
    BY DEF Run
  <2>3. CASE outcome.ok
    <3>1. runs' = [r \in 1..Len(runs) |->
                     IF r = run[p] THEN [runs[r] EXCEPT !.analyzed = @ + 1] ELSE runs[r]]
      BY <1>5, <1>6, <2>3
    <3> QED
      BY <1>5, <2>1, <3>1
  <2>4. CASE ~outcome.ok
    <3>1. runs' = [r \in 1..Len(runs) |->
                     IF r = run[p] THEN [runs[r] EXCEPT !.failed = @ + 1] ELSE runs[r]]
      BY <1>5, <1>6, <2>4
    <3> QED
      BY <1>5, <2>2, <3>1
  <2> QED
    BY <2>3, <2>4
<1>8. runs' \in Seq(Run) /\ Len(runs') = Len(runs)
  BY <1>5, <1>7, FunctionIsSequence
<1>9. \A r \in 1..Len(runs) :
          runs'[r].status = runs[r].status /\ (r # run[p] => runs'[r] = runs[r])
  BY <1>5, <1>6 DEF Run
<1> HIDE DEF new
<1>10. /\ attempts' \in Seq(Attempt)
       /\ Len(attempts') = Len(attempts) + 1
       /\ \A i \in 1..Len(attempts) : attempts'[i] = attempts[i]
       /\ attempts'[Len(attempts) + 1] = new
  BY <1>2, <1>3, <1>4, Appended
<1> QED
  BY <1>1, <1>8, <1>9, <1>10 DEF new

\* The same, field by field.
LEMMA PersistRecords ==
    ASSUME TypeOK, NEW p \in Procs, NEW outcome \in done[p], Persist(p, outcome)
    PROVE  /\ outcome.track \in Tracks
           /\ Len(attempts') = Len(attempts) + 1
           /\ \A i \in 1..Len(attempts) : attempts'[i] = attempts[i]
           /\ attempts'[Len(attempts) + 1].track = outcome.track
           /\ attempts'[Len(attempts) + 1].run = run[p]
           /\ attempts'[Len(attempts) + 1].identity = identity[p]
           /\ attempts'[Len(attempts) + 1].facts = snap[p][outcome.track]
           /\ attempts'[Len(attempts) + 1].content = outcome.content
           /\ attempts'[Len(attempts) + 1].ok = outcome.ok
<1> DEFINE new == [track |-> outcome.track, run |-> run[p], identity |-> identity[p],
                   facts |-> snap[p][outcome.track], content |-> outcome.content,
                   ok |-> outcome.ok]
<1>1. outcome \in Outcome /\ Len(attempts') = Len(attempts) + 1
      /\ (\A i \in 1..Len(attempts) : attempts'[i] = attempts[i])
      /\ attempts'[Len(attempts) + 1] = new
  BY PersistTyped
<1>2. /\ new.track = outcome.track /\ new.run = run[p] /\ new.identity = identity[p]
      /\ new.facts = snap[p][outcome.track] /\ new.content = outcome.content
      /\ new.ok = outcome.ok
  OBVIOUS
<1>3. outcome.track \in Tracks
  BY <1>1 DEF Outcome
<1> HIDE DEF new
<1> QED
  BY <1>1, <1>2, <1>3

\* finish_run writes a well-formed run.
LEMMA FinishTyped ==
    ASSUME TypeOK, NEW p \in Procs, Finish(p)
    PROVE  /\ runs' \in Seq(Run)
           /\ Len(runs') = Len(runs)
           /\ \A r \in 1..Len(runs) : r # run[p] => runs'[r] = runs[r]
           /\ run[p] \in 1..Len(runs) => runs'[run[p]].status \in Statuses \ {"running"}
<1> DEFINE row == runs[run[p]]
           status == DeriveStatus(row.eligible, row.analyzed, row.reused, row.failed)
<1>1. runs \in [1..Len(runs) -> Run] /\ Len(runs) \in Nat
  BY LenProperties DEF TypeOK
<1>2. status \in Statuses \ {"running"}
  BY StatusDerived
<1>3. runs' = [runs EXCEPT ![run[p]].status = status]
  BY DEF Finish
<1> HIDE DEF status
<1>4. runs' \in [1..Len(runs) -> Run]
  BY <1>1, <1>2, <1>3 DEF Run, Statuses
<1>5. runs' \in Seq(Run) /\ Len(runs') = Len(runs)
  BY <1>1, <1>4, FunctionIsSequence
<1> QED
  BY <1>1, <1>2, <1>3, <1>5 DEF Run

\* Every action keeps the shape of the state.
LEMMA StepTyped ==
    ASSUME Projected, [Next]_vars
    PROVE  TypeOK'
<1> USE DEF Projected
<1>1. ASSUME NEW p \in Procs, Acquire(p) PROVE TypeOK'
  BY <1>1 DEF TypeOK, Acquire, library, database, request
<1>2. ASSUME NEW p \in Procs, Reconcile(p) PROVE TypeOK'
  BY <1>2, ReconcileTyped DEF TypeOK, Reconcile, library, request
<1>3. ASSUME NEW p \in Procs, Select(p) PROVE TypeOK'
  <2>1. PICK id \in Identities, force \in BOOLEAN :
          \E chosen \in SUBSET (IF force THEN analyzable ELSE Pending(id)) :
            /\ identity' = [identity EXCEPT ![p] = id]
            /\ forced' = [forced EXCEPT ![p] = force]
            /\ selected' = [selected EXCEPT ![p] = chosen]
            /\ snap' = [snap EXCEPT ![p] =
                            [t \in Tracks |-> IF t \in chosen THEN catalog[t] ELSE 0]]
    BY <1>3 DEF Select
  <2>2. PICK chosen \in SUBSET (IF force THEN analyzable ELSE Pending(id)) :
            /\ identity' = [identity EXCEPT ![p] = id]
            /\ forced' = [forced EXCEPT ![p] = force]
            /\ selected' = [selected EXCEPT ![p] = chosen]
            /\ snap' = [snap EXCEPT ![p] =
                            [t \in Tracks |-> IF t \in chosen THEN catalog[t] ELSE 0]]
    BY <2>1
  <2>3. chosen \in SUBSET Tracks
    BY <2>2 DEF TypeOK, Pending
  <2>4. identity' \in [Procs -> Identities] /\ forced' \in [Procs -> BOOLEAN]
        /\ selected' \in [Procs -> SUBSET Tracks]
    BY <2>2, <2>3 DEF TypeOK
  <2>5. [t \in Tracks |-> IF t \in chosen THEN catalog[t] ELSE 0] \in [Tracks -> Versions]
    BY PipelineAssumption DEF TypeOK, Versions
  <2>6. snap' \in [Procs -> [Tracks -> Versions]]
    BY <2>2, <2>5 DEF TypeOK
  <2> QED
    BY <1>3, <2>4, <2>6 DEF TypeOK, Select, library, database
<1>4. ASSUME NEW p \in Procs, ReadReusable(p) PROVE TypeOK'
  BY <1>4 DEF TypeOK, ReadReusable, library, database
<1>5. ASSUME NEW p \in Procs, StartRun(p) PROVE TypeOK'
  BY <1>5, StartRunTyped DEF TypeOK, StartRun, library, request
<1>6. ASSUME NEW p \in Procs, NEW t \in Tracks, Extract(p, t) PROVE TypeOK'
  <2>1. \A ok \in BOOLEAN : [track |-> t, content |-> disk[t], ok |-> ok] \in Outcome
    BY DEF TypeOK, Outcome
  <2>2. done' \in [Procs -> SUBSET Outcome]
    BY <1>6, <2>1 DEF TypeOK, Extract
  <2>3. todo' \in [Procs -> SUBSET Tracks]
    BY <1>6 DEF TypeOK, Extract
  <2> QED
    BY <1>6, <2>2, <2>3 DEF TypeOK, Extract, library, database, request
<1>7. ASSUME NEW p \in Procs, NEW outcome \in done[p], Persist(p, outcome) PROVE TypeOK'
  <2>1. outcome \in Outcome /\ attempts' \in Seq(Attempt) /\ runs' \in Seq(Run)
    BY <1>7, PersistTyped
  <2>2. Len(attempts) \in Nat
    BY LenProperties DEF TypeOK
  <2>3. current' \in [Tracks -> Nat]
    BY <1>7, <2>1, <2>2 DEF TypeOK, Persist, Advance, Outcome
  <2>4. done' \in [Procs -> SUBSET Outcome]
    BY <1>7 DEF TypeOK, Persist
  <2> QED
    BY <1>7, <2>1, <2>3, <2>4 DEF TypeOK, Persist, library, request
<1>8. ASSUME NEW p \in Procs, Finish(p) PROVE TypeOK'
  BY <1>8, FinishTyped DEF TypeOK, Finish, library, request
<1>9. ASSUME NEW p \in Procs, Release(p) \/ Abort(p) PROVE TypeOK'
  <2>1. Forget(p) /\ (aborts' = aborts \/ aborts' = aborts + 1)
    BY <1>9 DEF Release, Abort
  <2>2. [t \in Tracks |-> 0] \in [Tracks -> Versions]
    BY PipelineAssumption DEF Versions
  <2>3. snap' \in [Procs -> [Tracks -> Versions]]
    BY <2>1, <2>2 DEF TypeOK, Forget
  <2> QED
    BY <2>1, <2>3 DEF TypeOK, Forget, library, database
<1>10. ASSUME Rebuild PROVE TypeOK'
  BY <1>10, RebuildChangesNothing DEF TypeOK, vars, library, database, request
<1>11. ASSUME NEW t \in Tracks, EditFile(t) PROVE TypeOK'
  BY <1>11, PipelineAssumption DEF TypeOK, EditFile, Versions, database, request
<1>12. ASSUME NEW t \in Tracks, Rescan(t) PROVE TypeOK'
  BY <1>12 DEF TypeOK, Rescan, database, request
<1>13. ASSUME NEW t \in Tracks, Reconfigure(t) PROVE TypeOK'
  BY <1>13 DEF TypeOK, Reconfigure, database, request
<1>14. CASE UNCHANGED vars
  BY <1>14 DEF TypeOK, vars, library, database, request
<1> QED
  BY <1>1, <1>2, <1>3, <1>4, <1>5, <1>6, <1>7, <1>8, <1>9, <1>10, <1>11, <1>12, <1>13, <1>14
  DEF Next, Step, Environment

\* Only persist_outcome touches the history and its projection.
LEMMA OnlyPersistRecords ==
    ASSUME Projected, [Next]_vars
    PROVE  \/ UNCHANGED <<attempts, current>>
           \/ \E p \in Procs : \E outcome \in done[p] : Persist(p, outcome)
<1>1. CASE UNCHANGED vars
  BY <1>1 DEF vars, database
<1>2. CASE Rebuild
  BY <1>2, RebuildChangesNothing DEF vars, database
<1>3. CASE \E t \in Tracks : EditFile(t) \/ Rescan(t) \/ Reconfigure(t)
  BY <1>3 DEF EditFile, Rescan, Reconfigure, database
<1>4. ASSUME NEW p \in Procs, Acquire(p) \/ Step(p) \/ Abort(p)
      PROVE  \/ UNCHANGED <<attempts, current>>
             \/ \E outcome \in done[p] : Persist(p, outcome)
  BY <1>4 DEF Acquire, Step, Abort, Reconcile, Select, ReadReusable, StartRun, Extract, Finish,
              Release, Forget, database
<1> QED
  BY <1>1, <1>2, <1>3, <1>4 DEF Next, Environment

\* Every step keeps the projection on the newest success.
LEMMA StepProjects ==
    ASSUME Projected, [Next]_vars
    PROVE  ProjectionIsLatestSuccess'
<1>1. CASE UNCHANGED <<attempts, current>>
  BY <1>1 DEF Projected, ProjectionIsLatestSuccess, IsLatestSuccess
<1>2. ASSUME NEW p \in Procs, NEW outcome \in done[p], Persist(p, outcome)
      PROVE  ProjectionIsLatestSuccess'
  <2> DEFINE n == Len(attempts)
  <2>1. n \in Nat /\ current \in [Tracks -> Nat]
    BY LenProperties DEF Projected, TypeOK
  <2>2. /\ Len(attempts') = n + 1
        /\ \A i \in 1..n : attempts'[i] = attempts[i]
        /\ (attempts'[n + 1].ok <=> outcome.ok)
        /\ attempts'[n + 1].track = outcome.track
        /\ outcome.track \in Tracks
    BY <1>2, PersistRecords DEF Projected
  <2>3. current' = IF outcome.ok
                   THEN [current EXCEPT ![outcome.track] =
                            IF n + 1 > @ THEN n + 1 ELSE @]
                   ELSE current
    BY <1>2 DEF Persist, Advance
  <2> SUFFICES ASSUME NEW t \in Tracks PROVE IsLatestSuccess(t, current[t])'
    BY DEF ProjectionIsLatestSuccess
  <2>4. IsLatestSuccess(t, current[t]) /\ current[t] \in 0..n
    BY <2>1 DEF Projected, ProjectionIsLatestSuccess, IsLatestSuccess
  <2> HIDE DEF n
  <2>5. CASE outcome.ok /\ t = outcome.track
    <3>1. current'[t] = n + 1
      BY <2>1, <2>3, <2>4, <2>5
    <3> QED
      BY <2>1, <2>2, <2>5, <3>1 DEF IsLatestSuccess, n
  <2>6. CASE ~(outcome.ok /\ t = outcome.track)
    <3>1. current'[t] = current[t]
      BY <2>1, <2>3, <2>6
    <3> QED
      BY <2>1, <2>2, <2>4, <2>6, <3>1 DEF IsLatestSuccess, n
  <2> QED
    BY <2>5, <2>6
<1> QED
  BY <1>1, <1>2, OnlyPersistRecords

\* Shape and projection hold in every reachable state.
LEMMA ProjectedInvariant == Spec => []Projected
<1>1. Init => Projected
  BY InitProjected
<1>2. Projected /\ [Next]_vars => Projected'
  BY StepTyped, StepProjects DEF Projected
<1> QED
  BY <1>1, <1>2, PTL DEF Spec

\* Every row and every process keeps its shape.
THEOREM TypeCorrect == Spec => []TypeOK
  BY ProjectedInvariant, PTL DEF Projected

\* The projection a reader sees is the newest successful attempt of each track,
\* whatever pipelines, failures, crashes and rebuilds interleave.
THEOREM ProjectionCorrect == Spec => []ProjectionIsLatestSuccess
  BY ProjectedInvariant, PTL DEF Projected

-----------------------------------------------------------------------------
(* The advisory lock makes the running run belong to one living command.     *)

Unfinished(r) == r \in 1..Len(runs) /\ runs[r].status = "running"

LockHeld == \A p \in Procs : pc[p] # "idle" => lock = p

NoneRunning ==
    \A p \in Procs : pc[p] \in {"select", "reuse", "start", "release"} =>
        \A r \in 1..Len(runs) : ~Unfinished(r)

OnlyOwnRuns ==
    \A p \in Procs : pc[p] = "extract" =>
        Unfinished(run[p]) /\ \A r \in 1..Len(runs) : Unfinished(r) => r = run[p]

Owned == LockHeld /\ NoneRunning /\ OnlyOwnRuns /\ AtMostOneRunning

\* No command owns anything at first.
LEMMA InitOwned == Init => Owned
<1> SUFFICES ASSUME Init PROVE Owned
  OBVIOUS
<1>1. Len(runs) = 0
  BY EmptySeq DEF Init
<1> QED
  BY <1>1 DEF Init, Owned, LockHeld, NoneRunning, OnlyOwnRuns, AtMostOneRunning

\* A step of the holder disturbs nobody else.
LEMMA HolderIsAlone ==
    ASSUME Owned, NEW p \in Procs, NEW q \in Procs, pc[p] # "idle", q # p
    PROVE  pc[q] = "idle"
  BY DEF Owned, LockHeld

\* Every step keeps the lock, the running run and their owner together.
LEMMA StepOwned ==
    ASSUME Projected, Owned, [Next]_vars
    PROVE  Owned'
<1> USE DEF Owned, LockHeld, NoneRunning, OnlyOwnRuns, AtMostOneRunning, Unfinished
<1>0. Len(runs) \in Nat /\ DOMAIN pc = Procs /\ run \in [Procs -> Nat]
  BY LenProperties DEF Projected, TypeOK
<1>1. ASSUME NEW p \in Procs, Acquire(p) PROVE Owned'
  <2>1. \A q \in Procs : pc[q] = "idle"
    BY <1>1, PipelineAssumption DEF Acquire
  <2> QED
    BY <1>0, <1>1, <2>1 DEF Acquire, database, request
<1>2. ASSUME NEW p \in Procs, Reconcile(p) PROVE Owned'
  <2>1. Len(runs') = Len(runs)
    BY <1>2, ReconcileTyped DEF Projected
  <2>2. \A r \in 1..Len(runs) :
            runs'[r] = IF runs[r].status = "running" THEN Settled(r) ELSE runs[r]
    BY <1>2, ReconcileTyped DEF Projected
  <2>3. ASSUME NEW r \in 1..Len(runs) PROVE runs'[r].status # "running"
    <3>1. runs[r] \in Run
      BY LenProperties DEF Projected, TypeOK
    <3>2. Settled(r).status \in Statuses \ {"running"}
      BY <3>1, StatusDerived DEF Settled, Run
    <3> QED
      BY <2>2, <3>2
  <2>4. \A q \in Procs : q # p => pc[q] = "idle"
    BY <1>2, HolderIsAlone DEF Reconcile
  <2> QED
    BY <1>0, <1>2, <2>1, <2>3, <2>4 DEF Reconcile
<1>3. ASSUME NEW p \in Procs, Select(p) \/ ReadReusable(p) PROVE Owned'
  <2>1. \A q \in Procs : q # p => pc[q] = "idle"
    BY <1>3, HolderIsAlone DEF Select, ReadReusable
  <2> QED
    BY <1>0, <1>3, <2>1 DEF Select, ReadReusable, database
<1>4. ASSUME NEW p \in Procs, StartRun(p) PROVE Owned'
  <2>1. /\ Len(runs') = Len(runs) + 1
        /\ \A r \in 1..Len(runs) : runs'[r] = runs[r]
        /\ runs'[Len(runs) + 1].status = "running"
        /\ run'[p] = Len(runs) + 1
    BY <1>0, <1>4, StartRunTyped DEF Projected
  <2>2. \A q \in Procs : q # p => pc[q] = "idle"
    BY <1>4, HolderIsAlone DEF StartRun
  <2>3. \A r \in 1..Len(runs) : runs[r].status # "running"
    BY <1>4 DEF StartRun
  <2>4. pc' = [pc EXCEPT ![p] = "extract"] /\ lock' = lock
    BY <1>4 DEF StartRun
  <2>5. \A r \in 1..Len(runs') : runs'[r].status = "running" => r = Len(runs) + 1
    BY <1>0, <2>1, <2>3
  <2> HIDE DEF Unfinished
  <2>6. LockHeld' /\ NoneRunning'
    BY <1>0, <1>4, <2>2, <2>4 DEF StartRun
  <2>7. OnlyOwnRuns'
    BY <1>0, <2>1, <2>2, <2>4, <2>5 DEF Unfinished
  <2>8. AtMostOneRunning'
    BY <2>5
  <2> QED
    BY <2>6, <2>7, <2>8
<1>5. ASSUME NEW p \in Procs, NEW t \in Tracks, Extract(p, t) PROVE Owned'
  BY <1>5 DEF Extract, database, request
<1>6. ASSUME NEW p \in Procs, NEW outcome \in done[p], Persist(p, outcome) PROVE Owned'
  <2>1. /\ Len(runs') = Len(runs)
        /\ \A r \in 1..Len(runs) : runs'[r].status = runs[r].status
    BY <1>6, PersistTyped DEF Projected
  <2> QED
    BY <1>6, <2>1 DEF Persist
<1>7. ASSUME NEW p \in Procs, Finish(p) PROVE Owned'
  <2>1. pc[p] = "extract" /\ pc' = [pc EXCEPT ![p] = "release"] /\ lock' = lock /\ run' = run
    BY <1>7 DEF Finish
  <2>2. Len(runs') = Len(runs)
        /\ (\A r \in 1..Len(runs) : r # run[p] => runs'[r] = runs[r])
        /\ runs'[run[p]].status # "running"
    BY <1>7, <2>1, FinishTyped DEF Projected
  <2>3. \A r \in 1..Len(runs) : runs'[r].status # "running"
    BY <2>1, <2>2
  <2>4. \A q \in Procs : q # p => pc[q] = "idle"
    BY <2>1, HolderIsAlone
  <2> QED
    BY <1>0, <2>1, <2>2, <2>3, <2>4
<1>8. ASSUME NEW p \in Procs, Release(p) \/ Abort(p) PROVE Owned'
  <2>1. Forget(p) /\ pc[p] # "idle"
    BY <1>8 DEF Release, Abort
  <2>2. \A q \in Procs : q # p => pc[q] = "idle"
    BY <2>1, HolderIsAlone
  <2>3. \A q \in Procs : pc'[q] = "idle"
    BY <1>0, <2>1, <2>2 DEF Forget
  <2>4. runs' = runs
    BY <2>1 DEF Forget, database
  <2> QED
    BY <2>3, <2>4
<1>9. CASE Rebuild \/ UNCHANGED vars
  <2>1. UNCHANGED vars
    BY <1>9, RebuildChangesNothing
  <2> QED
    BY <2>1 DEF vars, database
<1>10. ASSUME NEW t \in Tracks, EditFile(t) \/ Rescan(t) \/ Reconfigure(t) PROVE Owned'
  BY <1>10 DEF EditFile, Rescan, Reconfigure, database
<1> QED
  BY <1>1, <1>2, <1>3, <1>4, <1>5, <1>6, <1>7, <1>8, <1>9, <1>10 DEF Next, Step, Environment

\* Ownership holds in every reachable state.
LEMMA OwnedInvariant == Spec => [](Projected /\ Owned)
<1>1. Init => Projected /\ Owned
  BY InitProjected, InitOwned
<1>2. Projected /\ Owned /\ [Next]_vars => (Projected /\ Owned)'
  BY StepTyped, StepProjects, StepOwned DEF Projected
<1> QED
  BY <1>1, <1>2, PTL DEF Spec

\* Nobody settles the run of a command that is still extracting.
THEOREM OwnerKeepsItsRun == Spec => []OwnedRunStaysRunning
<1>1. Owned => OwnedRunStaysRunning
  BY DEF Owned, OnlyOwnRuns, Unfinished, OwnedRunStaysRunning
<1> QED
  BY <1>1, OwnedInvariant, PTL

\* However often commands are killed, at most one run is ever left running.
THEOREM SingleRunningRun == Spec => []AtMostOneRunning
<1>1. Owned => AtMostOneRunning
  BY DEF Owned
<1> QED
  BY <1>1, OwnedInvariant, PTL

-----------------------------------------------------------------------------
(* Facts and content.  A version only grows, and everything a command holds  *)
(* was read in the order facts, content, now.                                *)

CatalogIsBehind == \A t \in Tracks : catalog[t] <= disk[t]
SnapIsBehind    == \A p \in Procs : \A t \in Tracks : snap[p][t] <= disk[t]
OutcomesBetween ==
    \A p \in Procs : \A outcome \in done[p] :
        /\ pc[p] = "extract"
        /\ snap[p][outcome.track] <= outcome.content
        /\ outcome.content <= disk[outcome.track]
AttemptsBetween ==
    \A i \in 1..Len(attempts) :
        /\ attempts[i].facts <= attempts[i].content
        /\ attempts[i].content <= disk[attempts[i].track]

Fresh == CatalogIsBehind /\ SnapIsBehind /\ OutcomesBetween /\ AttemptsBetween

\* Nothing has been read before the first step.
LEMMA InitFresh == Init => Fresh
<1> SUFFICES ASSUME Init PROVE Fresh
  OBVIOUS
<1>1. Len(attempts) = 0
  BY EmptySeq DEF Init
<1> QED
  BY <1>1 DEF Init, Fresh, CatalogIsBehind, SnapIsBehind, OutcomesBetween, AttemptsBetween

\* While the facts a command holds and the history stay, a larger disk is fine.
LEMMA FreshKept ==
    ASSUME Projected, Fresh,
           UNCHANGED <<attempts, snap>>,
           \A t \in Tracks : disk'[t] \in Int /\ disk[t] <= disk'[t],
           \A t \in Tracks : catalog'[t] <= disk'[t],
           \A p \in Procs : done'[p] \subseteq done[p] /\ (done'[p] # {} => pc'[p] = pc[p])
    PROVE  Fresh'
<1> USE DEF Projected, TypeOK, Fresh, Versions
<1>0. Versions \subseteq Int /\ \A t \in Tracks : disk[t] \in Int
  BY PipelineAssumption
<1>1. CatalogIsBehind'
  BY DEF CatalogIsBehind
<1>2. SnapIsBehind'
  BY PipelineAssumption DEF SnapIsBehind
<1>3. OutcomesBetween'
  <2> SUFFICES ASSUME NEW p \in Procs, NEW outcome \in done'[p]
               PROVE  /\ pc'[p] = "extract"
                      /\ snap'[p][outcome.track] <= outcome.content
                      /\ outcome.content <= disk'[outcome.track]
    BY DEF OutcomesBetween
  <2>1. outcome \in done[p] /\ pc'[p] = pc[p]
    OBVIOUS
  <2>2. outcome.track \in Tracks /\ outcome.content \in Int /\ disk[outcome.track] \in Int
    BY <2>1, PipelineAssumption DEF Outcome
  <2> QED
    BY <2>1, <2>2 DEF OutcomesBetween
<1>4. AttemptsBetween'
  <2> SUFFICES ASSUME NEW i \in 1..Len(attempts)
               PROVE  /\ attempts[i].facts <= attempts[i].content
                      /\ attempts[i].content <= disk'[attempts[i].track]
    BY DEF AttemptsBetween
  <2>1. attempts[i] \in Attempt
    BY ElementOfSeq
  <2> HIDE DEF Projected, TypeOK, Fresh, Versions
  <2>2. attempts[i].track \in Tracks /\ attempts[i].facts \in Int /\ attempts[i].content \in Int
    BY <2>1, <1>0 DEF Attempt
  <2>3. attempts[i].facts <= attempts[i].content
        /\ attempts[i].content <= disk[attempts[i].track]
    BY DEF Fresh, AttemptsBetween
  <2>4. /\ disk[attempts[i].track] \in Int /\ disk'[attempts[i].track] \in Int
        /\ disk[attempts[i].track] <= disk'[attempts[i].track]
    BY <1>0, <2>2
  <2> QED
    BY <2>2, <2>3, <2>4
<1> QED
  BY <1>1, <1>2, <1>3, <1>4

\* Every step keeps what was read between the facts held and the file now.
LEMMA StepFresh ==
    ASSUME Projected, Fresh, [Next]_vars
    PROVE  Fresh'
<1>0. /\ \A t \in Tracks : disk[t] \in Int /\ catalog[t] \in Int /\ catalog[t] <= disk[t]
      /\ DOMAIN disk = Tracks /\ DOMAIN catalog = Tracks /\ DOMAIN pc = Procs
      /\ DOMAIN snap = Procs /\ DOMAIN done = Procs
      /\ \A p \in Procs : snap[p] \in [Tracks -> Int]
  BY PipelineAssumption DEF Projected, TypeOK, Versions, Fresh, CatalogIsBehind
<1>1. ASSUME NEW p \in Procs,
             Acquire(p) \/ Reconcile(p) \/ ReadReusable(p) \/ StartRun(p) \/ Finish(p)
      PROVE  Fresh'
  <2>1. UNCHANGED <<disk, catalog, attempts, snap, done>>
    BY <1>1 DEF Acquire, Reconcile, ReadReusable, StartRun, Finish, library, database, request
  <2>2. \A q \in Procs : done[q] # {} => pc'[q] = pc[q]
    <3>1. \A q \in Procs : done[q] # {} => pc[q] = "extract"
      BY DEF Fresh, OutcomesBetween
    <3> QED
      BY <1>0, <1>1, <3>1 DEF Acquire, Reconcile, ReadReusable, StartRun, Finish
  <2> QED
    BY <1>0, <2>1, <2>2, FreshKept
<1>2. ASSUME NEW p \in Procs, Select(p) PROVE Fresh'
  <2>1. PICK chosen :
            snap' = [snap EXCEPT ![p] =
                        [t \in Tracks |-> IF t \in chosen THEN catalog[t] ELSE 0]]
    BY <1>2 DEF Select
  <2>2. UNCHANGED <<disk, catalog, attempts, done>> /\ pc[p] = "select"
        /\ pc' = [pc EXCEPT ![p] = "reuse"]
    BY <1>2 DEF Select, library, database
  <2>3. CatalogIsBehind' /\ AttemptsBetween'
    BY <2>2 DEF Fresh, CatalogIsBehind, AttemptsBetween
  <2>4. \A t \in Tracks : 0 <= disk[t]
    BY PipelineAssumption DEF Projected, TypeOK, Versions
  <2>5. SnapIsBehind'
    BY <1>0, <2>1, <2>2, <2>4 DEF Fresh, SnapIsBehind
  <2>6. OutcomesBetween'
    BY <1>0, <2>1, <2>2 DEF Fresh, OutcomesBetween
  <2> QED
    BY <2>3, <2>5, <2>6 DEF Fresh
<1>3. ASSUME NEW p \in Procs, NEW t \in Tracks, Extract(p, t) PROVE Fresh'
  <2>1. UNCHANGED <<disk, catalog, attempts, snap, pc>> /\ pc[p] = "extract"
    BY <1>3 DEF Extract, library, database, request
  <2>2. PICK ok \in BOOLEAN :
            done' = [done EXCEPT ![p] = @ \cup {[track |-> t, content |-> disk[t], ok |-> ok]}]
    BY <1>3 DEF Extract
  <2>3. OutcomesBetween'
    <3> SUFFICES ASSUME NEW q \in Procs, NEW outcome \in done'[q]
                 PROVE  /\ pc[q] = "extract"
                        /\ snap[q][outcome.track] <= outcome.content
                        /\ outcome.content <= disk[outcome.track]
      BY <2>1 DEF OutcomesBetween
    <3>1. CASE outcome \in done[q]
      BY <3>1 DEF Fresh, OutcomesBetween
    <3>2. CASE outcome \notin done[q]
      <4>1. q = p /\ outcome.track = t /\ outcome.content = disk[t]
        BY <1>0, <2>2, <3>2
      <4> QED
        BY <1>0, <2>1, <4>1 DEF Fresh, SnapIsBehind
    <3> QED
      BY <3>1, <3>2
  <2> QED
    BY <2>1, <2>3 DEF Fresh, CatalogIsBehind, SnapIsBehind, AttemptsBetween
<1>4. ASSUME NEW p \in Procs, NEW outcome \in done[p], Persist(p, outcome) PROVE Fresh'
  <2> DEFINE n == Len(attempts)
  <2>1. UNCHANGED <<disk, catalog, snap, pc>> /\ done' = [done EXCEPT ![p] = @ \ {outcome}]
    BY <1>4 DEF Persist, library, request
  <2>2. /\ Len(attempts') = n + 1
        /\ \A i \in 1..n : attempts'[i] = attempts[i]
        /\ attempts'[n + 1].track = outcome.track
        /\ attempts'[n + 1].facts = snap[p][outcome.track]
        /\ attempts'[n + 1].content = outcome.content
    BY <1>4, PersistRecords DEF Projected
  <2>3. n \in Nat
    BY LenProperties DEF Projected, TypeOK
  <2>4. /\ snap[p][outcome.track] <= outcome.content
        /\ outcome.content <= disk[outcome.track]
    BY DEF Fresh, OutcomesBetween
  <2>5. AttemptsBetween'
    <3> SUFFICES ASSUME NEW i \in 1..(n + 1)
                 PROVE  /\ attempts'[i].facts <= attempts'[i].content
                        /\ attempts'[i].content <= disk[attempts'[i].track]
      BY <2>1, <2>2 DEF AttemptsBetween
    <3>1. CASE i \in 1..n
      BY <2>2, <3>1 DEF Fresh, AttemptsBetween
    <3>2. CASE i = n + 1
      BY <2>2, <2>4, <3>2
    <3> QED
      BY <2>3, <3>1, <3>2
  <2>6. OutcomesBetween'
    BY <1>0, <2>1 DEF Fresh, OutcomesBetween
  <2> QED
    BY <2>1, <2>5, <2>6 DEF Fresh, CatalogIsBehind, SnapIsBehind
<1>5. ASSUME NEW p \in Procs, Release(p) \/ Abort(p) PROVE Fresh'
  <2>1. Forget(p)
    BY <1>5 DEF Release, Abort
  <2>2. UNCHANGED <<disk, catalog, attempts>>
        /\ snap' = [snap EXCEPT ![p] = [t \in Tracks |-> 0]]
        /\ done' = [done EXCEPT ![p] = {}] /\ pc' = [pc EXCEPT ![p] = "idle"]
    BY <2>1 DEF Forget, library, database
  <2>3. \A t \in Tracks : 0 <= disk[t]
    BY PipelineAssumption DEF Projected, TypeOK, Versions
  <2>4. SnapIsBehind'
    BY <1>0, <2>2, <2>3 DEF Fresh, SnapIsBehind
  <2>5. OutcomesBetween'
    BY <1>0, <2>2 DEF Fresh, OutcomesBetween
  <2> QED
    BY <2>2, <2>4, <2>5 DEF Fresh, CatalogIsBehind, AttemptsBetween
<1>6. CASE Rebuild \/ UNCHANGED vars
  <2>1. UNCHANGED <<disk, catalog, attempts, snap, done, pc>>
    BY <1>6, RebuildChangesNothing DEF vars, library, database, request
  <2> QED
    BY <1>0, <2>1, FreshKept
<1>7. ASSUME NEW t \in Tracks, EditFile(t) PROVE Fresh'
  <2>1. UNCHANGED <<catalog, attempts, snap, done, pc>> /\ disk' = [disk EXCEPT ![t] = @ + 1]
    BY <1>7 DEF EditFile, database, request
  <2> QED
    BY <1>0, <2>1, FreshKept
<1>8. ASSUME NEW t \in Tracks, Rescan(t) PROVE Fresh'
  <2>1. UNCHANGED <<disk, attempts, snap, done, pc>>
        /\ \E version \in Versions :
              version <= disk[t] /\ catalog' = [catalog EXCEPT ![t] = version]
    BY <1>8 DEF Rescan, database, request
  <2> QED
    BY <1>0, <2>1, FreshKept
<1>9. ASSUME NEW t \in Tracks, Reconfigure(t) PROVE Fresh'
  <2>1. UNCHANGED <<disk, catalog, attempts, snap, done, pc>>
    BY <1>9 DEF Reconfigure, database, request
  <2> QED
    BY <1>0, <2>1, FreshKept
<1> QED
  BY <1>1, <1>2, <1>3, <1>4, <1>5, <1>6, <1>7, <1>8, <1>9 DEF Next, Step, Environment

\* A reusable attempt for the file as it is now was computed from that file,
\* although a worker reads it long after the facts and under no lock.
THEOREM ReuseIsSound == Spec => []ReusableIsFresh
<1>1. Projected /\ Fresh => ReusableIsFresh
  <2> SUFFICES ASSUME Projected, Fresh, NEW i \in 1..Len(attempts),
                      attempts[i].facts = disk[attempts[i].track]
               PROVE  attempts[i].content = attempts[i].facts
    BY DEF ReusableIsFresh
  <2>1. attempts[i] \in Attempt
    BY ElementOfSeq DEF Projected, TypeOK
  <2>2. attempts[i].facts \in Int /\ attempts[i].content \in Int
    BY <2>1, PipelineAssumption DEF Attempt, Versions
  <2> QED
    BY <2>2 DEF Fresh, AttemptsBetween
<1>2. Init => Projected /\ Fresh
  BY InitProjected, InitFresh
<1>3. Projected /\ Fresh /\ [Next]_vars => (Projected /\ Fresh)'
  BY StepTyped, StepProjects, StepFresh DEF Projected
<1> QED
  BY <1>1, <1>2, <1>3, PTL DEF Spec

-----------------------------------------------------------------------------
(* The history grows at its end and settled runs are final.                  *)

\* No step rewrites an attempt or a settled run.
LEMMA StepAppends ==
    ASSUME Projected, Owned, [Next]_vars
    PROVE  /\ Len(attempts) <= Len(attempts')
           /\ \A i \in 1..Len(attempts) : attempts'[i] = attempts[i]
           /\ Len(runs) <= Len(runs')
           /\ \A r \in 1..Len(runs) : runs[r].status # "running" => runs'[r] = runs[r]
<1>0. Len(attempts) \in Nat /\ Len(runs) \in Nat
  BY LenProperties DEF Projected, TypeOK
<1>1. Len(attempts) <= Len(attempts') /\ \A i \in 1..Len(attempts) : attempts'[i] = attempts[i]
  <2>1. CASE UNCHANGED <<attempts, current>>
    BY <1>0, <2>1
  <2>2. ASSUME NEW p \in Procs, NEW outcome \in done[p], Persist(p, outcome)
        PROVE  /\ Len(attempts) <= Len(attempts')
               /\ \A i \in 1..Len(attempts) : attempts'[i] = attempts[i]
    <3>1. /\ Len(attempts') = Len(attempts) + 1
          /\ \A i \in 1..Len(attempts) : attempts'[i] = attempts[i]
      BY <2>2, PersistTyped DEF Projected
    <3> QED
      BY <1>0, <3>1
  <2> QED
    BY <2>1, <2>2, OnlyPersistRecords
<1>2. Len(runs) <= Len(runs')
      /\ \A r \in 1..Len(runs) : runs[r].status # "running" => runs'[r] = runs[r]
  <2> DEFINE Kept == /\ Len(runs) <= Len(runs')
                     /\ \A r \in 1..Len(runs) : runs[r].status # "running" => runs'[r] = runs[r]
  <2>1. CASE UNCHANGED runs
    BY <1>0, <2>1
  <2>2. ASSUME NEW p \in Procs, Reconcile(p) PROVE Kept
    BY <1>0, <2>2, ReconcileTyped DEF Projected
  <2>3. ASSUME NEW p \in Procs, StartRun(p) PROVE Kept
    BY <1>0, <2>3, StartRunTyped DEF Projected
  <2>4. ASSUME NEW p \in Procs, NEW outcome \in done[p], Persist(p, outcome) PROVE Kept
    <3>1. runs[run[p]].status = "running"
      BY <2>4 DEF Owned, OnlyOwnRuns, Unfinished, Persist
    <3>2. /\ Len(runs') = Len(runs)
          /\ \A r \in 1..Len(runs) : r # run[p] => runs'[r] = runs[r]
      BY <2>4, PersistTyped DEF Projected
    <3> QED
      BY <1>0, <3>1, <3>2
  <2>5. ASSUME NEW p \in Procs, Finish(p) PROVE Kept
    <3>1. runs[run[p]].status = "running"
      BY <2>5 DEF Owned, OnlyOwnRuns, Unfinished, Finish
    <3> QED
      BY <1>0, <2>5, <3>1, FinishTyped DEF Projected
  <2>6. ASSUME NEW p \in Procs,
               \/ Acquire(p) \/ Select(p) \/ ReadReusable(p) \/ Release(p) \/ Abort(p)
               \/ \E t \in Tracks : Extract(p, t)
        PROVE  UNCHANGED runs
    BY <2>6 DEF Acquire, Select, ReadReusable, Release, Abort, Forget, Extract, database
  <2>7. CASE Environment \/ UNCHANGED vars
    BY <2>1, <2>7 DEF Environment, Rebuild, EditFile, Rescan, Reconfigure, vars, database
  <2> QED
    BY <2>1, <2>2, <2>3, <2>4, <2>5, <2>6, <2>7 DEF Next, Step
<1> QED
  BY <1>1, <1>2

\* Attempts are never rewritten, and a settled run never changes again.
THEOREM AppendOnly == Spec => HistoryIsAppendOnly
<1>1. Projected /\ Owned /\ [Next]_vars =>
        [/\ Len(attempts) <= Len(attempts')
         /\ \A i \in 1..Len(attempts) : attempts'[i] = attempts[i]
         /\ \A r \in 1..Len(runs) : runs[r].status # "running" => runs'[r] = runs[r]]_vars
  BY StepAppends
<1> QED
  BY <1>1, OwnedInvariant, PTL DEF Spec, HistoryIsAppendOnly

-----------------------------------------------------------------------------
(* Refinement: what a reader of the catalog sees is an AnalysisHistory.      *)

\* The statuses of the runs are a sequence as long as the runs.
LEMMA StatusSequence ==
    ASSUME NEW rows \in Seq(Run), NEW column,
           column = [r \in 1..Len(rows) |-> rows[r].status]
    PROVE  /\ column \in Seq(Statuses) /\ Len(column) = Len(rows)
           /\ Len(rows) \in Nat
           /\ \A r \in 1..Len(rows) : column[r] = rows[r].status
<1>1. rows \in [1..Len(rows) -> Run] /\ Len(rows) \in Nat
  BY LenProperties
<1>2. column \in [1..Len(rows) -> Statuses]
  BY <1>1 DEF Run
<1> QED
  BY <1>1, <1>2, FunctionIsSequence

\* The pipeline starts with an empty history.
LEMMA InitRefines == Init => History!Init
<1> SUFFICES ASSUME Init PROVE History!Init
  OBVIOUS
<1>1. Len(runs) = 0
  BY EmptySeq DEF Init
<1>2. runStatus = << >>
  <2>1. runStatus \in [1..0 -> Statuses]
    BY <1>1 DEF runStatus
  <2>2. runStatus \in Seq(Statuses) /\ Len(runStatus) = 0
    BY <2>1, FunctionIsSequence
  <2> QED
    BY <2>2, EmptySeq
<1> QED
  BY <1>2 DEF Init, History!Init, runStatus

\* Every step of the pipeline is a step of the history or a stutter.
LEMMA StepRefines ==
    ASSUME Projected, Owned, Projected', Owned', [Next]_vars
    PROVE  [History!Next]_(History!history)
<1> USE DEF History!history
<1>0. /\ Len(runStatus) = Len(runs) /\ Len(runs) \in Nat
      /\ \A r \in 1..Len(runs) : runStatus[r] = runs[r].status
      /\ runStatus \in Seq(Statuses)
  BY StatusSequence DEF Projected, TypeOK, runStatus
<1>1. /\ Len(runStatus)' = Len(runs)' /\ Len(runs)' \in Nat
      /\ \A r \in 1..Len(runs') : runStatus'[r] = runs'[r].status
      /\ runStatus' \in Seq(Statuses)
  <2>1. runs' \in Seq(Run)
    BY DEF Projected, TypeOK
  <2> QED
    BY <2>1, StatusSequence DEF runStatus
<1>2. CASE UNCHANGED <<runs, attempts, current>>
  BY <1>2 DEF runStatus
<1>3. ASSUME NEW p \in Procs, Reconcile(p) PROVE [History!Next]_(History!history)
  <2>1. UNCHANGED <<attempts, current>>
    BY <1>3 DEF Reconcile
  <2>2. /\ Len(runs') = Len(runs)
        /\ \A r \in 1..Len(runs) :
              runs'[r] = IF runs[r].status = "running" THEN Settled(r) ELSE runs[r]
    BY <1>3, ReconcileTyped DEF Projected
  <2>3. CASE \E r \in 1..Len(runs) : runs[r].status = "running"
    <3>1. PICK r \in 1..Len(runs) : runs[r].status = "running"
      BY <2>3
    <3>2. \A q \in 1..Len(runs) : q # r => runs'[q] = runs[q]
      BY <2>2, <3>1 DEF Owned, AtMostOneRunning
    <3>3. runs'[r].status \in Statuses \ {"running"}
      <4>1. runs[r] \in Run
        BY ElementOfSeq DEF Projected, TypeOK
      <4>2. Settled(r).status \in Statuses \ {"running"}
        BY <4>1, StatusDerived DEF Settled, Run
      <4> QED
        BY <2>2, <3>1, <4>2
    <3>4. runStatus' = [runStatus EXCEPT ![r] = runs'[r].status]
      <4> DEFINE target == [runStatus EXCEPT ![r] = runs'[r].status]
      <4>1. target \in Seq(Statuses) /\ Len(target) = Len(runStatus)
            /\ \A q \in 1..Len(runStatus) :
                  target[q] = IF q = r THEN runs'[r].status ELSE runStatus[q]
        BY <1>0, <3>3, ExceptSeq
      <4> HIDE DEF target
      <4>2. \A q \in 1..Len(runStatus') : runStatus'[q] = target[q]
        BY <1>0, <1>1, <2>2, <3>2, <4>1
      <4> QED
        BY <1>0, <1>1, <2>2, <4>1, <4>2, SeqEqual DEF target
    <3>5. History!Settle
      BY <1>0, <2>1, <3>1, <3>3, <3>4 DEF History!Settle, History!Active, Statuses
    <3> QED
      BY <3>5 DEF History!Next
  <2>4. CASE ~\E r \in 1..Len(runs) : runs[r].status = "running"
    <3>1. \A r \in 1..Len(runStatus) : runStatus'[r] = runStatus[r]
      BY <1>0, <1>1, <2>2, <2>4
    <3>2. runStatus' = runStatus
      BY <1>0, <1>1, <2>2, <3>1, SeqEqual
    <3> QED
      BY <2>1, <3>2
  <2> QED
    BY <2>3, <2>4
<1>4. ASSUME NEW p \in Procs, StartRun(p) PROVE [History!Next]_(History!history)
  <2>1. UNCHANGED <<attempts, current>>
    BY <1>4 DEF StartRun
  <2>2. /\ Len(runs') = Len(runs) + 1
        /\ \A r \in 1..Len(runs) : runs'[r] = runs[r]
        /\ runs'[Len(runs) + 1].status = "running"
    BY <1>4, StartRunTyped DEF Projected
  <2>3. \A r \in 1..Len(runs) : runs[r].status # "running"
    BY <1>4 DEF StartRun, Owned, NoneRunning, Unfinished
  <2>4. runStatus' = Append(runStatus, "running")
    <3> DEFINE target == Append(runStatus, "running")
    <3>1. /\ target \in Seq(Statuses) /\ Len(target) = Len(runStatus) + 1
          /\ \A r \in 1..Len(runStatus) : target[r] = runStatus[r]
          /\ target[Len(runStatus) + 1] = "running"
      BY <1>0, Appended DEF Statuses
    <3> HIDE DEF target
    <3>2. \A r \in 1..Len(runStatus') : runStatus'[r] = target[r]
      BY <1>0, <1>1, <2>2, <3>1
    <3> QED
      BY <1>0, <1>1, <2>2, <3>1, <3>2, SeqEqual DEF target
  <2>5. History!Begin
    BY <1>0, <2>1, <2>3, <2>4 DEF History!Begin, History!Active
  <2> QED
    BY <2>5 DEF History!Next
<1>5. ASSUME NEW p \in Procs, NEW outcome \in done[p], Persist(p, outcome)
      PROVE  [History!Next]_(History!history)
  <2> DEFINE new == [track |-> outcome.track, run |-> run[p], identity |-> identity[p],
                     facts |-> snap[p][outcome.track], content |-> outcome.content,
                     ok |-> outcome.ok]
  <2>1. Unfinished(run[p])
    BY <1>5 DEF Persist, Owned, OnlyOwnRuns
  <2>2. outcome \in Outcome /\ Len(runs') = Len(runs)
        /\ \A r \in 1..Len(runs) : runs'[r].status = runs[r].status
    BY <1>5, PersistTyped DEF Projected
  <2>3. runStatus' = runStatus
    <3>1. \A r \in 1..Len(runStatus) : runStatus'[r] = runStatus[r]
      BY <1>0, <1>1, <2>2
    <3> QED
      BY <1>0, <1>1, <2>2, <3>1, SeqEqual
  <2>4. new \in History!Attempt
    BY <1>0, <2>1, <2>2 DEF History!Attempt, Outcome, Unfinished, Projected, TypeOK
  <2>5. History!Active(new.run)
    BY <1>0, <2>1 DEF History!Active, Unfinished
  <2>6. attempts' = Append(attempts, new)
    BY <1>5 DEF Persist
  <2>7. current' = IF new.ok THEN [current EXCEPT ![new.track] = Len(attempts) + 1] ELSE current
    <3>1. current' = IF outcome.ok
                     THEN [current EXCEPT ![outcome.track] =
                              IF Len(attempts) + 1 > @ THEN Len(attempts) + 1 ELSE @]
                     ELSE current
      BY <1>5 DEF Persist, Advance
    <3>2. outcome.track \in Tracks
      BY <2>2 DEF Outcome
    <3>3. Len(attempts) \in Nat
      BY LenProperties DEF Projected, TypeOK
    <3>4. current[outcome.track] \in 0..Len(attempts) /\ DOMAIN current = Tracks
      BY <3>2, <3>3 DEF Projected, TypeOK, ProjectionIsLatestSuccess, IsLatestSuccess
    <3>5. new.ok = outcome.ok /\ new.track = outcome.track
      OBVIOUS
    <3> HIDE DEF new
    <3>6. CASE outcome.ok
      <4>1. Len(attempts) + 1 > current[outcome.track]
        BY <3>3, <3>4
      <4>2. current' = [current EXCEPT ![outcome.track] =
                           IF Len(attempts) + 1 > @ THEN Len(attempts) + 1 ELSE @]
        BY <3>1, <3>6
      <4>3. current' = [current EXCEPT ![outcome.track] = Len(attempts) + 1]
        BY <4>1, <4>2
      <4>4. new.ok
        BY <3>5, <3>6, Zenon
      <4> QED
        BY <3>5, <4>3, <4>4
    <3>7. CASE ~outcome.ok
      BY <3>1, <3>5, <3>7
    <3> QED
      BY <3>6, <3>7
  <2> HIDE DEF new
  <2>8. History!Record
    BY <2>3, <2>4, <2>5, <2>6, <2>7 DEF History!Record
  <2> QED
    BY <2>8 DEF History!Next
<1>6. ASSUME NEW p \in Procs, Finish(p) PROVE [History!Next]_(History!history)
  <2>1. UNCHANGED <<attempts, current>> /\ Unfinished(run[p])
    BY <1>6 DEF Finish, Owned, OnlyOwnRuns
  <2>2. /\ Len(runs') = Len(runs)
        /\ \A r \in 1..Len(runs) : r # run[p] => runs'[r] = runs[r]
        /\ runs'[run[p]].status \in Statuses \ {"running"}
    BY <1>6, <2>1, FinishTyped DEF Projected, Unfinished
  <2> DEFINE target == [runStatus EXCEPT ![run[p]] = runs'[run[p]].status]
  <2>3. target \in Seq(Statuses) /\ Len(target) = Len(runStatus)
        /\ \A q \in 1..Len(runStatus) :
              target[q] = IF q = run[p] THEN runs'[run[p]].status ELSE runStatus[q]
    BY <1>0, <2>1, <2>2, ExceptSeq DEF Unfinished
  <2> HIDE DEF target
  <2>4. \A q \in 1..Len(runStatus') : runStatus'[q] = target[q]
    BY <1>0, <1>1, <2>2, <2>3
  <2>5. runStatus' = target
    BY <1>0, <1>1, <2>2, <2>3, <2>4, SeqEqual
  <2>6. History!Settle
    BY <1>0, <2>1, <2>2, <2>5 DEF History!Settle, History!Active, Unfinished, Statuses, target
  <2> QED
    BY <2>6 DEF History!Next
<1>7. ASSUME NEW p \in Procs,
             \/ Acquire(p) \/ Select(p) \/ ReadReusable(p) \/ Release(p) \/ Abort(p)
             \/ \E t \in Tracks : Extract(p, t)
      PROVE  UNCHANGED <<runs, attempts, current>>
  BY <1>7 DEF Acquire, Select, ReadReusable, Release, Abort, Forget, Extract, database
<1>8. CASE Environment \/ UNCHANGED vars
  <2>1. CASE Rebuild \/ UNCHANGED vars
    BY <2>1, <1>2, RebuildChangesNothing DEF vars, database
  <2>2. CASE \E t \in Tracks : EditFile(t) \/ Rescan(t) \/ Reconfigure(t)
    BY <2>2, <1>2 DEF EditFile, Rescan, Reconfigure, database
  <2> QED
    BY <1>8, <2>1, <2>2 DEF Environment
<1> QED
  BY <1>2, <1>3, <1>4, <1>5, <1>6, <1>7, <1>8 DEF Next, Step

\* Pipelines with their locks, workers, crashes and rebuilds implement the
\* history that the catalog promises its readers.
THEOREM Refinement == Spec => ImplementsHistory
<1>1. Init => History!Init
  BY InitRefines
<1>2. /\ Projected /\ Owned /\ (Projected /\ Owned)' /\ [Next]_vars
      => [History!Next]_(History!history)
  BY StepRefines
<1> QED
  BY <1>1, <1>2, OwnedInvariant, PTL DEF Spec, ImplementsHistory, History!Spec

-----------------------------------------------------------------------------
(* No work is redone.  What a command still has to extract is disjoint from  *)
(* what it waits to record, and nobody else records while it holds the lock. *)

TracksOf(outcomes) == {outcome.track : outcome \in outcomes}

Disjoint ==
    \A p \in Procs :
        /\ pc[p] \notin {"start", "extract"} => todo[p] = {}
        /\ pc[p] # "extract" => done[p] = {}
        /\ \A outcome \in done[p] : outcome.track \notin todo[p]
        /\ \A one, other \in done[p] : one.track = other.track => one = other

Needed(p, t) == ~HasSuccess(t, snap[p][t], identity[p])

SelectionNeeded ==
    \A p \in Procs : pc[p] = "reuse" /\ ~forced[p] => \A t \in selected[p] : Needed(p, t)

RestNeeded ==
    \A p \in Procs : pc[p] \in {"start", "extract"} /\ ~forced[p] =>
        \A t \in todo[p] \cup TracksOf(done[p]) : Needed(p, t)

Worked == Disjoint /\ SelectionNeeded /\ RestNeeded

\* No work is under way at first.
LEMMA InitWorked == Init => Worked
  BY DEF Init, Worked, Disjoint, SelectionNeeded, RestNeeded

\* Another track's attempt makes no difference.
LEMMA NeededByOthers ==
    ASSUME Projected, NEW p \in Procs, NEW outcome \in done[p], Persist(p, outcome),
           NEW t, t # outcome.track, NEW version, NEW id,
           ~HasSuccess(t, version, id)
    PROVE  ~HasSuccess(t, version, id)'
<1>1. /\ Len(attempts') = Len(attempts) + 1
      /\ \A i \in 1..Len(attempts) : attempts'[i] = attempts[i]
      /\ attempts'[Len(attempts) + 1].track = outcome.track
  BY PersistRecords DEF Projected
<1>2. Len(attempts) \in Nat
  BY LenProperties DEF Projected, TypeOK
<1> QED
  BY <1>1, <1>2 DEF HasSuccess

\* Every step keeps the work under way needed.
LEMMA StepWorked ==
    ASSUME Projected, Owned, Worked, [Next]_vars
    PROVE  Worked'
<1> USE DEF Worked
<1>0. /\ DOMAIN pc = Procs /\ DOMAIN todo = Procs /\ DOMAIN done = Procs
      /\ DOMAIN identity = Procs /\ DOMAIN forced = Procs /\ DOMAIN selected = Procs
      /\ DOMAIN snap = Procs
  BY DEF Projected, TypeOK
<1>1. ASSUME NEW p \in Procs, Acquire(p) \/ Reconcile(p) \/ StartRun(p) \/ Finish(p)
      PROVE  Worked'
  <2>1. UNCHANGED <<attempts, identity, forced, selected, snap, todo, done>>
    BY <1>1 DEF Acquire, Reconcile, StartRun, Finish, database, request
  <2>2. Disjoint'
    BY <1>0, <1>1, <2>1 DEF Acquire, Reconcile, StartRun, Finish, Disjoint
  <2>3. SelectionNeeded'
    BY <1>0, <1>1, <2>1
    DEF Acquire, Reconcile, StartRun, Finish, SelectionNeeded, Needed, HasSuccess
  <2>4. \A q \in Procs : pc'[q] \in {"start", "extract"} => pc[q] \in {"start", "extract"}
    BY <1>0, <1>1 DEF Acquire, Reconcile, StartRun, Finish
  <2>5. RestNeeded'
    BY <2>1, <2>4 DEF RestNeeded, Needed, HasSuccess, TracksOf
  <2> QED
    BY <2>2, <2>3, <2>5
<1>2. ASSUME NEW p \in Procs, Select(p) PROVE Worked'
  <2>1. UNCHANGED <<attempts, todo, done>> /\ pc[p] = "select"
        /\ pc' = [pc EXCEPT ![p] = "reuse"]
    BY <1>2 DEF Select, database
  <2>2. \A q \in Procs : q # p => pc[q] = "idle"
    BY <2>1, HolderIsAlone
  <2>3. PICK id \in Identities, force \in BOOLEAN :
          \E chosen \in SUBSET (IF force THEN analyzable ELSE Pending(id)) :
            /\ identity' = [identity EXCEPT ![p] = id]
            /\ forced' = [forced EXCEPT ![p] = force]
            /\ selected' = [selected EXCEPT ![p] = chosen]
            /\ snap' = [snap EXCEPT ![p] =
                            [t \in Tracks |-> IF t \in chosen THEN catalog[t] ELSE 0]]
    BY <1>2 DEF Select
  <2>4. PICK chosen \in SUBSET (IF force THEN analyzable ELSE Pending(id)) :
            /\ identity' = [identity EXCEPT ![p] = id]
            /\ forced' = [forced EXCEPT ![p] = force]
            /\ selected' = [selected EXCEPT ![p] = chosen]
            /\ snap' = [snap EXCEPT ![p] =
                            [t \in Tracks |-> IF t \in chosen THEN catalog[t] ELSE 0]]
    BY <2>3
  <2>5. Disjoint' /\ RestNeeded'
    BY <1>0, <2>1, <2>2 DEF Disjoint, RestNeeded
  <2>6. ASSUME ~force, NEW t \in chosen PROVE ~HasSuccess(t, catalog[t], id)
    BY <2>4, <2>6 DEF Pending, Reusable
  <2>7. analyzable \subseteq Tracks
    BY DEF Projected, TypeOK
  <2>8. ASSUME NEW q \in Procs, pc'[q] = "reuse", ~forced'[q], NEW t \in selected'[q]
        PROVE  Needed(q, t)'
    <3>1. q = p
      BY <1>0, <2>1, <2>2, <2>8
    <3>2. ~force /\ t \in chosen
      BY <1>0, <2>4, <2>8, <3>1
    <3>3. t \in Tracks
      BY <2>4, <2>7, <3>2 DEF Pending
    <3>4. snap'[p][t] = catalog[t] /\ identity'[p] = id
      BY <1>0, <2>4, <3>2, <3>3
    <3> QED
      BY <2>1, <2>6, <3>1, <3>2, <3>4 DEF Needed, HasSuccess
  <2> QED
    BY <2>5, <2>8 DEF SelectionNeeded
<1>3. ASSUME NEW p \in Procs, ReadReusable(p) PROVE Worked'
  <2>1. UNCHANGED <<attempts, identity, forced, selected, snap, done>> /\ pc[p] = "reuse"
        /\ pc' = [pc EXCEPT ![p] = "start"]
    BY <1>3 DEF ReadReusable, database
  <2>2. \A q \in Procs : q # p => pc[q] = "idle"
    BY <2>1, HolderIsAlone
  <2>3. \A q \in Procs : q # p => todo'[q] = todo[q]
    BY <1>0, <1>3 DEF ReadReusable
  <2>4. todo'[p] \subseteq selected[p]
    BY <1>0, <1>3 DEF ReadReusable
  <2>5. \A q \in Procs : done[q] = {}
    BY <2>1, <2>2 DEF Disjoint
  <2>6. Disjoint'
    BY <1>0, <2>1, <2>2, <2>3, <2>5 DEF Disjoint
  <2>7. SelectionNeeded'
    BY <1>0, <2>1, <2>2 DEF SelectionNeeded
  <2>8. RestNeeded'
    <3> SUFFICES ASSUME NEW q \in Procs, pc'[q] \in {"start", "extract"}, ~forced'[q],
                        NEW t \in todo'[q] \cup TracksOf(done'[q])
                 PROVE  Needed(q, t)'
      BY DEF RestNeeded, TracksOf
    <3>1. q = p
      BY <1>0, <2>1, <2>2
    <3>2. t \in selected[p] /\ ~forced[p]
      BY <2>1, <2>4, <2>5, <3>1 DEF TracksOf
    <3>3. Needed(p, t)
      BY <2>1, <3>2 DEF SelectionNeeded
    <3> QED
      BY <2>1, <3>1, <3>3 DEF Needed, HasSuccess
  <2> QED
    BY <2>6, <2>7, <2>8
<1>4. ASSUME NEW p \in Procs, NEW t \in Tracks, Extract(p, t) PROVE Worked'
  <2>1. UNCHANGED <<attempts, identity, forced, selected, snap, pc>> /\ pc[p] = "extract"
        /\ t \in todo[p] /\ todo' = [todo EXCEPT ![p] = @ \ {t}]
    BY <1>4 DEF Extract, database, request
  <2>2. PICK ok \in BOOLEAN :
            done' = [done EXCEPT ![p] = @ \cup {[track |-> t, content |-> disk[t], ok |-> ok]}]
    BY <1>4 DEF Extract
  <2> DEFINE new == [track |-> t, content |-> disk[t], ok |-> ok]
  <2>3. new.track = t
    OBVIOUS
  <2>4. done'[p] = done[p] \cup {new} /\ todo'[p] = todo[p] \ {t}
        /\ \A q \in Procs : q # p => done'[q] = done[q] /\ todo'[q] = todo[q]
    BY <1>0, <2>1, <2>2
  <2> HIDE DEF new
  <2>5. Disjoint'
    BY <2>1, <2>3, <2>4 DEF Disjoint
  <2>6. SelectionNeeded'
    BY <2>1 DEF SelectionNeeded, Needed, HasSuccess
  <2>7. \A q \in Procs :
            todo'[q] \cup TracksOf(done'[q]) \subseteq todo[q] \cup TracksOf(done[q])
    BY <2>1, <2>3, <2>4 DEF TracksOf
  <2>8. RestNeeded'
    BY <2>1, <2>7 DEF RestNeeded, Needed, HasSuccess
  <2> QED
    BY <2>5, <2>6, <2>8
<1>5. ASSUME NEW p \in Procs, NEW outcome \in done[p], Persist(p, outcome) PROVE Worked'
  <2>1. UNCHANGED <<identity, forced, selected, snap, pc, todo>> /\ pc[p] = "extract"
        /\ done' = [done EXCEPT ![p] = @ \ {outcome}]
    BY <1>5 DEF Persist, request
  <2>2. \A q \in Procs : q # p => pc[q] = "idle"
    BY <2>1, HolderIsAlone
  <2>3. done'[p] = done[p] \ {outcome} /\ \A q \in Procs : q # p => done'[q] = done[q]
    BY <1>0, <2>1
  <2>4. Disjoint'
    BY <2>1, <2>3 DEF Disjoint
  <2>5. SelectionNeeded'
    BY <2>1, <2>2 DEF SelectionNeeded
  <2>6. RestNeeded'
    <3> SUFFICES ASSUME NEW q \in Procs, pc[q] \in {"start", "extract"}, ~forced[q],
                        NEW t \in todo[q] \cup TracksOf(done'[q])
                 PROVE  Needed(q, t)'
      BY <2>1 DEF RestNeeded, TracksOf
    <3>1. q = p
      BY <2>2
    <3>2. t \in todo[p] \cup TracksOf(done[p]) /\ t # outcome.track
      BY <2>3, <3>1 DEF TracksOf, Disjoint
    <3>3. ~HasSuccess(t, snap[p][t], identity[p])
      BY <3>1, <3>2 DEF RestNeeded, Needed
    <3>4. ~HasSuccess(t, snap[p][t], identity[p])'
      BY <1>5, <2>1, <3>2, <3>3, NeededByOthers
    <3> QED
      BY <3>1, <3>4 DEF Needed
  <2> QED
    BY <2>4, <2>5, <2>6
<1>6. ASSUME NEW p \in Procs, Release(p) \/ Abort(p) PROVE Worked'
  <2>1. Forget(p) /\ pc[p] # "idle"
    BY <1>6 DEF Release, Abort
  <2>2. \A q \in Procs : q # p => pc[q] = "idle"
    BY <2>1, HolderIsAlone
  <2>3. \A q \in Procs : pc'[q] = "idle"
    BY <1>0, <2>1, <2>2 DEF Forget
  <2>4. todo' = [todo EXCEPT ![p] = {}] /\ done' = [done EXCEPT ![p] = {}]
    BY <2>1 DEF Forget
  <2>5. \A q \in Procs : todo'[q] = {} /\ done'[q] = {}
    <3>1. \A q \in Procs : q # p => todo[q] = {} /\ done[q] = {}
      BY <2>2 DEF Disjoint
    <3> QED
      BY <1>0, <2>4, <3>1
  <2>6. Disjoint'
    BY <2>5 DEF Disjoint
  <2> QED
    BY <2>3, <2>6 DEF SelectionNeeded, RestNeeded
<1>7. CASE Environment \/ UNCHANGED vars
  <2>1. UNCHANGED <<attempts, pc, identity, forced, selected, snap, todo, done>>
    BY <1>7, RebuildChangesNothing
    DEF Environment, EditFile, Rescan, Reconfigure, vars, database, request
  <2> QED
    BY <2>1 DEF Disjoint, SelectionNeeded, RestNeeded, Needed, HasSuccess, TracksOf
<1> QED
  BY <1>1, <1>2, <1>3, <1>4, <1>5, <1>6, <1>7 DEF Next, Step

\* Without --force no extraction repeats one that succeeded for the same facts
\* and identity.
THEOREM NothingRedone == Spec => []NeverRedoesReusableWork
<1>1. Worked => NeverRedoesReusableWork
  BY DEF Worked, RestNeeded, TracksOf, Needed, NeverRedoesReusableWork
<1>2. Init => Worked
  BY InitWorked
<1>3. Projected /\ Owned /\ Worked /\ [Next]_vars => Worked'
  BY StepWorked
<1> QED
  BY <1>1, <1>2, <1>3, OwnedInvariant, PTL DEF Spec

-----------------------------------------------------------------------------
(* The run records.  While a command extracts, what it counted and what it   *)
(* still has to do make up what it selected; so a run that is counted to the *)
(* end, by its owner or from its attempts, claims nothing it did not do.     *)

AttemptsHaveRuns == \A i \in 1..Len(attempts) : attempts[i].run \in 1..Len(runs)

Accounted(r) == runs[r].analyzed + runs[r].reused + runs[r].failed

WorkAccounted ==
    \A p \in Procs :
        /\ IsFiniteSet(done[p])
        /\ pc[p] = "start" =>
              Cardinality(todo[p]) + Cardinality(reused[p]) = Cardinality(selected[p])
        /\ pc[p] = "extract" =>
              Accounted(run[p]) + Cardinality(todo[p]) + Cardinality(done[p])
                  = runs[run[p]].eligible

Counted == AttemptsHaveRuns /\ WorkAccounted /\ CountersMatchHistory /\ HonestStatus

\* _derive_status calls no run succeeded that counted less than it selected.
LEMMA SuccessAccounted ==
    ASSUME NEW e \in Nat, NEW a \in Nat, NEW u \in Nat, NEW f \in Nat,
           a + u + f <= e, DeriveStatus(e, a, u, f) = "succeeded"
    PROVE  f = 0 /\ a + u + f = e
  BY DEF DeriveStatus

\* The columns of a run are numbers.
LEMMA RunColumns ==
    ASSUME TypeOK, NEW r \in 1..Len(runs)
    PROVE  /\ runs[r] \in Run
           /\ runs[r].eligible \in Nat /\ runs[r].analyzed \in Nat
           /\ runs[r].reused \in Nat /\ runs[r].failed \in Nat
<1>1. runs[r] \in Run
  BY LenProperties DEF TypeOK
<1> QED
  BY <1>1 DEF Run

\* An empty catalog has nothing to count.
LEMMA InitCounted == Init => Counted
<1> SUFFICES ASSUME Init PROVE Counted
  OBVIOUS
<1>1. Len(runs) = 0 /\ Len(attempts) = 0
  BY EmptySeq DEF Init
<1>2. IsFiniteSet({})
  BY FS_EmptySet
<1>3. WorkAccounted
  BY <1>2 DEF Init, WorkAccounted
<1> QED
  BY <1>1, <1>3 DEF Counted, AttemptsHaveRuns, CountersMatchHistory, HonestStatus

\* reconcile_running_runs recounts an abandoned run to the counters it has.
LEMMA ReconcileCounts ==
    ASSUME TypeOK, CountersMatchHistory, NEW p \in Procs, Reconcile(p), NEW r \in 1..Len(runs)
    PROVE  /\ runs'[r].eligible = runs[r].eligible /\ runs'[r].analyzed = runs[r].analyzed
           /\ runs'[r].reused = runs[r].reused /\ runs'[r].failed = runs[r].failed
           /\ \/ runs'[r].status = runs[r].status
              \/ runs'[r].status = DeriveStatus(runs[r].eligible, runs[r].analyzed,
                                                runs[r].reused, runs[r].failed)
<1> DEFINE status == DeriveStatus(runs[r].eligible, runs[r].analyzed,
                                  runs[r].reused, runs[r].failed)
<1>1. runs[r] \in Run
  BY RunColumns
<1>2. /\ runs[r].analyzed = Cardinality(AttemptsOf(r, TRUE))
      /\ runs[r].failed = Cardinality(AttemptsOf(r, FALSE))
  BY DEF CountersMatchHistory
<1>3. Settled(r) = [runs[r] EXCEPT !.status = status, !.analyzed = runs[r].analyzed,
                                   !.failed = runs[r].failed]
  BY <1>2 DEF Settled
<1>4. runs'[r] = IF runs[r].status = "running" THEN Settled(r) ELSE runs[r]
  BY ReconcileTyped
<1> HIDE DEF status
<1>5. Settled(r).eligible = runs[r].eligible /\ Settled(r).analyzed = runs[r].analyzed
      /\ Settled(r).reused = runs[r].reused /\ Settled(r).failed = runs[r].failed
      /\ Settled(r).status = status
  BY <1>1, <1>3 DEF Run
<1> QED
  BY <1>4, <1>5 DEF status

\* persist_outcome counts its attempt in the run that owns it.
LEMMA PersistCounts ==
    ASSUME TypeOK, NEW p \in Procs, NEW outcome \in done[p], Persist(p, outcome),
           run[p] \in 1..Len(runs)
    PROVE  /\ runs'[run[p]].eligible = runs[run[p]].eligible
           /\ runs'[run[p]].reused = runs[run[p]].reused
           /\ runs'[run[p]].status = runs[run[p]].status
           /\ runs'[run[p]].analyzed =
                 IF outcome.ok THEN runs[run[p]].analyzed + 1 ELSE runs[run[p]].analyzed
           /\ runs'[run[p]].failed =
                 IF outcome.ok THEN runs[run[p]].failed ELSE runs[run[p]].failed + 1
<1> DEFINE id == run[p]
           row == runs[id]
           one == [row EXCEPT !.analyzed = @ + 1]
           other == [row EXCEPT !.failed = @ + 1]
<1>1. row \in Run
  BY RunColumns
<1>2. runs'[id] = IF outcome.ok THEN one ELSE other
  BY LenProperties DEF Persist, TypeOK
<1>3. /\ one.eligible = row.eligible /\ one.reused = row.reused /\ one.status = row.status
      /\ one.analyzed = row.analyzed + 1 /\ one.failed = row.failed
      /\ other.eligible = row.eligible /\ other.reused = row.reused
      /\ other.status = row.status
      /\ other.analyzed = row.analyzed /\ other.failed = row.failed + 1
  BY <1>1 DEF Run
<1> HIDE DEF one, other
<1>4. CASE outcome.ok
  BY <1>2, <1>3, <1>4
<1>5. CASE ~outcome.ok
  BY <1>2, <1>3, <1>5
<1> QED
  BY <1>4, <1>5

\* Without a new attempt and with the same counters the records stay true.
LEMMA CountersKept ==
    ASSUME AttemptsHaveRuns, CountersMatchHistory, UNCHANGED attempts, Len(runs') = Len(runs),
           \A r \in 1..Len(runs) :
              runs'[r].analyzed = runs[r].analyzed /\ runs'[r].failed = runs[r].failed
    PROVE  AttemptsHaveRuns' /\ CountersMatchHistory'
<1>1. \A r, ok : AttemptsOf(r, ok)' = AttemptsOf(r, ok)
  BY DEF AttemptsOf
<1>2. AttemptsHaveRuns'
  BY DEF AttemptsHaveRuns
<1>3. CountersMatchHistory'
  BY <1>1 DEF CountersMatchHistory
<1> QED
  BY <1>2, <1>3

\* A new attempt is one more of its run and its verdict, and of no other.
LEMMA PersistAttempts ==
    ASSUME TypeOK, NEW p \in Procs, NEW outcome \in done[p], Persist(p, outcome),
           NEW r, NEW ok \in BOOLEAN
    PROVE  Cardinality(AttemptsOf(r, ok)') =
              IF r = run[p] /\ ok = outcome.ok THEN Cardinality(AttemptsOf(r, ok)) + 1
              ELSE Cardinality(AttemptsOf(r, ok))
<1>1. Len(attempts) \in Nat
  BY LenProperties DEF TypeOK
<1>2. /\ Len(attempts') = Len(attempts) + 1
      /\ \A i \in 1..Len(attempts) : attempts'[i] = attempts[i]
      /\ attempts'[Len(attempts) + 1].run = run[p]
      /\ attempts'[Len(attempts) + 1].ok = outcome.ok
  BY PersistRecords
<1>3. IsFiniteSet(AttemptsOf(r, ok)) /\ Cardinality(AttemptsOf(r, ok)) \in Nat
  BY AttemptsFinite, FS_CardinalityType DEF TypeOK
<1>4. Len(attempts) + 1 \notin AttemptsOf(r, ok)
  BY <1>1 DEF AttemptsOf
<1>5. CASE r = run[p] /\ ok = outcome.ok
  <2>1. AttemptsOf(r, ok)' = AttemptsOf(r, ok) \cup {Len(attempts) + 1}
    BY <1>1, <1>2, <1>5 DEF AttemptsOf
  <2>2. Cardinality(AttemptsOf(r, ok) \cup {Len(attempts) + 1}) = Cardinality(AttemptsOf(r, ok)) + 1
    BY <1>3, <1>4, FS_AddElement
  <2> QED
    BY <1>5, <2>1, <2>2
<1>6. CASE ~(r = run[p] /\ ok = outcome.ok)
  <2>1. AttemptsOf(r, ok)' = AttemptsOf(r, ok)
    BY <1>1, <1>2, <1>6 DEF AttemptsOf
  <2> QED
    BY <1>6, <2>1
<1> QED
  BY <1>5, <1>6

\* Every step keeps the runs counted.
LEMMA StepCounted ==
    ASSUME Projected, Owned, Worked, Counted, [Next]_vars
    PROVE  Counted'
<1> USE DEF Counted, Projected
<1>0. /\ DOMAIN pc = Procs /\ DOMAIN todo = Procs /\ DOMAIN done = Procs
      /\ DOMAIN selected = Procs /\ DOMAIN reused = Procs /\ DOMAIN run = Procs
      /\ Len(runs) \in Nat /\ Len(attempts) \in Nat
  BY LenProperties DEF TypeOK
<1>1. \A q \in Procs : todo[q] \subseteq Tracks /\ selected[q] \subseteq Tracks
                       /\ reused[q] \subseteq Tracks
  BY DEF TypeOK
<1>2. \A S \in SUBSET Tracks : IsFiniteSet(S) /\ Cardinality(S) \in Nat
  BY PipelineAssumption, FS_Subset, FS_CardinalityType
<1>3. \A q \in Procs : IsFiniteSet(done[q]) /\ Cardinality(done[q]) \in Nat
  BY FS_CardinalityType DEF WorkAccounted
<1>4. ASSUME NEW p \in Procs, Acquire(p) \/ Select(p) \/ Release(p) \/ Abort(p)
      PROVE  Counted'
  <2>1. UNCHANGED <<runs, attempts>>
    BY <1>4 DEF Acquire, Select, Release, Abort, Forget, database
  <2>2. AttemptsHaveRuns' /\ CountersMatchHistory' /\ HonestStatus'
    BY <2>1, CountersKept DEF HonestStatus
  <2>3. \A q \in Procs : /\ done'[q] = done[q] \/ done'[q] = {}
                         /\ pc'[q] \in {"start", "extract"} =>
                              /\ q # p
                              /\ pc'[q] = pc[q]
    BY <1>0, <1>4 DEF Acquire, Select, Release, Abort, Forget, request
  <2>4. pc[p] # "idle" => \A q \in Procs : q # p => pc[q] = "idle"
    BY HolderIsAlone
  <2>5. CASE pc[p] # "idle"
    <3>1. \A q \in Procs : pc'[q] \notin {"start", "extract"}
      BY <2>3, <2>4, <2>5
    <3>2. WorkAccounted'
      BY <1>3, <2>3, <3>1, FS_EmptySet DEF WorkAccounted
    <3> QED
      BY <2>2, <3>2
  <2>6. CASE pc[p] = "idle"
    <3>1. UNCHANGED <<todo, done, selected, reused, run>>
      BY <1>4, <2>6 DEF Acquire, Select, Release, Abort, request
    <3>2. WorkAccounted'
      BY <2>1, <2>3, <3>1 DEF WorkAccounted, Accounted
    <3> QED
      BY <2>2, <3>2
  <2> QED
    BY <2>5, <2>6
<1>5. ASSUME NEW p \in Procs, Reconcile(p) PROVE Counted'
  <2>1. UNCHANGED <<attempts, todo, done, selected, reused, run>> /\ pc[p] = "reconcile"
        /\ pc' = [pc EXCEPT ![p] = "select"]
    BY <1>5 DEF Reconcile, request
  <2>2. Len(runs') = Len(runs)
    BY <1>5, ReconcileTyped
  <2>3. \A r \in 1..Len(runs) :
           /\ runs'[r].eligible = runs[r].eligible /\ runs'[r].analyzed = runs[r].analyzed
           /\ runs'[r].reused = runs[r].reused /\ runs'[r].failed = runs[r].failed
           /\ \/ runs'[r].status = runs[r].status
              \/ runs'[r].status = DeriveStatus(runs[r].eligible, runs[r].analyzed,
                                                runs[r].reused, runs[r].failed)
    BY <1>5, ReconcileCounts
  <2>4. AttemptsHaveRuns' /\ CountersMatchHistory'
    BY <2>1, <2>2, <2>3, CountersKept
  <2>5. HonestStatus'
    <3> SUFFICES ASSUME NEW r \in 1..Len(runs)
                 PROVE  /\ Accounted(r) <= runs[r].eligible
                        /\ runs'[r].status = "succeeded" =>
                              runs[r].failed = 0 /\ Accounted(r) = runs[r].eligible
      BY <2>2, <2>3 DEF HonestStatus, Accounted
    <3>1. /\ Accounted(r) <= runs[r].eligible
          /\ runs[r].status = "succeeded" =>
                runs[r].failed = 0 /\ Accounted(r) = runs[r].eligible
      BY DEF HonestStatus, Accounted
    <3>2. DeriveStatus(runs[r].eligible, runs[r].analyzed, runs[r].reused, runs[r].failed)
             = "succeeded" => runs[r].failed = 0 /\ Accounted(r) = runs[r].eligible
      BY <3>1, RunColumns, SuccessAccounted DEF Accounted
    <3> QED
      BY <2>3, <3>1, <3>2
  <2>6. \A q \in Procs : pc'[q] \notin {"start", "extract"}
    BY <1>0, <2>1, HolderIsAlone
  <2>7. WorkAccounted'
    BY <2>1, <2>6 DEF WorkAccounted
  <2> QED
    BY <2>4, <2>5, <2>7
<1>6. ASSUME NEW p \in Procs, ReadReusable(p) PROVE Counted'
  <2>1. UNCHANGED <<runs, attempts, done, selected, run>> /\ pc[p] = "reuse"
        /\ pc' = [pc EXCEPT ![p] = "start"]
    BY <1>6 DEF ReadReusable, database
  <2>2. AttemptsHaveRuns' /\ CountersMatchHistory' /\ HonestStatus'
    BY <2>1, CountersKept DEF HonestStatus
  <2>3. reused'[p] \subseteq selected[p] /\ todo'[p] = selected[p] \ reused'[p]
    BY <1>0, <1>6 DEF ReadReusable
  <2>4. Cardinality(todo'[p]) + Cardinality(reused'[p]) = Cardinality(selected[p])
    <3>1. IsFiniteSet(selected[p]) /\ selected[p] \cap reused'[p] = reused'[p]
      BY <1>1, <1>2, <2>3
    <3>2. Cardinality(todo'[p]) = Cardinality(selected[p]) - Cardinality(reused'[p])
      BY <2>3, <3>1, FS_Difference
    <3>3. Cardinality(selected[p]) \in Nat /\ Cardinality(reused'[p]) \in Nat
      BY <1>1, <1>2, <2>3
    <3> QED
      BY <3>2, <3>3
  <2>5. \A q \in Procs : q # p => pc'[q] = "idle"
    BY <1>0, <2>1, HolderIsAlone
  <2>6. WorkAccounted'
    BY <1>0, <1>3, <2>1, <2>4, <2>5 DEF WorkAccounted
  <2> QED
    BY <2>2, <2>6
<1>7. ASSUME NEW p \in Procs, StartRun(p) PROVE Counted'
  <2> DEFINE new == [status |-> "running", eligible |-> Cardinality(selected[p]),
                     analyzed |-> 0, reused |-> Cardinality(reused[p]), failed |-> 0]
             n == Len(runs) + 1
  <2>1. UNCHANGED <<attempts, todo, done, selected, reused>> /\ pc[p] = "start"
        /\ pc' = [pc EXCEPT ![p] = "extract"]
    BY <1>7 DEF StartRun, request
  <2>2. /\ Len(runs') = n /\ (\A r \in 1..Len(runs) : runs'[r] = runs[r])
        /\ run'[p] = n
    BY <1>0, <1>7, StartRunTyped
  <2>3. runs'[n] = new
    <3>1. Cardinality(selected[p]) \in Nat /\ Cardinality(reused[p]) \in Nat
      BY <1>1, <1>2
    <3>2. new \in Run /\ runs \in Seq(Run)
      BY <3>1 DEF Run, Statuses, TypeOK
    <3> QED
      BY <1>7, <3>2, Appended DEF StartRun
  <2>4. /\ runs'[n].status = "running" /\ runs'[n].eligible = Cardinality(selected[p])
        /\ runs'[n].analyzed = 0 /\ runs'[n].failed = 0
        /\ runs'[n].reused = Cardinality(reused[p])
    BY <2>3
  <2>5. /\ Cardinality(selected[p]) \in Nat /\ Cardinality(reused[p]) \in Nat
        /\ Cardinality(todo[p]) \in Nat
        /\ Cardinality(todo[p]) + Cardinality(reused[p]) = Cardinality(selected[p])
    BY <1>1, <1>2, <2>1 DEF WorkAccounted
  <2> HIDE DEF new
  <2>6. AttemptsHaveRuns'
    BY <1>0, <2>1, <2>2 DEF AttemptsHaveRuns
  <2>7. \A ok \in BOOLEAN : AttemptsOf(n, ok) = {}
    BY <1>0 DEF AttemptsHaveRuns, AttemptsOf
  <2>8. CountersMatchHistory'
    <3> SUFFICES ASSUME NEW r \in 1..Len(runs')
                 PROVE  /\ runs'[r].analyzed = Cardinality(AttemptsOf(r, TRUE)')
                        /\ runs'[r].failed = Cardinality(AttemptsOf(r, FALSE)')
      BY DEF CountersMatchHistory, AttemptsOf
    <3>1. AttemptsOf(r, TRUE)' = AttemptsOf(r, TRUE)
          /\ AttemptsOf(r, FALSE)' = AttemptsOf(r, FALSE)
      BY <2>1 DEF AttemptsOf
    <3>2. CASE r = n
      BY <2>4, <2>7, <3>1, <3>2, FS_EmptySet
    <3>3. CASE r \in 1..Len(runs)
      BY <2>2, <3>1, <3>3 DEF CountersMatchHistory
    <3>4. r = n \/ r \in 1..Len(runs)
      BY <1>0, <2>2
    <3> QED
      BY <3>2, <3>3, <3>4
  <2>9. HonestStatus'
    BY <1>0, <2>2, <2>4, <2>5 DEF HonestStatus
  <2>10. \A q \in Procs : q # p => pc'[q] = "idle"
    BY <1>0, <2>1, HolderIsAlone
  <2>11. done[p] = {} /\ Cardinality({}) = 0
    BY <2>1, FS_EmptySet DEF Worked, Disjoint
  <2>12. pc'[p] = "extract"
    BY <1>0, <2>1
  <2>13. Accounted(run[p])' + Cardinality(todo'[p]) + Cardinality(done'[p])
            = runs'[run'[p]].eligible
    BY <2>1, <2>2, <2>4, <2>5, <2>11 DEF Accounted
  <2>14. WorkAccounted'
    <3> SUFFICES ASSUME NEW q \in Procs
                 PROVE  /\ IsFiniteSet(done'[q])
                        /\ pc'[q] # "start"
                        /\ pc'[q] = "extract" => q = p
      BY <2>13 DEF WorkAccounted
    <3> QED
      BY <1>3, <2>1, <2>10, <2>12
  <2> QED
    BY <2>6, <2>8, <2>9, <2>14
<1>8. ASSUME NEW p \in Procs, NEW t \in Tracks, Extract(p, t) PROVE Counted'
  <2>1. UNCHANGED <<runs, attempts, selected, reused, run, pc>> /\ pc[p] = "extract"
        /\ t \in todo[p] /\ todo' = [todo EXCEPT ![p] = @ \ {t}]
    BY <1>8 DEF Extract, database, request
  <2>2. PICK ok \in BOOLEAN :
            done' = [done EXCEPT ![p] = @ \cup {[track |-> t, content |-> disk[t], ok |-> ok]}]
    BY <1>8 DEF Extract
  <2> DEFINE new == [track |-> t, content |-> disk[t], ok |-> ok]
  <2>3. new.track = t
    OBVIOUS
  <2>4. done'[p] = done[p] \cup {new} /\ todo'[p] = todo[p] \ {t}
        /\ \A q \in Procs : q # p => done'[q] = done[q] /\ todo'[q] = todo[q]
    BY <1>0, <2>1, <2>2
  <2> HIDE DEF new
  <2>5. new \notin done[p]
    BY <2>1, <2>3 DEF Worked, Disjoint
  <2>6. IsFiniteSet(done'[p]) /\ Cardinality(done'[p]) = Cardinality(done[p]) + 1
    <3>1. IsFiniteSet(done[p])
      BY <1>3
    <3>2. /\ IsFiniteSet(done[p] \cup {new})
          /\ Cardinality(done[p] \cup {new}) = Cardinality(done[p]) + 1
      BY <2>5, <3>1, FS_AddElement
    <3> QED
      BY <2>4, <3>2
  <2>7. Cardinality(todo'[p]) = Cardinality(todo[p]) - 1 /\ Cardinality(todo[p]) \in Nat
    BY <1>1, <1>2, <2>1, <2>4, FS_RemoveElement
  <2>8. AttemptsHaveRuns' /\ CountersMatchHistory' /\ HonestStatus'
    BY <2>1, CountersKept DEF HonestStatus
  <2>9. run[p] \in 1..Len(runs)
    BY <2>1 DEF Owned, OnlyOwnRuns, Unfinished
  <2>10. Accounted(run[p]) \in Nat
    BY <2>9, RunColumns DEF Accounted
  <2>11. Accounted(run[p]) + Cardinality(todo'[p]) + Cardinality(done'[p])
            = runs[run[p]].eligible
    BY <1>3, <2>1, <2>6, <2>7, <2>10 DEF WorkAccounted
  <2>12. Accounted(run[p])' = Accounted(run[p])
    BY <2>1 DEF Accounted
  <2>13. \A q \in Procs : q # p => pc[q] = "idle"
    BY <2>1, HolderIsAlone
  <2>14. WorkAccounted'
    BY <1>3, <2>1, <2>4, <2>6, <2>11, <2>12, <2>13 DEF WorkAccounted
  <2> QED
    BY <2>8, <2>14
<1>9. ASSUME NEW p \in Procs, NEW outcome \in done[p], Persist(p, outcome) PROVE Counted'
  <2> DEFINE id == run[p]
  <2>1. UNCHANGED <<selected, reused, run, pc, todo>> /\ pc[p] = "extract"
        /\ done' = [done EXCEPT ![p] = @ \ {outcome}]
    BY <1>9 DEF Persist, request
  <2>2. id \in 1..Len(runs) /\ runs[id].status = "running"
    BY <2>1 DEF Owned, OnlyOwnRuns, Unfinished
  <2>3. /\ Len(runs') = Len(runs)
        /\ \A r \in 1..Len(runs) : r # id => runs'[r] = runs[r]
    BY <1>9, PersistTyped
  <2>4. /\ runs'[id].eligible = runs[id].eligible
        /\ runs'[id].reused = runs[id].reused
        /\ runs'[id].status = runs[id].status
        /\ runs'[id].analyzed = IF outcome.ok THEN runs[id].analyzed + 1 ELSE runs[id].analyzed
        /\ runs'[id].failed = IF outcome.ok THEN runs[id].failed ELSE runs[id].failed + 1
    BY <1>9, <2>2, PersistCounts
  <2>5. /\ Len(attempts') = Len(attempts) + 1
        /\ \A i \in 1..Len(attempts) : attempts'[i] = attempts[i]
        /\ attempts'[Len(attempts) + 1].run = id
    BY <1>9, PersistRecords
  <2>6. outcome.ok \in BOOLEAN
    <3>1. outcome \in Outcome
      BY DEF TypeOK
    <3> QED
      BY <3>1 DEF Outcome
  <2>7. AttemptsHaveRuns'
    BY <1>0, <2>2, <2>3, <2>5 DEF AttemptsHaveRuns
  <2>8. \A r, ok : ok \in BOOLEAN =>
            Cardinality(AttemptsOf(r, ok)') =
              IF r = id /\ ok = outcome.ok THEN Cardinality(AttemptsOf(r, ok)) + 1
              ELSE Cardinality(AttemptsOf(r, ok))
    BY <1>9, PersistAttempts
  <2>9. \A r \in 1..Len(runs) :
            /\ runs[r].analyzed = Cardinality(AttemptsOf(r, TRUE))
            /\ runs[r].failed = Cardinality(AttemptsOf(r, FALSE))
    BY DEF CountersMatchHistory
  <2>10. CountersMatchHistory'
    <3> SUFFICES ASSUME NEW r \in 1..Len(runs)
                 PROVE  /\ runs'[r].analyzed = Cardinality(AttemptsOf(r, TRUE)')
                        /\ runs'[r].failed = Cardinality(AttemptsOf(r, FALSE)')
      BY <2>3 DEF CountersMatchHistory, AttemptsOf
    <3>1. CASE r = id /\ outcome.ok = TRUE
      BY <2>4, <2>8, <2>9, <3>1
    <3>2. CASE r = id /\ outcome.ok = FALSE
      BY <2>4, <2>8, <2>9, <3>2
    <3>3. CASE r # id
      BY <2>3, <2>8, <2>9, <3>3
    <3> QED
      BY <2>6, <3>1, <3>2, <3>3
  <2>11. done'[p] = done[p] \ {outcome} /\ \A q \in Procs : q # p => done'[q] = done[q]
    BY <1>0, <2>1
  <2>12. IsFiniteSet(done'[p]) /\ Cardinality(done'[p]) = Cardinality(done[p]) - 1
    BY <1>3, <2>11, FS_RemoveElement
  <2>13. /\ runs[id].eligible \in Nat /\ runs[id].analyzed \in Nat
         /\ runs[id].reused \in Nat /\ runs[id].failed \in Nat
    BY <2>2, RunColumns
  <2>14. Accounted(id) \in Nat /\ Accounted(id)' = Accounted(id) + 1
    BY <2>1, <2>4, <2>13 DEF Accounted
  <2>15. Accounted(id) + Cardinality(todo[p]) + Cardinality(done[p]) = runs[id].eligible
    BY <2>1 DEF WorkAccounted
  <2>16. Cardinality(todo[p]) \in Nat /\ Cardinality(done[p]) \in Nat
         /\ Cardinality(done'[p]) \in Nat
    BY <1>1, <1>2, <1>3, <2>12, FS_CardinalityType
  <2>17. /\ Accounted(id)' + Cardinality(todo[p]) + Cardinality(done'[p]) = runs[id].eligible
         /\ Accounted(id)' <= runs[id].eligible
    BY <2>12, <2>13, <2>14, <2>15, <2>16
  <2>18. HonestStatus'
    <3>1. ASSUME NEW r \in 1..Len(runs), r # id
          PROVE  /\ Accounted(r)' <= runs'[r].eligible
                 /\ runs'[r].status = "succeeded" =>
                       runs'[r].failed = 0 /\ Accounted(r)' = runs'[r].eligible
      BY <2>3, <3>1 DEF HonestStatus, Accounted
    <3>2. Accounted(id)' <= runs'[id].eligible /\ runs'[id].status # "succeeded"
      BY <2>2, <2>4, <2>17
    <3> QED
      BY <2>1, <2>3, <3>1, <3>2 DEF HonestStatus, Accounted
  <2>19. \A q \in Procs : q # p => pc[q] = "idle"
    BY <2>1, HolderIsAlone
  <2>20. WorkAccounted'
    <3>1. Accounted(run[p])' = Accounted(id)'
      BY <2>1 DEF Accounted
    <3> QED
      BY <1>3, <2>1, <2>4, <2>11, <2>12, <2>17, <2>19, <3>1 DEF WorkAccounted
  <2> QED
    BY <2>7, <2>10, <2>18, <2>20
<1>10. ASSUME NEW p \in Procs, Finish(p) PROVE Counted'
  <2> DEFINE id == run[p]
             status == DeriveStatus(runs[id].eligible, runs[id].analyzed,
                                    runs[id].reused, runs[id].failed)
  <2>1. UNCHANGED <<attempts, todo, done, selected, reused, run>> /\ pc[p] = "extract"
        /\ pc' = [pc EXCEPT ![p] = "release"]
    BY <1>10 DEF Finish, request
  <2>2. id \in 1..Len(runs)
    BY <2>1 DEF Owned, OnlyOwnRuns, Unfinished
  <2>3. runs' = [runs EXCEPT ![id].status = status]
    BY <1>10 DEF Finish
  <2>4. Len(runs') = Len(runs) /\ \A r \in 1..Len(runs) : r # id => runs'[r] = runs[r]
    BY <1>10, FinishTyped
  <2>5. runs[id] \in Run /\ DOMAIN runs = 1..Len(runs)
    BY <2>2, RunColumns, LenProperties DEF TypeOK
  <2>6. /\ runs'[id].eligible = runs[id].eligible /\ runs'[id].analyzed = runs[id].analyzed
        /\ runs'[id].reused = runs[id].reused /\ runs'[id].failed = runs[id].failed
        /\ runs'[id].status = status
    <3> HIDE DEF status
    <3>1. runs'[id] = [runs[id] EXCEPT !.status = status]
      BY <2>2, <2>3, <2>5
    <3> QED
      BY <2>5, <3>1 DEF Run
  <2>7. AttemptsHaveRuns' /\ CountersMatchHistory'
    BY <2>1, <2>4, <2>6, CountersKept
  <2>8. HonestStatus'
    <3> SUFFICES ASSUME NEW r \in 1..Len(runs)
                 PROVE  /\ Accounted(r) <= runs[r].eligible
                        /\ runs'[r].status = "succeeded" =>
                              runs[r].failed = 0 /\ Accounted(r) = runs[r].eligible
      BY <2>4, <2>6 DEF HonestStatus, Accounted
    <3>1. /\ Accounted(r) <= runs[r].eligible
          /\ runs[r].status = "succeeded" =>
                runs[r].failed = 0 /\ Accounted(r) = runs[r].eligible
      BY DEF HonestStatus, Accounted
    <3>2. DeriveStatus(runs[r].eligible, runs[r].analyzed, runs[r].reused, runs[r].failed)
             = "succeeded" => runs[r].failed = 0 /\ Accounted(r) = runs[r].eligible
      BY <3>1, RunColumns, SuccessAccounted DEF Accounted
    <3> QED
      BY <2>4, <2>6, <3>1, <3>2
  <2>9. \A q \in Procs : pc'[q] \notin {"start", "extract"}
    BY <1>0, <2>1, HolderIsAlone
  <2>10. WorkAccounted'
    BY <2>1, <2>9 DEF WorkAccounted
  <2> QED
    BY <2>7, <2>8, <2>10
<1>11. CASE Environment \/ UNCHANGED vars
  <2>1. UNCHANGED <<runs, attempts, pc, selected, reused, todo, done, run>>
    BY <1>11, RebuildChangesNothing
    DEF Environment, EditFile, Rescan, Reconfigure, vars, database, request
  <2>2. AttemptsHaveRuns' /\ CountersMatchHistory' /\ HonestStatus'
    BY <2>1, CountersKept DEF HonestStatus
  <2> QED
    BY <2>1, <2>2 DEF WorkAccounted, Accounted
<1> QED
  BY <1>4, <1>5, <1>6, <1>7, <1>8, <1>9, <1>10, <1>11 DEF Next, Step

\* Whatever crashed in between, one run at most is unsettled, the counters are
\* those of the attempts, and a success is one.
THEOREM RunRecordsTrue == Spec => []RunRecordIsTrue
<1>1. Projected /\ Owned /\ Worked /\ [Next]_vars => Worked'
  BY StepWorked
<1>2. Projected /\ Owned /\ Worked /\ Counted /\ [Next]_vars => Counted'
  BY StepCounted
<1>3. Owned /\ Counted => RunRecordIsTrue
  BY DEF Owned, Counted, RunRecordIsTrue
<1> QED
  BY <1>1, <1>2, <1>3, InitWorked, InitCounted, OwnedInvariant, PTL DEF Spec

-----------------------------------------------------------------------------
(* AnalysisWorker: one extraction, for any request, pipe, response and      *)
(* limits.  The inductive invariant.                                        *)

Says       == {"nothing", "failed", "succeeded", "garbage"}
StageNames == {Stages[i] : i \in 1..Len(Stages)} \cup {"none", "aggregation"}

\* What the parent's types leave out: the worker's side, and the answer.
WorkerTypes ==
    /\ buffer \in [Streams -> Nat]
    /\ written \in [Streams -> Nat]
    /\ response \in [says : Says, stage : StageNames, size : Nat]
    /\ code \in {"ok", "error", "signal"}
    /\ worker = "extract" => stage \in 1..Len(Stages)

\* Where the worker is, seen from where the caller is.
CallerInStep ==
    /\ main = "request" => worker = "none" /\ overflow = "none" /\ child = "none"
    /\ main = "write" => worker \in {"boot", "read", "zombie"} /\ child = "none"
    /\ main \in {"write", "wait", "kill", "reap"} => worker \notin {"none", "reaped"}
    /\ main = "join" => worker = "reaped"
    /\ main # "done" => answer = NoAnswer
    /\ main = "done" => \/ worker = "none" /\ answer.is = "refused"
                        \/ worker = "reaped" /\ \A s \in Streams : reader[s] = "done"
                        \/ worker = "zombie" /\ child = "none" /\ answer.is = "broken"
    /\ late => main \in {"kill", "reap", "join", "done"}

\* Whoever killed the group left nothing of it running.
KilledForGood ==
    (late /\ main # "kill") \/ overflow # "none" => ~Running /\ child # "running"

\* What the worker says, how much of it it has written and where that is.
SaidAndReceived ==
    /\ worker \in {"none", "boot", "read", "extract"} =>
           response = NoResponse /\ written["stdout"] = 0
    /\ response.says = "succeeded" => stage = Len(Stages)
    /\ written["stdout"] <= response.size
    /\ overflow = "none" => \A s \in Streams : buffer[s] + pipe[s] = written[s]

InStep == WorkerTypeOK /\ WorkerTypes /\ CallerInStep /\ KilledForGood /\ SaidAndReceived

Sound == InStep /\ AnswerIsTheWorkers /\ NothingRunsOn

-----------------------------------------------------------------------------
(* Lemmas about the operators.                                             *)

LEMMA Sizes ==
    /\ Request \in Nat /\ PipeSize \in Nat /\ MaxResponse \in Nat
    /\ \A s \in Streams : Limit[s] \in Nat
    /\ "stdout" \in Streams
  BY WorkerAssumption DEF Streams

LEMMA StageTable ==
    /\ Len(Stages) = 9
    /\ \A i \in 1..9 : Stages[i] \in StageNames
    /\ {"none", "aggregation"} \subseteq StageNames
<1>1. Len(Stages) = 9
  BY DEF Stages
<1> QED
  BY <1>1 DEF StageNames

\* Nothing of the group runs after killpg; who is reaped stays reaped.
LEMMA KillGroupKills ==
    ASSUME InStep, KillGroup
    PROVE  /\ ~Running' /\ child' # "running"
           /\ child = "none" => child' = "none"
           /\ worker' = IF Running THEN "zombie" ELSE worker
           /\ code' \in {"ok", "error", "signal"}
           /\ child' \in {"none", "running", "gone"}
           /\ stranger' \in {"none", "alive", "killed"}
  BY DEF InStep, WorkerTypeOK, WorkerTypes, KillGroup, Running

\* A unit more in a pipe, and written.
LEMMA PutAddsOne ==
    ASSUME InStep, NEW s \in Streams, Put(s)
    PROVE  /\ pipe' \in [Streams -> 0..PipeSize] /\ written' \in [Streams -> Nat]
           /\ pipe'[s] = pipe[s] + 1 /\ written'[s] = written[s] + 1
           /\ \A t \in Streams : t # s => pipe'[t] = pipe[t] /\ written'[t] = written[t]
  BY Sizes DEF InStep, WorkerTypeOK, WorkerTypes, Put

\* Respond answers with a response of its own.
LEMMA RespondAnswers ==
    ASSUME NEW says \in Says, NEW st \in StageNames, Respond(says, st)
    PROVE  /\ worker' = "respond"
           /\ response' \in [says : Says, stage : StageNames, size : Nat]
           /\ response'.says = says /\ response'.size \in Nat
  BY Sizes DEF Respond

-----------------------------------------------------------------------------
(* The invariant holds.                                                    *)

LEMMA InitInStep == WorkerInit => InStep
<1> SUFFICES ASSUME WorkerInit PROVE InStep
  OBVIOUS
<1>1. WorkerTypeOK
  <2>1. \A s \in Streams : buffer[s] \in 0..Limit[s]
    BY Sizes DEF WorkerInit
  <2>2. sent \in 0..Request /\ inbox \in 0..PipeSize /\ pipe \in [Streams -> 0..PipeSize]
    BY Sizes DEF WorkerInit
  <2>3. stage \in 0..Len(Stages)
    BY StageTable DEF WorkerInit
  <2> QED
    BY <2>1, <2>2, <2>3 DEF WorkerInit, WorkerTypeOK
<1>2. WorkerTypes
  BY StageTable DEF WorkerInit, WorkerTypes, NoResponse, Says
<1>3. CallerInStep /\ KilledForGood
  BY DEF WorkerInit, CallerInStep, KilledForGood
<1>4. SaidAndReceived
  BY Sizes DEF WorkerInit, SaidAndReceived, NoResponse
<1> QED
  BY <1>1, <1>2, <1>3, <1>4 DEF InStep

\* The caller: request, write, wait, kill, reap and join.
LEMMA MainInStep == ASSUME InStep, Main PROVE InStep'
<1> USE DEF caller, drains, process
<1>1. WorkerTypeOK /\ WorkerTypes /\ CallerInStep /\ KilledForGood /\ SaidAndReceived
  BY DEF InStep
<1>2. CASE Refuse
  <2>1. WorkerTypeOK' /\ WorkerTypes'
    BY <1>1, <1>2 DEF Refuse, WorkerTypeOK, WorkerTypes
  <2>2. CallerInStep' /\ KilledForGood' /\ SaidAndReceived'
    BY <1>1, <1>2
    DEF Refuse, CallerInStep, KilledForGood, SaidAndReceived, Running, Answer
  <2> QED
    BY <2>1, <2>2 DEF InStep
<1>3. CASE Spawn
  <2>1. WorkerTypeOK' /\ WorkerTypes'
    BY <1>1, <1>3 DEF Spawn, WorkerTypeOK, WorkerTypes
  <2>2. CallerInStep' /\ SaidAndReceived'
    BY <1>1, <1>3 DEF Spawn, CallerInStep, SaidAndReceived
  <2>3. KilledForGood'
    BY <1>1, <1>3 DEF Spawn, CallerInStep, KilledForGood
  <2> QED
    BY <2>1, <2>2, <2>3 DEF InStep
<1>4. CASE Write \/ CloseInput
  <2>1. WorkerTypeOK' /\ WorkerTypes'
    BY <1>1, <1>4, Sizes DEF Write, CloseInput, WorkerTypeOK, WorkerTypes
  <2>2. CallerInStep' /\ KilledForGood' /\ SaidAndReceived'
    BY <1>1, <1>4
    DEF Write, CloseInput, CallerInStep, KilledForGood, SaidAndReceived, Running
  <2> QED
    BY <2>1, <2>2 DEF InStep
<1>5. CASE InputBroken
  <2>1. WorkerTypeOK' /\ WorkerTypes'
    BY <1>1, <1>5 DEF InputBroken, WorkerTypeOK, WorkerTypes
  <2>2. CallerInStep' /\ KilledForGood' /\ SaidAndReceived'
    BY <1>1, <1>5
    DEF InputBroken, CallerInStep, KilledForGood, SaidAndReceived, Running, Answer
  <2> QED
    BY <2>1, <2>2 DEF InStep
<1>6. CASE WaitReturns \/ Reap
  <2>1. WorkerTypeOK' /\ WorkerTypes'
    BY <1>1, <1>6 DEF WaitReturns, Reap, WorkerTypeOK, WorkerTypes
  <2>2. CallerInStep' /\ KilledForGood' /\ SaidAndReceived'
    BY <1>1, <1>6
    DEF WaitReturns, Reap, CallerInStep, KilledForGood, SaidAndReceived, Running
  <2> QED
    BY <2>1, <2>2 DEF InStep
<1>7. CASE WaitTimesOut
  <2>1. WorkerTypeOK' /\ WorkerTypes'
    BY <1>1, <1>7 DEF WaitTimesOut, WorkerTypeOK, WorkerTypes
  <2>2. CallerInStep' /\ KilledForGood' /\ SaidAndReceived'
    BY <1>1, <1>7
    DEF WaitTimesOut, CallerInStep, KilledForGood, SaidAndReceived, Running
  <2> QED
    BY <2>1, <2>2 DEF InStep
<1>8. CASE KillAfterTimeout
  <2>1. /\ ~Running' /\ child' # "running"
        /\ worker' = IF Running THEN "zombie" ELSE worker
        /\ code' \in {"ok", "error", "signal"}
        /\ child' \in {"none", "running", "gone"}
        /\ stranger' \in {"none", "alive", "killed"}
    BY <1>8, KillGroupKills DEF KillAfterTimeout
  <2>2. WorkerTypeOK' /\ WorkerTypes'
    BY <1>1, <1>8, <2>1 DEF KillAfterTimeout, WorkerTypeOK, WorkerTypes, Running
  <2>3. CallerInStep' /\ KilledForGood' /\ SaidAndReceived'
    BY <1>1, <1>8, <2>1
    DEF KillAfterTimeout, CallerInStep, KilledForGood, SaidAndReceived, Running
  <2> QED
    BY <2>2, <2>3 DEF InStep
<1>9. CASE Join
  <2>1. WorkerTypeOK' /\ WorkerTypes'
    BY <1>1, <1>9 DEF Join, WorkerTypeOK, WorkerTypes
  <2>2. CallerInStep' /\ KilledForGood' /\ SaidAndReceived'
    BY <1>1, <1>9
    DEF Join, CallerInStep, KilledForGood, SaidAndReceived, Running
  <2> QED
    BY <2>1, <2>2 DEF InStep
<1> QED
  BY <1>2, <1>3, <1>4, <1>5, <1>6, <1>7, <1>8, <1>9 DEF Main

\* The draining threads.
LEMMA DrainInStep ==
    ASSUME InStep, NEW s \in Streams, Drain(s) \/ DrainEnds(s)
    PROVE  InStep'
<1> USE DEF caller, process
<1>1. WorkerTypeOK /\ WorkerTypes /\ CallerInStep /\ KilledForGood /\ SaidAndReceived
  BY DEF InStep
<1>2. CASE DrainEnds(s)
  <2>1. WorkerTypeOK' /\ WorkerTypes'
    BY <1>1, <1>2 DEF DrainEnds, WorkerTypeOK, WorkerTypes
  <2>2. CallerInStep' /\ KilledForGood' /\ SaidAndReceived'
    BY <1>1, <1>2
    DEF DrainEnds, CallerInStep, KilledForGood, SaidAndReceived, Running, WorkerTypeOK
  <2> QED
    BY <2>1, <2>2 DEF InStep
<1>3. ASSUME Drain(s)
      PROVE  /\ pipe' \in [Streams -> 0..PipeSize] /\ pipe'[s] = pipe[s] - 1
             /\ \A t \in Streams : t # s => pipe'[t] = pipe[t]
             /\ UNCHANGED <<caller, reader, stage, response, written, answer>>
             /\ reader[s] = "reading" /\ main # "request"
  BY <1>1, <1>3, Sizes DEF Drain, WorkerTypeOK
<1>4. CASE Drain(s) /\ buffer[s] < Limit[s]
  <2>1. /\ buffer' \in [Streams -> Nat] /\ buffer'[s] = buffer[s] + 1
        /\ \A t \in Streams : t # s => buffer'[t] = buffer[t]
        /\ UNCHANGED <<overflow, worker, code, child, stranger>>
    <3>1. buffer' = [buffer EXCEPT ![s] = @ + 1]
          /\ UNCHANGED <<overflow, worker, code, child, stranger>>
      BY <1>4 DEF Drain
    <3> QED
      BY <1>1, <3>1 DEF WorkerTypes
  <2>2. \A t \in Streams : buffer'[t] \in 0..Limit[t]
    <3>1. buffer[s] \in Nat /\ Limit[s] \in Nat
      BY <1>1, Sizes DEF WorkerTypes
    <3> QED
      BY <1>1, <1>4, <2>1, <3>1 DEF WorkerTypeOK
  <2>3. WorkerTypeOK' /\ WorkerTypes'
    BY <1>1, <1>3, <1>4, <2>1, <2>2 DEF WorkerTypeOK, WorkerTypes
  <2>4. CallerInStep' /\ KilledForGood'
    BY <1>1, <1>3, <1>4, <2>1 DEF CallerInStep, KilledForGood, Running
  <2>5. overflow = "none" => \A t \in Streams : buffer'[t] + pipe'[t] = written'[t]
    <3>1. /\ pipe[s] \in Nat /\ buffer[s] \in Nat
          /\ buffer'[s] + pipe'[s] = buffer[s] + pipe[s]
      BY <1>1, <1>3, <1>4, <2>1, Sizes DEF WorkerTypeOK, WorkerTypes
    <3> QED
      BY <1>1, <1>3, <1>4, <2>1, <3>1 DEF SaidAndReceived
  <2>6. SaidAndReceived'
    BY <1>1, <1>3, <1>4, <2>1, <2>5 DEF SaidAndReceived
  <2> QED
    BY <2>3, <2>4, <2>6 DEF InStep
<1>5. CASE Drain(s) /\ ~(buffer[s] < Limit[s])
  <2>1. /\ UNCHANGED buffer
        /\ overflow' \in Streams /\ overflow' # "none"
        /\ ~Running' /\ child' # "running"
        /\ child = "none" => child' = "none"
        /\ worker' = IF Running THEN "zombie" ELSE worker
        /\ code' \in {"ok", "error", "signal"}
        /\ child' \in {"none", "running", "gone"}
        /\ stranger' \in {"none", "alive", "killed"}
    <3>1. CASE overflow = "none"
      BY <1>5, <3>1, KillGroupKills DEF Drain, Streams
    <3>2. CASE overflow # "none"
      BY <1>1, <1>5, <3>2 DEF Drain, WorkerTypeOK, WorkerTypes, KilledForGood, Running
    <3> QED
      BY <3>1, <3>2
  <2>2. WorkerTypeOK' /\ WorkerTypes'
    BY <1>1, <1>3, <1>5, <2>1 DEF WorkerTypeOK, WorkerTypes, Running
  <2>3. CallerInStep'
    BY <1>1, <1>3, <1>5, <2>1 DEF CallerInStep, Running
  <2>4. KilledForGood'
    BY <2>1 DEF KilledForGood, Running
  <2>5. SaidAndReceived'
    BY <1>1, <1>3, <1>5, <2>1 DEF SaidAndReceived, Running
  <2> QED
    BY <2>2, <2>3, <2>4, <2>5 DEF InStep
<1> QED
  BY <1>2, <1>4, <1>5

\* The worker and its decoder.
LEMMA WorkerInStep == ASSUME InStep, Worker PROVE InStep'
<1> USE DEF caller, drains, Running
<1>1. WorkerTypeOK /\ WorkerTypes /\ CallerInStep /\ KilledForGood /\ SaidAndReceived
  BY DEF InStep
<1>2. CASE Boot
  <2>1. WorkerTypeOK' /\ WorkerTypes'
    BY <1>1, <1>2 DEF Boot, WorkerTypeOK, WorkerTypes
  <2>2. CallerInStep' /\ KilledForGood' /\ SaidAndReceived'
    BY <1>1, <1>2 DEF Boot, CallerInStep, KilledForGood, SaidAndReceived
  <2> QED
    BY <2>1, <2>2 DEF InStep
<1>3. CASE ReadRequest
  <2>1. WorkerTypeOK' /\ WorkerTypes'
    BY <1>1, <1>3, Sizes DEF ReadRequest, process, WorkerTypeOK, WorkerTypes
  <2>2. CallerInStep' /\ KilledForGood' /\ SaidAndReceived'
    BY <1>1, <1>3 DEF ReadRequest, process, CallerInStep, KilledForGood, SaidAndReceived
  <2> QED
    BY <2>1, <2>2 DEF InStep
<1>4. CASE ParseRequest
  <2>1. /\ worker = "read" /\ main \notin {"request", "write"}
        /\ UNCHANGED <<caller, drains, written, code, child, stranger, answer>>
        /\ \/ worker' = "extract" /\ stage' = 1 /\ UNCHANGED response
           \/ /\ worker' = "respond" /\ UNCHANGED stage
              /\ response' \in [says : Says, stage : StageNames, size : Nat]
              /\ response'.says = "failed"
    BY <1>4, StageTable, RespondAnswers DEF ParseRequest, Says
  <2>2. WorkerTypeOK' /\ WorkerTypes'
    BY <1>1, <2>1, StageTable DEF WorkerTypeOK, WorkerTypes
  <2>3. CallerInStep' /\ KilledForGood'
    BY <1>1, <2>1 DEF CallerInStep, KilledForGood
  <2>4. SaidAndReceived'
    BY <1>1, <2>1 DEF SaidAndReceived, NoResponse
  <2> QED
    BY <2>2, <2>3, <2>4 DEF InStep
<1>5. CASE StartChild \/ ChildEnds
  <2>1. WorkerTypeOK' /\ WorkerTypes'
    BY <1>1, <1>5 DEF StartChild, ChildEnds, WorkerTypeOK, WorkerTypes
  <2>2. CallerInStep' /\ KilledForGood' /\ SaidAndReceived'
    BY <1>1, <1>5 DEF StartChild, ChildEnds, CallerInStep, KilledForGood, SaidAndReceived
  <2> QED
    BY <2>1, <2>2 DEF InStep
<1>6. CASE StageEnds \/ StageFails
  <2>1. /\ worker = "extract" /\ child' = "none"
        /\ UNCHANGED <<caller, drains, written, code, stranger, answer>>
        /\ \/ /\ stage < Len(Stages) /\ stage' = stage + 1
              /\ UNCHANGED <<worker, response>>
           \/ /\ worker' = "respond" /\ UNCHANGED stage
              /\ response' \in [says : Says, stage : StageNames, size : Nat]
              /\ response'.says = "succeeded" => stage = Len(Stages)
    <3>1. Stages[stage] \in StageNames \/ worker # "extract"
      BY <1>1, StageTable DEF WorkerTypes
    <3>2. CASE StageEnds
      BY <1>1, <3>2, StageTable, RespondAnswers DEF StageEnds, Says
    <3>3. CASE StageFails
      BY <1>1, <3>1, <3>3, RespondAnswers DEF StageFails, Says
    <3> QED
      BY <1>6, <3>2, <3>3
  <2>2. WorkerTypeOK' /\ WorkerTypes'
    BY <1>1, <2>1, StageTable DEF WorkerTypeOK, WorkerTypes
  <2>3. CallerInStep' /\ KilledForGood'
    BY <1>1, <2>1 DEF CallerInStep, KilledForGood
  <2>4. SaidAndReceived'
    BY <1>1, <2>1 DEF SaidAndReceived, NoResponse
  <2> QED
    BY <2>2, <2>3, <2>4 DEF InStep
<1>7. CASE Garble
  <2>1. /\ response' \in [says : Says, stage : StageNames, size : Nat]
        /\ response'.says = "garbage" /\ response'.size = response.size
    BY <1>1, <1>7 DEF Garble, WorkerTypes, Says
  <2>2. WorkerTypeOK' /\ WorkerTypes'
    BY <1>1, <1>7, <2>1 DEF Garble, WorkerTypeOK, WorkerTypes
  <2>3. CallerInStep' /\ KilledForGood' /\ SaidAndReceived'
    BY <1>1, <1>7, <2>1 DEF Garble, CallerInStep, KilledForGood, SaidAndReceived
  <2> QED
    BY <2>2, <2>3 DEF InStep
<1>8. CASE WriteResponse \/ Complain
  <2>1. PICK s \in Streams :
           /\ Put(s) /\ Running
           /\ s = "stdout" => worker = "respond" /\ written["stdout"] < response.size
    BY <1>8, Sizes DEF WriteResponse, Complain, Streams
  <2>2. /\ pipe' \in [Streams -> 0..PipeSize] /\ written' \in [Streams -> Nat]
        /\ pipe'[s] = pipe[s] + 1 /\ written'[s] = written[s] + 1
        /\ \A t \in Streams : t # s => pipe'[t] = pipe[t] /\ written'[t] = written[t]
        /\ UNCHANGED <<caller, reader, buffer, overflow, worker, stage, response, code, child,
                       stranger, answer>>
    BY <1>1, <2>1, PutAddsOne DEF Put, InStep
  <2>3. WorkerTypeOK' /\ WorkerTypes'
    BY <1>1, <2>2 DEF WorkerTypeOK, WorkerTypes
  <2>4. CallerInStep' /\ KilledForGood'
    BY <1>1, <2>2 DEF CallerInStep, KilledForGood
  <2>5. written'["stdout"] <= response'.size
    BY <1>1, <2>1, <2>2, Sizes DEF SaidAndReceived, WorkerTypes
  <2>6. worker \in {"none", "boot", "read", "extract"} => written'["stdout"] = 0
    BY <1>1, <2>1, <2>2, Sizes DEF SaidAndReceived
  <2>7. overflow = "none" => \A t \in Streams : buffer[t] + pipe'[t] = written'[t]
    <3>1. \A t \in Streams : pipe[t] \in Nat /\ buffer[t] \in Nat /\ written[t] \in Nat
      BY <1>1, Sizes DEF WorkerTypeOK, WorkerTypes
    <3>2. overflow = "none" => \A t \in Streams : buffer[t] + pipe[t] = written[t]
      BY <1>1 DEF SaidAndReceived
    <3>3. ASSUME overflow = "none", NEW t \in Streams
          PROVE  buffer[t] + pipe'[t] = written'[t]
      <4>1. CASE t = s
        <5>1. /\ pipe[s] \in Nat /\ buffer[s] \in Nat /\ written[s] \in Nat
              /\ buffer[s] + pipe[s] = written[s]
          BY <3>1, <3>2, <3>3
        <5>2. pipe'[s] = pipe[s] + 1 /\ written'[s] = written[s] + 1
          BY <2>2
        <5> QED
          BY <4>1, <5>1, <5>2
      <4>2. CASE t # s
        BY <2>2, <3>1, <3>2, <3>3, <4>2
      <4> QED
        BY <4>1, <4>2
    <3> QED
      BY <3>3
  <2>8. SaidAndReceived'
    BY <1>1, <2>2, <2>5, <2>6, <2>7 DEF SaidAndReceived
  <2> QED
    BY <2>3, <2>4, <2>8 DEF InStep
<1>9. CASE Exit \/ Crash
  <2>1. WorkerTypeOK' /\ WorkerTypes'
    BY <1>1, <1>9 DEF Exit, Crash, WorkerTypeOK, WorkerTypes
  <2>2. CallerInStep' /\ KilledForGood' /\ SaidAndReceived'
    BY <1>1, <1>9 DEF Exit, Crash, CallerInStep, KilledForGood, SaidAndReceived
  <2> QED
    BY <2>1, <2>2 DEF InStep
<1> QED
  BY <1>2, <1>3, <1>4, <1>5, <1>6, <1>7, <1>8, <1>9 DEF Worker

LEMMA StepInStep == ASSUME InStep, [WorkerNext]_workerVars PROVE InStep'
<1>1. CASE PidReused
  <2>1. WorkerTypeOK /\ WorkerTypes /\ CallerInStep /\ KilledForGood /\ SaidAndReceived
    BY DEF InStep
  <2>2. WorkerTypeOK' /\ WorkerTypes'
    BY <1>1, <2>1 DEF PidReused, caller, drains, process, WorkerTypeOK, WorkerTypes
  <2>3. CallerInStep' /\ KilledForGood' /\ SaidAndReceived'
    BY <1>1, <2>1 DEF PidReused, caller, drains, process, CallerInStep, KilledForGood,
       SaidAndReceived, Running
  <2> QED
    BY <2>2, <2>3 DEF InStep
<1>2. CASE Collect
  <2>1. WorkerTypeOK /\ WorkerTypes /\ CallerInStep /\ KilledForGood /\ SaidAndReceived
    BY DEF InStep
  <2>2. WorkerTypeOK' /\ WorkerTypes'
    BY <1>2, <2>1 DEF Collect, caller, drains, WorkerTypeOK, WorkerTypes
  <2>3. CallerInStep' /\ KilledForGood' /\ SaidAndReceived'
    BY <1>2, <2>1 DEF Collect, caller, drains, CallerInStep, KilledForGood, SaidAndReceived,
       Running
  <2> QED
    BY <2>2, <2>3 DEF InStep
<1>3. CASE UNCHANGED workerVars
  <2>1. WorkerTypeOK /\ WorkerTypes /\ CallerInStep /\ KilledForGood /\ SaidAndReceived
    BY DEF InStep
  <2>2. WorkerTypeOK' /\ WorkerTypes'
    BY <1>3, <2>1 DEF workerVars, caller, drains, process, WorkerTypeOK, WorkerTypes
  <2>3. CallerInStep' /\ KilledForGood' /\ SaidAndReceived'
    BY <1>3, <2>1 DEF workerVars, caller, drains, process, CallerInStep, KilledForGood,
       SaidAndReceived, Running
  <2> QED
    BY <2>2, <2>3 DEF InStep
<1> QED
  BY <1>1, <1>2, <1>3, MainInStep, WorkerInStep, DrainInStep DEF WorkerNext

-----------------------------------------------------------------------------
(* What extract answers.                                                   *)

\* The answer comes in one step, and what it is about stays: the worker runs no
\* more, and is reaped with the threads done unless the pipe broke.
LEMMA AnswerKept ==
    ASSUME InStep, AnswerIsTheWorkers, NothingRunsOn, [WorkerNext]_workerVars, main = "done"
    PROVE  AnswerIsTheWorkers' /\ NothingRunsOn'
<1>1. \/ worker = "none" /\ answer.is = "refused"
      \/ worker = "reaped" /\ \A s \in Streams : reader[s] = "done"
      \/ worker = "zombie" /\ answer.is = "broken"
  <2>1. CallerInStep /\ main = "done"
    BY DEF InStep
  <2> QED
    BY <2>1 DEF CallerInStep
<1>2. ~Main
  BY DEF Main, Refuse, Spawn, Write, CloseInput, InputBroken, WaitReturns, WaitTimesOut,
     KillAfterTimeout, Reap, Join
<1>3. ~Running
  BY <1>1 DEF Running
<1>4. Worker => /\ UNCHANGED <<main, late, answer>>
                /\ UNCHANGED <<worker, stage, response, code, overflow, buffer, reader>>
                /\ child' = "running" => child = "running"
  BY <1>3 DEF Worker, Boot, ReadRequest, ParseRequest, StartChild, ChildEnds, StageEnds,
     StageFails, Garble, WriteResponse, Complain, Put, Exit, Crash, Running, caller, drains,
     process
<1>5. UNCHANGED <<main, late, answer>>
  BY <1>2, <1>4 DEF WorkerNext, workerVars, Collect, PidReused, Drain, DrainEnds, caller
<1>6. CASE answer.is \in {"refused", "broken"}
  <2>1. ~Running' /\ (child' = "running" => child = "running")
    <3>1. CASE \E s \in Streams : Drain(s) /\ overflow = "none" /\ KillGroup
      BY <3>1, KillGroupKills
    <3>2. CASE ~\E s \in Streams : Drain(s) /\ overflow = "none" /\ KillGroup
      BY <1>2, <1>3, <1>4, <3>2
      DEF WorkerNext, Collect, PidReused, Drain, DrainEnds, workerVars, process, Running
    <3> QED
      BY <3>1, <3>2
  <2> QED
    BY <1>5, <1>6, <2>1 DEF AnswerIsTheWorkers, NothingRunsOn
<1>7. CASE answer.is \notin {"refused", "broken"}
  <2>1. worker = "reaped" /\ \A s \in Streams : reader[s] = "done"
    BY <1>1, <1>7
  <2>2. /\ UNCHANGED <<worker, stage, response, code, overflow, buffer, reader>>
        /\ child' = "running" => child = "running"
    BY <1>2, <1>4, <2>1 DEF WorkerNext, Collect, PidReused, Drain, DrainEnds, workerVars, drains,
        process
  <2> QED
    BY <1>3, <1>5, <2>1, <2>2 DEF AnswerIsTheWorkers, NothingRunsOn, Running
<1> QED
  BY <1>6, <1>7

\* Join: the threads have read all there is, so a response as long as what was
\* received is the whole one.
LEMMA AnswerGiven ==
    ASSUME InStep, Join
    PROVE  AnswerIsTheWorkers' /\ NothingRunsOn'
<1>1. /\ WorkerTypeOK /\ WorkerTypes /\ CallerInStep /\ KilledForGood /\ SaidAndReceived
      /\ answer' = ExtractOutcome /\ main = "join"
      /\ \A s \in Streams : reader[s] = "done"
      /\ UNCHANGED <<sent, inbox, late, drains, process, stranger>>
  BY DEF InStep, Join
<1>2. UNCHANGED <<stage, response, code, late, overflow, buffer, worker, reader, child>>
  BY <1>1 DEF drains, process
<1>3. response.says \in Says
  BY <1>1 DEF WorkerTypes
<1>4. answer'.is \in {"timeout", "overflow"} => late \/ overflow # "none"
  BY <1>1, <1>3 DEF ExtractOutcome, Parsed, Answer, Says
<1>5. NothingRunsOn'
  <2>1. answer'.is # "broken" /\ worker = "reaped"
    BY <1>1, <1>3 DEF ExtractOutcome, Parsed, Answer, Says, CallerInStep
  <2> QED
    BY <1>1, <1>2, <1>4, <2>1 DEF KilledForGood, NothingRunsOn, Running
<1>6. answer'.is \in {"succeeded", "failed"} =>
         /\ ~late /\ overflow = "none" /\ code = "ok"
         /\ ~(buffer["stdout"] < response.size)
         /\ answer'.is = response.says /\ answer'.stage = response.stage
  BY <1>1, <1>3 DEF ExtractOutcome, Parsed, Answer, Says
<1>7. overflow = "none" => buffer["stdout"] <= response.size
  <2>1. /\ pipe["stdout"] \in Nat /\ buffer["stdout"] \in Nat
        /\ written["stdout"] \in Nat /\ response.size \in Nat
    BY <1>1, Sizes DEF WorkerTypeOK, WorkerTypes
  <2> QED
    BY <1>1, <2>1, Sizes DEF SaidAndReceived
<1>8. AnswerIsTheWorkers'
  <2>1. buffer["stdout"] \in Nat /\ response.size \in Nat
    BY <1>1, Sizes DEF WorkerTypes
  <2>2. answer'.is = "succeeded" => buffer["stdout"] = response.size
    BY <1>6, <1>7, <2>1
  <2> QED
    BY <1>1, <1>2, <1>6, <2>2 DEF SaidAndReceived, AnswerIsTheWorkers
<1> QED
  BY <1>5, <1>8

LEMMA StepSound == ASSUME Sound, [WorkerNext]_workerVars PROVE Sound'
<1>1. InStep /\ AnswerIsTheWorkers /\ NothingRunsOn
  BY DEF Sound
<1>2. InStep'
  BY <1>1, StepInStep
<1>3. CASE main = "done"
  BY <1>1, <1>2, <1>3, AnswerKept DEF Sound
<1>4. CASE Join
  BY <1>1, <1>2, <1>4, AnswerGiven DEF Sound
<1>5. CASE main # "done" /\ ~Join
  <2>1. main' = "done" => Refuse \/ InputBroken
    <3>1. ASSUME Main, main' = "done" PROVE Refuse \/ InputBroken
      <4>1. \/ Refuse \/ Spawn \/ Write \/ CloseInput \/ InputBroken \/ WaitReturns
            \/ WaitTimesOut \/ KillAfterTimeout \/ Reap
        BY <1>5, <3>1 DEF Main
      <4> QED
        BY <1>5, <3>1, <4>1 DEF Spawn, Write, CloseInput, WaitReturns, WaitTimesOut,
           KillAfterTimeout, Reap
    <3>2. Worker => main' = main
      BY DEF Worker, Boot, ReadRequest, ParseRequest, StartChild, ChildEnds, StageEnds,
         StageFails, Garble, WriteResponse, Complain, Put, Exit, Crash, caller
    <3>3. PidReused \/ Collect \/ (\E s \in Streams : Drain(s) \/ DrainEnds(s))
              \/ UNCHANGED workerVars => main' = main
      BY DEF PidReused, Collect, Drain, DrainEnds, workerVars, caller
    <3>4. CASE ~Main
      <4>1. main' = main
        BY <3>2, <3>3, <3>4 DEF WorkerNext
      <4> QED
        BY <1>5, <4>1
    <3> QED
      BY <3>1, <3>4
  <2>2. CASE main' # "done"
    BY <1>2, <2>2
    DEF InStep, CallerInStep, AnswerIsTheWorkers, NothingRunsOn, NoAnswer, Answer, Sound
  <2>3. CASE main' = "done" /\ Refuse
    BY <1>1, <1>2, <2>3
    DEF Refuse, InStep, CallerInStep, AnswerIsTheWorkers, NothingRunsOn, Answer, Sound, process,
        Running
  <2>4. CASE main' = "done" /\ InputBroken
    BY <1>1, <1>2, <2>4
    DEF InputBroken, InStep, CallerInStep, AnswerIsTheWorkers, NothingRunsOn, Answer, Sound,
        process, Running
  <2> QED
    BY <2>1, <2>2, <2>3, <2>4
<1> QED
  BY <1>3, <1>4, <1>5

LEMMA AlwaysSound == WorkerSpec => []Sound
<1>1. WorkerInit => Sound
  BY InitInStep DEF WorkerInit, Sound, AnswerIsTheWorkers, NothingRunsOn, NoAnswer, Answer
<1>2. Sound /\ [WorkerNext]_workerVars => Sound'
  BY StepSound
<1> QED
  BY <1>1, <1>2, PTL DEF WorkerSpec

\* What extract returns is what the worker reported after its last stage, whole,
\* in time and from a process that exited normally; a failure names the stage
\* that raised; no thread keeps more than its limit (extract, _parse_response).
THEOREM AnswersTrue == WorkerSpec => []AnswerIsSound
<1>1. Sound => AnswerIsSound
  BY DEF Sound, InStep, AnswerIsSound
<1> QED
  BY <1>1, AlwaysSound, PTL

\* Whatever extract answers, the worker runs no more, and after a timeout, an
\* overflow or a broken pipe neither does its decoder; every answer but the broken
\* pipe has reaped the worker and joined the threads (_communicate_bounded).
THEOREM WorkIsStopped == WorkerSpec => []NothingRunsOn
<1>1. Sound => NothingRunsOn
  BY DEF Sound
<1> QED
  BY <1>1, AlwaysSound, PTL
=============================================================================
