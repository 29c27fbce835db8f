------------------------- MODULE BackgroundJobsProofs -------------------------
(***************************************************************************)
(* Proofs about BackgroundJobs, for any jobs and any process ids.          *)
(***************************************************************************)
EXTENDS BackgroundJobs, TLAPS

-----------------------------------------------------------------------------
(* What the launcher and the record know of the process.  All of it is about *)
(* one job; the only thing jobs share is the process ids.                    *)

LauncherKnows(j) ==
    /\ launcher[j] = "idle" => record[j].status = "none" /\ child[j] = "none"
    /\ launcher[j] = "created" => record[j].status = "starting" /\ child[j] = "none"
    /\ launcher[j] \in {"persist_launch_failed", "launch_failed"} => child[j] = "none"
    /\ launcher[j] \in {"persist_launch_start_failed", "launch_start_failed"} => child[j] = "gone"
    /\ launcher[j] \in {"launch_failed", "launch_start_failed"} => record[j].status = "failed"
    /\ launcher[j] \in {"started", "returned"} => record[j].status \notin {"none", "starting"}

RecordKnows(j) ==
    /\ record[j].status = "running" => record[j].pid = pid[j]
    /\ record[j].code = "cleanup_failed" => record[j].status = "unknown"
    /\ record[j].code = "job" => IsTerminal(j) /\ result[j] = record[j].status
    /\ record[j].status \in {"succeeded", "partial"} => result[j] = record[j].status
    /\ IsTerminal(j) /\ record[j].code # "cleanup_failed" => ~Executing(j)
    /\ child[j] = "finished" => result[j] \in Results
    /\ j \in lost => record[j].code = "cleanup_failed" /\ IsTerminal(j)

Known == TypeOK /\ \A j \in Jobs : LauncherKnows(j) /\ RecordKnows(j)

\* What is known of a job survives any step that leaves it alone.
LEMMA KnownOfOthers ==
    ASSUME NEW k, LauncherKnows(k), RecordKnows(k),
           UNCHANGED <<record[k], launcher[k], child[k], pid[k], result[k]>>,
           k \in lost' => k \in lost
    PROVE  LauncherKnows(k)' /\ RecordKnows(k)'
  BY DEF LauncherKnows, RecordKnows, IsTerminal, Executing

\* The columns of a record.
LEMMA RecordColumns ==
    ASSUME TypeOK, NEW j \in Jobs
    PROVE  /\ record[j] \in Record /\ DOMAIN record = Jobs
           /\ record[j].status \in {"none", "starting", "running"} \cup Terminal
           /\ record[j].pid \in Pids \cup {NoPid} /\ record[j].code \in Codes
           /\ ~IsTerminal(j) <=> record[j].status \in {"none", "starting", "running"}
  BY DEF TypeOK, Record, IsTerminal, Terminal, Results

\* record_result, fail and mark_unknown write a terminal record, once.
LEMMA SettleWrites ==
    ASSUME TypeOK, NEW j \in Jobs, NEW status \in Terminal, NEW code \in Codes,
           Settle(j, status, code)
    PROVE  /\ ~IsTerminal(j) /\ record' \in [Jobs -> Record]
           /\ record'[j].status = status /\ record'[j].code = code
           /\ record'[j].pid = record[j].pid
           /\ \A k \in Jobs : k # j => record'[k] = record[k]
<1>1. record[j] \in Record /\ DOMAIN record = Jobs
  BY RecordColumns
<1> DEFINE new == [record[j] EXCEPT !.status = status, !.code = code]
<1>2. /\ new \in Record /\ new.status = status /\ new.code = code
      /\ new.pid = record[j].pid
  BY <1>1 DEF Record
<1>3. record' = [record EXCEPT ![j] = new] /\ ~IsTerminal(j)
  BY <1>1 DEF Settle
<1> HIDE DEF new
<1> QED
  BY <1>1, <1>2, <1>3 DEF TypeOK

\* create writes a starting record.
LEMMA CreateWrites ==
    ASSUME TypeOK, NEW j \in Jobs, record' = [record EXCEPT ![j].status = "starting"]
    PROVE  /\ record' \in [Jobs -> Record]
           /\ record'[j].status = "starting" /\ record'[j].code = record[j].code
           /\ \A k \in Jobs : k # j => record'[k] = record[k]
<1>1. record[j] \in Record /\ DOMAIN record = Jobs
  BY RecordColumns
<1> QED
  BY <1>1 DEF TypeOK, Record

\* start writes a running one, with the pid of the child.
LEMMA StartWrites ==
    ASSUME TypeOK, NEW j \in Jobs,
           record' = [record EXCEPT ![j].status = "running", ![j].pid = pid[j]]
    PROVE  /\ record' \in [Jobs -> Record]
           /\ record'[j].status = "running" /\ record'[j].pid = pid[j]
           /\ record'[j].code = record[j].code
           /\ \A k \in Jobs : k # j => record'[k] = record[k]
<1>1. record[j] \in Record /\ DOMAIN record = Jobs /\ pid[j] \in Pids \cup {NoPid}
  BY RecordColumns DEF TypeOK
<1> DEFINE new == [record[j] EXCEPT !.status = "running", !.pid = pid[j]]
<1>2. new \in Record /\ new.status = "running" /\ new.pid = pid[j] /\ new.code = record[j].code
  BY <1>1 DEF Record
<1>3. record' = [record EXCEPT ![j] = new]
  BY <1>1
<1> HIDE DEF new
<1>4. record \in [Jobs -> Record]
  BY DEF TypeOK
<1>5. record' \in [Jobs -> Record] /\ record'[j] = new
  BY <1>2, <1>3, <1>4
<1>6. \A k \in Jobs : k # j => record'[k] = record[k]
  BY <1>3, <1>4
<1> QED
  BY <1>2, <1>5, <1>6

\* list only writes off running records whose process executes no more: while it
\* executes, its pid answers.
LEMMA NoticeWrites ==
    ASSUME Known, NEW found \in SUBSET Missing, Notice(found)
    PROVE  /\ record' \in [Jobs -> Record]
           /\ \A j \in Jobs :
                 \/ record'[j] = record[j]
                 \/ /\ record[j].status = "running" /\ ~Executing(j)
                    /\ record'[j].status = "unknown" /\ record'[j].code = "process_missing"
<1>1. TypeOK /\ found \subseteq Jobs
  BY DEF Known, Missing
<1>2. ASSUME NEW j \in Jobs
      PROVE  [record[j] EXCEPT !.status = "unknown", !.code = "process_missing"] \in Record
  BY <1>1, RecordColumns DEF Record, Terminal, Codes
<1>3. record' \in [Jobs -> Record]
  BY <1>1, <1>2 DEF Notice, TypeOK
<1>4. ASSUME NEW j \in found PROVE record[j].status = "running" /\ ~Executing(j)
  <2>1. record[j].status = "running" /\ record[j].pid \notin PidsInUse /\ j \in Jobs
    BY DEF Missing, Alive
  <2>2. record[j].pid = pid[j]
    BY <2>1 DEF Known, RecordKnows
  <2> QED
    BY <2>1, <2>2 DEF PidsInUse, Exists, Executing
<1>5. ASSUME NEW j \in found
      PROVE  record'[j].status = "unknown" /\ record'[j].code = "process_missing"
  BY <1>1, RecordColumns DEF Notice, Record
<1> QED
  BY <1>1, <1>3, <1>4, <1>5 DEF Notice

\* Nothing is known of a job before it is launched.
LEMMA InitKnown == Init => Known
<1> SUFFICES ASSUME Init PROVE Known
  OBVIOUS
<1>1. [status |-> "none", pid |-> NoPid, code |-> "none"] \in Record
  BY DEF Record, Codes
<1>2. TypeOK
  BY <1>1 DEF Init, TypeOK
<1>3. ASSUME NEW j \in Jobs PROVE LauncherKnows(j) /\ RecordKnows(j)
  <2>1. record[j].status = "none" /\ record[j].code = "none"
        /\ launcher[j] = "idle" /\ child[j] = "none" /\ lost = {}
    BY DEF Init
  <2> QED
    BY <2>1 DEF LauncherKnows, RecordKnows, IsTerminal, Terminal, Results
<1> QED
  BY <1>2, <1>3 DEF Known

\* Launching: create, spawn and start.
LEMMA LaunchKnown ==
    ASSUME Known, NEW j \in Jobs,
           \/ Create(j) \/ CreateRaises(j) \/ Spawn(j) \/ SpawnFails(j)
           \/ Start(j) \/ StartRaises(j) \/ GiveUp(j)
    PROVE  Known'
<1>1. TypeOK /\ \A k \in Jobs : LauncherKnows(k) /\ RecordKnows(k)
  BY DEF Known
<1>2. /\ UNCHANGED <<result, lost, others, born>>
      /\ launcher' \in [Jobs -> {"idle", "created", "spawned", "started", "check", "cleanup"}
                                 \cup Persisting \cup Answers]
      /\ child' \in [Jobs -> {"none", "working", "finished", "zombie", "gone"}]
      /\ pid' \in [Jobs -> Pids \cup {NoPid}]
  BY <1>1 DEF TypeOK, Create, CreateRaises, Spawn, SpawnFails, Start, StartRaises, GiveUp,
     Persisting, Answers
<1>3. /\ record' \in [Jobs -> Record]
      /\ \A k \in Jobs : k # j =>
            UNCHANGED <<record[k], launcher[k], child[k], pid[k], result[k]>>
  <2>1. /\ record' \in [Jobs -> Record]
        /\ \A k \in Jobs : k # j => record'[k] = record[k]
    BY <1>1, CreateWrites, StartWrites
    DEF TypeOK, Create, CreateRaises, Spawn, SpawnFails, Start, StartRaises, GiveUp
  <2>2. \A k \in Jobs : k # j => UNCHANGED <<launcher[k], child[k], pid[k], result[k]>>
    BY <1>1
    DEF TypeOK, Create, CreateRaises, Spawn, SpawnFails, Start, StartRaises, GiveUp
  <2> QED
    BY <2>1, <2>2
<1>4. TypeOK'
  BY <1>1, <1>2, <1>3 DEF TypeOK
<1>5. \A k \in Jobs : k # j => LauncherKnows(k)' /\ RecordKnows(k)'
  BY <1>1, <1>2, <1>3, KnownOfOthers
<1>6. LauncherKnows(j) /\ RecordKnows(j)
  BY <1>1
<1>7. CASE Create(j) \/ CreateRaises(j)
  <2>1. /\ launcher[j] = "idle" /\ launcher'[j] \in {"created", "create_failed"}
        /\ UNCHANGED <<child, pid>>
    BY <1>1, <1>7 DEF TypeOK, Create, CreateRaises
  <2>2. \/ record'[j] = record[j] /\ launcher'[j] = "create_failed"
        \/ record'[j].status = "starting" /\ record'[j].code = record[j].code
    BY <1>1, <1>7, CreateWrites DEF TypeOK, Create, CreateRaises
  <2> QED
    BY <1>2, <1>4, <1>5, <1>6, <2>1, <2>2
    DEF Known, LauncherKnows, RecordKnows, IsTerminal, Executing, Terminal, Results
<1>8. CASE Spawn(j) \/ SpawnFails(j)
  <2>1. /\ launcher[j] = "created" /\ UNCHANGED record
        /\ \/ launcher'[j] = "spawned" /\ child'[j] = "working"
           \/ launcher'[j] = "persist_launch_failed" /\ child'[j] = child[j]
    BY <1>1, <1>8 DEF TypeOK, Spawn, SpawnFails
  <2> QED
    BY <1>2, <1>4, <1>5, <1>6, <2>1
    DEF Known, LauncherKnows, RecordKnows, IsTerminal, Executing, Terminal, Results
<1>9. CASE Start(j) \/ StartRaises(j)
  <2>1. launcher'[j] \in {"started", "check"} /\ UNCHANGED <<child, pid>>
    BY <1>1, <1>9 DEF TypeOK, Start, StartRaises
  <2>2. \/ record'[j] = record[j] /\ launcher'[j] = "check"
        \/ /\ record[j].status = "starting"
           /\ record'[j].status = "running" /\ record'[j].pid = pid[j]
           /\ record'[j].code = record[j].code
    BY <1>1, <1>9, StartWrites DEF TypeOK, Start, StartRaises
  <2> QED
    BY <1>2, <1>4, <1>5, <1>6, <2>1, <2>2
    DEF Known, LauncherKnows, RecordKnows, IsTerminal, Executing, Terminal, Results
<1>10. CASE GiveUp(j)
  <2>1. launcher'[j] = "cleanup" /\ UNCHANGED <<record, child, pid>>
    BY <1>1, <1>10 DEF TypeOK, GiveUp
  <2> QED
    BY <1>2, <1>4, <1>5, <1>6, <2>1
    DEF Known, LauncherKnows, RecordKnows, IsTerminal, Executing, Terminal, Results
<1> QED
  BY <1>7, <1>8, <1>9, <1>10

\* Answering: every way launch() returns, cleans up, records and ends.
LEMMA AnswerKnown ==
    ASSUME Known, NEW j \in Jobs,
           \/ Return(j) \/ ReturnFinished(j) \/ Reaped(j) \/ NotReaped(j)
           \/ Persist(j) \/ LauncherKilled(j)
    PROVE  Known'
<1>1. TypeOK /\ \A k \in Jobs : LauncherKnows(k) /\ RecordKnows(k)
  BY DEF Known
<1>2. /\ UNCHANGED <<pid, result, lost, others, born>>
      /\ launcher' \in [Jobs -> {"idle", "created", "spawned", "started", "check", "cleanup"}
                                 \cup Persisting \cup Answers]
      /\ child' \in [Jobs -> {"none", "working", "finished", "zombie", "gone"}]
      /\ \A k \in Jobs : k # j => UNCHANGED <<launcher[k], child[k]>>
  <2>1. \A answer \in Answers : Answer(j, answer) =>
           /\ launcher' \in [Jobs -> {"idle", "created", "spawned", "started", "check", "cleanup"}
                                      \cup Persisting \cup Answers]
           /\ child' \in [Jobs -> {"none", "working", "finished", "zombie", "gone"}]
           /\ \A k \in Jobs : k # j => UNCHANGED <<launcher[k], child[k]>>
    BY <1>1 DEF TypeOK, Answer
  <2>2. ASSUME launcher[j] \in Persisting PROVE CodeOf(launcher[j]) \in Answers
    BY <2>2 DEF Persisting, CodeOf, Answers
  <2>3. {"returned", "killed", "persistence_failed"} \subseteq Answers
    BY DEF Answers
  <2>4. CASE Return(j) \/ ReturnFinished(j) \/ LauncherKilled(j)
    BY <2>1, <2>3, <2>4 DEF Return, ReturnFinished, LauncherKilled
  <2>5. CASE Persist(j)
    BY <2>1, <2>2, <2>3, <2>5 DEF Persist
  <2>6. CASE Reaped(j) \/ NotReaped(j)
    BY <1>1, <2>6 DEF Reaped, NotReaped, TypeOK, Persisting
  <2> QED
    BY <2>4, <2>5, <2>6
<1>3. \A answer : Answer(j, answer) =>
         launcher'[j] = answer /\ child'[j] = IF child[j] = "zombie" THEN "gone" ELSE child[j]
  BY <1>1 DEF TypeOK, Answer
<1>4. LauncherKnows(j) /\ RecordKnows(j)
  BY <1>1
<1>5. ASSUME UNCHANGED record, LauncherKnows(j)', RecordKnows(j)' PROVE Known'
  <2>1. TypeOK'
    BY <1>1, <1>2, <1>5 DEF TypeOK
  <2>2. \A k \in Jobs : k # j => LauncherKnows(k)' /\ RecordKnows(k)'
    BY <1>1, <1>2, <1>5, KnownOfOthers
  <2> QED
    BY <1>5, <2>1, <2>2 DEF Known
<1>6. CASE Return(j) \/ ReturnFinished(j) \/ LauncherKilled(j)
  <2>1. /\ UNCHANGED record
        /\ \/ launcher[j] = "started" /\ launcher'[j] = "returned"
           \/ IsTerminal(j) /\ launcher'[j] = "returned"
           \/ launcher'[j] = "killed"
        /\ child'[j] = IF child[j] = "zombie" THEN "gone" ELSE child[j]
    BY <1>3, <1>6 DEF Return, ReturnFinished, LauncherKilled
  <2>2. LauncherKnows(j)' /\ RecordKnows(j)'
    BY <1>2, <1>4, <2>1
    DEF LauncherKnows, RecordKnows, IsTerminal, Executing, Terminal, Results
  <2> QED
    BY <1>5, <2>1, <2>2
<1>7. CASE Reaped(j) \/ NotReaped(j)
  <2>1. /\ UNCHANGED record
        /\ \/ child'[j] = "gone" /\ launcher'[j] = "persist_launch_start_failed"
           \/ child'[j] = child[j] /\ launcher'[j] = "persist_cleanup_failed"
    BY <1>1, <1>7 DEF Reaped, NotReaped, TypeOK
  <2>2. LauncherKnows(j)' /\ RecordKnows(j)'
    BY <1>2, <1>4, <2>1
    DEF LauncherKnows, RecordKnows, IsTerminal, Executing, Terminal, Results
  <2> QED
    BY <1>5, <2>1, <2>2
<1>8. CASE Persist(j)
  <2> DEFINE code == CodeOf(launcher[j])
             status == IF code = "cleanup_failed" THEN "unknown" ELSE "failed"
  <2>1. /\ launcher[j] \in Persisting
        /\ \/ Settle(j, status, code) /\ Answer(j, code)
           \/ SettleRaises(j, status, code) /\ Answer(j, "persistence_failed")
    BY <1>8 DEF Persist
  <2>2. /\ launcher[j] = "persist_launch_failed" => code = "launch_failed"
        /\ launcher[j] = "persist_launch_start_failed" => code = "launch_start_failed"
        /\ launcher[j] = "persist_cleanup_failed" => code = "cleanup_failed"
        /\ code \in Codes /\ status \in Terminal
    BY <2>1 DEF Persisting, CodeOf, Codes, Terminal, Results
  <2> HIDE DEF code
  <2>3. CASE UNCHANGED record /\ Answer(j, "persistence_failed")
    <3>1. launcher'[j] = "persistence_failed"
          /\ child'[j] = IF child[j] = "zombie" THEN "gone" ELSE child[j]
      BY <1>3, <2>3
    <3>2. LauncherKnows(j)' /\ RecordKnows(j)'
      BY <1>2, <1>4, <2>3, <3>1
      DEF LauncherKnows, RecordKnows, IsTerminal, Executing, Terminal, Results
    <3> QED
      BY <1>5, <2>3, <3>2
  <2>4. CASE /\ Settle(j, status, code)
             /\ Answer(j, code) \/ Answer(j, "persistence_failed")
    <3>1. /\ ~IsTerminal(j) /\ record' \in [Jobs -> Record]
          /\ record'[j].status = status /\ record'[j].code = code
          /\ \A k \in Jobs : k # j => record'[k] = record[k]
      BY <1>1, <2>2, <2>4, SettleWrites
    <3>2. /\ launcher'[j] = code \/ launcher'[j] = "persistence_failed"
          /\ child'[j] = IF child[j] = "zombie" THEN "gone" ELSE child[j]
      BY <1>3, <2>4
    <3>3. \/ launcher[j] = "persist_launch_failed" /\ child[j] = "none"
          \/ launcher[j] = "persist_launch_start_failed" /\ child[j] = "gone"
          \/ launcher[j] = "persist_cleanup_failed"
      BY <1>4, <2>1 DEF LauncherKnows, Persisting
    <3>4. j \notin lost
      BY <1>4, <3>1 DEF RecordKnows
    <3>5. LauncherKnows(j)'
      BY <2>2, <3>1, <3>2, <3>3 DEF LauncherKnows
    <3>6. RecordKnows(j)'
      BY <1>2, <1>4, <2>2, <3>1, <3>2, <3>3, <3>4
      DEF RecordKnows, IsTerminal, Executing, Terminal, Results
    <3>7. \A k \in Jobs : k # j => LauncherKnows(k)' /\ RecordKnows(k)'
      BY <1>1, <1>2, <3>1, KnownOfOthers
    <3>8. TypeOK'
      BY <1>1, <1>2, <3>1 DEF TypeOK
    <3> QED
      BY <3>5, <3>6, <3>7, <3>8 DEF Known
  <2> QED
    BY <2>1, <2>3, <2>4 DEF SettleRaises
<1> QED
  BY <1>6, <1>7, <1>8

\* The child: what it says of itself is recorded or, after an unverified
\* cleanup, refused.
LEMMA ChildKnown ==
    ASSUME Known, NEW j \in Jobs, ChildStep(j)
    PROVE  Known'
<1>1. TypeOK /\ \A k \in Jobs : LauncherKnows(k) /\ RecordKnows(k)
  BY DEF Known
<1>2. LauncherKnows(j) /\ RecordKnows(j)
  BY <1>1
<1>3. UNCHANGED <<launcher, pid, others, born>> /\ Executing(j)
  BY DEF ChildStep, Finish, Report, ReportRaises, Die, Executing
<1>4. CASE Finish(j)
  <2>1. PICK status \in Results : result' = [result EXCEPT ![j] = status]
    BY <1>4 DEF Finish
  <2>2. /\ child[j] = "working" /\ child'[j] = "finished" /\ result'[j] = status
        /\ UNCHANGED <<record, lost>>
        /\ \A k \in Jobs : k # j => UNCHANGED <<child[k], result[k]>>
    BY <1>1, <1>4, <2>1 DEF Finish, TypeOK
  <2>3. TypeOK'
    BY <1>1, <1>3, <1>4, <2>1, <2>2 DEF Finish, TypeOK
  <2>4. \A k \in Jobs : k # j => LauncherKnows(k)' /\ RecordKnows(k)'
    BY <1>1, <1>3, <2>2, KnownOfOthers
  <2>5. LauncherKnows(j)' /\ RecordKnows(j)'
    BY <1>2, <1>3, <2>1, <2>2
    DEF LauncherKnows, RecordKnows, IsTerminal, Executing, Terminal, Results
  <2> QED
    BY <2>3, <2>4, <2>5 DEF Known
<1>5. CASE Report(j) \/ ReportRaises(j) \/ Die(j)
  <2>1. /\ UNCHANGED result /\ child'[j] \in {"gone", "zombie"}
        /\ child' \in [Jobs -> {"none", "working", "finished", "zombie", "gone"}]
        /\ \A k \in Jobs : k # j => UNCHANGED child[k]
    BY <1>1, <1>5 DEF Report, ReportRaises, Die, Exit, TypeOK
  <2>2. /\ lost' \subseteq Jobs /\ lost \subseteq lost' /\ lost' \subseteq lost \cup {j}
        /\ j \in lost' => j \in lost \/ (IsTerminal(j) /\ record'[j] = record[j])
    BY <1>1, <1>5 DEF Report, ReportRaises, Die, TypeOK, SettleRaises, Settle
  <2>3. LauncherKnows(j) /\ launcher[j] \notin {"idle", "created", "persist_launch_failed",
            "launch_failed", "persist_launch_start_failed", "launch_start_failed"}
    BY <1>2, <1>3 DEF LauncherKnows, Executing
  <2>4. CASE UNCHANGED record
    <3>1. TypeOK'
      BY <1>1, <1>3, <2>1, <2>2, <2>4 DEF TypeOK
    <3>2. \A k \in Jobs : k # j => LauncherKnows(k)' /\ RecordKnows(k)'
      BY <1>1, <1>3, <2>1, <2>2, <2>4, KnownOfOthers
    <3>3. LauncherKnows(j)'
      BY <1>3, <2>3, <2>4 DEF LauncherKnows
    <3>4. RecordKnows(j)'
      BY <1>2, <1>3, <2>1, <2>2, <2>4
      DEF RecordKnows, IsTerminal, Executing, Terminal, Results
    <3> QED
      BY <3>1, <3>2, <3>3, <3>4 DEF Known
  <2>5. CASE Settle(j, result[j], "job") /\ child[j] = "finished"
    <3>1. result[j] \in Results /\ result[j] \in Terminal /\ "job" \in Codes
      BY <1>2, <2>5 DEF RecordKnows, Terminal, Codes
    <3>2. /\ ~IsTerminal(j) /\ record' \in [Jobs -> Record]
          /\ record'[j].status = result[j] /\ record'[j].code = "job"
          /\ \A k \in Jobs : k # j => record'[k] = record[k]
      BY <1>1, <2>5, <3>1, SettleWrites
    <3>3. TypeOK'
      BY <1>1, <1>3, <2>1, <2>2, <3>2 DEF TypeOK
    <3>4. \A k \in Jobs : k # j => LauncherKnows(k)' /\ RecordKnows(k)'
      BY <1>1, <1>3, <2>1, <2>2, <3>2, KnownOfOthers
    <3>5. LauncherKnows(j)'
      BY <1>3, <2>3, <3>1, <3>2 DEF LauncherKnows, Results
    <3>6. j \notin lost'
      BY <1>2, <2>2, <3>2 DEF RecordKnows
    <3>7. RecordKnows(j)'
      BY <2>1, <3>1, <3>2, <3>6
      DEF RecordKnows, IsTerminal, Executing, Terminal, Results
    <3> QED
      BY <3>3, <3>4, <3>5, <3>7 DEF Known
  <2> QED
    BY <1>5, <2>4, <2>5 DEF Report, ReportRaises, Die, SettleRaises
<1> QED
  BY <1>4, <1>5 DEF ChildStep

\* A listing, complete or stopped half-way.
LEMMA ListKnown ==
    ASSUME Known, List \/ ListStops
    PROVE  Known'
<1>1. PICK found \in SUBSET Missing : Notice(found)
  BY DEF List, ListStops
<1>2. /\ record' \in [Jobs -> Record]
      /\ \A j \in Jobs :
            \/ record'[j] = record[j]
            \/ /\ record[j].status = "running" /\ ~Executing(j)
               /\ record'[j].status = "unknown" /\ record'[j].code = "process_missing"
  BY <1>1, NoticeWrites
<1>3. UNCHANGED <<launcher, child, pid, result, lost, others, born>>
  BY <1>1 DEF Notice
<1>4. TypeOK'
  BY <1>2, <1>3 DEF Known, TypeOK
<1>5. ASSUME NEW j \in Jobs PROVE LauncherKnows(j)' /\ RecordKnows(j)'
  <2>1. LauncherKnows(j) /\ RecordKnows(j)
    BY DEF Known
  <2>2. CASE record'[j] = record[j]
    BY <1>3, <2>1, <2>2, KnownOfOthers
  <2>3. CASE /\ record[j].status = "running" /\ ~Executing(j)
             /\ record'[j].status = "unknown" /\ record'[j].code = "process_missing"
    BY <1>3, <2>1, <2>3
    DEF LauncherKnows, RecordKnows, IsTerminal, Executing, Terminal, Results
  <2> QED
    BY <1>2, <2>2, <2>3
<1> QED
  BY <1>4, <1>5 DEF Known

\* Every step keeps what is known.
LEMMA StepKnown == Known /\ [Next]_vars => Known'
<1> SUFFICES ASSUME Known, [Next]_vars PROVE Known'
  OBVIOUS
<1>1. ASSUME NEW j \in Jobs, Create(j) \/ CreateRaises(j) \/ LauncherStep(j) PROVE Known'
  BY <1>1, LaunchKnown, AnswerKnown DEF LauncherStep
<1>2. CASE OtherStarts \/ OtherExits \/ UNCHANGED vars
  <2>1. UNCHANGED <<record, launcher, child, pid, result, lost>>
        /\ others' \subseteq Pids /\ born' \in Nat
    BY <1>2 DEF OtherStarts, OtherExits, vars, Known, TypeOK
  <2> QED
    BY <2>1, KnownOfOthers DEF Known, TypeOK
<1> QED
  BY <1>1, <1>2, ChildKnown, ListKnown DEF Next

\* What is known stays known.
LEMMA KnownInvariant == Spec => []Known
  BY InitKnown, StepKnown, PTL DEF Spec

-----------------------------------------------------------------------------
(* What the parties promise. *)

\* A terminal record speaks of a process that executes no more, unless it says
\* itself that its cleanup could not be verified.
THEOREM TerminalStopped == Spec => []TerminalMeansStopped
<1>1. Known => TerminalMeansStopped
  BY DEF Known, RecordKnows, TerminalMeansStopped
<1> QED
  BY <1>1, KnownInvariant, PTL

\* Whoever writes last, the record tells the command's own result, and only an
\* unverified cleanup throws a result away.
THEOREM ResultsHonoured == Spec => []ResultsAreHonoured
<1>1. Known => ResultsAreHonoured
  BY DEF Known, RecordKnows, TypeOK, ResultsAreHonoured, OnlyUnverifiedCleanupLosesAResult,
     RecordedResultIsTheCommands
<1> QED
  BY <1>1, KnownInvariant, PTL

\* launch() names a job only when it started, and a failure only when no child
\* is left.
THEOREM LaunchAnswersTrue == Spec => []LaunchAnswerIsTrue
<1>1. Known => LaunchAnswerIsTrue
  BY DEF Known, LauncherKnows, LaunchAnswerIsTrue, Exists
<1> QED
  BY <1>1, KnownInvariant, PTL

\* No step takes a record back.
LEMMA RecordsMoveForward ==
    ASSUME Known, [Next]_vars, NEW j \in Jobs
    PROVE  /\ record[j].status = "running" => record'[j].status \notin {"none", "starting"}
           /\ IsTerminal(j) => record'[j] = record[j]
<1>1. TypeOK /\ \A k \in Jobs : LauncherKnows(k) /\ RecordKnows(k)
  BY DEF Known
<1>2. ASSUME NEW k \in Jobs, Create(k) \/ CreateRaises(k)
      PROVE  record[k].status = "none" /\ \A i \in Jobs : i # k => record'[i] = record[i]
  BY <1>1, <1>2, CreateWrites DEF Create, CreateRaises, LauncherKnows
<1>3. ASSUME NEW k \in Jobs, Start(k) \/ StartRaises(k), record' # record
      PROVE  /\ record[k].status = "starting"
             /\ \A i \in Jobs : i # k => record'[i] = record[i]
  BY <1>1, <1>3, StartWrites DEF Start, StartRaises
<1>4. ASSUME NEW k \in Jobs, NEW status \in Terminal, NEW code \in Codes,
             Settle(k, status, code)
      PROVE  /\ ~IsTerminal(k) /\ record'[k].status \in Terminal
             /\ \A i \in Jobs : i # k => record'[i] = record[i]
  BY <1>1, <1>4, SettleWrites
<1>5. ASSUME NEW k \in Jobs, Persist(k), record' # record
      PROVE  \E status \in Terminal, code \in Codes : Settle(k, status, code)
  BY <1>5 DEF Persist, SettleRaises, Persisting, CodeOf, Terminal, Results, Codes
<1>6. ASSUME NEW k \in Jobs, ChildStep(k), record' # record
      PROVE  \E status \in Terminal, code \in Codes : Settle(k, status, code)
  BY <1>1, <1>6
  DEF ChildStep, Finish, Report, ReportRaises, Die, SettleRaises, RecordKnows, Terminal, Codes
<1>7. CASE List \/ ListStops
  <2>1. PICK found \in SUBSET Missing : Notice(found)
    BY <1>7 DEF List, ListStops
  <2> QED
    BY <2>1, NoticeWrites DEF IsTerminal, Terminal, Results
<1>8. CASE UNCHANGED record
  BY <1>8 DEF IsTerminal
<1>9. CASE \E k \in Jobs : Create(k) \/ CreateRaises(k)
  BY <1>2, <1>9 DEF IsTerminal, Terminal, Results
<1>10. CASE \E k \in Jobs : Start(k) \/ StartRaises(k)
  BY <1>3, <1>8, <1>10 DEF IsTerminal, Terminal, Results
<1>11. CASE \E k \in Jobs : Persist(k) \/ ChildStep(k)
  BY <1>4, <1>5, <1>6, <1>8, <1>11 DEF IsTerminal, Terminal, Results
<1> QED
  BY <1>7, <1>8, <1>9, <1>10, <1>11
  DEF Next, LauncherStep, Spawn, SpawnFails, Return, ReturnFinished, GiveUp, Reaped, NotReaped,
      LauncherKilled, OtherStarts, OtherExits, vars

\* A record only moves forward and a terminal one never changes again.
THEOREM RecordsForward == Spec => LifecycleMovesForward
<1> DEFINE Forward ==
             \A j \in Jobs :
                /\ record[j].status = "running" => record'[j].status \notin {"none", "starting"}
                /\ IsTerminal(j) => record'[j] = record[j]
<1>1. Known /\ [Next]_vars => Forward
  BY RecordsMoveForward
<1>2. LifecycleMovesForward <=> [][Forward]_vars
  BY DEF LifecycleMovesForward
<1> HIDE DEF Forward
<1> QED
  BY <1>1, <1>2, KnownInvariant, PTL DEF Spec

===============================================================================
