--------------------------- MODULE BackgroundJobs ---------------------------
(***************************************************************************)
(* Detached commands: launch (cli/background.py), the durable records of   *)
(* JobRepository (core/jobs.py) and the end of execute_command             *)
(* (cli/runtime.py) in the child.                                          *)
(*                                                                         *)
(* For each job three parties write one status file: the launcher, the     *)
(* child it started, and any `jobs` command that lists the records.  Every *)
(* read-modify-write is under one file lock and replaces the file          *)
(* atomically, so it is one step; a write that raises may or may not have  *)
(* replaced the file (the directory fsync comes last).                     *)
(*                                                                         *)
(* A process is seen through its pid only: a zombie still answers signal 0 *)
(* and the pid of a dead process may be given to another one.  Everybody   *)
(* is the same user in the same pid namespace.                             *)
(***************************************************************************)
EXTENDS Naturals, FiniteSets

CONSTANTS
    Jobs,      \* job ids
    Pids,      \* process ids
    NoPid,     \* pid: null
    MaxOthers  \* bound: unrelated processes started

ASSUME JobsAssumption ==
    /\ NoPid \notin Pids
    /\ MaxOthers \in Nat

VARIABLES
    record,    \* the status file of each job
    launcher,  \* where launch() is, or how it ended
    child,     \* the detached process
    pid,       \* its process id, kept after it is gone
    result,    \* history: the status of the diagnostic the command produced
    lost,      \* history: jobs whose child was refused its result
    others,    \* pids of unrelated processes
    born       \* unrelated processes so far (bound only)

vars == <<record, launcher, child, pid, result, lost, others, born>>

Results  == {"succeeded", "partial", "failed"}
Terminal == Results \cup {"unknown"}
Codes    == {"none", "job", "launch_failed", "launch_start_failed",
             "cleanup_failed", "process_missing"}
Record   == [status: {"none", "starting", "running"} \cup Terminal,
             pid: Pids \cup {NoPid}, code: Codes]

\* What launch() answered: a job id, or an exception that names what failed.
Answers == {"returned", "create_failed", "launch_failed", "launch_start_failed",
            "cleanup_failed", "persistence_failed", "killed"}

IsTerminal(j) == record[j].status \in Terminal
Executing(j)  == child[j] \in {"working", "finished"}
Exists(j)     == child[j] \notin {"none", "gone"}
PidsInUse     == {pid[j] : j \in {k \in Jobs : Exists(k)}} \cup others

\* Mutant of Settle: the last writer wins.
SettleLast(j, status, code) ==
    record' = [record EXCEPT ![j].status = status, ![j].code = code]

\* Mutant of Settle: a result that comes before start leaves the record alone.
SettleRunning(j, status, code) ==
    record' = IF record[j].status = "starting" THEN [record EXCEPT ![j].code = code]
              ELSE [record EXCEPT ![j].status = "ended", ![j].code = code]

\* record_result, fail and mark_unknown: a terminal record is final.
Settle(j, status, code) ==
    /\ ~IsTerminal(j)
    /\ record' = [record EXCEPT ![j].status = status, ![j].code = code]

\* The same write raising: before or after os.replace.
SettleRaises(j, status, code) == Settle(j, status, code) \/ UNCHANGED record

-----------------------------------------------------------------------------
Init ==
    /\ record = [j \in Jobs |-> [status |-> "none", pid |-> NoPid, code |-> "none"]]
    /\ launcher = [j \in Jobs |-> "idle"]
    /\ child = [j \in Jobs |-> "none"]
    /\ pid = [j \in Jobs |-> NoPid]
    /\ result = [j \in Jobs |-> "none"]
    /\ lost = {}
    /\ others = {}
    /\ born = 0

(* The launcher *)

\* launch() is over: its process exits and init reaps a zombie child.
Answer(j, answer) ==
    /\ launcher' = [launcher EXCEPT ![j] = answer]
    /\ child' = [child EXCEPT ![j] = IF @ = "zombie" THEN "gone" ELSE @]

Create(j) ==
    /\ launcher[j] = "idle"
    /\ record' = [record EXCEPT ![j].status = "starting"]
    /\ launcher' = [launcher EXCEPT ![j] = "created"]
    /\ UNCHANGED <<child, pid, result, lost, others, born>>

\* The write raises outside launch()'s try: nobody takes the record back.
CreateRaises(j) ==
    /\ launcher[j] = "idle"
    /\ \/ record' = [record EXCEPT ![j].status = "starting"]
       \/ UNCHANGED record
    /\ launcher' = [launcher EXCEPT ![j] = "create_failed"]
    /\ UNCHANGED <<child, pid, result, lost, others, born>>

Spawn(j) ==
    /\ launcher[j] = "created"
    /\ \E p \in Pids \ PidsInUse : pid' = [pid EXCEPT ![j] = p]
    /\ child' = [child EXCEPT ![j] = "working"]
    /\ launcher' = [launcher EXCEPT ![j] = "spawned"]
    /\ UNCHANGED <<record, result, lost, others, born>>

\* The log cannot be opened or Popen raises: there is nothing to clean up.
SpawnFails(j) ==
    /\ launcher[j] = "created"
    /\ launcher' = [launcher EXCEPT ![j] = "persist_launch_failed"]
    /\ UNCHANGED <<record, child, pid, result, lost, others, born>>

\* JobRepository.start
Start(j) ==
    /\ launcher[j] = "spawned"
    /\ record[j].status = "starting"
    /\ record' = [record EXCEPT ![j].status = "running", ![j].pid = pid[j]]
    /\ launcher' = [launcher EXCEPT ![j] = "started"]
    /\ UNCHANGED <<child, pid, result, lost, others, born>>

\* start raises: the child was faster, or the write failed.
StartRaises(j) ==
    /\ launcher[j] = "spawned"
    /\ \/ UNCHANGED record
       \/ /\ record[j].status = "starting"
          /\ record' = [record EXCEPT ![j].status = "running", ![j].pid = pid[j]]
    /\ launcher' = [launcher EXCEPT ![j] = "check"]
    /\ UNCHANGED <<child, pid, result, lost, others, born>>

Return(j) ==
    /\ launcher[j] = "started"
    /\ Answer(j, "returned")
    /\ UNCHANGED <<record, pid, result, lost, others, born>>

\* Mutant of ReturnFinished: any record that can be read is an answer.
ReturnAnyway(j) ==
    /\ launcher[j] = "check"
    /\ Answer(j, "returned")
    /\ UNCHANGED <<record, pid, result, lost, others, born>>

\* The job that could not be started has a result already: it ran.
ReturnFinished(j) ==
    /\ launcher[j] = "check"
    /\ IsTerminal(j)
    /\ Answer(j, "returned")
    /\ UNCHANGED <<record, pid, result, lost, others, born>>

\* The record shows no result, cannot be read, or Ctrl-C arrives.
GiveUp(j) ==
    /\ launcher[j] \in {"spawned", "started", "check"}
    /\ launcher' = [launcher EXCEPT ![j] = "cleanup"]
    /\ UNCHANGED <<record, child, pid, result, lost, others, born>>

\* Mutant of Reaped: the signal is sent and nobody waits for the child.
ReapedWithoutWait(j) ==
    /\ launcher[j] = "cleanup"
    /\ launcher' = [launcher EXCEPT ![j] = "persist_launch_start_failed"]
    /\ UNCHANGED <<record, child, pid, result, lost, others, born>>

\* _terminate_bounded returns: the child was killed, or had ended, and is reaped.
Reaped(j) ==
    /\ launcher[j] = "cleanup"
    /\ child' = [child EXCEPT ![j] = "gone"]
    /\ launcher' = [launcher EXCEPT ![j] = "persist_launch_start_failed"]
    /\ UNCHANGED <<record, pid, result, lost, others, born>>

\* Signals are refused or the child outlives both waits: JobCleanupError.
NotReaped(j) ==
    /\ launcher[j] = "cleanup"
    /\ Executing(j)
    /\ launcher' = [launcher EXCEPT ![j] = "persist_cleanup_failed"]
    /\ UNCHANGED <<record, child, pid, result, lost, others, born>>

Persisting == {"persist_launch_failed", "persist_launch_start_failed", "persist_cleanup_failed"}

CodeOf(phase) ==
    CASE phase = "persist_launch_failed" -> "launch_failed"
      [] phase = "persist_launch_start_failed" -> "launch_start_failed"
      [] phase = "persist_cleanup_failed" -> "cleanup_failed"

\* fail(code) after a verified cleanup, mark_unknown(cleanup_failed) otherwise.
Persist(j) ==
    /\ launcher[j] \in Persisting
    /\ LET code == CodeOf(launcher[j])
           status == IF code = "cleanup_failed" THEN "unknown" ELSE "failed"
       IN  \/ Settle(j, status, code) /\ Answer(j, code)
           \/ SettleRaises(j, status, code) /\ Answer(j, "persistence_failed")
    /\ UNCHANGED <<pid, result, lost, others, born>>

LauncherKilled(j) ==
    /\ launcher[j] \notin Answers \cup {"idle"}
    /\ Answer(j, "killed")
    /\ UNCHANGED <<record, pid, result, lost, others, born>>

-----------------------------------------------------------------------------
(* The child: execute_command *)

\* The process ends; it stays a zombie while its launcher lives.
Exit(j) ==
    child' = [child EXCEPT ![j] = IF launcher[j] \in Answers THEN "gone" ELSE "zombie"]

\* The action returned a diagnostic, or raised and was classified.
Finish(j) ==
    /\ child[j] = "working"
    /\ \E status \in Results : result' = [result EXCEPT ![j] = status]
    /\ child' = [child EXCEPT ![j] = "finished"]
    /\ UNCHANGED <<record, launcher, pid, lost, others, born>>

\* Mutant of Report: a partial result is recorded as a success.
ReportPartialAsSucceeded(j) ==
    /\ child[j] = "finished"
    /\ Settle(j, IF result[j] = "failed" THEN "failed" ELSE "succeeded", "job")
    /\ Exit(j)
    /\ UNCHANGED <<launcher, pid, result, lost, others, born>>

Report(j) ==
    /\ child[j] = "finished"
    /\ Settle(j, result[j], "job")
    /\ Exit(j)
    /\ UNCHANGED <<launcher, pid, result, lost, others, born>>

\* JobStateError, or an error of the write itself.
ReportRaises(j) ==
    /\ child[j] = "finished"
    /\ SettleRaises(j, result[j], "job")
    /\ lost' = IF IsTerminal(j) THEN lost \cup {j} ELSE lost
    /\ Exit(j)
    /\ UNCHANGED <<launcher, pid, result, others, born>>

\* Killed anywhere, a configuration that no longer loads, a run log that
\* cannot be written: the process ends without touching its record.
Die(j) ==
    /\ Executing(j)
    /\ Exit(j)
    /\ UNCHANGED <<record, launcher, pid, result, lost, others, born>>

-----------------------------------------------------------------------------
(* Listings and unrelated processes *)

Alive(p) == p \in PidsInUse

\* Mutant of Missing: a starting record, which has no pid, counts as well.
MissingOrStarting ==
    {j \in Jobs : record[j].status \in {"starting", "running"} /\ ~Alive(record[j].pid)}

\* Mutant of Missing: only a record without a pid has lost its process.
MissingWithoutPid == {j \in Jobs : record[j].status = "running" /\ record[j].pid = NoPid}

\* Running records whose process does not answer signal 0.
Missing == {j \in Jobs : record[j].status = "running" /\ ~Alive(record[j].pid)}

Notice(found) ==
    /\ found # {}
    /\ record' = [j \in Jobs |->
           IF j \in found THEN [record[j] EXCEPT !.status = "unknown", !.code = "process_missing"]
           ELSE record[j]]
    /\ UNCHANGED <<launcher, child, pid, result, lost, others, born>>

\* JobRepository.list, to its end ...
List == Notice(Missing)

\* ... or stopped by a write that raises.
ListStops == \E found \in SUBSET Missing : Notice(found)

OtherStarts ==
    /\ born < MaxOthers
    /\ \E p \in Pids \ PidsInUse : others' = others \cup {p}
    /\ born' = born + 1
    /\ UNCHANGED <<record, launcher, child, pid, result, lost>>

OtherExits ==
    /\ \E p \in others : others' = others \ {p}
    /\ UNCHANGED <<record, launcher, child, pid, result, lost, born>>

LauncherStep(j) ==
    \/ Spawn(j) \/ SpawnFails(j) \/ Start(j) \/ StartRaises(j)
    \/ Return(j) \/ ReturnFinished(j) \/ GiveUp(j) \/ Reaped(j) \/ NotReaped(j)
    \/ Persist(j) \/ LauncherKilled(j)

ChildStep(j) == Finish(j) \/ Report(j) \/ ReportRaises(j) \/ Die(j)

Next ==
    \/ \E j \in Jobs : Create(j) \/ CreateRaises(j) \/ LauncherStep(j) \/ ChildStep(j)
    \/ List \/ ListStops \/ OtherStarts \/ OtherExits

Spec == Init /\ [][Next]_vars

\* `jobs` is run again and again; launch() waits for nothing but its bounded
\* waits, a command ends (it bounds every tool it waits for), and so does an
\* unrelated process that got a recycled pid.
FairSpec ==
    /\ Spec
    /\ WF_vars(List)
    /\ WF_vars(OtherExits)
    /\ \A j \in Jobs : WF_vars(LauncherStep(j)) /\ WF_vars(ChildStep(j))

-----------------------------------------------------------------------------
(* Properties *)

\* The shape of the records and of the processes.
TypeOK ==
    /\ record \in [Jobs -> Record]
    /\ launcher \in [Jobs -> {"idle", "created", "spawned", "started", "check", "cleanup"}
                              \cup Persisting \cup Answers]
    /\ child \in [Jobs -> {"none", "working", "finished", "zombie", "gone"}]
    /\ pid \in [Jobs -> Pids \cup {NoPid}]
    /\ result \in [Jobs -> Results \cup {"none"}]
    /\ lost \subseteq Jobs
    /\ others \subseteq Pids
    /\ born \in Nat

\* A record only moves forward and a terminal one never changes again, whoever
\* of the launcher, the child and a listing comes last.
LifecycleMovesForward ==
    [][\A j \in Jobs :
          /\ record[j].status = "running" => record'[j].status \notin {"none", "starting"}
          /\ IsTerminal(j) => record'[j] = record[j]]_vars

\* A terminal record speaks of a process that executes no more; only the
\* unverified cleanup may be wrong, and its record says so.
TerminalMeansStopped ==
    \A j \in Jobs : IsTerminal(j) /\ record[j].code # "cleanup_failed" => ~Executing(j)

\* A command that reaches its end is refused its result only when the launcher
\* had recorded that it could not be stopped: no listing and no failed start
\* ever discards the result of a job that is still going to deliver one.
OnlyUnverifiedCleanupLosesAResult ==
    \A j \in lost : record[j].code = "cleanup_failed"

\* What the record says of the command is what the command said of itself.
RecordedResultIsTheCommands ==
    \A j \in Jobs :
        /\ record[j].status \in {"succeeded", "partial"} => result[j] = record[j].status
        /\ record[j].code = "job" => result[j] = record[j].status

\* Whoever of launcher, child and listing writes last (jobs.py:149-226), the
\* record tells the command's own result, and that result is thrown away only by
\* a cleanup that could not be verified.
ResultsAreHonoured ==
    /\ TypeOK
    /\ OnlyUnverifiedCleanupLosesAResult
    /\ RecordedResultIsTheCommands

\* launch() answers with a job id only once the record has left "starting", and
\* answers that it failed only when no child is left that could run the command.
LaunchAnswerIsTrue ==
    \A j \in Jobs :
        /\ launcher[j] = "returned" => record[j].status \notin {"none", "starting"}
        /\ launcher[j] \in {"launch_failed", "launch_start_failed"} =>
               record[j].status = "failed" /\ ~Exists(j)

\* A running job whose process is gone is eventually shown as terminal, even when
\* its pid was given to another process for a while.
MissingProcessIsNoticed ==
    \A j \in Jobs : (record[j].status = "running" /\ child[j] = "gone") ~> IsTerminal(j)

\* Known exception, in no run.  "a job whose process died without reporting a
\* result is shown as `unknown`" (docs/cli-usage.md:56): not when its launcher
\* died before it recorded the pid.
DeadJobIsShown ==
    \A j \in Jobs :
        (launcher[j] \in {"returned", "killed"} /\ child[j] = "gone" /\ result[j] = "none")
            ~> IsTerminal(j)

=============================================================================
