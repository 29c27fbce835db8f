-------------------------- MODULE AnalysisWorker --------------------------
(***************************************************************************)
(* One extraction in an isolated process: IsolatedAnalysisExtractor.extract *)
(* of core/analysis/worker_client.py on the side of the analyze command,   *)
(* core/analysis/worker.py and CompositeAudioExtractor on the other.       *)
(*                                                                         *)
(* On the parent's side three threads run: the caller, which writes the    *)
(* request, waits with a timeout and joins the others, and two that drain  *)
(* stdout and stderr up to a limit.  The worker may stop making progress,  *)
(* crash or be killed at any point; while it decodes it has a decoder      *)
(* process of its own, in the same process group.  Pipes hold PipeSize     *)
(* units; a unit is what one read returns.                                 *)
(***************************************************************************)
EXTENDS Naturals, Sequences

CONSTANTS
    Request,      \* units of the encoded request
    PipeSize,     \* units a pipe holds
    MaxResponse,  \* bound: units of a response
    MaxNoise,     \* bound: units the worker writes to stderr
    Limit         \* units the parent keeps of each stream

Streams == {"stdout", "stderr"}

\* The stages of CompositeAudioExtractor.extract; the first two run a
\* decoder or a probe in a process of their own.
Stages == <<"decode", "technical", "rhythm", "spectrum", "windows", "spectrum",
            "segmentation", "semantics", "aggregation">>
HasChild == {1, 2}

ASSUME WorkerAssumption ==
    /\ {Request, PipeSize, MaxResponse} \subseteq Nat \ {0}
    /\ MaxNoise \in Nat
    /\ Limit \in [Streams -> Nat]

VARIABLES
    main,      \* the caller: "request", "write", "wait", "kill", "reap", "join", "done"
    sent,      \* units of the request it has written
    inbox,     \* units of it in the pipe
    late,      \* the timeout has expired
    reader,    \* each draining thread: "reading" or "done"
    pipe,      \* units in each output pipe
    buffer,    \* units each thread has kept
    overflow,  \* the first stream that exceeded its limit, or "none"
    worker,    \* "none", "boot", "read", "extract", "respond", "zombie", "reaped"
    stage,     \* the stage it is at
    response,  \* what it answers: [says, stage, size]
    written,   \* units it has written to each stream
    code,      \* its exit status: "ok", "error" or "signal"
    child,     \* its decoder: "none", "running" or "gone"
    stranger,  \* an unrelated process group under its pid: "none", "alive", "killed"
    answer     \* what extract returned or raised: [is, stage]

caller  == <<main, sent, inbox, late>>
drains  == <<reader, pipe, buffer, overflow>>
process == <<worker, stage, response, written, code, child>>
workerVars == <<caller, drains, process, stranger, answer>>

Answer(is, st) == [is |-> is, stage |-> st]
NoAnswer   == Answer("none", "none")
NoResponse == [says |-> "nothing", stage |-> "none", size |-> 0]
Running    == worker \in {"boot", "read", "extract", "respond"}

WorkerTypeOK ==
    /\ main \in {"request", "write", "wait", "kill", "reap", "join", "done"}
    /\ sent \in 0..Request /\ inbox \in 0..PipeSize /\ late \in BOOLEAN
    /\ reader \in [Streams -> {"reading", "done"}]
    /\ pipe \in [Streams -> 0..PipeSize]
    /\ \A s \in Streams : buffer[s] \in 0..Limit[s]
    /\ overflow \in {"none"} \cup Streams
    /\ worker \in {"none", "boot", "read", "extract", "respond", "zombie", "reaped"}
    /\ stage \in 0..Len(Stages)
    /\ child \in {"none", "running", "gone"}
    /\ stranger \in {"none", "alive", "killed"}

WorkerInit ==
    /\ main = "request" /\ sent = 0 /\ inbox = 0 /\ late = FALSE
    /\ reader = [s \in Streams |-> "reading"]
    /\ pipe = [s \in Streams |-> 0]
    /\ buffer = [s \in Streams |-> 0]
    /\ overflow = "none"
    /\ worker = "none" /\ stage = 0 /\ response = NoResponse
    /\ written = [s \in Streams |-> 0]
    /\ code = "ok" /\ child = "none"
    /\ stranger = "none"
    /\ answer = NoAnswer

\* Mutant of KillGroup: only the worker is killed (Popen.kill).
KillWorker ==
    /\ IF Running THEN worker' = "zombie" /\ code' = "signal" ELSE UNCHANGED <<worker, code>>
    /\ UNCHANGED <<child, stranger>>

\* killpg(pid, SIGKILL): the worker and its decoder, while the group exists;
\* once it does not, whoever has the pid.
KillGroup ==
    IF worker # "reaped" \/ child = "running"
    THEN /\ IF Running THEN worker' = "zombie" /\ code' = "signal"
                       ELSE UNCHANGED <<worker, code>>
         /\ child' = IF child = "running" THEN "gone" ELSE child
         /\ UNCHANGED stranger
    ELSE /\ stranger' = IF stranger = "alive" THEN "killed" ELSE stranger
         /\ UNCHANGED <<worker, code, child>>

-----------------------------------------------------------------------------
(* The caller *)

\* An unknown source, a request that is too large, or Popen that raises.
Refuse ==
    /\ main = "request"
    /\ main' = "done"
    /\ answer' = Answer("refused", "aggregation")
    /\ UNCHANGED <<sent, inbox, late, drains, process, stranger>>

Spawn ==
    /\ main = "request"
    /\ main' = "write"
    /\ worker' = "boot"
    /\ UNCHANGED <<sent, inbox, late, drains, stage, response, written, code, child,
                   stranger, answer>>

\* stdin.write blocks while the pipe is full.
Write ==
    /\ main = "write"
    /\ sent < Request
    /\ Running
    /\ inbox < PipeSize
    /\ sent' = sent + 1
    /\ inbox' = inbox + 1
    /\ UNCHANGED <<main, late, drains, process, stranger, answer>>

\* All of it is written and flushed; stdin is closed.
CloseInput ==
    /\ main = "write"
    /\ sent = Request
    /\ main' = "wait"
    /\ UNCHANGED <<sent, inbox, late, drains, process, stranger, answer>>

\* Nobody reads it any more.  The BrokenPipeError of write is passed over; what
\* the BufferedWriter still holds raises it again in stdin.close(), which leaves
\* _communicate_bounded past wait() and join().
InputBroken ==
    /\ main = "write"
    /\ sent < Request /\ ~Running
    /\ \/ main' = "wait" /\ UNCHANGED answer
       \/ main' = "done" /\ answer' = Answer("broken", "aggregation")
    /\ UNCHANGED <<sent, inbox, late, drains, process, stranger>>

WaitReturns ==
    /\ main = "wait"
    /\ worker = "zombie"
    /\ worker' = "reaped"
    /\ main' = "join"
    /\ UNCHANGED <<sent, inbox, late, drains, stage, response, written, code, child,
                   stranger, answer>>

\* The deadline passes, maybe just as the worker exits.
WaitTimesOut ==
    /\ main = "wait"
    /\ late' = TRUE
    /\ main' = "kill"
    /\ UNCHANGED <<sent, inbox, drains, process, stranger, answer>>

KillAfterTimeout ==
    /\ main = "kill"
    /\ KillGroup
    /\ main' = "reap"
    /\ UNCHANGED <<sent, inbox, late, drains, stage, response, written, answer>>

Reap ==
    /\ main = "reap"
    /\ worker = "zombie"
    /\ worker' = "reaped"
    /\ main' = "join"
    /\ UNCHANGED <<sent, inbox, late, drains, stage, response, written, code, child,
                   stranger, answer>>

\* _parse_response: nothing, something that is no response, or a response.
Parsed ==
    IF buffer["stdout"] = 0 \/ buffer["stdout"] < response.size \/ response.says = "garbage"
    THEN Answer("invalid", "aggregation")
    ELSE Answer(response.says, response.stage)

\* Mutant of ExtractOutcome: the exit status and the limits are not looked at.
ExtractOutcomeAnyExit ==
    IF late THEN Answer("timeout", "aggregation")
    ELSE IF buffer["stdout"] = 0 THEN Answer("invalid", "aggregation")
    ELSE Answer(response.says, response.stage)

\* The order of the checks at the end of _communicate_bounded and in extract.
ExtractOutcome ==
    IF late THEN Answer("timeout", "aggregation")
    ELSE IF overflow # "none" THEN Answer("overflow", "aggregation")
    ELSE IF code # "ok" THEN Answer("exit", "aggregation")
    ELSE Parsed

Join ==
    /\ main = "join"
    /\ \A s \in Streams : reader[s] = "done"
    /\ main' = "done"
    /\ answer' = ExtractOutcome
    /\ UNCHANGED <<sent, inbox, late, drains, process, stranger>>

Main == Refuse \/ Spawn \/ Write \/ CloseInput \/ InputBroken \/ WaitReturns
        \/ WaitTimesOut \/ KillAfterTimeout \/ Reap \/ Join

\* A Popen that was left with its worker unreaped is collected by Python after
\* the threads that hold it have ended, and reaps it then.
Collect ==
    /\ main = "done" /\ worker = "zombie"
    /\ \A s \in Streams : reader[s] = "done"
    /\ worker' = "reaped"
    /\ UNCHANGED <<caller, drains, stage, response, written, code, child, stranger, answer>>

-----------------------------------------------------------------------------
(* The draining threads *)

\* Mutant of Drain: the thread stops at the limit and leaves the rest in the pipe.
DrainToLimit(s) ==
    /\ main # "request" /\ reader[s] = "reading"
    /\ pipe[s] > 0 /\ buffer[s] < Limit[s]
    /\ pipe' = [pipe EXCEPT ![s] = @ - 1]
    /\ buffer' = [buffer EXCEPT ![s] = @ + 1]
    /\ UNCHANGED <<caller, reader, overflow, process, stranger, answer>>

\* What is beyond the limit is read and dropped; the first time, the group is killed.
Drain(s) ==
    /\ main # "request" /\ reader[s] = "reading"
    /\ pipe[s] > 0
    /\ pipe' = [pipe EXCEPT ![s] = @ - 1]
    /\ IF buffer[s] < Limit[s]
       THEN /\ buffer' = [buffer EXCEPT ![s] = @ + 1]
            /\ UNCHANGED <<overflow, worker, code, child, stranger>>
       ELSE /\ IF overflow = "none"
               THEN overflow' = s /\ KillGroup
               ELSE UNCHANGED <<overflow, worker, code, child, stranger>>
            /\ UNCHANGED buffer
    /\ UNCHANGED <<caller, reader, stage, response, written, answer>>

\* End of file: the pipe is empty and nobody can write to it.
DrainEnds(s) ==
    /\ main # "request" /\ reader[s] = "reading"
    /\ pipe[s] = 0
    /\ ~Running
    /\ reader' = [reader EXCEPT ![s] = "done"]
    /\ UNCHANGED <<caller, pipe, buffer, overflow, process, stranger, answer>>

-----------------------------------------------------------------------------
(* The worker *)

Boot ==
    /\ worker = "boot"
    /\ worker' = "read"
    /\ UNCHANGED <<caller, drains, stage, response, written, code, child, stranger, answer>>

ReadRequest ==
    /\ worker = "read"
    /\ inbox > 0
    /\ inbox' = inbox - 1
    /\ UNCHANGED <<main, sent, late, drains, process, stranger, answer>>

Respond(says, st) ==
    /\ worker' = "respond"
    /\ \E n \in 1..MaxResponse : response' = [says |-> says, stage |-> st, size |-> n]

\* End of file on stdin: the request is parsed, or refused.
ParseRequest ==
    /\ worker = "read"
    /\ inbox = 0 /\ main \notin {"request", "write"}
    /\ \/ worker' = "extract" /\ stage' = 1 /\ UNCHANGED response
       \/ Respond("failed", "aggregation") /\ UNCHANGED stage
    /\ UNCHANGED <<caller, drains, written, code, child, stranger, answer>>

StartChild ==
    /\ worker = "extract" /\ stage \in HasChild /\ child = "none"
    /\ child' = "running"
    /\ UNCHANGED <<caller, drains, worker, stage, response, written, code, stranger, answer>>

\* The decoder ends, or dies of the pipe to a worker that crashed.
ChildEnds ==
    /\ child = "running"
    /\ child' = "gone"
    /\ UNCHANGED <<caller, drains, worker, stage, response, written, code, stranger, answer>>

StageEnds ==
    /\ worker = "extract"
    /\ stage \in HasChild => child = "gone"
    /\ child' = "none"
    /\ \/ /\ stage < Len(Stages)
          /\ stage' = stage + 1
          /\ UNCHANGED <<worker, response>>
       \/ /\ stage = Len(Stages)
          /\ Respond("succeeded", "none")
          /\ UNCHANGED stage
    /\ UNCHANGED <<caller, drains, written, code, stranger, answer>>

\* _stage: what it raises is reported under its name.
StageFails ==
    /\ worker = "extract"
    /\ child # "running"
    /\ Respond("failed", Stages[stage])
    /\ child' = "none"
    /\ UNCHANGED <<caller, drains, stage, written, code, stranger, answer>>

\* A native library prints to stdout too: the answer is no JSON.
Garble ==
    /\ worker = "respond" /\ written["stdout"] = 0
    /\ response' = [response EXCEPT !.says = "garbage"]
    /\ UNCHANGED <<caller, drains, worker, stage, written, code, child, stranger, answer>>

Put(s) ==
    /\ pipe[s] < PipeSize
    /\ pipe' = [pipe EXCEPT ![s] = @ + 1]
    /\ written' = [written EXCEPT ![s] = @ + 1]
    /\ UNCHANGED <<caller, reader, buffer, overflow, worker, stage, response, code, child,
                   stranger, answer>>

WriteResponse == worker = "respond" /\ written["stdout"] < response.size /\ Put("stdout")
Complain      == Running /\ written["stderr"] < MaxNoise /\ Put("stderr")

Exit ==
    /\ worker = "respond" /\ written["stdout"] = response.size
    /\ worker' = "zombie"
    /\ UNCHANGED <<caller, drains, stage, response, written, code, child, stranger, answer>>

\* A native crash, an import that fails, the kernel short of memory.
Crash ==
    /\ Running
    /\ worker' = "zombie"
    /\ code' \in {"error", "signal"}
    /\ UNCHANGED <<caller, drains, stage, response, written, child, stranger, answer>>

Worker == Boot \/ ReadRequest \/ ParseRequest \/ StartChild \/ ChildEnds \/ StageEnds
          \/ StageFails \/ Garble \/ WriteResponse \/ Complain \/ Exit \/ Crash

\* The pid is free once the worker is reaped and its group empty.
PidReused ==
    /\ worker = "reaped" /\ child # "running" /\ stranger = "none"
    /\ stranger' = "alive"
    /\ UNCHANGED <<caller, drains, process, answer>>

WorkerNext ==
    \/ Main \/ Worker \/ Collect \/ PidReused
    \/ \E s \in Streams : Drain(s) \/ DrainEnds(s)

WorkerSpec == WorkerInit /\ [][WorkerNext]_workerVars

\* The threads of the parent run; nothing is assumed of the worker.
FairWorkerSpec ==
    /\ WorkerSpec
    /\ WF_workerVars(Main)
    /\ \A s \in Streams : WF_workerVars(Drain(s)) /\ WF_workerVars(DrainEnds(s))

-----------------------------------------------------------------------------
(* Properties *)

\* A success is one the worker reported after its last stage, received to the
\* last unit from a process that exited normally in time; a failure that names
\* a stage names the one that raised (extract, _parse_response).
AnswerIsTheWorkers ==
    /\ answer.is = "succeeded" =>
           /\ stage = Len(Stages) /\ response.says = "succeeded"
           /\ code = "ok" /\ ~late /\ overflow = "none"
           /\ buffer["stdout"] = response.size
    /\ answer.is = "failed" => response.says = "failed" /\ answer.stage = response.stage

\* With the types: no thread keeps more than its limit.
AnswerIsSound == WorkerTypeOK /\ AnswerIsTheWorkers

\* Whatever extract answers, its worker runs no more, and after a timeout, an
\* overflow or a broken pipe neither does its decoder (docs/cli-usage.md:147, "A
\* timeout terminates the child's whole process group").  All but the broken pipe
\* have reaped the worker and joined both threads.
NothingRunsOn ==
    main = "done" =>
        /\ ~Running
        /\ answer.is \in {"timeout", "overflow", "broken"} => child # "running"
        /\ answer.is \notin {"refused", "broken"} =>
               worker = "reaped" /\ \A s \in Streams : reader[s] = "done"

\* Every extraction is answered, whatever the worker does, and its threads end,
\* those a broken pipe left alone too, when a request fits the pipe: the timeout
\* only starts after it is written.
ExtractEnds ==
    Request <= PipeSize =>
        <>(main = "done" /\ (worker = "none" \/ \A s \in Streams : reader[s] = "done"))

\* Known exception, in no run: a worker that dies before it has read its request
\* may be left unreaped, its threads unjoined (stdin.close() in worker_client.py:130).
EveryAnswerReaps ==
    main = "done" /\ answer.is # "refused" =>
        worker = "reaped" /\ \A s \in Streams : reader[s] = "done"

\* Known exception, in no run: a thread that meets the limit after the worker
\* was reaped signals a pid that may be somebody else's.
StrangersAreSpared == stranger # "killed"
=============================================================================
