------------------------------ MODULE Parallel ------------------------------
(***************************************************************************)
(* The parallel executor of protocol/parallel.c driving its local worker   *)
(* processes (protocol/server.c behind command/local/local.c), with the    *)
(* job queues of the backup command (command/backup/backup.c) as the       *)
(* callback that hands out jobs.                                           *)
(*                                                                         *)
(* The main process alternates between protocolParallelProcess() (collect  *)
(* what select() reports, then give every idle client a job), the caller's *)
(* loop over protocolParallelResult(), and protocolParallelDone().  Every  *)
(* client is a pipe pair to a worker that runs one command at a time,      *)
(* retries a failing handler, sends a keep alive to its own remotes after  *)
(* each command, and may die.                                              *)
(***************************************************************************)
EXTENDS Integers, Sequences, FiniteSets

CONSTANTS
    ClientTotal,    \* clients added with protocolParallelClientAdd()
    QueueTotal,     \* lstSize(queueList)
    Jobs,           \* the manifest files to be copied
    NoJob,          \* NULL job pointer
    BackupStandby,  \* option backup-standby: client 0 is on the primary
    RetryMax,       \* size of the retry interval list (job-retry)
    MaxExtra,       \* bound on the keep alives that fail after an answer, 0 when
                    \* neither the main nor a local process has a remote
    ThrowOnError    \* what a caller may do on a job error: throw (TRUE: backup,
                    \* restore) or record it and go on (FALSE: archive-push/get)

ASSUME ParallelAssumption ==
    /\ ClientTotal \in Nat \ {0}
    /\ QueueTotal \in Nat \ {0}
    /\ IsFiniteSet(Jobs)
    /\ NoJob \notin Jobs /\ "exit" \notin Jobs
    /\ BackupStandby \in BOOLEAN
    /\ BackupStandby => ClientTotal >= 2 /\ QueueTotal >= 2
    /\ RetryMax \in Nat
    /\ MaxExtra \in Nat
    /\ ThrowOnError \in SUBSET BOOLEAN \ {{}}

VARIABLES
    queue,      \* jobs not yet handed out, per queue of queueList
    state,      \* ProtocolParallel.state
    jobState,   \* state of each job; "none" before, "collected" after jobList
    jobResult,  \* what the caller got for a collected or done job
    clientJob,  \* clientJobList
    freed,      \* clients whose local process was freed
    command,    \* pipe from the main process to each worker
    response,   \* pipe from each worker to the main process
    worker,     \* what each worker process is doing
    workJob,    \* the job a worker is running
    retry,      \* retryRemaining in each worker, 0 outside of a handler
    effect,     \* how often the handler of a job ran to its end
    extra,      \* errors that were sent after the answer to a command
    pc,         \* where the main process is
    assignIdx,  \* loop index of "find new jobs to be run"
    completed   \* results the caller still has to fetch

jobVars == <<queue, jobState, jobResult>>
workVars == <<worker, workJob, retry, effect, extra>>
vars == <<queue, state, jobState, jobResult, clientJob, freed, command,
          response, worker, workJob, retry, effect, extra, pc, assignIdx,
          completed>>

ClientIdx == 0 .. ClientTotal - 1
QueueIdx == 0 .. QueueTotal - 1
Exit == "exit"

(***************************************************************************)
(* backupJobCallback(): which queues a client scans, and in which order.   *)
(***************************************************************************)
QueueOffset(c) == IF BackupStandby /\ c > 0 THEN 1 ELSE 0

\* Variant: the scan stops one queue short of where it began
ScanTotalShort(c) ==
    IF BackupStandby /\ c = 0 THEN 1 ELSE QueueTotal - QueueOffset(c) - 1

ScanTotal(c) ==
    IF BackupStandby /\ c = 0 THEN 1 ELSE QueueTotal - QueueOffset(c)

ScanStart(c) == IF BackupStandby /\ c = 0 THEN 0 ELSE c % ScanTotal(c)

\* The queue found after k calls of backupJobQueueNext()
ScanQueue(c, k) ==
    LET next == IF c % 2 = 1 THEN ScanStart(c) - k ELSE ScanStart(c) + k
        wrap == IF next < 0 THEN next + ScanTotal(c)
                ELSE IF next >= ScanTotal(c) THEN next - ScanTotal(c)
                ELSE next
    IN  wrap + QueueOffset(c)

\* Step k is the first of the scan that finds a job
FirstFound(c, k) ==
    /\ queue[ScanQueue(c, k)] # {}
    /\ \A i \in 0 .. k - 1 : queue[ScanQueue(c, i)] = {}

NoneFound(c) == \A k \in 0 .. ScanTotal(c) - 1 : queue[ScanQueue(c, k)] = {}

(***************************************************************************)
(* backupProcessQueue() has put every file in one queue and the clients    *)
(* have been added; the workers have answered the greeting and the noop.   *)
(***************************************************************************)
Init ==
    /\ \E of \in [Jobs -> QueueIdx] :
           queue = [q \in QueueIdx |-> {j \in Jobs : of[j] = q}]
    /\ state = "pending"
    /\ jobState = [j \in Jobs |-> "none"]
    /\ jobResult = [j \in Jobs |-> "none"]
    /\ clientJob = [c \in ClientIdx |-> NoJob]
    /\ freed = [c \in ClientIdx |-> FALSE]
    /\ command = [c \in ClientIdx |-> <<>>]
    /\ response = [c \in ClientIdx |-> <<>>]
    /\ worker = [c \in ClientIdx |-> "idle"]
    /\ workJob = [c \in ClientIdx |-> NoJob]
    /\ retry = [c \in ClientIdx |-> 0]
    /\ effect = [j \in Jobs |-> 0]
    /\ extra = 0
    /\ pc = "process"
    /\ assignIdx = 0
    /\ completed = 0

(***************************************************************************)
(* Main process.                                                           *)
(***************************************************************************)
\* jobList: the jobs that were handed out and not yet fetched
JobList == {j \in Jobs : jobState[j] \in {"running", "done"}}

Running == {c \in ClientIdx : clientJob[c] # NoJob}

\* select() reports a response, or the end of file a dead worker leaves
Readable == {c \in Running : response[c] # <<>> \/ worker[c] = "dead"}

\* Variant: end of file is taken for an empty result
ReadResultEof(c) ==
    IF response[c] # <<>> THEN Head(response[c]) ELSE "ok"

\* protocolClientDataGet() and protocolClientDataEndGet(), or their error
ReadResult(c) ==
    IF response[c] # <<>> THEN Head(response[c]) ELSE "error"

\* The value protocolParallelProcess() returns: what select() counted
CompletedTotal(ready) == Cardinality(ready)

\* protocolParallelProcess() up to the end of the collection of results
ProcessSelect ==
    /\ pc = "process"
    /\ state # "done"
    /\ state' = "running"
    /\ \E ready \in {Readable} :
         LET isReady(j) == \E c \in ready : clientJob[c] = j
             client(j) == CHOOSE c \in ready : clientJob[c] = j
         IN  /\ jobState' = [j \in Jobs |->
                    IF isReady(j) THEN "done" ELSE jobState[j]]
             /\ jobResult' = [j \in Jobs |->
                    IF isReady(j) THEN ReadResult(client(j))
                                  ELSE jobResult[j]]
             /\ clientJob' = [c \in ClientIdx |->
                    IF c \in ready THEN NoJob ELSE clientJob[c]]
             /\ response' = [c \in ClientIdx |->
                    IF c \in ready /\ response[c] # <<>>
                    THEN Tail(response[c]) ELSE response[c]]
             /\ completed' = CompletedTotal(ready)
    /\ pc' = "assign"
    /\ assignIdx' = 0
    /\ UNCHANGED <<queue, freed, command, workVars>>

\* Nothing is running for this client
ClientIdle(c) == clientJob[c] = NoJob

AssignNext ==
    /\ assignIdx' = assignIdx + 1
    /\ pc' = IF assignIdx + 1 = ClientTotal THEN "result" ELSE "assign"

\* Variant: leaves without protocolFree()
FreeAllNone == UNCHANGED <<freed, command>>

\* protocolFree() on the way out: every client that is still open is told to
\* exit and its process is waited for
FreeAll ==
    /\ freed' = [c \in ClientIdx |-> TRUE]
    /\ command' = [c \in ClientIdx |->
           IF freed[c] THEN command[c] ELSE Append(command[c], Exit)]

\* The client is running a job: nothing to do
AssignBusy ==
    /\ pc = "assign"
    /\ ~ClientIdle(assignIdx)
    /\ AssignNext
    /\ UNCHANGED <<state, completed, clientJob, freed, command, response,
                   jobVars, workVars>>

\* The callback returns a job and the command is written to the client.  The
\* write fails when the worker is gone, and then the whole call throws.
AssignJob ==
    /\ pc = "assign"
    /\ ClientIdle(assignIdx)
    /\ \E k \in 0 .. ScanTotal(assignIdx) - 1 :
         /\ FirstFound(assignIdx, k)
         /\ \E j \in queue[ScanQueue(assignIdx, k)] :
              /\ queue' = [queue EXCEPT ![ScanQueue(assignIdx, k)] = @ \ {j}]
              /\ \/ /\ worker[assignIdx] # "dead"
                    /\ command' = [command EXCEPT ![assignIdx] = Append(@, j)]
                    /\ jobState' = [jobState EXCEPT ![j] = "running"]
                    /\ clientJob' = [clientJob EXCEPT ![assignIdx] = j]
                    /\ AssignNext
                    /\ UNCHANGED freed
                 \/ /\ worker[assignIdx] = "dead"
                    /\ FreeAll
                    /\ pc' = "failed"
                    /\ UNCHANGED <<jobState, clientJob, assignIdx>>
    /\ UNCHANGED <<state, completed, response, jobResult, workVars>>

\* The callback has nothing left for this client: protocolLocalFree()
AssignFree ==
    /\ pc = "assign"
    /\ ClientIdle(assignIdx)
    /\ NoneFound(assignIdx)
    /\ freed' = [freed EXCEPT ![assignIdx] = TRUE]
    /\ command' = IF freed[assignIdx] THEN command
                  ELSE [command EXCEPT ![assignIdx] = Append(@, Exit)]
    /\ AssignNext
    /\ UNCHANGED <<state, completed, clientJob, response, jobVars, workVars>>

\* A keep alive that the caller sends to its own remotes fails
CallerThrow ==
    /\ pc = "result"
    /\ MaxExtra > 0
    /\ FreeAll
    /\ pc' = "failed"
    /\ UNCHANGED <<state, clientJob, response, assignIdx, completed, jobVars,
                   workVars>>

\* The caller fetches one finished job with protocolParallelResult() and
\* handles it; on a job error it throws or records the error and goes on
FetchResult ==
    /\ pc = "result"
    /\ completed > 0
    /\ completed' = completed - 1
    /\ \E j \in JobList :
         /\ jobState[j] = "done"
         /\ jobState' = [jobState EXCEPT ![j] = "collected"]
         /\ \E throw \in ThrowOnError :
              IF throw /\ jobResult[j] = "error"
              THEN FreeAll /\ pc' = "failed"
              ELSE UNCHANGED <<freed, command, pc>>
    /\ UNCHANGED <<queue, state, jobResult, clientJob, response, assignIdx,
                   workVars>>

\* protocolParallelDone(): no job is left in jobList
CheckDone ==
    /\ pc = "result"
    /\ completed = 0
    /\ IF JobList = {}
       THEN state' = "done" /\ pc' = "end"
       ELSE pc' = "process" /\ UNCHANGED state
    /\ UNCHANGED <<clientJob, freed, command, response, assignIdx, completed,
                   jobVars, workVars>>

(***************************************************************************)
(* Worker process: protocolServerProcess().                                *)
(***************************************************************************)
CommandGet(c) ==
    /\ worker[c] = "idle"
    /\ command[c] # <<>>
    /\ command' = [command EXCEPT ![c] = Tail(@)]
    /\ IF Head(command[c]) = Exit
       THEN /\ worker' = [worker EXCEPT ![c] = "exited"]
            /\ UNCHANGED <<workJob, retry>>
       ELSE /\ worker' = [worker EXCEPT ![c] = "handler"]
            /\ workJob' = [workJob EXCEPT ![c] = Head(command[c])]
            /\ retry' = [retry EXCEPT ![c] = RetryMax]
    /\ UNCHANGED <<state, clientJob, freed, response, pc, assignIdx,
                   completed, jobVars, effect, extra>>

\* The handler completed its work and is about to report the result
HandlerDone(c) ==
    /\ worker[c] = "handler"
    /\ worker' = [worker EXCEPT ![c] = "report"]
    /\ effect' = [effect EXCEPT ![workJob[c]] = @ + 1]
    /\ UNCHANGED <<state, clientJob, freed, command, response, pc, assignIdx,
                   completed, jobVars, workJob, retry, extra>>

\* Data and data-end messages, flushed together
HandlerReport(c) ==
    /\ worker[c] = "report"
    /\ worker' = [worker EXCEPT ![c] = "alive"]
    /\ workJob' = [workJob EXCEPT ![c] = NoJob]
    /\ response' = [response EXCEPT ![c] = Append(@, "ok")]
    /\ retry' = [retry EXCEPT ![c] = 0]
    /\ UNCHANGED <<state, clientJob, freed, command, pc, assignIdx,
                   completed, jobVars, effect, extra>>

\* protocolKeepAlive() after the answer.  When a remote is gone it throws, and
\* the server loop reports that with protocolServerError(), to a client that has
\* its answer already.
KeepAlive(c) ==
    /\ worker[c] = "alive"
    /\ worker' = [worker EXCEPT ![c] = "idle"]
    /\ \/ UNCHANGED <<response, extra>>
       \/ /\ extra < MaxExtra
          /\ extra' = extra + 1
          /\ response' = [response EXCEPT ![c] = Append(@, "error")]
    /\ UNCHANGED <<state, clientJob, freed, command, pc, assignIdx,
                   completed, jobVars, workJob, retry, effect>>

\* The handler threw: retry while the interval list lasts, then rethrow, which
\* protocolServerProcess() reports with protocolServerError().  The keep alive
\* that goes with a retry may throw as well and ends the retries.
HandlerThrow(c) ==
    /\ worker[c] = "handler"
    /\ \/ /\ retry[c] > 0
          /\ retry' = [retry EXCEPT ![c] = @ - 1]
          /\ UNCHANGED <<worker, workJob, response>>
       \/ /\ retry[c] = 0 \/ MaxExtra > 0
          /\ worker' = [worker EXCEPT ![c] = "idle"]
          /\ workJob' = [workJob EXCEPT ![c] = NoJob]
          /\ response' = [response EXCEPT ![c] = Append(@, "error")]
          /\ retry' = [retry EXCEPT ![c] = 0]
    /\ UNCHANGED <<state, clientJob, freed, command, pc, assignIdx,
                   completed, jobVars, effect, extra>>

\* The process is killed or loses its host
WorkerDie(c) ==
    /\ worker[c] \in {"idle", "handler", "report", "alive"}
    /\ worker' = [worker EXCEPT ![c] = "dead"]
    /\ workJob' = [workJob EXCEPT ![c] = NoJob]
    /\ retry' = [retry EXCEPT ![c] = 0]
    /\ UNCHANGED <<state, clientJob, freed, command, response, pc, assignIdx,
                   completed, jobVars, effect, extra>>

\* The executor has returned or thrown and every worker is gone
Terminated ==
    /\ pc \in {"end", "failed"}
    /\ \A c \in ClientIdx : worker[c] \in {"exited", "dead"}
    /\ UNCHANGED vars

MainNext ==
    \/ ProcessSelect
    \/ AssignBusy
    \/ AssignJob
    \/ AssignFree
    \/ CallerThrow
    \/ FetchResult
    \/ CheckDone

WorkerNext(c) ==
    \/ CommandGet(c)
    \/ HandlerDone(c)
    \/ HandlerReport(c)
    \/ KeepAlive(c)
    \/ HandlerThrow(c)

Next ==
    \/ MainNext
    \/ \E c \in ClientIdx : WorkerNext(c) \/ WorkerDie(c)
    \/ Terminated

Spec == Init /\ [][Next]_vars

\* The main loop keeps calling protocolParallelProcess(), and a worker that is
\* alive makes progress; nothing forces a worker to die
Fairness ==
    /\ WF_vars(MainNext)
    /\ \A c \in ClientIdx : WF_vars(WorkerNext(c))

FairSpec == Spec /\ Fairness

-----------------------------------------------------------------------------
Message == Jobs \cup {Exit}

\* Type invariant of the executor's and the workers' state.
TypeOK ==
    /\ queue \in [QueueIdx -> SUBSET Jobs]
    /\ state \in {"pending", "running", "done"}
    /\ jobState \in [Jobs -> {"none", "running", "done", "collected"}]
    /\ jobResult \in [Jobs -> {"none", "ok", "error"}]
    /\ clientJob \in [ClientIdx -> Jobs \cup {NoJob}]
    /\ freed \in [ClientIdx -> BOOLEAN]
    /\ command \in [ClientIdx -> Seq(Message)]
    /\ response \in [ClientIdx -> Seq({"ok", "error"})]
    /\ worker \in
         [ClientIdx -> {"idle", "handler", "report", "alive", "exited", "dead"}]
    /\ workJob \in [ClientIdx -> Jobs \cup {NoJob}]
    /\ retry \in [ClientIdx -> 0 .. RetryMax]
    /\ effect \in [Jobs -> Nat]
    /\ extra \in 0 .. MaxExtra
    /\ pc \in {"process", "assign", "result", "end", "failed"}
    /\ assignIdx \in 0 .. ClientTotal
    /\ completed \in Nat

\* When protocolParallelDone() reports the end, no queue holds a job (the
\* assertion after the loop in backupProcess()) and every job was handed to
\* the caller: no file of the manifest is silently left out of the backup.
DoneComplete ==
    pc = "end" =>
        /\ \A q \in QueueIdx : queue[q] = {}
        /\ \A j \in Jobs : jobState[j] = "collected"

\* A job that is returned as good has been done: its handler ran to its end
\* (protocolParallelProcess() takes what select() reports for the result of the
\* job its client was given).
ResultOwn == \A j \in Jobs : jobResult[j] = "ok" => effect[j] = 1

\* No handler ever runs to its end twice and no job is returned without a result,
\* whatever is retried or dies in between; and a job that is returned as good has
\* been done, as long as no local process has sent an error after its answer.
ResultFaithful ==
    /\ \A j \in Jobs : effect[j] <= 1 /\ (jobState[j] = "collected" => jobResult[j] # "none")
    /\ extra = 0 => ResultOwn

\* A client whose process was freed is never given another job, although the
\* executor keeps asking the callback on its behalf.
FreedStaysIdle ==
    \A c \in ClientIdx : freed[c] /\ pc # "failed" => clientJob[c] = NoJob

\* The caller's loop over the number of completed jobs always finds a finished
\* job in jobList, so protocolParallelResult() never returns NULL there.
ResultAvailable ==
    pc = "result" =>
        completed = Cardinality({j \in Jobs : jobState[j] = "done"})

\* A connection never carries two outstanding commands: a response read from
\* a client always belongs to the job assigned to it, as long as no error has
\* been sent after an answer.
OneOutstanding ==
    \A c \in ClientIdx :
        pc # "failed" /\ extra = 0 =>
            /\ Len(response[c]) <= 1
            /\ response[c] # <<>> =>
                 /\ clientJob[c] # NoJob
                 /\ \A i \in 1 .. Len(command[c]) : command[c][i] = Exit
            /\ workJob[c] # NoJob => workJob[c] = clientJob[c]

\* The executor as a pool of jobs, each handed out and fetched once
poolStatus == [j \in Jobs |->
    IF jobState[j] = "none" THEN "waiting"
    ELSE IF jobState[j] = "collected" THEN "fetched" ELSE "given"]

poolPhase == IF pc \in {"end", "failed"} THEN pc ELSE "run"

Pool == INSTANCE JobPool WITH status <- poolStatus, phase <- poolPhase

\* The executor with its pipes, retries and dying workers implements the job
\* pool its callers rely on.
PoolSpec == Pool!Spec

\* The executor terminates: every job is collected or the call throws; and no
\* local process outlives it: each is told to exit or is dead.
ExecutorEnds ==
    <>(/\ pc \in {"end", "failed"}
       /\ \A c \in ClientIdx : worker[c] \in {"exited", "dead"})
=============================================================================
