--------------------------- MODULE ParallelProofs ---------------------------
(***************************************************************************)
(* Proofs about the parallel executor for any number of clients, queues,   *)
(* jobs and retries: its type invariant, that it ends only when no job is  *)
(* left anywhere, that it implements the abstract job pool, and that the   *)
(* results it returns are those of the jobs it sent.                       *)
(*                                                                         *)
(* DoneComplete is not inductive.  When jobList is found empty the queues  *)
(* are empty only because the pass over the clients that came just before  *)
(* asked the callback for every idle client and got nothing (ScanInv), and *)
(* an empty jobList means that every client is idle only because a client  *)
(* that holds a job holds a running one, and no other client holds the     *)
(* same (JobInv).                                                          *)
(*                                                                         *)
(* Neither is ResultFaithful.  It needs to know where the job of a client  *)
(* is (PipeInv): in the pipe to the worker, in the worker, in the pipe     *)
(* back or lost; that a worker told to exit gets no further job, because   *)
(* its client will never find one (FreedInv); and what each stage says of  *)
(* the number of times the handler has run (EffectInv).  PipeInv ends with *)
(* the first error that is sent after an answer: from then on a client is  *)
(* taken for idle while its worker is behind.  That no handler runs to its *)
(* end twice rests on less: a job is in one pipe or one worker (HandInv).  *)
(***************************************************************************)
EXTENDS Parallel, FiniteSetTheorems, TLAPS

\* Queues and clients hold disjoint jobs in the matching job state.
JobInv ==
    /\ \A q, r \in QueueIdx : \A j \in Jobs :
         j \in queue[q] /\ j \in queue[r] => q = r
    /\ \A q \in QueueIdx : \A j \in queue[q] : jobState[j] = "none"
    /\ \A c \in ClientIdx :
         clientJob[c] # NoJob => jobState[clientJob[c]] = "running"
    /\ \A c, d \in ClientIdx :
         clientJob[c] = clientJob[d] /\ clientJob[c] # NoJob => c = d
    /\ \A j \in Jobs : jobState[j] = "none" /\ pc # "failed" =>
         \E q \in QueueIdx : j \in queue[q]

\* A client the current pass has visited and left idle finds no job.
ScanInv ==
    /\ pc = "assign" => assignIdx < ClientTotal
    /\ \A c \in ClientIdx :
         /\ pc = "result" \/ (pc = "assign" /\ c < assignIdx)
         /\ clientJob[c] = NoJob
         => NoneFound(c)

IInv == TypeOK /\ JobInv /\ ScanInv /\ DoneComplete

-----------------------------------------------------------------------------
\* The remainder used to pick the first queue of a scan is a queue number.
LEMMA ModRange ==
    ASSUME NEW c \in Nat, NEW n \in Nat \ {0}
    PROVE  c % n \in 0 .. n - 1
  OBVIOUS

\* A client scans at least one queue, starting inside its range.
LEMMA ScanBounds ==
    ASSUME NEW c \in ClientIdx
    PROVE  /\ ScanTotal(c) \in Nat \ {0}
           /\ ScanStart(c) \in 0 .. ScanTotal(c) - 1
           /\ QueueOffset(c) + ScanTotal(c) <= QueueTotal
           /\ QueueOffset(c) \in {0, 1}
  <1>1. c \in Nat
    BY ParallelAssumption DEF ClientIdx
  <1>2. ScanTotal(c) \in Nat \ {0}
    BY <1>1, ParallelAssumption DEF ScanTotal, QueueOffset
  <1>3. c % ScanTotal(c) \in 0 .. ScanTotal(c) - 1
    BY <1>1, <1>2, ModRange
  <1>4. ScanStart(c) \in 0 .. ScanTotal(c) - 1
    BY <1>2, <1>3 DEF ScanStart, ScanTotal
  <1>5. /\ QueueOffset(c) + ScanTotal(c) <= QueueTotal
        /\ QueueOffset(c) \in {0, 1}
    BY <1>1, ParallelAssumption DEF ScanTotal, QueueOffset
  <1> QED
    BY <1>2, <1>4, <1>5

\* Every step of a scan looks at an existing queue.
LEMMA ScanInRange ==
    ASSUME NEW c \in ClientIdx, NEW k \in 0 .. ScanTotal(c) - 1
    PROVE  ScanQueue(c, k) \in QueueIdx
  BY ScanBounds, ParallelAssumption DEF ScanQueue, QueueIdx

\* A scan visits every queue from its offset on.
LEMMA ScanReaches ==
    ASSUME NEW c \in ClientIdx,
           NEW q \in QueueOffset(c) .. QueueOffset(c) + ScanTotal(c) - 1
    PROVE  \E k \in 0 .. ScanTotal(c) - 1 : ScanQueue(c, k) = q
  <1> DEFINE n == ScanTotal(c)
             s == ScanStart(c)
             p == q - QueueOffset(c)
  <1>1. /\ n \in Nat \ {0}
        /\ s \in 0 .. n - 1
        /\ p \in 0 .. n - 1
    BY ScanBounds
  <1>2. CASE c % 2 = 1
    <2> DEFINE k == IF p <= s THEN s - p ELSE s - p + n
    <2>1. k \in 0 .. n - 1
      BY <1>1
    <2>2. ScanQueue(c, k) = q
      BY <1>1, <1>2, ScanBounds DEF ScanQueue
    <2> QED
      BY <2>1, <2>2
  <1>3. CASE ~(c % 2 = 1)
    <2> DEFINE k == IF p >= s THEN p - s ELSE p - s + n
    <2>1. k \in 0 .. n - 1
      BY <1>1
    <2>2. ScanQueue(c, k) = q
      BY <1>1, <1>3, ScanBounds DEF ScanQueue
    <2> QED
      BY <2>1, <2>2
  <1> QED
    BY <1>2, <1>3

\* Between them the clients scan every queue: client 0 when there is no
\* standby, else client 0 the first queue and client 1 all the others.
LEMMA ScanCovers ==
    ASSUME \A c \in ClientIdx : NoneFound(c)
    PROVE  \A q \in QueueIdx : queue[q] = {}
  <1> SUFFICES ASSUME NEW q \in QueueIdx
               PROVE  \E c \in ClientIdx :
                        q \in QueueOffset(c) ..
                              QueueOffset(c) + ScanTotal(c) - 1
    BY ScanReaches DEF NoneFound
  <1>1. CASE BackupStandby /\ q > 0
    <2>1. 1 \in ClientIdx
      BY <1>1, ParallelAssumption DEF ClientIdx
    <2>2. q \in QueueOffset(1) .. QueueOffset(1) + ScanTotal(1) - 1
      BY <1>1, ParallelAssumption DEF QueueOffset, ScanTotal, QueueIdx
    <2> QED
      BY <2>1, <2>2
  <1>2. CASE ~(BackupStandby /\ q > 0)
    <2>1. 0 \in ClientIdx
      BY ParallelAssumption DEF ClientIdx
    <2>2. q \in QueueOffset(0) .. QueueOffset(0) + ScanTotal(0) - 1
      BY <1>2, ParallelAssumption DEF QueueOffset, ScanTotal, QueueIdx
    <2> QED
      BY <2>1, <2>2
  <1> QED
    BY <1>1, <1>2

-----------------------------------------------------------------------------
\* backupProcessQueue() puts every job in one queue and nothing is running.
LEMMA InitIInv == Init => IInv
  <1> SUFFICES ASSUME Init PROVE IInv
    OBVIOUS
  <1> USE ParallelAssumption
  <1>1. TypeOK
    BY DEF Init, TypeOK, QueueIdx, ClientIdx, Message
  <1>2. JobInv
    BY DEF Init, JobInv
  <1>3. ScanInv /\ DoneComplete
    BY DEF Init, ScanInv, DoneComplete
  <1> QED
    BY <1>1, <1>2, <1>3 DEF IInv

\* Collecting the responses empties the clients of finished jobs.
LEMMA SelectIInv == IInv /\ ProcessSelect => IInv'
  <1> SUFFICES ASSUME IInv, ProcessSelect PROVE IInv'
    OBVIOUS
  <1> USE DEF IInv
  <1> DEFINE ready == Readable
             isReady(j) == \E c \in ready : clientJob[c] = j
             client(j) == CHOOSE c \in ready : clientJob[c] = j
  <1>1. /\ jobState' = [j \in Jobs |->
              IF isReady(j) THEN "done" ELSE jobState[j]]
        /\ jobResult' = [j \in Jobs |->
              IF isReady(j) THEN ReadResult(client(j)) ELSE jobResult[j]]
        /\ clientJob' = [c \in ClientIdx |->
              IF c \in ready THEN NoJob ELSE clientJob[c]]
        /\ response' = [c \in ClientIdx |->
              IF c \in ready /\ response[c] # <<>>
              THEN Tail(response[c]) ELSE response[c]]
        /\ completed' = Cardinality(ready)
        /\ state' = "running" /\ pc' = "assign" /\ assignIdx' = 0
        /\ UNCHANGED <<queue, freed, command, workVars>>
    BY DEF ProcessSelect, CompletedTotal
  <1>2. ready \subseteq ClientIdx
    BY DEF Readable, Running
  <1>3. \A c \in ready : clientJob[c] \in Jobs
    BY <1>2 DEF Readable, Running, TypeOK
  <1>4. TypeOK'
    <2>1. Cardinality(ready) \in Nat
      <3>1. IsFiniteSet(ClientIdx)
        BY FS_Interval, ParallelAssumption DEF ClientIdx
      <3> QED
        BY <3>1, <1>2, FS_Subset, FS_CardinalityType
    <2>2. \A c \in ready : ReadResult(c) \in {"ok", "error"}
      BY <1>2 DEF ReadResult, TypeOK
    <2>3. \A j \in Jobs : isReady(j) =>
             ReadResult(client(j)) \in {"ok", "error"}
      BY <2>2
    <2>4. jobResult' \in [Jobs -> {"none", "ok", "error"}]
      BY <1>1, <2>3 DEF TypeOK
    <2>5. response' \in [ClientIdx -> Seq({"ok", "error"})]
      BY <1>1 DEF TypeOK
    <2>6. /\ jobState' \in [Jobs -> {"none", "running", "done", "collected"}]
          /\ clientJob' \in [ClientIdx -> Jobs \cup {NoJob}]
      BY <1>1 DEF TypeOK
    <2> QED
      BY <1>1, <2>1, <2>4, <2>5, <2>6, ParallelAssumption
      DEF TypeOK, workVars
  <1>5. JobInv'
    <2>1. \A j \in Jobs : isReady(j) => jobState[j] = "running"
      BY <1>2, <1>3, ParallelAssumption DEF JobInv
    <2>2. \A c \in ClientIdx :
             clientJob'[c] # NoJob => jobState'[clientJob'[c]] = "running"
      BY <1>1, <1>2, <1>3 DEF JobInv, TypeOK
    <2>3. \A q \in QueueIdx : \A j \in queue'[q] : jobState'[j] = "none"
      BY Zenon, <1>1, <2>1 DEF JobInv, TypeOK
    <2>4. \A j \in Jobs : jobState'[j] = "none" /\ pc' # "failed" =>
             \E q \in QueueIdx : j \in queue'[q]
      BY <1>1, <2>1 DEF JobInv, TypeOK, ProcessSelect
    <2>5. \A c, d \in ClientIdx :
             clientJob'[c] = clientJob'[d] /\ clientJob'[c] # NoJob => c = d
      BY <1>1 DEF JobInv
    <2> QED
      BY <1>1, <2>2, <2>3, <2>4, <2>5 DEF JobInv
  <1>6. ScanInv' /\ DoneComplete'
    BY <1>1, ParallelAssumption DEF ScanInv, DoneComplete, ClientIdx
  <1> QED
    BY <1>4, <1>5, <1>6

\* A pass of the assignment loop goes on to the next client and leaves behind
\* one that has a job or finds none.
LEMMA PassStep ==
    ASSUME TypeOK, ScanInv, pc = "assign", AssignNext,
           \A q \in QueueIdx : queue'[q] \subseteq queue[q],
           \A c \in ClientIdx :
               c # assignIdx => clientJob'[c] = clientJob[c],
           clientJob'[assignIdx] = NoJob => NoneFound(assignIdx)
    PROVE  ScanInv' /\ assignIdx' \in 0 .. ClientTotal
  <1> USE ParallelAssumption
  <1>1. assignIdx \in ClientIdx
    BY DEF TypeOK, ScanInv, ClientIdx
  <1>2. /\ assignIdx' \in 0 .. ClientTotal
        /\ pc' = "assign" => assignIdx' < ClientTotal
    BY <1>1 DEF AssignNext, ClientIdx
  <1>3. ASSUME NEW c \in ClientIdx, NoneFound(c)
        PROVE  NoneFound(c)'
    <2> SUFFICES ASSUME NEW k \in 0 .. ScanTotal(c) - 1
                 PROVE  queue'[ScanQueue(c, k)] = {}
      BY DEF NoneFound
    <2>1. ScanQueue(c, k) \in QueueIdx /\ queue[ScanQueue(c, k)] = {}
      BY <1>3, ScanInRange DEF NoneFound
    <2> QED
      BY <2>1
  <1>4. ASSUME NEW c \in ClientIdx, clientJob'[c] = NoJob,
               pc' = "result" \/ (pc' = "assign" /\ c < assignIdx')
        PROVE  NoneFound(c)
    <2>1. c < assignIdx \/ c = assignIdx
      BY <1>1, <1>4 DEF AssignNext, ClientIdx
    <2>2. CASE c = assignIdx
      BY <1>4, <2>2
    <2>3. CASE c < assignIdx
      BY <1>1, <1>4, <2>3 DEF ScanInv, ClientIdx
    <2> QED
      BY <2>1, <2>2, <2>3
  <1> QED
    BY <1>2, <1>3, <1>4 DEF ScanInv

\* A client that is visited while it runs a job keeps it.
LEMMA BusyIInv == IInv /\ AssignBusy => IInv'
  <1> SUFFICES ASSUME IInv, AssignBusy PROVE IInv'
    OBVIOUS
  <1> USE DEF IInv
  <1>1. ScanInv' /\ assignIdx' \in 0 .. ClientTotal
    BY PassStep DEF AssignBusy, ClientIdle, jobVars
  <1>2. TypeOK'
    BY <1>1 DEF TypeOK, AssignBusy, AssignNext, jobVars, workVars
  <1>3. JobInv'
    BY DEF JobInv, AssignBusy, AssignNext, jobVars
  <1>4. DoneComplete'
    BY DEF DoneComplete, AssignBusy, AssignNext
  <1> QED
    BY <1>1, <1>2, <1>3, <1>4

\* A client for which the callback has nothing is freed and stays idle.
LEMMA FreeIInv == IInv /\ AssignFree => IInv'
  <1> SUFFICES ASSUME IInv, AssignFree PROVE IInv'
    OBVIOUS
  <1> USE DEF IInv
  <1>1. ScanInv' /\ assignIdx' \in 0 .. ClientTotal
    BY PassStep DEF AssignFree, ClientIdle, jobVars
  <1>2. TypeOK'
    <2>1. assignIdx \in ClientIdx
      BY ParallelAssumption DEF AssignFree, TypeOK, ScanInv, ClientIdx
    <2>2. freed' \in [ClientIdx -> BOOLEAN]
      BY <2>1 DEF AssignFree, TypeOK
    <2>3. command' \in [ClientIdx -> Seq(Message)]
      BY <2>1 DEF AssignFree, TypeOK, Message
    <2> QED
      BY <1>1, <2>2, <2>3
      DEF TypeOK, AssignFree, AssignNext, jobVars, workVars
  <1>3. JobInv'
    BY DEF JobInv, AssignFree, AssignNext, jobVars
  <1>4. DoneComplete'
    BY DEF DoneComplete, AssignFree, AssignNext
  <1> QED
    BY <1>1, <1>2, <1>3, <1>4

\* protocolFree() only appends exit commands.
LEMMA FreeAllType ==
    ASSUME TypeOK, FreeAll
    PROVE  /\ command' \in [ClientIdx -> Seq(Message)]
           /\ freed' \in [ClientIdx -> BOOLEAN]
  BY DEF TypeOK, Message, FreeAll

\* A job moves from its queue to the client, or the whole call throws.
LEMMA JobIInv == IInv /\ AssignJob => IInv'
  <1> SUFFICES ASSUME IInv, AssignJob PROVE IInv'
    OBVIOUS
  <1> USE DEF IInv
  <1>1. assignIdx \in ClientIdx
    BY ParallelAssumption DEF AssignJob, TypeOK, ScanInv, ClientIdx
  <1>2. PICK k \in 0 .. ScanTotal(assignIdx) - 1 :
          \E j \in queue[ScanQueue(assignIdx, k)] :
            /\ queue' = [queue EXCEPT ![ScanQueue(assignIdx, k)] = @ \ {j}]
            /\ \/ /\ worker[assignIdx] # "dead"
                  /\ command' = [command EXCEPT ![assignIdx] = Append(@, j)]
                  /\ jobState' = [jobState EXCEPT ![j] = "running"]
                  /\ clientJob' = [clientJob EXCEPT ![assignIdx] = j]
                  /\ AssignNext
                  /\ UNCHANGED freed
               \/ /\ worker[assignIdx] = "dead"
                  /\ FreeAll
                  /\ pc' = "failed"
                  /\ UNCHANGED <<jobState, clientJob, assignIdx>>
    BY Zenon DEF AssignJob
  <1> DEFINE p == ScanQueue(assignIdx, k)
  <1>3. p \in QueueIdx
    BY <1>1, ScanInRange
  <1>4. PICK j \in queue[p] :
            /\ queue' = [queue EXCEPT ![p] = @ \ {j}]
            /\ \/ /\ worker[assignIdx] # "dead"
                  /\ command' = [command EXCEPT ![assignIdx] = Append(@, j)]
                  /\ jobState' = [jobState EXCEPT ![j] = "running"]
                  /\ clientJob' = [clientJob EXCEPT ![assignIdx] = j]
                  /\ AssignNext
                  /\ UNCHANGED freed
               \/ /\ worker[assignIdx] = "dead"
                  /\ FreeAll
                  /\ pc' = "failed"
                  /\ UNCHANGED <<jobState, clientJob, assignIdx>>
    BY Zenon, <1>2
  <1>5. j \in Jobs /\ j # NoJob /\ jobState[j] = "none"
    BY <1>3, ParallelAssumption DEF TypeOK, JobInv
  <1>6. /\ pc = "assign" /\ clientJob[assignIdx] = NoJob
        /\ UNCHANGED <<state, completed, response, jobResult, workVars>>
    BY DEF AssignJob, ClientIdle
  <1>7. /\ queue' \in [QueueIdx -> SUBSET Jobs]
        /\ \A q \in QueueIdx : queue'[q] \subseteq queue[q]
    BY <1>3, <1>4 DEF TypeOK
  <1>8. CASE /\ command' = [command EXCEPT ![assignIdx] = Append(@, j)]
             /\ jobState' = [jobState EXCEPT ![j] = "running"]
             /\ clientJob' = [clientJob EXCEPT ![assignIdx] = j]
             /\ AssignNext
             /\ UNCHANGED freed
    <2>1. ScanInv' /\ assignIdx' \in 0 .. ClientTotal
      BY Zenon, <1>1, <1>5, <1>6, <1>7, <1>8, PassStep DEF TypeOK
    <2>2. TypeOK'
      <3>1. command' \in [ClientIdx -> Seq(Message)]
        BY <1>1, <1>5, <1>8 DEF TypeOK, Message
      <3> QED
        BY <1>1, <1>5, <1>6, <1>7, <1>8, <2>1, <3>1
        DEF TypeOK, AssignNext, workVars
    <2>3. JobInv'
      <3>1. \A q \in QueueIdx : j \notin queue'[q]
        BY <1>3, <1>4, <1>5 DEF JobInv, TypeOK
      <3>2. \A q, r \in QueueIdx : \A i \in Jobs :
               i \in queue'[q] /\ i \in queue'[r] => q = r
        BY <1>7 DEF JobInv
      <3>3. \A q \in QueueIdx : \A i \in queue'[q] : jobState'[i] = "none"
        BY <1>5, <1>7, <1>8, <3>1 DEF JobInv, TypeOK
      <3>4. \A c \in ClientIdx : clientJob[c] # j
        BY <1>5 DEF JobInv
      <3>5. \A c \in ClientIdx :
               clientJob'[c] # NoJob => jobState'[clientJob'[c]] = "running"
        BY <1>1, <1>5, <1>8 DEF JobInv, TypeOK
      <3>6. \A c, d \in ClientIdx :
               clientJob'[c] = clientJob'[d] /\ clientJob'[c] # NoJob => c = d
        BY <1>1, <1>8, <3>4 DEF JobInv, TypeOK
      <3>7. \A i \in Jobs : jobState'[i] = "none" =>
               \E q \in QueueIdx : i \in queue'[q]
        BY <1>3, <1>4, <1>5, <1>6, <1>8 DEF JobInv, TypeOK
      <3> QED
        BY <3>2, <3>3, <3>5, <3>6, <3>7 DEF JobInv
    <2> QED
      BY <1>8, <2>1, <2>2, <2>3 DEF AssignNext, DoneComplete
  <1>9. CASE FreeAll /\ pc' = "failed"
             /\ UNCHANGED <<jobState, clientJob, assignIdx>>
    <2>1. TypeOK'
      <3>1. /\ command' \in [ClientIdx -> Seq(Message)]
            /\ freed' \in [ClientIdx -> BOOLEAN]
        BY <1>9, FreeAllType
      <3> QED
        BY <1>6, <1>7, <1>9, <3>1 DEF TypeOK, workVars
    <2>2. JobInv'
      BY <1>7, <1>9 DEF JobInv
    <2>3. ScanInv' /\ DoneComplete'
      BY <1>9 DEF ScanInv, DoneComplete
    <2> QED
      BY <2>1, <2>2, <2>3
  <1> QED
    BY <1>4, <1>8, <1>9

\* The caller takes one finished job out of jobList.
LEMMA FetchIInv == IInv /\ FetchResult => IInv'
  <1> SUFFICES ASSUME IInv, FetchResult PROVE IInv'
    OBVIOUS
  <1> USE DEF IInv
  <1>1. PICK j \in JobList :
          /\ jobState[j] = "done"
          /\ jobState' = [jobState EXCEPT ![j] = "collected"]
          /\ \E throw \in ThrowOnError :
               IF throw /\ jobResult[j] = "error"
               THEN FreeAll /\ pc' = "failed"
               ELSE UNCHANGED <<freed, command, pc>>
    BY Zenon DEF FetchResult
  <1>2. j \in Jobs
    BY DEF JobList
  <1>3. /\ pc = "result" /\ pc' \in {"result", "failed"}
        /\ completed' = completed - 1 /\ completed > 0
        /\ UNCHANGED <<queue, state, jobResult, clientJob, response,
                       assignIdx, workVars>>
    BY <1>1 DEF FetchResult
  <1>4. TypeOK'
    <2>1. CASE FreeAll
      BY <1>1, <1>2, <1>3, <2>1, FreeAllType DEF TypeOK, workVars
    <2>2. CASE UNCHANGED <<freed, command, pc>>
      BY <1>1, <1>2, <1>3, <2>2 DEF TypeOK, workVars
    <2> QED
      BY <1>1, <2>1, <2>2
  <1>5. JobInv'
    BY <1>1, <1>2, <1>3 DEF JobInv, TypeOK
  <1>6. ScanInv' /\ DoneComplete'
    BY <1>3 DEF ScanInv, DoneComplete, NoneFound
  <1> QED
    BY <1>4, <1>5, <1>6

\* An empty jobList after a full pass over the clients means that no job is
\* left in a queue or with a client.
LEMMA NothingLeft ==
    ASSUME IInv, pc = "result", JobList = {}
    PROVE  /\ \A q \in QueueIdx : queue[q] = {}
           /\ \A j \in Jobs : jobState[j] = "collected"
  <1> USE DEF IInv
  <1>1. \A c \in ClientIdx : clientJob[c] = NoJob
    BY DEF JobInv, JobList, TypeOK
  <1>2. \A c \in ClientIdx : NoneFound(c)
    BY <1>1 DEF ScanInv
  <1>3. \A q \in QueueIdx : queue[q] = {}
    BY <1>2, ScanCovers
  <1>4. \A j \in Jobs : jobState[j] # "none"
    BY <1>3 DEF JobInv
  <1>5. \A j \in Jobs : jobState[j] = "collected"
    BY <1>4 DEF JobList, TypeOK
  <1> QED
    BY <1>3, <1>5

\* protocolParallelDone() ends the loop or starts another round.
LEMMA CheckIInv == IInv /\ CheckDone => IInv'
  <1> SUFFICES ASSUME IInv, CheckDone PROVE IInv'
    OBVIOUS
  <1> USE DEF IInv, CheckDone, jobVars, workVars
  <1>1. TypeOK'
    BY DEF TypeOK
  <1>2. JobInv'
    BY DEF JobInv
  <1>3. ScanInv'
    BY DEF ScanInv
  <1>4. DoneComplete'
    BY NothingLeft DEF DoneComplete
  <1> QED
    BY <1>1, <1>2, <1>3, <1>4

\* The caller throws between two results.
LEMMA ThrowIInv == IInv /\ CallerThrow => IInv'
  <1> SUFFICES ASSUME IInv, CallerThrow PROVE IInv'
    OBVIOUS
  <1> USE DEF IInv
  <1>1. TypeOK'
    <2>1. /\ command' \in [ClientIdx -> Seq(Message)]
          /\ freed' \in [ClientIdx -> BOOLEAN]
      BY FreeAllType DEF CallerThrow
    <2> QED
      BY <2>1 DEF TypeOK, CallerThrow, jobVars, workVars
  <1>2. JobInv'
    BY DEF JobInv, CallerThrow, jobVars
  <1>3. ScanInv' /\ DoneComplete'
    BY DEF ScanInv, DoneComplete, CallerThrow
  <1> QED
    BY <1>1, <1>2, <1>3

\* What a worker does touches only its own state and its pipes.
LEMMA WorkerIInv ==
    ASSUME IInv, NEW c \in ClientIdx, WorkerNext(c) \/ WorkerDie(c)
    PROVE  IInv'
  <1> USE DEF IInv
  <1>1. /\ UNCHANGED <<queue, jobState, jobResult, clientJob, pc, assignIdx>>
        /\ UNCHANGED <<state, freed, completed>>
    BY DEF WorkerNext, CommandGet, HandlerDone, HandlerReport, KeepAlive,
           HandlerThrow, WorkerDie, jobVars
  <1>2. JobInv' /\ ScanInv' /\ DoneComplete'
    <2>1. JobInv'
      BY <1>1, Zenon DEF JobInv
    <2>2. ScanInv'
      BY <1>1, Zenon DEF ScanInv, NoneFound
    <2>3. DoneComplete'
      BY <1>1, Zenon DEF DoneComplete
    <2> QED
      BY <2>1, <2>2, <2>3
  <1>3. ASSUME CommandGet(c) PROVE TypeOK'
    <2>1. Head(command[c]) \in Message /\ Tail(command[c]) \in Seq(Message)
      BY <1>3 DEF TypeOK, CommandGet
    <2>2. command' \in [ClientIdx -> Seq(Message)]
      BY <1>3, <2>1 DEF TypeOK, CommandGet
    <2>3. worker' \in
            [ClientIdx -> {"idle", "handler", "report", "alive", "exited", "dead"}]
      <3>1. \E w \in {"exited", "handler"} :
               worker' = [worker EXCEPT ![c] = w]
        BY <1>3 DEF CommandGet
      <3> QED
        BY <3>1 DEF TypeOK
    <2>4. workJob' \in [ClientIdx -> Jobs \cup {NoJob}]
      BY <1>3, <2>1 DEF TypeOK, CommandGet, Message
    <2>5. retry' \in [ClientIdx -> 0 .. RetryMax]
      <3>1. RetryMax \in 0 .. RetryMax
        BY ParallelAssumption
      <3>2. retry' = retry \/ retry' = [retry EXCEPT ![c] = RetryMax]
        BY <1>3 DEF CommandGet
      <3> QED
        BY Zenon, <3>1, <3>2 DEF TypeOK
    <2> QED
      BY <1>1, <1>3, <2>2, <2>3, <2>4, <2>5 DEF TypeOK, CommandGet
  <1>4. ASSUME HandlerDone(c) PROVE TypeOK'
    <2>1. effect' = [effect EXCEPT ![workJob[c]] = effect[workJob[c]] + 1]
      BY <1>4 DEF HandlerDone
    <2>2. \A j \in Jobs : effect'[j] \in Nat
      BY <2>1 DEF TypeOK
    <2>3. effect' \in [Jobs -> Nat]
      BY Zenon, <2>1, <2>2 DEF TypeOK
    <2> QED
      BY <1>1, <1>4, <2>3 DEF TypeOK, HandlerDone
  <1>5. ASSUME HandlerReport(c) PROVE TypeOK'
    <2>1. response' \in [ClientIdx -> Seq({"ok", "error"})]
      BY <1>5 DEF TypeOK, HandlerReport
    <2>2. retry' \in [ClientIdx -> 0 .. RetryMax]
      BY <1>5, ParallelAssumption DEF TypeOK, HandlerReport
    <2> QED
      BY <1>1, <1>5, <2>1, <2>2 DEF TypeOK, HandlerReport
  <1>6. ASSUME HandlerThrow(c) PROVE TypeOK'
    <2>1. CASE /\ retry[c] > 0 /\ retry' = [retry EXCEPT ![c] = @ - 1]
               /\ UNCHANGED <<worker, workJob, response>>
      <3>1. retry' = [retry EXCEPT ![c] = retry[c] - 1]
        BY <2>1
      <3>2. retry[c] - 1 \in 0 .. RetryMax
        <4>1. retry[c] \in 0 .. RetryMax /\ RetryMax \in Nat /\ retry[c] > 0
          BY <2>1, ParallelAssumption DEF TypeOK
        <4> QED
          BY ONLY <4>1
      <3>3. retry' \in [ClientIdx -> 0 .. RetryMax]
        BY <3>1, <3>2 DEF TypeOK
      <3> QED
        BY <1>1, <1>6, <2>1, <3>3 DEF TypeOK, HandlerThrow
    <2>2. CASE /\ worker' = [worker EXCEPT ![c] = "idle"]
               /\ workJob' = [workJob EXCEPT ![c] = NoJob]
               /\ response' = [response EXCEPT ![c] = Append(@, "error")]
               /\ retry' = [retry EXCEPT ![c] = 0]
      <3>1. response' \in [ClientIdx -> Seq({"ok", "error"})]
        BY <2>2 DEF TypeOK
      <3>2. retry' \in [ClientIdx -> 0 .. RetryMax]
        BY <2>2, ParallelAssumption DEF TypeOK
      <3>3. /\ worker' \in
                 [ClientIdx -> {"idle", "handler", "report", "alive", "exited", "dead"}]
            /\ workJob' \in [ClientIdx -> Jobs \cup {NoJob}]
        BY <2>2 DEF TypeOK
      <3> QED
        BY <1>1, <1>6, <3>1, <3>2, <3>3 DEF TypeOK, HandlerThrow
    <2> QED
      BY Zenon, <1>6, <2>1, <2>2 DEF HandlerThrow
  <1>7. ASSUME WorkerDie(c) PROVE TypeOK'
    <2>1. retry' \in [ClientIdx -> 0 .. RetryMax]
      BY <1>7, ParallelAssumption DEF TypeOK, WorkerDie
    <2> QED
      BY <1>1, <1>7, <2>1 DEF TypeOK, WorkerDie
  <1>8. ASSUME KeepAlive(c) PROVE TypeOK'
    <2>1. worker' \in
            [ClientIdx -> {"idle", "handler", "report", "alive", "exited", "dead"}]
      BY <1>8 DEF TypeOK, KeepAlive
    <2>2. response' \in [ClientIdx -> Seq({"ok", "error"})]
      <3>1. CASE response' = response
        BY <3>1 DEF TypeOK
      <3>2. CASE response' = [response EXCEPT ![c] = Append(@, "error")]
        BY <3>2 DEF TypeOK
      <3> QED
        BY <1>8, <3>1, <3>2 DEF KeepAlive
    <2>3. extra' \in 0 .. MaxExtra
      BY <1>8, ParallelAssumption DEF TypeOK, KeepAlive
    <2> QED
      BY <1>1, <1>8, <2>1, <2>2, <2>3 DEF TypeOK, KeepAlive
  <1> QED
    BY <1>2, <1>3, <1>4, <1>5, <1>6, <1>7, <1>8 DEF WorkerNext

\* A step that changes nothing keeps the invariant.
LEMMA StutterIInv == IInv /\ UNCHANGED vars => IInv'
  <1> SUFFICES ASSUME IInv, UNCHANGED vars PROVE IInv'
    OBVIOUS
  <1> USE DEF IInv, vars
  <1>1. TypeOK'
    BY Zenon DEF TypeOK
  <1>2. JobInv'
    BY Zenon DEF JobInv
  <1>3. ScanInv' /\ DoneComplete'
    BY Zenon DEF ScanInv, NoneFound, DoneComplete
  <1> QED
    BY <1>1, <1>2, <1>3

\* The inductive invariant holds in every reachable state.
LEMMA SpecIInv == Spec => []IInv
  <1>1. IInv /\ [Next]_vars => IInv'
    BY SelectIInv, BusyIInv, JobIInv, FreeIInv, ThrowIInv, FetchIInv, CheckIInv,
       WorkerIInv, StutterIInv DEF Next, MainNext, Terminated
  <1> QED
    BY InitIInv, <1>1, PTL DEF Spec

\* The executor's state keeps its types for any number of clients, queues,
\* jobs and retries.
THEOREM TypeCorrect == Spec => []TypeOK
  BY SpecIInv, PTL DEF IInv

\* protocolParallelDone() never reports the end while a queue of
\* backupProcess() still holds a file or a job has not been fetched.
THEOREM NoJobLeftOut == Spec => []DoneComplete
  BY SpecIInv, PTL DEF IInv

-----------------------------------------------------------------------------
\* A step that leaves the jobs alone and does not end the executor is
\* invisible in the pool.
LEMMA PoolStutter ==
    ASSUME jobState' = jobState,
           pc' = pc \/ {pc, pc'} \cap {"end", "failed"} = {}
    PROVE  UNCHANGED Pool!vars
  BY Zenon DEF Pool!vars, poolStatus, poolPhase

\* Collecting the answers ends the jobs of the clients that answered.
LEMMA SelectJobState ==
    ASSUME ProcessSelect
    PROVE  /\ jobState' = [j \in Jobs |->
                 IF \E c \in Readable : clientJob[c] = j
                 THEN "done" ELSE jobState[j]]
           /\ pc = "process" /\ pc' = "assign"
  <1>1. PICK ready \in {Readable} :
          jobState' = [j \in Jobs |->
              IF \E c \in ready : clientJob[c] = j
              THEN "done" ELSE jobState[j]]
    BY DEF ProcessSelect
  <1>2. pc = "process" /\ pc' = "assign"
    BY DEF ProcessSelect
  <1> QED
    BY <1>1, <1>2

\* Every step of the executor is a step of the pool or invisible in it.
LEMMA PoolStep ==
    ASSUME IInv, [Next]_vars
    PROVE  [Pool!Next]_(Pool!vars)
  <1> USE DEF IInv
  <1>1. ASSUME ProcessSelect PROVE UNCHANGED Pool!vars
    <2>1. \A j \in Jobs :
            jobState'[j] = jobState[j] \/
            (jobState[j] = "running" /\ jobState'[j] = "done")
      <3>1. \A c \in Readable : c \in ClientIdx /\ clientJob[c] # NoJob
        BY DEF Readable, Running
      <3> QED
        BY <1>1, <3>1, SelectJobState DEF JobInv
    <2>2. poolStatus' = poolStatus
      BY <2>1 DEF poolStatus
    <2>3. poolPhase' = poolPhase
      BY <1>1, SelectJobState DEF poolPhase
    <2> QED
      BY <2>2, <2>3 DEF Pool!vars
  <1>2. ASSUME AssignJob PROVE Pool!Next
    <2>1. PICK k \in 0 .. ScanTotal(assignIdx) - 1 :
            \E j \in queue[ScanQueue(assignIdx, k)] :
            \/ /\ jobState' = [jobState EXCEPT ![j] = "running"]
               /\ AssignNext
            \/ /\ pc' = "failed"
               /\ UNCHANGED jobState
      BY <1>2 DEF AssignJob
    <2>2. PICK j \in queue[ScanQueue(assignIdx, k)] :
            \/ /\ jobState' = [jobState EXCEPT ![j] = "running"]
               /\ AssignNext
            \/ /\ pc' = "failed"
               /\ UNCHANGED jobState
      BY <2>1
    <2>3. assignIdx \in ClientIdx
      BY <1>2, ParallelAssumption DEF AssignJob, TypeOK, ScanInv, ClientIdx
    <2>7. j \in Jobs /\ jobState[j] = "none"
      BY <2>3, ScanInRange DEF TypeOK, JobInv
    <2>4. poolPhase = "run"
      BY <1>2 DEF AssignJob, poolPhase
    <2>5. CASE jobState' = [jobState EXCEPT ![j] = "running"] /\ AssignNext
      <3>1. poolStatus[j] = "waiting"
        BY <2>7 DEF poolStatus
      <3>2. poolStatus' = [poolStatus EXCEPT ![j] = "given"]
        BY Zenon, <2>5, <2>7 DEF poolStatus, TypeOK
      <3>3. poolPhase' = "run"
        BY <2>5 DEF AssignNext, poolPhase
      <3> QED
        BY Zenon, <2>4, <2>7, <3>1, <3>2, <3>3 DEF Pool!Next, Pool!Give
    <2>6. CASE pc' = "failed" /\ UNCHANGED jobState
      <3>1. poolStatus' = poolStatus /\ poolPhase' = "failed"
        BY <2>6 DEF poolStatus, poolPhase
      <3> QED
        BY <2>4, <3>1 DEF Pool!Next, Pool!Fail
    <2> QED
      BY <2>2, <2>5, <2>6
  <1>3. ASSUME FetchResult PROVE Pool!Next
    <2>1. PICK j \in Jobs :
            /\ jobState[j] = "done"
            /\ jobState' = [jobState EXCEPT ![j] = "collected"]
      BY Zenon, <1>3 DEF FetchResult, JobList
    <2>2. pc = "result" /\ pc' \in {"result", "failed"}
      BY <1>3 DEF FetchResult
    <2>3. poolPhase = "run" /\ poolPhase' \in {"run", "failed"}
      BY <2>2 DEF poolPhase
    <2>4. poolStatus[j] = "given"
      BY <2>1 DEF poolStatus
    <2>5. poolStatus' = [poolStatus EXCEPT ![j] = "fetched"]
      BY Zenon, <2>1 DEF poolStatus, TypeOK
    <2> QED
      BY Zenon, <2>3, <2>4, <2>5 DEF Pool!Next, Pool!Fetch
  <1>4. ASSUME CheckDone PROVE Pool!Next \/ UNCHANGED Pool!vars
    <2>1. CASE JobList = {}
      <3>1. pc = "result" /\ pc' = "end" /\ jobState' = jobState
        BY <1>4, <2>1 DEF CheckDone, jobVars
      <3>2. \A j \in Jobs : jobState[j] = "collected"
        BY <2>1, <3>1, NothingLeft
      <3>3. \A j \in Jobs : poolStatus[j] = "fetched"
        BY <3>2 DEF poolStatus
      <3>4. poolPhase = "run" /\ poolPhase' = "end"
            /\ poolStatus' = poolStatus
        BY <3>1 DEF poolPhase, poolStatus
      <3> QED
        BY <3>3, <3>4 DEF Pool!Next, Pool!End
    <2>2. CASE JobList # {}
      BY <1>4, <2>2, PoolStutter DEF CheckDone, jobVars
    <2> QED
      BY <2>1, <2>2
  <1>5. ASSUME AssignBusy \/ AssignFree PROVE UNCHANGED Pool!vars
    <2>1. jobState' = jobState /\ pc = "assign" /\ pc' \in {"assign", "result"}
      BY <1>5 DEF AssignBusy, AssignFree, AssignNext, jobVars
    <2> QED
      BY <2>1, PoolStutter
  <1>6. ASSUME NEW c \in ClientIdx, WorkerNext(c) \/ WorkerDie(c)
        PROVE  UNCHANGED Pool!vars
    <2>1. jobState' = jobState /\ pc' = pc
      BY <1>6, Zenon DEF WorkerNext, CommandGet, HandlerDone, HandlerReport,
                  KeepAlive, HandlerThrow, WorkerDie, jobVars
    <2> QED
      BY <2>1, PoolStutter
  <1>7. ASSUME UNCHANGED vars PROVE UNCHANGED Pool!vars
    BY <1>7, PoolStutter DEF vars
  <1>8. ASSUME CallerThrow PROVE Pool!Next
    <2>1. pc = "result" /\ pc' = "failed" /\ jobState' = jobState
      BY <1>8 DEF CallerThrow, jobVars
    <2>2. poolPhase = "run" /\ poolStatus' = poolStatus /\ poolPhase' = "failed"
      BY <2>1 DEF poolStatus, poolPhase
    <2> QED
      BY <2>2 DEF Pool!Next, Pool!Fail
  <1> QED
    BY <1>1, <1>2, <1>3, <1>4, <1>5, <1>6, <1>7, <1>8 DEF Next, MainNext, Terminated

\* The executor, with its pipes, retries and dying workers, implements the
\* job pool: what protocolParallelResult() and protocolParallelDone() promise.
THEOREM ImplementsPool == Spec => PoolSpec
  <1>1. Init => Pool!Init
    BY DEF Init, Pool!Init, poolStatus, poolPhase
  <1>2. IInv /\ [Next]_vars => [Pool!Next]_(Pool!vars)
    BY PoolStep
  <1> QED
    BY SpecIInv, <1>1, <1>2, PTL DEF Spec, PoolSpec, Pool!Spec
-----------------------------------------------------------------------------
(***************************************************************************)
(* What becomes of a job between the main process and a worker.            *)
(***************************************************************************)
\* Only commands to exit are left in a pipe from the k-th message on
ExitsFrom(k, s) == \A i \in k .. Len(s) : s[i] = Exit

\* Nothing is expected of the client, and its worker has nothing to do
Free(c) ==
    /\ clientJob[c] = NoJob /\ workJob[c] = NoJob /\ response[c] = <<>>
    /\ worker[c] = "dead" \/ (worker[c] \in {"idle", "alive", "exited"} /\ ExitsFrom(1, command[c]))

\* The command is in the pipe
Sent(c) ==
    /\ clientJob[c] # NoJob /\ workJob[c] = NoJob /\ response[c] = <<>> /\ worker[c] \in {"idle", "alive"}
    /\ Len(command[c]) > 0 /\ command[c][1] = clientJob[c] /\ ExitsFrom(2, command[c])
    /\ effect[clientJob[c]] = 0

\* The worker runs the handler, or has run it
Works(c) ==
    /\ clientJob[c] # NoJob /\ workJob[c] = clientJob[c] /\ response[c] = <<>>
    /\ ExitsFrom(1, command[c])
    /\ \/ worker[c] = "handler" /\ effect[clientJob[c]] = 0
       \/ worker[c] = "report" /\ effect[clientJob[c]] = 1

\* The answer is in the pipe
Answered(c) ==
    /\ clientJob[c] # NoJob /\ workJob[c] = NoJob
    /\ worker[c] \in {"idle", "alive", "exited", "dead"} /\ ExitsFrom(1, command[c])
    /\ \/ response[c] = <<"ok">> /\ effect[clientJob[c]] = 1
       \/ response[c] = <<"error">> /\ effect[clientJob[c]] = 0

\* The worker died before it answered
Lost(c) ==
    /\ clientJob[c] # NoJob /\ workJob[c] = NoJob /\ response[c] = <<>> /\ worker[c] = "dead"
    /\ effect[clientJob[c]] \in {0, 1}

PipeOf(c) == Free(c) \/ Sent(c) \/ Works(c) \/ Answered(c) \/ Lost(c)
PipeInv == extra = 0 => \A c \in ClientIdx : PipeOf(c)

\* What a job has done and what is known of it
EffectOf(j) ==
    /\ effect[j] \in {0, 1}
    /\ jobState[j] = "none" => effect[j] = 0
    /\ jobState[j] \in {"none", "running"} <=> jobResult[j] = "none"
    /\ extra = 0 => (jobResult[j] = "ok" => effect[j] = 1)
EffectInv == \A j \in Jobs : EffectOf(j)

\* A job that was handed out and has not been done
Fresh(j) == j \in Jobs /\ jobState[j] # "none" /\ effect[j] = 0

\* A job to be done is in one place of one pipe or with one worker
PlacesApart(c, i, d, k) ==
    command[c][i] = command[d][k] /\ command[c][i] # Exit => c = d /\ i = k
PipesApart ==
    \A c, d \in ClientIdx :
        \A i \in 1 .. Len(command[c]), k \in 1 .. Len(command[d]) : PlacesApart(c, i, d, k)

PipesFresh ==
    \A c, d \in ClientIdx : \A i \in 1 .. Len(command[c]) :
        command[c][i] # Exit =>
            Fresh(command[c][i]) /\ (worker[d] = "handler" => workJob[d] # command[c][i])

WorkFresh == \A c \in ClientIdx : worker[c] = "handler" => Fresh(workJob[c])

WorkApart ==
    \A c, d \in ClientIdx :
        worker[c] = "handler" /\ worker[d] = "handler" /\ workJob[c] = workJob[d] => c = d

HandInv == PipesApart /\ PipesFresh /\ WorkFresh /\ WorkApart

\* A worker that was told to exit belongs to a client that finds no job
FreedInv ==
    \A c \in ClientIdx :
        /\ worker[c] = "exited" \/ (\E i \in 1 .. Len(command[c]) : command[c][i] = Exit) => freed[c]
        /\ freed[c] /\ pc # "failed" => clientJob[c] = NoJob /\ NoneFound(c)

Done == {j \in Jobs : jobState[j] = "done"}

\* The number protocolParallelProcess() returns counts the finished jobs
CountInv ==
    /\ pc \in {"assign", "result"} => completed = Cardinality(Done)
    /\ pc = "process" => Done = {}

RInv == IInv /\ PipeInv /\ EffectInv /\ HandInv /\ FreedInv

\* A pipe and the worker behind it that are left alone stay as they are
LEMMA PipeFrame ==
    ASSUME NEW c \in ClientIdx, PipeOf(c),
           clientJob'[c] = clientJob[c], worker'[c] = worker[c], workJob'[c] = workJob[c],
           command'[c] = command[c], response'[c] = response[c],
           clientJob[c] # NoJob => effect'[clientJob[c]] = effect[clientJob[c]]
    PROVE  PipeOf(c)'
  BY DEF PipeOf, Free, Sent, Works, Answered, Lost, ExitsFrom

\* The first message in a pipe
LEMMA FirstAppended == \A x : Append(<<>>, x) = <<x>> /\ Len(<<x>>) = 1 /\ <<x>>[1] = x
  OBVIOUS

\* Commands to exit may follow
LEMMA ExitAppended ==
    ASSUME NEW s \in Seq(Message)
    PROVE  /\ Append(s, Exit) \in Seq(Message)
           /\ Len(s) \in Nat /\ Len(Append(s, Exit)) = Len(s) + 1
           /\ \A i \in 1 .. Len(s) : Append(s, Exit)[i] = s[i]
           /\ Append(s, Exit)[Len(s) + 1] = Exit
  BY DEF Message

LEMMA ExitAppendedPipe ==
    ASSUME TypeOK, NEW c \in ClientIdx, PipeOf(c), command'[c] = Append(command[c], Exit),
           clientJob'[c] = clientJob[c], worker'[c] = worker[c], workJob'[c] = workJob[c], response'[c] = response[c],
           effect' = effect
    PROVE  PipeOf(c)'
  <1>1. /\ Len(command[c]) \in Nat /\ Len(command'[c]) = Len(command[c]) + 1
        /\ \A i \in 1 .. Len(command[c]) : command'[c][i] = command[c][i]
        /\ command'[c][Len(command[c]) + 1] = Exit
    <2>1. command[c] \in Seq(Message)
      BY DEF TypeOK
    <2> QED
      BY Zenon, <2>1, ExitAppended
  <1>2. \A k \in {1, 2} : ExitsFrom(k, command[c]) => ExitsFrom(k, command'[c])
    BY <1>1 DEF ExitsFrom
  <1>3. Len(command[c]) > 0 => Len(command'[c]) > 0 /\ command'[c][1] = command[c][1]
    BY <1>1
  <1> QED
    BY <1>2, <1>3 DEF PipeOf, Free, Sent, Works, Answered, Lost

\* The worker's own steps
LEMMA CommandPipe ==
    ASSUME RInv, extra = 0, NEW c \in ClientIdx, CommandGet(c)
    PROVE  PipeOf(c)'
  <1>1. TypeOK /\ PipeOf(c)
    BY DEF RInv, IInv, PipeInv
  <1>2. /\ command[c] \in Seq(Message) /\ command[c] # <<>>
        /\ command'[c] = Tail(command[c]) /\ worker[c] = "idle"
        /\ UNCHANGED <<clientJob, response, effect>>
    BY <1>1 DEF TypeOK, CommandGet
  <1>3. /\ Len(command[c]) \in Nat \ {0} /\ Len(command'[c]) = Len(command[c]) - 1 /\ Head(command[c]) = command[c][1]
        /\ \A i \in 1 .. Len(command'[c]) : command'[c][i] = command[c][i + 1]
    BY <1>2
  <1>4. ExitsFrom(1, command[c]) \/ ExitsFrom(2, command[c]) => ExitsFrom(1, command'[c])
    BY <1>3 DEF ExitsFrom
  <1>5. CASE Sent(c)
    <2>1. clientJob[c] \in Jobs /\ clientJob[c] # Exit
      BY <1>1, <1>5, ParallelAssumption DEF TypeOK, Sent, Exit
    <2>2. worker'[c] = "handler" /\ workJob'[c] = clientJob[c]
      BY <1>1, <1>3, <1>5, <2>1 DEF CommandGet, TypeOK, Sent
    <2>3. Works(c)'
      BY ZenonT(30), <1>2, <1>4, <1>5, <2>2 DEF Sent, Works
    <2> QED
      BY <2>3 DEF PipeOf
  <1>6. CASE Free(c) \/ Answered(c)
    <2>0. ExitsFrom(1, command[c])
      BY <1>2, <1>6 DEF Free, Answered
    <2>1. Head(command[c]) = Exit
      <3>1. 1 \in 1 .. Len(command[c])
        BY <1>3
      <3> QED
        BY Zenon, <1>3, <2>0, <3>1 DEF ExitsFrom
    <2>2. worker'[c] = "exited" /\ workJob'[c] = workJob[c]
      BY <1>1, <2>1 DEF CommandGet, TypeOK
    <2> QED
      BY <1>2, <1>4, <1>6, <2>0, <2>2 DEF PipeOf, Free, Answered
  <1> QED
    BY Zenon, <1>1, <1>2, <1>5, <1>6 DEF PipeOf, Works, Lost

LEMMA HandlerPipe ==
    ASSUME RInv, extra = 0, extra' = 0, NEW c \in ClientIdx,
           HandlerDone(c) \/ HandlerReport(c) \/ KeepAlive(c) \/ HandlerThrow(c) \/ WorkerDie(c)
    PROVE  PipeOf(c)'
  <1>1. TypeOK /\ PipeOf(c)
    BY DEF RInv, IInv, PipeInv
  <1>2. CASE HandlerDone(c)
    <2>1. Works(c) /\ worker[c] = "handler" /\ clientJob[c] \in Jobs
      BY <1>1, <1>2 DEF HandlerDone, PipeOf, Free, Sent, Works, Answered, Lost, TypeOK
    <2>2. /\ worker'[c] = "report" /\ effect'[clientJob[c]] = effect[clientJob[c]] + 1
          /\ UNCHANGED <<clientJob, workJob, command, response>>
      BY <1>1, <1>2, <2>1 DEF HandlerDone, Works, TypeOK
    <2>3. effect'[clientJob'[c]] = 1
      <3>1. effect[clientJob[c]] = 0
        BY Zenon, <2>1 DEF Works
      <3> QED
        BY <2>2, <3>1
    <2>4. Works(c)'
      BY Zenon, <2>1, <2>2, <2>3 DEF Works
    <2> QED
      BY <2>4 DEF PipeOf
  <1>3. CASE HandlerReport(c)
    <2>1. Works(c) /\ worker[c] = "report" /\ response[c] = <<>>
      BY Zenon, <1>1, <1>3 DEF HandlerReport, PipeOf, Free, Sent, Works, Answered, Lost
    <2>2. /\ worker'[c] = "alive" /\ workJob'[c] = NoJob /\ response'[c] = Append(<<>>, "ok")
          /\ UNCHANGED <<clientJob, effect, command>>
      BY <1>1, <1>3, <2>1 DEF HandlerReport, TypeOK
    <2>3. response'[c] = <<"ok">>
      BY Zenon, <2>2, FirstAppended
    <2>4. Answered(c)'
      BY Zenon, <2>1, <2>2, <2>3 DEF Works, Answered
    <2> QED
      BY <2>4 DEF PipeOf
  <1>4. CASE HandlerThrow(c)
    <2>1. Works(c) /\ worker[c] = "handler" /\ response[c] = <<>> /\ UNCHANGED <<clientJob, effect, command>>
      BY ZenonT(30), <1>1, <1>4 DEF HandlerThrow, PipeOf, Free, Sent, Works, Answered, Lost
    <2>2. CASE UNCHANGED <<worker, workJob, response>>
      BY Zenon, <1>1, <2>1, <2>2, PipeFrame
    <2>3. CASE /\ worker' = [worker EXCEPT ![c] = "idle"]
               /\ workJob' = [workJob EXCEPT ![c] = NoJob]
               /\ response' = [response EXCEPT ![c] = Append(@, "error")]
      <3>1. worker'[c] = "idle" /\ workJob'[c] = NoJob /\ response'[c] = Append(<<>>, "error")
        BY <1>1, <2>1, <2>3 DEF TypeOK
      <3>2. response'[c] = <<"error">>
        BY Zenon, <3>1, FirstAppended
      <3>3. Answered(c)'
        BY ZenonT(30), <2>1, <3>1, <3>2 DEF Works, Answered
      <3> QED
        BY <3>3 DEF PipeOf
    <2> QED
      BY Zenon, <1>4, <2>2, <2>3 DEF HandlerThrow
  <1>5. CASE WorkerDie(c)
    <2>1. /\ worker'[c] = "dead" /\ workJob'[c] = NoJob /\ worker[c] # "dead"
          /\ UNCHANGED <<clientJob, effect, command, response>>
      BY <1>1, <1>5 DEF WorkerDie, TypeOK
    <2>2. CASE clientJob[c] = NoJob
      <3>1. Free(c)'
        BY Zenon, <1>1, <2>1, <2>2 DEF PipeOf, Free, Sent, Works, Answered, Lost
      <3> QED
        BY <3>1 DEF PipeOf
    <2>3. CASE Answered(c)
      <3>1. Answered(c)'
        BY <2>1, <2>3 DEF Answered
      <3> QED
        BY <3>1 DEF PipeOf
    <2>4. CASE Sent(c) \/ Works(c)
      <3>1. Lost(c)'
        BY Zenon, <2>1, <2>4 DEF Sent, Works, Lost
      <3> QED
        BY <3>1 DEF PipeOf
    <2> QED
      BY Zenon, <1>1, <2>1, <2>2, <2>3, <2>4 DEF PipeOf, Free, Lost
  <1>6. CASE KeepAlive(c)
    <2>1. UNCHANGED <<clientJob, workJob, command, response, effect>>
      BY <1>6 DEF KeepAlive
    <2>2. worker[c] = "alive" /\ worker'[c] = "idle"
      BY <1>1, <1>6 DEF KeepAlive, TypeOK
    <2>3. Free(c) => Free(c)'
      BY Zenon, <2>1, <2>2 DEF Free
    <2>4. Sent(c) => Sent(c)'
      BY Zenon, <2>1, <2>2 DEF Sent
    <2>5. Answered(c) => Answered(c)'
      BY Zenon, <2>1, <2>2 DEF Answered
    <2> QED
      BY Zenon, <1>1, <2>2, <2>3, <2>4, <2>5 DEF PipeOf, Works, Lost
  <1> QED
    BY <1>2, <1>3, <1>4, <1>5, <1>6

\* Places that are only left, and jobs that stay as they are
LEMMA HandShrink ==
    ASSUME HandInv,
           \A c \in ClientIdx : \A i \in 1 .. Len(command'[c]) : command'[c][i] # Exit =>
               i \in 1 .. Len(command[c]) /\ command'[c][i] = command[c][i],
           \A c \in ClientIdx : worker'[c] = "handler" =>
               worker[c] = "handler" /\ workJob'[c] = workJob[c],
           \A j \in Jobs : Fresh(j) => jobState'[j] # "none" /\ effect'[j] = 0
    PROVE  HandInv'
  <1>0. PipesApart /\ PipesFresh /\ WorkFresh /\ WorkApart
    BY DEF HandInv
  <1>1. PipesApart'
    <2> SUFFICES ASSUME NEW c \in ClientIdx, NEW d \in ClientIdx,
                        NEW i \in 1 .. Len(command'[c]), NEW k \in 1 .. Len(command'[d])
                 PROVE  PlacesApart(c, i, d, k)'
      BY Zenon DEF PipesApart
    <2> SUFFICES ASSUME command'[c][i] = command'[d][k], command'[c][i] # Exit
                 PROVE  c = d /\ i = k
      BY DEF PlacesApart
    <2>1. i \in 1 .. Len(command[c]) /\ command'[c][i] = command[c][i]
      OBVIOUS
    <2>2. k \in 1 .. Len(command[d]) /\ command'[d][k] = command[d][k]
      OBVIOUS
    <2>3. PlacesApart(c, i, d, k)
      BY Zenon, <1>0, <2>1, <2>2 DEF PipesApart
    <2> QED
      BY <2>1, <2>2, <2>3 DEF PlacesApart
  <1>2. PipesFresh'
    <2> SUFFICES ASSUME NEW c \in ClientIdx, NEW d \in ClientIdx, NEW i \in 1 .. Len(command'[c]),
                        command'[c][i] # Exit
                 PROVE  Fresh(command[c][i])' /\ (worker'[d] = "handler" => workJob'[d] # command'[c][i])
      BY Zenon DEF PipesFresh
    <2>1. i \in 1 .. Len(command[c]) /\ command'[c][i] = command[c][i]
      OBVIOUS
    <2>2. Fresh(command[c][i]) /\ (worker[d] = "handler" => workJob[d] # command[c][i])
      BY Zenon, <1>0, <2>1 DEF PipesFresh
    <2>3. Fresh(command[c][i])'
      BY <2>1, <2>2 DEF Fresh
    <2> QED
      BY <2>1, <2>2, <2>3
  <1>3. WorkFresh'
    <2> SUFFICES ASSUME NEW c \in ClientIdx, worker'[c] = "handler" PROVE Fresh(workJob[c])'
      BY Zenon DEF WorkFresh
    <2>1. Fresh(workJob[c]) /\ workJob'[c] = workJob[c]
      BY <1>0 DEF WorkFresh
    <2> QED
      BY <2>1 DEF Fresh
  <1>4. WorkApart'
    BY <1>0 DEF WorkApart
  <1> QED
    BY <1>1, <1>2, <1>3, <1>4 DEF HandInv

\* A command to exit takes no place
LEMMA HandExits ==
    ASSUME TypeOK, HandInv,
           \A c \in ClientIdx : command'[c] = command[c] \/ command'[c] = Append(command[c], Exit),
           UNCHANGED <<worker, workJob, effect>>,
           \A j \in Jobs : jobState[j] # "none" => jobState'[j] # "none"
    PROVE  HandInv'
  <1>1. ASSUME NEW c \in ClientIdx, NEW i \in 1 .. Len(command'[c]), command'[c][i] # Exit
        PROVE  i \in 1 .. Len(command[c]) /\ command'[c][i] = command[c][i]
    <2>1. CASE command'[c] = command[c]
      BY <2>1
    <2>2. CASE command'[c] = Append(command[c], Exit)
      BY <1>1, <2>2, ExitAppended DEF TypeOK
    <2> QED
      BY <2>1, <2>2
  <1>2. \A j \in Jobs : Fresh(j) => jobState'[j] # "none" /\ effect'[j] = 0
    BY DEF Fresh
  <1> QED
    BY <1>1, <1>2, HandShrink

\* A worker takes the next command
LEMMA CommandHand ==
    ASSUME TypeOK, HandInv, NEW c \in ClientIdx, CommandGet(c)
    PROVE  HandInv'
  <1>1. /\ command[c] \in Seq(Message) /\ command[c] # <<>>
        /\ command' = [command EXCEPT ![c] = Tail(command[c])]
        /\ command'[c] = Tail(command[c]) /\ worker[c] = "idle"
        /\ \A d \in ClientIdx \ {c} :
             command'[d] = command[d] /\ worker'[d] = worker[d] /\ workJob'[d] = workJob[d]
        /\ UNCHANGED <<jobState, effect>>
    BY DEF TypeOK, CommandGet, jobVars
  <1>2. /\ Len(command[c]) \in Nat \ {0} /\ Len(command'[c]) = Len(command[c]) - 1
        /\ Head(command[c]) = command[c][1]
        /\ \A i \in 1 .. Len(command'[c]) : command'[c][i] = command[c][i + 1]
    <2> DEFINE s == command[c]
               r == command'[c]
    <2>1. s \in Seq(Message) /\ s # <<>> /\ r = Tail(s)
      BY <1>1
    <2> HIDE DEF s, r
    <2>2. /\ Len(s) \in Nat \ {0} /\ Len(r) = Len(s) - 1 /\ Head(s) = s[1]
          /\ \A i \in 1 .. Len(r) : r[i] = s[i + 1]
      BY <2>1
    <2> QED
      BY Zenon, <2>2 DEF s, r
  <1>3. worker'[c] = "handler" => workJob'[c] = command[c][1] /\ command[c][1] # Exit
    BY <1>2 DEF TypeOK, CommandGet
  <1> DEFINE at(d, i) == IF d = c THEN i + 1 ELSE i
  <1>4. ASSUME NEW d \in ClientIdx, NEW i \in 1 .. Len(command'[d])
        PROVE  at(d, i) \in 1 .. Len(command[d]) /\ command'[d][i] = command[d][at(d, i)]
    <2>1. CASE d = c
      BY <1>2, <2>1
    <2>2. CASE d # c
      BY <1>1, <2>2
    <2> QED
      BY <2>1, <2>2
  <1>5. ASSUME NEW d \in ClientIdx, NEW i \in 1 .. Len(command'[d]), NEW k \in 1 .. Len(command'[d]),
               at(d, i) = at(d, k)
        PROVE  i = k
    BY <1>5
  <1>6. ASSUME NEW i \in 1 .. Len(command'[c]) PROVE at(c, i) # 1
    OBVIOUS
  <1>7. 1 \in 1 .. Len(command[c])
    BY <1>2
  <1> HIDE DEF at
  <1>8. PipesApart /\ PipesFresh /\ WorkFresh /\ WorkApart
    BY DEF HandInv
  <1>9. PipesApart'
    <2> SUFFICES ASSUME NEW d \in ClientIdx, NEW e \in ClientIdx,
                        NEW i \in 1 .. Len(command'[d]), NEW k \in 1 .. Len(command'[e])
                 PROVE  PlacesApart(d, i, e, k)'
      BY Zenon DEF PipesApart
    <2> SUFFICES ASSUME command'[d][i] = command'[e][k], command'[d][i] # Exit
                 PROVE  d = e /\ i = k
      BY DEF PlacesApart
    <2>1. at(d, i) \in 1 .. Len(command[d]) /\ command'[d][i] = command[d][at(d, i)]
      BY <1>4
    <2>2. at(e, k) \in 1 .. Len(command[e]) /\ command'[e][k] = command[e][at(e, k)]
      BY <1>4
    <2>3. PlacesApart(d, at(d, i), e, at(e, k))
      BY Zenon, <1>8, <2>1, <2>2 DEF PipesApart
    <2>4. d = e /\ at(d, i) = at(e, k)
      BY <2>1, <2>2, <2>3 DEF PlacesApart
    <2> QED
      BY Zenon, <1>5, <2>4
  <1>10. PipesFresh'
    <2> SUFFICES ASSUME NEW d \in ClientIdx, NEW e \in ClientIdx, NEW i \in 1 .. Len(command'[d]),
                        command'[d][i] # Exit
                 PROVE  Fresh(command[d][i])' /\ (worker'[e] = "handler" => workJob'[e] # command'[d][i])
      BY Zenon DEF PipesFresh
    <2>1. at(d, i) \in 1 .. Len(command[d]) /\ command'[d][i] = command[d][at(d, i)]
      BY <1>4
    <2>2. /\ Fresh(command[d][at(d, i)])
          /\ worker[e] = "handler" => workJob[e] # command[d][at(d, i)]
      BY Zenon, <1>8, <2>1 DEF PipesFresh
    <2>3. Fresh(command[d][i])'
      <3>1. jobState' = jobState /\ effect' = effect
        BY <1>1
      <3> QED
        BY <2>1, <2>2, <3>1 DEF Fresh
    <2>4. CASE e # c
      <3>1. worker'[e] = worker[e] /\ workJob'[e] = workJob[e]
        BY <1>1, <2>4
      <3> QED
        BY <2>1, <2>2, <2>3, <3>1
    <2>5. ASSUME e = c, worker'[e] = "handler" PROVE workJob'[e] # command'[d][i]
      <3>1. workJob'[e] = command[c][1] /\ command[c][1] # Exit
        BY <1>3, <2>5
      <3>2. ~(d = c /\ at(d, i) = 1)
        BY <1>6
      <3>3. PlacesApart(c, 1, d, at(d, i))
        BY Zenon, <1>7, <1>8, <2>1 DEF PipesApart
      <3>4. command[c][1] # command[d][at(d, i)]
        BY <3>1, <3>2, <3>3 DEF PlacesApart
      <3> QED
        BY <2>1, <3>1, <3>4
    <2> QED
      BY <2>3, <2>4, <2>5
  <1>11. WorkFresh'
    <2> SUFFICES ASSUME NEW d \in ClientIdx, worker'[d] = "handler" PROVE Fresh(workJob[d])'
      BY Zenon DEF WorkFresh
    <2>1. Fresh(workJob'[d])
      <3>1. CASE d = c
        BY Zenon, <1>3, <1>7, <1>8, <3>1 DEF PipesFresh
      <3>2. CASE d # c
        <4>1. worker[d] = "handler" /\ workJob'[d] = workJob[d]
          BY <1>1, <3>2
        <4> QED
          BY Zenon, <1>8, <4>1 DEF WorkFresh
      <3> QED
        BY <3>1, <3>2
    <2>2. jobState' = jobState /\ effect' = effect
      BY <1>1
    <2> QED
      BY <2>1, <2>2 DEF Fresh
  <1>12. WorkApart'
    <2> SUFFICES ASSUME NEW d \in ClientIdx, NEW e \in ClientIdx,
                        worker'[d] = "handler", worker'[e] = "handler", workJob'[d] = workJob'[e], d # e
                 PROVE  FALSE
      BY Zenon DEF WorkApart
    \* The job of the other worker is not in the pipe
    <2>1. ASSUME NEW b \in ClientIdx \ {c}, worker'[b] = "handler", worker'[c] = "handler"
          PROVE  workJob'[b] # workJob'[c]
      <3>1. worker[b] = "handler" /\ workJob'[b] = workJob[b]
        BY <1>1, <2>1
      <3>2. workJob'[c] = command[c][1] /\ command[c][1] # Exit
        BY <1>3, <2>1
      <3> QED
        BY Zenon, <1>7, <1>8, <3>1, <3>2 DEF PipesFresh
    <2>2. CASE d = c \/ e = c
      BY <2>1, <2>2
    <2>3. CASE d # c /\ e # c
      <3>1. worker[d] = "handler" /\ worker[e] = "handler" /\ workJob[d] = workJob[e]
        BY <1>1, <2>3
      <3> QED
        BY Zenon, <1>8, <3>1 DEF WorkApart
    <2> QED
      BY <2>2, <2>3
  <1> QED
    BY <1>9, <1>10, <1>11, <1>12 DEF HandInv

\* A handler that ran to its end had not run before
LEMMA DoneHand ==
    ASSUME TypeOK, HandInv, NEW c \in ClientIdx, HandlerDone(c)
    PROVE  /\ workJob[c] \in Jobs /\ effect[workJob[c]] = 0 /\ jobState[workJob[c]] # "none"
           /\ effect' = [effect EXCEPT ![workJob[c]] = 1]
           /\ HandInv'
  <1>1. /\ worker[c] = "handler" /\ worker'[c] = "report"
        /\ \A d \in ClientIdx \ {c} : worker'[d] = worker[d]
        /\ UNCHANGED <<command, workJob, jobState>>
        /\ effect' = [effect EXCEPT ![workJob[c]] = effect[workJob[c]] + 1]
    BY DEF TypeOK, HandlerDone, jobVars
  <1>2. PipesApart /\ PipesFresh /\ WorkFresh /\ WorkApart
    BY DEF HandInv
  <1>3. workJob[c] \in Jobs /\ effect[workJob[c]] = 0 /\ jobState[workJob[c]] # "none"
    BY Zenon, <1>1, <1>2 DEF WorkFresh, Fresh
  <1>4. effect[workJob[c]] + 1 = 1
    BY <1>3
  <1>5. effect' = [effect EXCEPT ![workJob[c]] = 1]
    BY Zenon, <1>1, <1>4
  <1>6. ASSUME NEW j, j # workJob[c], Fresh(j)
        PROVE  j \in Jobs /\ jobState'[j] # "none" /\ effect'[j] = 0
    BY <1>1, <1>5, <1>6 DEF Fresh, TypeOK
  <1>7. \A d \in ClientIdx : worker'[d] = "handler" => d # c /\ worker[d] = "handler"
    BY <1>1
  <1>8. command' = command /\ workJob' = workJob
    BY <1>1
  <1>9. PipesApart'
    BY <1>2, <1>8 DEF PipesApart, PlacesApart
  <1>10. PipesFresh'
    <2> SUFFICES ASSUME NEW d \in ClientIdx, NEW e \in ClientIdx, NEW i \in 1 .. Len(command[d]),
                        command[d][i] # Exit
                 PROVE  Fresh(command[d][i])' /\ (worker'[e] = "handler" => workJob[e] # command[d][i])
      BY Zenon, <1>8 DEF PipesFresh
    <2>1. /\ Fresh(command[d][i]) /\ command[d][i] # workJob[c]
          /\ worker[e] = "handler" => workJob[e] # command[d][i]
      BY Zenon, <1>1, <1>2 DEF PipesFresh
    <2>2. Fresh(command[d][i])'
      BY <1>6, <1>8, <2>1 DEF Fresh
    <2> QED
      BY <1>7, <2>1, <2>2
  <1>11. WorkFresh'
    <2> SUFFICES ASSUME NEW d \in ClientIdx, worker'[d] = "handler" PROVE Fresh(workJob[d])'
      BY Zenon DEF WorkFresh
    <2>1. workJob[d] # workJob[c] /\ Fresh(workJob[d])
      BY Zenon, <1>1, <1>2, <1>7 DEF WorkFresh, WorkApart
    <2> QED
      BY <1>6, <1>8, <2>1 DEF Fresh
  <1>12. WorkApart'
    BY Zenon, <1>2, <1>7, <1>8 DEF WorkApart
  <1> QED
    BY <1>3, <1>5, <1>9, <1>10, <1>11, <1>12 DEF HandInv

\* A step of one worker keeps the whole
LEMMA WorkerRInv ==
    ASSUME RInv, NEW c \in ClientIdx, WorkerNext(c) \/ WorkerDie(c)
    PROVE  PipeInv' /\ EffectInv' /\ HandInv' /\ FreedInv'
  <1>0. TypeOK /\ JobInv /\ PipeInv /\ EffectInv /\ HandInv /\ FreedInv
    BY DEF RInv, IInv
  <1>1. UNCHANGED <<queue, jobState, jobResult, clientJob, pc, freed>>
    BY DEF WorkerNext, CommandGet, HandlerDone, HandlerReport, KeepAlive, HandlerThrow, WorkerDie, jobVars
  <1>2. \A d \in ClientIdx \ {c} :
           /\ worker'[d] = worker[d] /\ workJob'[d] = workJob[d] /\ command'[d] = command[d] /\ response'[d] = response[d]
    <2>1. CASE HandlerThrow(c)
      BY <1>0, <2>1 DEF TypeOK, HandlerThrow
    <2>2. CASE KeepAlive(c)
      BY <1>0, <2>2 DEF TypeOK, KeepAlive
    <2>3. CASE CommandGet(c) \/ HandlerDone(c) \/ HandlerReport(c) \/ WorkerDie(c)
      BY <1>0, <2>3 DEF TypeOK, CommandGet, HandlerDone, HandlerReport, WorkerDie
    <2> QED
      BY <2>1, <2>2, <2>3 DEF WorkerNext
  <1>3. \/ effect' = effect
        \/ /\ HandlerDone(c) /\ workJob[c] \in Jobs /\ effect[workJob[c]] = 0 /\ jobState[workJob[c]] # "none"
           /\ effect' = [effect EXCEPT ![workJob[c]] = 1]
    <2>1. CASE HandlerDone(c)
      BY Zenon, <1>0, <2>1, DoneHand
    <2>2. CASE ~HandlerDone(c)
      BY Zenon, <2>2 DEF WorkerNext, CommandGet, HandlerReport, KeepAlive, HandlerThrow, WorkerDie
    <2> QED
      BY <2>1, <2>2
  <1>4. extra' = 0 => extra = 0
    <2>1. CASE KeepAlive(c)
      BY <1>0, <2>1 DEF KeepAlive, TypeOK
    <2>2. CASE ~KeepAlive(c)
      BY Zenon, <2>2 DEF WorkerNext, CommandGet, HandlerDone, HandlerReport, HandlerThrow, WorkerDie
    <2> QED
      BY <2>1, <2>2
  <1>5. PipeInv'
    <2> SUFFICES ASSUME extra' = 0 PROVE \A d \in ClientIdx : PipeOf(d)'
      BY DEF PipeInv
    <2>0. extra = 0 /\ \A d \in ClientIdx : PipeOf(d)
      BY <1>0, <1>4 DEF PipeInv
    <2>1. PipeOf(c)'
      BY <2>0, CommandPipe, HandlerPipe DEF WorkerNext
    <2>2. ASSUME NEW d \in ClientIdx \ {c} PROVE PipeOf(d)'
      <3>1. clientJob[d] # NoJob => effect'[clientJob[d]] = effect[clientJob[d]]
        <4>1. CASE effect' = effect
          BY <4>1
        <4>2. CASE /\ HandlerDone(c) /\ workJob[c] \in Jobs
                   /\ effect' = [effect EXCEPT ![workJob[c]] = 1]
          <5>1. worker[c] = "handler"
            BY <4>2 DEF HandlerDone
          <5>2. clientJob[c] # NoJob /\ workJob[c] = clientJob[c]
            BY Zenon, <2>0, <5>1 DEF PipeOf, Free, Sent, Works, Answered, Lost
          <5>3. clientJob[d] # NoJob => clientJob[d] # workJob[c] /\ clientJob[d] \in Jobs
            BY <1>0, <5>2 DEF JobInv, TypeOK
          <5> QED
            BY <1>0, <4>2, <5>3 DEF TypeOK
        <4> QED
          BY Zenon, <1>3, <4>1, <4>2
      <3> QED
        BY <1>1, <1>2, <2>0, <3>1, PipeFrame
    <2> QED
      BY <2>1, <2>2
  <1>6. EffectInv'
    <2> SUFFICES ASSUME NEW j \in Jobs PROVE EffectOf(j)'
      BY DEF EffectInv
    <2>0. EffectOf(j)
      BY <1>0 DEF EffectInv
    <2>1. effect'[j] = effect[j] \/ (effect'[j] = 1 /\ jobState[j] # "none")
      <3>1. CASE effect' = effect
        BY <3>1
      <3>2. CASE workJob[c] \in Jobs /\ jobState[workJob[c]] # "none" /\ effect' = [effect EXCEPT ![workJob[c]] = 1]
        BY <1>0, <3>2 DEF TypeOK
      <3> QED
        BY Zenon, <1>3, <3>1, <3>2
    <2> QED
      BY <1>1, <1>4, <2>0, <2>1 DEF EffectOf
  <1>7. HandInv'
    <2>1. CASE CommandGet(c)
      BY <1>0, <2>1, CommandHand
    <2>2. CASE HandlerDone(c)
      BY <1>0, <2>2, DoneHand
    <2>3. CASE HandlerReport(c) \/ KeepAlive(c) \/ HandlerThrow(c) \/ WorkerDie(c)
      <3>1. command' = command /\ effect' = effect
        BY <2>3 DEF HandlerReport, KeepAlive, HandlerThrow, WorkerDie
      <3>2. worker'[c] = "handler" => worker[c] = "handler" /\ workJob'[c] = workJob[c]
        <4>1. CASE HandlerThrow(c)
          BY <1>0, <4>1 DEF HandlerThrow, TypeOK
        <4>2. CASE HandlerReport(c) \/ KeepAlive(c) \/ WorkerDie(c)
          BY <1>0, <4>2 DEF HandlerReport, KeepAlive, WorkerDie, TypeOK
        <4> QED
          BY <2>3, <4>1, <4>2
      <3>3. \A d \in ClientIdx : worker'[d] = "handler" =>
               worker[d] = "handler" /\ workJob'[d] = workJob[d]
        BY <1>2, <3>2
      <3>4. \A j \in Jobs : Fresh(j) => jobState'[j] # "none" /\ effect'[j] = 0
        BY <1>1, <3>1 DEF Fresh
      <3> QED
        BY <1>0, <3>1, <3>3, <3>4, HandShrink
    <2> QED
      BY <2>1, <2>2, <2>3 DEF WorkerNext
  <1>8. FreedInv'
    <2>1. \A d \in ClientIdx : NoneFound(d)' = NoneFound(d)
      BY Zenon, <1>1 DEF NoneFound
    <2>2. worker'[c] = "exited" \/ (\E i \in 1 .. Len(command'[c]) : command'[c][i] = Exit) => freed[c]
      <3>1. CASE CommandGet(c)
        <4>1. /\ command[c] \in Seq(Message) /\ command[c] # <<>> /\ command'[c] = Tail(command[c])
          BY <1>0, <3>1 DEF TypeOK, CommandGet
        <4>2. /\ Len(command[c]) \in Nat \ {0} /\ Len(command'[c]) = Len(command[c]) - 1 /\ Head(command[c]) = command[c][1]
              /\ \A i \in 1 .. Len(command'[c]) : command'[c][i] = command[c][i + 1]
          BY <4>1
        <4>3. worker'[c] = "exited" => Head(command[c]) = Exit
          BY <1>0, <3>1 DEF TypeOK, CommandGet
        <4> QED
          BY <1>0, <4>2, <4>3 DEF FreedInv
      <3>2. CASE ~CommandGet(c)
        <4>1. command' = command
          BY <3>2 DEF WorkerNext, HandlerDone, HandlerReport, KeepAlive, HandlerThrow, WorkerDie
        <4>2. worker'[c] # "exited" \/ worker'[c] = worker[c]
          <5>1. CASE HandlerThrow(c)
            BY <1>0, <5>1 DEF TypeOK, HandlerThrow
          <5>2. CASE HandlerDone(c) \/ HandlerReport(c) \/ KeepAlive(c) \/ WorkerDie(c)
            BY <1>0, <5>2 DEF TypeOK, HandlerDone, HandlerReport, KeepAlive, WorkerDie
          <5> QED
            BY <3>2, <5>1, <5>2 DEF WorkerNext
        <4> QED
          BY <1>0, <4>1, <4>2 DEF FreedInv
      <3> QED
        BY <3>1, <3>2
    <2> QED
      BY <1>0, <1>1, <1>2, <2>1, <2>2 DEF FreedInv
  <1> QED
    BY <1>5, <1>6, <1>7, <1>8

\* Collecting the answers
LEMMA SelectRInv == RInv /\ ProcessSelect => PipeInv' /\ EffectInv' /\ HandInv' /\ FreedInv'
  <1> SUFFICES ASSUME RInv, ProcessSelect PROVE PipeInv' /\ EffectInv' /\ HandInv' /\ FreedInv'
    OBVIOUS
  <1>0. TypeOK /\ JobInv /\ PipeInv /\ EffectInv /\ HandInv /\ FreedInv
    BY DEF RInv, IInv
  <1> DEFINE ready == Readable
             isReady(j) == \E c \in ready : clientJob[c] = j
             client(j) == CHOOSE c \in ready : clientJob[c] = j
  <1>1. /\ jobState' = [j \in Jobs |->
              IF isReady(j) THEN "done" ELSE jobState[j]]
        /\ jobResult' = [j \in Jobs |->
              IF isReady(j) THEN ReadResult(client(j)) ELSE jobResult[j]]
        /\ clientJob' = [c \in ClientIdx |->
              IF c \in ready THEN NoJob ELSE clientJob[c]]
        /\ response' = [c \in ClientIdx |->
              IF c \in ready /\ response[c] # <<>>
              THEN Tail(response[c]) ELSE response[c]]
        /\ pc' = "assign" /\ pc = "process"
        /\ UNCHANGED <<queue, freed, command, worker, workJob, effect, extra>>
    <2>1. PICK r \in {Readable} :
             /\ jobState' = [j \in Jobs |->
                   IF \E c \in r : clientJob[c] = j THEN "done" ELSE jobState[j]]
             /\ jobResult' = [j \in Jobs |->
                   IF \E c \in r : clientJob[c] = j
                   THEN ReadResult(CHOOSE c \in r : clientJob[c] = j) ELSE jobResult[j]]
             /\ clientJob' = [c \in ClientIdx |->
                   IF c \in r THEN NoJob ELSE clientJob[c]]
             /\ response' = [c \in ClientIdx |->
                   IF c \in r /\ response[c] # <<>>
                   THEN Tail(response[c]) ELSE response[c]]
      BY Zenon DEF ProcessSelect
    <2>2. r = Readable
      OBVIOUS
    <2>3. jobState' = [j \in Jobs |-> IF isReady(j) THEN "done" ELSE jobState[j]]
      BY Zenon, <2>1, <2>2
    <2>4. jobResult' = [j \in Jobs |-> IF isReady(j) THEN ReadResult(client(j)) ELSE jobResult[j]]
      BY Zenon, <2>1, <2>2
    <2>5. /\ clientJob' = [c \in ClientIdx |-> IF c \in ready THEN NoJob ELSE clientJob[c]]
          /\ response' = [c \in ClientIdx |->
                IF c \in ready /\ response[c] # <<>>
                THEN Tail(response[c]) ELSE response[c]]
      BY Zenon, <2>1, <2>2
    <2>6. pc' = "assign" /\ pc = "process" /\ UNCHANGED <<queue, freed, command, worker, workJob, effect, extra>>
      BY DEF ProcessSelect, workVars
    <2> HIDE DEF ready, isReady, client
    <2> QED
      BY Zenon, <2>3, <2>4, <2>5, <2>6
  <1>2. /\ ready \subseteq ClientIdx
        /\ \A c \in ready : /\ clientJob[c] # NoJob /\ clientJob[c] \in Jobs
                            /\ response[c] # <<>> \/ worker[c] = "dead"
    BY <1>0 DEF Readable, Running, TypeOK
  <1>3. PipeInv'
    <2> SUFFICES ASSUME extra' = 0 PROVE \A c \in ClientIdx : PipeOf(c)'
      BY DEF PipeInv
    <2>0. \A c \in ClientIdx : PipeOf(c)
      BY <1>0, <1>1 DEF PipeInv
    <2>1. ASSUME NEW c \in ready PROVE PipeOf(c)'
      <3>1. Answered(c) \/ Lost(c)
        BY <1>2, <2>0 DEF PipeOf, Free, Sent, Works
      <3>2. response'[c] = <<>>
        <4>1. response[c] \in {<<"ok">>, <<"error">>, <<>>}
          BY ZenonT(30), <3>1 DEF Answered, Lost
        <4>2. Tail(<<"ok">>) = <<>> /\ Tail(<<"error">>) = <<>>
          OBVIOUS
        <4>3. response'[c] = IF response[c] # <<>> THEN Tail(response[c]) ELSE response[c]
          BY <1>1, <1>2
        <4> QED
          BY Zenon, <4>1, <4>2, <4>3
      <3>3. clientJob'[c] = NoJob
        BY <1>1, <1>2
      <3>4. Free(c)'
        BY <1>1, <3>1, <3>2, <3>3 DEF Answered, Lost, Free
      <3> QED
        BY <3>4 DEF PipeOf
    <2>2. ASSUME NEW c \in ClientIdx \ ready PROVE PipeOf(c)'
      BY Zenon, <1>1, <2>0, PipeFrame
    <2> QED
      BY <2>1, <2>2
  <1>4. EffectInv'
    <2>0. ASSUME NEW j \in Jobs, isReady(j)
          PROVE  ReadResult(client(j)) \in {"ok", "error"}
      <3>1. client(j) \in ClientIdx
        BY <1>2, <2>0
      <3> QED
        BY <1>0, <3>1 DEF ReadResult, TypeOK
    <2>1. ASSUME NEW j \in Jobs, isReady(j), extra = 0
          PROVE  ReadResult(client(j)) = "ok" => effect[j] = 1
      <3>1. client(j) \in ready /\ clientJob[client(j)] = j
        BY <2>1
      <3>2. Answered(client(j)) \/ Lost(client(j))
        BY ZenonT(30), <1>0, <1>2, <2>1, <3>1 DEF PipeInv, PipeOf, Free, Sent, Works
      <3>3. CASE Answered(client(j))
        <4>1. Len(<<"ok">>) = 1 /\ Head(<<"ok">>) = "ok" /\ <<"ok">> # <<>> /\ Head(<<"error">>) = "error" /\ <<"error">> # <<>>
          OBVIOUS
        <4>2. CASE response[client(j)] = <<"ok">> /\ effect[clientJob[client(j)]] = 1
          BY <3>1, <4>1, <4>2 DEF ReadResult
        <4>3. CASE response[client(j)] = <<"error">>
          BY <4>1, <4>3 DEF ReadResult
        <4> QED
          BY Zenon, <3>3, <4>2, <4>3 DEF Answered
      <3>4. CASE Lost(client(j))
        BY <3>4 DEF ReadResult, Lost
      <3> QED
        BY <3>2, <3>3, <3>4
    <2>2. ASSUME NEW j \in Jobs, isReady(j) PROVE jobState[j] = "running"
      BY <1>0, <1>2, <2>2, ParallelAssumption DEF JobInv
    <2>3. ASSUME NEW j \in Jobs PROVE EffectOf(j)'
      <3>1. EffectOf(j)
        BY <1>0 DEF EffectInv
      <3>2. CASE isReady(j)
        <4>1. jobState[j] = "running" /\ jobState'[j] = "done" /\ jobResult'[j] = ReadResult(client(j))
          BY <1>1, <2>2, <3>2
        <4>2. ReadResult(client(j)) \in {"ok", "error"}
              /\ (extra = 0 => (ReadResult(client(j)) = "ok" => effect[j] = 1))
          BY <2>0, <2>1, <3>2
        <4> QED
          BY <1>1, <3>1, <4>1, <4>2 DEF EffectOf
      <3>3. CASE ~isReady(j)
        BY <1>1, <3>1, <3>3 DEF EffectOf
      <3> QED
        BY <3>2, <3>3
    <2> QED
      BY <2>3 DEF EffectInv
  <1>5. FreedInv'
    <2>1. \A d \in ClientIdx : NoneFound(d)' = NoneFound(d)
      BY Zenon, <1>1 DEF NoneFound
    <2> QED
      BY <1>0, <1>1, <2>1 DEF FreedInv
  <1>6. HandInv'
    <2>1. \A j \in Jobs : jobState[j] # "none" => jobState'[j] # "none"
      BY <1>1
    <2> QED
      BY Zenon, <1>0, <1>1, <2>1, HandExits
  <1> QED
    BY <1>3, <1>4, <1>5, <1>6

\* A queue that only gets shorter is found empty again
LEMMA NoneFoundStays ==
    ASSUME NEW c \in ClientIdx, NoneFound(c), \A q \in QueueIdx : queue'[q] \subseteq queue[q]
    PROVE  NoneFound(c)'
  <1>1. ASSUME NEW k \in 0 .. ScanTotal(c) - 1 PROVE queue'[ScanQueue(c, k)] = {}
    BY ScanInRange DEF NoneFound
  <1> QED
    BY <1>1 DEF NoneFound

\* protocolFree() of all clients when the call throws
LEMMA FreeAllRInv ==
    ASSUME RInv, FreeAll, pc' = "failed",
           UNCHANGED <<clientJob, response, jobResult, worker, workJob, effect, extra>>,
           \A j \in Jobs : jobState[j] # "none" => jobState'[j] # "none"
    PROVE  PipeInv' /\ HandInv' /\ FreedInv'
  <1>0. TypeOK /\ PipeInv /\ HandInv /\ FreedInv
    BY DEF RInv, IInv
  <1>1. \A c \in ClientIdx : freed'[c] /\ command'[c] = (IF freed[c] THEN command[c] ELSE Append(command[c], Exit))
    BY DEF FreeAll
  <1>2. ASSUME NEW c \in ClientIdx, PipeOf(c) PROVE PipeOf(c)'
    <2>1. CASE freed[c]
      BY <1>1, <1>2, <2>1, PipeFrame
    <2>2. CASE ~freed[c]
      BY Zenon, <1>0, <1>1, <1>2, <2>2, ExitAppendedPipe
    <2> QED
      BY <2>1, <2>2
  <1>3. PipeInv'
    BY Zenon, <1>0, <1>2 DEF PipeInv
  <1>4. HandInv'
    <2>1. \A c \in ClientIdx : command'[c] = command[c] \/ command'[c] = Append(command[c], Exit)
      BY <1>1
    <2> QED
      BY Zenon, <1>0, <2>1, HandExits
  <1>5. FreedInv'
    BY Zenon, <1>1 DEF FreedInv
  <1> QED
    BY <1>3, <1>4, <1>5

\* A step that leaves jobs, clients, pipes and workers alone
LEMMA IdleRInv ==
    ASSUME RInv, pc # "failed", pc' # "failed",
           UNCHANGED <<clientJob, freed, command, response, queue, jobState, jobResult,
                       worker, workJob, effect, extra>>
    PROVE  PipeInv' /\ EffectInv' /\ HandInv' /\ FreedInv'
  <1>0. TypeOK /\ PipeInv /\ EffectInv /\ HandInv /\ FreedInv
    BY DEF RInv, IInv
  <1>1. PipeInv'
    BY Zenon, <1>0, PipeFrame DEF PipeInv
  <1>2. EffectInv'
    BY Zenon, <1>0 DEF EffectInv, EffectOf
  <1>3. HandInv'
    BY Zenon, <1>0, HandExits
  <1>4. FreedInv'
    BY Zenon, <1>0 DEF FreedInv, NoneFound
  <1> QED
    BY <1>1, <1>2, <1>3, <1>4

LEMMA BusyRInv == RInv /\ AssignBusy => PipeInv' /\ EffectInv' /\ HandInv' /\ FreedInv'
  <1> SUFFICES ASSUME RInv, AssignBusy PROVE PipeInv' /\ EffectInv' /\ HandInv' /\ FreedInv'
    OBVIOUS
  <1>1. UNCHANGED <<clientJob, freed, command, response, queue, jobState, jobResult, worker, workJob, effect, extra>>
        /\ pc # "failed" /\ pc' # "failed"
    BY DEF AssignBusy, AssignNext, jobVars, workVars
  <1> QED
    BY <1>1, IdleRInv

\* The pass is at one of the clients
LEMMA AssignPlace == ASSUME IInv, pc = "assign" PROVE assignIdx \in ClientIdx
  <1>1. assignIdx \in Nat /\ assignIdx < ClientTotal /\ ClientTotal \in Nat
    BY ParallelAssumption DEF IInv, TypeOK, ScanInv
  <1> QED
    BY ONLY <1>1 DEF ClientIdx

LEMMA FreeRInv == RInv /\ AssignFree => PipeInv' /\ EffectInv' /\ HandInv' /\ FreedInv'
  <1> SUFFICES ASSUME RInv, AssignFree PROVE PipeInv' /\ EffectInv' /\ HandInv' /\ FreedInv'
    OBVIOUS
  <1>0. TypeOK /\ PipeInv /\ EffectInv /\ HandInv /\ FreedInv
    BY DEF RInv, IInv
  <1>1. PICK a \in ClientIdx : a = assignIdx
    <2>1. pc = "assign" /\ IInv
      BY DEF AssignFree, RInv
    <2> QED
      BY Zenon, <2>1, AssignPlace
  <1>2. /\ UNCHANGED <<clientJob, response, queue, jobState, jobResult, worker, workJob, effect, extra>>
        /\ pc # "failed" /\ pc' # "failed" /\ clientJob[a] = NoJob /\ NoneFound(a)
    BY <1>1 DEF AssignFree, AssignNext, ClientIdle, jobVars, workVars
  <1>3. /\ freed'[a] = TRUE /\ \A c \in ClientIdx \ {a} : freed'[c] = freed[c] /\ command'[c] = command[c]
        /\ command'[a] = (IF freed[a] THEN command[a] ELSE Append(command[a], Exit))
    BY <1>0, <1>1 DEF AssignFree, TypeOK
  <1>4. \A c \in ClientIdx : command'[c] = command[c] \/ command'[c] = Append(command[c], Exit)
    BY <1>3
  <1>5. PipeInv'
    <2>1. ASSUME NEW c \in ClientIdx, PipeOf(c) PROVE PipeOf(c)'
      <3>1. CASE command'[c] = command[c]
        BY Zenon, <1>2, <2>1, <3>1, PipeFrame
      <3>2. CASE command'[c] = Append(command[c], Exit)
        BY Zenon, <1>0, <1>2, <2>1, <3>2, ExitAppendedPipe
      <3> QED
        BY <1>4, <3>1, <3>2
    <2> QED
      BY Zenon, <1>0, <1>2, <2>1 DEF PipeInv
  <1>6. EffectInv'
    BY Zenon, <1>0, <1>2 DEF EffectInv, EffectOf
  <1>7. HandInv'
    BY Zenon, <1>0, <1>2, <1>4, HandExits
  <1>8. FreedInv'
    <2>1. \A d \in ClientIdx : NoneFound(d)' = NoneFound(d)
      BY Zenon, <1>2 DEF NoneFound
    <2> QED
      BY <1>0, <1>2, <1>3, <2>1 DEF FreedInv
  <1> QED
    BY <1>5, <1>6, <1>7, <1>8

\* A command that is sent takes a place of its own
LEMMA SentHand ==
    ASSUME TypeOK, HandInv, NEW a \in ClientIdx, NEW j \in Jobs,
           jobState[j] = "none", effect[j] = 0,
           command' = [command EXCEPT ![a] = Append(@, j)],
           jobState' = [jobState EXCEPT ![j] = "running"],
           UNCHANGED <<worker, workJob, effect>>
    PROVE  HandInv'
  <1> DEFINE n == Len(command[a]) + 1
  <1>1. command[a] \in Seq(Message) /\ j \in Message
    BY DEF TypeOK, Message
  <1>2. /\ n \in Nat /\ Len(command'[a]) = n /\ command'[a][n] = j
        /\ \A i \in 1 .. n : i # n => i \in 1 .. Len(command[a]) /\ command'[a][i] = command[a][i]
        /\ \A c \in ClientIdx \ {a} : command'[c] = command[c]
    BY <1>1 DEF TypeOK
  <1>3. PipesApart /\ PipesFresh /\ WorkFresh /\ WorkApart
    BY DEF HandInv
  <1>4. j # Exit /\ ~Fresh(j)
    BY ParallelAssumption DEF Exit, Fresh
  <1>5. \A c \in ClientIdx : \A i \in 1 .. Len(command[c]) : command[c][i] # j
    BY Zenon, <1>3, <1>4 DEF PipesFresh
  <1>6. \A c \in ClientIdx : worker[c] = "handler" => workJob[c] # j
    BY Zenon, <1>3, <1>4 DEF WorkFresh
  <1>7. ASSUME NEW c \in ClientIdx, NEW i \in 1 .. Len(command'[c])
        PROVE  \/ c = a /\ i = n /\ command'[c][i] = j
               \/ i \in 1 .. Len(command[c]) /\ command'[c][i] = command[c][i]
    BY <1>2
  <1>8. ASSUME NEW i \in Jobs, i = j \/ Fresh(i) PROVE jobState'[i] # "none" /\ effect'[i] = 0
    BY <1>8 DEF TypeOK, Fresh
  <1> HIDE DEF n
  <1>9. PipesApart'
    <2> SUFFICES ASSUME NEW c \in ClientIdx, NEW d \in ClientIdx,
                        NEW i \in 1 .. Len(command'[c]), NEW k \in 1 .. Len(command'[d])
                 PROVE  PlacesApart(c, i, d, k)'
      BY Zenon DEF PipesApart
    <2> SUFFICES ASSUME command'[c][i] = command'[d][k], command'[c][i] # Exit
                 PROVE  c = d /\ i = k
      BY DEF PlacesApart
    <2>1. \/ c = a /\ i = n /\ command'[c][i] = j
          \/ i \in 1 .. Len(command[c]) /\ command'[c][i] = command[c][i]
      BY Zenon, <1>7
    <2>2. \/ d = a /\ k = n /\ command'[d][k] = j
          \/ k \in 1 .. Len(command[d]) /\ command'[d][k] = command[d][k]
      BY Zenon, <1>7
    <2>3. CASE command'[c][i] = j
      BY Zenon, <1>5, <2>1, <2>2, <2>3
    <2>4. CASE command'[c][i] # j
      <3>1. i \in 1 .. Len(command[c]) /\ command'[c][i] = command[c][i]
        BY <2>1, <2>4
      <3>2. k \in 1 .. Len(command[d]) /\ command'[d][k] = command[d][k]
        BY <2>2, <2>4
      <3>3. PlacesApart(c, i, d, k)
        BY Zenon, <1>3, <3>1, <3>2 DEF PipesApart
      <3> QED
        BY <3>1, <3>2, <3>3 DEF PlacesApart
    <2> QED
      BY <2>3, <2>4
  <1>10. PipesFresh'
    <2> SUFFICES ASSUME NEW c \in ClientIdx, NEW d \in ClientIdx, NEW i \in 1 .. Len(command'[c]),
                        command'[c][i] # Exit
                 PROVE  Fresh(command[c][i])' /\ (worker[d] = "handler" => workJob[d] # command'[c][i])
      BY Zenon DEF PipesFresh
    <2>1. CASE command'[c][i] = j
      <3>1. Fresh(command[c][i])'
        BY <1>8, <2>1 DEF Fresh
      <3> QED
        BY <1>6, <2>1, <3>1
    <2>2. CASE i \in 1 .. Len(command[c]) /\ command'[c][i] = command[c][i]
      <3>1. Fresh(command[c][i]) /\ (worker[d] = "handler" => workJob[d] # command[c][i])
        BY Zenon, <1>3, <2>2 DEF PipesFresh
      <3>2. Fresh(command[c][i])'
        BY <1>8, <2>2, <3>1 DEF Fresh
      <3> QED
        BY <2>2, <3>1, <3>2
    <2> QED
      BY Zenon, <1>7, <2>1, <2>2
  <1>11. WorkFresh'
    <2> SUFFICES ASSUME NEW c \in ClientIdx, worker[c] = "handler" PROVE Fresh(workJob[c])'
      BY Zenon DEF WorkFresh
    <2>1. Fresh(workJob[c])
      BY Zenon, <1>3 DEF WorkFresh
    <2> QED
      BY <1>8, <2>1 DEF Fresh
  <1>12. WorkApart'
    BY Zenon, <1>3 DEF WorkApart
  <1> QED
    BY <1>9, <1>10, <1>11, <1>12 DEF HandInv

LEMMA JobRInv == RInv /\ AssignJob => PipeInv' /\ EffectInv' /\ HandInv' /\ FreedInv'
  <1> SUFFICES ASSUME RInv, AssignJob PROVE PipeInv' /\ EffectInv' /\ HandInv' /\ FreedInv'
    OBVIOUS
  <1>0. IInv /\ TypeOK /\ JobInv /\ PipeInv /\ EffectInv /\ HandInv /\ FreedInv
    BY DEF RInv, IInv
  <1>1. PICK a \in ClientIdx : a = assignIdx
    <2>1. pc = "assign" /\ IInv
      BY DEF AssignJob, RInv
    <2> QED
      BY Zenon, <2>1, AssignPlace
  <1>2. PICK k \in 0 .. ScanTotal(a) - 1 :
          /\ FirstFound(a, k)
          /\ \E j \in queue[ScanQueue(a, k)] :
            /\ queue' = [queue EXCEPT ![ScanQueue(a, k)] = @ \ {j}]
            /\ \/ /\ worker[a] # "dead"
                  /\ command' = [command EXCEPT ![a] = Append(@, j)]
                  /\ jobState' = [jobState EXCEPT ![j] = "running"]
                  /\ clientJob' = [clientJob EXCEPT ![a] = j]
                  /\ AssignNext
                  /\ UNCHANGED freed
               \/ /\ FreeAll
                  /\ pc' = "failed"
                  /\ UNCHANGED <<jobState, clientJob>>
    BY Zenon, <1>1 DEF AssignJob
  <1> DEFINE p == ScanQueue(a, k)
  <1>3. p \in QueueIdx
    BY <1>1, ScanInRange
  <1>4. PICK j \in queue[p] :
            /\ queue' = [queue EXCEPT ![p] = @ \ {j}]
            /\ \/ /\ worker[a] # "dead"
                  /\ command' = [command EXCEPT ![a] = Append(@, j)]
                  /\ jobState' = [jobState EXCEPT ![j] = "running"]
                  /\ clientJob' = [clientJob EXCEPT ![a] = j]
                  /\ AssignNext
                  /\ UNCHANGED freed
               \/ /\ FreeAll
                  /\ pc' = "failed"
                  /\ UNCHANGED <<jobState, clientJob>>
    BY Zenon, <1>2
  <1>5. j \in Jobs /\ j # NoJob /\ jobState[j] = "none" /\ effect[j] = 0
    <2>1. j \in Jobs
      BY <1>0, <1>3 DEF TypeOK
    <2>2. jobState[j] = "none"
      BY Zenon, <1>0, <1>3 DEF JobInv
    <2> QED
      BY Zenon, <1>0, <2>1, <2>2, ParallelAssumption DEF EffectInv, EffectOf
  <1>6. /\ pc = "assign" /\ clientJob[a] = NoJob
        /\ UNCHANGED <<response, jobResult, worker, workJob, effect, extra>>
    BY <1>1 DEF AssignJob, ClientIdle, workVars
  <1>7. \A q \in QueueIdx : queue'[q] \subseteq queue[q]
    BY <1>0, <1>3, <1>4 DEF TypeOK
  <1>8. CASE FreeAll /\ pc' = "failed" /\ UNCHANGED <<jobState, clientJob>>
    <2>1. PipeInv' /\ HandInv' /\ FreedInv'
      BY <1>6, <1>8, FreeAllRInv
    <2>2. EffectInv'
      BY Zenon, <1>0, <1>6, <1>8 DEF EffectInv, EffectOf
    <2> QED
      BY <2>1, <2>2
  <1>9. CASE /\ worker[a] # "dead"
             /\ command' = [command EXCEPT ![a] = Append(@, j)]
             /\ jobState' = [jobState EXCEPT ![j] = "running"]
             /\ clientJob' = [clientJob EXCEPT ![a] = j]
             /\ AssignNext
             /\ UNCHANGED freed
    <2>1. ~freed[a]
      <3>1. queue[ScanQueue(a, k)] # {}
        BY <1>2 DEF FirstFound
      <3>2. ~NoneFound(a)
        BY <3>1 DEF NoneFound
      <3> QED
        BY Zenon, <1>0, <1>1, <1>6, <3>2 DEF FreedInv
    <2>2. \A i \in 1 .. Len(command[a]) : command[a][i] # Exit
      BY Zenon, <1>0, <1>1, <2>1 DEF FreedInv
    <2>3. PipeInv'
      <3> SUFFICES ASSUME extra = 0 PROVE \A c \in ClientIdx : PipeOf(c)'
        BY <1>6 DEF PipeInv
      <3>0. \A c \in ClientIdx : PipeOf(c)
        BY <1>0 DEF PipeInv
      <3>1. worker[a] \in {"idle", "alive"} /\ Free(a)
        <4>1. worker[a] # "exited"
          BY Zenon, <1>0, <1>1, <2>1 DEF FreedInv
        <4> QED
          BY ZenonT(30), <1>1, <1>6, <1>9, <3>0, <4>1 DEF PipeOf, Free, Sent, Works, Answered, Lost
      <3>2. command[a] = <<>>
        <4>1. command[a] \in Seq(Message) /\ ExitsFrom(1, command[a])
          BY <1>0, <1>1, <1>9, <3>1 DEF TypeOK, Free
        <4>2. Len(command[a]) \in Nat /\ ~(1 <= Len(command[a]))
          BY <2>2, <4>1 DEF ExitsFrom
        <4> QED
          BY <4>1, <4>2
      <3>3. command'[a] = <<j>> /\ Len(<<j>>) = 1 /\ <<j>>[1] = j
        <4>1. command'[a] = Append(<<>>, j)
          BY <1>0, <1>1, <1>9, <3>2 DEF TypeOK
        <4> QED
          BY Zenon, <4>1, FirstAppended
      <3>4. Sent(a)'
        <4>1. clientJob'[a] = j
          BY <1>0, <1>1, <1>9 DEF TypeOK
        <4>2. ExitsFrom(2, command'[a])
          BY <3>3 DEF ExitsFrom
        <4>3. Len(command'[a]) > 0 /\ command'[a][1] = j
          BY <3>3
        <4>4. response'[a] = <<>> /\ worker'[a] \in {"idle", "alive"} /\ workJob'[a] = NoJob /\ effect'[j] = 0 /\ j # NoJob
          BY <1>5, <1>6, <3>1, <4>1 DEF Free
        <4> QED
          BY Zenon, <4>1, <4>2, <4>3, <4>4 DEF Sent
      <3>5. ASSUME NEW c \in ClientIdx \ {a} PROVE PipeOf(c)'
        BY <1>0, <1>1, <1>6, <1>9, <3>0, PipeFrame DEF TypeOK
      <3> QED
        BY <3>4, <3>5 DEF PipeOf
    <2>4. EffectInv'
      <3> SUFFICES ASSUME NEW i \in Jobs PROVE EffectOf(i)'
        BY DEF EffectInv
      <3>1. EffectOf(i) /\ EffectOf(j)
        BY <1>0, <1>5 DEF EffectInv
      <3> QED
        BY <1>0, <1>5, <1>6, <1>9, <3>1 DEF EffectOf, TypeOK
    <2>5. HandInv'
      BY Zenon, <1>0, <1>5, <1>6, <1>9, SentHand
    <2>6. FreedInv'
      <3>1. j # Exit
        BY <1>5, ParallelAssumption DEF Exit
      <3>2. pc # "failed" /\ pc' # "failed"
        BY <1>6, <1>9 DEF AssignNext
      <3>3. ASSUME NEW c \in ClientIdx \ {a} PROVE FreedInv!(c)'
        <4>1. command'[c] = command[c] /\ clientJob'[c] = clientJob[c]
          BY <1>0, <1>1, <1>9 DEF TypeOK
        <4>2. NoneFound(c) => NoneFound(c)'
          BY <1>7, NoneFoundStays
        <4> QED
          BY Zenon, <1>0, <1>6, <1>9, <3>2, <4>1, <4>2 DEF FreedInv
      <3>4. FreedInv!(a)'
        <4>1. \A i \in 1 .. Len(command'[a]) : command'[a][i] # Exit
          <5>1. command'[a] = Append(command[a], j) /\ command[a] \in Seq(Message) /\ j \in Message
            BY <1>0, <1>1, <1>5, <1>9 DEF TypeOK, Message
          <5> QED
            BY <2>2, <3>1, <5>1
        <4>2. worker'[a] # "exited"
          BY Zenon, <1>0, <1>1, <1>6, <2>1 DEF FreedInv
        <4> QED
          BY Zenon, <1>9, <2>1, <4>1, <4>2
      <3> QED
        BY Zenon, <3>3, <3>4 DEF FreedInv
    <2> QED
      BY <2>3, <2>4, <2>5, <2>6
  <1> QED
    BY <1>4, <1>8, <1>9

LEMMA ResultRInv == RInv /\ (FetchResult \/ CheckDone) => PipeInv' /\ EffectInv' /\ HandInv' /\ FreedInv'
  <1> SUFFICES ASSUME RInv, FetchResult \/ CheckDone PROVE PipeInv' /\ EffectInv' /\ HandInv' /\ FreedInv'
    OBVIOUS
  <1>0. TypeOK /\ PipeInv /\ EffectInv /\ HandInv /\ FreedInv
    BY DEF RInv, IInv
  <1>1. /\ UNCHANGED <<queue, clientJob, response, jobResult, worker, workJob, effect, extra>>
        /\ pc = "result"
    BY DEF FetchResult, CheckDone, jobVars, workVars
  <1>2. CASE FetchResult
    <2>1. PICK j \in JobList :
            /\ jobState[j] = "done"
            /\ jobState' = [jobState EXCEPT ![j] = "collected"]
            /\ \/ FreeAll /\ pc' = "failed"
               \/ UNCHANGED <<freed, command, pc>>
      BY Zenon, <1>2 DEF FetchResult
    <2>2. \A i \in Jobs : jobState'[i] = jobState[i] \/ (jobState[i] = "done" /\ jobState'[i] = "collected")
      BY <1>0, <2>1 DEF JobList, TypeOK
    <2>3. EffectInv'
      <3> SUFFICES ASSUME NEW i \in Jobs PROVE EffectOf(i)'
        BY DEF EffectInv
      <3>1. EffectOf(i)
        BY <1>0 DEF EffectInv
      <3> QED
        BY <1>1, <2>2, <3>1 DEF EffectOf
    <2>4. \A i \in Jobs : jobState[i] # "none" => jobState'[i] # "none"
      BY <2>2
    <2>5. CASE FreeAll /\ pc' = "failed"
      BY <1>1, <2>3, <2>4, <2>5, FreeAllRInv
    <2>6. CASE UNCHANGED <<freed, command, pc>>
      <3>1. PipeInv'
        BY Zenon, <1>0, <1>1, <2>6, PipeFrame DEF PipeInv
      <3>2. FreedInv'
        BY Zenon, <1>0, <1>1, <2>6 DEF FreedInv, NoneFound
      <3>3. HandInv'
        BY Zenon, <1>0, <1>1, <2>4, <2>6, HandExits
      <3> QED
        BY <2>3, <3>1, <3>2, <3>3
    <2> QED
      BY <2>1, <2>5, <2>6
  <1>3. CASE CheckDone
    <2>1. UNCHANGED <<freed, command, jobState>> /\ pc' # "failed"
      BY <1>3 DEF CheckDone, jobVars
    <2> QED
      BY <1>1, <2>1, IdleRInv
  <1> QED
    BY <1>2, <1>3

LEMMA ThrowRInv == RInv /\ CallerThrow => PipeInv' /\ EffectInv' /\ HandInv' /\ FreedInv'
  <1> SUFFICES ASSUME RInv, CallerThrow PROVE PipeInv' /\ EffectInv' /\ HandInv' /\ FreedInv'
    OBVIOUS
  <1>1. /\ FreeAll /\ pc' = "failed"
        /\ UNCHANGED <<clientJob, response, jobState, jobResult, worker, workJob, effect, extra>>
    BY DEF CallerThrow, jobVars, workVars
  <1>2. EffectInv'
    BY Zenon, <1>1 DEF RInv, EffectInv, EffectOf
  <1> QED
    BY <1>1, <1>2, FreeAllRInv

LEMMA SpecRInv == Spec => []RInv
  <1>1. Init => RInv
    <2> SUFFICES ASSUME Init PROVE RInv
      OBVIOUS
    <2>1. PipeInv
      BY DEF Init, PipeInv, PipeOf, Free, ExitsFrom
    <2>2. EffectInv /\ FreedInv
      BY DEF Init, EffectInv, EffectOf, FreedInv
    <2>3. HandInv
      BY DEF Init, HandInv, PipesApart, PlacesApart, PipesFresh, WorkFresh, WorkApart
    <2> QED
      BY <2>1, <2>2, <2>3, InitIInv DEF RInv
  <1>2. RInv /\ IInv' /\ [Next]_vars => RInv'
    <2> SUFFICES ASSUME RInv, IInv', [Next]_vars PROVE PipeInv' /\ EffectInv' /\ HandInv' /\ FreedInv'
      BY DEF RInv
    <2>1. CASE UNCHANGED vars
      <3>1. UNCHANGED <<queue, jobState, jobResult, clientJob, freed, command, response, worker, workJob, effect, extra, pc>>
        BY <2>1 DEF vars
      <3>2. PipeInv'
        BY Zenon, <3>1, PipeFrame DEF PipeInv, RInv
      <3>3. EffectInv' /\ FreedInv'
        BY Zenon, <3>1 DEF EffectInv, EffectOf, FreedInv, NoneFound, RInv
      <3>4. HandInv'
        BY Zenon, <3>1, HandExits DEF RInv, IInv
      <3> QED
        BY <3>2, <3>3, <3>4
    <2>2. CASE Next
      BY <2>1, <2>2, SelectRInv, BusyRInv, FreeRInv, JobRInv, ResultRInv, ThrowRInv, WorkerRInv DEF Next, MainNext, Terminated
    <2> QED
      BY <2>1, <2>2
  <1> QED
    BY <1>1, <1>2, SpecIInv, PTL DEF Spec

\* protocolServerProcess() retries a handler, workers die and answers come late,
\* and yet no handler runs to its end twice and every job that is returned has a
\* result; and until a worker has sent an error after its answer, a job whose result
\* protocolParallelResult() returns as good was done
THEOREM ResultsFaithful == Spec => []ResultFaithful
  <1>1. RInv => ResultFaithful
    BY DEF RInv, EffectInv, EffectOf, ResultFaithful, ResultOwn
  <1> QED
    BY <1>1, SpecRInv, PTL

\* Until a worker has sent an error after its answer, a response that
\* protocolParallelProcess() reads is the one to the command it sent: no client has
\* two commands under way
THEOREM OneCommand == Spec => []OneOutstanding
  <1>1. RInv => OneOutstanding
    <2> SUFFICES ASSUME RInv, NEW c \in ClientIdx, pc # "failed", extra = 0
                 PROVE  OneOutstanding!(c)!2
      BY DEF OneOutstanding
    <2>1. PipeOf(c)
      BY DEF RInv, PipeInv
    <2>2. Len(<<"ok">>) = 1 /\ Len(<<"error">>) = 1 /\ Len(<<>>) = 0
      OBVIOUS
    <2>3. CASE Answered(c)
      <3>1. /\ response[c] \in {<<"ok">>, <<"error">>} /\ clientJob[c] # NoJob /\ workJob[c] = NoJob
            /\ \A i \in 1 .. Len(command[c]) : command[c][i] = Exit
        BY ZenonT(30), <2>3 DEF Answered, ExitsFrom
      <3>2. Len(response[c]) = 1
        BY <2>2, <3>1
      <3>3. Len(response[c]) <= 1
        BY <3>2
      <3> QED
        BY <3>1, <3>3
    <2>4. CASE ~Answered(c)
      <3>1. response[c] = <<>> /\ (workJob[c] = NoJob \/ workJob[c] = clientJob[c])
        BY <2>1, <2>4 DEF PipeOf, Free, Sent, Works, Lost
      <3> QED
        BY <2>2, <3>1
    <2> QED
      BY Zenon, <2>3, <2>4
  <1> QED
    BY <1>1, SpecRInv, PTL

\* protocolLocalFree() ends a worker only when no job will be found for it
THEOREM NoJobAfterFree == Spec => []FreedStaysIdle
  <1>1. RInv => FreedStaysIdle
    BY DEF RInv, FreedInv, FreedStaysIdle
  <1> QED
    BY <1>1, SpecRInv, PTL

\* The jobs whose clients answered are as many as the clients
LEMMA SelectCount ==
    ASSUME IInv, CountInv, ProcessSelect
    PROVE  completed' = Cardinality(Done')
  <1>0. TypeOK /\ JobInv /\ Done = {}
    BY ZenonT(30) DEF IInv, CountInv, ProcessSelect
  <1>1. completed' = Cardinality(Readable)
    BY Zenon DEF ProcessSelect, CompletedTotal
  <1>2. Readable \subseteq ClientIdx /\ \A c \in Readable : clientJob[c] # NoJob /\ clientJob[c] \in Jobs
    BY <1>0 DEF Readable, Running, TypeOK
  <1>3. IsFiniteSet(Readable)
    <2>1. IsFiniteSet(ClientIdx)
      BY FS_Interval, ParallelAssumption DEF ClientIdx
    <2> QED
      BY <1>2, <2>1, FS_Subset
  <1>4. \A j \in Jobs : j \in Done' <=> \E c \in Readable : clientJob[c] = j
    <2>1. \A j \in Jobs : jobState[j] # "done"
      BY <1>0 DEF Done
    <2>2. \A j \in Jobs : jobState'[j] = "done" <=> \E c \in Readable : clientJob[c] = j
      BY <2>1, SelectJobState
    <2> QED
      BY <2>2 DEF Done
  <1> DEFINE f == [c \in Readable |-> clientJob[c]]
             D == Done'
  <1>5. D \subseteq Jobs
    BY DEF Done
  <1> HIDE DEF D
  <1>6. f \in [Readable -> D] /\ \A j \in D : \E c \in Readable : f[c] = j
    BY <1>2, <1>4, <1>5 DEF D
  <1>7. \A c, d \in Readable : f[c] = f[d] => c = d
    BY <1>0, <1>2 DEF JobInv
  <1>8. ExistsBijection(Readable, D)
    BY Zenon, <1>6, <1>7 DEF ExistsBijection, Bijection, Injection, Surjection, IsInjective
  <1>9. Cardinality(D) = Cardinality(Readable)
    BY <1>3, <1>8, FS_Bijection
  <1> QED
    BY <1>1, <1>9 DEF D

LEMMA CountStep == IInv /\ CountInv /\ [Next]_vars => CountInv'
  <1> SUFFICES ASSUME IInv, CountInv, [Next]_vars PROVE CountInv'
    OBVIOUS
  <1>0. TypeOK /\ JobInv /\ IsFiniteSet(Done)
    <2>1. IsFiniteSet(Jobs) /\ Done \in SUBSET Jobs
      BY ParallelAssumption DEF Done
    <2> QED
      BY <2>1, FS_Subset DEF IInv
  <1>1. CASE ProcessSelect
    BY Zenon, <1>1, SelectCount DEF CountInv, ProcessSelect
  <1>2. CASE AssignJob
    <2>1. pc = "assign" /\ completed' = completed
      BY <1>2 DEF AssignJob
    <2>2. CASE pc' = "failed"
      BY <2>2 DEF CountInv
    <2>3. CASE pc' # "failed"
      <3>0. PICK k \in 0 .. ScanTotal(assignIdx) - 1 : \E j \in queue[ScanQueue(assignIdx, k)] :
                jobState' = [jobState EXCEPT ![j] = "running"] /\ AssignNext
        BY <1>2, <2>3 DEF AssignJob
      <3>1. PICK j \in queue[ScanQueue(assignIdx, k)] : jobState' = [jobState EXCEPT ![j] = "running"] /\ AssignNext
        BY Zenon, <3>0
      <3>2. assignIdx \in ClientIdx
        <4>1. assignIdx \in 0 .. ClientTotal
          BY <1>0 DEF TypeOK
        <4>2. assignIdx < ClientTotal
          BY <2>1 DEF ScanInv, IInv
        <4>3. ClientTotal \in Nat
          BY ParallelAssumption
        <4> QED
          BY <4>1, <4>2, <4>3 DEF ClientIdx
      <3>3. ScanQueue(assignIdx, k) \in QueueIdx
        BY <3>2, ScanInRange
      <3>4. j \in Jobs /\ jobState[j] = "none"
        BY <1>0, <3>3 DEF TypeOK, JobInv
      <3>5. Done' = Done
        BY <1>0, <3>1, <3>4 DEF Done, TypeOK
      <3>6. pc' \in {"assign", "result"}
        BY <3>1 DEF AssignNext
      <3> QED
        BY <2>1, <3>5, <3>6 DEF CountInv
    <2> QED
      BY <2>2, <2>3
  <1>3. CASE FetchResult
    <2>1. pc = "result" /\ pc' \in {"result", "failed"} /\ completed' = completed - 1
      BY <1>3 DEF FetchResult
    <2>2. PICK j \in Jobs : jobState[j] = "done" /\ jobState' = [jobState EXCEPT ![j] = "collected"]
      BY Zenon, <1>3 DEF FetchResult, JobList
    <2>3. Done' = Done \ {j} /\ j \in Done
      BY <1>0, <2>2 DEF Done, TypeOK
    <2>4. Cardinality(Done') = Cardinality(Done) - 1
      BY <1>0, <2>3, FS_RemoveElement
    <2> QED
      BY <2>1, <2>4 DEF CountInv
  <1>4. CASE CheckDone
    <2>1. pc = "result" /\ completed = 0 /\ jobState' = jobState /\ pc' \in {"end", "process"}
      BY <1>4 DEF CheckDone, jobVars
    <2>2. Cardinality(Done) = 0
      BY <2>1 DEF CountInv
    <2>3. Done = {}
      BY <1>0, <2>2, FS_EmptySet
    <2> QED
      BY <2>1, <2>3 DEF CountInv, Done
  <1>5. ASSUME AssignBusy \/ AssignFree PROVE CountInv'
    <2>1. jobState' = jobState /\ completed' = completed /\ pc = "assign" /\ pc' \in {"assign", "result"}
      BY <1>5 DEF AssignBusy, AssignFree, AssignNext, jobVars
    <2> QED
      BY <2>1 DEF CountInv, Done
  <1>6. ASSUME NEW c \in ClientIdx, WorkerNext(c) \/ WorkerDie(c) PROVE CountInv'
    <2>1. jobState' = jobState /\ pc' = pc /\ completed' = completed
      BY <1>6, Zenon DEF WorkerNext, CommandGet, HandlerDone, HandlerReport, KeepAlive, HandlerThrow, WorkerDie, jobVars
    <2> QED
      BY <2>1 DEF CountInv, Done
  <1>7. CASE UNCHANGED vars
    BY <1>7 DEF CountInv, Done, vars
  <1>8. CASE CallerThrow
    BY <1>8 DEF CallerThrow, CountInv
  <1> QED
    BY <1>1, <1>2, <1>3, <1>4, <1>5, <1>6, <1>7, <1>8 DEF Next, MainNext, Terminated

\* The callers fetch as many results as protocolParallelProcess() counted, and
\* protocolParallelResult() has one for each of these calls
THEOREM AsManyResults == Spec => []ResultAvailable
  <1>1. Init => CountInv
    BY DEF Init, CountInv, Done
  <1>2. CountInv => ResultAvailable
    BY DEF CountInv, Done, ResultAvailable
  <1> QED
    BY <1>1, <1>2, CountStep, SpecIInv, PTL DEF Spec
=============================================================================
