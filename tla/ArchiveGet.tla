----------------------------- MODULE ArchiveGet -----------------------------
(***************************************************************************)
(* The archive-get command in async mode (command/archive/get, and the     *)
(* status files of command/archive/common.c).                              *)
(*                                                                         *)
(* A recovering PostgreSQL runs the command for one WAL segment after the  *)
(* other.  The command (the foreground) moves the segment from the spool   *)
(* queue to pg_wal when it is there.  Else, or when the queue runs low, it *)
(* starts the async process with the list of segments that ought to be in  *)
(* the queue and are not, and looks again until the timeout.  The async    *)
(* process finds the segments in the repositories and has local processes  *)
(* copy them to temporary files in the queue, which it renames.            *)
(*                                                                         *)
(* Segments are numbered in the order of walSegmentNext().                 *)
(***************************************************************************)
EXTENDS Naturals, Sequences, FiniteSets

CONSTANTS
    N,            \* number of segments PostgreSQL asks for
    R,            \* number of configured repositories
    QueueMax,     \* option archive-get-queue-max, in segments
    ProcessMax,   \* option process-max: number of local processes
    Others,       \* sets of <<repo, segment>> archived with another content
    Archived,     \* number of segments archived before the recovery begins
    MaxFault      \* bound on failures, kills and restarts

ASSUME ArchiveGetAssumption ==
    /\ {N, R, ProcessMax} \subseteq Nat \ {0}
    /\ {QueueMax, Archived, MaxFault} \subseteq Nat
    /\ \A other \in Others : other \subseteq (1 .. R) \X (1 .. N)

\* queueNeed() may ask for segments PostgreSQL never gets to
QueueTotal == IF QueueMax < 2 THEN 2 ELSE QueueMax
Segs == 1 .. N + QueueTotal
Repos == 1 .. R
NoSeg == 0
Global == 0             \* stands for the status file global.error

VARIABLES
    other,      \* the member of Others that is true of this behaviour
    archive,    \* what each repository holds of each segment
    want,       \* the segment PostgreSQL needs next
    got,        \* what PostgreSQL was given for each segment
    queue,      \* segments in the spool queue
    tmp,        \* temporary files in the spool queue
    okFile,     \* .ok files: none, missing segment, or warning
    errFile,    \* .error files
    lock,       \* who holds the archive lock
    fg,         \* the foreground command
    starting,   \* segments for async processes that have not reached lockAcquire()
    async,      \* the async process that holds the lock
    job,        \* the fetch of each segment by a local process
    orphan,     \* segments that local processes of a dead async process fetch
    faults      \* failures so far

spool == <<queue, tmp, okFile, errFile>>
vars == <<other, archive, want, got, queue, tmp, okFile, errFile, lock, fg, starting,
          async, job, orphan, faults>>

FgIdle == [pc |-> "idle", seg |-> NoSeg, first |-> TRUE, found |-> FALSE,
           forked |-> FALSE, need |-> {}]
AsyncOff == [pc |-> "off", todo |-> {}, valid |-> {}, cached |-> {},
             list |-> {}, missing |-> NoSeg, error |-> NoSeg]
NoJob == [pc |-> "none", actual |-> {}, warn |-> FALSE]

\* What the cluster of repository r archives as segment s
Content(r, s) == IF <<r, s>> \in other THEN "other" ELSE "wal"

Init ==
    /\ other \in Others
    /\ archive = [r \in Repos |-> [s \in Segs |->
                    IF s <= Archived THEN Content(r, s) ELSE "none"]]
    /\ want = 1
    /\ got = [s \in Segs |-> "none"]
    /\ queue = [s \in Segs |-> "none"] /\ tmp = [s \in Segs |-> "none"]
    /\ okFile = [s \in Segs |-> "none"] /\ errFile = {}
    /\ lock = "free"
    /\ fg = FgIdle
    /\ starting = <<>>
    /\ async = AsyncOff
    /\ job = [s \in Segs |-> NoJob]
    /\ orphan = {}
    /\ faults = 0

\* A step that fails, or one that need not
Fault(fails) ==
    /\ fails => faults < MaxFault
    /\ faults' = IF fails THEN faults + 1 ELSE faults

(***************************************************************************)
(* PostgreSQL and the cluster that archives.                               *)
(***************************************************************************)
\* The next segment arrives in a repository
Push(r) ==
    \E s \in 1 .. N :
        /\ archive[r][s] = "none"
        /\ \A t \in 1 .. s - 1 : archive[r][t] # "none"
        /\ archive' = [archive EXCEPT ![r][s] = Content(r, s)]
        /\ UNCHANGED <<other, want, got, spool, lock, fg, starting, async, job,
                       orphan, faults>>

\* The command has ended.  A segment that is missing is asked for again.
PgReturn ==
    /\ fg.pc \in {"found", "missing", "failed"}
    /\ want' = IF fg.pc = "found" THEN want + 1 ELSE want
    /\ fg' = FgIdle
    /\ lock' = IF lock = "fg" THEN "free" ELSE lock
    /\ UNCHANGED <<other, archive, got, spool, starting, async, job, orphan, faults>>

\* PostgreSQL is killed or restarted and recovers from another segment on; the
\* spool path stays as it is
PgRestart ==
    /\ Fault(TRUE)
    /\ want' \in 1 .. N
    /\ fg' = FgIdle
    /\ lock' = IF lock = "fg" THEN "free" ELSE lock
    /\ UNCHANGED <<other, archive, got, spool, starting, async, job, orphan>>

(***************************************************************************)
(* cmdArchiveGet(): the foreground command.                                *)
(***************************************************************************)
FgStart ==
    /\ fg.pc = "idle"
    /\ want <= N
    /\ fg' = [FgIdle EXCEPT !.pc = "exists", !.seg = want]
    /\ UNCHANGED <<other, archive, want, got, spool, lock, starting, async, job,
                   orphan, faults>>

\* "Check if the WAL segment is already in the queue"
FgExists ==
    /\ fg.pc = "exists"
    /\ fg' = [fg EXCEPT !.pc = "status", !.found = queue[fg.seg] # "none"]
    /\ UNCHANGED <<other, archive, want, got, spool, lock, starting, async, job,
                   orphan, faults>>

\* Where the command goes on when the status files say nothing
AfterStatus == IF fg.found THEN "move" ELSE "lock"

\* Variant: an error is thrown the first time, too
FgStatusThrow ==
    /\ \/ /\ fg.pc = "status"
          /\ fg' = [fg EXCEPT !.pc = IF okFile[fg.seg] # "none"
                                     THEN "okRemove" ELSE "error"]
       \/ /\ fg.pc = "error"
          /\ fg' = [fg EXCEPT !.pc = IF fg.seg \notin errFile THEN "global"
                                     ELSE "failed"]
       \/ /\ fg.pc = "global"
          /\ fg' = [fg EXCEPT !.pc = IF Global \in errFile
                                     THEN "failed" ELSE AfterStatus]
    /\ UNCHANGED <<other, archive, want, got, spool, lock, starting, async, job,
                   orphan, faults>>

\* archiveAsyncStatus(): the .ok file, then the .error file of the segment, then
\* global.error; errors are not thrown the first time
FgStatus ==
    /\ \/ /\ fg.pc = "status"
          /\ fg' = [fg EXCEPT !.pc = IF okFile[fg.seg] # "none"
                                     THEN "okRemove" ELSE "error"]
       \/ /\ fg.pc = "error"
          /\ fg' = [fg EXCEPT !.pc = IF fg.seg \notin errFile THEN "global"
                                     ELSE IF fg.first THEN AfterStatus
                                     ELSE "failed"]
       \/ /\ fg.pc = "global"
          /\ fg' = [fg EXCEPT !.pc = IF Global \in errFile /\ ~fg.first
                                     THEN "failed" ELSE AfterStatus]
    /\ UNCHANGED <<other, archive, want, got, spool, lock, starting, async, job,
                   orphan, faults>>

\* The .ok file is removed.  "Break if an ok file was found but no segment
\* exists", unless an earlier command may have left it.
FgOkRemove ==
    /\ fg.pc = "okRemove"
    /\ okFile' = [okFile EXCEPT ![fg.seg] = "none"]
    /\ fg' = [fg EXCEPT !.pc = IF ~fg.found /\ ~fg.first THEN "missing"
                               ELSE AfterStatus]
    /\ UNCHANGED <<other, archive, want, got, queue, tmp, errFile, lock, starting,
                   async, job, orphan, faults>>

\* The segment is moved to pg_wal
FgMove ==
    /\ fg.pc = "move"
    /\ got' = [got EXCEPT ![fg.seg] = queue[fg.seg]]
    /\ queue' = [queue EXCEPT ![fg.seg] = "none"]
    /\ fg' = [fg EXCEPT !.pc = "count"]
    /\ UNCHANGED <<other, archive, want, tmp, okFile, errFile, lock, starting, async,
                   job, orphan, faults>>

Queued == {s \in Segs : queue[s] # "none"}

\* No async process is needed when the queue is more than half full
FgCount ==
    /\ fg.pc = "count"
    /\ fg' = [fg EXCEPT !.pc = IF 2 * Cardinality(Queued) > QueueMax
                               THEN "found" ELSE "lock"]
    /\ UNCHANGED <<other, archive, want, got, spool, lock, starting, async, job,
                   orphan, faults>>

\* The end of the loop
LoopEnd == [fg EXCEPT !.pc = IF fg.found THEN "found" ELSE "wait",
                      !.first = FALSE]

\* lockAcquire() without a timeout, unless the async process was started before
FgLock ==
    /\ fg.pc = "lock"
    /\ IF ~fg.forked /\ lock = "free"
       THEN lock' = "fg" /\ fg' = [fg EXCEPT !.pc = "need"]
       ELSE fg' = LoopEnd /\ UNCHANGED lock
    /\ UNCHANGED <<other, archive, want, got, spool, starting, async, job, orphan, faults>>

\* The segments that ought to be in the queue, from the one PostgreSQL asks for
\* or, when that was found, the next one
IdealQueue ==
    LET begin == IF fg.found THEN fg.seg + 1 ELSE fg.seg
    IN  begin .. begin + QueueTotal - 1

\* queueNeed() removes everything else from the queue, also .error files and
\* temporary files.  An .ok file stays when its segment was in the queue.
FgNeed ==
    /\ fg.pc = "need"
    /\ queue' = [s \in Segs |-> IF s \in IdealQueue THEN queue[s] ELSE "none"]
    /\ tmp' = [s \in Segs |-> "none"]
    /\ okFile' = [s \in Segs |-> IF s \in Queued THEN okFile[s] ELSE "none"]
    /\ errFile' = {}
    /\ fg' = [fg EXCEPT !.pc = "release",
                        !.need = IdealQueue \ Queued]
    /\ UNCHANGED <<other, archive, want, got, lock, starting, async, job, orphan, faults>>

\* "Release the lock so the child process can acquire it"
FgRelease ==
    /\ fg.pc = "release"
    /\ lock' = "free"
    /\ fg' = [fg EXCEPT !.pc = "exec"]
    /\ UNCHANGED <<other, archive, want, got, spool, starting, async, job, orphan, faults>>

\* archiveAsyncExec() starts the process and does not wait for it
FgExec ==
    /\ fg.pc = "exec"
    /\ starting' = Append(starting, fg.need)
    /\ fg' = [LoopEnd EXCEPT !.forked = TRUE, !.need = {}]
    /\ UNCHANGED <<other, archive, want, got, spool, lock, async, job, orphan, faults>>

\* waitMore(): look again, or ArchiveTimeoutError.  The timeout is long compared
\* with the work of the async process: it counts as a failure while that runs.
FgWait ==
    /\ fg.pc = "wait"
    /\ fg' = [fg EXCEPT !.pc = "exists"]
    /\ UNCHANGED <<other, archive, want, got, spool, lock, starting, async, job,
                   orphan, faults>>

FgTimeout ==
    /\ fg.pc = "wait"
    /\ Fault(starting # <<>> \/ async.pc # "off")
    /\ fg' = [fg EXCEPT !.pc = "failed"]
    /\ UNCHANGED <<other, archive, want, got, spool, lock, starting, async, job, orphan>>
(***************************************************************************)
(* cmdArchiveGetAsync(): the async process.                                *)
(***************************************************************************)
\* A process less that has to start
Without(i) ==
    [n \in 1 .. Len(starting) - 1 |-> IF n < i THEN starting[n] ELSE starting[n + 1]]

\* The process takes the archive lock when its options are loaded, or ends
AsyncStart(i) ==
    /\ starting' = Without(i)
    /\ IF lock = "free"
       THEN /\ lock' = "async"
            /\ async' = [AsyncOff EXCEPT !.pc = "check", !.todo = starting[i]]
       ELSE UNCHANGED <<lock, async>>
    /\ UNCHANGED <<other, archive, want, got, spool, fg, job, orphan, faults>>

\* The process ends.  Its local processes keep the lock while they are busy.
AsyncQuit ==
    /\ async' = [async EXCEPT !.pc = "exit"]
    /\ orphan' = orphan \cup {s \in Segs : job[s].pc = "copy"}
    /\ job' = [s \in Segs |-> NoJob]

\* archiveGetCheck(): the repositories with an archive.info that can be loaded
\* and lists the cluster.  Without a segment to get, or without a repository,
\* global.error is written.
AsyncCheck ==
    /\ async.pc = "check"
    /\ \E fail \in SUBSET Repos :
         /\ Fault(fail # {})
         /\ IF async.todo = {} \/ fail = Repos
            THEN AsyncQuit /\ errFile' = errFile \cup {Global}
            ELSE /\ async' = [async EXCEPT !.pc = "find", !.valid = Repos \ fail]
                 /\ UNCHANGED <<errFile, job, orphan>>
    /\ UNCHANGED <<other, archive, want, got, queue, tmp, okFile, lock, fg, starting>>

\* What the async process knows of repository r: its list, which is read once
Listed(r, s) ==
    IF r \in async.cached THEN <<r, s>> \in async.list
    ELSE archive[r][s] # "none"

ListOf(repos) == {rs \in repos \X Segs : archive[rs[1]][rs[2]] # "none"}

\* The repositories that have segment s, when those in fail cannot be listed
Matching(s, fail) == {r \in async.valid \ fail : Listed(r, s)}

\* The process when it has searched for segment s
Searched(s, fail) ==
    [async EXCEPT !.todo = async.todo \ {s},
                  !.cached = async.valid \ fail,
                  !.list = async.list \cup ListOf(async.valid \ (fail \cup async.cached))]

\* archiveGetFind() for the next segment.  The search ends at the first segment
\* that is in no repository, that has more than one content, or for which all
\* repositories fail.
AsyncFind ==
    /\ async.pc = "find"
    /\ \E s \in async.todo, fail \in SUBSET (async.valid \ async.cached) :
         /\ \A t \in async.todo : s <= t
         /\ Fault(fail # {})
         /\ IF \/ fail = async.valid
               \/ \E q, r \in Matching(s, fail) : archive[q][s] # archive[r][s]
            THEN /\ async' = [Searched(s, fail) EXCEPT !.pc = "get", !.error = s]
                 /\ UNCHANGED job
            ELSE IF Matching(s, fail) = {}
            THEN /\ async' = [Searched(s, fail) EXCEPT !.pc = "get", !.missing = s]
                 /\ UNCHANGED job
            ELSE /\ async' = [Searched(s, fail) EXCEPT
                                !.pc = IF async.todo = {s} THEN "get" ELSE "find"]
                 /\ job' = [job EXCEPT ![s] =
                              [pc |-> "todo", actual |-> Matching(s, fail),
                               warn |-> fail # {} \/ async.valid # Repos]]
    /\ UNCHANGED <<other, archive, want, got, spool, lock, fg, starting, orphan>>

\* A local process opens the temporary file
JobStart(s) ==
    /\ async.pc = "get"
    /\ job[s].pc = "todo"
    /\ Cardinality({t \in Segs : job[t].pc = "copy"}) < ProcessMax
    /\ job' = [job EXCEPT ![s].pc = "copy"]
    /\ tmp' = [tmp EXCEPT ![s] = "part"]
    /\ UNCHANGED <<other, archive, want, got, queue, okFile, errFile, lock, fg,
                   starting, async, orphan, faults>>

\* What the temporary file holds after a copy: two processes that write to it at
\* the same time spoil it
Copied(r, s) == IF s \in orphan THEN "part" ELSE archive[r][s]

\* archiveGetFile(): the repositories are tried in their order until a copy
\* succeeds, and the ones that failed become warnings
JobCopy(s) ==
    /\ job[s].pc = "copy"
    /\ \/ /\ Fault(TRUE)
          /\ job' = [job EXCEPT ![s].pc = "err"]
          /\ UNCHANGED tmp
       \/ \E r \in job[s].actual :
            LET fails == \E q \in job[s].actual : q < r
            IN  /\ Fault(fails)
                /\ tmp' = [tmp EXCEPT ![s] = Copied(r, s)]
                /\ job' = [job EXCEPT ![s].pc = "ok", ![s].warn = @ \/ fails]
    /\ UNCHANGED <<other, archive, want, got, queue, okFile, errFile, lock, fg,
                   starting, async, orphan>>

\* A local process that outlived its async process ends its copy, if it can
OrphanCopy(s) ==
    /\ s \in orphan
    /\ orphan' = orphan \ {s}
    /\ tmp' \in {tmp} \cup {[tmp EXCEPT ![s] = archive[r][s]] :
                              r \in {q \in Repos : archive[q][s] # "none"}}
    /\ UNCHANGED <<other, archive, want, got, queue, okFile, errFile, lock, fg,
                   starting, async, job, faults>>

\* The async process is not in the middle of another result
ResultNext == \A t \in Segs : job[t].pc # "rename"

\* The result of a job: an .error file, or an .ok file if there are warnings ...
AsyncResult(s) ==
    /\ async.pc = "get"
    /\ ResultNext
    /\ \/ /\ job[s].pc = "err"
          /\ errFile' = errFile \cup {s}
          /\ job' = [job EXCEPT ![s] = NoJob]
          /\ UNCHANGED okFile
       \/ /\ job[s].pc = "ok"
          /\ okFile' = IF job[s].warn THEN [okFile EXCEPT ![s] = "warn"] ELSE okFile
          /\ job' = [job EXCEPT ![s].pc = "rename"]
          /\ UNCHANGED errFile
    /\ UNCHANGED <<other, archive, want, got, queue, tmp, lock, fg, starting, async,
                   orphan, faults>>

\* ... and then the temporary file gets the name of the segment
AsyncRename(s) ==
    /\ async.pc = "get"
    /\ job[s].pc = "rename"
    /\ queue' = [queue EXCEPT ![s] = tmp[s]]
    /\ tmp' = [tmp EXCEPT ![s] = "none"]
    /\ job' = [job EXCEPT ![s] = NoJob]
    /\ UNCHANGED <<other, archive, want, got, okFile, errFile, lock, fg, starting,
                   async, orphan, faults>>

\* Once all files are fetched the error or the first missing segment is noted,
\* "right before the async process exits"
AsyncEnd ==
    /\ async.pc = "get"
    /\ \A s \in Segs : job[s].pc = "none"
    /\ IF async.error # NoSeg
       THEN errFile' = errFile \cup {async.error} /\ UNCHANGED okFile
       ELSE /\ okFile' = IF async.missing = NoSeg THEN okFile
                         ELSE [okFile EXCEPT ![async.missing] = "missing"]
            /\ UNCHANGED errFile
    /\ AsyncQuit
    /\ UNCHANGED <<other, archive, want, got, queue, tmp, lock, fg, starting, faults>>

\* The process throws, e.g. as a local process has died, and writes global.error,
\* or it is killed
AsyncDie ==
    /\ async.pc \in {"check", "find", "get"}
    /\ Fault(TRUE)
    /\ errFile' \in {errFile, errFile \cup {Global}}
    /\ AsyncQuit
    /\ UNCHANGED <<other, archive, want, got, queue, tmp, okFile, lock, fg, starting>>

\* Variant: the lock does not outlive the async process
AsyncExitUnlock ==
    /\ async.pc = "exit"
    /\ async' = [AsyncOff EXCEPT !.missing = async.missing]
    /\ lock' = "free"
    /\ UNCHANGED <<other, archive, want, got, spool, fg, starting, job, orphan, faults>>

\* The lock is free once all local processes have ended
AsyncExit ==
    /\ async.pc = "exit"
    /\ orphan = {}
    /\ async' = [AsyncOff EXCEPT !.missing = async.missing]
    /\ lock' = "free"
    /\ UNCHANGED <<other, archive, want, got, spool, fg, starting, job, orphan, faults>>

-----------------------------------------------------------------------------
FgNext ==
    \/ FgStart \/ FgExists \/ FgStatus \/ FgOkRemove \/ FgMove \/ FgCount
    \/ FgLock \/ FgNeed \/ FgRelease \/ FgExec \/ FgWait \/ PgReturn

AsyncNext ==
    \/ \E i \in DOMAIN starting : AsyncStart(i)
    \/ AsyncCheck \/ AsyncFind \/ AsyncEnd \/ AsyncExit

JobNext(s) ==
    JobStart(s) \/ JobCopy(s) \/ OrphanCopy(s) \/ AsyncResult(s) \/ AsyncRename(s)

\* PostgreSQL has all segments and no process is left
Quiet ==
    /\ want > N
    /\ fg.pc = "idle" /\ async.pc = "off" /\ starting = <<>>
    /\ UNCHANGED vars

Next ==
    \/ \E r \in Repos : Push(r)
    \/ PgRestart
    \/ FgNext
    \/ FgTimeout
    \/ AsyncNext
    \/ \E s \in Segs : JobNext(s)
    \/ AsyncDie
    \/ Quiet

Spec == Init /\ [][Next]_vars

\* The archive fills up, PostgreSQL asks again, processes that exist run on, and
\* the wait ends at the timeout
FairSpec ==
    /\ Spec
    /\ WF_vars(\E r \in Repos : Push(r))
    /\ WF_vars(FgNext)
    /\ SF_vars(FgTimeout)
    /\ WF_vars(AsyncNext)
    /\ WF_vars(\E s \in Segs : JobNext(s))

-----------------------------------------------------------------------------
Contents == {"none", "part", "wal", "other"}

Segment == Segs \cup {NoSeg}

FgType == [pc : {"idle", "exists", "status", "okRemove", "error", "global", "move", "count",
                 "lock", "need", "release", "exec", "wait", "found", "missing", "failed"},
           seg : 0 .. N, first : BOOLEAN, found : BOOLEAN, forked : BOOLEAN, need : SUBSET Segs]

AsyncType == [pc : {"off", "check", "find", "get", "exit"}, todo : SUBSET Segs, valid : SUBSET Repos,
              cached : SUBSET Repos, list : SUBSET (Repos \X Segs), missing : Segment, error : Segment]

JobType == [pc : {"none", "todo", "copy", "ok", "err", "rename"}, actual : SUBSET Repos, warn : BOOLEAN]

\* Type invariant of the archive, the spool queue and the processes.
TypeOK ==
    /\ other \in Others
    /\ archive \in [Repos -> [Segs -> {"none", "wal", "other"}]]
    /\ want \in 1 .. N + 1
    /\ got \in [Segs -> Contents] /\ queue \in [Segs -> Contents] /\ tmp \in [Segs -> Contents]
    /\ okFile \in [Segs -> {"none", "missing", "warn"}] /\ errFile \subseteq Segs \cup {Global}
    /\ lock \in {"free", "fg", "async"}
    /\ fg \in FgType /\ (fg.pc # "idle" => fg.seg = want)
    /\ starting \in Seq(SUBSET Segs)
    /\ async \in AsyncType /\ (async.pc = "find" => async.todo # {})
    /\ job \in [Segs -> JobType]
    /\ orphan \subseteq Segs
    /\ faults \in 0 .. MaxFault

\* PostgreSQL is never given part of a segment: the file has the name of the
\* segment in the queue only once it is whole, and only a process under the lock
\* writes to the temporary file, though processes are killed at any time.
GotWhole ==
    \A s \in Segs :
        {got[s], queue[s]} \subseteq {"none"} \cup {archive[r][s] : r \in Repos}

\* PostgreSQL gets every segment it needs, unless the repositories hold it, or
\* one before it, with different contents, once failures have stopped: whatever
\* an earlier process left in the spool path, under the lock or on its way.
Served ==
    <>[](\A s \in 1 .. N : (\A o \in other : s < o[2]) => want > s)

=============================================================================
