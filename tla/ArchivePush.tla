----------------------------- MODULE ArchivePush -----------------------------
(***************************************************************************)
(* The archive-push command (command/archive/push and archive/common.c).   *)
(*                                                                         *)
(* PostgreSQL runs the command for the oldest WAL segment that has a .ready *)
(* file and forgets the segment once the command succeeds.  In async mode  *)
(* the command (the foreground) looks for a status file of the segment in  *)
(* the spool path, starts the async process when it can take the archive   *)
(* lock, and looks again until the timeout.  The async process pushes all  *)
(* ready segments through local processes and writes a status file for     *)
(* each.  A push finds out which repositories lack the segment and copies  *)
(* it to those.                                                            *)
(***************************************************************************)
EXTENDS Naturals, FiniteSets

CONSTANTS
    N,            \* number of WAL segments PostgreSQL produces
    R,            \* number of configured repositories
    PgPath,       \* is option pg1-path given?  Async mode requires it.
    Modes,        \* the values of option archive-async
    QueueMax,     \* option archive-push-queue-max, in segments
    ProcessMax,   \* option process-max: number of local processes
    Others,       \* what another cluster may have pushed: sets of
                  \* <<repo, segment>>
    MaxFault      \* bound on failures, kills, timeouts and stop commands

ASSUME ArchivePushAssumption ==
    /\ N \in Nat \ {0}
    /\ R \in Nat \ {0}
    /\ Modes \subseteq BOOLEAN /\ PgPath \in BOOLEAN /\ (TRUE \in Modes => PgPath)
    /\ QueueMax \in Nat
    /\ ProcessMax \in Nat \ {0}
    /\ \A other \in Others : other \subseteq (1 .. R) \X (1 .. N)
    /\ MaxFault \in Nat

Segs == 1 .. N
Repos == 1 .. R
Global == 0             \* stands for the status file global.error
NoSeg == 0

VARIABLES
    archiveAsync,   \* option archive-async of this configuration
    ready,      \* segments with a .ready file in archive_status
    acked,      \* segments PostgreSQL was told are archived (.done)
    wal,        \* what is in the file of each segment in pg_wal
    archive,    \* what each repository holds of each segment
    okFile,     \* segments with an .ok file in the spool path
    errFile,    \* the ones with an .error file, Global included
    dropped,    \* segments that were dropped from the queue with a warning
    lock,       \* who holds the archive lock
    fg,         \* the foreground command
    starting,   \* async processes that have not reached lockAcquire()
    async,      \* the async process that holds the lock
    valid,      \* repositories archivePushCheck() accepts in that run
    job,        \* the push of each segment by a local process
    orphan,     \* pushes by local processes whose async process is gone
    stopFile,   \* does the stop file exist?
    faults      \* failures so far

pgVars == <<archiveAsync, ready, acked, wal>>
spool == <<okFile, errFile, dropped>>
asyncVars == <<starting, async, valid, job, orphan>>
vars == <<archiveAsync, ready, acked, wal, archive, okFile, errFile, dropped, lock, fg,
          starting, async, valid, job, orphan, stopFile, faults>>

NoJob == [pc |-> "none", need |-> {}, down |-> {}]
AsyncOff == [pc |-> "off", okList |-> {}, todo |-> {}]
FgIdle == [pc |-> "idle", seg |-> NoSeg, forked |-> FALSE,
           throwOnError |-> FALSE, file |-> Global]

Init ==
    /\ archiveAsync \in Modes
    /\ ready = {} /\ acked = {}
    /\ wal = [s \in Segs |-> "wal"]
    /\ \E other \in Others :
         archive = [r \in Repos |-> [s \in Segs |->
                      IF <<r, s>> \in other THEN "other" ELSE "none"]]
    /\ okFile = {} /\ errFile = {} /\ dropped = {}
    /\ lock = "free"
    /\ fg = FgIdle
    /\ starting = 0
    /\ async = AsyncOff
    /\ valid = {}
    /\ job = [s \in Segs |-> NoJob]
    /\ orphan = {}
    /\ stopFile = FALSE
    /\ faults = 0

\* A step that fails, or one that need not
Fault(fails) == faults' = IF fails THEN faults + 1 ELSE faults
MayFail(fails) == fails => faults < MaxFault

\* Segments are worked on in the order of their names
First(s, segs) == \A t \in segs : s <= t

(***************************************************************************)
(* PostgreSQL.                                                             *)
(***************************************************************************)
\* The next segment is complete
PgReady ==
    /\ \E s \in Segs \ (ready \cup acked) :
         /\ \A t \in 1 .. s - 1 : t \in ready \cup acked
         /\ ready' = ready \cup {s}
    /\ UNCHANGED <<archiveAsync, acked, wal, archive, spool, lock, fg, asyncVars,
                   stopFile, faults>>

\* The file of an archived segment is used again for a later one
PgRecycle(s) ==
    /\ s \in acked
    /\ wal' = [wal EXCEPT ![s] = "recycled"]
    /\ UNCHANGED <<archiveAsync, ready, acked, archive, spool, lock, fg,
                   asyncVars, stopFile, faults>>

\* The command has ended: .ready becomes .done, or the command is run again
PgReturn ==
    /\ fg.pc \in {"pushed", "error"}
    /\ IF fg.pc = "pushed"
       THEN ready' = ready \ {fg.seg} /\ acked' = acked \cup {fg.seg}
       ELSE UNCHANGED <<ready, acked>>
    /\ fg' = FgIdle
    /\ lock' = IF lock = "fg" THEN "free" ELSE lock
    /\ UNCHANGED <<archiveAsync, wal, archive, spool, asyncVars, stopFile,
                   faults>>

\* The command is killed, alone or with PostgreSQL, maybe after it has succeeded
PgCrash ==
    /\ fg.pc # "idle"
    /\ faults < MaxFault
    /\ Fault(TRUE)
    /\ fg' = FgIdle
    /\ lock' = IF lock = "fg" THEN "free" ELSE lock
    /\ job' = IF archiveAsync THEN job ELSE [s \in Segs |-> NoJob]
    /\ UNCHANGED <<pgVars, archive, spool, starting, async, valid, orphan, stopFile>>

(***************************************************************************)
(* archivePushFile(): find the segment in the repositories, then copy it.  *)
(***************************************************************************)
\* Variant: the first repository that fails ends the check
RepoListBreak(fail) == {r \in Repos : \A f \in fail : r < f}

\* archivePushCheck(): the repositories with a loadable archive.info that matches
\* pg_control, or, when there is no pg_control, the first repository
RepoList(fail) ==
    IF ~PgPath /\ 1 \in fail THEN {} ELSE Repos \ fail

\* The push of a segment after the check: the repositories that failed it are
\* left out, and when none is left their errors are thrown
NewJob(fail) == [NoJob EXCEPT !.pc = IF RepoList(fail) = {} THEN "err" ELSE "todo", !.down = fail]

\* The push of s throws before it has stored anything
JobAbort(s) == job' = [job EXCEPT ![s] = [NoJob EXCEPT !.pc = "abort"]]

\* The segment is looked up in every valid repository.  One that fails is
\* skipped; one that holds another content ends the push before any copy, and
\* so does a file that cannot be read or is of another cluster.
JobFind(s) ==
    /\ job[s].pc = "todo"
    /\ Cardinality({t \in Segs : job[t].pc = "copy"}) < ProcessMax
    /\ \/ MayFail(TRUE) /\ Fault(TRUE) /\ JobAbort(s)
       \/ \E fail \in SUBSET valid :
            /\ MayFail(fail # {}) /\ Fault(fail # {})
            /\ LET found == valid \ fail
               IN  IF \E r \in found : archive[r][s] \notin {"none", wal[s]}
                   THEN JobAbort(s)
                   ELSE job' = [job EXCEPT ![s] =
                                  [pc |-> "copy",
                                   need |-> {r \in found : archive[r][s] = "none"},
                                   down |-> job[s].down \cup fail]]
    /\ UNCHANGED <<pgVars, archive, spool, lock, fg, starting, async, valid,
                   orphan, stopFile>>

\* Whatever the file holds now is stored under the name of the segment in the
\* repositories where no open, write or close fails
CopyTo(s, repos) ==
    archive' = [r \in Repos |-> IF r \in repos
                                THEN [archive[r] EXCEPT ![s] = wal[s]]
                                ELSE archive[r]]

\* Variant: the push succeeds when one of the copies did
CopyResultAny(s, fail) ==
    IF job[s].need # {} /\ fail = job[s].need THEN "err" ELSE "ok"

\* "Throw any errors, even if some pushes were successful"
CopyResult(s, fail) ==
    IF job[s].down # {} \/ fail # {} THEN "err" ELSE "ok"

\* The file is read once and written to all the repositories that need it.  One
\* that fails is left out; a destination that cannot be made, or a read that
\* fails, ends the push, and what was written is not closed.
JobCopy(s) ==
    /\ job[s].pc = "copy"
    /\ \/ job[s].need # {} /\ MayFail(TRUE) /\ Fault(TRUE) /\ JobAbort(s) /\ UNCHANGED archive
       \/ \E fail \in SUBSET job[s].need :
            /\ MayFail(fail # {}) /\ Fault(fail # {})
            /\ CopyTo(s, job[s].need \ fail)
            /\ job' = [job EXCEPT ![s] = [NoJob EXCEPT !.pc = CopyResult(s, fail),
                                                     !.down = job[s].down \cup fail]]
    /\ UNCHANGED <<pgVars, spool, lock, fg, starting, async, valid, orphan,
                   stopFile>>

\* A local process whose async process is gone ends the copy it is busy with
OrphanCopy(o) ==
    /\ \E fail \in SUBSET o.need :
         /\ MayFail(fail # {}) /\ Fault(fail # {})
         /\ CopyTo(o.seg, o.need \ fail)
    /\ orphan' = orphan \ {o}
    /\ UNCHANGED <<pgVars, spool, lock, fg, starting, async, valid, job, stopFile>>

(***************************************************************************)
(* cmdArchivePush(): the foreground command.                               *)
(***************************************************************************)
\* PostgreSQL runs the command for its oldest segment; lockStopTest() may throw
FgStart ==
    /\ fg.pc = "idle"
    /\ \E s \in ready :
         /\ First(s, ready)
         /\ fg' = [FgIdle EXCEPT
                      !.seg = s,
                      !.pc = IF stopFile THEN "error"
                             ELSE IF archiveAsync THEN "status" ELSE "sync"]
    /\ UNCHANGED <<pgVars, archive, spool, lock, asyncVars, stopFile, faults>>

\* archiveAsyncStatus() asks whether a file exists, one file after the other,
\* and then reads the one it found
FgStatus ==
    /\ \/ /\ fg.pc = "status"
          /\ fg' = [fg EXCEPT !.pc = IF fg.seg \in okFile
                                     THEN "readOk" ELSE "statusError"]
       \/ /\ fg.pc = "statusError"
          /\ fg' = IF fg.seg \in errFile
                   THEN [fg EXCEPT !.pc = "readError", !.file = fg.seg]
                   ELSE [fg EXCEPT !.pc = "statusGlobal"]
       \/ /\ fg.pc = "statusGlobal"
          /\ fg' = IF Global \in errFile
                   THEN [fg EXCEPT !.pc = "readError", !.file = Global]
                   ELSE [fg EXCEPT !.pc = "lock"]
    /\ UNCHANGED <<pgVars, archive, spool, lock, asyncVars, stopFile, faults>>

\* A file that is gone when it is read is an error of the command
FgRead ==
    /\ \/ /\ fg.pc = "readOk"
          /\ fg' = [fg EXCEPT !.pc = IF fg.seg \in okFile
                                     THEN "pushed" ELSE "error"]
       \/ /\ fg.pc = "readError"
          /\ fg' = [fg EXCEPT !.pc =
                      IF fg.file \notin errFile \/ fg.throwOnError
                      THEN "error" ELSE "lock"]
    /\ UNCHANGED <<pgVars, archive, spool, lock, asyncVars, stopFile, faults>>

\* lockAcquire() without a timeout, unless the async process was started before
FgLock ==
    /\ fg.pc = "lock"
    /\ IF ~fg.forked /\ lock = "free"
       THEN /\ lock' = "fg"
            /\ fg' = [fg EXCEPT !.pc = "clear"]
       ELSE /\ fg' = [fg EXCEPT !.pc = "wait", !.throwOnError = TRUE]
            /\ UNCHANGED lock
    /\ UNCHANGED <<pgVars, archive, spool, asyncVars, stopFile, faults>>

\* archiveAsyncErrorClear()
FgClear ==
    /\ fg.pc = "clear"
    /\ errFile' = errFile \ {fg.seg, Global}
    /\ fg' = [fg EXCEPT !.pc = "release"]
    /\ UNCHANGED <<pgVars, archive, okFile, dropped, lock, asyncVars, stopFile, faults>>

\* Variant: the lock is kept while the async process starts
FgReleaseLate ==
    /\ fg.pc = "release"
    /\ fg' = [fg EXCEPT !.pc = "exec"]
    /\ UNCHANGED <<pgVars, archive, spool, lock, asyncVars, stopFile, faults>>

\* "Release the lock so the child process can acquire it"
FgRelease ==
    /\ fg.pc = "release"
    /\ lock' = "free"
    /\ fg' = [fg EXCEPT !.pc = "exec"]
    /\ UNCHANGED <<pgVars, archive, spool, asyncVars, stopFile, faults>>

\* archiveAsyncExec() starts the process and does not wait for it
FgExec ==
    /\ fg.pc = "exec"
    /\ starting' = starting + 1
    /\ fg' = [fg EXCEPT !.pc = "wait", !.forked = TRUE, !.throwOnError = TRUE]
    /\ UNCHANGED <<pgVars, archive, spool, lock, async, valid, job, orphan,
                   stopFile, faults>>

\* waitMore(): look again
FgWait ==
    /\ fg.pc = "wait"
    /\ fg' = [fg EXCEPT !.pc = "status"]
    /\ UNCHANGED <<pgVars, archive, spool, lock, asyncVars, stopFile,
                   faults>>

\* ArchiveTimeoutError.  While an async process is at work this counts as a
\* failure: the timeout is long compared with the push of a segment.
FgTimeout ==
    /\ fg.pc = "wait"
    /\ LET early == starting > 0 \/ async.pc # "off"
       IN  MayFail(early) /\ Fault(early)
    /\ fg' = [fg EXCEPT !.pc = "error"]
    /\ UNCHANGED <<pgVars, archive, spool, lock, asyncVars, stopFile>>

\* Without archive-async the command drops or pushes its segment itself
FgSync ==
    /\ fg.pc = "sync"
    /\ IF Cardinality(ready) > QueueMax
       THEN /\ dropped' = dropped \cup {fg.seg}
            /\ fg' = [fg EXCEPT !.pc = "pushed"]
            /\ UNCHANGED <<valid, job, faults>>
       ELSE \E fail \in SUBSET Repos :
              /\ MayFail(fail # {}) /\ Fault(fail # {})
              /\ valid' = RepoList(fail)
              /\ fg' = [fg EXCEPT !.pc = "push"]
              /\ job' = [job EXCEPT ![fg.seg] = NewJob(fail)]
              /\ UNCHANGED dropped
    /\ UNCHANGED <<pgVars, archive, okFile, errFile, lock, starting, async,
                   orphan, stopFile>>

FgSyncResult ==
    /\ fg.pc = "push"
    /\ job[fg.seg].pc \in {"ok", "err", "abort"}
    /\ fg' = [fg EXCEPT !.pc = IF job[fg.seg].pc = "ok" THEN "pushed"
                               ELSE "error"]
    /\ job' = [job EXCEPT ![fg.seg] = NoJob]
    /\ UNCHANGED <<pgVars, archive, spool, lock, starting, async, valid, orphan,
                   stopFile, faults>>

(***************************************************************************)
(* cmdArchivePushAsync(): the async process.                               *)
(***************************************************************************)
\* The process takes the archive lock when its options are loaded, or ends
AsyncStart ==
    /\ starting > 0
    /\ starting' = starting - 1
    /\ IF lock = "free"
       THEN lock' = "async" /\ async' = [AsyncOff EXCEPT !.pc = "begin"]
       ELSE UNCHANGED <<lock, async>>
    /\ UNCHANGED <<pgVars, archive, spool, fg, valid, job, orphan, stopFile, faults>>

\* The process writes global.error, unless it is killed, and ends.  exitSafe()
\* waits for the local processes that are busy; those of a process that was
\* killed keep its lock until they are done.
AsyncEnd(status) ==
    /\ async' = [AsyncOff EXCEPT !.pc = "exit"]
    /\ errFile' = IF status = "error" THEN errFile \cup {Global} ELSE errFile
    /\ orphan' = orphan \cup {[seg |-> s, need |-> job[s].need] :
                                s \in {t \in Segs : job[t].pc = "copy"}}
    /\ job' = [s \in Segs |-> NoJob]

\* lockStopTest(), then archivePushProcessList() lists the status files and
\* removes all but the .ok files
AsyncBegin ==
    /\ async.pc = "begin"
    /\ IF stopFile
       THEN AsyncEnd("error")
       ELSE /\ async' = [async EXCEPT !.pc = "ready", !.okList = okFile]
            /\ errFile' = {}
            /\ UNCHANGED <<job, orphan>>
    /\ UNCHANGED <<pgVars, archive, okFile, dropped, lock, fg, starting, valid,
                   stopFile, faults>>

\* The .ok files without a .ready file are removed
OkRemove == okFile \ (async.okList \ ready)

\* The list of ready files is read; those without an .ok file are to be pushed,
\* or dropped when the queue is too large
AsyncReady ==
    /\ async.pc = "ready"
    /\ okFile' = OkRemove
    /\ LET todo == ready \ async.okList
       IN  async' = [async EXCEPT
                       !.todo = todo,
                       !.pc = IF todo = {} THEN "empty"
                              ELSE IF Cardinality(todo) > QueueMax
                              THEN "drop" ELSE "check"]
    /\ UNCHANGED <<pgVars, archive, errFile, dropped, lock, fg, starting, valid,
                   job, orphan, stopFile, faults>>

\* AssertError: "no WAL files to process"
AsyncEmpty ==
    /\ async.pc = "empty"
    /\ AsyncEnd("error")
    /\ UNCHANGED <<pgVars, archive, okFile, dropped, lock, fg, starting, valid,
                   stopFile, faults>>

\* A segment is dropped: an .ok file with a warning
AsyncDrop ==
    /\ async.pc = "drop"
    /\ \E s \in async.todo :
         /\ First(s, async.todo)
         /\ okFile' = okFile \cup {s}
         /\ dropped' = dropped \cup {s}
         /\ async' = [async EXCEPT !.todo = @ \ {s},
                                   !.pc = IF async.todo = {s} THEN "exit" ELSE @]
    /\ UNCHANGED <<pgVars, archive, errFile, lock, fg, starting, valid, job,
                   orphan, stopFile, faults>>

\* archivePushCheck(), then one job for each segment of the list
AsyncCheck ==
    /\ async.pc = "check"
    /\ \E fail \in SUBSET Repos :
         /\ MayFail(fail # {}) /\ Fault(fail # {})
         /\ valid' = RepoList(fail)
         /\ IF valid' = {}
            THEN AsyncEnd("error")
            ELSE /\ async' = [async EXCEPT !.pc = "push"]
                 /\ job' = [s \in Segs |-> IF s \in async.todo
                              THEN NewJob(fail) ELSE NoJob]
                 /\ UNCHANGED <<errFile, orphan>>
    /\ UNCHANGED <<pgVars, archive, okFile, dropped, lock, fg, starting,
                   stopFile>>

\* The result of a job becomes the status file of its segment
AsyncResult(s) ==
    /\ async.pc = "push"
    /\ job[s].pc \in {"ok", "err", "abort"}
    /\ IF job[s].pc = "ok"
       THEN okFile' = okFile \cup {s} /\ UNCHANGED errFile
       ELSE errFile' = errFile \cup {s} /\ UNCHANGED okFile
    /\ job' = [job EXCEPT ![s] = NoJob]
    /\ async' = [async EXCEPT !.todo = @ \ {s},
                              !.pc = IF async.todo = {s} THEN "exit" ELSE @]
    /\ UNCHANGED <<pgVars, archive, dropped, lock, fg, starting, valid, orphan,
                   stopFile, faults>>

\* The executor throws, e.g. as a local process has died
AsyncThrow ==
    /\ async.pc = "push"
    /\ faults < MaxFault /\ Fault(TRUE)
    /\ AsyncEnd("error")
    /\ UNCHANGED <<pgVars, archive, okFile, dropped, lock, fg, starting, valid,
                   stopFile>>

\* Variant: the lock does not outlive the async process
AsyncKillUnlock ==
    /\ async.pc \notin {"off", "exit"}
    /\ faults < MaxFault /\ Fault(TRUE)
    /\ orphan' = orphan \cup {[seg |-> s, need |-> job[s].need] :
                                s \in {t \in Segs : job[t].pc = "copy"}}
    /\ job' = [s \in Segs |-> NoJob]
    /\ async' = AsyncOff
    /\ lock' = "free"
    /\ UNCHANGED <<pgVars, archive, spool, fg, starting, valid, stopFile>>

\* The process is killed or terminated
AsyncKill ==
    /\ async.pc \notin {"off", "exit"}
    /\ faults < MaxFault /\ Fault(TRUE)
    /\ AsyncEnd("none")
    /\ UNCHANGED <<pgVars, archive, okFile, dropped, lock, fg, starting, valid,
                   stopFile>>

\* The lock is free once all local processes have ended
AsyncExit ==
    /\ async.pc = "exit"
    /\ orphan = {}
    /\ async' = AsyncOff
    /\ lock' = "free"
    /\ UNCHANGED <<pgVars, archive, spool, fg, starting, valid, job, orphan,
                   stopFile, faults>>

(***************************************************************************)
(* Other commands: stop and start, and one that takes the archive lock.    *)
(***************************************************************************)
StopCommand ==
    /\ ~stopFile
    /\ faults < MaxFault /\ Fault(TRUE)
    /\ stopFile' = TRUE
    /\ UNCHANGED <<pgVars, archive, spool, lock, fg, asyncVars>>

StartCommand ==
    /\ stopFile
    /\ stopFile' = FALSE
    /\ UNCHANGED <<pgVars, archive, spool, lock, fg, asyncVars, faults>>

OtherLock ==
    /\ archiveAsync
    /\ lock = "free"
    /\ faults < MaxFault /\ Fault(TRUE)
    /\ lock' = "other"
    /\ UNCHANGED <<pgVars, archive, spool, fg, asyncVars, stopFile>>

OtherUnlock ==
    /\ lock = "other"
    /\ lock' = "free"
    /\ UNCHANGED <<pgVars, archive, spool, fg, asyncVars, stopFile, faults>>

-----------------------------------------------------------------------------
FgNext ==
    \/ FgStart
    \/ FgStatus
    \/ FgRead
    \/ FgLock
    \/ FgClear
    \/ FgRelease
    \/ FgExec
    \/ FgWait
    \/ FgSync
    \/ FgSyncResult
    \/ PgReturn

AsyncNext ==
    \/ AsyncStart
    \/ AsyncBegin
    \/ AsyncReady
    \/ AsyncEmpty
    \/ AsyncDrop
    \/ AsyncCheck
    \/ AsyncExit

JobNext(s) ==
    \/ JobFind(s)
    \/ JobCopy(s)
    \/ AsyncResult(s)

\* All segments are archived and no process is left
Quiet ==
    /\ acked = Segs
    /\ fg.pc = "idle" /\ async.pc = "off" /\ starting = 0
    /\ UNCHANGED vars

Next ==
    \/ PgReady
    \/ \E s \in Segs : PgRecycle(s)
    \/ PgCrash
    \/ FgTimeout
    \/ FgNext
    \/ AsyncNext
    \/ \E s \in Segs : JobNext(s)
    \/ \E o \in orphan : OrphanCopy(o)
    \/ AsyncThrow
    \/ AsyncKill
    \/ StopCommand
    \/ StartCommand
    \/ OtherLock
    \/ OtherUnlock
    \/ Quiet

Spec == Init /\ [][Next]_vars

\* PostgreSQL runs the command again until it succeeds, processes that exist
\* run on, the wait for a status file ends at the timeout, the operator gives
\* start after stop, and other commands end
FairSpec ==
    /\ Spec
    /\ WF_vars(FgNext)
    /\ SF_vars(FgTimeout)
    /\ WF_vars(AsyncNext)
    /\ \A s \in Segs : WF_vars(JobNext(s))
    /\ WF_vars(\E o \in orphan : OrphanCopy(o))
    /\ WF_vars(StartCommand)
    /\ WF_vars(OtherUnlock)

-----------------------------------------------------------------------------
Foregrounds ==
    [pc : {"idle", "status", "statusError", "statusGlobal", "readOk", "readError", "lock", "clear",
           "release", "exec", "wait", "sync", "push", "pushed", "error"},
     seg : Segs \cup {NoSeg}, forked : BOOLEAN, throwOnError : BOOLEAN, file : Segs \cup {Global}]
Asyncs ==
    [pc : {"off", "begin", "ready", "empty", "drop", "check", "push", "exit"},
     okList : SUBSET Segs, todo : SUBSET Segs]
Jobs == [pc : {"none", "todo", "copy", "ok", "err", "abort"}, need : SUBSET Repos, down : SUBSET Repos]

\* Type invariant of PostgreSQL's queue, the repositories, the spool path and
\* the processes.
TypeOK ==
    /\ archiveAsync \in Modes
    /\ ready \subseteq Segs /\ acked \subseteq Segs
    /\ wal \in [Segs -> {"wal", "recycled"}]
    /\ archive \in [Repos -> [Segs -> {"none", "wal", "recycled", "other"}]]
    /\ okFile \subseteq Segs /\ errFile \subseteq Segs \cup {Global}
    /\ dropped \subseteq Segs
    /\ lock \in {"free", "fg", "async", "other"}
    /\ fg \in Foregrounds
    /\ starting \in Nat
    /\ async \in Asyncs
    /\ valid \subseteq Repos
    /\ job \in [Segs -> Jobs]
    /\ orphan \subseteq [seg : Segs, need : SUBSET Repos]
    /\ stopFile \in BOOLEAN
    /\ faults \in 0 .. MaxFault

\* A segment PostgreSQL was told is archived, or is about to be told so by an
\* .ok file, is in every configured repository with the content PostgreSQL
\* handed over, unless it was dropped as the queue was too large.  This holds
\* although pushes fail in part, processes are killed and pushes are repeated.
AckedArchived ==
    \A s \in acked \cup okFile :
        s \in dropped \/ \A r \in Repos : archive[r][s] = "wal"

\* What a repository holds under the name of a segment is never replaced by
\* something else: "error so we don't overwrite the existing segment".  A local
\* process that outlives its async process reads a file PostgreSQL may already
\* use for another segment, so this rests on the lock it still holds.
NoOverwrite ==
    [][\A r \in Repos, s \in Segs :
         archive[r][s] # "none" => archive'[r][s] = archive[r][s]]_vars

\* The .ok file the foreground command found is there when it is read: only
\* the .ok files of segments without a .ready file are removed.
OkStays == fg.pc = "readOk" => fg.seg \in okFile

\* "With multiple repositories configured, archive-push will attempt to push to
\* as many repositories as possible": a push that ends with the errors of some
\* repositories has left the segment in every other one, in both modes and
\* whatever pushes of it came before.  A push that throws at once (the segment
\* cannot be read, is of another cluster, or is there with another content) is
\* none of these.
AsManyAsPossible ==
    \A s \in Segs : job[s].pc = "err" => \A r \in Repos \ job[s].down : archive[r][s] = "wal"

\* Every segment that is ready is acknowledged in the end, once failures and
\* kills have stopped, whatever status files and processes they left behind,
\* unless a repository holds it, or one before it, with another content.
Delivered ==
    <>[](\A s \in ready \ acked :
            \E r \in Repos, t \in 1 .. s : archive[r][t] = "other")
=============================================================================
