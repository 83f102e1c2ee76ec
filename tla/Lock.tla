-------------------------------- MODULE Lock --------------------------------
(***************************************************************************)
(* The lock files that keep two pgBackRest commands apart (common/lock.c)  *)
(* and the stop and start commands that hold them off (command/control).   *)
(*                                                                         *)
(* A lock is an flock() on a file of the lock path.  The file is opened or *)
(* created by name, locked by inode, and removed by name before the lock   *)
(* is given up, so a name and an inode have to be told apart here.         *)
(* A main process locks when its options are loaded and tests for the stop *)
(* file when its command begins; the asynchronous archive-get leaves the   *)
(* test to its local processes, for each file; stanza-delete asks for the  *)
(* stop file; a remote tests first and locks then; the info command and    *)
(* the archive-push foreground process only probe a lock.                  *)
(***************************************************************************)
EXTENDS Naturals, Sequences, FiniteSets

CONSTANTS
    Procs,        \* process ids
    None,         \* no inode, no process
    LockCases     \* the situations that are looked at, records of
                  \* kind[p]: "main", "get", "delete", "remote" or "probe"
                  \* main[p]: the main process of a remote on the same host,
                  \*    else p itself; it stands for the exec-id they share
                  \* lockType[p]: the lock names p takes, in order
                  \* pidSize[p]: length of what p writes to a lock file
                  \* openRace: TRUE: the code.  FALSE: no lock file is removed
                  \*    while another process has it open
                  \* maxCrash: bound on processes killed without exitSafe()
                  \* maxTerm: bound on TERM signals from outside of stop --force
                  \* startGiven: does the operator give start after stop?

ASSUME LockAssumption ==
    /\ None \notin Procs \cup Nat
    /\ "stop" \notin Procs \cup {None}
    /\ \A c \in LockCases :
         /\ c.kind \in [Procs -> {"main", "get", "delete", "remote", "probe"}]
         /\ c.main \in [Procs -> Procs]
         /\ c.lockType \in [Procs -> {<<"archive">>, <<"backup">>, <<"archive", "backup">>}]
         /\ \A p \in Procs : c.main[p] # p =>
              /\ c.kind[p] = "remote"
              /\ c.kind[c.main[p]] = "main"
              /\ c.main[c.main[p]] = c.main[p]
              /\ c.lockType[p] = c.lockType[c.main[p]]
         /\ c.pidSize \in [Procs -> Nat \ {0}]
         /\ {c.openRace, c.startGiven} \subseteq BOOLEAN
         /\ {c.maxCrash, c.maxTerm} \subseteq Nat

Names == {"archive", "backup"}
Stopper == "stop"           \* the stop command as the holder of an flock()
OnExecId == 0               \* LOCK_ON_EXEC_ID, not an inode
Inodes == 1 .. 2 * Cardinality(Procs) + 2

VARIABLES
    lockCase,   \* the situation, it does not change
    lockFile,   \* inode of each lock file, None when there is none
    content,    \* what is written in each inode
    flocked,    \* who holds the flock() of each inode
    fd,         \* lockFd of each process, per lock name
    lpc,         \* where each process is
    lockIdx,    \* lock the process is acquiring or releasing
    term,       \* processes that were sent a TERM signal
    faults,     \* processes killed and TERM signals sent so far
    stopFile,   \* does the stop file exist?
    stop        \* the stop --force command: where it is, files left, its fd

procVars == <<fd, lpc, lockIdx>>
lockVars == <<lockCase, lockFile, content, flocked, fd, lpc, lockIdx, term, faults,
          stopFile, stop>>

\* An empty file, or the pid line of the process that wrote it last.  A write
\* does not truncate: what a longer write left behind stays at the end.
EmptyFile == [pid |-> None, size |-> 0, clean |-> TRUE]

Written(p, old) ==
    [pid |-> p,
     size |-> IF lockCase.pidSize[p] > old.size THEN lockCase.pidSize[p] ELSE old.size,
     clean |-> lockCase.pidSize[p] >= old.size]

LockInit ==
    /\ lockCase \in LockCases
    /\ lockFile = [n \in Names |-> None]
    /\ content = [i \in Inodes |-> EmptyFile]
    /\ flocked = [i \in Inodes |-> None]
    /\ fd = [p \in Procs |-> [n \in Names |-> None]]
    /\ lpc = [p \in Procs |-> "start"]
    /\ lockIdx = [p \in Procs |-> 1]
    /\ term = {}
    /\ faults = [crash |-> 0, term |-> 0]
    /\ stopFile = FALSE
    /\ stop = [pc |-> "idle", files |-> {}, fd |-> None]

Name(p) == lockCase.lockType[p][lockIdx[p]]

\* An inode nothing refers to
Unused(i) ==
    /\ \A n \in Names : lockFile[n] # i
    /\ \A p \in Procs, n \in Names : fd[p][n] # i
    /\ stop.fd # i

\* Closing the descriptors of an exiting process gives up its locks
Exit(p, end) ==
    /\ flocked' = [i \in Inodes |->
                     IF flocked[i] = p THEN None ELSE flocked[i]]
    /\ fd' = [fd EXCEPT ![p] = [n \in Names |-> None]]
    /\ lpc' = [lpc EXCEPT ![p] = end]

(***************************************************************************)
(* A process on its way to its lock.                                       *)
(***************************************************************************)
\* cfgLoad(), or cmdRemote() answering the first noop of a running main
Start(p) ==
    /\ lpc[p] = "start"
    /\ lockCase.main[p] # p => lpc[lockCase.main[p]] = "run"
    /\ lpc' = [lpc EXCEPT ![p] =
                IF lockCase.kind[p] = "remote" THEN "test" ELSE "open"]
    /\ UNCHANGED <<lockFile, content, flocked, fd, lockIdx, term, faults,
                   stopFile, stop>>

\* open(O_RDWR | O_CREAT)
Open(p) ==
    /\ lpc[p] = "open"
    /\ \E i \in Inodes :
         /\ IF lockFile[Name(p)] # None
            THEN i = lockFile[Name(p)] /\ UNCHANGED <<lockFile, content>>
            ELSE /\ Unused(i) /\ \A j \in 1 .. i - 1 : ~Unused(j)
                 /\ lockFile' = [lockFile EXCEPT ![Name(p)] = i]
                 /\ content' = [content EXCEPT ![i] = EmptyFile]
         /\ fd' = [fd EXCEPT ![p][Name(p)] = i]
    /\ lpc' = [lpc EXCEPT ![p] = "flock"]
    /\ UNCHANGED <<flocked, lockIdx, term, faults, stopFile, stop>>

\* Variant: any process that wrote the file counts as one of the same family
SameExecIdAny(p, c) == c.pid # None

\* Three lines, the second of them the exec-id of this process
SameExecId(p, c) ==
    c.pid # None /\ c.clean /\ lockCase.main[c.pid] = lockCase.main[p]

\* Variant: a main process runs once it has its locks
AfterLockRun(p) ==
    IF lockCase.kind[p] = "probe" THEN "unlink" ELSE "run"

\* What follows lockAcquire(): the test for the stop file in a command, the work
\* of a remote, lockRelease() in a probe
AfterLock(p) ==
    CASE lockCase.kind[p] \in {"main", "get", "delete"} -> "test"
      [] lockCase.kind[p] = "remote" -> "run"
      [] lockCase.kind[p] = "probe" -> "unlink"

\* The next lock of lockTypeAll, or the end of lockAcquire()
NextLock(p) ==
    IF lockIdx[p] < Len(lockCase.lockType[p])
    THEN /\ lockIdx' = [lockIdx EXCEPT ![p] = @ + 1]
         /\ lpc' = [lpc EXCEPT ![p] = "open"]
    ELSE /\ lockIdx' = [lockIdx EXCEPT ![p] = 1]
         /\ lpc' = [lpc EXCEPT ![p] = AfterLock(p)]

\* flock(LOCK_EX | LOCK_NB) succeeds; the file still has its old content
FlockOk(p) ==
    /\ lpc[p] = "flock"
    /\ flocked[fd[p][Name(p)]] = None
    /\ flocked' = [flocked EXCEPT ![fd[p][Name(p)]] = p]
    /\ lpc' = [lpc EXCEPT ![p] = "write"]
    /\ UNCHANGED <<lockFile, content, fd, lockIdx, term, faults, stopFile,
                   stop>>

\* flock() fails and the file names the exec-id of this process
FlockShared(p) ==
    /\ lpc[p] = "flock"
    /\ flocked[fd[p][Name(p)]] # None
    /\ SameExecId(p, content[fd[p][Name(p)]])
    /\ fd' = [fd EXCEPT ![p][Name(p)] = OnExecId]
    /\ NextLock(p)
    /\ UNCHANGED <<lockFile, content, flocked, term, faults, stopFile, stop>>

\* flock() fails: LockAcquireError, or the end of a probe.  All callers pass
\* a timeout of zero, so there is no second attempt.  The locks that were
\* already taken are not released but closed: their files stay.
FlockFail(p) ==
    /\ lpc[p] = "flock"
    /\ flocked[fd[p][Name(p)]] # None
    /\ ~SameExecId(p, content[fd[p][Name(p)]])
    /\ Exit(p, IF lockCase.kind[p] = "probe" THEN "done" ELSE "refused")
    /\ UNCHANGED <<lockFile, content, lockIdx, term, faults, stopFile, stop>>

\* The pid and the exec-id are written once the lock is held
Write(p) ==
    /\ lpc[p] = "write"
    /\ content' = [content EXCEPT ![fd[p][Name(p)]] = Written(p, @)]
    /\ NextLock(p)
    /\ UNCHANGED <<lockFile, flocked, fd, term, faults, stopFile, stop>>

\* lockStopTest(): on StopError a main process releases its locks in
\* exitSafe(), a remote has none yet.  The stanza-delete of a stanza that is not
\* empty ends unless the stop file is there.
StopTest(p) ==
    /\ lpc[p] = "test"
    /\ lpc' = [lpc EXCEPT ![p] =
                CASE lockCase.kind[p] = "remote" -> IF stopFile THEN "done" ELSE "open"
                  [] lockCase.kind[p] = "delete" -> IF stopFile THEN "run" ELSE "unlink"
                  [] OTHER -> IF stopFile THEN "unlink" ELSE "run"]
    /\ UNCHANGED <<lockFile, content, flocked, fd, lockIdx, term, faults,
                   stopFile, stop>>

\* archiveGetFile() of the next file tests again, in a local process
NextFile(p) ==
    /\ lpc[p] = "run"
    /\ lockCase.kind[p] = "get"
    /\ lpc' = [lpc EXCEPT ![p] = "test"]
    /\ UNCHANGED <<lockFile, content, flocked, fd, lockIdx, term, faults,
                   stopFile, stop>>

(***************************************************************************)
(* The end of a process: exitSafe() and lockRelease().                     *)
(***************************************************************************)
\* The command ends.  protocolFree() ends the remotes first, and a remote ends
\* when its main process does or its connection is closed.  stanza-delete removes
\* the stop file in the end.
Finish(p) ==
    /\ lpc[p] = "run"
    /\ \A r \in Procs \ {p} :
         lockCase.main[r] = p => lpc[r] \in {"start", "done", "refused"}
    /\ lpc' = [lpc EXCEPT ![p] = "unlink"]
    /\ stopFile' = (stopFile /\ lockCase.kind[p] # "delete")
    /\ UNCHANGED <<lockFile, content, flocked, fd, lockIdx, term, faults, stop>>

\* exitOnSignal() runs exitSafe() wherever the process is.  Before lockAcquire()
\* has returned no lock counts as held; in lockRelease() the file that was just
\* removed is removed a second time.
OnSignal(p) ==
    /\ p \in term
    /\ term' = term \ {p}
    /\ \/ /\ lpc[p] \in {"open", "flock", "write"}
             \/ (lpc[p] = "test" /\ lockCase.kind[p] = "remote")
          /\ Exit(p, "done")
       \/ /\ lpc[p] \in {"run", "close"}
             \/ (lpc[p] = "test" /\ lockCase.kind[p] # "remote")
          /\ lpc' = [lpc EXCEPT ![p] = "unlink"]
          /\ UNCHANGED <<flocked, fd>>
       \/ /\ lpc[p] \in {"unlink", "orphans", "done", "refused"}
          /\ UNCHANGED <<flocked, fd, lpc>>
    /\ UNCHANGED <<lockFile, content, lockIdx, faults, stopFile, stop>>

\* No other process has the lock file of this name open
Unattended(n, p) ==
    \/ lockCase.openRace
    \/ lockFile[n] = None
    \/ \A q \in Procs \ {p} : fd[q][n] # lockFile[n]

\* storageRemoveP() on the lock file, by name, whatever inode it has by now
ReleaseUnlink(p) ==
    /\ lpc[p] = "unlink"
    /\ IF fd[p][Name(p)] = OnExecId
       THEN UNCHANGED lockFile
       ELSE /\ Unattended(Name(p), p)
            /\ lockFile' = [lockFile EXCEPT ![Name(p)] = None]
    /\ lpc' = [lpc EXCEPT ![p] = "close"]
    /\ UNCHANGED <<content, flocked, fd, lockIdx, term, faults, stopFile,
                   stop>>

\* close() gives up the lock; then the next lock or the end of the process
ReleaseClose(p) ==
    /\ lpc[p] = "close"
    /\ flocked' = [i \in Inodes |->
                     IF fd[p][Name(p)] = i THEN None ELSE flocked[i]]
    /\ fd' = [fd EXCEPT ![p][Name(p)] = None]
    /\ IF lockIdx[p] < Len(lockCase.lockType[p])
       THEN /\ lockIdx' = [lockIdx EXCEPT ![p] = @ + 1]
            /\ lpc' = [lpc EXCEPT ![p] = "unlink"]
       ELSE /\ lpc' = [lpc EXCEPT ![p] = "done"]
            /\ UNCHANGED lockIdx
    /\ UNCHANGED <<lockFile, content, term, faults, stopFile, stop>>

\* The process is killed: its lock file stays behind.  The descriptor is open in
\* the local processes it started, so one that is still busy keeps the lock.
Crash(p) ==
    /\ faults.crash < lockCase.maxCrash
    /\ lpc[p] \notin {"start", "orphans", "done", "refused"}
    /\ faults' = [faults EXCEPT !.crash = @ + 1]
    /\ \/ Exit(p, "done")
       \/ /\ lpc[p] = "run"
          /\ lpc' = [lpc EXCEPT ![p] = "orphans"]
          /\ UNCHANGED <<flocked, fd>>
    /\ UNCHANGED <<lockFile, content, lockIdx, term, stopFile, stop>>

\* The last local process finds its pipe closed
OrphansEnd(p) ==
    /\ lpc[p] = "orphans"
    /\ Exit(p, "done")
    /\ UNCHANGED <<lockFile, content, lockIdx, term, faults, stopFile, stop>>

\* A TERM signal from elsewhere, e.g. from a terminal or a service manager
Terminate(p) ==
    /\ faults.term < lockCase.maxTerm
    /\ lpc[p] \notin {"start", "orphans", "done", "refused"}
    /\ faults' = [faults EXCEPT !.term = @ + 1]
    /\ term' = term \cup {p}
    /\ UNCHANGED <<lockFile, content, flocked, fd, lpc, lockIdx, stopFile, stop>>

(***************************************************************************)
(* stop --force and start.                                                 *)
(***************************************************************************)
\* Create the stop file and list the lock files
StopCreate ==
    /\ stop.pc = "idle"
    /\ ~stopFile
    /\ stopFile' = TRUE
    /\ stop' = [pc |-> "scan", files |-> {n \in Names : lockFile[n] # None},
                fd |-> None]
    /\ UNCHANGED <<lockFile, content, flocked, term, faults, procVars>>

\* The lock files are visited in the order of their names
StopName ==
    IF "archive" \in stop.files THEN "archive" ELSE "backup"

StopSkip == [stop EXCEPT !.pc = "scan", !.files = @ \ {StopName}, !.fd = None]

\* Open the next lock file; one that has vanished is skipped with a warning
StopOpen ==
    /\ stop.pc = "scan"
    /\ IF stop.files = {}
       THEN stop' = [stop EXCEPT !.pc = "done"]
       ELSE IF lockFile[StopName] = None
       THEN stop' = StopSkip
       ELSE stop' = [stop EXCEPT !.pc = "flock", !.fd = lockFile[StopName]]
    /\ UNCHANGED <<lockFile, content, flocked, term, faults, stopFile, procVars>>

\* A file that can be locked belongs to a process that died
StopFlock ==
    /\ stop.pc = "flock"
    /\ IF flocked[stop.fd] = None
       THEN /\ flocked' = [flocked EXCEPT ![stop.fd] = Stopper]
            /\ stop' = [stop EXCEPT !.pc = "unlink"]
       ELSE /\ stop' = [stop EXCEPT !.pc = "read"]
            /\ UNCHANGED flocked
    /\ UNCHANGED <<lockFile, content, term, faults, stopFile, procVars>>

\* Send TERM to the process named in the file, if it still exists.  A file
\* without a process id is removed.
StopRead ==
    /\ stop.pc = "read"
    /\ LET pid == content[stop.fd].pid
       IN  IF pid # None
           THEN /\ term' = IF lpc[pid] \in {"orphans", "done", "refused"}
                           THEN term ELSE term \cup {pid}
                /\ stop' = StopSkip
           ELSE /\ stop' = [stop EXCEPT !.pc = "unlink"]
                /\ UNCHANGED term
    /\ UNCHANGED <<lockFile, content, flocked, faults, stopFile, procVars>>

\* unlink() by name, then close()
StopUnlink ==
    /\ stop.pc = "unlink"
    /\ Unattended(StopName, Stopper)
    /\ lockFile' = [lockFile EXCEPT ![StopName] = None]
    /\ stop' = [stop EXCEPT !.pc = "close"]
    /\ UNCHANGED <<content, flocked, term, faults, stopFile, procVars>>

StopClose ==
    /\ stop.pc = "close"
    /\ flocked' = [i \in Inodes |->
                     IF flocked[i] = Stopper THEN None ELSE flocked[i]]
    /\ stop' = StopSkip
    /\ UNCHANGED <<lockFile, content, term, faults, stopFile, procVars>>

\* cmdStart(), once the operator has seen stop return
StartCommand ==
    /\ lockCase.startGiven
    /\ stop.pc = "done"
    /\ stopFile
    /\ stopFile' = FALSE
    /\ UNCHANGED <<lockFile, content, flocked, term, faults, stop, procVars>>

-----------------------------------------------------------------------------
Ended == {"done", "refused"}

ProcNext(p) ==
    \/ Start(p)
    \/ Open(p)
    \/ FlockOk(p)
    \/ FlockShared(p)
    \/ FlockFail(p)
    \/ Write(p)
    \/ StopTest(p)
    \/ NextFile(p)
    \/ Finish(p)
    \/ OnSignal(p)
    \/ ReleaseUnlink(p)
    \/ ReleaseClose(p)
    \/ OrphansEnd(p)

StopNext ==
    \/ StopCreate
    \/ StopOpen
    \/ StopFlock
    \/ StopRead
    \/ StopUnlink
    \/ StopClose

\* Every process has ended and nobody runs stop or start any more
Quiet ==
    /\ \A p \in Procs : lpc[p] \in Ended \cup {"start"}
    /\ UNCHANGED lockVars

LockNext ==
    /\ \/ \E p \in Procs : ProcNext(p) \/ Crash(p) \/ Terminate(p)
       \/ StopNext
       \/ StartCommand
       \/ Quiet
    /\ UNCHANGED lockCase

LockSpec == LockInit /\ [][LockNext]_lockVars

-----------------------------------------------------------------------------
\* Type invariant of the lock files, the processes and the stop command.
LockTypeOK ==
    /\ lockCase \in LockCases
    /\ lockFile \in [Names -> Inodes \cup {None}]
    /\ content \in [Inodes -> [pid : Procs \cup {None}, size : Nat, clean : BOOLEAN]]
    /\ flocked \in [Inodes -> Procs \cup {Stopper, None}]
    /\ fd \in [Procs -> [Names -> Inodes \cup {None, OnExecId}]]
    /\ lpc \in [Procs -> {"start", "open", "flock", "write", "test", "run",
                         "unlink", "close", "orphans", "done", "refused"}]
    /\ lockIdx \in [Procs -> {1, 2}]
    /\ term \subseteq Procs
    /\ faults \in [crash : 0 .. lockCase.maxCrash, term : 0 .. lockCase.maxTerm]
    /\ stopFile \in BOOLEAN
    /\ stop \in [pc : {"idle", "scan", "flock", "read", "unlink", "close", "done"},
                 files : SUBSET Names, fd : Inodes \cup {None}]

\* p works under lock n.  A remote that shares the lock of its main process
\* is covered for as long as that one holds it.
Under(p, n) ==
    /\ lpc[p] \in {"run", "orphans"}
    /\ fd[p][n] # None
    /\ fd[p][n] = OnExecId => lpc[lockCase.main[p]] \in {"run", "orphans"}

\* Two commands that were not spawned by the same main process never work
\* under the same lock: "only one backup at a time", "prevent more than one
\* async process being launched".  The local processes of a command that was
\* killed count as well: they may still be writing.
Apart ==
    \A p, q \in Procs : \A n \in Names :
        Under(p, n) /\ Under(q, n) => lockCase.main[p] = lockCase.main[q]

\* No lock file is removed while another process has it open.  The next two
\* properties need that.
NoRace == ~lockCase.openRace

\* Two commands work apart whatever is killed, and whatever stop --force does,
\* as long as no lock file is removed under a process that has it open.
Exclusive == NoRace => Apart

\* Once stop --force has returned, and until start, a command that still works
\* under a lock has been sent a TERM signal it did not act on yet: the commands
\* stop did not find in a lock file find the stop file in lockStopTest(), in
\* archive-get the next file does.  stanza-delete works because of the stop file,
\* and a remote that tested before stop and locks after it is not reached.
StopCovers ==
    NoRace /\ stop.pc = "done" /\ stopFile =>
        \A p \in Procs : lockCase.kind[p] \in {"main", "get"} /\ lpc[p] = "run" => p \in term
=============================================================================
