----------------------------- MODULE PosixWrite -----------------------------
(***************************************************************************)
(* Writing a file with the Posix driver: a temporary file that is synced,  *)
(* renamed and made durable by a sync of its path.  Any system call may    *)
(* fail, the process may be killed and the host may crash, and the write   *)
(* is then run again.  Meanwhile another process may remove the path when  *)
(* it is empty.                                                            *)
(*                                                                         *)
(* The path keeps every state it had since it was last synced; a crash     *)
(* leaves one of them, and of a file that was not synced some prefix.      *)
(***************************************************************************)
EXTENDS Naturals, Sequences

CONSTANTS
    FileSize,       \* blocks of the file
    MaxRun,         \* how often the write is run
    MaxCrash        \* crashes of the host

ASSUME PosixAssumption == FileSize \in Nat /\ MaxRun \in Nat \ {0} /\ MaxCrash \in Nat

VARIABLES
    wopt,           \* [atomic, createPath, syncFile, syncPath]
    run,            \* the run under way
    wpc,            \* its step
    ended,          \* what became of each run
    path,           \* [exists, tmp, name]: the path and what its entries lead to
    past,           \* what the path was since it was last synced
    ino,            \* contents of the files: which run wrote how much
    crashed         \* crashes so far

posixVars == <<wopt, run, wpc, ended, path, past, ino, crashed>>

None == MaxRun + 1
OldFile == 0
OldIno == [by |-> 0, len |-> FileSize, synced |-> TRUE]

PosixInit ==
    /\ wopt \in [atomic : BOOLEAN, createPath : BOOLEAN, syncFile : BOOLEAN, syncPath : BOOLEAN]
    /\ run = 1
    /\ wpc = "open"
    /\ ended = [r \in 1 .. MaxRun |-> "open"]
    /\ path \in {[exists |-> e, tmp |-> None, name |-> n] : e \in BOOLEAN, n \in {None, OldFile}}
    /\ ~path.exists => path.name = None
    /\ past = {path}
    /\ ino = [i \in 0 .. MaxRun |-> OldIno]
    /\ crashed = 0

Change(p) == path' = p /\ past' = past \cup {p}
Step(from, to) == wpc = from /\ wpc' = to

\* The name that open(), write(), fsync() and utime() work on
TmpEntry == IF wopt.atomic THEN path.tmp ELSE path.name

\* open() with O_CREAT and O_TRUNC: an entry that is there is written again
Open ==
    /\ wpc \in {"open", "again"}
    /\ wpc' = "write"
    /\ path.exists
    /\ LET i == IF TmpEntry = None THEN run ELSE TmpEntry
       IN  /\ ino' = [ino EXCEPT ![i] = [by |-> run, len |-> 0, synced |-> FALSE]]
           /\ Change(IF wopt.atomic THEN [path EXCEPT !.tmp = i] ELSE [path EXCEPT !.name = i])
    /\ UNCHANGED <<wopt, run, ended, crashed>>

\* storagePosixPathCreate(); open() is then tried once more
PathCreate ==
    /\ Step("open", "again")
    /\ ~path.exists
    /\ wopt.createPath
    /\ Change([path EXCEPT !.exists = TRUE])
    /\ UNCHANGED <<wopt, run, ended, ino, crashed>>

Write ==
    /\ wpc = "write"
    /\ ino[TmpEntry].len < FileSize
    /\ ino' = [ino EXCEPT ![TmpEntry].len = @ + 1]
    /\ UNCHANGED <<wopt, run, wpc, ended, path, past, crashed>>

\* storageWritePosixClose(), one action per system call
SyncFileSkipped ==
    /\ Step("write", "rename")
    /\ ino[TmpEntry].len = FileSize
    /\ UNCHANGED <<wopt, run, ended, path, past, ino, crashed>>

SyncFile ==
    /\ Step("write", "rename")
    /\ ino[TmpEntry].len = FileSize
    /\ ino' = IF wopt.syncFile THEN [ino EXCEPT ![TmpEntry].synced = TRUE] ELSE ino
    /\ UNCHANGED <<wopt, run, ended, path, past, crashed>>

Rename ==
    /\ Step("rename", "sync")
    /\ IF wopt.atomic
       THEN Change([path EXCEPT !.name = path.tmp, !.tmp = None])
       ELSE UNCHANGED <<path, past>>
    /\ UNCHANGED <<wopt, run, ended, ino, crashed>>

SyncPath ==
    /\ Step("sync", "done")
    /\ past' = IF wopt.syncPath THEN {path} ELSE past
    /\ ended' = [ended EXCEPT ![run] = "returned"]
    /\ UNCHANGED <<wopt, run, path, ino, crashed>>

\* A system call fails, or the process is killed.  A temporary file stays.
PosixFail ==
    /\ wpc \notin {"done", "failed"}
    /\ wpc' = "failed"
    /\ ended' = [ended EXCEPT ![run] = "failed"]
    /\ UNCHANGED <<wopt, run, path, past, ino, crashed>>

RunAgain ==
    /\ wpc \in {"done", "failed"}
    /\ run < MaxRun
    /\ run' = run + 1
    /\ wpc' = "open"
    /\ UNCHANGED <<wopt, ended, path, past, ino, crashed>>

\* Another process removes the path, which only works while it is empty
RemovePath ==
    /\ path.exists
    /\ path.tmp = None /\ path.name = None
    /\ Change([path EXCEPT !.exists = FALSE])
    /\ UNCHANGED <<wopt, run, wpc, ended, ino, crashed>>

\* Without both syncs a write promises nothing about a crash
Crash ==
    /\ crashed < MaxCrash
    /\ wopt.syncFile /\ wopt.syncPath
    /\ \E p \in past, len \in [DOMAIN ino -> 0 .. FileSize] :
        /\ \A i \in DOMAIN ino :
            IF ino[i].synced THEN len[i] = ino[i].len ELSE len[i] <= ino[i].len
        /\ path' = p
        /\ past' = {p}
        /\ ino' = [i \in DOMAIN ino |-> [ino[i] EXCEPT !.len = len[i], !.synced = TRUE]]
    /\ crashed' = crashed + 1
    /\ wpc' = IF wpc = "done" THEN wpc ELSE "failed"
    /\ ended' = IF wpc = "done" THEN ended ELSE [ended EXCEPT ![run] = "failed"]
    /\ UNCHANGED <<wopt, run>>

PosixNext ==
    \/ Open \/ PathCreate \/ Write \/ SyncFile \/ Rename \/ SyncPath
    \/ PosixFail \/ RunAgain \/ RemovePath \/ Crash

PosixSpec == PosixInit /\ [][PosixNext]_posixVars

PosixEnd == run = MaxRun /\ wpc \in {"done", "failed"}

(***************************************************************************)
(* Properties.                                                             *)
(***************************************************************************)
Filled(i) == ino[i].len = FileSize

\* The abstract store as an atomic write keeps it.  Nobody is promised anything
\* by a write that is not atomic.
PosixObject ==
    IF ~wopt.atomic \/ path.name \in {None, OldFile} THEN 0
    ELSE IF Filled(path.name) THEN ino[path.name].by ELSE None
PosixPut ==
    [r \in 1 .. MaxRun |->
        CASE ~wopt.atomic -> "open"
          [] wopt.atomic /\ r = run /\ wpc = "sync" -> "stored"
          [] OTHER -> ended[r]]

\* A file of the Posix driver is written as an atomic store promises, with
\* crashes of the host, failures and other runs of the write in between
\* (storageWritePosixOpen(), storageWritePosixClose()).
Posix == INSTANCE AtomicStore WITH Writer <- 1 .. MaxRun, First <- 0, object <- PosixObject, put <- PosixPut
PosixStore == Posix!StoreSpec

\* A write that returned after both syncs is on disk whole, atomic or not,
\* until a later run begins to replace it: no state the path may have after a
\* crash leads elsewhere (storageWritePosixClose()).
ReturnedKept ==
    wpc = "done" /\ wopt.syncFile /\ wopt.syncPath =>
        \A p \in past : p.exists /\ p.name # None
                        /\ ino[p.name] = [by |-> run, len |-> FileSize, synced |-> TRUE]
=============================================================================
