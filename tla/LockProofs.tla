----------------------------- MODULE LockProofs -----------------------------
(***************************************************************************)
(* Proofs about the lock files for any number of processes, whatever locks *)
(* they take, however many are killed or sent a signal: as long as no lock *)
(* file is removed while another process has it open, two commands never   *)
(* work under the same lock (Exclusive), and stop --force reaches every    *)
(* command that works when it returns (StopCovers).                        *)
(***************************************************************************)
EXTENDS Lock, TLAPS

\* Which of its locks n is for p, 0 for none
Pos(c, p, n) ==
    IF c.lockType[p][1] = n THEN 1
    ELSE IF c.lockType[p] = <<"archive", "backup">> THEN 2
    ELSE 0

\* A remote still has to test for the stop file before it locks
Untested(p) == lpc[p] = "test" /\ lockCase.kind[p] = "remote"

\* Where a process is tells which descriptors it has
Has(p, n) ==
    /\ Pos(lockCase, p, n) # 0
    /\ \/ lpc[p] = "open" /\ Pos(lockCase, p, n) < lockIdx[p]
       \/ lpc[p] \in {"flock", "write"} /\ Pos(lockCase, p, n) <= lockIdx[p]
       \/ lpc[p] \in {"test", "run", "orphans"} /\ ~Untested(p)
       \/ lpc[p] \in {"unlink", "close"} /\ Pos(lockCase, p, n) >= lockIdx[p]

Shape(p) ==
    /\ lockIdx[p] <= Len(lockCase.lockType[p])
    /\ lpc[p] \in {"start", "test", "run", "orphans"} => lockIdx[p] = 1
    /\ \A n \in Names : fd[p][n] # None <=> Has(p, n)
    /\ \A n \in Names : lpc[p] \in {"flock", "write"} /\ Pos(lockCase, p, n) = lockIdx[p]
                        => fd[p][n] \in Inodes

ShapeInv == \A p \in Procs : Shape(p)

\* An inode stands for one lock file only
NameInv ==
    /\ \A n, m \in Names : lockFile[n] # None /\ lockFile[n] = lockFile[m] => n = m
    /\ \A p \in Procs : \A n, m \in Names :
         fd[p][n] \in Inodes /\ fd[p][n] = lockFile[m] => n = m
    /\ \A p, q \in Procs : \A n, m \in Names :
         fd[p][n] \in Inodes /\ fd[p][n] = fd[q][m] => n = m

\* p has opened the file of lock n and not locked it yet
Opening(p, n) == lpc[p] = "flock" /\ Pos(lockCase, p, n) = lockIdx[p]

\* A descriptor holds the flock() once it has been locked, and only that one
HoldsInv ==
    \A p \in Procs : \A n \in Names :
        fd[p][n] \in Inodes /\ ~Opening(p, n) => flocked[fd[p][n]] = p

OwnerInv ==
    \A i \in Inodes : \A p \in Procs :
        flocked[i] = p => \E n \in Names : fd[p][n] = i /\ ~Opening(p, n)

StopperInv ==
    /\ \A i \in Inodes :
         flocked[i] = Stopper => stop.fd = i /\ stop.pc \in {"unlink", "close"}
    /\ stop.pc \in {"flock", "read", "unlink", "close"} => stop.fd \in Inodes

HolderInv == HoldsInv /\ OwnerInv /\ StopperInv

\* A remote starts when its main process works
Begun == {"run", "unlink", "close", "orphans", "done", "refused"}

BegunInv ==
    \A p \in Procs : lockCase.main[p] # p /\ lpc[p] # "start" =>
        lpc[lockCase.main[p]] \in Begun

\* What is written in a lock file was written by a process that had locked it
AuthorInv ==
    \A i \in Inodes : \A p \in Procs : content[i].pid = p =>
        /\ lpc[p] # "start" /\ ~Untested(p)
        /\ lpc[p] \in {"open", "flock", "write"} =>
             \E n \in Names : Pos(lockCase, p, n) < lockIdx[p] /\ fd[p][n] = i

\* Only a remote shares a lock, with its main process
ShareInv ==
    \A p \in Procs : \A n \in Names : fd[p][n] = OnExecId => lockCase.main[p] # p

\* Without the race the file of a lock that is held has its name
PlaceInv ==
    NoRace => \A p \in Procs : \A n \in Names :
        lpc[p] \notin {"unlink", "close"} /\ fd[p][n] \in Inodes => lockFile[n] = fd[p][n]

\* The holder has written its process id once lockAcquire() went on
Settling(p, n) == lpc[p] \in {"flock", "write"} /\ Pos(lockCase, p, n) = lockIdx[p]

ContentInv ==
    \A p \in Procs : \A n \in Names :
        fd[p][n] \in Inodes /\ ~Settling(p, n) => content[fd[p][n]].pid = p

\* stop --force is still going to reach p by its lock n
Ahead(p, n) ==
    /\ n \in stop.files
    /\ Pos(lockCase, p, n) # 0
    /\ \/ stop.pc = "scan"
       \/ StopName # n
       \/ stop.pc \in {"flock", "read"} /\ stop.fd = fd[p][n]

StopInv ==
    /\ stopFile => stop.pc # "idle"
    /\ stop.pc = "done" => stop.files = {}
    /\ stop.pc \in {"flock", "read", "unlink", "close"} => stop.files # {}
    /\ NoRace /\ stopFile => \A p \in Procs :
         lockCase.kind[p] \in {"main", "get"} /\ lpc[p] = "run" /\ p \notin term =>
             \E n \in Names : Ahead(p, n)

LockInv ==
    /\ LockTypeOK
    /\ ShapeInv
    /\ NameInv
    /\ HolderInv
    /\ BegunInv
    /\ AuthorInv
    /\ ShareInv
    /\ PlaceInv
    /\ ContentInv
    /\ StopInv

-----------------------------------------------------------------------------
\* An inode number is neither None nor the mark of a shared lock.
LEMMA InodeFacts ==
    /\ Inodes \subseteq Nat \ {0}
    /\ None \notin Inodes /\ OnExecId \notin Inodes /\ None # OnExecId
    /\ Stopper \notin Procs /\ Stopper # None /\ None \notin Procs
  BY LockAssumption DEF Inodes, OnExecId, Stopper

\* The locks of a process are numbered in the order it takes them.
LEMMA Positions ==
    ASSUME NEW c \in LockCases, NEW p \in Procs
    PROVE  /\ Len(c.lockType[p]) \in {1, 2}
           /\ \A n \in Names : Pos(c, p, n) \in 0 .. Len(c.lockType[p])
           /\ \A k \in 1 .. Len(c.lockType[p]) :
                /\ c.lockType[p][k] \in Names
                /\ \A n \in Names : Pos(c, p, n) = k <=> n = c.lockType[p][k]
  <1>1. c.lockType[p] \in {<<"archive">>, <<"backup">>, <<"archive", "backup">>}
    BY LockAssumption
  <1>2. CASE c.lockType[p] = <<"archive">>
    BY <1>2 DEF Pos, Names
  <1>3. CASE c.lockType[p] = <<"backup">>
    BY <1>3 DEF Pos, Names
  <1>4. CASE c.lockType[p] = <<"archive", "backup">>
    BY <1>4 DEF Pos, Names
  <1> QED BY <1>1, <1>2, <1>3, <1>4

\* The lock a process is at, in terms of its position.
LEMMA NameFacts ==
    ASSUME LockTypeOK, ShapeInv, NEW p \in Procs
    PROVE  /\ Name(p) \in Names
           /\ lockIdx[p] \in 1 .. Len(lockCase.lockType[p])
           /\ lockIdx[p] \in {1, 2} /\ Len(lockCase.lockType[p]) \in {1, 2}
           /\ lockIdx[p] < Len(lockCase.lockType[p]) => lockIdx[p] = 1
           /\ \A n \in Names : Pos(lockCase, p, n) = lockIdx[p] <=> n = Name(p)
  <1>1. lockCase \in LockCases /\ lockIdx[p] \in {1, 2}
    BY DEF LockTypeOK
  <1>2. Len(lockCase.lockType[p]) \in {1, 2}
    BY <1>1, Positions
  <1>3. lockIdx[p] <= Len(lockCase.lockType[p])
    BY DEF ShapeInv, Shape
  <1>4. lockIdx[p] \in 1 .. Len(lockCase.lockType[p])
    BY <1>1, <1>2, <1>3
  <1>5. lockIdx[p] < Len(lockCase.lockType[p]) => lockIdx[p] = 1
    <2> DEFINE k == lockIdx[p]  l == Len(lockCase.lockType[p])
    <2>1. k \in {1, 2} /\ l \in {1, 2}
      BY <1>1, <1>2
    <2> HIDE DEF k, l
    <2>2. k < l => k = 1
      BY <2>1
    <2> QED BY <2>2 DEF k, l
  <1> QED BY <1>1, <1>2, <1>4, <1>5, Positions DEF Name

\* Every step preserves the type invariant of the lock files.
LEMMA TypeStep ==
    ASSUME LockTypeOK, ShapeInv, HolderInv, LockNext
    PROVE  LockTypeOK'
  <1>0. lockCase' = lockCase /\ lockCase \in LockCases
    BY DEF LockNext, LockTypeOK
  <1>00. lockCase.maxCrash \in Nat /\ lockCase.maxTerm \in Nat
    BY <1>0, LockAssumption
  <1>a. lockFile \in [Names -> Inodes \cup {None}]
    BY DEF LockTypeOK
  <1>b. content \in [Inodes -> [pid : Procs \cup {None}, size : Nat, clean : BOOLEAN]]
    BY DEF LockTypeOK
  <1>c. flocked \in [Inodes -> Procs \cup {Stopper, None}]
    BY DEF LockTypeOK
  <1>d. fd \in [Procs -> [Names -> Inodes \cup {None, OnExecId}]]
    BY DEF LockTypeOK
  <1>e. lockIdx \in [Procs -> {1, 2}]
    BY DEF LockTypeOK
  <1>f. faults \in [crash : 0 .. lockCase.maxCrash, term : 0 .. lockCase.maxTerm]
    BY DEF LockTypeOK
  <1>g. stop \in [pc : {"idle", "scan", "flock", "read", "unlink", "close", "done"},
                 files : SUBSET Names, fd : Inodes \cup {None}]
    BY DEF LockTypeOK
  <1>h. lpc \in [Procs -> {"start", "open", "flock", "write", "test", "run",
                          "unlink", "close", "orphans", "done", "refused"}]
    BY DEF LockTypeOK
  <1>i. term \subseteq Procs
    BY DEF LockTypeOK
  <1>1. ASSUME NEW p \in Procs, ProcNext(p) \/ Crash(p) \/ Terminate(p)
        PROVE  LockTypeOK'
    <2>1. /\ Name(p) \in Names
          /\ lockIdx[p] < Len(lockCase.lockType[p]) => lockIdx[p] = 1
          /\ lockCase.kind[p] \in {"main", "get", "delete", "remote", "probe"}
          /\ lockCase.pidSize[p] \in Nat
          /\ AfterLock(p) \in {"test", "run", "unlink"}
      BY <1>0, NameFacts, LockAssumption DEF AfterLock
    <2>2. CASE Start(p)
      BY <1>0, <2>1, <2>2, InodeFacts DEF Start, LockTypeOK
    <2>3. CASE Open(p)
      <3>1. lockFile' \in [Names -> Inodes \cup {None}]
        BY <2>3, <2>1, <1>a DEF Open
      <3>2. content' \in [Inodes -> [pid : Procs \cup {None}, size : Nat, clean : BOOLEAN]]
        <4>1. \/ content' = content
              \/ \E i \in Inodes : content' = [content EXCEPT ![i] = EmptyFile]
          BY <2>3 DEF Open
        <4>2. EmptyFile \in [pid : Procs \cup {None}, size : Nat, clean : BOOLEAN]
          BY DEF EmptyFile
        <4> QED BY <4>1, <4>2, <1>b
      <3>3. fd' \in [Procs -> [Names -> Inodes \cup {None, OnExecId}]]
        BY <2>3, <2>1, <1>d DEF Open
      <3>4. lpc' \in [Procs -> {"start", "open", "flock", "write", "test", "run",
                                    "unlink", "close", "orphans", "done", "refused"}]
        BY <2>3, <2>1, <1>h DEF Open
      <3> QED BY <1>0, <2>3, <3>1, <3>2, <3>3, <3>4 DEF Open, LockTypeOK
    <2>4. CASE FlockOk(p)
      BY Zenon, <1>0, <2>1, <2>4, InodeFacts DEF FlockOk, LockTypeOK
    <2>5. CASE FlockShared(p)
      <3>1. fd' \in [Procs -> [Names -> Inodes \cup {None, OnExecId}]]
        BY <2>5, <2>1, <1>d DEF FlockShared
      <3>2. lockIdx' \in [Procs -> {1, 2}]
        <4>1. \/ lockIdx' = lockIdx
              \/ lockIdx' = [lockIdx EXCEPT ![p] = 1]
              \/ /\ lockIdx' = [lockIdx EXCEPT ![p] = lockIdx[p] + 1]
                 /\ lockIdx[p] < Len(lockCase.lockType[p])
          BY <2>5 DEF FlockShared, NextLock
        <4>2. lockIdx[p] < Len(lockCase.lockType[p]) => lockIdx[p] + 1 = 2
          BY <2>1
        <4> QED BY <4>1, <4>2, <1>e
      <3>3. lpc' \in [Procs -> {"start", "open", "flock", "write", "test", "run",
                                    "unlink", "close", "orphans", "done", "refused"}]
        BY <2>5, <2>1, <1>h DEF FlockShared, NextLock
      <3> QED BY <1>0, <2>5, <3>1, <3>2, <3>3 DEF FlockShared, LockTypeOK
    <2>6. CASE FlockFail(p)
      BY <1>0, <2>1, <2>6, InodeFacts DEF FlockFail, Exit, LockTypeOK
    <2>7. CASE Write(p)
      <3>1. content' \in [Inodes -> [pid : Procs \cup {None}, size : Nat, clean : BOOLEAN]]
        <4> DEFINE i == fd[p][Name(p)]
        <4>1. CASE i \in Inodes
          <5>1. content[i].size \in Nat
            BY <1>b, <4>1
          <5>2. Written(p, content[i]) \in [pid : Procs \cup {None}, size : Nat, clean : BOOLEAN]
            BY <2>1, <5>1 DEF Written
          <5>3. content' = [content EXCEPT ![i] = Written(p, content[i])]
            BY <2>7 DEF Write
          <5> QED BY Zenon, <5>2, <5>3, <1>b
        <4>2. CASE i \notin Inodes
          BY Zenon, <2>7, <4>2, <1>b DEF Write
        <4> QED BY <4>1, <4>2
      <3>2. lockIdx' \in [Procs -> {1, 2}]
        <4>1. \/ lockIdx' = lockIdx
              \/ lockIdx' = [lockIdx EXCEPT ![p] = 1]
              \/ /\ lockIdx' = [lockIdx EXCEPT ![p] = lockIdx[p] + 1]
                 /\ lockIdx[p] < Len(lockCase.lockType[p])
          BY <2>7 DEF Write, NextLock
        <4>2. lockIdx[p] < Len(lockCase.lockType[p]) => lockIdx[p] + 1 = 2
          BY <2>1
        <4> QED BY <4>1, <4>2, <1>e
      <3>3. lpc' \in [Procs -> {"start", "open", "flock", "write", "test", "run",
                                    "unlink", "close", "orphans", "done", "refused"}]
        BY <2>7, <2>1, <1>h DEF Write, NextLock
      <3> QED BY <1>0, <2>7, <3>1, <3>2, <3>3 DEF Write, LockTypeOK
    <2>8. CASE StopTest(p)
      BY <1>0, <2>1, <2>8, InodeFacts DEF StopTest, LockTypeOK
    <2>9. CASE Finish(p)
      <3>1. stopFile' \in BOOLEAN
        BY Zenon, <2>9 DEF Finish
      <3>2. lpc' \in [Procs -> {"start", "open", "flock", "write", "test", "run",
                                    "unlink", "close", "orphans", "done", "refused"}]
        BY <2>1, <2>9, <1>h DEF Finish
      <3> QED BY <1>0, <2>9, <3>1, <3>2 DEF Finish, LockTypeOK
    <2>10. CASE OnSignal(p)
      <3>1. flocked' \in [Inodes -> Procs \cup {Stopper, None}]
        BY <2>10, <2>1, <1>c DEF OnSignal, Exit
      <3>2. fd' \in [Procs -> [Names -> Inodes \cup {None, OnExecId}]]
        BY <2>10, <2>1, <1>d DEF OnSignal, Exit
      <3>3. lpc' \in [Procs -> {"start", "open", "flock", "write", "test", "run",
                                    "unlink", "close", "orphans", "done", "refused"}]
        BY <2>10, <2>1, <1>h DEF OnSignal, Exit
      <3>4. term' \subseteq Procs
        BY <2>10, <2>1, <1>i DEF OnSignal
      <3> QED BY <1>0, <2>10, <3>1, <3>2, <3>3, <3>4 DEF OnSignal, LockTypeOK
    <2>11. CASE ReleaseUnlink(p)
      BY <1>0, <2>1, <2>11, InodeFacts DEF ReleaseUnlink, LockTypeOK
    <2>12. CASE ReleaseClose(p)
      <3>1. flocked' \in [Inodes -> Procs \cup {Stopper, None}]
        BY <2>12, <2>1, <1>c DEF ReleaseClose
      <3>2. fd' \in [Procs -> [Names -> Inodes \cup {None, OnExecId}]]
        BY <2>12, <2>1, <1>d DEF ReleaseClose
      <3>3. lockIdx' \in [Procs -> {1, 2}]
        <4>1. \/ lockIdx' = lockIdx
              \/ lockIdx' = [lockIdx EXCEPT ![p] = 1]
              \/ /\ lockIdx' = [lockIdx EXCEPT ![p] = lockIdx[p] + 1]
                 /\ lockIdx[p] < Len(lockCase.lockType[p])
          BY <2>12 DEF ReleaseClose
        <4>2. lockIdx[p] < Len(lockCase.lockType[p]) => lockIdx[p] + 1 = 2
          BY <2>1
        <4> QED BY <4>1, <4>2, <1>e
      <3>4. lpc' \in [Procs -> {"start", "open", "flock", "write", "test", "run",
                                    "unlink", "close", "orphans", "done", "refused"}]
        BY <2>12, <2>1, <1>h DEF ReleaseClose
      <3> QED BY <1>0, <2>12, <3>1, <3>2, <3>3, <3>4 DEF ReleaseClose, LockTypeOK
    <2>13. CASE OrphansEnd(p)
      BY <1>0, <2>1, <2>13, InodeFacts DEF OrphansEnd, Exit, LockTypeOK
    <2>14. CASE Crash(p)
      <3>1. faults' \in [crash : 0 .. lockCase.maxCrash, term : 0 .. lockCase.maxTerm]
        BY <2>14, <2>1, <1>f, <1>00 DEF Crash
      <3>2. flocked' \in [Inodes -> Procs \cup {Stopper, None}]
        BY <2>14, <2>1, <1>c DEF Crash, Exit
      <3>3. fd' \in [Procs -> [Names -> Inodes \cup {None, OnExecId}]]
        BY <2>14, <2>1, <1>d DEF Crash, Exit
      <3>4. lpc' \in [Procs -> {"start", "open", "flock", "write", "test", "run",
                                    "unlink", "close", "orphans", "done", "refused"}]
        BY <2>14, <2>1, <1>h DEF Crash, Exit
      <3> QED BY <1>0, <2>14, <3>1, <3>2, <3>3, <3>4 DEF Crash, LockTypeOK
    <2>15. CASE Terminate(p)
      <3>1. faults' \in [crash : 0 .. lockCase.maxCrash, term : 0 .. lockCase.maxTerm]
        BY <2>15, <2>1, <1>f, <1>00 DEF Terminate
      <3>2. term' \subseteq Procs
        BY <2>15, <2>1, <1>i DEF Terminate
      <3> QED BY <1>0, <2>15, <3>1, <3>2 DEF Terminate, LockTypeOK
    <2>16. CASE NextFile(p)
      BY <1>0, <2>1, <2>16, InodeFacts DEF NextFile, LockTypeOK
    <2> QED BY <1>1, <2>2, <2>3, <2>4, <2>5, <2>6, <2>7, <2>8, <2>9, <2>10, <2>11, <2>12, <2>13, <2>14, <2>15, <2>16 DEF ProcNext
  <1>2. ASSUME StopNext \/ StartCommand
        PROVE  LockTypeOK'
    <2>1. CASE StopCreate
      BY <1>0, <2>1, InodeFacts DEF StopCreate, StopSkip, procVars, LockTypeOK
    <2>2. CASE StopOpen
      <3>1. stop' \in [pc : {"idle", "scan", "flock", "read", "unlink", "close", "done"},
                            files : SUBSET Names, fd : Inodes \cup {None}]
        <4>1. \/ stop' = [stop EXCEPT !.pc = "done"]
              \/ stop' = StopSkip
              \/ stop' = [stop EXCEPT !.pc = "flock", !.fd = lockFile[StopName]]
          BY <2>2 DEF StopOpen
        <4>2. StopName \in Names
          BY DEF StopName, Names
        <4> QED BY Zenon, <4>1, <4>2, <1>g, <1>a DEF StopSkip
      <3> QED BY <1>0, <2>2, <3>1 DEF StopOpen, LockTypeOK, procVars
    <2>3. CASE StopFlock
      <3>1. flocked' \in [Inodes -> Procs \cup {Stopper, None}]
        BY <2>3, <1>c DEF StopFlock
      <3>2. stop' \in [pc : {"idle", "scan", "flock", "read", "unlink", "close", "done"},
                            files : SUBSET Names, fd : Inodes \cup {None}]
        BY <2>3, <1>g DEF StopFlock
      <3> QED BY <1>0, <2>3, <3>1, <3>2 DEF StopFlock, LockTypeOK, procVars
    <2>4. CASE StopRead
      <3>1. term' \subseteq Procs
        <4>1. \/ term' = term
              \/ content[stop.fd].pid # None /\ term' = term \cup {content[stop.fd].pid}
          BY <2>4 DEF StopRead
        <4>2. stop.fd \in Inodes
          BY <2>4 DEF StopRead, HolderInv, StopperInv
        <4> QED BY <4>1, <4>2, <1>i, <1>b
      <3>2. stop' \in [pc : {"idle", "scan", "flock", "read", "unlink", "close", "done"},
                            files : SUBSET Names, fd : Inodes \cup {None}]
        <4>1. stop' = StopSkip \/ stop' = [stop EXCEPT !.pc = "unlink"]
          BY <2>4 DEF StopRead
        <4> QED BY Zenon, <4>1, <1>g DEF StopSkip
      <3> QED BY <1>0, <2>4, <3>1, <3>2 DEF StopRead, LockTypeOK, procVars
    <2>5. CASE StopUnlink
      BY Zenon, <1>0, <2>5, InodeFacts DEF StopUnlink, StopSkip, procVars, LockTypeOK
    <2>6. CASE StopClose
      BY Zenon, <1>0, <2>6, InodeFacts DEF StopClose, StopSkip, procVars, LockTypeOK
    <2>7. CASE StartCommand
      BY Zenon, <1>0, <2>7, InodeFacts DEF StartCommand, StopSkip, procVars, LockTypeOK
    <2> QED BY <1>2, <2>1, <2>2, <2>3, <2>4, <2>5, <2>6, <2>7 DEF StopNext
  <1>3. CASE Quiet
    BY <1>3 DEF Quiet, lockVars, LockTypeOK
  <1> QED BY <1>1, <1>2, <1>3 DEF LockNext

\* A step of one process leaves the others where they are.
LEMMA OthersStay ==
    ASSUME LockTypeOK, NEW p \in Procs, ProcNext(p) \/ Crash(p) \/ Terminate(p),
           NEW q \in Procs \ {p}
    PROVE  fd'[q] = fd[q] /\ lpc'[q] = lpc[q] /\ lockIdx'[q] = lockIdx[q]
  <1>1. /\ fd \in [Procs -> [Names -> Inodes \cup {None, OnExecId}]]
        /\ lpc \in [Procs -> {"start", "open", "flock", "write", "test", "run",
                             "unlink", "close", "orphans", "done", "refused"}]
        /\ lockIdx \in [Procs -> {1, 2}]
    BY DEF LockTypeOK
  <1>2. CASE Start(p)
    BY <1>1, <1>2 DEF Start
  <1>3. CASE Open(p)
    BY <1>1, <1>3 DEF Open
  <1>4. CASE FlockOk(p)
    BY <1>1, <1>4 DEF FlockOk
  <1>5. CASE FlockShared(p)
    BY <1>1, <1>5 DEF FlockShared, NextLock
  <1>6. CASE FlockFail(p)
    BY <1>1, <1>6 DEF FlockFail, Exit
  <1>7. CASE Write(p)
    BY <1>1, <1>7 DEF Write, NextLock
  <1>8. CASE StopTest(p)
    BY <1>1, <1>8 DEF StopTest
  <1>9. CASE Finish(p)
    BY <1>1, <1>9 DEF Finish
  <1>10. CASE OnSignal(p)
    BY <1>1, <1>10 DEF OnSignal, Exit
  <1>11. CASE ReleaseUnlink(p)
    BY <1>1, <1>11 DEF ReleaseUnlink
  <1>12. CASE ReleaseClose(p)
    BY <1>1, <1>12 DEF ReleaseClose
  <1>13. CASE OrphansEnd(p)
    BY <1>1, <1>13 DEF OrphansEnd, Exit
  <1>14. CASE Crash(p)
    BY <1>1, <1>14 DEF Crash, Exit
  <1>15. CASE Terminate(p)
    BY <1>1, <1>15 DEF Terminate
  <1>16. CASE NextFile(p)
    BY <1>1, <1>16 DEF NextFile
  <1> QED BY <1>2, <1>3, <1>4, <1>5, <1>6, <1>7, <1>8, <1>9, <1>10, <1>11, <1>12, <1>13, <1>14, <1>15, <1>16 DEF ProcNext

\* Where a process is keeps telling which descriptors it has.
LEMMA ShapeStep ==
    ASSUME LockInv, LockNext
    PROVE  ShapeInv'
  <1>0. lockCase' = lockCase /\ lockCase \in LockCases
    BY DEF LockNext, LockInv, LockTypeOK
  <1>1. ASSUME NEW p \in Procs, ProcNext(p) \/ Crash(p) \/ Terminate(p)
        PROVE  ShapeInv'
    <2>1. \A q \in Procs \ {p} : Shape(q)'
      BY <1>0, <1>1, OthersStay DEF LockInv, ShapeInv, Shape, Has, Untested
    <2>2. /\ fd \in [Procs -> [Names -> Inodes \cup {None, OnExecId}]]
          /\ lpc \in [Procs -> {"start", "open", "flock", "write", "test", "run",
                               "unlink", "close", "orphans", "done", "refused"}]
          /\ lockIdx \in [Procs -> {1, 2}]
      BY DEF LockInv, LockTypeOK
    <2>3. /\ Name(p) \in Names
          /\ lockIdx[p] \in {1, 2} /\ Len(lockCase.lockType[p]) \in {1, 2}
          /\ lockIdx[p] < Len(lockCase.lockType[p]) => lockIdx[p] = 1
          /\ \A n \in Names : Pos(lockCase, p, n) = lockIdx[p] <=> n = Name(p)
      BY NameFacts DEF LockInv
    <2>4. \A n \in Names : Pos(lockCase, p, n) \in 0 .. Len(lockCase.lockType[p])
      BY <1>0, Positions
    <2>5. Shape(p)
      BY DEF LockInv, ShapeInv
    <2>6. lockCase.kind[p] \in {"main", "get", "delete", "remote", "probe"}
      BY <1>0, LockAssumption
    <2>7. ASSUME Start(p) PROVE Shape(p)'
      BY <1>0, <2>2, <2>3, <2>4, <2>5, <2>6, <2>7, InodeFacts DEF Start, Shape, Has, Untested
    <2>8. ASSUME Open(p) PROVE Shape(p)'
      BY <1>0, <2>2, <2>3, <2>4, <2>5, <2>6, <2>8, InodeFacts DEF Open, Shape, Has, Untested
    <2>9. ASSUME FlockOk(p) PROVE Shape(p)'
      BY <1>0, <2>2, <2>3, <2>4, <2>5, <2>6, <2>9, InodeFacts DEF FlockOk, Shape, Has, Untested
    <2>10. ASSUME FlockShared(p) PROVE Shape(p)'
      BY <1>0, <2>2, <2>3, <2>4, <2>5, <2>6, <2>10, InodeFacts DEF FlockShared, NextLock, AfterLock, Shape, Has, Untested
    <2>11. ASSUME FlockFail(p) PROVE Shape(p)'
      BY <1>0, <2>2, <2>3, <2>4, <2>5, <2>6, <2>11, InodeFacts DEF FlockFail, Exit, Shape, Has, Untested
    <2>12. ASSUME Write(p) PROVE Shape(p)'
      BY <1>0, <2>2, <2>3, <2>4, <2>5, <2>6, <2>12, InodeFacts DEF Write, NextLock, AfterLock, Shape, Has, Untested
    <2>13. ASSUME StopTest(p) PROVE Shape(p)'
      BY <1>0, <2>2, <2>3, <2>4, <2>5, <2>6, <2>13, InodeFacts DEF StopTest, Shape, Has, Untested
    <2>14. ASSUME Finish(p) PROVE Shape(p)'
      BY <1>0, <2>2, <2>3, <2>4, <2>5, <2>6, <2>14, InodeFacts DEF Finish, Shape, Has, Untested
    <2>15. ASSUME OnSignal(p) PROVE Shape(p)'
      BY <1>0, <2>2, <2>3, <2>4, <2>5, <2>6, <2>15, InodeFacts DEF OnSignal, Exit, Shape, Has, Untested
    <2>16. ASSUME ReleaseUnlink(p) PROVE Shape(p)'
      BY <1>0, <2>2, <2>3, <2>4, <2>5, <2>6, <2>16, InodeFacts DEF ReleaseUnlink, Shape, Has, Untested
    <2>17. ASSUME ReleaseClose(p) PROVE Shape(p)'
      BY <1>0, <2>2, <2>3, <2>4, <2>5, <2>6, <2>17, InodeFacts DEF ReleaseClose, Shape, Has, Untested
    <2>18. ASSUME OrphansEnd(p) PROVE Shape(p)'
      BY <1>0, <2>2, <2>3, <2>4, <2>5, <2>6, <2>18, InodeFacts DEF OrphansEnd, Exit, Shape, Has, Untested
    <2>19. ASSUME Crash(p) PROVE Shape(p)'
      BY <1>0, <2>2, <2>3, <2>4, <2>5, <2>6, <2>19, InodeFacts DEF Crash, Exit, Shape, Has, Untested
    <2>20. ASSUME Terminate(p) PROVE Shape(p)'
      BY <1>0, <2>2, <2>3, <2>4, <2>5, <2>6, <2>20, InodeFacts DEF Terminate, Shape, Has, Untested
    <2>21. ASSUME NextFile(p) PROVE Shape(p)'
      BY <1>0, <2>2, <2>3, <2>4, <2>5, <2>6, <2>21, InodeFacts DEF NextFile, Shape, Has, Untested
    <2>22. Shape(p)'
      BY <1>1, <2>7, <2>8, <2>9, <2>10, <2>11, <2>12, <2>13, <2>14, <2>15, <2>16, <2>17, <2>18, <2>19, <2>20, <2>21 DEF ProcNext
    <2> QED BY <2>1, <2>22 DEF ShapeInv
  <1>2. ASSUME UNCHANGED procVars
        PROVE  ShapeInv'
    BY <1>0, <1>2 DEF procVars, LockInv, ShapeInv, Shape, Has, Untested
  <1> QED BY <1>1, <1>2 DEF LockNext, StopNext, StopCreate, StopOpen, StopFlock, StopRead,
             StopUnlink, StopClose, StartCommand, Quiet, lockVars, procVars

\* Only open() makes a descriptor refer to an inode, or a name to one.
LEMMA Shrinks ==
    ASSUME LockTypeOK, LockNext, ~\E p \in Procs : Open(p)
    PROVE  /\ \A n \in Names : lockFile'[n] \in {lockFile[n], None}
           /\ \A q \in Procs, n \in Names : fd'[q][n] \in {fd[q][n], None, OnExecId}
  <1>1. /\ lockFile \in [Names -> Inodes \cup {None}]
        /\ fd \in [Procs -> [Names -> Inodes \cup {None, OnExecId}]]
    BY DEF LockTypeOK
  <1>2. ASSUME NEW p \in Procs, ProcNext(p) \/ Crash(p) \/ Terminate(p)
        PROVE  /\ \A n \in Names : lockFile'[n] \in {lockFile[n], None}
               /\ \A q \in Procs, n \in Names : fd'[q][n] \in {fd[q][n], None, OnExecId}
    <2>1. CASE Start(p)
      BY <1>1, <2>1 DEF Start
    <2>2. CASE FlockOk(p)
      BY <1>1, <2>2 DEF FlockOk
    <2>3. CASE FlockShared(p)
      BY <1>1, <2>3 DEF FlockShared
    <2>4. CASE FlockFail(p)
      BY <1>1, <2>4 DEF FlockFail, Exit
    <2>5. CASE Write(p)
      BY <1>1, <2>5 DEF Write
    <2>6. CASE StopTest(p)
      BY <1>1, <2>6 DEF StopTest
    <2>7. CASE Finish(p)
      BY <1>1, <2>7 DEF Finish
    <2>8. CASE OnSignal(p)
      BY <1>1, <2>8 DEF OnSignal, Exit
    <2>9. CASE ReleaseUnlink(p)
      BY <1>1, <2>9 DEF ReleaseUnlink
    <2>10. CASE ReleaseClose(p)
      BY <1>1, <2>10 DEF ReleaseClose
    <2>11. CASE OrphansEnd(p)
      BY <1>1, <2>11 DEF OrphansEnd, Exit
    <2>12. CASE Crash(p)
      BY <1>1, <2>12 DEF Crash, Exit
    <2>13. CASE Terminate(p)
      BY <1>1, <2>13 DEF Terminate
    <2>14. CASE NextFile(p)
      BY <1>1, <2>14 DEF NextFile
    <2> QED BY <1>2, <2>1, <2>2, <2>3, <2>4, <2>5, <2>6, <2>7, <2>8, <2>9, <2>10, <2>11, <2>12, <2>13, <2>14 DEF ProcNext
  <1>3. ASSUME StopNext \/ StartCommand \/ Quiet
        PROVE  /\ \A n \in Names : lockFile'[n] \in {lockFile[n], None}
               /\ fd' = fd
    BY <1>1, <1>3 DEF StopNext, StopCreate, StopOpen, StopFlock, StopRead, StopUnlink,
                      StopClose, StartCommand, Quiet, lockVars, procVars
  <1> QED BY <1>2, <1>3 DEF LockNext

\* An inode keeps standing for one lock file only.
LEMMA NameStep ==
    ASSUME LockInv, LockNext, LockTypeOK'
    PROVE  NameInv'
  <1>0. /\ lockFile \in [Names -> Inodes \cup {None}]
        /\ fd \in [Procs -> [Names -> Inodes \cup {None, OnExecId}]]
        /\ NameInv
    BY DEF LockInv, LockTypeOK
  <1>1. CASE ~\E p \in Procs : Open(p)
    BY <1>0, <1>1, Shrinks, InodeFacts DEF LockInv, NameInv
  <1>2. ASSUME NEW p \in Procs, Open(p)
        PROVE  NameInv'
    <2>1. PICK i \in Inodes :
            /\ \/ lockFile' = lockFile /\ i = lockFile[Name(p)]
               \/ lockFile' = [lockFile EXCEPT ![Name(p)] = i] /\ Unused(i)
            /\ fd' = [fd EXCEPT ![p][Name(p)] = i]
      BY Zenon, <1>2 DEF Open
    <2>2. Name(p) \in Names
      BY NameFacts DEF LockInv
    <2>3. \A q \in Procs, n \in Names :
            fd'[q][n] = IF q = p /\ n = Name(p) THEN i ELSE fd[q][n]
      BY <1>0, <2>1, <2>2
    <2>4. CASE lockFile' = lockFile /\ i = lockFile[Name(p)]
      BY <1>0, <2>2, <2>3, <2>4, InodeFacts DEF NameInv
    <2>5. CASE lockFile' = [lockFile EXCEPT ![Name(p)] = i] /\ Unused(i)
      BY <1>0, <2>2, <2>3, <2>5, InodeFacts DEF NameInv, Unused
    <2> QED BY <2>1, <2>4, <2>5
  <1> QED BY <1>1, <1>2

\* A descriptor that was locked keeps its flock() until it is closed.
LEMMA HolderStep ==
    ASSUME LockInv, LockNext, LockTypeOK'
    PROVE  HolderInv'
  <1>0. lockCase' = lockCase /\ lockCase \in LockCases
    BY DEF LockNext, LockInv, LockTypeOK
  <1>00. /\ lockFile \in [Names -> Inodes \cup {None}]
         /\ flocked \in [Inodes -> Procs \cup {Stopper, None}]
         /\ fd \in [Procs -> [Names -> Inodes \cup {None, OnExecId}]]
         /\ lpc \in [Procs -> {"start", "open", "flock", "write", "test", "run",
                              "unlink", "close", "orphans", "done", "refused"}]
         /\ lockIdx \in [Procs -> {1, 2}]
         /\ stop \in [pc : {"idle", "scan", "flock", "read", "unlink", "close", "done"},
                      files : SUBSET Names, fd : Inodes \cup {None}]
         /\ StopName \in Names
         /\ HolderInv /\ NameInv
    BY DEF LockInv, LockTypeOK, StopName, Names
  <1>1. ASSUME NEW p \in Procs, ProcNext(p) \/ Crash(p) \/ Terminate(p)
        PROVE  HolderInv'
    <2>1. \A q \in Procs \ {p} : /\ fd'[q] = fd[q] /\ lpc'[q] = lpc[q]
                                  /\ lockIdx'[q] = lockIdx[q]
      BY <1>1, OthersStay DEF LockInv
    <2>2. /\ Name(p) \in Names
          /\ \A n \in Names : Pos(lockCase, p, n) = lockIdx[p] <=> n = Name(p)
      BY NameFacts DEF LockInv
    <2>3. Shape(p)
      BY DEF LockInv, ShapeInv
    <2>0. AfterLock(p) \in {"test", "run", "unlink"}
      BY <1>0, LockAssumption DEF AfterLock
    <2>4. \A q \in Procs \ {p}, n \in Names : Opening(q, n)' = Opening(q, n)
      BY <1>0, <2>1 DEF Opening
    <2>5. CASE Start(p)
      BY <1>0, <1>00, <2>1, <2>2, <2>3, <2>4, <2>5, InodeFacts DEF Start, Shape, Has, HolderInv, HoldsInv, OwnerInv, StopperInv, Opening, NameInv
    <2>6. CASE Open(p)
      <3>1. PICK i \in Inodes :
              /\ i = lockFile[Name(p)] \/ Unused(i)
              /\ fd' = [fd EXCEPT ![p][Name(p)] = i]
        BY Zenon, <2>6 DEF Open
      <3>2. /\ flocked' = flocked /\ stop' = stop
            /\ lpc[p] = "open" /\ lpc'[p] = "flock" /\ lockIdx'[p] = lockIdx[p]
        BY <1>00, <2>6 DEF Open
      <3>3. \A n \in Names : fd'[p][n] = IF n = Name(p) THEN i ELSE fd[p][n]
        BY <1>00, <2>2, <3>1
      <3>4. \A n \in Names : ~Opening(p, n) /\ (Opening(p, n)' <=> n = Name(p))
        BY <1>0, <2>2, <3>2 DEF Opening
      <3>5. fd[p][Name(p)] = None
        BY <2>2, <2>3, <3>2, <1>00 DEF Shape, Has
      <3>6. HoldsInv'
        BY <1>00, <2>1, <2>4, <3>2, <3>3, <3>4, InodeFacts DEF HolderInv, HoldsInv
      <3>7. OwnerInv'
        BY <1>00, <2>1, <2>2, <2>4, <3>2, <3>3, <3>4, <3>5, InodeFacts DEF HolderInv, OwnerInv
      <3> QED BY <1>00, <3>2, <3>6, <3>7 DEF HolderInv, StopperInv
    <2>7. CASE FlockOk(p)
      BY <1>0, <1>00, <2>1, <2>2, <2>3, <2>4, <2>7, InodeFacts DEF FlockOk, Shape, Has, HolderInv, HoldsInv, OwnerInv, StopperInv, Opening, NameInv
    <2>8. CASE FlockShared(p)
      <3>1. /\ flocked' = flocked /\ stop' = stop
            /\ lpc[p] = "flock" /\ lpc'[p] # "flock"
            /\ fd' = [fd EXCEPT ![p][Name(p)] = OnExecId]
        BY <1>00, <2>0, <2>8 DEF FlockShared, NextLock
      <3>2. \A n \in Names : fd'[p][n] = IF n = Name(p) THEN OnExecId ELSE fd[p][n]
        BY <1>00, <2>2, <3>1
      <3>3. \A n \in Names : ~Opening(p, n)' /\ (Opening(p, n) <=> n = Name(p))
        BY <1>0, <2>2, <3>1 DEF Opening
      <3>4. HoldsInv'
        BY <1>00, <2>1, <2>4, <3>1, <3>2, <3>3, InodeFacts DEF HolderInv, HoldsInv
      <3>5. OwnerInv'
        BY <1>00, <2>1, <2>4, <3>1, <3>2, <3>3, InodeFacts DEF HolderInv, OwnerInv
      <3> QED BY <1>00, <3>1, <3>4, <3>5 DEF HolderInv, StopperInv
    <2>9. CASE FlockFail(p)
      <3>1. /\ flocked' = [i \in Inodes |-> IF flocked[i] = p THEN None ELSE flocked[i]] /\ stop' = stop
            /\ fd' = [fd EXCEPT ![p] = [n \in Names |-> None]] /\ lpc'[p] # "flock"
        BY <1>00, <2>9 DEF FlockFail, Exit
      <3>2. \A n \in Names : fd'[p][n] = None
        BY <1>00, <3>1
      <3>3. \A n \in Names : ~Opening(p, n)'
        BY <3>1 DEF Opening
      <3>4. HoldsInv'
        BY <1>00, <2>1, <2>4, <3>1, <3>2, <3>3, InodeFacts DEF HolderInv, HoldsInv
      <3>5. OwnerInv'
        BY <1>00, <2>1, <2>4, <3>1, <3>2, <3>3, InodeFacts DEF HolderInv, OwnerInv
      <3>6. StopperInv'
        BY <1>00, <3>1, InodeFacts DEF HolderInv, StopperInv
      <3> QED BY Zenon, <3>4, <3>5, <3>6 DEF HolderInv
    <2>10. CASE Write(p)
      <3>1. /\ flocked' = flocked /\ fd' = fd /\ stop' = stop
            /\ lpc[p] = "write" /\ lpc'[p] # "flock"
        BY <1>00, <2>0, <2>10 DEF Write, NextLock
      <3>2. \A n \in Names : ~Opening(p, n)' /\ ~Opening(p, n)
        BY <1>0, <3>1 DEF Opening
      <3>3. HoldsInv'
        BY <1>00, <2>4, <3>1, <3>2 DEF HolderInv, HoldsInv
      <3>4. OwnerInv'
        BY <1>00, <2>4, <3>1, <3>2 DEF HolderInv, OwnerInv
      <3> QED BY <1>00, <3>1, <3>3, <3>4 DEF HolderInv, StopperInv
    <2>11. CASE StopTest(p)
      <3>1. HoldsInv'
        BY <1>0, <1>00, <2>1, <2>2, <2>3, <2>4, <2>11, InodeFacts DEF StopTest, Shape, Has, HolderInv, HoldsInv, Opening, NameInv
      <3>2. OwnerInv'
        BY <1>0, <1>00, <2>1, <2>2, <2>3, <2>4, <2>11, InodeFacts DEF StopTest, Shape, Has, HolderInv, OwnerInv, Opening, NameInv
      <3> QED BY <1>00, <2>11, <3>1, <3>2, InodeFacts DEF StopTest, HolderInv, StopperInv
    <2>12. CASE Finish(p)
      BY <1>0, <1>00, <2>1, <2>2, <2>3, <2>4, <2>12, InodeFacts DEF Finish, Shape, Has, HolderInv, HoldsInv, OwnerInv, StopperInv, Opening, NameInv
    <2>13. CASE OnSignal(p)
      <3>1. CASE /\ \E end \in {"done"} : Exit(p, end)
                 /\ stop' = stop
        BY <1>0, <1>00, <2>1, <2>4, <3>1, InodeFacts DEF Exit, HolderInv, HoldsInv, OwnerInv, StopperInv, Opening
      <3>2. CASE /\ flocked' = flocked /\ fd' = fd /\ stop' = stop
                 /\ lockIdx' = lockIdx
                 /\ lpc[p] # "flock" /\ lpc'[p] # "flock"
        BY <1>0, <1>00, <2>1, <2>4, <3>2, InodeFacts DEF HolderInv, HoldsInv, OwnerInv, StopperInv, Opening
      <3> QED BY <1>00, <2>13, <3>1, <3>2 DEF OnSignal
    <2>14. CASE ReleaseUnlink(p)
      BY <1>0, <1>00, <2>1, <2>2, <2>3, <2>4, <2>14, InodeFacts DEF ReleaseUnlink, Shape, Has, HolderInv, HoldsInv, OwnerInv, StopperInv, Opening, NameInv
    <2>15. CASE ReleaseClose(p)
      <3>1. HoldsInv'
        BY <1>0, <1>00, <2>1, <2>2, <2>3, <2>4, <2>15, InodeFacts DEF ReleaseClose, Shape, Has, HolderInv, HoldsInv, Opening, NameInv
      <3>2. OwnerInv'
        BY <1>0, <1>00, <2>1, <2>2, <2>3, <2>4, <2>15, InodeFacts DEF ReleaseClose, Shape, Has, HolderInv, OwnerInv, Opening, NameInv
      <3> QED BY <1>00, <2>15, <3>1, <3>2, InodeFacts DEF ReleaseClose, HolderInv, StopperInv
    <2>16. CASE OrphansEnd(p)
      BY <1>0, <1>00, <2>1, <2>2, <2>3, <2>4, <2>16, InodeFacts DEF OrphansEnd, Exit, Shape, Has, HolderInv, HoldsInv, OwnerInv, StopperInv, Opening, NameInv
    <2>17. CASE Crash(p)
      <3>1. CASE /\ \E end \in {"done"} : Exit(p, end)
                 /\ stop' = stop
        BY <1>0, <1>00, <2>1, <2>4, <3>1, InodeFacts DEF Exit, HolderInv, HoldsInv, OwnerInv, StopperInv, Opening
      <3>2. CASE /\ flocked' = flocked /\ fd' = fd /\ stop' = stop
                 /\ lockIdx' = lockIdx
                 /\ lpc[p] # "flock" /\ lpc'[p] # "flock"
        BY <1>0, <1>00, <2>1, <2>4, <3>2, InodeFacts DEF HolderInv, HoldsInv, OwnerInv, StopperInv, Opening
      <3> QED BY <1>00, <2>17, <3>1, <3>2 DEF Crash
    <2>18. CASE Terminate(p)
      BY <1>0, <1>00, <2>1, <2>2, <2>3, <2>4, <2>18, InodeFacts DEF Terminate, Shape, Has, HolderInv, HoldsInv, OwnerInv, StopperInv, Opening, NameInv
    <2>19. CASE NextFile(p)
      <3>1. HoldsInv'
        BY <1>0, <1>00, <2>1, <2>2, <2>3, <2>4, <2>19, InodeFacts DEF NextFile, Shape, Has, HolderInv, HoldsInv, Opening, NameInv
      <3>2. OwnerInv'
        BY <1>0, <1>00, <2>1, <2>2, <2>3, <2>4, <2>19, InodeFacts DEF NextFile, Shape, Has, HolderInv, OwnerInv, Opening, NameInv
      <3> QED BY <1>00, <2>19, <3>1, <3>2, InodeFacts DEF NextFile, HolderInv, StopperInv
    <2> QED BY <1>1, <2>5, <2>6, <2>7, <2>8, <2>9, <2>10, <2>11, <2>12, <2>13, <2>14, <2>15, <2>16, <2>17, <2>18, <2>19 DEF ProcNext
  <1>2. ASSUME StopNext \/ StartCommand \/ Quiet
        PROVE  HolderInv'
    <2>1. CASE StopCreate
      BY <1>0, <1>00, <2>1, InodeFacts DEF StopCreate, StopSkip, procVars, HolderInv, HoldsInv, OwnerInv, StopperInv, Opening
    <2>2. CASE StopOpen
      <3>1. HoldsInv' /\ OwnerInv'
        BY <1>0, <1>00, <2>2, InodeFacts DEF StopOpen, procVars, HolderInv, HoldsInv, OwnerInv, Opening
      <3>2. StopperInv'
        <4>1. /\ flocked' = flocked /\ stop.pc = "scan"
              /\ \/ stop'.pc \in {"done", "scan"}
                 \/ stop'.pc = "flock" /\ stop'.fd \in Inodes
          <5>1. \/ stop' = [stop EXCEPT !.pc = "done"]
                \/ stop' = StopSkip
                \/ /\ stop' = [stop EXCEPT !.pc = "flock", !.fd = lockFile[StopName]]
                   /\ lockFile[StopName] # None
            BY <2>2 DEF StopOpen
          <5>2. flocked' = flocked /\ stop.pc = "scan"
            BY <2>2 DEF StopOpen
          <5> QED BY Zenon, <1>00, <5>1, <5>2 DEF StopSkip
        <4> QED BY <1>00, <4>1 DEF HolderInv, StopperInv
      <3> QED BY <3>1, <3>2 DEF HolderInv
    <2>3. CASE StopFlock
      <3>0. /\ fd' = fd /\ lpc' = lpc /\ lockIdx' = lockIdx
            /\ flocked' = flocked \/ (/\ flocked[stop.fd] = None
                                      /\ flocked' = [flocked EXCEPT ![stop.fd] = Stopper])
        BY <2>3 DEF StopFlock, procVars
      <3>1. HoldsInv' /\ OwnerInv'
        <4>1. \A i \in Inodes : flocked'[i] = flocked[i] \/ (flocked[i] = None /\ flocked'[i] = Stopper)
          BY <1>00, <3>0
        <4>2. \A p \in Procs, n \in Names : Opening(p, n)' = Opening(p, n)
          BY <1>0, <3>0 DEF Opening
        <4>3. HoldsInv'
          <5> SUFFICES ASSUME NEW p \in Procs, NEW n \in Names,
                              fd[p][n] \in Inodes, ~Opening(p, n)
                       PROVE  flocked'[fd[p][n]] = p
            BY <3>0, <4>2 DEF HoldsInv
          <5>1. flocked[fd[p][n]] = p
            BY <1>00 DEF HolderInv, HoldsInv
          <5> QED BY Zenon, <4>1, <5>1, InodeFacts
        <4>4. OwnerInv'
          BY <1>00, <3>0, <4>1, <4>2, InodeFacts DEF HolderInv, OwnerInv
        <4> QED BY <4>3, <4>4
      <3>2. StopperInv'
        BY <1>00, <2>3, InodeFacts DEF StopFlock, StopSkip, HolderInv, StopperInv
      <3> QED BY <3>1, <3>2 DEF HolderInv
    <2>4. CASE StopRead
      <3>1. HoldsInv' /\ OwnerInv'
        BY <1>0, <1>00, <2>4, InodeFacts DEF StopRead, procVars, HolderInv, HoldsInv, OwnerInv, Opening
      <3>2. StopperInv'
        <4>1. /\ flocked' = flocked /\ stop.pc = "read"
              /\ \/ stop'.pc = "scan"
                 \/ stop'.pc = "unlink" /\ stop'.fd = stop.fd
          BY Zenon, <1>00, <2>4 DEF StopRead, StopSkip
        <4> QED BY <1>00, <4>1 DEF HolderInv, StopperInv
      <3> QED BY <3>1, <3>2 DEF HolderInv
    <2>5. CASE StopUnlink
      BY <1>0, <1>00, <2>5, InodeFacts DEF StopUnlink, StopSkip, procVars, HolderInv, HoldsInv, OwnerInv, StopperInv, Opening
    <2>6. CASE StopClose
      BY <1>0, <1>00, <2>6, InodeFacts DEF StopClose, StopSkip, procVars, HolderInv, HoldsInv, OwnerInv, StopperInv, Opening
    <2>7. CASE StartCommand
      BY <1>0, <1>00, <2>7, InodeFacts DEF StartCommand, StopSkip, procVars, HolderInv, HoldsInv, OwnerInv, StopperInv, Opening
    <2>8. CASE Quiet
      BY <1>0, <1>00, <2>8, InodeFacts DEF Quiet, StopSkip, procVars, lockVars, HolderInv, HoldsInv, OwnerInv, StopperInv, Opening
    <2> QED BY <1>2, <2>1, <2>2, <2>3, <2>4, <2>5, <2>6, <2>7, <2>8 DEF StopNext
  <1> QED BY <1>1, <1>2 DEF LockNext

\* A main process with a remote that has begun its work never goes back to locking.
LEMMA BegunStep ==
    ASSUME LockInv, LockNext
    PROVE  BegunInv'
  <1>0. lockCase' = lockCase /\ lockCase \in LockCases
    BY DEF LockNext, LockInv, LockTypeOK
  <1>1. /\ lpc \in [Procs -> {"start", "open", "flock", "write", "test", "run",
                             "unlink", "close", "orphans", "done", "refused"}]
        /\ lockCase.main \in [Procs -> Procs]
        /\ BegunInv
    BY <1>0, LockAssumption DEF LockInv, LockTypeOK
  <1>2. ASSUME NEW p \in Procs, ProcNext(p) \/ Crash(p) \/ Terminate(p)
        PROVE  BegunInv'
    <2>1. \A q \in Procs \ {p} : lpc'[q] = lpc[q]
      BY <1>2, OthersStay DEF LockInv
    <2>2. /\ lpc[p] \in Begun /\ lockCase.kind[p] # "get" => lpc'[p] \in Begun
          /\ lpc[p] = "start" /\ lpc'[p] # "start" =>
               (lockCase.main[p] # p => lpc[lockCase.main[p]] = "run")
      <3>1. CASE Start(p)
        BY <1>1, <3>1 DEF Start, Begun
      <3>2. CASE Open(p)
        BY <1>1, <3>2 DEF Open, Begun
      <3>3. CASE FlockOk(p)
        BY <1>1, <3>3 DEF FlockOk, Begun
      <3>4. CASE FlockShared(p)
        BY <1>1, <3>4 DEF FlockShared, NextLock, Begun
      <3>5. CASE FlockFail(p)
        BY <1>1, <3>5 DEF FlockFail, Exit, Begun
      <3>6. CASE Write(p)
        BY <1>1, <3>6 DEF Write, NextLock, Begun
      <3>7. CASE StopTest(p)
        BY <1>1, <3>7 DEF StopTest, Begun
      <3>8. CASE Finish(p)
        BY <1>1, <3>8 DEF Finish, Begun
      <3>9. CASE OnSignal(p)
        BY <1>1, <3>9 DEF OnSignal, Exit, Begun
      <3>10. CASE ReleaseUnlink(p)
        BY <1>1, <3>10 DEF ReleaseUnlink, Begun
      <3>11. CASE ReleaseClose(p)
        BY <1>1, <3>11 DEF ReleaseClose, Begun
      <3>12. CASE OrphansEnd(p)
        BY <1>1, <3>12 DEF OrphansEnd, Exit, Begun
      <3>13. CASE Crash(p)
        BY <1>1, <3>13 DEF Crash, Exit, Begun
      <3>14. CASE Terminate(p)
        BY <1>1, <3>14 DEF Terminate, Begun
      <3>15. CASE NextFile(p)
        BY <1>1, <3>15 DEF NextFile, Begun
      <3> QED BY Zenon, <1>2, <3>1, <3>2, <3>3, <3>4, <3>5, <3>6, <3>7, <3>8, <3>9, <3>10, <3>11, <3>12, <3>13, <3>14, <3>15 DEF ProcNext
    <2>3. \A q \in Procs : lockCase.main[q] # q => lockCase.kind[lockCase.main[q]] # "get"
      BY <1>0, LockAssumption
    <2> QED BY <1>0, <1>1, <2>1, <2>2, <2>3 DEF BegunInv, Begun
  <1>3. ASSUME lpc' = lpc PROVE BegunInv'
    BY <1>0, <1>1, <1>3 DEF BegunInv
  <1> QED BY <1>2, <1>3 DEF LockNext, StopNext, StopCreate, StopOpen, StopFlock, StopRead,
             StopUnlink, StopClose, StartCommand, Quiet, lockVars, procVars

\* A lock file only ever names a process that had it locked.
LEMMA AuthorStep ==
    ASSUME LockInv, LockNext
    PROVE  AuthorInv'
  <1>0. lockCase' = lockCase /\ lockCase \in LockCases
    BY DEF LockNext, LockInv, LockTypeOK
  <1>1. /\ lockFile \in [Names -> Inodes \cup {None}]
        /\ content \in [Inodes -> [pid : Procs \cup {None}, size : Nat, clean : BOOLEAN]]
        /\ fd \in [Procs -> [Names -> Inodes \cup {None, OnExecId}]]
        /\ lpc \in [Procs -> {"start", "open", "flock", "write", "test", "run",
                             "unlink", "close", "orphans", "done", "refused"}]
        /\ lockIdx \in [Procs -> {1, 2}]
        /\ AuthorInv
    BY DEF LockInv, LockTypeOK
  <1>2. ASSUME NEW p \in Procs, ProcNext(p) \/ Crash(p) \/ Terminate(p)
        PROVE  AuthorInv'
    <2>1. \A q \in Procs \ {p} : /\ fd'[q] = fd[q] /\ lpc'[q] = lpc[q]
                                  /\ lockIdx'[q] = lockIdx[q]
      BY <1>2, OthersStay DEF LockInv
    <2>2. /\ Name(p) \in Names
          /\ lockIdx[p] \in {1, 2}
          /\ \A n \in Names : Pos(lockCase, p, n) = lockIdx[p] <=> n = Name(p)
      BY NameFacts DEF LockInv
    <2>3. Shape(p)
      BY DEF LockInv, ShapeInv
    <2>4. \A n \in Names : Pos(lockCase, p, n) \in 0 .. 2
      BY <1>0, Positions
    <2>5. AfterLock(p) \in {"test", "run", "unlink"}
      BY <1>0, LockAssumption DEF AfterLock
    <2>6. \A q \in Procs \ {p} : Untested(q)' = Untested(q)
      BY <1>0, <2>1 DEF Untested
    \* The files that name another process
    <2>a. ASSUME NEW j \in Inodes, NEW q \in Procs \ {p}, content[j].pid = q
          PROVE  /\ lpc'[q] # "start" /\ ~Untested(q)'
                 /\ lpc'[q] \in {"open", "flock", "write"} =>
                      \E n \in Names : Pos(lockCase, q, n) < lockIdx'[q] /\ fd'[q][n] = j
      <3>1. /\ lpc[q] # "start" /\ ~Untested(q)
            /\ lpc[q] \in {"open", "flock", "write"} =>
                 \E n \in Names : Pos(lockCase, q, n) < lockIdx[q] /\ fd[q][n] = j
        BY Zenon, <1>1, <2>a DEF AuthorInv
      <3>2. lpc'[q] = lpc[q] /\ lockIdx'[q] = lockIdx[q] /\ fd'[q] = fd[q] /\ Untested(q)' = Untested(q)
        BY <2>1, <2>6
      <3> QED BY Zenon, <3>1, <3>2
    \* A step of a process that no file names, or that is done with locking
    <2>b. ASSUME content' = content, \A j \in Inodes : content[j].pid # p
          PROVE  AuthorInv'
      BY Zenon, <1>0, <2>a, <2>b DEF AuthorInv
    <2>c. ASSUME content' = content, lpc'[p] \notin {"start", "open", "flock", "write"}, ~Untested(p)'
          PROVE  AuthorInv'
      BY Zenon, <1>0, <2>a, <2>c DEF AuthorInv
    \* A step that leaves the process where it is with its locks
    <2>d. ASSUME content' = content, lpc[p] # "start", lpc'[p] # "start", ~Untested(p) => ~Untested(p)',
                 lpc'[p] \in {"open", "flock", "write"} => lpc[p] \in {"open", "flock", "write"},
                 lockIdx' = lockIdx, fd' = fd
          PROVE  AuthorInv'
      <3>1. ASSUME NEW j \in Inodes, content[j].pid = p
            PROVE  /\ lpc'[p] # "start" /\ ~Untested(p)'
                   /\ lpc'[p] \in {"open", "flock", "write"} =>
                        \E n \in Names : Pos(lockCase, p, n) < lockIdx'[p] /\ fd'[p][n] = j
        <4>1. /\ ~Untested(p)
              /\ lpc[p] \in {"open", "flock", "write"} =>
                   \E n \in Names : Pos(lockCase, p, n) < lockIdx[p] /\ fd[p][n] = j
          BY Zenon, <1>1, <3>1 DEF AuthorInv
        <4> QED BY Zenon, <2>d, <4>1
      <3>2. content' = content /\ lockCase' = lockCase
        BY <1>0, <2>d
      <3> QED BY <2>a, <3>1, <3>2 DEF AuthorInv
    <2>7. CASE Start(p)
      <3>1. content' = content /\ lpc[p] = "start"
        BY <2>7 DEF Start
      <3>2. \A j \in Inodes : content[j].pid # p
        BY Zenon, <1>1, <3>1 DEF AuthorInv
      <3> QED BY <2>b, <3>1, <3>2
    <2>8. CASE Open(p)
      <3>1. /\ \A i \in Inodes : content'[i].pid \in {content[i].pid, None}
            /\ lpc[p] = "open" /\ lpc'[p] = "flock" /\ lockIdx' = lockIdx
        <4>1. \/ content' = content
              \/ \E i \in Inodes : content' = [content EXCEPT ![i] = EmptyFile]
          BY <2>8 DEF Open
        <4> QED BY <1>1, <2>8, <4>1 DEF Open, EmptyFile
      <3>2. \A n \in Names : n # Name(p) => fd'[p][n] = fd[p][n]
        BY <1>1, <2>2, <2>8 DEF Open
      <3>3. \A n \in Names : Pos(lockCase, p, n) < lockIdx[p] => n # Name(p)
        BY <2>2
      <3>4. ASSUME NEW j \in Inodes, NEW q \in Procs, content'[j].pid = q
            PROVE  /\ lpc'[q] # "start" /\ ~Untested(q)'
                   /\ lpc'[q] \in {"open", "flock", "write"} =>
                        \E n \in Names : Pos(lockCase, q, n) < lockIdx'[q] /\ fd'[q][n] = j
        <4>1. content[j].pid = q
          BY <3>1, <3>4, InodeFacts
        <4>2. CASE q # p
          BY <1>1, <2>1, <2>6, <4>1, <4>2 DEF AuthorInv
        <4>3. CASE q = p
          <5>1. \E n \in Names : Pos(lockCase, p, n) < lockIdx[p] /\ fd[p][n] = j
            BY <1>1, <3>1, <4>1, <4>3 DEF AuthorInv
          <5> QED BY <3>1, <3>2, <3>3, <4>3, <5>1 DEF Untested
        <4> QED BY <4>2, <4>3
      <3> QED BY <1>0, <3>4 DEF AuthorInv
    <2>9. CASE FlockOk(p)
      BY <1>1, <2>9, <2>d DEF FlockOk, Untested
    <2>10. CASE FlockShared(p)
      <3>1. /\ content' = content /\ lpc[p] = "flock"
            /\ \/ lockIdx'[p] = lockIdx[p] + 1 /\ lpc'[p] = "open"
               \/ lpc'[p] = AfterLock(p)
        BY <1>1, <2>10 DEF FlockShared, NextLock
      <3>2. \A n \in Names : n # Name(p) => fd'[p][n] = fd[p][n]
        BY Zenon, <1>1, <2>2, <2>10 DEF FlockShared
      <3>3. \A n \in Names : Pos(lockCase, p, n) < lockIdx[p] =>
              n # Name(p) /\ Pos(lockCase, p, n) < lockIdx[p] + 1
        BY <2>2, <2>4
      <3>4. ~(AfterLock(p) = "test" /\ lockCase.kind[p] = "remote")
        BY DEF AfterLock
      <3>5. ASSUME NEW j \in Inodes, NEW q \in Procs, content[j].pid = q
            PROVE  /\ lpc'[q] # "start" /\ ~Untested(q)'
                   /\ lpc'[q] \in {"open", "flock", "write"} =>
                        \E n \in Names : Pos(lockCase, q, n) < lockIdx'[q] /\ fd'[q][n] = j
        <4>1. CASE q # p
          BY Zenon, <2>a, <3>5, <4>1
        <4>2. CASE q = p
          <5>1. \E n \in Names : Pos(lockCase, p, n) < lockIdx[p] /\ fd[p][n] = j
            BY <1>1, <3>1, <3>5, <4>2 DEF AuthorInv
          <5> QED BY Zenon, <1>0, <2>5, <3>1, <3>2, <3>3, <3>4, <4>2, <5>1 DEF Untested
        <4> QED BY <4>1, <4>2
      <3> QED BY <1>0, <3>1, <3>5 DEF AuthorInv
    <2>11. CASE FlockFail(p)
      BY <1>1, <2>11, <2>c DEF FlockFail, Exit, Untested
    <2>12. CASE Write(p)
      <3> DEFINE i == fd[p][Name(p)]
      <3>1. /\ fd' = fd /\ lpc[p] = "write"
            /\ \/ lockIdx'[p] = lockIdx[p] + 1 /\ lpc'[p] = "open"
               \/ lpc'[p] = AfterLock(p)
        BY <1>1, <2>12 DEF Write, NextLock
      <3>2. \A j \in Inodes : content'[j].pid = IF j = i THEN p ELSE content[j].pid
        BY <1>1, <2>12 DEF Write, Written
      <3>3. \A n \in Names : Pos(lockCase, p, n) <= lockIdx[p] => Pos(lockCase, p, n) < lockIdx[p] + 1
        BY <2>2, <2>4
      <3>4. ~(AfterLock(p) = "test" /\ lockCase.kind[p] = "remote")
        BY DEF AfterLock
      <3>5. ASSUME NEW j \in Inodes, NEW q \in Procs, content'[j].pid = q
            PROVE  /\ lpc'[q] # "start" /\ ~Untested(q)'
                   /\ lpc'[q] \in {"open", "flock", "write"} =>
                        \E n \in Names : Pos(lockCase, q, n) < lockIdx'[q] /\ fd[q][n] = j
        <4>1. CASE q # p
          BY <1>1, <2>1, <2>6, <3>2, <3>5, <4>1 DEF AuthorInv
        <4>2. CASE q = p /\ j = i
          <5>1. Pos(lockCase, p, Name(p)) < lockIdx[p] + 1
            BY <2>2
          <5> QED BY <1>0, <2>2, <2>5, <3>1, <3>4, <4>2, <5>1 DEF Untested
        <4>3. CASE q = p /\ j # i
          <5>1. \E n \in Names : Pos(lockCase, p, n) < lockIdx[p] /\ fd[p][n] = j
            BY <1>1, <3>1, <3>2, <3>5, <4>3 DEF AuthorInv
          <5>2. \A n \in Names : Pos(lockCase, p, n) < lockIdx[p] => Pos(lockCase, p, n) < lockIdx[p] + 1
            BY <2>2, <2>4
          <5> QED BY <1>0, <2>5, <3>1, <3>4, <4>3, <5>1, <5>2 DEF Untested
        <4> QED BY <4>1, <4>2, <4>3
      <3> QED BY ZenonT(30), <1>0, <3>1, <3>5 DEF AuthorInv
    <2>13. CASE StopTest(p)
      <3>1. content' = content /\ lpc[p] = "test"
        BY <2>13 DEF StopTest
      <3>2. CASE lockCase.kind[p] = "remote"
        <4>1. \A j \in Inodes : content[j].pid # p
          BY Zenon, <1>1, <3>1, <3>2 DEF AuthorInv, Untested
        <4> QED BY <2>b, <3>1, <4>1
      <3>3. CASE lockCase.kind[p] # "remote"
        <4>1. lpc'[p] \in {"run", "unlink"}
          BY <1>1, <2>13, <3>3 DEF StopTest
        <4> QED BY <2>c, <3>1, <4>1 DEF Untested
      <3> QED BY <3>2, <3>3
    <2>14. CASE Finish(p)
      BY <1>1, <2>14, <2>c DEF Finish, Untested
    <2>15. CASE OnSignal(p)
      <3>1. content' = content /\ lpc'[p] \in {"done", "unlink", "orphans", "refused"}
        BY <1>1, <2>15 DEF OnSignal, Exit
      <3> QED BY <2>c, <3>1 DEF Untested
    <2>16. CASE ReleaseUnlink(p)
      BY <1>1, <2>16, <2>c DEF ReleaseUnlink, Untested
    <2>17. CASE ReleaseClose(p)
      <3>1. content' = content /\ lpc'[p] \in {"done", "unlink"}
        BY <1>1, <2>17 DEF ReleaseClose
      <3> QED BY <2>c, <3>1 DEF Untested
    <2>18. CASE OrphansEnd(p)
      BY <1>1, <2>18, <2>c DEF OrphansEnd, Exit, Untested
    <2>19. CASE Crash(p)
      <3>1. content' = content /\ lpc'[p] \in {"done", "orphans"}
        BY <1>1, <2>19 DEF Crash, Exit
      <3> QED BY <2>c, <3>1 DEF Untested
    <2>20. CASE Terminate(p)
      BY <1>0, <2>20, <2>d DEF Terminate, Untested
    <2>21. CASE NextFile(p)
      <3>1. content' = content /\ lpc'[p] = "test" /\ lockCase.kind[p] = "get"
        BY <1>1, <2>21 DEF NextFile
      <3> QED BY <1>0, <2>c, <3>1 DEF Untested
    <2> QED BY <1>2, <2>7, <2>8, <2>9, <2>10, <2>11, <2>12, <2>13, <2>14, <2>15, <2>16, <2>17, <2>18, <2>19, <2>20, <2>21 DEF ProcNext
  <1>3. ASSUME UNCHANGED procVars, content' = content
        PROVE  AuthorInv'
    BY <1>0, <1>1, <1>3 DEF procVars, AuthorInv, Untested
  <1> QED BY <1>2, <1>3 DEF LockNext, StopNext, StopCreate, StopOpen, StopFlock, StopRead,
             StopUnlink, StopClose, StartCommand, Quiet, lockVars, procVars

\* A main process never takes its own lock for one it shares.
LEMMA ShareStep ==
    ASSUME LockInv, LockNext
    PROVE  ShareInv'
  <1>0. lockCase' = lockCase /\ lockCase \in LockCases
    BY DEF LockNext, LockInv, LockTypeOK
  <1>1. /\ lockFile \in [Names -> Inodes \cup {None}]
        /\ content \in [Inodes -> [pid : Procs \cup {None}, size : Nat, clean : BOOLEAN]]
        /\ fd \in [Procs -> [Names -> Inodes \cup {None, OnExecId}]]
        /\ lpc \in [Procs -> {"start", "open", "flock", "write", "test", "run",
                             "unlink", "close", "orphans", "done", "refused"}]
        /\ lockIdx \in [Procs -> {1, 2}]
    BY DEF LockInv, LockTypeOK
  <1>2. ASSUME NEW p \in Procs, FlockShared(p)
        PROVE  lockCase.main[p] # p
    <2> DEFINE i == fd[p][Name(p)]
               r == content[i].pid
    <2>1. /\ Name(p) \in Names
          /\ lockIdx[p] \in {1, 2}
          /\ \A n \in Names : Pos(lockCase, p, n) = lockIdx[p] <=> n = Name(p)
      BY NameFacts DEF LockInv
    <2>2. lpc[p] = "flock" /\ i \in Inodes
      BY <1>2, <2>1 DEF FlockShared, LockInv, ShapeInv, Shape
    <2>3. r \in Procs /\ lockCase.main[r] = lockCase.main[p]
      BY <1>1, <1>2, <2>2 DEF FlockShared, SameExecId
    <2>4. CASE r = p
      <3>1. PICK n \in Names : Pos(lockCase, p, n) < lockIdx[p] /\ fd[p][n] = i
        BY <2>2, <2>4 DEF LockInv, AuthorInv
      <3>2. n = Name(p)
        BY <2>1, <2>2, <3>1 DEF LockInv, NameInv
      <3> QED BY <2>1, <3>1, <3>2
    <2>5. CASE r # p
      BY <2>2, <2>3, <2>5 DEF LockInv, AuthorInv, BegunInv, Begun
    <2> QED BY <2>4, <2>5
  <1>3. ASSUME NEW p \in Procs, ProcNext(p) \/ Crash(p) \/ Terminate(p)
        PROVE  ShareInv'
    <2>1. \A q \in Procs \ {p} : fd'[q] = fd[q]
      BY <1>3, OthersStay DEF LockInv
    <2>2. \A n \in Names : fd'[p][n] = OnExecId => fd[p][n] = OnExecId \/ FlockShared(p)
      <3>1. CASE Start(p)
        BY Zenon, <1>1, InodeFacts, <3>1 DEF Start
      <3>2. CASE Open(p)
        BY <1>1, InodeFacts, <3>2 DEF Open
      <3>3. CASE FlockOk(p)
        BY <1>1, InodeFacts, <3>3 DEF FlockOk
      <3>4. CASE FlockShared(p)
        BY <3>4
      <3>5. CASE FlockFail(p)
        BY <1>1, InodeFacts, <3>5 DEF FlockFail, Exit
      <3>6. CASE Write(p)
        BY <1>1, InodeFacts, <3>6 DEF Write
      <3>7. CASE StopTest(p)
        BY <1>1, InodeFacts, <3>7 DEF StopTest
      <3>8. CASE Finish(p)
        BY <1>1, InodeFacts, <3>8 DEF Finish
      <3>9. CASE OnSignal(p)
        BY <1>1, InodeFacts, <3>9 DEF OnSignal, Exit
      <3>10. CASE ReleaseUnlink(p)
        BY <1>1, InodeFacts, <3>10 DEF ReleaseUnlink
      <3>11. CASE ReleaseClose(p)
        BY <1>1, InodeFacts, <3>11 DEF ReleaseClose
      <3>12. CASE OrphansEnd(p)
        BY <1>1, InodeFacts, <3>12 DEF OrphansEnd, Exit
      <3>13. CASE Crash(p)
        BY <1>1, InodeFacts, <3>13 DEF Crash, Exit
      <3>14. CASE Terminate(p)
        BY <1>1, InodeFacts, <3>14 DEF Terminate
      <3>15. CASE NextFile(p)
        BY <1>1, InodeFacts, <3>15 DEF NextFile
      <3> QED BY ZenonT(30), <1>3, <3>1, <3>2, <3>3, <3>4, <3>5, <3>6, <3>7, <3>8, <3>9, <3>10, <3>11, <3>12, <3>13, <3>14, <3>15 DEF ProcNext
    <2> QED BY <1>0, <1>2, <2>1, <2>2 DEF LockInv, ShareInv
  <1>4. ASSUME fd' = fd PROVE ShareInv'
    BY <1>0, <1>4 DEF LockInv, ShareInv
  <1> QED BY <1>3, <1>4 DEF LockNext, StopNext, StopCreate, StopOpen, StopFlock, StopRead,
             StopUnlink, StopClose, StartCommand, Quiet, lockVars, procVars

\* Without the race a lock that is held keeps the name of its file.
LEMMA PlaceStep ==
    ASSUME LockInv, LockNext, ShapeInv'
    PROVE  PlaceInv'
  <1>0. lockCase' = lockCase /\ lockCase \in LockCases
    BY DEF LockNext, LockInv, LockTypeOK
  <1>1. /\ lockFile \in [Names -> Inodes \cup {None}]
        /\ content \in [Inodes -> [pid : Procs \cup {None}, size : Nat, clean : BOOLEAN]]
        /\ fd \in [Procs -> [Names -> Inodes \cup {None, OnExecId}]]
        /\ lpc \in [Procs -> {"start", "open", "flock", "write", "test", "run",
                             "unlink", "close", "orphans", "done", "refused"}]
        /\ lockIdx \in [Procs -> {1, 2}]
    BY DEF LockInv, LockTypeOK
  <1> SUFFICES ASSUME NoRace, NEW q \in Procs, NEW n \in Names,
                      lpc'[q] \notin {"unlink", "close"}, fd'[q][n] \in Inodes
               PROVE  lockFile'[n] = fd'[q][n]
    BY <1>0 DEF PlaceInv, NoRace
  <1>2. PlaceInv /\ ~lockCase.openRace
    BY DEF LockInv, NoRace
  <1>3. ASSUME NEW p \in Procs, Open(p)
        PROVE  lockFile'[n] = fd'[q][n]
    <2>1. /\ Name(p) \in Names
          /\ \A m \in Names : Pos(lockCase, p, m) = lockIdx[p] <=> m = Name(p)
      BY NameFacts DEF LockInv
    <2>2. CASE q = p /\ n = Name(p)
      BY <1>1, <1>3, <2>1, <2>2, InodeFacts DEF Open
    <2>3. CASE ~(q = p /\ n = Name(p))
      <3>1. fd'[q][n] = fd[q][n]
        BY <1>1, <1>3, <2>1, <2>3 DEF Open
      <3>2. lpc[q] \notin {"unlink", "close"}
        BY <1>1, <1>3 DEF Open
      <3>3. lockFile[n] = fd[q][n]
        BY <1>2, <3>1, <3>2 DEF PlaceInv, NoRace
      <3>4. lockFile'[n] = lockFile[n]
        BY <1>1, <1>3, <2>1, <3>1, <3>3, InodeFacts DEF Open
      <3> QED BY <3>1, <3>3, <3>4
    <2> QED BY <2>2, <2>3
  <1>4. CASE ~\E p \in Procs : Open(p)
    <2>1. fd'[q][n] = fd[q][n]
      BY <1>4, Shrinks, InodeFacts DEF LockInv
    <2>2. lpc[q] \notin {"unlink", "close"}
      <3>1. lpc'[q] # "done"
        BY InodeFacts DEF ShapeInv, Shape, Has
      <3>2. ASSUME NEW p \in Procs, ProcNext(p) \/ Crash(p) \/ Terminate(p)
            PROVE  lpc[q] \notin {"unlink", "close"}
        <4>1. CASE q # p
          BY <3>2, <4>1, OthersStay DEF LockInv
        <4>2. CASE q = p
          BY <1>1, <3>1, <3>2, <4>2 DEF ProcNext, Start, Open, FlockOk, FlockShared, FlockFail,
             Write, StopTest, NextFile, Finish, OnSignal, ReleaseUnlink, ReleaseClose, OrphansEnd,
             Crash, Terminate, Exit
        <4> QED BY <4>1, <4>2
      <3>3. CASE lpc' = lpc
        BY <3>3
      <3> QED BY <3>2, <3>3 DEF LockNext, StopNext, StopCreate, StopOpen, StopFlock, StopRead,
                 StopUnlink, StopClose, StartCommand, Quiet, lockVars, procVars
    <2>3. lockFile[n] = fd[q][n]
      BY <1>2, <2>1, <2>2 DEF PlaceInv, NoRace
    <2>4. ASSUME NEW p, p \in Procs => lpc'[p] = "close", Unattended(n, p)
          PROVE  FALSE
      BY <1>2, <2>1, <2>3, <2>4, InodeFacts DEF Unattended
    <2>5. lockFile'[n] = lockFile[n]
      <3>1. ASSUME NEW p \in Procs, ReleaseUnlink(p)
            PROVE  lockFile'[n] = lockFile[n]
        BY <1>1, <3>1, <2>4 DEF ReleaseUnlink
      <3>2. ASSUME StopUnlink
            PROVE  lockFile'[n] = lockFile[n]
        BY <1>1, <3>2, <2>4, InodeFacts DEF StopUnlink
      <3>3. CASE lockFile' = lockFile
        BY <3>3
      <3> QED BY Zenon, <1>4, <3>1, <3>2, <3>3 DEF LockNext, ProcNext, Start, FlockOk, FlockShared,
                 FlockFail, Write, StopTest, NextFile, Finish, OnSignal, ReleaseClose, OrphansEnd, Crash,
                 Terminate, StopNext, StopCreate, StopOpen, StopFlock, StopRead, StopClose,
                 StartCommand, Quiet, lockVars
    <2> QED BY <2>1, <2>3, <2>5
  <1> QED BY <1>3, <1>4

\* The file of a lock that is held keeps naming its holder.
LEMMA ContentStep ==
    ASSUME LockInv, LockNext
    PROVE  ContentInv'
  <1>0. lockCase' = lockCase /\ lockCase \in LockCases
    BY DEF LockNext, LockInv, LockTypeOK
  <1>1. /\ lockFile \in [Names -> Inodes \cup {None}]
        /\ content \in [Inodes -> [pid : Procs \cup {None}, size : Nat, clean : BOOLEAN]]
        /\ fd \in [Procs -> [Names -> Inodes \cup {None, OnExecId}]]
        /\ lpc \in [Procs -> {"start", "open", "flock", "write", "test", "run",
                             "unlink", "close", "orphans", "done", "refused"}]
        /\ lockIdx \in [Procs -> {1, 2}]
    BY DEF LockInv, LockTypeOK
  <1>2. ASSUME NEW p \in Procs, ProcNext(p) \/ Crash(p) \/ Terminate(p)
        PROVE  ContentInv'
    <2> SUFFICES ASSUME NEW q \in Procs, NEW n \in Names,
                        fd'[q][n] \in Inodes, ~Settling(q, n)'
                 PROVE  content'[fd'[q][n]].pid = q
      BY DEF ContentInv
    <2>1. /\ Name(p) \in Names
          /\ \A m \in Names : Pos(lockCase, p, m) = lockIdx[p] <=> m = Name(p)
      BY NameFacts DEF LockInv
    <2>2. CASE Open(p)
      <3>1. ~(q = p /\ n = Name(p))
        BY <1>0, <1>1, <2>1, <2>2 DEF Open, Settling
      <3>2. fd'[q][n] = fd[q][n] /\ ~Settling(q, n)
        BY <1>0, <1>1, <2>1, <2>2, <3>1 DEF Open, Settling
      <3>3. content'[fd[q][n]] = content[fd[q][n]]
        BY <1>1, <2>2, <3>2 DEF Open, Unused
      <3> QED BY <3>2, <3>3 DEF LockInv, ContentInv
    <2>3. CASE Write(p)
      <3>1. fd' = fd
        BY <2>3 DEF Write
      <3>2. CASE q = p /\ n = Name(p)
        BY <1>1, <2>3, <3>1, <3>2 DEF Write, Written
      <3>3. CASE ~(q = p /\ n = Name(p))
        <4>1. ~Settling(q, n)
          <5>1. CASE q = p
            BY <2>1, <3>3, <5>1 DEF Settling
          <5>2. CASE q # p
            BY <1>0, <1>2, <5>2, OthersStay DEF LockInv, Settling
          <5> QED BY <5>1, <5>2
        <4>2. fd[q][n] # fd[p][Name(p)]
          <5>1. ~Opening(q, n) /\ ~Opening(p, Name(p))
            BY <2>3, <4>1 DEF Opening, Settling, Write
          <5>2. ASSUME fd[q][n] = fd[p][Name(p)] PROVE FALSE
            <6>1. q = p
              BY <2>1, <3>1, <5>1, <5>2 DEF LockInv, HolderInv, HoldsInv
            <6>2. n = Name(p)
              BY <2>1, <3>1, <5>2 DEF LockInv, NameInv
            <6> QED BY <3>3, <6>1, <6>2
          <5> QED BY <5>2
        <4>3. content'[fd[q][n]] = content[fd[q][n]]
          BY <1>1, <2>3, <3>1, <4>2 DEF Write
        <4> QED BY <3>1, <4>1, <4>3 DEF LockInv, ContentInv
      <3> QED BY <3>2, <3>3
    <2>4. CASE ~Open(p) /\ ~Write(p)
      <3>1. content' = content
        BY <1>2, <2>4 DEF ProcNext, Start, FlockOk, FlockShared, FlockFail, StopTest, NextFile, Finish,
           OnSignal, ReleaseUnlink, ReleaseClose, OrphansEnd, Crash, Terminate
      <3>2. fd'[q][n] = fd[q][n] /\ ~Settling(q, n)
        <4>1. CASE q # p
          BY <1>0, <1>2, <4>1, OthersStay DEF LockInv, Settling
        <4>2. CASE q = p
          <5>1. CASE Start(p)
            BY <1>0, <1>1, <2>1, <4>2, <5>1, InodeFacts DEF Start, Settling
          <5>2. CASE FlockOk(p)
            BY <1>0, <1>1, <2>1, <4>2, <5>2, InodeFacts DEF FlockOk, Settling
          <5>3. CASE FlockShared(p)
            BY <1>0, <1>1, <2>1, <4>2, <5>3, InodeFacts DEF FlockShared, NextLock, Settling
          <5>4. CASE FlockFail(p)
            BY <1>0, <1>1, <2>1, <4>2, <5>4, InodeFacts DEF FlockFail, Exit, Settling
          <5>5. CASE StopTest(p)
            BY <1>0, <1>1, <2>1, <4>2, <5>5, InodeFacts DEF StopTest, Settling
          <5>6. CASE Finish(p)
            BY <1>0, <1>1, <2>1, <4>2, <5>6, InodeFacts DEF Finish, Settling
          <5>7. CASE OnSignal(p)
            BY <1>0, <1>1, <2>1, <4>2, <5>7, InodeFacts DEF OnSignal, Exit, Settling
          <5>8. CASE ReleaseUnlink(p)
            BY <1>0, <1>1, <2>1, <4>2, <5>8, InodeFacts DEF ReleaseUnlink, Settling
          <5>9. CASE ReleaseClose(p)
            BY <1>0, <1>1, <2>1, <4>2, <5>9, InodeFacts DEF ReleaseClose, Settling
          <5>10. CASE OrphansEnd(p)
            BY <1>0, <1>1, <2>1, <4>2, <5>10, InodeFacts DEF OrphansEnd, Exit, Settling
          <5>11. CASE Crash(p)
            BY <1>0, <1>1, <2>1, <4>2, <5>11, InodeFacts DEF Crash, Exit, Settling
          <5>12. CASE Terminate(p)
            BY <1>0, <1>1, <2>1, <4>2, <5>12, InodeFacts DEF Terminate, Settling
          <5>13. CASE NextFile(p)
            BY <1>0, <1>1, <2>1, <4>2, <5>13, InodeFacts DEF NextFile, Settling
          <5> QED BY Zenon, <1>2, <2>4, <5>1, <5>2, <5>3, <5>4, <5>5, <5>6, <5>7, <5>8, <5>9, <5>10, <5>11, <5>12, <5>13 DEF ProcNext
        <4> QED BY <4>1, <4>2
      <3> QED BY <3>1, <3>2 DEF LockInv, ContentInv
    <2> QED BY <2>2, <2>3, <2>4
  <1>3. ASSUME UNCHANGED procVars, content' = content
        PROVE  ContentInv'
    BY <1>0, <1>3 DEF procVars, LockInv, ContentInv, Settling
  <1> QED BY <1>2, <1>3 DEF LockNext, StopNext, StopCreate, StopOpen, StopFlock, StopRead,
             StopUnlink, StopClose, StartCommand, Quiet, lockVars, procVars

\* stop --force is going to reach every command that works until it does.
LEMMA StopStep ==
    ASSUME LockInv, LockNext
    PROVE  StopInv'
  <1>0. lockCase' = lockCase /\ lockCase \in LockCases
    BY DEF LockNext, LockInv, LockTypeOK
  <1>1. /\ lockFile \in [Names -> Inodes \cup {None}]
        /\ content \in [Inodes -> [pid : Procs \cup {None}, size : Nat, clean : BOOLEAN]]
        /\ fd \in [Procs -> [Names -> Inodes \cup {None, OnExecId}]]
        /\ lpc \in [Procs -> {"start", "open", "flock", "write", "test", "run",
                             "unlink", "close", "orphans", "done", "refused"}]
        /\ stop \in [pc : {"idle", "scan", "flock", "read", "unlink", "close", "done"},
                     files : SUBSET Names, fd : Inodes \cup {None}]
        /\ StopInv
    BY DEF LockInv, LockTypeOK
  <1>2. stop.files # {} => StopName \in stop.files
    BY <1>1 DEF StopName, Names
  \* What is known of a command that works
  <1>3. ASSUME NEW p \in Procs, lockCase.kind[p] \in {"main", "get"}, lpc[p] = "run"
        PROVE  \A n \in Names : Pos(lockCase, p, n) # 0 =>
                 /\ fd[p][n] \in Inodes
                 /\ flocked[fd[p][n]] = p
                 /\ content[fd[p][n]].pid = p
                 /\ NoRace => lockFile[n] = fd[p][n]
    <2>1. lockCase.main[p] = p
      BY <1>0, <1>3, LockAssumption
    <2>2. \A n \in Names : Pos(lockCase, p, n) # 0 => fd[p][n] \in Inodes
      <3>1. Shape(p) /\ ShareInv
        BY DEF LockInv, ShapeInv
      <3>2. \A n \in Names : Pos(lockCase, p, n) # 0 => fd[p][n] # None
        BY <1>3, <3>1 DEF Shape, Has, Untested
      <3>3. \A n \in Names : fd[p][n] # OnExecId
        BY Zenon, <2>1, <3>1 DEF ShareInv
      <3> QED BY <1>1, <3>2, <3>3
    <2>3. \A n \in Names : ~Opening(p, n) /\ ~Settling(p, n)
      BY <1>3 DEF Opening, Settling
    <2> QED BY <1>3, <2>2, <2>3 DEF LockInv, HolderInv, HoldsInv, ContentInv, PlaceInv
  <1>4. ASSUME NEW p \in Procs, ProcNext(p) \/ Crash(p) \/ Terminate(p)
        PROVE  StopInv'
    <2>1. stop' = stop /\ (stopFile' => stopFile)
      <3>1. CASE Finish(p)
        BY <3>1 DEF Finish
      <3>2. CASE ~Finish(p)
        BY <1>4, <3>2 DEF ProcNext, Start, Open, FlockOk, FlockShared, FlockFail, Write, StopTest,
           NextFile, OnSignal, ReleaseUnlink, ReleaseClose, OrphansEnd, Crash, Terminate
      <3> QED BY <3>1, <3>2
    <2>2. ASSUME NEW q \in Procs, NoRace, stopFile,
                 lockCase.kind[q] \in {"main", "get"}, lpc'[q] = "run", q \notin term'
          PROVE  lpc[q] = "run" /\ q \notin term /\ fd'[q] = fd[q]
      <3>1. CASE q # p
        BY Zenon, <1>4, <2>2, <3>1, OthersStay DEF LockInv, ProcNext, Start, Open, FlockOk, FlockShared,
           FlockFail, Write, StopTest, NextFile, Finish, OnSignal, ReleaseUnlink, ReleaseClose, OrphansEnd,
           Crash, Terminate
      <3>2. CASE q = p
        <4>1. AfterLock(p) # "run"
          BY <2>2, <3>2 DEF AfterLock
        <4> QED BY Zenon, <1>1, <1>4, <2>2, <3>2, <4>1 DEF ProcNext, Start, Open, FlockOk, FlockShared,
           FlockFail, Write, StopTest, NextFile, Finish, OnSignal, ReleaseUnlink, ReleaseClose, OrphansEnd,
           Crash, Terminate, Exit, NextLock
      <3> QED BY <3>1, <3>2
    <2> QED BY <1>0, <1>1, <2>1, <2>2 DEF StopInv, Ahead, NoRace, StopName
  <1>5. CASE StopCreate
    <2>1. /\ stop'.pc = "scan" /\ stop'.files = {n \in Names : lockFile[n] # None}
          /\ lpc' = lpc /\ term' = term
      BY <1>5 DEF StopCreate, procVars
    <2>2. ASSUME NEW p \in Procs, NoRace, lockCase.kind[p] \in {"main", "get"}, lpc[p] = "run"
          PROVE  \E n \in Names : Ahead(p, n)'
      <3>1. \E n \in Names : Pos(lockCase, p, n) = 1
        BY <1>0, Positions
      <3> QED BY <1>0, <1>3, <2>1, <2>2, <3>1, InodeFacts DEF Ahead
    <2> QED BY <1>0, <2>1, <2>2 DEF StopInv, NoRace
  <1>6. ASSUME lpc' = lpc, stopFile' = stopFile, StopNext,
               stop'.pc # "idle", stop'.pc = "done" => stop'.files = {},
               stop'.pc \in {"flock", "read", "unlink", "close"} => stop'.files # {},
               \A p \in Procs : \A n \in Names :
                 NoRace /\ lockCase.kind[p] \in {"main", "get"} /\ lpc[p] = "run" /\ p \notin term' /\ Ahead(p, n)
                 => p \notin term /\ Ahead(p, n)'
        PROVE  StopInv'
    <2>1. term \subseteq term'
      BY <1>6 DEF StopNext, StopCreate, StopOpen, StopFlock, StopRead, StopUnlink, StopClose
    <2>2. \A p \in Procs : p \notin term' => p \notin term
      BY <2>1
    <2> QED BY <1>0, <1>1, <1>6, <2>2 DEF StopInv, NoRace
  <1>7. CASE StopOpen
    <2>1. \/ stop' = [stop EXCEPT !.pc = "done"] /\ stop.files = {}
          \/ stop' = StopSkip /\ lockFile[StopName] = None /\ stop.files # {}
          \/ /\ stop' = [stop EXCEPT !.pc = "flock", !.fd = lockFile[StopName]]
             /\ lockFile[StopName] # None /\ stop.files # {}
      BY <1>7 DEF StopOpen
    <2>2. /\ stop.pc = "scan" /\ lpc' = lpc /\ stopFile' = stopFile /\ term' = term /\ fd' = fd
          /\ StopNext
      BY <1>7 DEF StopOpen, procVars, StopNext
    <2>3. ASSUME NEW p \in Procs, NEW n \in Names, NoRace, lockCase.kind[p] \in {"main", "get"},
                 lpc[p] = "run", Ahead(p, n)
          PROVE  Ahead(p, n)'
      <3>1. n \in stop.files /\ Pos(lockCase, p, n) # 0 /\ lockFile[n] = fd[p][n] /\ fd[p][n] # None
        <4>1. n \in stop.files /\ Pos(lockCase, p, n) # 0
          BY <2>3 DEF Ahead
        <4>2. fd[p][n] \in Inodes /\ lockFile[n] = fd[p][n]
          BY Zenon, <1>3, <2>3, <4>1
        <4> QED BY <4>1, <4>2, InodeFacts
      <3>2. CASE stop' = StopSkip /\ lockFile[StopName] = None
        BY <1>0, <1>1, <3>1, <3>2 DEF StopSkip, Ahead
      <3>3. CASE stop' = [stop EXCEPT !.pc = "flock", !.fd = lockFile[StopName]]
        BY <1>0, <1>1, <2>2, <3>1, <3>3 DEF Ahead, StopName
      <3> QED BY <2>1, <3>1, <3>2, <3>3
    <2>4. /\ stop'.pc \in {"done", "scan", "flock"}
          /\ stop'.pc = "done" => stop'.files = {}
          /\ stop'.pc = "flock" => stop'.files # {}
      BY ZenonT(30), <1>1, <2>1 DEF StopSkip
    <2> QED BY Zenon, <1>6, <2>2, <2>3, <2>4
  <1>8. CASE StopFlock
    <2>1. /\ stop.pc = "flock" /\ lpc' = lpc /\ stopFile' = stopFile /\ term' = term /\ fd' = fd
          /\ StopNext
      BY <1>8 DEF StopFlock, procVars, StopNext
    <2>2. /\ stop'.files = stop.files /\ stop'.fd = stop.fd
          /\ stop'.pc \in {"read", "unlink"}
          /\ flocked[stop.fd] # None => stop'.pc = "read"
      BY <1>1, <1>8 DEF StopFlock
    <2>3. ASSUME NEW p \in Procs, NEW n \in Names, NoRace, lockCase.kind[p] \in {"main", "get"},
                 lpc[p] = "run", Ahead(p, n)
          PROVE  Ahead(p, n)'
      BY <1>0, <1>3, <2>1, <2>2, <2>3, InodeFacts DEF Ahead, StopName
    <2>4. stop.files # {}
      BY <1>1, <2>1 DEF StopInv
    <2> QED BY <1>6, <2>1, <2>2, <2>3, <2>4
  <1>9. CASE StopRead
    <2>1. /\ stop.pc = "read" /\ lpc' = lpc /\ stopFile' = stopFile /\ fd' = fd
          /\ StopNext
      BY <1>9 DEF StopRead, procVars, StopNext
    <2>2. stop.files # {} /\ StopName \in stop.files
      BY <1>1, <1>2, <2>1 DEF StopInv
    <2>3. ASSUME NEW p \in Procs, NEW n \in Names, NoRace, lockCase.kind[p] \in {"main", "get"},
                 lpc[p] = "run", p \notin term', Ahead(p, n)
          PROVE  p \notin term /\ Ahead(p, n)'
      <3>1. n # StopName
        <4>1. ASSUME n = StopName PROVE content[stop.fd].pid = p
          BY <1>3, <2>1, <2>3, <4>1 DEF Ahead
        <4> QED BY <1>9, <2>3, <4>1, InodeFacts DEF StopRead
      <3>2. p \notin term
        BY <1>9, <2>3 DEF StopRead
      <3>3. CASE stop' = StopSkip
        BY <1>0, <1>1, <2>3, <3>1, <3>2, <3>3 DEF Ahead, StopSkip
      <3>4. CASE stop' = [stop EXCEPT !.pc = "unlink"]
        BY <1>0, <1>1, <2>3, <3>1, <3>2, <3>4 DEF Ahead, StopName
      <3> QED BY <1>9, <3>3, <3>4 DEF StopRead
    <2>4. stop'.pc = "scan" \/ (stop'.pc = "unlink" /\ stop'.files = stop.files)
      BY Zenon, <1>1, <1>9 DEF StopRead, StopSkip
    <2> QED BY Zenon, <1>6, <2>1, <2>2, <2>3, <2>4
  <1>10. CASE StopUnlink
    <2>1. /\ stop.pc = "unlink" /\ lpc' = lpc /\ stopFile' = stopFile /\ term' = term /\ fd' = fd
          /\ StopNext
      BY <1>10 DEF StopUnlink, procVars, StopNext
    <2>2. stop'.pc = "close" /\ stop'.files = stop.files /\ stop.files # {}
      BY <1>1, <1>10, <2>1 DEF StopUnlink, StopInv
    <2>3. ASSUME NEW p \in Procs, NEW n \in Names, Ahead(p, n)
          PROVE  Ahead(p, n)'
      BY <1>0, <2>1, <2>2, <2>3 DEF Ahead, StopName
    <2> QED BY <1>6, <2>1, <2>2, <2>3
  <1>11. CASE StopClose
    <2>1. /\ stop.pc = "close" /\ lpc' = lpc /\ stopFile' = stopFile /\ term' = term /\ fd' = fd
          /\ StopNext
      BY <1>11 DEF StopClose, procVars, StopNext
    <2>2. stop'.pc = "scan" /\ stop'.files = stop.files \ {StopName}
      BY <1>1, <1>11 DEF StopClose, StopSkip
    <2>3. ASSUME NEW p \in Procs, NEW n \in Names, Ahead(p, n)
          PROVE  Ahead(p, n)'
      BY <1>0, <2>1, <2>2, <2>3 DEF Ahead
    <2> QED BY Zenon, <1>6, <2>1, <2>2, <2>3
  <1>12. CASE StartCommand
    BY <1>1, <1>12 DEF StartCommand, StopInv
  <1>13. CASE Quiet
    BY <1>0, <1>1, <1>13 DEF Quiet, lockVars, StopInv, Ahead, StopName, NoRace
  <1> QED BY <1>4, <1>5, <1>7, <1>8, <1>9, <1>10, <1>11, <1>12, <1>13 DEF LockNext, StopNext

-----------------------------------------------------------------------------
\* The invariant holds in every initial state.
LEMMA LockInvInit == LockInit => LockInv
  <1> SUFFICES ASSUME LockInit PROVE LockInv
    OBVIOUS
  <1>1. lockCase.maxCrash \in Nat /\ lockCase.maxTerm \in Nat /\ lockCase \in LockCases
    BY LockAssumption DEF LockInit
  <1>2. LockTypeOK
    <2>1. content \in [Inodes -> [pid : Procs \cup {None}, size : Nat, clean : BOOLEAN]]
      BY DEF LockInit, EmptyFile
    <2>2. faults \in [crash : 0 .. lockCase.maxCrash, term : 0 .. lockCase.maxTerm]
      BY <1>1 DEF LockInit
    <2>3. stop \in [pc : {"idle", "scan", "flock", "read", "unlink", "close", "done"},
                   files : SUBSET Names, fd : Inodes \cup {None}]
      BY DEF LockInit
    <2> QED BY ZenonT(30), <1>1, <2>1, <2>2, <2>3 DEF LockInit, LockTypeOK
  <1>3. ShapeInv
    <2>1. \A p \in Procs : 1 <= Len(lockCase.lockType[p])
      <3> SUFFICES ASSUME NEW p \in Procs PROVE 1 <= Len(lockCase.lockType[p])
        OBVIOUS
      <3>1. Len(lockCase.lockType[p]) \in {1, 2}
        BY <1>1, Positions
      <3> QED BY ONLY <3>1
    <2> QED BY Zenon, <2>1 DEF LockInit, ShapeInv, Shape, Has, Untested
  <1>4. NameInv /\ HolderInv /\ ShareInv /\ PlaceInv /\ ContentInv
    BY ZenonT(30), InodeFacts DEF LockInit, NameInv, HolderInv, HoldsInv, OwnerInv, StopperInv, ShareInv,
       PlaceInv, ContentInv
  <1>5. BegunInv /\ AuthorInv /\ StopInv
    BY Zenon, InodeFacts DEF LockInit, BegunInv, AuthorInv, EmptyFile, StopInv
  <1> QED BY <1>2, <1>3, <1>4, <1>5 DEF LockInv

\* Every step preserves it.
LEMMA LockInvNext == LockInv /\ [LockNext]_lockVars => LockInv'
  <1> SUFFICES ASSUME LockInv, [LockNext]_lockVars PROVE LockInv'
    OBVIOUS
  <1>1. CASE LockNext
    <2>1. LockTypeOK'
      BY <1>1, TypeStep DEF LockInv
    <2>2. ShapeInv'
      BY <1>1, ShapeStep
    <2> QED BY <1>1, <2>1, <2>2, NameStep, HolderStep, BegunStep, AuthorStep, ShareStep, PlaceStep,
               ContentStep, StopStep DEF LockInv
  <1>2. CASE UNCHANGED lockVars
    <2>1. UNCHANGED <<lockCase, lockFile, content, flocked, fd, lpc, lockIdx, term, faults, stopFile, stop>>
      BY <1>2 DEF lockVars, procVars
    <2>2. LockTypeOK' /\ NameInv'
      BY <2>1 DEF LockInv, LockTypeOK, NameInv
    <2>3. ShapeInv'
      BY <2>1 DEF LockInv, ShapeInv, Shape, Has, Untested
    <2>8. HoldsInv /\ OwnerInv /\ StopperInv
      BY DEF LockInv, HolderInv
    <2>9. HoldsInv' /\ StopperInv'
      BY <2>1, <2>8 DEF HoldsInv, StopperInv, Opening
    <2>10. OwnerInv'
      BY <2>1, <2>8 DEF OwnerInv, Opening
    <2>6. HolderInv'
      BY Zenon, <2>9, <2>10 DEF HolderInv
    <2>7. BegunInv' /\ AuthorInv'
      BY <2>1 DEF LockInv, BegunInv, AuthorInv, Untested
    <2>4. ShareInv' /\ PlaceInv' /\ ContentInv'
      BY Zenon, <2>1 DEF LockInv, ShareInv, PlaceInv, NoRace, ContentInv, Settling
    <2>5. StopInv'
      BY Zenon, <2>1 DEF LockInv, StopInv, NoRace, Ahead, StopName
    <2> QED BY <2>2, <2>3, <2>4, <2>5, <2>6, <2>7 DEF LockInv
  <1> QED BY <1>1, <1>2

\* The invariant keeps two commands apart: the inode a lock name leads to is
\* locked by one process, and who shares a lock shares it with that one.
LEMMA LockInvApart == LockInv /\ NoRace => Apart
  <1> SUFFICES ASSUME LockInv, NoRace,
                      NEW p \in Procs, NEW q \in Procs, NEW n \in Names, Under(p, n), Under(q, n)
               PROVE  lockCase.main[p] = lockCase.main[q]
    BY DEF Apart
  <1>0. lockCase \in LockCases /\ fd \in [Procs -> [Names -> Inodes \cup {None, OnExecId}]]
    BY DEF LockInv, LockTypeOK
  \* The holder that stands behind a process under the lock
  <1>1. ASSUME NEW r \in Procs, Under(r, n)
        PROVE  \E h \in Procs : /\ lockCase.main[h] = lockCase.main[r]
                                 /\ lockFile[n] \in Inodes /\ flocked[lockFile[n]] = h
    <2>1. ASSUME NEW h \in Procs, fd[h][n] \in Inodes, lpc[h] \in {"run", "orphans"}
          PROVE  lockFile[n] \in Inodes /\ flocked[lockFile[n]] = h
      <3>1. lockFile[n] = fd[h][n]
        BY Zenon, <2>1 DEF LockInv, PlaceInv
      <3>2. flocked[fd[h][n]] = h
        BY Zenon, <2>1 DEF LockInv, HolderInv, HoldsInv, Opening
      <3> QED BY <2>1, <3>1, <3>2
    <2>2. CASE fd[r][n] \in Inodes
      BY <1>1, <2>1, <2>2 DEF Under
    <2>3. CASE fd[r][n] = OnExecId
      <3> DEFINE h == lockCase.main[r]
      <3>1. h # r
        BY <2>3 DEF LockInv, ShareInv
      <3>2. /\ h \in Procs /\ lockCase.main[h] = h
            /\ lockCase.lockType[r] = lockCase.lockType[h]
        BY <1>0, <3>1, LockAssumption
      <3>3. lpc[h] \in {"run", "orphans"}
        BY <1>1, <2>3 DEF Under
      <3>4. Pos(lockCase, r, n) # 0
        BY <1>1, <2>3, InodeFacts DEF LockInv, ShapeInv, Shape, Has
      <3>5. Pos(lockCase, h, n) # 0
        BY <3>2, <3>4 DEF Pos
      <3>6. fd[h][n] # None
        BY ZenonT(30), <3>2, <3>3, <3>5 DEF LockInv, ShapeInv, Shape, Has, Untested
      <3>7. fd[h][n] # OnExecId
        BY <3>2 DEF LockInv, ShareInv
      <3>8. fd[h][n] \in Inodes
        BY <1>0, <3>2, <3>6, <3>7
      <3>9. lockFile[n] \in Inodes /\ flocked[lockFile[n]] = h
        BY Zenon, <2>1, <3>2, <3>3, <3>8
      <3> QED BY Zenon, <3>2, <3>9
    <2> QED BY ZenonT(30), <1>0, <1>1, <2>2, <2>3 DEF Under
  <1> QED BY Zenon, <1>1

\* LockInv holds in every state: what the processes hold, and what they find in
\* a lock file, is what lockAcquire() and lockRelease() left there.
THEOREM LockInvariant == LockSpec => []LockInv
  BY LockInvInit, LockInvNext, PTL DEF LockSpec

\* Types of the lock files, the processes and the stop command.
THEOREM LockTypeCorrect == LockSpec => []LockTypeOK
  <1>1. LockInv => LockTypeOK
    BY DEF LockInv
  <1> QED BY <1>1, LockInvariant, PTL

\* Two commands that were not spawned by the same main process never work under
\* the same lock, whatever is killed, signalled or stopped, as long as no lock
\* file is removed while another process has it open (lockAcquireFile(),
\* lockReleaseFile()).
THEOREM LocksExclude == LockSpec => []Exclusive
  <1>1. LockInv => Exclusive
    BY LockInvApart DEF Exclusive
  <1> QED BY <1>1, LockInvariant, PTL

\* When stop --force has returned, every command that tests the stop file after
\* it has locked, the asynchronous archive-get among them, and that still works
\* has been sent a TERM signal (cmdStop(), lockStopTest()).
THEOREM StopReachesAll == LockSpec => []StopCovers
  <1>1. LockInv => StopCovers
    BY DEF LockInv, StopInv, StopCovers, Ahead
  <1> QED BY <1>1, LockInvariant, PTL
=============================================================================
