----------------------------- MODULE PushProofs -----------------------------
(***************************************************************************)
(* A segment that PostgreSQL was told is archived is in every repository,  *)
(* what a repository holds is never replaced, the .ok file the foreground  *)
(* found is there when it reads it, and a push that ends with the errors   *)
(* of some repositories leaves the segment in all others: for any number   *)
(* of segments, repositories, local processes and failures, async or not.  *)
(*                                                                         *)
(* AckedArchived is not inductive.  A copy succeeds with the content that  *)
(* PostgreSQL handed over only because the segment it copies is not yet    *)
(* acknowledged, so that its file is not used again; that is so because it *)
(* has no .ok file, and that because the async process read the list of    *)
(* .ok files under the lock, which nobody who writes one can hold too.     *)
(***************************************************************************)
EXTENDS ArchivePush, TLAPS

FgPcs == {"idle", "status", "statusError", "statusGlobal", "readOk", "readError", "lock", "clear",
          "release", "exec", "wait", "sync", "push", "pushed", "error"}
Busy(s) == job[s].pc # "none"
Everywhere(s) == \A r \in Repos : archive[r][s] = "wal"

\* An acknowledged segment is not ready again
QueueInv == ready \cap acked = {}

\* Who holds the lock, and for how long: local processes of an async process
\* that is gone keep it
LockInv ==
    /\ async.pc # "off" <=> lock = "async"
    /\ fg.pc \in {"clear", "release"} => lock = "fg"
    /\ orphan # {} => async.pc = "exit"

\* A job is one of the async process, and of its list
AsyncMode ==
    /\ fg.pc \notin {"sync", "push"}
    /\ \A s \in Segs : Busy(s) => async.pc = "push" /\ s \in async.todo

\* Without archive-async there is only the foreground command
SyncMode ==
    /\ fg.pc \in {"idle", "sync", "push", "pushed", "error"}
    /\ starting = 0 /\ async.pc = "off" /\ orphan = {} /\ okFile = {} /\ lock = "free"
    /\ \A s \in Segs : Busy(s) => fg.pc = "push" /\ fg.seg = s

ModeInv ==
    /\ archiveAsync => AsyncMode
    /\ ~archiveAsync => SyncMode

PushedOk == fg.pc = "pushed" => fg.seg \in okFile

\* The foreground works on a segment that is not acknowledged, whose .ok file
\* stays while it is
FgInv ==
    /\ fg.pc # "idle" => fg.seg \in ready
    /\ fg.pc = "readOk" => fg.seg \in okFile
    /\ archiveAsync => PushedOk

\* What is pushed is ready and has no .ok file
TodoInv ==
    /\ async.pc = "ready" => okFile = async.okList
    /\ async.pc \in {"drop", "check", "push"} => async.todo \subseteq ready \ okFile
    /\ \A o \in orphan : o.seg \in ready \ okFile

\* Only the file of an acknowledged segment is used again, and no such file
\* reaches a repository
WalInv ==
    /\ \A s \in Segs : wal[s] = "wal" \/ s \in acked
    /\ \A r \in Repos, s \in Segs : archive[r][s] # "recycled"

\* Every repository that has not failed the push of s is in the set, or has s
Covered(s, repos) == \A r \in Repos \ job[s].down : r \in repos \/ archive[r][s] = "wal"

\* The repositories a copy goes to do not have the segment, and those that are
\* left out have it or have failed
JobInv(s) ==
    /\ job[s].pc = "todo" => valid = Repos \ job[s].down
    /\ job[s].pc = "copy" => \A r \in job[s].need : archive[r][s] = "none"
    /\ job[s].pc = "copy" => Covered(s, job[s].need)
    /\ job[s].pc = "ok" => Everywhere(s)
    /\ PgPath /\ job[s].pc = "err" => Covered(s, {})

\* Nobody else copies a segment that a lost local process copies
OrphanInv ==
    /\ \A o \in orphan : \A r \in o.need : archive[r][o.seg] = "none"
    /\ \A o, p \in orphan : o.seg = p.seg => o = p

CopyInv == OrphanInv /\ \A s \in Segs : JobInv(s)

\* What PostgreSQL was told, or is about to be told
AckInv ==
    /\ AckedArchived
    /\ fg.pc = "pushed" => fg.seg \in dropped \/ Everywhere(fg.seg)

PushInv ==
    /\ TypeOK /\ QueueInv /\ LockInv /\ ModeInv /\ FgInv /\ TodoInv
    /\ WalInv /\ CopyInv /\ AckInv

(***************************************************************************)
(* Steps in a form the proofs use: what ends the async process leaves to   *)
(* its local processes, and what a failure may change.                     *)
(***************************************************************************)
FaultStep == faults' = faults \/ (faults < MaxFault /\ faults' = faults + 1)
Aborted == [NoJob EXCEPT !.pc = "abort"]
Copying(s, fail) == [pc |-> "copy", need |-> {r \in valid \ fail : archive[r][s] = "none"},
                     down |-> job[s].down \cup fail]
Ended(s, fail) == [NoJob EXCEPT !.pc = CopyResult(s, fail), !.down = job[s].down \cup fail]
Left == {[seg |-> s, need |-> job[s].need] : s \in {t \in Segs : job[t].pc = "copy"}}

\* The async process ends, whatever the reason (AsyncEnd)
Ending ==
    /\ async.pc \notin {"off", "exit"}
    /\ async' = [AsyncOff EXCEPT !.pc = "exit"]
    /\ errFile' \in {errFile, errFile \cup {Global}}
    /\ orphan' = orphan \cup Left
    /\ job' = [s \in Segs |-> NoJob]
    /\ valid' = valid \/ valid' \subseteq Repos
    /\ FaultStep
    /\ UNCHANGED <<archiveAsync, ready, acked, wal, archive, okFile, dropped, lock, fg, starting, stopFile>>

\* The async process has read the status files
Listing ==
    /\ async.pc = "begin"
    /\ async' = [async EXCEPT !.pc = "ready", !.okList = okFile]
    /\ errFile' = {}
    /\ UNCHANGED <<archiveAsync, ready, acked, wal, archive, okFile, dropped, lock, fg, starting, valid, job, orphan,
                   stopFile, faults>>

\* The async process begins to push
Pushing ==
    /\ async.pc = "check"
    /\ async' = [async EXCEPT !.pc = "push"]
    /\ \E fail \in SUBSET Repos :
         /\ valid' = RepoList(fail)
         /\ job' = [s \in Segs |-> IF s \in async.todo THEN NewJob(fail) ELSE NoJob]
    /\ FaultStep
    /\ UNCHANGED <<archiveAsync, ready, acked, wal, archive, okFile, errFile, dropped, lock, fg, starting, orphan,
                   stopFile>>

LEMMA EndsOrGoesOn ==
    /\ AsyncBegin => Ending \/ Listing
    /\ AsyncEmpty \/ AsyncThrow \/ AsyncKill => Ending
    /\ AsyncCheck => Ending \/ Pushing
<1>1. AsyncBegin => Ending \/ Listing
    BY DEF AsyncBegin, AsyncEnd, Ending, Listing, FaultStep, Left, pgVars
<1>2. AsyncEmpty \/ AsyncThrow \/ AsyncKill => Ending
    BY DEF AsyncEmpty, AsyncThrow, AsyncKill, AsyncEnd, Ending, FaultStep, Fault, Left, pgVars
<1>3. AsyncCheck => Ending \/ Pushing
  <2> SUFFICES ASSUME AsyncCheck PROVE Ending \/ Pushing
      OBVIOUS
  <2>1. PICK fail \in SUBSET Repos :
            /\ MayFail(fail # {}) /\ Fault(fail # {})
            /\ valid' = RepoList(fail)
            /\ \/ AsyncEnd("error")
               \/ /\ async' = [async EXCEPT !.pc = "push"]
                  /\ job' = [s \in Segs |-> IF s \in async.todo THEN NewJob(fail) ELSE NoJob]
                  /\ UNCHANGED <<errFile, orphan>>
      BY Zenon DEF AsyncCheck
  <2>2. FaultStep /\ valid' \subseteq Repos
      BY <2>1 DEF FaultStep, MayFail, Fault, RepoList
  <2> QED
      BY <2>1, <2>2 DEF AsyncCheck, AsyncEnd, Ending, Pushing, Left, pgVars
<1> QED
    BY <1>1, <1>2, <1>3

\* What a push begins with, or ends with at once
LEMMA NewJobs ==
    ASSUME NEW fail \in SUBSET Repos
    PROVE  /\ NewJob(fail) \in Jobs /\ NewJob(fail).down = fail /\ NewJob(fail).pc \in {"todo", "err"}
           /\ NewJob(fail).pc = "todo" => RepoList(fail) = Repos \ fail
           /\ PgPath /\ NewJob(fail).pc = "err" => Repos \ fail = {}
<1> DEFINE w == IF RepoList(fail) = {} THEN "err" ELSE "todo"
<1>0. NewJob(fail) = [NoJob EXCEPT !.pc = w, !.down = fail]
    BY Zenon DEF NewJob
<1> HIDE DEF w
<1>1. NewJob(fail) = [pc |-> w, need |-> {}, down |-> fail]
    BY <1>0 DEF NoJob
<1>2. /\ NewJob(fail) \in Jobs /\ NewJob(fail).down = fail
      /\ NewJob(fail).pc = IF RepoList(fail) = {} THEN "err" ELSE "todo"
    BY <1>1 DEF Jobs, w
<1>3. /\ RepoList(fail) = {} \/ RepoList(fail) = Repos \ fail
      /\ PgPath => RepoList(fail) = Repos \ fail
    BY Zenon DEF RepoList
<1> QED
    BY Zenon, <1>2, <1>3

LEMMA PushTypes ==
    ASSUME TypeOK
    PROVE  /\ fg \in Foregrounds /\ fg.seg \in Segs \cup {NoSeg}
           /\ async \in Asyncs /\ async.todo \subseteq Segs /\ async.okList \subseteq Segs
           /\ job \in [Segs -> Jobs] /\ \A s \in Segs : job[s] \in Jobs /\ job[s].need \subseteq Repos /\ job[s].down \subseteq Repos
           /\ archive \in [Repos -> [Segs -> {"none", "wal", "recycled", "other"}]]
           /\ wal \in [Segs -> {"wal", "recycled"}]
           /\ ready \subseteq Segs /\ acked \subseteq Segs /\ okFile \subseteq Segs /\ dropped \subseteq Segs
           /\ valid \subseteq Repos
           /\ orphan \subseteq [seg : Segs, need : SUBSET Repos]
           /\ \A o \in orphan : o.seg \in Segs /\ o.need \subseteq Repos
           /\ NoJob \in Jobs /\ FgIdle \in Foregrounds /\ AsyncOff \in Asyncs
<1>1. /\ fg \in Foregrounds /\ async \in Asyncs /\ job \in [Segs -> Jobs]
      /\ orphan \subseteq [seg : Segs, need : SUBSET Repos]
    BY DEF TypeOK
<1>2. fg.seg \in Segs \cup {NoSeg} /\ async.todo \subseteq Segs /\ async.okList \subseteq Segs
    BY <1>1 DEF Foregrounds, Asyncs
<1>3. \A s \in Segs : job[s] \in Jobs /\ job[s].need \subseteq Repos /\ job[s].down \subseteq Repos
    BY <1>1 DEF Jobs
<1>4. \A o \in orphan : o.seg \in Segs /\ o.need \subseteq Repos
    BY <1>1
<1>5. NoJob \in Jobs /\ FgIdle \in Foregrounds /\ AsyncOff \in Asyncs
    BY DEF NoJob, Jobs, FgIdle, Foregrounds, AsyncOff, Asyncs, NoSeg, Global
<1> QED
    BY <1>1, <1>2, <1>3, <1>4, <1>5 DEF TypeOK

LEMMA PushTypeStep == TypeOK /\ FgInv /\ Next => TypeOK'
<1> SUFFICES ASSUME TypeOK, FgInv, Next PROVE TypeOK'
    OBVIOUS
<1> USE ArchivePushAssumption
<1>0. /\ fg \in Foregrounds /\ fg.seg \in Segs \cup {NoSeg}
      /\ async \in Asyncs /\ async.todo \subseteq Segs /\ async.okList \subseteq Segs
      /\ job \in [Segs -> Jobs] /\ \A s \in Segs : job[s] \in Jobs /\ job[s].need \subseteq Repos /\ job[s].down \subseteq Repos
      /\ archive \in [Repos -> [Segs -> {"none", "wal", "recycled", "other"}]]
      /\ wal \in [Segs -> {"wal", "recycled"}]
      /\ ready \subseteq Segs /\ acked \subseteq Segs /\ okFile \subseteq Segs /\ dropped \subseteq Segs
      /\ valid \subseteq Repos
      /\ orphan \subseteq [seg : Segs, need : SUBSET Repos]
      /\ \A o \in orphan : o.seg \in Segs /\ o.need \subseteq Repos
      /\ NoJob \in Jobs /\ FgIdle \in Foregrounds /\ AsyncOff \in Asyncs
    BY PushTypes
<1>a. errFile \subseteq Segs \cup {Global} /\ starting \in Nat /\ faults \in 0 .. MaxFault
    BY DEF TypeOK
<1>b. ASSUME NEW f \in BOOLEAN, MayFail(f), Fault(f) PROVE faults' \in 0 .. MaxFault
    BY <1>a, <1>b DEF MayFail, Fault
<1>c. \A fail \in SUBSET Repos : NewJob(fail) \in Jobs
    BY NewJobs
<1>d. [s \in Segs |-> NoJob] \in [Segs -> Jobs]
    BY <1>0
<1>e. \A s \in Segs, repos \in SUBSET Repos :
        CopyTo(s, repos) => archive' \in [Repos -> [Segs -> {"none", "wal", "recycled", "other"}]]
    BY <1>0 DEF CopyTo
<1>f. Left \subseteq [seg : Segs, need : SUBSET Repos]
    BY <1>0 DEF Left
<1>g. /\ \A x \in FgPcs : [fg EXCEPT !.pc = x] \in Foregrounds
      /\ \A x \in FgPcs, f \in Segs \cup {Global} : [fg EXCEPT !.pc = x, !.file = f] \in Foregrounds
      /\ \A x \in FgPcs : [fg EXCEPT !.pc = x, !.throwOnError = TRUE] \in Foregrounds
      /\ \A x \in FgPcs : [fg EXCEPT !.pc = x, !.forked = TRUE, !.throwOnError = TRUE] \in Foregrounds
  <2> SUFFICES ASSUME NEW x \in FgPcs
               PROVE  /\ [fg EXCEPT !.pc = x] \in Foregrounds
                      /\ \A f \in Segs \cup {Global} : [fg EXCEPT !.pc = x, !.file = f] \in Foregrounds
                      /\ [fg EXCEPT !.pc = x, !.throwOnError = TRUE] \in Foregrounds
                      /\ [fg EXCEPT !.pc = x, !.forked = TRUE, !.throwOnError = TRUE] \in Foregrounds
      BY Zenon
  <2>1. [fg EXCEPT !.pc = x] \in Foregrounds
      BY <1>0 DEF Foregrounds, FgPcs
  <2>2. \A f \in Segs \cup {Global} : [fg EXCEPT !.pc = x, !.file = f] \in Foregrounds
      BY Zenon, <1>0 DEF Foregrounds, FgPcs
  <2>3. [fg EXCEPT !.pc = x, !.throwOnError = TRUE] \in Foregrounds
      BY Zenon, <1>0 DEF Foregrounds, FgPcs
  <2>4. [fg EXCEPT !.pc = x, !.forked = TRUE, !.throwOnError = TRUE] \in Foregrounds
      BY Zenon, <1>0 DEF Foregrounds, FgPcs
  <2> QED
      BY ZenonT(30), <2>1, <2>2, <2>3, <2>4
<1>1. CASE PgReady
  <2>1. ready' \subseteq Segs
      BY <1>0, <1>1 DEF PgReady
  <2> QED
      BY <1>1, <2>1 DEF PgReady, TypeOK, spool, asyncVars
<1>2. ASSUME NEW s \in Segs, PgRecycle(s) PROVE TypeOK'
    BY <1>0, <1>2 DEF PgRecycle, TypeOK, spool, asyncVars
<1>3. CASE PgReturn
  <2>1. fg.pc = "pushed" => fg.seg \in Segs
      BY <1>0 DEF FgInv
  <2> QED
      BY <1>0, <1>3, <2>1 DEF PgReturn, TypeOK, spool, asyncVars
<1>4. CASE PgCrash
    BY <1>0, <1>a, <1>d, <1>4 DEF PgCrash, Fault, TypeOK, spool, pgVars
<1>5. ASSUME NEW s \in Segs, JobFind(s) PROVE TypeOK'
  <2>1. \/ job' = [job EXCEPT ![s] = Aborted]
        \/ \E fail \in SUBSET valid : job' = [job EXCEPT ![s] = Copying(s, fail)]
      BY Zenon, <1>5 DEF JobFind, JobAbort, Aborted, Copying
  <2>2. job' \in [Segs -> Jobs]
    <3>1. Aborted \in Jobs
        BY Zenon DEF Jobs, NoJob, Aborted
    <3>2. \A fail \in SUBSET valid : Copying(s, fail) \in Jobs
        BY <1>0 DEF Jobs, Copying
    <3> QED
        BY Zenon, <1>0, <2>1, <3>1, <3>2
  <2>3. faults' \in 0 .. MaxFault
    <3>1. \E f \in BOOLEAN : MayFail(f) /\ Fault(f)
        BY Zenon, <1>5 DEF JobFind
    <3> QED
        BY Zenon, <1>b, <3>1
  <2> QED
      BY <1>5, <2>2, <2>3 DEF JobFind, TypeOK, spool, pgVars
<1>6. ASSUME NEW s \in Segs, JobCopy(s) PROVE TypeOK'
  <2>1. \/ job' = [job EXCEPT ![s] = Aborted] /\ archive' = archive
        \/ \E fail \in SUBSET job[s].need :
              CopyTo(s, job[s].need \ fail) /\ job' = [job EXCEPT ![s] = Ended(s, fail)]
      BY Zenon, <1>6 DEF JobCopy, JobAbort, Aborted, Ended
  <2>2. job' \in [Segs -> Jobs]
    <3>1. Aborted \in Jobs
        BY Zenon DEF Jobs, NoJob, Aborted
    <3>2. ASSUME NEW fail \in SUBSET job[s].need PROVE Ended(s, fail) \in Jobs
      <4>1. job[s].down \cup fail \in SUBSET Repos
          BY <1>0
      <4> QED
          BY Zenon, <4>1 DEF Jobs, NoJob, Ended, CopyResult
    <3> QED
        BY Zenon, <1>0, <2>1, <3>1, <3>2
  <2>3. faults' \in 0 .. MaxFault
    <3>1. \E f \in BOOLEAN : MayFail(f) /\ Fault(f)
        BY Zenon, <1>6 DEF JobCopy
    <3> QED
        BY Zenon, <1>b, <3>1
  <2>4. archive' \in [Repos -> [Segs -> {"none", "wal", "recycled", "other"}]]
      BY <1>0, <1>e, <2>1
  <2> QED
      BY <1>6, <2>2, <2>3, <2>4 DEF JobCopy, TypeOK, spool, pgVars
<1>7. ASSUME NEW o \in orphan, OrphanCopy(o) PROVE TypeOK'
  <2>1. PICK fail \in SUBSET o.need : MayFail(fail # {}) /\ Fault(fail # {}) /\ CopyTo(o.seg, o.need \ fail)
      BY Zenon, <1>7 DEF OrphanCopy
  <2>2. archive' \in [Repos -> [Segs -> {"none", "wal", "recycled", "other"}]]
    <3>1. o.seg \in Segs /\ o.need \ fail \in SUBSET Repos
        BY <1>0
    <3> QED
        BY <1>e, <2>1, <3>1
  <2>3. faults' \in 0 .. MaxFault
      BY Zenon, <1>b, <2>1
  <2> QED
      BY <1>0, <1>7, <2>2, <2>3 DEF OrphanCopy, TypeOK, spool, pgVars
<1>8. CASE FgStart
  <2>1. PICK s \in Segs : \E x \in {"error", "status", "sync"} : fg' = [FgIdle EXCEPT !.seg = s, !.pc = x]
      BY Zenon, <1>0, <1>8 DEF FgStart
  <2>2. fg' \in Foregrounds
      BY Zenon, <2>1 DEF FgIdle, Foregrounds, Global
  <2> QED
      BY <1>8, <2>2 DEF FgStart, TypeOK, spool, pgVars, asyncVars
<1>9. CASE FgStatus \/ FgRead \/ FgWait
  <2>1. fg' \in Foregrounds
    <3>1. CASE FgStatus
      <4>1. \/ fg' \in {[fg EXCEPT !.pc = "readOk"], [fg EXCEPT !.pc = "statusError"]}
            \/ fg.seg \in errFile /\ fg' = [fg EXCEPT !.pc = "readError", !.file = fg.seg]
            \/ fg' \in {[fg EXCEPT !.pc = "statusGlobal"], [fg EXCEPT !.pc = "lock"]}
            \/ fg' = [fg EXCEPT !.pc = "readError", !.file = Global]
          BY <3>1 DEF FgStatus
      <4>2. /\ fg.seg \in errFile => [fg EXCEPT !.pc = "readError", !.file = fg.seg] \in Foregrounds
            /\ [fg EXCEPT !.pc = "readError", !.file = Global] \in Foregrounds
          BY Zenon, <1>0, <1>a DEF Foregrounds
      <4>3. {"readOk", "statusError", "statusGlobal", "lock", "readError"} \subseteq FgPcs
          BY DEF FgPcs
      <4> QED
          BY Zenon, <1>g, <4>1, <4>2, <4>3
    <3>2. CASE FgRead
      <4>1. \/ fg' \in {[fg EXCEPT !.pc = "pushed"], [fg EXCEPT !.pc = "error"], [fg EXCEPT !.pc = "lock"]}
          BY <3>2 DEF FgRead
      <4> QED
          BY Zenon, <1>g, <4>1 DEF FgPcs
    <3>3. CASE FgWait
        BY Zenon, <1>g, <3>3 DEF FgWait, FgPcs
    <3> QED
        BY <1>9, <3>1, <3>2, <3>3
  <2> QED
      BY <1>9, <2>1 DEF FgStatus, FgRead, FgWait, TypeOK, spool, pgVars, asyncVars
<1>10. CASE FgLock
  <2>1. fg' \in Foregrounds /\ lock' \in {lock, "fg"}
    <3>1. /\ fg' \in {[fg EXCEPT !.pc = "clear"], [fg EXCEPT !.pc = "wait", !.throwOnError = TRUE]}
          /\ lock' \in {lock, "fg"}
        BY <1>10 DEF FgLock
    <3> QED
        BY Zenon, <1>g, <3>1 DEF FgPcs
  <2> QED
      BY <1>10, <2>1 DEF FgLock, TypeOK, spool, pgVars, asyncVars
<1>11. CASE FgClear \/ FgRelease \/ FgExec
  <2>1. fg' \in Foregrounds
    <3>1. fg' \in {[fg EXCEPT !.pc = "release"], [fg EXCEPT !.pc = "exec"],
                    [fg EXCEPT !.pc = "wait", !.forked = TRUE, !.throwOnError = TRUE]}
        BY <1>11 DEF FgClear, FgRelease, FgExec
    <3> QED
        BY Zenon, <1>g, <3>1 DEF FgPcs
  <2>2. CASE FgClear
      BY <1>a, <2>1, <2>2 DEF FgClear, TypeOK, spool, pgVars, asyncVars
  <2>3. CASE FgRelease
      BY <2>1, <2>3 DEF FgRelease, TypeOK, spool, pgVars, asyncVars
  <2>4. CASE FgExec
      BY <2>1, <2>4 DEF FgExec, TypeOK, spool, pgVars
  <2> QED
      BY <1>11, <2>2, <2>3, <2>4
<1>12. CASE FgTimeout
  <2>1. fg' \in Foregrounds
      BY <1>0, <1>12 DEF FgTimeout, Foregrounds
  <2>2. faults' \in 0 .. MaxFault
      BY <1>a, <1>12 DEF FgTimeout, MayFail, Fault
  <2> QED
      BY <1>12, <2>1, <2>2 DEF FgTimeout, TypeOK, spool, pgVars, asyncVars
<1>13. CASE FgSync
  <2>0. fg.seg \in Segs /\ fg.pc = "sync"
      BY <1>0, <1>13 DEF FgSync, FgInv
  <2>1. fg' \in Foregrounds
    <3>1. fg' \in {[fg EXCEPT !.pc = "pushed"], [fg EXCEPT !.pc = "push"]}
        BY <1>13 DEF FgSync
    <3> QED
        BY Zenon, <1>g, <3>1 DEF FgPcs
  <2>2. CASE /\ dropped' = dropped \cup {fg.seg} /\ UNCHANGED <<valid, job, faults>>
      BY <1>0, <1>13, <2>0, <2>1, <2>2 DEF FgSync, TypeOK, pgVars
  <2>3. ASSUME NEW fail \in SUBSET Repos, MayFail(fail # {}), Fault(fail # {}), valid' = RepoList(fail),
               job' = [job EXCEPT ![fg.seg] = NewJob(fail)], dropped' = dropped
        PROVE  TypeOK'
    <3>1. job' \in [Segs -> Jobs]
        BY Zenon, <1>0, <1>c, <2>0, <2>3
    <3>2. valid' \subseteq Repos /\ faults' \in 0 .. MaxFault
        BY Zenon, <1>b, <2>3 DEF RepoList
    <3> QED
        BY <1>13, <2>1, <2>3, <3>1, <3>2 DEF FgSync, TypeOK, pgVars
  <2> QED
      BY Zenon, <1>13, <2>2, <2>3 DEF FgSync
<1>14. CASE FgSyncResult
  <2>1. fg' \in Foregrounds /\ job' \in [Segs -> Jobs]
      BY Zenon, <1>0, <1>14 DEF FgSyncResult, Foregrounds
  <2> QED
      BY <1>14, <2>1 DEF FgSyncResult, TypeOK, spool, pgVars
<1>15. CASE AsyncStart
  <2>1. async' \in Asyncs /\ lock' \in {lock, "async"} /\ starting' \in Nat
      BY <1>0, <1>a, <1>15 DEF AsyncStart, Asyncs, AsyncOff
  <2> QED
      BY <1>15, <2>1 DEF AsyncStart, TypeOK, spool, pgVars
<1>16. CASE Ending
  <2>1. async' \in Asyncs
      BY <1>16 DEF Ending, Asyncs, AsyncOff
  <2>2. errFile' \subseteq Segs \cup {Global} /\ orphan' \subseteq [seg : Segs, need : SUBSET Repos] /\ job' \in [Segs -> Jobs]
      BY <1>0, <1>a, <1>d, <1>f, <1>16 DEF Ending
  <2>3. valid' \subseteq Repos /\ faults' \in 0 .. MaxFault
      BY <1>0, <1>a, <1>16 DEF Ending, FaultStep
  <2> QED
      BY <1>16, <2>1, <2>2, <2>3 DEF Ending, TypeOK
<1>17. CASE Listing
  <2>1. async' \in Asyncs
      BY Zenon, <1>0, <1>17 DEF Listing, Asyncs
  <2> QED
      BY <1>17, <2>1 DEF Listing, TypeOK
<1>18. CASE Pushing
  <2>1. async' \in Asyncs
      BY Zenon, <1>0, <1>18 DEF Pushing, Asyncs
  <2>3. job' \in [Segs -> Jobs] /\ valid' \subseteq Repos
      BY Zenon, <1>0, <1>c, <1>18 DEF Pushing, RepoList
  <2>2. faults' \in 0 .. MaxFault
      BY <1>a, <1>18 DEF Pushing, FaultStep
  <2> QED
      BY <1>18, <2>1, <2>2, <2>3 DEF Pushing, TypeOK
<1>19. CASE AsyncReady
  <2>1. async' \in Asyncs
      BY Zenon, <1>0, <1>19 DEF AsyncReady, Asyncs
  <2>2. okFile' \subseteq Segs
      BY <1>0, <1>19 DEF AsyncReady, OkRemove
  <2> QED
      BY <1>19, <2>1, <2>2 DEF AsyncReady, TypeOK, pgVars
<1>20. CASE AsyncDrop
  <2>1. PICK s \in async.todo : /\ okFile' = okFile \cup {s} /\ dropped' = dropped \cup {s}
                                /\ \/ async' = [async EXCEPT !.todo = async.todo \ {s}, !.pc = "exit"]
                                   \/ async' = [async EXCEPT !.todo = async.todo \ {s}, !.pc = async.pc]
      BY Zenon, <1>20 DEF AsyncDrop
  <2>2. s \in Segs /\ async.todo \ {s} \in SUBSET Segs
      BY <1>0
  <2>3. async' \in Asyncs
      BY Zenon, <1>0, <2>1, <2>2 DEF Asyncs
  <2>4. okFile' \subseteq Segs /\ dropped' \subseteq Segs
      BY <1>0, <2>1, <2>2
  <2> QED
      BY <1>20, <2>3, <2>4 DEF AsyncDrop, TypeOK, pgVars
<1>21. ASSUME NEW s \in Segs, AsyncResult(s) PROVE TypeOK'
  <2>1. async' \in Asyncs /\ job' \in [Segs -> Jobs]
      BY Zenon, <1>0, <1>21 DEF AsyncResult, Asyncs
  <2>2. okFile' \subseteq Segs /\ errFile' \subseteq Segs \cup {Global}
      BY <1>0, <1>a, <1>21 DEF AsyncResult
  <2> QED
      BY <1>21, <2>1, <2>2 DEF AsyncResult, TypeOK, pgVars
<1>22. CASE AsyncExit
    BY <1>0, <1>22 DEF AsyncExit, TypeOK, spool, pgVars
<1>23. CASE StopCommand \/ StartCommand \/ OtherLock \/ OtherUnlock
  <2>1. (faults' = faults \/ (faults < MaxFault /\ faults' = faults + 1)) /\ lock' \in {lock, "other", "free"}
      BY <1>23 DEF StopCommand, StartCommand, OtherLock, OtherUnlock, Fault
  <2>3. faults' \in 0 .. MaxFault
      BY <1>a, <2>1
  <2>4. stopFile' \in BOOLEAN
      BY Zenon, <1>23 DEF StopCommand, StartCommand, OtherLock, OtherUnlock, TypeOK
  <2>2. UNCHANGED <<pgVars, archive, spool, fg, asyncVars>>
      BY Zenon, <1>23 DEF StopCommand, StartCommand, OtherLock, OtherUnlock
  <2> QED
      BY <2>1, <2>2, <2>3, <2>4 DEF TypeOK, spool, pgVars, asyncVars
<1>24. CASE Quiet
    BY <1>24 DEF Quiet, vars, TypeOK
<1> QED
    BY <1>1, <1>2, <1>3, <1>4, <1>5, <1>6, <1>7, <1>8, <1>9, <1>10, <1>11, <1>12, <1>13, <1>14, <1>15, <1>16, <1>17,
       <1>18, <1>19, <1>20, <1>21, <1>22, <1>23, <1>24, EndsOrGoesOn DEF Next, FgNext, AsyncNext, JobNext

\* What a step of the foreground does to its place and its segment
LEMMA StatusPlaces ==
    ASSUME TypeOK
    PROVE  /\ FgStatus => /\ fg'.seg = fg.seg
                          /\ fg.pc \in {"status", "statusError", "statusGlobal"}
                          /\ fg'.pc \in {"readOk", "statusError", "readError", "statusGlobal", "lock"}
                          /\ fg'.pc = "readOk" => fg.seg \in okFile
           /\ FgRead => /\ fg'.seg = fg.seg
                        /\ fg.pc \in {"readOk", "readError"}
                        /\ fg'.pc \in {"pushed", "error", "lock"}
                        /\ fg'.pc = "pushed" => fg.seg \in okFile
<1>1. fg \in Foregrounds
    BY DEF TypeOK
<1>2. FgStatus => /\ fg'.seg = fg.seg
                  /\ fg.pc \in {"status", "statusError", "statusGlobal"}
                  /\ fg'.pc \in {"readOk", "statusError", "readError", "statusGlobal", "lock"}
                  /\ fg'.pc = "readOk" => fg.seg \in okFile
    BY Zenon, <1>1 DEF FgStatus, Foregrounds
<1>3. FgRead => /\ fg'.seg = fg.seg
                /\ fg.pc \in {"readOk", "readError"}
                /\ fg'.pc \in {"pushed", "error", "lock"}
                /\ fg'.pc = "pushed" => fg.seg \in okFile
    BY <1>1 DEF FgRead, Foregrounds
<1> QED
    BY <1>2, <1>3

LEMMA LockPlaces ==
    ASSUME TypeOK
    PROVE  /\ FgLock => /\ fg'.seg = fg.seg /\ fg.pc = "lock"
                        /\ \/ fg'.pc = "clear" /\ lock = "free" /\ lock' = "fg"
                           \/ fg'.pc = "wait" /\ lock' = lock
           /\ FgClear => fg'.seg = fg.seg /\ fg.pc = "clear" /\ fg'.pc = "release"
           /\ FgRelease => fg'.seg = fg.seg /\ fg.pc = "release" /\ fg'.pc = "exec"
           /\ FgExec => fg'.seg = fg.seg /\ fg.pc = "exec" /\ fg'.pc = "wait"
           /\ FgWait => fg'.seg = fg.seg /\ fg.pc = "wait" /\ fg'.pc = "status"
           /\ FgTimeout => fg'.seg = fg.seg /\ fg.pc = "wait" /\ fg'.pc = "error"
<1>1. fg \in Foregrounds
    BY DEF TypeOK
<1>2. FgLock => /\ fg'.seg = fg.seg /\ fg.pc = "lock"
                /\ \/ fg'.pc = "clear" /\ lock = "free" /\ lock' = "fg"
                   \/ fg'.pc = "wait" /\ lock' = lock
    BY Zenon, <1>1 DEF FgLock, Foregrounds
<1>3. /\ FgClear => fg'.seg = fg.seg /\ fg.pc = "clear" /\ fg'.pc = "release"
      /\ FgRelease => fg'.seg = fg.seg /\ fg.pc = "release" /\ fg'.pc = "exec"
    BY <1>1 DEF FgClear, FgRelease, Foregrounds
<1>4. /\ FgExec => fg'.seg = fg.seg /\ fg.pc = "exec" /\ fg'.pc = "wait"
      /\ FgWait => fg'.seg = fg.seg /\ fg.pc = "wait" /\ fg'.pc = "status"
      /\ FgTimeout => fg'.seg = fg.seg /\ fg.pc = "wait" /\ fg'.pc = "error"
    BY Zenon, <1>1 DEF FgExec, FgWait, FgTimeout, Foregrounds
<1> QED
    BY <1>2, <1>3, <1>4

LEMMA CommandPlaces ==
    ASSUME TypeOK
    PROVE  /\ FgStart => /\ fg'.seg \in ready /\ fg.pc = "idle"
                         /\ fg'.pc = "error" \/ (archiveAsync /\ fg'.pc = "status") \/ (~archiveAsync /\ fg'.pc = "sync")
           /\ FgSyncResult => /\ fg'.seg = fg.seg /\ fg.pc = "push"
                              /\ \/ job[fg.seg].pc = "ok" /\ fg'.pc = "pushed"
                                 \/ job[fg.seg].pc \in {"err", "abort"} /\ fg'.pc = "error"
           /\ PgReturn \/ PgCrash => fg'.pc = "idle"
<1>1. fg \in Foregrounds
    BY DEF TypeOK
<1>2. FgStart => /\ fg'.seg \in ready /\ fg.pc = "idle"
                 /\ fg'.pc = "error" \/ (archiveAsync /\ fg'.pc = "status") \/ (~archiveAsync /\ fg'.pc = "sync")
    BY DEF FgStart, FgIdle
<1>3. FgSyncResult => /\ fg'.seg = fg.seg /\ fg.pc = "push"
                      /\ \/ job[fg.seg].pc = "ok" /\ fg'.pc = "pushed"
                         \/ job[fg.seg].pc \in {"err", "abort"} /\ fg'.pc = "error"
    BY <1>1 DEF FgSyncResult, Foregrounds
<1>4. PgReturn \/ PgCrash => fg'.pc = "idle"
  <2>1. PgReturn \/ PgCrash => fg' = FgIdle
      BY Zenon DEF PgReturn, PgCrash
  <2> QED
      BY <2>1 DEF FgIdle
<1> QED
    BY <1>2, <1>3, <1>4

\* The two ways of FgSync: drop the segment, or check the repositories
LEMMA SyncPlaces ==
    ASSUME TypeOK, FgSync
    PROVE  /\ fg.pc = "sync" /\ fg'.seg = fg.seg
           /\ \/ /\ dropped' = dropped \cup {fg.seg} /\ fg'.pc = "pushed"
                 /\ UNCHANGED <<valid, job>>
              \/ /\ dropped' = dropped /\ fg'.pc = "push"
                 /\ \E fail \in SUBSET Repos :
                      valid' = RepoList(fail) /\ job' = [job EXCEPT ![fg.seg] = NewJob(fail)]
<1>1. fg \in Foregrounds
    BY DEF TypeOK
<1>2. fg.pc = "sync"
    BY DEF FgSync
<1>3. \/ /\ dropped' = dropped \cup {fg.seg} /\ fg' = [fg EXCEPT !.pc = "pushed"]
         /\ UNCHANGED <<valid, job>>
      \/ /\ dropped' = dropped /\ fg' = [fg EXCEPT !.pc = "push"]
         /\ \E fail \in SUBSET Repos :
              valid' = RepoList(fail) /\ job' = [job EXCEPT ![fg.seg] = NewJob(fail)]
    BY Zenon DEF FgSync
<1>4. \A x \in {"pushed", "push"} : [fg EXCEPT !.pc = x].pc = x /\ [fg EXCEPT !.pc = x].seg = fg.seg
    BY <1>1 DEF Foregrounds
<1> QED
    BY Zenon, <1>2, <1>3, <1>4

\* What a step of the async process does to its place
LEMMA AsyncPlaces ==
    ASSUME TypeOK
    PROVE  /\ AsyncStart => \/ lock = "free" /\ lock' = "async" /\ async'.pc = "begin"
                            \/ UNCHANGED <<lock, async>>
           /\ Ending => async'.pc = "exit"
           /\ Listing => async'.pc = "ready" /\ async'.okList = okFile
           /\ Pushing => async'.pc = "push" /\ async'.todo = async.todo
           /\ AsyncReady => /\ async.pc = "ready" /\ async'.pc \in {"empty", "drop", "check"}
                            /\ async'.todo = ready \ async.okList
           /\ AsyncDrop => /\ async.pc = "drop" /\ async'.pc \in {"exit", "drop"}
                           /\ \E s \in async.todo : /\ async'.todo = async.todo \ {s}
                                                     /\ okFile' = okFile \cup {s} /\ dropped' = dropped \cup {s}
           /\ \A s \in Segs : AsyncResult(s) =>
                /\ async.pc = "push" /\ async'.todo = async.todo \ {s}
                /\ async'.pc \in {"exit", "push"} /\ (async'.pc = "exit" => async.todo = {s})
           /\ AsyncExit => async.pc = "exit" /\ async'.pc = "off"
<1>1. async \in Asyncs
    BY DEF TypeOK
<1>2. AsyncStart => \/ lock = "free" /\ lock' = "async" /\ async'.pc = "begin"
                    \/ UNCHANGED <<lock, async>>
    BY DEF AsyncStart, AsyncOff
<1>3. Ending => async'.pc = "exit"
    BY DEF Ending, AsyncOff
<1>4. Listing => async'.pc = "ready" /\ async'.okList = okFile
    BY <1>1 DEF Listing, Asyncs
<1>5. Pushing => async'.pc = "push" /\ async'.todo = async.todo
    BY <1>1 DEF Pushing, Asyncs
<1>6. ASSUME AsyncReady
      PROVE  /\ async.pc = "ready" /\ async'.pc \in {"empty", "drop", "check"}
             /\ async'.todo = ready \ async.okList
    BY <1>1, <1>6 DEF AsyncReady, Asyncs
<1>7. ASSUME AsyncDrop
      PROVE  /\ async.pc = "drop" /\ async'.pc \in {"exit", "drop"}
             /\ \E s \in async.todo : /\ async'.todo = async.todo \ {s}
                                       /\ okFile' = okFile \cup {s} /\ dropped' = dropped \cup {s}
  <2>1. PICK s \in async.todo : /\ okFile' = okFile \cup {s} /\ dropped' = dropped \cup {s}
                                /\ \/ async' = [async EXCEPT !.todo = async.todo \ {s}, !.pc = "exit"]
                                   \/ async' = [async EXCEPT !.todo = async.todo \ {s}, !.pc = async.pc]
      BY Zenon, <1>7 DEF AsyncDrop
  <2>2. async.pc = "drop"
      BY <1>7 DEF AsyncDrop
  <2>3. async'.todo = async.todo \ {s} /\ async'.pc \in {"exit", "drop"}
      BY Zenon, <1>1, <2>1, <2>2 DEF Asyncs
  <2> QED
      BY <2>1, <2>2, <2>3
<1>8. ASSUME NEW s \in Segs, AsyncResult(s)
      PROVE  /\ async.pc = "push" /\ async'.todo = async.todo \ {s}
             /\ async'.pc \in {"exit", "push"} /\ (async'.pc = "exit" => async.todo = {s})
    BY <1>1, <1>8 DEF AsyncResult, Asyncs
<1>9. AsyncExit => async.pc = "exit" /\ async'.pc = "off"
    BY DEF AsyncExit, AsyncOff
<1> QED
    BY <1>2, <1>3, <1>4, <1>5, <1>6, <1>7, <1>8, <1>9

\* What a step leaves alone
LEMMA FrameMove ==
    /\ FgStatus \/ FgRead \/ FgWait \/ FgTimeout \/ FgClear =>
        UNCHANGED <<archiveAsync, ready, acked, wal, archive, okFile, dropped, lock, starting, async, valid, job, orphan>>
    /\ FgStart =>
        UNCHANGED <<archiveAsync, ready, acked, wal, archive, okFile, dropped, lock, starting, async, valid, job, orphan>>
    BY Zenon DEF FgStatus, FgRead, FgWait, FgTimeout, FgClear, FgStart, pgVars, spool, asyncVars

LEMMA FrameLock ==
    /\ FgLock \/ FgRelease =>
        UNCHANGED <<archiveAsync, ready, acked, wal, archive, okFile, dropped, starting, async, valid, job, orphan>>
    /\ FgExec =>
        UNCHANGED <<archiveAsync, ready, acked, wal, archive, okFile, dropped, lock, async, valid, job, orphan>>
    BY DEF FgLock, FgRelease, FgExec, pgVars, spool, asyncVars

LEMMA FrameSync ==
    /\ FgSync =>
        UNCHANGED <<archiveAsync, ready, acked, wal, archive, okFile, lock, starting, async, orphan>>
    /\ FgSyncResult =>
        UNCHANGED <<archiveAsync, ready, acked, wal, archive, okFile, dropped, lock, starting, async, valid, orphan>>
    BY DEF FgSync, FgSyncResult, pgVars, spool, asyncVars

LEMMA FramePg ==
    /\ PgReady =>
        UNCHANGED <<archiveAsync, acked, wal, archive, okFile, dropped, lock, fg, starting, async, valid, job, orphan>>
    /\ PgReturn =>
        UNCHANGED <<archiveAsync, wal, archive, okFile, dropped, starting, async, valid, job, orphan>>
    /\ PgCrash =>
        UNCHANGED <<archiveAsync, ready, acked, wal, archive, okFile, dropped, starting, async, valid, orphan>>
    /\ \A s \in Segs : PgRecycle(s) =>
        UNCHANGED <<archiveAsync, ready, acked, archive, okFile, dropped, lock, fg, starting, async, valid, job, orphan>>
    BY Zenon DEF PgReady, PgReturn, PgCrash, PgRecycle, pgVars, spool, asyncVars

LEMMA FrameJob ==
    /\ \A s \in Segs : JobFind(s) =>
        UNCHANGED <<archiveAsync, ready, acked, wal, archive, okFile, dropped, lock, fg, starting, async, valid, orphan>>
    /\ \A s \in Segs : JobCopy(s) =>
        UNCHANGED <<archiveAsync, ready, acked, wal, okFile, dropped, lock, fg, starting, async, valid, orphan>>
    /\ \A o \in orphan : OrphanCopy(o) =>
        UNCHANGED <<archiveAsync, ready, acked, wal, okFile, dropped, lock, fg, starting, async, valid, job>>
    BY DEF JobFind, JobCopy, OrphanCopy, pgVars, spool, asyncVars

LEMMA FrameAsync ==
    /\ AsyncStart =>
        UNCHANGED <<archiveAsync, ready, acked, wal, archive, okFile, dropped, fg, valid, job, orphan>>
    /\ AsyncReady =>
        UNCHANGED <<archiveAsync, ready, acked, wal, archive, dropped, lock, fg, starting, valid, job, orphan>>
    /\ AsyncDrop =>
        UNCHANGED <<archiveAsync, ready, acked, wal, archive, lock, fg, starting, valid, job, orphan>>
    /\ \A s \in Segs : AsyncResult(s) =>
        UNCHANGED <<archiveAsync, ready, acked, wal, archive, dropped, lock, fg, starting, valid, orphan>>
    /\ AsyncExit =>
        UNCHANGED <<archiveAsync, ready, acked, wal, archive, okFile, dropped, fg, starting, valid, job, orphan>>
    BY Zenon DEF AsyncStart, AsyncReady, AsyncDrop, AsyncResult, AsyncExit, pgVars, spool, asyncVars

LEMMA FrameOther ==
    /\ StopCommand \/ StartCommand \/ Quiet =>
        UNCHANGED <<archiveAsync, ready, acked, wal, archive, okFile, dropped, lock, fg, starting, async, valid, job, orphan>>
    /\ OtherLock \/ OtherUnlock =>
        UNCHANGED <<archiveAsync, ready, acked, wal, archive, okFile, dropped, fg, starting, async, valid, job, orphan>>
    BY Zenon DEF StopCommand, StartCommand, Quiet, OtherLock, OtherUnlock, pgVars, spool, asyncVars, vars

LEMMA NextCases ==
    Next =>
        \/ PgReady \/ PgReturn \/ PgCrash \/ (\E s \in Segs : PgRecycle(s))
        \/ FgStart \/ FgStatus \/ FgRead \/ FgLock \/ FgClear \/ FgRelease \/ FgExec \/ FgWait \/ FgTimeout
        \/ FgSync \/ FgSyncResult
        \/ (\E s \in Segs : JobFind(s)) \/ (\E s \in Segs : JobCopy(s)) \/ (\E o \in orphan : OrphanCopy(o))
        \/ AsyncStart \/ Listing \/ AsyncReady \/ AsyncDrop \/ Pushing \/ (\E s \in Segs : AsyncResult(s))
        \/ Ending \/ AsyncExit
        \/ StopCommand \/ StartCommand \/ Quiet \/ OtherLock \/ OtherUnlock
    BY EndsOrGoesOn DEF Next, FgNext, AsyncNext, JobNext

LEMMA QueueStep == PushInv /\ Next => QueueInv'
<1> SUFFICES ASSUME PushInv, Next PROVE QueueInv'
    OBVIOUS
<1> USE ArchivePushAssumption
<1>0. TypeOK /\ QueueInv /\ FgInv /\ ready \subseteq Segs /\ acked \subseteq Segs
    BY PushTypes DEF PushInv
<1>1. CASE PgReady
    BY <1>0, <1>1 DEF PgReady, QueueInv
<1>2. CASE PgReturn
  <2>1. \/ fg.seg \in ready /\ ready' = ready \ {fg.seg} /\ acked' = acked \cup {fg.seg}
        \/ UNCHANGED <<ready, acked>>
      BY <1>0, <1>2 DEF PgReturn, FgInv
  <2>2. ready' \cap acked' = {} /\ ready' \cup acked' = ready \cup acked
      BY <1>0, <2>1 DEF QueueInv
  <2> QED
      BY <1>0, <2>2 DEF QueueInv
<1>3. CASE UNCHANGED <<ready, acked>>
    BY <1>0, <1>3 DEF QueueInv
<1>4. Next => PgReady \/ PgReturn \/ UNCHANGED <<ready, acked>>
    BY Zenon, NextCases, FrameMove, FrameLock, FrameSync, FramePg, FrameJob, FrameAsync, FrameOther DEF Ending, Listing, Pushing
<1> QED
    BY <1>1, <1>2, <1>3, <1>4

LEMMA LockStep == PushInv /\ Next => LockInv'
<1> SUFFICES ASSUME PushInv, Next PROVE LockInv'
    OBVIOUS
<1>0. TypeOK /\ LockInv /\ TodoInv
    BY DEF PushInv
<1>1. CASE UNCHANGED <<lock, async, orphan>> /\ (fg' = fg \/ fg'.pc \notin {"clear", "release"})
    BY <1>0, <1>1 DEF LockInv
<1>2. CASE PgReturn \/ PgCrash
  <2>1. async' = async /\ orphan' = orphan /\ fg'.pc = "idle" /\ lock' = IF lock = "fg" THEN "free" ELSE lock
      BY ZenonT(30), <1>0, <1>2, FramePg, CommandPlaces DEF PgReturn, PgCrash
  <2> QED
      BY <1>0, <2>1 DEF LockInv
<1>3. CASE FgLock
    BY <1>0, <1>3, FrameLock, LockPlaces DEF LockInv
<1>4. CASE FgClear
    BY ZenonT(30), <1>0, <1>4, FrameMove, LockPlaces DEF LockInv
<1>5. CASE FgRelease
  <2>1. lock' = "free"
      BY <1>5 DEF FgRelease
  <2> QED
      BY <1>0, <1>5, <2>1, FrameLock, LockPlaces DEF LockInv
<1>6. ASSUME NEW o \in orphan, OrphanCopy(o) PROVE LockInv'
  <2>1. orphan' \subseteq orphan /\ UNCHANGED <<lock, fg, async>>
      BY <1>6, FrameJob DEF OrphanCopy
  <2> QED
      BY <1>0, <1>6, <2>1 DEF LockInv
<1>7. CASE AsyncStart
  <2>1. /\ fg' = fg /\ orphan' = orphan
        /\ \/ lock = "free" /\ lock' = "async" /\ async'.pc = "begin"
           \/ UNCHANGED <<lock, async>>
      BY <1>0, <1>7, FrameAsync, AsyncPlaces
  <2> QED
      BY <1>0, <2>1 DEF LockInv
<1>8. CASE Ending
  <2>1. async.pc # "off" /\ async'.pc = "exit" /\ UNCHANGED <<lock, fg>>
      BY <1>0, <1>8, AsyncPlaces DEF Ending
  <2> QED
      BY <1>0, <2>1 DEF LockInv
<1>9. CASE Listing \/ Pushing \/ AsyncReady \/ AsyncDrop
  <2>1. /\ async.pc \notin {"off", "exit"} /\ async'.pc # "off" /\ UNCHANGED <<lock, fg, orphan>>
      BY <1>0, <1>9, FrameAsync, AsyncPlaces DEF Listing, Pushing
  <2> QED
      BY <1>0, <2>1 DEF LockInv
<1>10. ASSUME NEW s \in Segs, AsyncResult(s) PROVE LockInv'
  <2>1. /\ async.pc \notin {"off", "exit"} /\ async'.pc # "off" /\ UNCHANGED <<lock, fg, orphan>>
      BY <1>0, <1>10, FrameAsync, AsyncPlaces
  <2> QED
      BY <1>0, <2>1 DEF LockInv
<1>11. CASE AsyncExit
  <2>1. /\ async.pc = "exit" /\ async'.pc = "off" /\ orphan = {} /\ lock' = "free" /\ UNCHANGED <<fg, orphan>>
      BY <1>0, <1>11, FrameAsync, AsyncPlaces DEF AsyncExit
  <2> QED
      BY <1>0, <2>1 DEF LockInv
<1>12. CASE OtherLock \/ OtherUnlock
  <2>1. /\ lock \in {"free", "other"} /\ lock' \in {"free", "other"} /\ UNCHANGED <<fg, async, orphan>>
      BY Zenon, <1>12, FrameOther DEF OtherLock, OtherUnlock
  <2> QED
      BY <1>0, <2>1 DEF LockInv
<1>13. CASE FgStart \/ FgStatus \/ FgRead \/ FgExec \/ FgWait \/ FgTimeout \/ FgSyncResult
    BY <1>0, <1>1, <1>13, FrameMove, FrameLock, FrameSync, StatusPlaces, LockPlaces, CommandPlaces
<1>14. CASE FgSync
    BY <1>0, <1>1, <1>14, FrameSync, SyncPlaces
<1>15. ASSUME NEW s \in Segs, JobFind(s) \/ JobCopy(s) \/ PgRecycle(s) PROVE LockInv'
    BY <1>1, <1>15, FramePg, FrameJob
<1>16. CASE PgReady \/ StopCommand \/ StartCommand \/ Quiet
    BY <1>1, <1>16, FramePg, FrameOther
<1> QED
    BY <1>2, <1>3, <1>4, <1>5, <1>6, <1>7, <1>8, <1>9, <1>10, <1>11, <1>12, <1>13, <1>14, <1>15, <1>16, NextCases

\* What a step does to the jobs
LEMMA JobPlaces ==
    ASSUME TypeOK, FgInv
    PROVE  /\ \A s \in Segs : JobFind(s) =>
                /\ job[s].pc = "todo" /\ job'[s].pc \in {"abort", "copy"}
                /\ \A t \in Segs : t # s => job'[t] = job[t]
           /\ \A s \in Segs : JobCopy(s) =>
                /\ job[s].pc = "copy" /\ job'[s].pc \in {"err", "ok", "abort"}
                /\ \A t \in Segs : t # s => job'[t] = job[t]
           /\ \A s \in Segs : AsyncResult(s) =>
                /\ job[s].pc \in {"err", "ok", "abort"} /\ job'[s].pc = "none"
                /\ \A t \in Segs : t # s => job'[t] = job[t]
           /\ FgSyncResult =>
                /\ fg.seg \in Segs /\ job'[fg.seg].pc = "none"
                /\ \A t \in Segs : t # fg.seg => job'[t] = job[t]
           /\ Ending => \A s \in Segs : job'[s].pc = "none"
           /\ Pushing => \A s \in Segs : s \in async.todo \/ job'[s].pc = "none"
           /\ PgCrash => \/ archiveAsync /\ job' = job
                         \/ ~archiveAsync /\ \A s \in Segs : job'[s].pc = "none"
           /\ FgSync => \/ job' = job
                        \/ /\ fg.seg \in Segs /\ fg'.pc = "push"
                           /\ \A t \in Segs : t # fg.seg => job'[t] = job[t]
<1>0. /\ job \in [Segs -> Jobs] /\ \A s \in Segs : job[s] \in Jobs
      /\ NoSeg \notin Segs /\ (fg.pc # "idle" => fg.seg \in Segs)
    BY PushTypes DEF Segs, NoSeg, FgInv
<1>1. ASSUME NEW s \in Segs, JobFind(s)
      PROVE  /\ job[s].pc = "todo" /\ job'[s].pc \in {"abort", "copy"}
             /\ \A t \in Segs : t # s => job'[t] = job[t]
  <2>1. \/ job' = [job EXCEPT ![s] = Aborted]
        \/ \E fail \in SUBSET valid : job' = [job EXCEPT ![s] = Copying(s, fail)]
      BY Zenon, <1>1 DEF JobFind, JobAbort, Aborted, Copying
  <2>2. Aborted.pc = "abort" /\ \A fail : Copying(s, fail).pc = "copy"
      BY DEF Aborted, NoJob, Copying
  <2>3. job[s].pc = "todo"
      BY <1>1 DEF JobFind
  <2> QED
      BY <1>0, <2>1, <2>2, <2>3
<1>2. ASSUME NEW s \in Segs, JobCopy(s)
      PROVE  /\ job[s].pc = "copy" /\ job'[s].pc \in {"err", "ok", "abort"}
             /\ \A t \in Segs : t # s => job'[t] = job[t]
  <2>1. \/ job' = [job EXCEPT ![s] = Aborted]
        \/ \E fail \in SUBSET job[s].need : job' = [job EXCEPT ![s] = Ended(s, fail)]
      BY Zenon, <1>2 DEF JobCopy, JobAbort, Aborted, Ended
  <2>2. Aborted.pc = "abort" /\ \A fail : Ended(s, fail).pc \in {"err", "ok"}
      BY DEF Aborted, NoJob, Ended, CopyResult
  <2>3. job[s].pc = "copy"
      BY <1>2 DEF JobCopy
  <2> QED
      BY <1>0, <2>1, <2>2, <2>3
<1>3. ASSUME NEW s \in Segs, AsyncResult(s)
      PROVE  /\ job[s].pc \in {"err", "ok", "abort"} /\ job'[s].pc = "none"
             /\ \A t \in Segs : t # s => job'[t] = job[t]
    BY <1>0, <1>3 DEF AsyncResult, NoJob
<1>4. ASSUME FgSyncResult
      PROVE  /\ fg.seg \in Segs /\ job'[fg.seg].pc = "none"
             /\ \A t \in Segs : t # fg.seg => job'[t] = job[t]
    BY <1>0, <1>4 DEF FgSyncResult, NoJob
<1>5. Ending => \A s \in Segs : job'[s].pc = "none"
    BY DEF Ending, NoJob
<1>6. ASSUME Pushing PROVE \A s \in Segs : s \in async.todo \/ job'[s].pc = "none"
  <2>1. \E x : job' = [s \in Segs |-> IF s \in async.todo THEN x ELSE NoJob]
      BY Zenon, <1>6 DEF Pushing
  <2> QED
      BY <2>1 DEF NoJob
<1>7. ASSUME PgCrash
      PROVE  \/ archiveAsync /\ job' = job
             \/ ~archiveAsync /\ \A s \in Segs : job'[s].pc = "none"
    BY <1>7 DEF PgCrash, NoJob
<1>8. ASSUME FgSync
      PROVE  \/ job' = job
             \/ /\ fg.seg \in Segs /\ fg'.pc = "push"
                /\ \A t \in Segs : t # fg.seg => job'[t] = job[t]
  <2>1. fg.pc = "sync" /\ (job' = job \/ (fg'.pc = "push" /\ \E x : job' = [job EXCEPT ![fg.seg] = x]))
      BY Zenon, <1>8, SyncPlaces
  <2> QED
      BY <1>0, <2>1 DEF Jobs
<1> QED
    BY <1>1, <1>2, <1>3, <1>4, <1>5, <1>6, <1>7, <1>8

LEMMA SyncModeStep == PushInv /\ ~archiveAsync /\ Next => SyncMode'
<1> SUFFICES ASSUME PushInv, ~archiveAsync, Next PROVE SyncMode'
    OBVIOUS
<1>0. TypeOK /\ SyncMode /\ FgInv /\ TodoInv
    BY DEF PushInv, ModeInv
<1>1. CASE PgReady \/ StopCommand \/ StartCommand \/ Quiet
    BY <1>0, <1>1, FramePg, FrameOther DEF SyncMode, Busy
<1>2. ASSUME NEW s \in Segs, PgRecycle(s) PROVE SyncMode'
    BY <1>0, <1>2, FramePg DEF SyncMode, Busy
<1>3. CASE PgReturn
  <2>1. fg.pc # "push" /\ fg'.pc = "idle" /\ lock' = (IF lock = "fg" THEN "free" ELSE lock)
      BY <1>0, <1>3, CommandPlaces DEF PgReturn
  <2> QED
      BY <1>0, <1>3, <2>1, FramePg DEF SyncMode, Busy
<1>4. CASE PgCrash
  <2>1. fg'.pc = "idle" /\ lock' = (IF lock = "fg" THEN "free" ELSE lock)
      BY Zenon, <1>0, <1>4, CommandPlaces DEF PgCrash
  <2>2. \A s \in Segs : job'[s].pc = "none"
      BY <1>0, <1>4, JobPlaces
  <2> QED
      BY <1>0, <1>4, <2>1, <2>2, FramePg DEF SyncMode, Busy
<1>5. CASE FgStart
    BY Zenon, <1>0, <1>5, FrameMove, CommandPlaces DEF SyncMode, Busy
<1>6. CASE FgStatus \/ FgRead \/ FgLock \/ FgClear \/ FgRelease \/ FgExec \/ FgWait \/ FgTimeout
    BY <1>0, <1>6, StatusPlaces, LockPlaces DEF SyncMode
<1>9. CASE FgSync
  <2>1. /\ fg.pc = "sync" /\ fg'.seg = fg.seg /\ fg'.pc \in {"pushed", "push"}
      BY <1>0, <1>9, SyncPlaces
  <2>2. \/ job' = job
        \/ /\ fg'.pc = "push" /\ \A t \in Segs : t # fg.seg => job'[t] = job[t]
      BY <1>0, <1>9, JobPlaces
  <2> QED
      BY Zenon, <1>0, <1>9, <2>1, <2>2, FrameSync DEF SyncMode, Busy
<1>10. CASE FgSyncResult
  <2>1. fg.pc = "push" /\ fg'.pc \in {"pushed", "error"}
      BY <1>0, <1>10, CommandPlaces
  <2>2. job'[fg.seg].pc = "none" /\ \A t \in Segs : t # fg.seg => job'[t] = job[t]
      BY <1>0, <1>10, JobPlaces
  <2> QED
      BY <1>0, <1>10, <2>1, <2>2, FrameSync DEF SyncMode, Busy
<1>11. ASSUME NEW s \in Segs, JobFind(s) \/ JobCopy(s) PROVE SyncMode'
  <2>1. Busy(s) /\ \A t \in Segs : t # s => job'[t] = job[t]
      BY <1>0, <1>11, JobPlaces DEF Busy
  <2> QED
      BY Zenon, <1>0, <1>11, <2>1, FrameJob DEF SyncMode, Busy
<1>12. ASSUME NEW o \in orphan, OrphanCopy(o) PROVE SyncMode'
    BY <1>0 DEF SyncMode
<1>13. ASSUME NEW s \in Segs, AsyncResult(s) PROVE SyncMode'
    BY <1>0, <1>13, AsyncPlaces DEF SyncMode
<1>14. CASE Ending \/ Listing \/ AsyncReady \/ AsyncDrop \/ Pushing \/ AsyncExit
    BY <1>0, <1>14, AsyncPlaces DEF SyncMode, Ending, Listing, Pushing
<1>15. CASE AsyncStart
    BY <1>0, <1>15 DEF SyncMode, AsyncStart
<1>16. CASE OtherLock \/ OtherUnlock
    BY <1>0, <1>16 DEF SyncMode, OtherLock, OtherUnlock
<1> QED
    BY <1>1, <1>2, <1>3, <1>4, <1>5, <1>6, <1>9, <1>10, <1>11, <1>12, <1>13, <1>14, <1>15, <1>16, NextCases

LEMMA AsyncModeStep == PushInv /\ archiveAsync /\ Next => AsyncMode'
<1> SUFFICES ASSUME PushInv, archiveAsync, Next PROVE AsyncMode'
    OBVIOUS
<1>0. TypeOK /\ AsyncMode /\ LockInv /\ FgInv /\ TodoInv
    BY DEF PushInv, ModeInv
<1>1. CASE UNCHANGED <<async, job>> /\ (fg' = fg \/ fg'.pc \notin {"sync", "push"})
    BY <1>0, <1>1 DEF AsyncMode, Busy
<1>2. CASE PgReady \/ StopCommand \/ StartCommand \/ Quiet \/ OtherLock \/ OtherUnlock \/ PgReturn
    BY Zenon, <1>0, <1>1, <1>2, FramePg, FrameOther, CommandPlaces
<1>3. ASSUME NEW s \in Segs, PgRecycle(s) PROVE AsyncMode'
    BY Zenon, <1>1, <1>3, FramePg
<1>4. CASE PgCrash
    BY Zenon, <1>0, <1>1, <1>4, FramePg, CommandPlaces, JobPlaces
<1>5. CASE FgStart \/ FgStatus \/ FgRead \/ FgLock \/ FgClear \/ FgRelease \/ FgExec \/ FgWait \/ FgTimeout
    BY Zenon, <1>0, <1>1, <1>5, FrameMove, FrameLock, StatusPlaces, LockPlaces, CommandPlaces
<1>6. CASE FgSync \/ FgSyncResult
    BY <1>0, <1>6, SyncPlaces, CommandPlaces DEF AsyncMode
<1>11. ASSUME NEW s \in Segs, JobFind(s) \/ JobCopy(s) PROVE AsyncMode'
  <2>1. Busy(s) /\ \A t \in Segs : t # s => job'[t] = job[t]
      BY <1>0, <1>11, JobPlaces DEF Busy
  <2> QED
      BY Zenon, <1>0, <1>11, <2>1, FrameJob DEF AsyncMode, Busy
<1>12. ASSUME NEW o \in orphan, OrphanCopy(o) PROVE AsyncMode'
    BY Zenon, <1>1, <1>12, FrameJob
<1>13. CASE AsyncStart
  <2>2. \/ lock = "free" /\ lock' = "async" /\ async'.pc = "begin"
        \/ UNCHANGED <<lock, async>>
      BY <1>0, <1>13, AsyncPlaces
  <2>3. lock = "free" => \A s \in Segs : ~Busy(s)
      BY <1>0 DEF LockInv, AsyncMode
  <2> QED
      BY Zenon, <1>0, <1>13, <2>2, <2>3, FrameAsync DEF AsyncMode, Busy
<1>14. CASE Ending
  <2>1. \A s \in Segs : job'[s].pc = "none"
      BY <1>0, <1>14, JobPlaces
  <2> QED
      BY <1>0, <1>14, <2>1 DEF Ending, AsyncMode, Busy
<1>15. CASE Listing \/ AsyncReady \/ AsyncDrop \/ AsyncExit
  <2>1. \A s \in Segs : ~Busy(s)
      BY Zenon, <1>0, <1>15, AsyncPlaces DEF AsyncMode, Listing
  <2> QED
      BY Zenon, <1>0, <1>15, <2>1, FrameAsync DEF AsyncMode, Listing, Busy
<1>16. CASE Pushing
  <2>1. \A s \in Segs : s \in async.todo \/ job'[s].pc = "none"
      BY <1>0, <1>16, JobPlaces
  <2> QED
      BY <1>0, <1>16, <2>1, AsyncPlaces DEF AsyncMode, Pushing, Busy
<1>17. ASSUME NEW s \in Segs, AsyncResult(s) PROVE AsyncMode'
  <2>1. /\ async'.todo = async.todo \ {s}
        /\ async'.pc \in {"exit", "push"} /\ (async'.pc = "exit" => async.todo = {s})
      BY <1>0, <1>17, AsyncPlaces
  <2>2. job'[s].pc = "none" /\ \A t \in Segs : t # s => job'[t] = job[t]
      BY <1>0, <1>17, JobPlaces
  <2> QED
      BY Zenon, <1>0, <1>17, <2>1, <2>2, FrameAsync DEF AsyncMode, Busy
<1> QED
    BY <1>2, <1>3, <1>4, <1>5, <1>6, <1>11, <1>12, <1>13, <1>14, <1>15, <1>16, <1>17, NextCases

LEMMA ModeStep == PushInv /\ Next => ModeInv' /\ archiveAsync' = archiveAsync
<1> SUFFICES ASSUME PushInv, Next PROVE ModeInv' /\ archiveAsync' = archiveAsync
    OBVIOUS
<1>1. archiveAsync' = archiveAsync
    BY Zenon, NextCases, FrameMove, FrameLock, FrameSync, FramePg, FrameJob, FrameAsync, FrameOther DEF Ending, Listing, Pushing
<1>2. (archiveAsync => AsyncMode') /\ (~archiveAsync => SyncMode')
    BY SyncModeStep, AsyncModeStep
<1>3. ModeInv'
    BY <1>1, <1>2, Zenon DEF ModeInv
<1> QED
    BY <1>1, <1>3

\* An .ok file of a ready segment is not removed, and a segment stays ready
\* until the foreground command has ended
LEMMA OkKept ==
    ASSUME PushInv, Next
    PROVE  /\ \A s \in ready : s \in okFile => s \in okFile'
           /\ fg'.pc = "idle" \/ ready \subseteq ready'
<1>0. TypeOK
    BY DEF PushInv
<1>1. CASE AsyncReady
  <2>1. okFile' = okFile \ (async.okList \ ready)
      BY <1>1 DEF AsyncReady, OkRemove
  <2> QED
      BY <1>1, <2>1, FrameAsync
<1>2. CASE AsyncDrop
  <2>1. okFile \subseteq okFile'
      BY <1>2 DEF AsyncDrop
  <2> QED
      BY <1>2, <2>1, FrameAsync
<1>3. ASSUME NEW s \in Segs, AsyncResult(s) PROVE okFile \subseteq okFile' /\ ready' = ready
    BY Zenon, <1>3, FrameAsync DEF AsyncResult
<1>4. CASE PgReady
  <2>1. ready \subseteq ready'
      BY <1>4 DEF PgReady
  <2> QED
      BY <1>4, <2>1, FramePg
<1>5. CASE PgReturn
    BY <1>0, <1>5, FramePg, CommandPlaces
<1>6. Next => \/ AsyncReady \/ AsyncDrop \/ (\E s \in Segs : AsyncResult(s)) \/ PgReady \/ PgReturn
              \/ UNCHANGED <<okFile, ready>>
    BY Zenon, NextCases, FrameMove, FrameLock, FrameSync, FramePg, FrameJob, FrameAsync, FrameOther DEF Ending, Listing, Pushing
<1> QED
    BY <1>1, <1>2, <1>3, <1>4, <1>5, <1>6

LEMMA FgStep == PushInv /\ Next => FgInv'
<1> SUFFICES ASSUME PushInv, Next PROVE FgInv'
    OBVIOUS
<1> DEFINE Held == /\ fg.pc # "idle" => fg.seg \in ready
                   /\ fg.pc = "readOk" => fg.seg \in okFile
<1>0. TypeOK /\ Held /\ FgInv /\ ready \subseteq Segs
    BY PushTypes DEF PushInv, FgInv
<1>1. Held' /\ (archiveAsync => PushedOk')
  <2>1. CASE fg' = fg
    <3>1. Held'
        BY <1>0, <2>1, OkKept
    <3>2. ASSUME archiveAsync PROVE PushedOk'
      <4>1. PushedOk
          BY <1>0, <3>2 DEF FgInv
      <4> QED
          BY <1>0, <2>1, <4>1, OkKept DEF PushedOk
    <3> QED
        BY <3>1, <3>2
  <2>2. CASE FgStart
    <3>1. fg'.seg \in ready /\ ready' = ready /\ fg'.pc \notin {"readOk", "pushed"}
        BY <1>0, <2>2, CommandPlaces, FrameMove
    <3> QED
        BY <3>1 DEF PushedOk
  <2>3. CASE PgReturn \/ PgCrash
      BY <1>0, <2>3, CommandPlaces DEF PushedOk
  <2>4. CASE FgStatus \/ FgRead
    <3>1. fg'.seg = fg.seg /\ fg.pc # "idle" /\ (fg'.pc \in {"readOk", "pushed"} => fg.seg \in okFile)
          /\ UNCHANGED <<ready, okFile>>
        BY <1>0, <2>4, StatusPlaces, FrameMove
    <3> QED
        BY <1>0, <3>1 DEF PushedOk
  <2>5. CASE FgLock \/ FgClear \/ FgRelease \/ FgExec \/ FgWait \/ FgTimeout
    <3>1. fg'.seg = fg.seg /\ fg.pc # "idle" /\ fg'.pc \notin {"readOk", "pushed"} /\ ready' = ready
        BY <1>0, <2>5, LockPlaces, FrameMove, FrameLock
    <3> QED
        BY <1>0, <3>1 DEF PushedOk
  <2>6. CASE FgSync \/ FgSyncResult
    <3>1. fg'.seg = fg.seg /\ fg.pc \in {"sync", "push"} /\ fg'.pc # "readOk" /\ ready' = ready
        BY <1>0, <2>6, CommandPlaces, SyncPlaces, FrameSync
    <3>2. ~archiveAsync
        BY <3>1 DEF PushInv, ModeInv, AsyncMode
    <3> QED
        BY <1>0, <3>1, <3>2
  <2> QED
      BY Zenon, <2>1, <2>2, <2>3, <2>4, <2>5, <2>6, NextCases, FrameMove, FrameLock, FrameSync, FramePg, FrameJob, FrameAsync, FrameOther DEF Ending, Listing, Pushing
<1>2. archiveAsync' = archiveAsync
    BY ModeStep
<1> QED
    BY <1>1, <1>2, Zenon DEF FgInv

\* What has a job is ready and has no .ok file, so that its file is not used
\* for another segment
LEMMA BusyReady ==
    ASSUME PushInv
    PROVE  /\ \A s \in Segs : Busy(s) => s \in ready \ okFile /\ wal[s] = "wal" /\ orphan = {}
           /\ \A o \in orphan : /\ o.seg \in Segs /\ wal[o.seg] = "wal" /\ async.pc = "exit"
                                /\ \A s \in Segs : ~Busy(s)
<1>0. TypeOK /\ LockInv /\ TodoInv /\ WalInv /\ ready \cap acked = {} /\ (fg.pc # "idle" => fg.seg \in ready)
    BY DEF PushInv, QueueInv, FgInv
<1>1. CASE archiveAsync
  <2>1. AsyncMode
      BY <1>1 DEF PushInv, ModeInv
  <2>2. \A s \in Segs : Busy(s) => s \in ready \ okFile /\ async.pc = "push"
      BY <1>0, <2>1 DEF AsyncMode, TodoInv
  <2>3. \A o \in orphan : o.seg \in ready /\ o.seg \in Segs /\ async.pc = "exit"
      BY <1>0, PushTypes DEF LockInv, TodoInv
  <2> QED
      BY <1>0, <2>2, <2>3 DEF WalInv, LockInv
<1>2. CASE ~archiveAsync
  <2>1. SyncMode
      BY <1>2 DEF PushInv, ModeInv
  <2>2. \A s \in Segs : Busy(s) => s \in ready \ okFile
      BY <1>0, <2>1 DEF SyncMode
  <2> QED
      BY <1>0, <2>1, <2>2 DEF WalInv, SyncMode
<1> QED
    BY <1>1, <1>2

LEMMA TodoStep == PushInv /\ Next => TodoInv'
<1> SUFFICES ASSUME PushInv, Next PROVE TodoInv'
    OBVIOUS
<1>0. /\ TypeOK /\ TodoInv /\ LockInv /\ ready \subseteq Segs
      /\ async.todo \subseteq Segs
    BY PushTypes DEF PushInv
<1>1. CASE UNCHANGED <<async, okFile>> /\ ready \subseteq ready' /\ orphan' \subseteq orphan
    BY <1>0, <1>1 DEF TodoInv
<1>2. CASE PgReturn
  <2>1. UNCHANGED <<async, okFile, orphan>> /\ (ready' = ready \/ (fg.pc = "pushed" /\ ready' = ready \ {fg.seg}))
      BY <1>2, FramePg DEF PgReturn
  <2>2. CASE archiveAsync
    <3>1. fg.pc = "pushed" => fg.seg \in okFile
        BY <2>2 DEF PushInv, FgInv, PushedOk
    <3> QED
        BY <1>0, <2>1, <3>1 DEF TodoInv
  <2>3. CASE ~archiveAsync
    <3>1. async.pc = "off" /\ orphan = {}
        BY <2>3 DEF PushInv, ModeInv, SyncMode
    <3> QED
        BY <2>1, <3>1 DEF TodoInv
  <2> QED
      BY <2>2, <2>3
<1>3. CASE PgReady
  <2>1. ready \subseteq ready'
      BY <1>3 DEF PgReady
  <2> QED
      BY <1>1, <1>3, <2>1, FramePg
<1>4. ASSUME NEW o \in orphan, OrphanCopy(o) PROVE TodoInv'
  <2>1. orphan' \subseteq orphan
      BY Zenon, <1>4 DEF OrphanCopy
  <2> QED
      BY <1>1, <1>4, <2>1, FrameJob
<1>5. CASE AsyncStart
  <2>1. /\ UNCHANGED <<okFile, ready, orphan>>
        /\ async' = async \/ async'.pc = "begin"
      BY <1>0, <1>5, FrameAsync, AsyncPlaces
  <2> QED
      BY <1>0, <2>1 DEF TodoInv
<1>6. CASE Ending
  <2>1. async'.pc = "exit" /\ UNCHANGED <<okFile, ready>> /\ orphan' = orphan \cup Left
      BY <1>0, <1>6, AsyncPlaces DEF Ending
  <2>2. \A o \in Left : o.seg \in ready \ okFile
      BY BusyReady DEF Left, Busy
  <2> QED
      BY <1>0, <2>1, <2>2 DEF TodoInv
<1>7. CASE Listing
  <2>1. async'.pc = "ready" /\ async'.okList = okFile /\ UNCHANGED <<okFile, ready, orphan>>
      BY <1>0, <1>7, AsyncPlaces DEF Listing
  <2> QED
      BY <1>0, <2>1 DEF TodoInv
<1>8. CASE AsyncReady
  <2>1. /\ okFile = async.okList /\ okFile' = okFile \ (async.okList \ ready)
        /\ async'.pc # "ready" /\ async'.todo = ready \ async.okList /\ UNCHANGED <<ready, orphan>>
        /\ orphan = {}
      BY <1>0, <1>8, AsyncPlaces, FrameAsync DEF AsyncReady, OkRemove, TodoInv, LockInv
  <2> QED
      BY <2>1 DEF TodoInv
<1>9. CASE AsyncDrop
  <2>1. /\ async.pc = "drop" /\ async'.pc \in {"exit", "drop"} /\ UNCHANGED <<ready, orphan>> /\ orphan = {}
      BY <1>0, <1>9, AsyncPlaces, FrameAsync DEF LockInv
  <2>2. PICK s \in async.todo : async'.todo = async.todo \ {s} /\ okFile' = okFile \cup {s}
      BY <1>0, <1>9, AsyncPlaces
  <2>3. async.todo \subseteq ready \ okFile
      BY <1>0, <2>1 DEF TodoInv
  <2> QED
      BY <2>1, <2>2, <2>3 DEF TodoInv
<1>10. CASE Pushing
  <2>1. async.pc = "check" /\ async'.pc = "push" /\ async'.todo = async.todo /\ UNCHANGED <<okFile, ready, orphan>>
      BY <1>0, <1>10, AsyncPlaces DEF Pushing
  <2> QED
      BY <1>0, <2>1 DEF TodoInv
<1>11. ASSUME NEW s \in Segs, AsyncResult(s) PROVE TodoInv'
  <2>1. /\ async.pc = "push" /\ async'.todo = async.todo \ {s} /\ async'.pc \in {"exit", "push"}
        /\ okFile' = okFile \/ okFile' = okFile \cup {s}
        /\ UNCHANGED <<ready, orphan>> /\ orphan = {}
      BY Zenon, <1>0, <1>11, AsyncPlaces, FrameAsync DEF AsyncResult, LockInv
  <2> QED
      BY <1>0, <2>1 DEF TodoInv
<1>12. CASE AsyncExit
  <2>1. async'.pc = "off" /\ UNCHANGED <<okFile, ready, orphan>>
      BY <1>0, <1>12, AsyncPlaces, FrameAsync
  <2> QED
      BY <1>0, <2>1 DEF TodoInv
<1>13. UNCHANGED <<async, okFile, ready, orphan>> => TodoInv'
    BY <1>1
<1> QED
    BY Zenon, <1>2, <1>3, <1>4, <1>5, <1>6, <1>7, <1>8, <1>9, <1>10, <1>11, <1>12, <1>13, NextCases, FrameMove, FrameLock, FrameSync, FramePg, FrameJob, FrameAsync, FrameOther

\* A copy stores the content PostgreSQL handed over, in repositories that do
\* not hold the segment
Stored(s, good) ==
    /\ \A r \in good : archive[r][s] = "none"
    /\ \A r \in Repos, t \in Segs : archive'[r][t] = IF t = s /\ r \in good THEN "wal" ELSE archive[r][t]

LEMMA Copied ==
    ASSUME PushInv
    PROVE  /\ \A s \in Segs : JobCopy(s) =>
                \/ archive' = archive /\ job'[s].pc = "abort"
                \/ \E fail \in SUBSET job[s].need :
                    /\ Stored(s, job[s].need \ fail)
                    /\ job'[s].down = job[s].down \cup fail
                    /\ job'[s].pc = "err" \/ (job'[s].pc = "ok" /\ job'[s].down = {})
           /\ \A o \in orphan : OrphanCopy(o) => \E good \in SUBSET o.need : Stored(o.seg, good)
<1>0. /\ TypeOK /\ CopyInv /\ job \in [Segs -> Jobs]
      /\ archive \in [Repos -> [Segs -> {"none", "wal", "recycled", "other"}]]
      /\ \A s \in Segs : job[s].need \subseteq Repos
      /\ \A o \in orphan : o.seg \in Segs /\ o.need \subseteq Repos
    BY PushTypes DEF PushInv
<1>1. ASSUME NEW s \in Segs, NEW need \in SUBSET Repos, NEW fail \in SUBSET need, CopyTo(s, need \ fail), wal[s] = "wal",
             \A r \in need : archive[r][s] = "none"
      PROVE  Stored(s, need \ fail)
  <2>1. ASSUME NEW r \in Repos, NEW t \in Segs
        PROVE  archive'[r][t] = IF t = s /\ r \in need \ fail THEN "wal" ELSE archive[r][t]
    <3>1. archive'[r] = IF r \in need \ fail THEN [archive[r] EXCEPT ![s] = wal[s]] ELSE archive[r]
        BY <1>1 DEF CopyTo
    <3>2. archive[r] \in [Segs -> {"none", "wal", "recycled", "other"}]
        BY <1>0
    <3> QED
        BY <1>1, <3>1, <3>2
  <2> QED
      BY <1>1, <2>1 DEF Stored
<1>2. ASSUME NEW s \in Segs, JobCopy(s)
      PROVE  \/ archive' = archive /\ job'[s].pc = "abort"
             \/ \E fail \in SUBSET job[s].need :
                    /\ Stored(s, job[s].need \ fail)
                    /\ job'[s].down = job[s].down \cup fail
                    /\ job'[s].pc = "err" \/ (job'[s].pc = "ok" /\ job'[s].down = {})
  <2>1. job[s].pc = "copy" /\ Busy(s)
      BY <1>2 DEF JobCopy, Busy
  <2>2. wal[s] = "wal" /\ \A r \in job[s].need : archive[r][s] = "none"
      BY Zenon, <1>0, <2>1, BusyReady DEF CopyInv, JobInv
  <2>3. \/ archive' = archive /\ job' = [job EXCEPT ![s] = Aborted]
        \/ \E fail \in SUBSET job[s].need :
            /\ CopyTo(s, job[s].need \ fail)
            /\ job' = [job EXCEPT ![s] = Ended(s, fail)]
      BY Zenon, <1>2 DEF JobCopy, JobAbort, Aborted, Ended
  <2>4. CASE archive' = archive /\ job' = [job EXCEPT ![s] = Aborted]
      BY <1>0, <2>4 DEF Aborted, NoJob
  <2>5. ASSUME NEW fail \in SUBSET job[s].need, CopyTo(s, job[s].need \ fail), job' = [job EXCEPT ![s] = Ended(s, fail)]
        PROVE  /\ Stored(s, job[s].need \ fail)
               /\ job'[s].down = job[s].down \cup fail
               /\ job'[s].pc = "err" \/ (job'[s].pc = "ok" /\ job'[s].down = {})
    <3>1. Stored(s, job[s].need \ fail)
        BY Zenon, <1>0, <1>1, <2>2, <2>5
    <3>2. job'[s] = Ended(s, fail)
        BY <1>0, <2>5
    <3>3. Ended(s, fail).pc = CopyResult(s, fail) /\ Ended(s, fail).down = job[s].down \cup fail
        BY DEF Ended, NoJob
    <3>4. CopyResult(s, fail) = "err" \/ (CopyResult(s, fail) = "ok" /\ job[s].down \cup fail = {})
        BY DEF CopyResult
    <3> QED
        BY Zenon, <3>1, <3>2, <3>3, <3>4
  <2> QED
      BY Zenon, <2>3, <2>4, <2>5
<1>3. ASSUME NEW o \in orphan, OrphanCopy(o) PROVE \E good \in SUBSET o.need : Stored(o.seg, good)
  <2>1. wal[o.seg] = "wal" /\ \A r \in o.need : archive[r][o.seg] = "none"
      BY <1>0, BusyReady DEF CopyInv, OrphanInv
  <2>2. PICK fail \in SUBSET o.need : CopyTo(o.seg, o.need \ fail)
      BY Zenon, <1>3 DEF OrphanCopy
  <2>3. Stored(o.seg, o.need \ fail)
      BY ZenonT(30), <1>0, <1>1, <2>1, <2>2
  <2> QED
      BY <2>3
<1> QED
    BY Zenon, <1>2, <1>3

\* A step changes what repositories hold by such a copy only
LEMMA Grows ==
    ASSUME PushInv, Next
    PROVE  /\ \A r \in Repos, s \in Segs : archive[r][s] # "none" => archive'[r][s] = archive[r][s]
           /\ \A r \in Repos, s \in Segs : archive'[r][s] \in {archive[r][s], "wal"}
<1>1. ASSUME NEW s \in Segs, NEW good, Stored(s, good)
      PROVE  /\ \A r \in Repos, t \in Segs : archive[r][t] # "none" => archive'[r][t] = archive[r][t]
             /\ \A r \in Repos, t \in Segs : archive'[r][t] \in {archive[r][t], "wal"}
    BY <1>1 DEF Stored
<1>2. \A o \in orphan : o.seg \in Segs
    BY PushTypes DEF PushInv
<1>3. Next => (\E s \in Segs : JobCopy(s)) \/ (\E o \in orphan : OrphanCopy(o)) \/ archive' = archive
    BY Zenon, NextCases, FrameMove, FrameLock, FrameSync, FramePg, FrameJob, FrameAsync, FrameOther DEF Ending, Listing, Pushing
<1>4. ASSUME archive' # archive PROVE \E s \in Segs, good \in SUBSET Repos : Stored(s, good)
  <2>1. CASE \E s \in Segs : JobCopy(s)
    <3>1. PICK s \in Segs : JobCopy(s)
        BY <2>1
    <3>2. PICK fail : Stored(s, job[s].need \ fail)
        BY Zenon, <1>4, <3>1, Copied
    <3>3. job[s].need \ fail \in SUBSET Repos
        BY PushTypes DEF PushInv
    <3> QED
        BY <3>2, <3>3
  <2>2. CASE \E o \in orphan : OrphanCopy(o)
    <3>1. PICK o \in orphan : OrphanCopy(o)
        BY <2>2
    <3>2. PICK good \in SUBSET o.need : Stored(o.seg, good)
        BY Zenon, <3>1, Copied
    <3>3. good \in SUBSET Repos /\ o.seg \in Segs
        BY PushTypes DEF PushInv
    <3> QED
        BY <3>2, <3>3
  <2> QED
      BY <1>3, <1>4, <2>1, <2>2
<1> QED
    BY <1>1, <1>4

LEMMA WalStep == PushInv /\ Next => WalInv'
<1> SUFFICES ASSUME PushInv, Next PROVE WalInv'
    OBVIOUS
<1>0. /\ WalInv /\ TypeOK /\ wal \in [Segs -> {"wal", "recycled"}]
    BY PushTypes DEF PushInv
<1>1. \A r \in Repos, s \in Segs : archive'[r][s] # "recycled"
    BY <1>0, Grows DEF WalInv
<1>2. acked \subseteq acked'
  <2>1. PgReturn => acked \subseteq acked'
      BY DEF PgReturn
  <2> QED
      BY Zenon, <2>1, NextCases, FrameMove, FrameLock, FrameSync, FramePg, FrameJob, FrameAsync, FrameOther DEF Ending, Listing, Pushing
<1>3. \A s \in Segs : wal'[s] = wal[s] \/ s \in acked
  <2>1. ASSUME NEW t \in Segs, PgRecycle(t) PROVE \A s \in Segs : wal'[s] = wal[s] \/ s \in acked
      BY <1>0, <2>1 DEF PgRecycle
  <2> QED
      BY Zenon, <2>1, NextCases, FrameMove, FrameLock, FrameSync, FramePg, FrameJob, FrameAsync, FrameOther DEF Ending, Listing, Pushing
<1> QED
    BY <1>0, <1>1, <1>2, <1>3 DEF WalInv

\* What the look-up finds: the repositories the copy goes to have nothing, the
\* others that answered have the segment
LEMMA Found ==
    ASSUME PushInv, NEW s \in Segs, JobFind(s)
    PROVE  \/ job'[s].pc = "abort"
           \/ \E fail \in SUBSET valid :
                /\ job'[s].pc = "copy" /\ job'[s].down = job[s].down \cup fail
                /\ \A r \in job'[s].need : archive[r][s] = "none"
                /\ \A r \in valid \ fail : r \in job'[s].need \/ archive[r][s] = "wal"
<1>0. /\ TypeOK /\ job \in [Segs -> Jobs]
    BY PushTypes DEF PushInv
<1>1. job[s].pc = "todo" /\ wal[s] = "wal"
    BY BusyReady DEF JobFind, Busy
<1>2. \/ job' = [job EXCEPT ![s] = Aborted]
      \/ \E fail \in SUBSET valid :
           /\ \A r \in valid \ fail : archive[r][s] \in {"none", wal[s]}
           /\ job' = [job EXCEPT ![s] = Copying(s, fail)]
    BY Zenon DEF JobFind, JobAbort, Aborted, Copying
<1>3. CASE job' = [job EXCEPT ![s] = Aborted]
    BY <1>0, <1>3 DEF Aborted, NoJob
<1>4. ASSUME NEW fail \in SUBSET valid, \A r \in valid \ fail : archive[r][s] \in {"none", wal[s]},
             job' = [job EXCEPT ![s] = Copying(s, fail)]
      PROVE  /\ job'[s].pc = "copy" /\ job'[s].down = job[s].down \cup fail
             /\ \A r \in job'[s].need : archive[r][s] = "none"
             /\ \A r \in valid \ fail : r \in job'[s].need \/ archive[r][s] = "wal"
  <2>1. job'[s] = Copying(s, fail)
      BY <1>0, <1>4
  <2>2. /\ job'[s].pc = "copy" /\ job'[s].need = {r \in valid \ fail : archive[r][s] = "none"}
        /\ job'[s].down = job[s].down \cup fail
      BY <2>1 DEF Copying
  <2> QED
      BY <1>1, <1>4, <2>2
<1> QED
    BY Zenon, <1>2, <1>3, <1>4

LEMMA CopyStep == PushInv /\ Next => CopyInv'
<1> SUFFICES ASSUME PushInv, Next PROVE CopyInv'
    OBVIOUS
<1>0. /\ TypeOK /\ CopyInv /\ LockInv /\ FgInv /\ TodoInv /\ valid \subseteq Repos
      /\ \A s \in Segs : job[s].need \subseteq Repos
      /\ job \in [Segs -> Jobs]
      /\ \A o \in orphan : o.seg \in Segs /\ o.need \subseteq Repos
    BY PushTypes DEF PushInv
<1>a. ASSUME NEW t \in Segs, JobInv(t), job'[t] = job[t], valid' = valid,
             \A r \in Repos : archive'[r][t] = archive[r][t]
      PROVE  JobInv(t)'
    BY <1>0, <1>a DEF JobInv, Everywhere, Covered
<1>b. ASSUME NEW t \in Segs, job'[t].pc \notin {"todo", "copy", "ok", "err"} PROVE JobInv(t)'
    BY <1>b DEF JobInv
<1>c. UNCHANGED <<archive, orphan>> => OrphanInv'
    BY <1>0 DEF CopyInv, OrphanInv
<1>d. \A t \in Segs : JobInv(t)
    BY <1>0 DEF CopyInv
<1>1. ASSUME UNCHANGED <<archive, orphan, valid>>,
             \A t \in Segs : job'[t] = job[t] \/ job'[t].pc = "none"
      PROVE  CopyInv'
  <2>1. \A t \in Segs : JobInv(t)'
      BY <1>1, <1>a, <1>b, <1>d
  <2> QED
      BY <1>1, <1>c, <2>1 DEF CopyInv
<1>2. ASSUME NEW s \in Segs, JobFind(s) PROVE CopyInv'
  <2>1. /\ UNCHANGED <<archive, orphan, valid>> /\ \A t \in Segs : t # s => job'[t] = job[t]
        /\ job[s].pc = "todo"
      BY Zenon, <1>0, <1>2, FrameJob, JobPlaces
  <2>2. job'[s].pc = "abort" \/
          /\ job'[s].pc = "copy" /\ \A r \in job'[s].need : archive[r][s] = "none"
          /\ \A r \in Repos \ job'[s].down : r \in job'[s].need \/ archive[r][s] = "wal"
    <3>1. valid = Repos \ job[s].down
        BY <1>d, <2>1 DEF JobInv
    <3> QED
        BY <1>2, <3>1, Found
  <2>3. JobInv(s)'
      BY <2>1, <2>2 DEF JobInv, Covered
  <2>4. \A t \in Segs : JobInv(t)'
      BY <1>a, <1>d, <2>1, <2>3
  <2> QED
      BY <1>c, <2>1, <2>4 DEF CopyInv
<1>3. ASSUME NEW s \in Segs, JobCopy(s) PROVE CopyInv'
  <2>1. /\ orphan' = orphan /\ orphan = {} /\ job[s].pc = "copy" /\ valid' = valid
        /\ \A t \in Segs : t # s => job'[t] = job[t]
      BY ZenonT(30), <1>0, <1>3, FrameJob, JobPlaces, BusyReady DEF Busy
  <2>2. /\ \A r \in Repos, t \in Segs : t # s => archive'[r][t] = archive[r][t]
        /\ job'[s].pc = "ok" => \A r \in Repos : archive'[r][s] = "wal"
        /\ job'[s].pc = "err" => \A r \in Repos \ job'[s].down : archive'[r][s] = "wal"
        /\ job'[s].pc \in {"abort", "err", "ok"}
    <3>1. CASE archive' = archive /\ job'[s].pc = "abort"
        BY <3>1
    <3>2. ASSUME NEW fail \in SUBSET job[s].need, Stored(s, job[s].need \ fail),
                 job'[s].down = job[s].down \cup fail,
                 job'[s].pc = "err" \/ (job'[s].pc = "ok" /\ job'[s].down = {})
          PROVE  /\ \A r \in Repos, t \in Segs : t # s => archive'[r][t] = archive[r][t]
                 /\ \A r \in Repos \ job'[s].down : archive'[r][s] = "wal"
      <4>1. \A r \in Repos \ job[s].down : r \in job[s].need \/ archive[r][s] = "wal"
          BY <1>d, <2>1 DEF JobInv, Covered
      <4> QED
          BY <3>2, <4>1 DEF Stored
    <3>3. \/ archive' = archive /\ job'[s].pc = "abort"
          \/ \E fail \in SUBSET job[s].need :
                    /\ Stored(s, job[s].need \ fail)
                    /\ job'[s].down = job[s].down \cup fail
                    /\ job'[s].pc = "err" \/ (job'[s].pc = "ok" /\ job'[s].down = {})
        BY Zenon, <1>3, Copied
    <3> QED
        BY <3>1, <3>2, <3>3
  <2>3. JobInv(s)'
      BY <2>2 DEF JobInv, Everywhere, Covered
  <2>4. \A t \in Segs : JobInv(t)'
      BY <1>a, <1>d, <2>1, <2>2, <2>3
  <2>5. OrphanInv'
      BY <2>1 DEF OrphanInv
  <2> QED
      BY <2>4, <2>5 DEF CopyInv
<1>4. ASSUME NEW o \in orphan, OrphanCopy(o) PROVE CopyInv'
  <2>1. job' = job /\ orphan' = orphan \ {o} /\ \A t \in Segs : job[t].pc = "none"
      BY Zenon, <1>4, FrameJob, BusyReady DEF OrphanCopy, Busy
  <2>2. PICK good \in SUBSET o.need : Stored(o.seg, good)
      BY <1>4, Copied
  <2>3. \A r \in Repos, t \in Segs : t # o.seg => archive'[r][t] = archive[r][t]
      BY <2>2 DEF Stored
  <2>4. \A p \in orphan' : p \in orphan /\ p.seg # o.seg /\ p.seg \in Segs
      BY <1>0, <2>1 DEF CopyInv, OrphanInv
  <2>5. \A p \in orphan' : \A r \in p.need : archive'[r][p.seg] = "none"
    <3>1. ASSUME NEW p \in orphan', NEW r \in p.need PROVE archive'[r][p.seg] = "none"
      <4>1. p \in orphan /\ p.seg # o.seg /\ p.seg \in Segs /\ r \in Repos
          BY <1>0, <2>4, <3>1
      <4>2. archive[r][p.seg] = "none"
          BY <1>0, <3>1, <4>1 DEF CopyInv, OrphanInv
      <4> QED
          BY <2>3, <4>1, <4>2
    <3> QED
        BY <3>1
  <2>6. \A p, q \in orphan' : p.seg = q.seg => p = q
      BY <1>0, <2>4 DEF CopyInv, OrphanInv
  <2>7. \A t \in Segs : JobInv(t)'
      BY <1>b, <2>1
  <2> QED
      BY <2>5, <2>6, <2>7 DEF CopyInv, OrphanInv
<1>5. CASE Ending
  <2>1. orphan' = Left /\ archive' = archive /\ \A s \in Segs : job'[s].pc = "none"
      BY <1>0, <1>5, JobPlaces DEF Ending, LockInv
  <2>2. \A s \in Segs : job[s].pc = "copy" => \A r \in job[s].need : archive[r][s] = "none"
      BY <1>d DEF JobInv
  <2>3. \A o \in Left : \A r \in o.need : archive[r][o.seg] = "none"
      BY <2>2 DEF Left
  <2>4. \A o, p \in Left : o.seg = p.seg => o = p
      BY DEF Left
  <2>5. \A t \in Segs : JobInv(t)'
      BY <1>b, <2>1
  <2> QED
      BY <2>1, <2>3, <2>4, <2>5 DEF CopyInv, OrphanInv
<1>6. ASSUME NEW s \in Segs, AsyncResult(s) PROVE CopyInv'
    BY ZenonT(30), <1>0, <1>1, <1>6, FrameAsync, JobPlaces
<1>7. CASE FgSyncResult \/ PgCrash
    BY Zenon, <1>0, <1>1, <1>7, FrameSync, FramePg, JobPlaces
<1>8. CASE Pushing \/ FgSync
  <2>1. /\ UNCHANGED <<archive, orphan>>
        /\ \/ UNCHANGED <<job, valid>>
           \/ \E fail \in SUBSET Repos :
                valid' = RepoList(fail) /\ \A t \in Segs : job'[t] = NewJob(fail) \/ job'[t].pc = "none"
    <3>1. CASE Pushing
      <4>1. PICK fail \in SUBSET Repos : /\ valid' = RepoList(fail)
                                        /\ job' = [s \in Segs |-> IF s \in async.todo THEN NewJob(fail) ELSE NoJob]
          BY Zenon, <3>1 DEF Pushing
      <4>2. \A t \in Segs : job'[t] = NewJob(fail) \/ job'[t].pc = "none"
          BY <4>1 DEF NoJob
      <4> QED
          BY Zenon, <3>1, <4>1, <4>2 DEF Pushing
    <3>2. CASE FgSync
      <4>1. fg.pc = "sync" /\ \A t \in Segs : job[t].pc = "none"
        <5>1. fg.pc = "sync"
            BY <3>2 DEF FgSync
        <5> QED
            BY <5>1 DEF PushInv, ModeInv, AsyncMode, SyncMode, Busy
      <4>2. CASE UNCHANGED <<valid, job>>
          BY <3>2, <4>2, FrameSync
      <4>3. ASSUME NEW fail \in SUBSET Repos, valid' = RepoList(fail), job' = [job EXCEPT ![fg.seg] = NewJob(fail)]
            PROVE  \A t \in Segs : job'[t] = NewJob(fail) \/ job'[t].pc = "none"
          BY <1>0, <4>1, <4>3
      <4> QED
          BY ZenonT(30), <1>0, <3>2, <4>2, <4>3, FrameSync, SyncPlaces
    <3> QED
        BY <1>8, <3>1, <3>2
  <2>2. CASE UNCHANGED <<job, valid>>
      BY <1>1, <2>1, <2>2
  <2>3. ASSUME NEW fail \in SUBSET Repos, valid' = RepoList(fail),
               \A t \in Segs : job'[t] = NewJob(fail) \/ job'[t].pc = "none"
        PROVE  CopyInv'
    <3>1. \A t \in Segs : /\ job'[t].pc \in {"none", "todo", "err"}
                          /\ job'[t].pc = "todo" => valid' = Repos \ job'[t].down
                          /\ PgPath /\ job'[t].pc = "err" => Repos \ job'[t].down = {}
        BY ZenonT(30), <2>3, NewJobs
    <3>2. \A t \in Segs : JobInv(t)'
        BY <3>1 DEF JobInv, Covered
    <3> QED
        BY <1>c, <2>1, <3>2 DEF CopyInv
  <2> QED
      BY Zenon, <2>1, <2>2, <2>3
<1>9. UNCHANGED <<archive, orphan, job, valid>> => CopyInv'
    BY <1>1
<1> QED
    BY Zenon, <1>2, <1>3, <1>4, <1>5, <1>6, <1>7, <1>8, <1>9, NextCases, FrameMove, FrameLock, FrameSync, FramePg, FrameJob, FrameAsync, FrameOther DEF Listing

LEMMA AckStep == PushInv /\ Next => AckInv'
<1> SUFFICES ASSUME PushInv, Next PROVE AckInv'
    OBVIOUS
<1>0. /\ TypeOK /\ AckInv /\ CopyInv /\ FgInv /\ TodoInv
      /\ acked \subseteq Segs /\ okFile \subseteq Segs /\ ready \subseteq Segs
      /\ (fg.pc # "idle" => fg.seg \in Segs)
    BY PushTypes DEF PushInv, FgInv
<1> DEFINE Kept(s) == s \in dropped \/ Everywhere(s)
<1>1. ASSUME NEW s \in Segs, Kept(s) PROVE Kept(s)'
  <2>1. Everywhere(s) => Everywhere(s)'
      BY Grows DEF Everywhere
  <2>2. dropped \subseteq dropped'
    <3>1. AsyncDrop => dropped \subseteq dropped'
        BY DEF AsyncDrop
    <3>2. FgSync => dropped \subseteq dropped'
        BY <1>0, SyncPlaces
    <3> QED
        BY Zenon, <3>1, <3>2, NextCases, FrameMove, FrameLock, FrameSync, FramePg, FrameJob, FrameAsync, FrameOther DEF Ending, Listing, Pushing
  <2> QED
      BY <1>1, <2>1, <2>2
<1>2. \A s \in acked \cup okFile : Kept(s)
    BY <1>0 DEF AckInv, AckedArchived, Everywhere
<1>3. ASSUME NEW s \in acked' \cup okFile' PROVE s \in Segs /\ Kept(s)'
  <2>1. CASE s \in acked \cup okFile
      BY <1>0, <1>1, <1>2, <2>1
  <2>2. CASE PgReturn /\ s \notin acked \cup okFile
    <3>1. fg.pc = "pushed" /\ s = fg.seg
        BY <2>2, FramePg DEF PgReturn
    <3> QED
        BY <1>0, <1>1, <3>1 DEF AckInv
  <2>3. CASE AsyncDrop /\ s \notin acked \cup okFile
    <3>1. s \in dropped' /\ s \in async.todo
        BY ZenonT(30), <1>0, <2>3, AsyncPlaces, FrameAsync
    <3> QED
        BY ZenonT(30), <1>0, <3>1, PushTypes
  <2>4. ASSUME NEW t \in Segs, AsyncResult(t), s \notin acked \cup okFile PROVE s \in Segs /\ Kept(s)'
    <3>1. s = t /\ job[t].pc = "ok"
        BY Zenon, <2>4, FrameAsync DEF AsyncResult
    <3> QED
        BY ZenonT(30), <1>0, <1>1, <3>1 DEF CopyInv, JobInv
  <2>5. AsyncReady => okFile' \subseteq okFile
      BY DEF AsyncReady, OkRemove
  <2>6. Next => \/ PgReturn \/ AsyncDrop \/ (\E t \in Segs : AsyncResult(t))
                \/ acked' = acked /\ okFile' \subseteq okFile
      BY Zenon, <2>5, NextCases, FrameMove, FrameLock, FrameSync, FramePg, FrameJob, FrameAsync, FrameOther DEF Ending, Listing, Pushing
  <2> QED
      BY <2>1, <2>2, <2>3, <2>4, <2>6
<1>4. AckedArchived'
  <2>1. \A s \in acked' \cup okFile' : s \in dropped' \/ \A r \in Repos : archive'[r][s] = "wal"
      BY <1>3 DEF Everywhere
  <2> QED
      BY <2>1 DEF AckedArchived
<1>5. ASSUME fg'.pc = "pushed" PROVE Kept(fg.seg)' /\ fg'.seg = fg.seg
  <2>1. CASE fg' = fg
      BY <1>0, <1>1, <1>5, <2>1 DEF AckInv
  <2>2. CASE FgRead
    <3>1. fg'.seg = fg.seg /\ fg.seg \in okFile
        BY <1>0, <1>5, <2>2, StatusPlaces
    <3> QED
        BY <1>0, <1>1, <1>2, <2>2, <3>1, FrameMove
  <2>3. CASE FgSyncResult
    <3>1. fg'.seg = fg.seg /\ fg.seg \in Segs /\ job[fg.seg].pc = "ok"
        BY <1>0, <1>5, <2>3, CommandPlaces
    <3> QED
        BY <1>0, <1>1, <3>1 DEF CopyInv, JobInv
  <2>4. CASE FgSync
      BY <1>0, <1>5, <2>4, SyncPlaces
  <2>5. Next => fg' = fg \/ FgRead \/ FgSync \/ FgSyncResult \/ fg'.pc # "pushed"
      BY Zenon, <1>0, NextCases, FrameMove, FrameLock, FrameSync, FramePg, FrameJob, FrameAsync, FrameOther, StatusPlaces, LockPlaces, CommandPlaces DEF Ending, Listing, Pushing
  <2> QED
      BY <1>5, <2>1, <2>2, <2>3, <2>4, <2>5
<1>6. fg'.pc = "pushed" => fg'.seg \in dropped' \/ \A r \in Repos : archive'[r][fg'.seg] = "wal"
    BY <1>5 DEF Everywhere
<1> QED
    BY <1>4, <1>6 DEF AckInv, Everywhere

LEMMA PushInvInit == Init => PushInv
<1> SUFFICES ASSUME Init PROVE PushInv
    OBVIOUS
<1> USE ArchivePushAssumption
<1>1. TypeOK
  <2>1. archive \in [Repos -> [Segs -> {"none", "wal", "recycled", "other"}]]
      BY DEF Init
  <2>2. NoJob \in Jobs /\ FgIdle \in Foregrounds /\ AsyncOff \in Asyncs
      BY DEF NoJob, Jobs, FgIdle, Foregrounds, AsyncOff, Asyncs, Global, NoSeg
  <2>3. wal \in [Segs -> {"wal", "recycled"}] /\ job \in [Segs -> Jobs] /\ fg \in Foregrounds /\ async \in Asyncs
      BY <2>2 DEF Init
  <2>4. archiveAsync \in Modes /\ stopFile \in BOOLEAN /\ lock \in {"free", "fg", "async", "other"}
      BY Zenon DEF Init
  <2>5. starting \in Nat /\ faults \in 0 .. MaxFault
      BY DEF Init
  <2>6. /\ ready = {} /\ acked = {} /\ okFile = {} /\ errFile = {} /\ dropped = {} /\ valid = {} /\ orphan = {}
      BY DEF Init
  <2> QED
      BY <2>1, <2>3, <2>4, <2>5, <2>6 DEF TypeOK
<1>2. QueueInv
    BY DEF Init, QueueInv
<1>3. /\ fg.pc = "idle" /\ async.pc = "off" /\ starting = 0 /\ orphan = {} /\ okFile = {} /\ acked = {} /\ lock = "free"
      /\ \A s \in Segs : job[s].pc = "none" /\ wal[s] = "wal"
      /\ \A r \in Repos, s \in Segs : archive[r][s] # "recycled"
    BY DEF Init, FgIdle, AsyncOff, NoJob
<1>4. LockInv /\ ModeInv /\ FgInv /\ TodoInv
    BY <1>3 DEF LockInv, ModeInv, AsyncMode, SyncMode, Busy, FgInv, PushedOk, TodoInv
<1>5. WalInv /\ CopyInv /\ AckInv
    BY <1>3 DEF WalInv, CopyInv, OrphanInv, JobInv, AckInv, AckedArchived
<1> QED
    BY <1>1, <1>2, <1>4, <1>5 DEF PushInv

LEMMA PushInvNext == PushInv /\ [Next]_vars => PushInv'
<1> SUFFICES ASSUME PushInv, [Next]_vars PROVE PushInv'
    OBVIOUS
<1>1. CASE Next
  <2>1. TypeOK'
      BY <1>1, PushTypeStep DEF PushInv
  <2>2. QueueInv' /\ LockInv' /\ ModeInv' /\ FgInv' /\ TodoInv' /\ WalInv' /\ CopyInv' /\ AckInv'
      BY <1>1, QueueStep, LockStep, ModeStep, FgStep, TodoStep, WalStep, CopyStep, AckStep
  <2> QED
      BY <2>1, <2>2 DEF PushInv
<1>2. CASE UNCHANGED vars
  <2>1. TypeOK' /\ QueueInv' /\ LockInv' /\ FgInv'
      BY <1>2 DEF vars, PushInv, TypeOK, QueueInv, LockInv, FgInv, PushedOk
  <2>2. ModeInv' /\ TodoInv' /\ WalInv'
      BY <1>2 DEF vars, PushInv, ModeInv, AsyncMode, SyncMode, Busy, TodoInv, WalInv
  <2>3. CopyInv'
    <3>1. OrphanInv'
        BY <1>2 DEF vars, PushInv, CopyInv, OrphanInv, Everywhere
    <3>2. ASSUME NEW s \in Segs PROVE JobInv(s)'
      <4>1. JobInv(s)
          BY DEF PushInv, CopyInv
      <4> QED
          BY <1>2, <4>1 DEF vars, JobInv, Everywhere, Covered
    <3> QED
        BY <3>1, <3>2 DEF CopyInv
  <2>4. AckInv'
      BY Zenon, <1>2 DEF vars, PushInv, AckInv, AckedArchived, Everywhere
  <2> QED
      BY <2>1, <2>2, <2>3, <2>4 DEF PushInv
<1> QED
    BY <1>1, <1>2

\* The inductive invariant holds in every state the command, its async and
\* local processes and PostgreSQL can reach together.
THEOREM PushInvariant == Spec => []PushInv
    BY PushInvInit, PushInvNext, PTL DEF Spec

\* Queue, repositories, spool path and processes have their types; the counter
\* of failures stays within its bound.
THEOREM PushTypeCorrect == Spec => []TypeOK
<1>1. PushInv => TypeOK
    BY DEF PushInv
<1> QED
    BY <1>1, PushInvariant, PTL

\* What archive-push acknowledges, or marks as pushed with an .ok file, is in
\* every configured repository with PostgreSQL's content, or was dropped from a
\* queue that was too large: for any number of segments and repositories and
\* however many pushes fail, are killed or repeated.
THEOREM AcknowledgedIsArchived == Spec => []AckedArchived
<1>1. PushInv => AckedArchived
    BY DEF PushInv, AckInv
<1> QED
    BY <1>1, PushInvariant, PTL

\* No step replaces what a repository holds under the name of a segment, not
\* even that of a local process that has lost its async process.
THEOREM NothingOverwritten == Spec => NoOverwrite
<1>1. PushInv /\ [Next]_vars =>
        [\A r \in Repos, s \in Segs : archive[r][s] # "none" => archive'[r][s] = archive[r][s]]_vars
    BY Grows
<1> QED
    BY <1>1, PushInvariant, PTL DEF Spec, NoOverwrite

\* The async process does not remove the .ok file that archiveAsyncStatus() has
\* found and not yet read.
THEOREM OkFileStays == Spec => []OkStays
<1>1. PushInv => OkStays
    BY DEF PushInv, FgInv, OkStays
<1> QED
    BY <1>1, PushInvariant, PTL

\* With pg1-path given, a push that ends with the errors of some repositories
\* has left the segment in every other one, in both modes.
THEOREM PushedWherePossible == PgPath => (Spec => []AsManyAsPossible)
<1> SUFFICES ASSUME PgPath PROVE Spec => []AsManyAsPossible
    OBVIOUS
<1>1. PushInv => AsManyAsPossible
    BY DEF PushInv, CopyInv, JobInv, Covered, AsManyAsPossible
<1> QED
    BY <1>1, PushInvariant, PTL
=============================================================================
