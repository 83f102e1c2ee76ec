----------------------------- MODULE GetProofs ------------------------------
(***************************************************************************)
(* Proofs about ArchiveGet: PostgreSQL is never given part of a segment,   *)
(* for any number of segments, repositories and processes, any contents of *)
(* the repositories and however often processes are killed.                *)
(*                                                                         *)
(* GotWhole is not inductive.  A temporary file that is about to be        *)
(* renamed is whole (CopyInv) because only one process writes to it.  That *)
(* takes the lock: it belongs to the async process as long as a local      *)
(* process of it is left, also one that outlived it, and while the         *)
(* foreground clears the queue no such process exists (LockInv).           *)
(***************************************************************************)
EXTENDS ArchiveGet, TLAPS

Whole(s) == {"none"} \cup {archive[r][s] : r \in Repos}

LockInv ==
    /\ lock = "async" <=> async.pc # "off"
    /\ lock = "fg" <=> fg.pc \in {"need", "release"}
    /\ orphan # {} => async.pc = "exit"
    /\ \A s \in Segs : job[s].pc # "none" => async.pc \in {"find", "get"}

CopyInv == \A s \in Segs : job[s].pc \in {"ok", "rename"} => tmp[s] \in Whole(s)

GetInv == TypeOK /\ LockInv /\ CopyInv /\ GotWhole

-----------------------------------------------------------------------------
\* What the queue may ask for
LEMMA Numbers ==
    /\ N \in Nat \ {0} /\ QueueTotal \in Nat /\ 1 .. N \subseteq Segs /\ MaxFault \in Nat
    /\ Archived \in Nat /\ Segs \subseteq Nat \ {0} /\ NoSeg = 0 /\ Global = 0
  BY ArchiveGetAssumption DEF QueueTotal, Segs, NoSeg, Global

LEMMA FaultType == \A f \in BOOLEAN : faults \in 0 .. MaxFault /\ Fault(f) => faults' \in 0 .. MaxFault
  BY Numbers DEF Fault

\* A segment stays in the archive
LEMMA WholeStays ==
    ASSUME TypeOK, NEW r \in Repos, NEW s \in Segs, archive[r][s] = "none", NEW c,
           archive' = [archive EXCEPT ![r][s] = c], NEW t \in Segs
    PROVE  Whole(t) \subseteq Whole(t)'
  <1>1. \A q \in Repos : archive[q][t] \in {"none", archive'[q][t]}
    BY DEF TypeOK
  <1> QED
    BY <1>1 DEF Whole

\* GotWhole and CopyInv depend only on these
LEMMA Frame ==
    ASSUME CopyInv, GotWhole, UNCHANGED <<archive, got, queue, tmp, job>>
    PROVE  CopyInv' /\ GotWhole'
  BY DEF CopyInv, GotWhole, Whole

LEMMA AsyncOffType == AsyncOff \in AsyncType /\ FgIdle \in FgType /\ NoJob \in JobType
  BY Numbers DEF AsyncOff, AsyncType, FgIdle, FgType, NoJob, JobType, Segment

\* The steps of the foreground and of PostgreSQL that change no file
LEMMA FgQuietStep ==
    ASSUME GetInv,
           \/ PgReturn \/ PgRestart \/ FgStart \/ FgExists \/ FgStatus \/ FgCount \/ FgLock \/ FgRelease \/ FgWait
           \/ FgTimeout
    PROVE  GetInv'
  <1>0. TypeOK /\ LockInv /\ CopyInv /\ GotWhole
    BY DEF GetInv
  <1>1. UNCHANGED <<other, archive, got, queue, tmp, okFile, errFile, starting, async, job, orphan>>
    BY Zenon DEF PgReturn, PgRestart, FgStart, FgExists, FgStatus, FgCount, FgLock, FgRelease, FgWait, FgTimeout, spool
  <1>2. CopyInv' /\ GotWhole'
    BY <1>0, <1>1, Frame
  <1>3. want' \in 1 .. N + 1
    <2>1. CASE PgReturn
      <3>1. fg.pc # "idle" /\ want' \in {want, want + 1}
        BY <2>1 DEF PgReturn
      <3>2. want \in 1 .. N
        BY <1>0, <3>1 DEF TypeOK, FgType
      <3> QED
        BY <3>1, <3>2, Numbers
    <2>2. CASE ~PgReturn
      <3>1. want' = want \/ want' \in 1 .. N
        BY Zenon, <2>2 DEF PgRestart, FgStart, FgExists, FgStatus, FgCount, FgLock, FgRelease, FgWait, FgTimeout
      <3> QED
        BY <1>0, <3>1, Numbers DEF TypeOK
    <2> QED
      BY <2>1, <2>2
  <1>4. faults' \in 0 .. MaxFault
    BY Zenon, <1>0, FaultType DEF TypeOK, PgReturn, PgRestart, FgStart, FgExists, FgStatus, FgCount, FgLock, FgRelease, FgWait, FgTimeout
  <1>5. /\ lock' \in {"free", "fg", "async"} /\ fg' \in FgType /\ (fg'.pc # "idle" => fg'.seg = want')
        /\ lock' = "async" <=> lock = "async"
        /\ lock' = "fg" <=> fg'.pc \in {"need", "release"}
    <2>0. fg \in FgType /\ (fg.pc # "idle" => fg.seg = want) /\ lock \in {"free", "fg", "async"}
          /\ (lock = "fg" <=> fg.pc \in {"need", "release"})
      BY <1>0 DEF TypeOK, LockInv
    <2>1. CASE PgReturn \/ PgRestart
      <3>1. FgIdle \in FgType /\ FgIdle.pc = "idle"
        BY AsyncOffType DEF FgIdle
      <3>2. fg' = FgIdle /\ lock' = IF lock = "fg" THEN "free" ELSE lock
        BY Zenon, <2>1 DEF PgReturn, PgRestart
      <3> QED
        BY <2>0, <3>1, <3>2
    <2>2. CASE FgStart
      <3>1. fg' = [FgIdle EXCEPT !.pc = "exists", !.seg = want] /\ UNCHANGED <<want, lock>> /\ fg.pc = "idle" /\ want <= N
        BY <2>2 DEF FgStart
      <3>2. want \in 0 .. N
        BY <1>0, <3>1, Numbers DEF TypeOK
      <3>3. fg' \in FgType /\ fg'.pc = "exists" /\ fg'.seg = want
        BY Zenon, <3>1, <3>2, AsyncOffType DEF FgType
      <3> QED
        BY <2>0, <3>1, <3>3
    <2>3. CASE FgExists \/ FgWait \/ FgTimeout
      BY Zenon, <2>0, <2>3 DEF FgExists, FgWait, FgTimeout, FgType
    <2>4. CASE FgStatus
      BY <2>0, <2>4 DEF FgStatus, FgType, AfterStatus
    <2>5. CASE FgCount \/ FgRelease
      BY <2>0, <2>5 DEF FgCount, FgRelease, FgType
    <2>6. CASE FgLock
      BY ZenonT(30), <2>0, <2>6 DEF FgLock, FgType, LoopEnd
    <2> QED
      BY <2>1, <2>2, <2>3, <2>4, <2>5, <2>6
  <1>6. TypeOK'
    BY <1>0, <1>1, <1>3, <1>4, <1>5 DEF TypeOK
  <1>7. LockInv'
    BY <1>0, <1>1, <1>5 DEF LockInv
  <1> QED
    BY <1>2, <1>6, <1>7 DEF GetInv

\* The steps of the foreground that change the spool queue
LEMMA FgSpoolStep ==
    ASSUME GetInv, FgOkRemove \/ FgMove \/ FgNeed \/ FgExec
    PROVE  GetInv'
  <1>0. TypeOK /\ LockInv /\ CopyInv /\ GotWhole
    BY DEF GetInv
  <1>1. UNCHANGED <<other, archive, want, lock, async, job, orphan, faults>>
    BY DEF FgOkRemove, FgMove, FgNeed, FgExec
  <1>2. fg \in FgType /\ fg.pc # "idle" /\ fg.seg = want /\ fg.seg \in 1 .. N
    BY <1>0 DEF TypeOK, FgType, FgOkRemove, FgMove, FgNeed, FgExec
  <1>3. CASE FgOkRemove
    <2>1. fg' \in FgType /\ fg'.seg = fg.seg /\ fg'.pc \notin {"need", "release"} /\ fg.pc \notin {"need", "release"}
      BY <1>2, <1>3 DEF FgOkRemove, FgType, AfterStatus
    <2>2. okFile' \in [Segs -> {"none", "missing", "warn"}] /\ UNCHANGED <<got, queue, tmp, errFile, starting>>
      BY Zenon, <1>0, <1>3 DEF FgOkRemove, TypeOK
    <2>3. TypeOK'
      BY <1>0, <1>1, <1>2, <2>1, <2>2 DEF TypeOK
    <2>4. LockInv'
      BY <1>0, <1>1, <2>1 DEF LockInv
    <2> QED
      BY <1>0, <1>1, <2>2, <2>3, <2>4, Frame DEF GetInv
  <1>4. CASE FgMove
    <2>1. fg' \in FgType /\ fg'.seg = fg.seg /\ fg'.pc \notin {"need", "release"} /\ fg.pc \notin {"need", "release"}
      BY <1>2, <1>4 DEF FgMove, FgType
    <2>2. fg.seg \in Segs /\ UNCHANGED <<tmp, okFile, errFile, starting>>
      BY <1>2, <1>4, Numbers DEF FgMove
    <2>3. /\ got' = [got EXCEPT ![fg.seg] = queue[fg.seg]] /\ queue' = [queue EXCEPT ![fg.seg] = "none"]
      BY <1>4 DEF FgMove
    <2>4. got' \in [Segs -> Contents] /\ queue' \in [Segs -> Contents]
      BY <1>0, <2>2, <2>3 DEF TypeOK, Contents
    <2>5. TypeOK'
      BY <1>0, <1>1, <1>2, <2>1, <2>2, <2>4 DEF TypeOK
    <2>6. LockInv'
      BY <1>0, <1>1, <2>1 DEF LockInv
    <2>7. CopyInv'
      BY <1>0, <1>1, <2>2 DEF CopyInv, Whole
    <2>8. GotWhole'
      BY <1>0, <1>1, <2>2, <2>3 DEF GotWhole, TypeOK
    <2> QED
      BY <2>5, <2>6, <2>7, <2>8 DEF GetInv
  <1>5. CASE FgNeed
    <2>1. IdealQueue \subseteq Segs
      <3>1. \E b \in 1 .. N + 1 : IdealQueue = b .. b + QueueTotal - 1
        BY <1>2, Numbers DEF IdealQueue
      <3> QED
        BY <3>1, Numbers DEF Segs
    <2>2. fg' = [fg EXCEPT !.pc = "release", !.need = IdealQueue \ Queued] /\ fg.pc = "need"
      BY <1>5 DEF FgNeed
    <2>3. fg' \in FgType /\ fg'.seg = fg.seg /\ fg'.pc = "release"
      BY Zenon, <1>2, <2>1, <2>2 DEF FgType
    <2>4. /\ queue' = [s \in Segs |-> IF s \in IdealQueue THEN queue[s] ELSE "none"] /\ tmp' = [s \in Segs |-> "none"]
          /\ okFile' = [s \in Segs |-> IF s \in Queued THEN okFile[s] ELSE "none"] /\ errFile' = {} /\ UNCHANGED <<got, starting>>
      BY <1>5 DEF FgNeed
    <2>5. queue' \in [Segs -> Contents] /\ tmp' \in [Segs -> Contents] /\ okFile' \in [Segs -> {"none", "missing", "warn"}]
      BY <1>0, <2>4 DEF TypeOK, Contents
    <2>6. TypeOK'
      BY <1>0, <1>1, <1>2, <2>3, <2>4, <2>5 DEF TypeOK
    <2>7. LockInv'
      BY <1>0, <1>1, <2>2, <2>3 DEF LockInv
    <2>8. CopyInv'
      <3>1. \A s \in Segs : job[s].pc = "none"
        BY <1>0, <2>2 DEF LockInv
      <3> QED
        BY <1>1, <3>1 DEF CopyInv
    <2>9. GotWhole'
      BY <1>0, <1>1, <2>4 DEF GotWhole
    <2> QED
      BY <2>6, <2>7, <2>8, <2>9 DEF GetInv
  <1>6. CASE FgExec
    <2>1. fg' \in FgType /\ fg'.seg = fg.seg /\ fg'.pc \notin {"need", "release"} /\ fg.pc \notin {"need", "release"}
      BY Zenon, <1>2, <1>6 DEF FgExec, FgType, LoopEnd
    <2>2. starting' \in Seq(SUBSET Segs) /\ UNCHANGED <<got, queue, tmp, okFile, errFile>>
      BY <1>0, <1>2, <1>6 DEF FgExec, TypeOK, FgType, spool
    <2>3. TypeOK'
      BY <1>0, <1>1, <1>2, <2>1, <2>2 DEF TypeOK
    <2>4. LockInv'
      BY <1>0, <1>1, <2>1 DEF LockInv
    <2> QED
      BY <1>0, <1>1, <2>2, <2>3, <2>4, Frame DEF GetInv
  <1> QED
    BY <1>3, <1>4, <1>5, <1>6

\* A segment arrives in a repository
LEMMA PushStep == ASSUME GetInv, NEW r \in Repos, Push(r) PROVE GetInv'
  <1>0. TypeOK /\ LockInv /\ CopyInv /\ GotWhole
    BY DEF GetInv
  <1>1. PICK s \in 1 .. N : archive[r][s] = "none" /\ archive' = [archive EXCEPT ![r][s] = Content(r, s)]
    BY Zenon DEF Push
  <1>2. UNCHANGED <<other, want, got, queue, tmp, okFile, errFile, lock, fg, starting, async, job, orphan, faults>>
    BY DEF Push, spool
  <1>3. s \in Segs /\ Content(r, s) \in {"none", "wal", "other"}
    BY Numbers DEF Content
  <1>4. archive' \in [Repos -> [Segs -> {"none", "wal", "other"}]]
    BY <1>0, <1>1, <1>3 DEF TypeOK
  <1>5. TypeOK'
    BY <1>0, <1>2, <1>4 DEF TypeOK
  <1>6. LockInv'
    BY <1>0, <1>2 DEF LockInv
  <1>7. \A t \in Segs : Whole(t) \subseteq Whole(t)'
    BY Zenon, <1>0, <1>1, <1>3, WholeStays
  <1>8. CopyInv'
    BY <1>0, <1>2, <1>7 DEF CopyInv
  <1>9. GotWhole'
    <2>1. \A t \in Segs : {got[t], queue[t]} \subseteq Whole(t)
      BY <1>0 DEF GotWhole, Whole
    <2>2. \A t \in Segs : {got'[t], queue'[t]} \subseteq Whole(t)'
      BY <1>2, <1>7, <2>1
    <2> QED
      BY <2>2 DEF GotWhole, Whole
  <1> QED
    BY <1>5, <1>6, <1>8, <1>9 DEF GetInv

\* The end of the async process leaves its busy local processes behind
LEMMA QuitStep ==
    ASSUME GetInv, AsyncQuit, async.pc # "off", orphan = {},
           errFile' \subseteq Segs \cup {Global}, okFile' \in [Segs -> {"none", "missing", "warn"}],
           faults' \in 0 .. MaxFault, UNCHANGED <<other, archive, want, got, queue, tmp, lock, fg, starting>>
    PROVE  GetInv'
  <1>0. TypeOK /\ LockInv /\ CopyInv /\ GotWhole
    BY DEF GetInv
  <1>1. async' = [async EXCEPT !.pc = "exit"] /\ job' = [s \in Segs |-> NoJob] /\ orphan' \subseteq Segs
    BY <1>0 DEF AsyncQuit, TypeOK
  <1>2. async' \in AsyncType /\ async'.pc = "exit"
    BY Zenon, <1>0, <1>1 DEF TypeOK, AsyncType
  <1>3. job' \in [Segs -> JobType] /\ \A s \in Segs : job'[s].pc = "none"
    <2>1. NoJob.pc = "none"
      BY DEF NoJob
    <2> QED
      BY <1>1, <2>1, AsyncOffType
  <1>4. TypeOK'
    BY <1>0, <1>1, <1>2, <1>3 DEF TypeOK
  <1>5. LockInv'
    BY <1>0, <1>2, <1>3 DEF LockInv
  <1>6. CopyInv'
    BY <1>3 DEF CopyInv
  <1>7. GotWhole'
    BY <1>0 DEF GotWhole
  <1> QED
    BY <1>4, <1>5, <1>6, <1>7 DEF GetInv

LEMMA AsyncStartStep == ASSUME GetInv, NEW i \in DOMAIN starting, AsyncStart(i) PROVE GetInv'
  <1>0. TypeOK /\ LockInv /\ CopyInv /\ GotWhole
    BY DEF GetInv
  <1>1. UNCHANGED <<other, archive, want, got, queue, tmp, okFile, errFile, fg, job, orphan, faults>>
    BY DEF AsyncStart, spool
  <1>2. starting \in Seq(SUBSET Segs) /\ i \in 1 .. Len(starting)
    BY <1>0 DEF TypeOK
  <1>3. starting' \in Seq(SUBSET Segs)
    <2>1. Len(starting) - 1 \in Nat /\ starting' = Without(i)
      BY <1>2 DEF AsyncStart
    <2>2. \A n \in 1 .. Len(starting) - 1 : starting[n] \in SUBSET Segs /\ starting[n + 1] \in SUBSET Segs
      BY <1>2
    <2>3. Without(i) \in [1 .. Len(starting) - 1 -> SUBSET Segs]
      BY <2>2 DEF Without
    <2> QED
      BY <2>1, <2>3
  <1>4. CASE lock = "free"
    <2>1. lock' = "async" /\ async' = [AsyncOff EXCEPT !.pc = "check", !.todo = starting[i]]
      BY <1>4 DEF AsyncStart
    <2>2. async' \in AsyncType /\ async'.pc = "check"
      <3>1. starting[i] \in SUBSET Segs
        BY <1>2
      <3>2. PICK t \in SUBSET Segs : t = starting[i]
        BY <3>1
      <3>3. PICK x \in AsyncType : x = AsyncOff
        BY AsyncOffType
      <3>4. async' = [x EXCEPT !.pc = "check", !.todo = t]
        BY <2>1, <3>2, <3>3
      <3> QED
        BY ZenonT(30), <3>4 DEF AsyncType
    <2>3. TypeOK'
      BY <1>0, <1>1, <1>3, <2>1, <2>2 DEF TypeOK
    <2>4. async.pc = "off"
      BY <1>0, <1>4 DEF LockInv
    <2>5. LockInv'
      BY <1>0, <1>1, <1>4, <2>1, <2>2, <2>4 DEF LockInv
    <2> QED
      BY <1>0, <1>1, <2>3, <2>5, Frame DEF GetInv
  <1>5. CASE lock # "free"
    <2>1. UNCHANGED <<lock, async>>
      BY <1>5 DEF AsyncStart
    <2>2. TypeOK' /\ LockInv'
      BY <1>0, <1>1, <1>3, <2>1 DEF TypeOK, LockInv
    <2> QED
      BY <1>0, <1>1, <2>2, Frame DEF GetInv
  <1> QED
    BY <1>4, <1>5

LEMMA AsyncEndStep == ASSUME GetInv, AsyncCheck \/ AsyncEnd \/ AsyncDie PROVE GetInv'
  <1>0. TypeOK /\ LockInv /\ CopyInv /\ GotWhole
    BY DEF GetInv
  <1>1. async.pc \in {"check", "find", "get"} /\ orphan = {}
    BY Zenon, <1>0 DEF AsyncCheck, AsyncEnd, AsyncDie, LockInv
  <1>2. faults' \in 0 .. MaxFault
    BY Zenon, <1>0, FaultType DEF AsyncCheck, AsyncEnd, AsyncDie, TypeOK
  <1>3. CASE AsyncDie
    <2>1. /\ AsyncQuit /\ errFile' \in {errFile, errFile \cup {Global}}
          /\ UNCHANGED <<other, archive, want, got, queue, tmp, okFile, lock, fg, starting>>
      BY <1>3 DEF AsyncDie
    <2> QED
      BY <1>0, <1>1, <1>2, <2>1, QuitStep DEF TypeOK
  <1>4. CASE AsyncEnd
    <2>1. AsyncQuit /\ UNCHANGED <<other, archive, want, got, queue, tmp, lock, fg, starting>>
      BY <1>4 DEF AsyncEnd
    <2>2. async.error \in Segs \cup {0} /\ async.missing \in Segs \cup {0}
      BY <1>0, Numbers DEF TypeOK, AsyncType, Segment
    <2>3. errFile' \subseteq Segs \cup {Global} /\ okFile' \in [Segs -> {"none", "missing", "warn"}]
      BY ZenonT(30), <1>0, <1>4, <2>2, Numbers DEF AsyncEnd, TypeOK
    <2> QED
      BY <1>1, <1>2, <2>1, <2>3, QuitStep
  <1>5. CASE AsyncCheck
    <2>1. PICK fail \in SUBSET Repos :
            IF async.todo = {} \/ fail = Repos
            THEN AsyncQuit /\ errFile' = errFile \cup {Global}
            ELSE /\ async' = [async EXCEPT !.pc = "find", !.valid = Repos \ fail]
                 /\ UNCHANGED <<errFile, job, orphan>>
      BY Zenon, <1>5 DEF AsyncCheck
    <2>2. UNCHANGED <<other, archive, want, got, queue, tmp, okFile, lock, fg, starting>> /\ async.pc = "check"
      BY Zenon, <1>5 DEF AsyncCheck
    <2>3. CASE AsyncQuit /\ errFile' = errFile \cup {Global}
      BY <1>0, <1>1, <1>2, <2>2, <2>3, QuitStep DEF TypeOK
    <2>4. CASE /\ async.todo # {} /\ async' = [async EXCEPT !.pc = "find", !.valid = Repos \ fail]
               /\ UNCHANGED <<errFile, job, orphan>>
      <3>1. async' \in AsyncType /\ async'.pc = "find" /\ async'.todo # {}
        BY Zenon, <1>0, <2>4 DEF TypeOK, AsyncType
      <3>2. TypeOK'
        BY <1>0, <1>2, <2>2, <2>4, <3>1 DEF TypeOK
      <3>3. LockInv'
        BY <1>0, <1>1, <2>2, <2>4, <3>1 DEF LockInv
      <3> QED
        BY <1>0, <2>2, <2>4, <3>2, <3>3, Frame DEF GetInv
    <2> QED
      BY <2>1, <2>3, <2>4
  <1> QED
    BY <1>3, <1>4, <1>5

LEMMA AsyncExitStep == ASSUME GetInv, AsyncExit PROVE GetInv'
  <1>0. TypeOK /\ LockInv /\ CopyInv /\ GotWhole
    BY DEF GetInv
  <1>1. /\ UNCHANGED <<other, archive, want, got, queue, tmp, okFile, errFile, fg, starting, job, orphan, faults>>
        /\ async.pc = "exit" /\ orphan = {} /\ lock' = "free"
    BY DEF AsyncExit, spool
  <1>2. async' \in AsyncType /\ async'.pc = "off"
    <2>1. async' = [AsyncOff EXCEPT !.missing = async.missing] /\ async.missing \in Segment
      BY <1>0 DEF AsyncExit, TypeOK, AsyncType
    <2>2. AsyncOff.pc = "off"
      BY DEF AsyncOff
    <2> QED
      BY <2>1, <2>2, AsyncOffType DEF AsyncType
  <1>3. TypeOK'
    BY <1>0, <1>1, <1>2 DEF TypeOK
  <1>4. LockInv'
    BY <1>0, <1>1, <1>2 DEF LockInv
  <1> QED
    BY <1>0, <1>1, <1>3, <1>4, Frame DEF GetInv

LEMMA AsyncFindStep == ASSUME GetInv, AsyncFind PROVE GetInv'
  <1>0. TypeOK /\ LockInv /\ CopyInv /\ GotWhole
    BY DEF GetInv
  <1>1. UNCHANGED <<other, archive, want, got, queue, tmp, okFile, errFile, lock, fg, starting, orphan>> /\ async.pc = "find"
    BY DEF AsyncFind, spool
  <1>2. PICK s \in async.todo, fail \in SUBSET (async.valid \ async.cached) :
          /\ Fault(fail # {})
          /\ \/ async' = [Searched(s, fail) EXCEPT !.pc = "get", !.error = s] /\ UNCHANGED job
             \/ async' = [Searched(s, fail) EXCEPT !.pc = "get", !.missing = s] /\ UNCHANGED job
             \/ /\ async' = [Searched(s, fail) EXCEPT !.pc = IF async.todo = {s} THEN "get" ELSE "find"]
                /\ job' = [job EXCEPT ![s] = [pc |-> "todo", actual |-> Matching(s, fail),
                                              warn |-> fail # {} \/ async.valid # Repos]]
    BY Zenon DEF AsyncFind
  <1>3. faults' \in 0 .. MaxFault
    BY Zenon, <1>0, <1>2, FaultType DEF TypeOK
  <1>4. s \in Segs /\ Searched(s, fail) \in AsyncType /\ Searched(s, fail).todo = async.todo \ {s}
    <2>1. async \in AsyncType /\ ListOf(async.valid \ (fail \cup async.cached)) \subseteq Repos \X Segs
      BY <1>0 DEF TypeOK, AsyncType, ListOf
    <2> QED
      BY Zenon, <1>2, <2>1 DEF AsyncType, Searched
  <1>5. async' \in AsyncType /\ async'.pc \in {"find", "get"} /\ (async'.pc = "find" => async'.todo # {})
    <2>1. PICK x \in AsyncType : x = Searched(s, fail) /\ x.todo = async.todo \ {s}
      BY <1>4
    <2>2. async.todo # {s} => x.todo # {}
      BY <1>2, <2>1
    <2>3. s \in Segment
      BY <1>4 DEF Segment
    <2>4. CASE async' = [x EXCEPT !.pc = "get", !.error = s] \/ async' = [x EXCEPT !.pc = "get", !.missing = s]
      BY Zenon, <2>3, <2>4 DEF AsyncType
    <2>5. CASE async' = [x EXCEPT !.pc = IF async.todo = {s} THEN "get" ELSE "find"]
      <3>1. CASE async.todo = {s}
        BY <2>5, <3>1 DEF AsyncType
      <3>2. CASE async.todo # {s}
        BY <2>2, <2>5, <3>2 DEF AsyncType
      <3> QED
        BY <3>1, <3>2
    <2> QED
      BY <1>2, <2>1, <2>4, <2>5
  <1>6. job' = job \/ \E j \in JobType : j.pc = "todo" /\ job' = [job EXCEPT ![s] = j]
    <2>1. Matching(s, fail) \subseteq Repos
      BY <1>0 DEF TypeOK, AsyncType, Matching
    <2>2. ASSUME NEW w \in BOOLEAN PROVE [pc |-> "todo", actual |-> Matching(s, fail), warn |-> w] \in JobType
      BY <2>1 DEF JobType
    <2> QED
      BY Zenon, <1>2, <2>2
  <1>7. job' \in [Segs -> JobType] /\ \A t \in Segs : job'[t] = job[t] \/ job'[t].pc = "todo"
    BY <1>0, <1>4, <1>6 DEF TypeOK
  <1>8. TypeOK'
    BY <1>0, <1>1, <1>3, <1>5, <1>7 DEF TypeOK
  <1>9. LockInv'
    BY <1>0, <1>1, <1>5, <1>7 DEF LockInv
  <1>10. CopyInv'
    BY <1>0, <1>1, <1>7 DEF CopyInv, Whole
  <1>11. GotWhole'
    BY <1>0, <1>1 DEF GotWhole
  <1> QED
    BY <1>8, <1>9, <1>10, <1>11 DEF GetInv

\* A step of one job: what it needs to keep the invariant
LEMMA JobFrame ==
    ASSUME GetInv, NEW s \in Segs, NEW j \in JobType, job' = [job EXCEPT ![s] = j],
           async.pc \in {"find", "get"}, NEW c \in Contents, tmp' = [tmp EXCEPT ![s] = c],
           j.pc \in {"ok", "rename"} => c \in Whole(s),
           errFile' \subseteq Segs \cup {Global}, okFile' \in [Segs -> {"none", "missing", "warn"}],
           faults' \in 0 .. MaxFault, queue' \in [Segs -> Contents], GotWhole',
           UNCHANGED <<other, archive, want, got, lock, fg, starting, async, orphan>>
    PROVE  GetInv'
  <1>0. TypeOK /\ LockInv /\ CopyInv /\ GotWhole
    BY DEF GetInv
  <1>1. /\ job' \in [Segs -> JobType] /\ tmp' \in [Segs -> Contents]
        /\ \A t \in Segs : IF t = s THEN job'[t] = j /\ tmp'[t] = c ELSE job'[t] = job[t] /\ tmp'[t] = tmp[t]
    BY <1>0 DEF TypeOK
  <1>2. TypeOK'
    BY <1>0, <1>1 DEF TypeOK
  <1>3. LockInv'
    BY <1>0 DEF LockInv
  <1>4. CopyInv'
    <2>1. \A t \in Segs : Whole(t)' = Whole(t)
      BY DEF Whole
    <2> QED
      BY <1>0, <1>1, <2>1 DEF CopyInv
  <1> QED
    BY <1>2, <1>3, <1>4 DEF GetInv

LEMMA JobStep ==
    ASSUME GetInv, NEW s \in Segs, JobStart(s) \/ JobCopy(s) \/ AsyncResult(s) \/ AsyncRename(s)
    PROVE  GetInv'
  <1>0. TypeOK /\ LockInv /\ CopyInv /\ GotWhole
    BY DEF GetInv
  <1>1. job \in [Segs -> JobType] /\ tmp \in [Segs -> Contents] /\ tmp = [tmp EXCEPT ![s] = tmp[s]]
    BY <1>0 DEF TypeOK
  <1>2. async.pc \in {"find", "get"} /\ orphan = {}
    BY Zenon, <1>0 DEF JobStart, JobCopy, AsyncResult, AsyncRename, LockInv
  <1>3. UNCHANGED <<other, archive, want, got, lock, fg, starting, async, orphan>>
    BY Zenon DEF JobStart, JobCopy, AsyncResult, AsyncRename
  <1>4. ASSUME UNCHANGED queue PROVE queue' \in [Segs -> Contents] /\ GotWhole'
    BY <1>0, <1>3, <1>4 DEF TypeOK, GotWhole
  <1>5. \A p \in {"copy", "err", "ok", "rename"} : [job[s] EXCEPT !.pc = p] \in JobType /\ [job[s] EXCEPT !.pc = p].pc = p
    BY <1>1 DEF JobType
  <1>6. CASE JobStart(s)
    <2>1. /\ job' = [job EXCEPT ![s] = [job[s] EXCEPT !.pc = "copy"]] /\ tmp' = [tmp EXCEPT ![s] = "part"]
          /\ UNCHANGED <<queue, okFile, errFile, faults>>
      BY <1>6 DEF JobStart
    <2>2. "part" \in Contents
      BY DEF Contents
    <2> QED
      BY Zenon, <1>0, <1>2, <1>3, <1>4, <1>5, <2>1, <2>2, JobFrame DEF TypeOK
  <1>7. CASE JobCopy(s)
    <2>1. UNCHANGED <<queue, okFile, errFile>> /\ faults' \in 0 .. MaxFault
      <3>1. \E f \in BOOLEAN : Fault(f)
        BY Zenon, <1>7 DEF JobCopy
      <3> QED
        BY <1>0, <1>7, <3>1, FaultType DEF TypeOK, JobCopy
    <2>2. CASE job' = [job EXCEPT ![s].pc = "err"] /\ UNCHANGED tmp
      <3>1. job' = [job EXCEPT ![s] = [job[s] EXCEPT !.pc = "err"]] /\ tmp' = [tmp EXCEPT ![s] = tmp[s]]
        BY <1>1, <2>2
      <3> QED
        BY Zenon, <1>0, <1>1, <1>2, <1>3, <1>4, <1>5, <2>1, <3>1, JobFrame DEF TypeOK
    <2>3. CASE \E r \in job[s].actual :
                 /\ tmp' = [tmp EXCEPT ![s] = Copied(r, s)]
                 /\ job' = [job EXCEPT ![s].pc = "ok", ![s].warn = @ \/ (\E q \in job[s].actual : q < r)]
      <3>1. PICK r \in job[s].actual, w \in BOOLEAN :
              /\ tmp' = [tmp EXCEPT ![s] = Copied(r, s)]
              /\ job' = [job EXCEPT ![s] = [job[s] EXCEPT !.pc = "ok", !.warn = w]]
        BY Zenon, <2>3
      <3>2. r \in Repos /\ Copied(r, s) = archive[r][s]
        BY <1>1, <1>2 DEF Copied, JobType
      <3>3. archive[r][s] \in Contents /\ archive[r][s] \in Whole(s)
        BY <1>0, <3>2 DEF TypeOK, Whole, Contents
      <3>4. [job[s] EXCEPT !.pc = "ok", !.warn = w] \in JobType
        BY ZenonT(30), <1>1 DEF JobType
      <3> QED
        BY Zenon, <1>0, <1>2, <1>3, <1>4, <2>1, <3>1, <3>2, <3>3, <3>4, JobFrame DEF TypeOK
    <2> QED
      BY Zenon, <1>7, <2>2, <2>3 DEF JobCopy
  <1>8. CASE AsyncResult(s)
    <2>1. UNCHANGED <<queue, tmp, faults>> /\ tmp' = [tmp EXCEPT ![s] = tmp[s]]
      BY <1>1, <1>8 DEF AsyncResult
    <2>2. CASE errFile' = errFile \cup {s} /\ job' = [job EXCEPT ![s] = NoJob] /\ UNCHANGED okFile
      <3>1. NoJob \in JobType /\ NoJob.pc = "none"
        BY AsyncOffType DEF NoJob
      <3>2. errFile' \subseteq Segs \cup {Global} /\ okFile' \in [Segs -> {"none", "missing", "warn"}] /\ faults' \in 0 .. MaxFault
        BY Zenon, <1>0, <2>1, <2>2 DEF TypeOK
      <3>3. tmp[s] \in Contents
        BY <1>1
      <3> QED
        BY Zenon, <1>2, <1>3, <1>4, <2>1, <2>2, <3>1, <3>2, <3>3, JobFrame
    <2>3. CASE /\ job[s].pc = "ok" /\ UNCHANGED errFile
               /\ okFile' = IF job[s].warn THEN [okFile EXCEPT ![s] = "warn"] ELSE okFile
               /\ job' = [job EXCEPT ![s].pc = "rename"]
      <3>1. tmp[s] \in Whole(s)
        BY <1>0, <2>3 DEF CopyInv
      <3>2. okFile' \in [Segs -> {"none", "missing", "warn"}]
        BY <1>0, <2>3 DEF TypeOK
      <3>3. job' = [job EXCEPT ![s] = [job[s] EXCEPT !.pc = "rename"]]
        BY <2>3
      <3>4. errFile' \subseteq Segs \cup {Global} /\ faults' \in 0 .. MaxFault
        BY <1>0, <2>1, <2>3 DEF TypeOK
      <3>5. tmp[s] \in Contents
        BY <1>1
      <3>6. [job[s] EXCEPT !.pc = "rename"] \in JobType
        BY <1>5
      <3> QED
        BY Zenon, <1>2, <1>3, <1>4, <2>1, <3>1, <3>2, <3>3, <3>4, <3>5, <3>6, JobFrame
    <2> QED
      BY <1>8, <2>2, <2>3 DEF AsyncResult
  <1>9. CASE AsyncRename(s)
    <2>1. /\ tmp[s] \in Whole(s) /\ queue' = [queue EXCEPT ![s] = tmp[s]] /\ tmp' = [tmp EXCEPT ![s] = "none"]
          /\ job' = [job EXCEPT ![s] = NoJob] /\ UNCHANGED <<okFile, errFile, faults>>
      BY <1>0, <1>9 DEF AsyncRename, CopyInv
    <2>2. NoJob \in JobType /\ NoJob.pc = "none" /\ "none" \in Contents
      BY ZenonT(30), AsyncOffType DEF NoJob, Contents
    <2>3. queue' \in [Segs -> Contents]
      BY ZenonT(30), <1>0, <1>1, <2>1 DEF TypeOK
    <2>4. GotWhole'
      <3>1. \A t \in Segs : queue'[t] \in {queue[t], tmp[t]} /\ (queue'[t] # queue[t] => t = s)
        BY Zenon, <1>0, <2>1 DEF TypeOK
      <3> QED
        BY <1>0, <1>3, <2>1, <3>1 DEF GotWhole, Whole
    <2> QED
      BY Zenon, <1>0, <1>2, <1>3, <2>1, <2>2, <2>3, <2>4, JobFrame DEF TypeOK
  <1> QED
    BY <1>6, <1>7, <1>8, <1>9

\* A local process that lives on has no job of this process beside it
LEMMA OrphanStep == ASSUME GetInv, NEW s \in Segs, OrphanCopy(s) PROVE GetInv'
  <1>0. TypeOK /\ LockInv /\ CopyInv /\ GotWhole
    BY DEF GetInv
  <1>1. /\ UNCHANGED <<other, archive, want, got, queue, okFile, errFile, lock, fg, starting, async, job, faults>>
        /\ orphan' \subseteq orphan /\ orphan # {}
    BY DEF OrphanCopy
  <1>2. tmp' \in [Segs -> Contents]
    <2>1. CASE tmp' = tmp
      BY <1>0, <2>1 DEF TypeOK
    <2>2. CASE \E r \in Repos : tmp' = [tmp EXCEPT ![s] = archive[r][s]]
      BY <1>0, <2>2 DEF TypeOK, Contents
    <2> QED
      BY <2>1, <2>2 DEF OrphanCopy
  <1>3. TypeOK'
    BY <1>0, <1>1, <1>2 DEF TypeOK
  <1>4. LockInv' /\ \A t \in Segs : job'[t].pc = "none"
    BY <1>0, <1>1 DEF LockInv
  <1>5. CopyInv' /\ GotWhole'
    BY Zenon, <1>0, <1>1, <1>4 DEF CopyInv, GotWhole
  <1> QED
    BY <1>3, <1>4, <1>5 DEF GetInv

-----------------------------------------------------------------------------
LEMMA GetInit == Init => GetInv
  <1> SUFFICES ASSUME Init PROVE GetInv
    OBVIOUS
  <1>1. AsyncOff.pc = "off" /\ FgIdle.pc = "idle" /\ NoJob.pc = "none"
    BY DEF AsyncOff, FgIdle, NoJob
  <1>2. TypeOK
    BY <1>1, Numbers, AsyncOffType DEF Init, TypeOK, Contents, Content
  <1>3. LockInv /\ CopyInv
    BY <1>1 DEF Init, LockInv, CopyInv
  <1>4. GotWhole
    BY DEF Init, GotWhole
  <1> QED
    BY <1>2, <1>3, <1>4 DEF GetInv

LEMMA GetNext == GetInv /\ [Next]_vars => GetInv'
  <1> SUFFICES ASSUME GetInv, [Next]_vars PROVE GetInv'
    OBVIOUS
  <1>1. CASE \E r \in Repos : Push(r)
    BY <1>1, PushStep
  <1>2. CASE FgNext \/ PgRestart \/ FgTimeout
    BY <1>2, FgQuietStep, FgSpoolStep DEF FgNext
  <1>3. CASE AsyncNext \/ AsyncDie
    BY <1>3, AsyncStartStep, AsyncEndStep, AsyncFindStep, AsyncExitStep DEF AsyncNext
  <1>4. CASE \E s \in Segs : JobNext(s)
    BY <1>4, JobStep, OrphanStep DEF JobNext
  <1>5. CASE UNCHANGED vars
    BY <1>5 DEF vars, GetInv, TypeOK, LockInv, CopyInv, GotWhole, Whole
  <1> QED
    BY <1>1, <1>2, <1>3, <1>4, <1>5 DEF Next, Quiet

\* The inductive invariant holds of every behaviour of archive-get: the async
\* process has the lock for as long as it or one of its local processes lives.
THEOREM GetInvariant == Spec => []GetInv
  BY GetInit, GetNext, PTL DEF Spec

\* Type correctness of archive-get, for any number of segments and repositories.
THEOREM GetTypeCorrect == Spec => []TypeOK
  <1>1. GetInv => TypeOK
    BY DEF GetInv
  <1> QED
    BY <1>1, GetInvariant, PTL

\* PostgreSQL never gets part of a segment, whatever processes are killed and
\* whatever an earlier one has left in the spool path.
THEOREM GivenOnlyWhole == Spec => []GotWhole
  <1>1. GetInv => GotWhole
    BY DEF GetInv
  <1> QED
    BY <1>1, GetInvariant, PTL
=============================================================================
