------------------------------- MODULE Backup -------------------------------
(***************************************************************************)
(* The backup command (command/backup/backup.c and file.c, the manifest    *)
(* functions it calls in info/manifest.c, db/db.c) against a cluster that  *)
(* keeps writing while it is copied.                                       *)
(*                                                                         *)
(* A file of the cluster is its content, a version and a size, and a       *)
(* modification time in whole seconds; a checksum is the content itself.   *)
(* The command stats the files one by one, waits for the next second,      *)
(* decides which files the prior backup already holds, resumes what a      *)
(* killed backup left, lets local processes copy the rest in any order and *)
(* saves the manifest now and then.  PostgreSQL replays WAL from the start *)
(* of the backup, so any content a file had since then is good enough, and *)
(* nothing older is.  backup.info is the subject of BackupRepo: here the   *)
(* backups it lists are those with a backup.manifest.                      *)
(***************************************************************************)
EXTENDS Naturals, Sequences, FiniteSets

CONSTANTS FileSeq,      \* the files in the order they are listed
          Written,      \* the files that are written and dropped
          MaxTime,      \* bound on the clock
          BackupCases   \* the situations that are looked at, records of
                        \* standby: option backup-standby
                        \* sizes: sizes a write may leave
                        \* until: bound on the clock, backups: on completed backups,
                        \* writes, kills: on writes and killed commands

Files == {FileSeq[i] : i \in DOMAIN FileSeq}

ASSUME BackupAssumption ==
    /\ FileSeq \in Seq(Files) /\ Written \subseteq Files
    /\ MaxTime \in Nat \ {0}
    /\ \A c \in BackupCases :
         /\ c.standby \in BOOLEAN /\ c.sizes \subseteq Nat /\ {c.writes, c.kills, c.backups} \subseteq Nat
         /\ c.until \in 0 .. MaxTime

BackupTypes == {"full", "diff", "incr"}

NoContent == [v |-> 0, s |-> 99]        \* no file, or no checksum known
Empty == [v |-> 0, s |-> 0]
Torn == [v |-> 0, s |-> 98]             \* a copy that was cut short
Content(v, s) == IF s = 0 THEN Empty ELSE [v |-> v, s |-> s]
Limit(c, s) == IF c.s <= s THEN c ELSE Content(c.v, s)
Prefix(c, d) == c = Empty \/ (c.v = d.v /\ c.s <= d.s)

NoEntry == [t |-> 0, s |-> 0, sum |-> NoContent, ref |-> 0, on |-> FALSE]
NoManifest == [type |-> "none", prior |-> 0, delta |-> FALSE, entry |-> [f \in Files |-> NoEntry]]
Far == MaxTime + 1                      \* a timestamp in the future

VARIABLES
    backupCase,         \* the situation, it does not change
    now, pg, sb,        \* the clock, the files of the primary, contents on the standby
    writes,             \* number of writes so far, the version of the last one
    seg, archived,      \* current WAL segment and the last one in the archive
    backups,               \* the backups of the repository, oldest first
    phase, opt, m,      \* the running command: step, options, manifest
    built, copyStart, todo, skipped,
    seen, kept,         \* contents since the start, files never dropped since then
    mixed,              \* has a backup without delta resumed one with delta?
    kills

cluster == <<pg, sb, writes>>
process == <<phase, opt, m, built, copyStart, todo, skipped>>
backupVars == <<backupCase, now, cluster, seg, archived, backups, process, seen, kept, mixed, kills>>

File(v, s, t) == [on |-> TRUE, c |-> Content(v, s), t |-> t]
NoFile == [on |-> FALSE, c |-> NoContent, t |-> 0]
NoOpt == [type |-> "full", delta |-> FALSE, resume |-> FALSE, prior |-> 0, seg |-> 0, stop |-> 0]

BackupInit ==
    /\ backupCase \in BackupCases
    /\ now = 1 /\ writes = 0
    /\ pg = [f \in Files |-> File(0, 1, 0)]
    /\ sb = [f \in Files |-> Content(0, 1)]
    /\ seg = 1 /\ archived = 0
    /\ backups = <<>>
    /\ phase = "idle" /\ opt = NoOpt /\ m = NoManifest
    /\ built = 0 /\ copyStart = 0 /\ todo = {} /\ skipped = {}
    /\ seen = [f \in Files |-> {}] /\ kept = {} /\ mixed = FALSE /\ kills = 0

-----------------------------------------------------------------------------
(* The cluster *)

BackupTick ==
    /\ now < backupCase.until
    /\ now' = now + 1
    /\ UNCHANGED <<cluster, seg, archived, backups, process, seen, kept, mixed, kills>>

\* PostgreSQL writes or creates a file, with the time of the write
Write(f) ==
    /\ writes < backupCase.writes
    /\ \E s \in backupCase.sizes :
        /\ pg' = [pg EXCEPT ![f] = File(writes + 1, s, now)]
        /\ seen' = IF phase = "idle" THEN seen
                   ELSE [seen EXCEPT ![f] = @ \cup {Content(writes + 1, s)}]
    /\ writes' = writes + 1
    /\ UNCHANGED <<now, sb, seg, archived, backups, process, kept, mixed, kills>>

\* The administrator or a clock that was wrong leaves a time in the future
Touch(f) ==
    /\ writes < backupCase.writes /\ pg[f].on /\ pg[f].t # Far
    /\ pg' = [pg EXCEPT ![f].t = Far]
    /\ writes' = writes + 1
    /\ UNCHANGED <<now, sb, seg, archived, backups, process, seen, kept, mixed, kills>>

Drop(f) ==
    /\ writes < backupCase.writes /\ pg[f].on
    /\ pg' = [pg EXCEPT ![f] = NoFile]
    /\ writes' = writes + 1
    /\ kept' = kept \ {f}
    /\ UNCHANGED <<now, sb, seg, archived, backups, process, seen, mixed, kills>>

\* The standby replays and writes a file
Replay(f) ==
    /\ backupCase.standby /\ sb[f] # pg[f].c
    /\ sb' = [sb EXCEPT ![f] = pg[f].c]
    /\ UNCHANGED <<now, pg, writes, seg, archived, backups, process, seen, kept, mixed, kills>>

\* archive-push completes a segment; when, matters to the wait only
Archive ==
    /\ phase = "archive" /\ archived + 1 < seg
    /\ archived' = archived + 1
    /\ UNCHANGED <<now, cluster, seg, backups, process, seen, kept, mixed, kills>>

-----------------------------------------------------------------------------
(* Finding the prior backup, starting, building the manifest *)

\* backupBuildIncrPrior(): the newest backup, the newest full one for a diff
PriorBackup(type, prior) ==
    LET fits(i) == type # "full" /\ backups[i].done /\ (type = "diff" => backups[i].man.type = "full")
    IN  IF \E i \in DOMAIN backups : fits(i)
        THEN /\ prior \in DOMAIN backups /\ fits(prior)
             /\ \A i \in DOMAIN backups : fits(i) => i <= prior
        ELSE prior = 0

\* backupInit(), backupBuildIncrPrior() and backupStart() with dbBackupStart()
Start(type, delta, resume) ==
    /\ phase = "idle" /\ Cardinality({i \in DOMAIN backups : backups[i].done}) < backupCase.backups
    /\ \E prior \in 0 .. Len(backups) :
          /\ PriorBackup(type, prior)
          /\ opt' = [type |-> IF prior = 0 THEN "full" ELSE type, delta |-> delta,
                     resume |-> resume, prior |-> prior, seg |-> seg, stop |-> 0]
    /\ phase' = IF backupCase.standby THEN "replay" ELSE "build"
    /\ m' = NoManifest /\ built' = 0 /\ copyStart' = 0 /\ todo' = {} /\ skipped' = {}
    /\ seen' = [f \in Files |-> {pg[f].c} \ {NoContent}]
    /\ kept' = {f \in Files : pg[f].on}
    /\ UNCHANGED <<now, cluster, seg, archived, backups, mixed, kills>>

\* dbReplayWait(): the standby has what was written before the start
ReplayWait ==
    /\ phase = "replay"
    /\ \A f \in Files : sb[f] \in seen[f] \/ (f \notin kept /\ sb[f] = NoContent)
    /\ phase' = "build"
    /\ UNCHANGED <<now, cluster, seg, archived, backups, opt, m, built, copyStart, todo, skipped, seen, kept, mixed, kills>>

\* manifestBuildCallback() for the next file of the listing
BuildFile ==
    /\ phase = "build" /\ built < Len(FileSeq)
    /\ LET f == FileSeq[built + 1]
       IN  m' = IF pg[f].on
                THEN [m EXCEPT !.entry[f] = [NoEntry EXCEPT !.on = TRUE, !.t = pg[f].t, !.s = pg[f].c.s]]
                ELSE m
    /\ built' = built + 1
    /\ UNCHANGED <<now, cluster, seg, archived, backups, phase, opt, copyStart, todo, skipped, seen, kept, mixed, kills>>

\* backupTime() reads the clock, then sleeps for the rest of the second
BuildDone ==
    /\ phase = "build" /\ built = Len(FileSeq)
    /\ copyStart' = now
    /\ phase' = "second"
    /\ UNCHANGED <<now, cluster, seg, archived, backups, opt, m, built, todo, skipped, seen, kept, mixed, kills>>

Slept == now > copyStart

-----------------------------------------------------------------------------
(* Which files the prior backup holds *)

Listed(man) == {f \in Files : man.entry[f].on}

\* manifestBuildValidate(): a time in the future makes every file suspect
FutureTime == \E f \in Listed(m) : m.entry[f].t > copyStart

\* manifestBuildIncr(): so do times that go back and sizes that change
\* without the time
Anomaly(prior) ==
    \E f \in Listed(m) \cap Listed(prior) :
        LET e == m.entry[f]   p == prior.entry[f]
        IN  e.t < p.t \/ (e.s # p.s /\ e.t = p.t)

\* manifestBuildIncr(): the file need not be copied
CanReference(delta, e, p) == e.s = p.s /\ (delta \/ e.s = 0 \/ e.t = p.t)

Reference(delta, prior, label) ==
    [f \in Files |->
        LET e == m.entry[f]   p == prior.entry[f]
        IN  IF e.on /\ p.on /\ CanReference(delta, e, p)
            THEN [e EXCEPT !.sum = p.sum, !.ref = IF p.ref # 0 THEN p.ref ELSE label]
            ELSE e]

\* manifestBuildValidate() and backupBuildIncr() after the second has passed
BuildIncr ==
    /\ phase = "second" /\ Slept
    /\ LET prior == IF opt.prior = 0 THEN NoManifest ELSE backups[opt.prior].man
           delta == opt.delta \/ FutureTime \/ (opt.prior # 0 /\ Anomaly(prior))
       IN  /\ opt' = [opt EXCEPT !.delta = delta]
           /\ m' = [type |-> opt.type, prior |-> opt.prior, delta |-> delta,
                    entry |-> Reference(delta, prior, opt.prior)]
    /\ phase' = "resume"
    /\ UNCHANGED <<now, cluster, seg, archived, backups, built, copyStart, todo, skipped, seen, kept, mixed, kills>>

-----------------------------------------------------------------------------
(* Resuming what an earlier backup left *)

\* The last backup: the one that may be resumed, then the one that is made
Label == Len(backups)

CanResumeAny == backups # <<>>

\* backupResumeFind(): only the last backup, and only without backup.manifest
CanResume == backups # <<>> /\ ~backups[Label].done

Usable ==
    LET b == backups[Label].man
    IN  b # NoManifest /\ opt.resume /\ b.type = m.type /\ b.prior = m.prior

\* Variant: the time of the file is not compared
ResumeFileUntimed(e, r) ==
    e.on /\ e.ref = 0 /\ r.on /\ r.ref = 0 /\ r.sum # NoContent /\ e.s = r.s /\ e.s # 0

\* backupResumeCallback(): the copy of the earlier backup is still good
ResumeFile(e, r) ==
    /\ e.on /\ e.ref = 0
    /\ r.on /\ r.ref = 0 /\ r.sum # NoContent
    /\ e.s = r.s
    /\ opt.delta \/ e.t = r.t
    /\ e.s # 0

Resumed(b) == {f \in Files : b.file[f] # NoContent /\ ResumeFile(m.entry[f], b.man.entry[f])}

\* backupResume(): remove what cannot be used and take over the checksums
Resume ==
    /\ phase = "resume" /\ CanResume /\ Usable
    /\ LET b == backups[Label]   keep == Resumed(b)
       IN  /\ backups' = [backups EXCEPT ![Label].file =
                          [f \in Files |-> IF f \in keep THEN b.file[f] ELSE NoContent]]
           /\ m' = [m EXCEPT !.entry = [f \in Files |->
                          IF f \in keep THEN [m.entry[f] EXCEPT !.sum = b.man.entry[f].sum]
                          ELSE m.entry[f]]]
    /\ mixed' = (mixed \/ (backups[Label].man.delta /\ ~opt.delta))
    /\ phase' = "save"
    /\ UNCHANGED <<now, cluster, seg, archived, opt, built, copyStart, todo, skipped, seen, kept, kills>>

\* ... or remove the whole backup; the new one gets a label of its own
ResumeNot ==
    /\ phase = "resume"
    /\ ~(CanResume /\ Usable)
    /\ LET rest == IF CanResume THEN SubSeq(backups, 1, Label - 1) ELSE backups
       IN  backups' = Append(rest, [man |-> NoManifest, file |-> [f \in Files |-> NoContent],
                                 done |-> FALSE, wal |-> <<0, 0>>])
    /\ phase' = "save"
    /\ UNCHANGED <<now, cluster, seg, archived, opt, m, built, copyStart, todo, skipped, seen, kept, mixed, kills>>

\* backupManifestSaveCopy(): an atomic write of backup.manifest.copy
SaveCopy == backups' = [backups EXCEPT ![Label].man = m]

\* backupProcessQueue(): what has to be copied or compared
InQueue(e) == e.on /\ ~(e.ref # 0 /\ (~opt.delta \/ e.s = 0))

SaveFirst ==
    /\ phase = "save"
    /\ SaveCopy
    /\ todo' = {f \in Files : InQueue(m.entry[f])}
    /\ phase' = "copy"
    /\ UNCHANGED <<now, cluster, seg, archived, opt, m, built, copyStart, skipped, seen, kept, mixed, kills>>

-----------------------------------------------------------------------------
(* Copying *)

\* What a local process reads, at most the size of the manifest
Source(f) ==
    LET c == IF backupCase.standby THEN sb[f] ELSE pg[f].c
    IN  IF c = NoContent THEN NoContent ELSE Limit(c, m.entry[f].s)

\* backupFile(): compare before copying
Compare(f) ==
    LET e == m.entry[f]   src == Source(f)
        repoCheck == IF backups[Label].file[f] = e.sum THEN "checksum" ELSE "copy"
    IN  IF e.sum = NoContent THEN "copy"
        ELSE IF ~opt.delta THEN repoCheck
        ELSE IF src = NoContent THEN "skip"
        ELSE IF src # e.sum THEN "copy"
        ELSE IF e.ref # 0 THEN "noop" ELSE repoCheck

CopiedEntryRef(e, c) == [e EXCEPT !.s = c.s, !.sum = c]

\* manifestFileUpdate() after a copy: the file is no longer in a prior backup
CopiedEntry(e, c) == [e EXCEPT !.s = c.s, !.sum = c, !.ref = 0]

\* backupJobResult(): the manifest after what backupFile() says it did
JobResult(f, res, c) == IF res = "copy" THEN [m EXCEPT !.entry[f] = CopiedEntry(m.entry[f], c)] ELSE m

\* backupFile() by a local process and the result of it.  A file that is gone
\* is skipped, and what a resumed backup holds of it is removed.
Job(f) ==
    /\ phase = "copy" /\ f \in todo
    /\ todo' = todo \ {f}
    /\ LET src == Source(f)
           res == IF Compare(f) = "copy" /\ src = NoContent THEN "gone" ELSE Compare(f)
       IN  /\ m' = JobResult(f, res, src)
           /\ backups' = IF res = "copy" THEN [backups EXCEPT ![Label].file[f] = src]
                         ELSE IF res = "skip" /\ m.entry[f].ref = 0
                         THEN [backups EXCEPT ![Label].file[f] = NoContent] ELSE backups
           /\ skipped' = IF res \in {"gone", "skip"} THEN skipped \cup {f} ELSE skipped
    /\ UNCHANGED <<now, cluster, seg, archived, phase, opt, built, copyStart, seen, kept, mixed, kills>>

\* backupProcess(): the copy of the manifest is saved now and then
SavePeriodic ==
    /\ phase = "copy" /\ backups[Label].man # m
    /\ SaveCopy
    /\ UNCHANGED <<now, cluster, seg, archived, process, seen, kept, mixed, kills>>

\* The end of backupProcess(): forget the files the database removed
JobsDone ==
    /\ phase = "copy" /\ todo = {}
    /\ m' = [m EXCEPT !.entry = [f \in Files |-> IF f \in skipped THEN NoEntry ELSE m.entry[f]]]
    /\ phase' = "stop"
    /\ UNCHANGED <<now, cluster, seg, archived, backups, opt, built, copyStart, todo, skipped, seen, kept, mixed, kills>>

\* backupStop() and dbBackupStop(): PostgreSQL ends the segment;
\* backupArchiveCheckCopy() saves the manifest before it waits
Stop ==
    /\ phase = "stop"
    /\ \E n \in 0 .. 1 : opt' = [opt EXCEPT !.stop = seg + n] /\ seg' = seg + n + 1
    /\ SaveCopy
    /\ phase' = "archive"
    /\ UNCHANGED <<now, cluster, archived, m, built, copyStart, todo, skipped, seen, kept, mixed, kills>>

\* backupArchiveCheckCopy(): every segment from start to stop is found;
\* when the wait ends before, the command ends like a killed one
WalFound == \A w \in opt.seg .. opt.stop : w <= archived

ArchiveCheck ==
    /\ phase = "archive" /\ WalFound
    /\ phase' = "complete"
    /\ UNCHANGED <<now, cluster, seg, archived, backups, opt, m, built, copyStart, todo, skipped, seen, kept, mixed, kills>>

\* manifestValidate() in strict mode
Valid(man) ==
    \A f \in Listed(man) :
        man.entry[f].sum # NoContent /\ (man.entry[f].s = 0 => man.entry[f].sum = Empty)

\* backupComplete(): backup.manifest exists and backup.info lists the backup
Complete ==
    /\ phase = "complete" /\ Valid(m)
    /\ backups' = [backups EXCEPT ![Label] = [@ EXCEPT !.man = m, !.done = TRUE, !.wal = <<opt.seg, opt.stop>>]]
    /\ phase' = "idle"
    /\ opt' = NoOpt /\ m' = NoManifest /\ built' = 0 /\ copyStart' = 0 /\ skipped' = {}
    /\ seen' = [f \in Files |-> {}] /\ kept' = {}
    /\ UNCHANGED <<now, cluster, seg, archived, todo, mixed, kills>>

\* The command is killed or ends with an error.  A copy in progress is cut
\* short, and of a backup being removed any part may be left.
Kill ==
    /\ phase # "idle" /\ kills < backupCase.kills
    /\ \/ UNCHANGED backups
       \/ /\ phase = "copy"
          /\ \E f \in todo : Compare(f) = "copy" /\ backups' = [backups EXCEPT ![Label].file[f] = Torn]
       \/ /\ phase = "resume" /\ CanResume
          /\ \E gone \in SUBSET Files, man \in {NoManifest, backups[Label].man} :
                backups' = [backups EXCEPT ![Label].man = man,
                                     ![Label].file = [f \in Files |-> IF f \in gone THEN NoContent ELSE @[f]]]
    /\ kills' = kills + 1
    /\ phase' = "idle" /\ todo' = {} /\ skipped' = {}
    /\ opt' = NoOpt /\ m' = NoManifest /\ built' = 0 /\ copyStart' = 0
    /\ seen' = [f \in Files |-> {}] /\ kept' = {}
    /\ UNCHANGED <<now, cluster, seg, archived, mixed>>

-----------------------------------------------------------------------------
BackupNext ==
    /\ \/ BackupTick \/ Archive
       \/ \E f \in Written : Write(f) \/ Drop(f)
       \/ \E f \in Files : Touch(f) \/ Replay(f)
       \/ \E type \in BackupTypes, delta \in BOOLEAN, resume \in IF CanResume THEN BOOLEAN ELSE {TRUE} :
             Start(type, delta, resume)
       \/ ReplayWait \/ BuildFile \/ BuildDone \/ BuildIncr
       \/ Resume \/ ResumeNot \/ SaveFirst
       \/ \E f \in Files : Job(f)
       \/ SavePeriodic \/ JobsDone \/ Stop \/ ArchiveCheck \/ Complete
       \/ Kill
    /\ UNCHANGED backupCase

-----------------------------------------------------------------------------
BackupSpec == BackupInit /\ [][BackupNext]_backupVars

-----------------------------------------------------------------------------
Phase == {"idle", "replay", "build", "second", "resume", "save", "copy", "stop", "archive", "complete"}
ContentType == [v : Nat, s : Nat]
FileType == [on : BOOLEAN, c : ContentType, t : Nat]
EntryType == [t : Nat, s : Nat, sum : ContentType, ref : Nat, on : BOOLEAN]
ManifestType == [type : BackupTypes \cup {"none"}, prior : Nat, delta : BOOLEAN, entry : [Files -> EntryType]]
StoredType == [man : ManifestType, file : [Files -> ContentType], done : BOOLEAN, wal : Nat \X Nat]
OptType == [type : BackupTypes, delta : BOOLEAN, resume : BOOLEAN, prior : Nat, seg : Nat, stop : Nat]

\* Type invariant of the cluster, the repository and the running command.
BackupTypeOK ==
    /\ backupCase \in BackupCases
    /\ now \in 1 .. MaxTime /\ writes \in Nat /\ seg \in Nat /\ archived \in Nat /\ kills \in Nat
    /\ pg \in [Files -> FileType] /\ sb \in [Files -> ContentType]
    /\ backups \in Seq(StoredType)
    /\ phase \in Phase /\ opt \in OptType /\ m \in ManifestType
    /\ built \in 0 .. Len(FileSeq) /\ copyStart \in Nat
    /\ todo \subseteq Files /\ skipped \subseteq Files
    /\ seen \in [Files -> SUBSET ContentType] /\ kept \subseteq Files /\ mixed \in BOOLEAN

\* What a completed backup restores is what its manifest describes: for each
\* file the copy in the backup, or in the backup it refers to, has the
\* checksum of the manifest, whatever was killed and resumed in between, and
\* the WAL from start to stop is in the archive.
Stored(b, f) == IF b.man.entry[f].ref = 0 THEN b.file[f] ELSE backups[b.man.entry[f].ref].file[f]

CompleteWhole ==
    \A i \in DOMAIN backups : backups[i].done =>
        /\ \A f \in Listed(backups[i].man) : Stored(backups[i], f) = backups[i].man.entry[f].sum
        /\ backups[i].wal[2] <= archived

Young == \A f \in Listed(m) : \E c \in seen[f] : Prefix(m.entry[f].sum, c)

\* A backup of the primary about to complete has no content older than its
\* start, be it copied, resumed or left in a prior backup: WAL replay begins
\* there and would never repair an older page.  That needs backups that resume
\* each other to agree on the option delta, and with backup-standby it is true
\* of a full backup that had nothing to resume.
Fresh ==
    /\ phase = "complete"
    /\ IF backupCase.standby THEN m.prior = 0 /\ kills = 0 ELSE ~mixed
    => Young

\* A backup of the primary is fresh whichever backups it resumes ("Resumed files
\* are checked to be sure they have not been modified").
FreshResumed == phase = "complete" /\ ~backupCase.standby => Young

\* A file that existed at the start and was never dropped is in the backup,
\* though files are listed, removed and created while the backup runs.
NothingMissing == phase = "complete" => kept \subseteq Listed(m)

\* The strict validation at the end of a backup never fails.
AlwaysValid == phase = "complete" => Valid(m)

\* No later backup changes or removes a completed one, not even when it
\* resumes or clears away what a killed backup left.
DoneStays ==
    [][\A i \in DOMAIN backups : backups[i].done => i \in DOMAIN backups' /\ backups'[i] = backups[i]]_backupVars
=============================================================================
