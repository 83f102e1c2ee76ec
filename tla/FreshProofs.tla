---------------------------- MODULE FreshProofs -----------------------------
(***************************************************************************)
(* Proofs about Backup, continued: a completed backup has no content that  *)
(* is older than its start (Fresh) and lacks no file (NothingMissing).     *)
(*                                                                         *)
(* The third layer of the invariant relates manifests to the files of the  *)
(* cluster, through the times.  A checksum is known of a file only once    *)
(* the second of its time is over (Dated), so a file with the same time    *)
(* and size still has that content.  A delta backup takes over checksums   *)
(* before it compares them: they count once their job is done (Checked),   *)
(* and those of a delta backup that was killed do not count (Trusted).     *)
(* The content a file had when it was listed (Listing) is the witness that *)
(* what is resumed or referenced is not older than the backup.             *)
(***************************************************************************)
EXTENDS BackupProofs

-----------------------------------------------------------------------------
(* Manifests and the files of the cluster *)

ClockInv ==
    /\ \A f \in Files : pg[f].on => pg[f].t <= now \/ pg[f].t = Far
    /\ copyStart <= now
    /\ phase \in {"resume"} \cup Busy => copyStart < now

SeenInv ==
    phase # "idle" =>
        \A f \in Files :
            /\ seen[f] \subseteq Real
            /\ pg[f].on => pg[f].c \in seen[f]
            /\ f \in kept => pg[f].on
            /\ backupCase.standby /\ phase # "replay" =>
                 sb[f] \in seen[f] \/ (f \notin kept /\ sb[f] = NoContent)

\* Files that are there all the time are in the manifest
KeptInv ==
    /\ phase = "build" => \A i \in 1 .. built : FileSeq[i] \in kept => m.entry[FileSeq[i]].on
    /\ phase \in {"second", "resume"} \cup Busy => kept \subseteq Listed(m)
    /\ kept \cap skipped = {}

\* The second of the time of an entry is over, and with the same time and size
\* the file has the content of the entry
Dated(file, time, e) ==
    e.on /\ e.sum # NoContent =>
        /\ e.t = Far \/ e.t < time
        /\ file.on /\ file.t = e.t /\ e.t # Far /\ file.c.s = e.s => e.sum = file.c

\* What is known of the files of a backup: a delta backup that was killed may
\* have taken over checksums it has not compared
Trusted(b) == b.done \/ ~b.man.delta

\* The content a file had when it was listed: entries that agree with it in
\* time and size have it
Agrees(f, e, c, b) ==
    LET x == b.man.entry[f]
    IN  Trusted(b) /\ x.on /\ x.sum # NoContent /\ x.t = e.t /\ x.s = e.s /\ e.t # Far => x.sum = c
Listing(contents, bs, f, e) == \E c \in contents : c.s = e.s /\ \A i \in DOMAIN bs : Agrees(f, e, c, bs[i])

YoungIn(contents, sum) == \E c \in contents : Prefix(sum, c)

\* The checksum of the entry has been compared, or time and size say enough
Checked(f) == m.entry[f].s = 0 \/ ~opt.delta \/ Handled(f)

TimeOf(f) ==
    LET e == m.entry[f]
    IN  e.on =>
        /\ e.t = Far \/ e.t <= IF phase = "build" THEN now ELSE copyStart
        /\ phase \in {"resume"} \cup Busy /\ ~opt.delta => e.t # Far
        /\ ~mixed /\ phase \in {"build", "second", "resume"} => Listing(seen[f], backups, f, e)
        /\ ~mixed /\ phase \in {"resume"} \cup Busy /\ e.sum # NoContent /\ Checked(f)
           => YoungIn(seen[f], e.sum) /\ Dated(pg[f], now, e)
TimeInv == \A f \in Files : TimeOf(f)

ManDated(man) == \A f \in Files : Dated(pg[f], now, man.entry[f])
RepoTimeInv == ~mixed => \A i \in DOMAIN backups : Trusted(backups[i]) => ManDated(backups[i].man)

\* A full backup from a standby with nothing to resume copies every file
CopiedOf(f) ==
    m.entry[f].on /\ m.prior = 0 /\ kills = 0 =>
        /\ phase \in {"resume", "save"} => m.entry[f].sum = NoContent
        /\ phase = "copy" /\ f \in todo => m.entry[f].sum = NoContent
        /\ Handled(f) => YoungIn(seen[f], m.entry[f].sum)
StandbyInv == \A f \in Files : CopiedOf(f)

PrimaryInv == ~backupCase.standby => TimeInv /\ RepoTimeInv
AwayInv == backupCase.standby => StandbyInv
FreshInv == ClockInv /\ SeenInv /\ KeptInv

-----------------------------------------------------------------------------
(* The third layer: the clock, what was seen and what stays *)

Middle == ReplayWait \/ BuildFile \/ BuildDone \/ BuildIncr \/ Resume \/ ResumeNot \/ SaveFirst \/ SavePeriodic
          \/ (\E f \in Files : Job(f)) \/ JobsDone \/ Stop \/ ArchiveCheck

LEMMA MiddleSame ==
    ASSUME Middle
    PROVE  UNCHANGED <<now, pg, sb, writes, seen, kept, kills>> /\ phase # "idle" /\ phase' \notin {"idle", "replay"}
  <1>1. CASE ReplayWait \/ BuildFile \/ BuildDone \/ BuildIncr
    BY <1>1 DEF ReplayWait, BuildFile, BuildDone, BuildIncr, cluster
  <1>2. CASE Resume \/ ResumeNot \/ SaveFirst \/ SavePeriodic
    BY <1>2 DEF Resume, ResumeNot, SaveFirst, SavePeriodic, cluster, process
  <1>3. CASE (\E f \in Files : Job(f)) \/ JobsDone \/ Stop \/ ArchiveCheck
    BY <1>3 DEF Job, JobsDone, Stop, ArchiveCheck, cluster
  <1> QED
    BY <1>1, <1>2, <1>3 DEF Middle

LEMMA ThreeKinds ==
    ASSUME BackupNext
    PROVE  /\ UNCHANGED backupCase
           /\ \/ ClusterNext
              \/ \E type \in BackupTypes, delta \in BOOLEAN, resume \in BOOLEAN : Start(type, delta, resume)
              \/ Middle \/ Complete \/ Kill
  BY Steps DEF Middle

\* A step of the cluster, one by one
LEMMA WriteDoes ==
    ASSUME BaseInv, NEW f \in Files, Write(f)
    PROVE  \E c \in Real :
             /\ pg' = [pg EXCEPT ![f] = [on |-> TRUE, c |-> c, t |-> now]]
             /\ \A g \in Files : seen'[g] = IF g = f /\ phase # "idle" THEN seen[g] \cup {c} ELSE seen[g]
             /\ UNCHANGED <<now, sb, kept>>
  <1>1. PICK s \in backupCase.sizes :
           /\ pg' = [pg EXCEPT ![f] = File(writes + 1, s, now)]
           /\ seen' = IF phase = "idle" THEN seen ELSE [seen EXCEPT ![f] = @ \cup {Content(writes + 1, s)}]
    BY Zenon DEF Write
  <1>2. s \in Nat /\ writes + 1 \in Nat \ {0} /\ seen \in [Files -> SUBSET ContentType]
    BY BackupAssumption DEF BaseInv, BackupTypeOK
  <1>3. Content(writes + 1, s) \in Real
    BY <1>2, RealFacts
  <1>4. UNCHANGED <<now, sb, kept>>
    BY DEF Write
  <1> QED
    BY Zenon, <1>1, <1>2, <1>3, <1>4 DEF File

LEMMA ClusterFile ==
    ASSUME BaseInv, ContentInv, ClusterNext, UNCHANGED backupCase, NEW f \in Files
    PROVE  /\ seen[f] \subseteq seen'[f] /\ (seen[f] \subseteq Real => seen'[f] \subseteq Real)
           /\ kept' \subseteq kept
           /\ \/ pg'[f] = pg[f]
              \/ ~pg'[f].on /\ f \notin kept'
              \/ pg'[f].on /\ pg[f].on /\ pg'[f].c = pg[f].c /\ pg'[f].t = Far
              \/ pg'[f].on /\ pg'[f].t = now /\ now' = now /\ (phase # "idle" => pg'[f].c \in seen'[f])
           /\ sb'[f] \in {sb[f], pg[f].c}
  <1>0. pg \in [Files -> FileType] /\ sb \in [Files -> ContentType] /\ seen \in [Files -> SUBSET ContentType]
    BY DEF BaseInv, BackupTypeOK
  <1>1. CASE BackupTick \/ Archive
    BY <1>1 DEF BackupTick, Archive, cluster
  <1>2. ASSUME NEW g \in Files, Write(g)
        PROVE  /\ seen[f] \subseteq seen'[f] /\ (seen[f] \subseteq Real => seen'[f] \subseteq Real)
               /\ kept' \subseteq kept /\ sb'[f] = sb[f]
               /\ pg'[f] = pg[f] \/ (pg'[f].on /\ pg'[f].t = now /\ now' = now /\ (phase # "idle" => pg'[f].c \in seen'[f]))
    <2>1. PICK c \in Real :
             /\ pg' = [pg EXCEPT ![g] = [on |-> TRUE, c |-> c, t |-> now]]
             /\ \A h \in Files : seen'[h] = IF h = g /\ phase # "idle" THEN seen[h] \cup {c} ELSE seen[h]
             /\ UNCHANGED <<now, sb, kept>>
      BY Zenon, <1>2, WriteDoes
    <2>2. CASE f = g
      BY Zenon, <1>0, <2>1, <2>2
    <2>3. CASE f # g
      BY Zenon, <1>0, <2>1, <2>3
    <2> QED
      BY <2>2, <2>3
  <1>3. ASSUME NEW g \in Files, Drop(g)
        PROVE  /\ seen' = seen /\ kept' \subseteq kept /\ sb' = sb
               /\ pg'[f] = pg[f] \/ (~pg'[f].on /\ f \notin kept')
    BY <1>0, <1>3, EntryTypes DEF Drop
  <1>4. ASSUME NEW g \in Files, Touch(g)
        PROVE  /\ seen' = seen /\ kept' = kept /\ sb' = sb
               /\ pg'[f] = pg[f] \/ (pg'[f].on /\ pg[f].on /\ pg'[f].c = pg[f].c /\ pg'[f].t = Far)
    <2>1. pg' = [pg EXCEPT ![g] = [pg[g] EXCEPT !.t = Far]] /\ pg[g].on /\ seen' = seen /\ kept' = kept /\ sb' = sb
      BY <1>4 DEF Touch
    <2>2. pg[g] \in FileType
      BY <1>0
    <2>3. [pg[g] EXCEPT !.t = Far].on = pg[g].on /\ [pg[g] EXCEPT !.t = Far].c = pg[g].c /\ [pg[g] EXCEPT !.t = Far].t = Far
      BY <2>2 DEF FileType
    <2> QED
      BY <1>0, <2>1, <2>3
  <1>5. ASSUME NEW g \in Files, Replay(g)
        PROVE  UNCHANGED <<seen, kept, pg>> /\ sb'[f] \in {sb[f], pg[f].c}
    BY <1>0, <1>5 DEF Replay
  <1> QED
    BY <1>1, <1>2, <1>3, <1>4, <1>5, Constants DEF ClusterNext

LEMMA ClockStep == ASSUME BaseInv, BaseInv', ContentInv, ClockInv, BackupNext PROVE ClockInv'
  <1>0. /\ now \in 1 .. MaxTime /\ now \in Nat /\ now' \in Nat /\ copyStart \in Nat /\ pg \in [Files -> FileType]
        /\ pg' \in [Files -> FileType]
    <2>1. now \in 1 .. MaxTime /\ copyStart \in Nat /\ pg \in [Files -> FileType]
      BY DEF BaseInv, BackupTypeOK
    <2>2. now' \in 1 .. MaxTime /\ pg' \in [Files -> FileType]
      BY DEF BaseInv, BackupTypeOK
    <2> QED
      BY <2>1, <2>2, Constants
  <1>1. ASSUME ClusterNext, UNCHANGED backupCase PROVE ClockInv'
    <2>1. UNCHANGED <<phase, copyStart>> /\ now <= now'
      BY <1>1, ClusterSame DEF BaseInv
    <2>2. ASSUME NEW f \in Files, pg'[f].on PROVE pg'[f].t <= now' \/ pg'[f].t = Far
      <3>1. pg'[f] = pg[f] \/ pg'[f].t = Far \/ (pg'[f].t = now /\ now' = now)
        BY <1>1, <2>2, ClusterFile
      <3>2. pg[f].on => pg[f].t <= now \/ pg[f].t = Far
        BY DEF ClockInv
      <3>3. pg[f].t \in Nat
        BY <1>0 DEF FileType
      <3> QED
        BY <1>0, <2>1, <2>2, <3>1, <3>2, <3>3
    <2>3. copyStart <= now' /\ (copyStart < now => copyStart < now')
      BY <1>0, <2>1 DEF ClockInv
    <2> QED
      BY <2>1, <2>2, <2>3 DEF ClockInv
  <1>2. ASSUME UNCHANGED <<now, pg>>, copyStart' = 0, phase' \notin {"resume"} \cup Busy PROVE ClockInv'
    BY <1>0, <1>2 DEF ClockInv
  <1>3. ASSUME UNCHANGED <<now, pg, copyStart>>, phase' \in {"resume"} \cup Busy => phase \in {"resume"} \cup Busy
        PROVE  ClockInv'
    BY <1>3 DEF ClockInv
  <1>4. ASSUME NEW type, NEW delta, NEW resume, Start(type, delta, resume) PROVE ClockInv'
    <2>1. UNCHANGED <<now, pg>> /\ copyStart' = 0 /\ phase' \in {"replay", "build"}
      BY <1>4 DEF Start, cluster
    <2> QED
      BY <1>2, <2>1 DEF Busy
  <1>5. Complete \/ Kill => ClockInv'
    <2>1. Complete \/ Kill => UNCHANGED <<now, pg>> /\ copyStart' = 0 /\ phase' = "idle"
      BY DEF Complete, Kill, cluster
    <2> QED
      BY <1>2, <2>1 DEF Busy
  <1>6. BuildDone => ClockInv'
    <2>1. BuildDone => UNCHANGED <<now, pg>> /\ copyStart' = now /\ phase' = "second"
      BY DEF BuildDone, cluster
    <2> QED
      BY <1>0, <2>1 DEF ClockInv, Busy
  <1>7. BuildIncr => ClockInv'
    <2>1. BuildIncr => UNCHANGED <<now, pg, copyStart>> /\ copyStart < now /\ phase' = "resume"
      BY <1>0 DEF BuildIncr, cluster, Slept
    <2> QED
      BY <2>1 DEF ClockInv
  <1>8. ReplayWait \/ BuildFile => ClockInv'
    <2>1. ReplayWait \/ BuildFile => UNCHANGED <<now, pg, copyStart>> /\ phase' = "build"
      BY DEF ReplayWait, BuildFile, cluster
    <2> QED
      BY <1>3, <2>1 DEF Busy
  <1>9. Resume \/ ResumeNot \/ SaveFirst \/ SavePeriodic => ClockInv'
    <2>1. Resume \/ ResumeNot \/ SaveFirst \/ SavePeriodic => UNCHANGED <<now, pg, copyStart>> /\ phase \in {"resume"} \cup Busy
      BY DEF Resume, ResumeNot, SaveFirst, SavePeriodic, cluster, process, Busy
    <2> QED
      BY <1>3, <2>1
  <1>10. (\E f \in Files : Job(f)) \/ JobsDone \/ Stop \/ ArchiveCheck => ClockInv'
    <2>1. (\E f \in Files : Job(f)) \/ JobsDone \/ Stop \/ ArchiveCheck => UNCHANGED <<now, pg, copyStart>> /\ phase \in Busy
      BY DEF Job, JobsDone, Stop, ArchiveCheck, cluster, Busy
    <2> QED
      BY <1>3, <2>1
  <1> QED
    BY <1>1, <1>4, <1>5, <1>6, <1>7, <1>8, <1>9, <1>10, Steps

LEMMA SeenStep == ASSUME BaseInv, ContentInv, SeenInv, BackupNext PROVE SeenInv'
  <1>0. UNCHANGED backupCase
    BY Steps
  <1>1. CASE ClusterNext
    <2>1. UNCHANGED phase
      BY <1>0, <1>1, ClusterSame DEF BaseInv
    <2> SUFFICES ASSUME phase # "idle", NEW f \in Files
                 PROVE  /\ seen'[f] \subseteq Real
                        /\ pg'[f].on => pg'[f].c \in seen'[f]
                        /\ f \in kept' => pg'[f].on
                        /\ backupCase.standby /\ phase # "replay" =>
                             sb'[f] \in seen'[f] \/ (f \notin kept' /\ sb'[f] = NoContent)
      BY <1>0, <2>1 DEF SeenInv
    <2>2. /\ seen[f] \subseteq Real /\ (pg[f].on => pg[f].c \in seen[f]) /\ (f \in kept => pg[f].on)
          /\ backupCase.standby /\ phase # "replay" => sb[f] \in seen[f] \/ (f \notin kept /\ sb[f] = NoContent)
      BY DEF SeenInv
    <2>3. seen[f] \subseteq seen'[f] /\ seen'[f] \subseteq Real /\ kept' \subseteq kept /\ sb'[f] \in {sb[f], pg[f].c}
      BY <1>0, <1>1, <2>2, ClusterFile
    <2>4. (pg'[f].on => pg'[f].c \in seen'[f]) /\ (f \in kept' => pg'[f].on)
      <3>1. \/ pg'[f] = pg[f]
            \/ ~pg'[f].on /\ f \notin kept'
            \/ pg'[f].on /\ pg[f].on /\ pg'[f].c = pg[f].c
            \/ pg'[f].on /\ pg'[f].c \in seen'[f]
        BY <1>0, <1>1, ClusterFile
      <3> QED
        BY <2>2, <2>3, <3>1
    <2>5. ~pg[f].on => pg[f].c = NoContent
      BY DEF ContentInv
    <2> QED
      BY <2>2, <2>3, <2>4, <2>5
  <1>2. ASSUME NEW type, NEW delta, NEW resume, Start(type, delta, resume) PROVE SeenInv'
    <2>1. /\ UNCHANGED <<pg, sb>> /\ seen' = [f \in Files |-> {pg[f].c} \ {NoContent}] /\ kept' = {f \in Files : pg[f].on}
          /\ backupCase.standby => phase' = "replay"
      BY <1>2 DEF Start, cluster
    <2>2. \A f \in Files : (pg[f].on => pg[f].c \in Real) /\ (~pg[f].on => pg[f].c = NoContent)
      BY DEF ContentInv
    <2> QED
      BY <1>0, <2>1, <2>2, RealFacts DEF SeenInv
  <1>3. CASE Middle
    <2>1. UNCHANGED <<pg, sb, seen, kept>> /\ phase # "idle"
      BY <1>3, MiddleSame
    <2>2. phase = "replay" => ReplayWait
      BY <1>3 DEF Middle, ReplayWait, BuildFile, BuildDone, BuildIncr, Resume, ResumeNot, SaveFirst, SavePeriodic,
                  Job, JobsDone, Stop, ArchiveCheck
    <2>3. ReplayWait => \A f \in Files : sb[f] \in seen[f] \/ (f \notin kept /\ sb[f] = NoContent)
      BY DEF ReplayWait
    <2> QED
      BY <1>0, <2>1, <2>2, <2>3 DEF SeenInv
  <1>4. CASE Complete \/ Kill
    <2>1. phase' = "idle"
      BY <1>4 DEF Complete, Kill
    <2> QED
      BY <2>1 DEF SeenInv
  <1> QED
    BY <1>1, <1>2, <1>3, <1>4, ThreeKinds

\* The entries of the manifest after the files of the prior backup are found ...
LEMMA ReferenceEntry ==
    ASSUME BaseInv, BuildIncr, NEW f \in Files
    PROVE  /\ m'.entry[f].on = m.entry[f].on /\ m'.entry[f].t = m.entry[f].t /\ m'.entry[f].s = m.entry[f].s
           /\ \/ m'.entry[f] = m.entry[f]
              \/ /\ m.entry[f].on /\ Prior.entry[f].on /\ CanReference(opt'.delta, m.entry[f], Prior.entry[f])
                 /\ m'.entry[f].sum = Prior.entry[f].sum
  <1>1. phase = "second"
    BY DEF BuildIncr
  <1>2. PICK delta \in BOOLEAN : m'.entry = Reference(delta, Prior, opt.prior) /\ opt'.delta = delta
    BY BuildIncrDoes
  <1>3. PICK e \in EntryType : e = m.entry[f]
    BY DEF BaseInv, BackupTypeOK, ManifestType
  <1>4. PICK p \in EntryType : p = Prior.entry[f]
    BY <1>1, PriorType DEF ManifestType
  <1>5. PICK l \in Nat : l = opt.prior
    BY DEF BaseInv, BackupTypeOK, OptType
  <1>6. m'.entry[f] = IF e.on /\ p.on /\ CanReference(delta, e, p) THEN Referred(e, p, l) ELSE e
    BY Zenon, <1>2, <1>3, <1>4, <1>5 DEF Reference, Referred
  <1>7. /\ Referred(e, p, l).on = e.on /\ Referred(e, p, l).s = e.s /\ Referred(e, p, l).t = e.t
        /\ Referred(e, p, l).sum = p.sum
    BY RefTaken
  <1> QED
    BY <1>2, <1>3, <1>4, <1>6, <1>7

\* ... and after those of a killed backup are
LEMMA ResumeEntry ==
    ASSUME BaseInv, Resume, NEW f \in Files
    PROVE  /\ m'.entry[f].on = m.entry[f].on /\ m'.entry[f].t = m.entry[f].t /\ m'.entry[f].s = m.entry[f].s
           /\ \/ m'.entry[f] = m.entry[f]
              \/ /\ ResumeFile(m.entry[f], backups[Label].man.entry[f])
                 /\ m'.entry[f].sum = backups[Label].man.entry[f].sum
  <1>1. backups # <<>> /\ m'.entry = [g \in Files |-> ResumedEntry(g)]
    BY ResumeDoes
  <1>2. PICK e \in EntryType : e = m.entry[f]
    BY DEF BaseInv, BackupTypeOK, ManifestType
  <1>3. PICK c \in ContentType : c = backups[Label].man.entry[f].sum
    BY <1>1, LastType DEF BaseInv, StoredType, ManifestType, EntryType
  <1>4. m'.entry[f] = IF f \in Resumed(backups[Label]) THEN [e EXCEPT !.sum = c] ELSE e
    BY <1>1, <1>2, <1>3 DEF ResumedEntry
  <1>5. [e EXCEPT !.sum = c].on = e.on /\ [e EXCEPT !.sum = c].t = e.t /\ [e EXCEPT !.sum = c].s = e.s /\ [e EXCEPT !.sum = c].sum = c
    BY DEF EntryType
  <1>6. f \in Resumed(backups[Label]) => ResumeFile(m.entry[f], backups[Label].man.entry[f])
    BY DEF Resumed
  <1> QED
    BY <1>2, <1>3, <1>4, <1>5, <1>6

LEMMA JobSkipsGone ==
    ASSUME BaseInv, ContentInv, SeenInv, phase = "copy", NEW f \in Files, Source(f) = NoContent
    PROVE  f \notin kept
  <1>1. seen[f] \subseteq Real /\ (f \in kept => pg[f].on)
    BY DEF SeenInv
  <1>2. (pg[f].on => pg[f].c \in Real) /\ BackupTypeOK
    BY DEF ContentInv, BaseInv
  <1>3. CASE backupCase.standby
    <2>1. sb[f] \in Real => Source(f) # NoContent
      BY <1>2, <1>3, SourceReal
    <2>2. sb[f] \in seen[f] \/ f \notin kept
      BY <1>3 DEF SeenInv
    <2> QED
      BY <1>1, <2>1, <2>2
  <1>4. CASE ~backupCase.standby
    <2>1. pg[f].c \in Real => Source(f) # NoContent
      BY <1>2, <1>4, SourceReal
    <2> QED
      BY <1>1, <1>2, <2>1
  <1> QED
    BY <1>3, <1>4

LEMMA KeptStep == ASSUME BaseInv, ContentInv, SeenInv, KeptInv, BackupNext PROVE KeptInv'
  <1>0. BackupTypeOK /\ UNCHANGED backupCase /\ OptInv
    BY Steps DEF BaseInv
  <1>1. CASE ClusterNext
    <2>1. UNCHANGED <<phase, built, m, skipped>>
      BY <1>0, <1>1, ClusterSame
    <2>2. kept' \subseteq kept
      <3>1. ASSUME NEW f \in kept' PROVE f \in kept
        <4>1. kept' \subseteq Files
          BY <1>0, <1>1, ClusterSame DEF BackupTypeOK
        <4> QED
          BY <1>0, <1>1, <3>1, <4>1, ClusterFile
      <3> QED
        BY <3>1
    <2> QED
      BY <2>1, <2>2 DEF KeptInv, Listed
  <1>2. ASSUME NEW type, NEW delta, NEW resume, Start(type, delta, resume) PROVE KeptInv'
    <2>1. built' = 0 /\ skipped' = {} /\ phase' \in {"replay", "build"}
      BY <1>2 DEF Start
    <2> QED
      BY <2>1 DEF KeptInv, Busy
  <1>3. CASE Complete \/ Kill
    <2>1. kept' = {} /\ phase' = "idle"
      BY <1>3 DEF Complete, Kill
    <2> QED
      BY <2>1 DEF KeptInv, Busy
  <1>4. CASE ReplayWait
    <2>1. built' = 0 /\ UNCHANGED <<skipped, kept>> /\ phase' = "build"
      BY <1>0, <1>4 DEF ReplayWait, OptInv
    <2> QED
      BY <2>1 DEF KeptInv, Busy
  <1>5. CASE BuildFile
    <2>1. /\ phase = "build" /\ phase' = "build" /\ built' = built + 1 /\ built < Len(FileSeq)
          /\ UNCHANGED <<skipped, kept>>
      BY <1>5, BuildFileDoes
    <2>2. PICK f \in Files : /\ f = FileSeq[built + 1]
                             /\ \A g \in Files : g # f => m'.entry[g] = m.entry[g]
                             /\ ~pg[f].on => m'.entry[f] = m.entry[f]
                             /\ pg[f].on => m'.entry[f].on
      BY <1>5, BuildFileDoes
    <2>3. ASSUME NEW i \in 1 .. built', FileSeq[i] \in kept PROVE m'.entry[FileSeq[i]].on
      <3>1. built \in Nat /\ FileSeq[i] \in Files
        BY <1>0, <2>1, <2>3 DEF BackupTypeOK
      <3>2. CASE FileSeq[i] = f
        BY <2>1, <2>2, <2>3, <3>2 DEF SeenInv
      <3>3. CASE FileSeq[i] # f
        <4>1. i \in 1 .. built
          BY <2>1, <2>2, <2>3, <3>1, <3>3
        <4>2. m.entry[FileSeq[i]].on
          BY <2>1, <2>3, <4>1 DEF KeptInv
        <4> QED
          BY <2>2, <3>1, <3>3, <4>2
      <3> QED
        BY <3>2, <3>3
    <2> QED
      BY <2>1, <2>3 DEF KeptInv, Busy
  <1>6. CASE BuildDone
    <2>1. /\ phase = "build" /\ phase' = "second" /\ built = Len(FileSeq) /\ UNCHANGED <<skipped, kept, m>>
      BY <1>6 DEF BuildDone
    <2>2. ASSUME NEW f \in kept PROVE f \in Listed(m)
      <3>1. f \in Files
        BY <1>0 DEF BackupTypeOK
      <3>2. PICK i \in 1 .. Len(FileSeq) : FileSeq[i] = f
        BY <3>1, Constants DEF Files
      <3> QED
        BY <2>1, <3>1, <3>2 DEF KeptInv, Listed
    <2> QED
      BY <2>1, <2>2 DEF KeptInv, Listed, Busy
  <1>7. ASSUME UNCHANGED <<kept, skipped>>, phase \in {"second", "resume"} \cup Busy, phase' \in {"second", "resume"} \cup Busy,
               \A f \in kept : m'.entry[f].on = m.entry[f].on
        PROVE  KeptInv'
    BY <1>7 DEF KeptInv, Listed, Busy
  <1>8. CASE BuildIncr
    <2>1. phase = "second" /\ phase' = "resume" /\ UNCHANGED <<kept, skipped>>
      BY <1>8 DEF BuildIncr
    <2>2. kept \subseteq Files
      BY <1>0 DEF BackupTypeOK
    <2>3. \A f \in kept : m'.entry[f].on = m.entry[f].on
      BY <1>8, <2>2, ReferenceEntry
    <2> QED
      BY <1>7, <2>1, <2>3 DEF Busy
  <1>9. CASE Resume
    <2>1. phase = "resume" /\ phase' = "save" /\ UNCHANGED <<kept, skipped>> /\ kept \subseteq Files
      BY <1>0, <1>9 DEF Resume, BackupTypeOK
    <2>2. \A f \in kept : m'.entry[f].on = m.entry[f].on
      BY <1>9, <2>1, ResumeEntry
    <2> QED
      BY <1>7, <2>1, <2>2 DEF Busy
  <1>10. CASE ResumeNot \/ SaveFirst \/ SavePeriodic
    <2>1. phase \in {"resume"} \cup Busy /\ phase' \in Busy /\ UNCHANGED <<kept, skipped, m>>
      BY <1>10 DEF ResumeNot, SaveFirst, SavePeriodic, Busy, process
    <2> QED
      BY <1>7, <2>1
  <1>11. CASE Stop \/ ArchiveCheck
    <2>1. phase \in {"resume"} \cup Busy /\ phase' \in Busy /\ UNCHANGED <<kept, skipped, m>>
      BY <1>11 DEF Stop, ArchiveCheck, Busy
    <2> QED
      BY <1>7, <2>1
  <1>12. ASSUME NEW f \in Files, Job(f) PROVE KeptInv'
    <2>1. phase = "copy" /\ phase' = "copy" /\ kept' = kept
      BY Zenon, <1>12, JobDoes
    <2>2. PICK b \in StoredType : JobCopies(f, b) \/ JobSkips(f) \/ JobLeaves(f, b)
      BY Zenon, <1>12, JobDoes
    <2>3. \A g \in kept : m'.entry[g].on = m.entry[g].on
      <3>1. CASE JobCopies(f, b)
        <4>2. m'.entry[f].on = m.entry[f].on
          BY <1>0, <3>1, CopiedManifest
        <4>3. \A g \in Files : g # f => m'.entry[g] = m.entry[g]
          BY <1>0, <3>1, CopiedManifest
        <4> QED
          BY <1>0, <4>2, <4>3 DEF BackupTypeOK
      <3>2. CASE JobSkips(f) \/ JobLeaves(f, b)
        BY <3>2 DEF JobSkips, JobLeaves
      <3> QED
        BY <2>2, <3>1, <3>2
    <2>4. kept \cap skipped' = {}
      <3>1. CASE JobSkips(f)
        <4>1. f \notin kept
          BY <2>1, <3>1, JobSkipsGone DEF JobSkips
        <4> QED
          BY <3>1, <4>1 DEF JobSkips, KeptInv
      <3>2. CASE JobCopies(f, b) \/ JobLeaves(f, b)
        BY <3>2 DEF JobCopies, JobLeaves, KeptInv
      <3> QED
        BY <2>2, <3>1, <3>2
    <2> QED
      BY <2>1, <2>3, <2>4 DEF KeptInv, Listed, Busy
  <1>13. CASE JobsDone
    <2>1. /\ phase = "copy" /\ phase' = "stop" /\ UNCHANGED <<kept, skipped>>
          /\ \A f \in Files : m'.entry[f] = IF f \in skipped THEN NoEntry ELSE m.entry[f]
      BY <1>13, JobsDoneDoes
    <2>2. \A f \in kept : m'.entry[f].on = m.entry[f].on
      BY <1>0, <2>1 DEF KeptInv, BackupTypeOK
    <2> QED
      BY <1>7, <2>1, <2>2 DEF Busy
  <1> QED
    BY <1>1, <1>2, <1>3, <1>4, <1>5, <1>6, <1>8, <1>9, <1>10, <1>11, <1>12, <1>13, Steps

-----------------------------------------------------------------------------
(* A backup of the primary *)

LEMMA DatedStays ==
    ASSUME BaseInv, BaseInv', ContentInv, ClusterNext, UNCHANGED backupCase, NEW f \in Files, NEW e \in EntryType,
           Dated(pg[f], now, e)
    PROVE  Dated(pg'[f], now', e)
  <1>1. now \in Nat /\ now' \in Nat /\ now <= now' /\ e.t \in Nat
    <2>1. now \in 1 .. MaxTime /\ now' \in 1 .. MaxTime /\ now <= now'
      BY ClusterSame DEF BaseInv, BackupTypeOK
    <2> QED
      BY <2>1, Constants DEF EntryType
  <1>2. \/ pg'[f] = pg[f]
        \/ ~pg'[f].on
        \/ pg'[f].t = Far
        \/ pg'[f].t = now
    BY ClusterFile
  <1>3. e.t < now => e.t < now' /\ e.t # now
    BY <1>1
  <1> QED
    BY <1>2, <1>3 DEF Dated

LEMMA RepoFrame ==
    ASSUME RepoTimeInv, UNCHANGED <<now, pg>>, ~mixed' => ~mixed,
           \A i \in DOMAIN backups' :
              \/ i \in DOMAIN backups /\ backups'[i] = backups[i]
              \/ ~mixed' /\ Trusted(backups'[i]) => ManDated(backups'[i].man)
    PROVE  RepoTimeInv'
  <1> SUFFICES ASSUME ~mixed', NEW i \in DOMAIN backups', Trusted(backups'[i]), NEW f \in Files
               PROVE  Dated(pg[f], now, backups'[i].man.entry[f])
    BY DEF RepoTimeInv, ManDated, Trusted
  <1>1. CASE i \in DOMAIN backups /\ backups'[i] = backups[i]
    BY <1>1 DEF RepoTimeInv, ManDated
  <1>2. CASE ManDated(backups'[i].man)
    BY <1>2 DEF ManDated
  <1> QED
    BY <1>1, <1>2

LEMMA NoManifestDated == ManDated(NoManifest)
  BY EntryTypes DEF ManDated, Dated

\* The entries of the manifest a backup without delta saves, or a backup that
\* completes
LEMMA SavedDated ==
    ASSUME BaseInv, WholeInv, TimeInv, ~mixed, phase \in Busy, ~opt.delta \/ phase = "complete"
    PROVE  ManDated(m)
  <1> SUFFICES ASSUME NEW f \in Files, m.entry[f].on, m.entry[f].sum # NoContent PROVE Dated(pg[f], now, m.entry[f])
    BY DEF ManDated, Dated
  <1>1. CASE ~opt.delta
    BY <1>1 DEF TimeInv, TimeOf, Checked
  <1>2. CASE phase = "complete"
    <2>1. Handled(f)
      <3>1. todo = {}
        BY <1>2 DEF BaseInv, OptInv
      <3>2. f \notin skipped
        BY <1>2 DEF WholeInv, ManifestInv, EntryInv
      <3> QED
        BY <1>2, <3>1, <3>2 DEF Handled
    <2> QED
      BY <2>1 DEF TimeInv, TimeOf, Checked
  <1> QED
    BY <1>1, <1>2

LEMMA RepoTimeStep ==
    ASSUME BaseInv, BaseInv', WholeInv, TimeInv, RepoTimeInv, BackupNext
    PROVE  RepoTimeInv'
  <1>0. BackupTypeOK /\ UNCHANGED backupCase /\ ContentInv
    BY Steps DEF BaseInv, WholeInv
  <1>1. CASE ClusterNext
    <2>1. UNCHANGED <<backups, mixed>>
      BY <1>0, <1>1, ClusterSame
    <2> SUFFICES ASSUME ~mixed, NEW i \in DOMAIN backups, Trusted(backups[i]), NEW f \in Files
                 PROVE  Dated(pg'[f], now', backups[i].man.entry[f])
      BY <2>1 DEF RepoTimeInv, ManDated, Trusted
    <2>2. backups[i].man.entry[f] \in EntryType
      <3>1. backups[i] \in StoredType
        BY <1>0 DEF BackupTypeOK
      <3> QED
        BY <3>1 DEF StoredType, ManifestType
    <2>3. Dated(pg[f], now, backups[i].man.entry[f])
      BY DEF RepoTimeInv, ManDated
    <2> QED
      BY <1>0, <1>1, <2>2, <2>3, DatedStays
  <1>2. CASE UNCHANGED <<now, pg, mixed, backups>>
    BY <1>2, RepoFrame
  <1>3. ASSUME UNCHANGED <<now, pg>>, ~mixed' => ~mixed, backups # <<>>,
               NEW b \in StoredType, backups' = [backups EXCEPT ![Label] = b],
               ~mixed' /\ Trusted(b) => ManDated(b.man)
        PROVE  RepoTimeInv'
    <2>1. \A i \in DOMAIN backups' : i \in DOMAIN backups /\ backups'[i] = IF i = Label THEN b ELSE backups[i]
      BY <1>0, <1>3, LastReplaced
    <2> QED
      BY <1>3, <2>1, RepoFrame
  \* the manifest of the last backup stays, its files do not
  <1>4. ASSUME UNCHANGED <<now, pg>>, ~mixed' => ~mixed, backups # <<>>,
               NEW b \in StoredType, backups' = [backups EXCEPT ![Label] = b],
               b.man = backups[Label].man, b.done => backups[Label].done
        PROVE  RepoTimeInv'
    <2>1. Label \in DOMAIN backups
      BY <1>0, <1>4, LastType
    <2>2. Trusted(b) => Trusted(backups[Label])
      BY <1>4 DEF Trusted
    <2>3. ~mixed' /\ Trusted(b) => ManDated(b.man)
      BY <1>4, <2>1, <2>2 DEF RepoTimeInv
    <2> QED
      BY Zenon, <1>3, <1>4, <2>3
  <1>5. CASE Resume
    <2>1. UNCHANGED <<now, pg>> /\ (~mixed' => ~mixed) /\ backups # <<>>
      BY Zenon, <1>5, ResumeDoes
    <2>2. PICK b \in StoredType : backups' = [backups EXCEPT ![Label] = b] /\ b.man = backups[Label].man /\ b.done = backups[Label].done
      BY Zenon, <1>5, ResumeDoes
    <2> QED
      BY Zenon, <1>4, <2>1, <2>2
  <1>6. CASE \E f \in Files : Job(f)
    <2>1. UNCHANGED <<now, pg, mixed>> /\ backups # <<>>
      BY Zenon, <1>6, JobDoes
    <2>2. PICK b \in StoredType : backups' = [backups EXCEPT ![Label] = b] /\ b.man = backups[Label].man /\ ~b.done
      BY Zenon, <1>6, JobDoes
    <2> QED
      BY Zenon, <1>4, <2>1, <2>2
  <1>7. CASE ResumeNot
    <2>1. /\ UNCHANGED <<now, pg, mixed>> /\ Label' = Len(backups') /\ backups'[Label'] = NewBackup
          /\ \A i \in DOMAIN backups' : i < Label' => i \in DOMAIN backups /\ backups'[i] = backups[i]
      BY <1>7, ResumeNotDoes
    <2>2. \A i \in DOMAIN backups' : i < Label' \/ i = Label'
      <3>1. backups' \in Seq(StoredType)
        BY DEF BaseInv, BackupTypeOK
      <3> QED
        BY <2>1, <3>1
    <2>3. ManDated(NewBackup.man)
      BY NoManifestDated DEF NewBackup
    <2> QED
      BY <2>1, <2>2, <2>3, RepoFrame
  <1>8. CASE SaveFirst \/ SavePeriodic \/ Stop
    <2>1. phase \in Busy /\ SaveCopy /\ UNCHANGED <<now, pg, mixed>>
      BY <1>8 DEF SaveFirst, SavePeriodic, Stop, cluster, Busy
    <2>2. backups # <<>>
      BY <2>1, SaveCopyDoes
    <2>3. PICK b \in StoredType : backups' = [backups EXCEPT ![Label] = b] /\ b.man = m /\ b.done = FALSE
      BY Zenon, <2>1, SaveCopyDoes
    <2>4. m.delta = opt.delta
      BY <2>1 DEF BaseInv, OptInv
    <2>5. ~mixed' /\ Trusted(b) => ManDated(b.man)
      BY <2>1, <2>3, <2>4, SavedDated DEF Trusted
    <2> QED
      BY Zenon, <1>3, <2>1, <2>2, <2>3, <2>5
  <1>9. CASE Complete
    <2>1. phase = "complete" /\ UNCHANGED <<now, pg, mixed>> /\ backups # <<>>
      BY <1>9, CompleteDoes
    <2>2. PICK b \in StoredType : backups' = [backups EXCEPT ![Label] = b] /\ b.man = m
      BY <1>9, CompleteDoes
    <2>3. ~mixed' => ManDated(b.man)
      BY <2>1, <2>2, SavedDated DEF Busy
    <2> QED
      BY Zenon, <1>3, <2>1, <2>2, <2>3
  <1>10. CASE Kill
    <2>1. UNCHANGED <<now, pg, mixed>>
      BY <1>10, KillDoes
    <2>2. CASE backups' = backups
      BY <1>2, <2>1, <2>2
    <2>3. CASE backups # <<>> /\ ~backups[Label].done /\ \E b \in StoredType : backups' = [backups EXCEPT ![Label] = b] /\ Leaves(b)
      <3>1. PICK b \in StoredType : backups' = [backups EXCEPT ![Label] = b] /\ Leaves(b)
        BY Zenon, <2>3
      <3>2. CASE b.man = NoManifest
        BY Zenon, <1>3, <2>1, <2>3, <3>1, <3>2, NoManifestDated
      <3>3. CASE b.man = backups[Label].man
        BY Zenon, <1>4, <2>1, <2>3, <3>1, <3>3 DEF Leaves
      <3> QED
        BY <3>1, <3>2, <3>3 DEF Leaves
    <2> QED
      BY <1>10, <2>2, <2>3, KillDoes
  <1>11. ASSUME NEW type, NEW delta, NEW resume, Start(type, delta, resume) PROVE RepoTimeInv'
    BY <1>2, <1>11 DEF Start, cluster
  <1>12. ReplayWait \/ BuildFile \/ BuildDone \/ BuildIncr \/ JobsDone \/ ArchiveCheck => RepoTimeInv'
    BY <1>2 DEF ReplayWait, BuildFile, BuildDone, BuildIncr, JobsDone, ArchiveCheck, cluster
  <1> QED
    BY <1>1, <1>5, <1>6, <1>7, <1>8, <1>9, <1>10, <1>11, <1>12, Steps

\* An entry that is off, and an entry that a step leaves alone
LEMMA OffTime == ASSUME NEW f \in Files, ~m'.entry[f].on PROVE TimeOf(f)'
  BY DEF TimeOf

LEMMA NoManifestTime == ASSUME m' = NoManifest PROVE TimeInv'
  BY OffTime, EntryTypes DEF TimeInv

LEMMA TimeFrame ==
    ASSUME NEW f \in Files, TimeOf(f), m'.entry[f] = m.entry[f], UNCHANGED <<now, pg, seen, copyStart>>, ~mixed' => ~mixed,
           opt'.delta = opt.delta, phase \in {"resume"} \cup Busy, phase' \in Busy, Checked(f)' => Checked(f)
    PROVE  TimeOf(f)'
  <1>1. phase # "build" /\ phase' \notin {"build", "second", "resume"}
    BY DEF Busy
  <1> QED
    BY Zenon, <1>1 DEF TimeOf

LEMMA ListingSame ==
    ASSUME NEW S, NEW T, S \subseteq T, NEW bs, NEW f, NEW e, NEW d, d.t = e.t, d.s = e.s, Listing(S, bs, f, e)
    PROVE  Listing(T, bs, f, d)
  <1>1. PICK c \in S : c.s = e.s /\ \A i \in DOMAIN bs : Agrees(f, e, c, bs[i])
    BY DEF Listing
  <1>2. \A b : Agrees(f, e, c, b) => Agrees(f, d, c, b)
    BY DEF Agrees
  <1> QED
    BY <1>1, <1>2 DEF Listing

LEMMA ClusterTime == ASSUME BaseInv, BaseInv', ContentInv, TimeInv, ClusterNext, UNCHANGED backupCase PROVE TimeInv'
  <1> SUFFICES ASSUME NEW f \in Files PROVE TimeOf(f)'
    BY DEF TimeInv
  <1>1. UNCHANGED <<backups, phase, opt, m, copyStart, todo, skipped, mixed>> /\ now <= now'
    BY ClusterSame DEF BaseInv
  <1>2. PICK e \in EntryType : e = m.entry[f]
    BY DEF BaseInv, BackupTypeOK, ManifestType
  <1>3. seen[f] \subseteq seen'[f]
    BY ClusterFile
  <1>4. Dated(pg[f], now, e) => Dated(pg'[f], now', e)
    BY DatedStays
  <1>5. Listing(seen[f], backups, f, e) => Listing(seen'[f], backups', f, e)
    BY <1>1, <1>3, ListingSame
  <1>6. YoungIn(seen[f], e.sum) => YoungIn(seen'[f], e.sum)
    BY <1>3 DEF YoungIn
  <1>7. Checked(f)' = Checked(f)
    BY <1>1 DEF Checked, Handled
  <1>8. e.t <= now => e.t <= now'
    <2>1. now \in 1 .. MaxTime /\ now' \in 1 .. MaxTime
      BY DEF BaseInv, BackupTypeOK
    <2> QED
      BY <1>1, <2>1, Constants DEF EntryType
  <1>9. TimeOf(f) /\ m'.entry[f] = e
    BY <1>1, <1>2 DEF TimeInv
  <1>10. Listing(seen'[f], backups', f, e) => Listing(seen'[f], backups', f, m'.entry[f])
    BY <1>9
  <1>11. /\ e.on => e.t = Far \/ e.t <= IF phase' = "build" THEN now' ELSE copyStart'
         /\ e.on /\ phase' \in {"resume"} \cup Busy /\ ~opt'.delta => e.t # Far
    BY <1>1, <1>2, <1>8, <1>9 DEF TimeOf
  <1>12. e.on /\ ~mixed' /\ phase' \in {"build", "second", "resume"} => Listing(seen'[f], backups', f, m'.entry[f])
    BY ZenonT(30), <1>1, <1>2, <1>5, <1>9, <1>10 DEF TimeOf
  <1>13. e.on /\ ~mixed' /\ phase' \in {"resume"} \cup Busy /\ e.sum # NoContent /\ Checked(f)'
         => YoungIn(seen'[f], e.sum) /\ Dated(pg'[f], now', e)
    BY ZenonT(30), <1>1, <1>2, <1>4, <1>6, <1>7, <1>9 DEF TimeOf
  <1> QED
    BY Zenon, <1>9, <1>11, <1>12, <1>13 DEF TimeOf

LEMMA BuildFileTime ==
    ASSUME BaseInv, ContentInv, ClockInv, SeenInv, TimeInv, RepoTimeInv, BuildFile PROVE TimeInv'
  <1>1. /\ phase = "build" /\ phase' = "build" /\ UNCHANGED <<now, pg, backups, opt, seen, mixed, copyStart>>
    BY BuildFileDoes
  <1>2. PICK f \in Files : /\ \A g \in Files : g # f => m'.entry[g] = m.entry[g]
                           /\ ~pg[f].on => m'.entry[f] = m.entry[f]
                           /\ pg[f].on => m'.entry[f].on /\ m'.entry[f].t = pg[f].t /\ m'.entry[f].s = pg[f].c.s
    BY BuildFileDoes
  <1> SUFFICES ASSUME NEW g \in Files PROVE TimeOf(g)'
    BY DEF TimeInv
  <1>3. phase' \notin {"resume"} \cup Busy
    BY <1>1 DEF Busy
  <1>4. CASE m'.entry[g] = m.entry[g]
    <2>1. TimeOf(g)
      BY DEF TimeInv
    <2>2. Listing(seen[g], backups, g, m.entry[g]) => Listing(seen'[g], backups', g, m'.entry[g])
      BY <1>1, <1>4
    <2> QED
      BY Zenon, <1>1, <1>3, <1>4, <2>1, <2>2 DEF TimeOf
  <1>5. CASE g = f /\ pg[f].on
    <2>1. pg[f].t = Far \/ pg[f].t <= now
      BY <1>5 DEF ClockInv
    <2>2. pg[f].c \in seen[f]
      BY <1>1, <1>5 DEF SeenInv
    <2>3. ASSUME ~mixed, NEW i \in DOMAIN backups PROVE Agrees(f, m'.entry[f], pg[f].c, backups[i])
      <3>1. Trusted(backups[i]) => Dated(pg[f], now, backups[i].man.entry[f])
        BY <2>3 DEF RepoTimeInv, ManDated
      <3> QED
        BY <1>2, <1>5, <3>1 DEF Agrees, Dated
    <2>4. ~mixed => Listing(seen'[f], backups', f, m'.entry[f])
      BY Zenon, <1>1, <1>2, <1>5, <2>2, <2>3 DEF Listing
    <2> QED
      BY Zenon, <1>1, <1>2, <1>3, <1>5, <2>1, <2>4 DEF TimeOf
  <1> QED
    BY <1>2, <1>4, <1>5

LEMMA BuildDoneTime == ASSUME BaseInv, TimeInv, BuildDone PROVE TimeInv'
  <1>1. phase = "build" /\ phase' = "second" /\ copyStart' = now /\ UNCHANGED <<now, pg, backups, opt, m, seen, mixed>>
    BY DEF BuildDone, cluster
  <1> SUFFICES ASSUME NEW f \in Files PROVE TimeOf(f)'
    BY DEF TimeInv
  <1>2. TimeOf(f)
    BY DEF TimeInv
  <1>3. Listing(seen[f], backups, f, m.entry[f]) => Listing(seen'[f], backups', f, m'.entry[f])
    BY <1>1
  <1> QED
    BY Zenon, <1>1, <1>2, <1>3 DEF TimeOf, Busy

LEMMA PrefixSelf == ASSUME NEW c \in Real PROVE Prefix(c, c) /\ Prefix(Empty, c)
  BY RealFacts DEF Prefix

\* An empty file is always young, and dated by its size
LEMMA EmptyYoung ==
    ASSUME BaseInv, ContentInv, SeenInv, phase # "idle", NEW f \in Files, NEW e \in EntryType, e.sum \in Real, e.sum.s = e.s, e.s = 0,
           e.t = Far \/ e.t < now, seen[f] # {}
    PROVE  YoungIn(seen[f], e.sum) /\ Dated(pg[f], now, e)
  <1>1. e.sum = Empty
    BY RealFacts
  <1>2. seen[f] \subseteq Real
    BY DEF SeenInv
  <1>3. YoungIn(seen[f], e.sum)
    BY <1>1, <1>2, PrefixSelf DEF YoungIn
  <1>4. pg[f].on /\ pg[f].c.s = 0 => pg[f].c = Empty
    BY RealFacts DEF ContentInv
  <1> QED
    BY <1>1, <1>3, <1>4 DEF Dated

\* An entry with the time and size of one that is trusted
LEMMA TakenYoung ==
    ASSUME BaseInv, SeenInv, RepoTimeInv, ~mixed, phase # "idle", NEW f \in Files, Listing(seen[f], backups, f, m.entry[f]), NEW e,
           e.t = m.entry[f].t, e.s = m.entry[f].s, e.t # Far,
           NEW i \in DOMAIN backups, Trusted(backups[i]), backups[i].man.entry[f].on,
           e.sum = backups[i].man.entry[f].sum, e.sum # NoContent,
           e.t = backups[i].man.entry[f].t, e.s = backups[i].man.entry[f].s
    PROVE  YoungIn(seen[f], e.sum) /\ Dated(pg[f], now, e)
  <1>1. PICK c \in seen[f] : Agrees(f, m.entry[f], c, backups[i])
    BY DEF Listing
  <1>2. e.sum = c
    BY <1>1 DEF Agrees
  <1>3. c \in Real
    BY ZenonT(30), <1>1 DEF SeenInv
  <1>4. Dated(pg[f], now, backups[i].man.entry[f])
    BY DEF RepoTimeInv, ManDated
  <1>5. YoungIn(seen[f], e.sum)
    BY <1>1, <1>2, <1>3, PrefixSelf DEF YoungIn
  <1> QED
    BY ZenonT(30), <1>4, <1>5 DEF Dated

LEMMA BuildIncrTime ==
    ASSUME BaseInv, BaseInv', WholeInv, ClockInv, SeenInv, TimeInv, RepoTimeInv, BuildIncr PROVE TimeInv'
  <1>1. /\ phase = "second" /\ phase' = "resume" /\ now > copyStart
        /\ UNCHANGED <<now, pg, backups, copyStart, seen, mixed>>
    BY BuildIncrDoes
  <1>2. ~opt'.delta => ~FutureTime
    BY BuildIncrDoes
  <1> SUFFICES ASSUME NEW f \in Files, m'.entry[f].on PROVE TimeOf(f)'
    BY OffTime DEF TimeInv
  <1>3. /\ m'.entry[f].on = m.entry[f].on /\ m'.entry[f].t = m.entry[f].t /\ m'.entry[f].s = m.entry[f].s
        /\ \/ m'.entry[f] = m.entry[f]
           \/ /\ m.entry[f].on /\ Prior.entry[f].on /\ CanReference(opt'.delta, m.entry[f], Prior.entry[f])
              /\ m'.entry[f].sum = Prior.entry[f].sum
    BY Zenon, ReferenceEntry
  <1>4. TimeOf(f) /\ m.entry[f].on
    BY <1>3 DEF TimeInv
  <1>5. PICK e \in EntryType : e = m'.entry[f]
    BY DEF BaseInv, BackupTypeOK, ManifestType
  <1>6. now \in 1 .. MaxTime /\ copyStart \in Nat /\ e.t \in Nat
    BY DEF BaseInv, BackupTypeOK, EntryType
  <1>7. e.t = Far \/ e.t <= copyStart
    BY Zenon, <1>1, <1>3, <1>4, <1>5 DEF TimeOf
  <1>8. ~opt'.delta => e.t # Far
    <2>1. Far > copyStart
      BY <1>1, <1>6, Constants
    <2>2. FutureTime \/ ~(m.entry[f].t > copyStart)
      BY <1>4 DEF FutureTime, Listed
    <2> QED
      BY <1>2, <1>3, <1>5, <2>1, <2>2
  <1>9. ~mixed => Listing(seen[f], backups, f, m.entry[f])
    BY <1>1, <1>4 DEF TimeOf
  <1>10. ~mixed => Listing(seen'[f], backups', f, m'.entry[f])
    <2>1. seen'[f] = seen[f] /\ backups' = backups
      BY <1>1
    <2>2. PICK S, d, x : S = seen[f] /\ d = m.entry[f] /\ x = m'.entry[f]
      OBVIOUS
    <2>3. x.t = d.t /\ x.s = d.s
      BY <1>3, <2>2
    <2>4. ASSUME Listing(S, backups, f, d) PROVE Listing(S, backups, f, x)
      BY ONLY <2>3, <2>4, ListingSame
    <2> QED
      BY <1>9, <2>1, <2>2, <2>4
  <1>11. ASSUME ~mixed, e.sum # NoContent, e.s = 0 \/ ~opt'.delta PROVE YoungIn(seen[f], e.sum) /\ Dated(pg[f], now, e)
    <2>1. m.entry[f].sum = NoContent
      BY ZenonT(30), <1>1 DEF WholeInv, ManifestInv, EntryInv
    <2>2. Prior.entry[f].on /\ CanReference(opt'.delta, m.entry[f], Prior.entry[f]) /\ e.sum = Prior.entry[f].sum
      BY ZenonT(30), <1>3, <1>5, <1>11, <2>1
    <2>3. opt.prior # 0
      BY <2>2, EntryTypes DEF Prior
    <2>4. opt.prior \in DOMAIN backups /\ backups[opt.prior].done /\ Prior = backups[opt.prior].man
      BY <1>1, <2>3 DEF BaseInv, OptInv, Prior
    <2>5. e.s = Prior.entry[f].s
      BY <1>3, <1>5, <2>2 DEF CanReference
    <2>6. CASE e.s = 0
      <3>1. Sized(Prior.entry[f])
        BY <2>4 DEF WholeInv, StoredInv, ManSized
      <3>2. e.sum \in Real /\ e.sum.s = e.s
        BY <1>11, <2>2, <2>5, <3>1 DEF Sized
      <3>3. e.t = Far \/ e.t < now
        BY <1>1, <1>6, <1>7, Constants
      <3>4. seen[f] # {}
        BY <1>9, <1>11 DEF Listing
      <3> QED
        BY <1>1, <2>6, <3>2, <3>3, <3>4, EmptyYoung DEF WholeInv
    <2>7. CASE e.s # 0
      <3>1. ~opt'.delta /\ e.t = Prior.entry[f].t
        BY <1>3, <1>5, <1>11, <2>2, <2>7 DEF CanReference
      <3>2. Trusted(backups[opt.prior])
        BY <2>4 DEF Trusted
      <3>3. e.t = m.entry[f].t /\ e.s = m.entry[f].s /\ e.t # Far
        BY <1>3, <1>5, <1>8, <3>1
      <3> QED
        BY Zenon, <1>1, <1>9, <1>11, <2>2, <2>4, <2>5, <3>1, <3>2, <3>3, TakenYoung
    <2> QED
      BY <2>6, <2>7
  <1>12. Checked(f)' => e.s = 0 \/ ~opt'.delta
    BY <1>1, <1>5 DEF Checked, Handled
  <1> QED
    BY Zenon, <1>1, <1>5, <1>7, <1>8, <1>10, <1>11, <1>12 DEF TimeOf, Busy

LEMMA ResumeTime ==
    ASSUME BaseInv, BaseInv', WholeInv, SeenInv, TimeInv, RepoTimeInv, Resume PROVE TimeInv'
  <1>1. /\ phase = "resume" /\ phase' = "save" /\ backups # <<>>
        /\ UNCHANGED <<now, pg, opt, copyStart, seen>>
        /\ mixed' = (mixed \/ (backups[Label].man.delta /\ ~opt.delta))
    BY ResumeDoes
  <1> SUFFICES ASSUME NEW f \in Files, m'.entry[f].on PROVE TimeOf(f)'
    BY OffTime DEF TimeInv
  <1>2. /\ m'.entry[f].on = m.entry[f].on /\ m'.entry[f].t = m.entry[f].t /\ m'.entry[f].s = m.entry[f].s
        /\ \/ m'.entry[f] = m.entry[f]
           \/ /\ ResumeFile(m.entry[f], backups[Label].man.entry[f])
              /\ m'.entry[f].sum = backups[Label].man.entry[f].sum
    BY ZenonT(30), ResumeEntry
  <1>3. TimeOf(f) /\ m.entry[f].on
    BY Zenon, <1>2 DEF TimeInv
  <1>4. Checked(f)' => m.entry[f].s = 0 \/ ~opt.delta
    BY <1>1, <1>2 DEF Checked, Handled
  <1>5. m.entry[f].s = 0 \/ ~opt.delta => Checked(f)
    BY DEF Checked
  <1>6. CASE m'.entry[f] = m.entry[f]
    BY Zenon, <1>1, <1>3, <1>4, <1>5, <1>6, TimeFrame DEF Busy
  <1>7. CASE /\ ResumeFile(m.entry[f], backups[Label].man.entry[f])
             /\ m'.entry[f].sum = backups[Label].man.entry[f].sum
    <2> DEFINE r == backups[Label].man.entry[f]
    <2>1. r.on /\ r.sum # NoContent /\ m.entry[f].s = r.s /\ (opt.delta \/ m.entry[f].t = r.t) /\ m.entry[f].s # 0
      BY Zenon, <1>7 DEF ResumeFile
    <2>2. ASSUME ~mixed', ~opt.delta PROVE YoungIn(seen[f], m'.entry[f].sum) /\ Dated(pg[f], now, m'.entry[f])
      <3>1. ~mixed /\ Trusted(backups[Label]) /\ Label \in DOMAIN backups
        BY Zenon, <1>1, <2>2, LastType DEF Trusted, BaseInv
      <3>2. Listing(seen[f], backups, f, m.entry[f]) /\ m.entry[f].t # Far
        BY Zenon, <1>1, <1>3, <2>2, <3>1 DEF TimeOf
      <3>3. m'.entry[f].sum # NoContent /\ m'.entry[f].t = r.t /\ m'.entry[f].s = r.s
        BY ZenonT(30), <1>2, <1>7, <2>1, <2>2
      <3> QED
        BY Zenon, <1>1, <1>2, <1>7, <2>1, <2>2, <3>1, <3>2, <3>3, TakenYoung
    <2>3. Checked(f)' => ~opt.delta
      BY <1>4, <2>1
    <2>4. m'.entry[f].t = Far \/ m'.entry[f].t <= copyStart
      BY Zenon, <1>1, <1>2, <1>3 DEF TimeOf
    <2>5. ~opt.delta => m'.entry[f].t # Far
      BY Zenon, <1>1, <1>2, <1>3 DEF TimeOf
    <2> HIDE DEF r
    <2> QED
      BY Zenon, <1>1, <2>2, <2>3, <2>4, <2>5 DEF TimeOf
  <1> QED
    BY <1>2, <1>6, <1>7

LEMMA LaterTime ==
    ASSUME BaseInv, TimeInv, ResumeNot \/ SavePeriodic \/ Stop \/ ArchiveCheck
    PROVE  TimeInv'
  <1>1. /\ UNCHANGED <<now, pg, seen, copyStart, mixed, m, todo, skipped>>
        /\ phase \in {"resume"} \cup Busy /\ phase' \in Busy
    BY DEF ResumeNot, SavePeriodic, Stop, ArchiveCheck, cluster, process, Busy
  <1>2. opt'.delta = opt.delta
    BY DEF ResumeNot, SavePeriodic, Stop, ArchiveCheck, process, BaseInv, BackupTypeOK, OptType
  <1>3. phase' \in {"copy", "stop", "archive", "complete"} => phase \in {"copy", "stop", "archive", "complete"}
    BY DEF ResumeNot, SavePeriodic, Stop, ArchiveCheck, process
  <1> SUFFICES ASSUME NEW f \in Files PROVE TimeOf(f)'
    BY DEF TimeInv
  <1>4. Checked(f)' => Checked(f)
    BY <1>1, <1>2, <1>3 DEF Checked, Handled
  <1>5. TimeOf(f)
    BY DEF TimeInv
  <1> QED
    BY Zenon, <1>1, <1>2, <1>4, <1>5, TimeFrame

LEMMA SaveFirstTime == ASSUME BaseInv, TimeInv, SaveFirst PROVE TimeInv'
  <1>1. /\ phase = "save" /\ phase' = "copy" /\ UNCHANGED <<now, pg, seen, copyStart, mixed, m, skipped, opt>>
        /\ todo' = {f \in Files : InQueue(m.entry[f])}
    BY DEF SaveFirst, cluster
  <1> SUFFICES ASSUME NEW f \in Files, m.entry[f].on PROVE TimeOf(f)'
    BY <1>1, OffTime DEF TimeInv
  <1>2. f \notin todo' => ~opt.delta \/ m.entry[f].s = 0
    BY <1>1 DEF InQueue
  <1>3. Checked(f)' => Checked(f)
    BY <1>1, <1>2 DEF Checked, Handled
  <1>4. TimeOf(f)
    BY DEF TimeInv
  <1> QED
    BY <1>1, <1>3, <1>4, TimeFrame DEF Busy

LEMMA JobsDoneTime == ASSUME BaseInv, TimeInv, JobsDone PROVE TimeInv'
  <1>1. /\ phase = "copy" /\ phase' = "stop" /\ UNCHANGED <<now, pg, seen, copyStart, mixed, todo, skipped, opt>>
        /\ \A f \in Files : m'.entry[f] = IF f \in skipped THEN NoEntry ELSE m.entry[f]
    BY JobsDoneDoes
  <1> SUFFICES ASSUME NEW f \in Files, f \notin skipped PROVE TimeOf(f)'
    BY <1>1, OffTime, EntryTypes DEF TimeInv
  <1>2. m'.entry[f] = m.entry[f] /\ TimeOf(f)
    BY <1>1 DEF TimeInv
  <1>3. Checked(f)' => Checked(f)
    BY <1>1, <1>2 DEF Checked, Handled
  <1> QED
    BY <1>1, <1>2, <1>3, TimeFrame DEF Busy

\* A content that is cut at the size of the entry
LEMMA SourceYoung ==
    ASSUME BaseInv, ContentInv, SeenInv, ~backupCase.standby, phase # "idle", NEW f \in Files, Source(f) # NoContent,
           NEW e, e.sum = Source(f), e.s = Source(f).s, e.t = Far \/ e.t < now
    PROVE  YoungIn(seen[f], e.sum) /\ Dated(pg[f], now, e)
  <1>1. BackupTypeOK /\ m.entry[f].s \in Nat
    BY DEF BaseInv, BackupTypeOK, ManifestType, EntryType
  <1>2. pg[f].c \in Real
    BY <1>1, SourceReal
  <1>3. Source(f) = Limit(pg[f].c, m.entry[f].s)
    BY <1>1, <1>2, SourceReal
  <1>4. pg[f].c \in seen[f]
    BY <1>2, RealFacts DEF ContentInv, SeenInv
  <1>5. PICK c \in Real : c = pg[f].c
    BY <1>2
  <1>6. PICK s \in Nat : s = m.entry[f].s
    BY <1>1
  <1>7. Prefix(Limit(c, s), c) /\ (c.s <= s => Limit(c, s) = c) /\ (c.s > s => Limit(c, s).s = s)
    BY LimitReal
  <1>8. c.s <= s \/ (c.s > s /\ c.s # s)
    BY RealFacts
  <1>9. e.sum = Limit(c, s) /\ e.s = Limit(c, s).s
    BY <1>3, <1>5, <1>6
  <1>10. c.s = e.s => e.sum = c
    BY <1>7, <1>8, <1>9
  <1> QED
    BY <1>4, <1>5, <1>7, <1>9, <1>10 DEF YoungIn, Dated

LEMMA JobTime ==
    ASSUME BaseInv, WholeInv, ClockInv, SeenInv, ~backupCase.standby, TimeInv, NEW f \in Files, Job(f)
    PROVE  TimeInv'
  <1>0. BackupTypeOK /\ ContentInv
    BY DEF BaseInv, WholeInv
  <1>1. /\ phase = "copy" /\ phase' = "copy" /\ f \in todo /\ todo' = todo \ {f}
        /\ UNCHANGED <<now, pg, opt, copyStart, seen, mixed>>
    BY Zenon, JobDoes
  <1>2. PICK b \in StoredType : JobCopies(f, b) \/ JobSkips(f) \/ JobLeaves(f, b)
    BY ZenonT(30), JobDoes
  <1>3. \A g \in Files : g # f => m'.entry[g] = m.entry[g]
    BY Zenon, <1>0, <1>2, CopiedManifest DEF JobSkips, JobLeaves
  <1>4. skipped' \in {skipped, skipped \cup {f}}
    BY <1>2 DEF JobCopies, JobSkips, JobLeaves
  <1> SUFFICES ASSUME NEW g \in Files PROVE TimeOf(g)'
    BY DEF TimeInv
  <1>5. TimeOf(g)
    BY DEF TimeInv
  <1>6. CASE g # f
    <2>1. Checked(g)' => Checked(g)
      BY Zenon, <1>1, <1>3, <1>4, <1>6 DEF Checked, Handled
    <2> QED
      BY Zenon, <1>1, <1>3, <1>5, <1>6, <2>1, TimeFrame DEF Busy
  <1>7. CASE g = f
    <2>1. PICK e \in EntryType : e = m.entry[f]
      BY <1>0 DEF BackupTypeOK, ManifestType
    <2>2. e.on
      BY Zenon, <1>1, <2>1 DEF WholeInv, ManifestInv, EntryInv
    <2>3. (e.t = Far \/ e.t <= copyStart) /\ (~opt.delta => e.t # Far)
      BY Zenon, <1>1, <1>5, <1>7, <2>1, <2>2 DEF TimeOf, Busy
    <2>4. e.t = Far \/ e.t < now
      <3>1. copyStart < now /\ copyStart \in Nat /\ now \in 1 .. MaxTime /\ e.t \in Nat
        BY <1>0, <1>1 DEF ClockInv, BackupTypeOK, EntryType, Busy
      <3> QED
        BY <2>3, <3>1, Constants
    <2>5. CASE JobCopies(f, b)
      <3>1. Source(f) # NoContent
        BY <2>5 DEF JobCopies
      <3>2. m'.entry[f].s = Source(f).s /\ m'.entry[f].sum = Source(f) /\ m'.entry[f].t = e.t
        BY Zenon, <1>0, <2>1, <2>5, CopiedManifest
      <3>3. YoungIn(seen[f], m'.entry[f].sum) /\ Dated(pg[f], now, m'.entry[f])
        BY ZenonT(30), <1>0, <1>1, <2>4, <3>1, <3>2, SourceYoung
      <3> QED
        BY Zenon, <1>1, <1>7, <2>3, <3>2, <3>3 DEF TimeOf, Busy
    <2>6. CASE JobSkips(f)
      <3>1. m' = m /\ f \in skipped'
        BY <2>6 DEF JobSkips
      <3>2. Checked(f)' => Checked(f)
        BY <1>1, <3>1 DEF Checked, Handled
      <3> QED
        BY <1>1, <1>5, <1>7, <3>1, <3>2, TimeFrame DEF Busy
    <2>7. CASE JobLeaves(f, b)
      <3>1. m' = m /\ e.sum # NoContent /\ (opt.delta => Source(f) = e.sum)
        BY <2>1, <2>7 DEF JobLeaves
      <3>2. CASE Checked(f)
        BY <1>1, <1>5, <1>7, <3>1, <3>2, TimeFrame DEF Busy
      <3>3. CASE ~Checked(f)
        <4>1. Source(f) = e.sum
          BY <3>1, <3>3 DEF Checked
        <4>2. e.sum.s = e.s
          BY Zenon, <2>1, <2>2, <3>1 DEF WholeInv, ManifestInv, EntryInv, Sized
        <4>3. YoungIn(seen[f], e.sum) /\ Dated(pg[f], now, e)
          BY ZenonT(30), <1>0, <1>1, <2>4, <3>1, <4>1, <4>2, SourceYoung
        <4> QED
          BY ZenonT(30), <1>1, <1>7, <2>1, <2>3, <3>1, <4>3 DEF TimeOf, Busy
      <3> QED
        BY <3>2, <3>3
    <2> QED
      BY <1>2, <2>5, <2>6, <2>7
  <1> QED
    BY <1>6, <1>7

LEMMA TimeStep ==
    ASSUME BaseInv, BaseInv', WholeInv, ClockInv, SeenInv, ~backupCase.standby, TimeInv, RepoTimeInv, BackupNext
    PROVE  TimeInv'
  <1>1. ContentInv /\ UNCHANGED backupCase /\ OptInv
    BY Steps DEF WholeInv, BaseInv
  <1>2. ASSUME NEW type, NEW delta, NEW resume, Start(type, delta, resume) PROVE TimeInv'
    BY <1>2, NoManifestTime DEF Start
  <1>3. ReplayWait => TimeInv'
    BY Zenon, <1>1, NoManifestTime DEF ReplayWait, OptInv
  <1>4. Complete \/ Kill => TimeInv'
    BY NoManifestTime DEF Complete, Kill
  <1> QED
    BY <1>1, <1>2, <1>3, <1>4, Steps, ClusterTime, BuildFileTime, BuildDoneTime, BuildIncrTime, ResumeTime, LaterTime,
       SaveFirstTime, JobTime, JobsDoneTime

-----------------------------------------------------------------------------
(* A backup from a standby *)

LEMMA OffCopied == ASSUME NEW f \in Files, ~m'.entry[f].on \/ kills' # 0 PROVE CopiedOf(f)'
  BY DEF CopiedOf

LEMMA EarlyCopied == ASSUME phase' \in {"idle", "replay", "build", "second"} PROVE StandbyInv'
  BY DEF StandbyInv, CopiedOf, Handled

LEMMA CopiedFrame ==
    ASSUME NEW f \in Files, CopiedOf(f), m'.entry[f] = m.entry[f], m'.prior = m.prior, kills' = kills, seen[f] \subseteq seen'[f],
           phase' \in {"resume", "save"} => phase \in {"resume", "save"},
           phase' = "copy" /\ f \in todo' => phase = "copy" /\ f \in todo,
           Handled(f)' => Handled(f)
    PROVE  CopiedOf(f)'
  <1>1. YoungIn(seen[f], m.entry[f].sum) => YoungIn(seen'[f], m.entry[f].sum)
    BY DEF YoungIn
  <1> QED
    BY Zenon, <1>1 DEF CopiedOf

LEMMA StandbyStep ==
    ASSUME BaseInv, WholeInv, SeenInv, backupCase.standby, StandbyInv, BackupNext
    PROVE  StandbyInv'
  <1>0. BackupTypeOK /\ ContentInv /\ ManifestInv /\ UNCHANGED backupCase /\ kills \in Nat
    BY Steps DEF BaseInv, WholeInv, BackupTypeOK
  <1>1. CASE ClusterNext
    <2>1. UNCHANGED <<phase, m, todo, skipped, kills>>
      BY <1>0, <1>1, ClusterSame
    <2> SUFFICES ASSUME NEW f \in Files PROVE CopiedOf(f)'
      BY DEF StandbyInv
    <2>2. seen[f] \subseteq seen'[f] /\ CopiedOf(f)
      BY <1>0, <1>1, ClusterFile DEF StandbyInv
    <2>3. Handled(f)' => Handled(f)
      BY <2>1 DEF Handled
    <2> QED
      BY <2>1, <2>2, <2>3, CopiedFrame
  <1>2. ASSUME NEW type, NEW delta, NEW resume, Start(type, delta, resume) PROVE StandbyInv'
    BY <1>2, EarlyCopied DEF Start
  <1>3. ReplayWait \/ BuildFile \/ BuildDone \/ Complete \/ Kill => StandbyInv'
    BY EarlyCopied DEF ReplayWait, BuildFile, BuildDone, Complete, Kill
  <1>4. CASE BuildIncr
    <2>1. phase = "second" /\ phase' = "resume"
      BY <1>4 DEF BuildIncr
    <2>2. m'.prior = opt.prior
      BY <1>4, BuildIncrDoes
    <2> SUFFICES ASSUME NEW f \in Files PROVE CopiedOf(f)'
      BY DEF StandbyInv
    <2>3. m.entry[f].sum = NoContent
      BY Zenon, <1>0, <2>1 DEF ManifestInv, EntryInv
    <2>4. m'.prior = 0 => ~Prior.entry[f].on
      BY Zenon, <2>2, EntryTypes DEF Prior
    <2>5. m'.prior = 0 => m'.entry[f].sum = NoContent
      BY <1>4, <2>3, <2>4, ReferenceEntry
    <2> QED
      BY <2>1, <2>5 DEF CopiedOf, Handled
  <1>5. CASE Resume
    <2>1. phase = "resume" /\ backups # <<>> /\ ~backups[Label].done /\ kills' = kills
      BY <1>5, ResumeDoes
    <2>2. Label \in DOMAIN backups
      BY <1>0, <2>1, LastType
    <2>3. kills # 0
      BY <2>1, <2>2 DEF BaseInv, OrderInv, Busy
    <2> QED
      BY <2>1, <2>3, OffCopied DEF StandbyInv
  <1>6. CASE ResumeNot \/ SavePeriodic \/ Stop \/ ArchiveCheck
    <2>1. UNCHANGED <<m, todo, skipped, kills, seen>>
      BY <1>6 DEF ResumeNot, SavePeriodic, Stop, ArchiveCheck, process
    <2>2. /\ phase' \in {"resume", "save"} => phase \in {"resume", "save"}
          /\ phase' = "copy" => phase = "copy"
          /\ phase' \in {"copy", "stop", "archive", "complete"} => phase \in {"copy", "stop", "archive", "complete"}
      BY <1>6 DEF ResumeNot, SavePeriodic, Stop, ArchiveCheck, process
    <2> SUFFICES ASSUME NEW f \in Files PROVE CopiedOf(f)'
      BY DEF StandbyInv
    <2>3. Handled(f)' => Handled(f)
      BY <2>1, <2>2 DEF Handled
    <2>4. CopiedOf(f)
      BY DEF StandbyInv
    <2> QED
      BY <2>1, <2>2, <2>3, <2>4, CopiedFrame
  <1>7. CASE SaveFirst
    <2>1. phase = "save" /\ phase' = "copy" /\ UNCHANGED <<m, kills>> /\ todo' = {f \in Files : InQueue(m.entry[f])}
      BY <1>7 DEF SaveFirst
    <2> SUFFICES ASSUME NEW f \in Files, m.entry[f].on, m.prior = 0, kills = 0 PROVE CopiedOf(f)'
      BY Zenon, <2>1 DEF StandbyInv, CopiedOf
    <2>2. m.entry[f].ref = 0
      BY Zenon, <1>0 DEF ManifestInv, EntryInv
    <2>3. f \in todo'
      BY <2>1, <2>2 DEF InQueue
    <2>4. m.entry[f].sum = NoContent
      BY Zenon, <2>1 DEF StandbyInv, CopiedOf
    <2> QED
      BY <2>1, <2>3, <2>4 DEF CopiedOf, Handled
  <1>8. ASSUME NEW f \in Files, Job(f) PROVE StandbyInv'
    <2>1. phase = "copy" /\ phase' = "copy" /\ f \in todo /\ todo' = todo \ {f} /\ UNCHANGED <<seen, kills>>
      BY Zenon, <1>8, JobDoes
    <2>2. PICK b \in StoredType : JobCopies(f, b) \/ JobSkips(f) \/ JobLeaves(f, b)
      BY Zenon, <1>8, JobDoes
    <2>3. m'.prior = m.prior /\ \A g \in Files : g # f => m'.entry[g] = m.entry[g]
      BY Zenon, <1>0, <2>2, CopiedManifest DEF JobSkips, JobLeaves
    <2>4. skipped' \in {skipped, skipped \cup {f}}
      BY <2>2 DEF JobCopies, JobSkips, JobLeaves
    <2> SUFFICES ASSUME NEW g \in Files PROVE CopiedOf(g)'
      BY DEF StandbyInv
    <2>5. CopiedOf(g)
      BY DEF StandbyInv
    <2>6. CASE g # f
      <3>1. Handled(g)' => Handled(g)
        BY <2>1, <2>4, <2>6 DEF Handled
      <3> QED
        BY Zenon, <2>1, <2>3, <2>5, <2>6, <3>1, CopiedFrame
    <2>7. CASE g = f
      <3>1. CASE JobCopies(f, b)
        <4>1. Source(f) # NoContent
          BY <3>1 DEF JobCopies
        <4>2. m'.entry[f].sum = Source(f)
          BY <1>0, <3>1, CopiedManifest
        <4>3. sb[f] \in Real /\ Source(f) = Limit(sb[f], m.entry[f].s)
          BY <1>0, <4>1, SourceReal
        <4>4. sb[f] \in seen[f]
          BY <2>1, <4>3, RealFacts DEF SeenInv
        <4>5. PICK s \in Nat : s = m.entry[f].s
          BY <1>0 DEF BackupTypeOK, ManifestType, EntryType
        <4>6. Prefix(Limit(sb[f], s), sb[f])
          BY Zenon, <4>3, LimitReal
        <4>7. YoungIn(seen[f], m'.entry[f].sum)
          BY ZenonT(30), <4>2, <4>3, <4>4, <4>5, <4>6 DEF YoungIn
        <4> QED
          BY <2>1, <2>7, <4>7 DEF CopiedOf
      <3>2. CASE JobSkips(f)
        <4>1. m' = m /\ f \in skipped'
          BY <3>2 DEF JobSkips
        <4> QED
          BY <2>1, <2>7, <4>1 DEF CopiedOf, Handled
      <3>3. CASE JobLeaves(f, b)
        <4>1. m' = m /\ m.entry[f].sum # NoContent
          BY <3>3 DEF JobLeaves
        <4> QED
          BY Zenon, <2>1, <2>5, <2>7, <4>1 DEF CopiedOf
      <3> QED
        BY <2>2, <3>1, <3>2, <3>3
    <2> QED
      BY <2>6, <2>7
  <1>9. CASE JobsDone
    <2>1. /\ phase = "copy" /\ phase' = "stop" /\ UNCHANGED <<seen, todo, skipped, kills>> /\ m'.prior = m.prior
          /\ \A f \in Files : m'.entry[f] = IF f \in skipped THEN NoEntry ELSE m.entry[f]
      BY <1>9, JobsDoneDoes
    <2> SUFFICES ASSUME NEW f \in Files, f \notin skipped PROVE CopiedOf(f)'
      BY <2>1, OffCopied, EntryTypes DEF StandbyInv
    <2>2. m'.entry[f] = m.entry[f] /\ CopiedOf(f)
      BY <2>1 DEF StandbyInv
    <2>3. Handled(f)' => Handled(f)
      BY <2>1 DEF Handled
    <2> QED
      BY <2>1, <2>2, <2>3, CopiedFrame
  <1> QED
    BY <1>1, <1>2, <1>3, <1>4, <1>5, <1>6, <1>7, <1>8, <1>9, Steps

-----------------------------------------------------------------------------
(* The third layer holds *)

LEMMA InitFresh == ASSUME BackupInit PROVE FreshInv /\ PrimaryInv /\ AwayInv
  <1>1. /\ now = 1 /\ phase = "idle" /\ m = NoManifest /\ copyStart = 0 /\ backups = <<>> /\ kept = {}
        /\ pg = [f \in Files |-> File(0, 1, 0)]
    BY DEF BackupInit
  <1>2. \A f \in Files : pg[f].t = 0
    BY <1>1, FileTypes
  <1>3. ClockInv /\ SeenInv /\ KeptInv
    <2>1. ClockInv
      BY <1>1, <1>2 DEF ClockInv, Busy
    <2>2. SeenInv /\ KeptInv
      BY <1>1 DEF SeenInv, KeptInv, Busy
    <2> QED
      BY <2>1, <2>2
  <1>4. TimeInv
    BY Zenon, <1>1, EntryTypes DEF TimeInv, TimeOf
  <1>5. RepoTimeInv
    BY <1>1 DEF RepoTimeInv
  <1>6. StandbyInv
    BY <1>1 DEF StandbyInv, CopiedOf, Handled
  <1> QED
    BY <1>3, <1>4, <1>5, <1>6 DEF FreshInv, PrimaryInv, AwayInv

LEMMA SameFresh ==
    ASSUME FreshInv, PrimaryInv, AwayInv, UNCHANGED backupVars PROVE FreshInv' /\ PrimaryInv' /\ AwayInv'
  <1>1. UNCHANGED <<backupCase, now, pg, sb, backups, phase, opt, m, built, copyStart, todo, skipped, seen, kept, mixed, kills>>
    BY DEF backupVars, cluster, process
  <1>2. FreshInv'
    BY Zenon, <1>1 DEF FreshInv, ClockInv, SeenInv, KeptInv, Listed
  <1>3. TimeInv => TimeInv'
    <2>1. ASSUME NEW f \in Files, TimeOf(f) PROVE TimeOf(f)'
      <3>1. Checked(f)' = Checked(f)
        BY <1>1 DEF Checked, Handled
      <3> QED
        BY Zenon, <1>1, <2>1, <3>1 DEF TimeOf
    <2> QED
      BY <2>1 DEF TimeInv
  <1>4. RepoTimeInv => RepoTimeInv'
    BY <1>1 DEF RepoTimeInv, ManDated, Trusted
  <1>5. StandbyInv => StandbyInv'
    BY <1>1 DEF StandbyInv, CopiedOf, Handled
  <1> QED
    BY <1>1, <1>2, <1>3, <1>4, <1>5 DEF PrimaryInv, AwayInv

LEMMA StepFresh ==
    ASSUME BaseInv, BaseInv', WholeInv, FreshInv, PrimaryInv, AwayInv, BackupNext PROVE FreshInv' /\ PrimaryInv' /\ AwayInv'
  <1>1. UNCHANGED backupCase /\ ContentInv /\ ClockInv /\ SeenInv /\ KeptInv
    BY Steps DEF WholeInv, FreshInv
  <1>2. FreshInv'
    BY <1>1, ClockStep, SeenStep, KeptStep DEF FreshInv
  <1>3. PrimaryInv'
    BY <1>1, TimeStep, RepoTimeStep DEF PrimaryInv
  <1>4. AwayInv'
    BY <1>1, StandbyStep DEF AwayInv
  <1> QED
    BY <1>2, <1>3, <1>4

\* What the manifests say of the files of the cluster (FreshInv, PrimaryInv and
\* AwayInv) holds in every state.
THEOREM BackupFresh == BackupSpec => [](FreshInv /\ PrimaryInv /\ AwayInv)
  <1>1. BackupInit => FreshInv /\ PrimaryInv /\ AwayInv
    BY InitFresh
  <1>2. BaseInv /\ BaseInv' /\ WholeInv /\ (FreshInv /\ PrimaryInv /\ AwayInv) /\ [BackupNext]_backupVars
        => (FreshInv /\ PrimaryInv /\ AwayInv)'
    BY StepFresh, SameFresh
  <1> QED
    BY <1>1, <1>2, BackupInvariant, BackupWhole, PTL DEF BackupSpec

\* A file that exists when the backup starts and is never dropped is in the
\* manifest when the backup completes, however long manifestNewBuild() and the
\* copying take and whatever comes and goes meanwhile.
THEOREM BackupMissesNothing == BackupSpec => []NothingMissing
  <1>1. FreshInv => NothingMissing
    BY DEF FreshInv, KeptInv, NothingMissing, Busy
  <1> QED
    BY <1>1, BackupFresh, PTL

\* A backup of the primary that completes has no content older than its start,
\* copied, resumed or left in a prior backup, unless a backup without delta
\* resumed one with delta; a full backup from a standby that had nothing to
\* resume has none either.  It is the wait for the next second in backupTime()
\* and the comparison in backupFile() that make it so.
THEOREM CompletesFresh == BackupSpec => []Fresh
  <1>1. BaseInv /\ WholeInv /\ FreshInv /\ PrimaryInv /\ AwayInv => Fresh
    <2> SUFFICES ASSUME BaseInv, WholeInv, PrimaryInv, AwayInv, phase = "complete",
                        IF backupCase.standby THEN m.prior = 0 /\ kills = 0 ELSE ~mixed,
                        NEW f \in Listed(m)
                 PROVE  \E c \in seen[f] : Prefix(m.entry[f].sum, c)
      BY DEF Fresh, Young
    <2>1. f \in Files /\ m.entry[f].on /\ todo = {} /\ EntryInv(f)
      BY DEF Listed, BaseInv, OptInv, WholeInv, ManifestInv
    <2>2. Handled(f)
      BY <2>1 DEF Handled, EntryInv
    <2>3. m.entry[f].sum # NoContent
      BY Zenon, <2>1, <2>2 DEF EntryInv
    <2>4. CASE backupCase.standby
      BY Zenon, <2>1, <2>2, <2>4 DEF AwayInv, StandbyInv, CopiedOf, YoungIn
    <2>5. CASE ~backupCase.standby
      BY Zenon, <2>1, <2>2, <2>3, <2>5 DEF PrimaryInv, TimeInv, TimeOf, Checked, YoungIn, Busy
    <2> QED
      BY <2>4, <2>5
  <1> QED
    BY <1>1, BackupInvariant, BackupWhole, BackupFresh, PTL
=============================================================================
