---------------------------- MODULE BackupProofs ----------------------------
(***************************************************************************)
(* Proofs about Backup, for any number of files, writes, backups and kills:*)
(* what a completed backup restores is what its manifest describes         *)
(* (CompleteWhole) and nothing changes it afterwards (DoneStays).          *)
(*                                                                         *)
(* The invariant has two layers.  BaseInv is the order of the backups,     *)
(* only the last of which may be incomplete, and the place of the running  *)
(* command.  WholeInv is what the entries of a manifest say of the files   *)
(* in the repository: a reference leads to a completed backup that has the *)
(* file, and an entry whose job is done has the checksum of its copy.  A   *)
(* third layer, about the files of the cluster, is in FreshProofs.         *)
(***************************************************************************)
EXTENDS Backup, TLAPS

\* The command has a backup of its own, the last one
Busy == {"save", "copy", "stop", "archive", "complete"}

\* Contents a file of the cluster can have: the first versions have one byte
Real == {c \in ContentType : (c.s = 0 => c.v = 0) /\ (c.v = 0 => c.s \in {0, 1})}

-----------------------------------------------------------------------------
(* The order of the backups and the running command *)

OrderInv ==
    /\ \A i \in DOMAIN backups : i < Label => backups[i].done
    /\ phase \in Busy => backups # <<>> /\ ~backups[Label].done
    /\ kills = 0 /\ phase \notin Busy => \A i \in DOMAIN backups : backups[i].done

OptInv ==
    /\ phase # "idle" /\ opt.prior # 0 => opt.prior \in DOMAIN backups /\ backups[opt.prior].done
    /\ phase # "idle" => opt.seg <= seg
    /\ phase = "archive" => opt.seg <= opt.stop
    /\ phase = "complete" => opt.stop <= archived
    /\ phase # "copy" => todo = {}
    /\ phase \in {"idle", "replay"} => m = NoManifest
    /\ phase \in {"resume"} \cup Busy => m.prior = opt.prior /\ m.delta = opt.delta
    /\ phase = "replay" => built = 0
    /\ phase \notin {"idle", "replay", "build"} => built = Len(FileSeq)

BaseInv == BackupTypeOK /\ OrderInv /\ OptInv

-----------------------------------------------------------------------------
(* Manifests and the files in the repository *)

\* Contents of the files of the cluster
ContentInv ==
    \A f \in Files :
        /\ pg[f].on => pg[f].c \in Real
        /\ ~pg[f].on => pg[f].c = NoContent
        /\ sb[f] \in Real \cup {NoContent}

\* A checksum is one of a content with the size of the entry
Sized(e) == e.on /\ e.sum # NoContent => e.sum \in Real /\ e.sum.s = e.s

\* A reference leads to a completed backup that has the file
Held(bs, f, e) ==
    e.on /\ e.ref # 0 =>
        /\ e.ref \in DOMAIN bs /\ bs[e.ref].done
        /\ e.sum # NoContent /\ bs[e.ref].file[f] = e.sum

\* A job has been done for the file, or none is needed
Handled(f) == phase \in {"copy", "stop", "archive", "complete"} /\ f \notin todo \cup skipped

EntryInv(f) ==
    LET e == m.entry[f]
    IN  /\ Sized(e) /\ Held(backups, f, e)
        /\ phase \in {"build", "second"} => e.ref = 0 /\ e.sum = NoContent
        /\ m.prior = 0 => e.ref = 0
        /\ phase = "copy" /\ f \in todo => e.on /\ (e.ref # 0 => opt.delta /\ e.s # 0)
        /\ e.on /\ Handled(f) => e.sum # NoContent /\ (e.ref = 0 => backups[Label].file[f] = e.sum)
        /\ phase \in {"stop", "archive", "complete"} /\ f \in skipped => ~e.on

ManifestInv == \A f \in Files : EntryInv(f)

\* What a manifest says, and what a completed backup holds
ManSized(man) == \A f \in Files : Sized(man.entry[f])
DoneWhole(bs, b) ==
    \A f \in Files :
        LET e == b.man.entry[f]
        IN  /\ Held(bs, f, e)
            /\ e.on => e.sum # NoContent /\ (e.ref = 0 => b.file[f] = e.sum)

StoredInv ==
    \A i \in DOMAIN backups :
        /\ ManSized(backups[i].man)
        /\ backups[i].done => backups[i].wal[2] <= archived /\ DoneWhole(backups, backups[i])

WholeInv == ContentInv /\ ManifestInv /\ StoredInv

-----------------------------------------------------------------------------
(* Types *)

LEMMA Constants ==
    /\ MaxTime \in Nat \ {0} /\ Far \in Nat /\ Far > MaxTime /\ FileSeq \in Seq(Files) /\ Len(FileSeq) \in Nat
    /\ Written \subseteq Files
  BY BackupAssumption DEF Far

LEMMA ContentTypes ==
    /\ NoContent \in ContentType /\ Empty \in ContentType /\ Torn \in ContentType
    /\ \A v, s \in Nat : Content(v, s) \in ContentType
    /\ \A c \in ContentType, s \in Nat : Limit(c, s) \in ContentType
  <1>1. NoContent \in ContentType /\ Empty \in ContentType /\ Torn \in ContentType
    BY DEF NoContent, Empty, Torn, ContentType
  <1>2. ASSUME NEW v \in Nat, NEW s \in Nat PROVE Content(v, s) \in ContentType
    BY <1>1 DEF Content, ContentType
  <1>3. ASSUME NEW c \in ContentType, NEW s \in Nat PROVE Limit(c, s) \in ContentType
    BY <1>2 DEF Limit, ContentType
  <1> QED
    BY <1>1, <1>2, <1>3

LEMMA EntryTypes ==
    /\ NoEntry \in EntryType /\ ~NoEntry.on /\ NoEntry.sum = NoContent /\ NoEntry.ref = 0
    /\ NoManifest \in ManifestType /\ ~NoManifest.delta /\ NoManifest.prior = 0
    /\ NoManifest.entry = [f \in Files |-> NoEntry]
    /\ NoOpt \in OptType /\ NoFile \in FileType /\ ~NoFile.on /\ NoFile.c = NoContent
  BY ContentTypes DEF NoEntry, EntryType, NoManifest, ManifestType, NoOpt, OptType, NoFile, FileType, BackupTypes

LEMMA FileTypes == ASSUME NEW v \in Nat, NEW s \in Nat, NEW t \in Nat
                   PROVE  File(v, s, t) \in FileType /\ File(v, s, t).on /\ File(v, s, t).c = Content(v, s) /\ File(v, s, t).t = t
  BY ContentTypes DEF File, FileType

\* The last backup is replaced
LEMMA Replaced ==
    ASSUME NEW S, NEW s \in Seq(S), NEW i \in DOMAIN s, NEW x \in S
    PROVE  LET r == [s EXCEPT ![i] = x]
           IN  r \in Seq(S) /\ Len(r) = Len(s) /\ DOMAIN r = DOMAIN s /\ \A j \in DOMAIN s : r[j] = IF j = i THEN x ELSE s[j]
  OBVIOUS

LEMMA SourceType == BackupTypeOK => \A f \in Files : Source(f) \in ContentType
  <1> SUFFICES ASSUME BackupTypeOK, NEW f \in Files PROVE Source(f) \in ContentType
    OBVIOUS
  <1>1. sb[f] \in ContentType /\ pg[f].c \in ContentType /\ m.entry[f].s \in Nat
    BY DEF BackupTypeOK, FileType, ManifestType, EntryType
  <1> QED
    BY <1>1, ContentTypes DEF Source

LEMMA EmptyBackup ==
    /\ [man |-> NoManifest, file |-> [f \in Files |-> NoContent], done |-> FALSE, wal |-> <<0, 0>>] \in StoredType
    /\ <<0, 0>> \in Nat \X Nat
  BY ContentTypes, EntryTypes DEF StoredType

\* The cluster, the clock and the archive
ClusterNext ==
    \/ BackupTick \/ Archive
    \/ \E f \in Written : Write(f) \/ Drop(f)
    \/ \E f \in Files : Touch(f) \/ Replay(f)

LEMMA ClusterSame ==
    ASSUME BackupTypeOK, ClusterNext, UNCHANGED backupCase
    PROVE  /\ UNCHANGED <<seg, backups, phase, opt, m, built, copyStart, todo, skipped, mixed, kills>>
           /\ archived' \in Nat /\ archived <= archived' /\ now' \in 1 .. MaxTime /\ now <= now'
           /\ BackupTypeOK'
  <1>1. CASE BackupTick \/ Archive
    <2>1. UNCHANGED <<pg, sb, writes, seg, backups, phase, opt, m, built, copyStart, todo, skipped, seen, kept, mixed, kills>>
      BY <1>1 DEF BackupTick, Archive, cluster, process
    <2>2. backupCase.until \in 0 .. MaxTime
      BY BackupAssumption DEF BackupTypeOK
    <2>3. archived' \in Nat /\ archived <= archived' /\ now' \in 1 .. MaxTime /\ now <= now'
      <3>1. archived \in Nat /\ seg \in Nat /\ now \in 1 .. MaxTime
        BY DEF BackupTypeOK
      <3>2. (now' = now \/ (now < backupCase.until /\ now' = now + 1)) /\ (archived' = archived \/ archived' = archived + 1)
        BY <1>1 DEF BackupTick, Archive
      <3>3. archived' \in Nat /\ archived <= archived'
        BY <3>1, <3>2
      <3>4. now' \in 1 .. MaxTime /\ now <= now'
        BY <2>2, <3>1, <3>2, Constants
      <3> QED
        BY <3>3, <3>4
    <2> QED
      BY <2>1, <2>3 DEF BackupTypeOK
  <1>2. ASSUME NEW f \in Files, Write(f) \/ Drop(f) \/ Touch(f) \/ Replay(f)
        PROVE  /\ UNCHANGED <<seg, backups, phase, opt, m, built, copyStart, todo, skipped, mixed, kills>>
               /\ UNCHANGED <<archived, now>> /\ BackupTypeOK'
    <2>1. UNCHANGED <<seg, backups, phase, opt, m, built, copyStart, todo, skipped, mixed, kills, archived, now>>
      BY <1>2 DEF Write, Drop, Touch, Replay, process
    <2>2. writes' \in Nat /\ kept' \subseteq Files
      BY <1>2 DEF Write, Drop, Touch, Replay, BackupTypeOK
    <2>3. pg' \in [Files -> FileType] /\ sb' \in [Files -> ContentType] /\ seen' \in [Files -> SUBSET ContentType]
      <3>1. CASE Write(f)
        <4>1. PICK s \in backupCase.sizes :
                 /\ pg' = [pg EXCEPT ![f] = File(writes + 1, s, now)]
                 /\ seen' = IF phase = "idle" THEN seen ELSE [seen EXCEPT ![f] = @ \cup {Content(writes + 1, s)}]
          BY Zenon, <3>1 DEF Write
        <4>2. s \in Nat /\ writes + 1 \in Nat /\ now \in Nat
          BY BackupAssumption DEF BackupTypeOK
        <4>3. File(writes + 1, s, now) \in FileType /\ Content(writes + 1, s) \in ContentType
          BY <4>2, FileTypes, ContentTypes
        <4>4. sb' = sb
          BY <3>1 DEF Write
        <4>5. pg' \in [Files -> FileType]
          BY <4>1, <4>3 DEF BackupTypeOK
        <4>6. seen' \in [Files -> SUBSET ContentType]
          BY <4>1, <4>3 DEF BackupTypeOK
        <4> QED
          BY <4>4, <4>5, <4>6 DEF BackupTypeOK
      <3>2. CASE Drop(f)
        BY <3>2, EntryTypes DEF Drop, BackupTypeOK
      <3>3. CASE Touch(f)
        <4>1. pg[f] \in FileType
          BY DEF BackupTypeOK
        <4>2. [pg[f] EXCEPT !.t = Far] \in FileType
          BY <4>1, Constants DEF FileType
        <4> QED
          BY <3>3, <4>2 DEF Touch, BackupTypeOK
      <3>4. CASE Replay(f)
        BY <3>4 DEF Replay, BackupTypeOK, FileType
      <3> QED
        BY <1>2, <3>1, <3>2, <3>3, <3>4
    <2> QED
      BY <2>1, <2>2, <2>3 DEF BackupTypeOK
  <1>3. archived \in Nat /\ now \in 1 .. MaxTime
    BY DEF BackupTypeOK
  <1> QED
    BY <1>1, <1>2, <1>3, Constants DEF ClusterNext

LEMMA ClusterBase == ASSUME BaseInv, ClusterNext, UNCHANGED backupCase PROVE BaseInv'
  <1>0. BackupTypeOK /\ OrderInv /\ OptInv
    BY DEF BaseInv
  <1>1. /\ UNCHANGED <<seg, backups, phase, opt, m, built, copyStart, todo, skipped, mixed, kills>>
        /\ archived' \in Nat /\ archived <= archived' /\ BackupTypeOK'
    BY <1>0, ClusterSame
  <1>2. OrderInv'
    BY <1>0, <1>1 DEF OrderInv, Label
  <1>3. OptInv'
    <2>1. archived \in Nat /\ opt.stop \in Nat
      BY <1>0 DEF BackupTypeOK, OptType
    <2>2. opt.stop <= archived => opt.stop <= archived'
      BY <1>1, <2>1
    <2> QED
      BY <1>0, <1>1, <2>2 DEF OptInv
  <1> QED
    BY <1>1, <1>2, <1>3 DEF BaseInv

\* From the start of the command to the listed files
LEMMA StartBase ==
    ASSUME BaseInv, UNCHANGED backupCase, NEW type \in BackupTypes, NEW delta \in BOOLEAN, NEW resume \in BOOLEAN,
           Start(type, delta, resume)
    PROVE  BaseInv'
  <1>0. BackupTypeOK /\ OrderInv /\ OptInv
    BY DEF BaseInv
  <1>1. /\ UNCHANGED <<now, pg, sb, writes, seg, archived, backups, mixed, kills>>
        /\ phase = "idle" /\ phase' \in {"replay", "build"}
        /\ m' = NoManifest /\ built' = 0 /\ copyStart' = 0 /\ todo' = {} /\ skipped' = {}
        /\ seen' = [f \in Files |-> {pg[f].c} \ {NoContent}] /\ kept' = {f \in Files : pg[f].on}
    BY DEF Start, cluster
  <1>2. PICK prior \in 0 .. Len(backups) :
          /\ PriorBackup(type, prior)
          /\ opt' = [type |-> IF prior = 0 THEN "full" ELSE type, delta |-> delta,
                     resume |-> resume, prior |-> prior, seg |-> seg, stop |-> 0]
    BY DEF Start
  <1>3. prior # 0 => prior \in DOMAIN backups /\ backups[prior].done
    BY <1>2 DEF PriorBackup
  <1>4. opt' \in OptType /\ opt'.prior = prior /\ opt'.seg = seg
    BY <1>0, <1>2 DEF OptType, BackupTypeOK, BackupTypes
  <1>5. BackupTypeOK'
    <2>1. seen' \in [Files -> SUBSET ContentType]
      BY <1>0, <1>1 DEF BackupTypeOK, FileType
    <2>2. built' \in 0 .. Len(FileSeq) /\ copyStart' \in Nat /\ m' \in ManifestType /\ phase' \in Phase
      BY <1>1, Constants, EntryTypes DEF Phase
    <2> QED
      BY <1>0, <1>1, <1>4, <2>1, <2>2 DEF BackupTypeOK
  <1>6. OrderInv'
    BY <1>0, <1>1 DEF OrderInv, Label, Busy
  <1>7. OptInv'
    <2>1. seg \in Nat
      BY <1>0 DEF BackupTypeOK
    <2> QED
      BY <1>1, <1>3, <1>4, <2>1 DEF OptInv, Busy
  <1> QED
    BY <1>5, <1>6, <1>7 DEF BaseInv

LEMMA BuildBase ==
    ASSUME BaseInv, UNCHANGED backupCase, ReplayWait \/ BuildFile \/ BuildDone
    PROVE  BaseInv'
  <1>0. BackupTypeOK /\ OrderInv /\ OptInv
    BY DEF BaseInv
  <1>1. UNCHANGED <<now, pg, sb, writes, seg, archived, backups, opt, todo, skipped, seen, kept, mixed, kills>>
    BY DEF ReplayWait, BuildFile, BuildDone, cluster
  <1>2. /\ phase \in {"replay", "build"} /\ phase' \in {"build", "second"}
        /\ phase' = "second" => phase = "build" /\ built' = Len(FileSeq)
    BY DEF ReplayWait, BuildFile, BuildDone
  <1>3. m' \in ManifestType /\ built' \in 0 .. Len(FileSeq) /\ copyStart' \in Nat
    <2>1. CASE BuildFile
      <3>1. built + 1 \in 1 .. Len(FileSeq) /\ built' = built + 1
        BY <1>0, <2>1, Constants DEF BuildFile, BackupTypeOK
      <3>2. PICK f \in Files : f = FileSeq[built + 1]
        BY <3>1, Constants
      <3>3. m' = IF pg[f].on
                 THEN [m EXCEPT !.entry[f] = [NoEntry EXCEPT !.on = TRUE, !.t = pg[f].t, !.s = pg[f].c.s]]
                 ELSE m
        BY <2>1, <3>2 DEF BuildFile
      <3>4. pg[f].t \in Nat /\ pg[f].c.s \in Nat
        BY <1>0 DEF BackupTypeOK, FileType, ContentType
      <3>5. [NoEntry EXCEPT !.on = TRUE, !.t = pg[f].t, !.s = pg[f].c.s] \in EntryType
        BY Zenon, <3>4, EntryTypes DEF EntryType
      <3>6. m' \in ManifestType
        BY Zenon, <1>0, <3>3, <3>5 DEF BackupTypeOK, ManifestType
      <3> QED
        BY <1>0, <2>1, <3>1, <3>6, Constants DEF BuildFile, BackupTypeOK
    <2>2. CASE ReplayWait \/ BuildDone
      BY <1>0, <2>2, Constants DEF ReplayWait, BuildDone, BackupTypeOK
    <2> QED
      BY <2>1, <2>2
  <1>4. BackupTypeOK'
    BY <1>0, <1>1, <1>2, <1>3 DEF BackupTypeOK, Phase
  <1>5. OrderInv'
    BY <1>0, <1>1, <1>2 DEF OrderInv, Label, Busy
  <1>6. OptInv'
    BY <1>0, <1>1, <1>2 DEF OptInv, Busy
  <1> QED
    BY <1>4, <1>5, <1>6 DEF BaseInv

-----------------------------------------------------------------------------
\* What a step does to the last backup
LEMMA LastReplaced ==
    ASSUME BackupTypeOK, backups # <<>>, NEW b \in StoredType, backups' = [backups EXCEPT ![Label] = b]
    PROVE  /\ Label \in DOMAIN backups /\ Label' = Label /\ backups' \in Seq(StoredType) /\ DOMAIN backups' = DOMAIN backups
           /\ \A i \in DOMAIN backups : backups'[i] = IF i = Label THEN b ELSE backups[i]
  <1>1. backups \in Seq(StoredType) /\ Label \in DOMAIN backups
    BY DEF BackupTypeOK, Label
  <1> QED
    BY <1>1, Replaced DEF Label

LEMMA LastType == BackupTypeOK /\ backups # <<>> => Label \in DOMAIN backups /\ Label \in Nat \ {0} /\ backups[Label] \in StoredType
  BY DEF BackupTypeOK, Label

\* The manifest of the prior backup
Prior == IF opt.prior = 0 THEN NoManifest ELSE backups[opt.prior].man

LEMMA PriorType == BaseInv /\ phase # "idle" => Prior \in ManifestType
  <1> SUFFICES ASSUME BaseInv, phase # "idle" PROVE Prior \in ManifestType
    OBVIOUS
  <1>1. CASE opt.prior = 0
    BY <1>1, EntryTypes DEF Prior
  <1>2. CASE opt.prior # 0
    <2>1. opt.prior \in DOMAIN backups /\ backups \in Seq(StoredType)
      BY <1>2 DEF BaseInv, BackupTypeOK, OptInv
    <2>2. backups[opt.prior] \in StoredType
      BY <2>1
    <2> QED
      BY <1>2, <2>2 DEF Prior, StoredType
  <1> QED
    BY <1>1, <1>2

LEMMA BuildIncrDoes ==
    ASSUME BaseInv, BuildIncr
    PROVE  /\ phase = "second" /\ phase' = "resume" /\ now > copyStart
           /\ UNCHANGED <<now, pg, sb, writes, seg, archived, backups, built, copyStart, todo, skipped, seen, kept, mixed, kills>>
           /\ \E delta \in BOOLEAN :
                /\ opt' = [opt EXCEPT !.delta = delta] /\ (~delta => ~FutureTime)
                /\ m' = [type |-> opt.type, prior |-> opt.prior, delta |-> delta, entry |-> Reference(delta, Prior, opt.prior)]
                /\ m' \in ManifestType /\ opt' \in OptType /\ m'.prior = opt'.prior /\ m'.delta = opt'.delta
                /\ opt'.prior = opt.prior /\ opt'.seg = opt.seg /\ opt'.delta = delta
                /\ m'.entry = Reference(delta, Prior, opt.prior)
  <1>0. BackupTypeOK /\ OptInv
    BY DEF BaseInv
  <1>1. /\ phase = "second" /\ phase' = "resume" /\ now > copyStart
        /\ UNCHANGED <<now, pg, sb, writes, seg, archived, backups, built, copyStart, todo, skipped, seen, kept, mixed, kills>>
    BY DEF BuildIncr, Slept, cluster
  <1>2. PICK delta \in BOOLEAN :
          /\ opt' = [opt EXCEPT !.delta = delta] /\ (~delta => ~FutureTime)
          /\ m' = [type |-> opt.type, prior |-> opt.prior, delta |-> delta, entry |-> Reference(delta, Prior, opt.prior)]
    <2>1. (opt.delta \/ FutureTime \/ (opt.prior # 0 /\ Anomaly(Prior))) \in BOOLEAN
      BY <1>0 DEF BackupTypeOK, OptType, FutureTime, Anomaly
    <2> QED
      BY Zenon, <2>1 DEF BuildIncr, Prior
  <1>3. \A f \in Files : Reference(delta, Prior, opt.prior)[f] \in EntryType
    <2>1. ASSUME NEW f \in Files PROVE Reference(delta, Prior, opt.prior)[f] \in EntryType
      <3>1. m.entry[f] \in EntryType /\ Prior.entry[f] \in EntryType /\ opt.prior \in Nat
        BY <1>0, <1>1, PriorType DEF BackupTypeOK, ManifestType, OptType
      <3> QED
        BY Zenon, <3>1 DEF Reference, EntryType
    <2> QED
      BY <2>1
  <1>4. Reference(delta, Prior, opt.prior) \in [Files -> EntryType]
    BY Zenon, <1>3 DEF Reference
  <1>5. m' \in ManifestType /\ opt' \in OptType
    BY Zenon, <1>0, <1>2, <1>4 DEF BackupTypeOK, ManifestType, OptType
  <1>6. /\ m'.prior = opt.prior /\ m'.delta = delta /\ m'.entry = Reference(delta, Prior, opt.prior)
        /\ opt'.prior = opt.prior /\ opt'.seg = opt.seg /\ opt'.delta = delta
    BY <1>0, <1>2 DEF BackupTypeOK, OptType
  <1> QED
    BY <1>1, <1>2, <1>5, <1>6

LEMMA BuildIncrBase == ASSUME BaseInv, UNCHANGED backupCase, BuildIncr PROVE BaseInv'
  <1>0. BackupTypeOK /\ OrderInv /\ OptInv
    BY DEF BaseInv
  <1>1. /\ phase = "second" /\ phase' = "resume"
        /\ UNCHANGED <<now, pg, sb, writes, seg, archived, backups, built, copyStart, todo, skipped, seen, kept, mixed, kills>>
        /\ m' \in ManifestType /\ opt' \in OptType /\ m'.prior = opt'.prior /\ m'.delta = opt'.delta
        /\ opt'.prior = opt.prior /\ opt'.seg = opt.seg
    BY BuildIncrDoes
  <1>2. BackupTypeOK'
    BY <1>0, <1>1 DEF BackupTypeOK, Phase
  <1>3. OrderInv'
    BY <1>0, <1>1 DEF OrderInv, Label, Busy
  <1>4. OptInv'
    BY <1>0, <1>1 DEF OptInv, Busy
  <1> QED
    BY <1>2, <1>3, <1>4 DEF BaseInv

\* The file of a backup that is resumed, and the entry it gives
ResumedFile(f) == IF f \in Resumed(backups[Label]) THEN backups[Label].file[f] ELSE NoContent
ResumedEntry(f) == IF f \in Resumed(backups[Label]) THEN [m.entry[f] EXCEPT !.sum = backups[Label].man.entry[f].sum]
                   ELSE m.entry[f]

LEMMA ResumeDoes ==
    ASSUME BaseInv, Resume
    PROVE  /\ phase = "resume" /\ phase' = "save" /\ backups # <<>> /\ ~backups[Label].done
           /\ UNCHANGED <<now, pg, sb, writes, seg, archived, opt, built, copyStart, todo, skipped, seen, kept, kills>>
           /\ mixed' = (mixed \/ (backups[Label].man.delta /\ ~opt.delta)) /\ mixed' \in BOOLEAN
           /\ \E b \in StoredType :
                /\ backups' = [backups EXCEPT ![Label] = b]
                /\ b.file = [f \in Files |-> ResumedFile(f)]
                /\ b.man = backups[Label].man /\ b.done = backups[Label].done
           /\ m' \in ManifestType /\ m'.entry = [f \in Files |-> ResumedEntry(f)]
           /\ m'.prior = m.prior /\ m'.delta = m.delta
  <1>0. BackupTypeOK /\ OptInv
    BY DEF BaseInv
  <1>1. /\ phase = "resume" /\ phase' = "save" /\ backups # <<>> /\ ~backups[Label].done
        /\ UNCHANGED <<now, pg, sb, writes, seg, archived, opt, built, copyStart, todo, skipped, seen, kept, kills>>
        /\ mixed' = (mixed \/ (backups[Label].man.delta /\ ~opt.delta))
    BY DEF Resume, CanResume, cluster
  <1>2. backups[Label] \in StoredType
    BY <1>0, <1>1, LastType
  <1>3. mixed' \in BOOLEAN
    BY <1>0, <1>1, <1>2 DEF BackupTypeOK, OptType, StoredType, ManifestType
  <1>4. /\ backups' = [backups EXCEPT ![Label].file = [f \in Files |-> ResumedFile(f)]]
        /\ m' = [m EXCEPT !.entry = [f \in Files |-> ResumedEntry(f)]]
    BY DEF Resume, ResumedFile, ResumedEntry
  <1> DEFINE b == [backups[Label] EXCEPT !.file = [f \in Files |-> ResumedFile(f)]]
  <1>5. backups' = [backups EXCEPT ![Label] = b]
    BY <1>4
  <1>6. [f \in Files |-> ResumedFile(f)] \in [Files -> ContentType]
    <2>1. \A f \in Files : ResumedFile(f) \in ContentType
      BY <1>2, ContentTypes DEF ResumedFile, StoredType
    <2> QED
      BY <2>1
  <1>7. /\ b \in StoredType /\ b.file = [f \in Files |-> ResumedFile(f)]
        /\ b.man = backups[Label].man /\ b.done = backups[Label].done
    BY <1>2, <1>6 DEF StoredType
  <1>8. [f \in Files |-> ResumedEntry(f)] \in [Files -> EntryType]
    <2>1. \A f \in Files : m.entry[f] \in EntryType /\ backups[Label].man.entry[f].sum \in ContentType
      BY Zenon, <1>0, <1>2 DEF BackupTypeOK, ManifestType, StoredType, EntryType
    <2>2. \A f \in Files : ResumedEntry(f) \in EntryType
      BY <2>1 DEF ResumedEntry, EntryType
    <2> QED
      BY <2>2
  <1>9. /\ m' \in ManifestType /\ m'.entry = [f \in Files |-> ResumedEntry(f)]
        /\ m'.prior = m.prior /\ m'.delta = m.delta
    BY <1>0, <1>4, <1>8 DEF BackupTypeOK, ManifestType
  <1> HIDE DEF b
  <1> QED
    BY Zenon, <1>1, <1>3, <1>5, <1>7, <1>9

LEMMA ResumeBase == ASSUME BaseInv, UNCHANGED backupCase, Resume PROVE BaseInv'
  <1>0. BackupTypeOK /\ OrderInv /\ OptInv
    BY DEF BaseInv
  <1>1. /\ phase = "resume" /\ phase' = "save" /\ backups # <<>> /\ ~backups[Label].done
        /\ UNCHANGED <<now, pg, sb, writes, seg, archived, opt, built, copyStart, todo, skipped, seen, kept, kills>>
        /\ mixed' \in BOOLEAN
        /\ m' \in ManifestType /\ m'.prior = m.prior /\ m'.delta = m.delta
    BY ResumeDoes
  <1>2. PICK b \in StoredType : backups' = [backups EXCEPT ![Label] = b] /\ b.done = backups[Label].done
    BY Zenon, ResumeDoes
  <1>3. /\ Label \in DOMAIN backups /\ Label' = Label /\ backups' \in Seq(StoredType) /\ DOMAIN backups' = DOMAIN backups
        /\ \A i \in DOMAIN backups : backups'[i] = IF i = Label THEN b ELSE backups[i]
    BY Zenon, <1>0, <1>1, <1>2, LastReplaced
  <1>4. BackupTypeOK'
    BY <1>0, <1>1, <1>3 DEF BackupTypeOK, Phase
  <1>5. OrderInv'
    <2>1. backups' # <<>>
      BY <1>3
    <2> QED
      BY <1>0, <1>1, <1>2, <1>3, <2>1 DEF OrderInv, Busy
  <1>6. OptInv'
    BY <1>0, <1>1, <1>2, <1>3 DEF OptInv, Busy
  <1> QED
    BY <1>4, <1>5, <1>6 DEF BaseInv

\* A backup that holds nothing yet
NewBackup == [man |-> NoManifest, file |-> [f \in Files |-> NoContent], done |-> FALSE, wal |-> <<0, 0>>]

LEMMA ResumeNotDoes ==
    ASSUME BaseInv, ResumeNot
    PROVE  /\ phase = "resume" /\ phase' = "save"
           /\ UNCHANGED <<now, pg, sb, writes, seg, archived, opt, m, built, copyStart, todo, skipped, seen, kept, mixed, kills>>
           /\ backups' \in Seq(StoredType) /\ backups' # <<>>
           /\ Label' \in DOMAIN backups' /\ Label' = Len(backups') /\ backups'[Label'] = NewBackup
           /\ \A i \in DOMAIN backups' : i < Label' => i \in DOMAIN backups /\ backups'[i] = backups[i] /\ backups[i].done
           /\ \A i \in DOMAIN backups : backups[i].done => i \in DOMAIN backups' /\ i < Label'
  <1>0. BackupTypeOK /\ OrderInv
    BY DEF BaseInv
  <1>1. /\ phase = "resume" /\ phase' = "save"
        /\ UNCHANGED <<now, pg, sb, writes, seg, archived, opt, m, built, copyStart, todo, skipped, seen, kept, mixed, kills>>
    BY DEF ResumeNot, cluster
  <1>2. backups \in Seq(StoredType) /\ NewBackup \in StoredType
    BY <1>0, EmptyBackup DEF BackupTypeOK, NewBackup
  <1>3. CASE CanResume
    <2>1. backups' = Append(SubSeq(backups, 1, Label - 1), NewBackup)
      BY Zenon, <1>3 DEF ResumeNot, NewBackup
    <2>2. backups # <<>> /\ ~backups[Label].done
      BY <1>3 DEF CanResume
    <2>3. Label \in Nat \ {0} /\ Label \in DOMAIN backups /\ Label = Len(backups) /\ DOMAIN backups = 1 .. Label
      BY <1>2, <2>2 DEF Label
    <2> DEFINE rest == SubSeq(backups, 1, Label - 1)
    <2>4. rest \in Seq(StoredType) /\ Len(rest) = Label - 1 /\ \A i \in 1 .. Label - 1 : rest[i] = backups[i]
      BY <1>2, <2>3
    <2>5. /\ backups' \in Seq(StoredType) /\ Len(backups') = Label /\ backups'[Label] = NewBackup
          /\ \A i \in 1 .. Label - 1 : backups'[i] = backups[i]
      BY <1>2, <2>1, <2>3, <2>4
    <2>6. Label' = Label /\ DOMAIN backups' = 1 .. Label /\ backups' # <<>>
      BY <2>3, <2>5 DEF Label
    <2>7. \A i \in DOMAIN backups : i < Label => backups[i].done
      BY <1>0 DEF OrderInv
    <2> HIDE DEF rest
    <2>8. \A i \in DOMAIN backups' : i < Label' => i \in DOMAIN backups /\ backups'[i] = backups[i] /\ backups[i].done
      BY <2>3, <2>5, <2>6, <2>7
    <2>9. \A i \in DOMAIN backups : backups[i].done => i \in DOMAIN backups' /\ i < Label'
      BY <2>2, <2>3, <2>6
    <2> QED
      BY <1>1, <2>3, <2>5, <2>6, <2>8, <2>9
  <1>4. CASE ~CanResume
    <2>1. backups' = Append(backups, NewBackup)
      BY <1>4 DEF ResumeNot, NewBackup
    <2>2. Label \in Nat /\ Label = Len(backups) /\ DOMAIN backups = 1 .. Label
      BY <1>2 DEF Label
    <2>3. /\ backups' \in Seq(StoredType) /\ Len(backups') = Label + 1 /\ backups'[Label + 1] = NewBackup
          /\ \A i \in 1 .. Label : backups'[i] = backups[i]
      BY <1>2, <2>1, <2>2
    <2>4. Label' = Label + 1 /\ DOMAIN backups' = 1 .. (Label + 1) /\ backups' # <<>>
      BY <2>2, <2>3 DEF Label
    <2>5. \A i \in DOMAIN backups : backups[i].done
      <3>1. backups # <<>> => backups[Label].done
        BY <1>4 DEF CanResume
      <3> QED
        BY <1>0, <1>2, <2>2, <3>1 DEF OrderInv
    <2>6. \A i \in DOMAIN backups' : i < Label' => i \in DOMAIN backups /\ backups'[i] = backups[i] /\ backups[i].done
      BY <2>2, <2>3, <2>4, <2>5
    <2>7. \A i \in DOMAIN backups : backups[i].done => i \in DOMAIN backups' /\ i < Label'
      BY <2>2, <2>4
    <2> QED
      BY <1>1, <2>2, <2>3, <2>4, <2>6, <2>7
  <1> QED
    BY <1>3, <1>4

LEMMA ResumeNotBase == ASSUME BaseInv, UNCHANGED backupCase, ResumeNot PROVE BaseInv'
  <1>0. BackupTypeOK /\ OrderInv /\ OptInv
    BY DEF BaseInv
  <1>1. /\ phase = "resume" /\ phase' = "save"
        /\ UNCHANGED <<now, pg, sb, writes, seg, archived, opt, m, built, copyStart, todo, skipped, seen, kept, mixed, kills>>
        /\ backups' \in Seq(StoredType) /\ backups' # <<>>
        /\ Label' \in DOMAIN backups' /\ backups'[Label'] = NewBackup
        /\ \A i \in DOMAIN backups' : i < Label' => i \in DOMAIN backups /\ backups'[i] = backups[i] /\ backups[i].done
        /\ \A i \in DOMAIN backups : backups[i].done => i \in DOMAIN backups' /\ i < Label'
    BY ResumeNotDoes
  <1>2. BackupTypeOK'
    BY <1>0, <1>1 DEF BackupTypeOK, Phase
  <1>3. OrderInv'
    BY <1>1 DEF OrderInv, Busy, NewBackup
  <1>4. OptInv'
    BY <1>0, <1>1 DEF OptInv, Busy
  <1> QED
    BY <1>2, <1>3, <1>4 DEF BaseInv

LEMMA SaveCopyDoes ==
    ASSUME BaseInv, phase \in Busy, SaveCopy
    PROVE  /\ backups # <<>> /\ ~backups[Label].done
           /\ \E b \in StoredType :
                /\ backups' = [backups EXCEPT ![Label] = b]
                /\ b.man = m /\ b.file = backups[Label].file /\ b.done = FALSE
  <1>1. BackupTypeOK /\ backups # <<>> /\ ~backups[Label].done
    BY DEF BaseInv, OrderInv
  <1>2. backups[Label] \in StoredType /\ m \in ManifestType
    BY <1>1, LastType DEF BackupTypeOK
  <1> DEFINE b == [backups[Label] EXCEPT !.man = m]
  <1>3. backups' = [backups EXCEPT ![Label] = b]
    BY DEF SaveCopy
  <1>4. b \in StoredType /\ b.man = m /\ b.file = backups[Label].file /\ b.done = backups[Label].done
    BY <1>2 DEF StoredType
  <1>5. backups[Label].done = FALSE
    BY <1>1, <1>2 DEF StoredType
  <1> HIDE DEF b
  <1> QED
    BY Zenon, <1>1, <1>3, <1>4, <1>5

LEMMA SaveBase ==
    ASSUME BaseInv, UNCHANGED backupCase, SaveFirst \/ SavePeriodic \/ Stop
    PROVE  BaseInv'
  <1>0. BackupTypeOK /\ OrderInv /\ OptInv
    BY DEF BaseInv
  <1>1. phase \in {"save", "copy", "stop"} /\ phase' \in {"copy", "archive"} /\ SaveCopy
    BY DEF SaveFirst, SavePeriodic, Stop, process
  <1>2. phase' = "archive" => Stop
    BY DEF SaveFirst, SavePeriodic, Stop, process
  <1>3. UNCHANGED <<now, pg, sb, writes, archived, m, built, copyStart, skipped, seen, kept, mixed, kills>>
    BY DEF SaveFirst, SavePeriodic, Stop, cluster, process
  <1>4. backups # <<>> /\ ~backups[Label].done
    BY Zenon, <1>1, SaveCopyDoes DEF Busy
  <1>5. PICK b \in StoredType : backups' = [backups EXCEPT ![Label] = b] /\ b.done = FALSE
    BY Zenon, <1>1, SaveCopyDoes DEF Busy
  <1>6. /\ Label \in DOMAIN backups /\ Label' = Label /\ backups' \in Seq(StoredType) /\ DOMAIN backups' = DOMAIN backups
        /\ \A i \in DOMAIN backups : backups'[i] = IF i = Label THEN b ELSE backups[i]
    BY Zenon, <1>0, <1>4, <1>5, LastReplaced
  <1>7. /\ opt' \in OptType /\ seg' \in Nat /\ seg <= seg' /\ opt'.prior = opt.prior /\ opt'.seg = opt.seg /\ opt'.delta = opt.delta
        /\ phase' = "archive" => opt.seg <= opt'.stop
    <2>1. CASE Stop
      <3>1. PICK n \in 0 .. 1 : opt' = [opt EXCEPT !.stop = seg + n] /\ seg' = seg + n + 1
        BY <2>1 DEF Stop
      <3>2. seg \in Nat /\ opt \in OptType /\ opt.seg <= seg
        BY <1>0, <1>1 DEF BackupTypeOK, OptInv
      <3>3. opt' \in OptType /\ opt'.prior = opt.prior /\ opt'.seg = opt.seg /\ opt'.delta = opt.delta /\ opt'.stop = seg + n
        BY <3>1, <3>2 DEF OptType
      <3>4. opt.seg \in Nat
        BY <3>2 DEF OptType
      <3> QED
        BY <3>1, <3>2, <3>3, <3>4
    <2>2. CASE SaveFirst \/ SavePeriodic
      <3>1. UNCHANGED <<opt, seg>> /\ phase' = "copy"
        BY <2>2 DEF SaveFirst, SavePeriodic, process
      <3> QED
        BY <1>0, <3>1 DEF BackupTypeOK
    <2> QED
      BY <2>1, <2>2
  <1>8. todo' \subseteq Files /\ (phase' # "copy" => todo' = {})
    <2>1. CASE Stop
      BY <1>0, <2>1 DEF Stop, OptInv, BackupTypeOK
    <2>2. CASE SaveFirst \/ SavePeriodic
      BY <1>0, <2>2 DEF SaveFirst, SavePeriodic, process, BackupTypeOK
    <2> QED
      BY <2>1, <2>2
  <1>9. BackupTypeOK'
    BY <1>0, <1>1, <1>3, <1>6, <1>7, <1>8 DEF BackupTypeOK, Phase
  <1>10. OrderInv'
    <2>1. backups' # <<>> /\ ~backups'[Label].done
      BY <1>5, <1>6
    <2> QED
      BY <1>0, <1>1, <1>6, <2>1 DEF OrderInv, Busy
  <1>11. OptInv'
    <2>1. opt.prior # 0 => opt.prior \in DOMAIN backups' /\ backups'[opt.prior].done
      BY <1>0, <1>1, <1>4, <1>6 DEF OptInv
    <2>2. opt.seg <= seg'
      <3>1. opt.seg <= seg /\ opt.seg \in Nat /\ seg \in Nat
        BY <1>0, <1>1 DEF OptInv, BackupTypeOK, OptType
      <3> QED
        BY <1>7, <3>1
    <2>3. m.prior = opt.prior /\ m.delta = opt.delta /\ built = Len(FileSeq)
      BY <1>0, <1>1 DEF OptInv, Busy
    <2> QED
      BY <1>1, <1>3, <1>7, <1>8, <2>1, <2>2, <2>3 DEF OptInv
  <1> QED
    BY <1>9, <1>10, <1>11 DEF BaseInv

\* A job copies the file, finds it gone, or leaves what it has compared
JobCopies(f, b) ==
    /\ Source(f) # NoContent /\ b.file[f] = Source(f)
    /\ m' = [m EXCEPT !.entry = [m.entry EXCEPT ![f] = CopiedEntry(m.entry[f], Source(f))]]
    /\ skipped' = skipped
JobSkips(f) == Source(f) = NoContent /\ m' = m /\ skipped' = skipped \cup {f}
JobLeaves(f, b) ==
    /\ m' = m /\ skipped' = skipped /\ b.file[f] = backups[Label].file[f]
    /\ m.entry[f].sum # NoContent
    /\ opt.delta => Source(f) = m.entry[f].sum
    /\ ~opt.delta \/ m.entry[f].ref = 0 => b.file[f] = m.entry[f].sum

LEMMA JobDoes ==
    ASSUME BaseInv, NEW f \in Files, Job(f)
    PROVE  /\ phase = "copy" /\ phase' = "copy" /\ f \in todo /\ todo' = todo \ {f}
           /\ backups # <<>> /\ ~backups[Label].done
           /\ UNCHANGED <<now, pg, sb, writes, seg, archived, opt, built, copyStart, seen, kept, mixed, kills>>
           /\ \E b \in StoredType :
                /\ backups' = [backups EXCEPT ![Label] = b]
                /\ b.man = backups[Label].man /\ b.done = FALSE
                /\ \A g \in Files : g # f => b.file[g] = backups[Label].file[g]
                /\ JobCopies(f, b) \/ JobSkips(f) \/ JobLeaves(f, b)
  <1>1. /\ phase = "copy" /\ phase' = "copy" /\ f \in todo /\ todo' = todo \ {f}
        /\ UNCHANGED <<now, pg, sb, writes, seg, archived, opt, built, copyStart, seen, kept, mixed, kills>>
    BY DEF Job, cluster
  <1>2. BackupTypeOK /\ backups # <<>> /\ ~backups[Label].done
    BY <1>1 DEF BaseInv, OrderInv, Busy
  <1>3. backups[Label] \in StoredType /\ backups[Label].done = FALSE /\ backups \in Seq(StoredType) /\ Label \in DOMAIN backups
    BY <1>2, LastType DEF StoredType, BackupTypeOK
  <1>4. Source(f) \in ContentType /\ m \in ManifestType
    BY <1>2, SourceType DEF BackupTypeOK
  <1>5. CASE Compare(f) = "copy" /\ Source(f) # NoContent
    <2>1. /\ m' = [m EXCEPT !.entry[f] = CopiedEntry(m.entry[f], Source(f))]
          /\ backups' = [backups EXCEPT ![Label].file[f] = Source(f)] /\ skipped' = skipped
      BY <1>5 DEF Job, JobResult
    <2> DEFINE b == [backups[Label] EXCEPT !.file = [backups[Label].file EXCEPT ![f] = Source(f)]]
    <2>2. backups' = [backups EXCEPT ![Label] = b]
      BY <2>1
    <2>3. /\ b \in StoredType /\ b.man = backups[Label].man /\ b.done = FALSE
          /\ b.file = [backups[Label].file EXCEPT ![f] = Source(f)]
      BY Zenon, <1>3, <1>4 DEF StoredType
    <2>4. b.file[f] = Source(f) /\ \A g \in Files : g # f => b.file[g] = backups[Label].file[g]
      BY <1>3, <2>3 DEF StoredType
    <2> HIDE DEF b
    <2>5. JobCopies(f, b)
      BY <1>5, <2>1, <2>4 DEF JobCopies
    <2> QED
      BY Zenon, <1>1, <1>2, <2>2, <2>3, <2>4, <2>5
  <1>6. CASE Compare(f) = "skip" \/ (Compare(f) = "copy" /\ Source(f) = NoContent)
    <2>1. Source(f) = NoContent
      BY <1>6 DEF Compare
    <2>2. m' = m /\ skipped' = skipped \cup {f}
      BY <1>6 DEF Job, JobResult
    <2>3. backups' = backups \/ backups' = [backups EXCEPT ![Label].file[f] = NoContent]
      BY <1>6 DEF Job, JobResult
    <2>4. JobSkips(f)
      BY <2>1, <2>2 DEF JobSkips
    <2>5. CASE backups' = backups
      <3>1. backups' = [backups EXCEPT ![Label] = backups[Label]]
        BY <1>3, <2>5
      <3> QED
        BY Zenon, <1>1, <1>2, <1>3, <2>4, <3>1
    <2>6. CASE backups' = [backups EXCEPT ![Label].file[f] = NoContent]
      <3> DEFINE b == [backups[Label] EXCEPT !.file = [backups[Label].file EXCEPT ![f] = NoContent]]
      <3>1. backups' = [backups EXCEPT ![Label] = b]
        BY <2>6
      <3>2. /\ b \in StoredType /\ b.man = backups[Label].man /\ b.done = FALSE
            /\ b.file = [backups[Label].file EXCEPT ![f] = NoContent]
        BY Zenon, <1>3, ContentTypes DEF StoredType
      <3>3. \A g \in Files : g # f => b.file[g] = backups[Label].file[g]
        BY <1>3, <3>2 DEF StoredType
      <3> HIDE DEF b
      <3> QED
        BY Zenon, <1>1, <1>2, <2>4, <3>1, <3>2, <3>3
    <2> QED
      BY Zenon, <2>3, <2>5, <2>6
  <1>7. CASE Compare(f) \notin {"copy", "skip"}
    <2>0. Compare(f) \in {"checksum", "noop"}
      BY <1>7 DEF Compare
    <2>1. m' = m /\ skipped' = skipped /\ backups' = backups
      BY <2>0 DEF Job, JobResult
    <2>2. backups' = [backups EXCEPT ![Label] = backups[Label]]
      BY <1>3, <2>1
    <2>3. m.entry[f].sum # NoContent /\ (opt.delta => Source(f) = m.entry[f].sum)
      BY <1>7 DEF Compare
    <2>4. ~opt.delta \/ m.entry[f].ref = 0 => backups[Label].file[f] = m.entry[f].sum
      BY <1>7 DEF Compare
    <2>5. JobLeaves(f, backups[Label])
      BY <2>1, <2>3, <2>4 DEF JobLeaves
    <2> QED
      BY Zenon, <1>1, <1>2, <1>3, <2>2, <2>5
  <1> QED
    BY Zenon, <1>5, <1>6, <1>7

LEMMA CopiedType ==
    ASSUME NEW e \in EntryType, NEW c \in ContentType
    PROVE  LET x == CopiedEntry(e, c)
           IN  x \in EntryType /\ x.s = c.s /\ x.sum = c /\ x.ref = 0 /\ x.on = e.on /\ x.t = e.t
  BY Zenon DEF CopiedEntry, EntryType, ContentType

\* The manifest after a job that copies
LEMMA CopiedManifest ==
    ASSUME BackupTypeOK, NEW f \in Files, NEW b, JobCopies(f, b)
    PROVE  /\ m' \in ManifestType /\ m'.prior = m.prior /\ m'.delta = m.delta
           /\ m'.entry[f].s = Source(f).s /\ m'.entry[f].sum = Source(f) /\ m'.entry[f].ref = 0
           /\ m'.entry[f].on = m.entry[f].on /\ m'.entry[f].t = m.entry[f].t
           /\ \A g \in Files : g # f => m'.entry[g] = m.entry[g]
  <1>1. m \in ManifestType /\ Source(f) \in ContentType
    BY SourceType DEF BackupTypeOK
  <1>2. m.entry[f] \in EntryType /\ m.entry \in [Files -> EntryType]
    BY <1>1 DEF ManifestType
  <1>3. PICK x \in EntryType :
          /\ x = CopiedEntry(m.entry[f], Source(f))
          /\ x.s = Source(f).s /\ x.sum = Source(f) /\ x.ref = 0 /\ x.on = m.entry[f].on /\ x.t = m.entry[f].t
    BY <1>1, <1>2, CopiedType
  <1> DEFINE entry == [m.entry EXCEPT ![f] = x]
  <1>4. /\ entry \in [Files -> EntryType] /\ entry[f] = x
        /\ \A g \in Files : g # f => entry[g] = m.entry[g]
    BY <1>2, <1>3
  <1>5. m' = [m EXCEPT !.entry = entry]
    BY <1>3 DEF JobCopies
  <1> HIDE DEF entry
  <1>6. m' \in ManifestType /\ m'.prior = m.prior /\ m'.delta = m.delta /\ m'.entry = entry
    BY <1>1, <1>4, <1>5 DEF ManifestType
  <1> QED
    BY <1>3, <1>4, <1>6

LEMMA JobBase == ASSUME BaseInv, UNCHANGED backupCase, NEW f \in Files, Job(f) PROVE BaseInv'
  <1>0. BackupTypeOK /\ OrderInv /\ OptInv
    BY DEF BaseInv
  <1>1. /\ phase = "copy" /\ phase' = "copy" /\ f \in todo /\ todo' = todo \ {f}
        /\ backups # <<>> /\ ~backups[Label].done
        /\ UNCHANGED <<now, pg, sb, writes, seg, archived, opt, built, copyStart, seen, kept, mixed, kills>>
    BY Zenon, JobDoes
  <1>2. PICK b \in StoredType :
          /\ backups' = [backups EXCEPT ![Label] = b] /\ b.done = FALSE
          /\ JobCopies(f, b) \/ JobSkips(f) \/ JobLeaves(f, b)
    BY Zenon, JobDoes
  <1>3. /\ Label \in DOMAIN backups /\ Label' = Label /\ backups' \in Seq(StoredType) /\ DOMAIN backups' = DOMAIN backups
        /\ \A i \in DOMAIN backups : backups'[i] = IF i = Label THEN b ELSE backups[i]
    BY Zenon, <1>0, <1>1, <1>2, LastReplaced
  <1>4. m' \in ManifestType /\ m'.prior = m.prior /\ m'.delta = m.delta /\ skipped' \subseteq Files
    <2>1. CASE JobCopies(f, b)
      <3>1. skipped' = skipped
        BY <2>1 DEF JobCopies
      <3> QED
        BY <1>0, <2>1, <3>1, CopiedManifest DEF BackupTypeOK
    <2>2. CASE JobSkips(f) \/ JobLeaves(f, b)
      <3>1. m' = m /\ skipped' \in {skipped, skipped \cup {f}}
        BY <2>2 DEF JobSkips, JobLeaves
      <3> QED
        BY <1>0, <3>1 DEF BackupTypeOK
    <2> QED
      BY <1>2, <2>1, <2>2
  <1>5. BackupTypeOK'
    BY <1>0, <1>1, <1>3, <1>4 DEF BackupTypeOK, Phase
  <1>6. OrderInv'
    <2>1. backups' # <<>> /\ ~backups'[Label].done
      BY <1>2, <1>3
    <2> QED
      BY <1>0, <1>1, <1>3, <2>1 DEF OrderInv, Busy
  <1>7. OptInv'
    <2>1. opt.prior # 0 => opt.prior \in DOMAIN backups' /\ backups'[opt.prior].done
      BY Zenon, <1>0, <1>1, <1>3 DEF OptInv
    <2> QED
      BY ZenonT(30), <1>0, <1>1, <1>4, <2>1 DEF OptInv, Busy
  <1> QED
    BY <1>5, <1>6, <1>7 DEF BaseInv

LEMMA JobsDoneDoes ==
    ASSUME BaseInv, JobsDone
    PROVE  /\ phase = "copy" /\ phase' = "stop" /\ todo = {}
           /\ UNCHANGED <<now, pg, sb, writes, seg, archived, backups, opt, built, copyStart, todo, skipped, seen, kept, mixed, kills>>
           /\ m' \in ManifestType /\ m'.prior = m.prior /\ m'.delta = m.delta
           /\ \A f \in Files : m'.entry[f] = IF f \in skipped THEN NoEntry ELSE m.entry[f]
  <1>1. m \in ManifestType
    BY DEF BaseInv, BackupTypeOK
  <1> DEFINE entry == [f \in Files |-> IF f \in skipped THEN NoEntry ELSE m.entry[f]]
  <1>2. entry \in [Files -> EntryType] /\ \A f \in Files : entry[f] = IF f \in skipped THEN NoEntry ELSE m.entry[f]
    BY <1>1, EntryTypes DEF ManifestType
  <1>3. m' = [m EXCEPT !.entry = entry]
    BY DEF JobsDone
  <1> HIDE DEF entry
  <1>4. m' \in ManifestType /\ m'.prior = m.prior /\ m'.delta = m.delta /\ m'.entry = entry
    BY <1>1, <1>2, <1>3 DEF ManifestType
  <1> QED
    BY <1>2, <1>4 DEF JobsDone, cluster

LEMMA WaitBase == ASSUME BaseInv, UNCHANGED backupCase, JobsDone \/ ArchiveCheck PROVE BaseInv'
  <1>0. BackupTypeOK /\ OrderInv /\ OptInv
    BY DEF BaseInv
  <1>1. /\ phase \in {"copy", "archive"} /\ phase' \in {"stop", "complete"} /\ todo = {}
        /\ UNCHANGED <<now, pg, sb, writes, seg, archived, backups, opt, built, copyStart, todo, skipped, seen, kept, mixed, kills>>
        /\ m' \in ManifestType /\ m'.prior = m.prior /\ m'.delta = m.delta
    <2>1. CASE JobsDone
      BY Zenon, <2>1, JobsDoneDoes
    <2>2. CASE ArchiveCheck
      BY <1>0, <2>2 DEF ArchiveCheck, cluster, BackupTypeOK, OptInv
    <2> QED
      BY <2>1, <2>2
  <1>2. phase' = "complete" => opt.stop <= archived
    <2> SUFFICES ASSUME phase' = "complete" PROVE opt.stop <= archived
      OBVIOUS
    <2>1. phase = "archive" /\ WalFound
      BY DEF JobsDone, ArchiveCheck
    <2>2. opt.seg <= opt.stop /\ opt.seg \in Nat /\ opt.stop \in Nat
      BY <1>0, <2>1 DEF OptInv, BackupTypeOK, OptType
    <2>3. opt.stop \in opt.seg .. opt.stop
      BY <2>2
    <2> QED
      BY <2>1, <2>3 DEF WalFound
  <1>3. BackupTypeOK'
    BY <1>0, <1>1 DEF BackupTypeOK, Phase
  <1>4. OrderInv'
    BY <1>0, <1>1 DEF OrderInv, Busy, Label
  <1>5. OptInv'
    BY <1>0, <1>1, <1>2 DEF OptInv, Busy
  <1> QED
    BY <1>3, <1>4, <1>5 DEF BaseInv

LEMMA CompleteDoes ==
    ASSUME BaseInv, Complete
    PROVE  /\ phase = "complete" /\ phase' = "idle" /\ Valid(m)
           /\ backups # <<>> /\ ~backups[Label].done
           /\ UNCHANGED <<now, pg, sb, writes, seg, archived, todo, mixed, kills>>
           /\ opt' = NoOpt /\ m' = NoManifest /\ built' = 0 /\ copyStart' = 0 /\ skipped' = {}
           /\ seen' = [f \in Files |-> {}] /\ kept' = {}
           /\ \E b \in StoredType :
                /\ backups' = [backups EXCEPT ![Label] = b]
                /\ b.man = m /\ b.file = backups[Label].file /\ b.done /\ b.wal[2] = opt.stop
  <1>1. /\ phase = "complete" /\ phase' = "idle" /\ Valid(m)
        /\ UNCHANGED <<now, pg, sb, writes, seg, archived, todo, mixed, kills>>
        /\ opt' = NoOpt /\ m' = NoManifest /\ built' = 0 /\ copyStart' = 0 /\ skipped' = {}
        /\ seen' = [f \in Files |-> {}] /\ kept' = {}
    BY DEF Complete, cluster
  <1>2. BackupTypeOK /\ backups # <<>> /\ ~backups[Label].done
    BY <1>1 DEF BaseInv, OrderInv, Busy
  <1>3. backups[Label] \in StoredType /\ m \in ManifestType /\ Label \in DOMAIN backups
    BY <1>2, LastType DEF BackupTypeOK
  <1>4. PICK wal \in Nat \X Nat : wal = <<opt.seg, opt.stop>> /\ wal[2] = opt.stop
    <2>1. opt.seg \in Nat /\ opt.stop \in Nat
      BY <1>2 DEF BackupTypeOK, OptType
    <2>2. \A x, y \in Nat : <<x, y>> \in Nat \X Nat /\ <<x, y>>[2] = y
      OBVIOUS
    <2> QED
      BY ZenonT(30), <2>1, <2>2
  <1> DEFINE b == [backups[Label] EXCEPT !.man = m, !.done = TRUE, !.wal = wal]
  <1>5. backups' = [backups EXCEPT ![Label] = b]
    BY <1>3, <1>4 DEF Complete
  <1>6. b \in StoredType /\ b.man = m /\ b.file = backups[Label].file /\ b.done /\ b.wal = wal
    BY Zenon, <1>3 DEF StoredType
  <1> HIDE DEF b
  <1> QED
    BY Zenon, <1>1, <1>2, <1>4, <1>5, <1>6

LEMMA IdleTypes ==
    /\ NoOpt \in OptType /\ NoManifest \in ManifestType /\ 0 \in 0 .. Len(FileSeq) /\ 0 \in Nat
    /\ [f \in Files |-> {}] \in [Files -> SUBSET ContentType] /\ "idle" \in Phase
  BY Constants, EntryTypes DEF Phase

LEMMA CompleteBase == ASSUME BaseInv, UNCHANGED backupCase, Complete PROVE BaseInv'
  <1>0. BackupTypeOK /\ OrderInv /\ OptInv
    BY DEF BaseInv
  <1>1. /\ phase = "complete" /\ phase' = "idle"
        /\ backups # <<>> /\ ~backups[Label].done
        /\ UNCHANGED <<now, pg, sb, writes, seg, archived, todo, mixed, kills>>
        /\ opt' = NoOpt /\ m' = NoManifest /\ built' = 0 /\ copyStart' = 0 /\ skipped' = {}
        /\ seen' = [f \in Files |-> {}] /\ kept' = {}
    BY CompleteDoes
  <1>2. PICK b \in StoredType : backups' = [backups EXCEPT ![Label] = b] /\ b.done
    BY CompleteDoes
  <1>3. /\ Label \in DOMAIN backups /\ Label' = Label /\ backups' \in Seq(StoredType) /\ DOMAIN backups' = DOMAIN backups
        /\ \A i \in DOMAIN backups : backups'[i] = IF i = Label THEN b ELSE backups[i]
    BY Zenon, <1>0, <1>1, <1>2, LastReplaced
  <1>4. BackupTypeOK'
    BY <1>0, <1>1, <1>3, IdleTypes DEF BackupTypeOK
  <1>5. OrderInv'
    <2>1. \A i \in DOMAIN backups' : backups'[i].done
      <3>1. \A i \in DOMAIN backups : i # Label => i < Label
        BY <1>0 DEF BackupTypeOK, Label
      <3> QED
        BY <1>0, <1>2, <1>3, <3>1 DEF OrderInv
    <2> QED
      BY <1>1, <2>1 DEF OrderInv, Busy
  <1>6. OptInv'
    BY <1>0, <1>1 DEF OptInv, Busy
  <1> QED
    BY <1>4, <1>5, <1>6 DEF BaseInv

\* What a killed command leaves in its backup: what was there, or less
Leaves(b) ==
    /\ b.man \in {NoManifest, backups[Label].man} /\ b.done = FALSE
    /\ \A f \in Files : b.file[f] \in {NoContent, Torn, backups[Label].file[f]}

LEMMA KillDoes ==
    ASSUME BaseInv, Kill
    PROVE  /\ phase # "idle" /\ phase' = "idle" /\ todo' = {} /\ skipped' = {}
           /\ opt' = NoOpt /\ m' = NoManifest /\ built' = 0 /\ copyStart' = 0
           /\ seen' = [f \in Files |-> {}] /\ kept' = {} /\ kills' = kills + 1
           /\ UNCHANGED <<now, pg, sb, writes, seg, archived, mixed>>
           /\ \/ backups' = backups
              \/ /\ backups # <<>> /\ ~backups[Label].done
                 /\ \E b \in StoredType : backups' = [backups EXCEPT ![Label] = b] /\ Leaves(b)
  <1>0. BackupTypeOK
    BY DEF BaseInv
  <1>1. /\ phase # "idle" /\ phase' = "idle" /\ todo' = {} /\ skipped' = {}
        /\ opt' = NoOpt /\ m' = NoManifest /\ built' = 0 /\ copyStart' = 0
        /\ seen' = [f \in Files |-> {}] /\ kept' = {} /\ kills' = kills + 1
        /\ UNCHANGED <<now, pg, sb, writes, seg, archived, mixed>>
    BY DEF Kill, cluster
  <1>2. CASE backups' = backups
    BY <1>1, <1>2
  <1>3. ASSUME phase = "copy", NEW f \in todo, backups' = [backups EXCEPT ![Label].file[f] = Torn]
        PROVE  /\ backups # <<>> /\ ~backups[Label].done
               /\ \E b \in StoredType : backups' = [backups EXCEPT ![Label] = b] /\ Leaves(b)
    <2>1. backups # <<>> /\ ~backups[Label].done /\ f \in Files
      BY <1>3 DEF BaseInv, OrderInv, Busy, BackupTypeOK
    <2>2. backups[Label] \in StoredType /\ backups[Label].done = FALSE
      BY <1>0, <2>1, LastType DEF StoredType
    <2> DEFINE b == [backups[Label] EXCEPT !.file = [backups[Label].file EXCEPT ![f] = Torn]]
    <2>3. backups' = [backups EXCEPT ![Label] = b]
      BY <1>3
    <2>4. /\ b \in StoredType /\ b.man = backups[Label].man /\ b.done = FALSE
          /\ b.file = [backups[Label].file EXCEPT ![f] = Torn]
      BY <2>1, <2>2, ContentTypes DEF StoredType
    <2> HIDE DEF b
    <2>5. Leaves(b)
      BY <2>2, <2>4 DEF Leaves, StoredType
    <2> QED
      BY Zenon, <2>1, <2>3, <2>4, <2>5
  <1>4. ASSUME phase = "resume", CanResume, NEW gone \in SUBSET Files, NEW man \in {NoManifest, backups[Label].man},
               backups' = [backups EXCEPT ![Label].man = man,
                                          ![Label].file = [f \in Files |-> IF f \in gone THEN NoContent ELSE @[f]]]
        PROVE  /\ backups # <<>> /\ ~backups[Label].done
               /\ \E b \in StoredType : backups' = [backups EXCEPT ![Label] = b] /\ Leaves(b)
    <2>1. backups # <<>> /\ ~backups[Label].done
      BY <1>4 DEF CanResume
    <2>2. backups[Label] \in StoredType /\ backups[Label].done = FALSE /\ Label \in DOMAIN backups /\ man \in ManifestType
      BY <1>0, <2>1, LastType, EntryTypes DEF StoredType
    <2> DEFINE file == [f \in Files |-> IF f \in gone THEN NoContent ELSE backups[Label].file[f]]
               b == [backups[Label] EXCEPT !.man = man, !.file = file]
    <2>3. file \in [Files -> ContentType] /\ \A f \in Files : file[f] \in {NoContent, backups[Label].file[f]}
      BY <2>2, ContentTypes DEF StoredType
    <2>4. backups' = [backups EXCEPT ![Label] = b]
      BY Zenon, <1>0, <1>4, <2>2 DEF BackupTypeOK, StoredType
    <2> HIDE DEF file
    <2>5. b \in StoredType /\ b.man = man /\ b.done = FALSE /\ b.file = file
      BY Zenon, <2>2, <2>3 DEF StoredType
    <2> HIDE DEF b
    <2>6. Leaves(b)
      BY <2>3, <2>5 DEF Leaves
    <2> QED
      BY Zenon, <2>1, <2>4, <2>5, <2>6
  <1> QED
    BY Zenon, <1>1, <1>2, <1>3, <1>4 DEF Kill

LEMMA KillBase == ASSUME BaseInv, UNCHANGED backupCase, Kill PROVE BaseInv'
  <1>0. BackupTypeOK /\ OrderInv /\ OptInv
    BY DEF BaseInv
  <1>1. /\ phase # "idle" /\ phase' = "idle" /\ todo' = {} /\ skipped' = {}
        /\ opt' = NoOpt /\ m' = NoManifest /\ built' = 0 /\ copyStart' = 0
        /\ seen' = [f \in Files |-> {}] /\ kept' = {} /\ kills' = kills + 1
        /\ UNCHANGED <<now, pg, sb, writes, seg, archived, mixed>>
    BY KillDoes
  <1>2. /\ Label' = Label /\ backups' \in Seq(StoredType) /\ DOMAIN backups' = DOMAIN backups
        /\ \A i \in DOMAIN backups : i # Label => backups'[i] = backups[i]
    <2>1. CASE backups' = backups
      BY <1>0, <2>1 DEF Label, BackupTypeOK
    <2>2. CASE backups # <<>> /\ \E b \in StoredType : backups' = [backups EXCEPT ![Label] = b]
      BY Zenon, <1>0, <2>2, LastReplaced
    <2> QED
      BY <2>1, <2>2, KillDoes
  <1>3. kills' \in Nat /\ kills' # 0
    BY <1>0, <1>1 DEF BackupTypeOK
  <1>4. BackupTypeOK'
    BY <1>0, <1>1, <1>2, <1>3, IdleTypes DEF BackupTypeOK
  <1>5. OrderInv'
    <2>1. Label \in Nat /\ \A i \in DOMAIN backups : i \in Nat
      BY <1>0 DEF BackupTypeOK, Label
    <2> QED
      BY <1>0, <1>1, <1>2, <1>3, <2>1 DEF OrderInv, Busy
  <1>6. OptInv'
    BY <1>0, <1>1 DEF OptInv, Busy
  <1> QED
    BY <1>4, <1>5, <1>6 DEF BaseInv

LEMMA InitBase == BackupInit => BaseInv
  <1> SUFFICES ASSUME BackupInit PROVE BaseInv
    OBVIOUS
  <1>1. /\ backupCase \in BackupCases /\ now = 1 /\ writes = 0 /\ seg = 1 /\ archived = 0 /\ backups = <<>>
        /\ phase = "idle" /\ opt = NoOpt /\ m = NoManifest
        /\ built = 0 /\ copyStart = 0 /\ todo = {} /\ skipped = {}
        /\ seen = [f \in Files |-> {}] /\ kept = {} /\ mixed = FALSE /\ kills = 0
    BY DEF BackupInit
  <1>2. pg \in [Files -> FileType] /\ sb \in [Files -> ContentType]
    BY FileTypes, ContentTypes DEF BackupInit
  <1>3. BackupTypeOK
    <2>1. backups \in Seq(StoredType) /\ seen \in [Files -> SUBSET ContentType]
      BY <1>1
    <2>2. now \in 1 .. MaxTime /\ built \in 0 .. Len(FileSeq)
      BY <1>1, Constants
    <2>3. opt \in OptType /\ m \in ManifestType
      BY <1>1, EntryTypes
    <2> QED
      BY Zenon, <1>1, <1>2, <2>1, <2>2, <2>3 DEF BackupTypeOK, Phase
  <1>4. OrderInv /\ OptInv
    BY <1>1, EntryTypes DEF OrderInv, OptInv, Busy
  <1> QED
    BY <1>3, <1>4 DEF BaseInv

\* The steps, one by one
LEMMA Steps ==
    ASSUME BackupNext
    PROVE  /\ UNCHANGED backupCase
           /\ \/ ClusterNext
              \/ \E type \in BackupTypes, delta \in BOOLEAN, resume \in BOOLEAN : Start(type, delta, resume)
              \/ ReplayWait \/ BuildFile \/ BuildDone
              \/ BuildIncr \/ Resume \/ ResumeNot
              \/ SaveFirst \/ SavePeriodic \/ Stop
              \/ \E f \in Files : Job(f)
              \/ JobsDone \/ ArchiveCheck \/ Complete \/ Kill
  <1>1. \A resume \in IF CanResume THEN BOOLEAN ELSE {TRUE} : resume \in BOOLEAN
    BY Zenon
  <1> QED
    BY Zenon, <1>1 DEF BackupNext, ClusterNext

LEMMA StepBase == ASSUME BaseInv, BackupNext PROVE BaseInv'
  BY Steps, ClusterBase, StartBase, BuildBase, BuildIncrBase, ResumeBase, ResumeNotBase, SaveBase, JobBase,
     WaitBase, CompleteBase, KillBase

LEMMA SameBase == ASSUME BaseInv, UNCHANGED backupVars PROVE BaseInv'
  <1>0. BackupTypeOK /\ OrderInv /\ OptInv
    BY DEF BaseInv
  <1>1. UNCHANGED <<backupCase, now, pg, sb, writes, seg, archived, backups, phase, opt, m, built, copyStart, todo,
                    skipped, seen, kept, mixed, kills>>
    BY DEF backupVars, cluster, process
  <1>2. BackupTypeOK'
    BY <1>0, <1>1 DEF BackupTypeOK
  <1>3. OrderInv'
    BY <1>0, <1>1 DEF OrderInv, Label
  <1>4. OptInv'
    BY <1>0, <1>1 DEF OptInv
  <1> QED
    BY <1>2, <1>3, <1>4 DEF BaseInv

\* A completed backup is neither changed nor removed: a step leaves the
\* backups alone, replaces the last one while it is not complete, or puts an
\* empty one behind the completed ones.
DoneKept == \A i \in DOMAIN backups : backups[i].done => i \in DOMAIN backups' /\ backups'[i] = backups[i]

LEMMA LastKept ==
    ASSUME BackupTypeOK, backups # <<>>, ~backups[Label].done, NEW b \in StoredType, backups' = [backups EXCEPT ![Label] = b]
    PROVE  DoneKept
  BY LastReplaced DEF DoneKept

LEMMA StepDone == ASSUME BaseInv, BackupNext PROVE DoneKept
  <1>0. BackupTypeOK
    BY DEF BaseInv
  <1>1. CASE UNCHANGED backups
    BY <1>1 DEF DoneKept
  <1>2. CASE Resume
    <2>1. backups # <<>> /\ ~backups[Label].done /\ \E b \in StoredType : backups' = [backups EXCEPT ![Label] = b]
      BY Zenon, <1>2, ResumeDoes
    <2> QED
      BY Zenon, <1>0, <2>1, LastKept
  <1>3. CASE ResumeNot
    BY <1>3, ResumeNotDoes DEF DoneKept
  <1>4. CASE SaveFirst \/ SavePeriodic \/ Stop
    <2>1. phase \in Busy /\ SaveCopy
      BY <1>4 DEF SaveFirst, SavePeriodic, Stop, Busy
    <2>2. backups # <<>> /\ ~backups[Label].done /\ \E b \in StoredType : backups' = [backups EXCEPT ![Label] = b]
      BY Zenon, <2>1, SaveCopyDoes
    <2> QED
      BY Zenon, <1>0, <2>2, LastKept
  <1>5. CASE \E f \in Files : Job(f)
    <2>1. backups # <<>> /\ ~backups[Label].done /\ \E b \in StoredType : backups' = [backups EXCEPT ![Label] = b]
      BY Zenon, <1>5, JobDoes
    <2> QED
      BY Zenon, <1>0, <2>1, LastKept
  <1>6. CASE Complete
    <2>1. backups # <<>> /\ ~backups[Label].done /\ \E b \in StoredType : backups' = [backups EXCEPT ![Label] = b]
      BY <1>6, CompleteDoes
    <2> QED
      BY Zenon, <1>0, <2>1, LastKept
  <1>7. CASE Kill
    <2>1. \/ backups' = backups
          \/ backups # <<>> /\ ~backups[Label].done /\ \E b \in StoredType : backups' = [backups EXCEPT ![Label] = b]
      BY <1>7, KillDoes
    <2> QED
      BY <1>0, <1>1, <2>1, LastKept
  <1>8. ClusterNext => UNCHANGED backups
    BY DEF ClusterNext, BackupTick, Archive, Write, Drop, Touch, Replay
  <1>9. (\E type \in BackupTypes, delta \in BOOLEAN, resume \in BOOLEAN : Start(type, delta, resume)) => UNCHANGED backups
    BY DEF Start
  <1>10. ReplayWait \/ BuildFile \/ BuildDone \/ BuildIncr \/ JobsDone \/ ArchiveCheck => UNCHANGED backups
    BY DEF ReplayWait, BuildFile, BuildDone, BuildIncr, JobsDone, ArchiveCheck
  <1> QED
    BY <1>1, <1>2, <1>3, <1>4, <1>5, <1>6, <1>7, <1>8, <1>9, <1>10, Steps

-----------------------------------------------------------------------------
(* The first layer holds, and with it the completed backups stay *)

\* The types, the order of the backups and the place of the running command
\* (BaseInv) hold in every state, whatever is written, killed and resumed.
THEOREM BackupInvariant == BackupSpec => []BaseInv
  <1>1. BackupInit => BaseInv
    BY InitBase
  <1>2. BaseInv /\ [BackupNext]_backupVars => BaseInv'
    BY StepBase, SameBase
  <1> QED
    BY <1>1, <1>2, PTL DEF BackupSpec

\* Every variable of the backup keeps its type (BackupTypeOK).
THEOREM BackupTypeCorrect == BackupSpec => []BackupTypeOK
  <1>1. BaseInv => BackupTypeOK
    BY DEF BaseInv
  <1> QED
    BY <1>1, BackupInvariant, PTL

\* backupResumeFind() and backupResume() never touch a backup that has its
\* backup.manifest: whatever is killed, resumed, removed or made later, a
\* completed backup stays as it is, for every number of backups.
THEOREM CompletedStays == BackupSpec => DoneStays
  <1>1. BaseInv /\ [BackupNext]_backupVars => [DoneKept]_backupVars
    BY StepDone
  <1>2. BackupSpec => [][DoneKept]_backupVars
    BY <1>1, BackupInvariant, PTL DEF BackupSpec
  <1>3. [][DoneKept]_backupVars => DoneStays
    BY PTL DEF DoneStays, DoneKept
  <1> QED
    BY <1>2, <1>3, PTL

-----------------------------------------------------------------------------
(* The second layer: contents, entries and the files in the repository *)

LEMMA RealFacts ==
    /\ NoContent \notin Real /\ Torn \notin Real /\ Empty \in Real /\ Empty.s = 0
    /\ \A c \in Real : c \in ContentType /\ c.s \in Nat /\ c.v \in Nat /\ (c.s = 0 => c = Empty)
    /\ \A v \in Nat \ {0}, s \in Nat : Content(v, s) \in Real /\ Content(v, s).s = s
    /\ Content(0, 1) \in Real
  <1>1. NoContent \notin Real /\ Torn \notin Real /\ Empty \in Real /\ Empty.s = 0
    BY ContentTypes DEF Real, NoContent, Torn, Empty
  <1>2. ASSUME NEW c \in Real PROVE c \in ContentType /\ c.s \in Nat /\ c.v \in Nat /\ (c.s = 0 => c = Empty)
    <2>1. c \in ContentType /\ c.s \in Nat /\ c.v \in Nat /\ (c.s = 0 => c.v = 0)
      BY DEF Real, ContentType
    <2> QED
      BY <2>1 DEF ContentType, Empty
  <1>3. ASSUME NEW v \in Nat \ {0}, NEW s \in Nat PROVE Content(v, s) \in Real /\ Content(v, s).s = s
    BY <1>1 DEF Content, Real, ContentType
  <1>4. Content(0, 1) \in Real
    BY DEF Content, Real, ContentType
  <1> QED
    BY <1>1, <1>2, <1>3, <1>4

LEMMA LimitReal ==
    ASSUME NEW c \in Real, NEW s \in Nat
    PROVE  /\ Limit(c, s) \in Real /\ Limit(c, s).s <= s /\ Prefix(Limit(c, s), c)
           /\ c.s <= s => Limit(c, s) = c
           /\ c.s > s => Limit(c, s).s = s
  <1>1. c \in ContentType /\ c.s \in Nat /\ c.v \in Nat /\ (c.v = 0 => c.s \in {0, 1})
    BY RealFacts DEF Real
  <1>2. CASE c.s <= s
    BY <1>1, <1>2 DEF Limit, Prefix
  <1>3. CASE c.s > s
    <2>1. Limit(c, s) = Content(c.v, s)
      BY <1>1, <1>3 DEF Limit
    <2>2. CASE s = 0
      BY <1>1, <1>3, <2>1, <2>2, RealFacts DEF Content, Prefix
    <2>3. CASE s # 0
      <3>1. c.v \in Nat \ {0}
        BY <1>1, <1>3, <2>3
      <3>2. Content(c.v, s) = [v |-> c.v, s |-> s]
        BY <2>3 DEF Content
      <3> QED
        BY <1>1, <1>3, <2>1, <3>1, <3>2, RealFacts DEF Prefix
    <2> QED
      BY <2>2, <2>3
  <1> QED
    BY <1>1, <1>2, <1>3

LEMMA SourceReal ==
    ASSUME BackupTypeOK, ContentInv, NEW f \in Files
    PROVE  LET c == IF backupCase.standby THEN sb[f] ELSE pg[f].c
           IN  /\ c \in Real => Source(f) = Limit(c, m.entry[f].s) /\ Source(f) \in Real /\ Source(f) # NoContent
               /\ Source(f) # NoContent => c \in Real
  <1>1. m.entry[f].s \in Nat
    BY DEF BackupTypeOK, ManifestType, EntryType
  <1>2. sb[f] \in Real \cup {NoContent} /\ pg[f].c \in Real \cup {NoContent}
    BY DEF ContentInv, BackupTypeOK, FileType
  <1>3. PICK c \in Real \cup {NoContent} : c = IF backupCase.standby THEN sb[f] ELSE pg[f].c
    BY <1>2
  <1>4. Source(f) = IF c = NoContent THEN NoContent ELSE Limit(c, m.entry[f].s)
    BY <1>3 DEF Source
  <1>5. c \in Real => Source(f) = Limit(c, m.entry[f].s) /\ Limit(c, m.entry[f].s) \in Real
    <2>1. PICK s \in Nat : s = m.entry[f].s
      BY <1>1
    <2>2. c \in Real => Limit(c, s) \in Real
      BY LimitReal
    <2>3. c \in Real => c # NoContent
      BY RealFacts
    <2> QED
      BY <1>4, <2>1, <2>2, <2>3
  <1>6. c \in Real => Source(f) \in Real /\ Source(f) # NoContent
    BY <1>5, RealFacts
  <1>7. Source(f) # NoContent => c \in Real
    BY <1>3, <1>4
  <1> QED
    BY <1>3, <1>5, <1>6, <1>7

LEMMA ContentStep == ASSUME BaseInv, ContentInv, BackupNext PROVE ContentInv'
  <1>0. BackupTypeOK
    BY DEF BaseInv
  <1>1. CASE UNCHANGED <<pg, sb>>
    BY <1>1 DEF ContentInv
  <1>2. ASSUME NEW f \in Files, Write(f) PROVE ContentInv'
    <2>1. PICK s \in backupCase.sizes : pg' = [pg EXCEPT ![f] = File(writes + 1, s, now)]
      BY Zenon, <1>2 DEF Write
    <2>2. s \in Nat /\ writes + 1 \in Nat \ {0} /\ now \in Nat
      <3>1. backupCase \in BackupCases /\ writes \in Nat /\ now \in 1 .. MaxTime
        BY <1>0 DEF BackupTypeOK
      <3>2. s \in Nat
        BY <3>1, BackupAssumption
      <3> QED
        BY <3>1, <3>2, Constants
    <2>3. File(writes + 1, s, now).on /\ File(writes + 1, s, now).c \in Real
      <3>1. writes + 1 \in Nat
        BY <2>2
      <3>2. File(writes + 1, s, now).on /\ File(writes + 1, s, now).c = Content(writes + 1, s)
        BY <2>2, <3>1, FileTypes
      <3> QED
        BY <2>2, <3>2, RealFacts
    <2>4. sb' = sb
      BY <1>2 DEF Write
    <2> QED
      BY <1>0, <2>1, <2>3, <2>4 DEF ContentInv, BackupTypeOK
  <1>3. ASSUME NEW f \in Files, Drop(f) PROVE ContentInv'
    BY <1>0, <1>3, EntryTypes DEF ContentInv, Drop, BackupTypeOK
  <1>4. ASSUME NEW f \in Files, Touch(f) PROVE ContentInv'
    <2>1. pg' = [pg EXCEPT ![f] = [pg[f] EXCEPT !.t = Far]] /\ sb' = sb
      BY <1>4 DEF Touch
    <2>2. pg[f] \in FileType
      BY <1>0 DEF BackupTypeOK
    <2>3. [pg[f] EXCEPT !.t = Far].on = pg[f].on /\ [pg[f] EXCEPT !.t = Far].c = pg[f].c
      BY <2>2 DEF FileType
    <2> QED
      BY <1>0, <2>1, <2>3 DEF ContentInv, BackupTypeOK
  <1>5. ASSUME NEW f \in Files, Replay(f) PROVE ContentInv'
    <2>1. pg[f].c \in Real \cup {NoContent}
      BY <1>0 DEF ContentInv, BackupTypeOK, FileType
    <2> QED
      BY <1>0, <1>5, <2>1 DEF ContentInv, Replay, BackupTypeOK
  <1>6. ClusterNext => ContentInv'
    <2>1. BackupTick \/ Archive => UNCHANGED <<pg, sb>>
      BY DEF BackupTick, Archive, cluster
    <2> QED
      BY <1>1, <1>2, <1>3, <1>4, <1>5, <2>1, Constants DEF ClusterNext
  <1>7. (\E type \in BackupTypes, delta \in BOOLEAN, resume \in BOOLEAN : Start(type, delta, resume)) => UNCHANGED <<pg, sb>>
    BY DEF Start, cluster
  <1>8. ReplayWait \/ BuildFile \/ BuildDone \/ BuildIncr \/ JobsDone \/ ArchiveCheck => UNCHANGED <<pg, sb>>
    BY DEF ReplayWait, BuildFile, BuildDone, BuildIncr, JobsDone, ArchiveCheck, cluster
  <1>9. Resume \/ ResumeNot \/ SaveFirst \/ SavePeriodic \/ Stop \/ Complete \/ Kill => UNCHANGED <<pg, sb>>
    BY DEF Resume, ResumeNot, SaveFirst, SavePeriodic, Stop, Complete, Kill, cluster
  <1>10. (\E f \in Files : Job(f)) => UNCHANGED <<pg, sb>>
    BY DEF Job, cluster
  <1> QED
    BY <1>1, <1>6, <1>7, <1>8, <1>9, <1>10, Steps

\* References go on leading to completed backups
LEMMA HeldStays == ASSUME DoneKept, NEW f, NEW e, Held(backups, f, e) PROVE Held(backups', f, e)
  BY DEF DoneKept, Held

LEMMA DoneWholeStays == ASSUME DoneKept, NEW b, DoneWhole(backups, b) PROVE DoneWhole(backups', b)
  BY HeldStays DEF DoneWhole

\* The backups after a step: those that were there, and one that is not
\* complete or complete and whole
LEMMA StoredFrame ==
    ASSUME BaseInv, StoredInv, DoneKept, archived' \in Nat, archived <= archived', backups' \in Seq(StoredType),
           \A i \in DOMAIN backups' :
              \/ i \in DOMAIN backups /\ backups'[i] = backups[i]
              \/ ManSized(backups'[i].man) /\ (backups'[i].done => backups'[i].wal[2] <= archived' /\ DoneWhole(backups', backups'[i]))
    PROVE  StoredInv'
  <1> SUFFICES ASSUME NEW i \in DOMAIN backups'
               PROVE  /\ ManSized(backups'[i].man)
                      /\ backups'[i].done => backups'[i].wal[2] <= archived' /\ DoneWhole(backups', backups'[i])
    BY Zenon DEF StoredInv, ManSized, DoneWhole, Held, Sized
  <1>1. CASE i \in DOMAIN backups /\ backups'[i] = backups[i]
    <2>1. ManSized(backups[i].man) /\ (backups[i].done => backups[i].wal[2] <= archived /\ DoneWhole(backups, backups[i]))
      BY <1>1 DEF StoredInv
    <2>2. archived \in Nat /\ backups \in Seq(StoredType)
      BY DEF BaseInv, BackupTypeOK
    <2>3. PICK w \in Nat : w = backups[i].wal[2]
      <3>1. backups[i] \in StoredType
        BY <1>1, <2>2
      <3> QED
        BY <3>1 DEF StoredType
    <2>4. w <= archived => w <= archived'
      BY <2>2
    <2> QED
      BY <1>1, <2>1, <2>3, <2>4, DoneWholeStays
  <1> QED
    BY <1>1

LEMMA NoManifestSized == ManSized(NoManifest) /\ \A f \in Files : Sized(NoEntry)
  BY EntryTypes DEF ManSized, Sized

LEMMA StoredStep ==
    ASSUME BaseInv, WholeInv, BackupNext, BaseInv', DoneKept
    PROVE  StoredInv'
  <1>0. BackupTypeOK /\ OptInv /\ ManifestInv /\ StoredInv /\ archived \in Nat /\ backups' \in Seq(StoredType)
    BY DEF BaseInv, WholeInv, BackupTypeOK
  <1>1. CASE UNCHANGED backups /\ archived' \in Nat /\ archived <= archived'
    BY Zenon, <1>0, <1>1, StoredFrame
  <1>2. ASSUME UNCHANGED archived, backups # <<>>,
               NEW b \in StoredType, backups' = [backups EXCEPT ![Label] = b], ManSized(b.man), ~b.done
        PROVE  StoredInv'
    <2>1. \A i \in DOMAIN backups' : i \in DOMAIN backups /\ backups'[i] = IF i = Label THEN b ELSE backups[i]
      BY <1>0, <1>2, LastReplaced
    <2>2. archived' \in Nat /\ archived <= archived'
      BY <1>0, <1>2
    <2>3. \A i \in DOMAIN backups' :
            (i \in DOMAIN backups /\ backups'[i] = backups[i]) \/ (ManSized(backups'[i].man) /\ ~backups'[i].done)
      BY <1>2, <2>1
    <2> QED
      BY <1>0, <2>2, <2>3, StoredFrame
  <1>3. \A i \in DOMAIN backups : ManSized(backups[i].man)
    BY <1>0 DEF StoredInv
  <1>4. ManSized(m)
    BY <1>0 DEF ManifestInv, EntryInv, ManSized
  <1>5. CASE Resume
    <2>1. backups # <<>> /\ UNCHANGED archived /\ Label \in DOMAIN backups
      BY Zenon, <1>0, <1>5, ResumeDoes, LastType
    <2>2. PICK b \in StoredType : backups' = [backups EXCEPT ![Label] = b] /\ b.man = backups[Label].man /\ ~b.done
      BY Zenon, <1>5, ResumeDoes
    <2> QED
      BY ZenonT(30), <1>2, <1>3, <2>1, <2>2
  <1>6. CASE ResumeNot
    <2>1. /\ UNCHANGED archived /\ backups'[Label'] = NewBackup /\ Label' = Len(backups')
          /\ \A i \in DOMAIN backups' : i < Label' => i \in DOMAIN backups /\ backups'[i] = backups[i]
      BY <1>6, ResumeNotDoes
    <2>2. ManSized(NewBackup.man) /\ ~NewBackup.done
      BY NoManifestSized DEF NewBackup
    <2>3. \A i \in DOMAIN backups' : i < Label' \/ i = Label'
      BY <1>0, <2>1
    <2>4. archived' \in Nat /\ archived <= archived'
      BY <1>0, <2>1
    <2>5. \A i \in DOMAIN backups' :
            (i \in DOMAIN backups /\ backups'[i] = backups[i]) \/ (ManSized(backups'[i].man) /\ ~backups'[i].done)
      BY <2>1, <2>2, <2>3
    <2> QED
      BY <1>0, <2>4, <2>5, StoredFrame
  <1>7. CASE SaveFirst \/ SavePeriodic \/ Stop
    <2>1. phase \in Busy /\ SaveCopy /\ UNCHANGED archived
      BY <1>7 DEF SaveFirst, SavePeriodic, Stop, Busy
    <2>2. backups # <<>>
      BY <2>1, SaveCopyDoes
    <2>3. PICK b \in StoredType : backups' = [backups EXCEPT ![Label] = b] /\ b.man = m /\ ~b.done
      BY Zenon, <2>1, SaveCopyDoes
    <2> QED
      BY Zenon, <1>2, <1>4, <2>1, <2>2, <2>3
  <1>8. CASE \E f \in Files : Job(f)
    <2>1. backups # <<>> /\ UNCHANGED archived /\ Label \in DOMAIN backups
      BY Zenon, <1>0, <1>8, JobDoes, LastType
    <2>2. PICK b \in StoredType : backups' = [backups EXCEPT ![Label] = b] /\ b.man = backups[Label].man /\ ~b.done
      BY Zenon, <1>8, JobDoes
    <2> QED
      BY Zenon, <1>2, <1>3, <2>1, <2>2
  <1>9. CASE Complete
    <2>1. phase = "complete" /\ backups # <<>> /\ UNCHANGED archived
      BY <1>9, CompleteDoes
    <2>2. PICK b \in StoredType :
            /\ backups' = [backups EXCEPT ![Label] = b]
            /\ b.man = m /\ b.file = backups[Label].file /\ b.wal[2] = opt.stop
      BY <1>9, CompleteDoes
    <2>3. \A i \in DOMAIN backups' : i \in DOMAIN backups /\ backups'[i] = IF i = Label THEN b ELSE backups[i]
      BY <1>0, <2>1, <2>2, LastReplaced
    <2>4. DoneWhole(backups', b)
      <3> SUFFICES ASSUME NEW f \in Files
                   PROVE  /\ Held(backups', f, m.entry[f])
                          /\ m.entry[f].on => m.entry[f].sum # NoContent /\ (m.entry[f].ref = 0 => b.file[f] = m.entry[f].sum)
        BY Zenon, <2>2 DEF DoneWhole
      <3>1. EntryInv(f) /\ todo = {}
        BY <1>0, <2>1 DEF ManifestInv, OptInv
      <3>2. Held(backups', f, m.entry[f])
        BY <3>1, HeldStays DEF EntryInv
      <3>3. m.entry[f].on => m.entry[f].sum # NoContent /\ (m.entry[f].ref = 0 => backups[Label].file[f] = m.entry[f].sum)
        BY ZenonT(30), <2>1, <3>1 DEF EntryInv, Handled
      <3> QED
        BY <2>2, <3>2, <3>3
    <2>5. opt.stop <= archived'
      BY <1>0, <2>1 DEF OptInv
    <2>6. archived' \in Nat /\ archived <= archived'
      BY <1>0, <2>1
    <2>7. ManSized(b.man) /\ b.wal[2] <= archived'
      BY <1>4, <2>2, <2>5
    <2> QED
      BY Zenon, <1>0, <2>3, <2>4, <2>6, <2>7, StoredFrame
  <1>10. CASE Kill
    <2>1. UNCHANGED archived
      BY <1>10, KillDoes
    <2>2. CASE backups' = backups
      BY <1>0, <1>1, <2>1, <2>2
    <2>3. CASE backups # <<>> /\ \E b \in StoredType : backups' = [backups EXCEPT ![Label] = b] /\ Leaves(b)
      <3>1. PICK b \in StoredType : backups' = [backups EXCEPT ![Label] = b] /\ Leaves(b)
        BY Zenon, <2>3
      <3>2. Label \in DOMAIN backups
        BY <1>0, <2>3, LastType
      <3>3. ManSized(b.man) /\ ~b.done
        BY <1>3, <3>1, <3>2, NoManifestSized DEF Leaves
      <3> QED
        BY Zenon, <1>2, <2>1, <2>3, <3>1, <3>3
    <2> QED
      BY <1>10, <2>2, <2>3, KillDoes
  <1>11. ClusterNext /\ UNCHANGED backupCase => StoredInv'
    BY <1>0, <1>1, ClusterSame
  <1>12. (\E type \in BackupTypes, delta \in BOOLEAN, resume \in BOOLEAN : Start(type, delta, resume)) => StoredInv'
    <2>1. (\E type \in BackupTypes, delta \in BOOLEAN, resume \in BOOLEAN : Start(type, delta, resume)) => UNCHANGED <<backups, archived>>
      BY DEF Start
    <2> QED
      BY <1>0, <1>1, <2>1
  <1>13. ReplayWait \/ BuildFile \/ BuildDone \/ BuildIncr \/ JobsDone \/ ArchiveCheck => StoredInv'
    BY <1>0, <1>1 DEF ReplayWait, BuildFile, BuildDone, BuildIncr, JobsDone, ArchiveCheck
  <1> QED
    BY <1>5, <1>6, <1>7, <1>8, <1>9, <1>10, <1>11, <1>12, <1>13, Steps

\* The manifest through the steps of the command
LEMMA NoManifestInv ==
    ASSUME m' = NoManifest, phase' \in {"idle", "replay", "build"} PROVE ManifestInv'
  <1> SUFFICES ASSUME NEW f \in Files PROVE EntryInv(f)'
    BY DEF ManifestInv
  <1>1. m'.entry[f] = NoEntry
    BY EntryTypes
  <1> QED
    BY <1>1, EntryTypes DEF EntryInv, Sized, Held, Handled

\* Steps that leave the manifest, the jobs and the files of the backup alone
LEMMA ManifestSame ==
    ASSUME ManifestInv, DoneKept, UNCHANGED <<m, todo, skipped>>, opt'.delta = opt.delta,
           \/ phase' = phase
           \/ phase = "stop" /\ phase' = "archive"
           \/ phase = "archive" /\ phase' = "complete"
           \/ phase = "build" /\ phase' = "second"
           \/ phase = "resume" /\ phase' = "save",
           phase \in Busy => backups'[Label'].file = backups[Label].file
    PROVE  ManifestInv'
  <1> SUFFICES ASSUME NEW f \in Files PROVE EntryInv(f)'
    BY DEF ManifestInv
  <1>1. EntryInv(f)
    BY ZenonT(30) DEF ManifestInv
  <1>2. Held(backups', f, m.entry[f])
    BY ZenonT(30), <1>1, HeldStays DEF EntryInv
  <1>3. Handled(f)' => Handled(f) /\ phase \in Busy
    BY DEF Handled, Busy
  <1> QED
    BY ZenonT(30), <1>1, <1>2, <1>3 DEF EntryInv

LEMMA BuildFileDoes ==
    ASSUME BaseInv, BuildFile
    PROVE  /\ phase = "build" /\ phase' = "build" /\ built' = built + 1 /\ built < Len(FileSeq)
           /\ UNCHANGED <<now, pg, sb, writes, seg, archived, backups, opt, copyStart, todo, skipped, seen, kept, mixed, kills>>
           /\ m'.prior = m.prior
           /\ \E f \in Files : /\ f = FileSeq[built + 1]
                               /\ \A g \in Files : g # f => m'.entry[g] = m.entry[g]
                               /\ ~pg[f].on => m'.entry[f] = m.entry[f]
                               /\ pg[f].on => /\ m'.entry[f].on /\ m'.entry[f].t = pg[f].t /\ m'.entry[f].s = pg[f].c.s
                                              /\ m'.entry[f].sum = NoContent /\ m'.entry[f].ref = 0
  <1>0. BackupTypeOK
    BY DEF BaseInv
  <1>1. built + 1 \in 1 .. Len(FileSeq)
    BY <1>0, Constants DEF BuildFile, BackupTypeOK
  <1>2. PICK f \in Files : f = FileSeq[built + 1]
    BY <1>1, Constants
  <1>3. m \in ManifestType
    BY <1>0 DEF BackupTypeOK
  <1>4. pg[f].t \in Nat /\ pg[f].c.s \in Nat
    BY <1>0 DEF BackupTypeOK, FileType, ContentType
  <1>5. PICK e \in EntryType : e = [NoEntry EXCEPT !.on = TRUE, !.t = pg[f].t, !.s = pg[f].c.s]
    BY Zenon, <1>4, EntryTypes DEF EntryType
  <1>6. e.on /\ e.t = pg[f].t /\ e.s = pg[f].c.s /\ e.sum = NoContent /\ e.ref = 0
    BY <1>5 DEF NoEntry
  <1>7. m' = IF pg[f].on THEN [m EXCEPT !.entry = [m.entry EXCEPT ![f] = e]] ELSE m
    BY <1>2, <1>5 DEF BuildFile
  <1>8. pg[f].on => m'.prior = m.prior /\ m'.entry = [m.entry EXCEPT ![f] = e]
    BY <1>3, <1>7 DEF ManifestType
  <1>9. pg[f].on => m'.entry[f] = e /\ \A g \in Files : g # f => m'.entry[g] = m.entry[g]
    BY <1>3, <1>8 DEF ManifestType
  <1>10. m'.prior = m.prior
    BY <1>7, <1>8
  <1>11. /\ phase = "build" /\ phase' = "build" /\ built' = built + 1 /\ built < Len(FileSeq)
         /\ UNCHANGED <<now, pg, sb, writes, seg, archived, backups, opt, copyStart, todo, skipped, seen, kept, mixed, kills>>
    BY DEF BuildFile, cluster
  <1> QED
    BY <1>2, <1>6, <1>7, <1>9, <1>10, <1>11

LEMMA BuildFileManifest == ASSUME BaseInv, ManifestInv, BuildFile PROVE ManifestInv'
  <1>1. /\ phase = "build" /\ phase' = "build" /\ UNCHANGED <<backups, opt>> /\ m'.prior = m.prior
    BY BuildFileDoes
  <1>2. PICK f \in Files :
           /\ \A g \in Files : g # f => m'.entry[g] = m.entry[g]
           /\ ~pg[f].on => m'.entry[f] = m.entry[f]
           /\ pg[f].on => m'.entry[f].sum = NoContent /\ m'.entry[f].ref = 0
    BY BuildFileDoes
  <1> SUFFICES ASSUME NEW g \in Files PROVE EntryInv(g)'
    BY DEF ManifestInv
  <1>3. EntryInv(g)
    BY DEF ManifestInv
  <1>4. CASE m'.entry[g] = m.entry[g]
    BY <1>1, <1>3, <1>4 DEF EntryInv, Handled
  <1>5. CASE m'.entry[g].sum = NoContent /\ m'.entry[g].ref = 0
    BY <1>1, <1>5 DEF EntryInv, Handled, Sized, Held
  <1> QED
    BY <1>2, <1>4, <1>5

LEMMA SumTaken ==
    ASSUME NEW e \in EntryType, NEW c \in ContentType, NEW n \in Nat
    PROVE  /\ LET x == [e EXCEPT !.sum = c, !.ref = n]
              IN  x \in EntryType /\ x.on = e.on /\ x.s = e.s /\ x.t = e.t /\ x.sum = c /\ x.ref = n
           /\ LET x == [e EXCEPT !.sum = c]
              IN  x \in EntryType /\ x.on = e.on /\ x.s = e.s /\ x.t = e.t /\ x.sum = c /\ x.ref = e.ref
  BY Zenon DEF EntryType

\* An entry that refers to the prior backup, or where that one refers to
Referred(e, p, l) == [e EXCEPT !.sum = p.sum, !.ref = IF p.ref # 0 THEN p.ref ELSE l]

LEMMA RefTaken ==
    ASSUME NEW e \in EntryType, NEW p \in EntryType, NEW l \in Nat
    PROVE  /\ Referred(e, p, l) \in EntryType
           /\ Referred(e, p, l).on = e.on /\ Referred(e, p, l).s = e.s /\ Referred(e, p, l).t = e.t
           /\ Referred(e, p, l).sum = p.sum
           /\ p.ref # 0 => Referred(e, p, l).ref = p.ref
           /\ p.ref = 0 => Referred(e, p, l).ref = l
  <1>1. PICK n \in Nat : n = IF p.ref # 0 THEN p.ref ELSE l
    BY DEF EntryType
  <1>2. PICK c \in ContentType : c = p.sum
    BY DEF EntryType
  <1>3. [e EXCEPT !.sum = c, !.ref = n] \in EntryType
    BY Zenon DEF EntryType
  <1>4. PICK x \in EntryType : x = [e EXCEPT !.sum = c, !.ref = n]
    BY <1>3
  <1>5. x.on = e.on /\ x.s = e.s /\ x.t = e.t /\ x.sum = c /\ x.ref = n
    BY <1>4 DEF EntryType
  <1>6. Referred(e, p, l) = x
    BY <1>1, <1>2, <1>4 DEF Referred
  <1> QED
    BY <1>1, <1>2, <1>5, <1>6

LEMMA BuildIncrManifest ==
    ASSUME BaseInv, ManifestInv, StoredInv, BuildIncr PROVE ManifestInv'
  <1>1. phase = "second" /\ phase' = "resume" /\ UNCHANGED backups
    BY BuildIncrDoes
  <1>2. PICK delta \in BOOLEAN : m'.prior = opt.prior /\ m'.entry = Reference(delta, Prior, opt.prior)
    BY BuildIncrDoes
  <1> SUFFICES ASSUME NEW f \in Files PROVE EntryInv(f)'
    BY DEF ManifestInv
  <1>3. EntryInv(f) /\ m.entry[f].ref = 0 /\ m.entry[f].sum = NoContent
    BY Zenon, <1>1 DEF ManifestInv, EntryInv
  <1>4. PICK e \in EntryType : e = m.entry[f]
    BY DEF BaseInv, BackupTypeOK, ManifestType
  <1>5. PICK p \in EntryType : p = Prior.entry[f]
    BY <1>1, PriorType DEF ManifestType
  <1>6. m'.entry[f] = IF e.on /\ p.on /\ CanReference(delta, e, p)
                      THEN Referred(e, p, opt.prior) ELSE e
    BY Zenon, <1>2, <1>4, <1>5 DEF Reference, Referred
  <1>7. CASE ~(e.on /\ p.on /\ CanReference(delta, e, p))
    BY Zenon, <1>1, <1>3, <1>4, <1>6, <1>7 DEF EntryInv, Handled, Sized, Held
  <1>8. CASE e.on /\ p.on /\ CanReference(delta, e, p)
    <2>1. opt.prior # 0
      BY Zenon, <1>5, <1>8, EntryTypes DEF Prior
    <2>2. opt.prior \in DOMAIN backups /\ backups[opt.prior].done /\ Prior = backups[opt.prior].man
      BY <1>1, <2>1 DEF BaseInv, OptInv, Prior
    <2>3. ManSized(Prior) /\ DoneWhole(backups, backups[opt.prior])
      BY <2>2 DEF StoredInv
    <2>4. /\ Sized(p) /\ Held(backups, f, p) /\ p.sum # NoContent
          /\ p.ref = 0 => backups[opt.prior].file[f] = p.sum
      BY Zenon, <1>5, <1>8, <2>2, <2>3 DEF ManSized, DoneWhole
    <2>5. e.s = p.s
      BY <1>8 DEF CanReference
    <2>6. PICK x \in EntryType :
            /\ x = Referred(e, p, opt.prior)
            /\ x.on = e.on /\ x.s = e.s /\ x.sum = p.sum
            /\ x.ref = (IF p.ref # 0 THEN p.ref ELSE opt.prior)
      <3>1. opt.prior \in Nat
        BY DEF BaseInv, BackupTypeOK, OptType
      <3> QED
        BY Zenon, <3>1, RefTaken
    <2>7. Sized(x)
      BY Zenon, <1>8, <2>4, <2>5, <2>6 DEF Sized
    <2>8. Held(backups, f, x)
      BY Zenon, <1>8, <2>2, <2>4, <2>6 DEF Held
    <2>9. m'.entry[f] = x /\ m'.prior # 0
      BY Zenon, <1>2, <1>6, <1>8, <2>1, <2>6
    <2> QED
      BY ZenonT(30), <1>1, <2>7, <2>8, <2>9 DEF EntryInv, Handled
  <1> QED
    BY <1>7, <1>8

LEMMA ResumeManifest == ASSUME BaseInv, ManifestInv, StoredInv, DoneKept, Resume PROVE ManifestInv'
  <1>1. /\ phase = "resume" /\ phase' = "save" /\ backups # <<>> /\ m'.prior = m.prior
        /\ m'.entry = [f \in Files |-> ResumedEntry(f)]
    BY ResumeDoes
  <1> SUFFICES ASSUME NEW f \in Files PROVE EntryInv(f)'
    BY DEF ManifestInv
  <1>2. EntryInv(f)
    BY DEF ManifestInv
  <1>3. PICK e \in EntryType : e = m.entry[f]
    BY DEF BaseInv, BackupTypeOK, ManifestType
  <1>4. PICK r \in EntryType : r = backups[Label].man.entry[f]
    BY <1>1, LastType DEF BaseInv, StoredType, ManifestType
  <1>5. m'.entry[f] = IF f \in Resumed(backups[Label]) THEN [e EXCEPT !.sum = r.sum] ELSE e
    BY <1>1, <1>3, <1>4 DEF ResumedEntry
  <1>6. CASE f \notin Resumed(backups[Label])
    <2>1. Held(backups', f, e)
      BY Zenon, <1>2, <1>3, HeldStays DEF EntryInv
    <2> QED
      BY <1>1, <1>2, <1>3, <1>5, <1>6, <2>1 DEF EntryInv, Handled
  <1>7. CASE f \in Resumed(backups[Label])
    <2>1. e.on /\ e.ref = 0 /\ r.on /\ r.sum # NoContent /\ e.s = r.s
      BY Zenon, <1>3, <1>4, <1>7 DEF Resumed, ResumeFile
    <2>2. Sized(r)
      BY Zenon, <1>1, <1>4, LastType DEF StoredInv, ManSized, BaseInv
    <2>3. PICK x \in EntryType : x = [e EXCEPT !.sum = r.sum] /\ x.on = e.on /\ x.s = e.s /\ x.sum = r.sum /\ x.ref = e.ref
      <3>1. r.sum \in ContentType
        BY DEF EntryType
      <3> QED
        BY Zenon, <3>1, SumTaken
    <2>4. m'.entry[f] = x
      BY <1>5, <1>7, <2>3
    <2>5. Sized(x) /\ Held(backups', f, x)
      BY <2>1, <2>2, <2>3 DEF Sized, Held
    <2> QED
      BY Zenon, <1>1, <2>1, <2>3, <2>4, <2>5 DEF EntryInv, Handled
  <1> QED
    BY <1>6, <1>7

LEMMA SaveFirstManifest == ASSUME BaseInv, ManifestInv, DoneKept, SaveFirst PROVE ManifestInv'
  <1>1. phase = "save" /\ phase' = "copy" /\ UNCHANGED <<opt, m, skipped>> /\ todo' = {f \in Files : InQueue(m.entry[f])}
    BY DEF SaveFirst
  <1> SUFFICES ASSUME NEW f \in Files PROVE EntryInv(f)'
    BY DEF ManifestInv
  <1>2. EntryInv(f)
    BY DEF ManifestInv
  <1>3. Held(backups', f, m.entry[f])
    BY Zenon, <1>2, HeldStays DEF EntryInv
  <1>4. f \in todo' => m.entry[f].on /\ (m.entry[f].ref # 0 => opt.delta /\ m.entry[f].s # 0)
    BY <1>1 DEF InQueue
  <1>5. m.entry[f].on /\ f \notin todo' => m.entry[f].ref # 0 /\ m.entry[f].sum # NoContent
    <2>1. m.entry[f].on /\ f \notin todo' => m.entry[f].ref # 0
      BY <1>1 DEF InQueue
    <2> QED
      BY <1>3, <2>1 DEF Held
  <1> QED
    BY Zenon, <1>1, <1>2, <1>3, <1>4, <1>5 DEF EntryInv, Handled

LEMMA JobManifest == ASSUME BaseInv, ContentInv, ManifestInv, DoneKept, NEW f \in Files, Job(f) PROVE ManifestInv'
  <1>0. BackupTypeOK
    BY DEF BaseInv
  <1>1. /\ phase = "copy" /\ phase' = "copy" /\ f \in todo /\ todo' = todo \ {f} /\ backups # <<>> /\ opt' = opt
    BY Zenon, JobDoes
  <1>2. PICK b \in StoredType :
          /\ backups' = [backups EXCEPT ![Label] = b]
          /\ \A g \in Files : g # f => b.file[g] = backups[Label].file[g]
          /\ JobCopies(f, b) \/ JobSkips(f) \/ JobLeaves(f, b)
    BY Zenon, JobDoes
  <1>3. Label' = Label /\ backups'[Label] = b
    BY Zenon, <1>0, <1>1, <1>2, LastReplaced
  <1>4. m'.prior = m.prior /\ (\A g \in Files : g # f => m'.entry[g] = m.entry[g])
    BY Zenon, <1>0, <1>2, CopiedManifest DEF JobSkips, JobLeaves
  <1>5. skipped' \in {skipped, skipped \cup {f}}
    BY <1>2 DEF JobCopies, JobSkips, JobLeaves
  <1> SUFFICES ASSUME NEW g \in Files PROVE EntryInv(g)'
    BY DEF ManifestInv
  <1>6. EntryInv(g)
    BY DEF ManifestInv
  <1>7. CASE g # f
    <2>1. Held(backups', g, m.entry[g])
      BY Zenon, <1>6, HeldStays DEF EntryInv
    <2>2. m'.entry[g] = m.entry[g] /\ backups'[Label].file[g] = backups[Label].file[g]
      BY Zenon, <1>2, <1>3, <1>4, <1>7
    <2>3. Handled(g)' => Handled(g)
      BY <1>1, <1>5, <1>7 DEF Handled
    <2> QED
      BY Zenon, <1>1, <1>3, <1>4, <1>6, <2>1, <2>2, <2>3 DEF EntryInv
  <1>8. CASE g = f
    <2>1. CASE JobCopies(f, b)
      <3>1. Source(f) \in Real /\ Source(f) # NoContent /\ Source(f) \in ContentType
        BY <1>0, <2>1, SourceReal, SourceType DEF JobCopies
      <3>3. m'.entry[f].s = Source(f).s /\ m'.entry[f].sum = Source(f) /\ m'.entry[f].ref = 0
        BY Zenon, <1>0, <2>1, CopiedManifest
      <3>4. Sized(m'.entry[f]) /\ Held(backups', f, m'.entry[f])
        BY Zenon, <3>1, <3>3 DEF Sized, Held
      <3>5. backups'[Label'].file[f] = Source(f)
        BY <1>3, <2>1 DEF JobCopies
      <3> QED
        BY Zenon, <1>1, <1>8, <3>1, <3>3, <3>4, <3>5 DEF EntryInv
    <2>2. CASE JobSkips(f)
      <3>1. m' = m /\ f \in skipped'
        BY <2>2 DEF JobSkips
      <3>2. Held(backups', f, m.entry[f])
        BY Zenon, <1>6, <1>8, HeldStays DEF EntryInv
      <3> QED
        BY Zenon, <1>1, <1>6, <1>8, <3>1, <3>2 DEF EntryInv, Handled
    <2>3. CASE JobLeaves(f, b)
      <3>1. m' = m /\ m.entry[f].sum # NoContent /\ (m.entry[f].ref = 0 => b.file[f] = m.entry[f].sum)
        BY Zenon, <2>3 DEF JobLeaves
      <3>2. Held(backups', f, m.entry[f])
        BY Zenon, <1>6, <1>8, HeldStays DEF EntryInv
      <3> QED
        BY Zenon, <1>1, <1>3, <1>6, <1>8, <3>1, <3>2 DEF EntryInv
    <2> QED
      BY <1>2, <2>1, <2>2, <2>3
  <1> QED
    BY <1>7, <1>8

LEMMA JobsDoneManifest == ASSUME BaseInv, ManifestInv, JobsDone PROVE ManifestInv'
  <1>1. /\ phase = "copy" /\ phase' = "stop" /\ todo = {} /\ m'.prior = m.prior
        /\ UNCHANGED <<backups, todo, skipped>>
        /\ \A f \in Files : m'.entry[f] = IF f \in skipped THEN NoEntry ELSE m.entry[f]
    BY Zenon, JobsDoneDoes
  <1> SUFFICES ASSUME NEW f \in Files PROVE EntryInv(f)'
    BY DEF ManifestInv
  <1>2. EntryInv(f)
    BY DEF ManifestInv
  <1>3. CASE f \in skipped
    BY Zenon, <1>1, <1>3, EntryTypes DEF EntryInv, Sized, Held
  <1>4. CASE f \notin skipped
    <2>1. Handled(f)
      BY <1>1, <1>4 DEF Handled
    <2>2. m'.entry[f] = m.entry[f] /\ Label' = Label
      BY <1>1, <1>4 DEF Label
    <2> QED
      BY Zenon, <1>1, <1>2, <1>4, <2>1, <2>2 DEF EntryInv
  <1> QED
    BY <1>3, <1>4

LEMMA ManifestStep ==
    ASSUME BaseInv, WholeInv, BackupNext, DoneKept
    PROVE  ManifestInv'
  <1>0. BackupTypeOK /\ OptInv /\ ContentInv /\ ManifestInv /\ StoredInv
    BY DEF BaseInv, WholeInv
  <1>1. ASSUME ClusterNext, UNCHANGED backupCase PROVE ManifestInv'
    <2>1. UNCHANGED <<backups, phase, opt, m, todo, skipped>>
      BY <1>0, <1>1, ClusterSame
    <2> QED
      BY <1>0, <2>1, ManifestSame DEF Label
  <1>2. ASSUME NEW type \in BackupTypes, NEW delta \in BOOLEAN, NEW resume \in BOOLEAN, Start(type, delta, resume)
        PROVE  ManifestInv'
    <2>1. m' = NoManifest /\ phase' \in {"replay", "build"}
      BY <1>2 DEF Start
    <2> QED
      BY <2>1, NoManifestInv
  <1>3. CASE ReplayWait
    BY Zenon, <1>0, <1>3, NoManifestInv DEF ReplayWait, OptInv
  <1>4. CASE BuildDone \/ ArchiveCheck
    <2>1. UNCHANGED <<backups, opt, m, todo, skipped>>
      BY <1>4 DEF BuildDone, ArchiveCheck
    <2>2. (phase = "build" /\ phase' = "second") \/ (phase = "archive" /\ phase' = "complete")
      BY <1>4 DEF BuildDone, ArchiveCheck
    <2> QED
      BY <1>0, <2>1, <2>2, ManifestSame DEF Label
  <1>5. CASE ResumeNot
    <2>1. phase = "resume" /\ phase' = "save" /\ UNCHANGED <<m, todo, skipped, opt>>
      BY <1>5 DEF ResumeNot
    <2> QED
      BY <1>0, <2>1, ManifestSame DEF Busy
  <1>6. CASE SavePeriodic \/ Stop
    <2>1. phase \in {"copy", "stop"} /\ SaveCopy /\ UNCHANGED <<m, todo, skipped>> /\ opt'.delta = opt.delta
      BY <1>0, <1>6 DEF SavePeriodic, Stop, process, BackupTypeOK, OptType
    <2>2. phase' = phase \/ (phase = "stop" /\ phase' = "archive")
      BY <1>6 DEF SavePeriodic, Stop, process
    <2>3. backups # <<>>
      BY Zenon, <2>1, SaveCopyDoes DEF Busy
    <2>4. PICK b \in StoredType : backups' = [backups EXCEPT ![Label] = b] /\ b.file = backups[Label].file
      BY Zenon, <2>1, SaveCopyDoes DEF Busy
    <2>5. backups'[Label'].file = backups[Label].file
      BY Zenon, <1>0, <2>3, <2>4, LastReplaced
    <2> QED
      BY <1>0, <2>1, <2>2, <2>5, ManifestSame
  <1>7. CASE Complete \/ Kill
    <2>1. m' = NoManifest /\ phase' = "idle"
      BY <1>7 DEF Complete, Kill
    <2> QED
      BY <2>1, NoManifestInv
  <1> QED
    BY <1>0, <1>1, <1>2, <1>3, <1>4, <1>5, <1>6, <1>7, Steps,
       BuildFileManifest, BuildIncrManifest, ResumeManifest, SaveFirstManifest, JobManifest, JobsDoneManifest

LEMMA InitWhole == BackupInit => WholeInv
  <1> SUFFICES ASSUME BackupInit PROVE WholeInv
    OBVIOUS
  <1>1. ContentInv
    <2>1. \A f \in Files : pg[f] = File(0, 1, 0) /\ sb[f] = Content(0, 1)
      BY DEF BackupInit
    <2>2. File(0, 1, 0).on /\ File(0, 1, 0).c = Content(0, 1)
      BY FileTypes
    <2> QED
      <3>1. Content(0, 1) \in Real
        BY RealFacts
      <3> QED
        BY <2>1, <2>2, <3>1 DEF ContentInv
  <1>2. ManifestInv
    <2> SUFFICES ASSUME NEW f \in Files PROVE EntryInv(f)
      BY DEF ManifestInv
    <2>1. m.entry[f] = NoEntry /\ phase = "idle"
      BY Zenon, EntryTypes DEF BackupInit
    <2> QED
      BY Zenon, <2>1, EntryTypes DEF EntryInv, Sized, Held, Handled
  <1>3. StoredInv
    <2>1. backups = <<>>
      BY DEF BackupInit
    <2>2. DOMAIN backups = {}
      BY <2>1
    <2> QED
      BY <2>2 DEF StoredInv
  <1> QED
    BY <1>1, <1>2, <1>3 DEF WholeInv

LEMMA SameWhole == ASSUME BaseInv, WholeInv, UNCHANGED backupVars PROVE WholeInv'
  <1>1. UNCHANGED <<pg, sb, archived, backups, phase, opt, m, todo, skipped>>
    BY DEF backupVars, cluster, process
  <1>2. ContentInv' /\ DoneKept
    BY <1>1 DEF WholeInv, ContentInv, DoneKept
  <1>3. ManifestInv'
    BY <1>1, <1>2, ManifestSame DEF WholeInv, Label
  <1>4. archived \in Nat /\ backups \in Seq(StoredType)
    BY DEF BaseInv, BackupTypeOK
  <1>5. StoredInv'
    <2>1. archived' \in Nat /\ archived <= archived' /\ backups' \in Seq(StoredType)
      BY <1>1, <1>4
    <2>2. \A i \in DOMAIN backups' : i \in DOMAIN backups /\ backups'[i] = backups[i]
      BY <1>1
    <2>3. StoredInv
      BY DEF WholeInv
    <2> QED
      BY Zenon, <1>2, <2>1, <2>2, <2>3, StoredFrame
  <1> QED
    BY <1>2, <1>3, <1>5 DEF WholeInv

\* What the manifests say of the files in the repository (WholeInv) holds in
\* every state.
THEOREM BackupWhole == BackupSpec => []WholeInv
  <1>1. BackupInit => WholeInv
    BY InitWhole
  <1>2. BaseInv /\ BaseInv' /\ WholeInv /\ [BackupNext]_backupVars => WholeInv'
    BY StepDone, ContentStep, ManifestStep, StoredStep, SameWhole DEF WholeInv
  <1> QED
    BY <1>1, <1>2, BackupInvariant, PTL DEF BackupSpec

\* What a completed backup restores is what its manifest describes: for every
\* file the copy in the backup, or in the one manifestBuildIncr() refers to, has
\* the checksum of the manifest, and the WAL of the backup is archived, for any
\* number of files and any number of killed and resumed backups.
THEOREM CompletedIsWhole == BackupSpec => []CompleteWhole
  <1>1. StoredInv => CompleteWhole
    <2> SUFFICES ASSUME StoredInv, NEW i \in DOMAIN backups, backups[i].done
                 PROVE  /\ \A f \in Listed(backups[i].man) : Stored(backups[i], f) = backups[i].man.entry[f].sum
                        /\ backups[i].wal[2] <= archived
      BY DEF CompleteWhole
    <2>1. DoneWhole(backups, backups[i]) /\ backups[i].wal[2] <= archived
      BY DEF StoredInv
    <2> QED
      BY Zenon, <2>1 DEF DoneWhole, Held, Listed, Stored
  <1> QED
    BY <1>1, BackupWhole, PTL DEF WholeInv

\* manifestValidate() in strict mode, called by backupComplete(), never finds
\* an entry without a checksum or an empty file with another checksum.
THEOREM CompletesValid == BackupSpec => []AlwaysValid
  <1>1. BaseInv /\ WholeInv => AlwaysValid
    <2> SUFFICES ASSUME BaseInv, WholeInv, phase = "complete", NEW f \in Listed(m)
                 PROVE  m.entry[f].sum # NoContent /\ (m.entry[f].s = 0 => m.entry[f].sum = Empty)
      BY DEF AlwaysValid, Valid
    <2>1. EntryInv(f) /\ f \in Files /\ m.entry[f].on /\ todo = {}
      BY DEF WholeInv, ManifestInv, Listed, BaseInv, OptInv
    <2>2. m.entry[f].sum # NoContent
      BY Zenon, <2>1 DEF EntryInv, Handled
    <2>3. m.entry[f].sum \in Real /\ m.entry[f].sum.s = m.entry[f].s
      BY Zenon, <2>1, <2>2 DEF EntryInv, Sized
    <2> QED
      BY <2>2, <2>3, RealFacts
  <1> QED
    BY <1>1, BackupInvariant, BackupWhole, PTL
=============================================================================
