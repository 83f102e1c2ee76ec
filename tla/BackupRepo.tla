----------------------------- MODULE BackupRepo -----------------------------
(***************************************************************************)
(* The backups of one stanza in one repository: the backup directories and *)
(* their manifests, backup.info and its copy, the backup history, and the  *)
(* two commands that change them, backup and expire (command/backup,       *)
(* command/expire, info/infoBackup.c).                                     *)
(*                                                                         *)
(* Both commands hold the backup lock (module Lock), so one runs at a time *)
(* and every change of the repository is one of its steps; it may be       *)
(* killed between any two of them.  Storage writes a file all or nothing.  *)
(*                                                                         *)
(* A label YYYYMMDD-HHMMSSF[_YYYYMMDD-HHMMSS(D|I)] is a number with the    *)
(* order of the strings; time is in seconds from 1.  The data an entry of  *)
(* backup.info carries is the data of the backup's manifest.               *)
(***************************************************************************)
EXTENDS Naturals, Sequences, FiniteSets, SequencesExt, FiniteSetsExt

CONSTANTS
    T,                  \* bound on the time
    Year,               \* seconds in a year
    MaxBackup,          \* bound on backup commands
    RepoCases           \* the situations that are looked at, records of
                        \* retention: the settings expire is run with, of
                        \*    repo-retention-full, whether -full-type is time,
                        \*    -diff (0 when not set) and -history (above T
                        \*    when not set)
                        \* adhoc: is expire run with --set?
                        \* types: the backup types that are asked for
                        \* until: bound on the time
                        \* faults: bound on killed commands and lost files

ASSUME BackupRepoAssumption ==
    /\ {T, Year} \subseteq Nat \ {0} /\ MaxBackup \in Nat
    /\ \A c \in RepoCases :
         /\ c.retention # {}
         /\ \A opt \in c.retention : {opt.full, opt.diff, opt.history} \subseteq Nat /\ opt.time \in BOOLEAN
         /\ c.adhoc \in BOOLEAN
         /\ c.types \subseteq {"full", "diff", "incr"}
         /\ c.until \in 1 .. T /\ c.faults \in Nat

None == 0               \* no label
Base == 2 * (T + 2)

\* backupLabelFormat(): the time of the full backup comes first, then the
\* time of the backup itself, and of two equal ones D is before I
LabelFormat(type, prior, time) ==
    IF type = "full" THEN time * Base
    ELSE (prior \div Base) * Base + 2 * time + (IF type = "incr" THEN 1 ELSE 0)

FullOf(b) == b \div Base
VARIABLES
    repoCase,   \* the situation, it does not change
    disk,       \* the backup directories
    main,       \* the backups with a backup.manifest
    copy,       \* the backups with a backup.manifest.copy
    whole,      \* the directories that hold every file of the backup
    manifest,   \* what the manifest of each backup says
    info,       \* backup.info, backup.info.copy: the backups listed
    lost,       \* is backup.info missing or damaged?
    history,    \* the manifests in backup.history
    pgId,       \* current pg id of backup.info
    clock,
    cmd,        \* the command that runs
    result,     \* how the last command ended
    count       \* backup commands and faults so far

repoVars == <<repoCase, disk, main, copy, whole, manifest, info, lost, history, pgId, clock,
          cmd, result, count>>
repo == <<disk, main, copy, whole, manifest>>

NoRetention == [full |-> 0, time |-> FALSE, diff |-> 0, history |-> T + 1]

Idle == [pc |-> "idle", cur |-> {}, type |-> "full", prior |-> None,
         label |-> None, time |-> 0, adhoc |-> None, opt |-> NoRetention,
         todo |-> <<>>]

RepoInit ==
    /\ repoCase \in RepoCases
    /\ disk = {} /\ main = {} /\ copy = {} /\ whole = {}
    /\ manifest = <<>>
    /\ info = [main |-> {}, copy |-> {}]
    /\ lost = FALSE
    /\ history = {}
    /\ pgId = 1
    /\ clock = 1
    /\ cmd = Idle
    /\ result = "ok"
    /\ count = [backup |-> 0, fault |-> 0]

Isfull(b) == manifest[b].type = "full"

------------------------------------------------------------------------------
(* backup.info.                                                            *)

\* infoBackupDataDependentList(): b and the backups of cur that depend on it
Dependents(cur, b) ==
    LET dep[l \in cur] ==
            l = b \/ (manifest[l].prior \in cur /\ dep[manifest[l].prior])
    IN  {l \in cur : dep[l]}

\* the copy is used when the main file cannot be read
LoadFile == IF lost THEN info.copy ELSE info.main

\* Variant: the backups without a manifest stay in the list.
ReconstructAdd == LoadFile \cup main

\* infoBackupLoadFileReconstruct(): drop the backups without a manifest and
\* what depends on them, then add the ones with a manifest, oldest first,
\* whose prior is in the list
Reconstruct ==
    LET loaded == LoadFile
        kept == loaded \ UNION {Dependents(loaded, b) : b \in loaded \ main}
        found[l \in main] ==
            \/ l \in kept
            \/ manifest[l].prior = None
            \/ manifest[l].prior \in main /\ found[manifest[l].prior]
    IN  kept \cup {l \in main : found[l]}

InfoSaveMain ==
    /\ cmd.pc = "infoMain"
    /\ info' = [info EXCEPT !.main = cmd.cur]
    /\ lost' = FALSE
    /\ cmd' = [cmd EXCEPT !.pc = "infoCopy"]
    /\ UNCHANGED <<repo, history, pgId, clock, result, count>>

\* the backup command is over when backup.info is saved
InfoSaveCopy ==
    /\ cmd.pc = "infoCopy"
    /\ info' = [info EXCEPT !.copy = cmd.cur]
    /\ IF cmd.label # None
       THEN cmd' = Idle /\ result' = "ok"
       ELSE cmd' = [cmd EXCEPT !.pc = "removeBackup"] /\ UNCHANGED result
    /\ UNCHANGED <<repo, lost, history, pgId, clock, count>>

------------------------------------------------------------------------------
(* The backup command.                                                     *)

\* backupBuildIncrPrior(): the newest backup of the same cluster, which has
\* to be full for a diff
Prior(cur, type) ==
    LET prior == {b \in cur : /\ manifest[b].pgId = pgId
                              /\ type = "diff" => Isfull(b)}
    IN  IF type = "full" \/ prior = {} THEN None ELSE Max(prior)

\* cmdBackup() up to the manifest of what is to be copied; without a prior
\* the type is changed to full
BackupStart(type) ==
    /\ cmd.pc = "idle"
    /\ count.backup < MaxBackup /\ clock <= repoCase.until
    /\ LET prior == Prior(Reconstruct, type)
       IN  cmd' = [Idle EXCEPT !.pc = "resume", !.cur = Reconstruct,
                               !.type = IF prior = None THEN "full" ELSE type,
                               !.prior = prior, !.time = clock]
    /\ count' = [count EXCEPT !.backup = @ + 1]
    /\ UNCHANGED <<repo, info, lost, history, pgId, clock, result>>

\* backupResumeFind(): only the newest directory can be resumed, when it has
\* a manifest copy and no manifest
Resumable(b) ==
    /\ b \in copy \ main
    /\ manifest[b].type = cmd.type
    /\ manifest[b].prior = cmd.prior

\* backupResume(): take the label of the resumed backup and clean it up.
\* The option, the version or the compression may still forbid it, and then
\* the directory is removed.
BackupResume ==
    /\ cmd.pc = "resume"
    /\ IF disk = {} \/ Max(disk) \in main
       THEN /\ cmd' = [cmd EXCEPT !.pc = "label"]
            /\ UNCHANGED whole
       ELSE \/ /\ Resumable(Max(disk))
               /\ cmd' = [cmd EXCEPT !.pc = "saveCopy", !.label = Max(disk)]
               /\ whole' = whole \ {Max(disk)}
            \/ /\ cmd' = [cmd EXCEPT !.pc = "removeResume",
                                     !.todo = <<Max(disk)>>]
               /\ UNCHANGED whole
    /\ UNCHANGED <<disk, main, copy, manifest, info, lost, history, pgId,
                   clock, result, count>>

\* the label after which the new one has to come
LatestLabel == Max(disk \cup history \cup {None})

\* backupLabelCreate(): one second is added when the label is not the latest,
\* and then the command sleeps until that second has begun
BackupLabel ==
    /\ cmd.pc = "label"
    /\ \E add \in {0, 1} :
           LET label == LabelFormat(cmd.type, cmd.prior, cmd.time + add)
           IN  /\ add = 1 =>
                      LabelFormat(cmd.type, cmd.prior, cmd.time) <= LatestLabel
               /\ \/ /\ label > LatestLabel
                     /\ cmd' = [cmd EXCEPT !.pc = "saveCopy", !.label = label]
                     /\ clock' = Max({clock, cmd.time + add})
                     /\ UNCHANGED result
                  \/ /\ add = 1 /\ label <= LatestLabel
                     /\ cmd' = Idle
                     /\ result' = "not later than latest"
                     /\ UNCHANGED clock
    /\ UNCHANGED <<repo, info, lost, history, pgId, count>>

\* backupManifestSaveCopy() before the files are copied.  The pg id is set
\* when the manifest is complete.
BackupSaveCopy ==
    /\ cmd.pc = "saveCopy"
    /\ disk' = disk \cup {cmd.label}
    /\ copy' = copy \cup {cmd.label}
    /\ manifest' = [b \in DOMAIN manifest \cup {cmd.label} |->
                       IF b = cmd.label
                       THEN [type |-> cmd.type, prior |-> cmd.prior,
                             pgId |-> 0, stop |-> 0]
                       ELSE manifest[b]]
    /\ cmd' = [cmd EXCEPT !.pc = "process"]
    /\ UNCHANGED <<main, whole, info, lost, history, pgId, clock, result, count>>

\* backupProcess(), backupStop(), backupArchiveCheckCopy() and the manifest
\* copy saved by backupComplete()
BackupProcess ==
    /\ cmd.pc = "process"
    /\ whole' = whole \cup {cmd.label}
    /\ manifest' = [manifest EXCEPT ![cmd.label].pgId = pgId,
                                    ![cmd.label].stop = clock]
    /\ cmd' = [cmd EXCEPT !.pc = "main"]
    /\ UNCHANGED <<disk, main, copy, info, lost, history, pgId, clock, result,
                   count>>

\* backupComplete(): the copy becomes the manifest ...
BackupMain ==
    /\ cmd.pc = "main"
    /\ main' = main \cup {cmd.label}
    /\ cmd' = [cmd EXCEPT !.pc = "history"]
    /\ UNCHANGED <<disk, copy, whole, manifest, info, lost, history, pgId,
                   clock, result, count>>

\* ... it is added to the history, and the backup is added to the list
BackupHistory ==
    /\ cmd.pc = "history"
    /\ history' = history \cup {cmd.label}
    /\ cmd' = [cmd EXCEPT !.pc = "infoMain", !.cur = @ \cup {cmd.label}]
    /\ UNCHANGED <<repo, info, lost, pgId, clock, result, count>>

------------------------------------------------------------------------------
(* The expire command.                                                     *)

Newest(S, n) == {b \in S : Cardinality({c \in S : c > b}) < n}

\* Variant: one full backup too many is expired, the last old enough included.
FullExpiredMore(cur, opt) ==
    LET full == {b \in cur : Isfull(b)}
        old == {b \in full : manifest[b].stop + opt.full < clock}
    IN  IF opt.time THEN {b \in full : \E c \in old : b <= c}
        ELSE full \ Newest(full, opt.full - 1)

\* expireFullBackup() keeps as many full backups as are to be retained;
\* expireTimeBasedBackup() keeps the newest one that is old enough and all
\* after it
FullExpired(cur, opt) ==
    LET full == {b \in cur : Isfull(b)}
        old == {b \in full : manifest[b].stop + opt.full < clock}
    IN  IF opt.full = 0 THEN {}
        ELSE IF opt.time THEN {b \in full : \E c \in old : b < c}
        ELSE full \ Newest(full, opt.full)

\* expireDiffBackup(): a full backup counts as a differential one
DiffExpired(cur, opt) ==
    LET diff == {b \in cur : manifest[b].type \in {"full", "diff"}}
    IN  IF opt.diff = 0 THEN {}
        ELSE {b \in diff \ Newest(diff, opt.diff) : ~Isfull(b)}

\* Variant: the oldest backup is removed first.
ExpireBackupOldest(cur, b) == SetToSortSeq(Dependents(cur, b), <)

\* expireBackup(): a backup and its dependents, the newest first
ExpireBackup(cur, b) == SetToSortSeq(Dependents(cur, b), >)

ExpireEach(cur, roots) ==
    LET seq == SetToSortSeq(roots, <)
    IN  FlattenSeq([i \in 1 .. Len(seq) |-> ExpireBackup(cur, seq[i])])

ExpireRetention(cur, opt) ==
    LET full == FullExpired(cur, opt)
        left == cur \ UNION {Dependents(cur, b) : b \in full}
    IN  ExpireEach(cur, full) \o ExpireEach(left, DiffExpired(left, opt))

\* expireAdhocBackup() refuses the latest full backup when no other one of
\* the same cluster comes next
AdhocRefused(cur, b) ==
    LET full == {c \in cur : Isfull(c)}
        prior == full \ {b}
    IN  /\ b = Max(full)
        /\ prior = {} \/ manifest[Max(prior)].pgId # manifest[b].pgId

\* cmdExpire() up to the first file removed
ExpireStart(adhoc, opt) ==
    /\ cmd.pc = "idle"
    /\ LET cur == Reconstruct
       IN  IF adhoc \in cur /\ AdhocRefused(cur, adhoc)
           THEN cmd' = Idle /\ result' = "refused"
           ELSE /\ cmd' = [Idle EXCEPT
                       !.pc = "expireMain", !.cur = cur, !.adhoc = adhoc,
                       !.opt = opt,
                       !.todo = CASE adhoc = None -> ExpireRetention(cur, opt)
                                  [] adhoc \in cur -> ExpireBackup(cur, adhoc)
                                  [] OTHER -> <<>>]
                /\ UNCHANGED result
    /\ UNCHANGED <<repo, info, lost, history, pgId, clock, count>>

\* the manifest goes first, then its copy
ExpireMain ==
    /\ cmd.pc = "expireMain"
    /\ IF cmd.todo = <<>>
       THEN /\ cmd' = [cmd EXCEPT !.pc = "infoMain"]
            /\ UNCHANGED main
       ELSE /\ main' = main \ {Head(cmd.todo)}
            /\ cmd' = [cmd EXCEPT !.pc = "expireCopy"]
    /\ UNCHANGED <<disk, copy, whole, manifest, info, lost, history, pgId,
                   clock, result, count>>

ExpireCopy ==
    /\ cmd.pc = "expireCopy"
    /\ copy' = copy \ {Head(cmd.todo)}
    /\ cmd' = [cmd EXCEPT !.pc = "expireMain", !.todo = Tail(@),
                          !.cur = @ \ {Head(cmd.todo)}]
    /\ UNCHANGED <<disk, main, whole, manifest, info, lost, history, pgId,
                   clock, result, count>>

\* with --set the newest directory stays when it is resumable, unless it may
\* depend on what was expired and its prior is gone
ResumeKept(b) ==
    /\ cmd.adhoc # None
    /\ b \in copy \ main
    /\ FullOf(b) = FullOf(cmd.adhoc) => manifest[b].prior \in cmd.cur

\* removeExpiredBackup(): the list of the directories to remove.  With --set
\* the newest one is looked up, an assertion when there is none.
RemoveExpiredBackup ==
    /\ cmd.pc = "removeBackup"
    /\ IF cmd.adhoc # None /\ disk = {}
       THEN cmd' = Idle /\ result' = "assertion"
       ELSE /\ cmd' = [cmd EXCEPT !.pc = "removePath", !.todo =
                           SetToSortSeq({b \in disk \ cmd.cur :
                               ~(b = Max(disk) /\ ResumeKept(b))}, >)]
            /\ UNCHANGED result
    /\ UNCHANGED <<repo, info, lost, history, pgId, clock, count>>

\* storagePathRemoveP() on a whole directory
PathRemove ==
    /\ cmd.pc \in {"removePath", "removeResume"}
    /\ cmd.todo # <<>>
    /\ LET b == Head(cmd.todo)
       IN  /\ disk' = disk \ {b}
           /\ main' = main \ {b}
           /\ copy' = copy \ {b}
           /\ whole' = whole \ {b}
    /\ cmd' = [cmd EXCEPT !.todo = Tail(@),
                          !.pc = IF @ = "removeResume" THEN "label" ELSE @]
    /\ UNCHANGED <<manifest, info, lost, history, pgId, clock, result, count>>

\* removeExpiredHistory(): years before the one of the oldest label to keep
\* are removed, and of that year what is older and not a current backup
HistoryKept(b) ==
    LET min == clock - cmd.opt.history
    IN  \/ clock <= cmd.opt.history
        \/ FullOf(b) \div Year > min \div Year
        \/ /\ FullOf(b) \div Year = min \div Year
           /\ b \in cmd.cur \/ b >= LabelFormat("full", None, min)

RemoveExpiredHistory ==
    /\ cmd.pc = "removePath"
    /\ cmd.todo = <<>>
    /\ history' = {b \in history : HistoryKept(b)}
    /\ cmd' = Idle
    /\ result' = "expired"
    /\ UNCHANGED <<repo, info, lost, pgId, clock, count>>

------------------------------------------------------------------------------
(* What else happens.                                                      *)

Fault ==
    /\ count.fault < repoCase.faults
    /\ count' = [count EXCEPT !.fault = @ + 1]

\* the command is killed or fails.  Within a recursive removal any part of
\* the directory may be gone already.
Crash ==
    /\ cmd.pc # "idle"
    /\ Fault
    /\ cmd' = Idle
    /\ result' = "killed"
    /\ \/ UNCHANGED repo
       \/ /\ cmd.pc \in {"removePath", "removeResume"} /\ cmd.todo # <<>>
          /\ whole' = whole \ {Head(cmd.todo)}
          /\ main' \in {main, main \ {Head(cmd.todo)}}
          /\ copy' \in {copy, copy \ {Head(cmd.todo)}}
          /\ UNCHANGED <<disk, manifest>>
    /\ UNCHANGED <<info, lost, history, pgId, clock>>

\* backup.info is damaged or removed
InfoLost ==
    /\ ~lost
    /\ Fault
    /\ lost' = TRUE
    /\ UNCHANGED <<repo, info, history, pgId, clock, cmd, result>>

\* stanza-upgrade, which needs the backup lock as well
StanzaUpgrade ==
    /\ cmd.pc = "idle"
    /\ pgId = 1
    /\ pgId' = 2
    /\ info' = [main |-> LoadFile, copy |-> LoadFile]
    /\ lost' = FALSE
    /\ UNCHANGED <<repo, history, clock, cmd, result, count>>

Tick ==
    /\ clock < repoCase.until
    /\ clock' = clock + 1
    /\ UNCHANGED <<repo, info, lost, history, pgId, cmd, result, count>>

AdhocLabels == IF repoCase.adhoc THEN {None, Base} \cup DOMAIN manifest ELSE {None}

RepoNext ==
    /\ \/ \E type \in repoCase.types : BackupStart(type)
       \/ BackupResume \/ BackupLabel \/ BackupSaveCopy \/ BackupProcess
       \/ BackupMain \/ BackupHistory
       \/ InfoSaveMain \/ InfoSaveCopy
       \/ \E adhoc \in AdhocLabels, opt \in repoCase.retention : ExpireStart(adhoc, opt)
       \/ ExpireMain \/ ExpireCopy \/ RemoveExpiredBackup \/ PathRemove
       \/ RemoveExpiredHistory
       \/ Crash \/ InfoLost \/ StanzaUpgrade \/ Tick
    /\ UNCHANGED repoCase

------------------------------------------------------------------------------
(* Properties.                                                             *)

Full(S) == {b \in S : Isfull(b)}
Old(S) == {b \in Full(S) : manifest[b].stop + cmd.opt.full < clock}

\* Whatever command is interrupted wherever, a backup with a backup.manifest
\* can be restored: all its files are there, its prior has a manifest as well
\* (and so on to the full backup), and both are of the same cluster.  This is
\* why expireBackup() goes from the newest dependent to the oldest, why
\* backup.manifest is written last and removed first, and why
\* removeExpiredBackup() must know every complete backup.
Restorable ==
    \A b \in main :
        /\ b \in whole
        /\ ~Isfull(b) => /\ manifest[b].prior \in main
                         /\ manifest[manifest[b].prior].pgId = manifest[b].pgId

\* When a backup or an expire ended well, backup.info and its copy list
\* exactly the backups that can be restored, though an earlier command was
\* killed or backup.info was lost, and after an expire no other directory is
\* left but the resumable one that --set leaves alone.
Settled ==
    cmd.pc = "idle" =>
        /\ result \in {"ok", "expired"} => info.main = main /\ info.copy = main
        /\ result = "expired" =>
               /\ disk \ main \subseteq copy
               /\ Cardinality(disk \ main) <= (IF repoCase.adhoc THEN 1 ELSE 0)

\* expireFullBackup(): an expire without --set never leaves fewer full
\* backups than repo-retention-full, also when the expire before it was
\* killed half way or backup.info was lost.
FullsKept ==
    [][cmd.adhoc = None /\ ~cmd.opt.time /\ main' # main =>
           Cardinality(Full(main)') >=
               Min({cmd.opt.full, Cardinality(Full(main))})]_repoVars

\* expireTimeBasedBackup(): a full backup is only given up when a later one
\* remains that is older than the retention period, so that the whole period
\* can be recovered.
PeriodCovered ==
    [][cmd.adhoc = None /\ cmd.opt.time =>
           \A b \in Full(main) \ main' : \E c \in Old(main) \cap main' : c > b]_repoVars

\* expireAdhocBackup(): whatever is named with --set, a full backup of the
\* current cluster is left when there is one.
FullRemains ==
    [][(\E b \in Full(main) : manifest[b].pgId = pgId) =>
           \E b \in Full(main)' : manifest'[b].pgId = pgId]_repoVars

\* removeExpiredHistory(): "Unexpired backups are always kept in the backup
\* history" (repo-retention-history in doc/xml/reference.xml).
HistoryLasts == [][main' \cap history \subseteq history']_repoVars

\* Retention is never undercut and no full backup that is still needed goes,
\* whatever was killed, lost or named with --set before.
RetentionKept == FullsKept /\ PeriodCovered /\ FullRemains
=============================================================================
