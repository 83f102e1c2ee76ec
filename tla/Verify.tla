------------------------------- MODULE Verify --------------------------------
(***************************************************************************)
(* The verify command (command/verify): it takes no lock, so a backup may  *)
(* complete and expire may remove backups and WAL while it lists the       *)
(* repository, loads manifests and has its local processes read files.     *)
(*                                                                         *)
(* label: the backups, numbered in the order of their labels, of which the *)
(* last may be in progress; every manifest lists Files, and holder[b][f]   *)
(* is the backup f is stored in.  A content is good, bad (the checksum or  *)
(* the size is wrong), gone, or fails to be read.                          *)
(***************************************************************************)
EXTENDS Integers, Sequences, FiniteSets, SequencesExt, FiniteSetsExt

CONSTANTS
    VFiles,          \* the files of every backup
    VRepos           \* the repositories verify may meet

VARIABLES
    vrepo,           \* the repository
    verify,          \* the data of verifyProcess(), jobData included
    vjob             \* jobs given to the local processes, with their results

verifyVars == <<vrepo, verify, vjob>>

WalOps == INSTANCE Wal WITH call <- vjob

VLabels == DOMAIN vrepo.holder

VerifyStart(processMax) ==
    [pc |-> "info", processMax |-> processMax, errors |-> 0, info |-> {}, current |-> 0, busy |-> FALSE,
     idList |-> <<>>, pathList |-> <<>>, fileList |-> <<>>, archive |-> <<>>,
     backupList |-> <<>>, todo |-> <<>>, backup |-> <<>>]

VerifyInit ==
    /\ vrepo \in VRepos
    /\ \E n \in 1 .. 2 : verify = VerifyStart(n)
    /\ vjob = {}

\* expire works down its list: the manifest of a backup, the copy, the files
Expired(x) ==
    LET rest == [vrepo EXCEPT !.expire = Tail(@)]
    IN  CASE x.what = "main" -> [rest EXCEPT !.manifest[x.id].main = "none", !.info = @ \ {x.id}]
          [] x.what = "copy" -> [rest EXCEPT !.manifest[x.id].copy = "none"]
          [] x.what = "path" -> [rest EXCEPT !.dir = @ \ {x.id}, !.content[x.id] = [f \in VFiles |-> "gone"]]
          [] x.what = "wal" -> [rest EXCEPT !.wal[x.id] = {[f EXCEPT !.content = "gone"] : f \in @}]

-----------------------------------------------------------------------------
(* The info files *)

\* verifyInfoFile() of the main file and, if that is not usable, of its copy
UsableInfo(file) == IF file.main # "bad" THEN file.main ELSE file.copy

verifyBackupInfoFile == UsableInfo(vrepo.backupInfo)
verifyArchiveInfoFile == UsableInfo(vrepo.archiveInfo)

verifyPgHistory(archive, backup) == archive = backup

InfoErrors ==
    LET none == Cardinality({i \in {1, 2} : <<verifyBackupInfoFile, verifyArchiveInfoFile>>[i] = "bad"})
    IN  IF none > 0 THEN none
        ELSE IF verifyPgHistory(verifyArchiveInfoFile, verifyBackupInfoFile) THEN 0 ELSE 1

VerifyInfo ==
    /\ verify.pc = "info"
    /\ verify' = [verify EXCEPT !.errors = InfoErrors, !.info = vrepo.info,
                                !.pc = IF InfoErrors = 0 THEN "list" ELSE "done"]
    /\ UNCHANGED <<vrepo, vjob>>

-----------------------------------------------------------------------------
(* The lists of the repository *)

Ascending(S) == SetToSortSeq(S, <)

\* the backup in progress, if the newest one may be that
verifySetBackupCheckArchive(list, info) ==
    IF list # <<>> /\ Last(list) \notin info THEN Last(list) ELSE 0

ArchiveIdErrors(ids) == IF ids \subseteq vrepo.history THEN 0 ELSE 1

VerifyList ==
    LET backups == Ascending(vrepo.dir)
        ids == DOMAIN vrepo.wal
    IN  /\ verify.pc = "list"
        /\ verify' = [verify EXCEPT
              !.pc = IF backups = <<>> /\ ids = {} THEN "done" ELSE "run",
              !.backupList = backups, !.idList = Ascending(ids),
              !.current = verifySetBackupCheckArchive(backups, verify.info),
              !.errors = @ + ArchiveIdErrors(ids)]
        /\ UNCHANGED <<vrepo, vjob>>

-----------------------------------------------------------------------------
(* verifyJobCallback(): a process is idle, and asks for jobs until one is  *)
(* found or nothing is left.  Each step is one turn of a loop; while busy  *)
(* is set the callback has not returned, so no result is looked at.        *)

Idle == verify.pc = "run" /\ Cardinality(vjob) < verify.processMax

Listed(id, path) == {f \in vrepo.wal[id] : f.content # "gone" /\ WalOps!SegmentPath(f.segment) = path}

Paths(id) == SetToSortSeq({WalOps!SegmentPath(f.segment) : f \in {g \in vrepo.wal[id] : g.content # "gone"}},
                          LAMBDA p, q : WalOps!PathCode(p) < WalOps!PathCode(q))

\* An archive id is started: its paths are listed
VerifyArchiveId ==
    /\ Idle /\ verify.idList # <<>> /\ Head(verify.idList) \notin DOMAIN verify.archive
    /\ LET id == Head(verify.idList)
       IN  verify' = [verify EXCEPT
              !.archive = [i \in DOMAIN @ \cup {id} |->
                              IF i = id THEN [total |-> 0, valid |-> 0, range |-> <<>>, dropped |-> 0] ELSE @[i]],
              !.pathList = Paths(id), !.busy = TRUE,
              !.idList = IF Paths(id) = <<>> THEN Tail(@) ELSE @]
    /\ UNCHANGED <<vrepo, vjob>>

\* the archive id stays on the list
PathDoneIdKept(v) == [v EXCEPT !.pathList = Tail(@)]

\* What is left of the lists when the first path is done with
PathDone(v) ==
    [v EXCEPT !.pathList = Tail(@), !.idList = IF Len(v.pathList) = 1 THEN Tail(@) ELSE @]

\* The files of the first path are listed, the ranges extended.  The first
\* file of an archive id is read for the size of a segment, and an expired
\* one ends the command.
VerifyPath ==
    /\ Idle /\ verify.idList # <<>> /\ Head(verify.idList) \in DOMAIN verify.archive
    /\ verify.pathList # <<>> /\ verify.fileList = <<>>
    /\ LET id == Head(verify.idList)
           result == verify.archive[id]
           files == WalOps!SortFiles(Listed(id, Head(verify.pathList)))
           made == WalOps!verifyCreateArchiveIdRange(result.range, files, WalOps!DefaultSize, vrepo.version)
           v == [verify EXCEPT !.archive[id] = [@ EXCEPT !.total = @ + Len(files), !.range = made.range,
                                                         !.dropped = @ + Len(files) - Len(made.file)],
                               !.fileList = made.file, !.errors = @ + made.errors, !.busy = TRUE]
       IN  \/ /\ verify' = IF v.fileList = <<>> THEN PathDone(v) ELSE v
              /\ UNCHANGED vrepo
           \/ /\ result.total = 0 /\ files # <<>>
              /\ vrepo.expire # <<>> /\ Head(vrepo.expire).what = "wal" /\ Head(vrepo.expire).id = id
              /\ vrepo' = Expired(Head(vrepo.expire))
              /\ verify' = [verify EXCEPT !.pc = "failed", !.errors = @ + 1, !.busy = FALSE]
    /\ UNCHANGED vjob

\* The file of a job: a WAL segment, or a file and the backup it is stored in
WalJob(f) == [segment |-> f.segment, hash |-> f.hash, holder |-> 0, name |-> "none"]
FileJob(holder, f) == [segment |-> WalOps!NoSegment, hash |-> 0, holder |-> holder, name |-> f]

\* The first file of the path becomes a job
VerifyArchive ==
    /\ Idle /\ verify.idList # <<>> /\ verify.fileList # <<>>
    /\ LET v == [verify EXCEPT !.fileList = Tail(@), !.busy = FALSE]
       IN  /\ verify' = IF v.fileList = <<>> THEN PathDone(v) ELSE v
           /\ vjob' = vjob \cup {[type |-> "archive", id |-> Head(verify.idList),
                                  file |-> WalJob(Head(verify.fileList)), res |-> "none"]}
    /\ UNCHANGED vrepo

-----------------------------------------------------------------------------
(* Backups *)

\* the copy is used whenever the main manifest is not
verifyManifestFileAnyCopy(main, copy, current) ==
    IF main = "ok" \/ copy = "ok" THEN "usable"
    ELSE IF main = "none" /\ copy = "none" THEN "missing" ELSE "invalid"

\* what becomes of a backup by its manifest and the copy of it
verifyManifestFile(main, copy, current) ==
    IF main = "ok" THEN "usable"
    ELSE IF current /\ main = "none" THEN "in-progress"
    ELSE IF copy = "ok" THEN "usable"
    ELSE IF main = "none" /\ copy = "none" THEN "missing" ELSE "invalid"

NewResult(status, total) ==
    [status |-> status, total |-> total, sent |-> 0, valid |-> 0, invalid |-> {}, complete |-> FALSE]

\* The next backup: its manifest is loaded
VerifyManifest ==
    /\ Idle /\ verify.idList = <<>> /\ verify.backupList # <<>>
    /\ Head(verify.backupList) \notin DOMAIN verify.backup
    /\ LET b == Head(verify.backupList)
           found == verifyManifestFile(vrepo.manifest[b].main, vrepo.manifest[b].copy, verify.current = b)
           known == vrepo.kind[b] # "foreign"
           usable == found = "usable" /\ known
           files == IF vrepo.kind[b] = "empty" THEN <<>> ELSE SetToSeq(VFiles)
           status == IF found = "usable"
                     THEN IF known /\ files # <<>> THEN "valid" ELSE "invalid"
                     ELSE found
       IN  verify' = [verify EXCEPT
              !.backup = [i \in DOMAIN @ \cup {b} |->
                             IF i = b THEN NewResult(status, IF usable THEN Len(files) ELSE 0) ELSE @[i]],
              !.errors = @ + (IF status = "invalid" THEN 1 ELSE 0),
              !.todo = IF usable THEN files ELSE <<>>,
              !.backupList = IF usable /\ files # <<>> THEN @ ELSE Tail(@),
              !.busy = TRUE]
    /\ UNCHANGED <<vrepo, vjob>>

\* Is the result of the backup that holds a file all there is to know of it?
Judged(holder) == holder \in DOMAIN verify.backup /\ verify.backup[holder].complete

\* The next file of the manifest: a job, or known from the backup it is in
VerifyBackup ==
    /\ Idle /\ verify.idList = <<>> /\ verify.backupList # <<>> /\ verify.todo # <<>>
    /\ Head(verify.backupList) \in DOMAIN verify.backup
    /\ LET b == Head(verify.backupList)
           f == Head(verify.todo)
           holder == vrepo.holder[b][f]
           known == holder # b /\ Judged(holder)
           bad == known /\ FileJob(holder, f) \in verify.backup[holder].invalid
           counted == [verify.backup[b] EXCEPT !.sent = @ + 1]
           result == IF bad THEN [counted EXCEPT !.status = "invalid", !.invalid = @ \cup {FileJob(holder, f)}]
                     ELSE IF known THEN [counted EXCEPT !.valid = @ + 1] ELSE counted
       IN  /\ verify' = [verify EXCEPT !.backup[b] = result, !.todo = Tail(@), !.busy = known,
                                       !.backupList = IF Len(verify.todo) = 1 THEN Tail(@) ELSE @]
           /\ vjob' = IF known THEN vjob
                      ELSE vjob \cup {[type |-> "backup", id |-> b, file |-> FileJob(holder, f), res |-> "none"]}
    /\ UNCHANGED vrepo

\* Nothing is left and the callback returns without a job
VerifyNoJob ==
    /\ verify.busy /\ verify.idList = <<>> /\ verify.backupList = <<>>
    /\ verify' = [verify EXCEPT !.busy = FALSE]
    /\ UNCHANGED <<vrepo, vjob>>

-----------------------------------------------------------------------------
(* Results *)

\* verifyFile() in a local process
verifyFile(content) ==
    CASE content = "good" -> "ok" [] content = "bad" -> "mismatch"
      [] content = "gone" -> "missing" [] content = "fail" -> "error"

VContent(j) ==
    IF j.type = "backup" THEN vrepo.content[j.file.holder][j.file.name]
    ELSE (CHOOSE f \in vrepo.wal[j.id] : f.segment = j.file.segment /\ f.hash = j.file.hash).content

VerifyFile(j) ==
    /\ j.res = "none"
    /\ vjob' = (vjob \ {j}) \cup {[j EXCEPT !.res = verifyFile(VContent(j))]}
    /\ UNCHANGED <<vrepo, verify>>

\* a missing WAL segment may have expired
verifyLogInvalidResult(type, res) == IF type = "archive" /\ res = "missing" THEN 0 ELSE 1

ArchiveResult(r, j) ==
    IF j.res = "ok" THEN [r EXCEPT !.valid = @ + 1]
    ELSE [r EXCEPT !.range = WalOps!verifyAddInvalidWalFile(@, j.file.segment)]

\* an error of the job does not make the backup invalid
BackupResultNoError(r, j) ==
    IF j.res \in {"ok", "error"} THEN [r EXCEPT !.valid = @ + 1]
    ELSE [r EXCEPT !.status = "invalid", !.invalid = @ \cup {j.file}]

BackupResult(r, j) ==
    IF j.res = "ok" THEN [r EXCEPT !.valid = @ + 1]
    ELSE [r EXCEPT !.status = "invalid", !.invalid = @ \cup {j.file}]

Completed(r) == [r EXCEPT !.complete = @ \/ r.sent = r.total]

VerifyResult(j) ==
    /\ j.res # "none" /\ ~verify.busy
    /\ vjob' = vjob \ {j}
    /\ verify' = [verify EXCEPT
          !.errors = @ + (IF j.res = "ok" THEN 0 ELSE verifyLogInvalidResult(j.type, j.res)),
          !.archive = IF j.type = "archive" THEN [@ EXCEPT ![j.id] = ArchiveResult(@, j)] ELSE @,
          !.backup = IF j.type = "backup" THEN [@ EXCEPT ![j.id] = Completed(BackupResult(@, j))] ELSE @]
    /\ UNCHANGED vrepo

VerifyDone ==
    /\ verify.pc = "run" /\ ~verify.busy /\ vjob = {} /\ verify.idList = <<>> /\ verify.backupList = <<>>
    /\ verify' = [verify EXCEPT !.pc = "done"]
    /\ UNCHANGED <<vrepo, vjob>>

-----------------------------------------------------------------------------
(* What goes on meanwhile *)

\* A backup starts: its directory, with files that come one by one
VBackupStart ==
    /\ vrepo.next # 0 /\ vrepo.next \notin vrepo.dir
    /\ vrepo' = [vrepo EXCEPT !.dir = @ \cup {vrepo.next}, !.manifest[vrepo.next].copy = "ok"]
    /\ UNCHANGED <<verify, vjob>>

\* ... and completes: its files are there, then its manifest and backup.info
VBackupEnd ==
    /\ vrepo.next # 0 /\ vrepo.next \in vrepo.dir
    /\ vrepo' = [vrepo EXCEPT !.next = 0, !.info = @ \cup {vrepo.next}, !.manifest[vrepo.next].main = "ok",
                              !.content[vrepo.next] = [f \in DOMAIN @ |-> IF @[f] = "gone" THEN "good" ELSE @[f]]]
    /\ UNCHANGED <<verify, vjob>>

VExpire ==
    /\ vrepo.expire # <<>>
    /\ vrepo' = Expired(Head(vrepo.expire))
    /\ UNCHANGED <<verify, vjob>>

VerifyStep ==
    \/ VerifyInfo \/ VerifyList \/ VerifyArchiveId \/ VerifyPath \/ VerifyArchive
    \/ VerifyManifest \/ VerifyBackup \/ VerifyNoJob \/ VerifyDone
    \/ \E j \in vjob : VerifyFile(j) \/ VerifyResult(j)

VerifyNext == VerifyStep \/ VBackupStart \/ VBackupEnd \/ VExpire

-----------------------------------------------------------------------------
Reported(b) == verify.pc = "done" /\ b \in DOMAIN verify.backup

\* A backup that is reported valid has no file of its own that is damaged or
\* cannot be read, and a damaged file fails the command.
VerifyFindsOwn ==
    \A b \in VLabels : Reported(b) /\ verify.backup[b].total > 0 =>
        \A f \in VFiles : vrepo.holder[b][f] = b /\ vrepo.content[b][f] \in {"bad", "fail"}
                              => verify.backup[b].status = "invalid" /\ verify.errors > 0

\* A backup that is reported valid references no damaged file either.
VerifyFindsAll ==
    \A b \in VLabels : Reported(b) /\ verify.backup[b].status = "valid" =>
        \A f \in VFiles : vrepo.content[vrepo.holder[b][f]][f] \notin {"bad", "fail"}

\* With one process no file is trusted before it is verified.
VerifySequential == verify.processMax = 1 => VerifyFindsAll

\* While no file expires, a repository without damage passes: a backup that
\* starts, runs or completes while verify runs is never found invalid.
NoFalseAlarm ==
    (verify.pc = "done" /\ vrepo.sound) =>
        /\ verify.errors = 0
        /\ \A b \in DOMAIN verify.backup : verify.backup[b].status \in {"valid", "in-progress"}

\* A damaged file is found: always in the backup that holds it, and with one
\* process in every backup that references it (verifyManifestFile()).
VerifyFinds == VerifyFindsOwn /\ VerifySequential
=============================================================================
