------------------------------ MODULE Restore -------------------------------
(***************************************************************************)
(* The restore command and the data directory it works on: validation,     *)
(* cleaning, the copy of the files by the local processes, recovery        *)
(* settings, syncs and the rename of pg_control.  The command can be       *)
(* killed between any two steps and the host can crash; it is then run     *)
(* again with options of the operator's choice.                            *)
(*                                                                         *)
(* The manifest is fixed: one file or more of every kind that restore      *)
(* treats in its own way.  A directory entry is abstracted to how it       *)
(* compares with the manifest (Content).                                   *)
(***************************************************************************)
EXTENDS Naturals, FiniteSets, Sequences

CONSTANTS
    RestoreCases,   \* what a behaviour may meet, see the assumption below
    Guc,            \* does this PostgreSQL have recovery GUCs (>= 12)?
    ProcessMax      \* local processes

VARIABLES
    restoreCase,    \* the case of this behaviour
    pc,             \* step of cmdRestore(), "idle" when it does not run
    opt,            \* options of this run, as restorePathValidate() left them
    late, zero,     \* files of the backup: those whose timestamp is not before
                    \* copy start, those of databases that are not restored
    vol,            \* the directories as processes see them
    hist,           \* what each directory held since its last sync
    open,           \* files a local process is writing
    queue,          \* per target, files not yet given to a local process
    toSync,         \* directories still to be synced, in this order
    spool,          \* are there archive status files of the old cluster?
    touched,        \* was anything but pg_control changed since the last
                    \* time the cluster could be started?
    unsynced,       \* was the command killed between the removal of pg_control
                    \* and the sync, with the directory not synced since?
    kills, crashes  \* so far

restoreVars == <<restoreCase, pc, opt, late, zero, vol, hist, open, queue, toSync, spool, touched,
                 unsynced, kills, crashes>>
faultVars == <<restoreCase, unsynced, kills, crashes>>

(***************************************************************************)
(* Entries.  "rel" and "tsrel" are relation files in the data directory    *)
(* and in a tablespace, "conf" is a file link to the directory "ext".      *)
(***************************************************************************)
Entry == [pgdata |-> {"version", "rel", "auto", "rconf", "signal", "manifest",
                      "tslink", "conflink", "global", "junk"},
          global |-> {"control", "controltmp"},
          ts     |-> {"tsrel", "junk"},
          ext    |-> {"conf"}]
Dirs == DOMAIN Entry
Links == {"tslink", "conflink"}

\* none, the manifest's content with its timestamp or another one, other
\* content of the same size with the same or another timestamp, anything else
Content == {"none", "good", "goodt", "othert", "other", "part", "zero", "recov"}

Options == [delta : BOOLEAN, force : BOOLEAN, type : {"default", "preserve"}]

\* A case: the options the command may be given, what the files "rel" and
\* "tsrel" of an old cluster hold, the pairs late and zero, and the bounds on
\* kills of the command and crashes of the host
ASSUME RestoreAssumption ==
    /\ Guc \in BOOLEAN /\ ProcessMax \in Nat \ {0}
    /\ \A c \in RestoreCases :
           /\ c.options \subseteq Options /\ c.options # {}
           /\ c.existing \subseteq Content \X Content
           /\ c.lateZero \subseteq (SUBSET {"rel", "tsrel"}) \X (SUBSET {"rel", "tsrel"})
           /\ c.maxKill \in Nat /\ c.maxCrash \in Nat

DirOf(f) == CHOOSE d \in Dirs : f \in Entry[d]
Sized(c) == c \in {"good", "goodt", "othert", "other", "zero"}
Timed(c) == c \in {"good", "othert"}

\* The files of the manifest after restoreCleanBuild() removed what is skipped
ManifestFile(o) == {"version", "rel", "tsrel", "conf", "control"} \cup
                   (IF Guc /\ o.type # "preserve" THEN {"auto"} ELSE {})

\* Files of the data directory that cleaning and the check for an empty
\* directory leave out
FileIgnore(o) == {"manifest"} \cup
    (IF o.type = "preserve"
     THEN IF Guc THEN {"auto", "signal"} ELSE {"rconf"} ELSE {})

\* Entries the clean of a directory removes
Invalid(d) == {n \in Entry[d] \ {"control"} :
    /\ vol[d][n] # "none"
    /\ d # "ext" /\ n \notin ManifestFile(opt) \cup {"global"}
    /\ d = "pgdata" => n \notin FileIgnore(opt)
    /\ n \in Links => vol[d][n] # "good"}

\* restoreFilePgPath(): pg_control is written under a temporary name
PgPath(f) == IF f = "control" THEN "controltmp" ELSE f

Wanted(f) == IF f \in zero THEN "zero" ELSE "good"

-----------------------------------------------------------------------------
\* What a directory held before a change may still be on disk.  It is not kept
\* when the bound on crashes is reached.
Remember(d) ==
    IF crashes < restoreCase.maxCrash THEN hist[d] \cup {vol[d]} ELSE {}

Set(d, n, c) ==
    /\ vol' = [vol EXCEPT ![d][n] = c]
    /\ hist' = [hist EXCEPT ![d] = Remember(d)]

\* storagePosixPathSync(): only the current state can be found after a crash
Sync(d) ==
    /\ hist' = [hist EXCEPT ![d] = {}]
    /\ UNCHANGED vol

Old(content) == [pgdata |->
       [n \in Entry.pgdata |->
           CASE n \in {"version", "auto", "tslink", "global"} -> "good"
             [] n = "conflink" -> "other"
             [] n = "rel" -> content[1]
             [] n \in {"rconf", "manifest"} -> "none"
             [] OTHER -> "other"],
     global |-> [n \in Entry.global |-> IF n = "control" THEN "other" ELSE "none"],
     ts     |-> [n \in Entry.ts |-> IF n = "tsrel" THEN content[2] ELSE "other"],
     ext    |-> [n \in Entry.ext |-> "goodt"]]

Empty == [d \in Dirs |-> [n \in Entry[d] |-> "none"]]

\* A directory with files that are not a cluster
Foreign == [Empty EXCEPT !.pgdata["junk"] = "other"]

RestoreInit ==
    /\ pc = "idle"
    /\ restoreCase \in RestoreCases
    /\ opt = CHOOSE o \in restoreCase.options : TRUE
    /\ \E lz \in restoreCase.lateZero : late = lz[1] /\ zero = lz[2]
    /\ vol \in {Empty, Foreign} \cup {Old(c) : c \in restoreCase.existing}
    \* a file that changed after it was backed up has a later timestamp than
    \* the start of the backup's copy
    /\ vol.pgdata["rel"] = "othert" => "rel" \in late
    /\ vol.ts["tsrel"] = "othert" => "tsrel" \in late
    /\ hist = [d \in Dirs |-> {}]
    /\ open = {} /\ queue = <<>> /\ toSync = <<>>
    /\ spool = TRUE /\ touched = FALSE /\ unsynced = FALSE
    /\ kills = 0 /\ crashes = 0

\* Variant: --delta and --force stay enabled in any directory
DestructiveAlways(o) == o

\* restorePathValidate(): is this a data directory or a partial restore?
Destructive(o) ==
    IF vol.pgdata["version"] = "none" /\ vol.pgdata["manifest"] = "none"
    THEN [o EXCEPT !.delta = FALSE, !.force = FALSE]
    ELSE o

\* restorePathValidate() and the removal of the spool path.  Choosing the
\* backup, loading and mapping its manifest change nothing on disk and are
\* in RestorePlan.
Validate(o) ==
    /\ pc = "idle"
    /\ opt' = Destructive(o)
    /\ spool' = FALSE
    /\ touched' = (touched /\ vol.global["control"] = "none")
    /\ pc' = "check"
    /\ UNCHANGED <<late, zero, vol, hist, open, queue, toSync, faultVars>>

Clean(o) == o.delta \/ o.force

\* restoreCleanBuild(), step 1: without --delta and --force the targets have
\* to be empty
CheckEmpty ==
    LET full == \/ \E n \in Entry.pgdata \ FileIgnore(opt) :
                       vol.pgdata[n] # "none"
                \/ \E n \in Entry.ts : vol.ts[n] # "none"
                \/ vol.ext["conf"] # "none"
    IN  /\ pc = "check"
        /\ pc' = IF ~Clean(opt) /\ full THEN "idle" ELSE "control"
        /\ UNCHANGED <<opt, late, zero, vol, hist, open, queue, toSync, spool,
                       touched, faultVars>>

\* restoreCleanBuild(), step 2: pg_control first, so that the cluster cannot
\* be started any more
RemoveControl ==
    /\ pc = "control"
    /\ IF vol.global["control"] # "none"
       THEN Set("global", "control", "none") /\ pc' = "controlSync"
       ELSE UNCHANGED <<vol, hist>> /\ pc' = "clean"
    /\ UNCHANGED <<opt, late, zero, open, queue, toSync, spool, touched, faultVars>>

\* Variant: cleaning begins before the removal is on disk
RemoveControlNoSync ==
    /\ pc = "controlSync"
    /\ pc' = "clean"
    /\ UNCHANGED <<opt, late, zero, vol, hist, open, queue, toSync, spool,
                   touched, faultVars>>

RemoveControlSync ==
    /\ pc = "controlSync"
    /\ Sync("global") /\ unsynced' = FALSE
    /\ pc' = "clean"
    /\ UNCHANGED <<opt, late, zero, open, queue, toSync, spool, touched, restoreCase, kills, crashes>>

\* restoreCleanInfoListCallback(): one entry that is not in the manifest
CleanEntry(d) ==
    /\ pc = "clean"
    /\ d = "ts" => Invalid("pgdata") \cup Invalid("global") = {}
    /\ \E n \in Invalid(d) : Set(d, n, "none")
    /\ touched' = TRUE
    /\ UNCHANGED <<pc, opt, late, zero, open, queue, toSync, spool, faultVars>>

CleanDone ==
    /\ pc = "clean"
    /\ \A d \in Dirs : Invalid(d) = {}
    /\ pc' = "build"
    /\ UNCHANGED <<opt, late, zero, vol, hist, open, queue, toSync, spool,
                   touched, faultVars>>

Missing == {n \in Links \cup {"global"} : vol.pgdata[n] = "none"}

\* restoreCleanBuild(), steps 3 and 4: a missing path or link
BuildEntry ==
    /\ pc = "build"
    /\ \E n \in Missing : Set("pgdata", n, "good")
    /\ touched' = TRUE
    /\ UNCHANGED <<pc, opt, late, zero, open, queue, toSync, spool, faultVars>>

\* restoreProcessQueue(): a queue per target, the largest files first
ProcessQueue ==
    IF "auto" \in ManifestFile(opt)
    THEN <<<<"rel", "control", "auto", "conf", "version">>, <<"tsrel">>>>
    ELSE <<<<"rel", "control", "conf", "version">>, <<"tsrel">>>>

BuildDone ==
    /\ pc = "build"
    /\ Missing = {}
    /\ queue' = ProcessQueue
    /\ pc' = "save"
    /\ UNCHANGED <<opt, late, zero, vol, hist, open, toSync, spool, touched, faultVars>>

\* Variant: the manifest is not saved until the files are copied
SaveManifestLate ==
    /\ pc = "save"
    /\ touched' = TRUE
    /\ pc' = "jobs"
    /\ UNCHANGED <<opt, late, zero, vol, hist, open, queue, toSync, spool, faultVars>>

\* manifestSave() to the data directory: written, renamed, and the path synced
SaveManifest ==
    /\ pc = "save"
    /\ vol' = [vol EXCEPT !.pgdata["manifest"] = "good"]
    /\ hist' = [hist EXCEPT !.pgdata = {}]
    /\ touched' = TRUE
    /\ pc' = "jobs"
    /\ UNCHANGED <<opt, late, zero, open, queue, toSync, spool, faultVars>>

\* restoreFile(): is the existing file kept?
Keep(f, c) ==
    /\ opt.delta /\ f \notin zero /\ Sized(c)
    /\ IF opt.force THEN Timed(c) /\ f \notin late ELSE c \in {"good", "goodt"}

\* restoreFile() in a local process, up to the open of the destination, which
\* truncates it
JobStart(q) ==
    LET f == Head(queue[q])
        d == DirOf(PgPath(f))
        c == vol[d][PgPath(f)]
    IN  /\ pc = "jobs" /\ queue[q] # <<>> /\ Cardinality(open) < ProcessMax
        /\ queue' = [queue EXCEPT ![q] = Tail(@)]
        /\ touched' = TRUE
        /\ \/ /\ Keep(f, c)
              \* the time is set back to that of the manifest
              /\ IF c = "goodt" THEN Set(d, PgPath(f), "good")
                                ELSE UNCHANGED <<vol, hist>>
              /\ UNCHANGED open
           \/ /\ ~Keep(f, c)
              /\ Set(d, PgPath(f), "part")
              /\ open' = open \cup {f}
        /\ UNCHANGED <<pc, opt, late, zero, toSync, spool, faultVars>>

\* the data is copied and checked, the file synced and closed
JobEnd(f) ==
    /\ pc = "jobs" /\ f \in open
    /\ open' = open \ {f}
    /\ Set(DirOf(PgPath(f)), PgPath(f), Wanted(f))
    /\ UNCHANGED <<pc, opt, late, zero, queue, toSync, spool, touched, faultVars>>

\* protocolParallelDone()
JobsDone ==
    /\ pc = "jobs" /\ open = {} /\ \A q \in DOMAIN queue : queue[q] = <<>>
    /\ pc' = IF opt.type = "preserve" THEN "unsave" ELSE "recovery"
    /\ UNCHANGED <<opt, late, zero, vol, hist, open, queue, toSync, spool,
                   touched, faultVars>>

RecoveryFile == IF Guc THEN "auto" ELSE "rconf"

\* restoreRecoveryWrite(): not atomic, a kill leaves a part
RecoveryOpen ==
    /\ pc = "recovery"
    /\ Set("pgdata", RecoveryFile, "part")
    /\ pc' = "recoveryClose"
    /\ UNCHANGED <<opt, late, zero, open, queue, toSync, spool, touched, faultVars>>

RecoveryClose ==
    /\ pc = "recoveryClose"
    /\ Set("pgdata", RecoveryFile, "recov")
    /\ pc' = IF Guc THEN "signal" ELSE "unsave"
    /\ UNCHANGED <<opt, late, zero, open, queue, toSync, spool, touched, faultVars>>

\* recovery.signal or standby.signal
RecoverySignal ==
    /\ pc = "signal"
    /\ Set("pgdata", "signal", "recov")
    /\ pc' = "unsave"
    /\ UNCHANGED <<opt, late, zero, open, queue, toSync, spool, touched, faultVars>>

RemoveManifest ==
    /\ pc = "unsave"
    /\ Set("pgdata", "manifest", "none")
    /\ toSync' = <<"ext", "pgdata", "ts">>
    /\ pc' = "sync"
    /\ UNCHANGED <<opt, late, zero, open, queue, spool, touched, faultVars>>

\* The paths of file links and all paths of the manifest except global
SyncDirs ==
    /\ pc = "sync" /\ toSync # <<>>
    /\ Sync(Head(toSync))
    /\ toSync' = Tail(toSync)
    /\ UNCHANGED <<pc, opt, late, zero, open, queue, spool, touched, faultVars>>

RenameControl ==
    /\ pc = "sync" /\ toSync = <<>>
    /\ vol' = [vol EXCEPT !.global = [control |-> @["controltmp"],
                                      controltmp |-> "none"]]
    /\ hist' = [hist EXCEPT !.global = Remember("global")]
    /\ pc' = "syncGlobal"
    /\ UNCHANGED <<opt, late, zero, open, queue, toSync, spool, touched, faultVars>>

SyncGlobal ==
    /\ pc = "syncGlobal"
    /\ Sync("global") /\ unsynced' = FALSE
    /\ pc' = "end"
    /\ UNCHANGED <<opt, late, zero, open, queue, toSync, spool, touched, restoreCase, kills, crashes>>

Steps ==
    \/ CheckEmpty \/ RemoveControl \/ RemoveControlSync
    \/ \E d \in Dirs : CleanEntry(d)
    \/ CleanDone \/ BuildEntry \/ BuildDone \/ SaveManifest
    \/ \E q \in DOMAIN queue : JobStart(q)
    \/ \E f \in open : JobEnd(f)
    \/ JobsDone \/ RecoveryOpen \/ RecoveryClose \/ RecoverySignal
    \/ RemoveManifest \/ SyncDirs \/ RenameControl \/ SyncGlobal

\* The command is killed.  The lock is inherited by the local processes, so
\* it does not run again before they have ended.  A file in work may have
\* been written to its end, but it does not have its timestamp yet.
Kill ==
    /\ pc \notin {"idle", "end"} /\ kills < restoreCase.maxKill
    /\ kills' = kills + 1
    /\ unsynced' = (unsynced \/ pc = "controlSync")
    /\ \/ UNCHANGED vol
       \/ \E f \in open \ zero : vol' = [vol EXCEPT ![DirOf(PgPath(f))][PgPath(f)] = "goodt"]
    /\ pc' = "idle" /\ open' = {} /\ queue' = <<>> /\ toSync' = <<>>
    /\ UNCHANGED <<opt, late, zero, hist, spool, touched, restoreCase, crashes>>

\* The host crashes: the changes to a directory since its last sync are on
\* disk in the order they were made, up to some point.  Data is synced when a
\* file is closed, so that only files that are being written are in doubt.
HostCrash ==
    /\ crashes < restoreCase.maxCrash
    /\ \E p \in hist.pgdata \cup {vol.pgdata}, g \in hist.global \cup {vol.global},
          t \in hist.ts \cup {vol.ts}, e \in hist.ext \cup {vol.ext} :
           vol' = [pgdata |-> p, global |-> g, ts |-> t, ext |-> e]
    /\ hist' = [d \in Dirs |-> {}]
    /\ pc' = IF pc = "end" THEN "end" ELSE "idle"
    /\ open' = {} /\ queue' = <<>> /\ toSync' = <<>>
    /\ unsynced' = (unsynced /\ vol'.global["control"] # "none")
    /\ crashes' = crashes + 1
    /\ UNCHANGED <<opt, late, zero, spool, touched, restoreCase, kills>>

Done == pc = "end" /\ UNCHANGED restoreVars

RestoreNext == Steps \/ (\E o \in restoreCase.options : Validate(o)) \/ Kill \/ HostCrash \/ Done

RestoreSpec == RestoreInit /\ [][RestoreNext]_restoreVars

-----------------------------------------------------------------------------
Snap(d) == [Entry[d] -> Content]

Phase == {"idle", "check", "control", "controlSync", "clean", "build", "save", "jobs",
          "recovery", "recoveryClose", "signal", "unsave", "sync", "syncGlobal", "end"}

\* Types, and only "jobs" has files in work
RestoreTypeOK ==
    /\ restoreCase \in RestoreCases
    /\ pc \in Phase
    /\ opt \in Options /\ late \subseteq {"rel", "tsrel"} /\ zero \subseteq {"rel", "tsrel"}
    /\ vol = [d \in Dirs |-> vol[d]] /\ \A d \in Dirs : vol[d] \in Snap(d)
    /\ hist = [d \in Dirs |-> hist[d]] /\ \A d \in Dirs : hist[d] \subseteq Snap(d)
    /\ open \subseteq ManifestFile(opt) /\ (open # {} => pc = "jobs")
    /\ \A q \in DOMAIN queue : queue[q] \in Seq(ManifestFile(opt))
    /\ pc \in {"idle", "check"} => queue = <<>>
    /\ toSync \in Seq({"ext", "pgdata", "ts"})
    /\ spool \in BOOLEAN /\ touched \in BOOLEAN /\ unsynced \in BOOLEAN
    /\ kills \in 0 .. restoreCase.maxKill /\ crashes \in 0 .. restoreCase.maxCrash

Whole ==
    /\ \A f \in ManifestFile(opt) \ {"control", "auto"} :
           vol[DirOf(f)][f] = Wanted(f)
    /\ opt.type = "default" => vol.pgdata[RecoveryFile] = "recov"
    /\ Missing = {} /\ vol.pgdata["manifest"] = "none"
    /\ \A d \in Dirs : Invalid(d) \ {"signal", "rconf"} = {}

\* PostgreSQL cannot be started on a data directory that restore has begun to
\* change before all of it is in place, also after the host crashed: if
\* global/pg_control is there then every file has the content of the backup or
\* is zeroed as asked, nothing foreign is left, the recovery settings are
\* written and the status files of the old cluster are gone.  Not claimed when
\* an earlier command was killed after it removed pg_control and before it
\* synced that: the next one does not find the file, does not sync, and a
\* crash of the host during it may bring the old pg_control back.
StartableWhole ==
    touched /\ ~unsynced /\ vol.global["control"] # "none" =>
        Whole /\ ~spool /\ vol.global["control"] = "good"

\* Once backup.manifest is saved the restore can be repeated with --delta
\* whenever the command is killed: the directory is known as one of its own
Restartable ==
    pc \in {"jobs", "recovery", "recoveryClose", "signal", "unsave", "sync",
            "syncGlobal"} =>
        vol.pgdata["version"] # "none" \/ vol.pgdata["manifest"] # "none"

\* No step removes a file from a directory that was neither a cluster nor a
\* partial restore when the command looked at it
ForeignKept ==
    [][vol.pgdata["junk"] # "none" /\ vol'.pgdata["junk"] = "none" =>
           Clean(opt) /\ (vol.pgdata["version"] # "none" \/
                          vol.pgdata["manifest"] # "none")]_restoreVars

\* Recovery settings that are to be preserved stay as they are
Preserved ==
    [][pc # "idle" /\ opt.type = "preserve" /\ UNCHANGED <<kills, crashes>> =>
           vol'.pgdata[RecoveryFile] = vol.pgdata[RecoveryFile]]_restoreVars

\* A restore takes nothing away that it was not told to: neither the files of
\* a directory that is no cluster nor the recovery settings.
RestoreKeeps == ForeignKept /\ Preserved

\* A restore that saved its manifest is completed when it is run again after
\* every kill and crash, in the end with --delta
Completes == pc = "jobs" ~> pc = "end"
=============================================================================
