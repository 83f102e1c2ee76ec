---------------------------- MODULE RestorePlan -----------------------------
(***************************************************************************)
(* What restore decides before it changes the data directory: the backup   *)
(* set, where tablespaces and links go, who owns the files, which          *)
(* databases are zeroed, the recovery settings and the order of the files. *)
(***************************************************************************)
EXTENDS Call, Integers, Sequences, FiniteSets, SequencesExt

Null == "null"

-----------------------------------------------------------------------------
(***************************************************************************)
(* restoreBackupSet().  A repository has its list of backups, oldest       *)
(* first, if backup.info can be loaded.  target is the time to recover to, *)
(* 0 for none.                                                             *)
(***************************************************************************)
Usable(repo) == repo.loads /\ repo.backup # <<>>

\* Variant: the oldest backup that ended before the target
StopsBeforeOldest(repo, target) ==
    SelectInSeq(repo.backup, LAMBDA b : b.stop < target)

\* index of the newest backup that ended before the target, 0 for none
StopsBefore(repo, target) ==
    SelectLastInSeq(repo.backup, LAMBDA b : b.stop < target)

BackupSet(r, idx, repo) == Value([repo |-> r, label |-> repo.backup[idx].label])

\* one repository: what is selected, else "next"
InRepo(r, repo, set, target) ==
    LET requested == SelectInSeq(repo.backup, LAMBDA b : b.label = set)
    IN  CASE ~Usable(repo) -> Throw("next")
          [] Usable(repo) /\ set # Null ->
                 IF requested = 0 THEN Throw("next") ELSE BackupSet(r, requested, repo)
          [] Usable(repo) /\ set = Null /\ target # 0 ->
                 IF StopsBefore(repo, target) = 0 THEN Throw("next")
                 ELSE BackupSet(r, StopsBefore(repo, target), repo)
          [] OTHER -> BackupSet(r, Len(repo.backup), repo)

restoreBackupSet(a) ==
    LET tried == [r \in DOMAIN a.repo |-> InRepo(r, a.repo[r], a.set, a.target)]
        found == SelectInSeq(tried, LAMBDA t : ~Threw(t))
        candidate == SelectInSeq(a.repo, Usable)
    IN  CASE found # 0 -> tried[found]
          [] found = 0 /\ a.set = Null /\ a.target # 0 /\ candidate # 0 ->
                 BackupSet(candidate, Len(a.repo[candidate].backup), a.repo[candidate])
          [] OTHER -> Throw("BackupSetInvalidError")

\* A time to recover to is reached by restore whenever some repository allows
\* it: the backup of restoreBackupSet() ended before the target if there is
\* such a backup in any repository that can be read, no later one of the same
\* repository did, and a set that was asked for is the one that is restored
BackupSetReachesTarget(a, r) ==
LET all == {<<i, j>> \in (DOMAIN a.repo) \X (1 .. 3) :
               Usable(a.repo[i]) /\ j \in DOMAIN a.repo[i].backup}
    good == {p \in all : a.repo[p[1]].backup[p[2]].stop < a.target}
    named == {p \in all : a.repo[p[1]].backup[p[2]].label = a.set}
IN  IF Threw(r) THEN IF a.set = Null THEN all = {} ELSE named = {}
    ELSE \E p \in all :
            /\ r.ok = [repo |-> p[1], label |-> a.repo[p[1]].backup[p[2]].label]
            /\ a.set # Null => p \in named
            /\ a.set = Null =>
                   /\ good # {} /\ a.target # 0 => p \in good
                   /\ \A q \in IF p \in good /\ a.target # 0 THEN good ELSE all :
                          q[1] = p[1] => q[2] <= p[2]

-----------------------------------------------------------------------------
(***************************************************************************)
(* restoreManifestMap().  A target of the manifest is the base, a          *)
(* tablespace (id # 0) or a link to a path or to a file.  The options map  *)
(* names or ids of tablespaces and links to paths; a path is the sequence  *)
(* of its components.                                                      *)
(***************************************************************************)
NoPath == <<>>
Get(map, key) == IF key \in DOMAIN map THEN map[key] ELSE NoPath

\* the path a tablespace is mapped to, or NoPath
TablespacePath(t, map, all) ==
    LET byName == Get(map, t.tsName)
        byId == Get(map, t.tsId)
    IN  CASE byName # NoPath -> byName
          [] byName = NoPath /\ byId # NoPath -> byId
          [] byName = NoPath /\ byId = NoPath /\ all # NoPath -> Append(all, t.tsName)
          [] OTHER -> NoPath

TablespaceConflict(t, map) ==
    /\ {t.tsName, t.tsId} \subseteq DOMAIN map
    /\ map[t.tsName] # map[t.tsId]

\* manifestTargetUpdate() and manifestLinkUpdate() for a tablespace
TablespaceRemap(t, map, all) ==
    LET path == TablespacePath(t, map, all)
    IN  IF t.kind # "tablespace" \/ path = NoPath THEN t
        ELSE [t EXCEPT !.path = path, !.link = path]

LinkTooShort(t, map) ==
    t.kind = "file" /\ Get(map, t.name) # NoPath /\ Len(Front(map[t.name])) = 0

\* the destination of a file link is split into path and file
LinkRemap(t, map) ==
    LET dest == Get(map, t.name)
    IN  IF t.kind \notin {"path", "file"} \/ dest = NoPath THEN t
        ELSE IF t.kind = "path" THEN [t EXCEPT !.link = dest, !.path = dest]
        ELSE [t EXCEPT !.link = dest, !.path = Front(dest), !.file = Last(dest)]

\* a link that is neither mapped nor restored becomes a file or a path
LinkDropped(t, map, linkAll) ==
    t.kind \in {"path", "file"} /\ Get(map, t.name) = NoPath /\ ~linkAll

restoreManifestMap(a) ==
    LET ts == {t \in ToSet(a.target) : t.kind = "tablespace"}
        link == {t \in ToSet(a.target) : t.kind \in {"path", "file"}}
        step1 == [i \in DOMAIN a.target |->
                     TablespaceRemap(a.target[i], a.tsMap, a.tsAll)]
        step2 == SelectSeq(step1, LAMBDA t : ~LinkDropped(t, a.linkMap, a.linkAll))
    IN  CASE \E t \in ts : TablespaceConflict(t, a.tsMap) ->
                 Throw("TablespaceMapError")
          [] ~(DOMAIN a.tsMap \subseteq UNION {{t.tsName, t.tsId} : t \in ts}) ->
                 Throw("TablespaceMapError")
          [] \E t \in link : LinkTooShort(t, a.linkMap) -> Throw("LinkMapError")
          [] ~(DOMAIN a.linkMap \subseteq {t.name : t \in link}) ->
                 Throw("LinkMapError")
          [] OTHER -> Value([i \in DOMAIN step2 |-> LinkRemap(step2[i], a.linkMap)])

\* manifestTargetPath(): where the files of a target are written
TargetPath(t) == IF t.kind = "file" THEN Append(t.path, t.file) ELSE t.path

\* After restoreManifestMap() every link of the manifest leads to where the
\* files of its target are written, a map entry is used or refused, and a link
\* is restored as a link exactly if it is mapped or all links are
MapConsistent(a, r) ==
Threw(r) \/
    /\ \A i \in DOMAIN r.ok : r.ok[i].kind # "base" =>
           r.ok[i].link = TargetPath(r.ok[i])
    /\ \A k \in DOMAIN a.linkMap : \E i \in DOMAIN r.ok :
           r.ok[i].name = k /\ r.ok[i].link = a.linkMap[k]
    /\ \A t \in ToSet(a.target) : t.kind \in {"path", "file"} =>
           ((\E i \in DOMAIN r.ok : r.ok[i].name = t.name)
                <=> (a.linkAll \/ t.name \in DOMAIN a.linkMap))
-----------------------------------------------------------------------------
(***************************************************************************)
(* restoreManifestOwner().  An item is a file, link or path with the user  *)
(* and group of the backup, Null when they had no name.                    *)
(***************************************************************************)
\* is some user or group unknown?
OwnerUpdate(a) ==
    \E i \in DOMAIN a.item : Null \in {a.item[i].user, a.item[i].group}

\* as another user than root the owners are cleared: no attempt is made to
\* change them
restoreManifestOwner(a) ==
    LET own(n) == IF n = Null THEN a.pathOwner ELSE n
        cleared == [i \in DOMAIN a.item |-> [user |-> Null, group |-> Null]]
        owned == [i \in DOMAIN a.item |-> [user |-> own(a.item[i].user),
                                           group |-> own(a.item[i].group)]]
    IN  IF ~a.root THEN cleared
        ELSE IF OwnerUpdate(a) THEN owned ELSE a.item

\* A restore by root gives everything an owner: what the backup had no name
\* for goes to the owner of the data directory, not to root, and the rest
\* keeps its user and its group
OwnerKnown(a, r) ==
    a.root => \A i \in DOMAIN r :
    /\ r[i].user \in {a.item[i].user, a.pathOwner} \ {Null}
    /\ r[i].group \in {a.item[i].group, a.pathOwner} \ {Null}

-----------------------------------------------------------------------------
(***************************************************************************)
(* restoreSelectiveExpression().  The databases of the manifest have a     *)
(* name and an id; fileDb are the ids that have a PG_VERSION file in base  *)
(* or in a tablespace.  The options name databases by name or by id.       *)
(***************************************************************************)
UserObjectMinId == 16384
SystemDb(db) == db.name \in {"template0", "template1", "postgres"}
                    \/ db.id < UserObjectMinId

SystemDbId(a) == {d.id : d \in {d \in a.db : SystemDb(d)}} \cup
                 {i \in a.fileDb : i < UserObjectMinId}
DbList(a) == {d.id : d \in {d \in a.db : SystemDb(d)}} \cup a.fileDb

\* an option value is looked up as an id, then as a name; 0 if there is none
DbId(a, list, o) ==
    IF o.id \in list THEN o.id
    ELSE LET named == {d \in a.db : d.name = o.name /\ d.id \in list}
         IN  IF named = {} THEN 0 ELSE (CHOOSE d \in named : TRUE).id

\* the databases to zero, list holding those that were not included
ZeroList(a, list, exclude) ==
    IF a.include = <<>> THEN exclude
    ELSE list \ (SystemDbId(a) \ exclude)

\* each include is removed from the list before the next one is looked up
ListAfter(a, n) ==
    DbList(a) \ {DbId(a, DbList(a), a.include[i]) : i \in 1 .. n}

restoreSelectiveExpression(a) ==
    LET exclude == {DbId(a, DbList(a), o) : o \in ToSet(a.exclude)}
        includeId(i) == DbId(a, ListAfter(a, i - 1), a.include[i])
    IN  CASE DbList(a) = {} -> Throw("FormatError")
          [] 0 \in exclude -> Throw("DbMissingError")
          [] \E i \in DOMAIN a.include :
                 /\ includeId(i) = 0
                 /\ \A j \in 1 .. i - 1 :
                        includeId(j) \notin SystemDbId(a) \cup exclude ->
                 Throw("DbMissingError")
          [] \E i \in DOMAIN a.include :
                 includeId(i) \in SystemDbId(a) \cup exclude ->
                 Throw("DbInvalidError")
          [] OTHER -> Value(ZeroList(a, ListAfter(a, Len(a.include)), exclude))

\* restoreFileZeroed()
FileZeroed(zeroed, f) == f.db \in zeroed /\ ~f.version

\* A selective restore zeroes no file of a database that is included, none of
\* a system database unless it is excluded by name or id, and never a
\* PG_VERSION file, but every other file of a database that is excluded, or
\* that is not included when others are
SelectiveKeeps(a, r) ==
LET asked(list, id) == \E o \in ToSet(list) :
        \/ o.id = id
        \/ o.id \notin DbList(a) /\ [id |-> id, name |-> o.name] \in a.db
    file == [db : DbList(a), version : BOOLEAN]
IN  Threw(r) \/ \A f \in file :
        FileZeroed(r.ok, f) <=>
            /\ ~f.version
            /\ \/ asked(a.exclude, f.db)
               \/ /\ a.include # <<>> /\ ~asked(a.include, f.db)
                  /\ f.db \notin SystemDbId(a)
-----------------------------------------------------------------------------
(***************************************************************************)
(* restoreRecoveryOption(): the settings as a function from key to value.  *)
(* a.user are the settings of --recovery-option, a.old those found in      *)
(* postgresql.auto.conf.                                                   *)
(***************************************************************************)
PgTargetPause == 91
PgTargetAction == 95
PgRecoveryGuc == 120

Put(kv, key, value) == [k \in DOMAIN kv \cup {key} |-> IF k = key THEN value ELSE kv[k]]
PutIf(kv, test, key, value) == IF test THEN Put(kv, key, value) ELSE kv

\* the setting that says where recovery stops
TargetKey(type) == CASE type = "immediate" -> "recovery_target"
                     [] type = "time" -> "recovery_target_time"
                     [] type = "xid" -> "recovery_target_xid"
Targeted(type) == type \notin {"default", "standby", "none"}

\* recovery_target_action, or pause_at_recovery_target before 9.5
ActionOption(kv, version, action) ==
    CASE action \in {Null, "pause"} -> Value(kv)
      [] action \notin {Null, "pause"} /\ version >= PgTargetAction ->
             Value(Put(kv, "recovery_target_action", action))
      [] action = "promote" /\ version \in PgTargetPause .. PgTargetAction - 1 ->
             Value(Put(kv, "pause_at_recovery_target", "false"))
      [] OTHER -> Throw("OptionInvalidError")

restoreRecoveryOption(a) ==
    LET kv1 == PutIf(a.user, a.archiveMode = "off", "archive_mode", "off")
        kv2 == PutIf(kv1, "restore_command" \notin DOMAIN a.user, "restore_command", "archive-get")
        kv3 == PutIf(kv2, a.type = "standby" /\ a.version < PgRecoveryGuc, "standby_mode", "on")
        kv4 == IF Targeted(a.type) THEN Put(kv3, TargetKey(a.type), "new") ELSE kv3
        kv5 == PutIf(kv4, Targeted(a.type) /\ a.type # "immediate" /\ a.exclusive,
                     "recovery_target_inclusive", "false")
        acted == ActionOption(kv5, a.version, a.action)
    IN  CASE a.archiveMode = "off" /\ a.version < PgRecoveryGuc -> Throw("OptionInvalidError")
          [] Threw(acted) -> acted
          [] OTHER -> Value(PutIf(acted.ok, a.timeline # Null,
                                  "recovery_target_timeline", a.timeline))

RecoveryTargets == {"recovery_target", "recovery_target_lsn", "recovery_target_name",
                    "recovery_target_time", "recovery_target_xid"}

\* the settings of postgresql.auto.conf that are commented out
AutoConfKeep(kv) ==
    [k \in DOMAIN kv \ (RecoveryTargets \cup
        {"recovery_target_action", "recovery_target_inclusive",
         "recovery_target_timeline"}) |-> kv[k]]

\* restoreRecoveryWrite(): the settings PostgreSQL finds, and the signal file
restoreRecoveryWrite(a) ==
    LET option == restoreRecoveryOption(a)
        conf == [k \in DOMAIN option.ok \cup DOMAIN AutoConfKeep(a.old) |->
                    IF k \in DOMAIN option.ok THEN option.ok[k] ELSE a.old[k]]
        signal == CASE a.version < PgRecoveryGuc -> Null
                    [] a.version >= PgRecoveryGuc /\ a.type = "standby" -> "standby.signal"
                    [] OTHER -> "recovery.signal"
    IN  CASE a.type = "none" ->
                 Value([conf |-> IF a.version < PgRecoveryGuc THEN <<>> ELSE AutoConfKeep(a.old),
                        signal |-> signal])
          [] a.type # "none" /\ a.version >= PgRecoveryGuc /\ "standby_mode" \in DOMAIN a.user ->
                 Throw("OptionInvalidError")
          [] a.type # "none" /\ Threw(option) -> option
          [] OTHER -> Value([conf |-> IF a.version < PgRecoveryGuc THEN option.ok ELSE conf,
                             signal |-> signal])

\* how PostgreSQL reads the settings when the target is reached
PgAction(version, conf) ==
    CASE version >= PgTargetAction ->
             IF "recovery_target_action" \in DOMAIN conf
             THEN conf["recovery_target_action"] ELSE "pause"
      [] version \in PgTargetPause .. PgTargetAction - 1 ->
             IF "pause_at_recovery_target" \in DOMAIN conf THEN "promote" ELSE "pause"
      [] OTHER -> "promote"

\* Whatever settings an earlier recovery left behind, the files written by
\* restoreRecoveryWrite() make PostgreSQL recover to the target of this
\* restore and to no other, act there as asked for (9.0 can only promote), and
\* start as a standby exactly if that is asked for
RecoveryAsAsked(a, r) ==
LET standby == \/ "standby_mode" \in DOMAIN r.ok.conf
               \/ r.ok.signal = "standby.signal"
    target == {k \in RecoveryTargets : k \in DOMAIN r.ok.conf}
IN  Threw(r) \/
        /\ target = IF Targeted(a.type) THEN {TargetKey(a.type)} ELSE {}
        /\ \A k \in target : r.ok.conf[k] = "new"
        /\ Targeted(a.type) /\ a.action # Null /\ a.version >= PgTargetPause =>
               PgAction(a.version, r.ok.conf) = a.action
        /\ standby <=> a.type = "standby"

-----------------------------------------------------------------------------
(***************************************************************************)
(* restoreProcessQueue().  A name is the sequence of its characters.       *)
(***************************************************************************)
QueuePrefix(target) == Append(target, "/")

\* the queue of a file: the first whose target is a prefix of its name
QueueOf(targets, name) ==
    SelectInSeq(targets, LAMBDA t : IsPrefix(QueuePrefix(t), name))

\* restoreProcessQueueComparator(), names by their position in the manifest
FileBefore(f, i, j) ==
    \/ f[i].size > f[j].size
    \/ f[i].size = f[j].size /\ i > j

restoreProcessQueue(a) ==
    [q \in DOMAIN a.target |->
        SetToSortSeq({i \in DOMAIN a.file : QueueOf(a.target, a.file[i].name) = q},
                     LAMBDA i, j : FileBefore(a.file, i, j))]

\* Every file of the manifest is in the queue of the target that holds it and
\* in no other, however the tablespaces are numbered, and the largest first
QueueComplete(a, r) ==
/\ \A i \in DOMAIN a.file : \A q \in DOMAIN r :
       (\E k \in DOMAIN r[q] : r[q][k] = i)
           <=> SubSeq(a.file[i].name, 1, Len(a.file[i].name) - 2) = a.target[q]
/\ \A q \in DOMAIN r : \A k \in 1 .. Len(r[q]) - 1 :
       a.file[r[q][k]].size >= a.file[r[q][k + 1]].size

\* A restore uses the backup set, the targets, the owners, the databases, the
\* recovery settings and the queues it was asked for: each function above
\* gives what its reference definition says for every input.
RestorePlanned ==
    [][ /\ Returns("restoreBackupSet", restoreBackupSet, BackupSetReachesTarget)
        /\ Returns("restoreManifestMap", restoreManifestMap, MapConsistent)
        /\ Returns("restoreManifestOwner", restoreManifestOwner, OwnerKnown)
        /\ Returns("restoreSelectiveExpression", restoreSelectiveExpression, SelectiveKeeps)
        /\ Returns("restoreRecoveryWrite", restoreRecoveryWrite, RecoveryAsAsked)
        /\ Returns("restoreProcessQueue", restoreProcessQueue, QueueComplete)]_call
=============================================================================
