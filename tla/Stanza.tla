------------------------------- MODULE Stanza -------------------------------
(***************************************************************************)
(* The stanza of a cluster in its repositories: archive.info and           *)
(* backup.info with their copies, and the commands that create, upgrade    *)
(* and delete them (command/stanza, info/infoPg.c, info/infoArchive.c,     *)
(* info/info.c), next to the archive-push and backup commands that use     *)
(* them.                                                                   *)
(*                                                                         *)
(* The stanza commands hold all locks (module Lock), so one runs at a time *)
(* and no backup with it; an archive-push takes none.  A command is a list *)
(* of changes to the repositories, decided when it reads them, and may be  *)
(* killed between any two.                                                 *)
(*                                                                         *)
(* An info file holds the history of the stanza, the oldest cluster first: *)
(* the id of a cluster is its place, the current one is the last.  A       *)
(* cluster is its version with its system id.                              *)
(***************************************************************************)
EXTENDS Naturals, Sequences, FiniteSets, SequencesExt

CONSTANTS
    Cluster,            \* the clusters that are in the path one after another
    NRepo,              \* number of repositories
    MaxStanzaBackup,          \* bound on the backups of a repository
    MaxCommand,         \* bound on stanza commands
    MaxChange,          \* bound on changes of the cluster
    MaxStanzaFault            \* bound on killed commands and lost files

VARIABLES
    stanzaPg,         \* pg_control: the cluster
    file,       \* the info files of each repository
    wal,        \* the WAL in each repository
    stanzaManifest,   \* the manifests in each repository, with their copies
    stanzaCmd,        \* the stanza command that runs
    push,       \* what an archive-push has read and not yet used
    stop,       \* is there a stop file?
    ended,      \* how the last stanza command ended
    tally       \* stanza commands, faults and changes of the cluster so far

stanzaVars == <<stanzaPg, file, wal, stanzaManifest, stanzaCmd, push, stop, ended, tally>>

Missing == [is |-> "missing", history |-> <<>>, pass |-> 0]
Bad == [is |-> "bad", history |-> <<>>, pass |-> 0]
NoPush == [cluster |-> <<>>, to |-> <<>>]
NoCommand == [name |-> "none", repo |-> 0, todo |-> <<>>]
Repos == 1 .. NRepo

StanzaInit ==
    /\ stanzaPg = CHOOSE p \in Cluster : TRUE
    /\ file = [r \in Repos |-> [k \in {"archive", "backup"} |-> [w \in {"main", "copy"} |-> Missing]]]
    /\ wal = [r \in Repos |-> {}]
    /\ stanzaManifest = [r \in Repos |-> {}]
    /\ stanzaCmd = NoCommand
    /\ push = NoPush
    /\ stop = FALSE
    /\ ended = "none"
    /\ tally = [command |-> 0, fault |-> 0, change |-> 0]

------------------------------------------------------------------------------
(* Info files.                                                             *)

Exists(r, k) == \E w \in {"main", "copy"} : file[r][k][w].is # "missing"

\* infoLoad(): the copy when the file cannot be read, an error when neither can
Load(r, k) ==
    IF file[r][k]["main"].is = "ok" THEN file[r][k]["main"] ELSE file[r][k]["copy"]

Loads(r) == Load(r, "archive").is = "ok" /\ Load(r, "backup").is = "ok"

\* infoPgDataCurrent()
Current(info) == Last(info.history)

\* infoPgSet(): the id of the new cluster is the one after the current id
PgSetFirst(info) == [info EXCEPT !.history = <<stanzaPg>> \o @]

PgSet(info) == [info EXCEPT !.history = Append(@, stanzaPg)]

\* infoArchiveNew(), infoBackupNew(): a passphrase of its own for either file
InfoNew(pass) == [is |-> "ok", history |-> <<stanzaPg>>, pass |-> pass]

\* checkStanzaInfo()
SameCurrent(a, b) == Len(a.history) = Len(b.history) /\ Current(a) = Current(b)

------------------------------------------------------------------------------
(* The changes a command makes.                                            *)

Put(k, w, info) == [op |-> "put", k |-> k, w |-> w, info |-> info, n |-> 0]
InfoRemove(k, w) == [op |-> "put", k |-> k, w |-> w, info |-> Missing, n |-> 0]
ManifestRemove(n, w) == [op |-> "manifest", k |-> "backup", w |-> w, info |-> Missing, n |-> n]
StanzaPathRemove(k) == [op |-> "path", k |-> k, w |-> "main", info |-> Missing, n |-> 0]
StopRemove == [op |-> "stop", k |-> "backup", w |-> "main", info |-> Missing, n |-> 0]

\* infoArchiveSaveFile(), infoBackupSaveFile(): the file, then its copy
SaveFile(k, info) == <<Put(k, "main", info), Put(k, "copy", info)>>

------------------------------------------------------------------------------
(* stanza-create.                                                          *)

ArchiveNotEmpty(r) == wal[r] # {} \/ Exists(r, "archive")
BackupNotEmpty(r) == stanzaManifest[r] # {} \/ Exists(r, "backup")

\* The missing one of file and copy is put from the other
CopyMissing(r, k) ==
    CASE file[r][k]["main"].is = "missing" -> <<Put(k, "main", file[r][k]["copy"])>>
      [] file[r][k]["copy"].is = "missing" -> <<Put(k, "copy", file[r][k]["main"])>>
      [] OTHER -> <<>>

\* cmdStanzaCreate() on one repository
CreateAnyway(r) ==
    IF ~Exists(r, "archive") /\ ~Exists(r, "backup")
    THEN [result |-> "ok", todo |-> SaveFile("archive", InfoNew(2 * tally.command))
                                    \o SaveFile("backup", InfoNew(2 * tally.command + 1))]
    ELSE [result |-> "exists", todo |-> <<>>]

Create(r) ==
    IF ~Exists(r, "archive") /\ ~Exists(r, "backup")
    THEN IF ArchiveNotEmpty(r) \/ BackupNotEmpty(r)
         THEN [result |-> "not empty", todo |-> <<>>]
         ELSE [result |-> "ok", todo |-> SaveFile("archive", InfoNew(2 * tally.command))
                                         \o SaveFile("backup", InfoNew(2 * tally.command + 1))]
    ELSE IF Exists(r, "archive") /\ Exists(r, "backup")
    THEN IF /\ Loads(r)
            /\ SameCurrent(Load(r, "archive"), Load(r, "backup"))
            /\ Current(Load(r, "archive")) = stanzaPg
         THEN [result |-> "ok", todo |-> CopyMissing(r, "archive") \o CopyMissing(r, "backup")]
         ELSE [result |-> "invalid", todo |-> <<>>]
    ELSE [result |-> "one missing", todo |-> <<>>]

------------------------------------------------------------------------------
(* stanza-upgrade.                                                         *)

Outdated(r, k) == Current(Load(r, k)) # stanzaPg
Updated(r, k) == IF Outdated(r, k) THEN PgSet(Load(r, k)) ELSE Load(r, k)

\* cmdStanzaUpgrade() on one repository: each file on its own
UpgradeTogether(r) ==
    IF ~Loads(r) THEN [result |-> "missing", todo |-> <<>>]
    ELSE [result |-> "ok",
          todo |-> IF Outdated(r, "archive")
                   THEN SaveFile("archive", Updated(r, "archive")) \o SaveFile("backup", Updated(r, "backup"))
                   ELSE <<>>]

Upgrade(r) ==
    IF ~Loads(r) THEN [result |-> "missing", todo |-> <<>>]
    ELSE IF ~SameCurrent(Updated(r, "archive"), Updated(r, "backup"))
    THEN [result |-> "mismatch", todo |-> <<>>]
    ELSE [result |-> "ok",
          todo |-> (IF Outdated(r, "archive") THEN SaveFile("archive", Updated(r, "archive")) ELSE <<>>)
                   \o (IF Outdated(r, "backup") THEN SaveFile("backup", Updated(r, "backup")) ELSE <<>>)]

------------------------------------------------------------------------------
(* stanza-delete, on one repository.                                       *)

StanzaLabels(r) == {m.n : m \in stanzaManifest[r]}

\* manifestDelete(): from the newest backup to the oldest
ManifestDelete(r) ==
    LET list == SetToSortSeq(StanzaLabels(r), >)
    IN  FlattenSeq([i \in 1 .. Len(list) |-> <<ManifestRemove(list[i], "main"), ManifestRemove(list[i], "copy")>>])

\* stanzaDelete(): nothing to do without the directories, which are there
\* when something is in them; otherwise the stop file is needed, and the
\* cluster is not running, or --force is given
Delete(r) ==
    IF ~ArchiveNotEmpty(r) /\ ~BackupNotEmpty(r) THEN [result |-> "ok", todo |-> <<>>]
    ELSE IF ~stop THEN [result |-> "no stop", todo |-> <<>>]
    ELSE [result |-> "ok",
          todo |-> (IF ArchiveNotEmpty(r) THEN <<InfoRemove("archive", "main"), InfoRemove("archive", "copy")>> ELSE <<>>)
                   \o (IF BackupNotEmpty(r) THEN <<InfoRemove("backup", "main"), InfoRemove("backup", "copy")>> ELSE <<>>)
                   \o ManifestDelete(r)
                   \o <<StanzaPathRemove("archive"), StanzaPathRemove("backup"), StopRemove>>]

------------------------------------------------------------------------------
(* A command.                                                              *)

Decide(name, r) ==
    CASE name = "create" -> Create(r)
      [] name = "upgrade" -> Upgrade(r)
      [] name = "delete" -> Delete(r)

LastRepo(name, r) == name = "delete" \/ r = NRepo

\* The command reads a repository and knows what it will change there; an
\* error ends it and leaves the repositories that follow as they are
Visit(name, r) ==
    LET do == Decide(name, r)
    IN  IF do.result # "ok"
        THEN stanzaCmd' = NoCommand /\ ended' = do.result
        ELSE IF do.todo = <<>> /\ LastRepo(name, r)
        THEN stanzaCmd' = NoCommand /\ ended' = name
        ELSE stanzaCmd' = [name |-> name, repo |-> r, todo |-> do.todo] /\ UNCHANGED ended

\* create and upgrade test the stop file, delete needs it.  The stanza of a
\* repository is deleted when the archive-push commands that ran are over.
StanzaStart(name) ==
    /\ stanzaCmd = NoCommand
    /\ tally.command < MaxCommand
    /\ name # "delete" => ~stop
    /\ name = "delete" => push = NoPush
    /\ \E r \in (IF name = "delete" THEN Repos ELSE {1}) : Visit(name, r)
    /\ tally' = [tally EXCEPT !.command = @ + 1]
    /\ UNCHANGED <<stanzaPg, file, wal, stanzaManifest, push, stop>>

NextRepo ==
    /\ stanzaCmd # NoCommand
    /\ stanzaCmd.todo = <<>>
    /\ Visit(stanzaCmd.name, stanzaCmd.repo + 1)
    /\ UNCHANGED <<stanzaPg, file, wal, stanzaManifest, push, stop, tally>>

Apply(r, s) ==
    /\ file' = CASE s.op = "put" -> [file EXCEPT ![r][s.k][s.w] = s.info]
                 [] s.op = "path" -> [file EXCEPT ![r][s.k] = [w \in {"main", "copy"} |-> Missing]]
                 [] OTHER -> file
    /\ stanzaManifest' = CASE s.op = "manifest" -> [stanzaManifest EXCEPT ![r] = @ \ {[n |-> s.n, w |-> s.w]}]
                     [] s.op = "path" /\ s.k = "backup" -> [stanzaManifest EXCEPT ![r] = {}]
                     [] OTHER -> stanzaManifest
    /\ wal' = IF s.op = "path" /\ s.k = "archive" THEN [wal EXCEPT ![r] = {}] ELSE wal
    /\ stop' = (stop /\ s.op # "stop")

\* The next change
Change ==
    /\ stanzaCmd # NoCommand
    /\ stanzaCmd.todo # <<>>
    /\ Apply(stanzaCmd.repo, Head(stanzaCmd.todo))
    /\ IF Len(stanzaCmd.todo) = 1 /\ LastRepo(stanzaCmd.name, stanzaCmd.repo)
       THEN stanzaCmd' = NoCommand /\ ended' = stanzaCmd.name
       ELSE stanzaCmd' = [stanzaCmd EXCEPT !.todo = Tail(@)] /\ UNCHANGED ended
    /\ UNCHANGED <<stanzaPg, push, tally>>

------------------------------------------------------------------------------
(* The commands that use the stanza.                                       *)

\* archivePushCheck(): the repositories whose current cluster is the one of
\* pg_control, with the archive id and the passphrase
PushTo(r) ==
    LET info == Load(r, "archive")
    IN  IF info.is = "ok" /\ Current(info) = stanzaPg
        THEN {[repo |-> r, id |-> Len(info.history), pass |-> info.pass]}
        ELSE {}

PushCheck ==
    /\ push = NoPush
    /\ ~stop
    /\ LET to == UNION {PushTo(r) : r \in Repos}
       IN  to # {} /\ push' = [cluster |-> <<stanzaPg>>, to |-> to]
    /\ UNCHANGED <<stanzaPg, file, wal, stanzaManifest, stanzaCmd, stop, ended, tally>>

\* archivePushFile(): the segment is written to each of them
PushFile ==
    /\ push # NoPush
    /\ wal' = [r \in Repos |-> wal[r] \cup {[id |-> t.id, cluster |-> push.cluster[1], pass |-> t.pass] :
                                             t \in {u \in push.to : u.repo = r}}]
    /\ push' = NoPush
    /\ UNCHANGED <<stanzaPg, file, stanzaManifest, stanzaCmd, stop, ended, tally>>

\* A backup that completes (module BackupRepo): it is of the current cluster,
\* depends on the one before it, and saves backup.info
Backup(r) ==
    /\ stanzaCmd = NoCommand
    /\ ~stop
    /\ Loads(r)
    /\ Current(Load(r, "backup")) = stanzaPg
    /\ Cardinality(StanzaLabels(r)) < MaxStanzaBackup
    /\ LET n == 1 + Cardinality(StanzaLabels(r))
       IN  stanzaManifest' = [stanzaManifest EXCEPT ![r] = @ \cup {[n |-> n, w |-> "main"], [n |-> n, w |-> "copy"]}]
    /\ file' = [file EXCEPT ![r]["backup"] = [w \in {"main", "copy"} |-> Load(r, "backup")]]
    /\ UNCHANGED <<stanzaPg, wal, stanzaCmd, push, stop, ended, tally>>

------------------------------------------------------------------------------
(* What else happens.                                                      *)

\* cmdStop() and cmdStart()
StopStart ==
    /\ stanzaCmd = NoCommand
    /\ stop' = ~stop
    /\ UNCHANGED <<stanzaPg, file, wal, stanzaManifest, stanzaCmd, push, ended, tally>>

\* The cluster is upgraded or created again, after the stanza was upgraded for
\* the last one
PgChange ==
    /\ stanzaCmd = NoCommand
    /\ \A r \in Repos : /\ Loads(r)
                        /\ Current(Load(r, "archive")) = stanzaPg
                        /\ Current(Load(r, "backup")) = stanzaPg
    /\ \E c \in Cluster : c # stanzaPg /\ stanzaPg' = c
    /\ tally.change < MaxChange
    /\ tally' = [tally EXCEPT !.change = @ + 1]
    /\ ended' = "none"
    /\ UNCHANGED <<file, wal, stanzaManifest, stanzaCmd, push, stop>>

StanzaFault == tally.fault < MaxStanzaFault /\ tally' = [tally EXCEPT !.fault = @ + 1]

Killed ==
    /\ stanzaCmd # NoCommand
    /\ StanzaFault
    /\ stanzaCmd' = NoCommand
    /\ ended' = "killed"
    /\ UNCHANGED <<stanzaPg, file, wal, stanzaManifest, push, stop>>

Lost(r, k) ==
    /\ stanzaCmd = NoCommand
    /\ file[r][k]["main"].is = "ok"
    /\ StanzaFault
    /\ \E info \in {Missing, Bad} : file' = [file EXCEPT ![r][k]["main"] = info]
    /\ ended' = "none"
    /\ UNCHANGED <<stanzaPg, wal, stanzaManifest, stanzaCmd, push, stop>>

StanzaNext ==
    \/ \E name \in {"create", "upgrade", "delete"} : StanzaStart(name)
    \/ NextRepo \/ Change
    \/ PushCheck \/ PushFile
    \/ \E r \in Repos : Backup(r)
    \/ StopStart \/ PgChange \/ Killed
    \/ \E r \in Repos, k \in {"archive", "backup"} : Lost(r, k)

------------------------------------------------------------------------------
(* Properties.                                                             *)

\* Whatever command is killed or file is lost, the info files that can be read
\* in a repository never give one id to two clusters: of two histories one
\* continues the other (infoPgSet(), cmdStanzaUpgrade()).
InfosAgree ==
    \A r \in Repos : \A k, l \in {"archive", "backup"}, v, w \in {"main", "copy"} :
        LET f == file[r][k][v]  g == file[r][l][w]
        IN  f.is = "ok" /\ g.is = "ok" => IsPrefix(f.history, g.history) \/ IsPrefix(g.history, f.history)

\* While archive.info can be read, every WAL segment lies under an id that
\* archive.info gives to the cluster that wrote it, and was encrypted with the
\* passphrase archive.info holds, although archive-push takes no lock and
\* stanzas are created over what an earlier command left behind
\* (archivePushCheck(), cmdStanzaCreate()).
WalKnown ==
    \A r \in Repos : \A s \in wal[r] :
        LET info == Load(r, "archive")
        IN  info.is = "ok" =>
                /\ s.pass = info.pass
                /\ s.id <= Len(info.history) => info.history[s.id] = s.cluster

\* A stanza-create or stanza-upgrade that ended well leaves archive.info and
\* backup.info of every repository at the same id of the current cluster, also
\* when the command before it was killed between the two
\* (cmdStanzaUpgrade()).
StanzaCurrent ==
    stanzaCmd = NoCommand /\ ended \in {"create", "upgrade"} =>
        \A r \in Repos :
            /\ Loads(r)
            /\ SameCurrent(Load(r, "archive"), Load(r, "backup"))
            /\ Current(Load(r, "archive")) = stanzaPg

\* One killed command or one lost file never makes the ids of archive.info and
\* backup.info differ in a way stanza-upgrade refuses for good
\* (checkStanzaInfo()).
Upgradable == ended # "mismatch"

\* A stanza command can be run again after a kill, and is right once it ends.
StanzaRepaired == StanzaCurrent /\ Upgradable

=============================================================================
