----------------------------- MODULE BackupPlan -----------------------------
(***************************************************************************)
(* The decisions of the backup command that keep no state: which clusters  *)
(* are the primary and the standby (db/helper.c), which files of the data  *)
(* directory belong to a backup (info/manifest.c), how they are handed to  *)
(* the local processes (command/backup/backup.c) and what the page         *)
(* checksum filter reports (command/backup/pageChecksum.c).                *)
(***************************************************************************)
EXTENDS Manifest

-----------------------------------------------------------------------------
(* dbGet() *)

\* a standby is kept when none is known yet and one is wanted
StandbyKeep(found, primaryOnly) == found.standby = 0 /\ ~primaryOnly

DbStep(a, found, i) ==
    IF "error" \in DOMAIN found THEN found
    ELSE CASE a.pg[i] = "down" -> found
           [] a.pg[i] = "standby" -> IF StandbyKeep(found, a.primaryOnly)
                                     THEN [found EXCEPT !.standby = i] ELSE found
           [] a.pg[i] = "primary" -> IF found.primary # 0 THEN Throw("more than one primary")
                                     ELSE [found EXCEPT !.primary = i]

dbGet(a) ==
    LET found == FoldLeft(LAMBDA r, i : DbStep(a, r, i), [primary |-> 0, standby |-> 0],
                          [i \in DOMAIN a.pg |-> i])
    IN  IF Threw(found) THEN found
        ELSE IF found.primary = 0 /\ a.primaryRequired THEN Throw("no primary")
        ELSE IF found.standby = 0 /\ a.standbyRequired THEN Throw("no standby")
        ELSE Value(found)

\* dbGet() returns only what it could reach and what was asked for: the one
\* primary, the first standby in the order of the options, and it never
\* returns with two clusters claiming to be the primary.
DbChosen(a, r) ==
    LET up(kind) == {i \in DOMAIN a.pg : a.pg[i] = kind}
        first(S) == IF S = {} THEN 0 ELSE CHOOSE i \in S : \A j \in S : i <= j
    IN  ~Threw(r) =>
            /\ Cardinality(up("primary")) <= 1
            /\ r.ok = [primary |-> first(up("primary")),
                       standby |-> IF a.primaryOnly THEN 0 ELSE first(up("standby"))]
            /\ a.primaryRequired => r.ok.primary # 0
            /\ a.standbyRequired => r.ok.standby # 0

-----------------------------------------------------------------------------
(* manifestBuildCallback(): what is skipped.  A version is 84, 96, 130 ... *)

SkipContents(parent, name, v, online) ==
    \/ /\ parent = "pg_data"
       /\ \/ name = "pg_dynshmem" /\ v >= 94
          \/ name = "pg_notify" /\ v >= 90
          \/ name = "pg_replslot" /\ v >= 94
          \/ name = "pg_serial" /\ v >= 91
          \/ name = "pg_snapshots" /\ v >= 92
          \/ name = "pg_stat_tmp" /\ v >= 84
          \/ name = "pg_subtrans"
    \/ online /\ name = "pg_wal/archive_status"

SkipRoot(name, v) ==
    \/ name \in {"recovery.signal", "standby.signal"} /\ v >= 120
    \/ name \in {"recovery.conf", "recovery.done"} /\ v < 120
    \/ name = "postgresql.auto.conf.tmp" /\ v >= 94
    \/ name = "backup_label" /\ v >= 96
    \/ name = "backup_label.old"
    \/ name \in {"backup_manifest", "backup_manifest.tmp"} /\ v >= 130
    \/ name \in {"postmaster.opts", "postmaster.pid"}

\* a database path is recognised since 9.0
DbPath(parent, v) == parent \in {"base/1", "global"} /\ v >= 90

\* file f of directory parent is added to the manifest
FileAdded(parent, name, v, online) ==
    /\ name # "pgsql_tmp1"
    /\ ~SkipContents("pg_data", parent, v, online)
    /\ ~((v <= 84 \/ DbPath(parent, v)) /\ name = "pg_internal.init")
    /\ parent = "pg_data" => ~SkipRoot(name, v)
    /\ online => parent # "pg_wal"
    /\ ~(DbPath(parent, v) /\ name = "t3_16384")

\* dbBackupStop(): since 9.6 PostgreSQL returns the label instead of writing it
StopReturnsLabel(v) == v >= 96

\* restoreRecoveryWrite(): the files a restore writes for that version
RecoveryWritten(v) == IF v >= 120 THEN {"recovery.signal", "standby.signal"} ELSE {"recovery.conf"}

\* the manifest of an online backup: files found and files put at the end
manifestOnline(a) ==
    {<<p, n>> \in a.tree : FileAdded(p, n, a.version, TRUE)}
        \cup (IF StopReturnsLabel(a.version) THEN {<<"stop", "backup_label">>} ELSE {})

\* An online backup has exactly one backup_label, the one PostgreSQL made for
\* it; it has no WAL, which comes from the archive, none of the files that
\* steer recovery and are written by restore, and every relation that is not
\* temporary.
OnlineBackup(a, r) ==
    /\ Cardinality({x \in r : x[2] = "backup_label"}) = 1
    /\ \A x \in r : x[1] # "pg_wal"
                    /\ (x[1] = "pg_data" => x[2] \notin RecoveryWritten(a.version))
    /\ {<<"base/1", "16384">>, <<"global", "pg_control">>, <<"base/1", "PG_VERSION">>} \subseteq r

\* manifestNewBuild(): relations that have an init fork are unlogged and are
\* left out.  The files come sorted by directory and name, and the answer for
\* the last relation is kept for its other forks and segments.
Unlogged(list, f) == \E i \in DOMAIN list : list[i] = [f EXCEPT !.fork = "init"]

UnloggedStep(list, r, f) ==
    IF f.fork = "init" THEN [r EXCEPT !.kept = Append(@, f)]
    ELSE LET un == IF f.id # r.last THEN Unlogged(list, f) ELSE r.unlogged
         IN  [last |-> f.id, unlogged |-> un, kept |-> IF un THEN r.kept ELSE Append(r.kept, f)]

RemoveUnlogged(list) ==
    FoldLeft(LAMBDA r, f : UnloggedStep(list, r, f),
             [last |-> 0, unlogged |-> FALSE, kept |-> <<>>], list).kept

\* Neighbours in different directories never have the same file id
IdsApart(list) ==
    LET rel == SelectSeq(list, LAMBDA f : f.fork # "init")
    IN  \A i \in 1 .. Len(rel) - 1 : rel[i].dir # rel[i + 1].dir => rel[i].id # rel[i + 1].id

\* manifestNewBuild() leaves out the unlogged relations and no other, when
\* the directories do not repeat a file id next to each other.
UnloggedRemoved(list, r) ==
    IdsApart(list) => ToSet(r) = {f \in ToSet(list) : f.fork = "init" \/ ~Unlogged(list, f)}

-----------------------------------------------------------------------------
(* backupProcessQueue() and backupJobCallback(): a file is [name, target,  *)
(* size, primary, ref], targets are numbered from 0 (pg_data).             *)

Queued(f, delta) == f.ref => delta /\ f.size # 0

QueueIdx(f, standby) == IF standby /\ f.primary THEN 0
                        ELSE f.target + (IF standby THEN 1 ELSE 0)

\* backupProcessQueueComparator(), descending
LargerFirst(f, g) == f.size > g.size \/ (f.size = g.size /\ f.name > g.name)

backupProcessQueue(a) ==
    LET wanted == {f \in a.file : Queued(f, a.delta)}
        total == a.targets + (IF a.standby THEN 1 ELSE 0)
    IN  IF a.online /\ \A f \in wanted : f.name # 0 THEN Throw("pg_control")
        ELSE IF wanted = {} THEN Throw("no files")
        ELSE Value([q \in 0 .. total - 1 |->
                       SetToSortSeq({f \in wanted : QueueIdx(f, a.standby) = q}, LargerFirst)])

JobQueueNext(client, q, total) ==
    IF client % 2 = 1 THEN (IF q = 0 THEN total - 1 ELSE q - 1)
    ELSE (IF q + 1 = total THEN 0 ELSE q + 1)

\* the queue the next job of the client comes from, -1 when it finds none
RECURSIVE ScanQueues(_, _, _, _, _, _)
ScanQueues(queue, client, q, end, offset, total) ==
    IF queue[q + offset] # <<>> THEN q + offset
    ELSE LET next == JobQueueNext(client, q, total)
         IN  IF next = end THEN -1 ELSE ScanQueues(queue, client, next, end, offset, total)

JobQueue(queue, standby, client) ==
    LET all == Cardinality(DOMAIN queue)
        offset == IF standby /\ client > 0 THEN 1 ELSE 0
        begin == client % (all - offset)
    IN  IF standby /\ client = 0 THEN (IF queue[0] # <<>> THEN 0 ELSE -1)
        ELSE ScanQueues(queue, client, begin, begin, offset, all - offset)

\* the clients ask in the order of the sequence a.ask; each then asks again
\* until it is told that nothing is left
RECURSIVE Drain(_, _, _)
Drain(a, queue, ask) ==
    IF ask = <<>> THEN <<>>
    ELSE LET q == JobQueue(queue, a.standby, Head(ask))
         IN  IF q = -1 THEN Drain(a, queue, Tail(ask))
             ELSE <<[client |-> Head(ask), file |-> Head(queue[q])]>>
                  \o Drain(a, [queue EXCEPT ![q] = Tail(@)], Append(Tail(ask), Head(ask)))

backupJobs(a) ==
    LET queue == backupProcessQueue(a)
    IN  IF Threw(queue) THEN queue ELSE Value(Drain(a, queue.ok, a.ask))

\* Every file that has to be copied is handed to exactly one client, whatever
\* the number of clients and queues.  With backup-standby client 0, the one
\* connected to the primary, copies the files that must come from there and
\* the others copy all the rest.
JobsComplete(a, r) ==
    ~Threw(r) =>
       /\ {r.ok[i].file : i \in DOMAIN r.ok} = {f \in a.file : Queued(f, a.delta)}
       /\ IsInjective([i \in DOMAIN r.ok |-> r.ok[i].file])
       /\ \A i \in DOMAIN r.ok :
             a.standby => (r.ok[i].client = 0 <=> r.ok[i].file.primary)

-----------------------------------------------------------------------------
(* pageChecksumProcess() and pageChecksumResult(): a file is a sequence of *)
(* pages "good", "bad", "new" or "late" (LSN after the start), the last    *)
(* one whole, "part" (at least 512 bytes) or "rag" (less); a buffer holds  *)
(* a.pages pages.                                                          *)

\* page i is reported: a partial page cannot be right
PageError(a, i) ==
    ~(a.page[i] \in {"new", "late"} \/ (~(a.last = "part" /\ i = Len(a.page)) /\ a.page[i] = "good"))

\* a ragged end ends the checks with the buffer that holds it; blocks are
\* numbered from a.offset, the first block of the segment
pageErrors(a) ==
    LET ragged == a.last = "rag"
        checked == IF ragged THEN {i \in DOMAIN a.page : i <= ((Len(a.page) - 1) \div a.pages) * a.pages}
                   ELSE DOMAIN a.page
    IN  SetToSortSeq({a.offset + i - 1 : i \in {i \in checked : PageError(a, i)}}, <)

\* runs of pages become [first, last], single pages [page, page]
PageRanges(pages) ==
    FoldLeft(LAMBDA r, p : IF r # <<>> /\ p = Last(r)[2] + 1
                           THEN Append(Front(r), <<Last(r)[1], p>>) ELSE Append(r, <<p, p>>),
             <<>>, pages)

pageChecksumResult(a) ==
    LET errors == pageErrors(a)
    IN  [valid |-> a.last # "rag" /\ errors = <<>>, align |-> a.last = "whole",
         error |-> PageRanges(errors)]

\* The ranges name exactly the complete, used pages of the file with a wrong
\* checksum that were written before the backup started, and an incomplete
\* last page; they are disjoint and not adjacent.  A file is valid only when
\* every such page is right.
PagesReported(a, r) ==
    LET named == UNION {x[1] .. x[2] : x \in ToSet(r.error)}
        wrong == {i \in DOMAIN a.page :
                     \/ a.page[i] = "bad"
                     \/ i = Len(a.page) /\ a.last = "part" /\ a.page[i] = "good"}
    IN  /\ a.last # "rag" => named = {a.offset + i - 1 : i \in wrong}
        /\ named \subseteq {a.offset + i - 1 : i \in wrong}
        /\ r.valid => wrong = {}
        /\ \A i, j \in DOMAIN r.error : i < j => r.error[i][2] + 1 < r.error[j][1]

\* A backup is made of the right cluster and of all its files: dbGet(), the
\* manifest that is built, its links, the jobs, the page checks, and the
\* manifest that is saved and loaded give what their reference definitions
\* say for every input.
BackupPlanned ==
    [][ /\ Returns("dbGet", dbGet, DbChosen)
        /\ Returns("manifestOnline", manifestOnline, OnlineBackup)
        /\ Returns("RemoveUnlogged", RemoveUnlogged, UnloggedRemoved)
        /\ Returns("backupJobs", backupJobs, JobsComplete)
        /\ Returns("pageChecksumResult", pageChecksumResult, PagesReported)
        /\ Returns("manifestLinkCheck", manifestLinkCheck, LinksApart)
        /\ Returns("manifestReload", manifestReload, ManifestReloads)]_call
=============================================================================
