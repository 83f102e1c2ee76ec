--------------------------------- MODULE Wal ---------------------------------
(***************************************************************************)
(* WAL segments: their names and positions (postgres/interface.c and       *)
(* command/archive/common.c), how long a command waits for one             *)
(* (common/wait.c), the ranges verify reports (command/verify/verify.c)    *)
(* and the segments expire removes (command/expire/expire.c).              *)
(*                                                                         *)
(* A name is [tl, major, minor].  The 32 bits of major and of the low half *)
(* of a position are cut to LsnWord values, and the default segment size   *)
(* to DefaultSize, so that 0xFF is the last minor of that size as it is    *)
(* with 16 MB segments.                                                    *)
(***************************************************************************)
EXTENDS Call, Integers, Sequences, FiniteSets, SequencesExt, FiniteSetsExt

LsnWord == 16
DefaultSize == 4
MinorFF == (LsnWord \div DefaultSize) - 1
Pg92 == 92
Pg93 == 93
NoSegment == [tl |-> 0, major |-> 0, minor |-> 0]

\* strCmp() of two names
SegmentCode(s) == (s.tl * LsnWord + s.major) * LsnWord + s.minor
SegmentLeq(s, t) == SegmentCode(s) <= SegmentCode(t)
SegmentPath(s) == [tl |-> s.tl, major |-> s.major]
PathCode(p) == p.tl * LsnWord + p.major

-----------------------------------------------------------------------------
(* Names and positions *)

walSegmentNext(s, size, version) ==
    LET carry(t) == [t EXCEPT !.major = (@ + 1) % LsnWord, !.minor = 0]
        next == [s EXCEPT !.minor = @ + 1]
        fit == IF next.minor > (LsnWord - 1) \div size THEN carry(next) ELSE next
    IN  IF fit.minor = MinorFF /\ version < Pg93 THEN carry(fit) ELSE fit

walSegmentRange(begin, size, version, range) ==
    FoldLeft(LAMBDA list, i : Append(list, walSegmentNext(Last(list), size, version)),
             <<begin>>, [i \in 1 .. range - 1 |-> i])

pgLsnToWalSegment(tl, lsn, size) ==
    [tl |-> tl, major |-> lsn \div LsnWord, minor |-> (lsn % LsnWord) \div size]

pgLsnFromWalSegment(s, size) == s.major * LsnWord + s.minor * size

pgLsnRangeToWalSegmentList(a) ==
    LET skipFF == a.version <= Pg92
        stop == pgLsnToWalSegment(1, a.stop, a.size)
        minorPerMajor == (LsnWord - 1) \div a.size
        step(s) == IF \/ skipFF /\ s.minor + 1 = MinorFF
                      \/ ~skipFF /\ s.minor + 1 > minorPerMajor
                   THEN [s EXCEPT !.major = @ + 1, !.minor = 0]
                   ELSE [s EXCEPT !.minor = @ + 1]
        walk[s \in [tl : {1}, major : 0 .. LsnWord, minor : 0 .. LsnWord]] ==
            IF s = stop THEN <<s>> ELSE <<s>> \o walk[step(s)]
    IN  walk[pgLsnToWalSegment(1, a.start, a.size)]

\* pgLsnRangeToWalSegmentList() names, in order and once, every segment with
\* a position between start and stop, but for the segment PostgreSQL before
\* 9.3 does not write; the other way to enumerate segments, walSegmentRange(),
\* gives the same names, and each name leads back to its first position.
LsnSegments(a, r) ==
    LET named == {pgLsnToWalSegment(1, l, a.size) : l \in a.start .. a.stop}
    IN  /\ ToSet(r) = {s \in named : a.version <= Pg92 => s.minor # MinorFF}
        /\ \A i \in 1 .. Len(r) - 1 : SegmentCode(r[i]) < SegmentCode(r[i + 1])
        /\ r = walSegmentRange(r[1], a.size, a.version, Len(r))
        /\ \A s \in ToSet(r) :
              /\ pgLsnToWalSegment(1, pgLsnFromWalSegment(s, a.size), a.size) = s
              /\ pgLsnFromWalSegment(s, a.size) % a.size = 0

-----------------------------------------------------------------------------
(* Waiting: a loop that polls while waitMore() says so.  late[i] is by how *)
(* much the i-th sleep is longer than asked, and a second is MSecPerSec.   *)

MSecPerSec == 20

waitNew(wait) ==
    [sleep |-> IF wait >= MSecPerSec THEN MSecPerSec \div 10 ELSE wait \div 10,
     prev |-> 0, time |-> 0, poll |-> <<0>>]

waitMore(w, wait, late) ==
    LET time == w.time + w.sleep + late
        next == w.sleep + w.prev
    IN  IF w.sleep = 0 THEN w
        ELSE [sleep |-> IF time < wait THEN Min({next, wait - time}) ELSE 0,
              prev |-> w.sleep, time |-> time, poll |-> Append(w.poll, time)]

\* the times a waiting loop polls at
waitPolls(a) ==
    LET loop[i \in 0 .. a.wait + 1] ==
            IF i = 0 THEN waitNew(a.wait)
            ELSE waitMore(loop[i - 1], a.wait, IF i <= Len(a.late) THEN a.late[i] ELSE 0)
    IN  loop[a.wait + 1]

\* archived is the time the segment is pushed, and file the copies of it
walSegmentFind(a) ==
    LET found == {i \in DOMAIN waitPolls(a).poll : waitPolls(a).poll[i] >= a.archived}
    IN  IF found = {} \/ a.file = {}
        THEN IF a.wait = 0 THEN Value("none") ELSE Throw("archive-timeout")
        ELSE IF Cardinality(a.file) > 1 THEN Throw("archive-duplicate")
        ELSE Value(CHOOSE f \in a.file : TRUE)

\* walSegmentFind() finds every segment that is archived within its timeout:
\* a loop on waitMore() polls once more when its whole time is over, however
\* late its sleeps wake up.  Sleeps on time never go past the end, and only
\* a wait shorter than 10 ms polls once.
WaitSeesAll(a, r) ==
    LET polls == waitPolls(a)
    IN  /\ polls.sleep = 0
        /\ (\A i \in DOMAIN a.late : a.late[i] = 0) => Last(polls.poll) <= a.wait
        /\ Threw(r) => \/ Cardinality(a.file) # 1
                       \/ a.archived > (IF a.wait < 10 THEN 0 ELSE a.wait)
        /\ a.file = {} => (Threw(r) <=> a.wait > 0)

-----------------------------------------------------------------------------
(* The ranges of an archive id that verify builds, one WAL path after      *)
(* another.  A file is [segment, hash]; the files of a path are sorted.    *)

SortFiles(F) == SetToSortSeq(F, LAMBDA f, g :
    SegmentCode(f.segment) * 10 + f.hash < SegmentCode(g.segment) * 10 + g.hash)

IsFF(file, version) == version <= Pg92 /\ file.segment.minor = MinorFF

HasDuplicate(file, files) == \E g \in ToSet(files) : g # file /\ g.segment = file.segment

\* what is left to verify: no segment that must not exist and none with copies
ValidWal(files, version) ==
    SelectSeq(files, LAMBDA f : ~IsFF(f, version) /\ ~HasDuplicate(f, files))

WalErrors(files, version) ==
    LET ff == {f \in ToSet(files) : IsFF(f, version)}
    IN  Cardinality(ff)
        + Cardinality({f.segment : f \in {g \in ToSet(files) \ ff : HasDuplicate(g, files)}})

RangeAdd(list, segment, size, version) ==
    IF list # <<>> /\ walSegmentNext(Last(list).stop, size, version) = segment
    THEN [list EXCEPT ![Len(list)].stop = segment]
    ELSE Append(list, [start |-> segment, stop |-> segment, invalid |-> {}])

verifyCreateArchiveIdRange(list, files, size, version) ==
    LET valid == ValidWal(files, version)
    IN  [range |-> FoldLeft(LAMBDA l, f : RangeAdd(l, f.segment, size, version), list, valid),
         file |-> valid, errors |-> WalErrors(files, version)]

verifyAddInvalidWalFile(list, segment) ==
    LET at == {i \in DOMAIN list : SegmentLeq(segment, list[i].stop)}
    IN  IF at = {} THEN list ELSE [list EXCEPT ![Min(at)].invalid = @ \cup {segment}]

\* all the paths of an archive id, and then every file found invalid
verifyRanges(a) ==
    LET paths == SetToSortSeq({SegmentPath(f.segment) : f \in a.file},
                              LAMBDA p, q : PathCode(p) < PathCode(q))
        files(p) == SortFiles({f \in a.file : SegmentPath(f.segment) = p})
        add(r, p) == LET v == verifyCreateArchiveIdRange(r.range, files(p), a.size, a.version)
                     IN  [range |-> v.range, file |-> r.file \o v.file, errors |-> r.errors + v.errors]
        all == FoldLeft(add, [range |-> <<>>, file |-> <<>>, errors |-> 0], paths)
    IN  [all EXCEPT !.range = FoldLeft(LAMBDA l, f : verifyAddInvalidWalFile(l, f.segment), @, all.file)]

\* The ranges verify reports for an archive id hold exactly the segments it
\* verifies: each range is gapless, two ranges are apart, and an invalid file
\* is reported in the range that holds it.
RangesExact(a, r) ==
    LET held(x) == {f.segment : f \in {g \in ToSet(r.file) :
                       SegmentLeq(x.start, g.segment) /\ SegmentLeq(g.segment, x.stop)}}
        once == {f.segment : f \in {g \in a.file : ~IsFF(g, a.version) /\
                    \A h \in a.file : h.segment = g.segment => h = g}}
    IN  /\ UNION {held(x) : x \in ToSet(r.range)} = once
        /\ \A x \in ToSet(r.range) :
              /\ x.invalid = held(x)
              /\ held(x) = ToSet(walSegmentRange(x.start, a.size, a.version, Cardinality(held(x))))
        /\ \A i \in 1 .. Len(r.range) - 1 :
              /\ SegmentCode(r.range[i].stop) < SegmentCode(r.range[i + 1].start)
              /\ walSegmentNext(r.range[i].stop, a.size, a.version) # r.range[i + 1].start
        /\ (r.errors = 0) <=> (Len(r.file) = Cardinality(a.file))

-----------------------------------------------------------------------------
(* removeExpiredArchive().  A backup is [label, type, pg, start, stop]     *)
(* with a number for its label; start is NoSegment if it was not online.   *)
(* wal and history give the segments and the timelines of an archive id    *)
(* that is on disk; pg is the current id.                                  *)

TypeCovers == [full |-> {"full"}, diff |-> {"full", "diff"}, incr |-> {"full", "diff", "incr"}]

RetentionList(a) == {b \in a.backup : b.type \in TypeCovers[a.type]}

Newest(B, n) == {b \in B : Cardinality({c \in B : c.label > b.label}) < n}

ByLabel(B, l) == CHOOSE b \in B : b.label = l

\* the backup from which the archive of id is kept without a gap
ArchiveRetention(a, id) ==
    LET local == {b \in RetentionList(a) : b.pg = id}
        kept == local \cap Newest(RetentionList(a), a.retention)
    IN  IF kept = {} THEN ByLabel(local, Max({b.label : b \in local}))
        ELSE ByLabel(kept, Min({b.label : b \in kept}))

\* no range for the backups before the one of the retention
ArchiveRangesLast(a, id, retain) == {[start |-> retain.start, stop |-> NoSegment]}

ArchiveRanges(a, id, retain) ==
    {[start |-> b.start, stop |-> IF b = retain THEN NoSegment ELSE b.stop] :
        b \in {c \in a.backup : c.pg = id /\ c.label <= retain.label /\ c.start # NoSegment}}

PathInRange(p, r) ==
    /\ PathCode(SegmentPath(r.start)) <= PathCode(p)
    /\ r.stop = NoSegment \/ PathCode(p) <= PathCode(SegmentPath(r.stop))

InRange(s, r) == SegmentLeq(r.start, s) /\ (r.stop = NoSegment \/ SegmentLeq(s, r.stop))

\* a path is either removed whole, searched for files to remove, or left
ArchiveKept(wal, ranges, max) ==
    {s \in wal :
        /\ \E r \in ranges : PathInRange(SegmentPath(s), r)
        /\ PathCode(SegmentPath(s)) <= PathCode(SegmentPath(max)) => \E r \in ranges : InRange(s, r)}

removeExpiredArchive(a) ==
    LET list == RetentionList(a)
        retain(id) == ArchiveRetention(a, id)
        keep(id) == [disk |-> TRUE, wal |-> a.wal[id], history |-> a.history[id]]
    IN  IF a.retention = 0 \/ list = {} \/ a.retention > Cardinality(list)
        THEN [id \in DOMAIN a.wal |-> keep(id)]
        ELSE [id \in DOMAIN a.wal |->
                IF ~\E b \in list : b.pg = id
                THEN IF id = a.pg THEN keep(id) ELSE [disk |-> FALSE, wal |-> {}, history |-> {}]
                ELSE IF retain(id).start = NoSegment THEN keep(id)
                ELSE [disk |-> TRUE,
                      wal |-> ArchiveKept(a.wal[id], ArchiveRanges(a, id, retain(id)), retain(id).start),
                      history |-> {t \in a.history[id] : t >= retain(id).start.tl}]]

\* expire removes no segment a backup needs: what makes a backup consistent
\* stays for every backup in backup.info, and the newest backups, as many as
\* the archive retention asks for, and every backup after them can be played
\* forward; the archive of the current database stays.  An archive id with a
\* backup of the retention keeps nothing else, so the archive is bounded.
ArchiveRecoverable(a, r) ==
    LET counted == RetentionList(a)
        forward == {b \in a.backup : \E c \in Newest(counted, a.retention) :
                                         b.pg = c.pg /\ b.label >= c.label}
        last(id) == {b \in counted : b.pg = id}
    IN  \A id \in DOMAIN r :
          /\ id = a.pg => r[id].disk
          /\ \A s \in a.wal[id] :
               /\ \A b \in a.backup :
                     b.pg = id /\ b.start # NoSegment
                         => /\ InRange(s, b) => s \in r[id].wal
                            /\ b \in forward /\ SegmentLeq(b.start, s) => s \in r[id].wal
               /\ \A b \in last(id) :
                     b.start # NoSegment /\ SegmentLeq(b.start, s)
                         /\ (\A c \in last(id) : c.label <= b.label) => s \in r[id].wal
               /\ /\ counted # {} /\ a.retention \in 1 .. Cardinality(counted)
                  /\ s \in r[id].wal /\ last(id) # {}
                  => \/ \E b \in a.backup : b.pg = id /\ (b.start = NoSegment \/ InRange(s, b))
                     \/ \E b \in last(id) : SegmentLeq(b.start, s)

\* The segments of a range of LSNs, the segment a wait finds, the ranges verify
\* reports and the segments expire keeps are the ones their reference
\* definitions name, at every boundary of a WAL file and a timeline.
WalExact ==
    [][ /\ Returns("pgLsnRangeToWalSegmentList", pgLsnRangeToWalSegmentList, LsnSegments)
        /\ Returns("walSegmentFind", walSegmentFind, WaitSeesAll)
        /\ Returns("verifyRanges", verifyRanges, RangesExact)
        /\ Returns("removeExpiredArchive", removeExpiredArchive, ArchiveRecoverable)]_call
=============================================================================
