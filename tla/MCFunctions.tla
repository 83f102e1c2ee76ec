---------------------------- MODULE MCFunctions -----------------------------
(***************************************************************************)
(* Calls of the functions that keep no state, with the arguments TLC gives *)
(* them, and the memory contexts and error handling under all of them.     *)
(***************************************************************************)
EXTENDS RestorePlan, BackupPlan, Manifest, Wal, Filter, Pack, Config, MemContext

-----------------------------------------------------------------------------
(* restoreBackupSet() *)
BackupSeqs ==
    LET label == <<"b1", "b2", "b3">>
    IN  {[i \in DOMAIN s |-> [label |-> label[s[i]], stop |-> s[i]]] :
            s \in {<<>>, <<1>>, <<2>>, <<3>>, <<1, 2>>, <<1, 3>>, <<2, 3>>}}
Repos == [loads : {TRUE}, backup : BackupSeqs] \cup [loads : {FALSE}, backup : {<<>>}]
BackupSetArgs ==
    [repo : {<<r>> : r \in Repos} \cup (Repos \X Repos),
     set : {Null, "b2"}, target : 0 .. 4]

(* restoreManifestMap() *)
BaseTarget == [kind |-> "base", name |-> "base", tsName |-> Null, tsId |-> Null,
               path |-> <<"pg">>, file |-> Null, link |-> NoPath]
TsTarget(name, id) == [kind |-> "tablespace", name |-> id, tsName |-> name, tsId |-> id,
                       path |-> <<"ts", name>>, file |-> Null, link |-> <<"ts", name>>]
PathTarget == [kind |-> "path", name |-> "wal", tsName |-> Null, tsId |-> Null,
               path |-> <<"wal">>, file |-> Null, link |-> <<"wal">>]
FileTarget == [kind |-> "file", name |-> "conf", tsName |-> Null, tsId |-> Null,
               path |-> <<"etc">>, file |-> "conf", link |-> <<"etc", "conf">>]
Maps(Keys, Vals) == UNION {[K -> Vals] : K \in SUBSET Keys}
MapArgs ==
    [target : {<<BaseTarget>> \o s : s \in
                  {<<>>, <<TsTarget("t1", "16")>>, <<PathTarget, FileTarget>>,
                   <<FileTarget, PathTarget, TsTarget("t1", "16"), TsTarget("t2", "17")>>}},
     tsMap : Maps({"t1", "16", "17"}, {<<"x">>, <<"y">>}),
     tsAll : {NoPath, <<"all">>},
     linkMap : Maps({"wal", "conf"}, {<<"x">>, <<"y", "z">>}),
     linkAll : BOOLEAN]

(* restoreManifestOwner() *)
OwnerArgs == [root : BOOLEAN, pathOwner : {"pg"},
              item : {<<a, b>> : a, b \in [user : {Null, "u"}, group : {Null, "g"}]}]

(* restoreSelectiveExpression() *)
Dbs == {[id |-> 1, name |-> "template1"], [id |-> 20000, name |-> "postgres"],
        [id |-> 20001, name |-> "app"], [id |-> 20002, name |-> "test"]}
DbOptions == {[id |-> -1, name |-> "app"], [id |-> 20001, name |-> "20001"],
              [id |-> -1, name |-> "test"], [id |-> 1, name |-> "1"],
              [id |-> -1, name |-> "postgres"], [id |-> -1, name |-> "gone"]}
OptionLists == {<<>>} \cup {<<o>> : o \in DbOptions} \cup
               {<<o, p>> : o, p \in DbOptions}
SelectiveArgs ==
    [db : {Dbs, Dbs \ {[id |-> 20002, name |-> "test"]}},
     fileDb : {{1, 2, 20000, 20001, 20002}, {1, 20000, 20001}},
     exclude : {<<>>} \cup {<<o>> : o \in DbOptions}, include : OptionLists]

(* restoreRecoveryWrite() *)
OldSettings ==
    {[k \in K |-> "old"] : K \in SUBSET {"recovery_target_time", "recovery_target_xid",
                                         "recovery_target_action", "primary_conninfo"}}
UserSettings == {<<>>, [k \in {"restore_command"} |-> "mine"], [k \in {"standby_mode"} |-> "on"]}
RecoveryArgs ==
    {a \in [version : {90, 91, 94, 95, 110, 120}, archiveMode : {"preserve", "off"},
            type : {"default", "none", "standby", "immediate", "time", "xid"},
            action : {Null, "pause", "promote", "shutdown"}, exclusive : BOOLEAN,
            timeline : {Null, "latest"}, user : UserSettings, old : OldSettings] :
        \* the configuration allows an action with a target only, and a user
        \* who sets standby_mode asks for a standby
        /\ a.action # Null => Targeted(a.type)
        /\ "standby_mode" \in DOMAIN a.user => a.type = "standby"
        /\ a.version < PgRecoveryGuc => a.old = <<>>
        /\ a.timeline # Null => a.user = <<>>}

(* restoreProcessQueue() *)
FileNames == {<<"p", "/", "f">>, <<"1", "/", "f">>, <<"1", "6", "/", "f">>, <<"1", "6", "/", "g">>}
Files == [name : FileNames, size : {0, 1}]
QueueArgs ==
    [target : {<<<<"p">>, <<"1">>, <<"1", "6">>>>, <<<<"p">>, <<"1", "6">>, <<"1">>>>},
     file : {<<f, g, h>> : f, g, h \in Files}]

(* dbGet() *)
DbArgs == [pg : UNION {[1 .. n -> {"down", "primary", "standby"}] : n \in 1 .. 3},
           primaryOnly : BOOLEAN, primaryRequired : BOOLEAN, standbyRequired : {FALSE}]
          \cup [pg : [1 .. 3 -> {"down", "primary", "standby"}],
                primaryOnly : {FALSE}, primaryRequired : {TRUE}, standbyRequired : {TRUE}]

(* manifestBuildCallback() *)
Tree == {<<"pg_data", n>> : n \in {"recovery.signal", "standby.signal", "recovery.conf", "recovery.done",
                                   "backup_label", "backup_label.old", "backup_manifest",
                                   "postmaster.pid", "postgresql.conf"}}
        \cup {<<"base/1", n>> : n \in {"16384", "16384_fsm", "t3_16384", "PG_VERSION", "pg_internal.init"}}
        \cup {<<"global", "pg_control">>, <<"pg_wal", "000000010000000000000001">>,
              <<"pg_wal/archive_status", "000000010000000000000001.ready">>, <<"pg_notify", "0000">>,
              <<"pg_replslot", "state">>, <<"pg_subtrans", "0000">>}
OnlineArgs == [tree : {Tree}, version : {83, 84, 90, 91, 92, 94, 95, 96, 100, 110, 120, 130}]

(* manifestNewBuild() *)
RelationSeq == [i \in 1 .. 12 |-> [dir |-> (i + 5) \div 6, id |-> (((i - 1) \div 3) % 2) + 1,
                                  fork |-> <<"main", "fsm", "init">>[((i - 1) % 3) + 1]]]
UnloggedArgs == {SelectSeq(RelationSeq, LAMBDA f : f \in S) :
                    S \in {T \in SUBSET ToSet(RelationSeq) :
                              \A f \in T : [f EXCEPT !.fork = "main"] \in T}}

(* backupProcessQueue() and backupJobCallback() *)
JobFiles == {{[name |-> 0, target |-> 0, size |-> 1, primary |-> TRUE, ref |-> FALSE]} \cup
             {[name |-> n, target |-> t[n], size |-> n % 2, primary |-> n \in p, ref |-> n \in r] : n \in 1 .. 3} :
                t \in [1 .. 3 -> 0 .. 2], p \in SUBSET {1, 2}, r \in SUBSET {2, 3}}
JobArgs == [file : JobFiles, targets : {3}, delta : BOOLEAN, online : {TRUE},
            standby : {TRUE}, ask : {<<0, 1>>, <<1, 2, 0>>}]
           \cup [file : JobFiles, targets : {3}, delta : BOOLEAN, online : {TRUE},
                 standby : {FALSE}, ask : {<<0>>, <<1>>, <<0, 1, 2, 3>>}]

(* pageChecksum *)
PageArgs == [page : UNION {[1 .. n -> {"good", "bad", "new", "late"}] : n \in 1 .. 5},
             last : {"whole", "part", "rag"}, pages : {2}, offset : {8}]

(* manifestLinkCheck() *)
LinkPaths == {<<1, 2>>, <<1, 3>>, <<1, 3, 0>>, <<1, 3, 1, 2>>, <<1, 2, 1, 3>>, <<1, 3, 1, 2, 1, 2>>}
LinkList == [path : LinkPaths, file : {0}] \cup [path : {<<1, 3>>, <<1, 3, 0>>}, file : {1, 2}]
LinkArgs == [base : {<<1, 2>>}, link : {<<l>> : l \in LinkList} \cup (LinkList \X LinkList) \cup (LinkList \X LinkList \X LinkList)]

(* manifestSave() and manifestNewLoad() *)
Owners == {NoOwner, "u", "v"}
MFile(n, u, g, p, s) ==
    [k \in FileKeys \cup {"name", "size", "sizeRepo", "checksum", "checksumPage", "reference"} |->
        CASE k = "name" -> n [] k = "user" -> u [] k = "group" -> g [] k = "mode" -> "0600"
          [] k = "primary" -> p [] OTHER -> s[k]]
Contents == {[size |-> 0, sizeRepo |-> 0, checksum |-> "none", checksumPage |-> "none", reference |-> "none"],
             [size |-> 2, sizeRepo |-> 0, checksum |-> "none", checksumPage |-> "valid", reference |-> "none"],
             [size |-> 2, sizeRepo |-> 1, checksum |-> "s", checksumPage |-> "error 1", reference |-> "f"],
             [size |-> 2, sizeRepo |-> 2, checksum |-> "s", checksumPage |-> "none", reference |-> "none"]}
ManifestArgs ==
    [file : {<<MFile("f", u, g, p, s), MFile("g", v, "u", q, t)>> :
                u, v \in Owners, g \in {NoOwner, "u"}, p, q \in {"true", "false"}, s, t \in Contents},
     path : {<<[name |-> "p", user |-> NoOwner, group |-> "g", mode |-> "0700"],
               [name |-> "q", user |-> "u", group |-> "g", mode |-> "0750"]>>},
     link : {<<>>, <<[name |-> "l", user |-> NoOwner, group |-> NoOwner, destination |-> "d"]>>}]

(* pgLsnRangeToWalSegmentList() *)
LsnArgs == {a \in [version : {92, 93, 110}, size : {1, 4, 8}, start : 0 .. 40, stop : 0 .. 40] :
               /\ a.start <= a.stop
               /\ a.version < 110 => a.size = DefaultSize
               /\ a.version <= Pg92 => \A l \in {a.start, a.stop} :
                                          pgLsnToWalSegment(1, l, a.size).minor # MinorFF}

(* walSegmentFind() *)
WaitArgs == [wait : {0, 9, 10, 15, 20, 33}, late : [1 .. 3 -> {0, 1, 5}], archived : {0, 1, 9, 10, 12, 20, 30, 33, 34, 50},
             file : {{}, {"wal"}, {"wal", "wal copy"}}]

(* verifyCreateArchiveIdRange() *)
Seg(tl, major, minor) == [tl |-> tl, major |-> major, minor |-> minor]
WalFiles == {[segment |-> Seg(1, 0, n), hash |-> 1] : n \in 1 .. 3} \cup
            {[segment |-> Seg(1, 1, n), hash |-> 1] : n \in 0 .. 2} \cup
            {[segment |-> Seg(1, 1, 0), hash |-> 2], [segment |-> Seg(1, 0, 3), hash |-> 2],
             [segment |-> Seg(2, 1, 2), hash |-> 1]}
RangeArgs == [file : SUBSET WalFiles, size : {DefaultSize}, version : {92, 93}]

(* removeExpiredArchive() *)
WalSeq == <<Seg(1, 0, 2), Seg(1, 0, 3), Seg(1, 1, 0), Seg(1, 1, 1), Seg(2, 1, 1), Seg(2, 1, 2), Seg(2, 2, 0)>>
Spans == {<<1, 2, 3, 3, 4, 4>>, <<1, 1, 2, 2, 3, 4>>, <<2, 2, 4, 4, 5, 6>>, <<3, 3, 5, 5, 6, 7>>, <<2, 3, 3, 4, 6, 6>>}
BackupSets ==
    {{[label |-> i, type |-> t[i], pg |-> p[i],
       start |-> IF i = off THEN NoSegment ELSE WalSeq[w[2 * i - 1]],
       stop |-> IF i = off THEN NoSegment ELSE WalSeq[w[2 * i]]] : i \in 1 .. n} :
        n \in 0 .. 3, off \in 0 .. 3, w \in Spans,
        p \in {<<1, 1, 1>>, <<1, 1, 2>>, <<1, 2, 2>>, <<2, 2, 2>>},
        t \in {<<"full", x, y>> : x, y \in {"full", "diff", "incr"}}}
ExpireArgs ==
    {a \in [backup : BackupSets, retention : 0 .. 3, type : {"full", "diff", "incr"}, pg : {2},
            wal : {(1 :> ToSet(WalSeq)) @@ (2 :> ToSet(WalSeq))}, history : {(1 :> {2}) @@ (2 :> {2})}] :
        \A b \in a.backup : b.type # "full" => \E c \in a.backup : c.type = "full" /\ c.pg = b.pg /\ c.label < b.label}

(* Reading and writing through filters *)
Pipes == {<<>>, <<"encrypt">>} \cup {<<k>> : k \in {"gz", "bz2", "lz4", "zst"}}
         \cup {<<k, "encrypt">> : k \in {"gz", "bz2", "lz4", "zst"}}
Datas == {<<>>, <<1>>, <<1, 2, 3>>, <<1, 2, 3, 4, 5>>}
StreamArgs ==
    {a \in [pipe : Pipes, data : Datas, decode : BOOLEAN, cut : {0, 1, 2, 3, 4}, tail : BOOLEAN, cap : {0, 2},
            chunk : {1, 3}, block : BOOLEAN, known : BOOLEAN, size : {2, 3}, ask : {1, 3}] :
        /\ a.cut > 0 => a.decode /\ a.pipe # <<>> /\ a.cut <= Len(Stored(a)) /\ ~a.block
        /\ a.known => ~a.block}
LineArgs == [data : {s \in UNION {[1 .. n -> {1, LineFeed}] : n \in 0 .. 5} : TRUE}, chunk : {1, 2, 4}, block : BOOLEAN,
             known : BOOLEAN, size : {2, 4}, allowEof : BOOLEAN]
SmallArgs == [data : {<<1, 2, 3, 4, 5, 6>>}, chunk : {1, 2, 4}, block : BOOLEAN, known : BOOLEAN, size : {2, 3},
              small : {s \in UNION {[1 .. n -> {1, 2, 4}] : n \in 1 .. 4} : TRUE}]

(* The rules of the options, configParse() and cfgLoad() *)
OptionKeys == {[option |-> o, key |-> k] : o \in RuleOptions, k \in 0 .. 7}
KeyArgs == {x \in OptionKeys : x.key < (CASE OptionRule[x.option].group = "none" -> 1 [] OTHER -> KeyMax[OptionRule[x.option].group])}

Word(name, s) == [name |-> name, arg |-> <<Text(s)>>]
Flag(name) == [name |-> name, arg |-> <<>>]
Number(name, n) == [name |-> name, arg |-> <<Num(n)>>]
Key(name, s) == [name |-> name, values |-> <<Text(s)>>]
KeyNum(name, n) == [name |-> name, values |-> <<Num(n)>>]
Commands == {<<"backup", "main">>, <<"archive-push", "main">>, <<"restore", "main">>, <<"stanza-delete", "main">>,
             <<"archive-push", "async">>, <<"expire", "main">>, <<"info", "main">>}
LineWords == {<<>>, <<Flag("no-compress")>>, <<Number("db-timeout", 7200000)>>, <<Flag("reset-process-max")>>,
              <<Word("repo1-path", "/r/")>>, <<Number("protocol-timeout", 20000)>>, <<Flag("no-config")>>,
              <<Number("repo", 2)>>, <<Word("repo1-pa", "/r")>>, <<Word("spool-path", "/s")>>,
              <<Word("repo1-path", "/r"), Word("repo1-path", "/r")>>,
              <<Number("db-timeout", 60000), Number("protocol-timeout", 60000)>>}
EnvVars == {<<>>, <<Key("repo1-path", "/e")>>, <<Key("archive-async", "y"), Key("compress-type", "lz4")>>}
PgKeys == {<<>>, <<Key("pg1-path", "/pg")>>, <<Key("pg1-path", "/pg"), Key("pg2-path", "/pg2"), Key("pg2-host", "h")>>,
           <<Key("pg2-path", "/pg2")>>, <<Key("pg1-path", "/pg"), Key("db-path", "/old")>>}
DbKeys == {<<>>, <<Key("repo1-path", "/d"), KeyNum("process-max", 4)>>, <<Key("spool-path", "/sp"), Key("archive-async", "n")>>}
GlobalKeys == {<<>>, <<Key("repo1-host", "b"), Key("repo3-path", "/g3")>>,
               <<Key("repo2-path", "/g2"), KeyNum("repo1-retention-full", 2)>>,
               <<Key("repo1-type", "s3"), Key("repo1-s3-bucket", "x.y"), Key("repo1-path", "/s3")>>,
               <<Key("pg1-path", "/no"), KeyNum("process-max", 2), Key("repo2-path", "/var/lib/pgbackrest")>>}
ConfigArgs(C, W, E, P, D, G) ==
    {[command |-> c[1], role |-> c[2], help |-> FALSE, param |-> FALSE, word |-> <<Word("stanza", "db")>> \o w,
      env |-> e, file |-> "db" :> p \o d @@ "global" :> g @@ ("global:" \o c[1]) :> <<KeyNum("process-max", 3)>>] :
        c \in C, w \in W, e \in E, p \in P, d \in D, g \in G}
ParseArgs ==
    ConfigArgs(Commands, LineWords, {<<>>}, {<<Key("pg1-path", "/pg")>>}, {<<>>}, GlobalKeys)
    \cup ConfigArgs({<<"backup", "main">>, <<"archive-push", "async">>}, {<<>>, <<Word("repo1-path", "/r/")>>},
                    EnvVars, PgKeys, DbKeys, GlobalKeys)
HelpArgs == {[a EXCEPT !.help = TRUE] :
                a \in ConfigArgs(Commands, {<<>>}, {<<>>}, PgKeys, {<<>>}, GlobalKeys)}
FileArgs == [config : {"none", "yes", "no"}, configPath : BOOLEAN, include : BOOLEAN,
             files : SUBSET {"given", "path", "default", "original"}, dirs : SUBSET {"given", "path", "default"}]

PackInts == {0, 1, 2, 127, 128, 300, 20000}
PackStrings == {<<>>, <<0>>, <<128, 0>>}
PackNums(t, ns) == {[PackItem(t) EXCEPT !.n = n, !.write = w] : n \in ns, w \in BOOLEAN}
PackSimple ==
    PackNums("bool", 0..1) \union PackNums("i32", PackInts \union {-n : n \in PackInts}) \union PackNums("u64", PackInts)
      \union PackNums("mode", PackInts)
      \union {[PackItem(t) EXCEPT !.s = s] : t \in {"str", "bin"}, s \in PackStrings}
      \union {[PackItem(t) EXCEPT !.null = TRUE] : t \in {"str", "bin", "strlst", "pack"}}
PackFew == {[PackItem("u32") EXCEPT !.n = 300], [PackItem("str") EXCEPT !.null = TRUE], [PackItem("bin") EXCEPT !.s = <<0, 128>>]}
PackCompound ==
    {[PackItem("strlst") EXCEPT !.list = list] : list \in {<<>>, <<<<>>, <<7>>>>}}
      \union {[PackItem(t) EXCEPT !.sub = sub] : t \in {"obj", "arr", "pack"}, sub \in {<<>>} \union {<<a, b>> : a, b \in PackFew}}
PackArgs == UNION {[1..n -> PackSimple \union PackCompound] : n \in 0..2} \union [1..3 -> PackFew]
              \union {[i \in 1..(n + 1) |-> IF i <= n THEN [PackItem("str") EXCEPT !.null = TRUE] ELSE last] :
                        n \in {1, 2, 3, 4, 7, 8, 9, 33}, last \in PackNums("u32", {1, 5}) \union PackFew}
PackLastArgs == {items \in PackArgs : /\ items # <<>>
                                      /\ items[Len(items)].t \in PackNumbers \union {"str", "bin"}
                                      /\ \A i \in DOMAIN items : items[i] \in PackSimple \union PackFew}
PackCutArgs == [items : UNION {[1..n -> PackFew \union PackCompound] : n \in 1..2}, size : 0..12]

-----------------------------------------------------------------------------
Calls ==
    \/ Call("restoreBackupSet", BackupSetArgs)
    \/ Call("restoreManifestMap", MapArgs)
    \/ Call("restoreManifestOwner", OwnerArgs)
    \/ Call("restoreSelectiveExpression", SelectiveArgs)
    \/ Call("restoreRecoveryWrite", RecoveryArgs)
    \/ Call("restoreProcessQueue", QueueArgs)
    \/ Call("dbGet", DbArgs)
    \/ Call("manifestOnline", OnlineArgs)
    \/ Call("RemoveUnlogged", UnloggedArgs)
    \/ Call("backupJobs", JobArgs)
    \/ Call("pageChecksumResult", PageArgs)
    \/ Call("manifestLinkCheck", LinkArgs)
    \/ Call("manifestReload", ManifestArgs)
    \/ Call("pgLsnRangeToWalSegmentList", LsnArgs)
    \/ Call("walSegmentFind", WaitArgs)
    \/ Call("verifyRanges", RangeArgs)
    \/ Call("removeExpiredArchive", ExpireArgs)
    \/ Call("packRoundTrip", PackArgs)
    \/ Call("packLast", PackLastArgs)
    \/ Call("packCut", PackCutArgs)
    \/ Call("readThrough", StreamArgs)
    \/ Call("writeThrough", {a \in StreamArgs : ~a.block /\ ~a.known /\ a.ask = 1})
    \/ Call("readLines", LineArgs)
    \/ Call("readSmall", SmallArgs)
    \/ Call("parseRuleOption", RuleOptions)
    \/ Call("cfgParseOptionKeyIdxName", KeyArgs)
    \/ Call("cfgCommandName", DOMAIN CommandRule \ {"help", "version"})
    \/ Call("cfgFileLoad", FileArgs)
    \/ Call("configParse", ParseArgs \cup HelpArgs)
    \/ Call("cfgLoad", ParseArgs)
    \/ Return

\* Nested deepest is only a temporary context in nothing but TRY blocks
Nested(bs) == Len(bs) = MaxBlock => \A i \in 1 .. MaxBlock : bs[i].kind = IF i = MaxBlock THEN "temp" ELSE "try"

\* A program may end at any time
Memory == (MemNext \/ UNCHANGED memVars) /\ Nested(blocks')
=============================================================================
