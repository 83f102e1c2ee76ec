------------------------------- MODULE Config -------------------------------
(***************************************************************************)
(* From the command line, the environment and the configuration file to    *)
(* the options of a command, and from those to the command line of a local *)
(* or remote process: src/config/parse.c, load.c and exec.c and the        *)
(* parameters of src/protocol/helper.c.                                    *)
(*                                                                         *)
(* A word of the command line is its option name with <<>> or <<raw>> as   *)
(* argument.  A raw value is [text |-> s], [num |-> n] for a text that     *)
(* converts to the number n, or [pair |-> <<k, v>>] for the text k=v.      *)
(***************************************************************************)
EXTENDS Call, ConfigRules, ConfigNames, FiniteSets, SequencesExt

Text(s) == [text |-> s]
Num(n) == [num |-> n]

-----------------------------------------------------------------------------
(* Rules and names *)
\* The rule of the command where there is one, else the base rule
parseRuleOptionDataFind(type, command, option) ==
    LET o == OptionRule[option]
    IN  IF command \in DOMAIN o.over /\ o.over[command][type] # <<>>
        THEN o.over[command][type]
        ELSE o.base[type]

cfgParseOptionDefault(command, option) == parseRuleOptionDataFind("default", command, option)

cfgParseOptionRequired(command, option) ==
    LET rule == parseRuleOptionDataFind("required", command, option)
    IN  IF rule # <<>> THEN rule[1] ELSE OptionRule[option].required

cfgParseOptionValid(command, role, option) == command \in OptionRule[option].valid[role]

Dependency(command, option) == parseRuleOptionDataFind("depend", command, option)

NotFound == [option |-> "", key |-> 0, negate |-> FALSE, reset |-> FALSE]

\* Exact, or on the command line the only name that begins with the word
cfgParseOption(word, prefixMatch) ==
    LET begin == {w \in DOMAIN OptionNames : Len(w) >= Len(word) /\ SubSeq(w, 1, Len(word)) = word}
    IN  CASE word \in DOMAIN OptionNames -> OptionNames[word]
          [] prefixMatch /\ word \notin DOMAIN OptionNames /\ Cardinality(begin) = 1 ->
                 OptionNames[CHOOSE w \in begin : TRUE]
          [] OTHER -> NotFound

\* A group option is named by the group, the key and the rest of its name
cfgParseOptionKeyIdxName(option, key) ==
    LET g == OptionRule[option].group
    IN  IF g = "none" THEN option
        ELSE g \o ToString(key + 1) \o SubSeq(option, Len(g) + 1, Len(option))

-----------------------------------------------------------------------------
(* Phases 1 to 3: options found on the command line, in the environment    *)
(* and in the configuration file, in that order, as a function from an     *)
(* option and a key to what was found first                                *)
Found(source, e, values) == [negate |-> e.negate, reset |-> e.reset, source |-> source, values |-> values]

WordOption(parsed, word) ==
    LET e == cfgParseOption(word.name, TRUE)
        o == OptionRule[e.option]
        id == <<e.option, e.key>>
        takesArg == o.type # "boolean" /\ ~e.negate /\ ~e.reset
    IN  IF e = NotFound THEN Throw("OptionInvalid")
        ELSE IF takesArg # (word.arg # <<>>) \/ o.secure THEN Throw("OptionInvalid")
        ELSE IF id \notin DOMAIN parsed THEN Value((id :> Found("param", e, word.arg)) @@ parsed)
        ELSE IF o.multi /\ \A x \in {e, parsed[id]} : ~x.negate /\ ~x.reset
        THEN Value([parsed EXCEPT ![id].values = @ \o word.arg])
        ELSE Throw("OptionInvalid")

\* A value of the environment or the file; a boolean is y or n
ConfigOption(parsed, e, values) ==
    LET boolean == OptionRule[e.option].type = "boolean"
        entry == [Found("config", e, IF boolean THEN <<>> ELSE values) EXCEPT
                     !.negate = boolean /\ values = <<Text("n")>>]
    IN  IF boolean /\ values \notin {<<Text("y")>>, <<Text("n")>>} THEN Throw("OptionInvalidValue")
        ELSE Value((<<e.option, e.key>> :> entry) @@ parsed)

EnvOption(command, role, parsed, var) ==
    LET e == cfgParseOption(var.name, FALSE)
    IN  IF e = NotFound THEN Value(parsed)
        ELSE IF e.negate \/ e.reset \/ ~cfgParseOptionValid(command, role, e.option) THEN Value(parsed)
        ELSE IF var.values = <<Text("")>> THEN Throw("OptionInvalidValue")
        ELSE IF <<e.option, e.key>> \in DOMAIN parsed THEN Value(parsed)
        ELSE ConfigOption(parsed, e, var.values)

\* The i-th key of a section; the keys of a section differ but two of them
\* may name the same option
KeyOption(command, role, section, keys, parsed, i) ==
    LET entry(j) == cfgParseOption(keys[j].name, FALSE)
        taken(j) == /\ entry(j) # NotFound
                    /\ ~entry(j).negate /\ ~entry(j).reset
                    /\ OptionRule[entry(j).option].section # "command-line"
        e == entry(i)
        o == OptionRule[e.option]
        global == SubSeq(section, 1, 6) = "global"
    IN  IF ~taken(i) THEN Value(parsed)
        ELSE IF \E j \in 1 .. i - 1 : taken(j) /\ entry(j).option = e.option /\ entry(j).key = e.key
        THEN Throw("OptionInvalid")
        ELSE IF \/ ~cfgParseOptionValid(command, role, e.option)
                \/ o.section = "stanza" /\ Len(section) >= 6 /\ global
                \/ <<e.option, e.key>> \in DOMAIN parsed
        THEN Value(parsed)
        ELSE IF Len(keys[i].values) > 1 /\ ~o.multi THEN Throw("OptionInvalid")
        ELSE IF keys[i].values = <<Text("")>> THEN Throw("OptionInvalidValue")
        ELSE ConfigOption(parsed, e, keys[i].values)

\* Steps one after another until one throws
InTurn(Step(_, _), init, seq) ==
    FoldLeft(LAMBDA r, x : IF Threw(r) THEN r ELSE Step(r.ok, x), init, seq)

SectionList(command, parsed) ==
    LET stanza == IF <<"stanza", 0>> \in DOMAIN parsed THEN parsed[<<"stanza", 0>>].values[1].text ELSE ""
    IN  (IF stanza = "" THEN <<>> ELSE <<stanza \o ":" \o command, stanza>>)
        \o <<"global:" \o command, "global">>

\* file is a function from the names of its sections to their keys
FileOptions(command, role, file, parsed) ==
    LET keysOf(r, section) ==
            IF section \notin DOMAIN file THEN Value(r)
            ELSE InTurn(LAMBDA p, i : KeyOption(command, role, section, file[section], p, i),
                       Value(r), [i \in DOMAIN file[section] |-> i])
    IN  InTurn(keysOf, Value(parsed), SectionList(command, parsed))

-----------------------------------------------------------------------------
(* Phase 4: the keys of a group in use, as a map from index to key.  Key 1 *)
(* of the pg group (0 here) always has the first index, and the map is cut *)
(* off at the number of keys in use.                                       *)
KeysUsed(command, role, parsed, group) ==
    {id[2] : id \in {x \in DOMAIN parsed : /\ OptionRule[x[1]].group = group
                                           /\ cfgParseOptionValid(command, role, x[1])
                                           /\ ~parsed[x].reset}}

IndexMapCount(command, role, parsed, group) ==
    LET used == KeysUsed(command, role, parsed, group)
    IN  [i \in 1 .. IF used = {} THEN 1 ELSE Cardinality(used) |-> i - 1]

IndexMap(command, role, parsed, group) ==
    LET used == KeysUsed(command, role, parsed, group)
        asc(S) == SetToSortSeq(S, <)
    IN  CASE used = {} -> <<0>>
          [] used # {} /\ group = "repo" -> asc(used)
          [] used # {} /\ group = "pg" -> SubSeq(<<0>> \o asc(used \ {0}), 1, Cardinality(used))

-----------------------------------------------------------------------------
(* Phase 5: the value of an option *)
NoValue == [value |-> <<>>, source |-> "default", negate |-> FALSE, reset |-> FALSE]

AtMost(a, b, type) ==
    IF type = "size" THEN a[1] < b[1] \/ (a[1] = b[1] /\ a[2] <= b[2]) ELSE a <= b

PathValue(s) ==
    IF SubSeq(s, 1, 1) # "/" \/ \E i \in 1 .. Len(s) - 1 : SubSeq(s, i, i + 1) = "//"
    THEN Throw("OptionInvalidValue")
    ELSE Value(IF Len(s) > 1 /\ SubSeq(s, Len(s), Len(s)) = "/" THEN SubSeq(s, 1, Len(s) - 1) ELSE s)

\* A single value, before the list of allowed values is consulted
ScalarValue(command, option, raw) ==
    LET type == OptionRule[option].type
        range == parseRuleOptionDataFind("range", command, option)
    IN  IF type \in {"integer", "size", "time"}
        THEN IF "num" \notin DOMAIN raw THEN Throw("OptionInvalidValue")
             ELSE IF range # <<>> /\ ~(AtMost(range[1], raw.num, type) /\ AtMost(raw.num, range[2], type))
             THEN Throw("OptionInvalidValue")
             ELSE Value(raw.num)
        ELSE IF raw.text = "" THEN Throw("OptionInvalidValue")
        ELSE IF type = "path" THEN PathValue(raw.text) ELSE Value(raw.text)

\* Later pairs of a hash replace earlier ones with the same key
HashValue(values) ==
    IF \E i \in DOMAIN values : "pair" \notin DOMAIN values[i] THEN Throw("OptionInvalid")
    ELSE Value(FoldLeft(LAMBDA h, v : (v.pair[1] :> v.pair[2]) @@ h, <<>>, values))

SetValue(command, option, p) ==
    LET type == OptionRule[option].type
        allow == parseRuleOptionDataFind("allow", command, option)
        scalar == ScalarValue(command, option, p.values[1])
    IN  CASE type = "boolean" -> Value(~p.negate)
          [] type = "hash" -> HashValue(p.values)
          [] type = "list" -> Value([i \in DOMAIN p.values |-> p.values[i].text])
          [] OTHER -> IF Threw(scalar) THEN scalar
                      ELSE IF allow # <<>> /\ scalar.ok \notin allow[1] THEN Throw("OptionInvalidValue")
                      ELSE scalar

\* The option it depends on has a value, one of the list if there is a list
Resolved(command, option, on) ==
    LET depend == Dependency(command, option)
    IN  depend = <<>> \/ (on # <<>> /\ (depend[2] = {} \/ on[1] \in depend[2]))

\* One index of an option, given the value of the option it depends on
ResolveIdx(command, help, parsed, option, key, on) ==
    LET id == <<option, key>>
        found == id \in DOMAIN parsed
        p == IF found THEN parsed[id] ELSE Found("default", NotFound, <<>>)
        set == found /\ (OptionRule[option].type = "boolean" \/ ~p.negate) /\ ~p.reset
        base == [NoValue EXCEPT !.negate = p.negate, !.reset = p.reset]
        value == SetValue(command, option, p)
        default == cfgParseOptionDefault(command, option)
    IN  IF ~Resolved(command, option, on)
        THEN IF set /\ p.source = "param" THEN Throw("OptionInvalid") ELSE Value(base)
        ELSE IF set
        THEN IF Threw(value) THEN value
             ELSE Value([base EXCEPT !.value = <<value.ok>>, !.source = p.source])
        ELSE IF p.negate THEN Value([base EXCEPT !.source = p.source])
        ELSE IF default # <<>> THEN Value([base EXCEPT !.value = default])
        ELSE IF cfgParseOptionRequired(command, option) /\ ~help THEN Throw("OptionRequired")
        ELSE Value(base)

MapOf(map, option) == IF OptionRule[option].group = "none" THEN <<0>> ELSE map[OptionRule[option].group]

\* The indexes of an option.  The code has resolved the option it depends on
\* earlier in optionResolveOrder (ResolvesAfterDependency); it is resolved here.
RECURSIVE ResolveOption(_, _, _, _, _)
ResolveOption(command, help, parsed, map, option) ==
    LET keys == MapOf(map, option)
        depend == Dependency(command, option)
        on == ResolveOption(command, help, parsed, map, depend[1])
        onValue(i) == IF depend = <<>> \/ Threw(on) THEN <<>> ELSE on.ok[i].value
        entry == [i \in DOMAIN keys |-> ResolveIdx(command, help, parsed, option, keys[i], onValue(i))]
        threw == {i \in DOMAIN keys : Threw(entry[i])}
    IN  IF threw # {} THEN entry[CHOOSE i \in threw : \A j \in threw : i <= j]
        ELSE Value([i \in DOMAIN keys |-> entry[i].ok])

\* All of them, or the first error in the order the code resolves them in
ResolveOptions(command, role, help, parsed, map) ==
    LET valid == SelectSeq(optionResolveOrder, LAMBDA o : cfgParseOptionValid(command, role, o))
        result == [o \in Range(valid) |-> ResolveOption(command, help, parsed, map, o)]
        threw == SelectSeq(valid, LAMBDA o : Threw(result[o]))
    IN  IF threw # <<>> THEN result[threw[1]] ELSE Value([o \in Range(valid) |-> result[o].ok])

\* The index used where a command names none
GroupDefault(option, map, group) ==
    IF group \notin DOMAIN option THEN Value(1)
    ELSE IF option[group][1].value = <<>> THEN Value(1)
    ELSE LET at == {i \in DOMAIN map[group] : map[group][i] = option[group][1].value[1] - 1}
         IN  IF at = {} THEN Throw("OptionInvalidValue") ELSE Value(CHOOSE i \in at : \A j \in at : i <= j)

\* a: command, role, help, param (parameters after the command), word, env, file
configParse(a) ==
    LET words == InTurn(WordOption, Value(<<>>), a.word)
        env == IF Threw(words) THEN words
               ELSE InTurn(LAMBDA p, v : EnvOption(a.command, a.role, p, v), words, a.env)
        file == IF Threw(env) THEN env ELSE FileOptions(a.command, a.role, a.file, env.ok)
        map == [g \in {"pg", "repo"} |-> IndexMap(a.command, a.role, file.ok, g)]
        option == ResolveOptions(a.command, a.role, a.help, file.ok, map)
        default == [g \in {"pg", "repo"} |-> GroupDefault(option.ok, map, g)]
    IN  IF Threw(words) THEN words
        ELSE IF a.role \notin CommandRule[a.command].roles THEN Throw("CommandInvalid")
        ELSE IF a.param /\ ~a.help /\ ~CommandRule[a.command].parameterAllowed THEN Throw("ParamInvalid")
        ELSE IF Threw(file) THEN file
        ELSE IF \E id \in DOMAIN file.ok : ~cfgParseOptionValid(a.command, a.role, id[1])
        THEN Throw("OptionInvalid")
        ELSE IF Threw(option) THEN option
        ELSE IF \E g \in {"pg", "repo"} : Threw(default[g]) THEN Throw("OptionInvalidValue")
        ELSE Value([command |-> a.command, role |-> a.role, help |-> a.help, option |-> option.ok,
                    map |-> map, default |-> [g \in {"pg", "repo"} |-> default[g].ok]])

-----------------------------------------------------------------------------
(* The options of a configuration *)
cfgOptionValid(c, option) == option \in DOMAIN c.option
cfgOptionIdxTest(c, option, i) == cfgOptionValid(c, option) /\ c.option[option][i].value # <<>>
cfgOptionTest(c, option) == cfgOptionIdxTest(c, option, 1)
cfgOptionIdx(c, option, i) == c.option[option][i].value[1]
cfgOption(c, option) == cfgOptionIdx(c, option, 1)
cfgOptionIdxSource(c, option, i) == c.option[option][i].source

cfgOptionIdxSet(c, option, i, source, value) ==
    [c EXCEPT !.option[option][i].value = value, !.option[option][i].source = source]

\* A default found at run time, for the indexes that have no other value
cfgOptionDefaultSet(c, option, value) ==
    [c EXCEPT !.option[option] = [i \in DOMAIN @ |->
        IF @[i].source = "default" THEN [@[i] EXCEPT !.value = <<value>>] ELSE @[i]]]

-----------------------------------------------------------------------------
(* cfgLoadUpdateOption(): rules that relate several options *)
RepoIndexes(c) == DOMAIN c.map.repo

RepoLocal(c, i) == ~cfgOptionIdxTest(c, "repo-host", i)

\* Two local repositories in the same place
ReposClash(c) ==
    \E i, j \in RepoIndexes(c) :
        /\ i # j /\ RepoLocal(c, i) /\ RepoLocal(c, j)
        /\ cfgOptionIdx(c, "repo-type", i) \in {"posix", "cifs"}
        /\ cfgOptionIdx(c, "repo-type", i) = cfgOptionIdx(c, "repo-type", j)
        /\ cfgOptionIdx(c, "repo-path", i) = cfgOptionIdx(c, "repo-path", j)

HostsClash(c) ==
    /\ cfgOptionValid(c, "pg-host") /\ cfgOptionValid(c, "repo-host")
    /\ \E i \in DOMAIN c.map.pg : cfgOptionIdxTest(c, "pg-host", i)
    /\ \E i \in RepoIndexes(c) : cfgOptionIdxTest(c, "repo-host", i)

HostCommands(c) ==
    LET set(d, option) == IF cfgOptionValid(d, option) THEN cfgOptionDefaultSet(d, option, "pgbackrest") ELSE d
    IN  set(set(c, "repo-host-cmd"), "pg-host-cmd")

\* The protocol timeout must be longer than the database timeout
Timeouts(c) ==
    LET db == cfgOption(c, "db-timeout")
        protocol == cfgOption(c, "protocol-timeout")
    IN  IF \/ ~cfgOptionTest(c, "db-timeout") \/ ~cfgOptionTest(c, "protocol-timeout")
           \/ protocol > db
        THEN Value(c)
        ELSE IF cfgOptionIdxSource(c, "protocol-timeout", 1) = "default"
        THEN Value(cfgOptionIdxSet(c, "protocol-timeout", 1, "default", <<db + 30000>>))
        ELSE IF cfgOptionIdxSource(c, "db-timeout", 1) = "default"
        THEN Value(cfgOptionIdxSet(c, "db-timeout", 1, "default",
                 <<IF protocol - 30000 >= 15000 THEN protocol - 30000 ELSE protocol \div 2>>))
        ELSE Throw("OptionInvalidValue")

\* Archive retention follows the retention of the backups it is counted in
RetentionArchive(c) ==
    LET follows(i) ==
            CASE cfgOptionIdx(c, "repo-retention-archive-type", i) = "full" ->
                   IF cfgOptionIdx(c, "repo-retention-full-type", i) = "count"
                   THEN c.option["repo-retention-full"][i].value ELSE <<>>
              [] cfgOptionIdx(c, "repo-retention-archive-type", i) = "diff" ->
                   c.option["repo-retention-diff"][i].value
              [] OTHER -> <<>>
    IN  IF ~cfgOptionValid(c, "repo-retention-archive") THEN c
        ELSE [c EXCEPT !.option["repo-retention-archive"] = [i \in DOMAIN @ |->
                 IF @[i].value = <<>> /\ follows(i) # <<>>
                 THEN [@[i] EXCEPT !.value = follows(i), !.source = "default"] ELSE @[i]]]

\* compress is replaced by compress-type and is not valid from here on
Compress(c) ==
    LET set == IF /\ cfgOptionIdxSource(c, "compress", 1) # "default"
                  /\ ~cfgOption(c, "compress")
                  /\ cfgOptionIdxSource(c, "compress-type", 1) = "default"
               THEN cfgOptionIdxSet(c, "compress-type", 1, "param", <<"none">>) ELSE c
    IN  IF ~cfgOptionValid(c, "compress") THEN c
        ELSE [set EXCEPT !.option = [o \in DOMAIN @ \ {"compress"} |-> @[o]]]

compressLevelDefault(type) == [none |-> 0, bz2 |-> 9, gz |-> 6, lz4 |-> 1, zst |-> 3][type]

CompressLevel(c) ==
    IF cfgOptionValid(c, "compress-level") /\ cfgOptionIdxSource(c, "compress-level", 1) = "default"
    THEN cfgOptionIdxSet(c, "compress-level", 1, "default", <<compressLevelDefault(cfgOption(c, "compress-type"))>>)
    ELSE c

\* A bucket name with a dot does not match the certificate of the virtual host
BucketNameInvalid(c) ==
    \E i \in RepoIndexes(c) :
        /\ cfgOptionIdxTest(c, "repo-s3-bucket", i)
        /\ cfgOptionIdx(c, "repo-storage-verify-tls", i)
        /\ LET s == cfgOptionIdx(c, "repo-s3-bucket", i) IN \E k \in 1 .. Len(s) : SubSeq(s, k, k) = "."

cfgLoadUpdateOption(c) ==
    LET timed == Timeouts(HostCommands(c))
    IN  IF /\ ~c.help /\ c.command = "stanza-delete" /\ cfgOptionValid(c, "repo") /\ ~cfgOptionTest(c, "repo")
           /\ c.map.repo # <<0>>
        THEN Throw("OptionRequired")
        ELSE IF Len(c.map.repo) > 1 /\ ReposClash(c) THEN Throw("OptionInvalidValue")
        ELSE IF Threw(timed) THEN timed
        ELSE IF HostsClash(c) THEN Throw("Config")
        ELSE IF BucketNameInvalid(c) THEN Throw("OptionInvalidValue")
        ELSE Value(CompressLevel(Compress(RetentionArchive(timed.ok))))

cfgLoad(a) == LET c == configParse(a) IN IF Threw(c) THEN c ELSE cfgLoadUpdateOption(c.ok)

-----------------------------------------------------------------------------
(* The command line of a process started by this one *)
\* The raw values a value is written as
Raws(option, value) ==
    CASE OptionRule[option].type = "hash" ->
           [i \in 1 .. Cardinality(DOMAIN value) |->
               LET k == SetToSeq(DOMAIN value)[i] IN [pair |-> <<k, value[k]>>]]
      [] OptionRule[option].type = "list" -> [i \in DOMAIN value |-> Text(value[i])]
      [] OptionRule[option].type \in {"integer", "size", "time"} -> <<Num(value)>>
      [] OTHER -> <<Text(value)>>

\* replace is a function from names to <<>>, not passed, or <<value>>
cfgExecParam(c, command, role, replace, local) ==
    LET passes(option) ==
            /\ cfgParseOptionValid(command, role, option)
            /\ ~OptionRule[option].secure /\ option # "repo-cipher-type"
        words(option, i) ==
            LET name == cfgParseOptionKeyIdxName(option, MapOf(c.map, option)[i])
                replaced == name \in DOMAIN replace
                valid == cfgOptionValid(c, option)
                at == c.option[option][i]
                value == IF replaced THEN replace[name]
                         ELSE IF ~valid THEN <<>>
                         ELSE IF at.negate THEN <<FALSE>>
                         ELSE IF at.source # "default" THEN at.value ELSE <<>>
                negative == (~replaced /\ at.negate) \/ OptionRule[option].type = "boolean"
            IN  IF replaced /\ value = <<>> THEN <<>>
                ELSE IF value = <<>>
                THEN IF valid /\ at.reset THEN <<[name |-> "reset-" \o name, arg |-> <<>>]>> ELSE <<>>
                ELSE IF local /\ ~replaced /\ at.source # "param" THEN <<>>
                ELSE IF negative
                THEN <<[name |-> (IF value[1] THEN "" ELSE "no-") \o name, arg |-> <<>>]>>
                ELSE [k \in DOMAIN Raws(option, value[1]) |->
                         [name |-> name, arg |-> <<Raws(option, value[1])[k]>>]]
        all(option) == IF ~passes(option) THEN <<>>
                       ELSE FlattenSeq([i \in DOMAIN MapOf(c.map, option) |-> words(option, i)])
        told == SelectSeq([n \in DOMAIN parseRuleOption |-> parseRuleOption[n].name], LAMBDA o : all(o) # <<>>)
    IN  FlattenSeq([n \in DOMAIN told |-> all(told[n])])

LogReplace(c) ==
    "log-level-file" :> <<IF cfgOption(c, "log-subprocess") THEN cfgOption(c, "log-level-file") ELSE "off">>
    @@ "log-level-stderr" :> <<"error">> @@ "log-level-console" :> <<"off">>

protocolLocalParam(c, type, hostIdx, processId) ==
    cfgExecParam(c, c.command, "local",
        "process" :> <<processId>>
        @@ (IF type = "pg" THEN "pg" :> <<c.map.pg[hostIdx] + 1>> ELSE <<>>)
        @@ "remote-type" :> <<type>> @@ LogReplace(c), TRUE)

\* What a remote is not told or told differently: only the options of the
\* storage it serves, the options of its PostgreSQL cluster under key 1
RemoteReplace(c, type, hostIdx) ==
    LET name(option, i) == cfgParseOptionKeyIdxName(option, c.map[OptionRule[option].group][i])
        grouped == {o \in DOMAIN c.option : OptionRule[o].group # "none"}
        notDefault(option) == IF cfgOptionIdxSource(c, option, hostIdx) # "default"
                              THEN c.option[option][hostIdx].value ELSE <<>>
        remove(option) == IF OptionRule[option].group = "repo" THEN type = "pg"
                          ELSE \/ type = "pg"
                               \/ ~cfgParseOptionRequired(c.command, option)
                               \/ cfgParseOptionDefault(c.command, option) # <<>>
        pg == {o \in grouped : OptionRule[o].group = "pg"}
        removed == {<<o, i>> \in grouped \X (DOMAIN c.map.pg \cup DOMAIN c.map.repo) :
                       /\ i \in DOMAIN c.option[o] /\ remove(o) /\ cfgOptionIdxTest(c, o, i)
                       /\ ~(type = "pg" /\ OptionRule[o].group = "pg" /\ i = 1)}
        host(option) == type \o "-host-" \o option
    IN  [n \in {name(x[1], x[2]) : x \in removed} |-> <<>>]
        @@ (IF type = "pg" /\ hostIdx # 1
            THEN [n \in {name(o, 1) : o \in pg} |-> notDefault(CHOOSE o \in pg : name(o, 1) = n)] ELSE <<>>)
        @@ [o \in {"config", "config-include-path", "config-path"} |-> notDefault(host(o))]
        @@ (IF type = "repo" THEN "repo" :> <<c.map.repo[hostIdx] + 1>> ELSE <<>>)
        @@ (IF cfgOptionTest(c, "process") THEN <<>> ELSE "process" :> <<0>>)
        @@ [o \in {"log-path", "lock-path"} |-> <<>>]
        @@ LogReplace(c)
        @@ "remote-type" :> <<type>>

protocolRemoteParam(c, type, hostIdx) ==
    cfgExecParam(c, c.command, "remote", RemoteReplace(c, type, hostIdx), FALSE)

-----------------------------------------------------------------------------
(* cfgFileLoad(): the files the configuration is read from.  a tells which *)
(* of the options are on the command line ("no" for --no-config) and which *)
(* files and directories exist, the defaults being under the config path.  *)
cfgFileLoad(a) ==
    LET config == IF a.config = "yes" THEN "given" ELSE IF a.configPath THEN "path" ELSE "default"
        include == IF a.include THEN "given" ELSE IF a.configPath THEN "path" ELSE "default"
        loadInclude == a.config = "none" \/ a.configPath \/ a.include
        main == CASE a.config = "no" -> <<>>
                  [] a.config # "no" /\ config \in a.files -> <<config>>
                  [] a.config # "no" /\ config \notin a.files ->
                       IF config = "default" /\ "original" \in a.files THEN <<"original">> ELSE <<>>
    IN  IF a.config = "yes" /\ config \notin a.files THEN Throw("FileMissing")
        ELSE IF loadInclude /\ a.include /\ include \notin a.dirs THEN Throw("PathMissing")
        ELSE Value([main |-> main, include |-> IF loadInclude /\ include \in a.dirs THEN <<include>> ELSE <<>>])

-----------------------------------------------------------------------------
(* Properties of the rules *)

\* An option is resolved after the option it depends on, in every command and
\* role it is valid in the other one is valid too, and the index at which
\* configParse() reads the other one exists: they are in the same group, or the
\* other one is in the group of neither.
ResolvesAfterDependency(o, r) ==
    \A c \in DOMAIN CommandRule :
        LET d == Dependency(c, o)
            at(x) == CHOOSE i \in DOMAIN optionResolveOrder : optionResolveOrder[i] = x
        IN  d # <<>> => /\ at(d[1]) < at(o)
                        /\ OptionRule[d[1]].group = OptionRule[o].group
                        /\ \A role \in CommandRule[c].roles :
                              cfgParseOptionValid(c, role, o) => cfgParseOptionValid(c, role, d[1])

\* Every default passes the checks a value of the command line has to pass, in
\* each command: a child process is given the parent's values as words.
DefaultsAllowed(o, r) ==
    \A c \in DOMAIN CommandRule :
        LET d == cfgParseOptionDefault(c, o)
            values == Raws(o, d[1])
        IN  d # <<>> /\ OptionRule[o].type # "boolean" =>
                SetValue(c, o, Found("param", NotFound, values)) = Value(d[1])

\* The name cfgExecParam() writes for an option and a key is read back by
\* configParse() as that option and key, negated and reset where it says so, and
\* no other name of the list means the same by accident of its prefix.
NamesLeadBack(a, r) ==
    LET o == OptionRule[a.option]
        back(p) == cfgParseOption(p \o r, TRUE)
        same(e) == e.option = a.option /\ e.key = a.key
    IN  /\ same(back("")) /\ ~back("").negate /\ ~back("").reset
        /\ o.type = "boolean" /\ o.section # "command-line" => same(back("no-")) /\ back("no-").negate
        /\ o.section # "command-line" => same(back("reset-")) /\ back("reset-").reset
        /\ Cardinality({e \in optionList : e.name = r}) = 1

\* The options a command reads without asking whether they are valid: lock path,
\* stanza and execution id where a lock is taken, the log path where a log file
\* is written, and in the parent what the local and the remote are told.
CommandsServed(a, r) ==
    LET valid(role, o) == cfgParseOptionValid(a, role, o)
        given(o) == cfgParseOptionDefault(a, o) # <<>> \/ cfgParseOptionRequired(a, o)
        roles == CommandRule[a].roles
    IN  /\ \A role \in roles :
              (role = "async" \/ (role = "main" /\ CommandData[a].lockRequired)) =>
                  /\ \A o \in {"lock-path", "stanza", "exec-id"} : valid(role, o)
                  /\ given("lock-path") /\ given("stanza")
        /\ CommandData[a].lockRemoteRequired =>
              CommandData[a].lockType # "none" /\ valid("remote", "lock-path") /\ valid("remote", "stanza")
        /\ \A role \in roles : CommandData[a].logFile => valid(role, "log-path") /\ valid(role, "log-level-file")
        /\ \A role \in roles \cap {"local", "remote"} :
              /\ \A o \in {"process", "remote-type", "log-level-file", "log-level-stderr",
                           "log-level-console", "protocol-timeout"} : valid(role, o)
              /\ valid("main", "log-subprocess") /\ valid("main", "log-level-file")
        /\ \A role \in roles : valid(role, "sck-keep-alive") => valid(role, "sck-block")
        /\ \A role \in roles : valid(role, "compress-level") => valid(role, "compress-type")

-----------------------------------------------------------------------------
(* Properties of parsing *)

\* What the command line, the environment and the sections of the file say of
\* an option and a key, the most specific first: the text of the option under
\* any of its names
Mentions(a, option, key) ==
    LET says(seq, prefix) ==
            SelectSeq(seq, LAMBDA w : LET e == cfgParseOption(w.name, prefix)
                                      IN  e.option = option /\ e.key = key)
        sections == <<"db:" \o a.command, "db", "global:" \o a.command, "global">>
        inFile(i) == IF sections[i] \in DOMAIN a.file /\ (OptionRule[option].section = "stanza" => i <= 2)
                        /\ OptionRule[option].section # "command-line"
                     THEN says(a.file[sections[i]], FALSE) ELSE <<>>
    IN  [word |-> says(a.word, TRUE), config |-> says(a.env, FALSE) \o inFile(1) \o inFile(2) \o inFile(3) \o inFile(4)]

\* configParse() takes an option from the command line if it is there, else from
\* the environment, else from the first of the sections stanza:command, stanza,
\* global:command and global that has it, under whatever name; a reset on the
\* command line hides the others.
Precedence(a, r) ==
    ~Threw(r) =>
        \A o \in DOMAIN r.ok.option :
            \A i \in DOMAIN r.ok.option[o] :
                LET at == r.ok.option[o][i]
                    says == Mentions(a, o, MapOf(r.ok.map, o)[i])
                    y == OptionRule[o].type = "boolean"
                IN  /\ at.source = "param" => says.word # <<>> /\ ~at.reset
                    /\ at.source = "config" => says.word = <<>> /\ says.config # <<>>
                    /\ says.word # <<>> /\ ~at.reset => at.source = "param"
                    /\ at.source = "config" /\ y => at.value = <<says.config[1].values = <<Text("y")>> >>
                    /\ at.source = "config" /\ ~y /\ at.value # <<>> =>
                           Raws(o, at.value[1]) = says.config[1].values

\* An option has a value only where the option it depends on has one that is in
\* the list; where that holds and nothing negates it, it lacks a value only if
\* the command can do without.
DependenciesMet(a, r) ==
    ~Threw(r) =>
        \A o \in DOMAIN r.ok.option :
            \A i \in DOMAIN r.ok.option[o] :
                LET c == r.ok
                    d == Dependency(c.command, o)
                    met == d = <<>> \/ (/\ cfgOptionIdxTest(c, d[1], i)
                                        /\ d[2] = {} \/ cfgOptionIdx(c, d[1], i) \in d[2])
                IN  /\ cfgOptionIdxTest(c, o, i) => met
                    /\ met /\ ~c.option[o][i].negate /\ ~c.help =>
                           \/ cfgOptionIdxTest(c, o, i)
                           \/ /\ ~cfgParseOptionRequired(c.command, o)
                              /\ cfgParseOptionDefault(c.command, o) = <<>>

\* Where pg1-path is required every key that is configured gets an index: none of
\* the repositories or clusters is left out, and the indexes follow the keys.
KeysKept(a, r) ==
    ~Threw(r) /\ ~a.help /\ cfgOptionValid(r.ok, "pg-path") /\ cfgParseOptionRequired(a.command, "pg-path") =>
        \A g \in {"pg", "repo"} :
            LET map == r.ok.map[g]
                used == {k \in 0 .. 7 :
                            \E o \in DOMAIN r.ok.option :
                                /\ OptionRule[o].group = g
                                /\ LET m == Mentions(a, o, k)
                                       reset == m.word # <<>> /\ cfgParseOption(m.word[1].name, TRUE).reset
                                   IN  ~reset /\ m.word \o m.config # <<>>}
            IN  /\ used \subseteq Range(map)
                /\ \A i, j \in DOMAIN map : i < j => map[i] < map[j]

\* After cfgLoadUpdateOption() the other end of a protocol connection waits longer
\* than a query of the database may take, whichever of the timeouts was set.
TimeoutOrder(a, r) ==
    ~Threw(r) /\ cfgOptionTest(r.ok, "db-timeout") /\ cfgOptionTest(r.ok, "protocol-timeout") =>
        cfgOption(r.ok, "protocol-timeout") > cfgOption(r.ok, "db-timeout")

LocalWords(c) == protocolLocalParam(c, "repo", 1, 1)

\* The local process reads the same environment and file
LocalProcess(a, c) == cfgLoad([a EXCEPT !.role = "local", !.param = FALSE, !.word = LocalWords(c)])

\* Each repository has an option that is valid for the local too
ReposKnown(c) ==
    \/ c.map.repo = <<0>>
    \/ \A i \in RepoIndexes(c) :
           \E o \in DOMAIN c.option : /\ OptionRule[o].group = "repo" /\ cfgParseOptionValid(c.command, "local", o)
                                      /\ cfgOptionIdxSource(c, o, i) # "default"

\* A local process started with protocolLocalParam() ends up with the options and
\* the repositories of its parent, except for the options the parent replaces and
\* for repositories that are known by options of the parent only.
LocalAgrees(a, r) ==
    ~Threw(r) /\ "local" \in CommandRule[a.command].roles =>
        LET child == LocalProcess(a, r.ok)
            told == {"process", "remote-type", "log-level-file", "log-level-stderr", "log-level-console"}
        IN  /\ ~Threw(child)
            /\ ReposKnown(r.ok) =>
                  /\ child.ok.map.repo = r.ok.map.repo
                  /\ \A o \in (DOMAIN child.ok.option \cap DOMAIN r.ok.option) \ told :
                        \A i \in DOMAIN child.ok.option[o] :
                            child.ok.option[o][i].value = r.ok.option[o][i].value

\* An option of the file that depends on an option that is not set, and says n
IgnoredNo(c) ==
    \E o \in DOMAIN c.option : \E i \in DOMAIN c.option[o] :
        c.option[o][i].negate /\ c.option[o][i].value = <<>> /\ c.option[o][i].source = "default"

\* The remote for an index; the repository host configures its repository
Remote(a, c, type, i) ==
    LET own == [name |-> cfgParseOptionKeyIdxName("repo-path", c.map.repo[i]), values |-> <<Text("/own")>>]
    IN  cfgLoad([a EXCEPT !.role = "remote", !.param = FALSE, !.env = <<>>,
                          !.file = IF type = "repo" THEN "global" :> <<own>> ELSE <<>>,
                          !.word = protocolRemoteParam(c, type, i)])

RemoteTaken(a, c, type, i) ==
    LET child == Remote(a, c, type, i)
        at == child.ok.default[type]
        path == type \o "-path"
    IN  /\ ~Threw(child)
        /\ child.ok.map[type][at] = (IF type = "pg" THEN 0 ELSE c.map.repo[i])
        /\ cfgOptionIdx(child.ok, path, at) =
               (IF cfgOptionIdxSource(c, path, i) = "default" THEN "/own" ELSE cfgOptionIdx(c, path, i))
        /\ cfgOption(child.ok, "protocol-timeout") = cfgOption(c, "protocol-timeout")

\* The hosts with a remote; pgIsLocalVerify() and repoIsLocalVerify() end the
\* commands that have to run on the PostgreSQL or on the repository host
RemoteIndexes(c, type) ==
    LET local == IF type = "pg" THEN {"archive-get", "archive-push", "restore"} ELSE {"backup", "expire"}
    IN  {i \in DOMAIN c.map[type] : c.command \notin local /\ cfgOptionIdxTest(c, type \o "-host", i)}

\* A remote takes the words protocolRemoteParam() writes and operates on the one
\* repository or cluster it was started for, with the parent's options: those of
\* the repository under its own key, those of the cluster under key 1.
RemoteAgrees(a, r) ==
    ~Threw(r) /\ "remote" \in CommandRule[a.command].roles /\ ~IgnoredNo(r.ok) =>
        \A type \in {"pg", "repo"} :
            \A i \in RemoteIndexes(r.ok, type) : RemoteTaken(a, r.ok, type, i)

\* The rules above cfgFileLoad(): a file or directory that is named has to exist
\* and is read; of the defaults each is read if it exists, the old location only
\* in place of the default itself, and naming the file alone or --no-config alone
\* leaves the directory out.
FilesLoaded(a, r) ==
    LET named == (IF a.config = "yes" THEN {<<"file", "given">>} ELSE {})
                 \cup (IF a.include THEN {<<"dir", "given">>} ELSE {})
        there == {<<"file", f>> : f \in a.files} \cup {<<"dir", d>> : d \in a.dirs}
        read == {<<"file", r.ok.main[i]>> : i \in DOMAIN r.ok.main}
                \cup {<<"dir", r.ok.include[i]>> : i \in DOMAIN r.ok.include}
        base == IF a.configPath THEN "path" ELSE "default"
        optional == {<<"file", base>>, <<"dir", base>>}
                    \ ((IF a.config # "none" THEN {<<"file", base>>} ELSE {})
                       \cup (IF a.include \/ (a.config # "none" /\ ~a.configPath) THEN {<<"dir", base>>} ELSE {}))
        old == IF <<"file", "default">> \in optional \ there THEN {<<"file", "original">>} ELSE {}
    IN  IF named \subseteq there THEN ~Threw(r) /\ read = named \cup ((optional \cup old) \cap there)
        ELSE Threw(r)

\* What is asked of a rule, of a parsed and of a loaded configuration
RuleSound(o, r) == ResolvesAfterDependency(o, r) /\ DefaultsAllowed(o, r)
Parsed(a, r) == Precedence(a, r) /\ DependenciesMet(a, r) /\ KeysKept(a, r)
Loaded(a, r) == TimeoutOrder(a, r) /\ LocalAgrees(a, r) /\ RemoteAgrees(a, r)

\* The rules of the options and commands are tables, looked up by name
Table(name) == name
KeyIdxName(x) == cfgParseOptionKeyIdxName(x.option, x.key)

\* The rules of parse.auto.c can be resolved in one pass, the options of a
\* command have the values its command line, environment and files give them
\* in this order, and the local and remote processes it starts agree with it.
OptionsResolved ==
    [][ /\ Returns("parseRuleOption", Table, RuleSound)
        /\ Returns("cfgCommandName", Table, CommandsServed)
        /\ Returns("cfgParseOptionKeyIdxName", KeyIdxName, NamesLeadBack)
        /\ Returns("cfgFileLoad", cfgFileLoad, FilesLoaded)
        /\ Returns("configParse", configParse, Parsed)
        /\ Returns("cfgLoad", cfgLoad, Loaded)]_call
=============================================================================
