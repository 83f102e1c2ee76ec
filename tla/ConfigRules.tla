---------------------------- MODULE ConfigRules -----------------------------
(***************************************************************************)
(* The rules of src/config/parse.auto.c: the commands with their roles,    *)
(* the options with the commands and roles they are valid in, their        *)
(* defaults, allowed values and dependencies, and the order options are    *)
(* resolved in.  Times are milliseconds, sizes pairs of digits to the base *)
(* 2^28.                                                                   *)
(***************************************************************************)
EXTENDS Integers, Sequences, TLC

Bytes(n) == <<0, n>>
MiB(n) == <<n \div 256, (n % 256) * 1048576>>
PiB(n) == <<n * 4194304, 0>>

(* Sets of commands that many options share *)
Never == {}
Archive == {"archive-get", "archive-push"}
Stanzas == {"stanza-create", "stanza-delete", "stanza-upgrade"}
RepoCommands == {"repo-create", "repo-get", "repo-ls", "repo-put", "repo-rm"}
Jobs == Archive \cup {"backup", "restore", "verify"}
FromRepo == Archive \cup Stanzas \cup RepoCommands \cup {"check", "info", "restore", "verify"}
Remotes == FromRepo \cup {"backup"}
Repositories == Remotes \cup {"expire"}
Stoppable == Repositories \cup {"start", "stop"}
Cluster == Stanzas \cup {"backup", "check"}

-----------------------------------------------------------------------------
(* parseRuleCommand and configCommandData *)
Rule(roles, param) == [roles |-> roles, parameterAllowed |-> param]
MainOnly == {"main"}
WithRemote == {"main", "remote"}
WithLocal == {"main", "local", "remote"}
WithAsync == {"main", "async", "local", "remote"}

CommandRuleFirst ==
    [c \in {"archive-get", "archive-push"} |-> Rule(WithAsync, TRUE)]
    @@ [c \in {"backup"} |-> Rule(WithLocal, FALSE)]
    @@ [c \in {"check", "info", "repo-create"} |-> Rule(WithRemote, FALSE)]
    @@ [c \in {"expire"} |-> Rule(MainOnly, FALSE)]
    @@ [c \in {"help"} |-> Rule(MainOnly, TRUE)]
    @@ [c \in {"repo-get", "repo-ls"} |-> Rule(WithRemote, TRUE)]

CommandRuleSecond ==
    [c \in {"repo-put", "repo-rm"} |-> Rule(WithRemote, TRUE)]
    @@ [c \in {"restore", "verify"} |-> Rule(WithLocal, FALSE)]
    @@ [c \in {"stanza-create", "stanza-delete", "stanza-upgrade"} |-> Rule(WithRemote, FALSE)]
    @@ [c \in {"start", "stop", "version"} |-> Rule(MainOnly, FALSE)]

CommandRule == CommandRuleFirst @@ CommandRuleSecond

Data(logFile, lock, lockRemote, lockType) ==
    [logFile |-> logFile, lockRequired |-> lock, lockRemoteRequired |-> lockRemote, lockType |-> lockType]

CommandDataFirst ==
    [c \in {"archive-get"} |-> Data(FALSE, FALSE, FALSE, "archive")]
    @@ [c \in {"archive-push"} |-> Data(FALSE, FALSE, TRUE, "archive")]
    @@ [c \in {"backup"} |-> Data(TRUE, TRUE, TRUE, "backup")]
    @@ [c \in {"check", "help", "info", "repo-create", "repo-get", "repo-ls"} |-> Data(FALSE, FALSE, FALSE, "none")]
    @@ [c \in {"expire"} |-> Data(TRUE, TRUE, FALSE, "backup")]

CommandDataSecond ==
    [c \in {"repo-put", "repo-rm", "version"} |-> Data(FALSE, FALSE, FALSE, "none")]
    @@ [c \in {"restore", "start", "stop", "verify"} |-> Data(TRUE, FALSE, FALSE, "none")]
    @@ [c \in {"stanza-create", "stanza-delete", "stanza-upgrade"} |-> Data(TRUE, TRUE, FALSE, "all")]

CommandData == CommandDataFirst @@ CommandDataSecond

-----------------------------------------------------------------------------
(* parseRuleOption: base rules, and rules that override them in a command *)
NoRule == [default |-> <<>>, allow |-> <<>>, range |-> <<>>, depend |-> <<>>, required |-> <<>>]

Override(commands, rule) == [c \in commands |-> rule]

Valid(main, async, local, remote) == [main |-> main, async |-> async, local |-> local, remote |-> remote]

Plain(section) ==
    [name |-> "", type |-> "", required |-> TRUE, section |-> section, multi |-> FALSE, secure |-> FALSE,
     group |-> "none", valid |-> Valid({}, {}, {}, {}), base |-> NoRule, over |-> <<>>]
Global == Plain("global")
Stanza == Plain("stanza")
CommandLine == Plain("command-line")

optArchiveAsync ==
    [Global EXCEPT !.name = "archive-async", !.type = "boolean", !.valid = Valid(Archive, Archive, Archive, Archive),
        !.base.default = <<FALSE>>]

optArchiveCheck ==
    [Global EXCEPT !.name = "archive-check", !.type = "boolean",
        !.valid = Valid({"backup", "check"}, Never, Never, Never), !.base.default = <<TRUE>>,
        !.over = Override({"backup"}, [NoRule EXCEPT !.depend = <<"online", {TRUE}>>])]

optArchiveCopy ==
    [Global EXCEPT !.name = "archive-copy", !.type = "boolean", !.valid = Valid({"backup"}, Never, Never, Never),
        !.base.default = <<FALSE>>,
        !.over = Override({"backup"}, [NoRule EXCEPT !.depend = <<"archive-check", {TRUE}>>])]

optArchiveGetQueueMax ==
    [Global EXCEPT !.name = "archive-get-queue-max", !.type = "size",
        !.valid = Valid({"archive-get"}, {"archive-get"}, Never, Never), !.base.default = <<MiB(128)>>,
        !.base.range = <<Bytes(0), PiB(4)>>]

optArchiveHeaderCheck ==
    [Global EXCEPT !.name = "archive-header-check", !.type = "boolean",
        !.valid = Valid({"archive-push"}, {"archive-push"}, Never, Never), !.base.default = <<TRUE>>]

optArchiveMode ==
    [Global EXCEPT !.name = "archive-mode", !.type = "string", !.valid = Valid({"restore"}, Never, Never, Never),
        !.base.default = <<"preserve">>, !.base.allow = <<{"off", "preserve"}>>]

optArchiveModeCheck ==
    [Global EXCEPT !.name = "archive-mode-check", !.type = "boolean",
        !.valid = Valid({"backup", "check"}, Never, Never, Never), !.base.default = <<TRUE>>,
        !.base.depend = <<"archive-check", {TRUE}>>]

optArchivePushQueueMax ==
    [Global EXCEPT !.name = "archive-push-queue-max", !.type = "size", !.required = FALSE,
        !.valid = Valid({"archive-push"}, {"archive-push"}, Never, Never), !.base.range = <<Bytes(0), PiB(4)>>]

optArchiveTimeout ==
    [Global EXCEPT !.name = "archive-timeout", !.type = "time",
        !.valid = Valid(Archive \cup {"backup", "check"}, Never, Never, Never), !.base.default = <<60000>>,
        !.base.range = <<100, 86400000>>]

optBackupStandby ==
    [Global EXCEPT !.name = "backup-standby", !.type = "boolean",
        !.valid = Valid(Cluster \ {"stanza-delete"}, Never, Never, Never), !.base.default = <<FALSE>>]

optBufferSize ==
    [Global EXCEPT !.name = "buffer-size", !.type = "size", !.valid = Valid(Repositories, Archive, Jobs, Remotes),
        !.base.default = <<MiB(1)>>,
        !.base.allow = <<{Bytes(16384), Bytes(32768), Bytes(65536), Bytes(131072), Bytes(262144), Bytes(524288),
            MiB(1), MiB(2), MiB(4), MiB(8), MiB(16)}>>]

optChecksumPage ==
    [Global EXCEPT !.name = "checksum-page", !.type = "boolean", !.required = FALSE,
        !.valid = Valid({"backup"}, Never, Never, Never)]

optCipherPass ==
    [CommandLine EXCEPT !.name = "cipher-pass", !.type = "string", !.required = FALSE,
        !.valid = Valid({"repo-get", "repo-put"}, Never, Never, Never)]

optCmdSsh ==
    [Global EXCEPT !.name = "cmd-ssh", !.type = "string", !.valid = Valid(Remotes, Archive, Jobs, Never),
        !.base.default = <<"ssh">>]

optCompress ==
    [Global EXCEPT !.name = "compress", !.type = "boolean",
        !.valid = Valid({"archive-push", "backup"}, Never, Never, Never), !.base.default = <<TRUE>>]

optCompressLevel ==
    [Global EXCEPT !.name = "compress-level", !.type = "integer", !.required = FALSE,
        !.valid = Valid({"archive-push", "backup"}, {"archive-push"}, Never, Never), !.base.range = <<0, 9>>]

optCompressLevelNetwork ==
    [Global EXCEPT !.name = "compress-level-network", !.type = "integer",
        !.valid = Valid(Remotes \ {"repo-create", "repo-rm"}, Archive, Jobs, Never), !.base.default = <<3>>,
        !.base.range = <<0, 9>>]

optCompressType ==
    [Global EXCEPT !.name = "compress-type", !.type = "string",
        !.valid = Valid({"archive-push", "backup"}, {"archive-push"}, Never, Never), !.base.default = <<"gz">>,
        !.base.allow = <<{"none", "bz2", "gz", "lz4", "zst"}>>]

optConfig ==
    [CommandLine EXCEPT !.name = "config", !.type = "string", !.valid = Valid(Stoppable, Archive, Jobs, Remotes),
        !.base.default = <<"/etc/pgbackrest/pgbackrest.conf">>]

optConfigIncludePath ==
    [CommandLine EXCEPT !.name = "config-include-path", !.type = "path",
        !.valid = Valid(Stoppable, Archive, Jobs, Remotes), !.base.default = <<"/etc/pgbackrest/conf.d">>]

optConfigPath ==
    [CommandLine EXCEPT !.name = "config-path", !.type = "path", !.valid = Valid(Stoppable, Archive, Jobs, Remotes),
        !.base.default = <<"/etc/pgbackrest">>]

optDbExclude ==
    [Global EXCEPT !.name = "db-exclude", !.type = "list", !.required = FALSE, !.multi = TRUE,
        !.valid = Valid({"restore"}, Never, Never, Never)]

optDbInclude ==
    [Global EXCEPT !.name = "db-include", !.type = "list", !.required = FALSE, !.multi = TRUE,
        !.valid = Valid({"restore"}, Never, Never, Never)]

optDbTimeout ==
    [Global EXCEPT !.name = "db-timeout", !.type = "time",
        !.valid = Valid(Remotes \ {"info", "restore", "verify"}, Archive, Archive \cup {"backup"},
            Remotes \ {"info", "restore", "verify"}),
        !.base.default = <<1800000>>, !.base.range = <<100, 604800000>>]

optDelta ==
    [Global EXCEPT !.name = "delta", !.type = "boolean", !.valid = Valid({"backup", "restore"}, Never, Never, Never),
        !.base.default = <<FALSE>>]

optDryRun ==
    [CommandLine EXCEPT !.name = "dry-run", !.type = "boolean", !.valid = Valid({"expire"}, Never, Never, Never),
        !.base.default = <<FALSE>>]

optExclude ==
    [Global EXCEPT !.name = "exclude", !.type = "list", !.required = FALSE, !.multi = TRUE,
        !.valid = Valid({"backup"}, Never, Never, Never)]

optExecId ==
    [CommandLine EXCEPT !.name = "exec-id", !.type = "string", !.required = FALSE,
        !.valid = Valid(Stoppable, Archive, Jobs, Remotes)]

optExpireAuto ==
    [Global EXCEPT !.name = "expire-auto", !.type = "boolean", !.valid = Valid({"backup"}, Never, Never, Never),
        !.base.default = <<TRUE>>]

optFilter ==
    [CommandLine EXCEPT !.name = "filter", !.type = "string", !.required = FALSE,
        !.valid = Valid({"repo-ls"}, Never, Never, Never)]

optForce ==
    [CommandLine EXCEPT !.name = "force", !.type = "boolean",
        !.valid = Valid({"backup", "restore", "stanza-create", "stanza-delete", "stop"}, Never, Never, Never),
        !.base.default = <<FALSE>>, !.over = Override({"backup"}, [NoRule EXCEPT !.depend = <<"online", {FALSE}>>])]

optIgnoreMissing ==
    [CommandLine EXCEPT !.name = "ignore-missing", !.type = "boolean",
        !.valid = Valid({"repo-get"}, Never, Never, Never), !.base.default = <<FALSE>>]

optIoTimeout ==
    [Global EXCEPT !.name = "io-timeout", !.type = "time", !.valid = Valid(Repositories, Archive, Jobs, Remotes),
        !.base.default = <<60000>>, !.base.range = <<100, 3600000>>]

optJobRetry ==
    [Global EXCEPT !.name = "job-retry", !.type = "integer", !.valid = Valid(Jobs, Archive, Jobs, Never),
        !.base.default = <<2>>, !.base.range = <<0, 360>>,
        !.over = Override({"archive-get", "archive-push"}, [NoRule EXCEPT !.default = <<1>>])]

optJobRetryInterval ==
    [Global EXCEPT !.name = "job-retry-interval", !.type = "time", !.valid = Valid(Jobs, Archive, Jobs, Never),
        !.base.default = <<15000>>, !.base.range = <<0, 900000>>,
        !.over = Override({"archive-get", "archive-push"}, [NoRule EXCEPT !.default = <<1>>])]

optLinkAll ==
    [Global EXCEPT !.name = "link-all", !.type = "boolean", !.valid = Valid({"restore"}, Never, Never, Never),
        !.base.default = <<FALSE>>]

optLinkMap ==
    [Global EXCEPT !.name = "link-map", !.type = "hash", !.required = FALSE, !.multi = TRUE,
        !.valid = Valid({"restore"}, Never, Never, Never)]

optLockPath ==
    [Global EXCEPT !.name = "lock-path", !.type = "path",
        !.valid = Valid(Archive \cup Stanzas \cup {"backup", "expire", "info", "restore", "start", "stop"},
            Archive, Jobs \ {"verify"}, Archive \cup Stanzas \cup {"backup", "info", "restore"}),
        !.base.default = <<"/tmp/pgbackrest">>]

optLogLevelConsole ==
    [Global EXCEPT !.name = "log-level-console", !.type = "string",
        !.valid = Valid(Stoppable, Archive, Jobs, Remotes), !.base.default = <<"warn">>,
        !.base.allow = <<{"off", "error", "warn", "info", "detail", "debug", "trace"}>>]

optLogLevelFile ==
    [Global EXCEPT !.name = "log-level-file", !.type = "string", !.valid = Valid(Stoppable, Archive, Jobs, Remotes),
        !.base.default = <<"info">>, !.base.allow = <<{"off", "error", "warn", "info", "detail", "debug", "trace"}>>]

optLogLevelStderr ==
    [Global EXCEPT !.name = "log-level-stderr", !.type = "string", !.valid = Valid(Stoppable, Archive, Jobs, Remotes),
        !.base.default = <<"warn">>, !.base.allow = <<{"off", "error", "warn", "info", "detail", "debug", "trace"}>>]

optLogPath ==
    [Global EXCEPT !.name = "log-path", !.type = "path", !.valid = Valid(Stoppable, Archive, Jobs, Remotes),
        !.base.default = <<"/var/log/pgbackrest">>]

optLogSubprocess ==
    [Global EXCEPT !.name = "log-subprocess", !.type = "boolean", !.valid = Valid(Remotes, Archive, Jobs, Remotes),
        !.base.default = <<FALSE>>]

optLogTimestamp ==
    [Global EXCEPT !.name = "log-timestamp", !.type = "boolean", !.valid = Valid(Stoppable, Archive, Jobs, Remotes),
        !.base.default = <<TRUE>>]

optManifestSaveThreshold ==
    [Global EXCEPT !.name = "manifest-save-threshold", !.type = "size", !.valid = Valid({"backup"}, Never, Never, Never),
        !.base.default = <<MiB(1024)>>, !.base.range = <<Bytes(1), MiB(1048576)>>]

optNeutralUmask ==
    [Global EXCEPT !.name = "neutral-umask", !.type = "boolean",
        !.valid = Valid(Stoppable \ {"info"}, Archive, Jobs, Remotes \ {"info"}), !.base.default = <<TRUE>>]

optOnline ==
    [CommandLine EXCEPT !.name = "online", !.type = "boolean",
        !.valid = Valid(Cluster \ {"check", "stanza-delete"}, Never, Never, Never), !.base.default = <<TRUE>>]

optOutput ==
    [CommandLine EXCEPT !.name = "output", !.type = "string", !.valid = Valid({"info", "repo-ls"}, Never, Never, Never),
        !.over = Override({"info", "repo-ls"}, [NoRule EXCEPT !.default = <<"text">>, !.allow = <<{"text",
            "json"}>>])]

optPg ==
    [CommandLine EXCEPT !.name = "pg", !.type = "integer", !.required = FALSE,
        !.valid = Valid(Never, Never, {"backup"}, Never), !.base.range = <<1, 8>>]

optPgDatabase ==
    [Stanza EXCEPT !.name = "pg-database", !.type = "string", !.group = "pg",
        !.valid = Valid(Cluster, Never, {"backup"}, Cluster), !.base.default = <<"postgres">>,
        !.base.depend = <<"pg-path", {}>>]

optPgHost ==
    [Stanza EXCEPT !.name = "pg-host", !.type = "string", !.required = FALSE, !.group = "pg",
        !.valid = Valid(Archive \cup Cluster \cup {"restore"}, Archive, Jobs \ {"verify"}, Never),
        !.base.depend = <<"pg-local", {FALSE}>>]

optPgHostCmd ==
    [Stanza EXCEPT !.name = "pg-host-cmd", !.type = "string", !.required = FALSE, !.group = "pg",
        !.valid = Valid(Cluster, Never, {"backup"}, Never), !.base.depend = <<"pg-host", {}>>]

optPgHostConfig ==
    [Stanza EXCEPT !.name = "pg-host-config", !.type = "string", !.group = "pg",
        !.valid = Valid(Cluster, Never, {"backup"}, Never), !.base.default = <<"/etc/pgbackrest/pgbackrest.conf">>,
        !.base.depend = <<"pg-host", {}>>]

optPgHostConfigIncludePath ==
    [Stanza EXCEPT !.name = "pg-host-config-include-path", !.type = "path", !.required = FALSE, !.group = "pg",
        !.valid = Valid(Cluster, Never, {"backup"}, Never), !.base.default = <<"/etc/pgbackrest/conf.d">>,
        !.base.depend = <<"pg-host", {}>>]

optPgHostConfigPath ==
    [Stanza EXCEPT !.name = "pg-host-config-path", !.type = "path", !.required = FALSE, !.group = "pg",
        !.valid = Valid(Cluster, Never, {"backup"}, Never), !.base.default = <<"/etc/pgbackrest">>,
        !.base.depend = <<"pg-host", {}>>]

optPgHostPort ==
    [Stanza EXCEPT !.name = "pg-host-port", !.type = "integer", !.required = FALSE, !.group = "pg",
        !.valid = Valid(Cluster, Never, {"backup"}, Never), !.base.range = <<0, 65535>>,
        !.base.depend = <<"pg-host", {}>>]

optPgHostUser ==
    [Stanza EXCEPT !.name = "pg-host-user", !.type = "string", !.required = FALSE, !.group = "pg",
        !.valid = Valid(Cluster, Never, {"backup"}, Never), !.base.default = <<"postgres">>,
        !.base.depend = <<"pg-host", {}>>]

optPgLocal ==
    [Stanza EXCEPT !.name = "pg-local", !.type = "boolean", !.group = "pg",
        !.valid = Valid(Archive \cup Cluster \cup {"restore"}, Archive, Jobs \ {"verify"}, Never),
        !.base.default = <<FALSE>>]

optPgPath ==
    [Stanza EXCEPT !.name = "pg-path", !.type = "path", !.group = "pg",
        !.valid = Valid(Archive \cup Cluster \cup {"restore"}, Archive, Jobs \ {"verify"},
            Archive \cup Cluster \cup {"restore"}),
        !.over = Override({"archive-push"}, [NoRule EXCEPT !.required = <<FALSE>>])]

optPgPort ==
    [Stanza EXCEPT !.name = "pg-port", !.type = "integer", !.group = "pg",
        !.valid = Valid(Cluster, Never, {"backup"}, Cluster), !.base.default = <<5432>>, !.base.range = <<0, 65535>>,
        !.base.depend = <<"pg-path", {}>>]

optPgSocketPath ==
    [Stanza EXCEPT !.name = "pg-socket-path", !.type = "path", !.required = FALSE, !.group = "pg",
        !.valid = Valid(Cluster, Never, {"backup"}, Cluster), !.base.range = <<0, 65535>>,
        !.base.depend = <<"pg-path", {}>>]

optPgUser ==
    [Stanza EXCEPT !.name = "pg-user", !.type = "string", !.required = FALSE, !.group = "pg",
        !.valid = Valid(Cluster, Never, {"backup"}, Cluster), !.base.depend = <<"pg-path", {}>>]

optProcess ==
    [CommandLine EXCEPT !.name = "process", !.type = "integer", !.required = FALSE,
        !.valid = Valid(Never, Never, Jobs, Remotes), !.base.range = <<0, 1024>>]

optProcessMax ==
    [Global EXCEPT !.name = "process-max", !.type = "integer", !.valid = Valid(Jobs, Archive, Never, Never),
        !.base.default = <<1>>, !.base.range = <<1, 999>>]

optProtocolTimeout ==
    [Global EXCEPT !.name = "protocol-timeout", !.type = "time", !.valid = Valid(Remotes, Archive, Jobs, Remotes),
        !.base.default = <<1830000>>, !.base.range = <<100, 604800000>>]

optRaw ==
    [CommandLine EXCEPT !.name = "raw", !.type = "boolean",
        !.valid = Valid({"repo-get", "repo-put"}, Never, Never, Never), !.base.default = <<FALSE>>]

optRecoveryOption ==
    [Global EXCEPT !.name = "recovery-option", !.type = "hash", !.required = FALSE, !.multi = TRUE,
        !.valid = Valid({"restore"}, Never, Never, Never),
        !.base.depend = <<"type", {"default", "immediate", "lsn", "name", "time", "standby", "xid"}>>]

optRecurse ==
    [CommandLine EXCEPT !.name = "recurse", !.type = "boolean",
        !.valid = Valid({"repo-ls", "repo-rm"}, Never, Never, Never), !.base.default = <<FALSE>>]

optRemoteType ==
    [CommandLine EXCEPT !.name = "remote-type", !.type = "string", !.required = FALSE,
        !.valid = Valid(Never, Never, Jobs, Remotes), !.base.allow = <<{"pg", "repo"}>>]

optRepo ==
    [CommandLine EXCEPT !.name = "repo", !.type = "integer", !.required = FALSE,
        !.valid = Valid(Repositories \ {"archive-push", "check", "stanza-create", "stanza-upgrade"},
            {"archive-get"}, Jobs \ {"archive-push"}, FromRepo),
        !.base.range = <<1, 4>>]

optRepoAzureAccount ==
    [Global EXCEPT !.name = "repo-azure-account", !.type = "string", !.secure = TRUE, !.group = "repo",
        !.valid = Valid(Repositories, Archive, Jobs, FromRepo), !.base.depend = <<"repo-type", {"azure"}>>]

optRepoAzureContainer ==
    [Global EXCEPT !.name = "repo-azure-container", !.type = "string", !.group = "repo",
        !.valid = Valid(Repositories, Archive, Jobs, FromRepo), !.base.depend = <<"repo-type", {"azure"}>>]

optRepoAzureEndpoint ==
    [Global EXCEPT !.name = "repo-azure-endpoint", !.type = "string", !.secure = TRUE, !.group = "repo",
        !.valid = Valid(Repositories, Archive, Jobs, FromRepo), !.base.default = <<"blob.core.windows.net">>,
        !.base.depend = <<"repo-type", {"azure"}>>]

optRepoAzureKey ==
    [Global EXCEPT !.name = "repo-azure-key", !.type = "string", !.secure = TRUE, !.group = "repo",
        !.valid = Valid(Repositories, Archive, Jobs, FromRepo), !.base.depend = <<"repo-type", {"azure"}>>]

optRepoAzureKeyType ==
    [Global EXCEPT !.name = "repo-azure-key-type", !.type = "string", !.group = "repo",
        !.valid = Valid(Repositories, Archive, Jobs, FromRepo), !.base.default = <<"shared">>,
        !.base.allow = <<{"shared", "sas"}>>, !.base.depend = <<"repo-type", {"azure"}>>]

optRepoCipherPass ==
    [Global EXCEPT !.name = "repo-cipher-pass", !.type = "string", !.secure = TRUE, !.group = "repo",
        !.valid = Valid(Repositories, Archive, Jobs, FromRepo),
        !.base.depend = <<"repo-cipher-type", {"aes-256-cbc"}>>]

optRepoCipherType ==
    [Global EXCEPT !.name = "repo-cipher-type", !.type = "string", !.group = "repo",
        !.valid = Valid(Repositories, Archive, Jobs, FromRepo), !.base.default = <<"none">>,
        !.base.allow = <<{"none", "aes-256-cbc"}>>]

optRepoGcsBucket ==
    [Global EXCEPT !.name = "repo-gcs-bucket", !.type = "string", !.group = "repo",
        !.valid = Valid(Repositories, Archive, Jobs, FromRepo), !.base.depend = <<"repo-gcs-key-type", {}>>]

optRepoGcsEndpoint ==
    [Global EXCEPT !.name = "repo-gcs-endpoint", !.type = "string", !.group = "repo",
        !.valid = Valid(Repositories, Archive, Jobs, FromRepo), !.base.default = <<"storage.googleapis.com">>,
        !.base.depend = <<"repo-gcs-key-type", {}>>]

optRepoGcsKey ==
    [Global EXCEPT !.name = "repo-gcs-key", !.type = "string", !.secure = TRUE, !.group = "repo",
        !.valid = Valid(Repositories, Archive, Jobs, FromRepo),
        !.base.depend = <<"repo-gcs-key-type", {"service", "token"}>>]

optRepoGcsKeyType ==
    [Global EXCEPT !.name = "repo-gcs-key-type", !.type = "string", !.group = "repo",
        !.valid = Valid(Repositories, Archive, Jobs, FromRepo), !.base.default = <<"service">>,
        !.base.allow = <<{"auto", "service", "token"}>>, !.base.depend = <<"repo-type", {"gcs"}>>]

optRepoHardlink ==
    [Global EXCEPT !.name = "repo-hardlink", !.type = "boolean", !.group = "repo",
        !.valid = Valid({"backup"}, Never, Never, Never), !.base.default = <<FALSE>>]

optRepoHost ==
    [Global EXCEPT !.name = "repo-host", !.type = "string", !.required = FALSE, !.group = "repo",
        !.valid = Valid(Repositories, Archive, Jobs, Never), !.base.depend = <<"repo-local", {FALSE}>>]

optRepoHostCmd ==
    [Global EXCEPT !.name = "repo-host-cmd", !.type = "string", !.required = FALSE, !.group = "repo",
        !.valid = Valid(FromRepo, Archive, Jobs \ {"backup"}, Never), !.base.depend = <<"repo-host", {}>>]

optRepoHostConfig ==
    [Global EXCEPT !.name = "repo-host-config", !.type = "string", !.group = "repo",
        !.valid = Valid(FromRepo, Archive, Jobs \ {"backup"}, Never),
        !.base.default = <<"/etc/pgbackrest/pgbackrest.conf">>, !.base.depend = <<"repo-host", {}>>]

optRepoHostConfigIncludePath ==
    [Global EXCEPT !.name = "repo-host-config-include-path", !.type = "path", !.group = "repo",
        !.valid = Valid(FromRepo, Archive, Jobs \ {"backup"}, Never), !.base.default = <<"/etc/pgbackrest/conf.d">>,
        !.base.depend = <<"repo-host", {}>>]

optRepoHostConfigPath ==
    [Global EXCEPT !.name = "repo-host-config-path", !.type = "path", !.group = "repo",
        !.valid = Valid(FromRepo, Archive, Jobs \ {"backup"}, Never), !.base.default = <<"/etc/pgbackrest">>,
        !.base.depend = <<"repo-host", {}>>]

optRepoHostPort ==
    [Global EXCEPT !.name = "repo-host-port", !.type = "integer", !.required = FALSE, !.group = "repo",
        !.valid = Valid(FromRepo, Archive, Jobs \ {"backup"}, Never), !.base.range = <<0, 65535>>,
        !.base.depend = <<"repo-host", {}>>]

optRepoHostUser ==
    [Global EXCEPT !.name = "repo-host-user", !.type = "string", !.required = FALSE, !.group = "repo",
        !.valid = Valid(FromRepo, Archive, Jobs \ {"backup"}, Never), !.base.default = <<"pgbackrest">>,
        !.base.depend = <<"repo-host", {}>>]

optRepoLocal ==
    [Global EXCEPT !.name = "repo-local", !.type = "boolean", !.group = "repo",
        !.valid = Valid(Repositories, Archive, Jobs, Never), !.base.default = <<FALSE>>]

optRepoPath ==
    [Global EXCEPT !.name = "repo-path", !.type = "path", !.group = "repo",
        !.valid = Valid(Repositories, Archive, Jobs, FromRepo), !.base.default = <<"/var/lib/pgbackrest">>]

optRepoRetentionArchive ==
    [Global EXCEPT !.name = "repo-retention-archive", !.type = "integer", !.required = FALSE, !.group = "repo",
        !.valid = Valid({"backup", "expire"}, Never, Never, Never), !.base.range = <<1, 9999999>>]

optRepoRetentionArchiveType ==
    [Global EXCEPT !.name = "repo-retention-archive-type", !.type = "string", !.group = "repo",
        !.valid = Valid({"backup", "expire"}, Never, Never, Never), !.base.default = <<"full">>,
        !.base.allow = <<{"full", "diff", "incr"}>>]

optRepoRetentionDiff ==
    [Global EXCEPT !.name = "repo-retention-diff", !.type = "integer", !.required = FALSE, !.group = "repo",
        !.valid = Valid({"backup", "expire"}, Never, Never, Never), !.base.range = <<1, 9999999>>]

optRepoRetentionFull ==
    [Global EXCEPT !.name = "repo-retention-full", !.type = "integer", !.required = FALSE, !.group = "repo",
        !.valid = Valid({"backup", "expire"}, Never, Never, Never), !.base.range = <<1, 9999999>>]

optRepoRetentionFullType ==
    [Global EXCEPT !.name = "repo-retention-full-type", !.type = "string", !.group = "repo",
        !.valid = Valid({"backup", "expire"}, Never, Never, Never), !.base.default = <<"count">>,
        !.base.allow = <<{"count", "time"}>>]

optRepoRetentionHistory ==
    [Global EXCEPT !.name = "repo-retention-history", !.type = "integer", !.required = FALSE, !.group = "repo",
        !.valid = Valid({"backup", "expire"}, Never, Never, Never), !.base.range = <<0, 9999999>>]

optRepoS3Bucket ==
    [Global EXCEPT !.name = "repo-s3-bucket", !.type = "string", !.group = "repo",
        !.valid = Valid(Repositories, Archive, Jobs, FromRepo), !.base.depend = <<"repo-type", {"s3"}>>]

optRepoS3Endpoint ==
    [Global EXCEPT !.name = "repo-s3-endpoint", !.type = "string", !.group = "repo",
        !.valid = Valid(Repositories, Archive, Jobs, FromRepo), !.base.depend = <<"repo-type", {"s3"}>>]

optRepoS3Key ==
    [Global EXCEPT !.name = "repo-s3-key", !.type = "string", !.secure = TRUE, !.group = "repo",
        !.valid = Valid(Repositories, Archive, Jobs, FromRepo), !.base.depend = <<"repo-s3-key-type", {"shared"}>>]

optRepoS3KeySecret ==
    [Global EXCEPT !.name = "repo-s3-key-secret", !.type = "string", !.secure = TRUE, !.group = "repo",
        !.valid = Valid(Repositories, Archive, Jobs, FromRepo), !.base.depend = <<"repo-s3-key-type", {"shared"}>>]

optRepoS3KeyType ==
    [Global EXCEPT !.name = "repo-s3-key-type", !.type = "string", !.group = "repo",
        !.valid = Valid(Repositories, Archive, Jobs, FromRepo), !.base.default = <<"shared">>,
        !.base.allow = <<{"shared", "auto"}>>, !.base.depend = <<"repo-type", {"s3"}>>]

optRepoS3Region ==
    [Global EXCEPT !.name = "repo-s3-region", !.type = "string", !.group = "repo",
        !.valid = Valid(Repositories, Archive, Jobs, FromRepo), !.base.depend = <<"repo-type", {"s3"}>>]

optRepoS3Role ==
    [Global EXCEPT !.name = "repo-s3-role", !.type = "string", !.required = FALSE, !.group = "repo",
        !.valid = Valid(Repositories, Archive, Jobs, FromRepo), !.base.depend = <<"repo-s3-key-type", {"auto"}>>]

optRepoS3Token ==
    [Global EXCEPT !.name = "repo-s3-token", !.type = "string", !.required = FALSE, !.secure = TRUE, !.group = "repo",
        !.valid = Valid(Repositories, Archive, Jobs, FromRepo), !.base.depend = <<"repo-s3-key-type", {"shared"}>>]

optRepoS3UriStyle ==
    [Global EXCEPT !.name = "repo-s3-uri-style", !.type = "string", !.group = "repo",
        !.valid = Valid(Repositories, Archive, Jobs, FromRepo), !.base.default = <<"host">>,
        !.base.allow = <<{"host", "path"}>>, !.base.depend = <<"repo-type", {"s3"}>>]

optRepoStorageCaFile ==
    [Global EXCEPT !.name = "repo-storage-ca-file", !.type = "string", !.required = FALSE, !.group = "repo",
        !.valid = Valid(Repositories, Archive, Jobs, FromRepo),
        !.base.depend = <<"repo-type", {"azure", "gcs", "s3"}>>]

optRepoStorageCaPath ==
    [Global EXCEPT !.name = "repo-storage-ca-path", !.type = "path", !.required = FALSE, !.group = "repo",
        !.valid = Valid(Repositories, Archive, Jobs, FromRepo),
        !.base.depend = <<"repo-type", {"azure", "gcs", "s3"}>>]

optRepoStorageHost ==
    [Global EXCEPT !.name = "repo-storage-host", !.type = "string", !.required = FALSE, !.group = "repo",
        !.valid = Valid(Repositories, Archive, Jobs, FromRepo), !.base.depend = <<"repo-type", {"azure", "s3"}>>]

optRepoStoragePort ==
    [Global EXCEPT !.name = "repo-storage-port", !.type = "integer", !.group = "repo",
        !.valid = Valid(Repositories, Archive, Jobs, FromRepo), !.base.default = <<443>>, !.base.range = <<1, 65535>>,
        !.base.depend = <<"repo-type", {"azure", "s3"}>>]

optRepoStorageVerifyTls ==
    [Global EXCEPT !.name = "repo-storage-verify-tls", !.type = "boolean", !.group = "repo",
        !.valid = Valid(Repositories, Archive, Jobs, FromRepo), !.base.default = <<TRUE>>,
        !.base.depend = <<"repo-type", {"azure", "gcs", "s3"}>>]

optRepoType ==
    [Global EXCEPT !.name = "repo-type", !.type = "string", !.group = "repo",
        !.valid = Valid(Repositories, Archive, Jobs, FromRepo), !.base.default = <<"posix">>,
        !.base.allow = <<{"azure", "cifs", "gcs", "posix", "s3"}>>]

optResume ==
    [Global EXCEPT !.name = "resume", !.type = "boolean", !.valid = Valid({"backup"}, Never, Never, Never),
        !.base.default = <<TRUE>>]

optSckBlock ==
    [Global EXCEPT !.name = "sck-block", !.type = "boolean", !.valid = Valid(Repositories, Archive, Jobs, Remotes),
        !.base.default = <<FALSE>>]

optSckKeepAlive ==
    [Global EXCEPT !.name = "sck-keep-alive", !.type = "boolean",
        !.valid = Valid(Repositories, Archive, Jobs, Remotes), !.base.default = <<TRUE>>]

optSet ==
    [CommandLine EXCEPT !.name = "set", !.type = "string",
        !.valid = Valid({"expire", "info", "restore", "verify"}, Never, Never, Never),
        !.over = Override({"expire", "verify"}, [NoRule EXCEPT !.required = <<FALSE>>])
        @@ Override({"info"}, [NoRule EXCEPT !.depend = <<"stanza", {}>>, !.required = <<FALSE>>])
        @@ Override({"restore"}, [NoRule EXCEPT !.default = <<"latest">>])]

optSort ==
    [CommandLine EXCEPT !.name = "sort", !.type = "string", !.valid = Valid({"repo-ls"}, Never, Never, Never),
        !.base.default = <<"asc">>, !.base.allow = <<{"none", "asc", "desc"}>>]

optSpoolPath ==
    [Global EXCEPT !.name = "spool-path", !.type = "path",
        !.valid = Valid(Archive \cup {"restore"}, Archive, Archive \cup {"restore"}, Never),
        !.base.default = <<"/var/spool/pgbackrest">>,
        !.over = Override({"archive-get", "archive-push"}, [NoRule EXCEPT !.depend = <<"archive-async", {TRUE}>>])]

optStanza ==
    [CommandLine EXCEPT !.name = "stanza", !.type = "string", !.valid = Valid(Stoppable, Archive, Jobs, Remotes),
        !.over = Override({"info", "repo-create", "repo-get", "repo-ls", "repo-put", "repo-rm", "start", "stop"},
            [NoRule EXCEPT !.required = <<FALSE>>])]

optStartFast ==
    [Global EXCEPT !.name = "start-fast", !.type = "boolean", !.valid = Valid({"backup"}, Never, Never, Never),
        !.base.default = <<FALSE>>]

optStopAuto ==
    [Global EXCEPT !.name = "stop-auto", !.type = "boolean", !.valid = Valid({"backup"}, Never, Never, Never),
        !.base.default = <<FALSE>>]

optTablespaceMap ==
    [Global EXCEPT !.name = "tablespace-map", !.type = "hash", !.required = FALSE, !.multi = TRUE,
        !.valid = Valid({"restore"}, Never, Never, Never)]

optTablespaceMapAll ==
    [Global EXCEPT !.name = "tablespace-map-all", !.type = "string", !.required = FALSE,
        !.valid = Valid({"restore"}, Never, Never, Never)]

optTarget ==
    [CommandLine EXCEPT !.name = "target", !.type = "string", !.valid = Valid({"restore"}, Never, Never, Never),
        !.over = Override({"restore"}, [NoRule EXCEPT !.depend = <<"type", {"lsn", "name", "time", "xid"}>>])]

optTargetAction ==
    [CommandLine EXCEPT !.name = "target-action", !.type = "string", !.valid = Valid({"restore"}, Never, Never, Never),
        !.over = Override({"restore"}, [NoRule EXCEPT !.default = <<"pause">>, !.allow = <<{"pause", "promote",
            "shutdown"}>>, !.depend = <<"type", {"immediate", "lsn", "name", "time", "xid"}>>])]

optTargetExclusive ==
    [CommandLine EXCEPT !.name = "target-exclusive", !.type = "boolean",
        !.valid = Valid({"restore"}, Never, Never, Never),
        !.over = Override({"restore"}, [NoRule EXCEPT !.default = <<FALSE>>, !.depend = <<"type", {"lsn", "time",
            "xid"}>>])]

optTargetTimeline ==
    [CommandLine EXCEPT !.name = "target-timeline", !.type = "string", !.valid = Valid({"restore"}, Never, Never, Never),
        !.over = Override({"restore"}, [NoRule EXCEPT !.depend = <<"type", {"default", "lsn", "name", "standby",
            "time", "xid"}>>, !.required = <<FALSE>>])]

optTcpKeepAliveCount ==
    [Global EXCEPT !.name = "tcp-keep-alive-count", !.type = "integer", !.required = FALSE,
        !.valid = Valid(Repositories, Archive, Jobs, Remotes), !.base.range = <<1, 32>>,
        !.base.depend = <<"sck-keep-alive", {TRUE}>>]

optTcpKeepAliveIdle ==
    [Global EXCEPT !.name = "tcp-keep-alive-idle", !.type = "integer", !.required = FALSE,
        !.valid = Valid(Repositories, Archive, Jobs, Remotes), !.base.range = <<1, 3600>>,
        !.base.depend = <<"sck-keep-alive", {TRUE}>>]

optTcpKeepAliveInterval ==
    [Global EXCEPT !.name = "tcp-keep-alive-interval", !.type = "integer", !.required = FALSE,
        !.valid = Valid(Repositories, Archive, Jobs, Remotes), !.base.range = <<1, 900>>,
        !.base.depend = <<"sck-keep-alive", {TRUE}>>]

optType ==
    [CommandLine EXCEPT !.name = "type", !.type = "string", !.valid = Valid({"backup", "restore"}, Never, Never, Never),
        !.over = Override({"backup"}, [NoRule EXCEPT !.default = <<"incr">>, !.allow = <<{"full", "diff", "incr"}>>])
        @@ Override({"restore"}, [NoRule EXCEPT !.default = <<"default">>, !.allow = <<{"lsn", "name", "time",
            "xid", "preserve", "none", "immediate", "default", "standby"}>>])]

(* The rules in the order of the table *)
parseRuleOption ==
    <<optArchiveAsync, optArchiveCheck, optArchiveCopy, optArchiveGetQueueMax, optArchiveHeaderCheck,
      optArchiveMode, optArchiveModeCheck, optArchivePushQueueMax, optArchiveTimeout, optBackupStandby,
      optBufferSize, optChecksumPage, optCipherPass, optCmdSsh, optCompress, optCompressLevel,
      optCompressLevelNetwork, optCompressType, optConfig, optConfigIncludePath, optConfigPath, optDbExclude,
      optDbInclude, optDbTimeout, optDelta, optDryRun, optExclude, optExecId, optExpireAuto, optFilter, optForce,
      optIgnoreMissing, optIoTimeout, optJobRetry, optJobRetryInterval, optLinkAll, optLinkMap, optLockPath,
      optLogLevelConsole, optLogLevelFile, optLogLevelStderr, optLogPath, optLogSubprocess, optLogTimestamp,
      optManifestSaveThreshold, optNeutralUmask, optOnline, optOutput, optPg, optPgDatabase, optPgHost,
      optPgHostCmd, optPgHostConfig, optPgHostConfigIncludePath, optPgHostConfigPath, optPgHostPort,
      optPgHostUser, optPgLocal, optPgPath, optPgPort, optPgSocketPath, optPgUser, optProcess, optProcessMax,
      optProtocolTimeout, optRaw, optRecoveryOption, optRecurse, optRemoteType, optRepo, optRepoAzureAccount,
      optRepoAzureContainer, optRepoAzureEndpoint, optRepoAzureKey, optRepoAzureKeyType, optRepoCipherPass,
      optRepoCipherType, optRepoGcsBucket, optRepoGcsEndpoint, optRepoGcsKey, optRepoGcsKeyType, optRepoHardlink,
      optRepoHost, optRepoHostCmd, optRepoHostConfig, optRepoHostConfigIncludePath, optRepoHostConfigPath,
      optRepoHostPort, optRepoHostUser, optRepoLocal, optRepoPath, optRepoRetentionArchive,
      optRepoRetentionArchiveType, optRepoRetentionDiff, optRepoRetentionFull, optRepoRetentionFullType,
      optRepoRetentionHistory, optRepoS3Bucket, optRepoS3Endpoint, optRepoS3Key, optRepoS3KeySecret,
      optRepoS3KeyType, optRepoS3Region, optRepoS3Role, optRepoS3Token, optRepoS3UriStyle, optRepoStorageCaFile,
      optRepoStorageCaPath, optRepoStorageHost, optRepoStoragePort, optRepoStorageVerifyTls, optRepoType,
      optResume, optSckBlock, optSckKeepAlive, optSet, optSort, optSpoolPath, optStanza, optStartFast,
      optStopAuto, optTablespaceMap, optTablespaceMapAll, optTarget, optTargetAction, optTargetExclusive,
      optTargetTimeline, optTcpKeepAliveCount, optTcpKeepAliveIdle, optTcpKeepAliveInterval, optType>>

OptionRule == [n \in {parseRuleOption[i].name : i \in DOMAIN parseRuleOption} |->
                 parseRuleOption[CHOOSE i \in DOMAIN parseRuleOption : parseRuleOption[i].name = n]]
RuleOptions == DOMAIN OptionRule

optionResolveOrder ==
    <<"stanza", "archive-async", "archive-get-queue-max", "archive-header-check", "archive-mode",
      "archive-push-queue-max", "archive-timeout", "backup-standby", "buffer-size", "checksum-page",
      "cipher-pass", "cmd-ssh", "compress", "compress-level", "compress-level-network", "compress-type",
      "config", "config-include-path", "config-path", "db-exclude", "db-include", "db-timeout", "delta",
      "dry-run", "exclude", "exec-id", "expire-auto", "filter", "ignore-missing", "io-timeout", "job-retry",
      "job-retry-interval", "link-all", "link-map", "lock-path", "log-level-console", "log-level-file",
      "log-level-stderr", "log-path", "log-subprocess", "log-timestamp", "manifest-save-threshold",
      "neutral-umask", "online", "output", "pg", "pg-local", "pg-path", "pg-port", "pg-socket-path", "pg-user",
      "process", "process-max", "protocol-timeout", "raw", "recurse", "remote-type", "repo", "repo-cipher-type",
      "repo-hardlink", "repo-local", "repo-path", "repo-retention-archive", "repo-retention-archive-type",
      "repo-retention-diff", "repo-retention-full", "repo-retention-full-type", "repo-retention-history",
      "repo-type", "resume", "sck-block", "sck-keep-alive", "set", "sort", "spool-path", "start-fast",
      "stop-auto", "tablespace-map", "tablespace-map-all", "tcp-keep-alive-count", "tcp-keep-alive-idle",
      "tcp-keep-alive-interval", "type", "archive-check", "archive-copy", "archive-mode-check", "force",
      "pg-database", "pg-host", "pg-host-cmd", "pg-host-config", "pg-host-config-include-path",
      "pg-host-config-path", "pg-host-port", "pg-host-user", "recovery-option", "repo-azure-account",
      "repo-azure-container", "repo-azure-endpoint", "repo-azure-key", "repo-azure-key-type", "repo-cipher-pass",
      "repo-gcs-key-type", "repo-host", "repo-host-cmd", "repo-host-config", "repo-host-config-include-path",
      "repo-host-config-path", "repo-host-port", "repo-host-user", "repo-s3-bucket", "repo-s3-endpoint",
      "repo-s3-key-type", "repo-s3-region", "repo-s3-role", "repo-s3-token", "repo-s3-uri-style",
      "repo-storage-ca-file", "repo-storage-ca-path", "repo-storage-host", "repo-storage-port",
      "repo-storage-verify-tls", "target", "target-action", "target-exclusive", "target-timeline",
      "repo-gcs-bucket", "repo-gcs-endpoint", "repo-gcs-key", "repo-s3-key", "repo-s3-key-secret">>
=============================================================================
