---------------------------- MODULE ConfigNames -----------------------------
(***************************************************************************)
(* optionList of src/config/parse.auto.c: what a name on the command line  *)
(* or in a file means, the names of earlier versions included; key 0 is    *)
(* the first key of a group.                                               *)
(***************************************************************************)
EXTENDS Naturals, Sequences, TLC

KeyMax == [pg |-> 8, repo |-> 4]

Meanings(option, word, key, prefixes) ==
    {[name |-> p \o word, option |-> option, key |-> key, negate |-> p = "no-", reset |-> p = "reset-"] :
        p \in {""} \cup prefixes}

Named(option, prefixes) == Meanings(option, option, 0, prefixes)

Indexed(group, tail, prefixes) ==
    UNION {Meanings(group \o tail, group \o ToString(k + 1) \o tail, k, prefixes) : k \in 0 .. KeyMax[group] - 1}
NamesPg(tail, prefixes) == Indexed("pg", tail, prefixes)
NamesRepo(tail, prefixes) == Indexed("repo", tail, prefixes)

\* Names of earlier versions
OldName(option, word, prefixes) == Meanings(option, word, 0, prefixes)
NamesDb(option, tail) ==
    OldName(option, "db" \o tail, {})
    \cup UNION {Meanings(option, "db" \o ToString(k + 1) \o tail, k, {}) : k \in 0 .. KeyMax["pg"] - 1}

\* A run of the options of the list, from the one the definition is named for

fromArchiveAsync ==
    UNION {Named("archive-async", {"no-", "reset-"}), Named("archive-check", {"no-", "reset-"}),
           Named("archive-copy", {"no-", "reset-"}), Named("archive-get-queue-max", {"reset-"}),
           Named("archive-header-check", {"no-", "reset-"}), Named("archive-mode", {"reset-"}),
           Named("archive-mode-check", {"no-", "reset-"}), Named("archive-push-queue-max", {"reset-"}),
           OldName("archive-push-queue-max", "archive-queue-max", {"reset-"}),
           Named("archive-timeout", {"reset-"}), Named("backup-standby", {"no-", "reset-"})}

fromBufferSize ==
    UNION {Named("buffer-size", {"reset-"}), Named("checksum-page", {"no-", "reset-"}),
           Named("cipher-pass", {}), Named("cmd-ssh", {"reset-"}), Named("compress", {"no-", "reset-"}),
           Named("compress-level", {"reset-"}), Named("compress-level-network", {"reset-"}),
           Named("compress-type", {"reset-"}), Named("config", {"no-"}), Named("config-include-path", {}),
           Named("config-path", {}), Named("db-exclude", {"reset-"}), Named("db-include", {"reset-"})}

fromDbTimeout ==
    UNION {Named("db-timeout", {"reset-"}), Named("delta", {"no-", "reset-"}), Named("dry-run", {}),
           Named("exclude", {"reset-"}), Named("exec-id", {}), Named("expire-auto", {"no-", "reset-"}),
           Named("filter", {}), Named("force", {}), Named("ignore-missing", {}),
           Named("io-timeout", {"reset-"}), Named("job-retry", {"reset-"}),
           Named("job-retry-interval", {"reset-"}), Named("link-all", {"no-", "reset-"})}

fromLinkMap ==
    UNION {Named("link-map", {"reset-"}), Named("lock-path", {"reset-"}),
           Named("log-level-console", {"reset-"}), Named("log-level-file", {"reset-"}),
           Named("log-level-stderr", {"reset-"}), Named("log-path", {"reset-"}),
           Named("log-subprocess", {"no-", "reset-"}), Named("log-timestamp", {"no-", "reset-"}),
           Named("manifest-save-threshold", {"reset-"}), Named("neutral-umask", {"no-", "reset-"}),
           Named("online", {"no-"}), Named("output", {})}

fromPg ==
    UNION {Named("pg", {}), NamesPg("-database", {"reset-"})}

fromPgHost ==
    UNION {NamesPg("-host", {"reset-"}), NamesDb("pg-host", "-host")}

fromPgHostCmd ==
    UNION {NamesPg("-host-cmd", {"reset-"}), NamesDb("pg-host-cmd", "-cmd")}

fromPgHostConfig ==
    UNION {NamesPg("-host-config", {"reset-"}), NamesDb("pg-host-config", "-config")}

fromPgHostConfigIncludePath ==
    UNION {NamesPg("-host-config-include-path", {"reset-"}), NamesPg("-host-config-path", {"reset-"})}

fromPgHostPort ==
    UNION {NamesPg("-host-port", {"reset-"}), NamesDb("pg-host-port", "-ssh-port")}

fromPgHostUser ==
    UNION {NamesPg("-host-user", {"reset-"}), NamesDb("pg-host-user", "-user")}

fromPgLocal ==
    UNION {NamesPg("-local", {"no-", "reset-"})}

fromPgPath ==
    UNION {NamesPg("-path", {"reset-"}), NamesDb("pg-path", "-path")}

fromPgPort ==
    UNION {NamesPg("-port", {"reset-"}), NamesDb("pg-port", "-port")}

fromPgSocketPath ==
    UNION {NamesPg("-socket-path", {"reset-"}), NamesDb("pg-socket-path", "-socket-path")}

fromPgUser ==
    UNION {NamesPg("-user", {"reset-"}), Named("process", {}), Named("process-max", {"reset-"}),
           Named("protocol-timeout", {"reset-"}), Named("raw", {}), Named("recovery-option", {"reset-"}),
           Named("recurse", {}), Named("remote-type", {}), Named("repo", {})}

fromRepoAzureAccount ==
    UNION {NamesRepo("-azure-account", {"reset-"}), NamesRepo("-azure-container", {"reset-"}),
           NamesRepo("-azure-endpoint", {"reset-"})}

fromRepoAzureKey ==
    UNION {NamesRepo("-azure-key", {"reset-"}), NamesRepo("-azure-key-type", {"reset-"}),
           NamesRepo("-cipher-pass", {"reset-"}), OldName("repo-cipher-pass", "repo-cipher-pass", {})}

fromRepoCipherType ==
    UNION {NamesRepo("-cipher-type", {"reset-"}), OldName("repo-cipher-type", "repo-cipher-type", {}),
           NamesRepo("-gcs-bucket", {"reset-"}), NamesRepo("-gcs-endpoint", {"reset-"})}

fromRepoGcsKey ==
    UNION {NamesRepo("-gcs-key", {"reset-"}), NamesRepo("-gcs-key-type", {"reset-"}),
           NamesRepo("-hardlink", {"no-", "reset-"}), OldName("repo-hardlink", "hardlink", {"no-"})}

fromRepoHost ==
    UNION {NamesRepo("-host", {"reset-"}), OldName("repo-host", "backup-host", {}),
           NamesRepo("-host-cmd", {"reset-"}), OldName("repo-host-cmd", "backup-cmd", {}),
           NamesRepo("-host-config", {"reset-"}), OldName("repo-host-config", "backup-config", {})}

fromRepoHostConfigIncludePath ==
    UNION {NamesRepo("-host-config-include-path", {"reset-"}), NamesRepo("-host-config-path", {"reset-"}),
           NamesRepo("-host-port", {"reset-"}), OldName("repo-host-port", "backup-ssh-port", {})}

fromRepoHostUser ==
    UNION {NamesRepo("-host-user", {"reset-"}), OldName("repo-host-user", "backup-user", {}),
           NamesRepo("-local", {"no-", "reset-"}), NamesRepo("-path", {"reset-"}),
           OldName("repo-path", "repo-path", {})}

fromRepoRetentionArchive ==
    UNION {NamesRepo("-retention-archive", {"reset-"}),
           OldName("repo-retention-archive", "retention-archive", {}),
           NamesRepo("-retention-archive-type", {"reset-"}),
           OldName("repo-retention-archive-type", "retention-archive-type", {}),
           NamesRepo("-retention-diff", {"reset-"}), OldName("repo-retention-diff", "retention-diff", {})}

fromRepoRetentionFull ==
    UNION {NamesRepo("-retention-full", {"reset-"}), OldName("repo-retention-full", "retention-full", {}),
           NamesRepo("-retention-full-type", {"reset-"}), NamesRepo("-retention-history", {"reset-"})}

fromRepoS3Bucket ==
    UNION {NamesRepo("-s3-bucket", {"reset-"}), OldName("repo-s3-bucket", "repo-s3-bucket", {}),
           NamesRepo("-s3-endpoint", {"reset-"}), OldName("repo-s3-endpoint", "repo-s3-endpoint", {}),
           NamesRepo("-s3-key", {"reset-"}), OldName("repo-s3-key", "repo-s3-key", {})}

fromRepoS3KeySecret ==
    UNION {NamesRepo("-s3-key-secret", {"reset-"}), OldName("repo-s3-key-secret", "repo-s3-key-secret", {}),
           NamesRepo("-s3-key-type", {"reset-"}), NamesRepo("-s3-region", {"reset-"}),
           OldName("repo-s3-region", "repo-s3-region", {})}

fromRepoS3Role ==
    UNION {NamesRepo("-s3-role", {"reset-"}), NamesRepo("-s3-token", {"reset-"}),
           NamesRepo("-s3-uri-style", {"reset-"})}

fromRepoStorageCaFile ==
    UNION {NamesRepo("-storage-ca-file", {"reset-"}), OldName("repo-storage-ca-file", "repo-s3-ca-file", {}),
           OldName("repo-storage-ca-file", "repo1-azure-ca-file", {"reset-"}),
           OldName("repo-storage-ca-file", "repo1-s3-ca-file", {"reset-"}),
           NamesRepo("-storage-ca-path", {"reset-"}), OldName("repo-storage-ca-path", "repo-s3-ca-path", {}),
           OldName("repo-storage-ca-path", "repo1-azure-ca-path", {"reset-"}),
           OldName("repo-storage-ca-path", "repo1-s3-ca-path", {"reset-"})}

fromRepoStorageHost ==
    UNION {NamesRepo("-storage-host", {"reset-"}), OldName("repo-storage-host", "repo-s3-host", {}),
           OldName("repo-storage-host", "repo1-azure-host", {"reset-"}),
           OldName("repo-storage-host", "repo1-s3-host", {"reset-"}), NamesRepo("-storage-port", {"reset-"}),
           OldName("repo-storage-port", "repo1-azure-port", {"reset-"}),
           OldName("repo-storage-port", "repo1-s3-port", {"reset-"})}

fromRepoStorageVerifyTls ==
    UNION {NamesRepo("-storage-verify-tls", {"no-", "reset-"}),
           OldName("repo-storage-verify-tls", "repo-s3-verify-ssl", {"no-"}),
           OldName("repo-storage-verify-tls", "repo1-azure-verify-tls", {"no-", "reset-"}),
           OldName("repo-storage-verify-tls", "repo1-s3-verify-ssl", {"no-"}),
           OldName("repo-storage-verify-tls", "repo1-s3-verify-tls", {"no-", "reset-"}),
           NamesRepo("-type", {"reset-"}), OldName("repo-type", "repo-type", {}),
           Named("resume", {"no-", "reset-"})}

fromSckBlock ==
    UNION {Named("sck-block", {"no-", "reset-"}), Named("sck-keep-alive", {"no-", "reset-"}),
           Named("set", {}), Named("sort", {}), Named("spool-path", {"reset-"}), Named("stanza", {}),
           Named("start-fast", {"no-", "reset-"}), Named("stop-auto", {"no-", "reset-"}),
           Named("tablespace-map", {"reset-"}), Named("tablespace-map-all", {"reset-"}), Named("target", {}),
           Named("target-action", {}), Named("target-exclusive", {}), Named("target-timeline", {})}

fromTcpKeepAliveCount ==
    UNION {Named("tcp-keep-alive-count", {"reset-"}), Named("tcp-keep-alive-idle", {"reset-"}),
           Named("tcp-keep-alive-interval", {"reset-"}), Named("type", {})}

optionList ==
    UNION {fromArchiveAsync, fromBufferSize, fromDbTimeout, fromLinkMap, fromPg, fromPgHost,
           fromPgHostCmd, fromPgHostConfig, fromPgHostConfigIncludePath, fromPgHostPort, fromPgHostUser,
           fromPgLocal, fromPgPath, fromPgPort, fromPgSocketPath, fromPgUser, fromRepoAzureAccount,
           fromRepoAzureKey, fromRepoCipherType, fromRepoGcsKey, fromRepoHost,
           fromRepoHostConfigIncludePath, fromRepoHostUser, fromRepoRetentionArchive,
           fromRepoRetentionFull, fromRepoS3Bucket, fromRepoS3KeySecret, fromRepoS3Role,
           fromRepoStorageCaFile, fromRepoStorageHost, fromRepoStorageVerifyTls, fromSckBlock,
           fromTcpKeepAliveCount}

OptionNames == [w \in {e.name : e \in optionList} |-> CHOOSE e \in optionList : e.name = w]
=============================================================================
