------------------------------ MODULE MCVerify -------------------------------
(***************************************************************************)
(* The repositories verify meets: three backups of two files with damage   *)
(* of every kind, or with a backup or an expire that runs meanwhile; and   *)
(* the restores of a backup into a data directory.  A behaviour is one of  *)
(* the part chosen at first.                                               *)
(***************************************************************************)
EXTENDS Verify, Restore

VARIABLE part

vars == <<part, verifyVars, restoreVars>>

-----------------------------------------------------------------------------
(* Verify *)

\* Which backup holds each file: an incremental one refers to an older one
Holders == {[i \in 1 .. 3 |-> IF i = 1 THEN [f \in VFiles |-> 1]
                              ELSE IF i = 2 THEN [f \in VFiles |-> IF f \in new[1] THEN 2 ELSE 1]
                              ELSE [f \in VFiles |-> IF f \in new[2] THEN 3 ELSE IF f \in new[1] THEN 2 ELSE 1]] :
               new \in (SUBSET VFiles) \X (SUBSET VFiles)}
AllGood == [i \in 1 .. 3 |-> [f \in VFiles |-> "good"]]
Damage == {AllGood} \cup {[AllGood EXCEPT ![b][f] = c] : b \in 1 .. 3, f \in VFiles, c \in {"bad", "fail"}}
WalFile(tl, major, minor, hash, content) ==
    [segment |-> [tl |-> tl, major |-> major, minor |-> minor], hash |-> hash, content |-> content]
Good == [i \in 1 .. 3 |-> [main |-> "ok", copy |-> "ok"]]
HInfo == [main |-> "h", copy |-> "h"]
Base == [holder |-> 0, content |-> AllGood, manifest |-> Good, kind |-> [i \in 1 .. 3 |-> "full"],
         dir |-> 1 .. 3, info |-> 1 .. 3, next |-> 0, expire |-> <<>>, history |-> {1, 2}, version |-> 93,
         wal |-> <<>>, backupInfo |-> HInfo, archiveInfo |-> HInfo, sound |-> FALSE]
Exp(what, id) == [what |-> what, id |-> id]
\* damaged files and every way the backups may share them
Damaged == {[Base EXCEPT !.holder = h, !.content = c, !.sound = c = AllGood] : h \in Holders, c \in Damage}
\* a backup starts or completes meanwhile
Running == {[Base EXCEPT !.holder = h, !.next = 3, !.dir = d, !.info = 1 .. 2, !.sound = TRUE,
                         !.manifest[3] = [main |-> "none", copy |-> IF 3 \in d THEN "ok" ELSE "none"],
                         !.content[3] = [f \in VFiles |-> "gone"]] :
               h \in Holders, d \in {1 .. 2, 1 .. 3}}
\* expire removes the backups 2 and 1 meanwhile
Expiring == {[Base EXCEPT !.holder = h, !.expire = <<Exp("main", 2), Exp("copy", 2), Exp("main", 1), Exp("copy", 1),
                                                     Exp("path", 2), Exp("path", 1)>>] :
               h \in {k \in Holders : \A f \in VFiles : k[3][f] = 3}}
\* manifests that are missing, damaged, empty or of another cluster
Manifests == {[Base EXCEPT !.holder = h, !.manifest[2] = [main |-> m, copy |-> c], !.kind[3] = k[1], !.info = 1 .. k[2], !.content[2] = d] :
               h \in {x \in Holders : x[2] # x[1]}, m, c \in {"ok", "bad", "none"},
               k \in {<<"full", 2>>, <<"full", 3>>, <<"empty", 3>>, <<"foreign", 2>>}, d \in [VFiles -> {"good", "bad"}]}
\* archives
Archives == {[Base EXCEPT !.holder = h, !.dir = d, !.version = v, !.history = t, !.expire = e,
                          !.wal = 1 :> {WalFile(1, 0, 2, 1, "good"), WalFile(1, 0, 3, 1, c), WalFile(1, 1, 0, 1, "good"),
                                        WalFile(1, 1, 0, 2, "good"), WalFile(1, 1, 2, 1, "good")}
                                  @@ 2 :> w] :
               h \in {x \in Holders : x[3] = x[1]}, d \in {{}, {1}}, v \in {92, 93}, t \in {{1}, {1, 2}},
               c \in {"good", "bad", "fail"}, e \in {<<>>, <<Exp("wal", 1), Exp("wal", 2)>>},
               w \in {{}, {WalFile(1, 0, 0, 1, "bad"), WalFile(2, 0, 1, 1, "good")}}}
\* info files
Infos == {[Base EXCEPT !.holder = h, !.dir = {}, !.backupInfo = b, !.archiveInfo = a] :
               h \in {x \in Holders : x[3] = x[1]}, b, a \in [main : {"h", "h2", "bad"}, copy : {"h", "bad"}]}
Repositories == Damaged \cup Running \cup Expiring \cup Manifests \cup Archives \cup Infos

-----------------------------------------------------------------------------
(* Restore *)

AllOptions ==
    [delta : BOOLEAN, force : BOOLEAN, type : {"default"}] \cup
    [delta : {TRUE}, force : {FALSE}, type : {"preserve"}]
\* any options and contents, and a kill
AnyRestore == [options |-> AllOptions, existing |-> {"none", "goodt", "othert", "part"} \X {"good"},
               lateZero |-> {<<{}, {"tsrel"}>>, <<{"rel"}, {}>>}, maxKill |-> 1, maxCrash |-> 0]
\* any options, and a crash
CrashRestore == [options |-> AllOptions, existing |-> {"othert", "part"} \X {"good"}, lateZero |-> {<<{"rel"}, {}>>},
                 maxKill |-> 0, maxCrash |-> 1]
\* a kill and a crash, with an old cluster in place
TwiceRestore == [options |-> [delta : {TRUE}, force : {FALSE}, type : {"default"}],
                 existing |-> {"none", "othert", "part"} \X {"good"}, lateZero |-> {<<{"rel"}, {}>>}, maxKill |-> 1, maxCrash |-> 1]
AllRestores == {AnyRestore, CrashRestore, TwiceRestore}

-----------------------------------------------------------------------------
\* The part that does not run stays in one initial state
Init ==
    /\ part \in {"verify", "restore"}
    /\ VerifyInit
    /\ part # "verify" => vrepo = CHOOSE r \in Damaged : r.sound
    /\ RestoreInit
    /\ restoreCase = TwiceRestore => vol.global["control"] # "none"
    /\ part # "restore" => vol = Empty /\ restoreCase = CrashRestore

Verifying(A) == part = "verify" /\ A /\ UNCHANGED <<part, restoreVars>>
Restoring(A) == part = "restore" /\ A /\ UNCHANGED <<part, verifyVars>>

Verified == verify.pc \in {"done", "failed"}

Next == Verifying(VerifyNext) \/ Verifying(Verified /\ UNCHANGED verifyVars) \/ Restoring(RestoreNext)

\* verify runs on; a restore runs until it ends or is killed, and the operator
\* sooner or later tries --delta again.
Spec ==
    /\ Init
    /\ [][Next]_vars
    /\ WF_vars(Verifying(VerifyStep))
    /\ WF_vars(Restoring(Steps))
    /\ SF_vars(Restoring(\E o \in restoreCase.options : o.delta /\ Validate(o)))

\* verify always comes to an end, with its results or with an error
\* (cmdVerify()).
VerifyEnds == part = "verify" => <>Verified
=============================================================================
