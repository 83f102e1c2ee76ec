--------------------------- MODULE RestoreProofs ----------------------------
(***************************************************************************)
(* Proofs about Restore: a data directory that restore has begun to change *)
(* cannot be started before all of it is in place, and nothing is taken    *)
(* away that restore was not told to, for any options, any old cluster,    *)
(* any number of local processes and however often the command is killed   *)
(* and the host crashes.                                                   *)
(***************************************************************************)
EXTENDS Restore, TLAPS

(***************************************************************************)
(* The inductive invariant                                                 *)
(***************************************************************************)
Working == {"clean", "build", "save", "jobs", "recovery", "recoveryClose", "signal", "unsave", "sync"}
Cleaned == Working \ {"clean"}
Built == Cleaned \ {"build"}
Copied == Built \ {"save", "jobs"}
Renamed == {"syncGlobal", "end"}

\* The directory that has the file a job writes, and what it holds there
At(v, f) == v[DirOf(PgPath(f))][PgPath(f)]

\* Content of the right size and time that is not the backup's was written
\* after the backup began
LateInv ==
    \A d \in Dirs : \A n \in Entry[d] :
        /\ vol[d][n] = "othert" => n \in late
        /\ \A h \in hist[d] : h[n] = "othert" => n \in late

\* pg_control is gone while restore works, and cannot come back unless restore
\* was killed before the removal was on disk
ControlInv ==
    /\ pc \in Working \cup {"controlSync"} => vol.global["control"] = "none"
    /\ pc \in {"check", "control"} => ~touched \/ vol.global["control"] = "none"
    /\ pc = "controlSync" => ~touched
    /\ pc # "controlSync" /\ ~unsynced /\ vol.global["control"] = "none" =>
           \A h \in hist.global : h["control"] = "none"

\* Everything is in place and on disk
Ready ==
    /\ Whole /\ ~spool /\ vol.global["control"] = "good"
    /\ \A d \in Dirs \ {"global"} : hist[d] = {}

EndInv ==
    /\ pc \in Renamed => Ready /\ touched
    /\ pc = "end" => hist.global = {}
    /\ pc \in {"idle", "syncGlobal"} /\ touched /\ ~unsynced /\ vol.global["control"] # "none" =>
           Ready /\ \A h \in hist.global : h["control"] = "none"
    /\ touched \/ pc # "idle" => ~spool
    /\ pc \in Built \ {"save"} => touched

\* What is foreign is gone, and the links and paths are there
BuiltInv ==
    /\ pc \in Cleaned => \A d \in Dirs : Invalid(d) \subseteq {"controltmp", "signal", "rconf"}
    /\ pc \in Built => Missing = {}

Queued(f) == \E q \in DOMAIN queue : \E i \in 1 .. Len(queue[q]) : queue[q][i] = f

\* A file is in a queue, in work or as it is wanted
JobsInv ==
    /\ pc = "save" => \A f \in ManifestFile(opt) : Queued(f)
    /\ pc = "jobs" => \A f \in ManifestFile(opt) : Queued(f) \/ f \in open \/ At(vol, f) = Wanted(f)
    /\ pc \in Copied => \A f \in ManifestFile(opt) \ {"auto"} : At(vol, f) = Wanted(f)

\* Recovery settings, and the directories that are not synced yet
FinishInv ==
    /\ pc \in {"recovery", "recoveryClose", "signal"} => opt.type = "default"
    /\ pc \in {"signal", "unsave", "sync"} /\ opt.type = "default" => vol.pgdata[RecoveryFile] = "recov"
    /\ pc = "sync" => /\ vol.pgdata["manifest"] = "none"
                      /\ \A d \in Dirs \ {"global"} : hist[d] = {} \/ \E i \in 1 .. Len(toSync) : toSync[i] = d

\* Foreign files are only there to be removed from a cluster or partial restore
KeepInv ==
    /\ \A h \in hist.pgdata : h["junk"] = "none" => vol.pgdata["junk"] = "none"
    /\ pc \in {"control", "controlSync", "clean"} /\ vol.pgdata["junk"] # "none" => Clean(opt)
    /\ pc \in {"check", "control", "controlSync", "clean"} /\ Clean(opt) =>
           vol.pgdata["version"] # "none" \/ vol.pgdata["manifest"] # "none"

RestoreInv ==
    /\ RestoreTypeOK /\ LateInv /\ ControlInv /\ EndInv /\ BuiltInv /\ JobsInv /\ FinishInv /\ KeepInv

-----------------------------------------------------------------------------
(***************************************************************************)
(* Directories, entries and what one change does                           *)
(***************************************************************************)
Files == {"version", "rel", "tsrel", "conf", "control", "auto"}

LEMMA Names ==
    /\ Dirs = {"pgdata", "global", "ts", "ext"}
    /\ Entry["pgdata"] = {"version", "rel", "auto", "rconf", "signal", "manifest", "tslink", "conflink", "global", "junk"}
    /\ Entry["global"] = {"control", "controltmp"}
    /\ Entry["ts"] = {"tsrel", "junk"}
    /\ Entry["ext"] = {"conf"}
    BY DEF Dirs, Entry

LEMMA Where ==
    /\ DirOf("version") = "pgdata" /\ DirOf("rel") = "pgdata" /\ DirOf("auto") = "pgdata"
    /\ DirOf("controltmp") = "global" /\ DirOf("control") = "global"
    /\ DirOf("tsrel") = "ts" /\ DirOf("conf") = "ext"
<1>1. DirOf("version") = "pgdata"
    BY Names DEF DirOf
<1>2. DirOf("rel") = "pgdata"
    BY Names DEF DirOf
<1>3. DirOf("auto") = "pgdata"
    BY Names DEF DirOf
<1>4. DirOf("controltmp") = "global"
    BY Names DEF DirOf
<1>5. DirOf("control") = "global"
    BY Names DEF DirOf
<1>6. DirOf("tsrel") = "ts"
    BY Names DEF DirOf
<1>7. DirOf("conf") = "ext"
    BY Names DEF DirOf
<1> QED
    BY <1>1, <1>2, <1>3, <1>4, <1>5, <1>6, <1>7

\* The place a job writes to
LEMMA Place ==
    \A f \in Files :
        /\ DirOf(PgPath(f)) \in Dirs /\ PgPath(f) \in Entry[DirOf(PgPath(f))]
        /\ PgPath(f) \notin {"control", "junk", "rconf", "signal", "manifest", "tslink", "conflink", "global"}
        /\ (PgPath(f) = "auto" <=> f = "auto") /\ (PgPath(f) = "controltmp" <=> f = "control")
        /\ f # "control" => PgPath(f) = f
        /\ f \in {"version", "rel", "auto"} => DirOf(PgPath(f)) = "pgdata"
        /\ f = "tsrel" => DirOf(PgPath(f)) = "ts"
        /\ f = "conf" => DirOf(PgPath(f)) = "ext"
        /\ f = "control" => DirOf(PgPath(f)) = "global"
    BY Names, Where DEF PgPath, Files

LEMMA SomeFiles == ManifestFile(opt) \subseteq Files /\ "control" \in ManifestFile(opt)
    BY DEF ManifestFile, Files

VolType ==
    /\ vol = [d \in Dirs |-> vol[d]] /\ \A d \in Dirs : vol[d] \in Snap(d)
    /\ hist = [d \in Dirs |-> hist[d]] /\ \A d \in Dirs : hist[d] \subseteq Snap(d)

\* What changes when an entry of a directory does
Changed(d, n, c) ==
    /\ vol'[d][n] = c
    /\ \A e \in Dirs : \A m \in Entry[e] : e # d \/ m # n => vol'[e][m] = vol[e][m]
    /\ \A e \in Dirs : e # d => hist'[e] = hist[e]
    /\ \A h \in hist'[d] : h \in hist[d] \/ h = vol[d]

LEMMA SetChanges ==
    ASSUME VolType, NEW d \in Dirs, NEW n \in Entry[d], NEW c \in Content, Set(d, n, c)
    PROVE  VolType' /\ Changed(d, n, c)
<1>1. vol' = [vol EXCEPT ![d] = [vol[d] EXCEPT ![n] = c]] /\ hist' = [hist EXCEPT ![d] = Remember(d)]
    BY DEF Set
<1>2. vol[d] \in [Entry[d] -> Content]
    BY DEF VolType, Snap
<1>3. [vol[d] EXCEPT ![n] = c] \in [Entry[d] -> Content]
    BY <1>2
<1>4. Remember(d) \subseteq hist[d] \cup {vol[d]}
    BY DEF Remember
<1>5. Remember(d) \subseteq Snap(d)
    BY <1>4, <1>2 DEF VolType, Snap
<1>6. VolType'
  <2>1. vol' = [e \in Dirs |-> vol'[e]] /\ \A e \in Dirs : vol'[e] \in Snap(e)
      BY Zenon, <1>1, <1>3 DEF VolType, Snap
  <2>2. hist' = [e \in Dirs |-> hist'[e]] /\ \A e \in Dirs : hist'[e] \subseteq Snap(e)
      BY <1>1, <1>5 DEF VolType
  <2> QED
      BY <2>1, <2>2 DEF VolType, Snap
<1>7. vol'[d] = [vol[d] EXCEPT ![n] = c] /\ \A e \in Dirs : e # d => vol'[e] = vol[e]
    BY <1>1 DEF VolType
<1>8. hist'[d] = Remember(d) /\ \A e \in Dirs : e # d => hist'[e] = hist[e]
    BY <1>1 DEF VolType
<1>9. vol'[d][n] = c /\ \A m \in Entry[d] : m # n => vol'[d][m] = vol[d][m]
    BY <1>2, <1>7
<1> QED
    BY Zenon, <1>4, <1>6, <1>7, <1>8, <1>9 DEF Changed

LEMMA SyncChanges ==
    ASSUME VolType, NEW d \in Dirs, Sync(d)
    PROVE  VolType' /\ vol' = vol /\ hist'[d] = {} /\ \A e \in Dirs : e # d => hist'[e] = hist[e]
<1>1. vol' = vol /\ hist' = [hist EXCEPT ![d] = {}]
    BY DEF Sync
<1>2. hist'[d] = {} /\ \A e \in Dirs : e # d => hist'[e] = hist[e]
    BY <1>1 DEF VolType
<1>3. hist' = [e \in Dirs |-> hist'[e]] /\ \A e \in Dirs : hist'[e] \subseteq Snap(e)
    BY <1>1, <1>2 DEF VolType
<1> QED
    BY <1>1, <1>2, <1>3 DEF VolType, Snap

LEMMA Values ==
    /\ {"none", "good", "goodt", "part", "zero", "recov"} \subseteq Content
    /\ Wanted("control") = (IF "control" \in zero THEN "zero" ELSE "good")
    /\ \A f : Wanted(f) \in {"good", "zero"}
    BY DEF Content, Wanted

LEMMA RemoveControlDoes ==
    ASSUME RestoreTypeOK, RemoveControl
    PROVE  /\ VolType'
           /\ \/ /\ vol.global["control"] # "none" /\ pc' = "controlSync"
                 /\ Changed("global", "control", "none")
              \/ vol.global["control"] = "none" /\ pc' = "clean" /\ UNCHANGED <<vol, hist>>
<1>1. VolType
    BY DEF RestoreTypeOK, VolType
<1>2. CASE vol.global["control"] # "none"
    BY <1>1, <1>2, SetChanges, Names, Values DEF RemoveControl
<1>3. CASE vol.global["control"] = "none"
    BY <1>1, <1>3 DEF RemoveControl, VolType, Snap
<1> QED
    BY <1>2, <1>3

LEMMA CleanEntryDoes ==
    ASSUME RestoreTypeOK, NEW d \in Dirs, CleanEntry(d)
    PROVE  \E n \in Invalid(d) : n \in Entry[d] /\ VolType' /\ Changed(d, n, "none")
<1>1. VolType
    BY DEF RestoreTypeOK, VolType
<1>2. PICK n \in Invalid(d) : Set(d, n, "none")
    BY DEF CleanEntry
<1>3. n \in Entry[d]
    BY <1>2 DEF Invalid
<1> QED
    BY <1>1, <1>2, <1>3, SetChanges, Values

LEMMA BuildEntryDoes ==
    ASSUME RestoreTypeOK, BuildEntry
    PROVE  \E n \in Links \cup {"global"} : VolType' /\ Changed("pgdata", n, "good")
<1>1. VolType
    BY DEF RestoreTypeOK, VolType
<1>2. PICK n \in Missing : Set("pgdata", n, "good")
    BY DEF BuildEntry
<1>3. n \in Links \cup {"global"} /\ n \in Entry["pgdata"]
    BY <1>2, Names DEF Missing, Links
<1> QED
    BY <1>1, <1>2, <1>3, SetChanges, Values, Names

LEMMA SaveManifestDoes ==
    ASSUME RestoreTypeOK, SaveManifest
    PROVE  VolType' /\ Changed("pgdata", "manifest", "good")
<1>1. VolType /\ vol["pgdata"] \in [Entry["pgdata"] -> Content]
    BY Zenon, Names DEF RestoreTypeOK, VolType, Snap
<1>2. vol' = [vol EXCEPT !["pgdata"] = [vol["pgdata"] EXCEPT !["manifest"] = "good"]] /\ hist' = [hist EXCEPT !["pgdata"] = {}]
    BY DEF SaveManifest
<1>3. [vol["pgdata"] EXCEPT !["manifest"] = "good"] \in [Entry["pgdata"] -> Content]
    BY Zenon, <1>1, Values
<1>4. vol'["pgdata"] = [vol["pgdata"] EXCEPT !["manifest"] = "good"] /\ \A e \in Dirs : e # "pgdata" => vol'[e] = vol[e]
    BY Zenon, <1>1, <1>2, Names DEF VolType
<1>5. hist'["pgdata"] = {} /\ \A e \in Dirs : e # "pgdata" => hist'[e] = hist[e]
    BY <1>1, <1>2, Names DEF VolType
<1>6. vol' = [e \in Dirs |-> vol'[e]] /\ \A e \in Dirs : vol'[e] \in Snap(e)
    BY Zenon, <1>1, <1>2, <1>3, <1>4 DEF VolType, Snap
<1>7. hist' = [e \in Dirs |-> hist'[e]] /\ \A e \in Dirs : hist'[e] \subseteq Snap(e)
    BY <1>1, <1>2, <1>5 DEF VolType
<1>8. vol'["pgdata"]["manifest"] = "good" /\ \A m \in Entry["pgdata"] : m # "manifest" => vol'["pgdata"][m] = vol["pgdata"][m]
    BY <1>1, <1>4, Names
<1>9. VolType'
    BY <1>6, <1>7 DEF VolType, Snap
<1> QED
    BY Zenon, <1>4, <1>5, <1>8, <1>9 DEF Changed

LEMMA JobStartDoes ==
    ASSUME RestoreTypeOK, NEW q \in DOMAIN queue, JobStart(q)
    PROVE  \E f \in ManifestFile(opt) :
               /\ VolType' /\ f = Head(queue[q]) /\ queue[q] # <<>>
               /\ \/ /\ Keep(f, At(vol, f)) /\ open' = open
                     /\ \/ At(vol, f) = "goodt" /\ Changed(DirOf(PgPath(f)), PgPath(f), "good")
                        \/ At(vol, f) # "goodt" /\ UNCHANGED <<vol, hist>>
                  \/ /\ ~Keep(f, At(vol, f)) /\ open' = open \cup {f}
                     /\ Changed(DirOf(PgPath(f)), PgPath(f), "part")
<1> DEFINE f == Head(queue[q])
           d == DirOf(PgPath(f))
<1>1. VolType
    BY DEF RestoreTypeOK, VolType
<1>2. queue[q] # <<>> /\ queue[q] \in Seq(ManifestFile(opt))
    BY DEF JobStart, RestoreTypeOK
<1>3. f \in ManifestFile(opt)
    BY <1>2
<1>4. d \in Dirs /\ PgPath(f) \in Entry[d]
    BY <1>3, SomeFiles, Place
<1>5. \/ /\ Keep(f, At(vol, f)) /\ open' = open
         /\ \/ At(vol, f) = "goodt" /\ Set(d, PgPath(f), "good")
            \/ At(vol, f) # "goodt" /\ UNCHANGED <<vol, hist>>
      \/ /\ ~Keep(f, At(vol, f)) /\ open' = open \cup {f}
         /\ Set(d, PgPath(f), "part")
    BY DEF JobStart, At
<1>6. \A c \in {"good", "part"} : Set(d, PgPath(f), c) => VolType' /\ Changed(d, PgPath(f), c)
    BY <1>1, <1>4, SetChanges, Values
<1>7. UNCHANGED <<vol, hist>> => VolType'
    BY <1>1 DEF VolType, Snap
<1> QED
    BY <1>2, <1>3, <1>5, <1>6, <1>7

LEMMA JobEndDoes ==
    ASSUME RestoreTypeOK, NEW f \in open, JobEnd(f)
    PROVE  f \in ManifestFile(opt) /\ VolType' /\ Changed(DirOf(PgPath(f)), PgPath(f), Wanted(f))
<1>1. VolType /\ f \in ManifestFile(opt)
    BY DEF RestoreTypeOK, VolType
<1>2. DirOf(PgPath(f)) \in Dirs /\ PgPath(f) \in Entry[DirOf(PgPath(f))]
    BY <1>1, SomeFiles, Place
<1> QED
    BY <1>1, <1>2, SetChanges, Values DEF JobEnd

LEMMA RecoveryDoes ==
    ASSUME RestoreTypeOK
    PROVE  /\ RecoveryOpen => VolType' /\ Changed("pgdata", RecoveryFile, "part")
           /\ RecoveryClose => VolType' /\ Changed("pgdata", RecoveryFile, "recov")
           /\ RecoverySignal => VolType' /\ Changed("pgdata", "signal", "recov")
           /\ RemoveManifest => VolType' /\ Changed("pgdata", "manifest", "none")
<1>1. VolType
    BY DEF RestoreTypeOK, VolType
<1>2. RecoveryFile \in Entry["pgdata"]
    BY Names DEF RecoveryFile
<1>3. RecoveryOpen => VolType' /\ Changed("pgdata", RecoveryFile, "part")
    BY <1>1, <1>2, SetChanges, Names, Values DEF RecoveryOpen
<1>4. RecoveryClose => VolType' /\ Changed("pgdata", RecoveryFile, "recov")
    BY <1>1, <1>2, SetChanges, Names, Values DEF RecoveryClose
<1>5. RecoverySignal => VolType' /\ Changed("pgdata", "signal", "recov")
    BY <1>1, SetChanges, Names, Values DEF RecoverySignal
<1>6. RemoveManifest => VolType' /\ Changed("pgdata", "manifest", "none")
    BY <1>1, SetChanges, Names, Values DEF RemoveManifest
<1> QED
    BY <1>3, <1>4, <1>5, <1>6

LEMMA RenameControlDoes ==
    ASSUME RestoreTypeOK, RenameControl
    PROVE  /\ VolType'
           /\ vol'["global"]["control"] = vol["global"]["controltmp"] /\ vol'["global"]["controltmp"] = "none"
           /\ \A e \in Dirs : e # "global" => vol'[e] = vol[e] /\ hist'[e] = hist[e]
           /\ \A h \in hist'["global"] : h \in hist["global"] \/ h = vol["global"]
<1>1. VolType /\ vol["global"] \in [Entry["global"] -> Content]
    BY Zenon, Names DEF RestoreTypeOK, VolType, Snap
<1> DEFINE g == [control |-> vol["global"]["controltmp"], controltmp |-> "none"]
<1>2. vol' = [vol EXCEPT !["global"] = g] /\ hist' = [hist EXCEPT !["global"] = Remember("global")]
    BY DEF RenameControl
<1>3. vol["global"]["controltmp"] \in Content
    BY <1>1, Names
<1>4. g \in [{"control", "controltmp"} -> Content]
    BY <1>3, Values
<1>5. g \in Snap("global")
    BY <1>4, Names DEF Snap
<1>6. Remember("global") \subseteq hist["global"] \cup {vol["global"]}
    BY DEF Remember
<1>7. vol'["global"] = g /\ \A e \in Dirs : e # "global" => vol'[e] = vol[e]
    BY Zenon, <1>1, <1>2, Names DEF VolType
<1>8. hist'["global"] = Remember("global") /\ \A e \in Dirs : e # "global" => hist'[e] = hist[e]
    BY <1>1, <1>2, Names DEF VolType
<1>9. vol' = [e \in Dirs |-> vol'[e]] /\ \A e \in Dirs : vol'[e] \in Snap(e)
    BY <1>1, <1>2, <1>5, <1>7 DEF VolType
<1>10. hist' = [e \in Dirs |-> hist'[e]] /\ \A e \in Dirs : hist'[e] \subseteq Snap(e)
    BY Zenon, <1>1, <1>2, <1>6, <1>8 DEF VolType, Snap
<1>11. VolType'
    BY <1>9, <1>10 DEF VolType, Snap
<1> QED
    BY <1>6, <1>7, <1>8, <1>11

LEMMA KillDoes ==
    ASSUME RestoreTypeOK, Kill
    PROVE  /\ VolType' /\ hist' = hist
           /\ \A e \in Dirs : \A m \in Entry[e] :
                  \/ vol'[e][m] = vol[e][m]
                  \/ vol'[e][m] = "goodt" /\ pc = "jobs" /\ \E f \in open : e = DirOf(PgPath(f)) /\ m = PgPath(f)
<1>1. VolType
    BY DEF RestoreTypeOK, VolType
<1>2. CASE vol' = vol
    BY <1>1, <1>2 DEF Kill, VolType, Snap
<1>3. ASSUME NEW f \in open, vol' = [vol EXCEPT ![DirOf(PgPath(f))][PgPath(f)] = "goodt"]
      PROVE  /\ VolType'
             /\ \A e \in Dirs : \A m \in Entry[e] :
                    vol'[e][m] = vol[e][m] \/ (vol'[e][m] = "goodt" /\ e = DirOf(PgPath(f)) /\ m = PgPath(f))
  <2> DEFINE d == DirOf(PgPath(f))
             n == PgPath(f)
  <2>1. d \in Dirs /\ n \in Entry[d]
      BY SomeFiles, Place DEF RestoreTypeOK
  <2>2. vol' = [vol EXCEPT ![d] = [vol[d] EXCEPT ![n] = "goodt"]] /\ vol[d] \in [Entry[d] -> Content]
      BY <1>1, <1>3, <2>1 DEF VolType, Snap
  <2>3. [vol[d] EXCEPT ![n] = "goodt"] \in [Entry[d] -> Content]
      BY Zenon, <2>2, Values
  <2> HIDE DEF d, n
  <2>4. vol'[d] = [vol[d] EXCEPT ![n] = "goodt"] /\ \A e \in Dirs : e # d => vol'[e] = vol[e]
      BY <1>1, <2>1, <2>2 DEF VolType
  <2>5. vol' = [e \in Dirs |-> vol'[e]] /\ \A e \in Dirs : vol'[e] \in Snap(e)
      BY Zenon, <1>1, <2>1, <2>2, <2>3, <2>4 DEF VolType, Snap
  <2>6. VolType'
      BY <1>1, <2>5 DEF VolType, Snap, Kill
  <2>7. vol'[d][n] = "goodt" /\ \A m \in Entry[d] : m # n => vol'[d][m] = vol[d][m]
      BY <2>1, <2>2, <2>4
  <2> QED
      BY Zenon, <2>4, <2>6, <2>7 DEF d, n
<1>4. open # {} => pc = "jobs"
    BY DEF RestoreTypeOK
<1>5. hist' = hist /\ (vol' = vol \/ \E f \in open : vol' = [vol EXCEPT ![DirOf(PgPath(f))][PgPath(f)] = "goodt"])
    BY DEF Kill
<1> QED
    BY <1>2, <1>3, <1>4, <1>5

LEMMA HostCrashDoes ==
    ASSUME RestoreTypeOK, HostCrash
    PROVE  VolType' /\ \A d \in Dirs : hist'[d] = {} /\ vol'[d] \in hist[d] \cup {vol[d]}
<1>1. VolType
    BY DEF RestoreTypeOK, VolType
<1>2. PICK p \in hist["pgdata"] \cup {vol["pgdata"]}, g \in hist["global"] \cup {vol["global"]},
           t \in hist["ts"] \cup {vol["ts"]}, e \in hist["ext"] \cup {vol["ext"]} :
           vol' = [pgdata |-> p, global |-> g, ts |-> t, ext |-> e]
    BY Zenon DEF HostCrash
<1>3. hist' = [d \in Dirs |-> {}]
    BY DEF HostCrash
<1>4. vol' = [d \in Dirs |-> vol'[d]]
    BY <1>2, Names
<1>5. vol'["pgdata"] = p /\ vol'["global"] = g /\ vol'["ts"] = t /\ vol'["ext"] = e
    BY <1>2
<1>6. \A d \in Dirs : vol'[d] \in hist[d] \cup {vol[d]}
    BY <1>2, <1>5, Names
<1>7. \A d \in Dirs : vol'[d] \in Snap(d)
    BY <1>1, <1>6 DEF VolType
<1>8. hist' = [d \in Dirs |-> hist'[d]] /\ \A d \in Dirs : hist'[d] = {} /\ hist'[d] \subseteq Snap(d)
    BY <1>3
<1> QED
    BY <1>4, <1>6, <1>7, <1>8 DEF VolType, Snap

-----------------------------------------------------------------------------
(***************************************************************************)
(* Types                                                                   *)
(***************************************************************************)
LEMMA QueueTypes ==
    /\ \A q \in DOMAIN ProcessQueue : ProcessQueue[q] \in Seq(ManifestFile(opt))
    /\ \A f \in ManifestFile(opt) : \E q \in DOMAIN ProcessQueue : \E i \in 1 .. Len(ProcessQueue[q]) : ProcessQueue[q][i] = f
<1>1. CASE "auto" \in ManifestFile(opt)
  <2> DEFINE a == <<"rel", "control", "auto", "conf", "version">>
             b == <<"tsrel">>
  <2>1. ProcessQueue = <<a, b>>
      BY <1>1 DEF ProcessQueue
  <2>2. a \in Seq(ManifestFile(opt)) /\ b \in Seq(ManifestFile(opt))
      BY <1>1 DEF ManifestFile
  <2>3. /\ Len(a) = 5 /\ a[1] = "rel" /\ a[2] = "control" /\ a[3] = "auto" /\ a[4] = "conf" /\ a[5] = "version"
        /\ Len(b) = 1 /\ b[1] = "tsrel"
      OBVIOUS
  <2> HIDE DEF a, b
  <2>4. DOMAIN ProcessQueue = {1, 2} /\ ProcessQueue[1] = a /\ ProcessQueue[2] = b
      BY <2>1
  <2>5. ManifestFile(opt) = {"version", "rel", "tsrel", "conf", "control", "auto"}
      BY <1>1 DEF ManifestFile
  <2>6. ASSUME NEW f \in ManifestFile(opt)
        PROVE  \E q \in DOMAIN ProcessQueue : \E i \in 1 .. Len(ProcessQueue[q]) : ProcessQueue[q][i] = f
    <3>1. f = "tsrel" => \E i \in 1 .. Len(b) : b[i] = f
        BY <2>3
    <3>2. f # "tsrel" => \E i \in 1 .. Len(a) : a[i] = f
        BY <2>3, <2>5
    <3> QED
        BY <2>4, <3>1, <3>2
  <2> QED
      BY <2>2, <2>4, <2>6
<1>2. CASE "auto" \notin ManifestFile(opt)
  <2> DEFINE a == <<"rel", "control", "conf", "version">>
             b == <<"tsrel">>
  <2>1. ProcessQueue = <<a, b>>
      BY <1>2 DEF ProcessQueue
  <2>2. a \in Seq(ManifestFile(opt)) /\ b \in Seq(ManifestFile(opt))
      BY DEF ManifestFile
  <2>3. /\ Len(a) = 4 /\ a[1] = "rel" /\ a[2] = "control" /\ a[3] = "conf" /\ a[4] = "version"
        /\ Len(b) = 1 /\ b[1] = "tsrel"
      OBVIOUS
  <2> HIDE DEF a, b
  <2>4. DOMAIN ProcessQueue = {1, 2} /\ ProcessQueue[1] = a /\ ProcessQueue[2] = b
      BY <2>1
  <2>5. ManifestFile(opt) = {"version", "rel", "tsrel", "conf", "control"}
      BY <1>2 DEF ManifestFile
  <2>6. ASSUME NEW f \in ManifestFile(opt)
        PROVE  \E q \in DOMAIN ProcessQueue : \E i \in 1 .. Len(ProcessQueue[q]) : ProcessQueue[q][i] = f
    <3>1. f = "tsrel" => \E i \in 1 .. Len(b) : b[i] = f
        BY <2>3
    <3>2. f # "tsrel" => \E i \in 1 .. Len(a) : a[i] = f
        BY <2>3, <2>5
    <3> QED
        BY <2>4, <3>1, <3>2
  <2> QED
      BY <2>2, <2>4, <2>6
<1> QED
    BY <1>1, <1>2

\* The types apart from those of the directories
RestType ==
    /\ restoreCase \in RestoreCases
    /\ opt \in Options /\ late \subseteq {"rel", "tsrel"} /\ zero \subseteq {"rel", "tsrel"}
    /\ open \subseteq ManifestFile(opt) /\ (open # {} => pc = "jobs")
    /\ \A q \in DOMAIN queue : queue[q] \in Seq(ManifestFile(opt))
    /\ pc \in {"idle", "check"} => queue = <<>>
    /\ toSync \in Seq({"ext", "pgdata", "ts"})
    /\ spool \in BOOLEAN /\ touched \in BOOLEAN /\ unsynced \in BOOLEAN
    /\ kills \in 0 .. restoreCase.maxKill /\ crashes \in 0 .. restoreCase.maxCrash

LEMMA TypeParts == RestoreTypeOK <=> VolType /\ RestType /\ pc \in Phase
    BY DEF RestoreTypeOK, VolType, RestType

LEMMA Bounds == \A c \in RestoreCases : c.options \subseteq Options /\ c.maxKill \in Nat /\ c.maxCrash \in Nat
    BY RestoreAssumption

LEMMA RestTypeStep == RestoreTypeOK /\ RestoreNext => RestType'
<1> SUFFICES ASSUME RestoreTypeOK, RestoreNext PROVE RestType'
    OBVIOUS
<1>0. RestType /\ VolType /\ restoreCase.maxKill \in Nat /\ restoreCase.maxCrash \in Nat /\ restoreCase.options \subseteq Options
    BY TypeParts, Bounds DEF RestType
<1>1. ASSUME NEW o \in restoreCase.options, Validate(o) PROVE RestType'
  <2>1. o \in Options /\ Destructive(o) \in Options
      BY Zenon, <1>0 DEF Destructive, Options
  <2>2. open' = {} /\ queue' = <<>>
      BY <1>0, <1>1 DEF Validate, RestType
  <2>3. \A q \in DOMAIN queue' : queue'[q] \in Seq(ManifestFile(opt'))
      BY <2>2
  <2>4. touched' \in BOOLEAN
      BY <1>1 DEF Validate
  <2> QED
      BY Zenon, <1>0, <1>1, <2>1, <2>2, <2>3, <2>4 DEF Validate, RestType, faultVars, ManifestFile
<1>2. CASE CheckEmpty \/ RemoveControl \/ CleanDone \/ BuildEntry \/ SaveManifest \/ \E d \in Dirs : CleanEntry(d)
  <2>1. /\ UNCHANGED <<opt, late, zero, open, queue, toSync, spool, faultVars>> /\ touched' \in BOOLEAN
        /\ pc # "jobs" /\ (pc' \in {"idle", "check"} => pc \in {"idle", "check"})
      BY Zenon, <1>0, <1>2 DEF CheckEmpty, RemoveControl, CleanDone, BuildEntry, SaveManifest, CleanEntry, RestType
  <2> QED
      BY <1>0, <2>1 DEF RestType, faultVars, ManifestFile
<1>3. CASE RemoveControlSync \/ SyncGlobal \/ RecoveryOpen \/ RecoveryClose \/ RecoverySignal \/ RenameControl \/ JobsDone
  <2>1. /\ UNCHANGED <<opt, late, zero, open, queue, toSync, spool, touched, restoreCase, kills, crashes>>
        /\ open = {} /\ pc' \notin {"idle", "check"} /\ unsynced' \in BOOLEAN
      BY Zenon, <1>0, <1>3 DEF RemoveControlSync, SyncGlobal, RecoveryOpen, RecoveryClose, RecoverySignal, RenameControl, JobsDone,
                        RestType, faultVars
  <2> QED
      BY <1>0, <2>1 DEF RestType, ManifestFile
<1>4. CASE BuildDone
    BY <1>0, <1>4, QueueTypes DEF BuildDone, RestType, faultVars, ManifestFile
<1>5. ASSUME NEW q \in DOMAIN queue, JobStart(q) PROVE RestType'
  <2>1. PICK f \in ManifestFile(opt) : open' = open \/ open' = open \cup {f}
      BY <1>5, JobStartDoes
  <2>2. queue[q] # <<>> /\ queue[q] \in Seq(ManifestFile(opt)) /\ queue' = [queue EXCEPT ![q] = Tail(queue[q])]
      BY <1>0, <1>5 DEF JobStart, RestType
  <2>3. Tail(queue[q]) \in Seq(ManifestFile(opt))
      BY <2>2
  <2>4. \A p \in DOMAIN queue' : queue'[p] \in Seq(ManifestFile(opt))
      BY <1>0, <2>2, <2>3 DEF RestType
  <2>5. pc' = "jobs" /\ touched' = TRUE /\ UNCHANGED <<opt, late, zero, toSync, spool, faultVars>>
      BY <1>5 DEF JobStart
  <2> QED
      BY Zenon, <1>0, <2>1, <2>4, <2>5 DEF RestType, faultVars, ManifestFile
<1>6. ASSUME NEW f \in open, JobEnd(f) PROVE RestType'
    BY <1>0, <1>6 DEF JobEnd, RestType, faultVars, ManifestFile
<1>7. CASE RemoveManifest
  <2>1. <<"ext", "pgdata", "ts">> \in Seq({"ext", "pgdata", "ts"})
      OBVIOUS
  <2> QED
      BY <1>0, <1>7, <2>1 DEF RemoveManifest, RestType, faultVars, ManifestFile
<1>8. CASE SyncDirs
    BY <1>0, <1>8 DEF SyncDirs, RestType, faultVars, ManifestFile
<1>9. CASE Kill \/ HostCrash
  <2>1. /\ UNCHANGED <<opt, late, zero, spool, touched, restoreCase>> /\ open' = {} /\ queue' = <<>> /\ toSync' = <<>>
        /\ unsynced' \in BOOLEAN
      BY Zenon, <1>9 DEF Kill, HostCrash
  <2>2. kills' \in 0 .. restoreCase.maxKill /\ crashes' \in 0 .. restoreCase.maxCrash
      BY <1>0, <1>9 DEF Kill, HostCrash, RestType
  <2>3. (\A q \in DOMAIN queue' : queue'[q] \in Seq(ManifestFile(opt))) /\ toSync' \in Seq({"ext", "pgdata", "ts"})
      BY <2>1
  <2> QED
      BY <1>0, <2>1, <2>2, <2>3 DEF RestType, ManifestFile
<1>10. CASE Done
    BY <1>0, <1>10 DEF Done, restoreVars, RestType, ManifestFile
<1> QED
    BY <1>1, <1>2, <1>3, <1>4, <1>5, <1>6, <1>7, <1>8, <1>9, <1>10 DEF RestoreNext, Steps

LEMMA VolTypeStep == RestoreTypeOK /\ RestoreNext => VolType'
<1> SUFFICES ASSUME RestoreTypeOK, RestoreNext PROVE VolType'
    OBVIOUS
<1>0. VolType
    BY TypeParts
<1>1. UNCHANGED <<vol, hist>> => VolType'
    BY <1>0 DEF VolType, Snap
<1>2. CASE CheckEmpty \/ CleanDone \/ BuildDone \/ JobsDone \/ Done \/ \E o \in restoreCase.options : Validate(o)
    BY <1>1, <1>2 DEF CheckEmpty, CleanDone, BuildDone, JobsDone, Done, restoreVars, Validate
<1>3. CASE RemoveControlSync \/ SyncGlobal
    BY <1>0, <1>3, SyncChanges, Names DEF RemoveControlSync, SyncGlobal
<1>4. CASE SyncDirs
  <2>1. Head(toSync) \in Dirs
      BY <1>4, Names DEF SyncDirs, RestoreTypeOK
  <2> QED
      BY <1>0, <1>4, <2>1, SyncChanges DEF SyncDirs
<1>5. CASE RemoveControl \/ BuildEntry \/ SaveManifest \/ \E d \in Dirs : CleanEntry(d)
    BY <1>5, RemoveControlDoes, BuildEntryDoes, SaveManifestDoes, CleanEntryDoes
<1>6. CASE (\E q \in DOMAIN queue : JobStart(q)) \/ \E f \in open : JobEnd(f)
    BY <1>6, JobStartDoes, JobEndDoes
<1>7. CASE RecoveryOpen \/ RecoveryClose \/ RecoverySignal \/ RemoveManifest
    BY <1>7, RecoveryDoes
<1>8. CASE RenameControl
    BY <1>8, RenameControlDoes
<1>9. CASE Kill \/ HostCrash
    BY <1>9, KillDoes, HostCrashDoes
<1> QED
    BY <1>2, <1>3, <1>4, <1>5, <1>6, <1>7, <1>8, <1>9 DEF RestoreNext, Steps

-----------------------------------------------------------------------------
(***************************************************************************)
(* The parts of the invariant                                              *)
(***************************************************************************)
LEMMA LateStep == RestoreInv /\ RestoreNext => LateInv'
<1> SUFFICES ASSUME RestoreInv, RestoreNext PROVE LateInv'
    OBVIOUS
<1>0. RestoreTypeOK /\ LateInv /\ late' = late /\ late \subseteq {"rel", "tsrel"}
  <2>1. late' = late
      BY DEF RestoreNext, Steps, Validate, CheckEmpty, RemoveControl, RemoveControlSync, CleanEntry, CleanDone, BuildEntry,
             BuildDone, SaveManifest, JobStart, JobEnd, JobsDone, RecoveryOpen, RecoveryClose, RecoverySignal, RemoveManifest,
             SyncDirs, RenameControl, SyncGlobal, Kill, HostCrash, Done, restoreVars
  <2> QED
      BY <2>1 DEF RestoreInv, RestoreTypeOK
<1>1. ASSUME \A d \in Dirs : \A n \in Entry[d] : vol'[d][n] = vol[d][n] \/ vol'[d][n] # "othert",
             \A d \in Dirs : \A h \in hist'[d] : h \in hist[d] \/ h = vol[d]
      PROVE  LateInv'
    BY <1>0, <1>1 DEF LateInv
<1>2. ASSUME UNCHANGED vol, \A d \in Dirs : \A h \in hist'[d] : h \in hist[d] PROVE LateInv'
    BY <1>0, <1>2 DEF LateInv
<1>3. ASSUME NEW d \in Dirs, NEW n \in Entry[d], NEW c, c # "othert", Changed(d, n, c) PROVE LateInv'
    BY <1>1, <1>3 DEF Changed
<1>4. CASE CheckEmpty \/ CleanDone \/ BuildDone \/ JobsDone \/ Done \/ \E o \in restoreCase.options : Validate(o)
    BY <1>2, <1>4 DEF CheckEmpty, CleanDone, BuildDone, JobsDone, Done, restoreVars, Validate
<1>5. CASE RemoveControlSync \/ SyncGlobal \/ SyncDirs
  <2>1. VolType /\ (SyncDirs => Head(toSync) \in Dirs)
      BY <1>0, TypeParts, Names DEF SyncDirs, RestoreTypeOK
  <2>2. PICK d \in Dirs : Sync(d)
      BY <1>5, <2>1, Names DEF RemoveControlSync, SyncGlobal, SyncDirs
  <2>3. vol' = vol /\ hist'[d] = {} /\ \A e \in Dirs : e # d => hist'[e] = hist[e]
      BY <2>1, <2>2, SyncChanges
  <2> QED
      BY <1>2, <2>3
<1>6. CASE RemoveControl
    BY <1>0, <1>2, <1>3, <1>6, RemoveControlDoes, Names
<1>7. ASSUME NEW d \in Dirs, CleanEntry(d) PROVE LateInv'
    BY <1>0, <1>3, <1>7, CleanEntryDoes
<1>8. CASE BuildEntry
    BY <1>0, <1>3, <1>8, BuildEntryDoes, Names DEF Links
<1>9. CASE SaveManifest
    BY <1>0, <1>3, <1>9, SaveManifestDoes, Names
<1>10. ASSUME NEW q \in DOMAIN queue, JobStart(q) PROVE LateInv'
  <2>1. PICK f \in ManifestFile(opt) : \/ Changed(DirOf(PgPath(f)), PgPath(f), "good")
                                       \/ Changed(DirOf(PgPath(f)), PgPath(f), "part")
                                       \/ UNCHANGED <<vol, hist>>
      BY <1>0, <1>10, JobStartDoes
  <2>2. DirOf(PgPath(f)) \in Dirs /\ PgPath(f) \in Entry[DirOf(PgPath(f))]
      BY SomeFiles, Place
  <2> QED
      BY <1>2, <1>3, <2>1, <2>2
<1>11. ASSUME NEW f \in open, JobEnd(f) PROVE LateInv'
  <2>1. f \in ManifestFile(opt) /\ Changed(DirOf(PgPath(f)), PgPath(f), Wanted(f))
      BY <1>0, <1>11, JobEndDoes
  <2>2. DirOf(PgPath(f)) \in Dirs /\ PgPath(f) \in Entry[DirOf(PgPath(f))] /\ Wanted(f) # "othert"
      BY <2>1, SomeFiles, Place, Values
  <2> QED
      BY <1>3, <2>1, <2>2
<1>12. CASE RecoveryOpen \/ RecoveryClose \/ RecoverySignal \/ RemoveManifest
  <2>1. RecoveryFile \in Entry["pgdata"]
      BY Names DEF RecoveryFile
  <2> QED
      BY <1>0, <1>3, <1>12, <2>1, RecoveryDoes, Names
<1>13. CASE RenameControl
  <2>1. vol["global"]["controltmp"] # "othert"
      BY <1>0, Names DEF LateInv
  <2> QED
      BY <1>0, <1>1, <1>13, <2>1, RenameControlDoes, Names
<1>14. CASE Kill
    BY <1>0, <1>1, <1>14, KillDoes
<1>15. CASE HostCrash
    BY <1>0, <1>15, HostCrashDoes DEF LateInv
<1> QED
    BY <1>4, <1>5, <1>6, <1>7, <1>8, <1>9, <1>10, <1>11, <1>12, <1>13, <1>14, <1>15 DEF RestoreNext, Steps

\* A change of an entry that is not pg_control
LEMMA OtherEntry ==
    ASSUME NEW d \in Dirs, NEW n \in Entry[d], n # "control", NEW c, Changed(d, n, c)
    PROVE  /\ vol'["global"]["control"] = vol["global"]["control"]
           /\ \A h \in hist'["global"] : h \in hist["global"] \/ h = vol["global"]
    BY Names DEF Changed

LEMMA ControlStep == RestoreInv /\ RestoreNext => ControlInv'
<1> SUFFICES ASSUME RestoreInv, RestoreNext PROVE ControlInv'
    OBVIOUS
<1>0. RestoreTypeOK /\ ControlInv /\ VolType
    BY TypeParts DEF RestoreInv
<1>1. ASSUME vol'["global"]["control"] = vol["global"]["control"],
             \A h \in hist'["global"] : h \in hist["global"] \/ h = vol["global"],
             pc \in Working, pc' \in Working, UNCHANGED unsynced
      PROVE  ControlInv'
    BY <1>0, <1>1 DEF ControlInv, Working
<1>2. ASSUME NEW d \in Dirs, NEW n \in Entry[d], n # "control", NEW c, Changed(d, n, c),
             pc \in Working, pc' \in Working, UNCHANGED unsynced
      PROVE  ControlInv'
    BY <1>1, <1>2, OtherEntry
<1>3. ASSUME NEW o \in restoreCase.options, Validate(o) PROVE ControlInv'
    BY Zenon, <1>0, <1>3 DEF Validate, ControlInv, Working, faultVars
<1>4. CASE CheckEmpty
    BY <1>0, <1>4 DEF CheckEmpty, ControlInv, Working, faultVars
<1>5. CASE CleanDone \/ BuildDone \/ JobsDone
    BY <1>1, <1>5 DEF CleanDone, BuildDone, JobsDone, Working, faultVars
<1>6. CASE Done
    BY <1>0, <1>6 DEF Done, restoreVars, ControlInv
<1>7. CASE RemoveControl
  <2>1. CASE vol.global["control"] # "none"
    <3>1. pc' = "controlSync" /\ vol'["global"]["control"] = "none" /\ touched' = touched /\ ~touched
        BY <1>0, <1>7, <2>1, RemoveControlDoes DEF Changed, RemoveControl, ControlInv
    <3> QED
        BY <3>1 DEF ControlInv, Working
  <2>2. CASE vol.global["control"] = "none"
      BY <1>0, <1>7, <2>2 DEF RemoveControl, ControlInv, Working, faultVars
  <2> QED
      BY <2>1, <2>2
<1>8. CASE RemoveControlSync
    BY <1>0, <1>8, SyncChanges, Names DEF RemoveControlSync, ControlInv, Working
<1>9. CASE SyncGlobal
    BY <1>0, <1>9, SyncChanges, Names DEF SyncGlobal, ControlInv, Working
<1>10. CASE SyncDirs
  <2>1. Head(toSync) \in {"ext", "pgdata", "ts"}
      BY <1>0, <1>10 DEF SyncDirs, RestoreTypeOK
  <2>2. vol' = vol /\ hist'["global"] = hist["global"]
      BY <1>0, <1>10, <2>1, SyncChanges, Names DEF SyncDirs
  <2> QED
      BY <1>1, <1>10, <2>2 DEF SyncDirs, Working, faultVars
<1>11. ASSUME NEW d \in Dirs, CleanEntry(d) PROVE ControlInv'
  <2>1. PICK n \in Invalid(d) : n \in Entry[d] /\ Changed(d, n, "none")
      BY <1>0, <1>11, CleanEntryDoes
  <2>2. n # "control"
      BY <2>1 DEF Invalid
  <2> QED
      BY <1>2, <1>11, <2>1, <2>2 DEF CleanEntry, Working, faultVars
<1>12. CASE BuildEntry
  <2>1. PICK n \in Links \cup {"global"} : Changed("pgdata", n, "good")
      BY <1>0, <1>12, BuildEntryDoes
  <2> QED
      BY <1>2, <1>12, <2>1, Names DEF BuildEntry, Working, faultVars, Links
<1>13. CASE SaveManifest
    BY <1>0, <1>2, <1>13, SaveManifestDoes, Names DEF SaveManifest, Working, faultVars
<1>14. ASSUME NEW q \in DOMAIN queue, JobStart(q) PROVE ControlInv'
  <2>1. PICK f \in ManifestFile(opt) : \/ Changed(DirOf(PgPath(f)), PgPath(f), "good")
                                       \/ Changed(DirOf(PgPath(f)), PgPath(f), "part")
                                       \/ UNCHANGED <<vol, hist>>
      BY <1>0, <1>14, JobStartDoes
  <2>2. DirOf(PgPath(f)) \in Dirs /\ PgPath(f) \in Entry[DirOf(PgPath(f))] /\ PgPath(f) # "control"
      BY SomeFiles, Place
  <2>3. pc = "jobs" /\ pc' = "jobs" /\ UNCHANGED unsynced
      BY <1>14 DEF JobStart, faultVars
  <2> QED
      BY <1>1, <1>2, <2>1, <2>2, <2>3 DEF Working
<1>15. ASSUME NEW f \in open, JobEnd(f) PROVE ControlInv'
  <2>1. f \in ManifestFile(opt) /\ Changed(DirOf(PgPath(f)), PgPath(f), Wanted(f))
      BY <1>0, <1>15, JobEndDoes
  <2>2. DirOf(PgPath(f)) \in Dirs /\ PgPath(f) \in Entry[DirOf(PgPath(f))] /\ PgPath(f) # "control"
      BY <2>1, SomeFiles, Place
  <2> QED
      BY <1>2, <1>15, <2>1, <2>2 DEF JobEnd, faultVars, Working
<1>16. CASE RecoveryOpen \/ RecoveryClose \/ RecoverySignal \/ RemoveManifest
  <2>1. RecoveryFile \in Entry["pgdata"] /\ RecoveryFile # "control"
      BY Names DEF RecoveryFile
  <2>2. pc \in Working /\ pc' \in Working /\ UNCHANGED unsynced
      BY <1>16 DEF RecoveryOpen, RecoveryClose, RecoverySignal, RemoveManifest, Working, faultVars
  <2> QED
      BY <1>0, <1>2, <1>16, <2>1, <2>2, RecoveryDoes, Names
<1>17. CASE RenameControl
  <2>1. vol["global"]["controltmp"] = "good"
    <3>1. "control" \in ManifestFile(opt) \ {"auto"} /\ DirOf(PgPath("control")) = "global" /\ PgPath("control") = "controltmp"
        BY SomeFiles, Where DEF PgPath
    <3>2. pc \in Copied /\ "control" \notin zero
        BY <1>0, <1>17 DEF RenameControl, Copied, Built, Cleaned, Working, RestoreTypeOK
    <3> QED
        BY <3>1, <3>2 DEF RestoreInv, JobsInv, At, Wanted
  <2> QED
      BY <1>0, <1>17, <2>1, RenameControlDoes DEF RenameControl, ControlInv, Working
<1>18. CASE Kill
  <2>1. vol'["global"]["control"] = vol["global"]["control"] /\ hist' = hist
    <3>1. \A f \in open : PgPath(f) # "control"
        BY <1>0, SomeFiles, Place DEF RestoreTypeOK
    <3> QED
        BY <1>0, <1>18, <3>1, KillDoes, Names
  <2> QED
      BY Zenon, <1>0, <1>18, <2>1 DEF Kill, ControlInv, Working
<1>19. CASE HostCrash
    BY <1>0, <1>19, HostCrashDoes, Names DEF HostCrash, ControlInv, Working
<1> QED
    BY <1>3, <1>4, <1>5, <1>6, <1>7, <1>8, <1>9, <1>10, <1>11, <1>12, <1>13, <1>14, <1>15, <1>16, <1>17, <1>18, <1>19
       DEF RestoreNext, Steps

LEMMA KeepStep == RestoreInv /\ RestoreNext => KeepInv'
<1> SUFFICES ASSUME RestoreInv, RestoreNext PROVE KeepInv'
    OBVIOUS
<1>0. RestoreTypeOK /\ KeepInv /\ VolType
    BY TypeParts DEF RestoreInv
<1> DEFINE Early == {"check", "control", "controlSync", "clean"}
<1>1. ASSUME vol'["pgdata"]["junk"] = vol["pgdata"]["junk"], \A h \in hist'["pgdata"] : h \in hist["pgdata"] \/ h = vol["pgdata"],
             pc' \notin Early
      PROVE  KeepInv'
    BY <1>0, <1>1 DEF KeepInv
<1>2. ASSUME NEW d \in Dirs, NEW n \in Entry[d], n # "junk", NEW c, Changed(d, n, c), pc' \notin Early
      PROVE  KeepInv'
    BY <1>1, <1>2, Names DEF Changed
<1>3. ASSUME NEW o \in restoreCase.options, Validate(o) PROVE KeepInv'
  <2>1. Clean(Destructive(o)) => vol["pgdata"]["version"] # "none" \/ vol["pgdata"]["manifest"] # "none"
    <3>1. o \in Options
        BY <1>0, Bounds DEF RestoreTypeOK
    <3> QED
        BY <3>1 DEF Clean, Destructive, Options
  <2> QED
      BY <1>0, <1>3, <2>1 DEF Validate, KeepInv
<1>4. CASE CheckEmpty
  <2>1. vol["pgdata"]["junk"] # "none" /\ ~Clean(opt) => pc' = "idle"
      BY <1>4, Names DEF CheckEmpty, FileIgnore
  <2>2. UNCHANGED <<vol, hist, opt>> /\ pc = "check" /\ pc' \in {"idle", "control"}
      BY <1>4 DEF CheckEmpty
  <2> QED
      BY <1>0, <2>1, <2>2 DEF KeepInv, Clean
<1>5. CASE CleanDone \/ BuildDone \/ JobsDone
    BY <1>1, <1>5 DEF CleanDone, BuildDone, JobsDone
<1>6. CASE Done
    BY <1>0, <1>6 DEF Done, restoreVars, KeepInv, Clean
<1>7. CASE RemoveControl
  <2>1. CASE Changed("global", "control", "none") /\ pc' = "controlSync"
    <3>1. /\ hist'["pgdata"] = hist["pgdata"]
          /\ \A n \in {"junk", "version", "manifest"} : vol'["pgdata"][n] = vol["pgdata"][n]
        BY <2>1, Names DEF Changed
    <3> QED
        BY <1>0, <1>7, <2>1, <3>1 DEF RemoveControl, KeepInv, Clean
  <2>2. CASE UNCHANGED <<vol, hist>> /\ pc' = "clean"
      BY <1>0, <1>7, <2>2 DEF RemoveControl, KeepInv, Clean
  <2> QED
      BY <1>0, <1>7, <2>1, <2>2, RemoveControlDoes
<1>8. CASE RemoveControlSync
  <2>1. vol' = vol /\ hist'["pgdata"] = hist["pgdata"]
      BY <1>0, <1>8, SyncChanges, Names DEF RemoveControlSync
  <2> QED
      BY <1>0, <1>8, <2>1 DEF RemoveControlSync, KeepInv, Clean
<1>9. CASE SyncGlobal
    BY <1>0, <1>1, <1>9, SyncChanges, Names DEF SyncGlobal
<1>10. CASE SyncDirs
  <2>1. Head(toSync) \in Dirs
      BY <1>0, <1>10, Names DEF SyncDirs, RestoreTypeOK
  <2>2. vol' = vol /\ \A h \in hist'["pgdata"] : h \in hist["pgdata"]
      BY <1>0, <1>10, <2>1, SyncChanges, Names DEF SyncDirs
  <2> QED
      BY <1>1, <1>10, <2>2 DEF SyncDirs
<1>11. ASSUME NEW d \in Dirs, CleanEntry(d) PROVE KeepInv'
  <2>1. PICK n \in Invalid(d) : n \in Entry[d] /\ Changed(d, n, "none")
      BY <1>0, <1>11, CleanEntryDoes
  <2>2. n \notin {"version", "manifest"} \/ d # "pgdata"
      BY <2>1, Names DEF Invalid, ManifestFile, FileIgnore
  <2>3. vol'["pgdata"]["version"] = vol["pgdata"]["version"] /\ vol'["pgdata"]["manifest"] = vol["pgdata"]["manifest"]
      BY <2>1, <2>2, Names DEF Changed
  <2>4. vol'["pgdata"]["junk"] \in {vol["pgdata"]["junk"], "none"}
      BY <2>1, Names DEF Changed
  <2>5. \A h \in hist'["pgdata"] : h \in hist["pgdata"] \/ h = vol["pgdata"]
      BY <2>1, Names DEF Changed
  <2>6. pc = "clean" /\ UNCHANGED <<pc, opt>>
      BY <1>11 DEF CleanEntry
  <2> QED
      BY <1>0, <2>3, <2>4, <2>5, <2>6 DEF KeepInv, Clean
<1>12. CASE BuildEntry
  <2>1. PICK n \in Links \cup {"global"} : Changed("pgdata", n, "good")
      BY <1>0, <1>12, BuildEntryDoes
  <2> QED
      BY <1>2, <1>12, <2>1, Names DEF BuildEntry, Links
<1>13. CASE SaveManifest
    BY <1>0, <1>2, <1>13, SaveManifestDoes, Names DEF SaveManifest
<1>14. ASSUME NEW q \in DOMAIN queue, JobStart(q) PROVE KeepInv'
  <2>1. PICK f \in ManifestFile(opt) : \/ Changed(DirOf(PgPath(f)), PgPath(f), "good")
                                       \/ Changed(DirOf(PgPath(f)), PgPath(f), "part")
                                       \/ UNCHANGED <<vol, hist>>
      BY <1>0, <1>14, JobStartDoes
  <2>2. DirOf(PgPath(f)) \in Dirs /\ PgPath(f) \in Entry[DirOf(PgPath(f))] /\ PgPath(f) # "junk"
      BY SomeFiles, Place
  <2>3. pc = "jobs" /\ pc' = "jobs"
      BY <1>14 DEF JobStart
  <2> QED
      BY <1>1, <1>2, <2>1, <2>2, <2>3
<1>15. ASSUME NEW f \in open, JobEnd(f) PROVE KeepInv'
  <2>1. f \in ManifestFile(opt) /\ Changed(DirOf(PgPath(f)), PgPath(f), Wanted(f))
      BY <1>0, <1>15, JobEndDoes
  <2>2. DirOf(PgPath(f)) \in Dirs /\ PgPath(f) \in Entry[DirOf(PgPath(f))] /\ PgPath(f) # "junk"
      BY <2>1, SomeFiles, Place
  <2> QED
      BY <1>2, <1>15, <2>1, <2>2 DEF JobEnd
<1>16. CASE RecoveryOpen \/ RecoveryClose \/ RecoverySignal \/ RemoveManifest
  <2>1. RecoveryFile \in Entry["pgdata"] /\ RecoveryFile # "junk"
      BY Names DEF RecoveryFile
  <2>2. pc' \notin Early
      BY <1>16 DEF RecoveryOpen, RecoveryClose, RecoverySignal, RemoveManifest
  <2> QED
      BY <1>0, <1>2, <1>16, <2>1, <2>2, RecoveryDoes, Names
<1>17. CASE RenameControl
    BY <1>0, <1>1, <1>17, RenameControlDoes, Names DEF RenameControl
<1>18. CASE Kill
  <2>1. vol'["pgdata"]["junk"] = vol["pgdata"]["junk"] /\ hist' = hist
    <3>1. \A f \in open : PgPath(f) # "junk"
        BY <1>0, SomeFiles, Place DEF RestoreTypeOK
    <3> QED
        BY <1>0, <1>18, <3>1, KillDoes, Names
  <2> QED
      BY <1>1, <1>18, <2>1 DEF Kill
<1>19. CASE HostCrash
    BY <1>0, <1>19, HostCrashDoes, Names DEF HostCrash, KeepInv
<1> QED
    BY <1>3, <1>4, <1>5, <1>6, <1>7, <1>8, <1>9, <1>10, <1>11, <1>12, <1>13, <1>14, <1>15, <1>16, <1>17, <1>18, <1>19
       DEF RestoreNext, Steps

LEMMA FinishStep == RestoreInv /\ RestoreNext => FinishInv'
<1> SUFFICES ASSUME RestoreInv, RestoreNext PROVE FinishInv'
    OBVIOUS
<1>0. RestoreTypeOK /\ FinishInv /\ VolType
    BY TypeParts DEF RestoreInv
<1> DEFINE Last == {"recovery", "recoveryClose", "signal", "unsave", "sync"}
<1>1. ASSUME pc' \notin Last PROVE FinishInv'
    BY <1>1 DEF FinishInv
<1>2. ASSUME RestoreNext, pc' \in Last
      PROVE  \/ JobsDone \/ RecoveryOpen \/ RecoveryClose \/ RecoverySignal \/ RemoveManifest \/ SyncDirs
    BY Zenon, <1>2 DEF RestoreNext, Steps, Validate, CheckEmpty, RemoveControl, RemoveControlSync, CleanEntry, CleanDone, BuildEntry,
                BuildDone, SaveManifest, JobStart, JobEnd, RenameControl, SyncGlobal, Kill, HostCrash, Done, restoreVars
<1>3. CASE JobsDone
    BY <1>0, <1>3 DEF JobsDone, FinishInv, RestoreTypeOK, Options
<1>4. CASE RecoveryOpen
    BY <1>0, <1>4 DEF RecoveryOpen, FinishInv
<1>5. CASE RecoveryClose
  <2>1. vol'["pgdata"][RecoveryFile] = "recov"
      BY <1>0, <1>5, RecoveryDoes DEF Changed
  <2> QED
      BY <1>0, <1>5, <2>1 DEF RecoveryClose, FinishInv, RecoveryFile
<1>6. CASE RecoverySignal
  <2>1. vol'["pgdata"][RecoveryFile] = vol["pgdata"][RecoveryFile]
      BY <1>0, <1>6, RecoveryDoes, Names DEF Changed, RecoveryFile
  <2> QED
      BY <1>0, <1>6, <2>1 DEF RecoverySignal, FinishInv, RecoveryFile
<1>7. CASE RemoveManifest
  <2>1. vol'["pgdata"][RecoveryFile] = vol["pgdata"][RecoveryFile] /\ vol'["pgdata"]["manifest"] = "none"
      BY <1>0, <1>7, RecoveryDoes, Names DEF Changed, RecoveryFile
  <2>2. toSync' = <<"ext", "pgdata", "ts">>
      BY <1>7 DEF RemoveManifest
  <2>3. Len(toSync') = 3 /\ toSync'[1] = "ext" /\ toSync'[2] = "pgdata" /\ toSync'[3] = "ts"
      BY <2>2
  <2>4. \A d \in Dirs \ {"global"} : \E i \in 1 .. Len(toSync') : toSync'[i] = d
      BY <2>3, Names
  <2> QED
      BY <1>0, <1>7, <2>1, <2>4 DEF RemoveManifest, FinishInv, RecoveryFile
<1>8. CASE SyncDirs
  <2>1. /\ toSync \in Seq({"ext", "pgdata", "ts"}) /\ toSync # <<>> /\ toSync' = Tail(toSync)
        /\ Head(toSync) \in {"ext", "pgdata", "ts"}
      BY <1>0, <1>8 DEF SyncDirs, RestoreTypeOK
  <2>2. /\ vol' = vol /\ hist'[Head(toSync)] = {}
        /\ \A e \in Dirs : e # Head(toSync) => hist'[e] = hist[e]
      BY <1>0, <1>8, <2>1, SyncChanges, Names DEF SyncDirs
  <2>3. ASSUME NEW d \in Dirs \ {"global"}, d # Head(toSync), NEW i \in 1 .. Len(toSync), toSync[i] = d
        PROVE  \E j \in 1 .. Len(toSync') : toSync'[j] = d
    <3>1. i # 1 /\ i - 1 \in 1 .. Len(toSync') /\ toSync'[i - 1] = toSync[i]
        BY <2>1, <2>3
    <3> QED
        BY <2>3, <3>1
  <2>4. \A d \in Dirs \ {"global"} : hist'[d] = {} \/ \E j \in 1 .. Len(toSync') : toSync'[j] = d
      BY <1>0, <1>8, <2>2, <2>3 DEF SyncDirs, FinishInv
  <2> QED
      BY <1>0, <1>8, <2>2, <2>4 DEF SyncDirs, FinishInv, RecoveryFile
<1> QED
    BY <1>1, <1>2, <1>3, <1>4, <1>5, <1>6, <1>7, <1>8

\* A change elsewhere leaves what a job wrote
LEMMA AtOther ==
    ASSUME NEW d \in Dirs, NEW n \in Entry[d], NEW c, Changed(d, n, c), NEW f \in Files, n # PgPath(f)
    PROVE  At(vol', f) = At(vol, f)
    BY Place DEF Changed, At

LEMMA AtSame ==
    ASSUME NEW c, NEW f \in Files, Changed(DirOf(PgPath(f)), PgPath(f), c)
    PROVE  At(vol', f) = c
    BY DEF Changed, At

LEMMA JobsStep == RestoreInv /\ RestoreNext => JobsInv'
<1> SUFFICES ASSUME RestoreInv, RestoreNext PROVE JobsInv'
    OBVIOUS
<1>0. RestoreTypeOK /\ JobsInv /\ LateInv /\ VolType /\ ManifestFile(opt) \subseteq Files
    BY TypeParts, SomeFiles DEF RestoreInv
<1> DEFINE Late == {"save", "jobs"} \cup Copied
<1>a. Copied = {"recovery", "recoveryClose", "signal", "unsave", "sync"}
    BY DEF Copied, Built, Cleaned, Working
<1>1. ASSUME pc' \notin Late PROVE JobsInv'
    BY <1>1 DEF JobsInv
<1>2. ASSUME RestoreNext, pc' \in Late
      PROVE  \/ BuildDone \/ SaveManifest \/ (\E q \in DOMAIN queue : JobStart(q)) \/ (\E f \in open : JobEnd(f))
             \/ JobsDone \/ RecoveryOpen \/ RecoveryClose \/ RecoverySignal \/ RemoveManifest \/ SyncDirs
    BY Zenon, <1>2, <1>a DEF RestoreNext, Steps, Validate, CheckEmpty, RemoveControl, RemoveControlSync, CleanEntry, CleanDone,
                      BuildEntry, RenameControl, SyncGlobal, Kill, HostCrash, Done, restoreVars
<1>3. CASE BuildDone
  <2>1. queue' = ProcessQueue /\ pc' = "save" /\ opt' = opt
      BY <1>3 DEF BuildDone
  <2>2. \A f \in ManifestFile(opt') : Queued(f)'
      BY <2>1, QueueTypes DEF Queued, ManifestFile
  <2> QED
      BY <1>a, <2>1, <2>2 DEF JobsInv
<1>4. CASE SaveManifest
  <2>1. \A f \in ManifestFile(opt) : Queued(f)
      BY <1>0, <1>4 DEF SaveManifest, JobsInv
  <2>2. \A f \in ManifestFile(opt') : Queued(f)'
      BY Zenon, <1>4, <2>1 DEF SaveManifest, Queued, ManifestFile
  <2> QED
      BY <1>4, <1>a, <2>2 DEF SaveManifest, JobsInv
<1>5. ASSUME NEW q \in DOMAIN queue, JobStart(q) PROVE JobsInv'
  <2>1. PICK f \in ManifestFile(opt) :
               /\ f = Head(queue[q]) /\ queue[q] # <<>>
               /\ \/ /\ Keep(f, At(vol, f)) /\ open' = open
                     /\ \/ At(vol, f) = "goodt" /\ Changed(DirOf(PgPath(f)), PgPath(f), "good")
                        \/ At(vol, f) # "goodt" /\ UNCHANGED <<vol, hist>>
                  \/ /\ ~Keep(f, At(vol, f)) /\ open' = open \cup {f}
                     /\ Changed(DirOf(PgPath(f)), PgPath(f), "part")
      BY <1>0, <1>5, JobStartDoes
  <2>2. pc = "jobs" /\ pc' = "jobs" /\ opt' = opt /\ zero' = zero /\ queue' = [queue EXCEPT ![q] = Tail(queue[q])]
      BY <1>5 DEF JobStart
  <2>3. f \in Files /\ DirOf(PgPath(f)) \in Dirs /\ PgPath(f) \in Entry[DirOf(PgPath(f))]
      BY <1>0, Place
  <2>4. ASSUME NEW g \in Files, g # f PROVE At(vol', g) = At(vol, g)
    <3>1. PgPath(g) # PgPath(f)
        BY <2>3, <2>4 DEF PgPath, Files
    <3>2. CASE UNCHANGED <<vol, hist>>
        BY <3>2 DEF At
    <3>3. ASSUME NEW c, Changed(DirOf(PgPath(f)), PgPath(f), c) PROVE At(vol', g) = At(vol, g)
        BY <2>3, <2>4, <3>1, <3>3, AtOther
    <3> QED
        BY <2>1, <3>2, <3>3
  <2>5. f \in open' \/ At(vol', f) = Wanted(f)
    <3>1. CASE ~Keep(f, At(vol, f))
        BY <2>1, <3>1
    <3>2. CASE Keep(f, At(vol, f))
      <4>1. Wanted(f) = "good"
          BY <3>2 DEF Keep, Wanted
      <4>2. At(vol, f) = "othert" => f \in late
        <5>1. At(vol, f) = "othert" => PgPath(f) \in late
            BY <1>0, <2>3 DEF LateInv, At
        <5>2. late \subseteq {"rel", "tsrel"}
            BY <1>0 DEF RestoreTypeOK
        <5> QED
            BY <2>3, <5>1, <5>2, Place
      <4>3. At(vol, f) \in {"good", "goodt"}
        <5>1. opt.force => Timed(At(vol, f)) /\ f \notin late
            BY <3>2 DEF Keep
        <5>2. ~opt.force => At(vol, f) \in {"good", "goodt"}
            BY <3>2 DEF Keep
        <5> QED
            BY <4>2, <5>1, <5>2 DEF Timed
      <4> QED
          BY <2>1, <2>3, <3>2, <4>1, <4>3, AtSame DEF At
    <3> QED
        BY <3>1, <3>2
  <2>6. ASSUME NEW g \in ManifestFile(opt), Queued(g), g # f PROVE Queued(g)'
    <3>1. queue[q] \in Seq(ManifestFile(opt))
        BY <1>0 DEF RestoreTypeOK
    <3>2. PICK p \in DOMAIN queue : \E i \in 1 .. Len(queue[p]) : queue[p][i] = g
        BY <2>6 DEF Queued
    <3>3. CASE p # q
        BY <2>2, <3>2, <3>3 DEF Queued
    <3>4. CASE p = q
      <4>1. PICK i \in 1 .. Len(queue[q]) : queue[q][i] = g
          BY <3>2, <3>4
      <4>2. i # 1 /\ i - 1 \in 1 .. Len(Tail(queue[q])) /\ Tail(queue[q])[i - 1] = g
          BY <2>1, <2>6, <3>1, <4>1
      <4> QED
          BY <2>2, <4>2 DEF Queued
    <3> QED
        BY <3>3, <3>4
  <2>7. \A g \in ManifestFile(opt) : Queued(g)' \/ g \in open' \/ At(vol', g) = Wanted(g)
      BY <1>0, <2>1, <2>2, <2>4, <2>5, <2>6 DEF JobsInv
  <2> QED
      BY <1>a, <2>2, <2>7 DEF JobsInv, ManifestFile, Wanted
<1>6. ASSUME NEW f \in open, JobEnd(f) PROVE JobsInv'
  <2>1. f \in ManifestFile(opt) /\ Changed(DirOf(PgPath(f)), PgPath(f), Wanted(f))
      BY <1>0, <1>6, JobEndDoes
  <2>2. f \in Files /\ DirOf(PgPath(f)) \in Dirs /\ PgPath(f) \in Entry[DirOf(PgPath(f))]
      BY <1>0, <2>1, Place
  <2>3. ASSUME NEW g \in Files, g # f PROVE At(vol', g) = At(vol, g)
    <3>1. PgPath(g) # PgPath(f)
        BY <2>2, <2>3 DEF PgPath, Files
    <3> QED
        BY <2>1, <2>2, <2>3, <3>1, AtOther
  <2>4. At(vol', f) = Wanted(f)
      BY <2>1, <2>2, AtSame
  <2>5. pc = "jobs" /\ pc' = "jobs" /\ UNCHANGED <<opt, zero, queue>> /\ open' = open \ {f}
      BY <1>6 DEF JobEnd
  <2>6. \A g \in ManifestFile(opt) : Queued(g) \/ g \in open' \/ At(vol', g) = Wanted(g)
      BY <1>0, <2>3, <2>4, <2>5 DEF JobsInv
  <2> QED
      BY <1>a, <2>5, <2>6 DEF JobsInv, ManifestFile, Wanted, Queued
<1>7. CASE JobsDone
  <2>1. \A q \in DOMAIN queue : queue[q] = <<>>
      BY <1>7 DEF JobsDone
  <2>2. \A f : ~Queued(f)
      BY <2>1 DEF Queued
  <2>3. \A f \in ManifestFile(opt) : At(vol, f) = Wanted(f)
      BY <1>0, <1>7, <2>2 DEF JobsDone, JobsInv
  <2> QED
      BY <1>7, <1>a, <2>3 DEF JobsDone, JobsInv, ManifestFile, Wanted, At
<1>8. CASE RecoveryOpen \/ RecoveryClose \/ RecoverySignal \/ RemoveManifest
  <2>1. pc \in Copied /\ pc' \in Copied /\ UNCHANGED <<opt, zero>>
      BY <1>8, <1>a DEF RecoveryOpen, RecoveryClose, RecoverySignal, RemoveManifest
  <2>2. PICK n \in {"auto", "rconf", "signal", "manifest"} : \E c : Changed("pgdata", n, c)
      BY <1>0, <1>8, RecoveryDoes DEF RecoveryFile
  <2>3. \A f \in Files \ {"auto"} : PgPath(f) # n
      BY <2>2, Place
  <2>4. \A f \in Files \ {"auto"} : At(vol', f) = At(vol, f)
      BY <2>2, <2>3, AtOther, Names
  <2>5. \A f \in ManifestFile(opt) \ {"auto"} : At(vol', f) = Wanted(f)
      BY <1>0, <2>1, <2>4 DEF JobsInv
  <2> QED
      BY <1>a, <2>1, <2>5 DEF JobsInv, ManifestFile, Wanted
<1>9. CASE SyncDirs
  <2>1. pc = "sync" /\ pc' = "sync" /\ UNCHANGED <<opt, zero, vol>>
      BY <1>9 DEF SyncDirs, Sync
  <2> QED
      BY <1>0, <1>a, <2>1 DEF JobsInv, ManifestFile, Wanted, At
<1> QED
    BY <1>1, <1>2, <1>3, <1>4, <1>5, <1>6, <1>7, <1>8, <1>9

Allowed == {"controltmp", "signal", "rconf"}

\* Which changes make nothing invalid but what is allowed
LEMMA StaysValid ==
    ASSUME NEW d \in Dirs, NEW n \in Entry[d], NEW c, Changed(d, n, c), opt' = opt,
           n \in ManifestFile(opt) \cup Allowed \cup {"global"} \/ (d = "pgdata" /\ n = "manifest") \/ (c = "good" /\ n \in Links),
           \A e \in Dirs : Invalid(e) \subseteq Allowed
    PROVE  \A e \in Dirs : Invalid(e)' \subseteq Allowed
<1> SUFFICES ASSUME NEW e \in Dirs, NEW m \in Invalid(e)' PROVE m \in Allowed
    BY DEF Allowed
<1>1. /\ m \in Entry[e] \ {"control"} /\ vol'[e][m] # "none" /\ e # "ext" /\ m \notin ManifestFile(opt) \cup {"global"}
      /\ (e = "pgdata" => m \notin FileIgnore(opt)) /\ (m \in Links => vol'[e][m] # "good")
    BY DEF Invalid, ManifestFile, FileIgnore
<1>2. CASE e = d /\ m = n
    BY <1>1, <1>2 DEF Changed, FileIgnore
<1>3. CASE ~(e = d /\ m = n)
  <2>1. vol'[e][m] = vol[e][m]
      BY <1>1, <1>3 DEF Changed
  <2>2. m \in Invalid(e)
      BY <1>1, <2>1 DEF Invalid
  <2> QED
      BY <2>2
<1> QED
    BY <1>2, <1>3

\* Which changes leave links and paths
LEMMA StaysBuilt ==
    ASSUME NEW d \in Dirs, NEW n \in Entry[d], NEW c, Changed(d, n, c), n \notin Links \cup {"global"}, Missing = {}
    PROVE  Missing' = {}
    BY Names DEF Changed, Missing, Links

LEMMA BuiltStep == RestoreInv /\ RestoreNext => BuiltInv'
<1> SUFFICES ASSUME RestoreInv, RestoreNext PROVE BuiltInv'
    OBVIOUS
<1>0. RestoreTypeOK /\ BuiltInv /\ FinishInv /\ VolType /\ ManifestFile(opt) \subseteq Files
    BY TypeParts, SomeFiles DEF RestoreInv
<1>a. /\ Built = {"save", "jobs", "recovery", "recoveryClose", "signal", "unsave", "sync"}
      /\ Cleaned = Built \cup {"build"}
    BY DEF Built, Cleaned, Working
<1>1. ASSUME pc' \notin Cleaned PROVE BuiltInv'
    BY <1>1, <1>a DEF BuiltInv
<1>2. ASSUME RestoreNext, pc' \in Cleaned
      PROVE  \/ CleanDone \/ BuildEntry \/ BuildDone \/ SaveManifest
             \/ (\E q \in DOMAIN queue : JobStart(q)) \/ (\E f \in open : JobEnd(f))
             \/ JobsDone \/ RecoveryOpen \/ RecoveryClose \/ RecoverySignal \/ RemoveManifest \/ SyncDirs
    BY Zenon, <1>2, <1>a DEF RestoreNext, Steps, Validate, CheckEmpty, RemoveControl, RemoveControlSync, CleanEntry,
                      RenameControl, SyncGlobal, Kill, HostCrash, Done, restoreVars
<1>3. ASSUME pc \in Built, pc' \in Built, opt' = opt, NEW d \in Dirs, NEW n \in Entry[d], NEW c, Changed(d, n, c),
             n \in ManifestFile(opt) \cup Allowed \/ (d = "pgdata" /\ n = "manifest")
      PROVE  BuiltInv'
  <2>0. \A e \in Dirs : Invalid(e) \subseteq Allowed
      BY <1>0, <1>3, <1>a DEF BuiltInv, Allowed
  <2>1. \A e \in Dirs : Invalid(e)' \subseteq Allowed
      BY <1>3, <2>0, StaysValid
  <2>2. n \notin Links \cup {"global"}
      BY <1>3 DEF ManifestFile, Allowed, Links
  <2>3. Missing' = {}
      BY <1>0, <1>3, <2>2, StaysBuilt DEF BuiltInv
  <2> QED
      BY <1>3, <1>a, <2>1, <2>3 DEF BuiltInv, Allowed
<1>4. ASSUME pc \in Built, pc' \in Built, UNCHANGED <<opt, vol>> PROVE BuiltInv'
  <2>1. Missing' = Missing /\ \A e \in Dirs : Invalid(e)' = Invalid(e)
      BY <1>4 DEF Missing, Invalid, ManifestFile, FileIgnore
  <2> QED
      BY <1>0, <1>4, <1>a, <2>1 DEF BuiltInv
<1>5. CASE CleanDone
  <2>1. \A e \in Dirs : Invalid(e)' = {}
      BY <1>5 DEF CleanDone, Invalid, ManifestFile, FileIgnore
  <2> QED
      BY <1>5, <1>a, <2>1 DEF CleanDone, BuiltInv
<1>6. CASE BuildEntry
  <2>1. PICK n \in Links \cup {"global"} : Changed("pgdata", n, "good")
      BY <1>0, <1>6, BuildEntryDoes
  <2>2. pc = "build" /\ pc' = "build" /\ opt' = opt
      BY <1>6 DEF BuildEntry
  <2>3. n \in Entry["pgdata"] /\ "pgdata" \in Dirs
      BY <2>1, Names DEF Links
  <2>0. \A e \in Dirs : Invalid(e) \subseteq Allowed
      BY <1>0, <1>a, <2>2 DEF BuiltInv, Allowed
  <2>4. \A e \in Dirs : Invalid(e)' \subseteq Allowed
      BY <2>0, <2>1, <2>2, <2>3, StaysValid
  <2> QED
      BY <1>a, <2>2, <2>4 DEF BuiltInv, Allowed
<1>7. CASE BuildDone
  <2>1. Missing' = {} /\ \A e \in Dirs : Invalid(e)' = Invalid(e)
      BY <1>7 DEF BuildDone, Missing, Invalid, ManifestFile, FileIgnore
  <2> QED
      BY <1>0, <1>7, <1>a, <2>1 DEF BuildDone, BuiltInv
<1>8. CASE SaveManifest
  <2>1. "pgdata" \in Dirs /\ "manifest" \in Entry["pgdata"]
      BY Names
  <2>2. pc = "save" /\ pc' = "jobs" /\ opt' = opt
      BY <1>8 DEF SaveManifest
  <2> QED
      BY <1>0, <1>3, <1>8, <1>a, <2>1, <2>2, SaveManifestDoes
<1>9. ASSUME NEW q \in DOMAIN queue, JobStart(q) PROVE BuiltInv'
  <2>1. PICK f \in ManifestFile(opt) : \/ Changed(DirOf(PgPath(f)), PgPath(f), "good")
                                       \/ Changed(DirOf(PgPath(f)), PgPath(f), "part")
                                       \/ UNCHANGED <<vol, hist>>
      BY <1>0, <1>9, JobStartDoes
  <2>2. DirOf(PgPath(f)) \in Dirs /\ PgPath(f) \in Entry[DirOf(PgPath(f))] /\ PgPath(f) \in ManifestFile(opt) \cup Allowed
      BY <1>0, Place DEF Allowed
  <2>3. pc = "jobs" /\ pc' = "jobs" /\ opt' = opt
      BY <1>9 DEF JobStart
  <2> QED
      BY <1>3, <1>4, <1>a, <2>1, <2>2, <2>3
<1>10. ASSUME NEW f \in open, JobEnd(f) PROVE BuiltInv'
  <2>1. f \in ManifestFile(opt) /\ Changed(DirOf(PgPath(f)), PgPath(f), Wanted(f))
      BY <1>0, <1>10, JobEndDoes
  <2>2. DirOf(PgPath(f)) \in Dirs /\ PgPath(f) \in Entry[DirOf(PgPath(f))] /\ PgPath(f) \in ManifestFile(opt) \cup Allowed
      BY <1>0, <2>1, Place DEF Allowed
  <2>3. pc = "jobs" /\ pc' = "jobs" /\ opt' = opt
      BY <1>10 DEF JobEnd
  <2> QED
      BY <1>3, <1>a, <2>1, <2>2, <2>3
<1>11. CASE JobsDone \/ SyncDirs
    BY <1>4, <1>11, <1>a DEF JobsDone, SyncDirs, Sync
<1>12. CASE RecoveryOpen \/ RecoveryClose
  <2>1. pc \in Built /\ pc' \in Built /\ opt' = opt /\ opt.type = "default"
      BY <1>0, <1>12, <1>a DEF RecoveryOpen, RecoveryClose, FinishInv
  <2>2. RecoveryFile \in Entry["pgdata"] /\ RecoveryFile \in ManifestFile(opt) \cup Allowed /\ "pgdata" \in Dirs
      BY <2>1, Names DEF RecoveryFile, ManifestFile, Allowed
  <2>3. \E c : Changed("pgdata", RecoveryFile, c)
      BY <1>0, <1>12, RecoveryDoes
  <2> QED
      BY <1>3, <2>1, <2>2, <2>3
<1>13. CASE RecoverySignal \/ RemoveManifest
  <2>1. pc \in Built /\ pc' \in Built /\ opt' = opt
      BY <1>13, <1>a DEF RecoverySignal, RemoveManifest
  <2>2. "signal" \in Entry["pgdata"] /\ "manifest" \in Entry["pgdata"] /\ "signal" \in Allowed /\ "pgdata" \in Dirs
      BY Names DEF Allowed
  <2> QED
      BY <1>0, <1>3, <1>13, <2>1, <2>2, RecoveryDoes
<1> QED
    BY <1>1, <1>2, <1>5, <1>6, <1>7, <1>8, <1>9, <1>10, <1>11, <1>12, <1>13

\* What is in place stays so while no file and no option changes
LEMMA StaysReady ==
    ASSUME Ready, UNCHANGED <<vol, opt, zero, spool>>, \A d \in Dirs \ {"global"} : hist'[d] = {}
    PROVE  Ready'
<1>1. Missing' = Missing /\ \A e \in Dirs : Invalid(e)' = Invalid(e)
    BY DEF Missing, Invalid, ManifestFile, FileIgnore
<1>2. ManifestFile(opt)' = ManifestFile(opt) /\ RecoveryFile' = RecoveryFile /\ \A f : Wanted(f)' = Wanted(f)
    BY DEF ManifestFile, RecoveryFile, Wanted
<1>3. Whole'
    BY <1>1, <1>2 DEF Ready, Whole
<1> QED
    BY <1>3 DEF Ready

\* All is in place when pg_control gets its name
LEMMA RenameReady ==
    ASSUME RestoreInv, RenameControl
    PROVE  Ready'
<1>0. /\ RestoreTypeOK /\ VolType /\ pc = "sync" /\ toSync = <<>> /\ UNCHANGED <<opt, zero, spool>>
      /\ BuiltInv /\ JobsInv /\ FinishInv /\ EndInv
    BY TypeParts DEF RestoreInv, RenameControl
<1>1. /\ vol'["global"]["control"] = vol["global"]["controltmp"] /\ vol'["global"]["controltmp"] = "none"
      /\ \A e \in Dirs : e # "global" => vol'[e] = vol[e] /\ hist'[e] = hist[e]
    BY <1>0, RenameControlDoes
<1>2. \A f \in ManifestFile(opt) \ {"auto"} : At(vol, f) = Wanted(f)
    BY <1>0 DEF JobsInv, Copied, Built, Cleaned, Working
<1>3. vol'["global"]["control"] = "good"
  <2>1. "control" \in ManifestFile(opt) \ {"auto"} /\ DirOf(PgPath("control")) = "global" /\ PgPath("control") = "controltmp"
      BY SomeFiles, Where DEF PgPath
  <2>2. "control" \notin zero
      BY <1>0 DEF RestoreTypeOK
  <2> QED
      BY <1>1, <1>2, <2>1, <2>2 DEF At, Wanted
<1>4. \A f \in ManifestFile(opt) \ {"control", "auto"} : vol'[DirOf(f)][f] = Wanted(f)
  <2>1. ASSUME NEW f \in ManifestFile(opt) \ {"control", "auto"} PROVE vol'[DirOf(f)][f] = Wanted(f)
    <3>1. f \in {"version", "rel", "tsrel", "conf"} /\ PgPath(f) = f
        BY <2>1, SomeFiles DEF Files, PgPath
    <3>2. DirOf(f) \in Dirs /\ DirOf(f) # "global"
        BY <3>1, Where, Names
    <3> QED
        BY <1>1, <1>2, <3>1, <3>2 DEF At
  <2> QED
      BY <2>1
<1>5. opt.type = "default" => vol'["pgdata"][RecoveryFile] = "recov"
    BY <1>0, <1>1, Names DEF FinishInv
<1>6. Missing' = {} /\ vol'["pgdata"]["manifest"] = "none"
  <2>1. Missing = {} /\ vol["pgdata"]["manifest"] = "none"
      BY <1>0 DEF BuiltInv, FinishInv, Built, Cleaned, Working
  <2> QED
      BY <1>1, <2>1, Names DEF Missing
<1>7. \A d \in Dirs : Invalid(d)' \ {"signal", "rconf"} = {}
  <2>1. \A d \in Dirs : Invalid(d) \subseteq {"controltmp", "signal", "rconf"}
      BY <1>0 DEF BuiltInv, Cleaned, Working
  <2>2. Invalid("global")' = {}
    <3>1. \A n \in Entry["global"] \ {"control"} : vol'["global"][n] = "none"
        BY <1>1, Names
    <3> QED
        BY <3>1 DEF Invalid
  <2>3. \A d \in Dirs \ {"global"} : Invalid(d)' = Invalid(d)
      BY <1>0, <1>1 DEF Invalid, ManifestFile, FileIgnore
  <2>4. \A d \in Dirs \ {"global"} : "controltmp" \notin Invalid(d)
      BY Names DEF Invalid
  <2> QED
      BY <2>1, <2>2, <2>3, <2>4
<1>8. \A d \in Dirs \ {"global"} : hist'[d] = {}
  <2>1. ASSUME NEW d \in Dirs \ {"global"} PROVE hist[d] = {}
    <3>1. Len(toSync) = 0
        BY <1>0
    <3>2. ~(\E i \in 1 .. Len(toSync) : toSync[i] = d)
        BY <3>1
    <3> QED
        BY <1>0, <2>1, <3>2 DEF FinishInv
  <2> QED
      BY <1>1, <2>1
<1>9. ~spool'
    BY <1>0 DEF EndInv
<1>10. ManifestFile(opt)' = ManifestFile(opt) /\ RecoveryFile' = RecoveryFile /\ \A f : Wanted(f)' = Wanted(f)
    BY <1>0 DEF ManifestFile, RecoveryFile, Wanted
<1>11. Whole'
    BY <1>0, <1>4, <1>5, <1>6, <1>7, <1>10 DEF Whole
<1> QED
    BY <1>3, <1>8, <1>9, <1>11 DEF Ready

LEMMA EndStep == RestoreInv /\ RestoreNext => EndInv'
<1> SUFFICES ASSUME RestoreInv, RestoreNext PROVE EndInv'
    OBVIOUS
<1>0. RestoreTypeOK /\ EndInv /\ ControlInv /\ VolType /\ touched \in BOOLEAN
    BY TypeParts DEF RestoreInv, RestoreTypeOK
<1>a. /\ Built = {"save", "jobs", "recovery", "recoveryClose", "signal", "unsave", "sync"}
      /\ Working = Built \cup {"clean", "build"} /\ Renamed = {"syncGlobal", "end"}
    BY DEF Built, Cleaned, Working, Renamed
<1>1. CASE (\E o \in restoreCase.options : Validate(o)) \/ CheckEmpty \/ RemoveControl \/ RemoveControlSync
           \/ (\E d \in Dirs : CleanEntry(d)) \/ CleanDone \/ BuildEntry \/ BuildDone
  <2>1. /\ pc' \notin Built \ {"save"} /\ pc' \notin Renamed /\ ~spool'
        /\ pc' = "idle" => pc = "check" /\ UNCHANGED <<vol, touched>>
    <3>1. CASE \E o \in restoreCase.options : Validate(o)
      BY <1>0, <1>a, <3>1 DEF Validate, EndInv
    <3>2. CASE CheckEmpty
      BY <1>0, <1>a, <3>2 DEF CheckEmpty, EndInv
    <3>3. CASE RemoveControl
      BY <1>0, <1>a, <3>3 DEF RemoveControl, EndInv
    <3>4. CASE RemoveControlSync
      BY <1>0, <1>a, <3>4 DEF RemoveControlSync, EndInv
    <3>5. CASE \E d \in Dirs : CleanEntry(d)
      BY <1>0, <1>a, <3>5 DEF CleanEntry, EndInv
    <3>6. CASE CleanDone
      BY <1>0, <1>a, <3>6 DEF CleanDone, EndInv
    <3>7. CASE BuildEntry
      BY <1>0, <1>a, <3>7 DEF BuildEntry, EndInv
    <3>8. CASE BuildDone
      BY <1>0, <1>a, <3>8 DEF BuildDone, EndInv
    <3> QED
      BY <1>1, <3>1, <3>2, <3>3, <3>4, <3>5, <3>6, <3>7, <3>8
  <2> QED
      BY <1>0, <1>a, <2>1 DEF EndInv, ControlInv
<1>2. CASE SaveManifest \/ (\E q \in DOMAIN queue : JobStart(q))
    BY <1>0, <1>2, <1>a DEF SaveManifest, JobStart, EndInv
<1>3. CASE JobsDone \/ RecoveryOpen \/ RecoveryClose \/ RecoverySignal \/ RemoveManifest \/ SyncDirs \/ (\E f \in open : JobEnd(f))
  <2>1. pc \in Built \ {"save"} /\ pc' \in Built /\ UNCHANGED <<touched, spool>>
      BY <1>3, <1>a DEF JobsDone, RecoveryOpen, RecoveryClose, RecoverySignal, RemoveManifest, SyncDirs, JobEnd
  <2> QED
      BY <1>0, <1>a, <2>1 DEF EndInv
<1>4. CASE RenameControl
  <2>1. Ready'
      BY <1>4, RenameReady
  <2>2. pc = "sync" /\ pc' = "syncGlobal" /\ UNCHANGED <<touched, spool, unsynced>>
      BY <1>4 DEF RenameControl, faultVars
  <2>3. ~unsynced => \A h \in hist'["global"] : h["control"] = "none"
      BY <1>0, <1>4, <1>a, <2>2, RenameControlDoes DEF ControlInv
  <2> QED
      BY <1>0, <1>a, <2>1, <2>2, <2>3 DEF EndInv
<1>5. CASE SyncGlobal
  <2>1. pc = "syncGlobal" /\ pc' = "end" /\ UNCHANGED <<touched, spool, opt, zero>>
      BY <1>5 DEF SyncGlobal
  <2>2. vol' = vol /\ hist'["global"] = {} /\ \A d \in Dirs : d # "global" => hist'[d] = hist[d]
      BY Zenon, <1>0, <1>5, SyncChanges, Names DEF SyncGlobal
  <2>3. Ready /\ touched
      BY <1>0, <1>a, <2>1 DEF EndInv
  <2>4. Ready'
      BY Zenon, <2>1, <2>2, <2>3, StaysReady DEF Ready
  <2> QED
      BY Zenon, <1>0, <1>a, <2>1, <2>2, <2>3, <2>4 DEF EndInv
<1>6. CASE Kill
  <2>1. pc' = "idle" /\ UNCHANGED <<touched, spool, opt, zero, hist>> /\ (unsynced => unsynced')
      BY Zenon, <1>6 DEF Kill
  <2>2. pc \notin {"idle", "end"}
      BY <1>6 DEF Kill
  <2>3. vol'["global"]["control"] = vol["global"]["control"]
    <3>1. \A f \in open : PgPath(f) # "control"
        BY <1>0, SomeFiles, Place DEF RestoreTypeOK
    <3> QED
        BY <1>0, <1>6, <3>1, KillDoes, Names
  <2>4. ~spool'
      BY <1>0, <2>1, <2>2 DEF EndInv
  <2>5. CASE pc = "syncGlobal"
    <3>1. vol' = vol
      <4>1. open = {}
          BY <1>0, <2>5 DEF RestoreTypeOK
      <4> QED
          BY <1>6, <4>1 DEF Kill
    <3>2. Ready
        BY <1>0, <1>a, <2>5 DEF EndInv
    <3>3. Ready'
        BY <2>1, <3>1, <3>2, StaysReady DEF Ready
    <3> QED
        BY <1>0, <1>a, <2>1, <2>4, <2>5, <3>1, <3>3 DEF EndInv
  <2>6. CASE pc # "syncGlobal"
    <3>1. touched => vol["global"]["control"] = "none"
        BY <1>0, <1>a, <2>2, <2>6 DEF ControlInv, RestoreTypeOK, EndInv, Phase
    <3> QED
        BY <1>a, <2>1, <2>3, <2>4, <3>1 DEF EndInv
  <2> QED
      BY <2>5, <2>6
<1>7. CASE HostCrash
  <2>1. UNCHANGED <<touched, spool, opt, zero>> /\ pc' = (IF pc = "end" THEN "end" ELSE "idle")
      BY <1>7 DEF HostCrash
  <2>2. \A d \in Dirs : hist'[d] = {} /\ vol'[d] \in hist[d] \cup {vol[d]}
      BY <1>0, <1>7, HostCrashDoes
  <2>3. unsynced' = (unsynced /\ vol'["global"]["control"] # "none")
      BY <1>7 DEF HostCrash
  <2>4. ASSUME Ready, vol'["global"] = vol["global"] PROVE Ready'
    <3>1. \A d \in Dirs : vol'[d] = vol[d]
        BY <2>2, <2>4 DEF Ready
    <3>2. vol' = vol
      <4>1. vol' = [d \in Dirs |-> vol'[d]] /\ vol = [d \in Dirs |-> vol[d]]
          BY <1>0, <1>7, HostCrashDoes DEF VolType
      <4> QED
          BY <3>1, <4>1
    <3> QED
        BY <2>1, <2>2, <2>4, <3>2, StaysReady
  <2>5. CASE pc = "end"
    <3>1. Ready /\ hist["global"] = {} /\ vol'["global"] = vol["global"] /\ touched
        BY <1>0, <1>a, <2>2, <2>5, Names DEF EndInv
    <3> QED
        BY <1>0, <1>a, <2>1, <2>2, <2>4, <2>5, <3>1, Names DEF EndInv
  <2>6. CASE pc # "end"
    <3>1. ASSUME touched, ~unsynced', vol'["global"]["control"] # "none" PROVE Ready'
      <4>1. ~unsynced
          BY <1>0, <2>3, <3>1 DEF RestoreTypeOK
      <4>2. pc # "controlSync"
          BY <1>0, <3>1 DEF ControlInv
      <4>3. vol'["global"] \in hist["global"] \cup {vol["global"]}
          BY <2>2, Names
      <4>4. vol["global"]["control"] # "none"
          BY <1>0, <3>1, <4>1, <4>2, <4>3 DEF ControlInv
      <4>5. pc \in {"idle", "syncGlobal"}
          BY <1>0, <1>a, <2>6, <3>1, <4>2, <4>4 DEF ControlInv, RestoreTypeOK, EndInv, Phase
      <4>6. Ready /\ \A h \in hist["global"] : h["control"] = "none"
          BY <1>0, <3>1, <4>1, <4>4, <4>5 DEF EndInv
      <4> QED
          BY <2>4, <3>1, <4>3, <4>6
    <3>2. pc' = "idle" /\ (touched' => ~spool')
        BY <1>0, <2>1, <2>6 DEF EndInv
    <3> QED
        BY <1>a, <2>1, <2>2, <3>1, <3>2, Names DEF EndInv
  <2> QED
      BY <2>5, <2>6
<1>8. CASE Done
  <2>1. UNCHANGED <<vol, hist, opt, zero, spool, pc, touched>> /\ pc = "end"
      BY <1>8 DEF Done, restoreVars
  <2>2. Ready /\ touched /\ hist["global"] = {}
      BY <1>0, <1>a, <2>1 DEF EndInv
  <2>3. Ready'
      BY <2>1, <2>2, StaysReady DEF Ready
  <2> QED
      BY <1>0, <1>a, <2>1, <2>2, <2>3 DEF EndInv
<1> QED
    BY <1>1, <1>2, <1>3, <1>4, <1>5, <1>6, <1>7, <1>8 DEF RestoreNext, Steps

\* The command goes from one phase to the next
LEMMA PhaseStep == RestoreNext /\ pc \in Phase => pc' \in Phase
    BY DEF RestoreNext, Steps, Validate, CheckEmpty, RemoveControl, RemoveControlSync, CleanEntry, CleanDone, BuildEntry, BuildDone,
           SaveManifest, JobStart, JobEnd, JobsDone, RecoveryOpen, RecoveryClose, RecoverySignal, RemoveManifest, SyncDirs,
           RenameControl, SyncGlobal, Kill, HostCrash, Done, restoreVars, Phase

\* The directories a restore may find
LEMMA EmptyIs ==
    /\ Empty = [d \in Dirs |-> Empty[d]]
    /\ \A d \in Dirs : Empty[d] \in Snap(d)
    /\ \A d \in Dirs : \A n \in Entry[d] : Empty[d][n] = "none"
    BY Values DEF Empty, Snap

LEMMA ForeignIs ==
    /\ Foreign = [d \in Dirs |-> Foreign[d]]
    /\ \A d \in Dirs : Foreign[d] \in Snap(d)
    /\ \A d \in Dirs : \A n \in Entry[d] : Foreign[d][n] \in {"none", "other"}
<1>1. "other" \in Content /\ "pgdata" \in Dirs /\ "junk" \in Entry["pgdata"]
    BY Names DEF Content
<1>2. Foreign = [Empty EXCEPT !["pgdata"] = [Empty["pgdata"] EXCEPT !["junk"] = "other"]]
    BY DEF Foreign
<1>3. [Empty["pgdata"] EXCEPT !["junk"] = "other"] \in Snap("pgdata")
    BY <1>1, EmptyIs DEF Snap
<1>4. Empty["pgdata"] = [n \in Entry["pgdata"] |-> Empty["pgdata"][n]]
    BY <1>1, EmptyIs DEF Snap
<1> QED
    BY <1>1, <1>2, <1>3, <1>4, EmptyIs

LEMMA OldIs ==
    ASSUME NEW c \in Content \X Content
    PROVE  /\ Old(c) = [d \in Dirs |-> Old(c)[d]]
           /\ \A d \in Dirs : Old(c)[d] \in Snap(d)
           /\ \A d \in Dirs : \A n \in Entry[d] : Old(c)[d][n] = "othert" => (d = "pgdata" /\ n = "rel") \/ (d = "ts" /\ n = "tsrel")
<1>1. c[1] \in Content /\ c[2] \in Content /\ {"good", "other", "none", "goodt"} \subseteq Content
    BY DEF Content
<1>2. Old(c)["pgdata"] \in Snap("pgdata") /\ \A n \in Entry["pgdata"] : Old(c)["pgdata"][n] = "othert" => n = "rel"
    BY <1>1, Names DEF Old, Snap
<1>3. Old(c)["global"] \in Snap("global") /\ \A n \in Entry["global"] : Old(c)["global"][n] # "othert"
    BY <1>1, Names DEF Old, Snap
<1>4. Old(c)["ts"] \in Snap("ts") /\ \A n \in Entry["ts"] : Old(c)["ts"][n] = "othert" => n = "tsrel"
    BY <1>1, Names DEF Old, Snap
<1>5. Old(c)["ext"] \in Snap("ext") /\ \A n \in Entry["ext"] : Old(c)["ext"][n] # "othert"
    BY <1>1, Names DEF Old, Snap
<1>6. Old(c) = [d \in {"pgdata", "global", "ts", "ext"} |-> Old(c)[d]]
    BY DEF Old
<1> QED
    BY <1>2, <1>3, <1>4, <1>5, <1>6, Names

LEMMA RestoreInvInit == RestoreInit => RestoreInv
<1> SUFFICES ASSUME RestoreInit PROVE RestoreInv
    OBVIOUS
<1>1. /\ restoreCase \in RestoreCases /\ pc = "idle" /\ ~touched /\ ~unsynced /\ \A d \in Dirs : hist[d] = {}
      /\ hist = [d \in Dirs |-> {}] /\ spool = TRUE /\ kills = 0 /\ crashes = 0 /\ open = {} /\ queue = <<>> /\ toSync = <<>>
      /\ touched = FALSE /\ unsynced = FALSE
    BY DEF RestoreInit
<1>2. VolType /\ \A d \in Dirs : \A n \in Entry[d] : vol[d][n] = "othert" => n \in late
  <2>1. CASE vol = Empty
      BY <1>1, <2>1, EmptyIs DEF VolType
  <2>2. CASE vol = Foreign
      BY <1>1, <2>2, ForeignIs DEF VolType
  <2>3. ASSUME NEW c \in restoreCase.existing, vol = Old(c) PROVE <1>2!1 /\ <1>2!2
    <3>1. c \in Content \X Content
        BY <1>1, <2>3, RestoreAssumption
    <3>2. /\ vol = [d \in Dirs |-> vol[d]] /\ \A d \in Dirs : vol[d] \in Snap(d)
          /\ \A d \in Dirs : \A n \in Entry[d] : vol[d][n] = "othert" => (d = "pgdata" /\ n = "rel") \/ (d = "ts" /\ n = "tsrel")
        BY <2>3, <3>1, OldIs
    <3> QED
        BY <1>1, <3>2 DEF VolType, RestoreInit
  <2> QED
      BY <2>1, <2>2, <2>3 DEF RestoreInit
<1>3. RestType
  <2>1. opt \in Options /\ late \subseteq {"rel", "tsrel"} /\ zero \subseteq {"rel", "tsrel"}
    <3>1. restoreCase.options \subseteq Options /\ restoreCase.options # {}
        BY <1>1, RestoreAssumption
    <3>2. opt \in restoreCase.options
        BY <3>1 DEF RestoreInit
    <3>3. PICK lz \in restoreCase.lateZero : late = lz[1] /\ zero = lz[2]
        BY DEF RestoreInit
    <3>4. lz \in (SUBSET {"rel", "tsrel"}) \X (SUBSET {"rel", "tsrel"})
        BY <1>1, <3>3, RestoreAssumption
    <3> QED
        BY <3>1, <3>2, <3>3, <3>4
  <2>2. kills \in 0 .. restoreCase.maxKill /\ crashes \in 0 .. restoreCase.maxCrash
      BY <1>1, Bounds
  <2>3. \A q \in DOMAIN queue : queue[q] \in Seq(ManifestFile(opt))
      BY <1>1
  <2>4. open \subseteq ManifestFile(opt) /\ toSync \in Seq({"ext", "pgdata", "ts"}) /\ (open # {} => pc = "jobs")
      BY <1>1
  <2> QED
      BY Zenon, <1>1, <2>1, <2>2, <2>3, <2>4 DEF RestType
<1>4. RestoreTypeOK
    BY <1>1, <1>2, <1>3, TypeParts DEF Phase
<1>5. LateInv /\ KeepInv
    BY <1>1, <1>2, Names DEF LateInv, KeepInv
<1>6. ControlInv /\ EndInv
    BY <1>1, Names DEF ControlInv, EndInv, Working, Renamed, Built, Cleaned
<1>7. BuiltInv /\ JobsInv /\ FinishInv
    BY <1>1 DEF BuiltInv, JobsInv, FinishInv, Working, Built, Cleaned, Copied
<1> QED
    BY <1>4, <1>5, <1>6, <1>7 DEF RestoreInv

LEMMA RestoreInvNext == RestoreInv /\ [RestoreNext]_restoreVars => RestoreInv'
<1>1. ASSUME RestoreInv, RestoreNext PROVE RestoreInv'
  <2>1. RestoreTypeOK
      BY <1>1 DEF RestoreInv
  <2>2. RestoreTypeOK'
    <3>1. VolType'
        BY <1>1, <2>1, VolTypeStep
    <3>2. RestType'
        BY <1>1, <2>1, RestTypeStep
    <3>3. (pc \in Phase)'
        BY <1>1, <2>1, PhaseStep, TypeParts
    <3> QED
        BY <3>1, <3>2, <3>3 DEF RestoreTypeOK, VolType, RestType
  <2>3. LateInv'
      BY <1>1, LateStep
  <2>4. ControlInv'
      BY <1>1, ControlStep
  <2>5. EndInv'
      BY <1>1, EndStep
  <2>6. BuiltInv'
      BY <1>1, BuiltStep
  <2>7. JobsInv'
      BY <1>1, JobsStep
  <2>8. FinishInv'
      BY <1>1, FinishStep
  <2>9. KeepInv'
      BY <1>1, KeepStep
  <2> QED
      BY <2>2, <2>3, <2>4, <2>5, <2>6, <2>7, <2>8, <2>9 DEF RestoreInv
<1>2. ASSUME RestoreInv, UNCHANGED restoreVars PROVE RestoreInv'
  <2>0. UNCHANGED <<pc, opt, late, zero, vol, hist, open, queue, toSync, spool, touched, restoreCase, unsynced, kills, crashes>>
      BY <1>2 DEF restoreVars, faultVars
  <2>1. ManifestFile(opt)' = ManifestFile(opt) /\ RecoveryFile' = RecoveryFile /\ \A f : Wanted(f)' = Wanted(f)
      BY <2>0 DEF ManifestFile, RecoveryFile, Wanted
  <2>2. Missing' = Missing /\ \A d \in Dirs : Invalid(d)' = Invalid(d)
      BY <2>0 DEF Missing, Invalid, ManifestFile, FileIgnore
  <2>3. RestoreTypeOK' /\ LateInv' /\ ControlInv'
      BY ZenonT(30), <1>2, <2>0, <2>1 DEF RestoreInv, RestoreTypeOK, LateInv, ControlInv
  <2>4. EndInv'
      BY Zenon, <1>2, <2>0, <2>1, <2>2 DEF RestoreInv, EndInv, Ready, Whole
  <2>5. BuiltInv' /\ FinishInv' /\ KeepInv'
      BY ZenonT(30), <1>2, <2>0, <2>1, <2>2 DEF RestoreInv, BuiltInv, FinishInv, KeepInv
  <2>6. JobsInv'
      BY <1>2, <2>0, <2>1 DEF RestoreInv, JobsInv, Queued, At
  <2> QED
      BY <2>3, <2>4, <2>5, <2>6 DEF RestoreInv
<1> QED
    BY <1>1, <1>2

\* The invariant says what the two properties need: while pg_control exists in
\* a directory that restore has changed, all of it is in place
LEMMA WholeIfThere == RestoreInv => StartableWhole
<1> SUFFICES ASSUME RestoreInv, touched, ~unsynced, vol["global"]["control"] # "none"
             PROVE  Whole /\ ~spool /\ vol["global"]["control"] = "good"
    BY DEF StartableWhole
<1>1. pc \in Renamed \cup {"idle"}
    BY DEF RestoreInv, ControlInv, RestoreTypeOK, Phase, Working, Renamed
<1> QED
    BY <1>1 DEF RestoreInv, EndInv, Ready, Renamed

\* What a step may do to the data directory itself, kills and crashes aside
LEMMA OneEntry ==
    ASSUME RestoreInv, RestoreNext
    PROVE  \/ Kill \/ HostCrash
           \/ \A m \in Entry["pgdata"] : vol'["pgdata"][m] = vol["pgdata"][m]
           \/ \E n \in Entry["pgdata"] :
                  /\ \A m \in Entry["pgdata"] \ {n} : vol'["pgdata"][m] = vol["pgdata"][m]
                  /\ \/ pc = "clean" /\ n \in Invalid("pgdata")
                     \/ n \in Links \cup {"global", "manifest"}
                     \/ n \in ManifestFile(opt)
                     \/ n \in {RecoveryFile, "signal"} /\ opt.type = "default"
<1> DEFINE Nothing == \A m \in Entry["pgdata"] : vol'["pgdata"][m] = vol["pgdata"][m]
           Only(n) == \A m \in Entry["pgdata"] \ {n} : vol'["pgdata"][m] = vol["pgdata"][m]
<1>0. RestoreTypeOK /\ VolType /\ FinishInv /\ "pgdata" \in Dirs
    BY TypeParts, Names DEF RestoreInv
<1>a. ASSUME NEW d \in Dirs, NEW n \in Entry[d], NEW c, Changed(d, n, c)
      PROVE  (d # "pgdata" => Nothing) /\ Only(n)
    BY <1>0, <1>a DEF Changed
<1>1. CASE (\E o \in restoreCase.options : Validate(o)) \/ CheckEmpty \/ CleanDone \/ BuildDone \/ JobsDone \/ Done
    BY ZenonT(30), <1>1 DEF Validate, CheckEmpty, CleanDone, BuildDone, JobsDone, Done, restoreVars
<1>2. CASE RemoveControlSync \/ SyncGlobal \/ SyncDirs
    BY Zenon, <1>2 DEF RemoveControlSync, SyncGlobal, SyncDirs, Sync
<1>3. CASE RemoveControl
    BY <1>0, <1>3, <1>a, RemoveControlDoes, Names
<1>4. ASSUME NEW d \in Dirs, CleanEntry(d)
      PROVE  Nothing \/ \E n \in Entry["pgdata"] : Only(n) /\ pc = "clean" /\ n \in Invalid("pgdata")
  <2>1. PICK n \in Invalid(d) : n \in Entry[d] /\ Changed(d, n, "none")
      BY <1>0, <1>4, CleanEntryDoes
  <2>2. pc = "clean"
      BY <1>4 DEF CleanEntry
  <2> QED
      BY <1>a, <2>1, <2>2
<1>5. CASE BuildEntry
  <2>1. PICK n \in Links \cup {"global"} : Changed("pgdata", n, "good")
      BY <1>0, <1>5, BuildEntryDoes
  <2>2. n \in Entry["pgdata"]
      BY <2>1, Names DEF Links
  <2> QED
      BY <1>0, <1>a, <2>1, <2>2
<1>6. CASE SaveManifest \/ RemoveManifest
  <2>1. "manifest" \in Entry["pgdata"] /\ \E c : Changed("pgdata", "manifest", c)
      BY <1>0, <1>6, SaveManifestDoes, RecoveryDoes, Names
  <2> QED
      BY <1>0, <1>a, <2>1
<1>7. ASSUME NEW f \in ManifestFile(opt), NEW c, Changed(DirOf(PgPath(f)), PgPath(f), c)
      PROVE  Nothing \/ \E n \in Entry["pgdata"] : Only(n) /\ n \in ManifestFile(opt)
  <2>1. DirOf(PgPath(f)) \in Dirs /\ PgPath(f) \in Entry[DirOf(PgPath(f))]
      BY <1>7, SomeFiles, Place
  <2>2. CASE DirOf(PgPath(f)) # "pgdata"
      BY <1>7, <1>a, <2>1, <2>2
  <2>3. CASE DirOf(PgPath(f)) = "pgdata"
    <3>1. PgPath(f) = f
        BY <2>3, Where DEF PgPath
    <3> QED
        BY <1>7, <1>a, <2>1, <2>3, <3>1
  <2> QED
      BY <2>2, <2>3
<1>8. ASSUME NEW q \in DOMAIN queue, JobStart(q)
      PROVE  Nothing \/ \E n \in Entry["pgdata"] : Only(n) /\ n \in ManifestFile(opt)
  <2>1. PICK f \in ManifestFile(opt) : (\E c : Changed(DirOf(PgPath(f)), PgPath(f), c)) \/ vol' = vol
      BY ZenonT(30), <1>0, <1>8, JobStartDoes
  <2> QED
      BY <1>7, <2>1
<1>9. ASSUME NEW f \in open, JobEnd(f)
      PROVE  Nothing \/ \E n \in Entry["pgdata"] : Only(n) /\ n \in ManifestFile(opt)
    BY ZenonT(30), <1>0, <1>7, <1>9, JobEndDoes
<1>10. CASE RecoveryOpen \/ RecoveryClose \/ RecoverySignal
  <2>1. opt.type = "default"
      BY Zenon, <1>0, <1>10 DEF FinishInv, RecoveryOpen, RecoveryClose, RecoverySignal
  <2>2. \E n \in {RecoveryFile, "signal"} : \E c : Changed("pgdata", n, c)
      BY <1>0, <1>10, RecoveryDoes
  <2>3. RecoveryFile \in Entry["pgdata"] /\ "signal" \in Entry["pgdata"]
      BY Names DEF RecoveryFile
  <2> QED
      BY ZenonT(30), <1>0, <1>a, <2>1, <2>2, <2>3
<1>11. CASE RenameControl
    BY <1>0, <1>11, RenameControlDoes, Names
<1> QED
    BY ZenonT(30), <1>1, <1>2, <1>3, <1>4, <1>5, <1>6, <1>8, <1>9, <1>10, <1>11 DEF RestoreNext, Steps

\* Foreign files go only while a cluster or a partial restore is cleaned
LEMMA JunkStep ==
    ASSUME RestoreInv, RestoreNext, vol["pgdata"]["junk"] # "none", vol'["pgdata"]["junk"] = "none"
    PROVE  Clean(opt) /\ (vol["pgdata"]["version"] # "none" \/ vol["pgdata"]["manifest"] # "none")
<1>0. RestoreTypeOK /\ KeepInv /\ VolType /\ "junk" \in Entry["pgdata"]
    BY TypeParts, Names DEF RestoreInv
<1>1. ~Kill
  <2>1. \A f \in open : PgPath(f) # "junk"
      BY <1>0, SomeFiles, Place DEF RestoreTypeOK
  <2> QED
      BY <1>0, <2>1, KillDoes, Names
<1>2. ~HostCrash
    BY <1>0, HostCrashDoes, Names DEF KeepInv
<1>3. "junk" \notin Links \cup {"global", "manifest", "signal", RecoveryFile} \cup ManifestFile(opt)
    BY DEF Links, RecoveryFile, ManifestFile
<1>4. pc = "clean"
    BY <1>0, <1>1, <1>2, <1>3, OneEntry
<1> QED
    BY <1>0, <1>4 DEF KeepInv

\* No step writes recovery settings that are to be preserved
LEMMA PreserveStep ==
    ASSUME RestoreInv, RestoreNext, opt.type = "preserve", UNCHANGED <<kills, crashes>>
    PROVE  vol'["pgdata"][RecoveryFile] = vol["pgdata"][RecoveryFile]
<1>1. ~Kill /\ ~HostCrash
  <2>1. kills \in Nat /\ crashes \in Nat
      BY Bounds DEF RestoreInv, RestoreTypeOK
  <2> QED
      BY <2>1 DEF Kill, HostCrash
<1>2. RecoveryFile \in Entry["pgdata"] /\ RecoveryFile \notin Links \cup {"global", "manifest"} \cup ManifestFile(opt)
    BY Names DEF RecoveryFile, Links, ManifestFile
<1>3. RecoveryFile \notin Invalid("pgdata")
    BY DEF Invalid, FileIgnore, RecoveryFile
<1> QED
    BY <1>1, <1>2, <1>3, OneEntry

\* backup.manifest is in the data directory from the first job on until it is
\* removed, when every file is restored
Saving == {"jobs", "recovery", "recoveryClose", "signal", "unsave"}
Saved == pc \in Saving => vol.pgdata["manifest"] = "good"

LEMMA SavedStep == RestoreInv /\ Saved /\ [RestoreNext]_restoreVars => Saved'
<1> SUFFICES ASSUME RestoreInv, Saved, RestoreNext \/ UNCHANGED restoreVars, pc' \in Saving PROVE vol'["pgdata"]["manifest"] = "good"
    BY DEF Saved
<1>0. RestoreTypeOK /\ "manifest" \in Entry["pgdata"] /\ "pgdata" \in Dirs
    BY Names DEF RestoreInv
<1>1. CASE UNCHANGED restoreVars
    BY <1>1 DEF restoreVars, Saved
<1>2. CASE RestoreNext
  <2>1. \/ SaveManifest \/ JobsDone \/ RecoveryOpen \/ RecoveryClose \/ RecoverySignal
        \/ (\E q \in DOMAIN queue : JobStart(q)) \/ (\E f \in open : JobEnd(f))
      BY Zenon, <1>2 DEF RestoreNext, Steps, Validate, CheckEmpty, RemoveControl, RemoveControlSync, CleanEntry, CleanDone, BuildEntry,
                  BuildDone, RemoveManifest, SyncDirs, RenameControl, SyncGlobal, Kill, HostCrash, Done, restoreVars, Saving
  <2>2. CASE SaveManifest
      BY <1>0, <2>2, SaveManifestDoes DEF Changed
  <2>3. CASE JobsDone
      BY <2>3 DEF JobsDone, Saved, Saving
  <2>4. CASE RecoveryOpen \/ RecoveryClose \/ RecoverySignal
    <3>1. pc \in Saving /\ RecoveryFile # "manifest"
        BY <2>4 DEF RecoveryOpen, RecoveryClose, RecoverySignal, Saving, RecoveryFile
    <3> QED
        BY Zenon, <1>0, <2>4, <3>1, RecoveryDoes DEF Changed, Saved
  <2>5. ASSUME NEW f \in ManifestFile(opt), NEW c, pc \in Saving, Changed(DirOf(PgPath(f)), PgPath(f), c)
        PROVE  vol'["pgdata"]["manifest"] = "good"
    <3>1. PgPath(f) # "manifest"
        BY <2>5, SomeFiles DEF PgPath, ManifestFile
    <3> QED
        BY <1>0, <2>5, <3>1 DEF Changed, Saved
  <2>6. CASE \E q \in DOMAIN queue : JobStart(q)
    <3>1. PICK q \in DOMAIN queue : JobStart(q)
        BY <2>6
    <3>2. PICK f \in ManifestFile(opt) : (\E c : Changed(DirOf(PgPath(f)), PgPath(f), c)) \/ vol' = vol
        BY Zenon, <1>0, <3>1, JobStartDoes
    <3>3. pc \in Saving
        BY <3>1 DEF JobStart, Saving
    <3> QED
        BY <2>5, <3>2, <3>3 DEF Saved
  <2>7. CASE \E f \in open : JobEnd(f)
    <3>1. PICK f \in open : JobEnd(f)
        BY <2>7
    <3>2. pc \in Saving
        BY <3>1 DEF JobEnd, Saving
    <3> QED
        BY <1>0, <2>5, <3>1, <3>2, JobEndDoes
  <2> QED
      BY <2>1, <2>2, <2>3, <2>4, <2>6, <2>7
<1> QED
    BY <1>1, <1>2

LEMMA SavedIsKnown == RestoreInv /\ Saved => Restartable
<1> SUFFICES ASSUME RestoreInv, Saved, pc \in Saving \cup {"sync", "syncGlobal"}
             PROVE  vol["pgdata"]["version"] # "none" \/ vol["pgdata"]["manifest"] # "none"
    BY DEF Restartable, Saving
<1>1. CASE pc \in Saving
    BY <1>1 DEF Saved
<1>2. "version" \in ManifestFile(opt) \ {"control", "auto"} /\ PgPath("version") = "version" /\ DirOf("version") = "pgdata"
    BY Where DEF PgPath, ManifestFile
<1>3. CASE pc = "sync"
    BY <1>2, <1>3, Values DEF RestoreInv, JobsInv, Copied, Built, Cleaned, Working, At
<1>4. CASE pc = "syncGlobal"
    BY <1>2, <1>4, Values DEF RestoreInv, EndInv, Renamed, Ready, Whole
<1> QED
    BY <1>1, <1>3, <1>4

-----------------------------------------------------------------------------
\* Everything the proofs keep track of is true in every state
THEOREM RestoreInvariant == RestoreSpec => []RestoreInv
    BY RestoreInvInit, RestoreInvNext, PTL DEF RestoreSpec

\* The variables have their types, and files are in work only during the jobs
THEOREM RestoreTypeCorrect == RestoreSpec => []RestoreTypeOK
<1>1. RestoreInv => RestoreTypeOK
    BY DEF RestoreInv
<1> QED
    BY <1>1, RestoreInvariant, PTL

\* cmdRestore() removes global/pg_control first and renames it into place last,
\* with a sync on both sides: if PostgreSQL could be started on a directory
\* restore has begun to change, all of the backup is there
THEOREM StartableOnlyWhole == RestoreSpec => []StartableWhole
    BY RestoreInvariant, WholeIfThere, PTL

\* restorePathValidate() and the check for empty directories keep the files of
\* a directory that is no cluster, and no step of restore changes recovery
\* settings with --type=preserve
THEOREM NothingTaken == RestoreSpec => RestoreKeeps
<1>1. RestoreInv /\ [RestoreNext]_restoreVars =>
          [vol.pgdata["junk"] # "none" /\ vol'.pgdata["junk"] = "none" =>
               Clean(opt) /\ (vol.pgdata["version"] # "none" \/ vol.pgdata["manifest"] # "none")]_restoreVars
    BY JunkStep
<1>2. RestoreInv /\ [RestoreNext]_restoreVars =>
          [pc # "idle" /\ opt.type = "preserve" /\ UNCHANGED <<kills, crashes>> =>
               vol'.pgdata[RecoveryFile] = vol.pgdata[RecoveryFile]]_restoreVars
    BY PreserveStep
<1>3. RestoreSpec => ForeignKept
    BY <1>1, RestoreInvariant, PTL DEF RestoreSpec, ForeignKept
<1>4. RestoreSpec => Preserved
    BY <1>2, RestoreInvariant, PTL DEF RestoreSpec, Preserved
<1> QED
    BY <1>3, <1>4 DEF RestoreKeeps

\* From the first job to the end a killed restore leaves backup.manifest or
\* PG_VERSION, so that restorePathValidate() accepts --delta when it is repeated
THEOREM RepeatableWithDelta == RestoreSpec => []Restartable
<1>1. RestoreInit => Saved
    BY DEF RestoreInit, Saved, Saving
<1> QED
    BY <1>1, RestoreInvariant, SavedStep, SavedIsKnown, PTL DEF RestoreSpec
=============================================================================
