---------------------------- MODULE PosixProofs -----------------------------
(***************************************************************************)
(* The Posix driver writes a file as AtomicStore promises, and a write     *)
(* that returned after both syncs is on disk, for every size of the file,  *)
(* any number of runs and any number of crashes.                           *)
(*                                                                         *)
(* Neither is inductive.  What carries both through a crash is a statement *)
(* about every state the path may be in after one, not only about the one  *)
(* it is in now: the name leads to whole files only, each of a run that is *)
(* over or has renamed its file; the file a run writes has no name in any  *)
(* of them; and once a run has returned none of them is older than that.   *)
(***************************************************************************)
EXTENDS PosixWrite, TLAPS

Inodes == 0 .. MaxRun
Entries == 0 .. MaxRun + 1
Paths == [exists : BOOLEAN, tmp : Entries, name : Entries]
Files == [by : Inodes, len : 0 .. FileSize, synced : BOOLEAN]

PosixTypeOK ==
    /\ wopt \in [atomic : BOOLEAN, createPath : BOOLEAN, syncFile : BOOLEAN, syncPath : BOOLEAN]
    /\ run \in 1 .. MaxRun
    /\ wpc \in {"open", "again", "write", "rename", "sync", "done", "failed"}
    /\ ended \in [1 .. MaxRun -> {"open", "returned", "failed"}]
    /\ path \in Paths
    /\ past \in SUBSET Paths
    /\ path \in past
    /\ ino \in [Inodes -> Files]
    /\ crashed \in Nat

\* A run is over when its write has returned or failed, and later ones have not begun
RunInv ==
    /\ \A r \in 1 .. MaxRun : r > run => ended[r] = "open"
    /\ \A r \in 1 .. MaxRun : r < run => ended[r] # "open"
    /\ ended[run] = IF wpc = "done" THEN "returned" ELSE IF wpc = "failed" THEN "failed" ELSE "open"

\* What an entry leads to in any state the path may be in after a crash.  The
\* inode of a run is new when the run creates its file.
EntryInv ==
    \A p \in past :
        /\ p.exists \/ (p.tmp = None /\ p.name = None)
        /\ p.tmp = None \/ (wopt.atomic /\ p.tmp \in 1 .. run /\ p.tmp # p.name)
        /\ p.name = None \/ p.name \in 0 .. run
        /\ wpc \in {"open", "again"} => p.tmp # run /\ p.name # run

\* The file under way is the run's own, and is whole once it has been synced
FileInv ==
    /\ wpc \in {"write", "rename"} => TmpEntry # None /\ ino[TmpEntry].by = run
    /\ wpc = "rename" => Filled(TmpEntry) /\ (wopt.syncFile => ino[TmpEntry].synced)
    /\ wpc \in {"sync", "done"} => path.name # None /\ ino[path.name].by = run /\ Filled(path.name)
    /\ wpc \in {"sync", "done"} /\ wopt.syncFile => ino[path.name].synced
    /\ wpc = "done" /\ wopt.syncPath => past = {path}

\* A temporary file has no other name in any state the path may be in, and a
\* name leads to a whole file of a run that is over or has renamed it
NameInv ==
    wopt.atomic =>
        /\ \A p \in past : path.tmp = None \/ p.name # path.tmp
        /\ \A p \in past : p.name \notin {None, OldFile} =>
            /\ Filled(p.name)
            /\ wopt.syncFile => ino[p.name].synced
            /\ ino[p.name].by \in 1 .. run
            /\ ino[p.name].by = run => wpc \in {"sync", "done", "failed"}
        /\ wpc \in {"sync", "done"} => path.name # OldFile

\* A file whose write has returned is not lost: no state the path may be in is
\* older than the last run that returned
KeptInv ==
    wopt.atomic /\ wopt.syncPath =>
        /\ (\E r \in 1 .. MaxRun : ended[r] = "returned") => \A p \in past : p.name \notin {None, OldFile}
        /\ path.name \notin {None, OldFile} /\ ended[ino[path.name].by] = "returned" =>
                \A p \in past : p.name = path.name

PosixInv == PosixTypeOK /\ RunInv /\ EntryInv /\ FileInv /\ NameInv /\ KeptInv

LEMMA PosixInvInit == PosixInit => PosixInv
<1> SUFFICES ASSUME PosixInit PROVE PosixInv
    OBVIOUS
<1> USE PosixAssumption
<1>1. path \in Paths /\ past = {path} /\ path.tmp = None /\ path.name \in {None, OldFile}
      /\ (path.exists \/ path.name = None)
    BY DEF PosixInit, Paths, Entries, None, OldFile
<1>2. PosixTypeOK
    BY <1>1 DEF PosixInit, PosixTypeOK, OldIno, Inodes, Files
<1>3. run = 1 /\ wpc = "open" /\ ended = [r \in 1 .. MaxRun |-> "open"]
    BY DEF PosixInit
<1>4. RunInv
    BY <1>3 DEF RunInv
<1>5. EntryInv
    BY <1>1, <1>3 DEF EntryInv, None, OldFile
<1>6. FileInv
    BY <1>3 DEF FileInv
<1>7. NameInv
    BY <1>1, <1>3 DEF NameInv
<1>8. KeptInv
    BY <1>1, <1>3 DEF KeptInv
<1> QED
    BY <1>2, <1>4, <1>5, <1>6, <1>7, <1>8 DEF PosixInv

LEMMA EntryFacts ==
    /\ None \in Entries /\ None \notin Inodes /\ OldFile \in Inodes /\ Inodes \subseteq Entries
    /\ \A e \in Entries : e # None => e \in Inodes
    /\ 1 .. MaxRun \subseteq Inodes
    /\ 0 \in 0 .. FileSize
    BY PosixAssumption DEF None, Entries, Inodes, OldFile

\* The types of what a step reads, one by one
LEMMA TypeFacts ==
    ASSUME PosixTypeOK
    PROVE  /\ run \in 1 .. MaxRun /\ run \in Inodes
           /\ path \in Paths /\ past \subseteq Paths /\ path \in past
           /\ ino \in [Inodes -> Files] /\ DOMAIN ino = Inodes
           /\ ended \in [1 .. MaxRun -> {"open", "returned", "failed"}]
           /\ TmpEntry \in Entries /\ (TmpEntry # None => TmpEntry \in Inodes)
           /\ wopt.atomic \in BOOLEAN /\ wopt.syncFile \in BOOLEAN /\ wopt.syncPath \in BOOLEAN
<1>1. path.tmp \in Entries /\ path.name \in Entries
    BY DEF PosixTypeOK, Paths
<1>2. TmpEntry \in Entries
    BY <1>1 DEF TmpEntry
<1> QED
    BY <1>2, EntryFacts DEF PosixTypeOK

\* Every step keeps the types
LEMMA PosixTypeStep == PosixTypeOK /\ FileInv /\ PosixNext => PosixTypeOK'
<1> SUFFICES ASSUME PosixTypeOK, FileInv, PosixNext PROVE PosixTypeOK'
    OBVIOUS
<1> USE PosixAssumption
<1>0. /\ run \in 1 .. MaxRun /\ run \in Inodes
      /\ path \in Paths /\ past \subseteq Paths /\ path \in past
      /\ ino \in [Inodes -> Files] /\ DOMAIN ino = Inodes
      /\ ended \in [1 .. MaxRun -> {"open", "returned", "failed"}]
      /\ TmpEntry \in Entries /\ (TmpEntry # None => TmpEntry \in Inodes)
      /\ None \in Entries /\ Inodes \subseteq Entries
    BY TypeFacts, EntryFacts
<1>1. CASE Open
  <2> DEFINE i == IF TmpEntry = None THEN run ELSE TmpEntry
  <2>1. i \in Inodes /\ i \in Entries
      BY <1>0
  <2>2. /\ ino' = [ino EXCEPT ![i] = [by |-> run, len |-> 0, synced |-> FALSE]]
        /\ path' = [path EXCEPT !.tmp = i] \/ path' = [path EXCEPT !.name = i]
        /\ past' = past \cup {path'}
      BY <1>1 DEF Open, Change
  <2> HIDE DEF i
  <2>3. path' \in Paths /\ past' \subseteq Paths /\ path' \in past'
      BY <1>0, <2>1, <2>2 DEF Paths
  <2>4. ino' \in [Inodes -> Files]
      BY <1>0, <2>1, <2>2, EntryFacts DEF Files
  <2> QED
      BY <1>1, <2>3, <2>4 DEF Open, PosixTypeOK
<1>2. CASE PathCreate
  <2>1. path' \in Paths /\ past' \subseteq Paths /\ path' \in past'
      BY Zenon, <1>0, <1>2 DEF PathCreate, Change, Paths
  <2> QED
      BY <1>2, <2>1 DEF PathCreate, Step, PosixTypeOK
<1>3. CASE Write
  <2>1. TmpEntry \in Inodes
      BY <1>0, <1>3 DEF Write, FileInv
  <2>2. ino' \in [Inodes -> Files]
      BY <1>0, <1>3, <2>1 DEF Write, Files
  <2> QED
      BY <1>3, <2>2 DEF Write, PosixTypeOK
<1>4. CASE SyncFile
  <2>1. TmpEntry \in Inodes
      BY <1>0, <1>4 DEF SyncFile, Step, FileInv
  <2>2. ino' \in [Inodes -> Files]
      BY ZenonT(30), <1>0, <1>4, <2>1 DEF SyncFile, Files
  <2> QED
      BY <1>4, <2>2 DEF SyncFile, Step, PosixTypeOK
<1>5. CASE Rename
  <2>0. path.tmp \in Entries
      BY <1>0 DEF Paths
  <2>2. [path EXCEPT !.name = path.tmp, !.tmp = None] \in Paths
      BY Zenon, <1>0, <2>0 DEF Paths
  <2>3. \/ path' = path /\ past' = past
        \/ path' = [path EXCEPT !.name = path.tmp, !.tmp = None] /\ past' = past \cup {path'}
      BY <1>5 DEF Rename, Change
  <2>1. path' \in Paths /\ past' \subseteq Paths /\ path' \in past'
      BY <1>0, <2>2, <2>3
  <2> QED
      BY <1>5, <2>1 DEF Rename, Step, PosixTypeOK
<1>6. CASE SyncPath
  <2>1. ended' \in [1 .. MaxRun -> {"open", "returned", "failed"}]
      BY <1>0, <1>6 DEF SyncPath
  <2> QED
      BY <1>6, <2>1 DEF SyncPath, Step, PosixTypeOK
<1>7. CASE PosixFail
  <2>1. ended' \in [1 .. MaxRun -> {"open", "returned", "failed"}]
      BY <1>0, <1>7 DEF PosixFail
  <2> QED
      BY <1>7, <2>1 DEF PosixFail, PosixTypeOK
<1>8. CASE RunAgain
    BY <1>8 DEF RunAgain, PosixTypeOK
<1>9. CASE RemovePath
  <2>1. path' \in Paths /\ past' \subseteq Paths /\ path' \in past'
      BY ZenonT(30), <1>0, <1>9 DEF RemovePath, Change, Paths
  <2> QED
      BY <1>9, <2>1 DEF RemovePath, PosixTypeOK
<1>10. CASE Crash
  <2>1. PICK p \in past, len \in [DOMAIN ino -> 0 .. FileSize] :
            /\ path' = p
            /\ past' = {p}
            /\ ino' = [i \in DOMAIN ino |-> [ino[i] EXCEPT !.len = len[i], !.synced = TRUE]]
      BY ZenonT(30), <1>10 DEF Crash
  <2>2. ino' \in [Inodes -> Files]
      BY ZenonT(30), <1>0, <2>1 DEF Files
  <2>3. ended' \in [1 .. MaxRun -> {"open", "returned", "failed"}]
      BY ZenonT(30), <1>0, <1>10 DEF Crash
  <2>4. (wpc' = "done" \/ wpc' = "failed") /\ wopt' = wopt /\ run' = run
      BY ZenonT(30), <1>10 DEF Crash
  <2>5. crashed' = crashed + 1 /\ crashed \in Nat
      BY Zenon, <1>10 DEF Crash, PosixTypeOK
  <2>6. crashed' \in Nat
      BY <2>5
  <2> QED
      BY Zenon, <1>0, <2>1, <2>2, <2>3, <2>4, <2>6 DEF PosixTypeOK
<1> QED
    BY <1>1, <1>2, <1>3, <1>4, <1>5, <1>6, <1>7, <1>8, <1>9, <1>10 DEF PosixNext

LEMMA RunStep == PosixInv /\ PosixNext => RunInv'
<1> SUFFICES ASSUME PosixInv, PosixNext PROVE RunInv'
    OBVIOUS
<1> USE PosixAssumption
<1>0. /\ run \in 1 .. MaxRun /\ ended \in [1 .. MaxRun -> {"open", "returned", "failed"}]
      /\ RunInv
    BY TypeFacts DEF PosixInv
<1>1. CASE Open \/ PathCreate \/ Write \/ SyncFile \/ Rename \/ RemovePath
  <2>1. run' = run /\ ended' = ended
      BY <1>1 DEF Open, PathCreate, Write, SyncFile, Rename, RemovePath
  <2>2. wpc' = wpc \/ (wpc \notin {"done", "failed"} /\ wpc' \notin {"done", "failed"})
      BY <1>1 DEF Open, PathCreate, Write, SyncFile, Rename, RemovePath, Step
  <2> QED
      BY <1>0, <2>1, <2>2 DEF RunInv
<1>2. CASE SyncPath
    BY <1>0, <1>2 DEF SyncPath, Step, RunInv
<1>3. CASE PosixFail
    BY <1>0, <1>3 DEF PosixFail, RunInv
<1>4. CASE RunAgain
    BY <1>0, <1>4 DEF RunAgain, RunInv
<1>5. CASE Crash
    BY Zenon, <1>0, <1>5 DEF Crash, RunInv
<1> QED
    BY <1>1, <1>2, <1>3, <1>4, <1>5 DEF PosixNext

LEMMA EntryStep == PosixInv /\ PosixNext => EntryInv'
<1> SUFFICES ASSUME PosixInv, PosixNext PROVE EntryInv'
    OBVIOUS
<1> USE PosixAssumption
<1>0. /\ run \in 1 .. MaxRun /\ path \in Paths /\ path \in past /\ past \subseteq Paths
      /\ TmpEntry \in Entries /\ wopt.atomic \in BOOLEAN
      /\ EntryInv /\ FileInv /\ NameInv
    BY TypeFacts DEF PosixInv
<1>1. CASE Open
  <2> DEFINE i == IF TmpEntry = None THEN run ELSE TmpEntry
  <2>1. /\ path' = IF wopt.atomic THEN [path EXCEPT !.tmp = i] ELSE [path EXCEPT !.name = i]
        /\ past' = past \cup {path'}
        /\ wpc \in {"open", "again"} /\ wpc' = "write" /\ run' = run /\ wopt' = wopt /\ path.exists
      BY <1>1 DEF Open, Change
  <2>2. i \in 0 .. run /\ (wopt.atomic => i \in 1 .. run /\ i # path.name)
      BY <1>0, <2>1 DEF EntryInv, TmpEntry, None
  <2> HIDE DEF i
  <2>3. /\ path'.exists = path.exists
        /\ path'.tmp = IF wopt.atomic THEN i ELSE path.tmp
        /\ path'.name = IF wopt.atomic THEN path.name ELSE i
      BY Zenon, <1>0, <2>1 DEF Paths
  <2> QED
      BY Zenon, <1>0, <2>1, <2>2, <2>3 DEF EntryInv, None
<1>2. CASE PathCreate
  <2>1. /\ path' = [path EXCEPT !.exists = TRUE] /\ past' = past \cup {path'}
        /\ wpc = "open" /\ wpc' = "again" /\ run' = run /\ wopt' = wopt
      BY <1>2 DEF PathCreate, Change, Step
  <2>2. path'.exists /\ path'.tmp = path.tmp /\ path'.name = path.name
      BY <1>0, <2>1 DEF Paths
  <2> QED
      BY ZenonT(30), <1>0, <2>1, <2>2 DEF EntryInv, None
<1>3. CASE Write \/ SyncFile
  <2>1. past' = past /\ run' = run /\ wopt' = wopt /\ wpc' \notin {"open", "again"}
      BY <1>3 DEF Write, SyncFile, Step
  <2> QED
      BY <1>0, <2>1 DEF EntryInv, None
<1>4. CASE Rename
  <2>1. /\ run' = run /\ wopt' = wopt /\ wpc = "rename" /\ wpc' = "sync"
        /\ \/ past' = past
           \/ /\ path' = [path EXCEPT !.name = path.tmp, !.tmp = None]
              /\ past' = past \cup {path'} /\ path.tmp # None
      BY <1>0, <1>4 DEF Rename, Change, Step, FileInv, TmpEntry
  <2>2. CASE past' = past
      BY <1>0, <2>1, <2>2 DEF EntryInv, None
  <2>3. CASE /\ path' = [path EXCEPT !.name = path.tmp, !.tmp = None]
             /\ past' = past \cup {path'} /\ path.tmp # None
    <3>1. path'.exists = path.exists /\ path'.tmp = None /\ path'.name = path.tmp
        BY <1>0, <2>3 DEF Paths
    <3>2. path.tmp \in 1 .. run /\ path.exists /\ None \notin 1 .. run /\ wopt.atomic
        BY <1>0, <2>3 DEF EntryInv, None
    <3> SUFFICES ASSUME NEW p \in past'
                 PROVE  /\ p.exists \/ (p.tmp = None /\ p.name = None)
                        /\ p.tmp = None \/ (wopt.atomic /\ p.tmp \in 1 .. run /\ p.tmp # p.name)
                        /\ p.name = None \/ p.name \in 0 .. run
        BY <2>1 DEF EntryInv, None
    <3>3. CASE p \in past
        BY <1>0, <3>3 DEF EntryInv
    <3>4. CASE p = path'
      <4>1. p.exists
          BY <1>0, <2>3, <3>2, <3>4 DEF Paths
      <4>2. p.tmp = None /\ p.name \in 0 .. run
          BY <1>0, <3>1, <3>2, <3>4
      <4> QED
          BY <4>1, <4>2
    <3> QED
        BY <2>3, <3>3, <3>4
  <2> QED
      BY <2>1, <2>2, <2>3
<1>5. CASE SyncPath
  <2>1. past' \subseteq past /\ run' = run /\ wopt' = wopt /\ wpc' = "done"
      BY <1>0, <1>5 DEF SyncPath, Step
  <2> QED
      BY <1>0, <2>1 DEF EntryInv, None
<1>6. CASE PosixFail
  <2>1. past' = past /\ run' = run /\ wopt' = wopt /\ wpc' = "failed"
      BY <1>6 DEF PosixFail
  <2> QED
      BY <1>0, <2>1 DEF EntryInv, None
<1>7. CASE RunAgain
  <2>1. past' = past /\ run' = run + 1 /\ wopt' = wopt /\ run < MaxRun
      BY <1>7 DEF RunAgain
  <2> QED
      BY <1>0, <2>1 DEF EntryInv, None
<1>8. CASE RemovePath
  <2>1. /\ path' = [path EXCEPT !.exists = FALSE] /\ past' = past \cup {path'}
        /\ wpc' = wpc /\ run' = run /\ wopt' = wopt /\ path.tmp = None /\ path.name = None
      BY <1>8 DEF RemovePath, Change
  <2>2. path'.tmp = path.tmp /\ path'.name = path.name
      BY <1>0, <2>1 DEF Paths
  <2> QED
      BY Zenon, <1>0, <2>1, <2>2 DEF EntryInv, None
<1>9. CASE Crash
  <2>1. past' \subseteq past /\ run' = run /\ wopt' = wopt /\ wpc' \notin {"open", "again"}
      BY ZenonT(30), <1>0, <1>9 DEF Crash
  <2> QED
      BY <1>0, <2>1 DEF EntryInv, None
<1> QED
    BY <1>1, <1>2, <1>3, <1>4, <1>5, <1>6, <1>7, <1>8, <1>9 DEF PosixNext

\* What a crash leaves: one of the states of the path, and all of a file that
\* was synced
LEMMA CrashLeaves ==
    ASSUME PosixTypeOK, Crash
    PROVE  /\ path' \in past /\ past' = {path'}
           /\ \A i \in Inodes : ino'[i].by = ino[i].by /\ ino'[i].synced
           /\ \A i \in Inodes : ino[i].synced => ino'[i].len = ino[i].len
           /\ wopt.syncFile /\ wopt.syncPath /\ wopt' = wopt /\ run' = run
           /\ \/ wpc = "done" /\ wpc' = "done" /\ ended' = ended
              \/ wpc # "done" /\ wpc' = "failed" /\ ended' = [ended EXCEPT ![run] = "failed"]
<1>0. ino \in [Inodes -> Files] /\ DOMAIN ino = Inodes
    BY TypeFacts
<1>1. PICK p \in past, len \in [DOMAIN ino -> 0 .. FileSize] :
        /\ \A i \in DOMAIN ino :
            IF ino[i].synced THEN len[i] = ino[i].len ELSE len[i] <= ino[i].len
        /\ path' = p
        /\ past' = {p}
        /\ ino' = [i \in DOMAIN ino |-> [ino[i] EXCEPT !.len = len[i], !.synced = TRUE]]
    BY Zenon DEF Crash
<1>2. \A i \in Inodes : ino'[i].by = ino[i].by /\ ino'[i].synced /\ ino'[i].len = len[i]
  <2> SUFFICES ASSUME NEW i \in Inodes
               PROVE  ino'[i].by = ino[i].by /\ ino'[i].synced /\ ino'[i].len = len[i]
      OBVIOUS
  <2>1. ino'[i] = [ino[i] EXCEPT !.len = len[i], !.synced = TRUE] /\ ino[i] \in Files
      BY ZenonT(30), <1>0, <1>1
  <2> QED
      BY <2>1 DEF Files
<1>3. \A i \in Inodes : ino[i].synced => len[i] = ino[i].len
    BY ZenonT(30), <1>0, <1>1
<1>4. /\ wopt.syncFile /\ wopt.syncPath /\ wopt' = wopt /\ run' = run
      /\ \/ wpc = "done" /\ wpc' = "done" /\ ended' = ended
         \/ wpc # "done" /\ wpc' = "failed" /\ ended' = [ended EXCEPT ![run] = "failed"]
    BY Zenon DEF Crash
<1> QED
    BY ZenonT(30), <1>1, <1>2, <1>3, <1>4

LEMMA FileStep == PosixInv /\ PosixNext => FileInv'
<1> SUFFICES ASSUME PosixInv, PosixNext PROVE FileInv'
    OBVIOUS
<1> USE PosixAssumption
<1>0. /\ run \in Inodes /\ path \in Paths /\ path \in past /\ past \subseteq Paths
      /\ ino \in [Inodes -> Files] /\ DOMAIN ino = Inodes
      /\ TmpEntry \in Entries /\ (TmpEntry # None => TmpEntry \in Inodes)
      /\ None \notin Inodes
      /\ FileInv /\ PosixTypeOK
    BY TypeFacts, EntryFacts DEF PosixInv
<1>a. path.name \in Entries /\ (path.name # None => path.name \in Inodes)
    BY <1>0, EntryFacts DEF Paths
<1>1. CASE Open
  <2> DEFINE i == IF TmpEntry = None THEN run ELSE TmpEntry
  <2>1. /\ ino' = [ino EXCEPT ![i] = [by |-> run, len |-> 0, synced |-> FALSE]]
        /\ path' = IF wopt.atomic THEN [path EXCEPT !.tmp = i] ELSE [path EXCEPT !.name = i]
        /\ wpc' = "write" /\ run' = run /\ wopt' = wopt
      BY <1>1 DEF Open, Change
  <2>2. i \in Inodes
      BY <1>0
  <2> HIDE DEF i
  <2>3. TmpEntry' = i
      BY <1>0, <2>1 DEF TmpEntry, Paths
  <2>4. None' = None
      BY DEF None
  <2>5. ino'[i].by = run
      BY <1>0, <2>1, <2>2
  <2> QED
      BY <1>0, <2>1, <2>2, <2>3, <2>4, <2>5 DEF FileInv
<1>2. CASE PathCreate
    BY <1>2 DEF PathCreate, Step, FileInv
<1>3. CASE Write
  <2>1. /\ wpc = "write" /\ wpc' = "write" /\ ino' = [ino EXCEPT ![TmpEntry].len = @ + 1]
        /\ run' = run /\ TmpEntry' = TmpEntry /\ None' = None
      BY <1>3 DEF Write, TmpEntry, None
  <2>2. TmpEntry \in Inodes /\ ino[TmpEntry].by = run
      BY <1>0, <2>1 DEF FileInv
  <2>3. ino'[TmpEntry].by = run
      BY <1>0, <2>1, <2>2 DEF Files
  <2> QED
      BY <2>1, <2>2, <2>3, <1>0 DEF FileInv
<1>4. CASE SyncFile
  <2>1. /\ wpc = "write" /\ wpc' = "rename" /\ ino[TmpEntry].len = FileSize
        /\ ino' = IF wopt.syncFile THEN [ino EXCEPT ![TmpEntry].synced = TRUE] ELSE ino
        /\ run' = run /\ TmpEntry' = TmpEntry /\ None' = None /\ wopt' = wopt
      BY <1>4 DEF SyncFile, Step, TmpEntry, None
  <2>2. TmpEntry \in Inodes /\ ino[TmpEntry].by = run
      BY <1>0, <2>1 DEF FileInv
  <2>3. /\ ino'[TmpEntry].by = run /\ ino'[TmpEntry].len = FileSize
        /\ wopt.syncFile => ino'[TmpEntry].synced
      BY <1>0, <2>1, <2>2 DEF Files
  <2>4. TmpEntry # None
      BY <1>0, <2>2
  <2> QED
      BY <2>1, <2>3, <2>4 DEF FileInv, Filled
<1>5. CASE Rename
  <2>1. /\ wpc = "rename" /\ wpc' = "sync" /\ ino' = ino /\ run' = run /\ wopt' = wopt
        /\ path' = IF wopt.atomic THEN [path EXCEPT !.name = path.tmp, !.tmp = None] ELSE path
      BY <1>5 DEF Rename, Step, Change
  <2>2. path'.name = TmpEntry
      BY <1>0, <2>1 DEF TmpEntry, Paths
  <2>3. None' = None
      BY DEF None
  <2> QED
      BY <1>0, <2>1, <2>2, <2>3 DEF FileInv, Filled
<1>6. CASE SyncPath
  <2>1. /\ wpc = "sync" /\ wpc' = "done" /\ ino' = ino /\ run' = run /\ wopt' = wopt /\ path' = path
        /\ wopt.syncPath => past' = {path'}
      BY <1>6 DEF SyncPath, Step
  <2>3. None' = None
      BY DEF None
  <2> QED
      BY <1>0, <2>1, <2>3 DEF FileInv, Filled
<1>7. CASE PosixFail
    BY <1>7 DEF PosixFail, FileInv
<1>8. CASE RunAgain
    BY <1>8 DEF RunAgain, FileInv
<1>9. CASE RemovePath
  <2>1. wpc' = wpc /\ path.tmp = None /\ path.name = None
      BY <1>9 DEF RemovePath
  <2>2. wpc \notin {"write", "rename", "sync", "done"}
      BY <1>0, <2>1 DEF FileInv, TmpEntry
  <2> QED
      BY <2>1, <2>2 DEF FileInv
<1>10. CASE Crash
  <2>0. /\ path' \in past /\ past' = {path'}
        /\ \A i \in Inodes : ino'[i].by = ino[i].by /\ ino'[i].synced
        /\ \A i \in Inodes : ino[i].synced => ino'[i].len = ino[i].len
        /\ wopt.syncFile /\ wopt.syncPath /\ wopt' = wopt /\ run' = run
        /\ \/ wpc = "done" /\ wpc' = "done" /\ ended' = ended
           \/ wpc # "done" /\ wpc' = "failed" /\ ended' = [ended EXCEPT ![run] = "failed"]
      BY <1>0, <1>10, CrashLeaves
  <2>1. CASE wpc = "done"
    <3>1. path' = path /\ path.name \in Inodes /\ None' = None
        BY <1>0, <1>a, <2>0, <2>1 DEF FileInv, None
    <3>2. ino'[path.name].by = run /\ ino'[path.name].len = FileSize
        BY <1>0, <2>0, <2>1, <3>1 DEF FileInv, Filled
    <3> QED
        BY <1>0, <2>0, <2>1, <3>1, <3>2 DEF FileInv, Filled
  <2>2. CASE wpc' = "failed"
      BY <2>2 DEF FileInv
  <2> QED
      BY <2>0, <2>1, <2>2
<1> QED
    BY <1>1, <1>2, <1>3, <1>4, <1>5, <1>6, <1>7, <1>8, <1>9, <1>10 DEF PosixNext

LEMMA NameStep == PosixInv /\ PosixNext => NameInv'
<1> SUFFICES ASSUME PosixInv, PosixNext, wopt.atomic PROVE NameInv'
  <2>1. PosixNext => wopt' = wopt
      BY Zenon DEF PosixNext, Open, PathCreate, Write, SyncFile, Rename, SyncPath, PosixFail, RunAgain, RemovePath, Crash
  <2> QED
      BY <2>1 DEF NameInv
<1> USE PosixAssumption
<1> DEFINE Named(p) ==
            /\ Filled(p.name)
            /\ wopt.syncFile => ino[p.name].synced
            /\ ino[p.name].by \in 1 .. run
            /\ ino[p.name].by = run => wpc \in {"sync", "done", "failed"}
<1>0. /\ run \in 1 .. MaxRun /\ run \in Inodes /\ path \in Paths /\ path \in past /\ past \subseteq Paths
      /\ ino \in [Inodes -> Files] /\ DOMAIN ino = Inodes
      /\ TmpEntry \in Entries /\ (TmpEntry # None => TmpEntry \in Inodes)
      /\ None \notin Inodes /\ None \notin 1 .. run
      /\ EntryInv /\ FileInv /\ PosixTypeOK
    BY TypeFacts, EntryFacts DEF PosixInv, None
<1>a. \A p \in past : p.name # None => p.name \in Inodes
    BY Zenon, <1>0, EntryFacts DEF Paths
<1>b. TmpEntry = path.tmp
    BY DEF TmpEntry
<1>c. None' = None
    BY DEF None
<1>d. /\ \A p \in past : path.tmp = None \/ p.name # path.tmp
      /\ \A p \in past : p.name \notin {None, OldFile} => Named(p)
      /\ wpc \in {"sync", "done"} => path.name # OldFile
    BY DEF PosixInv, NameInv
\* A step that leaves the path and the named files alone
<1>e. ASSUME wopt' = wopt, run' = run, path'.tmp = path.tmp \/ path'.tmp = None, path'.name = path.name,
             \A p \in past' : \E q \in past : p.name = q.name,
             \A p \in past : p.name \in Inodes => ino'[p.name] = ino[p.name],
             wpc \in {"sync", "done", "failed"} => wpc' \in {"sync", "done", "failed"},
             wpc' \in {"sync", "done"} => wpc \in {"sync", "done"}
      PROVE  NameInv'
    BY <1>0, <1>a, <1>c, <1>d, <1>e DEF NameInv, Filled, OldFile
<1>1. CASE Open
  <2> DEFINE i == IF TmpEntry = None THEN run ELSE TmpEntry
  <2>1. /\ ino' = [ino EXCEPT ![i] = [by |-> run, len |-> 0, synced |-> FALSE]]
        /\ path' = [path EXCEPT !.tmp = i]
        /\ past' = past \cup {path'}
        /\ wpc \in {"open", "again"} /\ wpc' = "write" /\ run' = run /\ wopt' = wopt
      BY <1>1 DEF Open, Change
  <2>2. \A p \in past : p.name # i
      BY <1>0, <1>b, <1>d, <2>1 DEF EntryInv
  <2> HIDE DEF i
  <2>3. path'.tmp = i /\ path'.name = path.name
      BY <1>0, <2>1 DEF Paths
  <2>4. \A p \in past : p.name \in Inodes => ino'[p.name] = ino[p.name]
      BY <1>0, <2>1, <2>2
  <2>5. \A p \in past' : p.name # i /\ \E q \in past : p.name = q.name
      BY Zenon, <1>0, <2>1, <2>2, <2>3
  <2> QED
      BY <1>0, <1>a, <1>c, <1>d, <2>1, <2>2, <2>3, <2>4, <2>5 DEF NameInv, Filled, OldFile
<1>2. CASE PathCreate
  <2>1. path' = [path EXCEPT !.exists = TRUE] /\ past' = past \cup {path'}
      BY <1>2 DEF PathCreate, Change
  <2>2. path'.tmp = path.tmp /\ path'.name = path.name
      BY <1>0, <2>1 DEF Paths
  <2>3. wpc = "open" /\ wpc' = "again" /\ wopt' = wopt /\ run' = run /\ ino' = ino
      BY <1>2 DEF PathCreate, Step
  <2> QED
      BY Zenon, <1>0, <2>1, <2>2, <2>3, <1>e
<1>3. CASE Write
  <2>1. /\ wpc = "write" /\ wpc' = "write" /\ ino' = [ino EXCEPT ![TmpEntry].len = @ + 1]
        /\ run' = run /\ path' = path /\ past' = past /\ wopt' = wopt
      BY <1>3 DEF Write
  <2>2. \A p \in past : p.name \in Inodes => ino'[p.name] = ino[p.name]
      BY <1>0, <1>b, <1>d, <2>1 DEF FileInv
  <2> QED
      BY <2>1, <2>2, <1>e
<1>4. CASE SyncFile
  <2>1. /\ wpc = "write" /\ wpc' = "rename"
        /\ ino' = [ino EXCEPT ![TmpEntry].synced = TRUE] \/ ino' = ino
        /\ run' = run /\ path' = path /\ past' = past /\ wopt' = wopt
      BY <1>4 DEF SyncFile, Step
  <2>2. \A p \in past : p.name \in Inodes => ino'[p.name] = ino[p.name]
      BY <1>0, <1>b, <1>d, <2>1 DEF FileInv
  <2> QED
      BY <2>1, <2>2, <1>e
<1>5. CASE Rename
  <2>1. /\ wpc = "rename" /\ wpc' = "sync" /\ ino' = ino /\ run' = run /\ wopt' = wopt
        /\ path' = [path EXCEPT !.name = path.tmp, !.tmp = None]
        /\ past' = past \cup {path'}
      BY <1>5 DEF Rename, Step, Change
  <2>2. path'.tmp = None /\ path'.name = path.tmp
      BY <1>0, <2>1 DEF Paths
  <2>3. path.tmp \in 1 .. run /\ ino[path.tmp].by = run /\ Filled(path.tmp) /\ (wopt.syncFile => ino[path.tmp].synced)
      BY <1>0, <1>b, <2>1 DEF FileInv, EntryInv
  <2>4. path.tmp # OldFile
      BY <2>3 DEF OldFile
  <2>5. ASSUME NEW p \in past', p.name \notin {None, OldFile}
        PROVE  /\ ino[p.name].len = FileSize
               /\ wopt.syncFile => ino[p.name].synced
               /\ ino[p.name].by \in 1 .. run
    <3>1. CASE p \in past
        BY <1>d, <2>5, <3>1 DEF Filled
    <3>2. CASE p = path'
        BY <1>0, <2>2, <2>3, <3>2 DEF Filled
    <3> QED
        BY <2>1, <3>1, <3>2
  <2> QED
      BY <1>c, <2>1, <2>2, <2>4, <2>5 DEF NameInv, Filled, OldFile
<1>6. CASE SyncPath
  <2>1. /\ wpc = "sync" /\ wpc' = "done" /\ ino' = ino /\ run' = run /\ wopt' = wopt /\ path' = path
        /\ past' \subseteq past
      BY <1>0, <1>6 DEF SyncPath, Step
  <2> QED
      BY <2>1, <1>e
<1>7. CASE PosixFail
    BY <1>7, <1>e DEF PosixFail
<1>8. CASE RunAgain
  <2>1. run' = run + 1 /\ wpc' = "open" /\ ino' = ino /\ wopt' = wopt /\ path' = path /\ past' = past
      BY <1>8 DEF RunAgain
  <2> QED
      BY <1>0, <1>a, <1>c, <1>d, <2>1 DEF NameInv, Filled, OldFile
<1>9. CASE RemovePath
  <2>1. path' = [path EXCEPT !.exists = FALSE] /\ past' = past \cup {path'}
      BY <1>9 DEF RemovePath, Change
  <2>2. path'.tmp = path.tmp /\ path'.name = path.name
      BY <1>0, <2>1 DEF Paths
  <2>3. wpc' = wpc /\ wopt' = wopt /\ run' = run /\ ino' = ino
      BY <1>9 DEF RemovePath
  <2> QED
      BY Zenon, <1>0, <2>1, <2>2, <2>3, <1>e
<1>10. CASE Crash
  <2>0. /\ path' \in past /\ past' = {path'}
        /\ \A i \in Inodes : ino'[i].by = ino[i].by /\ ino'[i].synced
        /\ \A i \in Inodes : ino[i].synced => ino'[i].len = ino[i].len
        /\ wopt.syncFile /\ wopt.syncPath /\ wopt' = wopt /\ run' = run
        /\ \/ wpc = "done" /\ wpc' = "done" /\ ended' = ended
           \/ wpc # "done" /\ wpc' = "failed" /\ ended' = [ended EXCEPT ![run] = "failed"]
      BY <1>0, <1>10, CrashLeaves
  <2>1. path'.tmp = None \/ path'.tmp # path'.name
      BY <1>0, <2>0 DEF EntryInv
  <2>2. path'.name \notin {None, OldFile} =>
            ino'[path'.name].len = FileSize /\ ino'[path'.name].synced /\ ino'[path'.name].by \in 1 .. run
      BY <1>a, <1>d, <2>0 DEF Filled
  <2>3. wpc' = "done" => path'.name # OldFile
      BY <1>0, <1>d, <2>0 DEF FileInv
  <2> QED
      BY <1>c, <2>0, <2>1, <2>2, <2>3 DEF NameInv, Filled, OldFile
<1> QED
    BY <1>1, <1>2, <1>3, <1>4, <1>5, <1>6, <1>7, <1>8, <1>9, <1>10 DEF PosixNext

LEMMA KeptStep == PosixInv /\ PosixNext => KeptInv'
<1> SUFFICES ASSUME PosixInv, PosixNext, wopt.atomic, wopt.syncPath PROVE KeptInv'
  <2>1. PosixNext => wopt' = wopt
      BY Zenon DEF PosixNext, Open, PathCreate, Write, SyncFile, Rename, SyncPath, PosixFail, RunAgain, RemovePath, Crash
  <2> QED
      BY <2>1 DEF KeptInv
<1> USE PosixAssumption
<1>0. /\ run \in 1 .. MaxRun /\ path \in Paths /\ path \in past /\ past \subseteq Paths
      /\ ino \in [Inodes -> Files] /\ ended \in [1 .. MaxRun -> {"open", "returned", "failed"}]
      /\ EntryInv /\ FileInv /\ RunInv /\ PosixTypeOK
    BY TypeFacts DEF PosixInv
<1>a. \A p \in past : p.name # None => p.name \in Inodes
    BY <1>0, EntryFacts DEF Paths
<1>b. TmpEntry = path.tmp /\ None' = None
    BY DEF TmpEntry, None
<1>d. /\ \A p \in past : path.tmp = None \/ p.name # path.tmp
      /\ \A p \in past : p.name \notin {None, OldFile} => ino[p.name].by \in 1 .. run
      /\ wpc \in {"sync", "done"} => path.name # OldFile
      /\ (\E r \in 1 .. MaxRun : ended[r] = "returned") => \A p \in past : p.name \notin {None, OldFile}
      /\ path.name \notin {None, OldFile} /\ ended[ino[path.name].by] = "returned" =>
                \A p \in past : p.name = path.name
    BY DEF PosixInv, NameInv, KeptInv
\* A step that leaves the name, the named files and what has returned alone
<1>e. ASSUME path'.name = path.name,
             \A p \in past' : \E q \in past : p.name = q.name,
             path.name \in Inodes => ino'[path.name].by = ino[path.name].by,
             \A r \in 1 .. MaxRun : ended'[r] = "returned" => ended[r] = "returned"
      PROVE  KeptInv'
  <2>1. ASSUME path.name \notin {None, OldFile}
        PROVE  ino'[path.name].by = ino[path.name].by /\ ino[path.name].by \in 1 .. MaxRun
      BY <1>0, <1>a, <1>d, <1>e, <2>1
  <2> QED
      BY <1>0, <1>b, <1>d, <1>e, <2>1 DEF KeptInv, OldFile
<1>1. CASE Open
  <2> DEFINE i == IF TmpEntry = None THEN run ELSE TmpEntry
  <2>1. /\ ino' = [ino EXCEPT ![i] = [by |-> run, len |-> 0, synced |-> FALSE]]
        /\ path' = [path EXCEPT !.tmp = i]
        /\ past' = past \cup {path'}
        /\ wpc \in {"open", "again"} /\ ended' = ended
      BY <1>1 DEF Open, Change
  <2>2. \A p \in past : p.name # i
      BY <1>0, <1>b, <1>d, <2>1 DEF EntryInv
  <2> HIDE DEF i
  <2>3. path'.name = path.name
      BY <1>0, <2>1 DEF Paths
  <2>4. path.name \in Inodes => ino'[path.name] = ino[path.name]
      BY <1>0, <2>1, <2>2
  <2> QED
      BY Zenon, <1>0, <2>1, <2>3, <2>4, <1>e
<1>2. CASE PathCreate
  <2>1. path' = [path EXCEPT !.exists = TRUE] /\ past' = past \cup {path'} /\ ino' = ino /\ ended' = ended
      BY <1>2 DEF PathCreate, Change
  <2>2. path'.name = path.name
      BY <1>0, <2>1 DEF Paths
  <2> QED
      BY Zenon, <1>0, <2>1, <2>2, <1>e
<1>3. CASE Write
  <2>1. /\ wpc = "write" /\ ino' = [ino EXCEPT ![TmpEntry].len = @ + 1]
        /\ path' = path /\ past' = past /\ ended' = ended
      BY <1>3 DEF Write
  <2>2. path.name \in Inodes => ino'[path.name] = ino[path.name]
      BY <1>0, <1>b, <1>d, <2>1 DEF FileInv
  <2> QED
      BY <2>1, <2>2, <1>e
<1>4. CASE SyncFile
  <2>1. /\ wpc = "write" /\ (ino' = [ino EXCEPT ![TmpEntry].synced = TRUE] \/ ino' = ino)
        /\ path' = path /\ past' = past /\ ended' = ended
      BY <1>4 DEF SyncFile, Step
  <2>2. path.name \in Inodes => ino'[path.name] = ino[path.name]
      BY <1>0, <1>b, <1>d, <2>1, <1>4 DEF FileInv, SyncFile, Step
  <2> QED
      BY <2>1, <2>2, <1>e, <1>4 DEF SyncFile
<1>5. CASE Rename
  <2>1. /\ wpc = "rename" /\ ino' = ino /\ ended' = ended
        /\ path' = [path EXCEPT !.name = path.tmp, !.tmp = None]
        /\ past' = past \cup {path'}
      BY <1>5 DEF Rename, Step, Change
  <2>2. path'.name = path.tmp
      BY <1>0, <2>1 DEF Paths
  <2>3. path.tmp \in 1 .. run /\ ino[path.tmp].by = run
      BY <1>0, <1>b, <2>1 DEF FileInv, EntryInv
  <2>4. path.tmp \notin {None, OldFile} /\ ended[run] = "open"
      BY <1>0, <2>1, <2>3 DEF OldFile, None, RunInv
  <2> QED
      BY Zenon, <1>b, <1>d, <2>1, <2>2, <2>3, <2>4 DEF KeptInv, OldFile
<1>6. CASE SyncPath
  <2>1. wpc = "sync" /\ past' = {path} /\ path' = path
      BY <1>6 DEF SyncPath, Step
  <2>2. path.name \notin {None, OldFile}
      BY <1>0, <1>d, <2>1 DEF FileInv
  <2> QED
      BY <1>b, <2>1, <2>2 DEF KeptInv, OldFile
<1>7. CASE PosixFail
    BY <1>0, <1>7, <1>e DEF PosixFail
<1>8. CASE RunAgain
    BY <1>8, <1>e DEF RunAgain
<1>9. CASE RemovePath
  <2>1. path' = [path EXCEPT !.exists = FALSE] /\ past' = past \cup {path'} /\ ino' = ino /\ ended' = ended
      BY <1>9 DEF RemovePath, Change
  <2>2. path'.name = path.name
      BY <1>0, <2>1 DEF Paths
  <2> QED
      BY Zenon, <1>0, <2>1, <2>2, <1>e
<1>10. CASE Crash
  <2>0. /\ path' \in past /\ past' = {path'}
        /\ \/ ended' = ended
           \/ ended' = [ended EXCEPT ![run] = "failed"]
      BY <1>0, <1>10, CrashLeaves
  <2>1. \A r \in 1 .. MaxRun : ended'[r] = "returned" => ended[r] = "returned"
      BY <1>0, <2>0
  <2> QED
      BY <1>b, <1>d, <2>0, <2>1 DEF KeptInv, OldFile
<1> QED
    BY <1>1, <1>2, <1>3, <1>4, <1>5, <1>6, <1>7, <1>8, <1>9, <1>10 DEF PosixNext

\* The invariant holds in every state of the driver (storageWritePosixOpen(),
\* storageWritePosix(), storageWritePosixClose()).
THEOREM PosixInvariant == PosixSpec => []PosixInv
<1>1. PosixInv /\ [PosixNext]_posixVars => PosixInv'
  <2>1. ASSUME PosixInv, PosixNext PROVE PosixInv'
      BY <2>1, PosixTypeStep, RunStep, EntryStep, FileStep, NameStep, KeptStep DEF PosixInv
  <2>2. ASSUME PosixInv, UNCHANGED posixVars PROVE PosixInv'
      BY <2>2 DEF PosixInv, PosixTypeOK, RunInv, EntryInv, FileInv, NameInv, KeptInv, Filled, TmpEntry, None, OldFile,
                  posixVars
  <2> QED
      BY <2>1, <2>2
<1> QED
    BY <1>1, PosixInvInit, PTL DEF PosixSpec

\* A write that returned after both syncs is on disk whole, whatever state of
\* the path a crash leaves, until a later run replaces it
\* (storageWritePosixClose()).
THEOREM ReturnedOnDisk == PosixSpec => []ReturnedKept
<1>1. PosixInv => ReturnedKept
  <2> SUFFICES ASSUME PosixInv, wpc = "done", wopt.syncFile, wopt.syncPath, NEW p \in past
               PROVE  p.exists /\ p.name # None /\ ino[p.name] = [by |-> run, len |-> FileSize, synced |-> TRUE]
      BY Zenon DEF ReturnedKept
  <2>1. /\ p = path /\ p.name # None /\ ino[p.name].by = run /\ ino[p.name].len = FileSize /\ ino[p.name].synced
      BY DEF PosixInv, FileInv, Filled
  <2>2. p.exists
      BY <2>1 DEF PosixInv, EntryInv
  <2>3. p.name \in Inodes /\ ino \in [Inodes -> Files]
      BY <2>1, TypeFacts, EntryFacts DEF PosixInv, Paths
  <2>4. ino[p.name] \in Files
      BY <2>3
  <2>5. ino[p.name] = [by |-> run, len |-> FileSize, synced |-> TRUE]
      BY Zenon, <2>1, <2>4 DEF Files
  <2> QED
      BY <2>1, <2>2, <2>5
<1> QED
    BY <1>1, PosixInvariant, PTL

(***************************************************************************)
(* The atomic store.                                                       *)
(***************************************************************************)
Author(p, i) == IF p.name \in {None, OldFile} THEN 0 ELSE i[p.name].by
Puts(e, pc, r) == [w \in 1 .. MaxRun |-> IF w = r /\ pc = "sync" THEN "stored" ELSE e[w]]

\* With the invariant the mapping needs no torn file
LEMMA MappedState ==
    ASSUME PosixInv, wopt.atomic
    PROVE  PosixObject = Author(path, ino) /\ PosixPut = Puts(ended, wpc, run)
<1>1. path.name \notin {None, OldFile} => Filled(path.name)
    BY TypeFacts DEF PosixInv, NameInv
<1>2. PosixObject = Author(path, ino)
    BY <1>1 DEF PosixObject, Author, Filled, None, OldFile
<1>3. PosixPut = Puts(ended, wpc, run)
    BY DEF PosixPut, Puts
<1> QED
    BY <1>2, <1>3

LEMMA MappedStep ==
    ASSUME PosixInv, PosixInv', PosixNext
    PROVE  [Posix!StoreNext]_(Posix!storeVars)
<1> USE PosixAssumption
<1>a. wopt' = wopt
    BY Zenon DEF PosixNext, Open, PathCreate, Write, SyncFile, Rename, SyncPath, PosixFail, RunAgain, RemovePath, Crash
<1>1. CASE ~wopt.atomic
  <2>1. PosixObject = 0 /\ PosixObject' = 0
      BY <1>a, <1>1 DEF PosixObject
  <2>2. PosixPut = [r \in 1 .. MaxRun |-> "open"]
      BY <1>1 DEF PosixPut
  <2>3. ~wopt'.atomic
      BY <1>a, <1>1
  <2>4. PosixPut' = [r \in 1 .. MaxRun |-> "open"]
      BY <2>3 DEF PosixPut
  <2> QED
      BY <2>1, <2>2, <2>4 DEF Posix!storeVars
<1>2. CASE wopt.atomic
  <2>0. /\ run \in 1 .. MaxRun /\ path \in Paths /\ path \in past /\ past \subseteq Paths
        /\ ino \in [Inodes -> Files] /\ ended \in [1 .. MaxRun -> {"open", "returned", "failed"}]
        /\ EntryInv /\ FileInv /\ RunInv /\ PosixTypeOK /\ NameInv
      BY TypeFacts DEF PosixInv
  <2>b. \A p \in past : p.name # None => p.name \in Inodes
      BY <2>0, EntryFacts DEF Paths
  <2>c. TmpEntry = path.tmp
      BY <1>2 DEF TmpEntry
  <2>d. /\ \A p \in past : path.tmp = None \/ p.name # path.tmp
        /\ \A p \in past : p.name \notin {None, OldFile} =>
            ino[p.name].by \in 1 .. run /\ (ino[p.name].by = run => wpc \in {"sync", "done", "failed"})
        /\ wpc \in {"sync", "done"} => path.name # OldFile
      BY <1>2 DEF PosixInv, NameInv
  <2>e. wopt.syncPath =>
            /\ (\E r \in 1 .. MaxRun : ended[r] = "returned") => \A p \in past : p.name \notin {None, OldFile}
            /\ path.name \notin {None, OldFile} /\ ended[ino[path.name].by] = "returned" =>
                \A p \in past : p.name = path.name
      BY <1>2 DEF PosixInv, KeptInv
  <2>f. PosixObject = Author(path, ino) /\ PosixPut = Puts(ended, wpc, run)
      BY <1>2, MappedState
  <2>g. PosixObject' = Author(path', ino') /\ PosixPut' = Puts(ended', wpc', run')
    <3>1. wopt'.atomic
        BY <1>a, <1>2
    <3>2. path'.name \notin {None, OldFile} => ino'[path'.name].len = FileSize
        BY <3>1 DEF PosixInv, NameInv, PosixTypeOK, None, OldFile, Filled
    <3>3. PosixObject' = IF path'.name \in {None, OldFile} THEN 0
                         ELSE IF ino'[path'.name].len = FileSize THEN ino'[path'.name].by ELSE None
        BY <3>1 DEF PosixObject, Filled, None, OldFile
    <3>5. PosixObject' = Author(path', ino')
        BY <3>2, <3>3 DEF Author
    <3>4. PosixPut' = Puts(ended', wpc', run')
        BY <3>1 DEF PosixPut, Puts
    <3> QED
        BY <3>4, <3>5
  \* A step that the store does not see
  <2>h. ASSUME path'.name = path.name, path.name \in Inodes => ino'[path.name].by = ino[path.name].by,
               Puts(ended', wpc', run') = Puts(ended, wpc, run)
        PROVE  UNCHANGED Posix!storeVars
    <3>1. Author(path', ino') = Author(path, ino)
        BY <2>0, <2>b, <2>h DEF Author
    <3> QED
        BY <2>f, <2>g, <2>h, <3>1 DEF Posix!storeVars
  <2>1. CASE Open
    <3> DEFINE i == IF TmpEntry = None THEN run ELSE TmpEntry
    <3>1. /\ ino' = [ino EXCEPT ![i] = [by |-> run, len |-> 0, synced |-> FALSE]]
          /\ path' = [path EXCEPT !.tmp = i]
          /\ wpc \in {"open", "again"} /\ wpc' = "write" /\ run' = run /\ ended' = ended
        BY <1>2, <2>1 DEF Open, Change
    <3>2. path.name # i
        BY <2>0, <2>c, <2>d, <3>1 DEF EntryInv
    <3> HIDE DEF i
    <3>3. path'.name = path.name
        BY <2>0, <3>1 DEF Paths
    <3>4. path.name \in Inodes => ino'[path.name] = ino[path.name]
        BY <2>0, <3>1, <3>2
    <3>5. Puts(ended', wpc', run') = Puts(ended, wpc, run)
        BY <3>1 DEF Puts
    <3> QED
        BY <3>3, <3>4, <3>5, <2>h
  <2>2. CASE PathCreate
    <3>1. path' = [path EXCEPT !.exists = TRUE] /\ ino' = ino
        BY <2>2 DEF PathCreate, Change
    <3>2. path'.name = path.name
        BY <2>0, <3>1 DEF Paths
    <3>3. Puts(ended', wpc', run') = Puts(ended, wpc, run)
        BY <2>2 DEF Puts, PathCreate, Step
    <3> QED
        BY <3>1, <3>2, <3>3, <2>h
  <2>3. CASE Write
    <3>1. wpc = "write" /\ ino' = [ino EXCEPT ![TmpEntry].len = @ + 1] /\ path' = path
        BY <2>3 DEF Write
    <3>2. path.name \in Inodes => ino'[path.name] = ino[path.name]
        BY <2>0, <2>c, <2>d, <3>1 DEF FileInv
    <3>3. Puts(ended', wpc', run') = Puts(ended, wpc, run)
        BY <2>3 DEF Puts, Write
    <3> QED
        BY <3>1, <3>2, <3>3, <2>h
  <2>4. CASE SyncFile
    <3>1. wpc = "write" /\ (ino' = [ino EXCEPT ![TmpEntry].synced = TRUE] \/ ino' = ino) /\ path' = path
        BY <2>4 DEF SyncFile, Step
    <3>2. path.name \in Inodes => ino'[path.name] = ino[path.name]
        BY <2>0, <2>c, <2>d, <3>1 DEF FileInv
    <3>3. Puts(ended', wpc', run') = Puts(ended, wpc, run)
        BY <2>4 DEF Puts, SyncFile, Step
    <3> QED
        BY <3>1, <3>2, <3>3, <2>h
  <2>5. CASE Rename
    <3>1. /\ wpc = "rename" /\ wpc' = "sync" /\ ino' = ino /\ ended' = ended /\ run' = run
          /\ path' = [path EXCEPT !.name = path.tmp, !.tmp = None]
        BY <1>2, <2>5 DEF Rename, Step, Change
    <3>2. path'.name = path.tmp
        BY <2>0, <3>1 DEF Paths
    <3>3. path.tmp \in 1 .. run /\ ino[path.tmp].by = run
        BY <2>0, <2>c, <3>1 DEF FileInv, EntryInv
    <3>4. path.tmp \notin {None, OldFile} /\ ended[run] = "open"
        BY <2>0, <3>1, <3>3 DEF OldFile, None, RunInv
    <3>5. PosixObject' = run
        BY <2>g, <3>1, <3>2, <3>3, <3>4 DEF Author
    <3>6. PosixPut[run] = "open"
        BY <2>0, <2>f, <3>1, <3>4 DEF Puts
    <3>7. PosixPut' = [PosixPut EXCEPT ![run] = "stored"]
        BY Zenon, <2>0, <2>f, <2>g, <3>1 DEF Puts
    <3>8. Posix!Store(run)
        BY <3>5, <3>6, <3>7 DEF Posix!Store
    <3> QED
        BY <2>0, <3>8 DEF Posix!StoreNext
  <2>6. CASE SyncPath
    <3>1. /\ wpc = "sync" /\ wpc' = "done" /\ path' = path /\ ino' = ino /\ run' = run
          /\ ended' = [ended EXCEPT ![run] = "returned"]
        BY <2>6 DEF SyncPath, Step
    <3>2. PosixObject' = PosixObject
        BY <2>f, <2>g, <3>1
    <3>3. PosixPut[run] = "stored"
        BY <2>0, <2>f, <3>1 DEF Puts
    <3>4. PosixPut' = [PosixPut EXCEPT ![run] = "returned"]
        BY Zenon, <2>0, <2>f, <2>g, <3>1 DEF Puts
    <3>5. Posix!Return(run)
        BY <3>2, <3>3, <3>4 DEF Posix!Return
    <3> QED
        BY <2>0, <3>5 DEF Posix!StoreNext
  <2>7. CASE PosixFail
    <3>1. /\ wpc \notin {"done", "failed"} /\ wpc' = "failed" /\ path' = path /\ ino' = ino /\ run' = run
          /\ ended' = [ended EXCEPT ![run] = "failed"]
        BY <2>7 DEF PosixFail
    <3>2. PosixObject' = PosixObject
        BY <2>f, <2>g, <3>1
    <3>3. PosixPut[run] \in {"open", "stored"}
        BY <2>0, <2>f, <3>1 DEF Puts, RunInv
    <3>4. PosixPut' = [PosixPut EXCEPT ![run] = "failed"]
        BY <2>0, <2>f, <2>g, <3>1 DEF Puts
    <3>5. Posix!Fail(run)
        BY <3>2, <3>3, <3>4 DEF Posix!Fail
    <3> QED
        BY <2>0, <3>5 DEF Posix!StoreNext
  <2>8. CASE RunAgain
    <3>1. Puts(ended', wpc', run') = Puts(ended, wpc, run)
        BY <2>8 DEF Puts, RunAgain
    <3> QED
        BY <2>8, <3>1, <2>h DEF RunAgain
  <2>9. CASE RemovePath
    <3>1. path' = [path EXCEPT !.exists = FALSE] /\ ino' = ino
        BY <2>9 DEF RemovePath, Change
    <3>2. path'.name = path.name
        BY <2>0, <3>1 DEF Paths
    <3>3. Puts(ended', wpc', run') = Puts(ended, wpc, run)
        BY <2>9 DEF Puts, RemovePath
    <3> QED
        BY <3>1, <3>2, <3>3, <2>h
  <2>10. CASE Crash
    <3>0. /\ path' \in past /\ past' = {path'}
          /\ \A i \in Inodes : ino'[i].by = ino[i].by /\ ino'[i].synced
          /\ wopt.syncFile /\ wopt.syncPath /\ run' = run
          /\ \/ wpc = "done" /\ wpc' = "done" /\ ended' = ended
             \/ wpc # "done" /\ wpc' = "failed" /\ ended' = [ended EXCEPT ![run] = "failed"]
        BY <2>0, <2>10, CrashLeaves
    <3>1. CASE wpc = "done"
      <4>1. path' = path
          BY <2>0, <3>0, <3>1 DEF FileInv
      <4>2. Puts(ended', wpc', run') = Puts(ended, wpc, run)
          BY <3>0, <3>1 DEF Puts
      <4> QED
          BY <3>0, <4>1, <4>2, <2>h
    <3>2. CASE wpc # "done"
      <4>1. wpc' = "failed" /\ ended' = [ended EXCEPT ![run] = "failed"]
          BY <3>0, <3>2
      <4>2. PosixPut[run] \in {"open", "stored", "failed"}
          BY <2>0, <2>f, <3>2 DEF Puts, RunInv
      <4>3. PosixPut' = [PosixPut EXCEPT ![run] = "failed"]
          BY <2>0, <2>f, <2>g, <3>0, <4>1 DEF Puts
      <4>4. PosixPut \in [1 .. MaxRun -> {"open", "stored", "returned", "failed"}]
          BY <2>0, <2>f DEF Puts
      <4>5. \A r \in 1 .. MaxRun : PosixPut[r] = "returned" <=> ended[r] = "returned"
          BY <2>0, <2>f DEF Puts, RunInv
      \* What the store may lead to then
      <4>6. PosixObject' = Author(path', ino)
          BY <2>g, <2>b, <3>0 DEF Author
      <4>7. CASE path'.name = path.name
        <5>1. PosixObject' = PosixObject
            BY <2>f, <4>6, <4>7 DEF Author
        <5>2. CASE PosixPut[run] = "failed"
            BY <4>3, <4>4, <5>1, <5>2 DEF Posix!storeVars
        <5>3. CASE PosixPut[run] \in {"open", "stored"}
          <6>1. Posix!Fail(run)
              BY <4>3, <5>1, <5>3 DEF Posix!Fail
          <6> QED
              BY <2>0, <6>1 DEF Posix!StoreNext
        <5> QED
            BY <4>2, <5>2, <5>3
      <4>8. CASE path'.name # path.name
        <5>1. PosixObject \notin Posix!Returned
          <6>1. path.name \notin {None, OldFile} => ended[ino[path.name].by] # "returned"
              BY <2>e, <3>0, <4>8
          <6>2. PosixObject \in 1 .. MaxRun => ended[PosixObject] # "returned"
              BY <2>0, <2>f, <6>1 DEF Author
          <6> QED
              BY <4>5, <6>2 DEF Posix!Returned
        <5>2. PosixObject' \in {v \in 1 .. MaxRun : PosixPut[v] \in {"stored", "failed"}}
                                \cup (IF Posix!Returned = {} THEN {0} ELSE Posix!Returned)
          <6>1. CASE path'.name \in {None, OldFile}
            <7>1. PosixObject' = 0
                BY <4>6, <6>1 DEF Author
            <7>2. Posix!Returned = {}
                BY <2>e, <3>0, <4>5, <6>1 DEF Posix!Returned
            <7> QED
                BY <7>1, <7>2
          <6>2. CASE path'.name \notin {None, OldFile}
            <7> DEFINE a == ino[path'.name].by
            <7>1. PosixObject' = a /\ a \in 1 .. run /\ (a = run => wpc \in {"sync", "done", "failed"})
                BY <2>d, <3>0, <4>6, <6>2 DEF Author
            <7> HIDE DEF a
            <7>2. a \in 1 .. MaxRun /\ (a < run \/ a = run)
                BY <2>0, <7>1
            <7>3. PosixPut[a] \in {"stored", "failed", "returned"}
                BY <2>0, <2>f, <3>2, <7>1, <7>2 DEF Puts, RunInv
            <7> QED
                BY <7>1, <7>2, <7>3 DEF Posix!Returned
          <6> QED
              BY <6>1, <6>2
        <5>3. \E ends \in SUBSET {w \in 1 .. MaxRun : PosixPut[w] \in {"open", "stored"}} :
                PosixPut' = [w \in 1 .. MaxRun |-> IF w \in ends THEN "failed" ELSE PosixPut[w]]
          <6>1. CASE PosixPut[run] = "failed"
            <7>1. PosixPut' = [w \in 1 .. MaxRun |-> IF w \in {} THEN "failed" ELSE PosixPut[w]]
                BY Zenon, <4>3, <4>4, <6>1
            <7> QED
                BY <7>1
          <6>2. CASE PosixPut[run] \in {"open", "stored"}
            <7>1. PosixPut' = [w \in 1 .. MaxRun |-> IF w \in {run} THEN "failed" ELSE PosixPut[w]]
                BY Zenon, <4>3, <4>4
            <7>2. {run} \in SUBSET {w \in 1 .. MaxRun : PosixPut[w] \in {"open", "stored"}}
                BY <2>0, <6>2
            <7> QED
                BY Zenon, <7>1, <7>2
          <6> QED
              BY Zenon, <4>2, <6>1, <6>2
        <5> QED
            BY <5>1, <5>2, <5>3 DEF Posix!Revert, Posix!StoreNext
      <4> QED
          BY <4>7, <4>8
    <3> QED
        BY <3>1, <3>2
  <2> QED
      BY <2>1, <2>2, <2>3, <2>4, <2>5, <2>6, <2>7, <2>8, <2>9, <2>10 DEF PosixNext
<1> QED
    BY <1>1, <1>2

\* Every behaviour of the Posix driver is one of the atomic store: the name
\* leads to all of one run's file or to what was there before, and a file whose
\* write returned is not lost, through crashes, failures and repeated runs
\* (storageWritePosixClose()).
THEOREM PosixImplementsStore == PosixSpec => PosixStore
<1>1. PosixInit => Posix!StoreInit
  <2> SUFFICES ASSUME PosixInit PROVE Posix!StoreInit
      OBVIOUS
  <2>1. /\ path.name \in {None, OldFile} /\ wpc = "open" /\ ended = [r \in 1 .. MaxRun |-> "open"]
      BY DEF PosixInit
  <2>2. PosixObject = 0
      BY <2>1 DEF PosixObject
  <2>3. PosixPut = [r \in 1 .. MaxRun |-> "open"]
      BY <2>1 DEF PosixPut
  <2> QED
      BY <2>2, <2>3 DEF Posix!StoreInit
<1>2. PosixInv /\ PosixInv' /\ [PosixNext]_posixVars => [Posix!StoreNext]_(Posix!storeVars)
  <2>1. ASSUME PosixInv, PosixInv', PosixNext PROVE [Posix!StoreNext]_(Posix!storeVars)
      BY <2>1, MappedStep
  <2>2. ASSUME UNCHANGED posixVars PROVE UNCHANGED Posix!storeVars
      BY <2>2 DEF posixVars, Posix!storeVars, PosixObject, PosixPut, Filled
  <2> QED
      BY <2>1, <2>2
<1> QED
    BY <1>1, <1>2, PosixInvariant, PTL DEF PosixSpec, PosixStore, Posix!StoreSpec
=============================================================================
