------------------------------ MODULE Manifest ------------------------------
(***************************************************************************)
(* The manifest of a backup (info/manifest.c): the checks of its links and *)
(* the way it is saved and loaded.  Only what differs from the defaults of *)
(* its section is saved, and the defaults are the most common values, so a *)
(* loaded manifest is right only if saving and loading agree on every      *)
(* default.                                                                *)
(***************************************************************************)
EXTENDS Call, Integers, Sequences, FiniteSets, SequencesExt

-----------------------------------------------------------------------------
(* manifestLinkCheck().  A path is a sequence of characters, numbers in    *)
(* the order of their codes, and 1 is the slash; a link is [path, file],   *)
(* with file 0 for a link to a directory.                                  *)

Slash == 1

LinkDest(path) == Append(path, Slash)

PathLess(p, q) ==
    \/ IsStrictPrefix(p, q)
    \/ \E i \in 1 .. Len(p) : /\ i <= Len(q) /\ p[i] < q[i]
                              /\ \A j \in 1 .. i - 1 : p[j] = q[j]

\* the nearest link to a directory before or after path in the sorted list
Nearest(list, path, Before(_, _)) ==
    LET side == {l \in list : l.file = 0 /\ Before(l.path, path)}
    IN  {l \in side : \A k \in side : k = l \/ Before(k.path, l.path)}

manifestLinkCheckOne(base, list, link) ==
    LET path == LinkDest(link.path)
        same == {l \in list : l.path = path}
        below(p, q) == PathLess(q, p)
    IN  IF IsPrefix(LinkDest(base), path) THEN Throw("in PGDATA")
        ELSE IF same # {}
             THEN IF \E l \in same : l.file # 0 /\ link.file # 0 /\ l.file # link.file
                  THEN Value(list) ELSE Throw("same file or directory")
        ELSE IF /\ link.file = 0
                /\ \/ \E l \in Nearest(list, path, PathLess) : IsPrefix(l.path, path)
                   \/ \E l \in Nearest(list, path, below) : IsPrefix(path, l.path)
             THEN Throw("subdirectory")
        ELSE Value(list \cup {[path |-> path, file |-> link.file]})

manifestLinkCheck(a) ==
    FoldLeft(LAMBDA r, l : IF Threw(r) THEN r ELSE manifestLinkCheckOne(a.base, r.ok, l),
             Value({}), a.link)

\* p is q or a directory of q
PathIn(p, q) == IsPrefix(p, q) /\ (Len(q) > Len(p) => q[Len(p) + 1] = Slash)

\* manifestLinkCheck() refuses a set of links exactly when one of them leads
\* into the data directory, when two lead to the same file or directory or
\* when one leads to a subdirectory of another, in whatever order the links
\* are found; with the exception of a third link to a file of a directory.
LinksApart(a, r) ==
    LET clash(k, l) ==
            IF k.file # 0 /\ l.file # 0 THEN k = l
            ELSE IF k.file = 0 /\ l.file = 0
                 THEN PathIn(k.path, l.path) \/ PathIn(l.path, k.path)
            ELSE k.path = l.path
        wrong == \/ \E i \in DOMAIN a.link : PathIn(a.base, a.link[i].path)
                 \/ \E i, j \in DOMAIN a.link : i # j /\ clash(a.link[i], a.link[j])
    IN  (\A p \in {l.path : l \in ToSet(a.link)} :
            Len(SelectSeq(a.link, LAMBDA l : l.path = p /\ l.file # 0)) <= 2)
        => (Threw(r) <=> wrong)

-----------------------------------------------------------------------------
(* manifestSave() and manifestNewLoad().  A section is a sequence of items *)
(* in the order of their names; an item is a function from its keys.  On   *)
(* disk a key that is left out has no place in the domain, an owner that   *)
(* has no name in memory is the value FALSE.                               *)

NoOwner == "no owner"
OwnerVar(o) == IF o = NoOwner THEN "FALSE" ELSE o
OwnerGet(o) == IF o = "FALSE" THEN NoOwner ELSE o

\* mcvUpdate() and mcvResult(): the first of the most frequent values, but
\* FALSE when it is one of them
Frequency(s, v) == Len(SelectSeq(s, LAMBDA x : x = v))
mcvResult(s) ==
    LET top == {v \in ToSet(s) : \A w \in ToSet(s) : Frequency(s, v) >= Frequency(s, w)}
    IN  IF "false" \in top THEN "false"
        ELSE s[CHOOSE i \in DOMAIN s : s[i] \in top /\ \A j \in 1 .. i - 1 : s[j] \notin top]

\* the default of key k of a section, empty section: no default
Default(items, k) == mcvResult([i \in DOMAIN items |-> items[i][k]])

SaveDefaults(items, keys) == [k \in {x \in keys : items # <<>>} |-> OwnerVar(Default(items, k))]

\* the keys of the file that are always the same on disk
FileFixed(f) ==
    {"name", "size"}
        \cup (IF f["size"] # 0 /\ f["checksum"] # "none" THEN {"checksum"} ELSE {})
        \cup (IF f["checksumPage"] # "none" THEN {"checksumPage"} ELSE {})
        \cup (IF f["reference"] # "none" THEN {"reference"} ELSE {})
        \cup (IF f["sizeRepo"] # f["size"] THEN {"sizeRepo"} ELSE {})

\* an owner without a name is not worth a key of its own
DiffersNamed(item, default, k) == item[k] # NoOwner /\ OwnerVar(item[k]) # default[k]

Differs(item, default, k) == OwnerVar(item[k]) # default[k]

SaveItem(item, fixed, default) ==
    [k \in fixed \cup {x \in DOMAIN default : Differs(item, default, x)} |->
        IF k \in DOMAIN default THEN OwnerVar(item[k]) ELSE item[k]]

\* page checksums are "none", "valid" or a list of errors, saved as a flag
\* and a list; all else is kept as it is
LoadItem(disk, default) ==
    [k \in DOMAIN disk \cup DOMAIN default |->
        IF k \notin DOMAIN default THEN disk[k]
        ELSE OwnerGet(IF k \in DOMAIN disk THEN disk[k] ELSE default[k])]

LoadFile(disk, default) ==
    LET item == LoadItem(disk, default)
        or(k, v) == IF k \in DOMAIN disk THEN disk[k] ELSE v
    IN  [k \in DOMAIN item \cup {"checksum", "checksumPage", "reference", "sizeRepo"} |->
            CASE k = "checksum" -> IF disk["size"] = 0 THEN "zero" ELSE or(k, "none")
              [] k \in {"checksumPage", "reference"} -> or(k, "none")
              [] k = "sizeRepo" -> or(k, disk["size"])
              [] OTHER -> item[k]]

FileKeys == {"user", "group", "mode", "primary"}
PathKeys == {"user", "group", "mode"}
LinkKeys == {"user", "group"}

manifestSave(m) ==
    LET section(items, keys, Fixed(_)) ==
            LET default == SaveDefaults(items, keys)
            IN  [default |-> default,
                 item |-> [i \in DOMAIN items |-> SaveItem(items[i], Fixed(items[i]), default)]]
    IN  [file |-> section(m.file, FileKeys, FileFixed),
         path |-> section(m.path, PathKeys, LAMBDA x : {"name"}),
         link |-> section(m.link, LinkKeys, LAMBDA x : {"name", "destination"})]

manifestNewLoad(disk) ==
    LET items(s, Load(_, _)) == [i \in DOMAIN s.item |-> Load(s.item[i], s.default)]
    IN  [file |-> items(disk.file, LoadFile), path |-> items(disk.path, LoadItem),
         link |-> items(disk.link, LoadItem)]

manifestReload(m) == manifestNewLoad(manifestSave(m))

\* A manifest that was saved, complete or partial, loads as it was: owners,
\* modes, the primary flag, references, checksums and both sizes survive
\* whatever the defaults are; only an empty file gains its checksum.
ManifestReloads(m, r) ==
    /\ r.path = m.path
    /\ r.link = m.link
    /\ r.file = [i \in DOMAIN m.file |->
                   IF m.file[i]["size"] = 0 THEN [m.file[i] EXCEPT !["checksum"] = "zero"]
                   ELSE m.file[i]]
=============================================================================
