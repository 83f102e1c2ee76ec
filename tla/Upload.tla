------------------------------- MODULE Upload -------------------------------
(***************************************************************************)
(* Writing a file to an object store: the S3, Azure and GCS drivers, which *)
(* collect the file in parts and have one request under way while the next *)
(* part is collected, and the server, which may serve a request more than  *)
(* once because httpRequestProcess() sends it again when the answer is     *)
(* lost or is an error of the 5xx class.  Several processes write the same *)
(* name at the same time.                                                  *)
(*                                                                         *)
(* A byte is the pair of its writer and its position.                      *)
(***************************************************************************)
EXTENDS Naturals, Sequences, SequencesExt

CONSTANTS
    Process,        \* processes that write
    Drivers,        \* object stores, of "s3", "azure" and "gcs"
    PartSize,       \* bytes per part
    MaxSize,        \* bytes in a file
    MaxWrite,       \* bytes per call of write
    MaxServe        \* how often the server serves one request

VARIABLES
    driver,         \* the driver in use
    size,           \* per process, the size of its file
    up,             \* per process, the write object
    req,            \* per process, the request under way: <<>> or <<r>>
    blob,           \* what the name leads to: whose request made it, and data
    parts,          \* parts of uploads that are not complete
    live            \* uploads that were begun and are not complete

uploadVars == <<driver, size, up, req, blob, parts, live>>

DataOf(w) == [i \in 1 .. size[w] |-> <<w, i>>]
Nobody == [by |-> "nobody", data |-> <<>>]

NewWrite == [pc |-> "write", fed |-> 0, in |-> 0, part |-> <<>>, id |-> <<>>,
             list |-> <<>>, total |-> 0, md5 |-> <<>>]

UploadInit ==
    /\ driver \in Drivers
    /\ size \in [Process -> 0 .. MaxSize]
    /\ up = [w \in Process |-> NewWrite]
    /\ req = [w \in Process |-> <<>>]
    /\ blob = Nobody
    /\ parts = {}
    /\ live = {}

(***************************************************************************)
(* The server.  An outcome is the server's state after serving the request *)
(* and its answer.                                                         *)
(***************************************************************************)
Outcome(b, p, l, ans) == [blob |-> b, parts |-> p, live |-> l, ans |-> ans]
Refused == Outcome(blob, parts, live, "error")

StoredPart(id, num) == CHOOSE p \in parts : p.id = id /\ p.num = num
HasPart(id, num) == \E p \in parts : p.id = id /\ p.num = num
PutPart(id, num, data) ==
    {p \in parts : p.id # id \/ p.num # num} \cup {[id |-> id, num |-> num, data |-> data]}
Without(id) == {p \in parts : p.id # id}

ServeS3(w, r) ==
    CASE r.op = "part" ->
            IF r.id \in live
            THEN {Outcome(blob, PutPart(r.id, r.num, r.data), live, "ok")} ELSE {Refused}
      [] r.op = "complete" ->
            \* The success code may come with an error instead of an ETag
            {Refused} \cup
            (IF r.id \in live /\ \A i \in DOMAIN r.list :
                    HasPart(r.id, i) /\ StoredPart(r.id, i).data = r.list[i]
             THEN {Outcome([by |-> w, data |-> FlattenSeq(r.list)],
                           Without(r.id), live \ {r.id}, "ok")}
             ELSE {})

\* Committing a list of blocks drops all blocks of the name that were not
\* committed, whoever sent them
ServeAzure(w, r) ==
    CASE r.op = "part" -> {Outcome(blob, PutPart(r.id, r.num, r.data), live, "ok")}
      [] r.op = "complete" ->
            IF \A i \in DOMAIN r.list : HasPart(r.list[i][1], r.list[i][2])
            THEN {Outcome([by |-> w,
                           data |-> FlattenSeq([i \in DOMAIN r.list |->
                               StoredPart(r.list[i][1], r.list[i][2]).data])],
                          {}, live, "ok")}
            ELSE {Refused}

\* The server keeps a prefix of the bytes of a chunk, ignores bytes it has and
\* refuses a gap.  The object appears with the last byte.
ServeGcs(w, r) ==
    LET have == IF HasPart(r.id, 0) THEN StoredPart(r.id, 0).data ELSE <<>>
        end == r.from + Len(r.data)
        Kept == {n \in Len(have) .. end : n >= r.from}
        Data(n) == have \o SubSeq(r.data, Len(have) - r.from + 1, n - r.from)
    IN  CASE r.id \notin live -> {Outcome(blob, parts, live, "ok")}
          [] r.from > Len(have) -> {Refused}
          [] Len(have) > end -> {Outcome(blob, parts, live, "incomplete")}
          [] OTHER ->
                {Outcome(blob, PutPart(r.id, 0, Data(n)), live, "incomplete") :
                     n \in IF r.last THEN Kept \ {end} ELSE Kept}
                \cup (IF r.last
                      THEN {Outcome([by |-> w, data |-> Data(end)], Without(r.id),
                                    live \ {r.id}, "ok")}
                      ELSE {})

Outcomes(w, r) ==
    CASE r.op = "init" -> {Outcome(blob, parts, live \cup {r.id}, "ok")}
      [] r.op = "put" -> {Outcome([by |-> w, data |-> r.data], parts, live, "ok")}
      [] OTHER -> CASE driver = "s3" -> ServeS3(w, r)
                    [] driver = "azure" -> ServeAzure(w, r)
                    [] driver = "gcs" -> ServeGcs(w, r)

\* Did the request make the object?
Makes(r, o) == o.ans = "ok" /\ (r.op \in {"put", "complete"} \/ r.last)

\* A request that was served before is served again when the answer was lost;
\* one that begins an upload then begins another.  A request of a process
\* that gave up may still be served.
Serve(w) ==
    /\ req[w] # <<>>
    /\ LET r == req[w][1]
           s == IF r.op = "init" THEN [r EXCEPT !.id = <<w, r.served + 1>>] ELSE r
       IN  /\ r.served < MaxServe
           /\ \E o \in Outcomes(w, s) :
                /\ blob' = o.blob
                /\ parts' = o.parts
                /\ live' = o.live
                /\ req' = [req EXCEPT ![w] =
                     <<[s EXCEPT !.ans = o.ans, !.served = @ + 1, !.made = @ \/ Makes(s, o),
                                 !.md5 = IF blob' # blob THEN blob'.data ELSE @]>>]
    /\ UNCHANGED <<driver, size, up>>

(***************************************************************************)
(* The write objects.                                                      *)
(***************************************************************************)
NoRequest == [op |-> "none", id |-> <<>>, num |-> 0, data |-> <<>>, list |-> <<>>,
              from |-> 0, last |-> FALSE, ans |-> "none", served |-> 0, made |-> FALSE, md5 |-> <<>>]

Turns(w, new) == up' = [up EXCEPT ![w] = new]
Idle(w) == req[w] = <<>>

\* httpRequestNew() sends the request and does not wait; it keeps a copy of the
\* content, so the part buffer can be filled again
SendAs(w, r, new) ==
    /\ req' = [req EXCEPT ![w] = <<r>>]
    /\ Turns(w, new)
    /\ UNCHANGED <<driver, size, blob, parts, live>>

\* One call of write: n more bytes of the file
Feed(w) ==
    /\ up[w].pc = "write"
    /\ \E n \in 1 .. MaxWrite :
        /\ up[w].fed + n <= size[w]
        /\ Turns(w, [up[w] EXCEPT !.pc = "copy", !.in = n, !.fed = @ + n])
    /\ UNCHANGED <<driver, size, req, blob, parts, live>>

Full(p) == Len(p) = PartSize

\* As many bytes as possible go from the call's buffer to the part
Copied(w) ==
    LET room == PartSize - Len(up[w].part)
        n == IF room > up[w].in THEN up[w].in ELSE room
        at == up[w].fed - up[w].in
    IN  [up[w] EXCEPT !.part = @ \o SubSeq(DataOf(w), at + 1, at + n), !.in = @ - n]

MoreToCopy(u) == IF u.in = 0 THEN "write" ELSE "copy"

\* S3 and Azure send a part as soon as it is full
CopyS3(w) ==
    /\ driver = "s3"
    /\ LET u == Copied(w)
       IN  Turns(w, [u EXCEPT !.pc = IF Full(u.part) THEN "flush" ELSE MoreToCopy(u)])

CopyAzure(w) ==
    /\ driver = "azure"
    /\ LET u == Copied(w)
       IN  Turns(w, [u EXCEPT !.pc = IF Full(u.part) THEN "flush" ELSE MoreToCopy(u)])

\* GCS sends a full part only when there are more bytes, so that the last part
\* is never empty
CopyGcs(w) ==
    /\ driver = "gcs"
    /\ Turns(w, IF Full(up[w].part)
              THEN [up[w] EXCEPT !.pc = "flush"]
              ELSE [Copied(w) EXCEPT !.pc = MoreToCopy(Copied(w))])

Copy(w) ==
    /\ up[w].pc = "copy"
    /\ CopyS3(w) \/ CopyAzure(w) \/ CopyGcs(w)
    /\ UNCHANGED <<driver, size, req, blob, parts, live>>

\* A part is sent once the answer to the request before it is in.  What is kept
\* about it: S3 learns its ETag from the answer, Azure names the block itself
\* and GCS counts the bytes and adds them to the hash.
PartAsyncS3(w, next) ==
    IF up[w].id = <<>>
    THEN SendAs(w, [NoRequest EXCEPT !.op = "init"], up[w])
    ELSE SendAs(w, [NoRequest EXCEPT !.op = "part", !.id = up[w].id,
                                     !.num = Len(up[w].list) + 1, !.data = up[w].part],
                [up[w] EXCEPT !.pc = next, !.part = <<>>])

BlockAsyncAzure(w, next) ==
    SendAs(w, [NoRequest EXCEPT !.op = "part", !.id = <<w>>,
                                !.num = Len(up[w].list), !.data = up[w].part],
           [up[w] EXCEPT !.pc = next, !.part = <<>>, !.list = Append(@, <<<<w>>, Len(@)>>)])

BlockAsyncGcs(w, next) ==
    IF up[w].id = <<>>
    THEN SendAs(w, [NoRequest EXCEPT !.op = "init"], up[w])
    ELSE SendAs(w, [NoRequest EXCEPT !.op = "part", !.id = up[w].id, !.from = up[w].total,
                                     !.data = up[w].part, !.last = up[w].pc = "last"],
                [up[w] EXCEPT !.pc = next, !.part = <<>>, !.total = @ + Len(up[w].part),
                              !.md5 = @ \o up[w].part])

PartAsync(w) ==
    /\ up[w].pc \in {"flush", "last"}
    /\ Idle(w)
    /\ LET next == CASE up[w].pc = "flush" -> MoreToCopy(up[w])
                     [] driver = "gcs" -> "await"
                     [] OTHER -> "finish"
       IN  CASE driver = "s3" -> PartAsyncS3(w, next)
             [] driver = "azure" -> BlockAsyncAzure(w, next)
             [] driver = "gcs" -> BlockAsyncGcs(w, next)

\* Closing the file: the rest of a file that was begun in parts, or all of it
\* in a single request
SinglePut(w) ==
    SendAs(w, [NoRequest EXCEPT !.op = "put", !.data = up[w].part],
           [up[w] EXCEPT !.pc = "await", !.md5 = up[w].part, !.total = Len(up[w].part)])
CloseRest(w, next) ==
    /\ Turns(w, [up[w] EXCEPT !.pc = next])
    /\ UNCHANGED <<driver, size, req, blob, parts, live>>

CloseS3(w) ==
    /\ driver = "s3"
    /\ IF up[w].id # <<>>
       THEN CloseRest(w, IF up[w].part # <<>> THEN "last" ELSE "finish")
       ELSE SinglePut(w)

CloseAzure(w) ==
    /\ driver = "azure"
    /\ IF up[w].list # <<>>
       THEN CloseRest(w, IF up[w].part # <<>> THEN "last" ELSE "finish")
       ELSE SinglePut(w)

CloseGcs(w) ==
    /\ driver = "gcs"
    /\ IF up[w].id # <<>> THEN CloseRest(w, "last") ELSE SinglePut(w)

Close(w) ==
    /\ up[w].pc = "write"
    /\ up[w].fed = size[w]
    /\ CloseS3(w) \/ CloseAzure(w) \/ CloseGcs(w)

\* The list of the parts is sent when the last part has been answered
Finish(w) ==
    /\ up[w].pc = "finish"
    /\ Idle(w)
    /\ SendAs(w, [NoRequest EXCEPT !.op = "complete", !.id = up[w].id, !.list = up[w].list],
              [up[w] EXCEPT !.pc = "await"])

\* storageWriteGcsVerify()
Verified(w, r) == r.md5 = up[w].md5 /\ Len(r.md5) = up[w].total

AcceptedUnverified(w, r) == r.ans \in {"ok", "incomplete"}

\* An incomplete answer is one of GCS, to every chunk but the last
Accepted(w, r) ==
    \/ r.ans = "ok" /\ (driver = "gcs" /\ up[w].pc = "await" => Verified(w, r))
    \/ r.ans = "incomplete" /\ ~r.last

\* The answer is waited for before the next request and before close returns
Waiting(w) == up[w].pc \in {"flush", "last", "finish", "await"}

\* storageWriteS3Part() adds the ETag of the answer to the list
PartList(u, r) == IF driver = "s3" /\ r.op = "part" THEN Append(u.list, r.data) ELSE u.list

Answer(w) ==
    /\ Waiting(w)
    /\ ~Idle(w)
    /\ LET r == req[w][1]
       IN  /\ r.ans # "none"
           /\ Turns(w, IF ~Accepted(w, r)
                     THEN [up[w] EXCEPT !.pc = "failed"]
                     ELSE [up[w] EXCEPT
                            !.id = IF r.op = "init" THEN r.id ELSE @,
                            !.list = PartList(up[w], r),
                            !.pc = IF @ = "await" THEN "done" ELSE @])
    /\ req' = [req EXCEPT ![w] = <<>>]
    /\ UNCHANGED <<driver, size, blob, parts, live>>

\* The time for retries is over
GiveUp(w) ==
    /\ Waiting(w)
    /\ ~Idle(w)
    /\ Turns(w, [up[w] EXCEPT !.pc = "failed"])
    /\ UNCHANGED <<driver, size, req, blob, parts, live>>

UploadNext ==
    \E w \in Process :
        \/ Feed(w) \/ Copy(w) \/ PartAsync(w) \/ Close(w) \/ Finish(w)
        \/ Answer(w) \/ GiveUp(w) \/ Serve(w)

UploadEnd == \A w \in Process : up[w].pc \in {"done", "failed"}

(***************************************************************************)
(* Properties.                                                             *)
(***************************************************************************)

\* The abstract store as this driver keeps it
UploadPut ==
    [w \in Process |->
        CASE up[w].pc = "done" -> "returned"
          [] up[w].pc = "failed" -> "failed"
          [] ~Idle(w) /\ req[w][1].made -> "stored"
          [] OTHER -> "open"]
UploadObject == IF blob = Nobody \/ blob.data = DataOf(blob.by) THEN blob.by ELSE "torn"
=============================================================================
