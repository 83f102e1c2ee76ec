-------------------------------- MODULE Pack --------------------------------
(***************************************************************************)
(* The pack (common/type/pack.c): the encoding of every protocol message   *)
(* and job parameter.  A field is a tag (type, delta to the last id, one   *)
(* bit of value), the bits that do not fit as base-128 integers, and data  *)
(* of a given size.  A NULL or a default is not written: it is a gap in    *)
(* the ids.  Values are written in an order and read back in that order,   *)
(* by two programs that only agree on the order.                           *)
(***************************************************************************)
EXTENDS Integers, Sequences, FiniteSets, Call

\* UINT_MAX
UIntMax == 2147483647

\* packTypeMapData
PackType == [arr |-> 1, bool |-> 2, i32 |-> 3, i64 |-> 4, obj |-> 5, ptr |-> 6, str |-> 7, u32 |-> 8, u64 |-> 9, strid |-> 10,
             time |-> 15, bin |-> 16, pack |-> 17, mode |-> 18]
ValueMultiBit == {PackType[t] : t \in {"i32", "i64", "ptr", "u32", "u64", "strid", "time", "mode"}}
ValueSingleBit == {PackType[t] : t \in {"bool", "str", "bin"}}
PackSize == {PackType[t] : t \in {"str", "bin", "pack"}}

(***************************************************************************)
(* Writing                                                                 *)
(***************************************************************************)
PackTag(type) == [typeMap |-> type, idLast |-> 0, nullTotal |-> 0]
pckWriteNew == [out |-> <<>>, stack |-> <<PackTag(PackType["obj"])>>]

PackTop(x) == x.stack[Len(x.stack)]
PackPop(x) == [x EXCEPT !.stack = SubSeq(@, 1, Len(@) - 1)]
PackPush(x, type) == [x EXCEPT !.stack = Append(@, PackTag(type))]

pckWriteBuffer(w, bytes) == [w EXCEPT !.out = @ \o bytes]

RECURSIVE Base128(_)
Base128(value) == IF value >= 128 THEN <<128 + (value % 128)>> \o Base128(value \div 128) ELSE <<value>>

pckWriteU64Internal(w, value) == pckWriteBuffer(w, Base128(value))

\* cvtInt32ToZigZag(), cvtInt64ToZigZag()
ToZigZag(value) == IF value >= 0 THEN 2 * value ELSE -2 * value - 1

\* How many bits of the id delta the tag holds, how many of the value and where, by the kind of the type
TagIdBits(type, value) == IF type \in ValueMultiBit /\ value < 2 THEN 1
                          ELSE IF type \in ValueMultiBit \union ValueSingleBit THEN 2 ELSE 3
TagValue(type, value) == IF type \in ValueMultiBit THEN (IF value < 2 THEN 4 * value ELSE 8)
                         ELSE IF type \in ValueSingleBit THEN 8 * value ELSE 0

\* The id of a field written without one counts the fields not written since the last tag
WriteId(w, id) == IF id = 0 THEN PackTop(w).idLast + PackTop(w).nullTotal + 1 ELSE id

pckWriteTag(w, type, id, value) ==
    LET delta == WriteId(w, id) - PackTop(w).idLast - 1
        bits == TagIdBits(type, value)
        more == delta \div (2 ^ bits)
        tag == (IF type >= 15 THEN 240 ELSE 16 * type) + TagValue(type, value) + (delta % (2 ^ bits))
                 + (IF more > 0 THEN 2 ^ bits ELSE 0)
        bytes == <<tag>> \o (IF type >= 15 THEN Base128(type - 15) ELSE <<>>)
                         \o (IF more > 0 THEN Base128(more) ELSE <<>>)
                         \o (IF type \in ValueMultiBit /\ value >= 2 THEN Base128(value) ELSE <<>>)
    IN [pckWriteBuffer(w, bytes) EXCEPT !.stack[Len(w.stack)].idLast = WriteId(w, id), !.stack[Len(w.stack)].nullTotal = 0]

pckWriteNull(w) == [w EXCEPT !.stack[Len(w.stack)].nullTotal = @ + 1]

\* Size and bytes of a string, a buffer or a pack
WriteData(w, s) == pckWriteBuffer(pckWriteU64Internal(w, Len(s)), s)

pckWriteBin(w, s) == LET t == pckWriteTag(w, PackType["bin"], 0, IF s = <<>> THEN 0 ELSE 1)
                     IN IF s = <<>> THEN t ELSE WriteData(t, s)
pckWriteStr(w, s) == LET t == pckWriteTag(w, PackType["str"], 0, IF s = <<>> THEN 0 ELSE 1)
                     IN IF s = <<>> THEN t ELSE WriteData(t, s)
pckWriteBool(w, n) == pckWriteTag(w, PackType["bool"], 0, n)
pckWriteI32(w, n) == pckWriteTag(w, PackType["i32"], 0, ToZigZag(n))
pckWriteI64(w, n) == pckWriteTag(w, PackType["i64"], 0, ToZigZag(n))
pckWriteTime(w, n) == pckWriteTag(w, PackType["time"], 0, ToZigZag(n))
pckWriteU32(w, n) == pckWriteTag(w, PackType["u32"], 0, n)
pckWriteU64(w, n) == pckWriteTag(w, PackType["u64"], 0, n)
pckWriteMode(w, n) == pckWriteTag(w, PackType["mode"], 0, n)
pckWriteStrId(w, n) == pckWriteTag(w, PackType["strid"], 0, n)
pckWritePtr(w, n) == pckWriteTag(w, PackType["ptr"], 0, n)

pckWriteArrayBegin(w) == PackPush(pckWriteTag(w, PackType["arr"], 0, 0), PackType["arr"])
pckWriteArrayEnd(w) == PackPop(pckWriteU64Internal(w, 0))
pckWriteObjBegin(w) == PackPush(pckWriteTag(w, PackType["obj"], 0, 0), PackType["obj"])
pckWriteObjEnd(w) == PackPop(pckWriteU64Internal(w, 0))

pckWriteEnd(w) == pckWriteU64Internal(w, 0)
pckWritePack(w, value) == WriteData(pckWriteTag(w, PackType["pack"], 0, 0), value.out)

RECURSIVE WriteStrings(_, _)
WriteStrings(w, list) == IF list = <<>> THEN w ELSE WriteStrings(pckWriteStr(w, Head(list)), Tail(list))
pckWriteStrLst(w, list) == pckWriteArrayEnd(WriteStrings(pckWriteArrayBegin(w), list))

(***************************************************************************)
(* A field of a program: a number n, bytes s, strings or fields `sub';     *)
(* null is what is not written: a NULL pointer, a default not forced.      *)
(***************************************************************************)
PackItem(t) == [t |-> t, n |-> 0, s |-> <<>>, list |-> <<>>, sub |-> <<>>, write |-> FALSE, null |-> FALSE]

PackNumbers == {"bool", "i32", "i64", "time", "u32", "u64", "mode", "strid", "ptr"}

\* pckWriteDefaultNull(): the default of a number is zero
pckWriteDefaultNull(item) == item.null \/ (item.t \in PackNumbers /\ ~item.write /\ item.n = 0)

RECURSIVE WriteItems(_, _)
WriteItem(w, i) ==
    IF pckWriteDefaultNull(i) THEN pckWriteNull(w)
    ELSE CASE i.t = "bool" -> pckWriteBool(w, i.n)
           [] i.t = "i32" -> pckWriteI32(w, i.n)
           [] i.t = "i64" -> pckWriteI64(w, i.n)
           [] i.t = "time" -> pckWriteTime(w, i.n)
           [] i.t = "u32" -> pckWriteU32(w, i.n)
           [] i.t = "u64" -> pckWriteU64(w, i.n)
           [] i.t = "mode" -> pckWriteMode(w, i.n)
           [] i.t = "strid" -> pckWriteStrId(w, i.n)
           [] i.t = "ptr" -> pckWritePtr(w, i.n)
           [] i.t = "str" -> pckWriteStr(w, i.s)
           [] i.t = "bin" -> pckWriteBin(w, i.s)
           [] i.t = "strlst" -> pckWriteStrLst(w, i.list)
           [] i.t = "obj" -> pckWriteObjEnd(WriteItems(pckWriteObjBegin(w), i.sub))
           [] i.t = "arr" -> pckWriteArrayEnd(WriteItems(pckWriteArrayBegin(w), i.sub))
           [] i.t = "pack" -> pckWritePack(w, pckWriteEnd(WriteItems(pckWriteNew, i.sub)))
WriteItems(w, items) == IF items = <<>> THEN w ELSE WriteItems(WriteItem(w, Head(items)), Tail(items))

-----------------------------------------------------------------------------
(***************************************************************************)
(* Reading.  err is the first error thrown; nothing is read after it.      *)
(***************************************************************************)
pckReadNew(bytes) == [in |-> bytes, stack |-> <<PackTag(PackType["obj"])>>, nextId |-> 0, nextType |-> 0, nextValue |-> 0,
                      got |-> 0, bytes |-> <<>>, err |-> ""]

PackFail(r, err) == [r EXCEPT !.err = err]

\* pckReadBuffer() until size bytes are there
RECURSIVE pckReadBuffer(_, _)
pckReadBuffer(r, size) ==
    IF r.err # "" \/ size = 0 THEN r
    ELSE IF r.in = <<>> THEN PackFail(r, "unexpected EOF")
    ELSE pckReadBuffer([r EXCEPT !.bytes = Append(@, Head(r.in)), !.in = Tail(@)], size - 1)
ReadBytes(r, size) == pckReadBuffer([r EXCEPT !.bytes = <<>>], size)

\* PACK_UINT64_SIZE_MAX bytes at most; the value is in `got'
RECURSIVE ReadBase128(_, _, _)
ReadBase128(r, idx, sum) ==
    LET b == ReadBytes(r, 1)
        byte == b.bytes[1]
        next == sum + (byte % 128) * (128 ^ idx)
    IN IF b.err # "" THEN b
       ELSE IF byte < 128 THEN [b EXCEPT !.got = next]
       ELSE IF idx = 9 THEN PackFail(b, "unterminated base-128 integer")
       ELSE ReadBase128(b, idx + 1, next)
pckReadU64Internal(r) == ReadBase128(r, 0, 0)

\* The integer that follows, if the tag says there is one; otherwise zero
ReadMore(r, has) == IF r.err # "" \/ ~has THEN [r EXCEPT !.got = 0] ELSE pckReadU64Internal(r)
TagBit(tag, bit) == (tag \div bit) % 2 = 1

pckReadTagNext(r) ==
    LET b == ReadBytes(r, 1)
        tag == b.bytes[1]
        t == ReadMore(b, tag \div 16 = 15)
        type == (tag \div 16) + t.got
        multi == type \in ValueMultiBit
        single == type \in ValueSingleBit
        bits == IF multi /\ ~TagBit(tag, 8) THEN 1 ELSE IF multi \/ single THEN 2 ELSE 3
        d == ReadMore(t, TagBit(tag, 2 ^ bits))
        v == ReadMore(d, multi /\ TagBit(tag, 8))
        value == IF multi THEN (IF TagBit(tag, 8) THEN v.got ELSE (tag \div 4) % 4)
                 ELSE IF single THEN (tag \div 8) % 2 ELSE 0
    IN IF b.err # "" THEN b
       ELSE IF tag = 0 THEN [b EXCEPT !.nextId = UIntMax]
       ELSE IF t.err # "" THEN t
       ELSE IF \A n \in DOMAIN PackType : PackType[n] # type THEN PackFail(t, "check")
       ELSE IF v.err # "" THEN v
       ELSE [v EXCEPT !.nextType = type, !.nextValue = value,
                      !.nextId = (tag % (2 ^ bits)) + d.got * (2 ^ bits) + PackTop(r).idLast + 1]

ReadId(r, id) == IF id = 0 THEN PackTop(r).idLast + 1 ELSE id

SkipDataNone(r) == r

\* The data of a field that is skipped
SkipData(r) ==
    LET size == pckReadU64Internal(r)
    IN IF r.nextType \in PackSize /\ r.nextValue # 0
       THEN (IF size.err # "" THEN size ELSE ReadBytes(size, size.got))
       ELSE r

RECURSIVE ReadTag(_, _, _, _)
ReadTag(r, id, type, peek) ==
    LET n == IF r.nextId = 0 THEN pckReadTagNext(r) ELSE r
        skipped == SkipData(n)
    IN IF n.err # "" THEN n
       ELSE IF id < n.nextId THEN [n EXCEPT !.got = 0]
       ELSE IF id = n.nextId /\ peek THEN [n EXCEPT !.got = n.nextValue]
       ELSE IF id = n.nextId /\ n.nextType # type THEN PackFail(n, "type")
       ELSE IF id = n.nextId THEN [n EXCEPT !.got = n.nextValue, !.stack[Len(n.stack)].idLast = n.nextId, !.nextId = 0]
       ELSE IF skipped.err # "" THEN skipped
       ELSE ReadTag([skipped EXCEPT !.stack[Len(n.stack)].idLast = n.nextId, !.nextId = 0], id, type, peek)
pckReadTag(r, id, type, peek) ==
    IF r.err # "" THEN r
    ELSE IF id # 0 /\ id <= PackTop(r).idLast THEN PackFail(r, "already read")
    ELSE ReadTag(r, ReadId(r, id), type, peek)

\* Whether the field is NULL, and the reader after the question
PeekNull(r, id) == pckReadTag(r, id, 0, TRUE)
IsNull(r, id) == PeekNull(r, id).err = "" /\ ReadId(r, id) < PeekNull(r, id).nextId
pckReadNullInternal(r, id) ==
    IF IsNull(r, id) THEN [PeekNull(r, id) EXCEPT !.stack[Len(r.stack)].idLast = ReadId(r, id)] ELSE PeekNull(r, id)

FromZigZag(value) == IF value % 2 = 0 THEN value \div 2 ELSE -((value + 1) \div 2)

ReadData(r) == LET size == pckReadU64Internal(r) IN IF size.err # "" THEN size ELSE ReadBytes(size, size.got)

\* A number: the default when it is NULL
pckReadNumber(r, id, t) ==
    LET n == pckReadTag(r, id, PackType[t], FALSE)
    IN IF IsNull(r, id) THEN [pckReadNullInternal(r, id) EXCEPT !.got = 0]
       ELSE IF t \in {"i32", "i64", "time"} /\ n.err = "" THEN [n EXCEPT !.got = FromZigZag(@)] ELSE n

\* pckReadStr(), pckReadBin(): a tag of value zero is an empty string
pckReadStr(r, id, t) ==
    LET n == pckReadTag(r, id, PackType[t], FALSE)
    IN IF IsNull(r, id) THEN [pckReadNullInternal(r, id) EXCEPT !.bytes = <<>>]
       ELSE IF n.err # "" THEN n
       ELSE IF n.got = 0 THEN [n EXCEPT !.bytes = <<>>] ELSE ReadData(n)

pckReadPackBuf(r, id) ==
    LET n == pckReadTag(r, id, PackType["pack"], FALSE)
    IN IF IsNull(r, id) THEN pckReadNullInternal(r, id) ELSE IF n.err # "" THEN n ELSE ReadData(n)

pckReadBegin(r, id, t) ==
    LET n == pckReadTag(r, id, PackType[t], FALSE)
    IN IF n.err # "" THEN n ELSE PackPush(n, PackType[t])

\* pckReadArrayEnd(), pckReadObjEnd()
pckReadContainerEnd(r) ==
    LET n == pckReadTag(r, UIntMax - 1, 0, TRUE)
    IN IF n.err # "" THEN n ELSE [PackPop(n) EXCEPT !.nextId = 0]

pckReadEnd(r) ==
    LET n == pckReadTag(r, UIntMax - 1, 0, TRUE)
    IN IF n.err # "" THEN n ELSE PackPop(n)

-----------------------------------------------------------------------------
(***************************************************************************)
(* A reader that asks for the fields in the order they were written.  It   *)
(* collects the fields it got.                                             *)
(***************************************************************************)
Read(r, items) == [r |-> r, items |-> items]

RECURSIVE ReadStrings(_, _)
ReadStrings(r, list) ==
    LET s == pckReadStr(r, 0, "str")
    IN IF r.err # "" \/ IsNull(r, 0) THEN Read(r, list) ELSE ReadStrings(s, Append(list, s.bytes))

RECURSIVE ReadItems(_, _)
ReadItem(r, i) ==
    LET item == PackItem(i.t)
        null == IsNull(r, 0)
        number == pckReadNumber(r, 0, i.t)
        string == pckReadStr(r, 0, i.t)
        buffer == pckReadPackBuf(r, 0)
        inner == ReadItems(pckReadNew(buffer.bytes), i.sub)
        begin == pckReadBegin(r, 0, IF i.t = "strlst" THEN "arr" ELSE i.t)
        strings == ReadStrings(begin, <<>>)
        fields == ReadItems(begin, i.sub)
    IN CASE i.t \in PackNumbers -> Read(number, [item EXCEPT !.n = number.got, !.write = i.write])
         [] i.t \in {"str", "bin"} -> Read(string, [item EXCEPT !.s = string.bytes, !.null = null])
         [] i.t = "strlst" -> IF null THEN Read(pckReadNullInternal(r, 0), [item EXCEPT !.null = TRUE])
                              ELSE Read(pckReadContainerEnd(strings.r), [item EXCEPT !.list = strings.items])
         [] i.t = "pack" -> IF null THEN Read(buffer, [item EXCEPT !.null = TRUE])
                            ELSE IF buffer.err # "" THEN Read(buffer, item)
                            ELSE Read([buffer EXCEPT !.err = pckReadEnd(inner.r).err], [item EXCEPT !.sub = inner.items])
         [] i.t \in {"obj", "arr"} -> Read(pckReadContainerEnd(fields.r), [item EXCEPT !.sub = fields.items])
ReadItems(r, items) ==
    IF items = <<>> \/ r.err # "" THEN Read(r, <<>>)
    ELSE LET first == ReadItem(r, Head(items))
             rest == ReadItems(first.r, Tail(items))
         IN Read(rest.r, <<first.items>> \o rest.items)

-----------------------------------------------------------------------------
Packed(items) == pckWriteEnd(WriteItems(pckWriteNew, items)).out

\* What follows the pack in a stream
Following == <<1, 0>>

packRoundTrip(items) ==
    LET read == ReadItems(pckReadNew(Packed(items) \o Following), items)
    IN [got |-> read.items, end |-> pckReadEnd(read.r)]

\* Only the last field is wanted
packLast(items) ==
    LET r == pckReadNew(Packed(items) \o Following)
        last == items[Len(items)]
        read == IF last.t \in PackNumbers THEN pckReadNumber(r, Len(items), last.t) ELSE pckReadStr(r, Len(items), last.t)
    IN [n |-> read.got, s |-> read.bytes, end |-> pckReadEnd(read)]

\* The pack is cut
packCut(arg) == LET read == ReadItems(pckReadNew(SubSeq(Packed(arg.items), 1, arg.size)), arg.items)
                IN pckReadEnd(read.r).err

-----------------------------------------------------------------------------
\* Two programs that agree on the order of the fields agree on their values, whatever is NULL or a default, and the
\* reader leaves the stream exactly where the next message begins
PackRoundTrip(items, result) ==
    /\ result.end.err = ""
    /\ result.got = items
    /\ result.end.in = Following

\* A field can be asked for by its id, past fields that are not read: numbers, strings and buffers are skipped whole
PackSkips(items, result) ==
    LET last == items[Len(items)]
    IN /\ result.end.err = ""
       /\ last.t \in PackNumbers => result.n = last.n
       /\ last.t \in {"str", "bin"} => result.s = last.s
       /\ result.end.in = Following

\* A pack that ends early is never taken for a shorter one: reading it fails
PackCutFails(arg, result) == arg.size < Len(Packed(arg.items)) => result = "unexpected EOF"

\* What is written to a pack is what is read from it, all of it or one field,
\* and a pack that was cut is an error.
PackExact ==
    [][ /\ Returns("packRoundTrip", packRoundTrip, PackRoundTrip)
        /\ Returns("packLast", packLast, PackSkips)
        /\ Returns("packCut", packCut, PackCutFails)]_call
=============================================================================
