------------------------------- MODULE Filter -------------------------------
(***************************************************************************)
(* Reading and writing through filters: common/io/read.c, write.c,         *)
(* filter/group.c, the compression filters (common/compress) and the       *)
(* cipher (common/crypto/cipherBlock.c).                                   *)
(*                                                                         *)
(* A buffer is a sequence of bytes with a size, a byte is a number.  What  *)
(* a library computes is left out but for how much input it takes and      *)
(* output it gives per call: a compressed stream is a header, one code per *)
(* byte and an end mark, and the library holds back up to cap codes.  An   *)
(* encrypted stream is a magic, a salt and blocks of which the last is     *)
(* padded.                                                                 *)
(***************************************************************************)
EXTENDS Call, Integers, Sequences, FiniteSets, SequencesExt, FiniteSetsExt

NullBuf == <<0>>
LineFeed == 9
FrameHeader == 100
FrameEnd == 101
CipherMagic == 2001
CipherSalt == 2002
CipherPad == 2003
BlockSize == 2
CipherHeaderSize == 2

First(s, n) == SubSeq(s, 1, n)
From(s, n) == SubSeq(s, n + 1, Len(s))
Least(m, n) == IF m < n THEN m ELSE n
Most(m, n) == IF m > n THEN m ELSE n
Mapped(s, d) == [i \in DOMAIN s |-> s[i] + d]

\* The whole stream a compression or the cipher makes of s
Framed(s) == <<FrameHeader>> \o Mapped(s, 10) \o <<FrameEnd>>
Padding(n) == [i \in 1 .. BlockSize - (n % BlockSize) |-> CipherPad]
Encrypted(s) == <<CipherMagic, CipherSalt>> \o Mapped(s \o Padding(Len(s)), 3000)

ioFilterNew(kind, cap) ==
    [kind |-> kind, cap |-> cap, pend |-> IF kind \in {"gz", "bz2", "zst"} THEN <<FrameHeader>> ELSE <<>>,
     pos |-> 0, same |-> FALSE, driverFlush |-> FALSE, flushing |-> FALSE, done |-> FALSE, ended |-> FALSE,
     first |-> TRUE, frameDone |-> FALSE, buffer |-> <<>>, header |-> <<>>, saltDone |-> FALSE, seen |-> <<>>]

\* What a filter's process function leaves: the filter, and what it appended
Ok(f, out) == [f |-> f, out |-> out, error |-> ""]
Err(f, error) == [f |-> f, out |-> <<>>, error |-> error]

-----------------------------------------------------------------------------
(* The libraries *)

\* deflate(), BZ2_bzCompress(), ZSTD_compressStream() and ZSTD_endStream()
CompressStream(f, in, room, finish) ==
    LET all == f.pend \o Mapped(in, 10) \o (IF finish /\ ~f.ended THEN <<FrameEnd>> ELSE <<>>)
        n == Least(room, IF finish THEN Len(all) ELSE Most(0, Len(all) - f.cap))
        rest == From(all, n)
        over == IF finish THEN 0 ELSE Least(Len(in), Most(0, Len(rest) - f.cap))
    IN  [out |-> First(all, n), pend |-> First(rest, Len(rest) - over), used |-> Len(in) - over]

\* inflate(), BZ2_bzDecompress(), LZ4F_decompress() and ZSTD_decompressStream():
\* the end mark is taken when all that comes before it is given out
DecompressStream(f, in, room) ==
    LET end == SelectInSeq(in, LAMBDA b : b = FrameEnd)
        body == IF end = 0 THEN in ELSE First(in, end - 1)
        codes == SelectSeq(body, LAMBDA b : b # FrameHeader)
        all == f.pend \o Mapped(codes, -10)
        n == Least(room, Len(all))
        rest == From(all, n)
        over == Least(Len(codes), Most(0, Len(rest) - f.cap))
        ended == end # 0 /\ rest = <<>>
    IN  [out |-> First(all, n), pend |-> First(rest, Len(rest) - over),
         used |-> IF ended THEN end ELSE Len(body) - over, ended |-> ended]

-----------------------------------------------------------------------------
(* The filters: f processes in, with room left in its output *)

ioBufferProcess(f, in, room) ==
    LET size == Least(Len(in) - f.pos, room)
        all == f.pos + size = Len(in)
    IN  Ok([f EXCEPT !.same = ~all, !.pos = IF all THEN 0 ELSE @ + size], SubSeq(in, f.pos + 1, f.pos + size))

\* Z_BUF_ERROR: "there should always be space in the buffer"
Stalled(s) == s.out = <<>> /\ s.used = 0

\* gz and bz2 give the library what is left of the input since it was new
gzCompressProcess(f, in, room) ==
    LET flush == f.driverFlush \/ in = NullBuf
        src == IF in = NullBuf THEN <<>> ELSE From(in, IF f.same THEN f.pos ELSE 0)
        s == CompressStream(f, src, room, flush)
        done == flush /\ s.pend = <<>>
        pos == (IF f.same THEN f.pos ELSE 0) + s.used
    IN  IF Stalled(s) /\ ~done THEN Err(f, "no space in buffer")
        ELSE Ok([f EXCEPT !.driverFlush = flush, !.ended = flush, !.pend = s.pend, !.pos = pos, !.done = done,
                          !.same = IF flush THEN ~done ELSE s.used < Len(src)], s.out)

bz2CompressProcess(f, in, room) == gzCompressProcess(f, in, room)

gzDecompressProcess(f, in, room) ==
    LET src == From(in, IF f.same THEN f.pos ELSE 0)
        s == DecompressStream(f, src, room)
        pos == (IF f.same THEN f.pos ELSE 0) + s.used
    IN  IF in = NullBuf THEN Err(f, "unexpected eof in compressed data")
        ELSE IF Stalled(s) THEN Err(f, "no space in buffer")
        ELSE Ok([f EXCEPT !.pend = s.pend, !.pos = pos, !.done = s.ended,
                          !.same = ~s.ended /\ s.used < Len(src)], s.out)

bz2DecompressProcess(f, in, room) == gzDecompressProcess(f, in, room)

\* The output buffer, unless the codes may not fit it or the internal one
\* still holds some
lz4CompressBuffer(buffer, required, room) == buffer # <<>> \/ required >= room

lz4CompressFlush(f, room) ==
    IF room >= Len(f.buffer) THEN Ok([f EXCEPT !.buffer = <<>>, !.same = FALSE], f.buffer)
    ELSE Ok([f EXCEPT !.buffer = From(@, room), !.same = TRUE], First(f.buffer, room))

lz4CompressProcess(f, in, room) ==
    LET begin == IF f.first THEN <<FrameHeader>> ELSE <<>>
        inner1 == f.first /\ lz4CompressBuffer(f.buffer, 2, room)
        buffer1 == IF inner1 THEN f.buffer \o begin ELSE f.buffer
        out1 == IF inner1 THEN <<>> ELSE begin
        all == f.pend \o (IF in = NullBuf THEN <<FrameEnd>> ELSE Mapped(in, 10))
        n == IF in = NullBuf THEN Len(all) ELSE Most(0, Len(all) - f.cap)
        bound == f.cap + (IF in = NullBuf THEN 1 ELSE Len(in)) + 1
        inner2 == lz4CompressBuffer(buffer1, bound, room - Len(out1))
        out2 == out1 \o (IF inner2 THEN <<>> ELSE First(all, n))
        g == [f EXCEPT !.first = FALSE, !.pend = From(all, n), !.driverFlush = in = NullBuf,
                       !.buffer = IF inner2 THEN buffer1 \o First(all, n) ELSE buffer1]
        flush == lz4CompressFlush(g, room - Len(out2))
    IN  IF f.same THEN lz4CompressFlush(f, room)
        ELSE IF inner2 THEN Ok(flush.f, out2 \o flush.out)
        ELSE Ok(g, out2)

lz4DecompressProcess(f, in, room) ==
    LET src == From(in, f.pos)
        s == DecompressStream(f, src, room)
        all == s.used = Len(src)
    IN  IF in = NullBuf
        THEN IF f.frameDone THEN Ok([f EXCEPT !.done = TRUE], <<>>)
             ELSE Err(f, "unexpected eof in compressed data")
        ELSE Ok([f EXCEPT !.pend = s.pend, !.frameDone = s.ended, !.same = ~all,
                          !.pos = IF all THEN 0 ELSE @ + s.used], s.out)

zstCompressProcess(f, in, room) ==
    LET src == From(in, f.pos)
        s == IF in = NullBuf THEN CompressStream(f, <<>>, room, TRUE) ELSE CompressStream(f, src, room, FALSE)
        all == s.used = Len(src)
    IN  IF in = NullBuf
        THEN Ok([f EXCEPT !.driverFlush = TRUE, !.ended = TRUE, !.pend = s.pend, !.same = s.pend # <<>>], s.out)
        ELSE Ok([f EXCEPT !.pend = s.pend, !.same = ~all, !.pos = IF all THEN 0 ELSE @ + s.used], s.out)

zstDecompressProcess(f, in, room) == lz4DecompressProcess(f, in, room)

\* EVP_CipherUpdate() of the bytes held and the new ones: whole blocks, and on
\* decrypt not the last one, which may hold the padding
CipherUpdate(f, src) ==
    LET all == f.pend \o (IF f.kind = "encrypt" THEN Mapped(src, 3000) ELSE Mapped(src, -3000))
        n == BlockSize * ((IF f.kind = "encrypt" THEN Len(all) ELSE Most(0, Len(all) - 1)) \div BlockSize)
    IN  Ok([f EXCEPT !.pend = From(all, n)], First(all, n))

\* The header is made on encrypt, and gathered from the input on decrypt
cipherBlockProcessBlock(f, in) ==
    LET need == CipherHeaderSize - Len(f.header)
        whole == f.header \o First(in, Least(need, Len(in)))
        g == [f EXCEPT !.header = whole, !.saltDone = Len(whole) = CipherHeaderSize]
        made == CipherUpdate([f EXCEPT !.saltDone = TRUE], in)
    IN  IF f.saltDone THEN CipherUpdate(f, in)
        ELSE IF f.kind = "encrypt" THEN Ok(made.f, <<CipherMagic, CipherSalt>> \o made.out)
        ELSE IF g.saltDone /\ whole[1] # CipherMagic THEN Err(f, "cipher header invalid")
        ELSE CipherUpdate(g, From(in, Least(need, Len(in))))

\* EVP_CipherFinal() checks the length and the padding of the last block
cipherBlockFlush(f) ==
    IF ~f.saltDone THEN Err(f, "cipher header missing")
    ELSE IF f.kind = "encrypt" THEN Ok(f, f.pend \o Mapped(Padding(Len(f.pend)), 3000))
    ELSE IF Len(f.pend) # BlockSize \/ Last(f.pend) # CipherPad THEN Err(f, "unable to flush")
    ELSE Ok(f, SelectSeq(f.pend, LAMBDA b : b # CipherPad))

cipherBlockProcessSize(f, n) ==
    n + BlockSize + (IF f.kind = "encrypt" /\ ~f.saltDone THEN CipherHeaderSize ELSE 0)

\* Copy what the internal buffer holds
cipherBlockCopy(f, room) ==
    IF room >= Len(f.buffer) THEN Ok([f EXCEPT !.buffer = <<>>, !.same = FALSE], f.buffer)
    ELSE Ok([f EXCEPT !.buffer = From(@, room), !.same = TRUE], First(f.buffer, room))

cipherBlockProcess(f, in, room) ==
    LET size == IF in = NullBuf THEN 0 ELSE Len(in)
        block == IF in # NullBuf THEN cipherBlockProcessBlock(f, in)
                 ELSE IF ~f.saltDone THEN cipherBlockProcessBlock(f, <<>>) ELSE Ok(f, <<>>)
        flush == IF in = NullBuf THEN cipherBlockFlush(block.f) ELSE Ok(block.f, <<>>)
        out == block.out \o flush.out
        g == [flush.f EXCEPT !.done = in = NullBuf]
    IN  IF f.buffer # <<>> THEN cipherBlockCopy(f, room)
        ELSE IF block.error # "" THEN block
        ELSE IF flush.error # "" THEN flush
        ELSE IF cipherBlockProcessSize(f, size) > room /\ out # <<>> THEN cipherBlockCopy([g EXCEPT !.buffer = out], room)
        ELSE Ok(g, out)

\* Filters that only look at the data, e.g. the size and the hash
InFilter(f) == f.kind = "size"

ioFilterInputSame(f) == f.same

ioFilterDone(f) ==
    /\ f.flushing
    /\ CASE f.kind \in {"gz", "bz2", "ungz", "unbz2", "unlz4", "unzst"} -> f.done
         [] f.kind \in {"lz4", "zst"} -> f.driverFlush /\ ~f.same
         [] f.kind \in {"encrypt", "decrypt"} -> f.done /\ ~f.same
         [] OTHER -> ~f.same

ioFilterProcess(f, in, room) ==
    CASE f.kind = "gz" -> gzCompressProcess(f, in, room)
      [] f.kind = "bz2" -> bz2CompressProcess(f, in, room)
      [] f.kind = "lz4" -> lz4CompressProcess(f, in, room)
      [] f.kind = "zst" -> zstCompressProcess(f, in, room)
      [] f.kind = "ungz" -> gzDecompressProcess(f, in, room)
      [] f.kind = "unbz2" -> bz2DecompressProcess(f, in, room)
      [] f.kind = "unlz4" -> lz4DecompressProcess(f, in, room)
      [] f.kind = "unzst" -> zstDecompressProcess(f, in, room)
      [] f.kind = "buffer" -> ioBufferProcess(f, in, room)
      [] f.kind = "sink" -> Ok(f, <<>>)
      [] OTHER -> cipherBlockProcess(f, in, room)

\* The conditions of CHECK()
BadInput(f, in) == in = <<>> \/ (f.flushing /\ in # NullBuf)

ioFilterProcessIn(f, in) ==
    IF BadInput(f, in) THEN Err(f, "check")
    ELSE IF in = NullBuf THEN Ok([f EXCEPT !.flushing = TRUE], <<>>)
    ELSE Ok([f EXCEPT !.seen = @ \o in], <<>>)

ioFilterProcessInOut(f, in, used, room) ==
    LET g == [f EXCEPT !.flushing = in = NullBuf]
        r == IF ioFilterDone(g) THEN Ok(g, <<>>) ELSE ioFilterProcess(g, in, room)
    IN  IF BadInput(f, in) THEN Err(f, "check")
        ELSE IF r.error = "" /\ ioFilterInputSame(r.f) /\ used + Len(r.out) = 0 THEN Err(f, "check")
        ELSE r

-----------------------------------------------------------------------------
(* The filter group: filter[i] writes to out[i], the last one to the       *)
(* caller's buffer; null[i] when the downstream filters see NULL.          *)

ioFilterGroupOpen(filters, size) ==
    LET f == IF filters = <<>> \/ InFilter(Last(filters)) THEN Append(filters, ioFilterNew("buffer", 0)) ELSE filters
    IN  [filter |-> f, out |-> [i \in DOMAIN f |-> <<>>], null |-> [i \in DOMAIN f |-> FALSE],
         size |-> size, same |-> FALSE, done |-> FALSE, error |-> ""]

\* The filter whose output i reads, 0 for the caller's input
Source(g, i) == Max({0} \cup {j \in 1 .. i - 1 : ~InFilter(g.filter[j])})

NulledEarly(g, i) ==
    IF ~InFilter(g.filter[i]) /\ ioFilterDone(g.filter[i]) THEN [g EXCEPT !.null[i] = TRUE] ELSE g

\* A filter that is done and has no more output lets the next ones flush
Nulled(g, i) ==
    IF ~InFilter(g.filter[i]) /\ ioFilterDone(g.filter[i]) /\ g.out[i] = <<>>
    THEN [g EXCEPT !.null[i] = TRUE] ELSE g

RECURSIVE Forward(_, _, _, _)
Forward(g, i, input, room) ==
    LET f == g.filter[i]
        src == Source(g, i)
        in == IF src = 0 THEN input ELSE IF g.null[src] THEN NullBuf ELSE g.out[src]
        size == IF i = Len(g.filter) THEN room ELSE g.size
        r == IF InFilter(f) THEN ioFilterProcessIn(f, in)
             ELSE ioFilterProcessInOut(f, in, Len(g.out[i]), size - Len(g.out[i]))
        h == [g EXCEPT !.filter[i] = r.f, !.same = @ \/ ioFilterInputSame(r.f), !.error = r.error,
                       !.out = [j \in DOMAIN @ |-> IF j = i THEN @[j] \o r.out
                                                   ELSE IF j = src /\ ~InFilter(f) /\ ~ioFilterInputSame(r.f) THEN <<>>
                                                   ELSE @[j]]]
    IN  IF i > Len(g.filter) THEN g
        ELSE IF ioFilterDone(f) THEN Forward(Nulled(g, i), i + 1, input, room)
        ELSE IF h.error # "" \/ (~InFilter(f) /\ Len(h.out[i]) < size /\ ~ioFilterDone(r.f)) THEN h
        ELSE Forward(Nulled(h, i), i + 1, input, room)

\* Start again at the last filter that needs the same input
RECURSIVE ProcessLoop(_, _, _)
ProcessLoop(g, input, room) ==
    LET again == {i \in DOMAIN g.filter : ioFilterInputSame(g.filter[i])}
        h == Forward(g, IF g.same THEN Max(again) ELSE 1, input, room)
    IN  IF g.same /\ again = {} THEN g
        ELSE IF h.error = "" /\ Len(Last(h.out)) < room /\ h.same THEN ProcessLoop(h, input, room)
        ELSE h

\* output is the caller's buffer, of size room
ioFilterGroupProcess(g, input, output, room) ==
    LET h == ProcessLoop([g EXCEPT !.out[Len(g.out)] = output], input, room)
        same == \E i \in DOMAIN h.filter : ioFilterInputSame(h.filter[i])
    IN  [h EXCEPT !.same = same, !.done = ~same /\ \A i \in DOMAIN h.filter : ioFilterDone(h.filter[i])]

-----------------------------------------------------------------------------
(* Reading.  src is what the driver still has to give, chunk how much a    *)
(* read that does not block gives at most, and known whether the driver    *)
(* knows its end before it has read nothing.  steps bounds the iterations  *)
(* of the loops: a read that uses them up does not end.                    *)

MaxSteps == 60

ioReadNew(filters, src, chunk, block, known, size) ==
    [g |-> ioFilterGroupOpen(filters, size), src |-> src, chunk |-> chunk, block |-> block, known |-> known,
     eof |-> FALSE, input |-> <<>>, eofAll |-> FALSE, output |-> <<>>, outputPos |-> 0, size |-> size,
     steps |-> MaxSteps, got |-> <<>>]

ioReadEofDriver(r) == r.eof \/ (r.known /\ r.src = <<>>)

\* ioFdRead() and the drivers like it: a read that blocks goes on until the
\* limit or the end, one that does not returns what there is
DriverRead(r, limit, block) ==
    LET n == Least(Len(r.src), IF block THEN limit ELSE Least(limit, r.chunk))
    IN  [r EXCEPT !.input = First(r.src, n), !.src = From(r.src, n), !.eof = n = 0 \/ (block /\ n < limit)]

\* Appends to r.got, a buffer of the given size
RECURSIVE ioReadInternal(_, _, _, _)
ioReadInternal(r, room, block, begin) ==
    LET again == r.g.same
        read == IF again \/ r.input = NullBuf THEN r
                ELSE IF ioReadEofDriver(r) THEN [r EXCEPT !.input = NullBuf]
                ELSE DriverRead(r, IF r.block THEN Least(r.size, room - Len(r.got)) ELSE r.size, block)
        g == IF again \/ read.input # <<>> THEN ioFilterGroupProcess(r.g, read.input, r.got, room) ELSE r.g
        got == IF again \/ read.input # <<>> THEN Last(g.out) ELSE r.got
        next == [read EXCEPT !.g = g, !.got = got, !.steps = @ - 1]
    IN  IF r.eofAll \/ Len(r.got) = room \/ r.steps = 0 \/ r.g.error # "" THEN r
        ELSE IF ~again /\ ~block /\ Len(got) > begin THEN next
        ELSE ioReadInternal([next EXCEPT !.eofAll = ioReadEofDriver(next) /\ g.done], room, block, begin)

\* ioRead() into a buffer of the given size
ioRead(r, room) ==
    LET n == Least(room, Len(r.output) - r.outputPos)
    IN  ioReadInternal([r EXCEPT !.got = SubSeq(r.output, r.outputPos + 1, r.outputPos + n), !.outputPos = @ + n],
                       room, TRUE, n)

\* ioReadInternal() into the internal output buffer, which holds begin bytes
ReadOutput(r) ==
    LET s == ioReadInternal([r EXCEPT !.got = r.output], r.size, FALSE, Len(r.output))
    IN  [s EXCEPT !.output = s.got, !.got = r.got]

RECURSIVE ioReadSmall(_, _)
ioReadSmall(r, room) ==
    LET n == Least(room - Len(r.got), Len(r.output) - r.outputPos)
        s == [r EXCEPT !.got = @ \o SubSeq(r.output, r.outputPos + 1, r.outputPos + n), !.outputPos = @ + n,
                       !.steps = @ - 1]
        t == IF room - Len(s.got) >= r.size THEN ioReadInternal(s, room, TRUE, Len(s.got))
             ELSE ReadOutput([s EXCEPT !.output = <<>>, !.outputPos = 0])
    IN  IF r.steps = 0 \/ r.g.error # "" THEN r
        ELSE IF Len(s.got) = room THEN s
        ELSE IF Len(t.got) = room THEN t
        ELSE ioReadSmall(t, room)

\* The line is [line] or [error]
RECURSIVE ioReadLineParam(_, _)
ioReadLineParam(r, allowEof) ==
    LET rest == From(r.output, r.outputPos)
        at == SelectInSeq(rest, LAMBDA b : b = LineFeed)
        s == [r EXCEPT !.output = rest, !.outputPos = 0, !.steps = @ - 1]
    IN  IF r.steps = 0 THEN [r |-> r, line |-> Throw("does not end")]
        ELSE IF at # 0 THEN [r |-> [r EXCEPT !.outputPos = @ + at], line |-> Value(First(rest, at - 1))]
        ELSE IF Len(rest) = r.size THEN [r |-> s, line |-> Throw("unable to find line")]
        ELSE IF ~r.eofAll THEN ioReadLineParam(ReadOutput(s), allowEof)
        ELSE IF allowEof THEN [r |-> s, line |-> Value(rest)]
        ELSE [r |-> s, line |-> Throw("unexpected eof while reading line")]

-----------------------------------------------------------------------------
(* Writing *)

ioWriteNew(filters, size) ==
    [g |-> ioFilterGroupOpen(filters, size), output |-> <<>>, size |-> size, written |-> <<>>, steps |-> MaxSteps]

\* The driver gets the output buffer when it is full
WriteOut(w, g, last) ==
    LET out == Last(g.out)
        write == Len(out) = w.size \/ (last /\ g.done /\ out # <<>>)
    IN  [w EXCEPT !.g = g, !.steps = @ - 1, !.written = IF write THEN @ \o out ELSE @,
                  !.output = IF write THEN <<>> ELSE out]

RECURSIVE ioWrite(_, _)
ioWrite(w, buffer) ==
    LET v == WriteOut(w, ioFilterGroupProcess(w.g, buffer, w.output, w.size), FALSE)
    IN  IF buffer = <<>> \/ w.steps = 0 THEN w
        ELSE IF v.g.same /\ v.g.error = "" THEN ioWrite(v, buffer)
        ELSE v

RECURSIVE ioWriteClose(_)
ioWriteClose(w) ==
    LET v == WriteOut(w, ioFilterGroupProcess(w.g, NullBuf, w.output, w.size), TRUE)
    IN  IF w.steps = 0 THEN w
        ELSE IF ~v.g.done /\ v.g.error = "" THEN ioWriteClose(v)
        ELSE v

-----------------------------------------------------------------------------
(* Whole streams.  a.pipe names the filters a file is stored with; reading *)
(* or writing it applies them, or with a.decode undoes them, between two   *)
(* size filters.  a.cut is how much of the stored file is missing.         *)

Inverted(kind) ==
    CASE kind = "gz" -> "ungz" [] kind = "bz2" -> "unbz2" [] kind = "lz4" -> "unlz4" [] kind = "zst" -> "unzst"
      [] kind = "encrypt" -> "decrypt"

Stored(a) ==
    FoldLeft(LAMBDA s, kind : IF kind = "encrypt" THEN Encrypted(s) ELSE Framed(s), a.data, a.pipe)
GivenBytes(a) == IF a.decode THEN First(Stored(a), Len(Stored(a)) - a.cut) ELSE a.data
WantedBytes(a) == IF a.decode THEN a.data ELSE Stored(a)

Filters(a) ==
    LET kinds == <<"size">> \o (IF a.decode THEN [i \in DOMAIN a.pipe |-> Inverted(Reverse(a.pipe)[i])] ELSE a.pipe)
                 \o (IF a.tail THEN <<"size">> ELSE <<>>)
    IN  [i \in DOMAIN kinds |-> ioFilterNew(kinds[i], a.cap)]

Result(a, x, out) ==
    IF x.g.error # "" THEN Throw(x.g.error)
    ELSE IF x.steps = 0 THEN Throw("does not end")
    ELSE Value([out |-> out, in |-> x.g.filter[1].seen, tail |-> IF a.tail THEN x.g.filter[Len(a.pipe) + 2].seen ELSE out])

\* ioReadBuf() when a.ask is the buffer size
RECURSIVE ReadOn(_, _, _)
ReadOn(a, r, out) ==
    LET s == ioRead(r, a.ask)
    IN  IF r.eofAll \/ r.steps = 0 \/ r.g.error # "" THEN Result(a, r, out)
        ELSE ReadOn(a, s, out \o s.got)

readThrough(a) == ReadOn(a, ioReadNew(Filters(a), GivenBytes(a), a.chunk, a.block, a.known, a.size), <<>>)

\* storagePut() and the copy loops: write chunk by chunk, then close
RECURSIVE WriteOn(_, _, _)
WriteOn(a, w, rest) ==
    IF w.g.error # "" THEN Result(a, w, w.written)
    ELSE IF rest # <<>> THEN WriteOn(a, ioWrite(w, First(rest, Least(a.chunk, Len(rest)))),
                                     From(rest, Least(a.chunk, Len(rest))))
    ELSE LET v == ioWriteClose(w) IN Result(a, v, v.written)

writeThrough(a) == WriteOn(a, ioWriteNew(Filters(a), a.size), GivenBytes(a))

\* Lines to the end of the stream, as iniLoad() reads them with a.allowEof,
\* and HTTP without
RECURSIVE LinesOn(_, _, _)
LinesOn(a, r, lines) ==
    LET l == ioReadLineParam(r, a.allowEof)
    IN  IF Threw(l.line) THEN [lines |-> lines, error |-> l.line.error]
        ELSE IF a.allowEof /\ l.r.eofAll THEN [lines |-> Append(lines, l.line.ok), error |-> ""]
        ELSE LinesOn(a, l.r, Append(lines, l.line.ok))

readLines(a) == LinesOn(a, ioReadNew(<<>>, a.data, a.chunk, a.block, a.known, a.size), <<>>)

\* ioReadSmall() of each of the sizes, as pckReadNew() reads a pack
RECURSIVE SmallOn(_, _, _)
SmallOn(r, small, bufs) ==
    LET s == ioReadSmall([r EXCEPT !.got = <<>>], Head(small))
    IN  IF small = <<>> THEN Value(bufs)
        ELSE IF s.steps = 0 THEN Throw("does not end")
        ELSE SmallOn(s, Tail(small), Append(bufs, s.got))

readSmall(a) == SmallOn(ioReadNew(<<>>, a.data, a.chunk, a.block, a.known, a.size), a.small, <<>>)

\* Whatever the sizes of the reads, the buffers and the chunks and however
\* much a library holds back: what goes through the filters comes out whole,
\* in order and once, a filter that looks at the data sees every byte of it
\* exactly once, no filter is asked to work on a full output ("there should
\* always be space in the buffer", gz/common.c) and the reads and the writes
\* end.  A stored file that was cut short is an error, never a shorter file.
FiltersExact(a, r) ==
    IF a.cut = 0 THEN r = Value([out |-> WantedBytes(a), in |-> GivenBytes(a), tail |-> WantedBytes(a)])
    ELSE Threw(r) /\ r.error \in {"unexpected eof in compressed data", "cipher header missing", "unable to flush"}

\* Reads of lines give back the stream as it was sent: the bytes one read
\* leaves in the internal buffer are the next one's first bytes.  A line that
\* does not fit the buffer is an error.
LinesExact(a, r) ==
    LET sent == FoldLeft(LAMBDA s, l : s \o l \o <<LineFeed>>, <<>>, r.lines)
    IN  /\ r.error # "does not end"
        /\ r.error = "" => sent \in {a.data, Append(a.data, LineFeed)}
        /\ r.error = "unexpected eof while reading line" => ~a.allowEof /\ IsPrefix(sent, a.data)
        /\ r.error = "unable to find line" =>
              /\ IsPrefix(sent, a.data)
              /\ \A i \in 1 .. Least(a.size, Len(a.data) - Len(sent)) : a.data[Len(sent) + i] # LineFeed
              /\ Len(a.data) - Len(sent) >= a.size

\* So do small reads, as long as the stream is not shorter than they ask for.
SmallExact(a, r) ==
    FoldLeft(LAMBDA n, k : n + k, 0, a.small) <= Len(a.data) =>
        /\ ~Threw(r)
        /\ FlattenSeq(r.ok) = First(a.data, FoldLeft(LAMBDA n, k : n + k, 0, a.small))

\* A stream that goes through any filters, buffers and kinds of read comes out
\* as it was sent.
StreamExact ==
    [][ /\ Returns("readThrough", readThrough, FiltersExact)
        /\ Returns("writeThrough", writeThrough, FiltersExact)
        /\ Returns("readLines", readLines, LinesExact)
        /\ Returns("readSmall", readSmall, SmallExact)]_call
=============================================================================
