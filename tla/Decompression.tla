---------------------------- MODULE Decompression -----------------------------
(***************************************************************************)
(* Content decoding: the chain of codings of turnloop-http's compression.rs*)
(* and, below its "zstd", the frame decoder of turnloop-zstd-decoder on its*)
(* history: the ring of decoding/ringbuffer.rs over raw memory and the     *)
(* DecodeBuffer of decoding/decode_buffer.rs on top.  Memory is a function *)
(* from addresses; what the allocator returns is Junk.  An encoded byte is a*)
(* record that says what it is a byte of; entropy coding is left out, so a *)
(* compressed block is its literals and its sequences.  Deflate, Brotli and*)
(* the native Zstandard are external: they turn codes into bytes.          *)
(*                                                                         *)
(* Three machines share the variables: the history alone, the readers of   *)
(* the frame decoder, and a host that feeds a body to a chain in pieces.   *)
(***************************************************************************)
EXTENDS Naturals, Sequences, FiniteSets, SequencesExt, TLC

CONSTANTS
    Junk,               \* the content of memory nothing was written to
    Chunk,              \* COPY_AT_ONCE_SIZE, the bytes copied by one instruction
    HeaderLength,       \* bytes of a frame's header, and of a gzip member's
    MaxHeader,          \* the bytes that a header may take
    BlockHeaderLength,  \* bytes of a block's header
    SumLength,          \* bytes of a checksum, and of a gzip trailer
    Packed,             \* bytes of a compressed block
    Dictionaries,       \* the dictionaries added to the decoder: [content, offsets] by id
    MaxWindow,          \* MAXIMUM_ALLOWED_WINDOW_SIZE
    NoDict,
    StageBytes,         \* STAGE_BYTES
    Bodies,             \* what is decoded, one after the other
    MaxOffset, MaxLength, MaxWhole      \* bounds of the history machine

VARIABLES
    decoder,    \* the decoder under test
    input,      \* [held, coming]: bytes the host holds, and that have yet to come
    output,     \* what has been decoded
    step,       \* what the last call returned
    body        \* what is being decoded

vars == <<decoder, input, output, step, body>>

Upto(s, n) == SubSeq(s, 1, n)
From(s, n) == SubSeq(s, n + 1, Len(s))
Times(x, n) == [i \in 1 .. n |-> x]

Smaller(m, n) == IF m <= n THEN m ELSE n
Larger(m, n) == IF m >= n THEN m ELSE n

---------------------------------------------------------------------------
(* RingBuffer.                                                             *)

\* new(): nothing is allocated.
NewRing == [mem |-> << >>, cap |-> 0, head |-> 0, tail |-> 0]

\* An address, wrapped around.
Wrapped(r, n) == n % r.cap

\* The two occupied sections: from the head on, and from address 0 on.
DataAfterHead(r) == IF r.tail >= r.head THEN r.tail - r.head ELSE r.cap - r.head
DataToTail(r) == IF r.tail >= r.head THEN 0 ELSE r.tail
Length(r) == DataAfterHead(r) + DataToTail(r)

\* The two free sections: from the tail on, and from address 0 on.
FreeAfterTail(r) == IF r.tail < r.head THEN r.head - r.tail ELSE r.cap - r.tail
FreeToHead(r) == IF r.tail < r.head THEN 0 ELSE r.head

\* One byte stays free as the sentinel.
Free(r) == Larger(FreeAfterTail(r) + FreeToHead(r), 1) - 1

\* as_slices: one section behind the other.
Content(r) ==
    [i \in 1 .. Length(r) |->
        IF i <= DataAfterHead(r) THEN r.mem[r.head + i - 1] ELSE r.mem[i - 1 - DataAfterHead(r)]]

Clear(r) == [r EXCEPT !.head = 0, !.tail = 0]

\* The data moves to the front of a new allocation.
Moved(r, cap) ==
    [mem |-> [a \in 0 .. cap - 1 |-> IF a < Length(r) THEN Content(r)[a + 1] ELSE Junk],
     cap |-> cap, head |-> 0, tail |-> Length(r)]

NextPowerOfTwo(n) ==
    CHOOSE m \in {2 ^ k : k \in 0 .. n} : m >= n /\ \A k \in 0 .. n : 2 ^ k >= n => m <= 2 ^ k

\* Fault: no room is made for the sentinel.
NewCapacityExact(cap, amount) == Larger(NextPowerOfTwo(cap), NextPowerOfTwo(cap + amount))

NewCapacity(cap, amount) == Larger(NextPowerOfTwo(cap), NextPowerOfTwo(cap + amount)) + 1

Reserve(r, amount) == IF Free(r) >= amount THEN r ELSE Moved(r, NewCapacity(r.cap, amount - Free(r)))

\* copy_from_nonoverlapping, from the ring's own memory and of foreign bytes
\* behind the first `skipped'.
Copy(mem, from, to, n) == [a \in DOMAIN mem |-> IF to <= a /\ a < to + n THEN mem[from + (a - to)] ELSE mem[a]]
Write(mem, to, n, data, skipped) ==
    [a \in DOMAIN mem |-> IF to <= a /\ a < to + n THEN data[skipped + 1 + (a - to)] ELSE mem[a]]

Advance(r, n) == [r EXCEPT !.tail = Wrapped(r, @ + n)]

\* What fits behind the tail goes there, the rest to the front.
Put(r, data) ==
    LET n == Smaller(Len(data), FreeAfterTail(r))
    IN  [r EXCEPT !.mem = Write(Write(@, r.tail, n, data, 0), 0, Len(data) - n, data, n)]

Extend(r, data) == IF data = << >> THEN r ELSE Advance(Put(Reserve(r, Len(data)), data), Len(data))

\* get: Junk behind the end.
Get(r, i) == IF i < Length(r) THEN r.mem[Wrapped(r, r.head + i)] ELSE Junk

ExtendAndFill(r, byte, n) == Extend(r, [i \in 1 .. n |-> byte])

\* read_exact fails when the reader holds fewer than n bytes: memory has been zeroed
\* and exposed to it, but the tail stays where it was.
ExtendFromReader(r, data, n) ==
    IF Len(data) >= n THEN Extend(r, SubSeq(data, 1, n))
    ELSE LET s == Reserve(r, n)
             first == Smaller(n, FreeAfterTail(s))
             shown == IF Len(data) < first THEN first ELSE n
         IN  Put(s, [i \in 1 .. shown |-> IF i <= Len(data) THEN data[i] ELSE Junk])

DropFirst(r, n) == [r EXCEPT !.head = Wrapped(r, @ + Smaller(n, Length(r)))]

---------------------------------------------------------------------------
(* extend_from_within.                                                     *)

RoundUp(n) == ((n + Chunk - 1) \div Chunk) * Chunk

\* The bytes that copy_bytes_overshooting copies: whole chunks when the source
\* and the destination both have room for them.
CopyLength(room, n) ==
    IF room >= Chunk /\ n <= Chunk THEN Chunk ELSE IF room >= RoundUp(n) THEN RoundUp(n) ELSE n

Overshoot(mem, from, fromLength, to, toLength, n) == Copy(mem, from, to, CopyLength(Smaller(fromLength, toLength), n))

\* The source is one section; the destination may wrap around.
WithinContiguous(r, start, n) ==
    LET before == Smaller(n, r.cap - r.tail)
        from == r.head + start
        first == Overshoot(r.mem, from, r.tail - from, r.tail, r.cap - r.tail, before)
    IN  IF before < n THEN Overshoot(first, from + before, r.tail - from - before, 0, r.head, n - before) ELSE first

\* The data wraps around and the source lies in its second section.
WithinSecond(r, start, n) ==
    LET from == Wrapped(r, r.head + start)
    IN  Overshoot(r.mem, from, r.tail - from, r.tail, r.head - r.tail, n)

\* The data wraps around and the source begins in its first section.
WithinFirst(r, start, n) ==
    LET from == r.head + start
        before == Smaller(n, r.cap - from)
        first == Overshoot(r.mem, from, r.cap - from, r.tail, r.head - r.tail, before)
    IN  IF before < n THEN Overshoot(first, 0, r.tail, r.tail + before, r.head - r.tail - before, n - before) ELSE first

ExtendFromWithinUnchecked(r, start, n) ==
    Advance([r EXCEPT !.mem =
                IF r.head < r.tail THEN WithinContiguous(r, start, n)
                ELSE IF r.head + start > r.cap THEN WithinSecond(r, start, n) ELSE WithinFirst(r, start, n)], n)

ExtendFromWithin(r, start, n) == ExtendFromWithinUnchecked(Reserve(r, n), start, n)

\* The variant without branches: the parts of the two sections that are wanted,
\* m1 and m2, are laid into the two free sections, f1 and f2.
Split(r, start, n) ==
    LET s1 == DataAfterHead(r)
        from1 == Smaller(s1, start)
        m1 == Smaller(s1, start + n) - from1
        m2 == n - m1
        m1InF1 == Smaller(m1, FreeAfterTail(r))
        m2InF1 == Smaller(FreeAfterTail(r) - m1InF1, m2)
    IN  [from1 |-> r.head + from1, from2 |-> IF start > s1 THEN start - s1 ELSE 0,
         m1InF1 |-> m1InF1, m1InF2 |-> m1 - m1InF1, m2InF1 |-> m2InF1, m2InF2 |-> m2 - m2InF1]

CopyWithChecks(mem, tail, s) ==
    LET a == Copy(mem, s.from1, tail, s.m1InF1)
        b == Copy(a, s.from2, tail + s.m1InF1, s.m2InF1)
        c == Copy(b, s.from1 + s.m1InF1, 0, s.m1InF2)
    IN  Copy(c, s.from2 + s.m2InF1, s.m1InF2, s.m2InF2)

ExtendFromWithinBranchless(r, start, n) ==
    Advance([r EXCEPT !.mem = CopyWithChecks(@, r.tail, Split(r, start, n))], n)

---------------------------------------------------------------------------
(* DecodeBuffer.  The hash is the sequence of the bytes given to it.       *)

NewBuffer(window) == [ring |-> NewRing, dict |-> << >>, window |-> window, total |-> 0, hash |-> << >>]

ResetBuffer(b, window) ==
    [NewBuffer(window) EXCEPT !.ring = Reserve(Clear(b.ring), window)]

Push(b, data) == [b EXCEPT !.ring = Extend(@, data), !.total = @ + Len(data)]

\* A copy that overlaps its own output, one period of `offset' bytes at a time.
RepeatInChunks(r, offset, n, start) ==
    LET count == (n + offset - 1) \div offset
        after[k \in 0 .. count] ==
            IF k = 0 THEN r
            ELSE ExtendFromWithinUnchecked(after[k - 1], start + (k - 1) * offset, Smaller(offset, n - (k - 1) * offset))
    IN  after[count]

RepeatWithin(b, offset, n) ==
    LET start == Length(b.ring) - offset
        r == Reserve(b.ring, n)
    IN  [b EXCEPT !.ring = IF n > offset THEN RepeatInChunks(r, offset, n, start)
                           ELSE ExtendFromWithinUnchecked(r, start, n),
                  !.total = @ + n]

Worked(b) == [ok |-> TRUE, buffer |-> b]
Refused(b) == [ok |-> FALSE, buffer |-> b]

RepeatFromDict(b, offset, n) ==
    LET need == offset - Length(b.ring)
        low == Len(b.dict) - need
        filled == [b EXCEPT !.ring = Extend(@, SubSeq(b.dict, low + 1, Len(b.dict))), !.total = @ + need]
    IN  IF b.total > b.window \/ need > Len(b.dict) THEN Refused(b)
        ELSE IF need < n THEN Worked(RepeatWithin(filled, Length(filled.ring), n - need))
        ELSE Worked([b EXCEPT !.ring = Extend(@, SubSeq(b.dict, low + 1, low + n))])

Repeat(b, offset, n) == IF offset > Length(b.ring) THEN RepeatFromDict(b, offset, n) ELSE Worked(RepeatWithin(b, offset, n))

CanDrainToWindow(b) == IF Length(b.ring) > b.window THEN Length(b.ring) - b.window ELSE 0

\* drain_to: a sink that takes no more than `takes' bytes stops it, and what was
\* taken is dropped and hashed.
Drained(b, amount, takes) ==
    LET n1 == Smaller(DataAfterHead(b.ring), amount)
        n2 == Smaller(DataToTail(b.ring), amount - n1)
        w1 == Smaller(n1, takes)
        w2 == IF w1 = n1 THEN Smaller(n2, takes - w1) ELSE 0
    IN  w1 + w2

DrainTo(b, amount, takes) ==
    LET n == Drained(b, amount, takes)
    IN  IF n = 0 THEN b
        ELSE [b EXCEPT !.ring = DropFirst(@, n), !.hash = @ \o SubSeq(Content(b.ring), 1, n)]

Drain(b) == [b EXCEPT !.ring = Clear(@), !.hash = @ \o Content(b.ring)]

---------------------------------------------------------------------------
(* Sequence execution.                                                     *)

Good(fd) == [how |-> "ok", fd |-> fd]
Bad(fd) == [how |-> "err", fd |-> fd]

FirstOffsets == <<1, 4, 8>>

DoOffsetHistory(of, ll, hist) ==
    LET actual == IF ll > 0 THEN IF of \in 1 .. 3 THEN hist[of] ELSE of - 3
                  ELSE IF of \in 1 .. 2 THEN hist[of + 1] ELSE IF of = 3 THEN hist[1] - 1 ELSE of - 3
    IN  [offset |-> actual,
         hist |-> IF ll > 0 /\ of = 1 THEN hist
                  ELSE IF of = IF ll > 0 THEN 2 ELSE 1 THEN <<actual, hist[1], hist[3]>>
                  ELSE <<actual, hist[1], hist[2]>>]

\* Literals, then a copy; the first failure ends the block.
WithLiterals(b, lits, used, ll) == IF ll > 0 THEN Push(b, SubSeq(lits, used + 1, used + ll)) ELSE b
WithMatch(b, offset, ml) == IF ml > 0 THEN Repeat(b, offset, ml) ELSE Worked(b)
AfterMatch(s, copied) == [s EXCEPT !.ok = copied.ok, !.buffer = copied.buffer]
AfterOffset(s, q, o) ==
    IF o.offset = 0 THEN [s EXCEPT !.ok = FALSE, !.hist = o.hist]
    ELSE AfterMatch([s EXCEPT !.hist = o.hist, !.used = @ + q.ll, !.sum = @ + q.ll + q.ml], WithMatch(s.buffer, o.offset, q.ml))
ExecuteSequence(lits, s, q) ==
    IF ~s.ok \/ s.used + q.ll > Len(lits) THEN [s EXCEPT !.ok = FALSE]
    ELSE AfterOffset([s EXCEPT !.buffer = WithLiterals(@, lits, s.used, q.ll)], q, DoOffsetHistory(q.of, q.ll, s.hist))

\* The literals left over follow; the sizes must add up.
Checked(before, fd, size) ==
    [how |-> IF Length(fd.buffer.ring) - Length(before) = size THEN "ok" ELSE "panic", fd |-> fd]
AfterSequences(fd, lits, done) ==
    IF ~done.ok THEN Bad([fd EXCEPT !.buffer = done.buffer, !.hist = done.hist])
    ELSE Checked(fd.buffer.ring, [fd EXCEPT !.buffer = Push(done.buffer, From(lits, done.used)), !.hist = done.hist],
                 done.sum + (Len(lits) - done.used))
ExecuteSequences(fd, lits, seqs) ==
    AfterSequences(fd, lits, FoldLeft(LAMBDA s, q : ExecuteSequence(lits, s, q),
                                      [ok |-> TRUE, buffer |-> fd.buffer, hist |-> fd.hist, used |-> 0, sum |-> 0], seqs))

---------------------------------------------------------------------------
(* FrameDecoder.                                                           *)

ContentSize(b) == CASE b.kind = "Raw" -> Len(b.data) [] b.kind = "RLE" -> 1 [] b.kind = "Compressed" -> Packed

ContentBytes(b) ==
    CASE b.kind = "Raw" -> [i \in 1 .. Len(b.data) |-> [at |-> "content", byte |-> b.data[i]]]
      [] b.kind = "RLE" -> <<[at |-> "content", byte |-> b.byte]>>
      [] b.kind = "Compressed" -> Times([at |-> "content", lits |-> b.lits, seqs |-> b.seqs], Packed)

BlockBytes(b) == Times([at |-> "block", block |-> b], BlockHeaderLength) \o ContentBytes(b)

FrameBytes(f, sum) ==
    Times([at |-> "frame", frame |-> f], HeaderLength) \o FlattenSeq([i \in 1 .. Len(f.blocks) |-> BlockBytes(f.blocks[i])])
        \o IF f.summed THEN Times([at |-> "sum", sum |-> sum], SumLength) ELSE << >>

NoSum == {}
NoFrame == [window |-> 0, dict |-> NoDict, summed |-> FALSE, blocks |-> << >>]
NewDecoder ==
    [on |-> FALSE, frame |-> NoFrame, finished |-> FALSE, blocks |-> 0, read |-> 0, sum |-> NoSum,
     buffer |-> NewBuffer(0), hist |-> FirstOffsets]

\* reset: the header, and the dictionary that it names.  Only a decoder that is
\* used again refuses a window that is too large, and it stays as it was.
InitDict(fd, dict) ==
    IF dict = NoDict THEN Good(fd)
    ELSE IF dict \notin DOMAIN Dictionaries THEN Bad(fd)
    ELSE Good([fd EXCEPT !.buffer.dict = Dictionaries[dict].content, !.hist = Dictionaries[dict].offsets])
FrameReset(fd, source) ==
    IF Len(source) < HeaderLength \/ source[1].at # "frame" THEN Bad(fd)
    ELSE IF fd.on /\ source[1].frame.window > MaxWindow THEN Bad(fd)
    ELSE LET f == source[1].frame
             b == IF fd.on THEN ResetBuffer(fd.buffer, f.window) ELSE NewBuffer(f.window)
         IN  InitDict([NewDecoder EXCEPT !.on = TRUE, !.frame = f, !.read = HeaderLength, !.buffer = b], f.dict)

IsFinished(fd) == ~fd.on \/ (fd.finished /\ (fd.frame.summed => fd.sum # NoSum))

CanCollect(fd) ==
    IF ~fd.on THEN 0 ELSE IF IsFinished(fd) THEN Length(fd.buffer.ring) ELSE CanDrainToWindow(fd.buffer)

\* read: everything once the last block is decoded, else all but the window.
ReadAmount(fd, n) == Smaller(n, IF fd.finished THEN Length(fd.buffer.ring) ELSE CanDrainToWindow(fd.buffer))
FrameRead(fd, n) == [fd EXCEPT !.buffer = DrainTo(@, ReadAmount(fd, n), n)]
ReadBytes(fd, n) == Upto(Content(fd.buffer.ring), ReadAmount(fd, n))

\* decode_block_content, from as many bytes of the content as there are.
DecodeBlock(fd, b, content) ==
    CASE b.kind = "Raw" ->
           [how |-> IF Len(content) < Len(b.data) THEN "err" ELSE "ok",
            fd |-> [fd EXCEPT !.buffer.ring = ExtendFromReader(@, [i \in DOMAIN content |-> content[i].byte], Len(b.data))]]
      [] b.kind = "RLE" ->
           IF content = << >> THEN Bad(fd) ELSE Good([fd EXCEPT !.buffer.ring = ExtendAndFill(@, content[1].byte, b.size)])
      [] b.kind = "Compressed" ->
           IF Len(content) < Packed THEN Bad(fd)
           ELSE IF content[1].seqs = << >> THEN Good([fd EXCEPT !.buffer = Push(@, content[1].lits)])
           ELSE ExecuteSequences(fd, content[1].lits, content[1].seqs)

Begun(fd) == [fd EXCEPT !.read = @ + BlockHeaderLength]
Counted(fd, b) == [fd EXCEPT !.read = @ + ContentSize(b), !.blocks = @ + 1, !.finished = b.last]
Summed(fd, source) == [fd EXCEPT !.read = @ + SumLength, !.sum = {source[1].sum}]

\* The content of the block behind a header, as far as it is there.
BlockContent(b, rest) == Upto(rest, Smaller(ContentSize(b), Len(rest)))

LastOfSlice(fd, after) == IF fd.frame.summed /\ Len(after) >= SumLength THEN Summed(fd, after) ELSE fd

\* The loop of decode_from_to over a slice: only whole blocks are decoded, and
\* the header of another is read again by the next call.
RECURSIVE DecodeSlice(_, _)
RECURSIVE AfterBlock(_, _, _)
DecodeSlice(fd, source) ==
    IF Len(source) < BlockHeaderLength THEN Good(fd)
    ELSE IF source[1].at # "block" THEN Bad(fd)
    ELSE LET b == source[1].block
             rest == From(source, BlockHeaderLength)
         IN  IF Len(rest) < ContentSize(b) THEN Good(fd)
             ELSE AfterBlock(DecodeBlock(Begun(fd), b, BlockContent(b, rest)), b, From(rest, ContentSize(b)))
AfterBlock(r, b, after) ==
    IF r.how # "ok" THEN r
    ELSE IF b.last THEN Good(LastOfSlice(Counted(r.fd, b), after))
    ELSE DecodeSlice(Counted(r.fd, b), after)

\* The end of decode_from_to: what can be read is.
Answered(r, start, n) ==
    IF r.how # "ok" THEN r @@ [out |-> << >>, consumed |-> 0]
    ELSE [how |-> "ok", fd |-> FrameRead(r.fd, n), out |-> ReadBytes(r.fd, n),
          consumed |-> r.fd.read - start]

AfterHeader(r, source) == IF r.how = "ok" THEN DecodeSlice(r.fd, source) ELSE r

\* When the checksum alone is missing, its length is reported as read whatever
\* was given.
DecodeFromTo(fd, source, n) ==
    IF fd.on /\ IsFinished(fd) THEN Answered(Good(fd), fd.read, n)
    ELSE IF fd.finished
    THEN [how |-> "ok", out |-> << >>, consumed |-> SumLength,
          fd |-> IF Len(source) >= SumLength THEN Summed(fd, source) ELSE fd]
    ELSE Answered(AfterHeader(IF fd.on THEN Good(fd) ELSE FrameReset(fd, source),
                              IF fd.on THEN source ELSE From(source, Smaller(HeaderLength, Len(source)))),
                  IF fd.on THEN fd.read ELSE 0, n)

LastOfReader(fd, after) ==
    IF ~fd.frame.summed THEN Good(fd) @@ [rest |-> after]
    ELSE IF Len(after) < SumLength THEN Bad(fd) @@ [rest |-> << >>]
    ELSE Good(Summed(fd, after)) @@ [rest |-> From(after, SumLength)]

\* decode_blocks: from a reader, up to a number of blocks or until the buffer has
\* grown to a length.
RECURSIVE DecodeBlocks(_, _, _, _)
RECURSIVE MoreBlocks(_, _, _, _, _)
DecodeBlocks(fd, source, blocks, end) ==
    IF Len(source) < BlockHeaderLength \/ source[1].at # "block" THEN Bad(fd) @@ [rest |-> << >>]
    ELSE LET b == source[1].block
             rest == From(source, BlockHeaderLength)
         IN  MoreBlocks(DecodeBlock(Begun(fd), b, BlockContent(b, rest)), b, From(rest, Smaller(ContentSize(b), Len(rest))), blocks, end)
MoreBlocks(r, b, after, blocks, end) ==
    IF r.how # "ok" THEN r @@ [rest |-> << >>]
    ELSE IF b.last THEN LastOfReader(Counted(r.fd, b), after)
    ELSE IF blocks <= 1 \/ end <= Length(r.fd.buffer.ring) THEN Good(Counted(r.fd, b)) @@ [rest |-> after]
    ELSE DecodeBlocks(Counted(r.fd, b), after, blocks - 1, end)

\* StreamingDecoder::read: blocks are decoded until enough can be collected.
RECURSIVE FillFor(_, _)
FillFor(r, n) ==
    IF r.how # "ok" \/ CanCollect(r.fd) >= n \/ IsFinished(r.fd) THEN r
    ELSE FillFor(DecodeBlocks(r.fd, r.rest, Len(r.rest), Length(r.fd.buffer.ring) + n - CanCollect(r.fd)), n)

\* decode_all: frames and skippable frames to the end of the input, into a target
\* that must have room.
RECURSIVE DecodeAll(_, _, _, _)
RECURSIVE DecodeFrame(_, _, _, _)
RECURSIVE DecodeRest(_, _, _, _)
DecodeAll(fd, source, out, space) ==
    IF source = << >> THEN [how |-> "ok", fd |-> fd, out |-> out]
    ELSE IF Len(source) >= HeaderLength /\ source[1].at = "skip"
    THEN IF Len(source) - HeaderLength < source[1].length THEN [how |-> "err", fd |-> fd, out |-> << >>]
         ELSE DecodeAll(fd, From(source, HeaderLength + source[1].length), out, space)
    ELSE DecodeFrame(FrameReset(fd, source), From(source, Smaller(HeaderLength, Len(source))), out, space)
DecodeFrame(r, source, out, space) ==
    IF r.how # "ok" THEN [how |-> "err", fd |-> r.fd, out |-> << >>]
    ELSE DecodeRest(DecodeBlocks(r.fd, source, Len(source), MaxWhole), FALSE, out, space)
\* What a round of decode_blocks made available is read; after it (`read') another
\* round follows, or the next frame.
DecodeRest(r, read, out, space) ==
    IF r.how # "ok" \/ (read /\ CanCollect(r.fd) # 0) THEN [how |-> "err", fd |-> r.fd, out |-> << >>]
    ELSE IF ~read
    THEN DecodeRest([r EXCEPT !.fd = FrameRead(@, space - Len(out))], TRUE, out \o ReadBytes(r.fd, space - Len(out)), space)
    ELSE IF IsFinished(r.fd) THEN DecodeAll(r.fd, r.rest, out, space)
    ELSE DecodeRest(DecodeBlocks(r.fd, r.rest, Len(r.rest), MaxWhole), FALSE, out, space)

---------------------------------------------------------------------------
(* Codec of compression.rs.  The library below "gzip", "deflate", "br" and *)
(* the native "zstd" is external: it takes codes, holds what it has decoded *)
(* and not written, and says when its stream or frame is over.             *)

NewLib == [pending |-> << >>, last |-> FALSE]

\* The library takes codes and writes bytes until one of them runs out.
RECURSIVE Pump(_, _, _, _, _)
Pump(lib, source, taken, out, space) ==
    IF lib.pending # << >>
    THEN IF Len(out) = space THEN [how |-> "ok", lib |-> lib, consumed |-> taken, out |-> out, over |-> FALSE]
         ELSE Pump([lib EXCEPT !.pending = Tail(@)], source, taken, Append(out, Head(lib.pending)), space)
    ELSE IF lib.last THEN [how |-> "ok", lib |-> lib, consumed |-> taken, out |-> out, over |-> TRUE]
    ELSE IF taken = Len(source) THEN [how |-> "ok", lib |-> lib, consumed |-> taken, out |-> out, over |-> FALSE]
    ELSE IF source[taken + 1].at # "code" THEN [how |-> "err", lib |-> lib, consumed |-> taken, out |-> out, over |-> FALSE]
    ELSE Pump([pending |-> source[taken + 1].bytes, last |-> source[taken + 1].last], source, taken + 1, out, space)

NewCodec(name) ==
    [name |-> name, total |-> 0, done |-> FALSE, lib |-> NewLib, frame |-> NewDecoder,
     stage |-> IF name = "gzip" THEN "Header" ELSE "Body", detect |-> name = "deflate", crc |-> << >>, members |-> 0,
     boundary |-> FALSE, reset |-> TRUE]

\* Codec::reset keeps the frame decoder, whose buffers are used again.
ResetCodec(c) == [NewCodec(c.name) EXCEPT !.frame = c.frame]

Stepped(c, consumed, out, finished) == [how |-> "ok", codec |-> c, consumed |-> consumed, out |-> out, finished |-> finished]
Corrupt(c) == [how |-> "err", codec |-> c, consumed |-> 0, out |-> << >>, finished |-> FALSE]

StepIdentity(c, source, space, end) ==
    LET n == Smaller(Len(source), space) IN Stepped(c, n, Upto(source, n), end /\ n = Len(source))

\* gzip_header: a header that has not arrived whole is not an error.
StepHeader(c, source, end) ==
    IF source = << >> /\ end /\ c.members > 0 THEN Stepped(c, 0, << >>, TRUE)
    ELSE IF Len(source) < HeaderLength THEN IF end THEN Corrupt(c) ELSE Stepped(c, 0, << >>, FALSE)
    ELSE IF source[1].at # "gzip" THEN Corrupt(c)
    ELSE Stepped([c EXCEPT !.stage = "Body", !.lib = NewLib, !.crc = << >>], HeaderLength, << >>, FALSE)

StepTrailer(c, source, end) ==
    IF Len(source) < SumLength THEN IF end THEN Corrupt(c) ELSE Stepped(c, 0, << >>, FALSE)
    ELSE IF source[1].at # "sum" \/ source[1].sum # c.crc THEN Corrupt(c)
    ELSE Stepped([c EXCEPT !.stage = "Header", !.members = @ + 1], SumLength, << >>, end /\ Len(source) = SumLength)

Inflated(c, p, source, space, end) ==
    LET next == [c EXCEPT !.detect = FALSE, !.lib = p.lib,
                          !.crc = IF c.name = "gzip" THEN @ \o p.out ELSE @,
                          !.stage = IF ~p.over THEN @ ELSE IF c.name = "gzip" THEN "Trailer" ELSE "Done"]
    IN  IF p.how = "err" \/ (~p.over /\ end /\ p.consumed = Len(source) /\ Len(p.out) < space) THEN Corrupt(c)
        ELSE Stepped(next, p.consumed, p.out, p.over /\ c.name = "deflate" /\ end /\ p.consumed = Len(source))

StepDeflate(c, source, space, end) ==
    CASE c.stage = "Header" -> StepHeader(c, source, end)
      [] c.stage = "Trailer" -> StepTrailer(c, source, end)
      [] c.stage = "Done" -> IF source # << >> THEN Corrupt(c) ELSE Stepped(c, 0, << >>, end)
      [] c.stage = "Body" ->
           IF c.detect /\ Len(source) < 2 THEN IF end THEN Corrupt(c) ELSE Stepped(c, 0, << >>, FALSE)
           ELSE Inflated(c, Pump(c.lib, source, 0, << >>, space), source, space, end)

StepBrotli(c, p, source, space, end) ==
    IF p.how = "err" \/ (p.over /\ p.consumed # Len(source)) \/ (~p.over /\ end /\ Len(p.out) < space) THEN Corrupt(c)
    ELSE Stepped([c EXCEPT !.lib = p.lib], p.consumed, p.out, p.over)
\* The native decoder: `remaining' is 0 at the end of a frame.
StepZstd(c, p, source, space, end) ==
    LET moved == p.consumed > 0 \/ p.out # << >>
        next == [c EXCEPT !.lib = p.lib, !.boundary = IF moved THEN p.over ELSE @]
    IN  IF p.how = "err" \/ (~next.boundary /\ end /\ p.consumed = Len(source) /\ Len(p.out) < space) THEN Corrupt(c)
        ELSE Stepped(next, p.consumed, p.out, next.boundary /\ end /\ p.consumed = Len(source))

\* The decoder in Rust: a header is parsed when it has surely arrived whole.
AfterFrame(c, r, before, source, end) ==
    LET consumed == before + r.consumed
        next == [c EXCEPT !.frame = r.fd]
    IN  IF r.how # "ok" THEN [Corrupt(c) EXCEPT !.how = r.how]
        ELSE IF IsFinished(r.fd) /\ CanCollect(r.fd) = 0
        THEN IF ~(r.fd.sum \subseteq {r.fd.buffer.hash}) THEN Corrupt(c)
             ELSE Stepped([next EXCEPT !.boundary = TRUE, !.reset = TRUE], consumed, r.out, end /\ consumed = Len(source))
        ELSE IF end /\ consumed = 0 /\ r.out = << >> THEN Corrupt(c)
        ELSE Stepped(next, consumed, r.out, FALSE)

AfterReset(c, r, before, source, space, end) ==
    IF r.how # "ok" THEN Corrupt(c)
    ELSE AfterFrame([c EXCEPT !.reset = FALSE, !.boundary = @ /\ ~c.reset],
                    DecodeFromTo(r.fd, From(source, before), space), before, source, end)

StepZstdRs(c, source, space, end) ==
    IF c.reset /\ Len(source) < MaxHeader /\ ~end THEN Stepped(c, 0, << >>, FALSE)
    ELSE AfterReset(c, IF c.reset THEN FrameReset(c.frame, source) ELSE Good(c.frame),
                    IF c.reset THEN HeaderLength ELSE 0, source, space, end)

AtBoundary(c, source, end) == c.name \in {"zstd", "zstd-rs"} /\ source = << >> /\ end /\ c.boundary

Engine(c, source, space, end) ==
    CASE c.name = "identity" -> StepIdentity(c, source, space, end)
      [] c.name \in {"gzip", "deflate"} -> StepDeflate(c, source, space, end)
      [] c.name = "br" -> StepBrotli(c, Pump(c.lib, source, 0, << >>, space), source, space, end)
      [] c.name = "zstd" ->
           StepZstd(c, Pump(IF c.boundary /\ source # << >> THEN NewLib ELSE c.lib, source, 0, << >>, space), source, space, end)
      [] c.name = "zstd-rs" -> StepZstdRs(c, source, space, end)

Limited(r, limit) ==
    IF r.how # "ok" THEN r
    ELSE IF Len(r.out) > limit - Smaller(limit, r.codec.total) THEN Corrupt(r.codec)
    ELSE [r EXCEPT !.codec.total = @ + Len(r.out), !.codec.done = r.finished]

StepOnce(c, source, space, end, limit) ==
    IF c.done THEN IF source # << >> THEN Corrupt(c) ELSE Stepped(c, 0, << >>, TRUE)
    ELSE IF space = 0 THEN Stepped(c, 0, << >>, FALSE)
    ELSE IF AtBoundary(c, source, end) THEN Stepped([c EXCEPT !.done = TRUE], 0, << >>, TRUE)
    ELSE Limited(Engine(c, source, space, end), limit)

\* run: steps until the body is over, the output is full or nothing moves.  The
\* slice behind more input than was given does not exist.
RECURSIVE Run(_, _, _, _, _)
RECURSIVE RunOn(_, _, _, _, _)
Run(c, source, space, end, limit) == RunOn(StepOnce(c, source, space, end, limit), source, space, end, limit)
Behind(r, next) == [next EXCEPT !.consumed = @ + r.consumed, !.out = r.out \o @]
RunOn(r, source, space, end, limit) ==
    IF r.how # "ok" \/ r.finished \/ Len(r.out) = space \/ (r.consumed = 0 /\ r.out = << >>) THEN r
    ELSE IF r.consumed > Len(source) THEN [r EXCEPT !.how = "panic"]
    ELSE Behind(r, Run(r.codec, From(source, r.consumed), space - Len(r.out), end, limit))

---------------------------------------------------------------------------
(* StreamingDecoder of compression.rs: the codings in the order in which   *)
(* they were applied; all but the first stage their output for the next.   *)

NewStreaming(names, limit) ==
    [codec |-> NewCodec(names[1]), limit |-> limit, failed |-> FALSE,
     outer |-> [i \in 1 .. Len(names) - 1 |-> [codec |-> NewCodec(names[Len(names) + 1 - i]), staged |-> << >>]]]

ResetStreaming(d, limit) ==
    [codec |-> ResetCodec(d.codec), limit |-> limit, failed |-> FALSE,
     outer |-> [i \in DOMAIN d.outer |-> [codec |-> ResetCodec(d.outer[i].codec), staged |-> << >>]]]

Moves(r) == r.consumed > 0 \/ r.out # << >>
Took(r, fed) == IF r.how = "ok" /\ r.consumed > Len(fed) THEN "panic" ELSE r.how

\* One coding of a pass decodes what the one before it staged.
StagePass(st, i, r, fed) ==
    [how |-> Took(r, fed), consumed |-> st.consumed + IF i = 1 THEN r.consumed ELSE 0, moved |-> st.moved \/ Moves(r),
     outer |-> [j \in DOMAIN st.outer |->
                  IF j = i THEN [codec |-> r.codec, staged |-> st.outer[i].staged \o r.out]
                  ELSE IF j = i - 1 THEN [st.outer[j] EXCEPT !.staged = From(@, r.consumed)] ELSE st.outer[j]]]

Pass(st, i, source, end, limit) ==
    LET stage == st.outer[i]
        fed == IF i = 1 THEN From(source, st.consumed) ELSE st.outer[i - 1].staged
        over == IF i = 1 THEN end ELSE st.outer[i - 1].codec.done
    IN  IF st.how # "ok" \/ Len(stage.staged) = StageBytes THEN st
        ELSE StagePass(st, i, Run(stage.codec, fed, StageBytes - Len(stage.staged), over, limit), fed)

Passed(d, source, consumed, end) ==
    FoldLeft(LAMBDA st, i : Pass(st, i, source, end, d.limit),
             [how |-> "ok", consumed |-> consumed, moved |-> FALSE, outer |-> d.outer], [i \in 1 .. Len(d.outer) |-> i])

Returned(how, d, consumed, out, finished) ==
    [how |-> how, decoder |-> [d EXCEPT !.failed = how # "ok"], consumed |-> consumed, out |-> out, finished |-> finished]

\* process_inner: passes until the body is over, the output is full or nothing
\* moves in any coding.
RECURSIVE Chain(_, _, _, _, _, _)
RECURSIVE AfterPass(_, _, _, _, _, _)
RECURSIVE AfterLast(_, _, _, _, _, _, _)
Chain(d, source, consumed, out, space, end) == AfterPass(d, Passed(d, source, consumed, end), source, out, space, end)
AfterPass(d, st, source, out, space, end) ==
    LET last == st.outer[Len(st.outer)]
    IN  IF st.how # "ok" THEN Returned(st.how, d, st.consumed, out, FALSE)
        ELSE AfterLast(d, st, Run(d.codec, last.staged, space - Len(out), last.codec.done, d.limit), source, out, space, end)
AfterLast(d, st, r, source, out, space, end) ==
    LET how == Took(r, st.outer[Len(st.outer)].staged)
        next == [d EXCEPT !.codec = r.codec, !.outer = [st.outer EXCEPT ![Len(st.outer)].staged = From(@, r.consumed)]]
    IN  IF how # "ok" THEN Returned(how, d, st.consumed, out, FALSE)
        ELSE IF r.finished \/ Len(out) + Len(r.out) = space \/ ~(st.moved \/ Moves(r))
        THEN Returned("ok", next, st.consumed, out \o r.out, r.finished)
        ELSE Chain(next, source, st.consumed, out \o r.out, space, end)

Single(d, r) == Returned(r.how, [d EXCEPT !.codec = r.codec], r.consumed, r.out, r.finished)

Process(d, source, space, end) ==
    IF d.failed THEN Returned("err", d, 0, << >>, FALSE)
    ELSE IF d.outer = << >> \/ d.codec.done THEN Single(d, Run(d.codec, source, space, end, d.limit))
    ELSE Chain(d, source, 0, << >>, space, end)

---------------------------------------------------------------------------
(* What is encoded: the format as its RFC defines it, byte by byte, on the *)
(* whole of what was decoded so far.                                       *)

\* n bytes, each a copy of the one `offset' bytes before it.
Copied(h, offset, n) == h \o [i \in 1 .. n |-> h[Len(h) - offset + 1 + ((i - 1) % offset)]]

\* The recent offsets, the latest first: one of the three, the latest less one, or
\* a new one.
Index(q) == IF q.of > 3 THEN 4 ELSE IF q.ll = 0 THEN q.of + 1 ELSE q.of
MeantOffset(q, recent) ==
    IF q.of > 3 THEN q.of - 3 ELSE IF Index(q) = 4 THEN recent[1] - 1 ELSE recent[Index(q)]
MoveToFront(i, offset, recent) == <<offset>> \o RemoveAt(recent, Smaller(i, 3))

MeantSequence(m, q, lits) ==
    LET offset == MeantOffset(q, m.recent)
    IN  [h |-> Copied(m.h \o SubSeq(lits, m.used + 1, m.used + q.ll), offset, q.ml), used |-> m.used + q.ll,
         recent |-> MoveToFront(Index(q), offset, m.recent)]

MeantBlock(m, b) ==
    CASE b.kind = "Raw" -> [m EXCEPT !.h = @ \o b.data]
      [] b.kind = "RLE" -> [m EXCEPT !.h = @ \o Times(b.byte, b.size)]
      [] b.kind = "Compressed" ->
           LET all == FoldLeft(LAMBDA x, q : MeantSequence(x, q, b.lits), [m EXCEPT !.used = 0], b.seqs)
           IN  [all EXCEPT !.h = @ \o From(b.lits, all.used)]

NoDictionary == [content |-> << >>, offsets |-> FirstOffsets]
DictOf(f) == IF f.dict = NoDict THEN NoDictionary ELSE Dictionaries[f.dict]
Meant(f) ==
    From(FoldLeft(MeantBlock, [h |-> DictOf(f).content, recent |-> DictOf(f).offsets, used |-> 0], f.blocks).h,
         Len(DictOf(f).content))

\* Frames one after the other, each with the checksum of its content.
Frames(fs) == FlattenSeq([i \in 1 .. Len(fs) |-> FrameBytes(fs[i], Meant(fs[i]))])
MeantBy(fs) == FlattenSeq([i \in 1 .. Len(fs) |-> Meant(fs[i])])
Skippable(n) == Times([at |-> "skip", length |-> n], HeaderLength) \o Times([at |-> "skipped"], n)

\* The other codings: codes of at most two bytes, the last one marked; a gzip
\* member has a header and a trailer.
CodesOf(s) ==
    [i \in 1 .. (Len(s) + 1) \div 2 |->
        [at |-> "code", bytes |-> SubSeq(s, 2 * i - 1, Smaller(2 * i, Len(s))), last |-> i = (Len(s) + 1) \div 2]]
Coded(name, s) ==
    CASE name = "identity" -> s
      [] name = "gzip" -> Times([at |-> "gzip"], HeaderLength) \o CodesOf(s) \o Times([at |-> "sum", sum |-> s], SumLength)
      [] name = "deflate" -> <<[at |-> "code", bytes |-> << >>, last |-> FALSE]>> \o CodesOf(s)
      [] name = "zstd-rs" ->
           Frames(<<[window |-> 2, dict |-> NoDict, summed |-> FALSE,
                     blocks |-> <<[kind |-> "Raw", data |-> s, last |-> TRUE]>>]>>)
      [] OTHER -> CodesOf(s)
CodedBy(names, s) == FoldLeft(LAMBDA x, name : Coded(name, x), s, names)

---------------------------------------------------------------------------
(* A host that decodes a body as it arrives.                               *)

NoStep == [how |-> "ok", finished |-> FALSE, needs |-> FALSE, end |-> FALSE, full |-> TRUE, given |-> 0, consumed |-> 0]

HostInit ==
    /\ body \in Bodies
    /\ decoder = NewStreaming(body.names, body.limit)
    /\ input = [held |-> << >>, coming |-> body.encoded]
    /\ output = << >> /\ step = NoStep

\* It holds on to the input that was not consumed, and reads from the transport
\* when the decoder says so, or early; what follows the end of a body is handed to
\* the decoder too.
Processed(r, held, space, end) ==
    /\ decoder' = r.decoder
    /\ input' = [held |-> From(held, r.consumed), coming |-> From(input.coming, Len(held) - Len(input.held))]
    /\ output' = output \o r.out
    /\ step' = [how |-> r.how, finished |-> r.finished, needs |-> r.how = "ok" /\ ~r.finished /\ Len(r.out) < space,
                end |-> end, full |-> Len(r.out) = space, given |-> Len(held), consumed |-> r.consumed]
Call(k, space, end) ==
    LET held == input.held \o Upto(input.coming, k)
    IN  /\ step.how = "ok"
        /\ step.finished => k > 0
        /\ step.needs => k > 0 \/ (end /\ ~step.end)
        /\ k <= Len(input.coming)
        /\ end => k = Len(input.coming)
        /\ step.end => end
        /\ Processed(Process(decoder, held, space, end), held, space, end)
        /\ UNCHANGED body

\* The decoder is used again, for another body with the same codings.
Reuse(next) ==
    /\ (step.finished /\ input.coming = << >>) \/ step.how = "err"
    /\ next \in Bodies /\ next.names = body.names /\ next.round = body.round + 1
    /\ body' = next
    /\ decoder' = ResetStreaming(decoder, next.limit)
    /\ input' = [held |-> << >>, coming |-> next.encoded]
    /\ output' = << >> /\ step' = NoStep

HostNext ==
    \/ \E k \in body.arrivals \cup {0}, space \in body.spaces, end \in BOOLEAN : Call(k, space, end)
    \/ \E next \in Bodies : Reuse(next)

---------------------------------------------------------------------------
(* The history alone: whatever the decoder may do to a DecodeBuffer, with  *)
(* `output' everything that was ever decoded into it.                      *)

HistoryInit ==
    /\ body \in Bodies
    /\ decoder = [(IF body.reused THEN ResetBuffer(NewBuffer(0), body.window) ELSE NewBuffer(body.window)) EXCEPT !.dict = body.dict]
    /\ input = 0 /\ output = << >> /\ step = "ok"

Fresh(n) == [i \in 1 .. n |-> Len(output) + i]
Decoded(buffer, data) == decoder' = buffer /\ output' = output \o data /\ UNCHANGED <<input, step, body>>

HistoryPush(n) == Decoded(Push(decoder, Fresh(n)), Fresh(n))
HistoryFill(n) == Decoded([decoder EXCEPT !.ring = ExtendAndFill(@, Len(output) + 1, n)], Times(Len(output) + 1, n))

\* A block of n bytes whose reader holds only some of them fails.
HistoryRead(n, has) ==
    /\ Decoded([decoder EXCEPT !.ring = ExtendFromReader(@, SubSeq(Fresh(n), 1, has), n)], IF has < n THEN << >> ELSE Fresh(n))

\* What a sequence may refer to: the window, and the dictionary until the window
\* is full.
History == decoder.dict \o output
Referable(offset) == offset <= Len(History) /\ (offset <= decoder.window \/ Len(output) <= decoder.window)

Repeated(r, data) ==
    /\ decoder' = r.buffer /\ output' = output \o (IF r.ok THEN data ELSE << >>)
    /\ step' = IF r.ok THEN "ok" ELSE "refused"
    /\ UNCHANGED <<input, body>>
HistoryRepeat(offset, n) ==
    Referable(offset) /\ Repeated(Repeat(decoder, offset, n), From(Copied(History, offset, n), Len(History)))

HistoryDrain(takes) == decoder' = DrainTo(decoder, CanDrainToWindow(decoder), takes) /\ UNCHANGED <<input, output, step, body>>

HistoryNext ==
    /\ step = "ok"
    /\ \/ \E n \in 1 .. MaxLength :
             /\ Len(output) + n <= MaxWhole
             /\ \/ HistoryPush(n) \/ HistoryFill(n)
                \/ \E has \in 0 .. n : HistoryRead(n, has)
                \/ \E offset \in 1 .. MaxOffset : HistoryRepeat(offset, n)
       \/ \E takes \in 1 .. MaxLength : HistoryDrain(takes)

---------------------------------------------------------------------------
(* The readers of the frame decoder: decode_blocks with its strategies,    *)
(* collect and collect_to_writer, StreamingDecoder::read and decode_all.   *)

ReadersInit ==
    /\ body \in Bodies
    /\ decoder = NewDecoder
    /\ input = [held |-> body.encoded, coming |-> << >>]
    /\ output = << >> /\ step = "ok"

Drains(buffer, out) == decoder' = [decoder EXCEPT !.buffer = buffer] /\ output' = output \o out /\ UNCHANGED <<input, step, body>>
Steps(r) == decoder' = r.fd /\ step' = r.how

\* Only decode_all passes over skippable frames.
OpenFrame ==
    /\ IsFinished(decoder) /\ CanCollect(decoder) = 0 /\ input.held # << >> /\ input.held[1].at # "skip"
    /\ Steps(FrameReset(decoder, input.held))
    /\ input' = [input EXCEPT !.held = From(@, HeaderLength)]
    /\ UNCHANGED <<output, body>>

\* decode_blocks: All, UptoBlocks or UptoBytes.
BlocksRead(r) == Steps(r) /\ input' = [input EXCEPT !.held = r.rest] /\ UNCHANGED <<output, body>>
ReadBlocks(blocks, bytes) ==
    /\ decoder.on /\ ~decoder.finished
    /\ BlocksRead(DecodeBlocks(decoder, input.held, blocks, Length(decoder.buffer.ring) + bytes))

Collect ==
    /\ decoder.on
    /\ IF IsFinished(decoder) THEN Drains(Drain(decoder.buffer), Content(decoder.buffer.ring))
       ELSE LET n == CanDrainToWindow(decoder.buffer)
            IN  Drains(DrainTo(decoder.buffer, n, n), Upto(Content(decoder.buffer.ring), n))

\* collect_to_writer, to a sink that takes only so much.
CollectTo(takes) ==
    LET n == IF IsFinished(decoder) THEN Length(decoder.buffer.ring) ELSE CanDrainToWindow(decoder.buffer)
    IN  /\ decoder.on
        /\ Drains(DrainTo(decoder.buffer, n, takes), Upto(Content(decoder.buffer.ring), Drained(decoder.buffer, n, takes)))

\* StreamingDecoder::read
StreamRead(r, n) ==
    /\ input' = [input EXCEPT !.held = r.rest] /\ step' = r.how
    /\ \/ r.how = "ok" /\ decoder' = FrameRead(r.fd, n) /\ output' = output \o ReadBytes(r.fd, n)
       \/ r.how # "ok" /\ decoder' = r.fd /\ UNCHANGED output
    /\ UNCHANGED body
ReadStream(n) ==
    /\ decoder.on /\ ~(IsFinished(decoder) /\ CanCollect(decoder) = 0)
    /\ StreamRead(FillFor(Good(decoder) @@ [rest |-> input.held], n), n)

AllRead(r) == Steps(r) /\ output' = r.out /\ input' = [input EXCEPT !.held = << >>] /\ UNCHANGED body
ReadAll(space) == ~decoder.on /\ AllRead(DecodeAll(decoder, input.held, << >>, space))

ReadersNext ==
    /\ step = "ok"
    /\ \/ OpenFrame \/ Collect
       \/ ReadBlocks(MaxWhole, MaxWhole)
       \/ \E n \in 1 .. 2 : ReadBlocks(n, MaxWhole) \/ ReadBlocks(MaxWhole, n)
       \/ \E n \in 1 .. MaxLength : CollectTo(n) \/ ReadStream(n)
       \/ ReadAll(MaxWhole)

---------------------------------------------------------------------------
\* Properties

\* The ring holds the end of what was decoded, the window at least, and the hash
\* has seen the rest, however pushes, fills, short reads, overlapping copies and
\* partial drains move, wrap and grow it; no reference into the window or the
\* dictionary is refused; and the two variants of extend_from_within agree.
HistoryIsKept ==
    LET r == decoder.ring
        kept == Length(r)
    IN  /\ step = "ok"
        /\ kept <= Len(output) /\ kept >= Smaller(decoder.window, Len(output))
        /\ Content(r) = From(output, Len(output) - kept)
        /\ decoder.hash = Upto(output, Len(output) - kept)
        /\ \A i \in 0 .. kept - 1 : Get(r, i) = Content(r)[i + 1]
        /\ \A start \in 0 .. kept, n \in 1 .. MaxLength :
              start + n <= kept /\ n <= Free(r) =>
                  Content(ExtendFromWithinBranchless(r, start, n)) = Content(ExtendFromWithinUnchecked(r, start, n))

\* However blocks are decoded and bytes are collected, what the readers return is
\* the beginning of what the frames mean, all of it at their end; and only frames
\* that are not intact fail.
ReadersReturnContent ==
    /\ IsPrefix(output, body.plain)
    /\ body.whole => step = "ok"
    /\ step = "ok" /\ IsFinished(decoder) /\ CanCollect(decoder) = 0 /\ input.held = << >> =>
          body.whole /\ output = body.plain

\* What a coding has staged fills its buffer, and the next one takes none of it.
StageIsFull == \E i \in DOMAIN decoder.outer : Len(decoder.outer[i].staged) = StageBytes

\* In whatever pieces a body arrives and its output is fetched, the chain decodes
\* it; it ends at its end and nowhere else, and a body that is cut or damaged or
\* exceeds its limit is never accepted.  Only a Zstandard block that is larger than
\* the stage before it leaves the body unfinished, with the stage full.
BodyIsDecoded ==
    /\ IsPrefix(output, body.plain) /\ Len(output) <= decoder.limit
    /\ step.finished /\ input.coming = << >> => body.whole /\ output = body.plain
    /\ body.whole => step.how = "ok" /\ (step.end /\ step.needs => StageIsFull)

\* A call that asks for input means it: until more comes nothing moves, in none of
\* the codings, whatever room the host makes.
ReasonIsTrue ==
    step.needs => LET r == Process(decoder, input.held, MaxLength, step.end) IN r.how = "ok" => ~Moves(r)

\* A call consumes no more than it was given.
ConsumesTheGiven == step.how # "panic" /\ step.consumed <= step.given
===============================================================================
