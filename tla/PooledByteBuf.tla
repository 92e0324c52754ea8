----------------------------- MODULE PooledByteBuf -----------------------------
(***************************************************************************)
(* One pooled buffer (buffer/PooledByteBuf, buffer/Buffer): reader and      *)
(* writer index over memory that grows.  Where the memory comes from is     *)
(* PoolArena's matter.  Nothing moves bytes within a buffer: its indices    *)
(* start over only when it is read empty.                                   *)
(***************************************************************************)
EXTENDS Integers, FiniteSetsExt, SequencesExt

CONSTANTS
    SizeClass,             \* sizes the pool hands out
    MinCapacity,           \* 64, the smallest capacity a buffer grows to
    CALCULATE_THRESHOLD,   \* growth doubles up to here, then goes by this step
    m_maxCapacity,
    ExtraBuf               \* sizeof(extrabuf)

ASSUME PooledByteBufAssumption ==
    /\ \E k \in 0 .. 20 : CALCULATE_THRESHOLD = MinCapacity * 2 ^ k
    /\ \A n \in 1 .. Max(SizeClass) : \E s \in SizeClass : s >= n
    /\ m_maxCapacity >= CALCULATE_THRESHOLD

CR == "CR"
LF == "LF"
Junk == "junk"   \* a byte nobody wrote

normalizeSize(n) == Min({s \in SizeClass : s >= n})

newBuffer(n) ==
    [m_readerIndex |-> 0, m_writerIndex |-> 0, m_length |-> n,
     m_maxLength |-> normalizeSize(n), memory |-> [i \in 1 .. normalizeSize(n) |-> Junk]]

readableBytes(b) == b.m_writerIndex - b.m_readerIndex
writableBytes(b) == b.m_length - b.m_writerIndex
peek(b) == SubSeq(b.memory, b.m_readerIndex + 1, b.m_writerIndex)

calculateNewCapacity(minNewCapacity) ==
    LET floor == (minNewCapacity \div CALCULATE_THRESHOLD) * CALCULATE_THRESHOLD
        doubled == {MinCapacity * 2 ^ k : k \in 0 .. 20}
    IN  IF minNewCapacity > CALCULATE_THRESHOLD
        THEN IF floor > m_maxCapacity - CALCULATE_THRESHOLD
             THEN m_maxCapacity
             ELSE floor + CALCULATE_THRESHOLD
        ELSE Min({m_maxCapacity, Min({c \in doubled : c >= minNewCapacity})})

\* Mutant: reallocate copies as many bytes as are readable.
capacityReadable(b, newCapacity) ==
    IF newCapacity <= b.m_maxLength
    THEN [b EXCEPT !.m_length = newCapacity]
    ELSE [b EXCEPT !.m_length = newCapacity,
                   !.m_maxLength = normalizeSize(newCapacity),
                   !.memory = [i \in 1 .. normalizeSize(newCapacity) |->
                                  IF i <= readableBytes(b) THEN b.memory[i] ELSE Junk]]

\* capacity(newCapacity) for growth, the only way it is called: within the memory
\* already held, or reallocate and its copy of the old capacity.
capacity(b, newCapacity) ==
    IF newCapacity <= b.m_maxLength
    THEN [b EXCEPT !.m_length = newCapacity]
    ELSE [b EXCEPT !.m_length = newCapacity,
                   !.m_maxLength = normalizeSize(newCapacity),
                   !.memory = [i \in 1 .. normalizeSize(newCapacity) |->
                                  IF i <= b.m_length THEN b.memory[i] ELSE Junk]]

ensureWritable(b, minWritableBytes) ==
    LET target == b.m_writerIndex + minWritableBytes
    IN  IF target > b.m_length THEN capacity(b, calculateNewCapacity(target)) ELSE b

setBytes(b, index, src) ==
    [b EXCEPT !.memory = [i \in DOMAIN @ |->
        IF i \in index + 1 .. index + Len(src) THEN src[i - index] ELSE @[i]]]

writeBytes(b, src) ==
    LET room == ensureWritable(b, Len(src))
    IN  [setBytes(room, room.m_writerIndex, src) EXCEPT !.m_writerIndex = @ + Len(src)]

retrieve(b, len) ==
    IF len < readableBytes(b)
    THEN [b EXCEPT !.m_readerIndex = @ + len]
    ELSE [b EXCEPT !.m_readerIndex = 0, !.m_writerIndex = 0]

\* The most one readFd takes: extrabuf is offered when it is larger than the room.
ReadLimit(b) ==
    writableBytes(b) + (IF writableBytes(b) < ExtraBuf THEN ExtraBuf ELSE 0)

\* readFd when readv fills in data.
readFd(b, data) ==
    LET room == writableBytes(b)
        filled == setBytes(b, b.m_writerIndex, SubSeq(data, 1, Min({room, Len(data)})))
    IN  IF Len(data) <= room
        THEN [filled EXCEPT !.m_writerIndex = @ + Len(data)]
        ELSE writeBytes([filled EXCEPT !.m_writerIndex = b.m_length],
                        SubSeq(data, room + 1, Len(data)))

\* Where the first CRLF starts, counted from peek(); 0 when there is none.
findCRLF(b) ==
    LET at == {i \in 1 .. readableBytes(b) - 1 : peek(b)[i] = CR /\ peek(b)[i + 1] = LF}
    IN  IF at = {} THEN 0 ELSE Min(at)
================================================================================
