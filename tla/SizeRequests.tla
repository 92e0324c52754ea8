------------------------------ MODULE SizeRequests ------------------------------
(***************************************************************************)
(* Size requests put to the allocator one at a time, and the reference      *)
(* definitions the formulas of SizeClasses are compared with.               *)
(***************************************************************************)
EXTENDS SizeClasses, PageTables

CONSTANT MaxSize      \* every size up to MaxSize is requested

VARIABLE size         \* the size of the request in progress, 0 when there is none

\* Beyond MaxSize only the sizes next to a class boundary are requested.
Requests ==
    1 .. MaxSize \cup {s \in {m_sizeIdx2sizeTab[i] + d : i \in SizeIdx, d \in {-1, 0, 1}} :
                          s >= 1 /\ s <= m_chunkSize}

Ask == size = 0 /\ size' \in Requests
Done == size # 0 /\ size' = 0

\* size2SizeIdx answers the smallest class that holds the request, by the lookup
\* table below lookupMaxSize and by the shift-and-mask formula above it, and 0 for
\* an empty request.
SmallestClassChosen ==
    LET i == size2SizeIdx(size)
    IN  /\ i \in SizeIdx
        /\ m_sizeIdx2sizeTab[i] >= size
        /\ i > 0 => m_sizeIdx2sizeTab[i - 1] < size

\* normalizeSize and size2SizeIdx agree on the capacity a request gets: a buffer is
\* freed (PoolChunk::free looks its subpage list up with size2SizeIdx of the
\* capacity) into the class it was allocated from.  The lookup branch also meets the
\* assertion of normalizeSize that compares it with normalizeSizeCompute, and the closed
\* formula sizeIdx2sizeCompute gives the capacity back from the index.
NormalizeAgrees ==
    LET n == normalizeSize(size)
    IN  /\ n = m_sizeIdx2sizeTab[size2SizeIdx(size)]
        /\ size2SizeIdx(n) = size2SizeIdx(size)
        /\ n = sizeIdx2sizeCompute(size2SizeIdx(size))
        /\ size > 0 => n = normalizeSizeCompute(size)

ChunkPages == m_chunkSize \div 2 ^ m_pageShifts

\* Reading the request as a number of pages: pages2pageIdx is the smallest page class
\* at least that large, pages2pageIdxFloor the largest one at most that large, and the
\* closed formula pageIdx2sizeCompute gives the size of the class.  The tables written
\* out in PageTables are these: the classes of up to 16 pages do not depend on the size
\* of the chunk.
PageClassesBracket ==
    size \in 1 .. ChunkPages =>
        LET up   == pages2pageIdx(size)
            down == pages2pageIdxFloor(size)
            bytes(i) == m_pageIdx2sizeTab[i] \div 2 ^ m_pageShifts
        IN  /\ bytes(up) >= size /\ (up > 0 => bytes(up - 1) < size)
            /\ pageIdx2sizeCompute(up) = m_pageIdx2sizeTab[up]
            /\ bytes(down) <= size /\ (down < m_nPSizes - 1 => bytes(down + 1) > size)
            /\ size <= SmallPages => /\ SmallPages2pageIdx[size] = up
                                     /\ SmallPages2pageIdxFloor[size] = down
            /\ size = SmallPages => SmallPSizes = up + 1

\* The run allocateSubpage asks for fits the chunk, is divided into its elements
\* without waste, in at most the 2^(pageShifts - 4) elements a subpage's bitmap has
\* bits for, and is a page class of its own, so that a free run of just that size is
\* found by runFirstBestFit.
SubpageRunsExact ==
    size \in 0 .. m_smallMaxSizeIdx =>
        LET k == calculateRunPages(size)
            bytes == k * 2 ^ m_pageShifts
        IN  /\ bytes <= m_chunkSize
            /\ bytes >= m_sizeIdx2sizeTab[size]
            /\ bytes % m_sizeIdx2sizeTab[size] = 0
            /\ bytes \div m_sizeIdx2sizeTab[size] <= 2 ^ (m_pageShifts - LOG2_QUANTUM)
            /\ pages2pageIdx(k) = pages2pageIdxFloor(k)
================================================================================
