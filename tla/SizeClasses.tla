------------------------------ MODULE SizeClasses ------------------------------
(***************************************************************************)
(* The size-class arithmetic of the pooled allocator (buffer/SizeClasses):  *)
(* the table the constructor builds, the lookup tables derived from it, and *)
(* the shift-and-mask formulas that map a size, or a number of pages, to    *)
(* the index of a class.  Sizes are bytes.  Shifts are written as products  *)
(* and quotients by powers of two, a mask of low bits as a remainder.       *)
(***************************************************************************)
EXTENDS Integers, Sequences, FiniteSetsExt

CONSTANTS
    m_pageShifts,     \* log2 of the page size
    m_chunkSize       \* bytes in a chunk

LOG2_QUANTUM == 4
LOG2_SIZE_CLASS_GROUP == 2
LOG2_MAX_LOOKUP_SIZE == 12

\* Number of classes per group, 1 << LOG2_SIZE_CLASS_GROUP.
GroupSize == 2 ^ LOG2_SIZE_CLASS_GROUP

\* MathUtil::log2 of a positive int: the position of its highest bit.
log2(val) == CHOOSE k \in 0 .. 29 : 2 ^ k <= val /\ val < 2 ^ (k + 1)

ASSUME SizeAssumption ==
    /\ m_pageShifts \in LOG2_QUANTUM .. 24
    /\ m_chunkSize \in Nat
    /\ m_chunkSize >= 2 ^ m_pageShifts

----------------------------------------------------------------------------
(* The table.  A row is the triple (log2Group, log2Delta, nDelta).          *)

\* The size of a row (the formula of sizeClass and idx2SizeTab).
rowSize(row) == 2 ^ row.log2Group + row.nDelta * 2 ^ row.log2Delta

\* The rows the constructor reserves room for.
MaxRows == (log2(m_chunkSize) + 1 - LOG2_QUANTUM) * GroupSize

\* Row i of the nested loops of sizeClasses: group 0 has nDelta 0..3; group g >= 1
\* has nDelta 1..4, and log2Group and log2Delta grow by one with each group.
rows ==
    [i \in 0 .. MaxRows - 1 |->
        LET g == i \div GroupSize
            n == i % GroupSize
        IN  IF g = 0
            THEN [log2Group |-> LOG2_QUANTUM, log2Delta |-> LOG2_QUANTUM, nDelta |-> n]
            ELSE [log2Group |-> LOG2_QUANTUM + LOG2_SIZE_CLASS_GROUP + g - 1,
                  log2Delta |-> LOG2_QUANTUM + g - 1, nDelta |-> n + 1]]

\* The loops stop at the first size that is not below the chunk size.
m_nSizes == 1 + Min({i \in GroupSize .. MaxRows - 1 : rowSize(rows[i]) >= m_chunkSize})

SizeIdx == 0 .. m_nSizes - 1

isMultiPageSize(row) ==
    \/ row.log2Delta >= m_pageShifts
    \/ rowSize(row) % 2 ^ m_pageShifts = 0

log2Ndelta(row) == IF row.nDelta = 0 THEN 0 ELSE log2(row.nDelta)

log2Size(row) ==
    IF row.log2Delta + log2Ndelta(row) = row.log2Group
    THEN row.log2Group + 1 ELSE row.log2Group

isSubpage(row) == log2Size(row) < m_pageShifts + LOG2_SIZE_CLASS_GROUP

\* The row has a log2DeltaLookup: its size is covered by size2idxTab.
isLookup(row) ==
    \/ log2Size(row) < LOG2_MAX_LOOKUP_SIZE
    \/ /\ log2Size(row) = LOG2_MAX_LOOKUP_SIZE
       /\ 2 ^ log2Ndelta(row) >= row.nDelta
       /\ log2Size(row) # row.log2Group

m_smallMaxSizeIdx == Max({i \in SizeIdx : isSubpage(rows[i])})
m_lookupMaxSize == rowSize(rows[Max({i \in SizeIdx : isLookup(rows[i])})])

\* idx2SizeTab: the sizes in order, and the sizes that are whole pages in order.
m_sizeIdx2sizeTab == [i \in SizeIdx |-> rowSize(rows[i])]
multiPageRows == SelectSeq([i \in 1 .. m_nSizes |-> rows[i - 1]], isMultiPageSize)
m_nPSizes == Len(multiPageRows)
m_pageIdx2sizeTab == [i \in 0 .. m_nPSizes - 1 |-> rowSize(multiPageRows[i + 1])]

\* size2idxTab: row i fills the next 2^(log2Delta - LOG2_QUANTUM) slots.
firstSlot ==
    LET slots(j) == 2 ^ (rows[j].log2Delta - LOG2_QUANTUM)
    IN  [i \in SizeIdx |-> MapThenSumSet(slots, 0 .. i - 1)]

m_size2idxTab ==
    [slot \in 0 .. m_lookupMaxSize \div 2 ^ LOG2_QUANTUM - 1 |->
        Max({i \in SizeIdx : firstSlot[i] <= slot})]

----------------------------------------------------------------------------
(* The formulas.                                                            *)

sizeIdx2sizeCompute(sizeIdx) ==
    LET group == sizeIdx \div GroupSize
        mod   == sizeIdx % GroupSize
        shift == IF group = 0 THEN 1 ELSE group
    IN  (IF group = 0 THEN 0
         ELSE 2 ^ (LOG2_QUANTUM + LOG2_SIZE_CLASS_GROUP - 1 + group))
        + (mod + 1) * 2 ^ (shift + LOG2_QUANTUM - 1)

pageIdx2sizeCompute(pageIdx) ==
    LET group == pageIdx \div GroupSize
        mod   == pageIdx % GroupSize
        shift == IF group = 0 THEN 1 ELSE group
    IN  (IF group = 0 THEN 0
         ELSE 2 ^ (m_pageShifts + LOG2_SIZE_CLASS_GROUP - 1 + group))
        + (mod + 1) * 2 ^ (shift + m_pageShifts - 1)

\* The part of size2SizeIdx below the lookup: group from the highest bit of
\* 2*size - 1, position in the group from the next two bits of size - 1.
size2SizeIdxCompute(size) ==
    LET x         == log2(2 * size - 1)
        first     == x < LOG2_SIZE_CLASS_GROUP + LOG2_QUANTUM + 1
        shift     == IF first THEN 0 ELSE x - (LOG2_SIZE_CLASS_GROUP + LOG2_QUANTUM)
        log2Delta == IF first THEN LOG2_QUANTUM ELSE x - LOG2_SIZE_CLASS_GROUP - 1
    IN  shift * GroupSize + (((size - 1) \div 2 ^ log2Delta) % GroupSize)

\* Mutant: the slot of size, not of size - 1.
size2SizeIdxOffByOne(size) ==
    IF size = 0 THEN 0
    ELSE IF size > m_chunkSize THEN m_nSizes
    ELSE IF size < m_lookupMaxSize
         THEN m_size2idxTab[size \div 2 ^ LOG2_QUANTUM]
    ELSE size2SizeIdxCompute(size)

size2SizeIdx(size) ==
    IF size = 0 THEN 0
    ELSE IF size > m_chunkSize THEN m_nSizes
    ELSE IF size <= m_lookupMaxSize
         THEN m_size2idxTab[(size - 1) \div 2 ^ LOG2_QUANTUM]
    ELSE size2SizeIdxCompute(size)

pages2pageIdxCompute(pages, floor) ==
    LET pageSize  == pages * 2 ^ m_pageShifts
        x         == log2(2 * pageSize - 1)
        shift     == IF x < LOG2_SIZE_CLASS_GROUP + m_pageShifts THEN 0
                     ELSE x - (LOG2_SIZE_CLASS_GROUP + m_pageShifts)
        log2Delta == IF x < LOG2_SIZE_CLASS_GROUP + m_pageShifts + 1 THEN m_pageShifts
                     ELSE x - LOG2_SIZE_CLASS_GROUP - 1
        pageIdx   == shift * GroupSize + (((pageSize - 1) \div 2 ^ log2Delta) % GroupSize)
    IN  IF pageSize > m_chunkSize THEN m_nPSizes
        ELSE IF floor /\ m_pageIdx2sizeTab[pageIdx] > pageSize THEN pageIdx - 1
        ELSE pageIdx

pages2pageIdx(pages) == pages2pageIdxCompute(pages, FALSE)
\* Mutant: not rounded down.
pages2pageIdxUp(pages) == pages2pageIdxCompute(pages, FALSE)

pages2pageIdxFloor(pages) == pages2pageIdxCompute(pages, TRUE)

\* Mutant: a whole delta is added before the low bits are cut off.
normalizeSizeUp(size) ==
    LET x         == log2(2 * size - 1)
        log2Delta == IF x < LOG2_SIZE_CLASS_GROUP + LOG2_QUANTUM + 1
                     THEN LOG2_QUANTUM ELSE x - LOG2_SIZE_CLASS_GROUP - 1
    IN  (size \div 2 ^ log2Delta + 1) * 2 ^ log2Delta

normalizeSizeCompute(size) ==
    LET x         == log2(2 * size - 1)
        log2Delta == IF x < LOG2_SIZE_CLASS_GROUP + LOG2_QUANTUM + 1
                     THEN LOG2_QUANTUM ELSE x - LOG2_SIZE_CLASS_GROUP - 1
        delta     == 2 ^ log2Delta
    IN  ((size + delta - 1) \div delta) * delta

normalizeSize(size) ==
    IF size = 0 THEN m_sizeIdx2sizeTab[0]
    ELSE IF size <= m_lookupMaxSize
         THEN m_sizeIdx2sizeTab[m_size2idxTab[(size - 1) \div 2 ^ LOG2_QUANTUM]]
    ELSE normalizeSizeCompute(size)

\* Mutant: every subpage is one page.
onePage(sizeIdx) == 1

\* PoolChunk::calculateRunSize, in pages: the first multiple of the page size that
\* the elements fill exactly or that holds maxElements of them, then back below
\* maxElements.
calculateRunPages(sizeIdx) ==
    LET maxElements  == 2 ^ (m_pageShifts - LOG2_QUANTUM)
        elemSize     == m_sizeIdx2sizeTab[sizeIdx]
        elements(k)  == (k * 2 ^ m_pageShifts) \div elemSize
        found(k)     == \/ elements(k) >= maxElements
                        \/ k * 2 ^ m_pageShifts = elements(k) * elemSize
        k0           == CHOOSE k \in 1 .. elemSize :
                            found(k) /\ \A j \in 1 .. k - 1 : ~found(j)
    IN  Max({k \in 1 .. k0 : elements(k) <= maxElements})
================================================================================
