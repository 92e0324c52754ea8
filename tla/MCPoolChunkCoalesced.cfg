CONSTANTS
    NPages <- SmallPages
    Request = {3, 4, 8}
    NPSizes <- SmallPSizes
    PageIdx <- SmallPages2pageIdx
    PageIdxFloor <- SmallPages2pageIdxFloor
    \* The allocator's own configuration: 8 KiB pages, 16 MiB chunks.
    m_pageShifts = 13
    m_chunkSize = 16777216
    MaxSize = 1
SPECIFICATION MCSpec
\* A failed assertion ends the process.
CHECK_DEADLOCK FALSE
INVARIANT Coalesced
