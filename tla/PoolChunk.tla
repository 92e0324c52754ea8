------------------------------- MODULE PoolChunk -------------------------------
(***************************************************************************)
(* The run allocator of a chunk (buffer/PoolChunk): a chunk of NPages pages *)
(* cut into runs.  m_runsAvail holds the free runs, one priority queue per  *)
(* page class; m_runsAvailMap finds a free run by its first or last page.   *)
(* Every operation runs under the arena's mutex, so the operations of a     *)
(* chunk do not interleave; the loops of collapsePast and collapseNext are  *)
(* steps of the operation in progress.                                      *)
(*                                                                         *)
(* A handle is abstracted to the run it denotes, its page offset and its    *)
(* number of pages.  The priority of a handle is its offset, the highest    *)
(* bits of the long.  Bytes are counted in pages.                           *)
(***************************************************************************)
EXTENDS Integers, FiniteSetsExt

CONSTANTS
    NPages,         \* m_chunkSize >> m_pageShifts
    NPSizes,        \* m_nPSizes, the number of page classes and the length of m_runsAvail
    PageIdx,        \* pages2pageIdx: class whose runs are searched for a number of pages
    PageIdxFloor,   \* pages2pageIdxFloor: class a free run of that many pages is filed under
    Request         \* the numbers of pages the arena asks for

\* What SizeClasses guarantees of the two functions (checked there for every number
\* of pages of the allocator's configuration): a run filed under a class from the
\* requested one upwards is large enough, and only the whole chunk is in the top
\* class.
ASSUME ClassAssumption ==
    /\ NPages \in Nat \ {0}
    /\ NPSizes \in Nat \ {0}
    /\ PageIdx \in [1 .. NPages -> 0 .. NPSizes - 1]
    /\ PageIdxFloor \in [1 .. NPages -> 0 .. NPSizes - 1]
    /\ \A need, have \in 1 .. NPages :
          PageIdx[need] <= PageIdxFloor[have] => need <= have
    /\ \A need, have \in 1 .. NPages :
          (PageIdx[need] = PageIdxFloor[need] /\ need <= have)
              => PageIdx[need] <= PageIdxFloor[have]
    /\ \A have \in 1 .. NPages :
          PageIdxFloor[have] = NPSizes - 1 <=> have = NPages
    /\ Request \subseteq 1 .. NPages

PageNo == 0 .. NPages - 1
Run == [offset : PageNo, pages : 1 .. NPages]
NoRun == [offset |-> -1, pages |-> 0]        \* the -1 of getAvailRunByOffset

VARIABLES
    m_runsAvail,      \* class -> set of free runs filed under it
    m_runsAvailMap,   \* page -> the free run that starts or ends there, or NoRun
    m_freeBytes,      \* free pages of the chunk
    used,             \* runs handed out and not given back: the callers' handles
    handle,           \* the run free() is collapsing, or NoRun
    freed,            \* pages of the run free() was called with
    pc,               \* "idle", or the loop of free() in progress
    aborted           \* an assertion of the allocator failed

vars == <<m_runsAvail, m_runsAvailMap, m_freeBytes, used, handle, freed, pc, aborted>>

----------------------------------------------------------------------------
lastPage(run) == run.offset + run.pages - 1
Pages(run) == run.offset .. lastPage(run)

\* unordered_map::insert: a key that is present keeps its value.
MapInsert(map, run) ==
    [p \in DOMAIN map |->
        IF p \in {run.offset, lastPage(run)} /\ map[p] = NoRun THEN run ELSE map[p]]

\* Mutant: only the first page's entry is erased.
MapEraseFirst(map, run) == [map EXCEPT ![run.offset] = NoRun]

MapErase(map, run) ==
    [p \in DOMAIN map |->
        IF p \in {run.offset, lastPage(run)} THEN NoRun ELSE map[p]]

QueueOffer(queues, run) ==
    [queues EXCEPT ![PageIdxFloor[run.pages]] = @ \cup {run}]

QueueRemove(queues, run) ==
    [queues EXCEPT ![PageIdxFloor[run.pages]] = @ \ {run}]

getAvailRunByOffset(page) == IF page \in PageNo THEN m_runsAvailMap[page] ELSE NoRun

----------------------------------------------------------------------------
WholeChunk == [offset |-> 0, pages |-> NPages]

\* The constructor files the whole chunk as one free run.
Init ==
    /\ m_runsAvail = QueueOffer([i \in 0 .. NPSizes - 1 |-> {}], WholeChunk)
    /\ m_runsAvailMap = MapInsert([p \in PageNo |-> NoRun], WholeChunk)
    /\ m_freeBytes = NPages
    /\ used = {}
    /\ handle = NoRun
    /\ freed = 0
    /\ pc = "idle"
    /\ aborted = FALSE

Idle == pc = "idle" /\ ~aborted

\* Mutant: the search starts one class too high.
searchFromNext(need) ==
    IF m_freeBytes = NPages
    THEN {NPSizes - 1}
    ELSE {i \in PageIdx[need] + 1 .. NPSizes - 1 :
             /\ m_runsAvail[i] # {}
             /\ \A j \in PageIdx[need] + 1 .. i - 1 : m_runsAvail[j] = {}}

\* The queues runFirstBestFit may return, empty when it answers -1: the top class
\* when the chunk counts as untouched, else the first non-empty one from the class
\* of the request upwards.
runFirstBestFit(need) ==
    IF m_freeBytes = NPages
    THEN {NPSizes - 1}
    ELSE {i \in PageIdx[need] .. NPSizes - 1 :
             /\ m_runsAvail[i] # {}
             /\ \A j \in PageIdx[need] .. i - 1 : m_runsAvail[j] = {}}

\* poll(): the run with the smallest offset.
IsFirst(run, queue) == run \in queue /\ \A r \in queue : run.offset <= r.offset

\* What splitLargeRun keeps free of a run it takes `need' pages from.
Remainder(run, need) == [offset |-> run.offset + need, pages |-> run.pages - need]

\* allocateRun when a queue with a run is found: poll it, drop it from the map, file
\* the remainder, hand the front out.
allocateRun(need) ==
    /\ Idle
    /\ \E i \in runFirstBestFit(need) : \E run \in m_runsAvail[i] :
          /\ IsFirst(run, m_runsAvail[i])
          /\ need <= run.pages
          /\ LET queues == [m_runsAvail EXCEPT ![i] = @ \ {run}]
                 map    == MapErase(m_runsAvailMap, run)
                 rest   == Remainder(run, need)
             IN  IF rest.pages > 0
                 THEN /\ m_runsAvail' = QueueOffer(queues, rest)
                      /\ m_runsAvailMap' = MapInsert(map, rest)
                 ELSE /\ m_runsAvail' = queues
                      /\ m_runsAvailMap' = map
          /\ used' = used \cup {[offset |-> run.offset, pages |-> need]}
          /\ m_freeBytes' = m_freeBytes - need
    /\ UNCHANGED <<handle, freed, pc, aborted>>

\* The assertions of allocateRun and splitLargeRun: the queue found holds a run, and
\* the run is large enough.
allocateRunAborts(need) ==
    /\ Idle
    /\ \E i \in runFirstBestFit(need) :
          \/ m_runsAvail[i] = {}
          \/ \E run \in m_runsAvail[i] : IsFirst(run, m_runsAvail[i]) /\ need > run.pages
    /\ aborted' = TRUE
    /\ UNCHANGED <<m_runsAvail, m_runsAvailMap, m_freeBytes, used, handle, freed, pc>>

\* free() of a run: enter collapseRuns with its handle.
free(run) ==
    /\ Idle
    /\ run \in used
    /\ used' = used \ {run}
    /\ handle' = run
    /\ freed' = run.pages
    /\ pc' = "collapsePast"
    /\ UNCHANGED <<m_runsAvail, m_runsAvailMap, m_freeBytes, aborted>>

\* removeAvailRun of a neighbour, and the handle that covers both.
Merge(run, offset) ==
    /\ m_runsAvail' = QueueRemove(m_runsAvail, run)
    /\ m_runsAvailMap' = MapErase(m_runsAvailMap, run)
    /\ handle' = [offset |-> offset, pages |-> run.pages + handle.pages]
    /\ UNCHANGED <<m_freeBytes, used, freed, pc, aborted>>

\* The run before the handle is free and ends where the handle starts.
CanMergePast(pastRun) ==
    pastRun # NoRun /\ pastRun.offset + pastRun.pages = handle.offset

\* The test of collapseNext.  nextOffset is computed with calculateRunPages, so the
\* run is merged only when its number of pages equals the offset it starts at.
CanMergeNext(nextRun) ==
    LET nextOffset == nextRun.pages
    IN  nextRun # NoRun /\ handle.offset + handle.pages = nextOffset

collapsePast ==
    /\ pc = "collapsePast"
    /\ LET pastRun == getAvailRunByOffset(handle.offset - 1)
       IN  \/ CanMergePast(pastRun) /\ Merge(pastRun, pastRun.offset)
           \/ /\ ~CanMergePast(pastRun)
              /\ pc' = "collapseNext"
              /\ UNCHANGED <<m_runsAvail, m_runsAvailMap, m_freeBytes, used, handle,
                             freed, aborted>>

\* Mutant: the bytes of the collapsed run are counted.
FileRunCountsAll ==
    /\ m_runsAvail' = QueueOffer(m_runsAvail, handle)
    /\ m_runsAvailMap' = MapInsert(m_runsAvailMap, handle)
    /\ m_freeBytes' = m_freeBytes + handle.pages
    /\ handle' = NoRun
    /\ freed' = 0
    /\ pc' = "idle"
    /\ UNCHANGED <<used, aborted>>

\* The last part of free(): insertAvailRun of the collapsed run; the bytes of the run
\* free() was called with are free again.
FileRun ==
    /\ m_runsAvail' = QueueOffer(m_runsAvail, handle)
    /\ m_runsAvailMap' = MapInsert(m_runsAvailMap, handle)
    /\ m_freeBytes' = m_freeBytes + freed
    /\ handle' = NoRun
    /\ freed' = 0
    /\ pc' = "idle"
    /\ UNCHANGED <<used, aborted>>

collapseNext ==
    /\ pc = "collapseNext"
    /\ LET nextRun == getAvailRunByOffset(handle.offset + handle.pages)
       IN  \/ CanMergeNext(nextRun) /\ Merge(nextRun, handle.offset)
           \/ ~CanMergeNext(nextRun) /\ FileRun

Next ==
    \/ \E need \in Request : allocateRun(need) \/ allocateRunAborts(need)
    \/ \E run \in used : free(run)
    \/ collapsePast
    \/ collapseNext

Spec == Init /\ [][Next]_vars

----------------------------------------------------------------------------
\* The free runs the queues hold.
Runs(queues) == UNION {queues[i] : i \in 0 .. NPSizes - 1}
Avail == Runs(m_runsAvail)

\* The run free() is collapsing is neither free nor handed out.
Current == IF handle = NoRun THEN {} ELSE {handle}

TypeOK ==
    /\ m_runsAvail \in [0 .. NPSizes - 1 -> SUBSET Run]
    /\ m_runsAvailMap \in [PageNo -> Run \cup {NoRun}]
    /\ m_freeBytes \in Int
    /\ used \subseteq Run
    /\ handle \in Run \cup {NoRun}
    /\ freed \in 0 .. NPages
    /\ pc \in {"idle", "collapsePast", "collapseNext"}
    /\ aborted \in BOOLEAN
    /\ pc = "idle" <=> handle = NoRun

\* Two runs handed out by allocateRun never share a page, lie inside the chunk, and
\* never share a page with a free run, after any sequence of allocations, splits,
\* frees and merges.
NoOverlap ==
    /\ \A r \in used : lastPage(r) < NPages
    /\ \A r, s \in used : r # s => Pages(r) \cap Pages(s) = {}
    /\ \A r \in used, s \in Avail : Pages(r) \cap Pages(s) = {}

\* The runs of S cut the chunk: every page is in exactly one of them.
Tiles(S) ==
    /\ \A p \in PageNo : \E r \in S : p \in Pages(r)
    /\ \A r \in S : lastPage(r) < NPages
    /\ \A r, s \in S : r # s => Pages(r) \cap Pages(s) = {}

\* Every page of the chunk belongs to exactly one run, handed out, free or being
\* freed: no page is lost by a split or a merge.
Tiling ==
    /\ Tiles(Avail \cup used \cup Current)
    /\ Avail \cap used = {}
    /\ handle \notin Avail \cup used

\* The queues and the map describe the same free runs: each is filed under its class
\* and is found by its first and its last page, and the map has no other entry.
Indexed(queues, map) ==
    /\ \A i \in 0 .. NPSizes - 1 : \A r \in queues[i] :
          /\ PageIdxFloor[r.pages] = i
          /\ map[r.offset] = r
          /\ map[lastPage(r)] = r
    /\ \A p \in PageNo :
          map[p] # NoRun =>
              /\ map[p] \in Runs(queues)
              /\ p \in {map[p].offset, lastPage(map[p])}

\* m_runsAvail and m_runsAvailMap never disagree.
IndexesAgree == Indexed(m_runsAvail, m_runsAvailMap)

\* The inductive invariant.
ChunkInv == TypeOK /\ Tiling /\ IndexesAgree

\* The pages of the chunk that no run of S covers.
Uncovered(S) == {p \in PageNo : \A r \in S : p \notin Pages(r)}

\* m_freeBytes counts the pages that no run handed out covers, less those of the run
\* free() has taken back and not yet filed: a split or a merge, which removes and files
\* runs of other sizes than the one freed, neither loses a page nor counts one twice.
FreeBytesExact == m_freeBytes + freed = Cardinality(Uncovered(used))

\* When runFirstBestFit answers -1 for a request of a class size, no free run is large
\* enough: a fit is never overlooked.
FailsOnlyWithoutFit ==
    \A need \in Request :
        (PageIdx[need] = PageIdxFloor[need] /\ runFirstBestFit(need) = {})
            => \A r \in Avail : r.pages < need

\* The loop of collapsePast misses no neighbour: when it ends, the run that is filed
\* has no free run just before it.
PastMerged ==
    pc = "collapseNext" =>
        \A r \in Avail : lastPage(r) + 1 # handle.offset

\* "释放run时，会查找该run前后是否有可合并空闲run，会合并成更大的run再释放"
\* (buffer/README.md): when no free() is in progress, no two free runs are adjacent.
Coalesced ==
    pc = "idle" => \A r, s \in Avail : lastPage(r) + 1 # s.offset

\* assert(!queue->isEmpty()) in allocateRun, assert(needPages <= totalPages) in
\* splitLargeRun: neither ever fails.
NeverAborts == ~aborted
================================================================================
