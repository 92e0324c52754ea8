------------------------------- MODULE PoolArena -------------------------------
(***************************************************************************)
(* One arena shared by several threads (buffer/PoolArena), each with its    *)
(* PoolThreadCache: buffers are taken from the cache, from the ring of      *)
(* subpages of a small size, or from the chunk lists, grown, and released.  *)
(*                                                                         *)
(* Locks.  The arena's m_mtx covers the chunks and their lists, the mutex   *)
(* of a ring head the ring and its subpages; a section under one of them    *)
(* is one step.  The section under m_mtx takes the head's mutex inside, and *)
(* what it does outside it touches nothing a ring section reads.  A cache   *)
(* is its thread's own, so its accesses join the next step.                 *)
(*                                                                         *)
(* Where a run lies in its chunk is PoolChunk's business: here a run is the *)
(* lowest free number, a chunk in use may fail to find one, and a chunk     *)
(* that was in use and is wholly free again may fail PoolChunk's assertion  *)
(* that it is one run.  Sizes are size classes, m_freeBytes is in pages.    *)
(***************************************************************************)
EXTENDS PoolSubpage, PoolChunkList, Sequences

CONSTANTS
    Thread, Chunk, Buf,
    Small,       \* size classes served by subpages
    Cached,      \* size classes for which a thread cache has a MemoryRegionCache
    RunPages,    \* size class -> pages of its run (calculateRunSize)
    Elems,       \* small size class -> elements of a subpage
    CacheSize,   \* m_size of a MemoryRegionCache
    m_freeSweepAllocationThreshold,
    MaxCalls     \* calls all threads make together (a bound)

SizeIdx == DOMAIN RunPages

ASSUME ArenaAssumption ==
    /\ RunPages \in [SizeIdx -> 1 .. ChunkPages]
    /\ SizeIdx \subseteq Nat \ {0} /\ Chunk \subseteq Nat \ {0} /\ 0 \notin Buf
    /\ Small \subseteq SizeIdx /\ Cached \subseteq SizeIdx
    /\ Elems \in [Small -> Nat \ {0}]
    /\ CacheSize \in Nat /\ m_freeSweepAllocationThreshold \in Nat \ {0}

RunNo == 1 .. ChunkPages

\* A handle: chunk, run, size class, and the element of a subpage or -1.
Handle == [chunk : Chunk, run : RunNo, sizeIdx : SizeIdx, elem : Int]
NoHandle == [chunk |-> 0, run |-> 0, sizeIdx |-> 0, elem |-> -1]
NoSubpage == [sizeIdx |-> 0, max |-> 0, bits |-> {}, m_nextAvail |-> -1]

VARIABLES
    live,           \* chunks allocated and not deleted
    lists,          \* list -> its chunks from m_head on
    m_parent,       \* chunk -> the list it was added to last
    m_freeBytes,    \* chunk -> its pages that are not handed out
    runs,           \* chunk -> run -> the size class it is handed out for, 0 if it is free
    m_subpages,     \* chunk -> run -> the subpage on it
    ring,           \* small size class -> the <<chunk, run>> of its subpages, head->next first
    cache,          \* thread -> cached size class -> m_queue
    hits,           \* thread -> cached size class -> MemoryRegionCache::m_allocations, as far as
                    \* trim tells it apart: up to CacheSize
    m_allocations,  \* thread -> PoolThreadCache::m_allocations
    buf,            \* buffer -> its handle
    m_cache,        \* buffer -> the thread whose cache it goes back to
    local,          \* thread -> the call it is in
    calls,          \* calls still to be made
    aborted,        \* assert(!queue->isEmpty()) of PoolChunk::allocateRun failed
    failed          \* another assertion failed

chunkVars == <<live, lists, m_parent, m_freeBytes, runs, m_subpages, ring>>
cacheVars == <<cache, hits, m_allocations>>
bufVars == <<buf, m_cache>>
vars == <<chunkVars, cacheVars, bufVars, local, calls, aborted, failed>>

Idle == [pc |-> "idle", then |-> "idle", b |-> 0, sizeIdx |-> 0, old |-> NoHandle,
         quota |-> [c \in Cached |-> 0], back |-> "idle", dead |-> 0]

Init ==
    /\ live = {}
    /\ lists = [q \in List |-> <<>>]
    /\ m_parent = [k \in Chunk |-> 0]
    /\ m_freeBytes = [k \in Chunk |-> ChunkPages]
    /\ runs = [k \in Chunk |-> [r \in RunNo |-> 0]]
    /\ m_subpages = [k \in Chunk |-> [r \in RunNo |-> NoSubpage]]
    /\ ring = [c \in Small |-> <<>>]
    /\ cache = [t \in Thread |-> [c \in Cached |-> <<>>]]
    /\ hits = [t \in Thread |-> [c \in Cached |-> 0]]
    /\ m_allocations = [t \in Thread |-> 0]
    /\ buf = [b \in Buf |-> NoHandle]
    /\ m_cache = [b \in Buf |-> 0]
    /\ local = [t \in Thread |-> Idle]
    /\ calls = MaxCalls
    /\ aborted = FALSE /\ failed = FALSE

\* Thread t makes a call, or takes a step of the one it is in.
Call(t) ==
    /\ local[t].pc = "idle" /\ ~aborted /\ ~failed
    /\ calls > 0 /\ calls' = calls - 1
    /\ UNCHANGED aborted

At(t, pc) == local[t].pc = pc /\ ~aborted /\ ~failed /\ UNCHANGED <<calls, aborted>>
Asserts(ok) == failed' = ~ok

\* PoolThreadCache::add of handle h: whether there is a MemoryRegionCache for its size, and
\* the caches q once it has queued the entry, whatever its length.
Cacheable(h) == h.sizeIdx \in Cached
cacheAdd(q, t, h) == [q EXCEPT ![t][h.sizeIdx] = Append(@, h)]

\* The step of t ends with caches q and the call in state l.  What follows without a
\* lock joins it: a release that the cache takes, and the return.
Settle(t, q, l) ==
    LET released == l.pc = "release" /\ Cacheable(l.old)
        returned == l.pc = "release" /\ l.old = NoHandle
    IN  /\ cache' = IF released THEN cacheAdd(q, t, l.old) ELSE q
        /\ local' = [local EXCEPT ![t] = IF released \/ returned THEN Idle ELSE l]

----------------------------------------------------------------------------
(* Chunks and lists: what happens under the arena's mutex.                  *)

\* A linked list s without its element e.
unlink(s, e) ==
    LET i == CHOOSE k \in DOMAIN s : s[k] = e
    IN  IF e \in Range(s) THEN [j \in 1 .. Len(s) - 1 |-> IF j < i THEN s[j] ELSE s[j + 1]]
                          ELSE s

\* add0 of chunk k to list q, out of list `from'; 0 is no list.
Relist(k, from, q) ==
    /\ lists' = [p \in List |->
           LET rest == IF p = from THEN unlink(lists[p], k) ELSE lists[p]
           IN  IF p = q THEN <<k>> \o rest ELSE rest]
    /\ m_parent' = [m_parent EXCEPT ![k] = q]

\* The lists allocateNormal asks, in its order.
Asked == <<q050, q025, q000, qInit, q075>>

\* normCapacity > m_maxCapacity; elements of subpages fit everywhere.
Fits(c, q) == c \in Small \/ RunPages[c] <= m_maxCapacity(q)

\* The chunks PoolChunkList::allocate tries before the j-th of the i-th list asked.
Before(i, j, c) ==
    UNION {Range(lists[Asked[p]]) : p \in {p \in 1 .. i - 1 : Fits(c, Asked[p])}}
        \cup {lists[Asked[i]][p] : p \in 1 .. j - 1}

\* runFirstBestFit takes a chunk without used pages for one run and looks in the last
\* queue only: allocate serves, or finds that queue empty, and does not return false.
WhollyFree(k) == m_freeBytes[k] = ChunkPages

\* A subpage on run r of chunk k enters the ring and gives its first element; a subpage
\* of one element is full and leaves again.
allocateSubpage(k, r, c) ==
    /\ m_subpages' = [m_subpages EXCEPT ![k][r] = allocateElem(newSubpage(c, Elems[c]))]
    /\ ring' = [ring EXCEPT ![c] = IF Elems[c] = 1 THEN @ ELSE <<<<k, r>>>> \o @]
    /\ Asserts(m_subpages[k][r] = NoSubpage)

\* PoolChunk::allocate: a run, and for a small size a subpage on it.
chunkAllocate(t, k, c) ==
    LET r == Min({n \in RunNo : runs[k][n] = 0})
    IN  /\ m_freeBytes[k] >= RunPages[c]
        /\ m_freeBytes' = [m_freeBytes EXCEPT ![k] = @ - RunPages[c]]
        /\ runs' = [runs EXCEPT ![k][r] = c]
        /\ IF c \in Small THEN allocateSubpage(k, r, c) ELSE UNCHANGED <<m_subpages, ring, failed>>
        /\ buf' = [buf EXCEPT ![local[t].b] =
               [chunk |-> k, run |-> r, sizeIdx |-> c, elem |-> IF c \in Small THEN 0 ELSE -1]]

\* allocateNormal, a chunk of the lists serves: the first that succeeds.  A chunk the
\* allocation filled past its list moves up.
allocateInLists(t) ==
    LET c == local[t].sizeIdx
    IN  /\ At(t, "normal")
        /\ \E i \in 1 .. 5 : \E j \in DOMAIN lists[Asked[i]] :
              LET q == Asked[i]
                  k == lists[q][j]
              IN  /\ Fits(c, q)
                  /\ \A p \in Before(i, j, c) : ~WhollyFree(p)
                  /\ chunkAllocate(t, k, c)
                  /\ IF m_freeBytes'[k] <= freeMinThreshold(q)
                     THEN Relist(k, q, add(q + 1, m_freeBytes'[k]))
                     ELSE UNCHANGED <<lists, m_parent>>
        /\ m_cache' = [m_cache EXCEPT ![local[t].b] = t]
        /\ Settle(t, cache, [local[t] EXCEPT !.pc = "release"])
        /\ UNCHANGED <<live, hits, m_allocations>>

\* allocateNormal, a chunk of the lists is wholly free again in more than one run, which
\* PoolChunk::free may leave (the run pool_chunk_abort): the assertion on the last
\* queue fails.
allocateAborts(t) ==
    /\ local[t].pc = "normal" /\ ~aborted /\ ~failed
    /\ \E i \in 1 .. 5 : \E j \in DOMAIN lists[Asked[i]] :
          /\ Fits(local[t].sizeIdx, Asked[i])
          /\ \A p \in Before(i, j, local[t].sizeIdx) : ~WhollyFree(p)
          /\ WhollyFree(lists[Asked[i]][j])
    /\ aborted' = TRUE
    /\ UNCHANGED <<chunkVars, cacheVars, bufVars, local, calls, failed>>

\* allocateNormal, no chunk of the lists serves: a new one does, and enters at qInit.
allocateInNewChunk(t) ==
    LET c == local[t].sizeIdx
    IN  /\ At(t, "normal")
        /\ \A p \in Before(5, 1 + Len(lists[q075]), c) : ~WhollyFree(p)
        /\ live # Chunk
        /\ LET k == Min(Chunk \ live)
           IN  /\ live' = live \cup {k}
               /\ chunkAllocate(t, k, c)
               /\ Relist(k, 0, add(qInit, m_freeBytes'[k]))
        /\ m_cache' = [m_cache EXCEPT ![local[t].b] = t]
        /\ Settle(t, cache, [local[t] EXCEPT !.pc = "release"])
        /\ UNCHANGED <<hits, m_allocations>>

\* Mutant: a subpage that becomes free is destroyed but stays in the ring.
subpageFreeInRing(h) ==
    LET sub  == freeElem(m_subpages[h.chunk][h.run], h.elem)
        full == m_numAvail(m_subpages[h.chunk][h.run]) = 0
        in   == IF full THEN <<<<h.chunk, h.run>>>> \o ring[h.sizeIdx] ELSE ring[h.sizeIdx]
        keep == (full /\ sub.max > 1) \/ m_numAvail(sub) # sub.max
    IN  [keep |-> keep, sub |-> IF keep THEN sub ELSE NoSubpage, ring |-> in]

\* Mutant: a full subpage that gets an element back does not return to the ring.
subpageFreeForgotten(h) ==
    LET sub  == freeElem(m_subpages[h.chunk][h.run], h.elem)
        keep == m_numAvail(sub) # sub.max
    IN  [keep |-> keep,
         sub  |-> IF keep THEN sub ELSE NoSubpage,
         ring |-> IF keep THEN ring[h.sizeIdx] ELSE unlink(ring[h.sizeIdx], <<h.chunk, h.run>>)]

\* PoolSubpage::free under the head's mutex.  Out: whether the run stays in use, the
\* subpage, the ring.
subpageFree(h) ==
    LET sub  == freeElem(m_subpages[h.chunk][h.run], h.elem)
        at   == <<h.chunk, h.run>>
        full == m_numAvail(m_subpages[h.chunk][h.run]) = 0
        in   == IF full THEN <<at>> \o ring[h.sizeIdx] ELSE ring[h.sizeIdx]
        keep == \/ full /\ sub.max > 1
                \/ m_numAvail(sub) # sub.max
                \/ Len(in) = 1
    IN  [keep |-> keep,
         sub  |-> IF keep THEN sub ELSE NoSubpage,
         ring |-> IF keep THEN in ELSE unlink(in, at)]

\* assert(subpage != nullptr && subpage->m_doNotDestroy) and the assertion that the
\* bit is set, on a handle of a small size.
HandleOK(h) ==
    h.elem >= 0 =>
        LET sub == m_subpages[h.chunk][h.run]
        IN  sub.sizeIdx = h.sizeIdx /\ h.elem \in sub.bits

\* PoolChunkList::free: list q lets go of a chunk with so many free pages.
Leaves(q, free) == free > freeMaxThreshold(q)

\* freeChunk: PoolChunk::free, then PoolChunkList::free, which moves a chunk the free
\* emptied past its list down.  A chunk below the last list is deleted once the mutex
\* is released.  The thread goes on with caches `queues' in state `cont'.
freeChunk(t, h, queues, cont) ==
    LET k    == h.chunk
        q    == m_parent[k]
        f    == subpageFree(h)
        keep == h.elem >= 0 /\ f.keep
        left == m_freeBytes[k] + (IF keep THEN 0 ELSE RunPages[h.sizeIdx])
    IN  /\ IF h.elem >= 0
           THEN /\ m_subpages' = [m_subpages EXCEPT ![k][h.run] = f.sub]
                /\ ring' = [ring EXCEPT ![h.sizeIdx] = f.ring]
           ELSE UNCHANGED <<m_subpages, ring>>
        /\ runs' = IF keep THEN runs ELSE [runs EXCEPT ![k][h.run] = 0]
        /\ m_freeBytes' = [m_freeBytes EXCEPT ![k] = left]
        /\ IF Leaves(q, left)
           THEN Relist(k, q, move0(q, left))
           ELSE UNCHANGED <<lists, m_parent>>
        /\ Asserts(HandleOK(h) /\ (Leaves(q, left) => MoveOK(q, left)))
        /\ Settle(t, queues,
               IF Leaves(q, left) /\ move0(q, left) = 0
               THEN [cont EXCEPT !.pc = "destroy", !.back = cont.pc, !.dead = k]
               ELSE cont)
        /\ UNCHANGED live

\* destroyChunk, outside the mutex.
destroyChunk(t) ==
    LET k == local[t].dead
    IN  /\ At(t, "destroy")
        /\ live' = live \ {k}
        /\ m_freeBytes' = [m_freeBytes EXCEPT ![k] = ChunkPages]
        /\ runs' = [runs EXCEPT ![k] = [r \in RunNo |-> 0]]
        /\ m_subpages' = [m_subpages EXCEPT ![k] = [r \in RunNo |-> NoSubpage]]
        /\ Settle(t, cache, [local[t] EXCEPT !.pc = local[t].back, !.back = "idle", !.dead = 0])
        /\ UNCHANGED <<lists, m_parent, ring, hits, m_allocations, bufVars, failed>>

----------------------------------------------------------------------------
(* A thread's calls.                                                        *)

\* Where PoolArena::allocate goes when the cache has nothing.
Miss(c) == IF c \in Small THEN "ring" ELSE "normal"

\* MemoryRegionCache::allocate counts its allocations, and trim frees the entries of a
\* queue that had fewer than its size.
counted(t, c) == [hits[t] EXCEPT ![c] = Min({@ + 1, CacheSize})]
toFreeNum(used) == [c \in Cached |-> CacheSize - used[c]]

\* PoolThreadCache::allocate on thread t for buffer b, whose handle until now is old:
\* the oldest entry of the size's queue, if there is one; every
\* m_freeSweepAllocationThreshold-th call trims before the allocation goes on.
cacheAllocate(t, b, c, old) ==
    LET hit   == c \in Cached /\ cache[t][c] # <<>>
        h     == Head(cache[t][c])
        used  == IF hit THEN counted(t, c) ELSE hits[t]
        sweep == c \in Cached /\ m_allocations[t] + 1 >= m_freeSweepAllocationThreshold
        then  == IF hit THEN "release" ELSE Miss(c)
    IN  /\ buf' = [buf EXCEPT ![b] = IF hit THEN h ELSE NoHandle]
        /\ m_cache' = [m_cache EXCEPT ![b] = t]
        /\ hits' = [hits EXCEPT ![t] = IF sweep THEN [x \in Cached |-> 0] ELSE used]
        /\ m_allocations' = [m_allocations EXCEPT ![t] =
               IF c \notin Cached THEN @ ELSE IF sweep THEN 0 ELSE @ + 1]
        /\ Settle(t, IF hit THEN [cache EXCEPT ![t][c] = Tail(@)] ELSE cache,
               [Idle EXCEPT !.pc = IF sweep THEN "trim" ELSE then, !.then = then,
                            !.b = b, !.sizeIdx = c, !.old = old,
                            !.quota = IF sweep THEN toFreeNum(used) ELSE Idle.quota])
        /\ Asserts(hit => HandleOK(h))
        /\ UNCHANGED chunkVars

Untouched(b) == \A t \in Thread : local[t].b # b

\* PooledByteBufAllocator::buffer
buffer(t, b, c) ==
    /\ Call(t)
    /\ buf[b] = NoHandle /\ Untouched(b)
    /\ cacheAllocate(t, b, c, NoHandle)

\* A buffer is used by one thread at a time, and one whose memory is cached on release
\* by the thread that allocated it.
MayUse(t, b) ==
    /\ buf[b] # NoHandle /\ Untouched(b)
    /\ buf[b].sizeIdx \in Cached => m_cache[b] = t

\* reallocate, which only ensureWritable calls, to grow: the new memory first, the old
\* is released afterwards.
reallocate(t, b, c) ==
    /\ Call(t)
    /\ MayUse(t, b)
    /\ c > buf[b].sizeIdx
    /\ cacheAllocate(t, b, c, buf[b])

\* Mutant: m_handle is not reset.
deallocateKept(t, b) ==
    /\ Call(t)
    /\ MayUse(t, b)
    /\ Settle(t, cache, [Idle EXCEPT !.pc = "release", !.b = b, !.old = buf[b]])
    /\ UNCHANGED <<chunkVars, hits, m_allocations, bufVars, failed>>

\* deallocate: m_handle = -1, then free.
deallocate(t, b) ==
    /\ Call(t)
    /\ MayUse(t, b)
    /\ buf' = [buf EXCEPT ![b] = NoHandle]
    /\ m_cache' = [m_cache EXCEPT ![b] = 0]
    /\ Settle(t, cache, [Idle EXCEPT !.pc = "release", !.b = b, !.old = buf[b]])
    /\ UNCHANGED <<chunkVars, hits, m_allocations, failed>>

\* trim: each queue gives back as many of its oldest entries as it had allocations
\* less than CacheSize, one freeChunk at a time.
Due(t) == {c \in Cached : local[t].quota[c] > 0 /\ cache[t][c] # <<>>}

trim(t) ==
    LET c == Min(Due(t))
    IN  /\ At(t, "trim")
        /\ Due(t) # {}
        /\ freeChunk(t, Head(cache[t][c]), [cache EXCEPT ![t][c] = Tail(@)],
                     [local[t] EXCEPT !.quota[c] = @ - 1])
        /\ UNCHANGED <<hits, m_allocations, bufVars>>

trimEnds(t) ==
    /\ At(t, "trim")
    /\ Due(t) = {}
    /\ Settle(t, cache, [local[t] EXCEPT !.pc = local[t].then, !.quota = Idle.quota])
    /\ UNCHANGED <<chunkVars, hits, m_allocations, bufVars, failed>>

\* tcacheAllocateSmall under the head's mutex: the first subpage of the ring serves.
allocateFromRing(t) ==
    LET c   == local[t].sizeIdx
        at  == Head(ring[c])
        sub == m_subpages[at[1]][at[2]]
        new == allocateElem(sub)
    IN  /\ At(t, "ring")
        /\ ring[c] # <<>>
        /\ m_subpages' = [m_subpages EXCEPT ![at[1]][at[2]] = new]
        /\ ring' = [ring EXCEPT ![c] = IF m_numAvail(new) = 0 THEN Tail(@) ELSE @]
        /\ buf' = [buf EXCEPT ![local[t].b] =
               [chunk |-> at[1], run |-> at[2], sizeIdx |-> c, elem |-> getNextAvail(sub).idx]]
        /\ Settle(t, cache, [local[t] EXCEPT !.pc = "release"])
        /\ Asserts(sub.sizeIdx = c /\ SubpageAllocateOK(sub))
        /\ UNCHANGED <<live, lists, m_parent, m_freeBytes, runs, hits, m_allocations, m_cache>>

\* No subpage in the ring: needsNormalAllocation, decided before the arena's mutex is taken.
ringEmpty(t) ==
    /\ At(t, "ring")
    /\ ring[local[t].sizeIdx] = <<>>
    /\ local' = [local EXCEPT ![t].pc = "normal"]
    /\ UNCHANGED <<chunkVars, cacheVars, bufVars, failed>>

\* PoolArena::free of memory that no cache takes.
freeOld(t) ==
    /\ At(t, "release")
    /\ freeChunk(t, local[t].old, cache, Idle)
    /\ UNCHANGED <<hits, m_allocations, bufVars>>

Next ==
    \E t \in Thread :
        \/ \E b \in Buf, c \in SizeIdx : buffer(t, b, c) \/ reallocate(t, b, c)
        \/ \E b \in Buf : deallocate(t, b)
        \/ trim(t) \/ trimEnds(t) \/ allocateFromRing(t) \/ ringEmpty(t)
        \/ allocateInLists(t) \/ allocateAborts(t) \/ allocateInNewChunk(t)
        \/ freeOld(t) \/ destroyChunk(t)

Spec == Init /\ [][Next]_vars

----------------------------------------------------------------------------
\* Chunks that left the last list and wait for their deletion.
Dying == {local[t].dead : t \in Thread} \ {0}

\* The places that hold memory: buffers, cache entries, and calls about to free.
InBuffers == {b \in Buf : buf[b] # NoHandle}
InCalls   == {t \in Thread : local[t].old # NoHandle}

Held == {buf[b] : b \in InBuffers} \cup {local[t].old : t \in InCalls}
           \cup UNION {Range(cache[t][c]) : t \in Thread, c \in Cached}

\* The places that hold handle h.
Holders(h) ==
    {<<"buffer", b>> : b \in {b \in Buf : buf[b] = h}}
        \cup {<<"call", t>> : t \in {t \in Thread : local[t].old = h}}
        \cup UNION {{<<"cache", t, c, i>> : i \in {i \in DOMAIN cache[t][c] : cache[t][c][i] = h}}
                       : t \in Thread, c \in Cached}

\* The elements of run r of chunk k that are held, -1 for the whole run.
HeldElems(k, r) == {h.elem : h \in {g \in Held : g.chunk = k /\ g.run = r}}

\* No memory has two holders, and none is lost: a handle is in one buffer, cache entry
\* or call, the elements a subpage counts as used are the ones held, and a run is
\* handed out exactly while its handle is held or a subpage is on it, through caching,
\* trimming, growing and the subpages' reuse by several threads.
MemoryAccounted ==
    /\ \A h \in Held : \A p, q \in Holders(h) : p = q
    /\ \A k \in Chunk, r \in RunNo :
          LET elems == HeldElems(k, r)
              sub   == m_subpages[k][r]
          IN  /\ elems = IF sub # NoSubpage THEN sub.bits ELSE elems \cap {-1}
              /\ runs[k][r] # 0 <=> sub # NoSubpage \/ elems = {-1}

\* A chunk that is about to be deleted outside the mutex, or was, has no holder, no
\* subpage in a ring and no list that still leads to it (PoolArena.cpp:206-210).
DestroyedUnreferenced ==
    \A k \in Dying \cup (Chunk \ live) :
        /\ \A h \in Held : h.chunk # k
        /\ \A c \in Small : \A i \in DOMAIN ring[c] : ring[c][i][1] # k
        /\ \A q \in List : k \notin Range(lists[q])

\* The ring of a size holds exactly the subpages with a free element, each once, and
\* at most one of them is wholly free: what free keeps "for the next time" does not
\* pile up (PoolSubpage.cpp:104-128).
RingExact ==
    \A c \in Small :
        /\ IsInjective(ring[c])
        /\ Range(ring[c]) = {at \in live \X RunNo :
               LET sub == m_subpages[at[1]][at[2]]
               IN  sub.sizeIdx = c /\ m_numAvail(sub) > 0}
        /\ Cardinality({i \in DOMAIN ring[c] :
               m_subpages[ring[c][i][1]][ring[c][i][2]].bits = {}}) <= 1

\* Every chunk is in the one list m_parent names, whose thresholds its usage meets: an
\* allocation or a free that crosses several bands moves it all the way, no chunk below
\* q025 is left empty but in qInit, and none in use is dropped.
ListsExact ==
    \A k \in live \ Dying :
        /\ \A q \in List : Cardinality({i \in DOMAIN lists[q] : lists[q][i] = k})
                              = IF q = m_parent[k] THEN 1 ELSE 0
        /\ m_freeBytes[k] > freeMinThreshold(m_parent[k])
        /\ m_freeBytes[k] <= freeMaxThreshold(m_parent[k])

\* Apart from the assertion on the last queue of a wholly free chunk (PoolChunk.cpp:153),
\* which can fail, no assertion of PoolArena, PoolChunk, PoolChunkList or PoolSubpage that
\* these calls meet does: subpages and elements met through a ring or a cached handle are
\* alive, of the right size and in the right state, and move() finds the usage it expects.
ArenaAssertsHold == ~failed
================================================================================
