--------------------------- MODULE PoolArenaInvariant ---------------------------
(***************************************************************************)
(* The inductive invariant of PoolArena, for any number of threads, chunks, *)
(* buffers and calls, any size classes and any cache sizes, and what the    *)
(* steps of an allocation do to its parts.                                  *)
(*                                                                         *)
(* The invariant is in two halves.  HoldersOK is about the places that hold *)
(* memory, as a function of the buffers, the caches and the calls, and      *)
(* knows nothing of chunks.  ChunksOK is about the chunks, given the set of *)
(* handles held and the set of chunks waiting for their deletion.  What an  *)
(* action does to the one half reaches the other only through the handle    *)
(* that it adds to the set or takes from it.                                *)
(***************************************************************************)
EXTENDS PoolArena, FiniteSetTheorems, TLAPS

----------------------------------------------------------------------------
(* The chunks.                                                              *)

Subpage == [sizeIdx : Small, max : Nat, bits : SUBSET Nat, m_nextAvail : Int]

\* A subpage of size class c: its bits are elements, and the hint is a free one.
GoodSub(sub, c) ==
    /\ sub \in Subpage
    /\ sub.sizeIdx = c /\ sub.max = Elems[c]
    /\ sub.bits \subseteq 0 .. sub.max - 1
    /\ sub.m_nextAvail = -1 \/ sub.m_nextAvail \in (0 .. sub.max - 1) \ sub.bits

\* Some element of the subpage is free.
HasFree(sub) == \E e \in 0 .. sub.max - 1 : e \notin sub.bits

HandleFor(k, r, c, e) == [chunk |-> k, run |-> r, sizeIdx |-> c, elem |-> e]
MadeOf(h, k, r, c, e) ==
    h \in Handle /\ h.chunk = k /\ h.run = r /\ h.sizeIdx = c /\ h.elem = e

RunTable == [RunNo -> SizeIdx \cup {0}]

ListTypes ==
    /\ live \subseteq Chunk
    /\ lists \in [List -> Seq(Chunk)]
    /\ m_parent \in [Chunk -> Int]

BodyTypes ==
    /\ m_freeBytes \in [Chunk -> Int]
    /\ runs \in [Chunk -> RunTable]
    /\ m_subpages \in [Chunk -> [RunNo -> Subpage \cup {NoSubpage}]]
    /\ ring \in [Small -> Seq(Chunk \X RunNo)]

\* A run handed out for a small size has a subpage, and no other run has one.
SubpagesOK ==
    \A k \in Chunk, r \in RunNo :
        IF runs[k][r] \in Small
        THEN GoodSub(m_subpages[k][r], runs[k][r])
        ELSE m_subpages[k][r] = NoSubpage

\* What a handle says is what its chunk says of the run.
HandleFits(h) ==
    /\ runs[h.chunk][h.run] = h.sizeIdx
    /\ IF h.sizeIdx \in Small
       THEN h.elem \in m_subpages[h.chunk][h.run].bits
       ELSE h.elem = -1

\* The handles of set H are the memory the chunks have handed out.
MemoryOK(H) ==
    /\ H \subseteq Handle
    /\ \A h \in H : HandleFits(h)
    /\ \A h \in Handle : HandleFits(h) => h \in H

\* The pages of the runs that R says are handed out, as pairs of a run and a number up
\* to its length: a set whose cardinality is the sum of the lengths.
UsedPages(R) ==
    {p \in RunNo \X RunNo : R[p[1]] # 0 /\ p[2] <= RunPages[R[p[1]]]}

PagesOK ==
    \A k \in Chunk :
        /\ m_freeBytes[k] = ChunkPages - Cardinality(UsedPages(runs[k]))
        /\ m_freeBytes[k] >= 0

\* Chunks in D wait for their deletion; they and the deleted ones are empty.
EmptyOK(D) ==
    /\ D \subseteq live
    /\ \A k \in D \cup (Chunk \ live) : \A r \in RunNo : runs[k][r] = 0

\* A chunk of so many free pages may be in list q.
InBand(q, free) == freeMinThreshold(q) < free /\ free <= freeMaxThreshold(q)

ListsOK(D) ==
    /\ \A q \in List : IsInjective(lists[q])
    /\ \A q \in List, k \in Chunk :
          k \in Range(lists[q]) <=> k \in live \ D /\ m_parent[k] = q
    /\ \A k \in live \ D : m_parent[k] \in List /\ InBand(m_parent[k], m_freeBytes[k])

\* The subpage a ring's entry stands for.
SubAt(at) == m_subpages[at[1]][at[2]]

RingOK ==
    \A c \in Small :
        /\ IsInjective(ring[c])
        /\ \A k \in Chunk, r \in RunNo :
              <<k, r>> \in Range(ring[c]) <=> runs[k][r] = c /\ HasFree(m_subpages[k][r])
        /\ \A at, too \in Range(ring[c]) :
              SubAt(at).bits = {} /\ SubAt(too).bits = {} => at = too

\* What is inside the chunks, and the lists they are in.
BodyOK(H) == BodyTypes /\ SubpagesOK /\ MemoryOK(H) /\ PagesOK /\ RingOK

ChunksOK(H, D) == BodyOK(H) /\ ListTypes /\ EmptyOK(D) /\ ListsOK(D)

----------------------------------------------------------------------------
(* The holders: bf is the buffers' handles, q the caches, o the handles the  *)
(* calls are about to free.                                                  *)

HolderTypes(bf, q, o) ==
    /\ bf \in [Buf -> Handle \cup {NoHandle}]
    /\ q \in [Thread -> [Cached -> Seq(Handle)]]
    /\ o \in [Thread -> Handle \cup {NoHandle}]

InQueues(q) == UNION {Range(q[t][c]) : t \in Thread, c \in Cached}
HeldIn(bf, q, o) ==
    ({bf[b] : b \in Buf} \cup {o[t] : t \in Thread} \cup InQueues(q)) \ {NoHandle}

\* No handle is in two places.
HoldersOK(bf, q, o) ==
    /\ HolderTypes(bf, q, o)
    /\ \A a, b \in Buf : bf[a] = bf[b] /\ bf[a] # NoHandle => a = b
    /\ \A t, u \in Thread : o[t] = o[u] /\ o[t] # NoHandle => t = u
    /\ \A t \in Thread, c \in Cached : IsInjective(q[t][c])
    /\ \A t, u \in Thread, c, d \in Cached : \A h \in Handle :
          h \in Range(q[t][c]) /\ h \in Range(q[u][d]) => t = u /\ c = d
    /\ \A b \in Buf, t \in Thread : bf[b] # NoHandle => bf[b] # o[t]
    /\ \A b \in Buf : bf[b] \notin InQueues(q)
    /\ \A t \in Thread : o[t] \notin InQueues(q)

\* Handles bf with the one of buffer b gone are handles b0.
LetGo(bf, b, q, o, b0) ==
    HoldersOK(b0, q, o) /\ HeldIn(b0, q, o) = HeldIn(bf, q, o) \ {bf[b]}

\* Place x has handle h.
HeldAt(h, x) ==
    \/ \E b \in Buf : buf[b] = h /\ x = <<"buffer", b>>
    \/ \E t \in Thread : local[t].old = h /\ x = <<"call", t>>
    \/ \E t \in Thread, c \in Cached : \E i \in DOMAIN cache[t][c] :
          cache[t][c][i] = h /\ x = <<"cache", t, c, i>>

olds == [t \in Thread |-> local[t].old]

----------------------------------------------------------------------------
(* The calls.                                                               *)

\* A call that is going to ask for memory has its buffer empty (bf is the buffers' handles).
Wants(l, bf) == l.b \in Buf /\ l.sizeIdx \in SizeIdx /\ bf[l.b] = NoHandle

\* What an allocation does after the cache: nothing more, or the ring, or the chunks.
ThenOK(l, pc, bf) ==
    \/ pc = "release"
    \/ pc = "ring" /\ Wants(l, bf) /\ l.sizeIdx \in Small
    \/ pc = "normal" /\ Wants(l, bf)

CallOK(l, bf) ==
    \/ l = Idle
    \/ l.pc = "release" /\ l.dead = 0 /\ l.old # NoHandle /\ ~Cacheable(l.old)
    \/ l.pc \in {"ring", "normal"} /\ l.dead = 0 /\ ThenOK(l, l.pc, bf)
    \/ l.pc = "trim" /\ l.dead = 0 /\ ThenOK(l, l.then, bf)
    \/ l.pc = "destroy" /\ l.dead # 0 /\ l.back = "trim" /\ ThenOK(l, l.then, bf)
    \/ l.dead # 0 /\ l = [Idle EXCEPT !.pc = "destroy", !.back = "idle", !.dead = l.dead]

Pc == {"idle", "release", "ring", "normal", "trim", "destroy"}
Call_ == [pc : Pc, then : Pc, b : Buf \cup {0}, sizeIdx : Int,
          old : Handle \cup {NoHandle}, quota : [Cached -> Int], back : Pc,
          dead : Chunk \cup {0}]

CallsOK ==
    /\ local \in [Thread -> Call_]
    /\ \A t \in Thread : CallOK(local[t], buf)
    /\ \A t, u \in Thread : local[t].b = local[u].b /\ local[t].b # 0 => t = u
    /\ \A t, u \in Thread : local[t].dead = local[u].dead /\ local[t].dead # 0 => t = u
    /\ hits \in [Thread -> [Cached -> Nat]]

\* The inductive invariant.
ArenaInv ==
    /\ ~failed
    /\ HoldersOK(buf, cache, olds)
    /\ CallsOK
    /\ ChunksOK(HeldIn(buf, cache, olds), Dying)

\* A step is first-order reasoning unless it says otherwise: arithmetic and sequences
\* are left to the SMT solver, by name.
USE Zenon

----------------------------------------------------------------------------
(* Least and greatest elements.                                             *)

\* A non-empty set of naturals has a least element, and Min is that.
LEMMA MinProps ==
    ASSUME NEW T \in SUBSET Nat, T # {}
    PROVE  Min(T) \in T /\ \A n \in T : Min(T) <= n
<1>1. PICK m \in T : \A n \in T : ~ (<<n, m>> \in OpToRel(<, Nat))
  BY NatLessThanWellFounded, WFMin
<1>2. \A n \in T : ~ (n < m)
  BY <1>1 DEF OpToRel
<1>3. \E x \in T : \A y \in T : x =< y
  BY <1>2, SMT
<1> QED
  BY <1>3 DEF Min

\* A bounded non-empty set of naturals has a greatest element, and Max is that.
LEMMA MaxProps ==
    ASSUME NEW n \in Nat, NEW T \in SUBSET (0 .. n), T # {}
    PROVE  Max(T) \in T /\ \A x \in T : x <= Max(T)
<1> DEFINE U == {n - x : x \in T}
<1>1. U \in SUBSET Nat /\ U # {}
  <2>1. \A x \in T : n - x \in Nat
    BY SMT
  <2>2. PICK x \in T : TRUE
    OBVIOUS
  <2>3. n - x \in U
    BY <2>2
  <2> QED
    BY <2>1, <2>3
<1>2. PICK m \in U : \A y \in U : m <= y
  BY <1>1, MinProps
<1>3. PICK x \in T : m = n - x
  BY <1>2
<1>4. \A y \in T : n - x <= n - y
  BY <1>2, <1>3
<1>5. \A y \in T : x >= y
  BY <1>4, SMT
<1>6. \E z \in T : \A y \in T : z >= y
  BY <1>5
<1> QED
  BY <1>6 DEF Max

----------------------------------------------------------------------------
(* The bands of the lists.                                                  *)

\* The thresholds of the six lists, written out.
LEMMA Thresholds ==
    /\ freeMinThreshold(qInit) = (ChunkPages * 76 - 1) \div 100
    /\ freeMinThreshold(q000) = (ChunkPages * 51 - 1) \div 100
    /\ freeMinThreshold(q025) = (ChunkPages * 26 - 1) \div 100
    /\ freeMinThreshold(q050) = 0
    /\ freeMinThreshold(q075) = 0
    /\ freeMinThreshold(q100) = (ChunkPages * (-8091) - 1) \div 100
    /\ freeMaxThreshold(qInit) = (ChunkPages * 8293 - 1) \div 100
    /\ freeMaxThreshold(q000) = (ChunkPages * 100 - 1) \div 100
    /\ freeMaxThreshold(q025) = (ChunkPages * 76 - 1) \div 100
    /\ freeMaxThreshold(q050) = (ChunkPages * 51 - 1) \div 100
    /\ freeMaxThreshold(q075) = (ChunkPages * 26 - 1) \div 100
    /\ freeMaxThreshold(q100) = 0
<1>1. /\ m_minUsage[1] = -8192 /\ m_minUsage[2] = 1 /\ m_minUsage[3] = 25
      /\ m_minUsage[4] = 50 /\ m_minUsage[5] = 75 /\ m_minUsage[6] = 100
  BY SMT DEF m_minUsage
<1>2. /\ m_maxUsage[1] = 25 /\ m_maxUsage[2] = 50 /\ m_maxUsage[3] = 75
      /\ m_maxUsage[4] = 100 /\ m_maxUsage[5] = 100 /\ m_maxUsage[6] = 8192
  BY SMT DEF m_maxUsage
<1>3. /\ Threshold(1) = (ChunkPages * 100 - 1) \div 100
      /\ Threshold(25) = (ChunkPages * 76 - 1) \div 100
      /\ Threshold(50) = (ChunkPages * 51 - 1) \div 100
      /\ Threshold(75) = (ChunkPages * 26 - 1) \div 100
      /\ Threshold(100) = 0
      /\ Threshold(8192) = (ChunkPages * (-8091) - 1) \div 100
      /\ Threshold(-8192) = (ChunkPages * 8293 - 1) \div 100
  BY PagesAssumption, SMT DEF Threshold
<1>4. qInit = 1 /\ q000 = 2 /\ q025 = 3 /\ q050 = 4 /\ q075 = 5 /\ q100 = 6
  BY DEF qInit, q000, q025, q050, q075, q100
<1> QED
  BY <1>1, <1>2, <1>3, <1>4, SMT DEF freeMinThreshold, freeMaxThreshold

\* The thresholds are numbers of pages; the bands of neighbouring lists leave no gap; no
\* count up to the whole chunk is above the band of qInit or below that of q100, and
\* only the whole chunk is above the band of q000.
LEMMA Bands ==
    /\ ChunkPages \in Nat /\ ChunkPages >= 1
    /\ \A q \in List : freeMinThreshold(q) \in Int /\ freeMaxThreshold(q) \in Int
    /\ \A q \in 1 .. 5 : freeMinThreshold(q) <= freeMaxThreshold(q + 1)
    /\ freeMaxThreshold(1) >= ChunkPages
    /\ freeMaxThreshold(2) = ChunkPages - 1
    /\ freeMinThreshold(6) < 0
<1>1. ChunkPages \in Nat /\ ChunkPages >= 1
  BY PagesAssumption, SMT
<1>2. List = 1 .. 6 /\ qInit = 1 /\ q000 = 2 /\ q025 = 3 /\ q050 = 4 /\ q075 = 5 /\ q100 = 6
  BY DEF List, qInit, q000, q025, q050, q075, q100
<1>3. \A q \in 1 .. 6 : q = 1 \/ q = 2 \/ q = 3 \/ q = 4 \/ q = 5 \/ q = 6
  BY SMT
<1>4. \A q \in List : freeMinThreshold(q) \in Int /\ freeMaxThreshold(q) \in Int
  BY <1>1, <1>2, <1>3, Thresholds, SMT
<1>5. \A q \in 1 .. 5 : freeMinThreshold(q) <= freeMaxThreshold(q + 1)
  <2>1. freeMinThreshold(1) <= freeMaxThreshold(2)
    BY <1>1, <1>2, Thresholds, SMT
  <2>2. freeMinThreshold(2) <= freeMaxThreshold(3)
    BY <1>1, <1>2, Thresholds, SMT
  <2>3. freeMinThreshold(3) <= freeMaxThreshold(4)
    BY <1>1, <1>2, Thresholds, SMT
  <2>4. freeMinThreshold(4) <= freeMaxThreshold(5)
    BY <1>1, <1>2, Thresholds, SMT
  <2>5. freeMinThreshold(5) <= freeMaxThreshold(6)
    BY <1>1, <1>2, Thresholds, SMT
  <2> QED
    <3>1. \A q \in 1 .. 5 : q = 1 \/ q = 2 \/ q = 3 \/ q = 4 \/ q = 5
      BY SMT
    <3> QED
      BY <2>1, <2>2, <2>3, <2>4, <2>5, <3>1, SMT
<1>6. freeMaxThreshold(1) >= ChunkPages
  BY <1>1, <1>2, Thresholds, SMT
<1>7. freeMaxThreshold(2) = ChunkPages - 1
  BY <1>1, <1>2, Thresholds, SMT
<1>8. freeMinThreshold(6) < 0
  BY <1>1, <1>2, Thresholds, SMT
<1> QED
  BY <1>1, <1>4, <1>5, <1>6, <1>7, <1>8

\* A chunk that add() is handed by the list below, or that is new, ends in a list in
\* whose band it is.
LEMMA AddBand ==
    ASSUME NEW q \in List, NEW free \in Int, 0 <= free, free <= freeMaxThreshold(q)
    PROVE  add(q, free) \in List /\ add(q, free) >= q /\ InBand(add(q, free), free)
<1> DEFINE T == {p \in q .. q100 : free > freeMinThreshold(p)}
           a == add(q, free)
<1>1. List = 1 .. 6 /\ q100 = 6 /\ q \in 1 .. 6
  BY DEF List, qInit, q100
<1>2. 6 \in T
  BY <1>1, Bands, SMT
<1>3. T \in SUBSET Nat
  BY <1>1, SMT
<1>4. a \in T /\ \A p \in T : a <= p
  BY <1>2, <1>3, MinProps DEF add
<1> HIDE DEF a
<1>5. a \in 1 .. 6 /\ a >= q /\ free > freeMinThreshold(a)
  BY <1>1, <1>4, SMT
<1>6. CASE a = q
  BY <1>1, <1>5, <1>6 DEF InBand, a
<1>7. CASE a # q
  <2>1. a - 1 \in q .. 6 /\ a - 1 \notin T /\ a - 1 \in 1 .. 5 /\ a - 1 \in List
    BY <1>1, <1>4, <1>5, <1>7, SMT
  <2>2. free <= freeMinThreshold(a - 1)
    BY <1>1, <2>1, Bands, SMT
  <2>3. freeMinThreshold(a - 1) <= freeMaxThreshold((a - 1) + 1)
    BY <2>1, Bands
  <2>4. (a - 1) + 1 = a
    BY <1>5, SMT
  <2>5. free <= freeMaxThreshold(a)
    <3>1. freeMinThreshold(a - 1) \in Int /\ freeMaxThreshold(a) \in Int
      BY <1>1, <1>5, <2>1, Bands
    <3> QED
      BY <2>2, <2>3, <2>4, <3>1, SMT
  <2> QED
    BY <1>1, <1>5, <2>5 DEF InBand, a
<1> QED
  BY <1>6, <1>7

\* A quotient by a positive divisor.
LEMMA DivBound ==
    ASSUME NEW a \in Nat, NEW b \in Nat, b >= 1, NEW u \in Nat, a >= b * u
    PROVE  a \div b \in Int /\ a \div b >= u
BY SMT

\* The usage of a chunk that has at least so many percent of its pages free.
LEMMA UsageBound ==
    ASSUME NEW free \in Nat, free >= 1
    PROVE  /\ usage(free) < 100
           /\ \A u \in 1 .. 100 : free * 100 >= ChunkPages * u => usage(free) <= 100 - u
<1> DEFINE p == (free * 100) \div ChunkPages
<1>1. p \in Int /\ p >= 0
  BY Bands, DivBound, SMT
<1>2. usage(free) = IF p = 0 THEN 99 ELSE 100 - p
  BY SMT DEF usage
<1>3. ASSUME NEW u \in 1 .. 100, free * 100 >= ChunkPages * u PROVE p >= u
  <2>1. free * 100 \in Nat /\ u \in Nat /\ ChunkPages \in Nat /\ ChunkPages >= 1
    BY Bands, SMT
  <2> HIDE DEF p
  <2>2. (free * 100) \div ChunkPages >= u
    BY <1>3, <2>1, DivBound
  <2> QED
    BY <2>2 DEF p
<1> HIDE DEF p
<1> QED
  BY <1>1, <1>2, <1>3, SMT

\* A chunk of so many free pages that its list q lets go of it: qInit never does, the
\* assertions of move() hold, and it ends in a list in whose band it is, or in none when
\* it is wholly free.
LEMMA MoveBand ==
    ASSUME NEW q \in List, NEW free \in Int, 0 <= free, free <= ChunkPages,
           free > freeMaxThreshold(q)
    PROVE  /\ q # qInit
           /\ MoveOK(q, free)
           /\ \/ move0(q, free) = 0 /\ free = ChunkPages
              \/ /\ move0(q, free) \in List /\ move0(q, free) < q
                 /\ InBand(move0(q, free), free)
<1> DEFINE T == {0} \cup {p \in q000 .. q - 1 : free <= freeMaxThreshold(p)}
           to == move0(q, free)
<1>1. /\ List = 1 .. 6 /\ q \in 1 .. 6
      /\ qInit = 1 /\ q000 = 2 /\ q025 = 3 /\ q050 = 4 /\ q075 = 5 /\ q100 = 6
  BY DEF List, qInit, q000, q025, q050, q075, q100
<1>2. q # 1
  BY <1>1, Bands, SMT
<1>3. T \in SUBSET (0 .. 6) /\ T # {}
  BY <1>1, SMT
<1>4. to = Max(T)
  BY <1>1, <1>2 DEF move0
<1>5. to \in T /\ \A x \in T : x <= to
  BY <1>3, <1>4, MaxProps
<1> HIDE DEF to
<1>6. to = 0 \/ (to \in 2 .. q - 1 /\ free <= freeMaxThreshold(to))
  BY <1>1, <1>5
<1>7. \A p \in 2 .. q : p > to => free > freeMaxThreshold(p)
  BY <1>1, <1>5, Bands, SMT
<1>8. ASSUME NEW p \in 2 .. q - 1, p >= to PROVE usage(free) < m_maxUsage[p]
  <2>1. free > freeMaxThreshold(p + 1) /\ p \in 2 .. 5
    BY <1>1, <1>6, <1>7, <1>8, SMT
  <2>2. free >= 1 /\ free \in Nat /\ freeMaxThreshold(p + 1) \in Int
    BY <1>1, <2>1, Thresholds, Bands, SMT
  <2>3. p = 2 \/ p = 3 \/ p = 4 \/ p = 5
    BY <2>1, SMT
  <2>4. usage(free) \in Int
    <3>1. (free * 100) \div ChunkPages \in Int
      BY <2>2, Bands, DivBound, SMT
    <3> QED
      BY <3>1, SMT DEF usage
  <2>5. m_maxUsage[2] = 50 /\ m_maxUsage[3] = 75 /\ m_maxUsage[4] = 100 /\ m_maxUsage[5] = 100
    BY SMT DEF m_maxUsage
  <2>6. CASE p = 2
    <3>1. free * 100 >= ChunkPages * 76
      BY <1>1, <2>1, <2>2, <2>6, Thresholds, Bands, SMT
    <3> QED
      BY <2>2, <2>4, <2>5, <2>6, <3>1, UsageBound, SMT
  <2>7. CASE p = 3
    <3>1. free * 100 >= ChunkPages * 51
      BY <1>1, <2>1, <2>2, <2>7, Thresholds, Bands, SMT
    <3> QED
      BY <2>2, <2>4, <2>5, <2>7, <3>1, UsageBound, SMT
  <2> QED
    BY <2>2, <2>3, <2>4, <2>5, <2>6, <2>7, UsageBound, SMT
<1>9. CASE to = 0
  <2>1. free > freeMaxThreshold(2)
    BY <1>1, <1>2, <1>7, <1>9, SMT
  <2>2. free = ChunkPages
    BY <2>1, Bands, SMT
  <2>3. usage(free) = 0
    <3>1. (ChunkPages * 100) \div ChunkPages = 100
      BY Bands, SMT
    <3> QED
      BY <2>2, <3>1, Bands, SMT DEF usage
  <2>4. Max({to, q000}) = 2
    <3>1. {to, q000} \in SUBSET (0 .. 6) /\ {to, q000} = {0, 2}
      BY <1>1, <1>9, SMT
    <3> QED
      BY <3>1, MaxProps, SMT
  <2> QED
    BY <1>1, <1>2, <1>8, <1>9, <2>2, <2>3, <2>4, SMT DEF MoveOK, to
<1>10. CASE to \in 2 .. q - 1 /\ free <= freeMaxThreshold(to)
  <2>1. free > freeMaxThreshold(to + 1) /\ to \in 1 .. 5
    BY <1>1, <1>7, <1>10, SMT
  <2>2. freeMinThreshold(to) <= freeMaxThreshold(to + 1)
    BY <2>1, Bands
  <2>3. InBand(to, free)
    <3>1. freeMinThreshold(to) \in Int /\ freeMaxThreshold(to + 1) \in Int
      BY <1>1, <2>1, Bands, SMT
    <3> QED
      BY <1>10, <2>1, <2>2, <3>1, SMT DEF InBand
  <2>4. Max({to, q000}) = to
    <3>1. {to, q000} \in SUBSET (0 .. 6) /\ {to, q000} = {to, 2} /\ to >= 2
      BY <1>1, <1>10, SMT
    <3>2. PICK m : m = Max({to, q000})
      OBVIOUS
    <3>3. m \in {to, 2} /\ m >= to /\ m \in Int
      BY <3>1, <3>2, MaxProps, SMT
    <3> QED
      BY <3>1, <3>2, <3>3, SMT
  <2>5. MoveOK(q, free)
    BY <1>8, <1>10, <2>4, SMT DEF MoveOK, to
  <2> QED
    BY <1>1, <1>2, <1>10, <2>3, <2>5, SMT DEF to
<1> QED
  BY <1>6, <1>9, <1>10

----------------------------------------------------------------------------
(* Subpages.                                                                *)

\* Division with remainder.
LEMMA DivMod ==
    ASSUME NEW a \in Nat, NEW b \in Nat, b >= 1
    PROVE  /\ a \div b \in Nat /\ a % b \in Nat
           /\ (a \div b) * b <= a /\ a < ((a \div b) + 1) * b
           /\ a % b = 0 => a = (a \div b) * b
BY SMT

\* Multiplication by a positive factor keeps the order.
LEMMA MulOrder ==
    ASSUME NEW x \in Nat, NEW y \in Nat, NEW b \in Nat, b >= 1
    PROVE  (x < y => (x + 1) * b <= y * b) /\ (x * b < y * b => x < y)
BY SMT

\* The first and the last element of Word(i) are naturals.
LEMMA WordRange ==
    ASSUME NEW i \in Nat
    PROVE  /\ i * WordBits \in Nat /\ (i + 1) * WordBits \in Nat
           /\ Word(i) = i * WordBits .. (i + 1) * WordBits - 1
           /\ Word(i) \subseteq Nat
BY WordAssumption, SMT DEF Word

\* Membership of an interval.
LEMMA InRange ==
    ASSUME NEW lo \in Int, NEW hi \in Int, NEW x \in Int
    PROVE  x \in lo .. hi - 1 <=> lo <= x /\ x < hi
BY SMT

\* The scan of the bitmap finds a free element when there is one, although the last
\* word also has bits for elements that do not exist.
LEMMA FindNext ==
    ASSUME NEW c \in Small, NEW sub, GoodSub(sub, c), HasFree(sub)
    PROVE  findNextAvail(sub) \in (0 .. sub.max - 1) \ sub.bits
<1> DEFINE W == WordBits
           L == m_bitmapLength(sub)
           d == sub.max \div W
           notFull == {i \in 0 .. L - 1 : ~(Word(i) \subseteq sub.bits)}
           m == Min(notFull)
           free == Word(m) \ sub.bits
           val == Min(free)
<1>1. W \in Nat /\ W >= 1 /\ sub.max \in Nat
  BY WordAssumption, SMT DEF GoodSub, Subpage
<1>2. PICK e \in 0 .. sub.max - 1 : e \notin sub.bits
  BY DEF HasFree
<1>3. e \in Nat /\ e < sub.max
  BY <1>1, <1>2, SMT
<1> DEFINE w == e \div W
<1>4. w \in Nat /\ w * W <= e /\ e < (w + 1) * W
  BY <1>1, <1>3, DivMod
<1>5. L \in Nat /\ w < L
  <2>1. /\ d \in Nat /\ sub.max % W \in Nat /\ sub.max < (d + 1) * W
        /\ sub.max % W = 0 => sub.max = d * W
    BY <1>1, DivMod
  <2>2. L = d + (IF sub.max % W # 0 THEN 1 ELSE 0)
    BY DEF m_bitmapLength
  <2> HIDE DEF d, L, w, W
  <2>3. CASE sub.max % W = 0
    <3>1. w * W \in Nat /\ d * W \in Nat
      BY <1>1, <1>4, <2>1, SMT
    <3>2. w * W < d * W
      BY <1>1, <1>3, <1>4, <2>1, <2>3, <3>1, SMT
    <3>3. w < d
      BY <1>1, <1>4, <2>1, <3>2, MulOrder
    <3> QED
      BY <2>1, <2>2, <2>3, <3>3, SMT
  <2>4. CASE sub.max % W # 0
    <3>1. w * W \in Nat /\ (d + 1) * W \in Nat /\ d + 1 \in Nat
      BY <1>1, <1>4, <2>1, SMT
    <3>2. w * W < (d + 1) * W
      BY <1>1, <1>3, <1>4, <2>1, <3>1, SMT
    <3>3. w < d + 1
      BY <1>1, <1>4, <3>1, <3>2, MulOrder
    <3> QED
      BY <2>1, <2>2, <2>4, <3>3, SMT
  <2> QED
    BY <2>3, <2>4
<1> HIDE DEF w, L
<1>6. e \in Word(w)
  <2>1. Word(w) = w * W .. (w + 1) * W - 1 /\ w * W \in Int /\ (w + 1) * W \in Int
    BY <1>4, WordRange, SMT
  <2> HIDE DEF W
  <2> QED
    BY <1>3, <1>4, <2>1, InRange, SMT
<1>7. w \in notFull /\ notFull \in SUBSET Nat
  BY <1>2, <1>4, <1>5, <1>6, SMT
<1>8. m \in notFull /\ m <= w
  BY <1>7, MinProps
<1> HIDE DEF m
<1>9. m \in Nat /\ free # {}
  BY <1>7, <1>8
<1>10. free \in SUBSET Nat /\ free \subseteq Word(m)
  BY <1>9, WordRange
<1>11. val \in free /\ \A x \in free : val <= x
  BY <1>9, <1>10, MinProps
<1> HIDE DEF free, val
<1>12. val \in Nat /\ val \notin sub.bits /\ val \in Word(m)
  BY <1>10, <1>11 DEF free
<1>13. val < sub.max
  <2>1. CASE m = w
    <3>1. e \in free
      BY <1>2, <1>6, <2>1 DEF free
    <3> QED
      BY <1>1, <1>3, <1>11, <1>12, <3>1, SMT
  <2>2. CASE m < w
    <3>1. (m + 1) * W <= w * W /\ (m + 1) * W \in Nat /\ w * W \in Nat
      BY <1>1, <1>4, <1>9, <2>2, MulOrder, SMT
    <3>2. val < (m + 1) * W
      <4>1. Word(m) = m * W .. (m + 1) * W - 1 /\ m * W \in Int /\ (m + 1) * W \in Int
        <5>1. m \in Nat
          BY <1>9
        <5>2. /\ Word(m) = m * WordBits .. (m + 1) * WordBits - 1
              /\ m * WordBits \in Nat /\ (m + 1) * WordBits \in Nat
          BY <5>1, WordRange
        <5> QED
          BY <5>2, SMT
      <4> HIDE DEF W
      <4> QED
        BY <1>12, <4>1, InRange, SMT
    <3> HIDE DEF W
    <3> QED
      BY <1>1, <1>3, <1>4, <1>12, <3>1, <3>2, SMT
  <2> QED
    BY <1>4, <1>8, <1>9, <2>1, <2>2, SMT
<1>14. findNextAvail(sub) = IF notFull = {} \/ val >= sub.max THEN -1 ELSE val
  BY DEF findNextAvail, L, m, free, val
<1>15. findNextAvail(sub) = val
  BY <1>1, <1>7, <1>12, <1>13, <1>14, SMT
<1> QED
  BY <1>1, <1>12, <1>13, <1>15, SMT

\* m_numAvail tells whether there is a free element, and whether there are only such.
LEMMA NumAvail ==
    ASSUME NEW c \in Small, NEW sub, GoodSub(sub, c)
    PROVE  /\ m_numAvail(sub) \in Nat
           /\ m_numAvail(sub) > 0 <=> HasFree(sub)
           /\ m_numAvail(sub) = sub.max <=> sub.bits = {}
<1> DEFINE E == 0 .. sub.max - 1
<1>1. sub.max \in Nat /\ sub.bits \in SUBSET E
  BY DEF GoodSub, Subpage
<1>2. IsFiniteSet(E) /\ Cardinality(E) = sub.max
  <2>1. 0 \in Int /\ sub.max - 1 \in Int
    BY <1>1, SMT
  <2>2. /\ IsFiniteSet(0 .. sub.max - 1)
        /\ Cardinality(0 .. sub.max - 1) = IF 0 > sub.max - 1 THEN 0 ELSE sub.max - 1 - 0 + 1
    BY <2>1, FS_Interval
  <2> QED
    BY <1>1, <2>2, SMT
<1>3. /\ IsFiniteSet(sub.bits) /\ Cardinality(sub.bits) <= sub.max
      /\ Cardinality(E) = Cardinality(sub.bits) => E = sub.bits
  BY <1>1, <1>2, FS_Subset, SMT
<1>4. Cardinality(sub.bits) \in Nat
  BY <1>3, FS_CardinalityType
<1>5. Cardinality(sub.bits) = 0 <=> sub.bits = {}
  BY <1>3, FS_EmptySet
<1>6. HasFree(sub) <=> sub.bits # E
  BY <1>1 DEF HasFree
<1>7. sub.bits = E => Cardinality(sub.bits) = sub.max
  BY <1>2
<1>8. Cardinality(sub.bits) = sub.max => sub.bits = E
  BY <1>2, <1>3
<1> HIDE DEF E
<1> QED
  BY <1>1, <1>3, <1>4, <1>5, <1>6, <1>7, <1>8, SMT DEF m_numAvail

\* A new subpage is free, and its hint is its first element.
LEMMA NewSub ==
    ASSUME NEW c \in Small
    PROVE  /\ GoodSub(newSubpage(c, Elems[c]), c)
           /\ HasFree(newSubpage(c, Elems[c]))
           /\ getNextAvail(newSubpage(c, Elems[c])).idx = 0
<1>1. Elems[c] \in Nat \ {0}
  BY ArenaAssumption
<1>2. 0 \in 0 .. Elems[c] - 1
  BY <1>1, SMT
<1> DEFINE s == newSubpage(c, Elems[c])
<1>3. s.sizeIdx = c /\ s.max = Elems[c] /\ s.bits = {} /\ s.m_nextAvail = 0
  BY DEF newSubpage
<1>4. s \in Subpage
  BY <1>1, SMT DEF newSubpage, Subpage
<1> HIDE DEF s
<1>5. GoodSub(s, c) /\ HasFree(s)
  BY <1>2, <1>3, <1>4 DEF GoodSub, HasFree
<1>6. getNextAvail(s).idx = 0
  BY <1>3, SMT DEF getNextAvail
<1> QED
  BY <1>5, <1>6 DEF s

\* Allocating an element of a subpage that has a free one: the assertions hold and one
\* more bit is set.
LEMMA AllocElem ==
    ASSUME NEW c \in Small, NEW sub, GoodSub(sub, c), HasFree(sub)
    PROVE  LET e == getNextAvail(sub).idx
           IN  /\ SubpageAllocateOK(sub)
               /\ e \in (0 .. sub.max - 1) \ sub.bits
               /\ GoodSub(allocateElem(sub), c)
               /\ allocateElem(sub).bits = sub.bits \cup {e}
               /\ allocateElem(sub).max = sub.max
<1> DEFINE e == getNextAvail(sub).idx
           new == allocateElem(sub)
<1>1. e \in (0 .. sub.max - 1) \ sub.bits
  <2>1. e = IF sub.m_nextAvail >= 0 THEN sub.m_nextAvail ELSE findNextAvail(sub)
    BY DEF getNextAvail
  <2>2. sub.m_nextAvail = -1 \/ sub.m_nextAvail \in (0 .. sub.max - 1) \ sub.bits
    BY DEF GoodSub
  <2> QED
    BY <2>1, <2>2, FindNext, SMT
<1>2. SubpageAllocateOK(sub)
  BY <1>1, NumAvail DEF SubpageAllocateOK
<1>3. sub \in Subpage /\ sub.sizeIdx = c /\ sub.max = Elems[c]
      /\ sub.max \in Nat /\ sub.bits \subseteq 0 .. sub.max - 1
  BY DEF GoodSub, Subpage
<1> HIDE DEF e
<1>4. new = [sub EXCEPT !.bits = @ \cup {e}, !.m_nextAvail = -1]
  BY DEF allocateElem, getNextAvail, e
<1>5. /\ new.sizeIdx = c /\ new.max = sub.max /\ new.bits = sub.bits \cup {e}
      /\ new.m_nextAvail = -1
  BY <1>3, <1>4 DEF Subpage
<1>6. new \in Subpage
  <2>1. sub.bits \cup {e} \in SUBSET Nat /\ -1 \in Int
    BY <1>1, <1>3, SMT
  <2> QED
    BY <1>3, <1>4, <2>1 DEF Subpage
<1> HIDE DEF new
<1>7. GoodSub(new, c)
  BY <1>1, <1>3, <1>5, <1>6 DEF GoodSub
<1> QED
  BY <1>1, <1>2, <1>5, <1>7 DEF e, new

\* Freeing an element that is in use: one bit less, and there is a free element.
LEMMA FreeElem ==
    ASSUME NEW c \in Small, NEW sub, GoodSub(sub, c), NEW e \in sub.bits
    PROVE  /\ GoodSub(freeElem(sub, e), c)
           /\ HasFree(freeElem(sub, e))
           /\ freeElem(sub, e).bits = sub.bits \ {e}
           /\ freeElem(sub, e).max = sub.max
<1> DEFINE new == freeElem(sub, e)
<1>1. sub \in Subpage /\ sub.sizeIdx = c /\ sub.max = Elems[c]
      /\ sub.max \in Nat /\ sub.bits \subseteq 0 .. sub.max - 1
  BY DEF GoodSub, Subpage
<1>2. e \in 0 .. sub.max - 1 /\ e \in Int
  BY <1>1, SMT
<1>3. new = [sub EXCEPT !.bits = @ \ {e}, !.m_nextAvail = e]
  BY DEF freeElem
<1>4. /\ new.sizeIdx = c /\ new.max = sub.max /\ new.bits = sub.bits \ {e}
      /\ new.m_nextAvail = e
  BY <1>1, <1>3 DEF Subpage
<1>5. new \in Subpage
  <2>1. sub.bits \ {e} \in SUBSET Nat
    BY <1>1, SMT
  <2> QED
    BY <1>1, <1>2, <1>3, <2>1 DEF Subpage
<1> HIDE DEF new
<1>6. GoodSub(new, c) /\ HasFree(new)
  BY <1>1, <1>2, <1>4, <1>5 DEF GoodSub, HasFree
<1> QED
  BY <1>4, <1>6 DEF new

----------------------------------------------------------------------------
(* Sequences without repetition.                                            *)

\* Sequences, said once so that the first-order prover can use them.
LEMMA SeqElement == ASSUME NEW S, NEW s \in Seq(S), NEW i \in 1 .. Len(s) PROVE s[i] \in S
BY SMT

\* What Append gives.
LEMMA SeqAppend ==
    ASSUME NEW S, NEW s \in Seq(S), NEW e \in S
    PROVE  /\ Append(s, e) \in Seq(S) /\ Len(Append(s, e)) = Len(s) + 1
           /\ Append(s, e)[Len(s) + 1] = e
           /\ \A i \in 1 .. Len(s) : Append(s, e)[i] = s[i]
BY SMT

\* What concatenation gives.
LEMMA SeqConcat ==
    ASSUME NEW S, NEW s \in Seq(S), NEW t \in Seq(S)
    PROVE  /\ s \o t \in Seq(S) /\ Len(s \o t) = Len(s) + Len(t)
           /\ \A i \in 1 .. Len(s) + Len(t) :
                (s \o t)[i] = IF i <= Len(s) THEN s[i] ELSE t[i - Len(s)]
BY SMT

\* What Head and Tail give.
LEMMA SeqTail ==
    ASSUME NEW S, NEW s \in Seq(S), s # <<>>
    PROVE  /\ Head(s) \in S /\ Tail(s) \in Seq(S) /\ Len(Tail(s)) = Len(s) - 1
           /\ \A i \in 1 .. Len(Tail(s)) : Tail(s)[i] = s[i + 1]
BY SMT

\* The elements of a sequence, by position.
LEMMA SetOf ==
    ASSUME NEW S, NEW s \in Seq(S)
    PROVE  /\ Len(s) \in Nat /\ DOMAIN s = 1 .. Len(s)
           /\ Range(s) = {s[i] : i \in 1 .. Len(s)}
           /\ Range(s) \subseteq S
           /\ s = <<>> <=> Len(s) = 0
<1>1. Len(s) \in Nat /\ DOMAIN s = 1 .. Len(s) /\ s \in [1 .. Len(s) -> S]
  BY SMT
<1>2. s = <<>> <=> Len(s) = 0
  BY <1>1, SMT
<1> QED
  BY <1>1, <1>2 DEF Range

\* Taking the head off.
LEMMA InjTail ==
    ASSUME NEW S, NEW s \in Seq(S), s # <<>>, IsInjective(s)
    PROVE  /\ Head(s) \in S /\ Head(s) \in Range(s) /\ Tail(s) \in Seq(S)
           /\ IsInjective(Tail(s))
           /\ Range(Tail(s)) = Range(s) \ {Head(s)}
<1> DEFINE t == Tail(s)
<1>1. /\ Head(s) \in S /\ t \in Seq(S) /\ Len(t) = Len(s) - 1
      /\ \A i \in 1 .. Len(t) : t[i] = s[i + 1]
  BY SeqTail
<1>2. Len(s) \in Nat /\ Len(s) # 0 /\ DOMAIN s = 1 .. Len(s) /\ Head(s) = s[1]
  BY SetOf, SMT
<1>3. DOMAIN t = 1 .. Len(s) - 1
  BY <1>1, <1>2, SetOf
<1> HIDE DEF t
<1>4. \A i, j \in 1 .. Len(s) : s[i] = s[j] => i = j
  BY <1>2 DEF IsInjective
<1>5. ASSUME NEW i \in DOMAIN t, NEW j \in DOMAIN t, t[i] = t[j] PROVE i = j
  <2>1. i + 1 \in 1 .. Len(s) /\ j + 1 \in 1 .. Len(s) /\ i \in Int /\ j \in Int
    BY <1>2, <1>3, SMT
  <2>2. s[i + 1] = s[j + 1]
    BY <1>1, <1>3, <1>5
  <2>3. i + 1 = j + 1
    BY <1>4, <2>1, <2>2
  <2> QED
    BY <2>1, <2>3, SMT
<1>6. ASSUME NEW x PROVE x \in Range(t) <=> x \in Range(s) \ {Head(s)}
  <2>1. ASSUME x \in Range(t) PROVE x \in Range(s) \ {Head(s)}
    <3>1. PICK i \in DOMAIN t : x = t[i]
      BY <2>1 DEF Range
    <3>2. i + 1 \in 1 .. Len(s) /\ i + 1 # 1 /\ 1 \in 1 .. Len(s)
      BY <1>2, <1>3, SMT
    <3>3. x = s[i + 1]
      BY <1>1, <1>3, <3>1
    <3> QED
      BY <1>2, <1>4, <3>2, <3>3 DEF Range
  <2>2. ASSUME x \in Range(s) \ {Head(s)} PROVE x \in Range(t)
    <3>1. PICK i \in 1 .. Len(s) : x = s[i]
      BY <1>2, <2>2 DEF Range
    <3>2. i # 1
      BY <1>2, <2>2, <3>1
    <3>3. i - 1 \in DOMAIN t /\ (i - 1) + 1 = i
      BY <1>2, <1>3, <3>1, <3>2, SMT
    <3>4. t[i - 1] = s[i]
      BY <1>1, <1>3, <3>3
    <3> QED
      BY <3>1, <3>3, <3>4 DEF Range
  <2> QED
    BY <2>1, <2>2
<1>7. Head(s) \in Range(s)
  BY <1>2, SMT DEF Range
<1>8. IsInjective(t)
  BY <1>5 DEF IsInjective
<1> QED
  BY <1>1, <1>6, <1>7, <1>8 DEF t

\* Appending a new element.
LEMMA InjAppend ==
    ASSUME NEW S, NEW s \in Seq(S), NEW e \in S, IsInjective(s), e \notin Range(s)
    PROVE  /\ Append(s, e) \in Seq(S)
           /\ IsInjective(Append(s, e))
           /\ Range(Append(s, e)) = Range(s) \cup {e}
<1> DEFINE t == Append(s, e)
           n == Len(s)
<1>1. /\ t \in Seq(S) /\ Len(t) = n + 1 /\ t[n + 1] = e
      /\ \A i \in 1 .. n : t[i] = s[i]
  BY SeqAppend, SMT
<1>2. n \in Nat /\ DOMAIN s = 1 .. n
  BY SetOf
<1>3. DOMAIN t = 1 .. n + 1
  BY <1>1, SetOf
<1> HIDE DEF t, n
<1>4. \A i \in 1 .. n : s[i] # e
  BY <1>2 DEF Range
<1>5. ASSUME NEW i \in 1 .. n + 1, NEW j \in 1 .. n + 1, t[i] = t[j] PROVE i = j
  <2>1. (i \in 1 .. n \/ i = n + 1) /\ (j \in 1 .. n \/ j = n + 1)
    BY <1>2, SMT
  <2>2. \A a, b \in 1 .. n : s[a] = s[b] => a = b
    BY <1>2 DEF IsInjective
  <2> QED
    BY <1>1, <1>4, <1>5, <2>1, <2>2
<1>6. ASSUME NEW x PROVE x \in Range(t) <=> x \in Range(s) \cup {e}
  <2>1. x \in Range(t) <=> \E i \in 1 .. n + 1 : x = t[i]
    BY <1>3 DEF Range
  <2>2. x \in Range(s) <=> \E i \in 1 .. n : x = s[i]
    BY <1>2 DEF Range
  <2>3. \A i \in 1 .. n + 1 : i \in 1 .. n \/ i = n + 1
    BY <1>2, SMT
  <2>4. n + 1 \in 1 .. n + 1 /\ 1 .. n \subseteq 1 .. n + 1
    BY <1>2, SMT
  <2> QED
    BY <1>1, <2>1, <2>2, <2>3, <2>4
<1>7. IsInjective(t)
  BY <1>3, <1>5 DEF IsInjective
<1> QED
  BY <1>1, <1>6, <1>7 DEF t

\* Putting a new element first.
LEMMA InjCons ==
    ASSUME NEW S, NEW s \in Seq(S), NEW e \in S, IsInjective(s), e \notin Range(s)
    PROVE  /\ <<e>> \o s \in Seq(S)
           /\ IsInjective(<<e>> \o s)
           /\ Range(<<e>> \o s) = Range(s) \cup {e}
           /\ Len(<<e>> \o s) = Len(s) + 1
<1> DEFINE t == <<e>> \o s
           n == Len(s)
<1>0. <<e>> \in Seq(S) /\ Len(<<e>>) = 1 /\ <<e>>[1] = e
  BY SMT
<1>1. n \in Nat /\ DOMAIN s = 1 .. n
  BY SetOf
<1>2. /\ t \in Seq(S) /\ Len(t) = 1 + n
      /\ \A i \in 1 .. 1 + n : t[i] = IF i <= 1 THEN <<e>>[i] ELSE s[i - 1]
  BY <1>0, SeqConcat
<1>3. DOMAIN t = 1 .. n + 1 /\ Len(t) = n + 1
  BY <1>1, <1>2, SetOf, SMT
<1> HIDE DEF t, n
<1>4. \A i \in 1 .. n + 1 : t[i] = IF i = 1 THEN e ELSE s[i - 1]
  BY <1>0, <1>1, <1>2, SMT
<1>5. \A i \in 1 .. n : s[i] # e
  BY <1>1 DEF Range
<1>6. ASSUME NEW i \in 1 .. n + 1, NEW j \in 1 .. n + 1, t[i] = t[j] PROVE i = j
  <2>1. \A a, b \in 1 .. n : s[a] = s[b] => a = b
    BY <1>1 DEF IsInjective
  <2>2. (i = 1 \/ i - 1 \in 1 .. n) /\ (j = 1 \/ j - 1 \in 1 .. n)
    BY <1>1, SMT
  <2>3. CASE i = 1 /\ j = 1
    BY <2>3
  <2>4. CASE i = 1 /\ j # 1
    BY <1>4, <1>5, <1>6, <2>2, <2>4
  <2>5. CASE i # 1 /\ j = 1
    BY <1>4, <1>5, <1>6, <2>2, <2>5
  <2>6. CASE i # 1 /\ j # 1
    <3>1. i - 1 = j - 1
      BY <1>4, <1>6, <2>1, <2>2, <2>6, SMT
    <3> QED
      BY <1>1, <3>1, SMT
  <2> QED
    BY <2>3, <2>4, <2>5, <2>6
<1>7. ASSUME NEW x PROVE x \in Range(t) <=> x \in Range(s) \cup {e}
  <2>1. x \in Range(t) <=> \E i \in 1 .. n + 1 : x = t[i]
    BY <1>3 DEF Range
  <2>2. x \in Range(s) <=> \E i \in 1 .. n : x = s[i]
    BY <1>1 DEF Range
  <2>3. \A i \in 1 .. n + 1 : i = 1 \/ i - 1 \in 1 .. n
    BY <1>1, SMT
  <2>4. 1 \in 1 .. n + 1 /\ t[1] = e
    BY <1>1, <1>4, SMT
  <2>5. \A i \in 1 .. n : i + 1 \in 1 .. n + 1 /\ t[i + 1] = s[i]
    BY <1>1, <1>4, SMT
  <2>6. \A i \in 1 .. n + 1 : i # 1 => t[i] = s[i - 1]
    BY <1>4
  <2> QED
    BY <2>1, <2>2, <2>3, <2>4, <2>5, <2>6
<1>8. IsInjective(t)
  BY <1>3, <1>6 DEF IsInjective
<1> QED
  BY <1>2, <1>3, <1>7, <1>8 DEF t, n
\* Unlinking an element of a sequence without repetition takes just that out.
LEMMA InjRemove ==
    ASSUME NEW S, NEW s \in Seq(S), NEW e, IsInjective(s)
    PROVE  /\ unlink(s, e) \in Seq(S)
           /\ IsInjective(unlink(s, e))
           /\ Range(unlink(s, e)) = Range(s) \ {e}
<1> DEFINE n == Len(s)
           t == unlink(s, e)
<1>1. n \in Nat /\ DOMAIN s = 1 .. n
  BY SetOf
<1>2. \A a, b \in 1 .. n : s[a] = s[b] => a = b
  BY <1>1 DEF IsInjective
<1>3. CASE \A i \in 1 .. n : s[i] # e
  <2>2. e \notin Range(s)
    BY <1>1, <1>3 DEF Range
  <2>1. t = s
    BY <2>2 DEF unlink
  <2> QED
    BY <2>1, <2>2
<1>4. CASE \E i \in 1 .. n : s[i] = e
  <2>1. PICK i : i = CHOOSE k \in DOMAIN s : s[k] = e
    OBVIOUS
  <2>4. i \in 1 .. n /\ s[i] = e /\ e \in Range(s)
    BY <1>1, <1>4, <2>1 DEF Range
  <2>3. t = [j \in 1 .. n - 1 |-> IF j < i THEN s[j] ELSE s[j + 1]]
    BY <2>1, <2>4 DEF unlink
  <2> HIDE DEF t
  <2>2. \A j \in 1 .. n - 1 : (IF j < i THEN s[j] ELSE s[j + 1]) \in S
    <3>1. \A j \in 1 .. n : s[j] \in S
      BY SeqElement
    <3> HIDE DEF n
    <3>2. \A j \in 1 .. n - 1 : j \in 1 .. n /\ j + 1 \in 1 .. n
      BY <1>1, SMT
    <3> QED
      BY <3>1, <3>2
  <2>5. /\ t \in Seq(S) /\ Len(t) = n - 1
        /\ \A j \in 1 .. n - 1 : t[j] = IF j < i THEN s[j] ELSE s[j + 1]
    <3>1. n - 1 \in Nat
      BY <1>1, <2>4, SMT
    <3> HIDE DEF n
    <3> QED
      BY <2>2, <2>3, <3>1, SMT
  <2>6. DOMAIN t = 1 .. n - 1
    BY <2>5, SetOf
  <2> HIDE DEF n
  <2>7. ASSUME NEW j \in 1 .. n - 1, NEW k \in 1 .. n - 1, t[j] = t[k] PROVE j = k
    <3> DEFINE p == IF j < i THEN j ELSE j + 1
               q == IF k < i THEN k ELSE k + 1
    <3>1. p \in 1 .. n /\ q \in 1 .. n
      BY <1>1, <2>4, SMT
    <3>2. t[j] = s[p] /\ t[k] = s[q]
      BY <2>5
    <3>3. p = q
      BY <1>2, <2>7, <3>1, <3>2
    <3> QED
      BY <1>1, <2>4, <3>3, SMT
  <2>8. ASSUME NEW x PROVE x \in Range(t) <=> x \in Range(s) \ {e}
    <3>1. ASSUME x \in Range(t) PROVE x \in Range(s) \ {e}
      <4>1. PICK j \in 1 .. n - 1 : x = t[j]
        BY <2>6, <3>1 DEF Range
      <4> DEFINE p == IF j < i THEN j ELSE j + 1
      <4>2. p \in 1 .. n /\ p # i
        BY <1>1, <2>4, SMT
      <4>3. x = s[p]
        BY <2>5, <4>1
      <4> HIDE DEF p
      <4>4. x # e
        BY <1>2, <2>4, <4>2, <4>3
      <4> QED
        BY <1>1, <4>2, <4>3, <4>4 DEF Range
    <3>2. ASSUME x \in Range(s) \ {e} PROVE x \in Range(t)
      <4>1. PICK p \in 1 .. n : x = s[p]
        BY <1>1, <3>2 DEF Range
      <4>2. p # i
        BY <2>4, <3>2, <4>1
      <4> DEFINE j == IF p < i THEN p ELSE p - 1
      <4>3. j \in 1 .. n - 1 /\ (IF j < i THEN j ELSE j + 1) = p
        BY <1>1, <2>4, <4>2, SMT
      <4> HIDE DEF j
      <4>4. t[j] = s[p]
        BY <2>5, <4>3
      <4> QED
        BY <2>6, <4>1, <4>3, <4>4 DEF Range
    <3> QED
      BY <3>1, <3>2
  <2>9. IsInjective(t)
    BY <2>6, <2>7 DEF IsInjective
  <2> QED
    BY <2>5, <2>8, <2>9 DEF t
<1> QED
  BY <1>3, <1>4

----------------------------------------------------------------------------
(* The pages of the runs.                                                   *)

\* Size classes have runs of 1 to ChunkPages pages.
LEMMA RunLengths ==
    /\ \A c \in SizeIdx : RunPages[c] \in 1 .. ChunkPages /\ c \in Nat /\ c # 0
    /\ 0 \notin SizeIdx
    /\ RunNo = 1 .. ChunkPages
BY ArenaAssumption DEF RunNo

\* The pages in use are finitely many.
LEMMA UsedFinite ==
    ASSUME NEW R \in RunTable
    PROVE  IsFiniteSet(UsedPages(R)) /\ Cardinality(UsedPages(R)) \in Nat
<1>1. IsFiniteSet(RunNo)
  BY Bands, FS_Interval, SMT DEF RunNo
<1>2. IsFiniteSet(RunNo \X RunNo)
  BY <1>1, FS_Product
<1>3. UsedPages(R) \in SUBSET (RunNo \X RunNo)
  BY DEF UsedPages
<1>4. IsFiniteSet(UsedPages(R))
  BY <1>2, <1>3, FS_Subset
<1> QED
  BY <1>4, FS_CardinalityType

\* Handing out a free run takes its pages.
LEMMA UsedTake ==
    ASSUME NEW R \in RunTable, NEW r \in RunNo, R[r] = 0, NEW c \in SizeIdx
    PROVE  LET R2 == [R EXCEPT ![r] = c]
           IN  /\ R2 \in RunTable
               /\ Cardinality(UsedPages(R2)) = Cardinality(UsedPages(R)) + RunPages[c]
<1> DEFINE R2 == [R EXCEPT ![r] = c]
           N == 1 .. RunPages[c]
           Z == {r} \X N
<1>1. R2 \in RunTable /\ R2[r] = c /\ \A x \in RunNo \ {r} : R2[x] = R[x]
  BY DEF RunTable
<1>2. RunPages[c] \in Nat /\ RunPages[c] >= 1 /\ RunPages[c] <= ChunkPages /\ c # 0
  BY RunLengths, Bands, SMT
<1>3. IsFiniteSet(N) /\ Cardinality(N) = RunPages[c]
  <2>1. 1 \in Int /\ RunPages[c] \in Int
    BY <1>2, SMT
  <2>2. /\ IsFiniteSet(1 .. RunPages[c])
        /\ Cardinality(1 .. RunPages[c])
              = IF 1 > RunPages[c] THEN 0 ELSE RunPages[c] - 1 + 1
    BY <2>1, FS_Interval
  <2> QED
    BY <1>2, <2>2, SMT
<1> HIDE DEF R2
<1>4. IsFiniteSet(Z) /\ Cardinality(Z) = RunPages[c]
  <2> HIDE DEF N
  <2>1. IsFiniteSet({r}) /\ Cardinality({r}) = 1
    BY FS_Singleton
  <2>2. IsFiniteSet(Z) /\ Cardinality(Z) = 1 * Cardinality(N)
    BY <1>3, <2>1, FS_Product
  <2> QED
    BY <1>2, <1>3, <2>2, SMT
<1>5. ASSUME NEW x PROVE x \in UsedPages(R2) <=> x \in UsedPages(R) \cup Z
  <2>1. CASE x \in RunNo \X RunNo
    <3>1. PICK a \in RunNo, b \in RunNo : x = <<a, b>>
      BY <2>1, SMT
    <3>2. x[1] = a /\ x[2] = b /\ b \in 1 .. ChunkPages
      BY <3>1, RunLengths
    <3>3. x \in UsedPages(R2) <=> R2[a] # 0 /\ b <= RunPages[R2[a]]
      BY <2>1, <3>2 DEF UsedPages
    <3>4. x \in UsedPages(R) <=> R[a] # 0 /\ b <= RunPages[R[a]]
      BY <2>1, <3>2 DEF UsedPages
    <3>5. x \in Z <=> a = r /\ b <= RunPages[c]
      BY <1>2, <3>1, <3>2, SMT
    <3> HIDE DEF Z
    <3> QED
      BY <1>1, <1>2, <3>3, <3>4, <3>5
  <2>2. CASE x \notin RunNo \X RunNo
    <3>1. N \subseteq RunNo
      BY <1>2, RunLengths, Bands, SMT
    <3> HIDE DEF N
    <3>2. x \notin Z
      BY <2>2, <3>1
    <3> HIDE DEF Z
    <3> QED
      BY <2>2, <3>2 DEF UsedPages
  <2> QED
    BY <2>1, <2>2
<1>6. UsedPages(R) \cap Z = {}
  <2> SUFFICES ASSUME NEW x \in Z PROVE x \notin UsedPages(R)
    OBVIOUS
  <2>1. x[1] = r
    OBVIOUS
  <2> HIDE DEF Z
  <2> QED
    BY <2>1 DEF UsedPages
<1> HIDE DEF Z
<1>7. UsedPages(R2) = UsedPages(R) \cup Z
  BY <1>5
<1>8. Cardinality(UsedPages(R) \cup Z)
         = Cardinality(UsedPages(R)) + Cardinality(Z) - Cardinality(UsedPages(R) \cap Z)
  BY <1>4, UsedFinite, FS_Union
<1>9. Cardinality(UsedPages(R) \cap Z) = 0
  BY <1>6, FS_EmptySet
<1>10. Cardinality(UsedPages(R2)) = Cardinality(UsedPages(R)) + RunPages[c]
  <2>1. Cardinality(UsedPages(R)) \in Nat
    BY UsedFinite
  <2> QED
    BY <1>2, <1>4, <1>7, <1>8, <1>9, <2>1, SMT
<1> QED
  BY <1>1, <1>10 DEF R2

\* Giving a run back frees its pages.
LEMMA UsedFree ==
    ASSUME NEW R \in RunTable, NEW r \in RunNo, R[r] \in SizeIdx
    PROVE  LET R2 == [R EXCEPT ![r] = 0]
           IN  /\ R2 \in RunTable
               /\ Cardinality(UsedPages(R2)) = Cardinality(UsedPages(R)) - RunPages[R[r]]
<1> DEFINE R2 == [R EXCEPT ![r] = 0]
           c == R[r]
<1>1. R2 \in RunTable /\ R2[r] = 0
  BY DEF RunTable
<1>2. [R2 EXCEPT ![r] = c] = R
  BY DEF RunTable
<1> HIDE DEF R2, c
<1>3. c \in SizeIdx
  BY DEF c
<1>4. Cardinality(UsedPages(R)) = Cardinality(UsedPages(R2)) + RunPages[c]
  <2>1. Cardinality(UsedPages([R2 EXCEPT ![r] = c])) = Cardinality(UsedPages(R2)) + RunPages[c]
    BY <1>1, <1>3, UsedTake
  <2> QED
    BY <1>2, <2>1
<1>5. RunPages[c] \in Int /\ Cardinality(UsedPages(R2)) \in Nat
  BY <1>1, <1>3, UsedFinite, RunLengths, SMT
<1> QED
  BY <1>1, <1>4, <1>5, SMT DEF R2, c

\* No page is in use exactly when no run is; and with every run in use the chunk is full.
LEMMA UsedEnds ==
    ASSUME NEW R \in RunTable
    PROVE  /\ Cardinality(UsedPages(R)) = 0 <=> \A r \in RunNo : R[r] = 0
           /\ (\A r \in RunNo : R[r] # 0) => Cardinality(UsedPages(R)) >= ChunkPages
<1>1. \A r \in RunNo : R[r] # 0 => <<r, 1>> \in UsedPages(R)
  <2> SUFFICES ASSUME NEW r \in RunNo, R[r] # 0 PROVE <<r, 1>> \in UsedPages(R)
    OBVIOUS
  <2>1. R[r] \in SizeIdx
    BY DEF RunTable
  <2>2. RunPages[R[r]] >= 1 /\ 1 \in RunNo
    BY <2>1, RunLengths, Bands, SMT
  <2> QED
    BY <2>2 DEF UsedPages
<1>2. Cardinality(UsedPages(R)) = 0 <=> UsedPages(R) = {}
  BY UsedFinite, FS_EmptySet
<1>3. (\A r \in RunNo : R[r] = 0) => UsedPages(R) = {}
  BY DEF UsedPages
<1>4. ASSUME \A r \in RunNo : R[r] # 0 PROVE Cardinality(UsedPages(R)) >= ChunkPages
  <2> DEFINE Z == RunNo \X {1}
  <2>1. Z \subseteq UsedPages(R)
    BY <1>1, <1>4, SMT
  <2>2. IsFiniteSet(RunNo) /\ Cardinality(RunNo) = ChunkPages
    <3>1. 1 \in Int /\ ChunkPages \in Int /\ ChunkPages >= 1
      BY Bands, SMT
    <3>2. /\ IsFiniteSet(1 .. ChunkPages)
          /\ Cardinality(1 .. ChunkPages) = IF 1 > ChunkPages THEN 0 ELSE ChunkPages - 1 + 1
      BY <3>1, FS_Interval
    <3> QED
      BY <3>1, <3>2, SMT DEF RunNo
  <2>3. IsFiniteSet({1}) /\ Cardinality({1}) = 1
    BY FS_Singleton
  <2>4. Cardinality(Z) = Cardinality(RunNo) * 1
    BY <2>2, <2>3, FS_Product
  <2> HIDE DEF Z
  <2>5. Cardinality(Z) <= Cardinality(UsedPages(R))
    BY <2>1, UsedFinite, FS_Subset
  <2>6. Cardinality(UsedPages(R)) \in Nat
    BY UsedFinite
  <2> QED
    BY <2>2, <2>4, <2>5, <2>6, Bands, SMT
<1> QED
  BY <1>1, <1>2, <1>3, <1>4

----------------------------------------------------------------------------
(* What the calls do to the holders.                                         *)

\* NoHandle is not a handle.
LEMMA NoHandleOut == NoHandle \notin Handle
<1>1. 0 \notin Chunk
  BY ArenaAssumption
<1>2. \A h \in Handle : h.chunk \in Chunk
  BY DEF Handle
<1>3. NoHandle.chunk = 0
  BY DEF NoHandle
<1> QED
  BY <1>1, <1>2, <1>3

\* What it is to be in a queue, and to be held.
LEMMA HeldProps ==
    ASSUME NEW bf, NEW q, NEW o, NEW h
    PROVE  /\ h \in InQueues(q) <=> \E t \in Thread, c \in Cached : h \in Range(q[t][c])
           /\ h \in HeldIn(bf, q, o) <=>
                 /\ h # NoHandle
                 /\ \/ \E b \in Buf : h = bf[b]
                    \/ \E t \in Thread : h = o[t]
                    \/ h \in InQueues(q)
<1>1. h \in InQueues(q) <=> \E t \in Thread, c \in Cached : h \in Range(q[t][c])
  BY SMT DEF InQueues
<1>2. h \in HeldIn(bf, q, o) <=>
         /\ h # NoHandle
         /\ \/ \E b \in Buf : h = bf[b]
            \/ \E t \in Thread : h = o[t]
            \/ h \in InQueues(q)
  BY DEF HeldIn
<1> QED
  BY <1>1, <1>2

\* The invariant after a step, from its parts.
LEMMA InvStep ==
    ASSUME NEW bf, NEW q, NEW o, NEW H, NEW D,
           bf = buf', q = cache', o = olds', HoldersOK(bf, q, o), H = HeldIn(bf, q, o),
           D = Dying', ChunksOK(H, D)', CallsOK', ~failed'
    PROVE  ArenaInv'
<1>1. HoldersOK(buf, cache, olds)'
  BY SMT DEF HoldersOK, HolderTypes, InQueues
<1>2. HeldIn(buf, cache, olds)' = H
  BY SMT DEF HeldIn, InQueues
<1>3. ChunksOK(HeldIn(buf, cache, olds), Dying)'
  <2>1. BodyOK(HeldIn(buf, cache, olds))'
    BY <1>2 DEF ChunksOK, BodyOK, MemoryOK
  <2>2. EmptyOK(Dying)'
    BY DEF ChunksOK, EmptyOK
  <2>3. ListsOK(Dying)'
    BY DEF ChunksOK, ListsOK
  <2> QED
    BY <2>1, <2>2, <2>3 DEF ChunksOK
<1> QED
  BY <1>1, <1>3, SMT DEF ArenaInv

\* What an allocated subpage's bitmap may hold.
LEMMA SubBits == \A sub, c : GoodSub(sub, c) => sub.bits \subseteq Int
BY SMT DEF GoodSub, Subpage

\* Where the program may have a handle.
LEMMA HolderPlaces == \A h, x : x \in Holders(h) => HeldAt(h, x)
BY SMT DEF Holders, HeldAt

\* The handles the program has are the ones in those places.
LEMMA HeldPlaces ==
    \A h : h \in Held <=>
       \/ \E b \in Buf : buf[b] # NoHandle /\ h = buf[b]
       \/ \E t \in Thread : local[t].old # NoHandle /\ h = local[t].old
       \/ h \in InQueues(cache)
BY SMT DEF Held, InBuffers, InCalls, InQueues

\* Where an allocation goes when the cache has nothing for it.
LEMMA MissPc ==
    /\ \A c : Miss(c) = "normal" \/ (Miss(c) = "ring" /\ c \in Small)
    /\ {"release", "ring", "normal", "trim"} \subseteq Pc
BY SMT DEF Miss, Pc

\* Everything held is a handle.
LEMMA HeldHandles ==
    ASSUME NEW bf, NEW q, NEW o, HolderTypes(bf, q, o)
    PROVE  HeldIn(bf, q, o) \subseteq Handle
<1> SUFFICES ASSUME NEW h \in HeldIn(bf, q, o) PROVE h \in Handle
  OBVIOUS
<1>1. /\ h # NoHandle
      /\ \/ \E b \in Buf : h = bf[b]
         \/ \E t \in Thread : h = o[t]
         \/ h \in InQueues(q)
  BY HeldProps
<1>2. CASE h \in InQueues(q)
  <2>1. PICK t \in Thread, c \in Cached : h \in Range(q[t][c])
    BY <1>2, HeldProps
  <2>2. q[t][c] \in Seq(Handle)
    BY DEF HolderTypes
  <2> QED
    BY <2>1, <2>2, SetOf
<1> QED
  BY <1>1, <1>2, SMT DEF HolderTypes

\* f2 is f with h at x; q2 is q without h, the oldest entry of a queue.
Stored(f, x, h, f2) == f2 = [f EXCEPT ![x] = h]
Popped(q, t, c, h, q2) ==
    q[t][c] # <<>> /\ h = Head(q[t][c]) /\ q2 = [q EXCEPT ![t][c] = Tail(@)]

\* A call lets go of the handle it was about to free.
LEMMA ClearOld ==
    ASSUME NEW bf, NEW q, NEW o, NEW o0, HoldersOK(bf, q, o), NEW t \in Thread,
           Stored(o, t, NoHandle, o0)
    PROVE  /\ HoldersOK(bf, q, o0)
           /\ HeldIn(bf, q, o0) = HeldIn(bf, q, o) \ {o[t]}
<1>1. /\ o0[t] = NoHandle /\ \A u \in Thread \ {t} : o0[u] = o[u]
      /\ o0 \in [Thread -> Handle \cup {NoHandle}]
  BY DEF HoldersOK, HolderTypes, Stored
<1>2. NoHandle \notin InQueues(q)
  <2> SUFFICES ASSUME NEW u \in Thread, NEW c \in Cached PROVE NoHandle \notin Range(q[u][c])
    BY HeldProps
  <2>1. q[u][c] \in Seq(Handle)
    BY SMT DEF HoldersOK, HolderTypes
  <2> QED
    BY <2>1, SetOf, NoHandleOut
<1>3. HoldersOK(bf, q, o0)
  BY <1>1, <1>2 DEF HoldersOK, HolderTypes
<1>4. ASSUME NEW h PROVE h \in HeldIn(bf, q, o0) <=> h \in HeldIn(bf, q, o) \ {o[t]}
  <2>1. h = o[t] /\ h # NoHandle => /\ h \notin InQueues(q)
                                    /\ \A b \in Buf : bf[b] # h
                                    /\ \A u \in Thread : o0[u] # h
    BY <1>1 DEF HoldersOK
  <2>2. h \in HeldIn(bf, q, o0) <=>
         h # NoHandle /\ ((\E b \in Buf : h = bf[b]) \/ (\E u \in Thread : h = o0[u]) \/ h \in InQueues(q))
    BY HeldProps
  <2>3. h \in HeldIn(bf, q, o) <=>
         h # NoHandle /\ ((\E b \in Buf : h = bf[b]) \/ (\E u \in Thread : h = o[u]) \/ h \in InQueues(q))
    BY HeldProps
  <2> QED
    BY <1>1, <2>1, <2>2, <2>3
<1> QED
  BY <1>3, <1>4

\* A call takes a handle that nothing holds.
LEMMA PutOld ==
    ASSUME NEW bf, NEW q, NEW o, HoldersOK(bf, q, o), NEW t \in Thread, o[t] = NoHandle,
           NEW h \in Handle, h \notin HeldIn(bf, q, o)
    PROVE  LET o2 == [o EXCEPT ![t] = h]
           IN  /\ HoldersOK(bf, q, o2)
               /\ HeldIn(bf, q, o2) = HeldIn(bf, q, o) \cup {h}
<1> DEFINE o2 == [o EXCEPT ![t] = h]
<1>1. /\ o2[t] = h /\ \A u \in Thread \ {t} : o2[u] = o[u]
      /\ o2 \in [Thread -> Handle \cup {NoHandle}]
  BY SMT DEF HoldersOK, HolderTypes
<1> HIDE DEF o2
<1>2. /\ h # NoHandle /\ h \notin InQueues(q)
      /\ \A b \in Buf : bf[b] # h
      /\ \A u \in Thread : o[u] # h
  BY HeldProps, NoHandleOut
<1>3. HoldersOK(bf, q, o2)
  <2>1. HolderTypes(bf, q, o2)
    BY <1>1 DEF HoldersOK, HolderTypes
  <2>2. \A u, v \in Thread : o2[u] = o2[v] /\ o2[u] # NoHandle => u = v
    BY <1>1, <1>2, SMT DEF HoldersOK
  <2>3. \A b \in Buf, u \in Thread : bf[b] # NoHandle => bf[b] # o2[u]
    BY <1>1, <1>2, SMT DEF HoldersOK
  <2>4. \A u \in Thread : o2[u] \notin InQueues(q)
    BY <1>1, <1>2 DEF HoldersOK
  <2> QED
    BY <2>1, <2>2, <2>3, <2>4 DEF HoldersOK
<1>4. ASSUME NEW g PROVE g \in HeldIn(bf, q, o2) <=> g \in HeldIn(bf, q, o) \cup {h}
  <2>2. g \in HeldIn(bf, q, o2) <=>
         g # NoHandle /\ ((\E b \in Buf : g = bf[b]) \/ (\E u \in Thread : g = o2[u]) \/ g \in InQueues(q))
    BY HeldProps
  <2>3. g \in HeldIn(bf, q, o) <=>
         g # NoHandle /\ ((\E b \in Buf : g = bf[b]) \/ (\E u \in Thread : g = o[u]) \/ g \in InQueues(q))
    BY HeldProps
  <2> QED
    BY <1>1, <1>2, <2>2, <2>3
<1> QED
  BY <1>3, <1>4 DEF o2

\* A buffer lets go of its handle.
LEMMA TakeBuf ==
    ASSUME NEW bf, NEW b0, NEW q, NEW o, HoldersOK(bf, q, o), NEW b \in Buf,
           Stored(bf, b, NoHandle, b0)
    PROVE  LetGo(bf, b, q, o, b0)
<1>1. /\ b0[b] = NoHandle /\ \A a \in Buf \ {b} : b0[a] = bf[a]
      /\ b0 \in [Buf -> Handle \cup {NoHandle}]
  BY DEF HoldersOK, HolderTypes, Stored
<1>2. NoHandle \notin InQueues(q)
  <2> SUFFICES ASSUME NEW u \in Thread, NEW c \in Cached PROVE NoHandle \notin Range(q[u][c])
    BY HeldProps
  <2>1. q[u][c] \in Seq(Handle)
    BY SMT DEF HoldersOK, HolderTypes
  <2> QED
    BY <2>1, SetOf, NoHandleOut
<1>3. HoldersOK(b0, q, o)
  BY <1>1, <1>2 DEF HoldersOK, HolderTypes
<1>4. ASSUME NEW h PROVE h \in HeldIn(b0, q, o) <=> h \in HeldIn(bf, q, o) \ {bf[b]}
  <2>1. h = bf[b] /\ h # NoHandle => /\ h \notin InQueues(q)
                                     /\ \A a \in Buf : b0[a] # h
                                     /\ \A u \in Thread : o[u] # h
    BY <1>1 DEF HoldersOK
  <2>2. h \in HeldIn(b0, q, o) <=>
         h # NoHandle /\ ((\E a \in Buf : h = b0[a]) \/ (\E u \in Thread : h = o[u]) \/ h \in InQueues(q))
    BY HeldProps
  <2>3. h \in HeldIn(bf, q, o) <=>
         h # NoHandle /\ ((\E a \in Buf : h = bf[a]) \/ (\E u \in Thread : h = o[u]) \/ h \in InQueues(q))
    BY HeldProps
  <2> QED
    BY <1>1, <2>1, <2>2, <2>3
<1> QED
  BY <1>3, <1>4 DEF LetGo

\* An empty buffer takes a handle that nothing holds.
LEMMA PutBuf ==
    ASSUME NEW bf, NEW b2, NEW q, NEW o, HoldersOK(bf, q, o), NEW b \in Buf,
           bf[b] = NoHandle, NEW h \in Handle, h \notin HeldIn(bf, q, o), Stored(bf, b, h, b2)
    PROVE  /\ HoldersOK(b2, q, o)
           /\ HeldIn(b2, q, o) = HeldIn(bf, q, o) \cup {h}
<1>1. /\ b2[b] = h /\ \A a \in Buf \ {b} : b2[a] = bf[a]
      /\ b2 \in [Buf -> Handle \cup {NoHandle}]
  BY SMT DEF HoldersOK, HolderTypes, Stored
<1>2. /\ h # NoHandle /\ h \notin InQueues(q)
      /\ \A a \in Buf : bf[a] # h
      /\ \A u \in Thread : o[u] # h
  BY HeldProps, NoHandleOut
<1>3. HoldersOK(b2, q, o)
  <2>1. HolderTypes(b2, q, o)
    BY <1>1 DEF HoldersOK, HolderTypes
  <2>2. \A a, d \in Buf : b2[a] = b2[d] /\ b2[a] # NoHandle => a = d
    BY <1>1, <1>2, SMT DEF HoldersOK
  <2>3. \A a \in Buf, u \in Thread : b2[a] # NoHandle => b2[a] # o[u]
    BY <1>1, <1>2, SMT DEF HoldersOK
  <2>4. \A a \in Buf : b2[a] \notin InQueues(q)
    BY <1>1, <1>2 DEF HoldersOK
  <2> QED
    BY <2>1, <2>2, <2>3, <2>4 DEF HoldersOK
<1>4. ASSUME NEW g PROVE g \in HeldIn(b2, q, o) <=> g \in HeldIn(bf, q, o) \cup {h}
  <2>2. g \in HeldIn(b2, q, o) <=>
         g # NoHandle /\ ((\E a \in Buf : g = b2[a]) \/ (\E u \in Thread : g = o[u]) \/ g \in InQueues(q))
    BY HeldProps, SMT
  <2>3. g \in HeldIn(bf, q, o) <=>
         g # NoHandle /\ ((\E a \in Buf : g = bf[a]) \/ (\E u \in Thread : g = o[u]) \/ g \in InQueues(q))
    BY HeldProps
  <2> QED
    BY <1>1, <1>2, <2>2, <2>3
<1> QED
  BY <1>3, <1>4

\* A queue loses its oldest entry.
LEMMA TakeHead ==
    ASSUME NEW bf, NEW q, NEW q2, NEW o, HoldersOK(bf, q, o), NEW t \in Thread,
           NEW c \in Cached, NEW h, Popped(q, t, c, h, q2)
    PROVE  /\ h \in HeldIn(bf, q, o)
           /\ HoldersOK(bf, q2, o)
           /\ HeldIn(bf, q2, o) = HeldIn(bf, q, o) \ {h}
<1> DEFINE s  == q[t][c]
<1>1. s \in Seq(Handle) /\ IsInjective(s) /\ s # <<>>
  BY SMT DEF HoldersOK, HolderTypes, Popped
<1>0. h = Head(s)
  BY DEF Popped
<1>2. /\ h \in Handle /\ h \in Range(s) /\ Tail(s) \in Seq(Handle) /\ IsInjective(Tail(s))
      /\ Range(Tail(s)) = Range(s) \ {h}
  <2> HIDE DEF s
  <2> QED
    BY <1>0, <1>1, InjTail
<1>3. /\ q2[t][c] = Tail(s)
      /\ \A u \in Thread, d \in Cached : u # t \/ d # c => q2[u][d] = q[u][d]
      /\ q2 \in [Thread -> [Cached -> Seq(Handle)]]
  BY <1>2, SMT DEF HoldersOK, HolderTypes, Popped
<1>4. s = q[t][c]
  OBVIOUS
<1> HIDE DEF s
<1>5. ASSUME NEW g PROVE g \in InQueues(q2) <=> g \in InQueues(q) /\ g # h
  <2>1. g \in InQueues(q) <=> \E u \in Thread, d \in Cached : g \in Range(q[u][d])
    BY HeldProps
  <2>2. g \in InQueues(q2) <=> \E u \in Thread, d \in Cached : g \in Range(q2[u][d])
    BY HeldProps
  <2>3. g = h => \A u \in Thread, d \in Cached : g \notin Range(q2[u][d])
    <3> SUFFICES ASSUME NEW u \in Thread, NEW d \in Cached PROVE h \notin Range(q2[u][d])
      OBVIOUS
    <3>1. h \in Range(q[u][d]) => u = t /\ d = c
      BY <1>2, <1>4 DEF HoldersOK
    <3> QED
      BY <1>2, <1>3, <1>4, <3>1
  <2> QED
    BY <1>2, <1>3, <1>4, <2>1, <2>2, <2>3
<1>6. HoldersOK(bf, q2, o)
  <2>1. HolderTypes(bf, q2, o)
    BY <1>3 DEF HoldersOK, HolderTypes
  <2>2. \A u \in Thread, d \in Cached : IsInjective(q2[u][d])
    BY <1>2, <1>3 DEF HoldersOK
  <2>3. \A u, v \in Thread, d, e \in Cached : \A g \in Handle :
          g \in Range(q2[u][d]) /\ g \in Range(q2[v][e]) => u = v /\ d = e
    <3>1. \A u \in Thread, d \in Cached : Range(q2[u][d]) \subseteq Range(q[u][d])
      BY <1>2, <1>3, <1>4
    <3> QED
      BY <3>1, SMT DEF HoldersOK
  <2> QED
    BY <1>5, <2>1, <2>2, <2>3 DEF HoldersOK
<1>7. h \in InQueues(q) /\ h # NoHandle
  BY <1>2, <1>4, HeldProps, NoHandleOut
<1>8. h \in HeldIn(bf, q, o)
  BY <1>7, HeldProps
<1>9. ASSUME NEW g PROVE g \in HeldIn(bf, q2, o) <=> g \in HeldIn(bf, q, o) \ {h}
  <2>1. /\ \A b \in Buf : bf[b] # h
        /\ \A u \in Thread : o[u] # h
    BY <1>7, SMT DEF HoldersOK
  <2>2. g \in HeldIn(bf, q2, o) <=>
         g # NoHandle /\ ((\E a \in Buf : g = bf[a]) \/ (\E u \in Thread : g = o[u]) \/ g \in InQueues(q2))
    BY HeldProps
  <2>3. g \in HeldIn(bf, q, o) <=>
         g # NoHandle /\ ((\E a \in Buf : g = bf[a]) \/ (\E u \in Thread : g = o[u]) \/ g \in InQueues(q))
    BY HeldProps
  <2> QED
    BY <1>5, <2>1, <2>2, <2>3
<1> QED
  BY <1>6, <1>8, <1>9

\* A queue takes a handle that nothing holds.
LEMMA PutQueue ==
    ASSUME NEW bf, NEW q, NEW o, HoldersOK(bf, q, o), NEW t \in Thread,
           NEW h \in Handle, h \notin HeldIn(bf, q, o), Cacheable(h)
    PROVE  LET q2 == cacheAdd(q, t, h)
           IN  /\ HoldersOK(bf, q2, o)
               /\ HeldIn(bf, q2, o) = HeldIn(bf, q, o) \cup {h}
<1> DEFINE q2 == cacheAdd(q, t, h)
           c  == h.sizeIdx
           s  == q[t][c]
<1>1. c \in Cached /\ s \in Seq(Handle) /\ IsInjective(s)
  BY SMT DEF HoldersOK, HolderTypes, Cacheable
<1>2. /\ h # NoHandle /\ h \notin InQueues(q)
      /\ \A a \in Buf : bf[a] # h
      /\ \A u \in Thread : o[u] # h
  BY HeldProps, NoHandleOut
<1>3. \A u \in Thread, d \in Cached : h \notin Range(q[u][d])
  BY <1>2, HeldProps
<1>4. /\ Append(s, h) \in Seq(Handle) /\ IsInjective(Append(s, h))
      /\ Range(Append(s, h)) = Range(s) \cup {h}
  <2>1. h \notin Range(s)
    BY <1>1, <1>3
  <2> HIDE DEF s
  <2> QED
    BY <1>1, <2>1, InjAppend, SMT
<1>5. /\ q2[t][c] = Append(s, h)
      /\ \A u \in Thread, d \in Cached : u # t \/ d # c => q2[u][d] = q[u][d]
      /\ q2 \in [Thread -> [Cached -> Seq(Handle)]]
  BY <1>1, <1>4, SMT DEF HoldersOK, HolderTypes, cacheAdd
<1>6. s = q[t][c]
  OBVIOUS
<1> HIDE DEF q2, s, c
<1>10. Range(q2[t][c]) = Range(q[t][c]) \cup {h}
  BY <1>4, <1>5, <1>6
<1>11. \A u \in Thread, d \in Cached : u # t \/ d # c => q2[u][d] = q[u][d]
  BY <1>5
<1>7. ASSUME NEW g PROVE g \in InQueues(q2) <=> g \in InQueues(q) \/ g = h
  <2>1. g \in InQueues(q) <=> \E u \in Thread, d \in Cached : g \in Range(q[u][d])
    BY HeldProps
  <2>2. g \in InQueues(q2) <=> \E u \in Thread, d \in Cached : g \in Range(q2[u][d])
    BY HeldProps
  <2> QED
    BY <1>1, <1>10, <1>11, <2>1, <2>2, SMT
<1>8. HoldersOK(bf, q2, o)
  <2>1. HolderTypes(bf, q2, o)
    BY <1>5 DEF HoldersOK, HolderTypes
  <2>2. \A u \in Thread, d \in Cached : IsInjective(q2[u][d])
    BY <1>4, <1>5 DEF HoldersOK
  <2>3. \A u, v \in Thread, d, e \in Cached : \A g \in Handle :
          g \in Range(q2[u][d]) /\ g \in Range(q2[v][e]) => u = v /\ d = e
    <3>1. \A u \in Thread, d \in Cached : \A g : g \in Range(q2[u][d]) <=>
              g \in Range(q[u][d]) \/ (g = h /\ u = t /\ d = c)
      BY <1>10, <1>11, SMT
    <3> QED
      BY <1>3, <3>1, SMT DEF HoldersOK
  <2>4. \A b \in Buf : bf[b] \notin InQueues(q2)
    BY <1>2, <1>7, SMT DEF HoldersOK
  <2>5. \A u \in Thread : o[u] \notin InQueues(q2)
    BY <1>2, <1>7 DEF HoldersOK
  <2> QED
    BY <2>1, <2>2, <2>3, <2>4, <2>5 DEF HoldersOK
<1>9. ASSUME NEW g PROVE g \in HeldIn(bf, q2, o) <=> g \in HeldIn(bf, q, o) \cup {h}
  <2>2. g \in HeldIn(bf, q2, o) <=>
         g # NoHandle /\ ((\E a \in Buf : g = bf[a]) \/ (\E u \in Thread : g = o[u]) \/ g \in InQueues(q2))
    BY HeldProps
  <2>3. g \in HeldIn(bf, q, o) <=>
         g # NoHandle /\ ((\E a \in Buf : g = bf[a]) \/ (\E u \in Thread : g = o[u]) \/ g \in InQueues(q))
    BY HeldProps
  <2> QED
    BY <1>2, <1>7, <2>2, <2>3
<1> QED
  BY <1>8, <1>9 DEF q2

\* The end of a step: what the call still has to free goes to the cache, or stays with
\* the call.
LEMMA SettleHolders ==
    ASSUME NEW bf, NEW q, NEW t \in Thread, NEW l \in Call_, NEW o0,
           local \in [Thread -> Call_], Stored(olds, t, NoHandle, o0),
           HoldersOK(bf, q, o0), l.old = NoHandle \/ l.old \notin HeldIn(bf, q, o0),
           Settle(t, q, l)
    PROVE  /\ HoldersOK(bf, cache', olds')
           /\ HeldIn(bf, cache', olds') = HeldIn(bf, q, o0) \cup ({l.old} \ {NoHandle})
<1> DEFINE h  == l.old
<1>1. /\ o0[t] = NoHandle /\ \A u \in Thread \ {t} : o0[u] = local[u].old
      /\ DOMAIN o0 = Thread /\ o0 = [u \in Thread |-> o0[u]]
  BY DEF olds, Stored
<1>2. h \in Handle \cup {NoHandle}
  BY DEF Call_
<1>3. NoHandle.sizeIdx = 0 /\ 0 \notin Cached
  BY ArenaAssumption DEF NoHandle
<1>4. DOMAIN local = Thread /\ Idle.old = NoHandle
  BY DEF Idle
<1>5. CASE l.pc = "release" /\ Cacheable(h)
  <2>1. h # NoHandle /\ h \in Handle
    BY <1>2, <1>3, <1>5 DEF Cacheable
  <2>2. cache' = cacheAdd(q, t, h) /\ local' = [local EXCEPT ![t] = Idle]
    BY <1>5 DEF Settle
  <2>3. olds' = o0
    BY <1>1, <1>4, <2>2 DEF olds
  <2>5. HoldersOK(bf, q, o0) /\ h \notin HeldIn(bf, q, o0)
    BY <2>1
  <2> HIDE DEF h
  <2>4. /\ HoldersOK(bf, cacheAdd(q, t, h), o0)
        /\ HeldIn(bf, cacheAdd(q, t, h), o0) = HeldIn(bf, q, o0) \cup {h}
    BY <1>5, <2>1, <2>5, PutQueue, SMT
  <2> QED
    BY <2>1, <2>2, <2>3, <2>4 DEF h
<1>6. CASE ~(l.pc = "release" /\ Cacheable(h)) /\ h = NoHandle
  <2>1. /\ cache' = q
        /\ local' = [local EXCEPT ![t] = Idle] \/ local' = [local EXCEPT ![t] = l]
    BY <1>6 DEF Settle
  <2>2. olds' = o0
    BY <1>1, <1>4, <1>6, <2>1 DEF olds
  <2> QED
    BY <1>6, <2>1, <2>2
<1>7. CASE ~(l.pc = "release" /\ Cacheable(h)) /\ h # NoHandle
  <2>1. cache' = q /\ local' = [local EXCEPT ![t] = l]
    BY <1>7 DEF Settle
  <2>2. olds' = [o0 EXCEPT ![t] = h]
    BY <1>1, <1>4, <2>1, SMT DEF olds
  <2>3. h \in Handle /\ h \notin HeldIn(bf, q, o0)
    BY <1>2, <1>7
  <2> HIDE DEF h
  <2>4. /\ HoldersOK(bf, q, [o0 EXCEPT ![t] = h])
        /\ HeldIn(bf, q, [o0 EXCEPT ![t] = h]) = HeldIn(bf, q, o0) \cup {h}
    BY <1>1, <2>3, PutOld, SMT
  <2> QED
    BY <1>7, <2>1, <2>2, <2>4 DEF h
<1> QED
  BY <1>5, <1>6, <1>7

----------------------------------------------------------------------------
(* What a step does inside a chunk: to the one run it is about.              *)

\* H2 is what H becomes when run r of chunk k becomes x with subpage S: the handles on
\* that run are those that then fit, the others stay.
Refit(H, H2, k, r, x, S) ==
    /\ x \in SizeIdx \cup {0}
    /\ IF x \in Small THEN GoodSub(S, x) ELSE S = NoSubpage
    /\ H2 \subseteq Handle
    /\ \A g \in Handle : g.chunk = k /\ g.run = r =>
          (g \in H2 <=> x = g.sizeIdx /\ IF x \in Small THEN g.elem \in S.bits
                                                        ELSE g.elem = -1)
    /\ \A g \in Handle : ~(g.chunk = k /\ g.run = r) => (g \in H2 <=> g \in H)

\* The subpages and the handles still fit the runs.
LEMMA SpotChange ==
    ASSUME NEW H, BodyTypes, SubpagesOK, MemoryOK(H),
           NEW k \in Chunk, NEW r \in RunNo, NEW x, NEW S, NEW H2,
           runs' = [runs EXCEPT ![k][r] = x],
           m_subpages' = [m_subpages EXCEPT ![k][r] = S],
           Refit(H, H2, k, r, x, S)
    PROVE  /\ runs' \in [Chunk -> RunTable]
           /\ m_subpages' \in [Chunk -> [RunNo -> Subpage \cup {NoSubpage}]]
           /\ SubpagesOK' /\ MemoryOK(H2)'
<1>0. /\ x \in SizeIdx \cup {0}
      /\ IF x \in Small THEN GoodSub(S, x) ELSE S = NoSubpage
      /\ H2 \subseteq Handle
      /\ \A g \in Handle : g.chunk = k /\ g.run = r =>
            (g \in H2 <=> x = g.sizeIdx /\ IF x \in Small THEN g.elem \in S.bits
                                                          ELSE g.elem = -1)
      /\ \A g \in Handle : ~(g.chunk = k /\ g.run = r) => (g \in H2 <=> g \in H)
  BY DEF Refit
<1>1. /\ runs'[k][r] = x
      /\ \A j \in Chunk, n \in RunNo : j # k \/ n # r => runs'[j][n] = runs[j][n]
      /\ runs' \in [Chunk -> RunTable]
  BY <1>0, SMT DEF BodyTypes, RunTable
<1>2. S \in Subpage \cup {NoSubpage}
  BY <1>0 DEF GoodSub
<1>3. /\ m_subpages'[k][r] = S
      /\ \A j \in Chunk, n \in RunNo : j # k \/ n # r => m_subpages'[j][n] = m_subpages[j][n]
      /\ m_subpages' \in [Chunk -> [RunNo -> Subpage \cup {NoSubpage}]]
  BY <1>2, SMT DEF BodyTypes
<1>4. SubpagesOK'
  <2> SUFFICES ASSUME NEW j \in Chunk, NEW n \in RunNo
               PROVE  IF runs'[j][n] \in Small THEN GoodSub(m_subpages'[j][n], runs'[j][n])
                                               ELSE m_subpages'[j][n] = NoSubpage
    BY DEF SubpagesOK, GoodSub
  <2>1. CASE j = k /\ n = r
    BY <1>0, <1>1, <1>3, <2>1, SMT
  <2>2. CASE j # k \/ n # r
    <3>1. runs'[j][n] = runs[j][n] /\ m_subpages'[j][n] = m_subpages[j][n]
      BY <1>1, <1>3, <2>2
    <3>2. IF runs[j][n] \in Small THEN GoodSub(m_subpages[j][n], runs[j][n])
                                  ELSE m_subpages[j][n] = NoSubpage
      BY DEF SubpagesOK
    <3> QED
      BY <3>1, <3>2
  <2> QED
    BY <2>1, <2>2
<1>5. \A g \in Handle : HandleFits(g)' <=> g \in H2
  <2> SUFFICES ASSUME NEW g \in Handle PROVE HandleFits(g)' <=> g \in H2
    OBVIOUS
  <2>1. g.chunk \in Chunk /\ g.run \in RunNo
    BY DEF Handle
  <2>2. HandleFits(g)' <=> /\ runs'[g.chunk][g.run] = g.sizeIdx
                           /\ IF g.sizeIdx \in Small
                              THEN g.elem \in m_subpages'[g.chunk][g.run].bits
                              ELSE g.elem = -1
    BY DEF HandleFits
  <2>3. CASE g.chunk = k /\ g.run = r
    BY <1>0, <1>1, <1>3, <2>2, <2>3, SMT
  <2>4. CASE ~(g.chunk = k /\ g.run = r)
    <3>1. /\ runs'[g.chunk][g.run] = runs[g.chunk][g.run]
          /\ m_subpages'[g.chunk][g.run] = m_subpages[g.chunk][g.run]
      BY <1>1, <1>3, <2>1, <2>4, SMT
    <3>2. HandleFits(g)' <=> HandleFits(g)
      BY <2>2, <3>1 DEF HandleFits
    <3>3. HandleFits(g) <=> g \in H
      BY DEF MemoryOK
    <3> QED
      BY <1>0, <2>4, <3>2, <3>3
  <2> QED
    BY <2>3, <2>4
<1>6. MemoryOK(H2)'
  BY <1>0, <1>5 DEF MemoryOK
<1> QED
  BY <1>1, <1>3, <1>4, <1>6

\* The same change seen from the rings, when the run is of no small size before or after.
LEMMA RingSame ==
    ASSUME RingOK, BodyTypes,
           NEW k \in Chunk, NEW r \in RunNo, NEW x, runs[k][r] \notin Small, x \notin Small,
           runs' = [runs EXCEPT ![k][r] = x], m_subpages' = m_subpages, ring' = ring
    PROVE  RingOK'
<1>1. \A d \in Small, j \in Chunk, n \in RunNo : runs'[j][n] = d <=> runs[j][n] = d
  BY DEF BodyTypes, RunTable
<1> SUFFICES ASSUME NEW d \in Small
             PROVE  /\ IsInjective(ring'[d])
                    /\ \A j \in Chunk, n \in RunNo :
                          <<j, n>> \in Range(ring'[d]) <=>
                             runs'[j][n] = d /\ HasFree(m_subpages'[j][n])
                    /\ \A at, too \in Range(ring'[d]) :
                          SubAt(at)'.bits = {} /\ SubAt(too)'.bits = {} => at = too
  BY DEF RingOK, HasFree
<1>2. /\ IsInjective(ring[d])
      /\ \A j \in Chunk, n \in RunNo :
            <<j, n>> \in Range(ring[d]) <=> runs[j][n] = d /\ HasFree(m_subpages[j][n])
      /\ \A at, too \in Range(ring[d]) :
            SubAt(at).bits = {} /\ SubAt(too).bits = {} => at = too
  BY DEF RingOK
<1>3. ring'[d] = ring[d]
  OBVIOUS
<1>4. ASSUME NEW j \in Chunk, NEW n \in RunNo
      PROVE  <<j, n>> \in Range(ring'[d]) <=>
                runs'[j][n] = d /\ HasFree(m_subpages'[j][n])
  <2>1. runs'[j][n] = d <=> runs[j][n] = d
    BY <1>1, SMT
  <2>2. m_subpages'[j][n] = m_subpages[j][n]
    OBVIOUS
  <2>3. <<j, n>> \in Range(ring[d]) <=> runs[j][n] = d /\ HasFree(m_subpages[j][n])
    BY <1>2
  <2> QED
    BY <1>3, <2>1, <2>2, <2>3
<1>5. \A at : SubAt(at)' = SubAt(at)
  BY DEF SubAt
<1> QED
  BY <1>2, <1>3, <1>4, <1>5

\* s is what the ring of size c becomes when run r of chunk k, of that size or free,
\* becomes x with subpage S: the run is in it when it has a free element, the others
\* stay, and only one of the entries is wholly free.
Rering(s, k, r, c, x, S) ==
    /\ x \in {c, 0} /\ runs[k][r] \in {c, 0}
    /\ s \in Seq(Chunk \X RunNo) /\ IsInjective(s)
    /\ \A at \in Chunk \X RunNo :
          at # <<k, r>> => (at \in Range(s) <=> at \in Range(ring[c]))
    /\ <<k, r>> \in Range(s) <=> x = c /\ HasFree(S)
    /\ <<k, r>> \in Range(s) /\ S.bits = {} =>
          \A at \in Range(s) : at # <<k, r>> => SubAt(at).bits # {}

\* And when it is of size c or free: ring c gains or loses the run, and no other.
LEMMA RingChange ==
    ASSUME RingOK, BodyTypes,
           NEW k \in Chunk, NEW r \in RunNo, NEW c \in Small, NEW x, NEW S, NEW s,
           runs' = [runs EXCEPT ![k][r] = x],
           m_subpages' = [m_subpages EXCEPT ![k][r] = S],
           ring' = [ring EXCEPT ![c] = s],
           Rering(s, k, r, c, x, S)
    PROVE  RingOK' /\ ring' \in [Small -> Seq(Chunk \X RunNo)]
<1>0. /\ x \in {c, 0} /\ runs[k][r] \in {c, 0}
      /\ s \in Seq(Chunk \X RunNo) /\ IsInjective(s)
      /\ \A at \in Chunk \X RunNo :
            at # <<k, r>> => (at \in Range(s) <=> at \in Range(ring[c]))
      /\ <<k, r>> \in Range(s) <=> x = c /\ HasFree(S)
      /\ <<k, r>> \in Range(s) /\ S.bits = {} =>
            \A at \in Range(s) : at # <<k, r>> => SubAt(at).bits # {}
  BY DEF Rering
<1>1. /\ runs'[k][r] = x
      /\ \A j \in Chunk, n \in RunNo : j # k \/ n # r => runs'[j][n] = runs[j][n]
  BY DEF BodyTypes, RunTable
<1>2. /\ m_subpages'[k][r] = S
      /\ \A j \in Chunk, n \in RunNo : j # k \/ n # r => m_subpages'[j][n] = m_subpages[j][n]
  BY DEF BodyTypes
<1>3. /\ ring'[c] = s /\ \A d \in Small \ {c} : ring'[d] = ring[d]
      /\ ring' \in [Small -> Seq(Chunk \X RunNo)]
  BY <1>0 DEF BodyTypes
<1>4. 0 \notin Small
  BY ArenaAssumption
<1>5. ASSUME NEW d \in Small, NEW j \in Chunk, NEW n \in RunNo
      PROVE  <<j, n>> \in Range(ring'[d]) <=> runs'[j][n] = d /\ HasFree(m_subpages'[j][n])
  <2>1. <<j, n>> \in Range(ring[d]) <=> runs[j][n] = d /\ HasFree(m_subpages[j][n])
    BY DEF RingOK
  <2>2. CASE j = k /\ n = r
    <3>1. CASE d = c
      <4>1. <<k, r>> \in Range(s) <=> x = c /\ HasFree(S)
        BY <1>0
      <4>2. runs'[j][n] = x /\ m_subpages'[j][n] = S /\ ring'[d] = s
        BY <1>1, <1>2, <1>3, <2>2, <3>1
      <4> QED
        BY <2>2, <3>1, <4>1, <4>2
    <3>2. CASE d # c
      <4>1. runs[k][r] # d /\ x # d
        BY <1>0, <1>4, <3>2, SMT
      <4>2. runs[j][n] # d /\ runs'[j][n] # d
        BY <1>1, <2>2, <4>1
      <4>3. ring'[d] = ring[d]
        BY <1>3, <3>2
      <4> QED
        BY <2>1, <4>2, <4>3
    <3> QED
      BY <3>1, <3>2
  <2>3. CASE j # k \/ n # r
    <3>1. runs'[j][n] = runs[j][n] /\ m_subpages'[j][n] = m_subpages[j][n]
      BY <1>0, <1>1, <1>2, <2>3, SMT
    <3>2. <<j, n>> \in Range(ring'[d]) <=> <<j, n>> \in Range(ring[d])
      BY <1>0, <1>3, <2>3
    <3> QED
      BY <2>1, <3>1, <3>2
  <2> QED
    BY <2>2, <2>3
<1>6. ASSUME NEW at \in Chunk \X RunNo, at # <<k, r>>
      PROVE  m_subpages'[at[1]][at[2]] = m_subpages[at[1]][at[2]]
  <2>1. at = <<at[1], at[2]>> /\ at[1] \in Chunk /\ at[2] \in RunNo
    BY SMT
  <2>2. at[1] # k \/ at[2] # r
    BY <1>6, <2>1
  <2> QED
    BY <1>2, <2>1, <2>2, SMT
<1>7. ASSUME NEW d \in Small
      PROVE  /\ IsInjective(ring'[d])
             /\ \A at, too \in Range(ring'[d]) :
                   /\ m_subpages'[at[1]][at[2]].bits = {}
                   /\ m_subpages'[too[1]][too[2]].bits = {}
                   => at = too
  <2>1. IsInjective(ring'[d])
    BY <1>0, <1>3, SMT DEF RingOK
  <2>2. ring'[d] \in Seq(Chunk \X RunNo) /\ ring[d] \in Seq(Chunk \X RunNo)
    BY <1>0, <1>3 DEF BodyTypes
  <2>3. Range(ring'[d]) \subseteq Chunk \X RunNo /\ Range(ring[d]) \subseteq Chunk \X RunNo
    BY <2>2, SetOf
  <2>4. ASSUME NEW at \in Range(ring'[d]), NEW too \in Range(ring'[d]),
               m_subpages'[at[1]][at[2]].bits = {}, m_subpages'[too[1]][too[2]].bits = {}
        PROVE  at = too
    <3>1. \A a, b \in Range(ring[d]) : SubAt(a).bits = {} /\ SubAt(b).bits = {} => a = b
      BY DEF RingOK
    <3>2. at # <<k, r>> => SubAt(at).bits = {} /\ at \in Range(ring[d])
      BY <1>0, <1>3, <1>6, <2>3, <2>4 DEF SubAt
    <3>3. too # <<k, r>> => SubAt(too).bits = {} /\ too \in Range(ring[d])
      BY <1>0, <1>3, <1>6, <2>3, <2>4 DEF SubAt
    <3>4. CASE at # <<k, r>> /\ too # <<k, r>>
      BY <3>1, <3>2, <3>3, <3>4
    <3>5. ASSUME <<k, r>> \in Range(ring'[d]) PROVE d = c
      <4>1. runs'[k][r] = d
        BY <1>5, <3>5
      <4>2. x = d /\ x # 0
        BY <1>1, <1>4, <4>1
      <4> QED
        BY <1>0, <4>2
    <3>6. (at = <<k, r>> \/ too = <<k, r>>) => d = c /\ S.bits = {}
      BY <1>2, <2>4, <3>5, SMT
    <3>7. (at = <<k, r>> \/ too = <<k, r>>) =>
             \A a \in Range(ring'[d]) : a # <<k, r>> => SubAt(a).bits # {}
      BY <1>0, <1>3, <3>6
    <3>8. CASE at = <<k, r>>
      <4>1. too = <<k, r>>
        BY <3>3, <3>7, <3>8
      <4> QED
        BY <3>8, <4>1, SMT
    <3>9. CASE too = <<k, r>>
      <4>1. at = <<k, r>>
        BY <3>2, <3>7, <3>9
      <4> QED
        BY <3>9, <4>1
    <3> QED
      BY <3>4, <3>8, <3>9
  <2> QED
    BY <2>1, <2>4
<1>8. RingOK'
  BY <1>5, <1>7 DEF RingOK, SubAt, HasFree
<1> QED
  BY <1>0, <1>3, <1>8

\* A chunk with room for a run of size c has a run that is free.
LEMMA FreeRun ==
    ASSUME BodyTypes, PagesOK, NEW k \in Chunk, NEW c \in SizeIdx, m_freeBytes[k] >= RunPages[c]
    PROVE  LET r == Min({n \in RunNo : runs[k][n] = 0}) IN r \in RunNo /\ runs[k][r] = 0
<1> DEFINE T == {n \in RunNo : runs[k][n] = 0}
<1>1. runs[k] \in RunTable
  BY DEF BodyTypes
<1>2. RunPages[c] >= 1 /\ RunPages[c] \in Int
  BY RunLengths, SMT
<1>3. Cardinality(UsedPages(runs[k])) \in Nat
  BY <1>1, UsedFinite
<1>4. Cardinality(UsedPages(runs[k])) < ChunkPages
  <2>1. m_freeBytes[k] = ChunkPages - Cardinality(UsedPages(runs[k]))
    BY DEF PagesOK
  <2> QED
    BY <1>2, <1>3, <2>1, Bands, SMT
<1>5. ~ \A n \in RunNo : runs[k][n] # 0
  BY <1>1, <1>3, <1>4, UsedEnds, Bands, SMT
<1>6. T # {} /\ T \in SUBSET Nat
  BY <1>5, SMT DEF RunNo
<1>7. Min(T) \in T
  <2> HIDE DEF T
  <2> QED
    BY <1>6, MinProps
<1> QED
  BY <1>7

\* A run taken from a chunk with room for it.
LEMMA PagesTaken ==
    ASSUME BodyTypes, PagesOK, NEW k \in Chunk, NEW r \in RunNo, NEW c \in SizeIdx,
           runs[k][r] = 0, m_freeBytes[k] >= RunPages[c],
           runs' = [runs EXCEPT ![k][r] = c],
           m_freeBytes' = [m_freeBytes EXCEPT ![k] = @ - RunPages[c]]
    PROVE  /\ PagesOK' /\ m_freeBytes' \in [Chunk -> Int]
           /\ 0 <= m_freeBytes'[k] /\ m_freeBytes'[k] < m_freeBytes[k]
<1> DEFINE R == runs[k]
           R2 == [R EXCEPT ![r] = c]
<1>1. R \in RunTable /\ R[r] = 0
  BY DEF BodyTypes
<1>2. runs'[k] = R2 /\ \A j \in Chunk \ {k} : runs'[j] = runs[j]
  BY DEF BodyTypes
<1>3. RunPages[c] >= 1 /\ RunPages[c] \in Int /\ m_freeBytes[k] \in Int
  BY RunLengths, SMT DEF BodyTypes
<1>4. /\ m_freeBytes'[k] = m_freeBytes[k] - RunPages[c]
      /\ \A j \in Chunk \ {k} : m_freeBytes'[j] = m_freeBytes[j]
      /\ m_freeBytes' \in [Chunk -> Int]
  BY <1>3, SMT DEF BodyTypes
<1>5. R = runs[k]
  OBVIOUS
<1> HIDE DEF R
<1>6. Cardinality(UsedPages(R2)) = Cardinality(UsedPages(R)) + RunPages[c]
  BY <1>1, UsedTake
<1>7. Cardinality(UsedPages(R)) \in Nat
  BY <1>1, UsedFinite
<1> HIDE DEF R2
<1>8. 0 <= m_freeBytes'[k] /\ m_freeBytes'[k] < m_freeBytes[k]
  BY <1>3, <1>4, SMT
<1>9. m_freeBytes[k] = ChunkPages - Cardinality(UsedPages(R))
  BY <1>5, SMT DEF PagesOK
<1>10. m_freeBytes'[k] = ChunkPages - Cardinality(UsedPages(R2))
  BY <1>3, <1>4, <1>6, <1>7, <1>9, Bands, SMT
<1>11. PagesOK'
  <2> SUFFICES ASSUME NEW j \in Chunk
               PROVE  /\ m_freeBytes'[j] = ChunkPages - Cardinality(UsedPages(runs'[j]))
                      /\ m_freeBytes'[j] >= 0
    BY DEF PagesOK, UsedPages
  <2>1. CASE j = k
    BY <1>2, <1>4, <1>8, <1>10, <2>1
  <2>2. CASE j # k
    BY <1>2, <1>4, <2>2 DEF PagesOK
  <2> QED
    BY <2>1, <2>2
<1> QED
  BY <1>4, <1>8, <1>11

\* A run given back.
LEMMA PagesFreed ==
    ASSUME BodyTypes, PagesOK, NEW k \in Chunk, NEW r \in RunNo, NEW c \in SizeIdx,
           runs[k][r] = c,
           runs' = [runs EXCEPT ![k][r] = 0],
           m_freeBytes' = [m_freeBytes EXCEPT ![k] = m_freeBytes[k] + RunPages[c]]
    PROVE  PagesOK' /\ m_freeBytes' \in [Chunk -> Int]
<1> DEFINE R == runs[k]
           R2 == [R EXCEPT ![r] = 0]
<1>1. R \in RunTable /\ R[r] = c
  BY DEF BodyTypes
<1>2. runs'[k] = R2 /\ \A j \in Chunk \ {k} : runs'[j] = runs[j]
  BY DEF BodyTypes
<1>3. RunPages[c] >= 1 /\ RunPages[c] \in Int /\ m_freeBytes[k] \in Int
  BY RunLengths, SMT DEF BodyTypes
<1>4. /\ m_freeBytes'[k] = m_freeBytes[k] + RunPages[c]
      /\ \A j \in Chunk \ {k} : m_freeBytes'[j] = m_freeBytes[j]
      /\ m_freeBytes' \in [Chunk -> Int]
  BY <1>3, SMT DEF BodyTypes
<1>5. R = runs[k]
  OBVIOUS
<1> HIDE DEF R
<1>6. R2 \in RunTable /\ Cardinality(UsedPages(R2)) = Cardinality(UsedPages(R)) - RunPages[c]
  BY <1>1, UsedFree
<1>7. Cardinality(UsedPages(R)) \in Nat
  BY <1>1, UsedFinite
<1> HIDE DEF R2
<1>9. m_freeBytes[k] = ChunkPages - Cardinality(UsedPages(R)) /\ m_freeBytes[k] >= 0
  BY <1>5, SMT DEF PagesOK
<1>10. m_freeBytes'[k] = ChunkPages - Cardinality(UsedPages(R2)) /\ m_freeBytes'[k] >= 0
  BY <1>3, <1>4, <1>6, <1>7, <1>9, Bands, SMT
<1>11. PagesOK'
  <2> SUFFICES ASSUME NEW j \in Chunk
               PROVE  /\ m_freeBytes'[j] = ChunkPages - Cardinality(UsedPages(runs'[j]))
                      /\ m_freeBytes'[j] >= 0
    BY DEF PagesOK, UsedPages
  <2>1. CASE j = k
    BY <1>2, <1>4, <1>10, <2>1
  <2>2. CASE j # k
    BY <1>2, <1>4, <2>2 DEF PagesOK
  <2> QED
    BY <2>1, <2>2
<1> QED
  BY <1>4, <1>11, SMT

\* A chunk has at most ChunkPages free pages, and all of them exactly when no run is out.
LEMMA PageCount ==
    ASSUME NEW R \in RunTable, NEW f, f = ChunkPages - Cardinality(UsedPages(R)), f >= 0
    PROVE  /\ f \in Int /\ 0 <= f /\ f <= ChunkPages
           /\ f = ChunkPages <=> \A r \in RunNo : R[r] = 0
<1>1. Cardinality(UsedPages(R)) \in Nat
  BY UsedFinite
<1>2. Cardinality(UsedPages(R)) = 0 <=> \A r \in RunNo : R[r] = 0
  BY UsedEnds
<1> QED
  BY <1>1, <1>2, Bands, SMT

\* The same of the chunks' counters.
LEMMA PagesRange ==
    ASSUME BodyTypes, PagesOK, NEW k \in Chunk
    PROVE  /\ m_freeBytes[k] \in Int /\ 0 <= m_freeBytes[k] /\ m_freeBytes[k] <= ChunkPages
           /\ m_freeBytes[k] = ChunkPages <=> \A r \in RunNo : runs[k][r] = 0
<1>1. runs[k] \in RunTable
  BY DEF BodyTypes
<1>2. m_freeBytes[k] = ChunkPages - Cardinality(UsedPages(runs[k])) /\ m_freeBytes[k] >= 0
  BY DEF PagesOK
<1> QED
  BY <1>1, <1>2, PageCount

\* A handle is its four parts.
LEMMA HandleParts ==
    /\ \A k \in Chunk, r \in RunNo, c \in SizeIdx, e \in Int :
          /\ HandleFor(k, r, c, e) \in Handle
          /\ HandleFor(k, r, c, e).chunk = k /\ HandleFor(k, r, c, e).run = r
          /\ HandleFor(k, r, c, e).sizeIdx = c /\ HandleFor(k, r, c, e).elem = e
    /\ \A g, h \in Handle : /\ g.chunk = h.chunk /\ g.run = h.run
                            /\ g.sizeIdx = h.sizeIdx /\ g.elem = h.elem
                            => g = h
    /\ \A h \in Handle : /\ h.chunk \in Chunk /\ h.run \in RunNo
                         /\ h.sizeIdx \in SizeIdx /\ h.elem \in Int
BY SMT DEF Handle, HandleFor

\* A handle made of its parts.
LEMMA MadeHandle ==
    \A k \in Chunk, r \in RunNo, c \in SizeIdx, e \in Int : MadeOf(HandleFor(k, r, c, e), k, r, c, e)
BY SMT DEF Handle, HandleFor, MadeOf

\* PoolChunk::allocate hands out memory that nothing held, and its assertion holds.
LEMMA AllocBody ==
    ASSUME NEW H, BodyOK(H), ~failed, NEW t, NEW k \in Chunk, NEW c \in SizeIdx,
           chunkAllocate(t, k, c)
    PROVE  /\ \E h \in Handle : /\ h \notin H /\ h.chunk = k
                                /\ buf' = [buf EXCEPT ![local[t].b] = h]
                                /\ BodyOK(H \cup {h})'
           /\ ~failed'
           /\ \A j \in Chunk \ {k} : m_freeBytes'[j] = m_freeBytes[j] /\ runs'[j] = runs[j]
           /\ 0 <= m_freeBytes'[k] /\ m_freeBytes'[k] < m_freeBytes[k]
<1>0. PICK r : r = Min({n \in RunNo : runs[k][n] = 0})
  OBVIOUS
<1> DEFINE e == IF c \in Small THEN 0 ELSE -1
           h == HandleFor(k, r, c, e)
<1>1. /\ m_freeBytes[k] >= RunPages[c]
      /\ m_freeBytes' = [m_freeBytes EXCEPT ![k] = @ - RunPages[c]]
      /\ runs' = [runs EXCEPT ![k][r] = c]
      /\ buf' = [buf EXCEPT ![local[t].b] = h]
  BY <1>0, SMT DEF chunkAllocate, HandleFor
<1>2. IF c \in Small THEN allocateSubpage(k, r, c) ELSE UNCHANGED <<m_subpages, ring, failed>>
  BY <1>0, SMT DEF chunkAllocate
<1>3. r \in RunNo /\ runs[k][r] = 0
  BY <1>0, <1>1, FreeRun DEF BodyOK
<1>4. /\ PagesOK' /\ m_freeBytes' \in [Chunk -> Int]
      /\ 0 <= m_freeBytes'[k] /\ m_freeBytes'[k] < m_freeBytes[k]
  BY <1>1, <1>3, PagesTaken DEF BodyOK
<1>5. \A j \in Chunk \ {k} : m_freeBytes'[j] = m_freeBytes[j] /\ runs'[j] = runs[j]
  BY <1>1, SMT DEF BodyOK, BodyTypes
<1>6. e \in Int
  BY SMT
<1> HIDE DEF e
<1>7. /\ h \in Handle /\ h.chunk = k /\ h.run = r /\ h.sizeIdx = c /\ h.elem = e
  BY <1>3, <1>6, HandleParts, SMT
<1> HIDE DEF h
<1>8. 0 \notin SizeIdx /\ Small \subseteq SizeIdx
  BY ArenaAssumption
<1>9. \A g \in Handle : g.chunk = k /\ g.run = r => g \notin H
  <2> SUFFICES ASSUME NEW g \in Handle, g.chunk = k, g.run = r, g \in H PROVE FALSE
    OBVIOUS
  <2>1. runs[k][r] = g.sizeIdx
    BY DEF BodyOK, MemoryOK, HandleFits
  <2> QED
    BY <1>3, <1>8, <2>1, HandleParts
<1>10. m_subpages[k][r] = NoSubpage
  BY <1>3, <1>8 DEF BodyOK, SubpagesOK
<1>11. H \subseteq Handle
  BY DEF BodyOK, MemoryOK
<1>12. CASE c \notin Small
  <2>1. m_subpages' = m_subpages /\ ring' = ring /\ failed' = failed
    BY <1>2, <1>12, SMT
  <2>2. m_subpages' = [m_subpages EXCEPT ![k][r] = NoSubpage]
    BY <1>3, <1>10, <2>1 DEF BodyOK, BodyTypes
  <2>3. e = -1
    BY <1>12, SMT DEF e
  <2>4. PICK H2 : H2 = H \cup {h}
    OBVIOUS
  <2>5. \A g \in Handle : g.chunk = k /\ g.run = r =>
           (g \in H2 <=> c = g.sizeIdx /\ g.elem = -1)
    BY <1>7, <1>9, <2>3, <2>4, HandleParts, SMT
  <2>6. \A g \in Handle : ~(g.chunk = k /\ g.run = r) => (g \in H2 <=> g \in H)
    BY <1>7, <2>4, SMT
  <2>7. Refit(H, H2, k, r, c, NoSubpage)
    BY <1>7, <1>11, <1>12, <2>4, <2>5, <2>6 DEF Refit
  <2>8. /\ runs' \in [Chunk -> RunTable]
        /\ m_subpages' \in [Chunk -> [RunNo -> Subpage \cup {NoSubpage}]]
        /\ SubpagesOK' /\ MemoryOK(H2)'
    <3>2. BodyTypes /\ SubpagesOK /\ MemoryOK(H)
      BY DEF BodyOK
    <3> QED
      BY <1>1, <1>3, <2>2, <2>7, <3>2, SpotChange
  <2>9. RingOK'
    BY <1>1, <1>3, <1>8, <1>12, <2>1, RingSame DEF BodyOK
  <2>10. ring' \in [Small -> Seq(Chunk \X RunNo)]
    BY <2>1 DEF BodyOK, BodyTypes
  <2>11. BodyTypes'
    BY <1>4, <2>8, <2>10 DEF BodyTypes
  <2>12. BodyOK(H2)'
    BY <1>4, <2>8, <2>9, <2>11 DEF BodyOK
  <2> QED
    BY <1>1, <1>4, <1>5, <1>7, <1>9, <2>1, <2>4, <2>12
<1>13. CASE c \in Small
  <2> DEFINE S0 == newSubpage(c, Elems[c])
             S  == allocateElem(S0)
  <2>0. PICK s : s = IF Elems[c] = 1 THEN ring[c] ELSE <<<<k, r>>>> \o ring[c]
    OBVIOUS
  <2>1. /\ m_subpages' = [m_subpages EXCEPT ![k][r] = S]
        /\ ring' = [ring EXCEPT ![c] = s]
        /\ ~failed'
    BY <1>2, <1>10, <1>13, <2>0 DEF allocateSubpage, Asserts, BodyOK, BodyTypes
  <2>2. /\ GoodSub(S, c) /\ S.bits = {0} /\ S.max = Elems[c]
        /\ HasFree(S) <=> Elems[c] # 1
    <3>1. GoodSub(S0, c) /\ HasFree(S0) /\ getNextAvail(S0).idx = 0
      BY <1>13, NewSub
    <3>2. S0.bits = {} /\ S0.max = Elems[c]
      BY DEF newSubpage
    <3> HIDE DEF S0
    <3>3. GoodSub(S, c) /\ S.bits = S0.bits \cup {0} /\ S.max = S0.max
      BY <1>13, <3>1, AllocElem
    <3> HIDE DEF S
    <3>4. S.bits = {0} /\ S.max = Elems[c] /\ Elems[c] \in Nat /\ Elems[c] # 0
      BY <1>13, <3>2, <3>3, ArenaAssumption
    <3>5. HasFree(S) <=> Elems[c] # 1
      BY <3>4, SMT DEF HasFree
    <3> QED
      BY <3>3, <3>4, <3>5
  <2> HIDE DEF S, S0
  <2>3. /\ <<k, r>> \in Chunk \X RunNo
        /\ ring[c] \in Seq(Chunk \X RunNo) /\ IsInjective(ring[c]) /\ <<k, r>> \notin Range(ring[c])
    BY <1>3, <1>8, <1>13, SMT DEF BodyOK, BodyTypes, RingOK
  <2>4. /\ s \in Seq(Chunk \X RunNo) /\ IsInjective(s)
        /\ Elems[c] = 1 => Range(s) = Range(ring[c])
        /\ Elems[c] # 1 => Range(s) = Range(ring[c]) \cup {<<k, r>>}
    <3>1. PICK at : at = <<k, r>>
      OBVIOUS
    <3>2. /\ <<at>> \o ring[c] \in Seq(Chunk \X RunNo) /\ IsInjective(<<at>> \o ring[c])
          /\ Range(<<at>> \o ring[c]) = Range(ring[c]) \cup {at}
      BY <2>3, <3>1, InjCons, SMT
    <3> QED
      BY <2>0, <2>3, <3>1, <3>2
  <2>5. RingOK' /\ ring' \in [Small -> Seq(Chunk \X RunNo)]
    <3>1. \A at \in Chunk \X RunNo : at # <<k, r>> => (at \in Range(s) <=> at \in Range(ring[c]))
      BY <2>4
    <3>2. <<k, r>> \in Range(s) <=> c = c /\ HasFree(S)
      BY <2>2, <2>3, <2>4
    <3>3. <<k, r>> \in Range(s) /\ S.bits = {} =>
              \A at \in Range(s) : at # <<k, r>> => SubAt(at).bits # {}
      BY <2>2
    <3>4. RingOK /\ BodyTypes
      BY DEF BodyOK
    <3>5. Rering(s, k, r, c, c, S)
      BY <1>3, <2>4, <3>1, <3>2, <3>3 DEF Rering
    <3> QED
      BY <1>1, <1>3, <1>13, <2>1, <3>4, <3>5, RingChange
  <2>6. e = 0
    BY <1>13 DEF e
  <2>7. PICK H2 : H2 = H \cup {h}
    OBVIOUS
  <2>8. Refit(H, H2, k, r, c, S)
    <3>1. \A g \in Handle : g.chunk = k /\ g.run = r =>
             (g \in H2 <=> c = g.sizeIdx /\ g.elem = 0)
      BY <1>7, <1>9, <2>6, <2>7, HandleParts, SMT
    <3>2. \A g \in Handle : ~(g.chunk = k /\ g.run = r) => (g \in H2 <=> g \in H)
      BY <1>7, <2>7
    <3> QED
      BY <1>7, <1>11, <1>13, <2>2, <2>7, <3>1, <3>2 DEF Refit
  <2>9. BodyTypes /\ SubpagesOK /\ MemoryOK(H)
    BY DEF BodyOK
  <2>11. /\ runs' \in [Chunk -> RunTable]
         /\ m_subpages' \in [Chunk -> [RunNo -> Subpage \cup {NoSubpage}]]
         /\ SubpagesOK' /\ MemoryOK(H2)'
    BY <1>1, <1>3, <2>1, <2>8, <2>9, SpotChange
  <2>12. BodyTypes'
    BY <1>4, <2>5, <2>11 DEF BodyTypes
  <2>13. BodyOK(H2)'
    BY <1>4, <2>5, <2>11, <2>12 DEF BodyOK
  <2> QED
    BY <1>1, <1>4, <1>5, <1>7, <1>9, <2>1, <2>7, <2>13
<1> QED
  BY <1>12, <1>13

\* tcacheAllocateSmall: the first subpage of the ring has a free element, which nothing
\* holds, and the assertions hold.
LEMMA RingBody ==
    ASSUME NEW H, BodyOK(H), ~failed, NEW t \in Thread, NEW c \in Small, c = local[t].sizeIdx,
           allocateFromRing(t)
    PROVE  /\ \E h \in Handle : /\ h \notin H
                                /\ buf' = [buf EXCEPT ![local[t].b] = h]
                                /\ BodyOK(H \cup {h})'
           /\ ~failed'
<1>1. /\ BodyTypes /\ SubpagesOK /\ MemoryOK(H) /\ PagesOK /\ RingOK
  BY DEF BodyOK
<1>2. ring[c] # <<>> /\ ring[c] \in Seq(Chunk \X RunNo) /\ IsInjective(ring[c])
  BY <1>1 DEF allocateFromRing, BodyTypes, RingOK
<1>3. PICK at : at = Head(ring[c])
  OBVIOUS
<1>4. /\ at \in Chunk \X RunNo /\ at \in Range(ring[c]) /\ Tail(ring[c]) \in Seq(Chunk \X RunNo)
      /\ IsInjective(Tail(ring[c])) /\ Range(Tail(ring[c])) = Range(ring[c]) \ {at}
  BY <1>2, <1>3, InjTail
<1>5. PICK k \in Chunk, r \in RunNo : at = <<k, r>>
  BY <1>4, SMT
<1>6. at[1] = k /\ at[2] = r
  BY <1>5
<1>7. PICK sub : sub = m_subpages[k][r]
  OBVIOUS
<1>8. runs[k][r] = c /\ GoodSub(sub, c) /\ HasFree(sub)
  <2>1. runs[k][r] = c /\ HasFree(m_subpages[k][r])
    BY <1>1, <1>4, <1>5 DEF RingOK
  <2>2. GoodSub(m_subpages[k][r], runs[k][r])
    BY <1>1, <2>1 DEF SubpagesOK
  <2> QED
    BY <1>7, <2>1, <2>2
<1>9. PICK S, e : S = allocateElem(sub) /\ e = getNextAvail(sub).idx
  OBVIOUS
<1>10. /\ SubpageAllocateOK(sub) /\ e \in (0 .. sub.max - 1) \ sub.bits
       /\ GoodSub(S, c) /\ S.bits = sub.bits \cup {e}
  BY <1>8, <1>9, AllocElem
<1>11. sub.sizeIdx = c
  BY <1>8, SMT DEF GoodSub
<1>12. PICK s : s = IF m_numAvail(S) = 0 THEN Tail(ring[c]) ELSE ring[c]
  OBVIOUS
<1>13. PICK h : h = HandleFor(k, r, c, e)
  OBVIOUS
<1>14. /\ m_subpages' = [m_subpages EXCEPT ![k][r] = S]
       /\ ring' = [ring EXCEPT ![c] = s]
       /\ buf' = [buf EXCEPT ![local[t].b] = h]
       /\ failed' = ~(sub.sizeIdx = c /\ SubpageAllocateOK(sub))
       /\ runs' = runs /\ m_freeBytes' = m_freeBytes
  <2>1. /\ m_subpages' = [m_subpages EXCEPT ![at[1]][at[2]] = allocateElem(m_subpages[at[1]][at[2]])]
        /\ ring' = [ring EXCEPT ![c] =
               IF m_numAvail(allocateElem(m_subpages[at[1]][at[2]])) = 0 THEN Tail(@) ELSE @]
        /\ buf' = [buf EXCEPT ![local[t].b] =
             HandleFor(at[1], at[2], c, getNextAvail(m_subpages[at[1]][at[2]]).idx)]
        /\ failed' = ~(/\ m_subpages[at[1]][at[2]].sizeIdx = c
                       /\ SubpageAllocateOK(m_subpages[at[1]][at[2]]))
        /\ runs' = runs /\ m_freeBytes' = m_freeBytes
    BY <1>3 DEF allocateFromRing, HandleFor, Asserts
  <2>2. m_subpages[at[1]][at[2]] = sub
    BY <1>6, <1>7
  <2>3. ring' = [ring EXCEPT ![c] = s]
    BY <1>9, <1>12, <2>1, <2>2, SMT
  <2> QED
    BY <1>6, <1>9, <1>13, <2>1, <2>2, <2>3
<1>15. ~failed'
  BY <1>10, <1>11, <1>14
<1>16. runs' = [runs EXCEPT ![k][r] = c]
  BY <1>1, <1>8, <1>14 DEF BodyTypes, RunTable
<1>17. m_numAvail(S) \in Nat /\ (m_numAvail(S) > 0 <=> HasFree(S))
  BY <1>10, NumAvail
<1>18. Rering(s, k, r, c, c, S)
  <2>1. CASE m_numAvail(S) = 0
    <3>1. s = Tail(ring[c]) /\ ~HasFree(S)
      BY <1>12, <1>17, <2>1, SMT
    <3> QED
      BY <1>4, <1>5, <1>8, <3>1 DEF Rering
  <2>2. CASE m_numAvail(S) # 0
    <3>1. s = ring[c] /\ HasFree(S)
      BY <1>12, <1>17, <2>2, SMT
    <3>2. S.bits # {}
      BY <1>10
    <3> QED
      BY <1>2, <1>4, <1>5, <1>8, <3>1, <3>2 DEF Rering
  <2> QED
    BY <2>1, <2>2
<1>19. RingOK' /\ ring' \in [Small -> Seq(Chunk \X RunNo)]
  BY <1>1, <1>14, <1>16, <1>18, RingChange
<1>20. c \in SizeIdx /\ e \in Int
  <2>1. sub.max \in Nat
    BY <1>8 DEF GoodSub, Subpage
  <2> QED
    BY <1>10, <2>1, ArenaAssumption, SMT
<1>21. /\ h \in Handle /\ h.chunk = k /\ h.run = r /\ h.sizeIdx = c /\ h.elem = e
  BY <1>13, <1>20, HandleParts, SMT
<1>22. \A g \in Handle : g.chunk = k /\ g.run = r => (g \in H <=> g.sizeIdx = c /\ g.elem \in sub.bits)
  <2> SUFFICES ASSUME NEW g \in Handle, g.chunk = k, g.run = r
               PROVE  g \in H <=> g.sizeIdx = c /\ g.elem \in sub.bits
    OBVIOUS
  <2>1. g \in H <=> HandleFits(g)
    BY <1>1 DEF MemoryOK
  <2> QED
    BY <1>7, <1>8, <2>1 DEF HandleFits
<1>23. h \notin H /\ H \subseteq Handle
  BY <1>1, <1>10, <1>21, <1>22, SMT DEF MemoryOK
<1>24. PICK H2 : H2 = H \cup {h}
  OBVIOUS
<1>25. Refit(H, H2, k, r, c, S)
  <2>1. \A g \in Handle : g.chunk = k /\ g.run = r =>
             (g \in H2 <=> c = g.sizeIdx /\ g.elem \in S.bits)
    BY <1>10, <1>21, <1>22, <1>24, HandleParts, SMT
  <2>2. \A g \in Handle : ~(g.chunk = k /\ g.run = r) => (g \in H2 <=> g \in H)
    BY <1>21, <1>24
  <2> QED
    BY <1>10, <1>20, <1>21, <1>23, <1>24, <2>1, <2>2 DEF Refit
<1>26. /\ runs' \in [Chunk -> RunTable]
       /\ m_subpages' \in [Chunk -> [RunNo -> Subpage \cup {NoSubpage}]]
       /\ SubpagesOK' /\ MemoryOK(H2)'
  BY <1>1, <1>14, <1>16, <1>25, SpotChange
<1>27. PagesOK'
  BY <1>1, <1>14, SMT DEF PagesOK, UsedPages
<1>28. BodyTypes'
  BY <1>1, <1>14, <1>19, <1>26 DEF BodyTypes
<1>29. BodyOK(H2)'
  BY <1>19, <1>26, <1>27, <1>28 DEF BodyOK
<1> QED
  BY <1>14, <1>15, <1>21, <1>23, <1>24, <1>29

\* PoolSubpage::free of element e of the subpage on run r of chunk k: what it leaves.
LEMMA SubpageFree ==
    ASSUME NEW H, BodyOK(H), NEW h \in H, h.sizeIdx \in Small
    PROVE  LET k == h.chunk
               r == h.run
               c == h.sizeIdx
               f == subpageFree(h)
               x == IF f.keep THEN c ELSE 0
           IN  /\ h.elem >= 0 /\ HandleOK(h)
               /\ Rering(f.ring, k, r, c, x, f.sub)
               /\ Refit(H, H \ {h}, k, r, x, f.sub)
<1> DEFINE k == h.chunk
           r == h.run
           c == h.sizeIdx
           e == h.elem
<1>1. BodyTypes /\ SubpagesOK /\ MemoryOK(H) /\ RingOK
  BY DEF BodyOK
<1>2. h \in Handle /\ H \subseteq Handle /\ HandleFits(h)
  BY <1>1 DEF MemoryOK
<1>3. k \in Chunk /\ r \in RunNo /\ c \in Small /\ c \in SizeIdx /\ e \in Int
  BY <1>2, HandleParts
<1>4. PICK sub : sub = m_subpages[k][r]
  OBVIOUS
<1>5. runs[k][r] = c /\ e \in sub.bits
  BY <1>2, <1>3, <1>4 DEF HandleFits
<1>6. GoodSub(sub, c)
  BY <1>1, <1>3, <1>4, <1>5 DEF SubpagesOK
<1>7. /\ sub.max \in Nat /\ sub.bits \subseteq 0 .. sub.max - 1 /\ e \in 0 .. sub.max - 1
      /\ sub.sizeIdx = c
  BY <1>5, <1>6 DEF GoodSub, Subpage
<1>8. e >= 0
  BY <1>3, <1>7, SMT
<1>9. HandleOK(h)
  BY <1>4, <1>5, <1>7 DEF HandleOK
<1>10. PICK at : at = <<k, r>>
  OBVIOUS
<1>11. PICK S : S = freeElem(sub, e)
  OBVIOUS
<1>12. GoodSub(S, c) /\ HasFree(S) /\ S.bits = sub.bits \ {e} /\ S.max = sub.max
  BY <1>3, <1>5, <1>6, <1>11, FreeElem, SMT
<1>13. /\ m_numAvail(sub) \in Nat /\ (m_numAvail(sub) > 0 <=> HasFree(sub))
       /\ m_numAvail(S) = S.max <=> S.bits = {}
  BY <1>3, <1>6, <1>12, NumAvail
<1>14. /\ ring[c] \in Seq(Chunk \X RunNo) /\ IsInjective(ring[c]) /\ at \in Chunk \X RunNo
       /\ at \in Range(ring[c]) <=> HasFree(sub)
  BY <1>1, <1>3, <1>4, <1>5, <1>10 DEF RingOK, BodyTypes
<1>15. PICK in : in = IF m_numAvail(sub) = 0 THEN <<at>> \o ring[c] ELSE ring[c]
  OBVIOUS
<1>16. /\ in \in Seq(Chunk \X RunNo) /\ IsInjective(in)
       /\ Range(in) = Range(ring[c]) \cup {at}
  <2>1. CASE m_numAvail(sub) = 0
    <3>1. at \notin Range(ring[c])
      BY <1>13, <1>14, <2>1, SMT
    <3>2. /\ <<at>> \o ring[c] \in Seq(Chunk \X RunNo) /\ IsInjective(<<at>> \o ring[c])
          /\ Range(<<at>> \o ring[c]) = Range(ring[c]) \cup {at}
      BY <1>14, <3>1, InjCons, SMT
    <3> QED
      BY <1>15, <2>1, <3>2
  <2>2. CASE m_numAvail(sub) # 0
    BY <1>13, <1>14, <1>15, <2>2, SMT
  <2> QED
    BY <2>1, <2>2
<1>17. PICK keep : keep = (\/ m_numAvail(sub) = 0 /\ S.max > 1
                           \/ m_numAvail(S) # S.max
                           \/ Len(in) = 1)
  OBVIOUS
<1>18. /\ subpageFree(h).keep = keep
       /\ subpageFree(h).sub = IF keep THEN S ELSE NoSubpage
       /\ subpageFree(h).ring = IF keep THEN in ELSE unlink(in, at)
  BY <1>4, <1>10, <1>11, <1>15, <1>17 DEF subpageFree
<1>19. \A g \in Handle : g.chunk = k /\ g.run = r => (g \in H <=> g.sizeIdx = c /\ g.elem \in sub.bits)
  <2> SUFFICES ASSUME NEW g \in Handle, g.chunk = k, g.run = r
               PROVE  g \in H <=> g.sizeIdx = c /\ g.elem \in sub.bits
    OBVIOUS
  <2>1. g \in H <=> HandleFits(g)
    BY <1>1 DEF MemoryOK
  <2> QED
    BY <1>3, <1>4, <1>5, <2>1 DEF HandleFits
<1>20. \A g \in Handle : g.chunk = k /\ g.run = r => (g \in H \ {h} <=> g.sizeIdx = c /\ g.elem \in S.bits)
  BY <1>2, <1>12, <1>19, HandleParts
<1>21. \A g \in Handle : ~(g.chunk = k /\ g.run = r) => (g \in H \ {h} <=> g \in H)
  OBVIOUS
<1>22. 0 \notin Small /\ 0 \notin SizeIdx
  BY ArenaAssumption
<1>23. h.chunk = k /\ h.run = r /\ h.sizeIdx = c /\ h.elem = e
  OBVIOUS
<1> HIDE DEF k, r, c, e
<1>24. CASE keep
  <2>1. S.bits = {} => \A a \in Range(in) : a = at
    <3> SUFFICES ASSUME S.bits = {}, NEW a \in Range(in) PROVE a = at
      OBVIOUS
    <3>1. sub.bits = {e}
      BY <1>5, <1>12, SMT
    <3>2. ~(m_numAvail(sub) = 0 /\ S.max > 1)
      <4> SUFFICES ASSUME m_numAvail(sub) = 0, S.max > 1 PROVE FALSE
        OBVIOUS
      <4>1. ~HasFree(sub)
        BY <1>13, SMT
      <4>2. 0 \in sub.bits /\ 1 \in sub.bits
        BY <1>7, <1>12, <4>1, SMT DEF HasFree
      <4> QED
        BY <3>1, <4>2, SMT
    <3>3. Len(in) = 1
      BY <1>13, <1>17, <1>24, <3>2
    <3>4. Range(in) = {in[i] : i \in 1 .. Len(in)}
      BY <1>16, SetOf, SMT
    <3>5. Range(in) = {in[1]}
      BY <3>3, <3>4, SMT
    <3> QED
      BY <1>16, <3>5
  <2>2. Rering(in, k, r, c, c, S)
    BY <1>5, <1>10, <1>12, <1>16, <2>1 DEF Rering
  <2>3. Refit(H, H \ {h}, k, r, c, S)
    BY <1>2, <1>3, <1>12, <1>20, <1>21 DEF Refit
  <2> QED
    BY <1>8, <1>9, <1>18, <1>23, <1>24, <2>2, <2>3
<1>25. CASE ~keep
  <2>1. S.bits = {}
    BY <1>13, <1>17, <1>25
  <2>2. /\ unlink(in, at) \in Seq(Chunk \X RunNo) /\ IsInjective(unlink(in, at))
        /\ Range(unlink(in, at)) = Range(in) \ {at}
    BY <1>16, InjRemove
  <2>3. PICK s : s = unlink(in, at)
    OBVIOUS
  <2>4. s \in Seq(Chunk \X RunNo) /\ IsInjective(s) /\ Range(s) = Range(ring[c]) \ {at}
    BY <1>16, <2>2, <2>3
  <2>5. Rering(s, k, r, c, 0, NoSubpage)
    BY <1>3, <1>5, <1>10, <1>22, <2>4 DEF Rering
  <2>6. Refit(H, H \ {h}, k, r, 0, NoSubpage)
    <3>1. \A g \in Handle : g.chunk = k /\ g.run = r => (g \in H \ {h} <=> 0 = g.sizeIdx /\ g.elem = -1)
      BY <1>20, <1>22, <2>1, HandleParts, SMT
    <3> QED
      BY <1>2, <1>21, <1>22, <3>1 DEF Refit
  <2> QED
    BY <1>8, <1>9, <1>18, <1>23, <1>25, <2>3, <2>5, <2>6
<1>26. keep \in BOOLEAN
  BY <1>17
<1> QED
  BY <1>24, <1>25, <1>26

\* The free pages of the chunk after freeChunk of handle h.
LeftFree(h) ==
    m_freeBytes[h.chunk]
        + (IF h.elem >= 0 /\ subpageFree(h).keep THEN 0 ELSE RunPages[h.sizeIdx])

\* PoolChunk::free takes back the memory of a handle that is held, and its assertions hold.
LEMMA FreeBody ==
    ASSUME NEW H, BodyOK(H), NEW h \in H, NEW t, NEW queues, NEW cont,
           freeChunk(t, h, queues, cont)
    PROVE  /\ BodyOK(H \ {h})' /\ HandleOK(h)
           /\ m_freeBytes' = [m_freeBytes EXCEPT ![h.chunk] = LeftFree(h)]
           /\ m_freeBytes[h.chunk] <= LeftFree(h)
           /\ \A j \in Chunk \ {h.chunk} : runs'[j] = runs[j]
<1>1. BodyTypes /\ SubpagesOK /\ MemoryOK(H) /\ PagesOK /\ RingOK
  BY DEF BodyOK
<1>2. h \in Handle /\ HandleFits(h) /\ H \subseteq Handle
  BY <1>1 DEF MemoryOK
<1>3. PICK k, r, c : k = h.chunk /\ r = h.run /\ c = h.sizeIdx
  OBVIOUS
<1>4. k \in Chunk /\ r \in RunNo /\ c \in SizeIdx
  BY <1>2, <1>3, HandleParts
<1>5. runs[k][r] = c
  BY <1>2, <1>3 DEF HandleFits
<1>6. PICK keep : keep = (h.elem >= 0 /\ subpageFree(h).keep)
  OBVIOUS
<1>7. /\ runs' = IF keep THEN runs ELSE [runs EXCEPT ![k][r] = 0]
      /\ m_freeBytes' = [m_freeBytes EXCEPT ![k] = LeftFree(h)]
      /\ LeftFree(h) = m_freeBytes[k] + (IF keep THEN 0 ELSE RunPages[c])
  BY <1>3, <1>6 DEF freeChunk, LeftFree
<1>8. PICK x : x = IF keep THEN c ELSE 0
  OBVIOUS
<1>9. keep \in BOOLEAN
  BY <1>6
<1>10. runs' = [runs EXCEPT ![k][r] = x]
  BY <1>1, <1>4, <1>5, <1>7, <1>8 DEF BodyTypes, RunTable
<1>11. PagesOK' /\ m_freeBytes' \in [Chunk -> Int]
  <2>1. CASE keep
    <3>0. m_freeBytes[k] \in Int
      BY <1>1, <1>4 DEF BodyTypes
    <3>1. LeftFree(h) = m_freeBytes[k]
      BY <1>7, <2>1, <3>0, SMT
    <3>2. m_freeBytes' = m_freeBytes /\ runs' = runs
      BY <1>1, <1>7, <2>1, <3>1 DEF BodyTypes
    <3> QED
      BY <1>1, <3>2 DEF PagesOK, UsedPages, BodyTypes
  <2>2. CASE ~keep
    <3>1. /\ runs' = [runs EXCEPT ![k][r] = 0]
          /\ m_freeBytes' = [m_freeBytes EXCEPT ![k] = m_freeBytes[k] + RunPages[c]]
      BY <1>7, <2>2
    <3> QED
      BY <1>1, <1>4, <1>5, <3>1, PagesFreed
  <2> QED
    BY <1>9, <2>1, <2>2
<1>12. m_freeBytes[k] <= LeftFree(h)
  <2>1. m_freeBytes[k] \in Int /\ RunPages[c] \in Int /\ RunPages[c] >= 1
    BY <1>1, <1>4, RunLengths, SMT DEF BodyTypes
  <2> QED
    BY <1>7, <1>9, <2>1, SMT
<1>13. \A j \in Chunk \ {k} : runs'[j] = runs[j]
  BY <1>10, <1>1 DEF BodyTypes
<1>14. PICK H2 : H2 = H \ {h}
  OBVIOUS
<1>15. /\ HandleOK(h) /\ runs' \in [Chunk -> RunTable]
       /\ m_subpages' \in [Chunk -> [RunNo -> Subpage \cup {NoSubpage}]]
       /\ SubpagesOK' /\ MemoryOK(H2)'
       /\ RingOK' /\ ring' \in [Small -> Seq(Chunk \X RunNo)]
  <2>1. CASE c \in Small
    <3>1. PICK S, s : S = subpageFree(h).sub /\ s = subpageFree(h).ring
      OBVIOUS
    <3>2. /\ h.elem >= 0 /\ HandleOK(h)
          /\ Rering(subpageFree(h).ring, k, r, c, IF subpageFree(h).keep THEN c ELSE 0,
                    subpageFree(h).sub)
          /\ Refit(H, H \ {h}, k, r, IF subpageFree(h).keep THEN c ELSE 0, subpageFree(h).sub)
      BY <1>3, <2>1, SubpageFree
    <3>3. x = IF subpageFree(h).keep THEN c ELSE 0
      BY <1>6, <1>8, <3>2
    <3>4. Rering(s, k, r, c, x, S) /\ Refit(H, H2, k, r, x, S)
      BY <1>14, <3>1, <3>2, <3>3
    <3>5. /\ m_subpages' = [m_subpages EXCEPT ![k][r] = S]
          /\ ring' = [ring EXCEPT ![c] = s]
      BY <1>3, <3>1, <3>2 DEF freeChunk
    <3>6. RingOK' /\ ring' \in [Small -> Seq(Chunk \X RunNo)]
      BY <1>1, <1>4, <1>10, <2>1, <3>4, <3>5, RingChange
    <3>7. /\ runs' \in [Chunk -> RunTable]
          /\ m_subpages' \in [Chunk -> [RunNo -> Subpage \cup {NoSubpage}]]
          /\ SubpagesOK' /\ MemoryOK(H2)'
      BY <1>1, <1>4, <1>10, <3>4, <3>5, SpotChange
    <3> QED
      BY <3>2, <3>6, <3>7
  <2>2. CASE c \notin Small
    <3>1. h.elem = -1
      BY <1>2, <1>3, <2>2 DEF HandleFits
    <3>2. ~(h.elem >= 0)
      BY <3>1, SMT
    <3>3. x = 0 /\ m_subpages' = m_subpages /\ ring' = ring /\ HandleOK(h)
      BY <1>6, <1>8, <3>2 DEF freeChunk, HandleOK
    <3>4. m_subpages[k][r] = NoSubpage
      BY <1>1, <1>4, <1>5, <2>2 DEF SubpagesOK
    <3>5. m_subpages' = [m_subpages EXCEPT ![k][r] = NoSubpage]
      BY <1>1, <1>4, <3>3, <3>4 DEF BodyTypes
    <3>6. 0 \notin Small /\ 0 \notin SizeIdx
      BY ArenaAssumption
    <3>7. \A g \in Handle : g.chunk = k /\ g.run = r => g \notin H2 /\ 0 # g.sizeIdx
      <4> SUFFICES ASSUME NEW g \in Handle, g.chunk = k, g.run = r, g \in H PROVE g = h
        BY <1>14, <3>6, HandleParts, SMT
      <4>1. HandleFits(g)
        BY <1>1 DEF MemoryOK
      <4>2. g.sizeIdx = c /\ g.elem = -1
        BY <1>5, <2>2, <4>1 DEF HandleFits
      <4> QED
        BY <1>2, <1>3, <3>1, <4>2, HandleParts, SMT
    <3>8. Refit(H, H2, k, r, 0, NoSubpage)
      BY <1>2, <1>3, <1>14, <3>6, <3>7 DEF Refit
    <3>9. runs' = [runs EXCEPT ![k][r] = 0]
      BY <1>10, <3>3
    <3>10. /\ runs' \in [Chunk -> RunTable]
           /\ m_subpages' \in [Chunk -> [RunNo -> Subpage \cup {NoSubpage}]]
           /\ SubpagesOK' /\ MemoryOK(H2)'
      BY <1>1, <1>4, <3>5, <3>8, <3>9, SpotChange
    <3>11. RingOK'
      BY <1>1, <1>4, <1>5, <2>2, <3>3, <3>6, <3>9, RingSame
    <3>12. ring' \in [Small -> Seq(Chunk \X RunNo)]
      BY <1>1, <3>3 DEF BodyTypes
    <3> QED
      BY <3>3, <3>10, <3>11, <3>12
  <2> QED
    BY <2>1, <2>2
<1>16. BodyTypes'
  BY <1>11, <1>15 DEF BodyTypes
<1>17. BodyOK(H2)'
  BY <1>11, <1>15, <1>16 DEF BodyOK
<1> QED
  BY <1>3, <1>7, <1>12, <1>13, <1>14, <1>15, <1>17

\* destroyChunk on a chunk none of whose runs is out changes nothing inside the chunks.
LEMMA DestroyBody ==
    ASSUME NEW H, BodyOK(H), NEW t \in Thread, NEW k \in Chunk, k = local[t].dead,
           \A r \in RunNo : runs[k][r] = 0, destroyChunk(t)
    PROVE  /\ runs' = runs /\ m_subpages' = m_subpages /\ m_freeBytes' = m_freeBytes
           /\ ring' = ring /\ BodyOK(H)'
<1>1. BodyTypes /\ SubpagesOK /\ MemoryOK(H) /\ PagesOK /\ RingOK
  BY DEF BodyOK
<1>2. m_freeBytes[k] = ChunkPages
  BY <1>1, PagesRange
<1>3. \A r \in RunNo : m_subpages[k][r] = NoSubpage
  <2>1. 0 \notin Small
    BY ArenaAssumption
  <2> QED
    BY <1>1, <2>1 DEF SubpagesOK
<1>4. m_freeBytes' = m_freeBytes
  BY <1>1, <1>2 DEF destroyChunk, BodyTypes
<1>5. runs' = runs
  BY <1>1, SMT DEF destroyChunk, BodyTypes, RunTable
<1>6. m_subpages' = m_subpages
  BY <1>1, <1>3, SMT DEF destroyChunk, BodyTypes
<1>7. ring' = ring
  BY DEF destroyChunk
<1>8. BodyOK(H)'
  <2>1. BodyTypes'
    BY <1>1, <1>4, <1>5, <1>6, <1>7 DEF BodyTypes
  <2>2. SubpagesOK'
    BY <1>1, <1>5, <1>6 DEF SubpagesOK, GoodSub
  <2>3. MemoryOK(H)'
    BY <1>1, <1>5, <1>6 DEF MemoryOK, HandleFits
  <2>4. PagesOK'
    BY <1>1, <1>4, <1>5, SMT DEF PagesOK, UsedPages
  <2>5. RingOK'
    <3> SUFFICES ASSUME NEW c \in Small
                 PROVE  /\ IsInjective(ring'[c])
                        /\ \A j \in Chunk, r \in RunNo :
                              <<j, r>> \in Range(ring'[c]) <=>
                                 runs'[j][r] = c /\ HasFree(m_subpages'[j][r])
                        /\ \A at, too \in Range(ring'[c]) :
                              SubAt(at)'.bits = {} /\ SubAt(too)'.bits = {} => at = too
      BY DEF RingOK, HasFree
    <3>1. /\ IsInjective(ring[c])
          /\ \A j \in Chunk, r \in RunNo :
                <<j, r>> \in Range(ring[c]) <=> runs[j][r] = c /\ HasFree(m_subpages[j][r])
          /\ \A at, too \in Range(ring[c]) :
                SubAt(at).bits = {} /\ SubAt(too).bits = {} => at = too
      BY <1>1 DEF RingOK
    <3>2. ring'[c] = ring[c]
      BY <1>7
    <3>3. ASSUME NEW j \in Chunk, NEW r \in RunNo
          PROVE  <<j, r>> \in Range(ring'[c]) <=>
                    runs'[j][r] = c /\ HasFree(m_subpages'[j][r])
      BY <1>5, <1>6, <3>1, <3>2
    <3>4. \A at : SubAt(at)' = SubAt(at)
      BY <1>6 DEF SubAt
    <3> QED
      BY <3>1, <3>2, <3>3, <3>4
  <2> QED
    BY <2>1, <2>2, <2>3, <2>4, <2>5 DEF BodyOK
<1> QED
  BY <1>4, <1>5, <1>6, <1>7, <1>8
=============================================================================
