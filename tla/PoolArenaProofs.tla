---------------------------- MODULE PoolArenaProofs ----------------------------
(***************************************************************************)
(* ArenaInv is an invariant of PoolArena: each action keeps it, and no      *)
(* assertion fails.  With it the memory held is exactly the memory in use,  *)
(* the rings and the lists have what they must, and no chunk is referenced  *)
(* that was deleted.                                                        *)
(***************************************************************************)
EXTENDS PoolArenaInvariant

\* A step is first-order reasoning unless it says otherwise: arithmetic and sequences
\* are left to the SMT solver, by name.
USE Zenon

----------------------------------------------------------------------------
(* What a step does to the lists.                                            *)

\* Chunk k goes from its list, if it is in one, to list `to', whose band has room for
\* its free pages, or to none and its deletion.
LEMMA MoveLists ==
    ASSUME NEW D, ListTypes, ListsOK(D), D \subseteq live,
           NEW k \in Chunk \ D, NEW from, from = IF k \in live THEN m_parent[k] ELSE 0,
           NEW to \in List \cup {0}, to # from, Relist(k, from, to),
           live' = live \cup {k},
           \A j \in Chunk \ {k} : m_freeBytes'[j] = m_freeBytes[j],
           to # 0 => InBand(to, m_freeBytes'[k])
    PROVE  ListTypes' /\ ListsOK(IF to = 0 THEN D \cup {k} ELSE D)'
<1>1. PICK D2 : D2 = IF to = 0 THEN D \cup {k} ELSE D
  OBVIOUS
<1>2. \A q \in List : lists[q] \in Seq(Chunk) /\ IsInjective(lists[q])
  BY DEF ListTypes, ListsOK
<1>3. \A q \in List : q # 0 /\ q \in Int
  BY SMT DEF List, qInit, q100
<1>4. \A q \in List : k \in Range(lists[q]) <=> q = from
  <2> SUFFICES ASSUME NEW q \in List PROVE k \in Range(lists[q]) <=> q = from
    OBVIOUS
  <2>1. k \in Range(lists[q]) <=> k \in live \ D /\ m_parent[k] = q
    BY DEF ListsOK
  <2> QED
    BY <1>3, <2>1
<1>5. ASSUME NEW q \in List
      PROVE  /\ lists'[q] \in Seq(Chunk) /\ IsInjective(lists'[q])
             /\ \A j \in Chunk : j \in Range(lists'[q]) <=>
                   IF j = k THEN q = to ELSE j \in Range(lists[q])
  <2> DEFINE s == lists[q]
  <2>1. lists'[q] = LET rest == IF q = from THEN unlink(s, k) ELSE s
                    IN  IF q = to THEN <<k>> \o rest ELSE rest
    BY <1>5 DEF Relist
  <2>2. s \in Seq(Chunk) /\ IsInjective(s) /\ (k \in Range(s) <=> q = from)
    BY <1>2, <1>4, <1>5
  <2> HIDE DEF s
  <2>3. CASE q = from
    <3>1. lists'[q] = unlink(s, k)
      BY <2>1, <2>3
    <3>2. /\ unlink(s, k) \in Seq(Chunk) /\ IsInjective(unlink(s, k))
          /\ Range(unlink(s, k)) = Range(s) \ {k}
      BY <2>2, InjRemove
    <3> QED
      BY <2>3, <3>1, <3>2 DEF s
  <2>4. CASE q # from /\ q = to
    <3>1. lists'[q] = <<k>> \o s
      BY <2>1, <2>4
    <3>2. /\ <<k>> \o s \in Seq(Chunk) /\ IsInjective(<<k>> \o s)
          /\ Range(<<k>> \o s) = Range(s) \cup {k}
      BY <2>2, <2>4, InjCons, SMT
    <3> QED
      BY <2>4, <3>1, <3>2 DEF s
  <2>5. CASE q # from /\ q # to
    <3>1. lists'[q] = s
      BY <2>1, <2>5
    <3> QED
      BY <2>2, <2>5, <3>1 DEF s
  <2> QED
    BY <2>3, <2>4, <2>5
<1>6. /\ m_parent'[k] = to /\ \A j \in Chunk \ {k} : m_parent'[j] = m_parent[j]
      /\ m_parent' \in [Chunk -> Int]
  <2>1. m_parent' = [m_parent EXCEPT ![k] = to] /\ to \in Int
    BY <1>3, SMT DEF Relist
  <2> QED
    BY <2>1 DEF ListTypes
<1>7. ListTypes'
  <2>1. lists' \in [List -> Seq(Chunk)]
    <3>1. lists' = [q \in List |-> lists'[q]]
      BY DEF Relist
    <3> QED
      BY <1>5, <3>1
  <2>2. live' \subseteq Chunk
    BY DEF ListTypes
  <2> QED
    BY <1>6, <2>1, <2>2 DEF ListTypes
<1>8. \A j \in Chunk \ {k} : j \in live' \ D2 <=> j \in live \ D
  BY <1>1
<1>9. k \in live' \ D2 <=> to # 0
  BY <1>1
<1>10. \A q \in List, j \in Chunk :
          j \in Range(lists'[q]) <=> j \in live' \ D2 /\ m_parent'[j] = q
  <2> SUFFICES ASSUME NEW q \in List, NEW j \in Chunk
               PROVE  j \in Range(lists'[q]) <=> j \in live' \ D2 /\ m_parent'[j] = q
    OBVIOUS
  <2>1. CASE j = k
    BY <1>3, <1>5, <1>6, <1>9, <2>1
  <2>2. CASE j # k
    <3>1. j \in Range(lists[q]) <=> j \in live \ D /\ m_parent[j] = q
      BY DEF ListsOK
    <3> QED
      BY <1>5, <1>6, <1>8, <2>2, <3>1
  <2> QED
    BY <2>1, <2>2
<1>11. \A j \in live' \ D2 : m_parent'[j] \in List /\ InBand(m_parent'[j], m_freeBytes'[j])
  <2> SUFFICES ASSUME NEW j \in live' \ D2
               PROVE  m_parent'[j] \in List /\ InBand(m_parent'[j], m_freeBytes'[j])
    OBVIOUS
  <2>1. j \in Chunk
    BY <1>7 DEF ListTypes
  <2>2. CASE j = k
    BY <1>6, <1>9, <2>2
  <2>3. CASE j # k
    BY <1>6, <1>8, <2>1, <2>3 DEF ListsOK
  <2> QED
    BY <2>2, <2>3
<1>12. ListsOK(D2)'
  BY <1>5, <1>10, <1>11 DEF ListsOK, InBand
<1> QED
  BY <1>1, <1>7, <1>12

\* Chunk k stays where it is, and its free pages are still in the band.
LEMMA StayLists ==
    ASSUME NEW D, ListTypes, ListsOK(D), NEW k \in Chunk,
           lists' = lists, m_parent' = m_parent, live' = live,
           \A j \in Chunk \ {k} : m_freeBytes'[j] = m_freeBytes[j],
           k \in live \ D => InBand(m_parent[k], m_freeBytes'[k])
    PROVE  ListTypes' /\ ListsOK(D)'
<1>1. ListTypes'
  BY DEF ListTypes
<1>2. \A j \in live' \ D : m_parent'[j] \in List /\ InBand(m_parent'[j], m_freeBytes'[j])
  <2> SUFFICES ASSUME NEW j \in live \ D
               PROVE  m_parent[j] \in List /\ InBand(m_parent[j], m_freeBytes'[j])
    OBVIOUS
  <2>1. j \in Chunk /\ m_parent[j] \in List /\ InBand(m_parent[j], m_freeBytes[j])
    BY DEF ListTypes, ListsOK
  <2> QED
    BY <2>1
<1>3. ListsOK(D)'
  BY <1>2 DEF ListsOK, InBand
<1> QED
  BY <1>1, <1>3

\* The runs of the chunks that wait for deletion, or were deleted, stay free.
LEMMA EmptyStays ==
    ASSUME NEW D, ListTypes, EmptyOK(D), NEW k \in Chunk, NEW D2,
           \A j \in Chunk \ {k} : runs'[j] = runs[j],
           live' = live \cup {k}, D2 \subseteq D \cup {k},
           k \in D2 => \A r \in RunNo : runs'[k][r] = 0
    PROVE  EmptyOK(D2)'
<1>1. D2 \subseteq live'
  BY DEF EmptyOK
<1>2. \A j \in D2 \cup (Chunk \ live') : \A r \in RunNo : runs'[j][r] = 0
  <2> SUFFICES ASSUME NEW j \in D2 \cup (Chunk \ live'), NEW r \in RunNo PROVE runs'[j][r] = 0
    OBVIOUS
  <2>1. CASE j = k
    BY <2>1
  <2>2. CASE j # k
    <3>1. j \in Chunk /\ j \in D \cup (Chunk \ live)
      BY <2>2 DEF ListTypes, EmptyOK
    <3> QED
      BY <2>2, <3>1, SMT DEF EmptyOK
  <2> QED
    BY <2>1, <2>2
<1> QED
  BY <1>1, <1>2 DEF EmptyOK

\* A step inside the chunks that changes no run keeps the lists right.
LEMMA SameLists ==
    ASSUME NEW D, ListTypes, ListsOK(D), EmptyOK(D),
           UNCHANGED <<live, lists, m_parent, m_freeBytes, runs>>
    PROVE  ListTypes' /\ ListsOK(D)' /\ EmptyOK(D)'
<1>1. ListTypes'
  BY DEF ListTypes
<1>2. ListsOK(D)'
  BY DEF ListsOK, InBand
<1>3. EmptyOK(D)'
  BY DEF EmptyOK
<1> QED
  BY <1>1, <1>2, <1>3, SMT

\* A step that leaves the chunks alone.
LEMMA SameChunks ==
    ASSUME NEW H, NEW D, ChunksOK(H, D), UNCHANGED chunkVars
    PROVE  ChunksOK(H, D)'
<1>1. UNCHANGED <<live, lists, m_parent, m_freeBytes, runs, m_subpages, ring>>
  BY DEF chunkVars
<1>2. ListTypes' /\ ListsOK(D)' /\ EmptyOK(D)'
  BY <1>1, SameLists, SMT DEF ChunksOK
<1>3. BodyTypes /\ SubpagesOK /\ MemoryOK(H) /\ PagesOK /\ RingOK
  BY DEF ChunksOK, BodyOK
<1>4. BodyTypes'
  BY <1>1, <1>3, SMT DEF BodyTypes
<1>5. SubpagesOK'
  BY <1>1, <1>3 DEF SubpagesOK, GoodSub
<1>6. MemoryOK(H)'
  BY <1>1, <1>3 DEF MemoryOK, HandleFits
<1>7. PagesOK'
  BY <1>1, <1>3, SMT DEF PagesOK, UsedPages
<1>8. RingOK'
  <2>1. \A c \in Small : /\ IsInjective(ring'[c])
                         /\ \A j \in Chunk, r \in RunNo :
                              <<j, r>> \in Range(ring'[c]) <=>
                                 runs'[j][r] = c /\ HasFree(m_subpages'[j][r])
    BY <1>1, <1>3 DEF RingOK
  <2>2. \A c \in Small : \A at, too \in Range(ring'[c]) :
           m_subpages'[at[1]][at[2]].bits = {} /\ m_subpages'[too[1]][too[2]].bits = {} => at = too
    BY <1>1, <1>3 DEF RingOK, SubAt
  <2> QED
    BY <2>1, <2>2 DEF RingOK, SubAt, HasFree
<1> QED
  BY <1>2, <1>4, <1>5, <1>6, <1>7, <1>8 DEF ChunksOK, BodyOK

\* The first subpage of the ring serves.
LEMMA RingChunks ==
    ASSUME NEW H, NEW D, ChunksOK(H, D), ~failed, NEW t \in Thread,
           local[t].sizeIdx \in Small, allocateFromRing(t)
    PROVE  /\ \E h \in Handle : /\ h \notin H
                                /\ buf' = [buf EXCEPT ![local[t].b] = h]
                                /\ ChunksOK(H \cup {h}, D)'
           /\ ~failed'
<1>1. PICK c : c = local[t].sizeIdx
  OBVIOUS
<1>2. BodyOK(H) /\ ListTypes /\ EmptyOK(D) /\ ListsOK(D)
  BY DEF ChunksOK
<1>3. /\ \E h \in Handle : /\ h \notin H
                           /\ buf' = [buf EXCEPT ![local[t].b] = h]
                           /\ BodyOK(H \cup {h})'
      /\ ~failed'
  BY <1>1, <1>2, RingBody
<1>4. UNCHANGED <<live, lists, m_parent, m_freeBytes, runs>>
  BY DEF allocateFromRing
<1>5. ListTypes' /\ ListsOK(D)' /\ EmptyOK(D)'
  BY <1>2, <1>4, SameLists
<1>6. PICK h \in Handle : /\ h \notin H
                          /\ buf' = [buf EXCEPT ![local[t].b] = h]
                          /\ BodyOK(H \cup {h})'
  BY <1>3
<1>7. ChunksOK(H \cup {h}, D)'
  BY <1>5, <1>6, SMT DEF ChunksOK
<1> QED
  BY <1>3, <1>6, <1>7

\* A chunk of the lists serves, and moves up when that fills it past its list.
LEMMA ListsChunks ==
    ASSUME NEW H, NEW D, ChunksOK(H, D), ~failed, NEW t \in Thread,
           local[t].sizeIdx \in SizeIdx, allocateInLists(t)
    PROVE  /\ \E h \in Handle : /\ h \notin H
                                /\ buf' = [buf EXCEPT ![local[t].b] = h]
                                /\ ChunksOK(H \cup {h}, D)'
           /\ ~failed'
<1>1. PICK c : c = local[t].sizeIdx
  OBVIOUS
<1>2. BodyOK(H) /\ ListTypes /\ EmptyOK(D) /\ ListsOK(D)
  BY DEF ChunksOK
<1>3. PICK i \in 1 .. 5 : \E j \in DOMAIN lists[Asked[i]] :
         /\ chunkAllocate(t, lists[Asked[i]][j], c)
         /\ IF m_freeBytes'[lists[Asked[i]][j]] <= freeMinThreshold(Asked[i])
            THEN Relist(lists[Asked[i]][j], Asked[i],
                        add(Asked[i] + 1, m_freeBytes'[lists[Asked[i]][j]]))
            ELSE UNCHANGED <<lists, m_parent>>
  BY <1>1, SMT DEF allocateInLists
<1>4. PICK q : q = Asked[i]
  OBVIOUS
<1>5. q \in 1 .. 5 /\ q \in List /\ q + 1 \in List /\ q \in Int /\ q # 0
  BY <1>4, SMT DEF Asked, List, qInit, q000, q025, q050, q075, q100
<1>6. PICK j \in DOMAIN lists[q] :
         /\ chunkAllocate(t, lists[q][j], c)
         /\ IF m_freeBytes'[lists[q][j]] <= freeMinThreshold(q)
            THEN Relist(lists[q][j], q, add(q + 1, m_freeBytes'[lists[q][j]]))
            ELSE UNCHANGED <<lists, m_parent>>
  BY <1>3, <1>4
<1>7. PICK k : k = lists[q][j]
  OBVIOUS
<1>8. lists[q] \in Seq(Chunk)
  BY <1>2, <1>5, SMT DEF ListTypes
<1>9. k \in Range(lists[q]) /\ k \in Chunk
  <2>1. DOMAIN lists[q] = 1 .. Len(lists[q]) /\ Range(lists[q]) = {lists[q][n] : n \in 1 .. Len(lists[q])}
        /\ Range(lists[q]) \subseteq Chunk
    BY <1>8, SetOf, SMT
  <2> QED
    BY <1>7, <2>1
<1>10. k \in live \ D /\ m_parent[k] = q /\ InBand(q, m_freeBytes[k])
  BY <1>2, <1>5, <1>9, SMT DEF ListsOK
<1>11. chunkAllocate(t, k, c) /\ c \in SizeIdx
  BY <1>1, <1>6, <1>7
<1>12. /\ \E h \in Handle : /\ h \notin H /\ h.chunk = k
                            /\ buf' = [buf EXCEPT ![local[t].b] = h]
                            /\ BodyOK(H \cup {h})'
       /\ ~failed'
       /\ \A n \in Chunk \ {k} : m_freeBytes'[n] = m_freeBytes[n] /\ runs'[n] = runs[n]
       /\ 0 <= m_freeBytes'[k] /\ m_freeBytes'[k] < m_freeBytes[k]
  BY <1>2, <1>9, <1>11, AllocBody
<1>13. PICK h \in Handle : /\ h \notin H /\ h.chunk = k
                           /\ buf' = [buf EXCEPT ![local[t].b] = h]
                           /\ BodyOK(H \cup {h})'
  BY <1>12
<1>14. live' = live /\ live' = live \cup {k}
  BY <1>10, SMT DEF allocateInLists
<1>15. EmptyOK(D)'
  <2>1. D \subseteq D \cup {k} /\ k \notin D
    BY <1>10, SMT
  <2> QED
    BY <1>2, <1>9, <1>12, <1>14, <2>1, EmptyStays
<1>16. PICK f : f = m_freeBytes'[k]
  BY SMT
<1>17. f \in Int /\ 0 <= f /\ f <= freeMaxThreshold(q)
  <2>1. m_freeBytes[k] \in Int /\ m_freeBytes'[k] \in Int
    BY <1>2, <1>9, <1>13, SMT DEF BodyOK, BodyTypes
  <2>2. m_freeBytes[k] <= freeMaxThreshold(q)
    BY <1>10 DEF InBand
  <2>3. freeMaxThreshold(q) \in Int
    BY <1>5, Bands, SMT
  <2> QED
    BY <1>12, <1>16, <2>1, <2>2, <2>3, SMT
<1>18. ListTypes' /\ ListsOK(D)'
  <2>1. CASE f <= freeMinThreshold(q)
    <3>1. PICK to : to = add(q + 1, f)
      OBVIOUS
    <3>2. Relist(k, q, to)
      BY <1>6, <1>7, <1>16, <2>1, <3>1
    <3>3. f <= freeMaxThreshold(q + 1)
      <4>1. /\ freeMinThreshold(q) <= freeMaxThreshold(q + 1)
            /\ freeMinThreshold(q) \in Int /\ freeMaxThreshold(q + 1) \in Int
        BY <1>5, Bands
      <4> QED
        BY <1>17, <2>1, <4>1, SMT
    <3>4. to \in List /\ to >= q + 1 /\ InBand(to, f)
      BY <1>5, <1>17, <3>1, <3>3, AddBand
    <3>5. to \in List \cup {0} /\ to # q /\ to # 0
      BY <1>5, <3>4, SMT DEF List, qInit, q100
    <3>6. q = IF k \in live THEN m_parent[k] ELSE 0
      BY <1>10
    <3>7. D \subseteq live /\ k \in Chunk \ D
      BY <1>2, <1>9, <1>10 DEF EmptyOK
    <3>8. ListTypes' /\ ListsOK(IF to = 0 THEN D \cup {k} ELSE D)'
      <4>1. \A n \in Chunk \ {k} : m_freeBytes'[n] = m_freeBytes[n]
        BY <1>12
      <4>2. to # 0 => InBand(to, m_freeBytes'[k])
        BY <1>16, <3>4, SMT
      <4>3. ListTypes /\ ListsOK(D) /\ live' = live \cup {k} /\ to # q
        BY <1>2, <1>14, <3>5, SMT
      <4>4. to \in List \cup {0}
        BY <3>5
      <4> QED
        BY <3>2, <3>6, <3>7, <4>1, <4>2, <4>3, <4>4, MoveLists
    <3> QED
      BY <3>5, <3>8, SMT
  <2>2. CASE ~(f <= freeMinThreshold(q))
    <3>1. lists' = lists /\ m_parent' = m_parent
      BY <1>6, <1>7, <1>16, <2>2
    <3>2. InBand(m_parent[k], m_freeBytes'[k])
      <4>1. freeMinThreshold(q) \in Int
        BY <1>5, Bands, SMT
      <4> QED
        BY <1>10, <1>16, <1>17, <2>2, <4>1, SMT DEF InBand
    <3> QED
      BY <1>2, <1>9, <1>12, <1>14, <3>1, <3>2, StayLists
  <2> QED
    BY <2>1, <2>2, SMT
<1>19. ChunksOK(H \cup {h}, D)'
  BY <1>13, <1>15, <1>18, SMT DEF ChunksOK
<1> QED
  BY <1>12, <1>13, <1>19

\* A new chunk serves.
LEMMA NewChunks ==
    ASSUME NEW H, NEW D, ChunksOK(H, D), ~failed, NEW t \in Thread,
           local[t].sizeIdx \in SizeIdx, allocateInNewChunk(t)
    PROVE  /\ \E h \in Handle : /\ h \notin H
                                /\ buf' = [buf EXCEPT ![local[t].b] = h]
                                /\ ChunksOK(H \cup {h}, D)'
           /\ ~failed'
<1>1. PICK c : c = local[t].sizeIdx
  OBVIOUS
<1>2. BodyOK(H) /\ ListTypes /\ EmptyOK(D) /\ ListsOK(D)
  BY DEF ChunksOK
<1>3. PICK k : k = Min(Chunk \ live)
  OBVIOUS
<1>4. k \in Chunk \ live
  <2>1. Chunk \ live # {} /\ Chunk \ live \in SUBSET Nat
    BY <1>2, ArenaAssumption DEF allocateInNewChunk, ListTypes
  <2> QED
    BY <1>3, <2>1, MinProps
<1>5. /\ live' = live \cup {k} /\ chunkAllocate(t, k, c) /\ c \in SizeIdx
      /\ Relist(k, 0, add(qInit, m_freeBytes'[k]))
  BY <1>1, <1>3 DEF allocateInNewChunk
<1>6. /\ \E h \in Handle : /\ h \notin H /\ h.chunk = k
                           /\ buf' = [buf EXCEPT ![local[t].b] = h]
                           /\ BodyOK(H \cup {h})'
      /\ ~failed'
      /\ \A n \in Chunk \ {k} : m_freeBytes'[n] = m_freeBytes[n] /\ runs'[n] = runs[n]
      /\ 0 <= m_freeBytes'[k] /\ m_freeBytes'[k] < m_freeBytes[k]
  BY <1>2, <1>4, <1>5, AllocBody
<1>7. PICK h \in Handle : /\ h \notin H /\ h.chunk = k
                          /\ buf' = [buf EXCEPT ![local[t].b] = h]
                          /\ BodyOK(H \cup {h})'
  BY <1>6
<1>8. k \notin D /\ D \subseteq live
  BY <1>2, <1>4, SMT DEF EmptyOK
<1>9. EmptyOK(D)'
  <2>1. D \subseteq D \cup {k}
    OBVIOUS
  <2> QED
    BY <1>2, <1>4, <1>5, <1>6, <1>8, <2>1, EmptyStays
<1>10. PICK f, to : f = m_freeBytes'[k] /\ to = add(qInit, f)
  OBVIOUS
<1>11. f \in Int /\ 0 <= f /\ f <= freeMaxThreshold(qInit) /\ qInit \in List
  <2>1. m_freeBytes[k] \in Int /\ m_freeBytes[k] <= ChunkPages /\ m_freeBytes'[k] \in Int
    BY <1>2, <1>4, <1>7, PagesRange DEF BodyOK, BodyTypes
  <2>2. qInit = 1 /\ qInit \in List
    BY SMT DEF qInit, List, q100
  <2>3. freeMaxThreshold(qInit) >= ChunkPages /\ freeMaxThreshold(qInit) \in Int /\ ChunkPages \in Int
    BY <2>2, Bands, SMT
  <2> QED
    BY <1>6, <1>10, <2>1, <2>2, <2>3, SMT
<1>12. to \in List /\ to >= qInit /\ InBand(to, f)
  BY <1>10, <1>11, AddBand, SMT
<1>13. to \in List \cup {0} /\ to # 0
  BY <1>12, SMT DEF List, qInit, q100
<1>14. Relist(k, 0, to) /\ k \in Chunk \ D /\ 0 = IF k \in live THEN m_parent[k] ELSE 0
  BY <1>4, <1>5, <1>8, <1>10
<1>15. ListTypes' /\ ListsOK(IF to = 0 THEN D \cup {k} ELSE D)'
  BY <1>2, <1>5, <1>6, <1>8, <1>10, <1>12, <1>13, <1>14, MoveLists, ZenonT(60)
<1>16. ListsOK(D)'
  BY <1>13, <1>15, SMT
<1>17. ChunksOK(H \cup {h}, D)'
  BY <1>7, <1>9, <1>15, <1>16 DEF ChunksOK
<1> QED
  BY <1>6, <1>7, <1>17

\* freeChunk takes handle h back, its assertions hold, and the chunk either stays in a
\* list or waits for its deletion.
LEMMA FreeChunks ==
    ASSUME NEW H, NEW D, ChunksOK(H, D), NEW h \in H, NEW t \in Thread, NEW queues, NEW cont,
           freeChunk(t, h, queues, cont)
    PROVE  /\ ~failed'
           /\ \/ ChunksOK(H \ {h}, D)' /\ Settle(t, queues, cont)
              \/ \E k \in Chunk \ D :
                    /\ ChunksOK(H \ {h}, D \cup {k})'
                    /\ Settle(t, queues, [cont EXCEPT !.pc = "destroy", !.back = cont.pc, !.dead = k])
<1>1. BodyOK(H) /\ ListTypes /\ EmptyOK(D) /\ ListsOK(D)
  BY DEF ChunksOK
<1>2. PICK k : k = h.chunk
  OBVIOUS
<1>3. PICK q, f : q = m_parent[k] /\ f = LeftFree(h)
  OBVIOUS
<1>4. /\ BodyOK(H \ {h})' /\ HandleOK(h)
      /\ m_freeBytes' = [m_freeBytes EXCEPT ![k] = f]
      /\ m_freeBytes[k] <= f
      /\ \A j \in Chunk \ {k} : runs'[j] = runs[j]
  BY <1>1, <1>2, <1>3, FreeBody
<1>5. h \in Handle /\ k \in Chunk /\ h.run \in RunNo /\ runs[k][h.run] # 0
  <2>1. h \in Handle /\ HandleFits(h)
    BY <1>1, SMT DEF BodyOK, MemoryOK
  <2>2. h.sizeIdx # 0
    BY <2>1, HandleParts, RunLengths
  <2> QED
    BY <1>2, <2>1, <2>2, HandleParts DEF HandleFits
<1>6. k \in live \ D /\ D \subseteq live
  BY <1>1, <1>5 DEF EmptyOK
<1>7. q \in List /\ InBand(q, m_freeBytes[k])
  BY <1>1, <1>3, <1>6 DEF ListsOK
<1>8. /\ m_freeBytes'[k] = f /\ \A j \in Chunk \ {k} : m_freeBytes'[j] = m_freeBytes[j]
      /\ m_freeBytes[k] \in Int
  BY <1>1, <1>4, <1>5 DEF BodyOK, BodyTypes
<1>9. f \in Int /\ 0 <= f /\ f <= ChunkPages /\ (f = ChunkPages => \A r \in RunNo : runs'[k][r] = 0)
  <2>1. BodyTypes' /\ PagesOK'
    BY <1>4, SMT DEF BodyOK
  <2>2. runs'[k] \in RunTable
    BY <1>5, <2>1 DEF BodyTypes
  <2>3. /\ m_freeBytes'[k] = ChunkPages - Cardinality(UsedPages(runs'[k]))
        /\ m_freeBytes'[k] >= 0
    BY <1>5, <2>1 DEF PagesOK, UsedPages
  <2>4. PICK R : R = runs'[k]
    OBVIOUS
  <2>5. /\ f \in Int /\ 0 <= f /\ f <= ChunkPages
        /\ f = ChunkPages <=> \A r \in RunNo : R[r] = 0
    BY <1>8, <2>2, <2>3, <2>4, PageCount
  <2> QED
    BY <2>4, <2>5, SMT
<1>10. /\ IF Leaves(q, f) THEN Relist(k, q, move0(q, f)) ELSE UNCHANGED <<lists, m_parent>>
       /\ failed' = ~(HandleOK(h) /\ (Leaves(q, f) => MoveOK(q, f)))
       /\ Settle(t, queues, IF Leaves(q, f) /\ move0(q, f) = 0
                            THEN [cont EXCEPT !.pc = "destroy", !.back = cont.pc, !.dead = k]
                            ELSE cont)
       /\ live' = live
  BY <1>2, <1>3 DEF freeChunk, LeftFree, Asserts
<1>11. freeMaxThreshold(q) \in Int /\ freeMinThreshold(q) \in Int
  BY <1>7, Bands, SMT
<1>12. live' = live \cup {k} /\ k \in Chunk \ D
  BY <1>5, <1>6, <1>10
<1>13. CASE Leaves(q, f)
  <2>1. f > freeMaxThreshold(q)
    BY <1>13 DEF Leaves
  <2>2. PICK to : to = move0(q, f)
    OBVIOUS
  <2>3. /\ MoveOK(q, f)
        /\ \/ to = 0 /\ f = ChunkPages
           \/ to \in List /\ to < q /\ InBand(to, f)
    BY <1>7, <1>9, <2>1, <2>2, MoveBand
  <2>4. ~failed'
    BY <1>4, <1>10, <2>3
  <2>5. to \in List \cup {0} /\ to # q /\ (to # 0 => InBand(to, m_freeBytes'[k]))
    BY <1>7, <1>8, <2>3, SMT DEF List, qInit, q100
  <2>6. Relist(k, q, to) /\ q = IF k \in live THEN m_parent[k] ELSE 0
    BY <1>3, <1>6, <1>10, <1>13, <2>2
  <2>7. ListTypes' /\ ListsOK(IF to = 0 THEN D \cup {k} ELSE D)'
    <3>1. \A n \in Chunk \ {k} : m_freeBytes'[n] = m_freeBytes[n]
      BY <1>8, SMT
    <3>2. ListTypes /\ ListsOK(D) /\ D \subseteq live
      BY <1>1, <1>6
    <3> QED
      BY <1>12, <2>5, <2>6, <3>1, <3>2, MoveLists
  <2>8. CASE to = 0
    <3>1. EmptyOK(D \cup {k})'
      <4>1. PICK D2 : D2 = D \cup {k}
        OBVIOUS
      <4>2. D2 \subseteq D \cup {k} /\ (k \in D2 => \A r \in RunNo : runs'[k][r] = 0)
        BY <1>9, <2>3, <2>8, <4>1, SMT DEF List, qInit, q100
      <4>3. EmptyOK(D2)'
        BY <1>1, <1>4, <1>5, <1>12, <4>2, EmptyStays
      <4> QED
        BY <4>1, <4>3
    <3>2. ListsOK(D \cup {k})'
      BY <2>7, <2>8, SMT
    <3>3. ChunksOK(H \ {h}, D \cup {k})'
      BY <1>4, <2>7, <3>1, <3>2 DEF ChunksOK
    <3>4. Settle(t, queues, [cont EXCEPT !.pc = "destroy", !.back = cont.pc, !.dead = k])
      BY <1>10, <1>13, <2>2, <2>8
    <3> QED
      BY <1>12, <2>4, <3>3, <3>4
  <2>9. CASE to # 0
    <3>1. EmptyOK(D)'
      <4>1. D \subseteq D \cup {k} /\ k \notin D
        BY <1>6
      <4> QED
        BY <1>1, <1>4, <1>5, <1>12, <4>1, EmptyStays
    <3>2. ListsOK(D)'
      BY <2>7, <2>9
    <3>3. ChunksOK(H \ {h}, D)'
      BY <1>4, <2>7, <3>1, <3>2 DEF ChunksOK
    <3>4. Settle(t, queues, cont)
      BY <1>10, <2>2, <2>9
    <3> QED
      BY <2>4, <3>3, <3>4
  <2> QED
    BY <2>8, <2>9
<1>14. CASE ~Leaves(q, f)
  <2>1. InBand(q, f)
    BY <1>4, <1>7, <1>8, <1>9, <1>11, <1>14, SMT DEF InBand, Leaves
  <2>2. lists' = lists /\ m_parent' = m_parent
    BY <1>10, <1>14
  <2>3. ListTypes' /\ ListsOK(D)'
    <3>1. k \in live \ D => InBand(m_parent[k], m_freeBytes'[k])
      BY <1>3, <1>8, <2>1
    <3>2. \A n \in Chunk \ {k} : m_freeBytes'[n] = m_freeBytes[n]
      BY <1>8
    <3> QED
      BY <1>1, <1>5, <1>10, <2>2, <3>1, <3>2, StayLists, SMT
  <2>4. EmptyOK(D)'
    <3>1. D \subseteq D \cup {k} /\ k \notin D
      BY <1>6
    <3> QED
      BY <1>1, <1>4, <1>5, <1>12, <3>1, EmptyStays
  <2>5. ChunksOK(H \ {h}, D)'
    BY <1>4, <2>3, <2>4 DEF ChunksOK
  <2>6. ~failed' /\ Settle(t, queues, cont)
    BY <1>4, <1>10, <1>14
  <2> QED
    BY <2>5, <2>6
<1> QED
  BY <1>13, <1>14

\* destroyChunk of a chunk that waits for it.
LEMMA DestroyChunks ==
    ASSUME NEW H, NEW D, ChunksOK(H, D), NEW t \in Thread, NEW k \in D, k = local[t].dead,
           destroyChunk(t)
    PROVE  ChunksOK(H, D \ {k})'
<1>1. BodyOK(H) /\ ListTypes /\ EmptyOK(D) /\ ListsOK(D)
  BY DEF ChunksOK
<1>2. k \in Chunk /\ k \in live /\ \A r \in RunNo : runs[k][r] = 0
  BY <1>1 DEF EmptyOK, ListTypes
<1>3. /\ runs' = runs /\ m_subpages' = m_subpages /\ m_freeBytes' = m_freeBytes
      /\ ring' = ring /\ BodyOK(H)'
  BY <1>1, <1>2, DestroyBody
<1>4. live' = live \ {k} /\ lists' = lists /\ m_parent' = m_parent
  BY DEF destroyChunk
<1>5. ListTypes'
  BY <1>1, <1>4 DEF ListTypes
<1>6. PICK D2 : D2 = D \ {k}
  OBVIOUS
<1>7. live' \ D2 = live \ D
  BY <1>1, <1>4, <1>6
<1>8. ListsOK(D2)'
  BY <1>1, <1>3, <1>4, <1>7 DEF ListsOK, InBand
<1>9. EmptyOK(D2)'
  <2>1. D2 \subseteq live' /\ D2 \cup (Chunk \ live') \subseteq D \cup (Chunk \ live)
    BY <1>1, <1>2, <1>4, <1>6 DEF EmptyOK
  <2>2. \A j \in D2 \cup (Chunk \ live') : \A r \in RunNo : runs'[j][r] = 0
    BY <1>1, <1>3, <2>1 DEF EmptyOK
  <2> QED
    BY <2>1, <2>2 DEF EmptyOK
<1> QED
  BY <1>3, <1>5, <1>6, <1>8, <1>9 DEF ChunksOK

----------------------------------------------------------------------------
(* What a step does to the calls.                                            *)

\* A call that may follow a step: one that is right, or a release still to be settled.
NextCall(l, bf) == CallOK(l, bf) \/ (l.pc = "release" /\ l.dead = 0)

\* The call of one thread changes; the other calls do not share its buffer or its chunk.
LEMMA CallsStep ==
    ASSUME CallsOK, NEW t \in Thread, NEW l \in Call_, NEW bf, bf = buf',
           local' = [local EXCEPT ![t] = l], CallOK(l, bf),
           \A u \in Thread \ {t} : local[u].b = l.b => l.b = 0,
           \A u \in Thread \ {t} : local[u].dead = l.dead => l.dead = 0,
           \A u \in Thread \ {t} : local[u].b \in Buf => bf[local[u].b] = buf[local[u].b],
           hits' \in [Thread -> [Cached -> Nat]]
    PROVE  CallsOK' /\ Dying' = (Dying \ {local[t].dead}) \cup ({l.dead} \ {0})
<1>1. /\ local \in [Thread -> Call_] /\ local' \in [Thread -> Call_] /\ local'[t] = l
      /\ \A u \in Thread \ {t} : local'[u] = local[u]
  BY DEF CallsOK
<1>2. \A u \in Thread : CallOK(local'[u], bf)
  <2> SUFFICES ASSUME NEW u \in Thread \ {t} PROVE CallOK(local[u], bf)
    BY <1>1
  <2>1. CallOK(local[u], buf)
    BY DEF CallsOK
  <2>2. \A pc : ThenOK(local[u], pc, buf) => ThenOK(local[u], pc, bf)
    BY DEF ThenOK, Wants
  <2> QED
    BY <2>1, <2>2 DEF CallOK
<1>3. \A u, v \in Thread : local'[u].b = local'[v].b /\ local'[u].b # 0 => u = v
  <2> SUFFICES ASSUME NEW u \in Thread, NEW v \in Thread,
                      local'[u].b = local'[v].b, local'[u].b # 0
               PROVE  u = v
    OBVIOUS
  <2>1. CASE u = t \/ v = t
    BY <1>1, <2>1
  <2>2. CASE u # t /\ v # t
    BY <1>1, <2>2 DEF CallsOK
  <2> QED
    BY <2>1, <2>2
<1>4. \A u, v \in Thread : local'[u].dead = local'[v].dead /\ local'[u].dead # 0 => u = v
  <2> SUFFICES ASSUME NEW u \in Thread, NEW v \in Thread,
                      local'[u].dead = local'[v].dead, local'[u].dead # 0
               PROVE  u = v
    OBVIOUS
  <2>1. CASE u = t \/ v = t
    BY <1>1, <2>1
  <2>2. CASE u # t /\ v # t
    BY <1>1, <2>2 DEF CallsOK
  <2> QED
    BY <2>1, <2>2
<1>5. CallsOK'
  BY <1>1, <1>2, <1>3, <1>4 DEF CallsOK
<1>6. ASSUME NEW k PROVE k \in Dying' <=> k \in (Dying \ {local[t].dead}) \cup ({l.dead} \ {0})
  <2>1. k \in Dying' <=> k # 0 /\ \E u \in Thread : k = local'[u].dead
    BY DEF Dying
  <2>2. k \in Dying <=> k # 0 /\ \E u \in Thread : k = local[u].dead
    BY DEF Dying
  <2>3. k = local[t].dead /\ k # 0 => \A u \in Thread \ {t} : local[u].dead # k
    BY DEF CallsOK
  <2>4. (\E u \in Thread : k = local'[u].dead) <=> k = l.dead \/ \E u \in Thread \ {t} : k = local[u].dead
    BY <1>1
  <2>5. (\E u \in Thread : k = local[u].dead) <=>
           k = local[t].dead \/ \E u \in Thread \ {t} : k = local[u].dead
    OBVIOUS
  <2> QED
    BY <2>1, <2>2, <2>3, <2>4, <2>5
<1>7. Dying' = (Dying \ {local[t].dead}) \cup ({l.dead} \ {0})
  BY <1>6
<1> QED
  BY <1>5, <1>7

\* Idle is a call, with nothing to free and no buffer.
LEMMA IdleCall ==
    /\ Idle \in Call_ /\ Idle.b = 0 /\ Idle.dead = 0 /\ Idle.old = NoHandle
    /\ Idle.pc = "idle" /\ Idle.then = "idle" /\ Idle.back = "idle"
    /\ \A bf : CallOK(Idle, bf)
<1>1. Idle \in Call_
  <2>1. [c \in Cached |-> 0] \in [Cached -> Int]
    BY SMT
  <2>2. 0 \in Buf \cup {0} /\ NoHandle \in Handle \cup {NoHandle} /\ 0 \in Chunk \cup {0}
    OBVIOUS
  <2>3. 0 \in Int
    BY SMT
  <2>4. "idle" \in Pc
    BY DEF Pc
  <2> QED
    BY <2>1, <2>2, <2>3, <2>4 DEF Idle, Call_
<1>2. /\ Idle.b = 0 /\ Idle.dead = 0 /\ Idle.old = NoHandle
      /\ Idle.pc = "idle" /\ Idle.then = "idle" /\ Idle.back = "idle"
  BY DEF Idle
<1>3. \A bf : CallOK(Idle, bf)
  BY DEF CallOK
<1> QED
  BY <1>1, <1>2, <1>3

\* The same for a step that ends with Settle.
LEMMA SettleCalls ==
    ASSUME CallsOK, NEW t \in Thread, NEW l \in Call_, NEW q, NEW bf, bf = buf',
           Settle(t, q, l), NextCall(l, bf),
           \A u \in Thread \ {t} : local[u].b = l.b => l.b = 0,
           \A u \in Thread \ {t} : local[u].dead = l.dead => l.dead = 0,
           \A u \in Thread \ {t} : local[u].b \in Buf => bf[local[u].b] = buf[local[u].b],
           hits' \in [Thread -> [Cached -> Nat]]
    PROVE  CallsOK' /\ Dying' = (Dying \ {local[t].dead}) \cup ({l.dead} \ {0})
<1> DEFINE ended == l.pc = "release" /\ (Cacheable(l.old) \/ l.old = NoHandle)
<1>1. local' = [local EXCEPT ![t] = IF ended THEN Idle ELSE l]
  BY DEF Settle
<1>2. CASE ended
  <2>1. local' = [local EXCEPT ![t] = Idle]
    BY <1>1, <1>2
  <2>2. l.dead = 0
    <3>1. l = Idle => l.pc # "release"
      BY IdleCall
    <3>2. l = [Idle EXCEPT !.pc = "destroy", !.back = "idle", !.dead = l.dead] => l.pc = "destroy"
      BY DEF Idle
    <3> QED
      BY <1>2, <3>1, <3>2 DEF NextCall, CallOK
  <2>3. CallsOK' /\ Dying' = (Dying \ {local[t].dead}) \cup ({Idle.dead} \ {0})
    <3>1. /\ \A u \in Thread \ {t} : local[u].b = Idle.b => Idle.b = 0
          /\ \A u \in Thread \ {t} : local[u].dead = Idle.dead => Idle.dead = 0
      BY IdleCall
    <3>2. Idle \in Call_ /\ CallOK(Idle, bf)
      BY IdleCall
    <3>3. PICK i : i = Idle
      OBVIOUS
    <3>4. CallsOK' /\ Dying' = (Dying \ {local[t].dead}) \cup ({i.dead} \ {0})
      BY <2>1, <3>1, <3>2, <3>3, CallsStep
    <3> QED
      BY <3>3, <3>4
  <2> QED
    BY <2>2, <2>3, IdleCall
<1>3. CASE ~ended
  <2>1. local' = [local EXCEPT ![t] = l]
    BY <1>1, <1>3
  <2>2. CallOK(l, bf)
    BY <1>3 DEF NextCall, CallOK
  <2> QED
    BY <2>1, <2>2, CallsStep
<1> QED
  BY <1>2, <1>3

\* Memory that is held passes the assertions about its subpage.
LEMMA HeldOK ==
    ASSUME NEW H, NEW D, ChunksOK(H, D), NEW h \in H
    PROVE  HandleOK(h)
<1>1. HandleFits(h) /\ h \in Handle /\ SubpagesOK
  BY DEF ChunksOK, BodyOK, MemoryOK
<1>2. h.chunk \in Chunk /\ h.run \in RunNo
  BY <1>1, HandleParts, SMT
<1>3. CASE h.sizeIdx \in Small
  <2>1. GoodSub(m_subpages[h.chunk][h.run], h.sizeIdx) /\ h.elem \in m_subpages[h.chunk][h.run].bits
    BY <1>1, <1>2, <1>3 DEF SubpagesOK, HandleFits
  <2> QED
    BY <2>1 DEF HandleOK, GoodSub
<1>4. CASE h.sizeIdx \notin Small
  BY <1>1, <1>4, SMT DEF HandleOK, HandleFits
<1> QED
  BY <1>3, <1>4

----------------------------------------------------------------------------
(* Each action keeps the invariant.                                          *)

\* What the invariant says before a step of thread t: what is held is H, the chunks about
\* to be deleted are D, and without what t is about to free the holders are right.
Ready(t, H, D, o0) ==
    /\ H = HeldIn(buf, cache, olds) /\ D = Dying /\ Stored(olds, t, NoHandle, o0)
    /\ ChunksOK(H, D) /\ HoldersOK(buf, cache, o0)
    /\ HeldIn(buf, cache, o0) = H \ {local[t].old}
    /\ local[t].old \in H \cup {NoHandle}
    /\ NoHandle \notin H /\ H \subseteq Handle
    /\ local[t] \in Call_ /\ CallOK(local[t], buf)

\* The invariant gives that.
LEMMA BeforeStep ==
    ASSUME ArenaInv, NEW t \in Thread
    PROVE  \E H, D, o0 : Ready(t, H, D, o0)
<1>1. PICK H, D, o0 :
         H = HeldIn(buf, cache, olds) /\ D = Dying /\ o0 = [olds EXCEPT ![t] = NoHandle]
  OBVIOUS
<1>2. ChunksOK(H, D)
  <2>1. ChunksOK(HeldIn(buf, cache, olds), Dying)
    BY DEF ArenaInv
  <2> QED
    BY <1>1, <2>1
<1>3. HoldersOK(buf, cache, olds) /\ local[t] \in Call_ /\ CallOK(local[t], buf)
  BY DEF ArenaInv, CallsOK
<1>4. olds[t] = local[t].old
  BY DEF olds
<1>8. Stored(olds, t, NoHandle, o0)
  BY <1>1 DEF Stored
<1>5. HoldersOK(buf, cache, o0) /\ HeldIn(buf, cache, o0) = HeldIn(buf, cache, olds) \ {olds[t]}
  BY <1>3, <1>8, ClearOld, SMT
<1>6. local[t].old \in H \cup {NoHandle} /\ NoHandle \notin H
  BY <1>1, <1>4, HeldProps
<1>7. H \subseteq Handle
  BY <1>1, <1>3, HeldHandles DEF HoldersOK
<1> QED
  BY <1>1, <1>2, <1>3, <1>4, <1>5, <1>6, <1>7, <1>8 DEF Ready

\* The step of t leads to buffers bf, caches q and call l; H0 is then held without what
\* the call is about to free, H2 with it, and the chunks about to be deleted are D2.
StepTo(t, bf, q, l, o0, H0, H2, D2) ==
    /\ bf = buf' /\ Stored(olds, t, NoHandle, o0)
    /\ HoldersOK(bf, q, o0) /\ H0 = HeldIn(bf, q, o0)
    /\ l.old = NoHandle \/ l.old \notin H0
    /\ H2 = H0 \cup ({l.old} \ {NoHandle})
    /\ Settle(t, q, l) /\ NextCall(l, bf)
    /\ \A u \in Thread \ {t} : local[u].b = l.b => l.b = 0
    /\ \A u \in Thread \ {t} : local[u].dead = l.dead => l.dead = 0
    /\ \A u \in Thread \ {t} : local[u].b \in Buf => bf[local[u].b] = buf[local[u].b]
    /\ hits' \in [Thread -> [Cached -> Nat]]
    /\ D2 = (Dying \ {local[t].dead}) \cup ({l.dead} \ {0})

\* The end of a step.
LEMMA StepEnds ==
    ASSUME ArenaInv, NEW t \in Thread, NEW bf, NEW q, NEW l \in Call_, NEW o0, NEW H0, NEW H2,
           NEW D2, StepTo(t, bf, q, l, o0, H0, H2, D2), ChunksOK(H2, D2)', ~failed'
    PROVE  ArenaInv'
<1>1. CallsOK /\ local \in [Thread -> Call_]
  BY DEF ArenaInv, CallsOK
<1>2. CallsOK' /\ Dying' = (Dying \ {local[t].dead}) \cup ({l.dead} \ {0})
  <2>1. /\ bf = buf' /\ Settle(t, q, l) /\ NextCall(l, bf)
        /\ \A u \in Thread \ {t} : local[u].b = l.b => l.b = 0
        /\ \A u \in Thread \ {t} : local[u].dead = l.dead => l.dead = 0
        /\ \A u \in Thread \ {t} : local[u].b \in Buf => bf[local[u].b] = buf[local[u].b]
        /\ hits' \in [Thread -> [Cached -> Nat]]
    BY DEF StepTo
  <2> QED
    BY <1>1, <2>1, SettleCalls
<1>4. HoldersOK(bf, cache', olds') /\ HeldIn(bf, cache', olds') = H2
  <2>1. /\ Stored(olds, t, NoHandle, o0) /\ HoldersOK(bf, q, o0) /\ Settle(t, q, l)
        /\ l.old = NoHandle \/ l.old \notin HeldIn(bf, q, o0)
        /\ H2 = HeldIn(bf, q, o0) \cup ({l.old} \ {NoHandle})
    BY DEF StepTo
  <2>2. /\ HoldersOK(bf, cache', olds')
        /\ HeldIn(bf, cache', olds') = HeldIn(bf, q, o0) \cup ({l.old} \ {NoHandle})
    BY <1>1, <2>1, SettleHolders
  <2> QED
    BY <2>1, <2>2
<1>5. PICK q2, o2 : q2 = cache' /\ o2 = olds'
  OBVIOUS
<1>6. HoldersOK(bf, q2, o2) /\ H2 = HeldIn(bf, q2, o2) /\ D2 = Dying' /\ bf = buf'
  BY <1>2, <1>4, <1>5 DEF StepTo
<1> QED
  BY <1>2, <1>5, <1>6, InvStep

\* A call that goes on at another step.
GoesOn(l, pc, m) == m = [l EXCEPT !.pc = pc]

\* Nothing but the step changes.
LEMMA CallChange ==
    ASSUME NEW l \in Call_, NEW pc \in Pc, NEW m, GoesOn(l, pc, m)
    PROVE  /\ m \in Call_ /\ m.pc = pc /\ m.dead = l.dead /\ m.b = l.b /\ m.old = l.old
           /\ m.then = l.then /\ m.sizeIdx = l.sizeIdx /\ m.back = l.back
BY DEF Call_, GoesOn

\* Memory h was found for the buffer of the call, by the ring or by a chunk.
LEMMA FoundInv ==
    ASSUME ArenaInv, NEW t \in Thread, local[t].pc \in {"ring", "normal"},
           NEW H, NEW D, NEW o0, Ready(t, H, D, o0),
           NEW h \in Handle, h \notin H, buf' = [buf EXCEPT ![local[t].b] = h],
           ChunksOK(H \cup {h}, D)', ~failed', hits' = hits,
           Settle(t, cache, [local[t] EXCEPT !.pc = "release"])
    PROVE  ArenaInv'
<1>1. /\ Stored(olds, t, NoHandle, o0)
      /\ D = Dying
      /\ HoldersOK(buf, cache, o0)
      /\ HeldIn(buf, cache, o0) = H \ {local[t].old}
      /\ local[t].old \in H \cup {NoHandle}
      /\ NoHandle \notin H /\ H \subseteq Handle
      /\ local[t] \in Call_ /\ CallOK(local[t], buf)
  BY DEF Ready
<1>2. PICK q, bf, b, l, old : /\ q = cache /\ bf = buf' /\ b = local[t].b
                              /\ l = [local[t] EXCEPT !.pc = "release"] /\ old = local[t].old
  OBVIOUS
<1>3. /\ l \in Call_ /\ l.pc = "release" /\ l.dead = local[t].dead /\ l.b = b /\ l.old = old
  <2>1. PICK m : m = local[t]
    OBVIOUS
  <2>2. m \in Call_ /\ GoesOn(m, "release", l)
    BY <1>1, <1>2, <2>1, SMT DEF GoesOn
  <2>3. "release" \in Pc
    BY DEF Pc
  <2>4. l \in Call_ /\ l.pc = "release" /\ l.dead = m.dead /\ l.b = m.b /\ l.old = m.old
    BY <2>2, <2>3, CallChange, SMT
  <2> QED
    BY <1>2, <2>1, <2>4
<1>4. b \in Buf /\ buf[b] = NoHandle /\ local[t].dead = 0
  <2>1. local[t] # Idle
    BY IdleCall, SMT
  <2>2. local[t] # [Idle EXCEPT !.pc = "destroy", !.back = "idle", !.dead = local[t].dead]
    BY DEF Idle
  <2>3. local[t].dead = 0 /\ ThenOK(local[t], local[t].pc, buf)
    BY <1>1, <2>1, <2>2, SMT DEF CallOK
  <2> QED
    BY <1>2, <2>3 DEF ThenOK, Wants
<1>5. h \notin HeldIn(buf, cache, o0)
  BY <1>1
<1>6. HoldersOK(bf, q, o0) /\ HeldIn(bf, q, o0) = (H \ {old}) \cup {h}
  <2>1. Stored(buf, b, h, bf)
    BY <1>2 DEF Stored
  <2>2. HoldersOK(bf, cache, o0) /\ HeldIn(bf, cache, o0) = HeldIn(buf, cache, o0) \cup {h}
    <3>1. HoldersOK(buf, cache, o0) /\ b \in Buf /\ buf[b] = NoHandle
      BY <1>1, <1>4
    <3> QED
      BY <1>5, <2>1, <3>1, PutBuf, SMT
  <2> QED
    BY <1>1, <1>2, <2>2
<1>7. PICK H0, H2 : H0 = (H \ {old}) \cup {h} /\ H2 = H \cup {h}
  OBVIOUS
<1>8. /\ l.old = NoHandle \/ l.old \notin H0
      /\ H2 = H0 \cup ({l.old} \ {NoHandle})
  BY <1>1, <1>2, <1>3, <1>7, SMT
<1>9. NextCall(l, bf)
  BY <1>3, <1>4, SMT DEF NextCall
<1>10. CallsOK /\ buf \in [Buf -> Handle \cup {NoHandle}]
  BY SMT DEF ArenaInv, HoldersOK, HolderTypes
<1>11. /\ \A u \in Thread \ {t} : local[u].b = l.b => l.b = 0
       /\ \A u \in Thread \ {t} : local[u].dead = l.dead => l.dead = 0
  BY <1>2, <1>3, <1>4, <1>10, SMT DEF CallsOK
<1>12. \A u \in Thread \ {t} : local[u].b \in Buf => bf[local[u].b] = buf[local[u].b]
  <2>1. 0 \notin Buf
    BY ArenaAssumption
  <2>2. \A u \in Thread \ {t} : local[u].b # b
    BY <1>2, <1>3, <1>4, <1>11, <2>1
  <2> QED
    BY <1>2, <1>10, <2>2, SMT
<1>13. hits' \in [Thread -> [Cached -> Nat]]
  BY <1>10, SMT DEF CallsOK
<1>14. D = (Dying \ {local[t].dead}) \cup ({l.dead} \ {0})
  BY <1>1, <1>3, <1>4, SMT DEF Dying
<1>15. Settle(t, q, l)
  BY <1>2
<1>16. H0 = HeldIn(bf, q, o0)
  BY <1>6, <1>7, SMT
<1>17. StepTo(t, bf, q, l, o0, H0, H2, D)
  BY <1>1, <1>2, <1>6, <1>8, <1>9, <1>11, <1>12, <1>13, <1>14, <1>15, <1>16 DEF StepTo
<1>18. ChunksOK(H2, D)'
  BY <1>7
<1> QED
  BY <1>3, <1>17, <1>18, StepEnds, SMT

\* The ring, the lists and a new chunk.
LEMMA FindsInv ==
    ASSUME ArenaInv, NEW t \in Thread,
           allocateFromRing(t) \/ allocateInLists(t) \/ allocateInNewChunk(t)
    PROVE  ArenaInv'
<1>1. PICK H, D, o0 : Ready(t, H, D, o0)
  BY BeforeStep, SMT
<1>0. ChunksOK(H, D) /\ CallOK(local[t], buf)
  BY <1>1 DEF Ready
<1>2. ~failed
  BY DEF ArenaInv
<1>3. \A l, bf : l.pc \in {"ring", "normal"} /\ CallOK(l, bf) =>
         l.sizeIdx \in SizeIdx /\ (l.pc = "ring" => l.sizeIdx \in Small)
  <2> SUFFICES ASSUME NEW l, NEW bf, l.pc \in {"ring", "normal"}, CallOK(l, bf)
               PROVE  l.sizeIdx \in SizeIdx /\ (l.pc = "ring" => l.sizeIdx \in Small)
    BY SMT
  <2>1. l # Idle
    BY IdleCall, SMT
  <2>2. l # [Idle EXCEPT !.pc = "destroy", !.back = "idle", !.dead = l.dead]
    BY DEF Idle
  <2> QED
    BY <2>1, <2>2 DEF CallOK, ThenOK, Wants
<1>4. CASE allocateFromRing(t)
  <2>1. local[t].pc = "ring" /\ hits' = hits
        /\ Settle(t, cache, [local[t] EXCEPT !.pc = "release"])
    BY <1>4 DEF allocateFromRing, At
  <2>2. local[t].sizeIdx \in Small
    BY <1>0, <1>3, <2>1
  <2>3. /\ \E h \in Handle : /\ h \notin H
                             /\ buf' = [buf EXCEPT ![local[t].b] = h]
                             /\ ChunksOK(H \cup {h}, D)'
        /\ ~failed'
    BY <1>0, <1>2, <1>4, <2>2, RingChunks
  <2> QED
    BY <1>1, <2>1, <2>3, FoundInv
<1>5. CASE allocateInLists(t)
  <2>1. local[t].pc = "normal" /\ hits' = hits
        /\ Settle(t, cache, [local[t] EXCEPT !.pc = "release"])
    BY <1>5 DEF allocateInLists, At
  <2>2. local[t].sizeIdx \in SizeIdx
    BY <1>0, <1>3, <2>1, SMT
  <2>3. /\ \E h \in Handle : /\ h \notin H
                             /\ buf' = [buf EXCEPT ![local[t].b] = h]
                             /\ ChunksOK(H \cup {h}, D)'
        /\ ~failed'
    BY <1>0, <1>2, <1>5, <2>2, ListsChunks
  <2> QED
    BY <1>1, <2>1, <2>3, FoundInv
<1>6. CASE allocateInNewChunk(t)
  <2>1. local[t].pc = "normal" /\ hits' = hits
        /\ Settle(t, cache, [local[t] EXCEPT !.pc = "release"])
    BY <1>6 DEF allocateInNewChunk, At
  <2>2. local[t].sizeIdx \in SizeIdx
    BY <1>0, <1>3, <2>1
  <2>3. /\ \E h \in Handle : /\ h \notin H
                             /\ buf' = [buf EXCEPT ![local[t].b] = h]
                             /\ ChunksOK(H \cup {h}, D)'
        /\ ~failed'
    BY <1>0, <1>2, <1>6, <2>2, NewChunks
  <2> QED
    BY <1>1, <2>1, <2>3, FoundInv
<1> QED
  BY <1>4, <1>5, <1>6, SMT

\* A step that leaves the buffers alone: caches q, call l, H0 held without what the call
\* is about to free, H2 with it, the chunks about to be deleted D2.
Keeps(t, q, l, o0, H0, H2, D2) ==
    /\ buf' = buf /\ hits' = hits
    /\ HoldersOK(buf, q, o0) /\ H0 = HeldIn(buf, q, o0)
    /\ l.old = NoHandle \/ l.old \notin H0
    /\ H2 = H0 \cup ({l.old} \ {NoHandle})
    /\ Settle(t, q, l) /\ NextCall(l, buf)
    /\ l.b = 0 \/ l.b = local[t].b
    /\ l.dead = 0 \/ l.dead = local[t].dead \/ l.dead \notin Dying
    /\ D2 = (Dying \ {local[t].dead}) \cup ({l.dead} \ {0})

\* Such a step keeps the invariant.
LEMMA KeepsInv ==
    ASSUME ArenaInv, NEW t \in Thread, NEW q, NEW l \in Call_, NEW o0, NEW H, NEW D, NEW H0,
           NEW H2, NEW D2, Ready(t, H, D, o0), Keeps(t, q, l, o0, H0, H2, D2),
           ChunksOK(H2, D2)', ~failed'
    PROVE  ArenaInv'
<1>1. PICK bf : bf = buf
  OBVIOUS
<1>2. CallsOK
  BY DEF ArenaInv
<1>3. \A u \in Thread \ {t} : local[u].b = l.b => l.b = 0
  BY <1>2 DEF CallsOK, Keeps
<1>4. \A u \in Thread \ {t} : local[u].dead = l.dead => l.dead = 0
  <2>1. \A u \in Thread : local[u].dead # 0 => local[u].dead \in Dying
    BY DEF Dying
  <2> QED
    BY <1>2, <2>1 DEF CallsOK, Keeps
<1>5. hits' \in [Thread -> [Cached -> Nat]] /\ buf' = buf
  BY <1>2 DEF CallsOK, Keeps
<1>6. Stored(olds, t, NoHandle, o0)
  BY DEF Ready
<1>7. /\ HoldersOK(bf, q, o0) /\ H0 = HeldIn(bf, q, o0) /\ Settle(t, q, l) /\ NextCall(l, bf)
      /\ bf = buf'
  BY <1>1 DEF Keeps
<1>8. /\ l.old = NoHandle \/ l.old \notin H0
      /\ H2 = H0 \cup ({l.old} \ {NoHandle})
      /\ D2 = (Dying \ {local[t].dead}) \cup ({l.dead} \ {0})
  BY DEF Keeps
<1>9. \A u \in Thread \ {t} : local[u].b \in Buf => bf[local[u].b] = buf[local[u].b]
  BY <1>1
<1>10. StepTo(t, bf, q, l, o0, H0, H2, D2)
  BY <1>3, <1>4, <1>5, <1>6, <1>7, <1>8, <1>9 DEF StepTo
<1> QED
  BY <1>10, StepEnds

\* The states of a call, by its step.
LEMMA CallCases ==
    ASSUME NEW l, NEW bf, CallOK(l, bf)
    PROVE  /\ l.pc = "idle" => l = Idle
           /\ l.pc = "release" => l.dead = 0 /\ l.old # NoHandle /\ ~Cacheable(l.old)
           /\ l.pc \in {"ring", "normal"} => l.dead = 0 /\ ThenOK(l, l.pc, bf)
           /\ l.pc = "trim" => l.dead = 0 /\ ThenOK(l, l.then, bf)
           /\ l.pc = "destroy" =>
                 /\ l.dead # 0
                 /\ \/ l.back = "trim" /\ ThenOK(l, l.then, bf)
                    \/ l = [Idle EXCEPT !.pc = "destroy", !.back = "idle", !.dead = l.dead]
<1>1. l = Idle => l.pc = "idle"
  BY IdleCall
<1>2. l = [Idle EXCEPT !.pc = "destroy", !.back = "idle", !.dead = l.dead] => l.pc = "destroy"
  BY DEF Idle
<1> QED
  BY <1>1, <1>2 DEF CallOK

\* trimEnds: the call goes on where the cache left it.
LEMMA TrimEndsInv ==
    ASSUME ArenaInv, NEW t \in Thread, trimEnds(t)
    PROVE  ArenaInv'
<1>1. PICK H, D, o0 : Ready(t, H, D, o0)
  BY BeforeStep
<1>2. PICK m, l, q : /\ m = local[t] /\ q = cache
                     /\ l = [local[t] EXCEPT !.pc = local[t].then, !.quota = Idle.quota]
  OBVIOUS
<1>3. /\ m.pc = "trim" /\ Settle(t, q, l)
      /\ UNCHANGED chunkVars /\ UNCHANGED <<hits, buf, failed>>
  BY <1>2 DEF trimEnds, At, bufVars
<1>4. m \in Call_ /\ CallOK(m, buf)
  BY <1>1, <1>2 DEF Ready
<1>5. m.dead = 0 /\ ThenOK(m, m.then, buf)
  BY <1>3, <1>4, CallCases
<1>6. /\ l \in Call_ /\ l.pc = m.then /\ l.dead = m.dead /\ l.b = m.b /\ l.old = m.old
      /\ l.sizeIdx = m.sizeIdx
  <2>1. Idle.quota \in [Cached -> Int]
    BY IdleCall DEF Call_
  <2>2. l = [m EXCEPT !.pc = m.then, !.quota = Idle.quota]
    BY <1>2
  <2> QED
    BY <1>4, <2>1, <2>2 DEF Call_
<1>7. NextCall(l, buf)
  BY <1>5, <1>6 DEF NextCall, CallOK, ThenOK, Wants
<1>8. PICK H0 : H0 = HeldIn(buf, cache, o0)
  OBVIOUS
<1>9. /\ HoldersOK(buf, q, o0) /\ H0 = HeldIn(buf, q, o0) /\ H0 = H \ {m.old}
      /\ m.old \in H \cup {NoHandle} /\ NoHandle \notin H /\ D = Dying /\ ChunksOK(H, D)
  BY <1>1, <1>2, <1>8 DEF Ready
<1>10. /\ l.old = NoHandle \/ l.old \notin H0
       /\ H = H0 \cup ({l.old} \ {NoHandle})
  BY <1>6, <1>9
<1>11. D = (Dying \ {local[t].dead}) \cup ({l.dead} \ {0})
  BY <1>2, <1>5, <1>6, <1>9 DEF Dying
<1>12. Keeps(t, q, l, o0, H0, H, D)
  BY <1>2, <1>3, <1>5, <1>6, <1>7, <1>9, <1>10, <1>11 DEF Keeps
<1>13. ChunksOK(H, D)'
  BY <1>3, <1>9, SameChunks
<1>14. ~failed'
  BY <1>3 DEF ArenaInv
<1> QED
  BY <1>1, <1>6, <1>12, <1>13, <1>14, KeepsInv

\* ringEmpty: the call goes on to the chunks.
LEMMA RingEmptyInv ==
    ASSUME ArenaInv, NEW t \in Thread, ringEmpty(t)
    PROVE  ArenaInv'
<1>1. PICK H, D, o0 : Ready(t, H, D, o0)
  BY BeforeStep
<1>2. PICK m, l, q : m = local[t] /\ q = cache /\ l = [local[t] EXCEPT !.pc = "normal"]
  OBVIOUS
<1>3. /\ m.pc = "ring" /\ local' = [local EXCEPT ![t].pc = "normal"] /\ cache' = cache
      /\ UNCHANGED chunkVars /\ UNCHANGED <<hits, buf, failed>>
  BY <1>2 DEF ringEmpty, At, bufVars, cacheVars
<1>4. m \in Call_ /\ CallOK(m, buf)
  BY <1>1, <1>2 DEF Ready
<1>5. m.dead = 0 /\ ThenOK(m, m.pc, buf)
  BY <1>3, <1>4, CallCases
<1>6. /\ l \in Call_ /\ l.pc = "normal" /\ l.dead = m.dead /\ l.b = m.b /\ l.old = m.old
      /\ l.sizeIdx = m.sizeIdx
  <2>1. GoesOn(m, "normal", l) /\ "normal" \in Pc
    BY <1>2 DEF GoesOn, Pc
  <2> QED
    BY <1>4, <2>1, CallChange, SMT
<1>7. NextCall(l, buf)
  BY <1>3, <1>5, <1>6 DEF NextCall, CallOK, ThenOK, Wants
<1>15. Settle(t, q, l)
  <2>1. local' = [local EXCEPT ![t] = l]
    BY <1>2, <1>3
  <2> QED
    BY <1>2, <1>3, <1>6, <2>1 DEF Settle
<1>8. PICK H0 : H0 = HeldIn(buf, cache, o0)
  OBVIOUS
<1>9. /\ HoldersOK(buf, q, o0) /\ H0 = HeldIn(buf, q, o0) /\ H0 = H \ {m.old}
      /\ m.old \in H \cup {NoHandle} /\ NoHandle \notin H /\ D = Dying /\ ChunksOK(H, D)
  BY <1>1, <1>2, <1>8 DEF Ready
<1>10. /\ l.old = NoHandle \/ l.old \notin H0
       /\ H = H0 \cup ({l.old} \ {NoHandle})
  BY <1>6, <1>9
<1>11. D = (Dying \ {local[t].dead}) \cup ({l.dead} \ {0})
  BY <1>2, <1>5, <1>6, <1>9 DEF Dying
<1>12. Keeps(t, q, l, o0, H0, H, D)
  BY <1>2, <1>3, <1>5, <1>6, <1>7, <1>9, <1>10, <1>11, <1>15 DEF Keeps
<1>13. ChunksOK(H, D)'
  BY <1>3, <1>9, SameChunks
<1>14. ~failed'
  BY <1>3 DEF ArenaInv
<1> QED
  BY <1>1, <1>6, <1>12, <1>13, <1>14, KeepsInv

\* destroyChunk: the chunk is gone, and the call goes on or returns.
LEMMA DestroyInv ==
    ASSUME ArenaInv, NEW t \in Thread, destroyChunk(t)
    PROVE  ArenaInv'
<1>1. PICK H, D, o0 : Ready(t, H, D, o0)
  BY BeforeStep
<1>2. PICK m, l, q, k : /\ m = local[t] /\ q = cache /\ k = local[t].dead
                        /\ l = [local[t] EXCEPT !.pc = local[t].back, !.back = "idle", !.dead = 0]
  OBVIOUS
<1>3. m.pc = "destroy" /\ Settle(t, q, l) /\ UNCHANGED <<hits, buf, failed>>
  BY <1>2 DEF destroyChunk, At, bufVars
<1>4. m \in Call_ /\ CallOK(m, buf)
  BY <1>1, <1>2 DEF Ready
<1>5. /\ m.dead # 0
      /\ \/ m.back = "trim" /\ ThenOK(m, m.then, buf)
         \/ m = [Idle EXCEPT !.pc = "destroy", !.back = "idle", !.dead = m.dead]
  BY <1>3, <1>4, CallCases
<1>6. /\ l \in Call_ /\ l.pc = m.back /\ l.dead = 0 /\ l.b = m.b /\ l.old = m.old
      /\ l.sizeIdx = m.sizeIdx /\ l.then = m.then /\ l.back = "idle"
  <2>1. l = [m EXCEPT !.pc = m.back, !.back = "idle", !.dead = 0] /\ "idle" \in Pc
    BY <1>2 DEF Pc
  <2> QED
    BY <1>4, <2>1 DEF Call_
<1>7. NextCall(l, buf)
  <2>1. CASE m.back = "trim" /\ ThenOK(m, m.then, buf)
    BY <1>6, <2>1 DEF NextCall, CallOK, ThenOK, Wants
  <2>2. CASE m = [Idle EXCEPT !.pc = "destroy", !.back = "idle", !.dead = m.dead]
    <3>1. l = [m EXCEPT !.pc = m.back, !.back = "idle", !.dead = 0]
      BY <1>2
    <3>2. l = Idle
      BY <2>2, <3>1 DEF Idle
    <3> QED
      BY <3>2 DEF NextCall, CallOK
  <2> QED
    BY <1>5, <2>1, <2>2
<1>8. PICK H0 : H0 = HeldIn(buf, cache, o0)
  OBVIOUS
<1>9. /\ HoldersOK(buf, q, o0) /\ H0 = HeldIn(buf, q, o0) /\ H0 = H \ {m.old}
      /\ m.old \in H \cup {NoHandle} /\ NoHandle \notin H /\ D = Dying /\ ChunksOK(H, D)
  BY <1>1, <1>2, <1>8 DEF Ready
<1>10. /\ l.old = NoHandle \/ l.old \notin H0
       /\ H = H0 \cup ({l.old} \ {NoHandle})
  BY <1>6, <1>9
<1>11. PICK D2 : D2 = D \ {k}
  OBVIOUS
<1>15. D2 = (Dying \ {local[t].dead}) \cup ({l.dead} \ {0}) /\ k \in D
  BY <1>2, <1>5, <1>6, <1>9, <1>11 DEF Dying
<1>12. Keeps(t, q, l, o0, H0, H, D2)
  BY <1>2, <1>3, <1>6, <1>7, <1>9, <1>10, <1>15 DEF Keeps
<1>13. ChunksOK(H, D2)'
  <2>1. ChunksOK(H, D \ {k})'
    BY <1>2, <1>9, <1>15, DestroyChunks
  <2> QED
    BY <1>11, <2>1
<1>14. ~failed'
  BY <1>3 DEF ArenaInv
<1> QED
  BY <1>1, <1>6, <1>12, <1>13, <1>14, KeepsInv

\* freeOld: what the call was to free is free, and the call returns once a chunk that
\* this emptied is deleted.
LEMMA FreeOldInv ==
    ASSUME ArenaInv, NEW t \in Thread, freeOld(t)
    PROVE  ArenaInv'
<1>1. PICK H, D, o0 : Ready(t, H, D, o0)
  BY BeforeStep
<1>2. PICK m, q, h, i : m = local[t] /\ q = cache /\ h = local[t].old /\ i = Idle
  OBVIOUS
<1>3. m.pc = "release" /\ freeChunk(t, h, q, i) /\ UNCHANGED <<hits, buf>>
  BY <1>2 DEF freeOld, At, bufVars
<1>4. m \in Call_ /\ CallOK(m, buf)
  BY <1>1, <1>2 DEF Ready
<1>5. m.dead = 0 /\ m.old # NoHandle
  BY <1>3, <1>4, CallCases
<1>6. PICK H0 : H0 = H \ {h}
  OBVIOUS
<1>7. /\ HoldersOK(buf, q, o0) /\ H0 = HeldIn(buf, q, o0)
      /\ h \in H /\ D = Dying /\ ChunksOK(H, D)
  BY <1>1, <1>2, <1>5, <1>6 DEF Ready
<1>8. /\ ~failed'
      /\ \/ ChunksOK(H \ {h}, D)' /\ Settle(t, q, i)
         \/ \E k \in Chunk \ D :
               /\ ChunksOK(H \ {h}, D \cup {k})'
               /\ Settle(t, q, [i EXCEPT !.pc = "destroy", !.back = i.pc, !.dead = k])
  BY <1>3, <1>7, FreeChunks, ZenonT(60)
<1>9. /\ i \in Call_ /\ i.b = 0 /\ i.dead = 0 /\ i.old = NoHandle /\ i.pc = "idle"
      /\ CallOK(i, buf)
  BY <1>2, IdleCall
<1>10. CASE ChunksOK(H \ {h}, D)' /\ Settle(t, q, i)
  <2>1. D = (Dying \ {local[t].dead}) \cup ({i.dead} \ {0})
    BY <1>2, <1>5, <1>7, <1>9 DEF Dying
  <2>2. H0 = H0 \cup ({i.old} \ {NoHandle})
    BY <1>9
  <2>3. Keeps(t, q, i, o0, H0, H0, D)
    BY <1>3, <1>7, <1>9, <1>10, <2>1, <2>2 DEF Keeps, NextCall
  <2>4. ChunksOK(H0, D)'
    BY <1>6, <1>10
  <2> QED
    BY <1>1, <1>8, <1>9, <2>3, <2>4, KeepsInv
<1>11. CASE \E k \in Chunk \ D :
               /\ ChunksOK(H \ {h}, D \cup {k})'
               /\ Settle(t, q, [i EXCEPT !.pc = "destroy", !.back = i.pc, !.dead = k])
  <2>1. PICK k \in Chunk \ D :
               /\ ChunksOK(H \ {h}, D \cup {k})'
               /\ Settle(t, q, [i EXCEPT !.pc = "destroy", !.back = i.pc, !.dead = k])
    BY <1>11
  <2>2. PICK l, D2 : /\ l = [i EXCEPT !.pc = "destroy", !.back = i.pc, !.dead = k]
                     /\ D2 = D \cup {k}
    OBVIOUS
  <2>3. k # 0
    BY ArenaAssumption
  <2>4. l \in Call_ /\ l.pc = "destroy" /\ l.b = i.b /\ l.dead = k /\ l.old = i.old
    <3>1. "destroy" \in Pc
      BY DEF Pc
    <3> QED
      BY <1>9, <2>2, <3>1 DEF Call_
  <2>5. CallOK(l, buf)
    <3>1. l = [Idle EXCEPT !.pc = "destroy", !.back = "idle", !.dead = l.dead]
      BY <1>2, <1>9, <2>2, <2>4
    <3> QED
      BY <2>3, <2>4, <3>1 DEF CallOK
  <2>6. D2 = (Dying \ {local[t].dead}) \cup ({l.dead} \ {0})
    BY <1>2, <1>5, <1>7, <2>2, <2>3, <2>4 DEF Dying
  <2>7. H0 = H0 \cup ({l.old} \ {NoHandle})
    BY <1>9, <2>4
  <2>8. Keeps(t, q, l, o0, H0, H0, D2)
    BY <1>3, <1>7, <1>9, <2>1, <2>2, <2>4, <2>5, <2>6, <2>7 DEF Keeps, NextCall
  <2>9. ChunksOK(H0, D2)'
    BY <1>6, <2>1, <2>2
  <2> QED
    BY <1>1, <1>8, <2>4, <2>8, <2>9, KeepsInv
<1> QED
  BY <1>8, <1>10, <1>11

\* trim: the oldest entry of a queue is free.
LEMMA TrimInv ==
    ASSUME ArenaInv, NEW t \in Thread, trim(t)
    PROVE  ArenaInv'
<1>1. PICK H, D, o0 : Ready(t, H, D, o0)
  BY BeforeStep
<1>2. PICK c : c = Min(Due(t))
  OBVIOUS
<1>3. PICK m, q, h, i : /\ m = local[t] /\ h = Head(cache[t][c])
                        /\ q = [cache EXCEPT ![t][c] = Tail(@)]
                        /\ i = [local[t] EXCEPT !.quota[c] = @ - 1]
  OBVIOUS
<1>4. m.pc = "trim" /\ freeChunk(t, h, q, i) /\ UNCHANGED <<hits, buf>> /\ Due(t) # {}
  BY <1>2, <1>3 DEF trim, At, bufVars
<1>5. c \in Cached /\ cache[t][c] # <<>>
  <2>1. Due(t) \in SUBSET Nat
    BY ArenaAssumption DEF Due
  <2>2. c \in Due(t)
    BY <1>2, <1>4, <2>1, MinProps
  <2> QED
    BY <2>2 DEF Due
<1>6. m \in Call_ /\ CallOK(m, buf)
  BY <1>1, <1>3 DEF Ready
<1>7. m.dead = 0 /\ ThenOK(m, m.then, buf)
  BY <1>4, <1>6, CallCases
<1>8. /\ i \in Call_ /\ i.pc = "trim" /\ i.then = m.then /\ i.b = m.b /\ i.sizeIdx = m.sizeIdx
      /\ i.old = m.old /\ i.dead = 0
  <2>1. i = [m EXCEPT !.quota[c] = @ - 1]
    BY <1>3
  <2>2. m.quota \in [Cached -> Int]
    BY <1>6 DEF Call_
  <2>3. [m.quota EXCEPT ![c] = @ - 1] \in [Cached -> Int]
    BY <1>5, <2>2, SMT
  <2> QED
    BY <1>4, <1>6, <1>7, <2>1, <2>3 DEF Call_
<1>9. /\ HoldersOK(buf, cache, o0) /\ HeldIn(buf, cache, o0) = H \ {m.old}
      /\ m.old \in H \cup {NoHandle} /\ NoHandle \notin H /\ D = Dying /\ ChunksOK(H, D)
  BY <1>1, <1>3 DEF Ready
<1>10. /\ h \in HeldIn(buf, cache, o0) /\ HoldersOK(buf, q, o0)
       /\ HeldIn(buf, q, o0) = HeldIn(buf, cache, o0) \ {h}
  <2>1. Popped(cache, t, c, h, q)
    BY <1>3, <1>5 DEF Popped
  <2>2. HoldersOK(buf, cache, o0)
    BY <1>9
  <2> QED
    BY <1>5, <2>1, <2>2, TakeHead, SMT
<1>11. PICK H0, H2 : H0 = (H \ {m.old}) \ {h} /\ H2 = H \ {h}
  OBVIOUS
<1>12. h \in H /\ h # m.old /\ H0 = HeldIn(buf, q, o0)
  BY <1>9, <1>10, <1>11
<1>13. /\ ~failed'
       /\ \/ ChunksOK(H \ {h}, D)' /\ Settle(t, q, i)
          \/ \E k \in Chunk \ D :
                /\ ChunksOK(H \ {h}, D \cup {k})'
                /\ Settle(t, q, [i EXCEPT !.pc = "destroy", !.back = i.pc, !.dead = k])
  <2>1. ChunksOK(H, D) /\ h \in H /\ freeChunk(t, h, q, i)
    BY <1>4, <1>9, <1>12
  <2> QED
    BY <2>1, FreeChunks
<1>14. /\ m.old = NoHandle \/ m.old \notin H0
       /\ H2 = H0 \cup ({m.old} \ {NoHandle})
  BY <1>9, <1>11, <1>12
<1>15. CASE ChunksOK(H \ {h}, D)' /\ Settle(t, q, i)
  <2>1. D = (Dying \ {local[t].dead}) \cup ({i.dead} \ {0})
    BY <1>3, <1>7, <1>8, <1>9 DEF Dying
  <2>2. CallOK(i, buf)
    BY <1>7, <1>8 DEF CallOK, ThenOK, Wants
  <2>3. Keeps(t, q, i, o0, H0, H2, D)
    BY <1>3, <1>4, <1>8, <1>10, <1>12, <1>14, <1>15, <2>1, <2>2 DEF Keeps, NextCall
  <2>4. ChunksOK(H2, D)'
    BY <1>11, <1>15
  <2> QED
    BY <1>1, <1>8, <1>13, <2>3, <2>4, KeepsInv
<1>16. CASE \E k \in Chunk \ D :
                /\ ChunksOK(H \ {h}, D \cup {k})'
                /\ Settle(t, q, [i EXCEPT !.pc = "destroy", !.back = i.pc, !.dead = k])
  <2>1. PICK k \in Chunk \ D :
                /\ ChunksOK(H \ {h}, D \cup {k})'
                /\ Settle(t, q, [i EXCEPT !.pc = "destroy", !.back = i.pc, !.dead = k])
    BY <1>16
  <2>2. PICK l, D2 : /\ l = [i EXCEPT !.pc = "destroy", !.back = i.pc, !.dead = k]
                     /\ D2 = D \cup {k}
    OBVIOUS
  <2>3. k # 0
    BY ArenaAssumption
  <2>4. /\ l \in Call_ /\ l.pc = "destroy" /\ l.back = "trim" /\ l.then = m.then /\ l.b = m.b
        /\ l.sizeIdx = m.sizeIdx /\ l.old = m.old /\ l.dead = k
    <3>1. "destroy" \in Pc
      BY DEF Pc
    <3> QED
      BY <1>8, <2>2, <3>1 DEF Call_
  <2>5. CallOK(l, buf)
    BY <1>7, <2>3, <2>4 DEF CallOK, ThenOK, Wants
  <2>6. D2 = (Dying \ {local[t].dead}) \cup ({l.dead} \ {0})
    BY <1>3, <1>7, <1>9, <2>2, <2>3, <2>4 DEF Dying
  <2>7. Keeps(t, q, l, o0, H0, H2, D2)
    BY <1>3, <1>4, <1>9, <1>10, <1>12, <1>14, <2>1, <2>2, <2>4, <2>5, <2>6 DEF Keeps, NextCall
  <2>8. ChunksOK(H2, D2)'
    BY <1>11, <2>1, <2>2
  <2> QED
    BY <1>1, <1>13, <2>4, <2>7, <2>8, KeepsInv
<1> QED
  BY <1>13, <1>15, <1>16

\* An idle thread starts a call on a buffer b that no call uses; the memory the buffer had
\* is the call's to free, and the rest of what is held stays held.
Starts(t, b, bf, q, l, o0, H) ==
    /\ local[t].pc = "idle" /\ Untouched(b)
    /\ bf = buf' /\ \A a \in Buf \ {b} : bf[a] = buf[a]
    /\ HoldersOK(bf, q, o0) /\ HeldIn(bf, q, o0) = H \ {l.old} /\ l.old \in H \cup {NoHandle}
    /\ Settle(t, q, l) /\ NextCall(l, bf) /\ l.b = b /\ l.dead = 0
    /\ hits' \in [Thread -> [Cached -> Nat]] /\ UNCHANGED chunkVars /\ ~failed'

\* Such a step keeps the invariant.
LEMMA StartInv ==
    ASSUME ArenaInv, NEW t \in Thread, NEW H, NEW D, NEW o0, Ready(t, H, D, o0),
           NEW b \in Buf, NEW bf, NEW q, NEW l \in Call_, Starts(t, b, bf, q, l, o0, H)
    PROVE  ArenaInv'
<1> USE DEF Starts
<1>1. /\ Stored(olds, t, NoHandle, o0) /\ NoHandle \notin H /\ D = Dying /\ ChunksOK(H, D)
      /\ CallOK(local[t], buf)
  BY DEF Ready
<1>2. local[t].dead = 0
  <2>1. local[t] = Idle
    BY <1>1, CallCases
  <2> QED
    BY <2>1, IdleCall
<1>3. PICK H0 : H0 = H \ {l.old}
  OBVIOUS
<1>4. /\ H0 = HeldIn(bf, q, o0) /\ (l.old = NoHandle \/ l.old \notin H0)
      /\ H = H0 \cup ({l.old} \ {NoHandle})
  BY <1>1, <1>3
<1>5. /\ \A u \in Thread \ {t} : local[u].b = l.b => l.b = 0
      /\ \A u \in Thread \ {t} : local[u].dead = l.dead => l.dead = 0
      /\ \A u \in Thread \ {t} : local[u].b \in Buf => bf[local[u].b] = buf[local[u].b]
  BY DEF Untouched
<1>6. D = (Dying \ {local[t].dead}) \cup ({l.dead} \ {0})
  BY <1>1, <1>2 DEF Dying
<1>7. StepTo(t, bf, q, l, o0, H0, H, D)
  BY <1>1, <1>4, <1>5, <1>6 DEF StepTo
<1>8. ChunksOK(H, D)'
  BY <1>1, SameChunks
<1> QED
  BY <1>7, <1>8, StepEnds

\* An idle thread holds nothing.
LEMMA IdleHolds ==
    ASSUME NEW t \in Thread, NEW H, NEW D, NEW o0, Ready(t, H, D, o0), local[t].pc = "idle"
    PROVE  HeldIn(buf, cache, o0) = H
<1>1. /\ CallOK(local[t], buf) /\ HeldIn(buf, cache, o0) = H \ {local[t].old} /\ NoHandle \notin H
  BY DEF Ready
<1>2. local[t].old = NoHandle
  <2>1. local[t] = Idle
    BY <1>1, CallCases
  <2> QED
    BY <2>1, IdleCall
<1> QED
  BY <1>1, <1>2

\* deallocate: the buffer's memory goes to the call.
LEMMA DeallocateInv ==
    ASSUME ArenaInv, NEW t \in Thread, NEW b \in Buf, deallocate(t, b)
    PROVE  ArenaInv'
<1>1. PICK H, D, o0 : Ready(t, H, D, o0)
  BY BeforeStep
<1>2. PICK bf, q, h, l : /\ bf = buf' /\ q = cache /\ h = buf[b]
                         /\ l = [Idle EXCEPT !.pc = "release", !.b = b, !.old = buf[b]]
  OBVIOUS
<1>3. /\ local[t].pc = "idle" /\ Untouched(b) /\ h # NoHandle
      /\ buf' = [buf EXCEPT ![b] = NoHandle] /\ Settle(t, q, l)
      /\ UNCHANGED chunkVars /\ UNCHANGED <<hits, failed>>
  BY <1>2 DEF deallocate, Call, MayUse
<1>4. HoldersOK(buf, cache, o0) /\ H = HeldIn(buf, cache, olds) /\ H \subseteq Handle
  BY <1>1 DEF Ready
<1>5. HeldIn(buf, cache, o0) = H
  BY <1>1, <1>3, IdleHolds
<1>6. h \in H /\ h \in Handle
  BY <1>2, <1>3, <1>4, HeldProps
<1>7. HoldersOK(bf, q, o0) /\ HeldIn(bf, q, o0) = H \ {h}
  <2>1. Stored(buf, b, NoHandle, bf)
    BY <1>2, <1>3 DEF Stored
  <2>2. HoldersOK(bf, cache, o0) /\ HeldIn(bf, cache, o0) = HeldIn(buf, cache, o0) \ {buf[b]}
    <3>1. LetGo(buf, b, cache, o0, bf)
      BY <1>4, <2>1, TakeBuf
    <3> QED
      BY <3>1 DEF LetGo
  <2> QED
    BY <1>2, <1>5, <2>2
<1>8. l \in Call_ /\ l.pc = "release" /\ l.b = b /\ l.dead = 0 /\ l.old = h
  <2>1. "release" \in Pc
    BY DEF Pc
  <2>2. PICK i : i = Idle
    OBVIOUS
  <2>3. i \in Call_ /\ i.dead = 0 /\ l = [i EXCEPT !.pc = "release", !.b = b, !.old = h]
    BY <1>2, <2>2, IdleCall
  <2> QED
    BY <1>6, <2>1, <2>3 DEF Call_
<1>9. NextCall(l, bf)
  BY <1>8 DEF NextCall
<1>10. \A a \in Buf \ {b} : bf[a] = buf[a]
  BY <1>2, <1>3, <1>4 DEF HoldersOK, HolderTypes
<1>11. hits' \in [Thread -> [Cached -> Nat]] /\ ~failed'
  BY <1>3 DEF ArenaInv, CallsOK
<1>12. HeldIn(bf, q, o0) = H \ {l.old} /\ l.old \in H \cup {NoHandle}
  BY <1>6, <1>7, <1>8
<1> QED
  <2>1. Starts(t, b, bf, q, l, o0, H)
    BY <1>2, <1>3, <1>7, <1>8, <1>9, <1>10, <1>11, <1>12 DEF Starts
  <2> QED
    BY <1>1, <1>8, <2>1, StartInv

\* PoolThreadCache::allocate finds an entry: the buffer has it, and the memory the buffer
\* had is with nobody until the call takes it.
LEMMA HitHolders ==
    ASSUME NEW bf, NEW b1, NEW b2, NEW q, NEW q2, NEW o, HoldersOK(bf, q, o), NEW b \in Buf,
           NEW t \in Thread, NEW c \in Cached, NEW h,
           Stored(bf, b, NoHandle, b1), Popped(q, t, c, h, q2), Stored(b1, b, h, b2)
    PROVE  /\ HoldersOK(b2, q2, o) /\ HeldIn(b2, q2, o) = HeldIn(bf, q, o) \ {bf[b]}
           /\ h \in HeldIn(bf, q, o)
<1>1. HoldersOK(b1, q, o) /\ HeldIn(b1, q, o) = HeldIn(bf, q, o) \ {bf[b]}
  <2>1. LetGo(bf, b, q, o, b1)
    BY TakeBuf
  <2> QED
    BY <2>1 DEF LetGo
<1>2. /\ h \in HeldIn(b1, q, o) /\ HoldersOK(b1, q2, o)
      /\ HeldIn(b1, q2, o) = HeldIn(b1, q, o) \ {h}
  BY <1>1, TakeHead, SMT
<1>3. b1[b] = NoHandle
  BY DEF Stored, HoldersOK, HolderTypes
<1>4. h \in Handle
  BY <1>1, <1>2, HeldHandles DEF HoldersOK
<1>5. h \notin HeldIn(b1, q2, o)
  BY <1>2
<1>6. HoldersOK(b2, q2, o) /\ HeldIn(b2, q2, o) = HeldIn(b1, q2, o) \cup {h}
  BY <1>2, <1>3, <1>4, <1>5, PutBuf, SMT
<1> QED
  BY <1>1, <1>2, <1>6

\* The call that PoolThreadCache::allocate starts.
started(b, c, old, pc, then, quota) ==
    [Idle EXCEPT !.pc = pc, !.then = then, !.b = b, !.sizeIdx = c, !.old = old, !.quota = quota]

\* Its fields.
LEMMA StartedCall ==
    ASSUME NEW b \in Buf, NEW c \in SizeIdx, NEW old \in Handle \cup {NoHandle}, NEW pc \in Pc,
           NEW then \in Pc, NEW quota \in [Cached -> Int], NEW l,
           l = started(b, c, old, pc, then, quota)
    PROVE  /\ l \in Call_ /\ l.pc = pc /\ l.then = then /\ l.b = b /\ l.sizeIdx = c
           /\ l.old = old /\ l.dead = 0
<1>1. PICK i : i = Idle
  OBVIOUS
<1>2. /\ i \in Call_ /\ i.dead = 0
      /\ l = [i EXCEPT !.pc = pc, !.then = then, !.b = b, !.sizeIdx = c, !.old = old,
                       !.quota = quota]
  BY <1>1, IdleCall DEF started
<1>3. c \in Int
  BY ArenaAssumption, SMT
<1> QED
  BY <1>2, <1>3 DEF Call_

\* PoolThreadCache::allocate.
LEMMA CacheAllocateInv ==
    ASSUME ArenaInv, NEW t \in Thread, NEW b \in Buf, NEW c \in SizeIdx, NEW old, old = buf[b],
           local[t].pc = "idle", Untouched(b), cacheAllocate(t, b, c, old)
    PROVE  ArenaInv'
<1>1. PICK H, D, o0 : Ready(t, H, D, o0)
  BY BeforeStep
<1>2. PICK hit, sweep, h, used, then :
         /\ hit \in BOOLEAN /\ sweep \in BOOLEAN
         /\ hit = (c \in Cached /\ cache[t][c] # <<>>)
         /\ sweep = (c \in Cached /\ m_allocations[t] + 1 >= m_freeSweepAllocationThreshold)
         /\ h = Head(cache[t][c])
         /\ used = (IF hit THEN counted(t, c) ELSE hits[t])
         /\ then = (IF hit THEN "release" ELSE Miss(c))
  OBVIOUS
<1>3. PICK bf, q, quota, pc :
         /\ bf = buf'
         /\ q = (IF hit THEN [cache EXCEPT ![t][c] = Tail(@)] ELSE cache)
         /\ quota = (IF sweep THEN toFreeNum(used) ELSE Idle.quota)
         /\ pc = (IF sweep THEN "trim" ELSE then)
  OBVIOUS
<1>4. PICK l : l = started(b, c, old, pc, then, quota)
  OBVIOUS
<1>5. /\ buf' = [buf EXCEPT ![b] = IF hit THEN h ELSE NoHandle]
      /\ hits' = [hits EXCEPT ![t] = IF sweep THEN [x \in Cached |-> 0] ELSE used]
      /\ Settle(t, q, l)
      /\ failed' = ~(hit => HandleOK(h))
      /\ UNCHANGED chunkVars
  BY <1>2, <1>3, <1>4 DEF cacheAllocate, Asserts, started
<1>6. /\ HoldersOK(buf, cache, o0) /\ ChunksOK(H, D) /\ H = HeldIn(buf, cache, olds)
      /\ NoHandle \notin H /\ H \subseteq Handle
  BY <1>1 DEF Ready
<1>7. HeldIn(buf, cache, o0) = H
  BY <1>1, IdleHolds
<1>8. old \in H \cup {NoHandle} /\ old \in Handle \cup {NoHandle}
  BY <1>6, HeldProps
<1>9. buf \in [Buf -> Handle \cup {NoHandle}] /\ hits \in [Thread -> [Cached -> Nat]]
  BY <1>6 DEF HoldersOK, HolderTypes, ArenaInv, CallsOK
<1>10. \A a \in Buf \ {b} : bf[a] = buf[a]
  BY <1>3, <1>5, <1>9
<1>11. /\ HoldersOK(bf, q, o0) /\ HeldIn(bf, q, o0) = H \ {old}
       /\ ~failed'
       /\ ~hit => bf[b] = NoHandle
  <2>1. PICK b1 : b1 = [buf EXCEPT ![b] = NoHandle]
    OBVIOUS
  <2>2. Stored(buf, b, NoHandle, b1)
    BY <2>1 DEF Stored
  <2>3. CASE hit
    <3>1. c \in Cached
      BY <1>2, <2>3
    <3>2. Popped(cache, t, c, h, q)
      BY <1>2, <1>3, <2>3 DEF Popped
    <3>3. Stored(b1, b, h, bf)
      <4>1. bf = [buf EXCEPT ![b] = h]
        BY <1>3, <1>5, <2>3
      <4> QED
        BY <1>9, <2>1, <4>1 DEF Stored
    <3>4. /\ HoldersOK(bf, q, o0) /\ HeldIn(bf, q, o0) = HeldIn(buf, cache, o0) \ {buf[b]}
          /\ h \in HeldIn(buf, cache, o0)
      BY <1>6, <2>2, <3>1, <3>2, <3>3, HitHolders
    <3>5. HandleOK(h)
      BY <1>6, <1>7, <3>4, HeldOK
    <3> QED
      BY <1>5, <1>7, <2>3, <3>4, <3>5
  <2>4. CASE ~hit
    <3>1. bf = b1 /\ q = cache
      BY <1>3, <1>5, <2>1, <2>4
    <3>2. HoldersOK(b1, cache, o0) /\ HeldIn(b1, cache, o0) = HeldIn(buf, cache, o0) \ {buf[b]}
      <4>1. HoldersOK(buf, cache, o0)
        BY <1>6
      <4>2. LetGo(buf, b, cache, o0, b1)
        BY <2>2, <4>1, TakeBuf
      <4> QED
        BY <4>2 DEF LetGo
    <3>3. bf[b] = NoHandle
      BY <1>9, <2>1, <3>1
    <3> QED
      BY <1>5, <1>7, <2>4, <3>1, <3>2, <3>3
  <2> QED
    BY <1>2, <2>3, <2>4
<1>12. used \in [Cached -> Nat] /\ hits' \in [Thread -> [Cached -> Nat]]
  <2>1. used \in [Cached -> Nat]
    <3>1. CASE hit
      <4>1. c \in Cached /\ hits[t] \in [Cached -> Nat] /\ CacheSize \in Nat
        BY <1>2, <1>9, <3>1, ArenaAssumption
      <4>2. PICK n : n = hits[t][c] + 1
        OBVIOUS
      <4>3. n \in Nat
        BY <4>1, <4>2, SMT
      <4>4. Min({n, CacheSize}) \in {n, CacheSize}
        BY <4>1, <4>3, MinProps
      <4>5. used = [hits[t] EXCEPT ![c] = Min({n, CacheSize})]
        BY <1>2, <3>1, <4>2 DEF counted
      <4> QED
        BY <4>1, <4>3, <4>4, <4>5
    <3> QED
      BY <1>2, <1>9, <3>1
  <2> QED
    BY <1>5, <1>9, <2>1
<1>13. quota \in [Cached -> Int]
  <2>1. Idle.quota \in [Cached -> Int]
    BY IdleCall DEF Call_
  <2>2. toFreeNum(used) \in [Cached -> Int]
    BY <1>12, ArenaAssumption, SMT DEF toFreeNum
  <2> QED
    BY <1>3, <2>1, <2>2, SMT
<1>14. /\ then = "release" \/ (~hit /\ then = "ring" /\ c \in Small) \/ (~hit /\ then = "normal")
       /\ then \in Pc /\ pc \in Pc /\ pc \in {"trim", then}
  BY <1>2, <1>3, MissPc
<1>15. /\ l \in Call_ /\ l.pc = pc /\ l.then = then /\ l.b = b /\ l.sizeIdx = c
       /\ l.old = old /\ l.dead = 0
  <2>1. old \in Handle \cup {NoHandle} /\ pc \in Pc /\ then \in Pc
    BY <1>8, <1>14
  <2> QED
    BY <1>4, <1>13, <2>1, StartedCall, SMT
<1>16. NextCall(l, bf)
  <2>1. ThenOK(l, then, bf)
    BY <1>11, <1>14, <1>15 DEF ThenOK, Wants
  <2> QED
    BY <1>14, <1>15, <2>1, SMT DEF NextCall, CallOK
<1>17. HeldIn(bf, q, o0) = H \ {l.old} /\ l.old \in H \cup {NoHandle}
  BY <1>8, <1>11, <1>15
<1>18. Starts(t, b, bf, q, l, o0, H)
  BY <1>3, <1>5, <1>10, <1>11, <1>12, <1>15, <1>16, <1>17 DEF Starts
<1> QED
  BY <1>1, <1>15, <1>18, StartInv

----------------------------------------------------------------------------
(* The invariant holds.                                                      *)

\* At the start nothing is held and there is no chunk.
LEMMA InitInv == Init => ArenaInv
<1> SUFFICES ASSUME Init PROVE ArenaInv
  OBVIOUS
<1>1. ~failed
  BY DEF Init
<1>2. /\ buf = [b \in Buf |-> NoHandle] /\ cache = [t \in Thread |-> [c \in Cached |-> <<>>]]
      /\ local = [t \in Thread |-> Idle] /\ hits = [t \in Thread |-> [c \in Cached |-> 0]]
  BY DEF Init
<1>3. \A t \in Thread : olds[t] = NoHandle /\ olds = [u \in Thread |-> olds[u]]
  BY <1>2, IdleCall DEF olds
<1>4. \A t \in Thread, c \in Cached : cache[t][c] = <<>> /\ Range(cache[t][c]) = {}
  BY <1>2, SMT DEF Range
<1>5. HolderTypes(buf, cache, olds)
  <2>1. olds \in [Thread -> Handle \cup {NoHandle}]
    BY <1>2, IdleCall DEF olds
  <2>2. <<>> \in Seq(Handle)
    BY SMT
  <2> QED
    BY <1>2, <2>1, <2>2 DEF HolderTypes
<1>6. InQueues(cache) = {}
  BY <1>4, SMT DEF InQueues
<1>7. HoldersOK(buf, cache, olds)
  <2>1. \A t \in Thread, c \in Cached : IsInjective(cache[t][c])
    BY <1>4, SMT DEF IsInjective
  <2>2. \A b \in Buf : buf[b] = NoHandle
    BY <1>2
  <2> QED
    BY <1>3, <1>4, <1>5, <1>6, <2>1, <2>2 DEF HoldersOK
<1>8. HeldIn(buf, cache, olds) = {}
  BY <1>2, <1>3, <1>6 DEF HeldIn
<1>9. CallsOK
  <2>1. \A t \in Thread : local[t] = Idle
    BY <1>2
  <2>2. local \in [Thread -> Call_]
    BY <1>2, IdleCall
  <2>3. hits \in [Thread -> [Cached -> Nat]]
    BY <1>2
  <2>4. \A t \in Thread : CallOK(local[t], buf) /\ local[t].b = 0 /\ local[t].dead = 0
    BY <2>1, IdleCall
  <2> QED
    BY <2>2, <2>3, <2>4 DEF CallsOK
<1>10. Dying = {}
  BY <1>2, IdleCall DEF Dying
<1>11. /\ live = {} /\ lists = [q \in List |-> <<>>] /\ m_parent = [k \in Chunk |-> 0]
       /\ m_freeBytes = [k \in Chunk |-> ChunkPages]
       /\ runs = [k \in Chunk |-> [r \in RunNo |-> 0]]
       /\ m_subpages = [k \in Chunk |-> [r \in RunNo |-> NoSubpage]]
       /\ ring = [c \in Small |-> <<>>]
  BY DEF Init
<1>12. /\ 0 \notin Small /\ 0 \notin SizeIdx
       /\ \A k \in Chunk, r \in RunNo : runs[k][r] = 0 /\ m_subpages[k][r] = NoSubpage
  BY <1>11, ArenaAssumption
<1>13. ChunksOK({}, {})
  <2>1. BodyTypes
    <3>1. m_freeBytes \in [Chunk -> Int]
      BY <1>11, PagesAssumption, SMT
    <3>2. runs \in [Chunk -> RunTable]
      BY <1>11 DEF RunTable
    <3>3. m_subpages \in [Chunk -> [RunNo -> Subpage \cup {NoSubpage}]]
      BY <1>11
    <3>4. ring \in [Small -> Seq(Chunk \X RunNo)]
      BY <1>11, SMT
    <3> QED
      BY <3>1, <3>2, <3>3, <3>4 DEF BodyTypes
  <2>2. SubpagesOK
    BY <1>12 DEF SubpagesOK
  <2>3. MemoryOK({})
    <3> SUFFICES ASSUME NEW h \in Handle PROVE ~HandleFits(h)
      BY DEF MemoryOK
    <3>1. h.chunk \in Chunk /\ h.run \in RunNo /\ h.sizeIdx \in SizeIdx
      BY HandleParts
    <3> QED
      BY <1>12, <3>1 DEF HandleFits
  <2>4. PagesOK
    <3> SUFFICES ASSUME NEW k \in Chunk
                 PROVE  /\ m_freeBytes[k] = ChunkPages - Cardinality(UsedPages(runs[k]))
                        /\ m_freeBytes[k] >= 0
      BY DEF PagesOK
    <3>1. UsedPages(runs[k]) = {}
      BY <1>12 DEF UsedPages
    <3>2. Cardinality(UsedPages(runs[k])) = 0
      BY <3>1, FS_EmptySet
    <3>3. m_freeBytes[k] = ChunkPages /\ ChunkPages \in Nat
      BY <1>11, PagesAssumption
    <3> QED
      BY <3>2, <3>3, SMT
  <2>5. RingOK
    <3>1. \A c \in Small : ring[c] = <<>> /\ Range(ring[c]) = {} /\ IsInjective(ring[c])
      BY <1>11, SMT DEF Range, IsInjective
    <3> QED
      BY <1>12, <3>1 DEF RingOK
  <2>6. ListTypes
    BY <1>11, SMT DEF ListTypes
  <2>7. EmptyOK({})
    BY <1>12 DEF EmptyOK
  <2>8. ListsOK({})
    <3>1. \A q \in List : lists[q] = <<>> /\ Range(lists[q]) = {} /\ IsInjective(lists[q])
      BY <1>11, SMT DEF Range, IsInjective
    <3> QED
      BY <1>11, <3>1 DEF ListsOK
  <2> QED
    BY <2>1, <2>2, <2>3, <2>4, <2>5, <2>6, <2>7, <2>8 DEF ChunksOK, BodyOK
<1> QED
  BY <1>1, <1>7, <1>8, <1>9, <1>10, <1>13 DEF ArenaInv

\* A step that changes nothing, or only sets aborted.
LEMMA StutterInv ==
    ArenaInv /\ UNCHANGED <<chunkVars, cacheVars, bufVars, local, calls, failed>> => ArenaInv'
<1> SUFFICES ASSUME ArenaInv,
                    UNCHANGED <<chunkVars, cacheVars, bufVars, local, calls, failed>>
             PROVE  ArenaInv'
  OBVIOUS
<1>1. /\ UNCHANGED chunkVars
      /\ UNCHANGED <<cache, hits, buf, local, failed>>
  BY DEF cacheVars, bufVars
<1>2. PICK bf, q, o, H, D : /\ bf = buf /\ q = cache /\ o = olds
                            /\ H = HeldIn(buf, cache, olds) /\ D = Dying
  OBVIOUS
<1>3. HoldersOK(bf, q, o) /\ H = HeldIn(bf, q, o) /\ ChunksOK(H, D)
  BY <1>2 DEF ArenaInv
<1>4. bf = buf' /\ q = cache' /\ o = olds' /\ D = Dying'
  BY <1>1, <1>2 DEF olds, Dying
<1>5. ChunksOK(H, D)'
  BY <1>1, <1>3, SameChunks, SMT
<1>6. CallsOK'
  BY <1>1 DEF ArenaInv, CallsOK
<1>7. ~failed'
  BY <1>1, SMT DEF ArenaInv
<1> QED
  BY <1>3, <1>4, <1>5, <1>6, <1>7, InvStep

\* Every step.
LEMMA NextInv == ArenaInv /\ [Next]_vars => ArenaInv'
<1> SUFFICES ASSUME ArenaInv, Next PROVE ArenaInv'
  BY StutterInv DEF vars
<1>1. PICK t \in Thread :
        \/ \E b \in Buf, c \in SizeIdx : buffer(t, b, c) \/ reallocate(t, b, c)
        \/ \E b \in Buf : deallocate(t, b)
        \/ trim(t) \/ trimEnds(t) \/ allocateFromRing(t) \/ ringEmpty(t)
        \/ allocateInLists(t) \/ allocateAborts(t) \/ allocateInNewChunk(t)
        \/ freeOld(t) \/ destroyChunk(t)
  BY DEF Next
<1>2. ASSUME NEW b \in Buf, NEW c \in SizeIdx, buffer(t, b, c)
      PROVE  ArenaInv'
  <2>1. PICK old : old = buf[b]
    OBVIOUS
  <2>2. local[t].pc = "idle" /\ Untouched(b) /\ cacheAllocate(t, b, c, old)
    BY <1>2, <2>1 DEF buffer, Call
  <2> QED
    BY <2>1, <2>2, CacheAllocateInv
<1>3. ASSUME NEW b \in Buf, NEW c \in SizeIdx, reallocate(t, b, c)
      PROVE  ArenaInv'
  <2>1. PICK old : old = buf[b]
    OBVIOUS
  <2>2. local[t].pc = "idle" /\ Untouched(b) /\ cacheAllocate(t, b, c, old)
    BY <1>3, <2>1 DEF reallocate, Call, MayUse
  <2> QED
    BY <2>1, <2>2, CacheAllocateInv
<1>4. ASSUME NEW b \in Buf, deallocate(t, b)
      PROVE  ArenaInv'
  BY <1>4, DeallocateInv
<1>5. CASE trim(t)
  BY <1>5, TrimInv
<1>6. CASE trimEnds(t)
  BY <1>6, TrimEndsInv
<1>7. CASE allocateFromRing(t) \/ allocateInLists(t) \/ allocateInNewChunk(t)
  BY <1>7, FindsInv
<1>8. CASE ringEmpty(t)
  BY <1>8, RingEmptyInv
<1>9. CASE freeOld(t)
  BY <1>9, FreeOldInv, SMT
<1>10. CASE destroyChunk(t)
  BY <1>10, DestroyInv
<1>11. CASE allocateAborts(t)
  BY <1>11, StutterInv DEF allocateAborts
<1> QED
  BY <1>1, <1>2, <1>3, <1>4, <1>5, <1>6, <1>7, <1>8, <1>9, <1>10, <1>11

\* The inductive invariant of the arena, its caches and the calls: what the buffers,
\* caches and calls hold is what the chunks have handed out.
THEOREM ArenaInvariant == Spec => []ArenaInv
<1>1. Init => ArenaInv
  BY InitInv
<1>2. ArenaInv /\ [Next]_vars => ArenaInv'
  BY NextInv
<1> QED
  BY <1>1, <1>2, PTL DEF Spec

----------------------------------------------------------------------------
(* What follows from it.                                                     *)

\* What the buffers, caches and calls hold.
LEMMA HeldSame == ArenaInv => Held = HeldIn(buf, cache, olds) /\ NoHandle \notin Held
<1> SUFFICES ASSUME ArenaInv PROVE Held = HeldIn(buf, cache, olds) /\ NoHandle \notin Held
  OBVIOUS
<1>1. NoHandle \notin InQueues(cache)
  <2> SUFFICES ASSUME NEW u \in Thread, NEW c \in Cached PROVE NoHandle \notin Range(cache[u][c])
    BY HeldProps
  <2>1. cache[u][c] \in Seq(Handle)
    BY SMT DEF ArenaInv, HoldersOK, HolderTypes
  <2> QED
    BY <2>1, SetOf, NoHandleOut
<1>2. ASSUME NEW h PROVE h \in Held <=> h \in HeldIn(buf, cache, olds)
  <2>1. h \in HeldIn(buf, cache, olds) <=>
           /\ h # NoHandle
           /\ \/ \E b \in Buf : h = buf[b]
              \/ \E t \in Thread : h = olds[t]
              \/ h \in InQueues(cache)
    BY HeldProps
  <2>2. \A t \in Thread : olds[t] = local[t].old
    BY DEF olds
  <2>3. h \in Held <=> \/ \E b \in Buf : buf[b] # NoHandle /\ h = buf[b]
                       \/ \E t \in Thread : local[t].old # NoHandle /\ h = local[t].old
                       \/ h \in InQueues(cache)
    BY HeldPlaces
  <2> QED
    BY <1>1, <2>1, <2>2, <2>3
<1> QED
  BY <1>2, HeldProps

\* No handle is in two places.
LEMMA OneHolder == ArenaInv => \A h \in Held : \A p, q \in Holders(h) : p = q
<1> SUFFICES ASSUME ArenaInv, NEW h \in Held, NEW p \in Holders(h), NEW q \in Holders(h)
             PROVE  p = q
  OBVIOUS
<1>1. h # NoHandle /\ HoldersOK(buf, cache, olds) /\ h \in Handle
  <2>1. HoldersOK(buf, cache, olds)
    BY DEF ArenaInv
  <2>2. HolderTypes(buf, cache, olds)
    BY <2>1 DEF HoldersOK
  <2> QED
    BY <2>1, <2>2, HeldSame, HeldHandles
<1>2. \A t \in Thread : olds[t] = local[t].old
  BY DEF olds
<1>3. ASSUME NEW x \in Holders(h)
      PROVE  \/ \E b \in Buf : buf[b] = h /\ x = <<"buffer", b>>
             \/ \E t \in Thread : local[t].old = h /\ x = <<"call", t>>
             \/ \E t \in Thread, c \in Cached : \E i \in DOMAIN cache[t][c] :
                   cache[t][c][i] = h /\ x = <<"cache", t, c, i>>
  <2>1. HeldAt(h, x)
    BY HolderPlaces
  <2> QED
    BY <2>1 DEF HeldAt
<1>4. \A t \in Thread, c \in Cached : \A i \in DOMAIN cache[t][c] :
         cache[t][c][i] = h => h \in Range(cache[t][c]) /\ h \in InQueues(cache)
  <2> SUFFICES ASSUME NEW t \in Thread, NEW c \in Cached, NEW i \in DOMAIN cache[t][c],
                      cache[t][c][i] = h
               PROVE  h \in Range(cache[t][c]) /\ h \in InQueues(cache)
    OBVIOUS
  <2>1. h \in Range(cache[t][c])
    BY DEF Range
  <2> QED
    BY <2>1, HeldProps
<1>5. ASSUME NEW b \in Buf, buf[b] = h
      PROVE  /\ \A a \in Buf : buf[a] = h => a = b
             /\ \A t \in Thread : local[t].old # h
             /\ h \notin InQueues(cache)
  BY <1>1, <1>2, <1>5 DEF HoldersOK
<1>6. ASSUME NEW t \in Thread, local[t].old = h
      PROVE  /\ \A u \in Thread : local[u].old = h => u = t
             /\ h \notin InQueues(cache)
  BY <1>1, <1>2, <1>6 DEF HoldersOK
<1>7. ASSUME NEW t \in Thread, NEW u \in Thread, NEW c \in Cached, NEW d \in Cached,
             NEW i \in DOMAIN cache[t][c], NEW j \in DOMAIN cache[u][d],
             cache[t][c][i] = h, cache[u][d][j] = h
      PROVE  t = u /\ c = d /\ i = j
  <2>1. t = u /\ c = d
    BY <1>1, <1>4, <1>7, SMT DEF HoldersOK
  <2>2. IsInjective(cache[t][c])
    BY <1>1 DEF HoldersOK
  <2> QED
    BY <1>7, <2>1, <2>2 DEF IsInjective
<1>8. CASE \E b \in Buf : buf[b] = h /\ p = <<"buffer", b>>
  BY <1>3, <1>4, <1>5, <1>8
<1>9. CASE \E t \in Thread : local[t].old = h /\ p = <<"call", t>>
  BY <1>3, <1>4, <1>5, <1>6, <1>9
<1>10. CASE \E t \in Thread, c \in Cached : \E i \in DOMAIN cache[t][c] :
               cache[t][c][i] = h /\ p = <<"cache", t, c, i>>
  <2>1. PICK t \in Thread, c \in Cached : \E i \in DOMAIN cache[t][c] :
               cache[t][c][i] = h /\ p = <<"cache", t, c, i>>
    BY <1>10
  <2>2. PICK i \in DOMAIN cache[t][c] : cache[t][c][i] = h /\ p = <<"cache", t, c, i>>
    BY <2>1
  <2>3. h \in InQueues(cache)
    BY <1>4, <2>2
  <2>4. \E u \in Thread, d \in Cached : \E j \in DOMAIN cache[u][d] :
               cache[u][d][j] = h /\ q = <<"cache", u, d, j>>
    BY <1>3, <1>5, <1>6, <2>3
  <2>5. PICK u \in Thread, d \in Cached : \E j \in DOMAIN cache[u][d] :
               cache[u][d][j] = h /\ q = <<"cache", u, d, j>>
    BY <2>4
  <2>6. PICK j \in DOMAIN cache[u][d] : cache[u][d][j] = h /\ q = <<"cache", u, d, j>>
    BY <2>5
  <2>7. t = u /\ c = d /\ i = j
    BY <1>7, <2>2, <2>6, SMT
  <2> QED
    BY <2>2, <2>6, <2>7
<1> QED
  BY <1>3, <1>8, <1>9, <1>10

\* The elements of a run that are held.
LEMMA HeldElemsProps ==
    ASSUME ArenaInv, NEW k \in Chunk, NEW r \in RunNo
    PROVE  LET elems == HeldElems(k, r)
               sub   == m_subpages[k][r]
           IN  /\ elems = IF sub # NoSubpage THEN sub.bits ELSE elems \cap {-1}
               /\ runs[k][r] # 0 <=> sub # NoSubpage \/ elems = {-1}
<1> DEFINE elems == HeldElems(k, r)
           sub   == m_subpages[k][r]
           c     == runs[k][r]
<1>1. PICK H : H = HeldIn(buf, cache, olds) /\ BodyOK(H)
  BY DEF ArenaInv, ChunksOK
<1>2. Held = H
  BY <1>1, HeldSame
<1>3. \A x : x \in elems <=> \E g \in H : g.chunk = k /\ g.run = r /\ g.elem = x
  BY <1>2 DEF HeldElems
<1>4. /\ H \subseteq Handle /\ \A h \in H : HandleFits(h)
      /\ \A h \in Handle : HandleFits(h) => h \in H
  BY <1>1 DEF BodyOK, MemoryOK
<1>5. c \in SizeIdx \cup {0} /\ 0 \notin SizeIdx /\ Small \subseteq SizeIdx
  BY <1>1, ArenaAssumption, SMT DEF BodyOK, BodyTypes, RunTable
<1>6. IF c \in Small THEN GoodSub(sub, c) ELSE sub = NoSubpage
  BY <1>1 DEF BodyOK, SubpagesOK
<1>7. c \in Small => sub # NoSubpage
  <2>1. NoSubpage.sizeIdx = 0
    BY DEF NoSubpage
  <2> QED
    BY <1>5, <1>6, <2>1 DEF GoodSub
<1> HIDE DEF elems, sub, c
<1>8. ASSUME NEW x, x \in elems PROVE c # 0 /\ (IF c \in Small THEN x \in sub.bits ELSE x = -1)
  <2>1. PICK g \in H : g.chunk = k /\ g.run = r /\ g.elem = x
    BY <1>3, <1>8
  <2>2. HandleFits(g) /\ g.sizeIdx \in SizeIdx
    BY <1>4, HandleParts
  <2> QED
    BY <1>5, <2>1, <2>2 DEF HandleFits, c, sub
<1>9. ASSUME NEW x \in Int, c # 0, IF c \in Small THEN x \in sub.bits ELSE x = -1
      PROVE  x \in elems
  <2>1. PICK h : h = HandleFor(k, r, c, x)
    OBVIOUS
  <2>2. h \in Handle /\ h.chunk = k /\ h.run = r /\ h.sizeIdx = c /\ h.elem = x
    <3>1. c \in SizeIdx
      BY <1>5, <1>9
    <3>2. MadeOf(HandleFor(k, r, c, x), k, r, c, x)
      BY <1>9, <3>1, MadeHandle
    <3> QED
      BY <2>1, <3>2 DEF MadeOf
  <2>3. HandleFits(h)
    BY <1>9, <2>2 DEF HandleFits, c, sub
  <2> QED
    BY <1>3, <1>4, <2>2, <2>3
<1>10. CASE c \in Small
  <2>1. sub.bits \subseteq Int
    BY <1>6, <1>10, SubBits
  <2>2. c # 0
    BY <1>5, <1>10
  <2>3. elems = sub.bits
    BY <1>8, <1>9, <1>10, <2>1, <2>2
  <2> QED
    BY <1>7, <1>10, <2>2, <2>3 DEF elems, sub, c
<1>11. CASE c \notin Small
  <2>1. sub = NoSubpage
    BY <1>6, <1>11
  <2>2. elems \subseteq {-1}
    BY <1>8, <1>11
  <2>3. c # 0 <=> elems = {-1}
    <3>1. -1 \in Int
      BY SMT
    <3>2. c # 0 => -1 \in elems
      BY <1>9, <1>11, <3>1
    <3>3. elems = {-1} => c # 0
      <4>1. elems = {-1} => -1 \in elems
        OBVIOUS
      <4> QED
        BY <1>8, <4>1
    <3> QED
      BY <2>2, <3>2, <3>3
  <2> QED
    BY <2>1, <2>2, <2>3 DEF elems, sub, c
<1> QED
  BY <1>10, <1>11

\* The indices at which an injective sequence satisfies what one value alone does.
LEMMA OneIndex ==
    ASSUME NEW S, NEW s \in Seq(S), IsInjective(s), NEW I, I \subseteq DOMAIN s,
           \A i, j \in I : s[i] = s[j]
    PROVE  Cardinality(I) = IF I = {} THEN 0 ELSE 1
<1>1. CASE I = {}
  BY <1>1, FS_EmptySet
<1>2. CASE I # {}
  <2>1. PICK i \in I : TRUE
    BY <1>2
  <2>2. \A j \in I : j = i
    BY DEF IsInjective
  <2>3. I = {i}
    BY <2>2
  <2> QED
    BY <1>2, <2>3, FS_Singleton
<1> QED
  BY <1>1, <1>2

\* A chunk that is empty is in no handle, ring or list.
LEMMA Unreferenced == ArenaInv => DestroyedUnreferenced
<1> SUFFICES ASSUME ArenaInv, NEW k \in Dying \cup (Chunk \ live)
             PROVE  /\ \A h \in Held : h.chunk # k
                    /\ \A c \in Small : \A i \in DOMAIN ring[c] : ring[c][i][1] # k
                    /\ \A q \in List : k \notin Range(lists[q])
  BY DEF DestroyedUnreferenced
<1>1. PICK H, D : /\ H = HeldIn(buf, cache, olds) /\ D = Dying
                  /\ BodyOK(H) /\ ListTypes /\ EmptyOK(D) /\ ListsOK(D)
  BY DEF ArenaInv, ChunksOK
<1>2. k \in Chunk /\ \A r \in RunNo : runs[k][r] = 0
  BY <1>1 DEF EmptyOK, ListTypes
<1>3. 0 \notin SizeIdx /\ Small \subseteq SizeIdx
  BY ArenaAssumption
<1>4. \A h \in Held : h.chunk # k
  <2> SUFFICES ASSUME NEW h \in Held PROVE h.chunk # k
    OBVIOUS
  <2>1. h \in Handle /\ HandleFits(h)
    BY <1>1, HeldSame DEF BodyOK, MemoryOK
  <2>2. h.run \in RunNo /\ h.sizeIdx \in SizeIdx
    BY <2>1, HandleParts
  <2> QED
    BY <1>2, <1>3, <2>1, <2>2 DEF HandleFits
<1>5. \A c \in Small : \A i \in DOMAIN ring[c] : ring[c][i][1] # k
  <2> SUFFICES ASSUME NEW c \in Small, NEW i \in DOMAIN ring[c] PROVE ring[c][i][1] # k
    OBVIOUS
  <2>1. ring[c] \in Seq(Chunk \X RunNo)
    BY <1>1 DEF BodyOK, BodyTypes
  <2>2. PICK at : at = ring[c][i]
    OBVIOUS
  <2>3. at \in Range(ring[c])
    BY <2>2 DEF Range
  <2>4. at \in Chunk \X RunNo
    BY <2>1, <2>3, SetOf
  <2>5. at = <<at[1], at[2]>> /\ at[1] \in Chunk /\ at[2] \in RunNo
    BY <2>4, SMT
  <2>6. runs[at[1]][at[2]] = c
    BY <1>1, <2>3, <2>5, SMT DEF BodyOK, RingOK
  <2> QED
    BY <1>2, <1>3, <2>2, <2>5, <2>6
<1>6. \A q \in List : k \notin Range(lists[q])
  BY <1>1, <1>2 DEF ListsOK
<1> QED
  BY <1>4, <1>5, <1>6

\* The rings are exact.
LEMMA Rings == ArenaInv => RingExact
<1> SUFFICES ASSUME ArenaInv, NEW c \in Small
             PROVE  /\ IsInjective(ring[c])
                    /\ Range(ring[c]) = {at \in live \X RunNo :
                          LET sub == m_subpages[at[1]][at[2]]
                          IN  sub.sizeIdx = c /\ m_numAvail(sub) > 0}
                    /\ Cardinality({i \in DOMAIN ring[c] :
                          m_subpages[ring[c][i][1]][ring[c][i][2]].bits = {}}) <= 1
  BY DEF RingExact
<1>1. PICK H, D : BodyOK(H) /\ ListTypes /\ EmptyOK(D)
  BY DEF ArenaInv, ChunksOK
<1>2. RingOK /\ SubpagesOK /\ ring[c] \in Seq(Chunk \X RunNo)
  BY <1>1 DEF BodyOK, BodyTypes
<1>3. IsInjective(ring[c])
  BY <1>2 DEF RingOK
<1>4. 0 \notin Small
  BY ArenaAssumption
<1>5. Range(ring[c]) \subseteq Chunk \X RunNo
  BY <1>2, SetOf
<1>6. ASSUME NEW k \in Chunk, NEW r \in RunNo
      PROVE  <<k, r>> \in Range(ring[c]) <=>
                k \in live /\ m_subpages[k][r].sizeIdx = c /\ m_numAvail(m_subpages[k][r]) > 0
  <2>1. <<k, r>> \in Range(ring[c]) <=> runs[k][r] = c /\ HasFree(m_subpages[k][r])
    BY <1>2 DEF RingOK
  <2>2. runs[k][r] = c => k \in live
    BY <1>1, <1>4 DEF EmptyOK
  <2>3. runs[k][r] = c => GoodSub(m_subpages[k][r], c)
    BY <1>2 DEF SubpagesOK
  <2>4. m_subpages[k][r].sizeIdx = c => runs[k][r] = c
    <3>1. NoSubpage.sizeIdx = 0
      BY DEF NoSubpage
    <3>2. IF runs[k][r] \in Small THEN GoodSub(m_subpages[k][r], runs[k][r])
                                  ELSE m_subpages[k][r] = NoSubpage
      BY <1>2 DEF SubpagesOK
    <3> QED
      BY <1>4, <3>1, <3>2 DEF GoodSub
  <2>5. PICK sub : sub = m_subpages[k][r]
    OBVIOUS
  <2>6. GoodSub(sub, c) => (m_numAvail(sub) > 0 <=> HasFree(sub))
    BY NumAvail
  <2> QED
    BY <2>1, <2>2, <2>3, <2>4, <2>5, <2>6 DEF GoodSub
<1>7. Range(ring[c]) = {at \in live \X RunNo :
                          LET sub == m_subpages[at[1]][at[2]]
                          IN  sub.sizeIdx = c /\ m_numAvail(sub) > 0}
  <2>1. live \subseteq Chunk
    BY <1>1 DEF ListTypes
  <2>2. ASSUME NEW at
        PROVE  at \in Range(ring[c]) <=>
                  at \in live \X RunNo /\ m_subpages[at[1]][at[2]].sizeIdx = c
                     /\ m_numAvail(m_subpages[at[1]][at[2]]) > 0
    <3>1. CASE at \in Chunk \X RunNo
      <4>1. PICK k \in Chunk, r \in RunNo : at = <<k, r>>
        BY <3>1, SMT
      <4>2. at[1] = k /\ at[2] = r
        BY <4>1
      <4>3. at \in live \X RunNo <=> k \in live
        BY <4>1
      <4> QED
        BY <1>6, <4>1, <4>2, <4>3
    <3>2. CASE at \notin Chunk \X RunNo
      BY <1>5, <2>1, <3>2
    <3> QED
      BY <3>1, <3>2
  <2> QED
    BY <2>2
<1>8. Cardinality({i \in DOMAIN ring[c] :
                     m_subpages[ring[c][i][1]][ring[c][i][2]].bits = {}}) <= 1
  <2>1. PICK s, I : s = ring[c] /\ I = {i \in DOMAIN ring[c] :
                     m_subpages[ring[c][i][1]][ring[c][i][2]].bits = {}}
    OBVIOUS
  <2>2. \A i \in I : s[i] \in Range(ring[c]) /\ SubAt(s[i]).bits = {}
    BY <2>1 DEF Range, SubAt
  <2>3. \A i, j \in I : s[i] = s[j]
    BY <1>2, <2>2 DEF RingOK
  <2>4. s \in Seq(Chunk \X RunNo) /\ IsInjective(s) /\ I \subseteq DOMAIN s
    BY <1>2, <1>3, <2>1
  <2>5. Cardinality(I) = IF I = {} THEN 0 ELSE 1
    BY <2>3, <2>4, OneIndex
  <2>6. Cardinality(I) <= 1
    BY <2>5, SMT
  <2> QED
    BY <2>1, <2>6
<1> QED
  BY <1>3, <1>7, <1>8

\* The lists are exact.
LEMMA Lists == ArenaInv => ListsExact
<1> SUFFICES ASSUME ArenaInv, NEW k \in live \ Dying
             PROVE  /\ \A q \in List : Cardinality({i \in DOMAIN lists[q] : lists[q][i] = k})
                                          = IF q = m_parent[k] THEN 1 ELSE 0
                    /\ m_freeBytes[k] > freeMinThreshold(m_parent[k])
                    /\ m_freeBytes[k] <= freeMaxThreshold(m_parent[k])
  BY DEF ListsExact
<1>1. PICK D : D = Dying /\ ListTypes /\ ListsOK(D) /\ BodyTypes
  BY DEF ArenaInv, ChunksOK, BodyOK
<1>2. k \in Chunk /\ m_parent[k] \in List /\ InBand(m_parent[k], m_freeBytes[k])
  BY <1>1 DEF ListTypes, ListsOK
<1>3. ASSUME NEW q \in List
      PROVE  Cardinality({i \in DOMAIN lists[q] : lists[q][i] = k})
                = IF q = m_parent[k] THEN 1 ELSE 0
  <2>1. PICK s, I : s = lists[q] /\ I = {i \in DOMAIN lists[q] : lists[q][i] = k}
    OBVIOUS
  <2>2. s \in Seq(Chunk) /\ IsInjective(s) /\ (k \in Range(s) <=> q = m_parent[k])
    BY <1>1, <1>2, <2>1 DEF ListTypes, ListsOK
  <2>3. I \subseteq DOMAIN s /\ \A i, j \in I : s[i] = s[j]
    BY <2>1
  <2>4. I = {} <=> k \notin Range(s)
    BY <2>1 DEF Range
  <2>5. Cardinality(I) = IF I = {} THEN 0 ELSE 1
    BY <2>2, <2>3, OneIndex
  <2> QED
    BY <2>1, <2>2, <2>4, <2>5
<1>4. m_freeBytes[k] > freeMinThreshold(m_parent[k])
  BY <1>1, <1>2, Thresholds, SMT DEF InBand, BodyTypes
<1>5. m_freeBytes[k] <= freeMaxThreshold(m_parent[k])
  BY <1>2 DEF InBand
<1> QED
  BY <1>3, <1>4, <1>5

\* No assertion the calls on an arena meet ever fails, but the one on the last queue of a
\* wholly free chunk.
THEOREM ArenaAssertsTheorem == Spec => []ArenaAssertsHold
<1>1. ArenaInv => ArenaAssertsHold
  BY DEF ArenaInv, ArenaAssertsHold
<1> QED
  BY <1>1, ArenaInvariant, PTL

\* No memory has two holders, and none is lost: what the buffers, caches and calls hold is
\* what the subpages and the chunks count as handed out.
THEOREM MemoryTheorem == Spec => []MemoryAccounted
<1>1. ArenaInv => MemoryAccounted
  <2> SUFFICES ASSUME ArenaInv PROVE MemoryAccounted
    OBVIOUS
  <2>1. \A h \in Held : \A p, q \in Holders(h) : p = q
    BY OneHolder
  <2> QED
    BY <2>1, HeldElemsProps DEF MemoryAccounted
<1> QED
  BY <1>1, ArenaInvariant, PTL

\* A chunk that destroyChunk deletes outside the mutex has no holder, no subpage in a ring
\* and no list that leads to it.
THEOREM DestroyedTheorem == Spec => []DestroyedUnreferenced
BY Unreferenced, ArenaInvariant, PTL

\* The ring of a size holds exactly the subpages with a free element, and at most one that
\* is wholly free.
THEOREM RingTheorem == Spec => []RingExact
BY Rings, ArenaInvariant, PTL

\* Every chunk is in the one list m_parent names, whose thresholds its free pages meet.
THEOREM ListsTheorem == Spec => []ListsExact
BY Lists, ArenaInvariant, PTL
================================================================================
