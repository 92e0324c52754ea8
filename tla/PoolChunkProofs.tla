---------------------------- MODULE PoolChunkProofs ----------------------------
(***************************************************************************)
(* Proofs about PoolChunk, for every number of pages, every pair of class   *)
(* functions that meets ClassAssumption and every set of requests.          *)
(***************************************************************************)
EXTENDS PoolChunk, WellFoundedInduction, FiniteSetTheorems, TLAPS

Idx == 0 .. NPSizes - 1
Queues == [Idx -> SUBSET Run]
Maps == [PageNo -> Run \cup {NoRun}]

\* No two of the runs share a page.
Disjoint(S) == \A r, s \in S : r # s => Pages(r) \cap Pages(s) = {}

\* A chunk has at least one page.
LEMMA NPagesInt == NPages \in Int /\ NPages >= 1
BY ClassAssumption

\* The first and the last page of a run are pages of it.
LEMMA EndPages ==
    ASSUME NEW r \in Run
    PROVE  /\ r.offset \in Pages(r) /\ lastPage(r) \in Pages(r)
           /\ r.offset \in Int /\ r.pages \in Int /\ r.pages >= 1 /\ r.offset >= 0
           /\ PageIdxFloor[r.pages] \in Idx
           /\ r # NoRun
BY ClassAssumption DEF Run, Pages, lastPage, PageNo, Idx, NoRun

\* Offering a run to the queues adds it to the free runs.
LEMMA OfferRuns ==
    ASSUME NEW q \in Queues, NEW run \in Run
    PROVE  /\ QueueOffer(q, run) \in Queues
           /\ Runs(QueueOffer(q, run)) = Runs(q) \cup {run}
<1> DEFINE c == PageIdxFloor[run.pages]
<1>1. c \in Idx
  BY EndPages
<1>2. QueueOffer(q, run) = [q EXCEPT ![c] = @ \cup {run}]
  BY DEF QueueOffer
<1>3. QueueOffer(q, run) \in Queues
  BY <1>1, <1>2 DEF Queues
<1>4. ASSUME NEW x PROVE x \in Runs(QueueOffer(q, run)) <=> x \in Runs(q) \cup {run}
  BY <1>1, <1>2 DEF Runs, Idx, Queues
<1> QED
  BY <1>3, <1>4

\* Removing a filed run from the queues removes it from the free runs.
LEMMA RemoveRuns ==
    ASSUME NEW q \in Queues, NEW map \in Maps, Indexed(q, map), NEW run \in Runs(q)
    PROVE  /\ run \in Run
           /\ run \in q[PageIdxFloor[run.pages]]
           /\ QueueRemove(q, run) \in Queues
           /\ Runs(QueueRemove(q, run)) = Runs(q) \ {run}
<1> DEFINE c == PageIdxFloor[run.pages]
<1>1. run \in Run /\ run \in q[c]
  BY DEF Runs, Idx, Queues, Indexed
<1>2. c \in Idx
  BY <1>1, EndPages
<1>3. QueueRemove(q, run) = [q EXCEPT ![c] = @ \ {run}]
  BY DEF QueueRemove
<1>4. QueueRemove(q, run) \in Queues
  BY <1>2, <1>3 DEF Queues
<1>5. ASSUME NEW i \in Idx, i # c PROVE run \notin q[i]
  BY <1>5 DEF Indexed, Idx
<1>6. ASSUME NEW x PROVE x \in Runs(QueueRemove(q, run)) <=> x \in Runs(q) \ {run}
  BY <1>2, <1>3, <1>5 DEF Runs, Idx, Queues
<1> QED
  BY <1>1, <1>4, <1>6

\* Filing a run whose pages no free run holds keeps the indexes in agreement.
LEMMA OfferIndexed ==
    ASSUME NEW q \in Queues, NEW map \in Maps, Indexed(q, map), NEW run \in Run,
           lastPage(run) < NPages,
           \A r \in Runs(q) : lastPage(r) < NPages /\ Pages(r) \cap Pages(run) = {}
    PROVE  /\ MapInsert(map, run) \in Maps
           /\ Indexed(QueueOffer(q, run), MapInsert(map, run))
<1> DEFINE q2 == QueueOffer(q, run)
           m2 == MapInsert(map, run)
           c  == PageIdxFloor[run.pages]
<1>1. /\ run.offset \in PageNo /\ lastPage(run) \in PageNo
      /\ run.offset \in Pages(run) /\ lastPage(run) \in Pages(run)
      /\ c \in Idx /\ run # NoRun
  BY EndPages, NPagesInt DEF Run, PageNo, lastPage
<1>2. \A r \in Runs(q) : r \in Run /\ r.offset \in Pages(r) /\ lastPage(r) \in Pages(r)
  BY EndPages DEF Runs, Queues, Idx
<1>3. map[run.offset] = NoRun /\ map[lastPage(run)] = NoRun
  BY <1>1, <1>2 DEF Indexed
<1>4. m2 = [p \in PageNo |-> IF p \in {run.offset, lastPage(run)} THEN run ELSE map[p]]
  BY <1>3 DEF MapInsert, Maps
<1>5. m2 \in Maps
  BY <1>4 DEF Maps
<1>6. ASSUME NEW i \in Idx, NEW r \in q2[i]
      PROVE  /\ PageIdxFloor[r.pages] = i
             /\ m2[r.offset] = r /\ m2[lastPage(r)] = r
  <2>1. r \in q[i] \/ (r = run /\ i = c)
    BY <1>1 DEF QueueOffer, Queues
  <2>2. CASE r = run /\ i = c
    BY <2>2, <1>1, <1>4
  <2>3. CASE r \in q[i]
    <3>1. r \in Runs(q) /\ PageIdxFloor[r.pages] = i
      BY <2>3 DEF Runs, Idx, Indexed
    <3>2. map[r.offset] = r /\ map[lastPage(r)] = r
      BY <2>3 DEF Idx, Indexed
    <3>3. r.offset \in Pages(r) /\ lastPage(r) \in Pages(r) /\ r # NoRun
      BY <1>2, <3>1, EndPages
    <3>4. /\ r.offset \notin {run.offset, lastPage(run)}
          /\ lastPage(r) \notin {run.offset, lastPage(run)}
      BY <3>1, <3>3, <1>1
    <3>5. r.offset \in PageNo /\ lastPage(r) \in PageNo
      BY <1>2, <3>1, EndPages, NPagesInt DEF Run, PageNo, lastPage
    <3> QED
      BY <3>1, <3>2, <3>4, <3>5, <1>4
  <2> QED
    BY <2>1, <2>2, <2>3
<1>7. ASSUME NEW p \in PageNo, m2[p] # NoRun
      PROVE  m2[p] \in Runs(q2) /\ p \in {m2[p].offset, lastPage(m2[p])}
  BY <1>7, <1>4, OfferRuns DEF Indexed
<1> QED
  BY <1>5, <1>6, <1>7 DEF Indexed, Idx

\* Removing a free run from both indexes keeps them in agreement.
LEMMA RemoveIndexed ==
    ASSUME NEW q \in Queues, NEW map \in Maps, Indexed(q, map), NEW run \in Runs(q),
           \A r \in Runs(q) : lastPage(r) < NPages,
           Disjoint(Runs(q))
    PROVE  /\ MapErase(map, run) \in Maps
           /\ Indexed(QueueRemove(q, run), MapErase(map, run))
<1> DEFINE q2 == QueueRemove(q, run)
           m2 == MapErase(map, run)
<1>1. m2 = [p \in PageNo |-> IF p \in {run.offset, lastPage(run)} THEN NoRun ELSE map[p]]
  BY DEF MapErase, Maps
<1>2. m2 \in Maps
  BY <1>1 DEF Maps
<1>3. \A r \in Runs(q) :
         /\ r \in Run /\ r.offset \in Pages(r) /\ lastPage(r) \in Pages(r)
         /\ r.offset \in PageNo /\ lastPage(r) \in PageNo
  <2>1. \A r \in Runs(q) : r \in Run
    BY DEF Runs, Queues, Idx
  <2> QED
    BY <2>1, EndPages, NPagesInt DEF Run, PageNo, lastPage
<1>4. ASSUME NEW i \in Idx, NEW r \in q2[i]
      PROVE  /\ PageIdxFloor[r.pages] = i
             /\ m2[r.offset] = r /\ m2[lastPage(r)] = r
  <2>1. r \in Runs(q2)
    BY DEF Runs, Idx
  <2>2. r \in Runs(q) /\ r # run
    BY <2>1, RemoveRuns
  <2>3. r \in q[i]
    BY RemoveRuns DEF QueueRemove, Queues
  <2>4. PageIdxFloor[r.pages] = i /\ map[r.offset] = r /\ map[lastPage(r)] = r
    BY <2>3 DEF Indexed, Idx
  <2>5. Pages(r) \cap Pages(run) = {}
    BY <2>2 DEF Disjoint
  <2>6. /\ r.offset \notin {run.offset, lastPage(run)}
        /\ lastPage(r) \notin {run.offset, lastPage(run)}
    BY <2>2, <2>5, <1>3
  <2> QED
    BY <2>2, <2>4, <2>6, <1>1, <1>3
<1>5. ASSUME NEW p \in PageNo, m2[p] # NoRun
      PROVE  m2[p] \in Runs(q2) /\ p \in {m2[p].offset, lastPage(m2[p])}
  <2>1. m2[p] = map[p] /\ p \notin {run.offset, lastPage(run)} /\ map[p] # NoRun
    BY <1>5, <1>1
  <2>2. map[p] \in Runs(q) /\ p \in {map[p].offset, lastPage(map[p])}
    BY <2>1 DEF Indexed
  <2>3. map[p] # run
    BY <2>1, <2>2
  <2> QED
    BY <2>1, <2>2, <2>3, RemoveRuns
<1> QED
  BY <1>2, <1>4, <1>5 DEF Indexed, Idx

\* Cutting a run of a tiling in two leaves a tiling.
LEMMA SplitTiles ==
    ASSUME NEW S \in SUBSET Run, Tiles(S), NEW run \in S,
           NEW need \in 1 .. NPages, need < run.pages
    PROVE  LET front == [offset |-> run.offset, pages |-> need]
               rest  == Remainder(run, need)
           IN  /\ front \in Run /\ rest \in Run /\ front # rest
               /\ Pages(front) \cup Pages(rest) = Pages(run)
               /\ Pages(front) \cap Pages(rest) = {}
               /\ lastPage(rest) < NPages
               /\ Tiles((S \ {run}) \cup {front, rest})
<1> DEFINE front == [offset |-> run.offset, pages |-> need]
           rest  == Remainder(run, need)
           S2    == (S \ {run}) \cup {front, rest}
<1>1. /\ run.offset \in Int /\ run.pages \in Int /\ need \in Int
      /\ lastPage(run) < NPages /\ run.offset >= 0 /\ need >= 1
  BY EndPages, NPagesInt DEF Tiles
<1>a. /\ run.offset + need \in PageNo /\ run.offset \in PageNo
      /\ run.pages - need \in 1 .. NPages
  BY <1>1, NPagesInt DEF PageNo, lastPage
<1>b. /\ front.offset = run.offset /\ front.pages = need
      /\ rest = [offset |-> run.offset + need, pages |-> run.pages - need]
      /\ rest.offset = run.offset + need /\ rest.pages = run.pages - need
  BY DEF Remainder
<1>2. front \in Run /\ rest \in Run /\ front # rest
  <2>1. front \in Run
    BY <1>a DEF Run
  <2>2. rest \in Run
    BY <1>a, <1>b DEF Run
  <2>3. front.offset # rest.offset
    BY <1>1, <1>b
  <2> QED
    BY <2>1, <2>2, <2>3
<1>3. /\ Pages(front) \cup Pages(rest) = Pages(run)
      /\ Pages(front) \cap Pages(rest) = {}
      /\ lastPage(rest) < NPages /\ lastPage(front) < NPages
  <2>1. /\ Pages(front) = run.offset .. run.offset + need - 1
        /\ Pages(rest) = run.offset + need .. run.offset + run.pages - 1
        /\ Pages(run) = run.offset .. run.offset + run.pages - 1
        /\ lastPage(rest) = lastPage(run)
        /\ lastPage(front) = run.offset + need - 1
    <3> HIDE DEF front, rest
    <3> QED BY <1>1, <1>b DEF Pages, lastPage
  <2>2. lastPage(run) = run.offset + run.pages - 1
    BY DEF lastPage
  <2> HIDE DEF front, rest
  <2>3. Pages(front) \cup Pages(rest) = Pages(run)
    BY <2>1, <1>1
  <2>4. Pages(front) \cap Pages(rest) = {}
    BY <2>1, <1>1
  <2> QED
    BY <2>1, <2>2, <2>3, <2>4, <1>1, NPagesInt
<1>4. ASSUME NEW p \in PageNo PROVE \E r \in S2 : p \in Pages(r)
  <2>1. PICK r \in S : p \in Pages(r)
    BY DEF Tiles
  <2> QED
    BY <2>1, <1>3
<1>5. \A r \in S2 : lastPage(r) < NPages
  BY <1>3 DEF Tiles
<1>6. ASSUME NEW r \in S2, NEW s \in S2, r # s PROVE Pages(r) \cap Pages(s) = {}
  <2>1. \A t \in S \ {run} : Pages(t) \cap Pages(run) = {}
    BY DEF Tiles
  <2>2. \A t \in S \ {run} : Pages(t) \cap Pages(front) = {} /\ Pages(t) \cap Pages(rest) = {}
    BY <2>1, <1>3
  <2>3. \A t, u \in S \ {run} : t # u => Pages(t) \cap Pages(u) = {}
    BY DEF Tiles
  <2> QED
    BY <2>2, <2>3, <1>3, <1>6
<1>7. Tiles(S2)
  BY <1>4, <1>5, <1>6 DEF Tiles
<1> QED
  BY <1>2, <1>3, <1>7

\* Joining two adjacent runs of a tiling leaves a tiling.
LEMMA MergeTiles ==
    ASSUME NEW S \in SUBSET Run, Tiles(S), NEW a \in S, NEW b \in S,
           a.offset + a.pages = b.offset
    PROVE  LET both == [offset |-> a.offset, pages |-> a.pages + b.pages]
           IN  /\ both \in Run
               /\ both \notin S
               /\ lastPage(both) < NPages
               /\ Pages(both) = Pages(a) \cup Pages(b)
               /\ Tiles((S \ {a, b}) \cup {both})
<1> DEFINE both == [offset |-> a.offset, pages |-> a.pages + b.pages]
           S2   == (S \ {a, b}) \cup {both}
<1>1. /\ a \in Run /\ b \in Run
      /\ a.offset \in Int /\ a.pages \in Int /\ a.offset >= 0 /\ a.pages >= 1
      /\ b.offset \in Int /\ b.pages \in Int /\ b.offset >= 0 /\ b.pages >= 1
      /\ lastPage(b) < NPages
  BY EndPages DEF Tiles
<1>2. both \in Run /\ lastPage(both) < NPages
  <2>1. a.offset \in PageNo /\ a.pages + b.pages \in 1 .. NPages
    BY <1>1, NPagesInt DEF PageNo, lastPage
  <2>2. both \in Run
    BY <2>1 DEF Run
  <2>3. lastPage(both) = a.offset + (a.pages + b.pages) - 1
    BY DEF lastPage
  <2> QED
    BY <2>2, <2>3, <1>1 DEF lastPage
<1>3. Pages(both) = Pages(a) \cup Pages(b)
  BY <1>1 DEF Pages, lastPage
<1>4. both \notin S
  <2>1. both # a /\ a.offset \in Pages(both) /\ a.offset \in Pages(a)
    BY <1>1, <1>2, EndPages
  <2> QED
    BY <2>1 DEF Tiles
<1>5. ASSUME NEW p \in PageNo PROVE \E r \in S2 : p \in Pages(r)
  <2>1. PICK r \in S : p \in Pages(r)
    BY DEF Tiles
  <2> QED
    BY <2>1, <1>3
<1>6. \A r \in S2 : lastPage(r) < NPages
  BY <1>2 DEF Tiles
<1>7. ASSUME NEW r \in S2, NEW s \in S2, r # s PROVE Pages(r) \cap Pages(s) = {}
  <2>1. \A t \in S \ {a, b} : Pages(t) \cap Pages(both) = {}
    BY <1>3 DEF Tiles
  <2>2. \A t, u \in S \ {a, b} : t # u => Pages(t) \cap Pages(u) = {}
    BY DEF Tiles
  <2> QED
    BY <2>1, <2>2, <1>7
<1>8. Tiles(S2)
  BY <1>5, <1>6, <1>7 DEF Tiles
<1> QED
  BY <1>2, <1>3, <1>4, <1>8

----------------------------------------------------------------------------
(* ChunkInv is inductive.                                                   *)

\* Facts every action's proof starts from.
LEMMA InvFacts ==
    ASSUME ChunkInv
    PROVE  /\ m_runsAvail \in Queues
           /\ m_runsAvailMap \in Maps
           /\ Indexed(m_runsAvail, m_runsAvailMap)
           /\ Avail \in SUBSET Run
           /\ Avail = Runs(m_runsAvail)
           /\ \A r \in Avail : lastPage(r) < NPages
           /\ Disjoint(Runs(m_runsAvail))
           /\ Avail \cup used \cup Current \in SUBSET Run
<1>1. m_runsAvail \in Queues /\ m_runsAvailMap \in Maps /\ Avail = Runs(m_runsAvail)
  BY DEF ChunkInv, TypeOK, Queues, Maps, Idx, Avail
<1>2. Avail \in SUBSET Run
  BY <1>1 DEF Runs, Queues, Idx
<1>3. used \subseteq Run /\ Current \subseteq Run
  BY DEF ChunkInv, TypeOK, Current
<1>4. Indexed(m_runsAvail, m_runsAvailMap)
  BY DEF ChunkInv, IndexesAgree
<1>5. (\A r \in Avail : lastPage(r) < NPages) /\ Disjoint(Avail)
  BY DEF ChunkInv, Tiling, Tiles, Disjoint
<1> QED
  BY <1>1, <1>2, <1>3, <1>4, <1>5

\* The constructor establishes the invariant.
LEMMA InitInv == Init => ChunkInv
<1> SUFFICES ASSUME Init PROVE ChunkInv
  OBVIOUS
<1> DEFINE q0 == [i \in 0 .. NPSizes - 1 |-> {}]
           m0 == [p \in PageNo |-> NoRun]
<1>1. WholeChunk \in Run
  <2>1. 0 \in PageNo /\ NPages \in 1 .. NPages
    BY NPagesInt DEF PageNo
  <2> QED
    BY <2>1 DEF Run, WholeChunk
<1>2. q0 \in Queues /\ m0 \in Maps /\ Runs(q0) = {}
  BY DEF Queues, Maps, Idx, Runs
<1>3. Indexed(q0, m0)
  BY DEF Indexed
<1>4. lastPage(WholeChunk) = NPages - 1 /\ Pages(WholeChunk) = PageNo
  BY NPagesInt DEF WholeChunk, lastPage, Pages, PageNo
<1>5. m_runsAvail = QueueOffer(q0, WholeChunk) /\ m_runsAvailMap = MapInsert(m0, WholeChunk)
  BY DEF Init
<1> HIDE DEF q0, m0
<1>6. m_runsAvail \in Queues /\ Avail = {WholeChunk}
  BY <1>1, <1>2, <1>5, OfferRuns DEF Avail
<1>7. m_runsAvailMap \in Maps /\ IndexesAgree
  BY <1>1, <1>2, <1>3, <1>4, <1>5, OfferIndexed, NPagesInt DEF IndexesAgree
<1>8. used = {} /\ handle = NoRun /\ Current = {}
  BY DEF Init, Current
<1>9. TypeOK
  <2>1. m_freeBytes \in Int /\ freed \in 0 .. NPages
    BY NPagesInt DEF Init
  <2>2. pc = "idle" /\ aborted \in BOOLEAN
    BY Zenon DEF Init
  <2> QED
    BY <1>6, <1>7, <1>8, <2>1, <2>2 DEF TypeOK, Queues, Maps, Idx
<1>10. NoRun # WholeChunk
  BY DEF NoRun, WholeChunk
<1>11. Tiling
  BY <1>4, <1>6, <1>8, <1>10, NPagesInt DEF Tiling, Tiles
<1> QED
  BY <1>7, <1>9, <1>11 DEF ChunkInv

\* An allocation preserves the invariant: the run that is polled is replaced by the
\* front that is handed out and, when there is one, the remainder.
LEMMA AllocateInv ==
    ASSUME ChunkInv, NEW need \in Request, allocateRun(need)
    PROVE  ChunkInv'
<1>1. PICK i, run :
         /\ i \in runFirstBestFit(need) /\ run \in m_runsAvail[i]
         /\ need <= run.pages
         /\ LET queues == [m_runsAvail EXCEPT ![i] = @ \ {run}]
                map    == MapErase(m_runsAvailMap, run)
                rest   == Remainder(run, need)
            IN  IF rest.pages > 0
                THEN /\ m_runsAvail' = QueueOffer(queues, rest)
                     /\ m_runsAvailMap' = MapInsert(map, rest)
                ELSE /\ m_runsAvail' = queues
                     /\ m_runsAvailMap' = map
         /\ used' = used \cup {[offset |-> run.offset, pages |-> need]}
         /\ m_freeBytes' = m_freeBytes - need
  BY Zenon DEF allocateRun
<1>2. need \in 1 .. NPages
  BY ClassAssumption
<1>3. i \in Idx
  <2>1. PageIdx[need] \in 0 .. NPSizes - 1 /\ NPSizes \in Nat \ {0}
    BY <1>2, ClassAssumption
  <2> QED
    BY <1>1, <2>1 DEF runFirstBestFit, Idx
<1>4. run \in Avail /\ run \in Run /\ PageIdxFloor[run.pages] = i
  BY <1>1, <1>3, InvFacts DEF Indexed, Idx, Runs
<1> DEFINE q     == QueueRemove(m_runsAvail, run)
           map   == MapErase(m_runsAvailMap, run)
           rest  == Remainder(run, need)
           front == [offset |-> run.offset, pages |-> need]
           S     == Avail \cup used
<1>5. q = [m_runsAvail EXCEPT ![i] = @ \ {run}]
  BY <1>4 DEF QueueRemove
<1>6. q \in Queues /\ Runs(q) = Avail \ {run} /\ map \in Maps /\ Indexed(q, map)
  BY <1>4, InvFacts, RemoveRuns, RemoveIndexed
<1>7. handle = NoRun /\ Current = {} /\ handle' = NoRun /\ Current' = {}
  BY DEF allocateRun, Idle, ChunkInv, TypeOK, Current
<1>8. S \in SUBSET Run /\ Tiles(S) /\ run \in S /\ run \notin used
  BY <1>4, <1>7, InvFacts DEF ChunkInv, Tiling
<1>9. /\ m_freeBytes' \in Int /\ freed' \in 0 .. NPages
      /\ pc' = "idle" /\ aborted' \in BOOLEAN
  BY <1>1, <1>2 DEF allocateRun, Idle, ChunkInv, TypeOK
<1>10. rest.pages = run.pages - need /\ run.pages \in Int /\ need \in Int
  BY <1>2, <1>4, EndPages DEF Remainder
<1>11. CASE need < run.pages
  <2>1. rest.pages > 0
    BY <1>10, <1>11
  <2>2. m_runsAvail' = QueueOffer(q, rest) /\ m_runsAvailMap' = MapInsert(map, rest)
    BY <1>1, <1>5, <2>1
  <2>3. /\ front \in Run /\ rest \in Run /\ front # rest
        /\ Pages(front) \cup Pages(rest) = Pages(run)
        /\ Pages(front) \cap Pages(rest) = {}
        /\ lastPage(rest) < NPages
        /\ Tiles((S \ {run}) \cup {front, rest})
    BY <1>2, <1>8, <1>11, SplitTiles
  <2> HIDE DEF q, map, rest, front, S
  <2>4. \A r \in S \ {run} : Pages(r) \cap Pages(run) = {}
    BY <1>8 DEF Tiles
  <2>5. \A r \in Runs(q) : lastPage(r) < NPages /\ Pages(r) \cap Pages(rest) = {}
    BY <1>6, <1>8, <2>3, <2>4 DEF Tiles, S
  <2>6. m_runsAvail' \in Queues /\ Avail' = (Avail \ {run}) \cup {rest}
    BY <1>6, <2>2, <2>3, OfferRuns DEF Avail
  <2>7. m_runsAvailMap' \in Maps /\ IndexesAgree'
    BY <1>6, <2>2, <2>3, <2>5, OfferIndexed DEF IndexesAgree
  <2>8. used' = used \cup {front}
    BY <1>1 DEF front
  <2>9. Avail' \cup used' \cup Current' = (S \ {run}) \cup {front, rest}
    BY <1>7, <1>8, <2>6, <2>8 DEF S
  <2>10. front \notin S \ {run} /\ rest \notin S \ {run}
    <3>1. front.offset \in Pages(front) /\ rest.offset \in Pages(rest)
      BY <2>3, EndPages
    <3>2. \A r \in S \ {run} : Pages(r) \cap Pages(front) = {} /\ Pages(r) \cap Pages(rest) = {}
      BY <2>3, <2>4
    <3> QED
      BY <3>1, <3>2
  <2>11. Avail' \cap used' = {}
    BY <1>8, <2>3, <2>6, <2>8, <2>10 DEF S, ChunkInv, Tiling
  <2>12. handle' \notin Avail' \cup used'
    BY <1>7, <1>8, <2>3, <2>6, <2>8, EndPages DEF S
  <2>13. Tiling'
    BY <2>3, <2>9, <2>11, <2>12 DEF Tiling
  <2>14. TypeOK'
    BY <1>7, <1>8, <1>9, <2>3, <2>6, <2>7, <2>8 DEF TypeOK, Queues, Maps, Idx, S
  <2> QED
    BY <2>7, <2>13, <2>14 DEF ChunkInv
<1>12. CASE need = run.pages
  <2>1. m_runsAvail' = q /\ m_runsAvailMap' = map
    BY <1>1, <1>5, <1>10, <1>12
  <2>2. front = run
    BY <1>4, <1>12 DEF Run
  <2>3. used' = used \cup {run}
    BY <1>1, <2>2
  <2> HIDE DEF q, map, rest, front
  <2>4. Avail' = Avail \ {run} /\ IndexesAgree'
    BY <1>6, <2>1 DEF Avail, IndexesAgree
  <2>5. Avail' \cup used' \cup Current' = S
    BY <1>7, <1>4, <2>3, <2>4
  <2>6. Tiling'
    BY <1>7, <1>8, <2>3, <2>4, <2>5, EndPages, Zenon DEF Tiling, ChunkInv
  <2>7. TypeOK'
    BY <1>6, <1>7, <1>8, <1>9, <2>1, <2>3 DEF TypeOK, Queues, Maps, Idx
  <2> QED
    BY <2>4, <2>6, <2>7 DEF ChunkInv
<1> QED
  BY <1>1, <1>10, <1>11, <1>12

\* A failed assertion changes no run.
LEMMA AbortInv ==
    ASSUME ChunkInv, NEW need \in Request, allocateRunAborts(need)
    PROVE  ChunkInv'
<1>1. UNCHANGED <<m_runsAvail, m_runsAvailMap, m_freeBytes, used, handle, freed, pc>>
      /\ aborted' \in BOOLEAN
  BY DEF allocateRunAborts
<1>2. Avail' = Avail /\ Current' = Current
  BY <1>1 DEF Avail, Current
<1>3. TypeOK'
  BY <1>1 DEF ChunkInv, TypeOK
<1>4. Tiling' /\ IndexesAgree'
  BY <1>1, <1>2 DEF ChunkInv, Tiling, IndexesAgree
<1> QED
  BY <1>3, <1>4 DEF ChunkInv

\* Entering free() only moves the run from the handed-out ones to the current one.
LEMMA FreeInv ==
    ASSUME ChunkInv, NEW run \in used, free(run)
    PROVE  ChunkInv'
<1>1. run \in Run /\ run \notin Avail /\ run # NoRun
  BY EndPages DEF ChunkInv, TypeOK, Tiling
<1>2. Current = {} /\ Current' = {run}
  BY <1>1 DEF free, Idle, ChunkInv, TypeOK, Current
<1>3. Avail' = Avail /\ used' = used \ {run} /\ handle' = run
  BY DEF free, Avail
<1>4. Avail' \cup used' \cup Current' = Avail \cup used \cup Current
  BY <1>2, <1>3
<1>5. Tiling'
  BY <1>1, <1>3, <1>4 DEF ChunkInv, Tiling
<1>6. IndexesAgree'
  BY DEF free, ChunkInv, IndexesAgree
<1>7. run.pages \in 0 .. NPages
  BY <1>1, NPagesInt DEF Run
<1>8. TypeOK'
  BY <1>1, <1>3, <1>7 DEF free, ChunkInv, TypeOK
<1> QED
  BY <1>5, <1>6, <1>8 DEF ChunkInv

\* Merging the current run with a free run it touches, on either side.
LEMMA MergeInv ==
    ASSUME ChunkInv, pc # "idle",
           NEW run \in Avail, NEW offset, Merge(run, offset),
           \/ run.offset + run.pages = handle.offset /\ offset = run.offset
           \/ handle.offset + handle.pages = run.offset /\ offset = handle.offset
    PROVE  ChunkInv'
<1> DEFINE S    == Avail \cup used \cup Current
           both == [offset |-> offset, pages |-> run.pages + handle.pages]
<1>1. handle \in Run /\ Current = {handle} /\ handle # NoRun
  BY EndPages DEF ChunkInv, TypeOK, Current
<1>2. S \in SUBSET Run /\ Tiles(S) /\ run \in S /\ handle \in S /\ run # handle
  BY <1>1, InvFacts DEF ChunkInv, Tiling
<1>3. run \in Run /\ run.pages \in Int /\ handle.pages \in Int
  BY <1>1, <1>2, EndPages
<1>4. /\ both \in Run /\ both \notin S /\ lastPage(both) < NPages
      /\ Tiles((S \ {run, handle}) \cup {both})
  <2>1. CASE run.offset + run.pages = handle.offset /\ offset = run.offset
    BY <1>2, <2>1, MergeTiles
  <2>2. CASE handle.offset + handle.pages = run.offset /\ offset = handle.offset
    <3>1. both = [offset |-> handle.offset, pages |-> handle.pages + run.pages]
      BY <1>3, <2>2
    <3>2. S \ {run, handle} = S \ {handle, run}
      OBVIOUS
    <3> HIDE DEF both, S
    <3> QED
      BY <1>2, <2>2, <3>1, <3>2, MergeTiles
  <2> QED
    BY <2>1, <2>2
<1>5. handle' = both /\ used' = used
  BY DEF Merge
<1>6. m_runsAvail' = QueueRemove(m_runsAvail, run)
      /\ m_runsAvailMap' = MapErase(m_runsAvailMap, run)
  BY DEF Merge
<1> HIDE DEF both
<1>7. m_runsAvail' \in Queues /\ Avail' = Avail \ {run}
  BY <1>6, InvFacts, RemoveRuns DEF Avail
<1>8. m_runsAvailMap' \in Maps /\ IndexesAgree'
  BY <1>6, InvFacts, RemoveIndexed DEF IndexesAgree
<1>9. both # NoRun
  BY <1>4, EndPages
<1>10. Current' = {both}
  BY <1>5, <1>9 DEF Current
<1>11. Avail' \cup used' \cup Current' = (S \ {run, handle}) \cup {both}
  BY <1>1, <1>5, <1>7, <1>10 DEF ChunkInv, Tiling
<1>12. Tiling'
  BY <1>4, <1>5, <1>7, <1>11 DEF ChunkInv, Tiling
<1>13. TypeOK'
  BY <1>4, <1>5, <1>7, <1>8, <1>9 DEF Merge, ChunkInv, TypeOK, Queues, Maps, Idx
<1> QED
  BY <1>8, <1>12, <1>13 DEF ChunkInv

\* An iteration of collapsePast.
LEMMA PastInv ==
    ASSUME ChunkInv, collapsePast
    PROVE  ChunkInv'
<1> DEFINE past == getAvailRunByOffset(handle.offset - 1)
<1>1. CASE CanMergePast(past) /\ Merge(past, past.offset)
  <2>1. past \in Avail
    BY <1>1, InvFacts DEF CanMergePast, getAvailRunByOffset, Indexed
  <2>2. past.offset + past.pages = handle.offset
    BY <1>1 DEF CanMergePast
  <2>3. pc # "idle"
    BY DEF collapsePast
  <2> QED
    BY <1>1, <2>1, <2>2, <2>3, MergeInv, Zenon
<1>2. CASE /\ ~CanMergePast(past)
           /\ pc' = "collapseNext"
           /\ UNCHANGED <<m_runsAvail, m_runsAvailMap, m_freeBytes, used, handle,
                          freed, aborted>>
  <2>1. Avail' = Avail /\ Current' = Current
    BY <1>2 DEF Avail, Current
  <2>2. TypeOK'
    BY <1>2 DEF collapsePast, ChunkInv, TypeOK
  <2>3. Tiling' /\ IndexesAgree'
    BY <1>2, <2>1 DEF ChunkInv, Tiling, IndexesAgree
  <2> QED
    BY <2>2, <2>3 DEF ChunkInv
<1> QED
  BY <1>1, <1>2 DEF collapsePast

\* Filing the collapsed run.
LEMMA FileInv ==
    ASSUME ChunkInv, pc # "idle", FileRun
    PROVE  ChunkInv'
<1> DEFINE S == Avail \cup used \cup Current
<1>1. handle \in Run /\ Current = {handle} /\ handle # NoRun
  BY EndPages DEF ChunkInv, TypeOK, Current
<1>2. S \in SUBSET Run /\ Tiles(S) /\ handle \notin Avail /\ handle \notin used
  BY <1>1, InvFacts DEF ChunkInv, Tiling
<1>3. \A r \in Avail : lastPage(r) < NPages /\ Pages(r) \cap Pages(handle) = {}
  BY <1>1, <1>2 DEF Tiles
<1>4. lastPage(handle) < NPages
  BY <1>1, <1>2 DEF Tiles
<1>5. m_runsAvail' \in Queues /\ Avail' = Avail \cup {handle}
  BY <1>1, InvFacts, OfferRuns DEF FileRun, Avail
<1>6. m_runsAvailMap' \in Maps /\ IndexesAgree'
  BY <1>1, <1>3, <1>4, InvFacts, OfferIndexed DEF FileRun, IndexesAgree
<1>7. handle' = NoRun /\ Current' = {} /\ used' = used
  BY DEF FileRun, Current
<1>8. Avail' \cup used' \cup Current' = S
  BY <1>1, <1>5, <1>7
<1>9. NoRun \notin S
  BY <1>2, EndPages
<1>10. Tiling'
  BY <1>1, <1>2, <1>5, <1>7, <1>8, <1>9 DEF ChunkInv, Tiling
<1>11. m_freeBytes' \in Int /\ freed' \in 0 .. NPages
  BY NPagesInt DEF FileRun, ChunkInv, TypeOK
<1>12. TypeOK'
  BY <1>5, <1>6, <1>7, <1>11 DEF FileRun, ChunkInv, TypeOK, Queues, Maps, Idx
<1> QED
  BY <1>6, <1>10, <1>12 DEF ChunkInv

\* An iteration of collapseNext.  The entry found just behind the current run is the
\* start of a free run: were it the end of a longer one, that run would reach into the
\* current one.
LEMMA NextInv ==
    ASSUME ChunkInv, collapseNext
    PROVE  ChunkInv'
<1> DEFINE p   == handle.offset + handle.pages
           nxt == getAvailRunByOffset(p)
<1>1. pc # "idle"
  BY DEF collapseNext
<1>2. CASE CanMergeNext(nxt) /\ Merge(nxt, handle.offset)
  <2>1. nxt # NoRun
    BY <1>2 DEF CanMergeNext
  <2>2. /\ p \in PageNo /\ nxt \in Avail
        /\ p \in {nxt.offset, lastPage(nxt)}
    BY <2>1, InvFacts DEF getAvailRunByOffset, Indexed
  <2>3. handle \in Run /\ handle \in Current /\ nxt \in Run
    BY <1>1, <2>2, InvFacts DEF ChunkInv, TypeOK, Current
  <2>4. nxt # handle /\ Pages(nxt) \cap Pages(handle) = {}
    BY <2>2, <2>3 DEF ChunkInv, Tiling, Tiles
  <2>5. /\ nxt.offset \in Int /\ nxt.pages \in Int /\ nxt.pages >= 1
        /\ handle.offset \in Int /\ handle.pages \in Int /\ handle.pages >= 1
    BY <2>3, EndPages
  <2>6. p - 1 \in Pages(handle)
    BY <2>5 DEF Pages, lastPage
  <2>7. p - 1 \notin Pages(nxt)
    BY <2>4, <2>6
  <2> HIDE DEF nxt
  <2>8. p = nxt.offset
    <3>1. CASE p = lastPage(nxt) /\ nxt.offset < p
      <4>1. p - 1 \in Pages(nxt)
        BY <3>1, <2>5 DEF Pages, lastPage
      <4> QED
        BY <4>1, <2>7
    <3>2. CASE p = lastPage(nxt) /\ nxt.offset >= p
      BY <3>2, <2>5 DEF lastPage
    <3> QED
      BY <3>1, <3>2, <2>2, <2>5
  <2> QED
    BY <1>1, <1>2, <2>2, <2>8, MergeInv
<1>3. CASE ~CanMergeNext(nxt) /\ FileRun
  BY <1>1, <1>3, FileInv
<1> QED
  BY <1>2, <1>3 DEF collapseNext

\* Every step preserves the invariant.
LEMMA ChunkNextInv == ChunkInv /\ [Next]_vars => ChunkInv'
<1> SUFFICES ASSUME ChunkInv, [Next]_vars PROVE ChunkInv'
  OBVIOUS
<1>1. CASE UNCHANGED vars
  <2>1. TypeOK'
    BY <1>1 DEF vars, ChunkInv, TypeOK
  <2>2. Avail' = Avail /\ Current' = Current
    BY <1>1 DEF vars, Avail, Current
  <2>3. Tiling' /\ IndexesAgree'
    BY <1>1, <2>2 DEF vars, ChunkInv, Tiling, IndexesAgree
  <2> QED
    BY <2>1, <2>3 DEF ChunkInv
<1>2. CASE Next
  BY <1>2, AllocateInv, AbortInv, FreeInv, PastInv, NextInv DEF Next
<1> QED
  BY <1>1, <1>2

----------------------------------------------------------------------------
\* The invariant of the run allocator: the runs tile the chunk and the two indexes of
\* the free ones agree, in a chunk of any size with any requests.
THEOREM ChunkInvariance == Spec => []ChunkInv
BY InitInv, ChunkNextInv, PTL DEF Spec

\* Tiling implies that runs handed out do not overlap.
LEMMA InvNoOverlap == ChunkInv => NoOverlap
BY DEF ChunkInv, Tiling, Tiles, NoOverlap

\* allocateRun never hands out a page twice: no two runs in use share a page, and none
\* shares a page with a free run.
THEOREM AllocationsDisjoint == Spec => []NoOverlap
BY ChunkInvariance, InvNoOverlap, PTL

\* A non-empty set of naturals has a least element.
LEMMA LeastNat ==
    ASSUME NEW T \in SUBSET Nat, T # {}
    PROVE  \E m \in T : \A n \in T : m <= n
<1>1. PICK m \in T : \A n \in T : ~ (<<n, m>> \in OpToRel(<, Nat))
  BY NatLessThanWellFounded, WFMin, Zenon
<1>2. \A n \in T : ~ (n < m)
  BY <1>1, Zenon DEF OpToRel
<1> QED
  BY <1>2

\* runFirstBestFit overlooks no free run that is large enough.
LEMMA InvFit == ChunkInv => FailsOnlyWithoutFit
<1> SUFFICES ASSUME ChunkInv, NEW need \in Request,
                    PageIdx[need] = PageIdxFloor[need],
                    runFirstBestFit(need) = {},
                    NEW r \in Avail, ~(r.pages < need)
             PROVE  FALSE
  BY DEF FailsOnlyWithoutFit
<1> DEFINE c == PageIdx[need]
           T == {i \in c .. NPSizes - 1 : m_runsAvail[i] # {}}
<1>1. need \in 1 .. NPages /\ NPSizes \in Nat \ {0}
  BY ClassAssumption
<1>2. c \in 0 .. NPSizes - 1
  BY <1>1, ClassAssumption
<1>3. PICK i \in Idx : r \in m_runsAvail[i]
  BY DEF Avail, Runs, Idx
<1>4. PageIdxFloor[r.pages] = i /\ r \in Run
  BY <1>3, InvFacts DEF Indexed, Idx
<1>5. r.pages \in 1 .. NPages /\ need <= r.pages
  BY <1>1, <1>4 DEF Run
<1>6. c <= i
  BY <1>1, <1>4, <1>5, ClassAssumption
<1>7. i \in T
  BY <1>1, <1>2, <1>3, <1>6 DEF Idx
<1>8. T \in SUBSET Nat
  BY <1>1, <1>2
<1>9. PICK m \in T : \A n \in T : m <= n
  BY <1>7, <1>8, LeastNat, Zenon
<1>10. \A j \in c .. m - 1 : m_runsAvail[j] = {}
  BY <1>1, <1>2, <1>9
<1>11. m_freeBytes # NPages
  BY DEF runFirstBestFit
<1>12. m \in runFirstBestFit(need)
  BY <1>9, <1>10, <1>11 DEF runFirstBestFit
<1> QED
  BY <1>12

\* An allocation of a class size fails only when no free run is large enough.
THEOREM FitFound == Spec => []FailsOnlyWithoutFit
BY ChunkInvariance, InvFit, PTL

\* A step keeps PastMerged: collapsePast leaves its loop only when the map has no run
\* that ends just before the current one, and collapseNext does not move its start.
LEMMA PastMergedStep == ChunkInv /\ PastMerged /\ [Next]_vars => PastMerged'
<1> SUFFICES ASSUME ChunkInv, PastMerged, [Next]_vars, pc' = "collapseNext"
             PROVE  \A r \in Avail' : lastPage(r) + 1 # handle'.offset
  BY DEF PastMerged
<1>1. CASE UNCHANGED vars
  BY <1>1 DEF vars, PastMerged, Avail
<1>2. CASE \E need \in Request : allocateRun(need) \/ allocateRunAborts(need)
  BY <1>2 DEF allocateRun, allocateRunAborts, Idle
<1>3. CASE \E run \in used : free(run)
  BY <1>3 DEF free
<1>4. CASE collapsePast
  <2> DEFINE past == getAvailRunByOffset(handle.offset - 1)
  <2>1. /\ ~CanMergePast(past)
        /\ UNCHANGED <<m_runsAvail, handle>>
    BY <1>4 DEF collapsePast, Merge
  <2>2. ASSUME NEW r \in Avail, lastPage(r) + 1 = handle.offset PROVE FALSE
    <3>1. /\ r \in Run /\ r.offset \in Int /\ r.pages \in Int /\ r.pages >= 1
          /\ r.offset >= 0 /\ lastPage(r) < NPages /\ r # NoRun
      BY InvFacts, EndPages
    <3>2. lastPage(r) \in PageNo /\ lastPage(r) = handle.offset - 1
      BY <2>2, <3>1, NPagesInt DEF PageNo, lastPage
    <3>3. m_runsAvailMap[lastPage(r)] = r
      BY InvFacts DEF Indexed, Avail, Runs
    <3>4. past = r
      BY <3>2, <3>3 DEF getAvailRunByOffset
    <3>5. r.offset + r.pages = handle.offset
      BY <2>2, <3>1 DEF lastPage
    <3> QED
      BY <2>1, <3>1, <3>4, <3>5 DEF CanMergePast
  <2> QED
    BY <2>1, <2>2 DEF Avail
<1>5. CASE collapseNext
  <2> DEFINE nxt == getAvailRunByOffset(handle.offset + handle.pages)
  <2>1. nxt # NoRun /\ Merge(nxt, handle.offset)
    BY <1>5, Zenon DEF collapseNext, FileRun, CanMergeNext
  <2>2. nxt \in Avail
    BY <2>1, InvFacts, Zenon DEF getAvailRunByOffset, Indexed
  <2>3. Avail' = Avail \ {nxt} /\ handle'.offset = handle.offset
    BY <2>1, <2>2, InvFacts, RemoveRuns DEF Merge, Avail
  <2> QED
    BY <1>5, <2>3 DEF collapseNext, PastMerged
<1> QED
  BY <1>1, <1>2, <1>3, <1>4, <1>5 DEF Next

\* No free run is left just before the run free() files.
THEOREM PastCollapsed == Spec => []PastMerged
<1>1. Init => PastMerged
  BY DEF Init, PastMerged
<1> QED
  BY <1>1, ChunkInvariance, PastMergedStep, PTL DEF Spec

----------------------------------------------------------------------------
(* The number of free pages.                                                *)

\* A run covers as many pages as its length says.
LEMMA PagesCount ==
    ASSUME NEW r \in Run
    PROVE  IsFiniteSet(Pages(r)) /\ Cardinality(Pages(r)) = r.pages
<1>1. r.offset \in Int /\ r.pages \in Int /\ r.pages >= 1
  BY EndPages
<1>2. lastPage(r) \in Int /\ lastPage(r) >= r.offset /\ lastPage(r) - r.offset + 1 = r.pages
  BY <1>1 DEF lastPage
<1>3. /\ IsFiniteSet(r.offset .. lastPage(r))
      /\ Cardinality(r.offset .. lastPage(r)) =
            IF r.offset > lastPage(r) THEN 0 ELSE lastPage(r) - r.offset + 1
  BY <1>1, <1>2, FS_Interval, Zenon
<1> QED
  BY <1>1, <1>2, <1>3 DEF Pages

\* Handing out a run whose pages are uncovered covers exactly those.
LEMMA CoverCount ==
    ASSUME NEW S, NEW r \in Run, Pages(r) \subseteq Uncovered(S)
    PROVE  /\ Cardinality(Uncovered(S)) \in Nat
           /\ Cardinality(Uncovered(S \cup {r})) = Cardinality(Uncovered(S)) - r.pages
<1>1. Uncovered(S \cup {r}) = Uncovered(S) \ Pages(r)
  BY DEF Uncovered
<1>2. IsFiniteSet(PageNo)
  BY NPagesInt, FS_Interval DEF PageNo
<1>3. Uncovered(S) \in SUBSET PageNo
  BY DEF Uncovered
<1>4. IsFiniteSet(Uncovered(S))
  BY <1>2, <1>3, FS_Subset
<1>5. Cardinality(Uncovered(S) \ Pages(r))
         = Cardinality(Uncovered(S)) - Cardinality(Uncovered(S) \cap Pages(r))
  BY <1>4, FS_Difference, Zenon
<1>6. Uncovered(S) \cap Pages(r) = Pages(r)
  OBVIOUS
<1> QED
  BY <1>1, <1>4, <1>5, <1>6, PagesCount, FS_CardinalityType, Zenon

\* What makes FreeBytesExact inductive: no page is put aside between two operations.
FreeBytesInv == FreeBytesExact /\ (pc = "idle" => freed = 0)

\* A step keeps the count of the free pages exact: allocateRun takes the pages it hands
\* out from the count, free() puts those of its run aside and adds them when the
\* collapsed run is filed.
LEMMA FreeBytesStep == ChunkInv /\ FreeBytesInv /\ [Next]_vars => FreeBytesInv'
<1> SUFFICES ASSUME ChunkInv, FreeBytesInv, [Next]_vars PROVE FreeBytesInv'
  OBVIOUS
<1>0. m_freeBytes \in Int /\ freed \in Int
  BY DEF ChunkInv, TypeOK
<1>1. CASE UNCHANGED <<m_freeBytes, freed, used>> /\ (pc' = "idle" => pc = "idle")
  BY <1>1 DEF FreeBytesInv, FreeBytesExact, Uncovered
<1>2. ASSUME NEW need \in Request, allocateRun(need) PROVE FreeBytesInv'
  <2>1. PICK i, run :
           /\ i \in runFirstBestFit(need) /\ run \in m_runsAvail[i]
           /\ need <= run.pages
           /\ used' = used \cup {[offset |-> run.offset, pages |-> need]}
           /\ m_freeBytes' = m_freeBytes - need
    BY <1>2 DEF allocateRun
  <2> DEFINE front == [offset |-> run.offset, pages |-> need]
  <2>2. need \in 1 .. NPages
    BY ClassAssumption
  <2>3. i \in Idx
    <3>1. PageIdx[need] \in 0 .. NPSizes - 1 /\ NPSizes \in Nat \ {0}
      BY <2>2, ClassAssumption
    <3> QED
      BY <2>1, <3>1 DEF runFirstBestFit, Idx
  <2>4. run \in Avail /\ run \in Run /\ lastPage(run) < NPages
    BY <2>1, <2>3, InvFacts DEF Idx, Runs
  <2>5. /\ run.offset \in PageNo /\ run.offset \in Int /\ run.offset >= 0
        /\ run.pages \in Int /\ need \in Int
    BY <2>2, <2>4, EndPages DEF Run
  <2>6. front \in Run /\ front.offset = run.offset /\ front.pages = need
    BY <2>2, <2>5 DEF Run
  <2>7. Pages(front) \subseteq Pages(run) /\ Pages(run) \subseteq PageNo
    <3>1. Pages(front) = run.offset .. run.offset + need - 1
      BY <2>6 DEF Pages, lastPage
    <3>2. Pages(run) = run.offset .. run.offset + run.pages - 1
      BY DEF Pages, lastPage
    <3>3. run.offset + run.pages - 1 < NPages
      BY <2>4 DEF lastPage
    <3>4. need <= run.pages
      BY <2>1
    <3> HIDE DEF front
    <3>5. Pages(front) \subseteq Pages(run)
      BY <2>5, <3>1, <3>2, <3>4
    <3>6. Pages(run) \subseteq PageNo
      BY <2>5, <3>2, <3>3, NPagesInt DEF PageNo
    <3> QED
      BY <3>5, <3>6
  <2>8. \A r \in used : Pages(r) \cap Pages(run) = {}
    BY <2>4 DEF ChunkInv, Tiling, Tiles
  <2>9. Pages(front) \subseteq Uncovered(used)
    BY <2>7, <2>8, Zenon DEF Uncovered
  <2>10. /\ used' = used \cup {front} /\ m_freeBytes' = m_freeBytes - need
         /\ freed' = freed /\ pc' = pc
    BY <1>2, <2>1 DEF allocateRun
  <2> HIDE DEF front
  <2>11. /\ Cardinality(Uncovered(used)) \in Nat
         /\ Cardinality(Uncovered(used \cup {front})) = Cardinality(Uncovered(used)) - need
    BY <2>6, <2>9, CoverCount, Zenon
  <2>12. Uncovered(used)' = Uncovered(used \cup {front})
    BY <2>10 DEF Uncovered
  <2> QED
    BY <1>0, <2>5, <2>10, <2>11, <2>12 DEF FreeBytesInv, FreeBytesExact
<1>3. ASSUME NEW run \in used, free(run) PROVE FreeBytesInv'
  <2> DEFINE S == used \ {run}
  <2>1. run \in Run /\ lastPage(run) < NPages
    BY DEF ChunkInv, TypeOK, Tiling, Tiles
  <2>2. freed = 0
    BY <1>3 DEF free, Idle, FreeBytesInv
  <2>3. Pages(run) \subseteq PageNo
    BY <2>1, EndPages, NPagesInt DEF Pages, lastPage, PageNo
  <2>4. \A r \in S : Pages(r) \cap Pages(run) = {}
    BY DEF ChunkInv, Tiling, Tiles
  <2>5. Pages(run) \subseteq Uncovered(S)
    BY <2>3, <2>4 DEF Uncovered
  <2>6. /\ used' = S /\ freed' = run.pages /\ m_freeBytes' = m_freeBytes
        /\ used = S \cup {run} /\ pc' # "idle"
    BY <1>3 DEF free
  <2> HIDE DEF S
  <2>7. /\ Cardinality(Uncovered(S)) \in Nat
        /\ Cardinality(Uncovered(S \cup {run})) = Cardinality(Uncovered(S)) - run.pages
    BY <2>1, <2>5, CoverCount, Zenon
  <2>8. Uncovered(used)' = Uncovered(S) /\ Uncovered(used) = Uncovered(S \cup {run})
    BY <2>6 DEF Uncovered
  <2>9. run.pages \in Int
    BY <2>1, EndPages
  <2> QED
    BY <1>0, <2>2, <2>6, <2>7, <2>8, <2>9 DEF FreeBytesInv, FreeBytesExact
<1>4. CASE FileRun
  BY <1>0, <1>4 DEF FileRun, FreeBytesInv, FreeBytesExact, Uncovered
<1>5. CASE Next
  <2>1. CASE \E need \in Request : allocateRunAborts(need)
    BY <2>1, <1>1 DEF allocateRunAborts
  <2>2. CASE collapsePast
    BY <2>2, <1>1 DEF collapsePast, Merge
  <2>3. CASE collapseNext
    BY <2>3, <1>1, <1>4 DEF collapseNext, Merge
  <2> QED
    BY <1>2, <1>3, <1>5, <2>1, <2>2, <2>3 DEF Next
<1> QED
  BY <1>1, <1>5 DEF vars

\* m_freeBytes counts the free pages, in a chunk of any size with any requests.
THEOREM FreePagesCounted == Spec => []FreeBytesExact
<1>1. Init => FreeBytesInv
  <2> SUFFICES ASSUME Init PROVE FreeBytesInv
    OBVIOUS
  <2>1. Uncovered(used) = PageNo
    BY DEF Init, Uncovered
  <2>2. Cardinality(PageNo) = NPages
    BY NPagesInt, FS_Interval DEF PageNo
  <2> QED
    BY <2>1, <2>2, NPagesInt DEF Init, FreeBytesInv, FreeBytesExact
<1>2. FreeBytesInv => FreeBytesExact
  BY DEF FreeBytesInv
<1> QED
  BY <1>1, <1>2, ChunkInvariance, FreeBytesStep, PTL DEF Spec
================================================================================
