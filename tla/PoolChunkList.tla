----------------------------- MODULE PoolChunkList -----------------------------
(***************************************************************************)
(* The lists of chunks an arena sorts by usage (buffer/PoolChunkList, with  *)
(* the usages PoolArena's constructor gives them), by number: qInit, q000,  *)
(* q025, q050, q075, q100.  Sizes are counted in pages of a chunk.          *)
(***************************************************************************)
EXTENDS Integers, FiniteSetsExt

CONSTANTS ChunkPages   \* pages of a chunk

ASSUME PagesAssumption == ChunkPages \in Nat \ {0}

qInit == 1
q000  == 2
q025  == 3
q050  == 4
q075  == 5
q100  == 6
List  == qInit .. q100

m_minUsage == <<-8192, 1, 25, 50, 75, 100>>
m_maxUsage == <<25, 50, 75, 100, 100, 8192>>

\* chunkSize * (100.0 - usage + 0.99999999) / 100, cut to whole pages.
Threshold(usage) ==
    IF usage = 100 THEN 0 ELSE (ChunkPages * (101 - usage) - 1) \div 100

freeMinThreshold(q) == Threshold(m_maxUsage[q])
freeMaxThreshold(q) == Threshold(m_minUsage[q])

\* calculateMaxCapacity
m_maxCapacity(q) == (ChunkPages * (100 - Max({0, m_minUsage[q]}))) \div 100

\* PoolChunk::usage
usage(free) ==
    LET freePercentage == (free * 100) \div ChunkPages
    IN  CASE free = 0           -> 100
          [] freePercentage = 0 -> 99
          [] OTHER              -> 100 - freePercentage

\* Mutant: add keeps a chunk in the list it was handed to.
addHere(q, free) == q

\* The list add(), called on q, ends in: it passes a chunk on while it is too full.
add(q, free) == Min({p \in q .. q100 : free > freeMinThreshold(p)})

\* The list remove() and move0(), called on q, end in: down while the chunk is too
\* empty, 0 when there is no list below q000, and qInit is below itself.
move0(q, free) ==
    IF q = qInit THEN qInit
    ELSE Max({0} \cup {p \in q000 .. q - 1 : free <= freeMaxThreshold(p)})

\* assert(chunk->usage() < m_maxUsage) in every list move() passes, and
\* assert(chunk->usage() == 0) when there is none left.
MoveOK(q, free) ==
    LET to == move0(q, free)
    IN  /\ \A p \in Max({to, q000}) .. q - 1 : usage(free) < m_maxUsage[p]
        /\ to = 0 => usage(free) = 0
================================================================================
