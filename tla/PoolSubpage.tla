------------------------------ MODULE PoolSubpage ------------------------------
(***************************************************************************)
(* A run cut into elements of one size (buffer/PoolSubpage): the bitmap of  *)
(* used elements, scanned word by word, and the hint m_nextAvail that free  *)
(* leaves for the next allocate.  m_numAvail is the number of clear bits;   *)
(* the place of the subpage in the ring of its size class is the arena's.   *)
(***************************************************************************)
EXTENDS Integers, FiniteSetsExt

CONSTANTS WordBits   \* bits of an element of m_bitmap (64)

ASSUME WordAssumption == WordBits \in Nat \ {0}

\* The constructor: every element free, the hint on the first.
newSubpage(sizeIdx, maxNumElems) ==
    [sizeIdx |-> sizeIdx, max |-> maxNumElems, bits |-> {}, m_nextAvail |-> 0]

m_numAvail(sub) == sub.max - Cardinality(sub.bits)

m_bitmapLength(sub) ==
    sub.max \div WordBits + (IF sub.max % WordBits # 0 THEN 1 ELSE 0)

\* The indices word i of the bitmap stands for, the ones past m_maxNumElems included.
Word(i) == i * WordBits .. (i + 1) * WordBits - 1

\* The first clear bit of the first word that has one; -1 when the words are full or
\* the bit stands for no element.
findNextAvail(sub) ==
    LET notFull == {i \in 0 .. m_bitmapLength(sub) - 1 : ~(Word(i) \subseteq sub.bits)}
        val     == Min(Word(Min(notFull)) \ sub.bits)
    IN  IF notFull = {} \/ val >= sub.max THEN -1 ELSE val

\* Mutant: a freed element's hint survives the allocation that uses it.
getNextAvailKept(sub) ==
    IF sub.m_nextAvail >= 0
    THEN [idx |-> sub.m_nextAvail, hint |-> sub.m_nextAvail]
    ELSE [idx |-> findNextAvail(sub), hint |-> -1]

\* The element to use next, and the hint left behind.
getNextAvail(sub) ==
    [idx  |-> IF sub.m_nextAvail >= 0 THEN sub.m_nextAvail ELSE findNextAvail(sub),
     hint |-> -1]

\* allocate asserts that the bit it is about to set is clear.
SubpageAllocateOK(sub) ==
    LET idx == getNextAvail(sub).idx
    IN  m_numAvail(sub) > 0 /\ idx \in 0 .. sub.max - 1 /\ idx \notin sub.bits

allocateElem(sub) ==
    LET next == getNextAvail(sub)
    IN  [sub EXCEPT !.bits = @ \cup {next.idx}, !.m_nextAvail = next.hint]

freeElem(sub, bitmapIdx) ==
    [sub EXCEPT !.bits = @ \ {bitmapIdx}, !.m_nextAvail = bitmapIdx]
================================================================================
