--------------------------- MODULE LongPriorityQueue ---------------------------
(***************************************************************************)
(* The binary heap of buffer/LongPriorityQueue.h: array[1 .. size] as a     *)
(* sequence, whose growth is the vector's.  The elements are runs, compared *)
(* by their offset, the highest bits of a handle.                           *)
(***************************************************************************)
EXTENDS Integers, Sequences, SequencesExt

subord(array, a, b) == array[a].offset > array[b].offset
swap(array, a, b) == [array EXCEPT ![a] = array[b], ![b] = array[a]]

RECURSIVE lift(_, _)
lift(array, index) ==
    LET parentIndex == index \div 2
    IN  IF index > 1 /\ subord(array, parentIndex, index)
        THEN lift(swap(array, index, parentIndex), parentIndex)
        ELSE array

RECURSIVE sink(_, _)
\* Mutant: the right child is not looked at.
sinkLeft(array, index) ==
    LET child == 2 * index
    IN  IF child <= Len(array) /\ subord(array, index, child)
        THEN sink(swap(array, index, child), child)
        ELSE array

sink(array, index) ==
    LET left  == 2 * index
        child == IF left < Len(array) /\ subord(array, left, left + 1) THEN left + 1 ELSE left
    IN  IF left <= Len(array) /\ subord(array, index, child)
        THEN sink(swap(array, index, child), child)
        ELSE array

offer(array, handle) == lift(Append(array, handle), Len(array) + 1)

\* The last element takes the place of the one removed, and finds its own; when it is
\* itself the one removed it is above its parent and stays out.  A value that is not in
\* the queue changes nothing.
remove(array, value) ==
    LET at == SelectInSeq(array, LAMBDA h : h = value)
    IN  IF at = 0 THEN array
        ELSE IF at = Len(array) THEN Front(array)
        ELSE sink(lift([Front(array) EXCEPT ![at] = Last(array)], at), at)

peek(array) == array[1]

poll(array) ==
    IF Len(array) = 1 THEN <<>> ELSE sink([Front(array) EXCEPT ![1] = Last(array)], 1)
================================================================================
