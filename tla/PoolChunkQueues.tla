--------------------------- MODULE PoolChunkQueues ---------------------------
(***************************************************************************)
(* PoolChunk on the heaps of LongPriorityQueue: what allocateRun, the       *)
(* collapse loops and free do to the queues of the classes, next to the     *)
(* sets of runs PoolChunk keeps in their place.                             *)
(***************************************************************************)
EXTENDS PoolChunk, LongPriorityQueue

VARIABLE queues    \* class -> its LongPriorityQueue

queueVars == <<vars, queues>>

Class(run) == PageIdxFloor[run.pages]
Offered(run) == [queues EXCEPT ![Class(run)] = offer(@, run)]
Removed(run) == [queues EXCEPT ![Class(run)] = remove(@, run)]

QueueInit ==
    /\ Init
    /\ queues = [i \in 0 .. NPSizes - 1 |-> IF i = NPSizes - 1 THEN <<WholeChunk>> ELSE <<>>]

\* poll, removeAvailRun's remove of what has just been polled, and the offer of the
\* remainder.
allocateFromQueue(need) ==
    /\ allocateRun(need)
    /\ \E i \in runFirstBestFit(need) :
          LET run    == peek(queues[i])
              rest   == Remainder(run, need)
              polled == [queues EXCEPT ![i] = remove(poll(@), run)]
          IN  queues' = IF rest.pages > 0
                        THEN [polled EXCEPT ![Class(rest)] = offer(@, rest)]
                        ELSE polled

\* One iteration of a collapse loop: the neighbour that is merged leaves its queue, or
\* free files what it has collapsed.
collapse ==
    \/ /\ collapsePast
       /\ queues' = IF pc' = pc THEN Removed(getAvailRunByOffset(handle.offset - 1)) ELSE queues
    \/ /\ collapseNext
       /\ queues' = IF pc' = pc
                    THEN Removed(getAvailRunByOffset(handle.offset + handle.pages))
                    ELSE Offered(handle)

QueueNext ==
    \/ \E need \in Request : \/ allocateFromQueue(need)
                             \/ allocateRunAborts(need) /\ UNCHANGED queues
    \/ \E run \in used : free(run) /\ UNCHANGED queues
    \/ collapse

QueueSpec == QueueInit /\ [][QueueNext]_queueVars

\* The heaps hold exactly the free runs, each once, and have the one with the smallest
\* offset in front, after any sequence of offers, polls and removals from the middle.
QueuesExact ==
    \A i \in 0 .. NPSizes - 1 :
        /\ ToSet(queues[i]) = m_runsAvail[i]
        /\ Len(queues[i]) = Cardinality(m_runsAvail[i])
        /\ queues[i] # <<>> => IsFirst(peek(queues[i]), m_runsAvail[i])
================================================================================
