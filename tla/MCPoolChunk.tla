------------------------------ MODULE MCPoolChunk ------------------------------
(* A chunk of 16 pages of 8 KiB with the page classes SizeClasses computes, and *)
(* the lookups of SizeClasses, which read nothing of a chunk: sizes are         *)
(* requested while the chunk is untouched.                                      *)
EXTENDS PoolChunkQueues, SizeRequests

Untouched == m_freeBytes = NPages /\ m_runsAvail[NPSizes - 1] = {WholeChunk} /\ pc = "idle"

MCInit == QueueInit /\ size = 0

MCNext ==
    \/ QueueNext /\ size = 0 /\ UNCHANGED size
    \/ Untouched /\ Ask /\ UNCHANGED queueVars
    \/ Done /\ UNCHANGED queueVars

MCSpec == MCInit /\ [][MCNext]_<<queueVars, size>>
================================================================================
