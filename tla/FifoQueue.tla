------------------------------ MODULE FifoQueue ------------------------------
(***************************************************************************)
(* What MpscQueue.h promises its callers: items leave in the order in      *)
(* which they entered, each once.                                          *)
(***************************************************************************)
EXTENDS Sequences

CONSTANTS Item, NULL

VARIABLES queue,  \* the items that are in the queue
          out     \* the item delivered last

FifoInit == queue = <<>> /\ out = NULL

Put == \E x \in Item : queue' = Append(queue, x) /\ out' = out

Get == queue # <<>> /\ out' = Head(queue) /\ queue' = Tail(queue)

FifoSpec == FifoInit /\ [][Put \/ Get]_<<queue, out>>
=============================================================================
