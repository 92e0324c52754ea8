------------------------- MODULE MCEventLoopThread --------------------------
(***************************************************************************)
(* Model checking EventLoopThread: the loop's thread, the owner and one    *)
(* more.  The first call of the loop's thread is threadFunc's queueInLoop  *)
(* and one call of the owner is left for the destructor.                   *)
(***************************************************************************)
EXTENDS EventLoopThread, TLC

CONSTANTS lt, p1, p2, n1, n2, n3

const_MaxCalls == lt :> 2 @@ p1 :> 2 @@ p2 :> 1

\* The addresses are interchangeable, so the queue's first dummy may as well be n1.
MCInit == ThreadInit /\ head_ = n1
MCSpec == MCInit /\ [][ThreadNext]_allVars /\ ThreadFairness
=============================================================================
