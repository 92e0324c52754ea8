----------------------------- MODULE MCTcpServer -----------------------------
(* The thread pools: none (the base loop serves its connections itself), one  *)
(* loop, or two.  Other threads call with at most one loop in the pool.       *)
EXTENDS TcpServer

CONSTANTS io1, io2

NoneToTwo == {<<>>, <<io1>>, <<io1, io2>>}

FewCalls == Len(loopThreads_) = 2 => calls = 0
MCInit == Init /\ FewCalls
MCSpec == MCInit /\ [][Next]_vars /\ Fairness
=============================================================================
