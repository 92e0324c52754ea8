---------------------------- MODULE TcpServerProofs ----------------------------
(***************************************************************************)
(* Proofs about TcpServer, for every set of connections, fds and thread    *)
(* pools.                                                                  *)
(*                                                                         *)
(* The inductive invariant is ServerSafe.  Until a call of another thread  *)
(* overwrites a kDisconnected, General holds as long as no assert fails,   *)
(* in ~TcpServer too: it ties each connection to its poller, its loop's    *)
(* round of events, the handler that closes it and the functors that hold  *)
(* it.  Alive is what a living server adds, and what keeps every assert    *)
(* from failing: no functor is there twice, a connection that has left the *)
(* map is closed, and an fd has one owner.  General and Alive hold at      *)
(* first, no step of a living server fails an assert, and every step that  *)
(* fails none and overwrites nothing keeps both.                           *)
(***************************************************************************)
EXTENDS TcpServer, TLAPS

Op == {"connectEstablished", "connectDestroyed", "removeConnectionInLoop", "forceCloseInLoop"}
Functor == [op : Op, conn : Conn]

Typed ==
    /\ connections_ \subseteq Conn
    /\ loopThreads_ \in Pools
    /\ next_ \in Nat /\ (loopThreads_ # <<>> => next_ < Len(loopThreads_))
    /\ fd \in [Conn -> Fd \cup {None}]
    /\ loop_ \in [Conn -> Loop \cup {None}]
    /\ state_ \in [Conn -> {"kConnecting", "kConnected", "kDisconnecting", "kDisconnected"}]
    /\ events_ \in [Conn -> BOOLEAN]
    /\ index_ \in [Conn -> {"kNew", "kAdded", "kDeleted"}]
    /\ channels_ \in [Loop -> [Fd -> Conn \cup {None}]]
    /\ funcs_ \in [Loop -> Seq(Functor)]
    /\ func \in [Loop -> [op : Op \cup {"none"}, conn : Conn \cup {None}]]
    /\ \A l \in Loop : func[l].op # "none" => func[l].conn \in Conn
    /\ phase \in [Loop -> {"poll", "events", "functors", "test", "stopped"}]
    /\ active \in [Loop -> SUBSET Conn]
    /\ closing \in [Loop -> Conn \cup {None}]
    /\ server \in {"alive", "destroying", "joining", "gone"}

\* Another thread holds connections that have been established.
CallersOK ==
    /\ caller \in [Thread -> [op : {"none", "shutdown", "forceClose", "runInLoop", "queueInLoop"},
                              conn : Conn \cup {None}]]
    /\ \A t \in Thread : /\ caller[t].op # "none" => caller[t].conn # None
                         /\ caller[t].conn # None => state_[caller[t].conn] # "kConnecting"

\* The functor loop l runs (place 0) or has queued.
Place(l) == 0 .. Len(funcs_[l])
At(l, i) == IF i = 0 THEN func[l] ELSE funcs_[l][i]
Is(l, i, op, c) == At(l, i).op = op /\ At(l, i).conn = c
Has(l, op, c) == \E i \in Place(l) : Is(l, i, op, c)

\* A connection inside handleClose is closed, and still registered.
LoopOK(l) ==
    /\ phase[l] # "events" => active[l] = {}
    /\ func[l].op # "none" => phase[l] = "functors" /\ closing[l] = None
    /\ closing[l] # None =>
          /\ phase[l] \in {"events", "functors"}
          /\ closing[l] \notin active[l]
          /\ loop_[closing[l]] = l /\ state_[closing[l]] = "kDisconnected"
          /\ channels_[l][fd[closing[l]]] = closing[l]
          /\ ~events_[closing[l]] /\ index_[closing[l]] # "kNew"

\* Once the connection has left the map, the end of it is queued behind its beginning.
FunctorOK(l, i) ==
    LET c == At(l, i).conn
    IN  /\ At(l, i).op \in {"connectEstablished", "connectDestroyed", "forceCloseInLoop"} => loop_[c] = l
        /\ At(l, i).op = "removeConnectionInLoop" => loop_[c] # None /\ state_[c] = "kDisconnected"
        /\ At(l, i).op = "connectEstablished" =>
              /\ l # Base
              /\ \/ c \in connections_
                 \/ state_[c] # "kConnecting"
                 \/ \E j \in Place(l) : j > i /\ Is(l, j, "connectDestroyed", c)

\* A channel is enabled exactly while its connection is up, and one the poller has seen is
\* registered there until the loop ends.
ConnOK(c) ==
    /\ fd[c] = None <=> loop_[c] = None
    /\ c \in connections_ => Created(c)
    /\ ~Created(c) => state_[c] = "kConnecting"
    /\ Up(c) <=> events_[c]
    /\ Up(c) => index_[c] # "kNew"
    /\ Up(c) \/ index_[c] # "kNew" =>
          Created(c) /\ (phase[loop_[c]] # "stopped" => channels_[loop_[c]][fd[c]] = c)

\* What keeps a registered connection alive: the map, handleClose or ~TcpServer's functor.
ChannelOK(l, f) ==
    LET c == channels_[l][f]
    IN  c # None =>
          /\ loop_[c] = l /\ fd[c] = f
          /\ c \in connections_ \/ closing[l] = c \/ Has(l, "connectDestroyed", c)
          /\ state_[c] # "kConnecting"
          /\ state_[c] = "kDisconnected" => closing[l] = c

\* A connection the round of events still has to handle is up.
ActiveOK(l, c) == loop_[c] = l /\ channels_[l][fd[c]] = c /\ Up(c)

LoopsOK == \A l \in Loop : LoopOK(l)
FunctorsOK == \A l \in Loop : \A i \in Place(l) : FunctorOK(l, i)
ConnsOK == \A c \in Conn : ConnOK(c)
ChannelsOK == \A l \in Loop, f \in Fd : ChannelOK(l, f)
ActivesOK == \A l \in Loop : \A c \in active[l] : ActiveOK(l, c)

General ==
    /\ LoopsOK /\ FunctorsOK /\ ConnsOK /\ ChannelsOK /\ ActivesOK
    /\ server # "alive" => phase[Base] = "stopped"

Once(l, op, c) == \A i, j \in Place(l) : Is(l, i, op, c) /\ Is(l, j, op, c) => i = j

\* A connection is established once, and removed once.
AliveFunctorOK(l, i) ==
    LET c == At(l, i).conn
    IN  /\ At(l, i).op # "connectDestroyed"
        /\ At(l, i).op = "connectEstablished" =>
              state_[c] = "kConnecting" /\ Once(l, "connectEstablished", c)
        /\ At(l, i).op = "removeConnectionInLoop" =>
              c \in connections_ /\ l = Base /\ Once(l, "removeConnectionInLoop", c)

AliveFunctors == \A l \in Loop : \A i \in Place(l) : AliveFunctorOK(l, i)

\* Only closed connections leave the map.
LeftClosed == \A c \in Conn : Created(c) /\ c \notin connections_ => state_[c] = "kDisconnected"

\* Of two connections that were given the same fd, one is freed.
FdsApart ==
    \A c, d \in Conn : c # d /\ fd[c] = fd[d] /\ fd[c] # None => Freed(c) \/ Freed(d)

Alive == AliveFunctors /\ LeftClosed /\ FdsApart

\* The inductive invariant.
ServerSafe ==
    /\ Typed /\ CallersOK
    /\ overwritten = {} => /\ failed = None => General
                           /\ server = "alive" => failed = None /\ Alive

\* A step is first-order reasoning unless it says otherwise: arithmetic and sequences
\* are left to the SMT solver, by name.
USE Zenon

-----------------------------------------------------------------------------
\* Sequences, said once so that the first-order prover can use them.
LEMMA SeqElement == ASSUME NEW S, NEW s \in Seq(S), NEW i \in 1 .. Len(s) PROVE s[i] \in S
BY SMT

\* What Append gives.
LEMMA SeqAppend ==
    ASSUME NEW S, NEW s \in Seq(S), NEW e \in S
    PROVE  /\ Append(s, e) \in Seq(S) /\ Len(Append(s, e)) = Len(s) + 1
           /\ Append(s, e)[Len(s) + 1] = e
           /\ \A i \in 1 .. Len(s) : Append(s, e)[i] = s[i]
BY SMT

\* What concatenation gives.
LEMMA SeqConcat ==
    ASSUME NEW S, NEW s \in Seq(S), NEW t \in Seq(S)
    PROVE  /\ s \o t \in Seq(S) /\ Len(s \o t) = Len(s) + Len(t)
           /\ \A i \in 1 .. Len(s) + Len(t) :
                (s \o t)[i] = IF i <= Len(s) THEN s[i] ELSE t[i - Len(s)]
BY SMT

\* What Head and Tail give.
LEMMA SeqTail ==
    ASSUME NEW S, NEW s \in Seq(S), s # <<>>
    PROVE  /\ Head(s) \in S /\ Tail(s) \in Seq(S) /\ Len(Tail(s)) = Len(s) - 1
           /\ \A i \in 1 .. Len(Tail(s)) : Tail(s)[i] = s[i + 1]
BY SMT

\* getNextLoop returns a loop.
LEMMA NextLoop == Typed => nextLoop \in Loop /\ Base \in Loop
<1> SUFFICES ASSUME Typed PROVE nextLoop \in Loop
  BY DEF Loop
<1>1. CASE loopThreads_ = <<>>
  BY <1>1 DEF nextLoop, Loop
<1>2. CASE loopThreads_ # <<>>
  <2>1. loopThreads_ \in Pools /\ next_ + 1 \in 1 .. Len(loopThreads_)
    BY <1>2, SMT DEF Typed
  <2>2. loopThreads_ \in Seq(Range(loopThreads_))
    BY <2>1, PoolsAssumption
  <2>3. loopThreads_[next_ + 1] \in Range(loopThreads_)
    BY <2>1, <2>2, SMT
  <2> QED BY <1>2, <2>1, <2>3 DEF nextLoop, Loop
<1> QED BY <1>1, <1>2

\* The round-robin index stays within the pool.
LEMMA FollowingLoop ==
    Typed => followingLoop \in Nat /\ (loopThreads_ # <<>> => followingLoop < Len(loopThreads_))
<1> SUFFICES ASSUME Typed
             PROVE followingLoop \in Nat /\ (loopThreads_ # <<>> => followingLoop < Len(loopThreads_))
  OBVIOUS
<1>1. loopThreads_ \in Seq(Range(loopThreads_)) /\ next_ \in Nat
  BY PoolsAssumption DEF Typed
<1>2. Len(loopThreads_) \in Nat /\ (loopThreads_ # <<>> => Len(loopThreads_) > 0)
  BY <1>1, SMT
<1> QED BY <1>1, <1>2, SMT DEF followingLoop

\* The variables start in their types.
LEMMA TypedInit == Init => Typed
<1> SUFFICES ASSUME Init PROVE Typed
  OBVIOUS
<1>1. loopThreads_ \in Seq(Range(loopThreads_))
  BY PoolsAssumption DEF Init
<1>2. loopThreads_ # <<>> => 0 < Len(loopThreads_)
  BY <1>1, SMT
<1> QED BY <1>2, SMT DEF Init, Typed, NoFunc, Functor

\* queueInLoop keeps the type of the queues.
LEMMA Appended ==
    ASSUME Typed, NEW l \in Loop, NEW op \in Op, NEW c \in Conn, queueInLoop(l, op, c)
    PROVE  funcs_' \in [Loop -> Seq(Functor)]
<1>1. [op |-> op, conn |-> c] \in Functor
  BY DEF Functor
<1>2. Append(funcs_[l], [op |-> op, conn |-> c]) \in Seq(Functor)
  BY <1>1, SeqAppend DEF Typed
<1> QED BY <1>2 DEF Typed, queueInLoop

\* An entry of a poller is set or cleared.
LEMMA Rechanneled ==
    ASSUME Typed, NEW l, NEW f, NEW v \in Conn \cup {None},
           channels_' = [channels_ EXCEPT ![l][f] = v]
    PROVE  channels_' \in [Loop -> [Fd -> Conn \cup {None}]]
<1>1. [channels_[l] EXCEPT ![f] = v] = [g \in DOMAIN channels_[l] |-> IF g = f THEN v ELSE channels_[l][g]]
  OBVIOUS
<1>2. l \in Loop => [channels_[l] EXCEPT ![f] = v] \in [Fd -> Conn \cup {None}]
  BY <1>1 DEF Typed
<1> QED BY <1>2 DEF Typed

\* connectEstablished keeps the types.
LEMMA TypedEstablished ==
    ASSUME Typed, NEW c \in Conn, NEW l, NEW f, connectEstablished(c, l, f)
    PROVE  /\ state_' \in [Conn -> {"kConnecting", "kConnected", "kDisconnecting", "kDisconnected"}]
           /\ events_' \in [Conn -> BOOLEAN]
           /\ index_' \in [Conn -> {"kNew", "kAdded", "kDeleted"}]
           /\ channels_' \in [Loop -> [Fd -> Conn \cup {None}]]
<1>1. channels_' \in [Loop -> [Fd -> Conn \cup {None}]]
  <2>1. CASE UNCHANGED chan
    BY <2>1 DEF chan, Typed
  <2>2. CASE channels_' = [channels_ EXCEPT ![l][f] = c]
    BY <2>2, Rechanneled
  <2> QED BY <2>1, <2>2 DEF connectEstablished, Register
<1>2. state_' \in [Conn -> {"kConnecting", "kConnected", "kDisconnecting", "kDisconnected"}]
  BY SMT DEF connectEstablished, Typed
<1>3. /\ events_' \in [Conn -> BOOLEAN]
      /\ index_' \in [Conn -> {"kNew", "kAdded", "kDeleted"}]
  BY DEF connectEstablished, Register, chan, Typed
<1> QED BY <1>1, <1>2, <1>3

\* Every step keeps the types.
LEMMA TypedNext == Typed /\ CallersOK /\ [Next]_vars => Typed'
<1> SUFFICES ASSUME Typed, CallersOK, [Next]_vars PROVE Typed'
  OBVIOUS
<1> USE NoneAssumption, NextLoop
<1>a. Base \in Loop
  OBVIOUS
<1>1. ASSUME NEW c \in Conn, NEW f \in Fd, newConnection(c, f) PROVE Typed'
  <2>1. next_' \in Nat /\ (loopThreads_' # <<>> => next_' < Len(loopThreads_'))
    BY <1>1, FollowingLoop DEF newConnection
  <2>2. funcs_' \in [Loop -> Seq(Functor)]
    <3>1. CASE nextLoop = Base
      BY <1>1, <3>1 DEF newConnection, Typed
    <3>2. CASE nextLoop # Base
      BY <1>1, <3>2, Appended DEF newConnection, Op
    <3> QED BY <3>1, <3>2
  <2>3. /\ state_' \in [Conn -> {"kConnecting", "kConnected", "kDisconnecting", "kDisconnected"}]
        /\ events_' \in [Conn -> BOOLEAN]
        /\ index_' \in [Conn -> {"kNew", "kAdded", "kDeleted"}]
        /\ channels_' \in [Loop -> [Fd -> Conn \cup {None}]]
    <3>1. CASE nextLoop = Base
      BY <1>1, <3>1, TypedEstablished DEF newConnection
    <3>2. CASE nextLoop # Base
      BY <1>1, <3>2 DEF newConnection, Typed, chan
    <3> QED BY <3>1, <3>2
  <2> QED BY <1>1, <2>1, <2>2, <2>3 DEF newConnection, Typed, loops
<1>2. ASSUME NEW c \in Conn, connectDestroyed(c)
      PROVE  /\ state_' \in [Conn -> {"kConnecting", "kConnected", "kDisconnecting", "kDisconnected"}]
             /\ events_' \in [Conn -> BOOLEAN]
             /\ index_' \in [Conn -> {"kNew", "kAdded", "kDeleted"}]
             /\ channels_' \in [Loop -> [Fd -> Conn \cup {None}]]
  BY <1>2, Rechanneled DEF Typed, connectDestroyed, RemoveChannel, chan
<1>3. CASE destroyServer
  BY <1>3 DEF destroyServer, Typed, chan, loops
<1>4. ASSUME NEW c \in Conn, destroyConnection(c) PROVE Typed'
  <2>1. CASE loop_[c] = Base
    <3>1. connectDestroyed(c) /\ UNCHANGED funcs_
      BY <1>4, <2>1 DEF destroyConnection
    <3> QED BY <1>4, <1>2, <3>1 DEF destroyConnection, Typed, loops
  <2>2. CASE loop_[c] # Base /\ loop_[c] \in Loop
    BY <1>4, <2>2, Appended DEF destroyConnection, Typed, loops, chan, Op
  <2>3. CASE loop_[c] = None
    <3>1. funcs_' = funcs_
      BY <1>4, <2>3, <1>a, SMT DEF destroyConnection, queueInLoop, Typed
    <3> QED BY <1>4, <2>3, <1>a, <3>1 DEF destroyConnection, Typed, loops, chan
  <2> QED BY <2>1, <2>2, <2>3 DEF Typed
<1>5. CASE resetThreadPool
  BY <1>5 DEF resetThreadPool, Typed, chan, loops
<1>6. CASE joined
  BY <1>6, SMT DEF joined, Dispose, Typed, loops
<1>7. ASSUME NEW l \in Loop, NEW A \in SUBSET Conn, poll(l, A) PROVE Typed'
  BY <1>7 DEF poll, Typed, serverVars, chan
<1>8. ASSUME NEW l \in Loop, NEW c \in Conn, message(l, c) PROVE Typed'
  <2>1. funcs_' \in [Loop -> Seq(Functor)]
    <3>1. CASE funcs_' = funcs_
      BY <3>1 DEF Typed
    <3>2. ASSUME NEW n \in 1 .. MaxForceClose,
                 funcs_' = [funcs_ EXCEPT ![l] =
                              @ \o [i \in 1 .. n |-> [op |-> "forceCloseInLoop", conn |-> c]]]
          PROVE  funcs_' \in [Loop -> Seq(Functor)]
      <4>1. [op |-> "forceCloseInLoop", conn |-> c] \in Functor
        BY DEF Functor, Op
      <4>2. [i \in 1 .. n |-> [op |-> "forceCloseInLoop", conn |-> c]] \in Seq(Functor)
        BY <4>1, BoundAssumption, SMT
      <4>3. funcs_[l] \o [i \in 1 .. n |-> [op |-> "forceCloseInLoop", conn |-> c]] \in Seq(Functor)
        BY <4>2, SeqConcat DEF Typed
      <4> QED BY <3>2, <4>3 DEF Typed
    <3> QED BY <1>8, <3>1, <3>2 DEF message
  <2>2. state_' \in [Conn -> {"kConnecting", "kConnected", "kDisconnecting", "kDisconnected"}]
    BY <1>8 DEF message, Typed
  <2> QED BY <1>8, <2>1, <2>2 DEF message, Handles, Typed, serverVars, chan
<1>9. ASSUME NEW l \in Loop, NEW c \in Conn, handleClose(l, c),
             UNCHANGED phase, active' \in [Loop -> SUBSET Conn],
             func' \in [Loop -> [op : Op \cup {"none"}, conn : Conn \cup {None}]],
             \A k \in Loop : func'[k].op # "none" => func'[k].conn \in Conn
      PROVE  Typed'
  <2>1. funcs_' \in [Loop -> Seq(Functor)]
    BY <1>9, <1>a, Appended DEF handleClose, Typed, Op
  <2>2. connections_' \subseteq Conn
    BY <1>9 DEF handleClose, removeConnectionInLoop, Typed, serverVars
  <2>3. index_' \in [Conn -> {"kNew", "kAdded", "kDeleted"}]
    <3>1. Disabled(c) \in {"kNew", "kAdded", "kDeleted"}
      BY DEF Disabled
    <3>2. index_' = index_ \/ index_' = [index_ EXCEPT ![c] = Disabled(c)]
      BY <1>9 DEF handleClose, chan
    <3> QED BY <3>1, <3>2 DEF Typed
  <2>4. channels_' \in [Loop -> [Fd -> Conn \cup {None}]]
    <3>1. CASE channels_' = channels_
      BY <3>1 DEF Typed
    <3>2. CASE channels_' = [channels_ EXCEPT ![l][fd[c]] = c]
      BY <3>2, Rechanneled
    <3> QED BY <1>9, <3>1, <3>2 DEF handleClose, chan
  <2>5. /\ state_' \in [Conn -> {"kConnecting", "kConnected", "kDisconnecting", "kDisconnected"}]
        /\ events_' \in [Conn -> BOOLEAN] /\ closing' \in [Loop -> Conn \cup {None}]
    <3>1. \/ UNCHANGED <<state_, events_, closing>>
          \/ /\ state_' = [state_ EXCEPT ![c] = "kDisconnected"]
             /\ events_' = [events_ EXCEPT ![c] = FALSE]
             /\ closing' = [closing EXCEPT ![l] = c]
      BY <1>9 DEF handleClose, chan
    <3>2. CASE UNCHANGED <<state_, events_, closing>>
      BY <3>2 DEF Typed
    <3>3. CASE /\ state_' = [state_ EXCEPT ![c] = "kDisconnected"]
               /\ events_' = [events_ EXCEPT ![c] = FALSE]
               /\ closing' = [closing EXCEPT ![l] = c]
      BY <3>3 DEF Typed
    <3> QED BY <3>1, <3>2, <3>3
  <2>6. UNCHANGED <<loopThreads_, next_, fd, loop_, server>>
    BY <1>9 DEF handleClose, serverVars
  <2> QED BY <1>9, <2>1, <2>2, <2>3, <2>4, <2>5, <2>6 DEF Typed
<1>10. ASSUME NEW l \in Loop, NEW c \in Conn, handleEof(l, c) PROVE Typed'
  <2>1. CASE Up(c)
    BY <1>9, <1>10, <2>1 DEF handleEof, Handles, Typed
  <2>2. CASE ~Up(c)
    BY <1>10, <2>2 DEF handleEof, Handles, Typed, serverVars, chan
  <2> QED BY <2>1, <2>2
<1>11. ASSUME NEW l \in Loop, closeDone(l) PROVE Typed'
  <2>1. closing[l] \in Conn
    BY <1>11 DEF closeDone, Typed
  <2> QED BY <1>11, <1>2, <2>1 DEF closeDone, Typed, serverVars
<1>12. ASSUME NEW l \in Loop, eventsDone(l) PROVE Typed'
  BY <1>12 DEF eventsDone, Typed, serverVars, chan
<1>13. ASSUME NEW l \in Loop, takeFunctor(l) PROVE Typed'
  <2>1. CASE funcs_[l] = <<>>
    <3>1. /\ phase' = [phase EXCEPT ![l] = "test"]
          /\ func' = [func EXCEPT ![l] = NoFunc]
          /\ UNCHANGED <<funcs_, serverVars, state_, chan, active, closing, destroys, failed>>
      BY <1>13, <2>1 DEF takeFunctor
    <3>2. func' \in [Loop -> [op : Op \cup {"none"}, conn : Conn \cup {None}]]
      BY <3>1 DEF Typed, NoFunc
    <3>3. \A k \in Loop : func'[k].op # "none" => func'[k].conn \in Conn
      BY <3>1 DEF Typed, NoFunc
    <3> QED BY <3>1, <3>2, <3>3 DEF Typed, serverVars, chan
  <2>2. CASE funcs_[l] # <<>>
    <3>1. Head(funcs_[l]) \in Functor /\ Tail(funcs_[l]) \in Seq(Functor)
      BY <2>2, SeqTail DEF Typed
    <3>2. /\ func' = [func EXCEPT ![l] = Head(funcs_[l])]
          /\ funcs_' = [funcs_ EXCEPT ![l] = Tail(funcs_[l])]
          /\ UNCHANGED <<phase, serverVars, state_, chan, active, closing, destroys, failed>>
      BY <1>13, <2>2 DEF takeFunctor
    <3>3. funcs_' \in [Loop -> Seq(Functor)]
      BY <3>1, <3>2 DEF Typed
    <3>4. func' \in [Loop -> [op : Op \cup {"none"}, conn : Conn \cup {None}]]
      BY <3>1, <3>2 DEF Typed, Functor
    <3>5. \A k \in Loop : func'[k].op # "none" => func'[k].conn \in Conn
      BY <3>1, <3>2 DEF Typed, Functor
    <3> QED BY <3>2, <3>3, <3>4, <3>5 DEF Typed, serverVars, chan
  <2> QED BY <2>1, <2>2
<1>14. ASSUME NEW l \in Loop, NEW op \in Op, Runs(l, op)
       PROVE  /\ func[l].conn \in Conn
              /\ func' \in [Loop -> [op : Op \cup {"none"}, conn : Conn \cup {None}]]
              /\ \A k \in Loop : func'[k].op # "none" => func'[k].conn \in Conn
  BY <1>14, ZenonT(40) DEF Runs, Typed, Op
<1>15. ASSUME NEW l \in Loop, runEstablished(l) PROVE Typed'
  <2>1. Runs(l, "connectEstablished") /\ "connectEstablished" \in Op
    BY <1>15 DEF runEstablished, Op
  <2>2. /\ func[l].conn \in Conn
        /\ func' \in [Loop -> [op : Op \cup {"none"}, conn : Conn \cup {None}]]
        /\ \A k \in Loop : func'[k].op # "none" => func'[k].conn \in Conn
    BY <2>1, <1>14
  <2>3. /\ state_' \in [Conn -> {"kConnecting", "kConnected", "kDisconnecting", "kDisconnected"}]
        /\ events_' \in [Conn -> BOOLEAN]
        /\ index_' \in [Conn -> {"kNew", "kAdded", "kDeleted"}]
        /\ channels_' \in [Loop -> [Fd -> Conn \cup {None}]]
    BY <1>15, <2>2, TypedEstablished DEF runEstablished
  <2> QED BY <1>15, <2>1, <2>2, <2>3, SMT DEF runEstablished, Runs, Typed, serverVars
<1>16. ASSUME NEW l \in Loop, runDestroyed(l) PROVE Typed'
  <2>1. Runs(l, "connectDestroyed") /\ "connectDestroyed" \in Op
    BY <1>16 DEF runDestroyed, Op
  <2>2. /\ func[l].conn \in Conn
        /\ func' \in [Loop -> [op : Op \cup {"none"}, conn : Conn \cup {None}]]
        /\ \A k \in Loop : func'[k].op # "none" => func'[k].conn \in Conn
    BY <2>1, <1>14
  <2> QED BY <1>16, <1>2, <2>1, <2>2 DEF runDestroyed, Runs, Typed, serverVars
<1>17. ASSUME NEW l \in Loop, runRemove(l) PROVE Typed'
  <2>1. Runs(l, "removeConnectionInLoop") /\ "removeConnectionInLoop" \in Op
    BY <1>17 DEF runRemove, Op
  <2>2. /\ func[l].conn \in Conn
        /\ func' \in [Loop -> [op : Op \cup {"none"}, conn : Conn \cup {None}]]
        /\ \A k \in Loop : func'[k].op # "none" => func'[k].conn \in Conn
    BY <2>1, <1>14
  <2> QED BY <1>17, <2>1, <2>2, SMT DEF runRemove, removeConnectionInLoop, Runs, Typed, chan
<1>18. ASSUME NEW l \in Loop, forceCloseInLoop(l) PROVE Typed'
  <2>1. Runs(l, "forceCloseInLoop") /\ "forceCloseInLoop" \in Op
    BY <1>18 DEF forceCloseInLoop, Op
  <2>2. /\ func[l].conn \in Conn
        /\ func' \in [Loop -> [op : Op \cup {"none"}, conn : Conn \cup {None}]]
        /\ \A k \in Loop : func'[k].op # "none" => func'[k].conn \in Conn
    BY <2>1, <1>14
  <2>3. CASE Up(func[l].conn)
    BY <1>18, <1>9, <2>1, <2>2, <2>3 DEF forceCloseInLoop, Runs, Typed
  <2>4. CASE ~Up(func[l].conn)
    BY <1>18, <2>1, <2>2, <2>4, SMT DEF forceCloseInLoop, Runs, Typed, serverVars, chan
  <2> QED BY <2>3, <2>4
<1>19. ASSUME NEW l \in Loop, testQuit(l) PROVE Typed'
  <2>1. CASE UNCHANGED <<funcs_, channels_>>
    BY <1>19, <2>1 DEF testQuit, Typed, serverVars
  <2>2. CASE Dispose(l)
    <3>1. funcs_' \in [Loop -> Seq(Functor)]
      BY <2>2, SMT DEF Dispose, Typed
    <3>2. channels_' \in [Loop -> [Fd -> Conn \cup {None}]]
      BY <2>2 DEF Dispose, Typed
    <3> QED BY <1>19, <3>1, <3>2 DEF testQuit, Typed, serverVars
  <2> QED BY <1>19, <2>1, <2>2 DEF testQuit
<1>20. ASSUME NEW t \in Thread, CallerStep(t) PROVE Typed'
  <2>1. UNCHANGED <<connections_, loopThreads_, next_, fd, loop_, server, events_, index_, channels_,
                    func, phase, active, closing>>
    BY <1>20 DEF CallerStep, serverVars, chan, loops
  <2>2. state_' \in [Conn -> {"kConnecting", "kConnected", "kDisconnecting", "kDisconnected"}]
    BY <1>20 DEF CallerStep, hold, test, Goes, set, callLoop, release, Typed
  <2>3. funcs_' \in [Loop -> Seq(Functor)]
    <3>1. CASE funcs_' = funcs_
      BY <3>1 DEF Typed
    <3>2. CASE /\ caller[t].op = "queueInLoop"
               /\ queueInLoop(loop_[caller[t].conn], "forceCloseInLoop", caller[t].conn)
      <4>1. PICK c \in Conn : c = caller[t].conn
        BY <3>2 DEF CallersOK
      <4>2. CASE loop_[c] \in Loop
        BY <3>2, <4>1, <4>2, Appended DEF Op
      <4>3. CASE loop_[c] \notin Loop
        <5>1. loop_[c] = None /\ None \notin Loop
          BY <4>3 DEF Typed
        <5>2. funcs_' = funcs_
          BY <3>2, <4>1, <5>1, SMT DEF queueInLoop, Typed
        <5> QED BY <5>2 DEF Typed
      <4> QED BY <4>2, <4>3
    <3> QED BY <1>20, <3>1, <3>2 DEF CallerStep, hold, test, Goes, set, callLoop, release
  <2> QED BY <2>1, <2>2, <2>3 DEF Typed
<1>21. CASE UNCHANGED vars
  BY <1>21 DEF vars, serverVars, chan, loops, Typed
<1> QED
  BY <1>1, <1>3, <1>4, <1>5, <1>6, <1>7, <1>8, <1>10, <1>11, <1>12, <1>13, <1>15, <1>16, <1>17,
     <1>18, <1>19, <1>20, <1>21 DEF Next, LoopStep, DestroyStep

\* No step makes a connection new again.
LEMMA NotNewAgain ==
    ASSUME Typed, CallersOK, Next, NEW c \in Conn, state_[c] # "kConnecting"
    PROVE  state_'[c] # "kConnecting"
<1> USE DEF Typed
<1>1. ASSUME NEW d, NEW l, NEW f, connectEstablished(d, l, f) PROVE state_'[c] # "kConnecting"
  BY <1>1 DEF connectEstablished
<1>2. ASSUME NEW d, connectDestroyed(d) PROVE state_'[c] # "kConnecting"
  BY <1>2 DEF connectDestroyed
<1>3. ASSUME NEW d, NEW l, handleClose(l, d) PROVE state_'[c] # "kConnecting"
  BY <1>3 DEF handleClose
<1>4. ASSUME NEW d \in Conn, NEW f \in Fd, newConnection(d, f) PROVE state_'[c] # "kConnecting"
  BY <1>1, <1>4 DEF newConnection
<1>5. CASE DestroyStep \/ destroyServer
  BY <1>2, <1>5 DEF DestroyStep, destroyServer, resetThreadPool, joined, destroyConnection
<1>6. ASSUME NEW l \in Loop, LoopStep(l) PROVE state_'[c] # "kConnecting"
  <2>1. CASE runEstablished(l)
    BY <1>1, <2>1 DEF runEstablished
  <2>2. CASE runDestroyed(l) \/ closeDone(l)
    BY <1>2, <2>2 DEF runDestroyed, closeDone
  <2>3. CASE forceCloseInLoop(l) \/ \E d \in Conn : handleEof(l, d)
    BY <1>3, <2>3 DEF forceCloseInLoop, handleEof
  <2>4. ASSUME NEW d \in Conn, message(l, d) PROVE state_'[c] # "kConnecting"
    BY <2>4 DEF message
  <2> QED BY <1>6, <2>1, <2>2, <2>3, <2>4
          DEF LoopStep, poll, eventsDone, takeFunctor, runRemove, testQuit
<1>7. ASSUME NEW t \in Thread, CallerStep(t) PROVE state_'[c] # "kConnecting"
  BY <1>7 DEF CallerStep, hold, test, Goes, set, callLoop, release
<1> QED BY <1>4, <1>5, <1>6, <1>7 DEF Next

\* Other threads keep to connections that have been established.
LEMMA CallersNext == Typed /\ CallersOK /\ [Next]_vars => CallersOK'
<1> SUFFICES ASSUME Typed, CallersOK, [Next]_vars PROVE CallersOK'
  OBVIOUS
<1> USE NoneAssumption
<1>1. CASE UNCHANGED vars
  BY <1>1 DEF vars, callers, CallersOK
<1>2. ASSUME Next, caller' \in [Thread -> [op : {"none", "shutdown", "forceClose", "runInLoop",
                                                 "queueInLoop"}, conn : Conn \cup {None}]],
             \A t \in Thread : /\ caller'[t].op # "none" => caller'[t].conn # None
                               /\ \/ caller'[t].conn \in {caller[t].conn, None}
                                  \/ state_[caller'[t].conn] # "kConnecting"
      PROVE  CallersOK'
  <2>1. ASSUME NEW t \in Thread, caller'[t].conn # None
        PROVE  state_'[caller'[t].conn] # "kConnecting"
    <3>1. PICK c \in Conn : c = caller'[t].conn
      BY <1>2, <2>1
    <3>2. state_[c] # "kConnecting"
      BY <1>2, <2>1, <3>1 DEF CallersOK
    <3> QED BY <1>2, <3>1, <3>2, NotNewAgain
  <2> QED BY <1>2, <2>1 DEF CallersOK
<1>3. CASE Next /\ UNCHANGED caller
  BY <1>2, <1>3 DEF CallersOK
<1>4. ASSUME NEW t \in Thread, NEW r \in [op : {"none", "shutdown", "forceClose", "runInLoop",
                                                "queueInLoop"}, conn : Conn \cup {None}],
             Next, caller' = [caller EXCEPT ![t] = r], r.op # "none" => r.conn # None,
             r.conn \in {caller[t].conn, None} \/ state_[r.conn] # "kConnecting"
      PROVE  CallersOK'
  <2>1. caller' \in [Thread -> [op : {"none", "shutdown", "forceClose", "runInLoop",
                                      "queueInLoop"}, conn : Conn \cup {None}]]
    BY <1>4 DEF CallersOK
  <2>2. caller'[t] = r /\ \A u \in Thread : u # t => caller'[u] = caller[u]
    BY <1>4 DEF CallersOK
  <2> QED BY <1>2, <1>4, <2>1, <2>2 DEF CallersOK
<1>5. ASSUME NEW t \in Thread, CallerStep(t), Next PROVE CallersOK'
  <2> DEFINE Ops == {"none", "shutdown", "forceClose", "runInLoop", "queueInLoop"}
             S == [op : Ops, conn : Conn \cup {None}]
  <2>1. caller[t] \in S
    BY DEF CallersOK
  <2>2. ASSUME NEW op \in Ops, Moves(t, op), caller[t].conn # None PROVE CallersOK'
    <3>1. PICK r \in S : r = [caller[t] EXCEPT !.op = op]
      BY <2>1
    <3>2. r.conn = caller[t].conn
      BY <2>1, <3>1
    <3>3. caller' = [caller EXCEPT ![t] = r]
      BY <2>2, <3>1 DEF Moves
    <3> QED BY <1>4, <1>5, <2>2, <3>2, <3>3
  <2>3. ASSUME NEW c \in Conn, hold(t, c) PROVE CallersOK'
    <3>1. PICK r \in S : r = [caller[t] EXCEPT !.conn = c]
      BY <2>1
    <3>2. r.conn = c
      BY <2>1, <3>1
    <3>3. caller' = [caller EXCEPT ![t] = r] /\ state_[c] # "kConnecting"
      BY <2>3, <3>1 DEF hold
    <3> QED BY <1>4, <1>5, <3>2, <3>3
  <2>4. CASE release(t)
    <3>1. NoFunc \in S /\ NoFunc.op = "none" /\ NoFunc.conn = None
      BY DEF NoFunc
    <3> QED BY <1>4, <1>5, <2>4, <3>1 DEF release
  <2>5. ASSUME NEW op \in {"shutdown", "forceClose"}, test(t, op) PROVE CallersOK'
    BY <2>2, <2>5 DEF test
  <2>6. CASE set(t) \/ callLoop(t)
    <3>1. caller[t].conn # None
      BY <2>6 DEF set, callLoop, CallersOK
    <3> QED BY <2>2, <2>6, <3>1 DEF set, callLoop
  <2> QED BY <1>5, <2>3, <2>4, <2>5, <2>6 DEF CallerStep, Goes
<1> QED BY <1>1, <1>3, <1>5 DEF Next, callers

\* A kDisconnected that has been overwritten is not forgotten.
LEMMA OverwrittenStays == [Next]_vars /\ overwritten' = {} => overwritten = {}
BY DEF Next, CallerStep, hold, test, Goes, set, callLoop, release, vars, callers

-----------------------------------------------------------------------------
(* The functors.                                                            *)

\* The queues after a step that runs or queues functors: N are the new ones, with their
\* loops, and a functor that was run has no operation any more.
Grown(N) ==
    \A k \in Loop :
        /\ \A i \in Place(k)' : \/ At(k, i)'.op = "none"
                                \/ i \in Place(k) /\ At(k, i)' = At(k, i)
                                \/ i > Len(funcs_[k]) /\ <<k, At(k, i)'>> \in N
        /\ \A i \in 1 .. Len(funcs_[k]) : i \in Place(k)' /\ At(k, i)' = At(k, i)

\* The functor each loop runs stays, or has been run.
Ran == \A k \in Loop : func'[k] = func[k] \/ func'[k].op = "none"

\* Nothing is queued.
LEMMA GrownSame ==
    ASSUME Typed, UNCHANGED funcs_, Ran
    PROVE  Grown({})
<1> SUFFICES ASSUME NEW k \in Loop
             PROVE  /\ \A i \in Place(k)' : \/ At(k, i)'.op = "none"
                                            \/ i \in Place(k) /\ At(k, i)' = At(k, i)
                    /\ \A i \in 1 .. Len(funcs_[k]) : i \in Place(k)' /\ At(k, i)' = At(k, i)
  BY DEF Grown
<1>1. Len(funcs_[k]) \in Nat
  BY SMT DEF Typed
<1>2. func'[k] = func[k] \/ func'[k].op = "none"
  BY DEF Ran
<1> QED BY <1>1, <1>2, SMT DEF Place, At

\* A sequence of functors is queued in loop l.
LEMMA GrownConcat ==
    ASSUME Typed, NEW l \in Loop, NEW s \in Seq(Functor), Ran,
           funcs_' = [funcs_ EXCEPT ![l] = funcs_[l] \o s],
           NEW N, \A j \in 1 .. Len(s) : <<l, s[j]>> \in N
    PROVE  /\ Grown(N)
           /\ Place(l)' = 0 .. Len(funcs_[l]) + Len(s)
           /\ \A j \in 1 .. Len(s), i \in Nat : i = Len(funcs_[l]) + j => At(l, i)' = s[j]
<1> DEFINE q == funcs_[l]
<1>1. q \in Seq(Functor) /\ Len(q) \in Nat /\ Len(s) \in Nat
  BY SMT DEF Typed
<1>2. /\ Len(q \o s) = Len(q) + Len(s)
      /\ \A i \in 1 .. Len(q) : (q \o s)[i] = q[i]
      /\ \A j \in 1 .. Len(s) : (q \o s)[Len(q) + j] = s[j]
  BY <1>1, SeqConcat, SMT
<1>3. funcs_'[l] = q \o s /\ \A k \in Loop : k # l => funcs_'[k] = funcs_[k]
  BY DEF Typed
<1> HIDE DEF q
<1>4. \A i \in 1 .. Len(q) + Len(s) : i \in 1 .. Len(q) \/ \E j \in 1 .. Len(s) : i = Len(q) + j
  <2> TAKE i \in 1 .. Len(q) + Len(s)
  <2>1. CASE i <= Len(q)
    BY <1>1, <2>1, SMT
  <2>2. CASE i > Len(q)
    <3>1. i - Len(q) \in 1 .. Len(s) /\ i = Len(q) + (i - Len(q))
      BY <1>1, <2>2, SMT
    <3> QED BY <3>1
  <2> QED BY <1>1, <2>1, <2>2, SMT
<1>5. Place(l)' = 0 .. Len(q) + Len(s) /\ Place(l) = 0 .. Len(q)
  BY <1>2, <1>3 DEF Place, q
<1>6. ASSUME NEW j \in 1 .. Len(s), NEW i \in Nat, i = Len(q) + j
      PROVE  At(l, i)' = s[j]
  <2>1. i # 0
    BY <1>1, <1>6, SMT
  <2>2. At(l, i)' = funcs_'[l][i]
    BY <2>1 DEF At
  <2> QED BY <1>2, <1>3, <1>6, <2>2
<1>7. \A i \in 1 .. Len(q) : i \in Place(l)' /\ At(l, i)' = At(l, i)
  <2> TAKE i \in 1 .. Len(q)
  <2>1. i # 0 /\ i \in Place(l)'
    BY <1>1, <1>5, SMT
  <2> QED BY <2>1, <1>2, <1>3 DEF At, q
<1>8. ASSUME NEW i \in Place(l)'
      PROVE  \/ At(l, i)'.op = "none"
             \/ i \in Place(l) /\ At(l, i)' = At(l, i)
             \/ i > Len(q) /\ <<l, At(l, i)'>> \in N
  <2>1. CASE i = 0
    <3>1. func'[l] = func[l] \/ func'[l].op = "none"
      BY DEF Ran
    <3> QED BY <1>1, <1>5, <2>1, <3>1, SMT DEF At
  <2>2. CASE i \in 1 .. Len(q)
    BY <1>1, <1>5, <1>7, <2>2, SMT
  <2>3. ASSUME NEW j \in 1 .. Len(s), i = Len(q) + j
        PROVE  i > Len(q) /\ <<l, At(l, i)'>> \in N
    <3>1. At(l, i)' = s[j]
      BY <1>1, <1>6, <2>3, SMT
    <3> QED BY <1>1, <2>3, <3>1, SMT
  <2>4. i = 0 \/ i \in 1 .. Len(q) + Len(s)
    BY <1>1, <1>5, SMT
  <2> QED BY <1>4, <2>1, <2>2, <2>3, <2>4
<1>9. ASSUME NEW k \in Loop, k # l
      PROVE  /\ \A i \in Place(k)' : \/ At(k, i)'.op = "none"
                                     \/ i \in Place(k) /\ At(k, i)' = At(k, i)
             /\ \A i \in 1 .. Len(funcs_[k]) : i \in Place(k)' /\ At(k, i)' = At(k, i)
  <2>1. Len(funcs_[k]) \in Nat /\ funcs_'[k] = funcs_[k]
    BY <1>3, <1>9, SMT DEF Typed
  <2>2. func'[k] = func[k] \/ func'[k].op = "none"
    BY DEF Ran
  <2>3. Place(k)' = 0 .. Len(funcs_[k]) /\ Place(k) = 0 .. Len(funcs_[k])
    BY <2>1 DEF Place
  <2>4. \A i \in 1 .. Len(funcs_[k]) : At(k, i)' = At(k, i)
    <3> TAKE i \in 1 .. Len(funcs_[k])
    <3>1. i # 0
      BY <2>1, SMT
    <3> QED BY <2>1, <3>1, SMT DEF At
  <2>5. At(k, 0)' = At(k, 0) \/ At(k, 0)'.op = "none"
    BY <2>2 DEF At
  <2> QED BY <2>1, <2>3, <2>4, <2>5, SMT
<1>10. Grown(N)
  <2> SUFFICES ASSUME NEW k \in Loop
               PROVE  /\ \A i \in Place(k)' : \/ At(k, i)'.op = "none"
                                              \/ i \in Place(k) /\ At(k, i)' = At(k, i)
                                              \/ i > Len(funcs_[k]) /\ <<k, At(k, i)'>> \in N
                      /\ \A i \in 1 .. Len(funcs_[k]) : i \in Place(k)' /\ At(k, i)' = At(k, i)
    BY DEF Grown
  <2>1. CASE k = l
    BY <1>7, <1>8, <2>1 DEF q
  <2>2. CASE k # l
    BY <1>9, <2>2
  <2> QED BY <2>1, <2>2
<1> QED BY <1>5, <1>6, <1>10 DEF q

\* One functor is queued in loop l.
LEMMA GrownQueue ==
    ASSUME Typed, NEW l \in Loop, NEW op \in Op, NEW c \in Conn, Ran, queueInLoop(l, op, c)
    PROVE  /\ Grown({<<l, [op |-> op, conn |-> c]>>})
           /\ Len(funcs_[l]) \in Nat
           /\ \A i \in Nat : i = Len(funcs_[l]) + 1
                              => i \in Place(l)' /\ At(l, i)' = [op |-> op, conn |-> c]
<1> DEFINE g == [op |-> op, conn |-> c]
<1>1. g \in Functor /\ <<g>> \in Seq(Functor) /\ Len(<<g>>) = 1 /\ <<g>>[1] = g
  BY SMT DEF Functor
<1> HIDE DEF g
<1>2. Append(funcs_[l], g) = funcs_[l] \o <<g>>
  BY <1>1, SMT DEF Typed
<1>3. funcs_' = [funcs_ EXCEPT ![l] = funcs_[l] \o <<g>>]
  BY <1>2 DEF queueInLoop, g
<1> DEFINE N == {<<l, g>>}
<1>4. \A j \in 1 .. Len(<<g>>) : <<l, <<g>>[j]>> \in N
  <2>1. \A j \in 1 .. 1 : j = 1
    BY SMT
  <2> QED BY <1>1, <2>1
<1> HIDE DEF N
<1>5. /\ Grown(N)
      /\ Place(l)' = 0 .. Len(funcs_[l]) + Len(<<g>>)
      /\ \A j \in 1 .. Len(<<g>>), i \in Nat : i = Len(funcs_[l]) + j => At(l, i)' = <<g>>[j]
  BY <1>1, <1>3, <1>4, GrownConcat
<1>6. Len(funcs_[l]) \in Nat
  BY SMT DEF Typed
<1>7. \A i \in Nat : i = Len(funcs_[l]) + 1 => i \in Place(l)' /\ At(l, i)' = g
  BY <1>1, <1>5, <1>6, SMT
<1> QED BY <1>5, <1>6, <1>7 DEF g, N

\* A queued functor stays.
LEMMA HasGrown ==
    ASSUME Typed, Typed', NEW N, Grown(N), NEW l \in Loop, NEW op \in Op, NEW c,
           Has(l, op, c), func'[l] = func[l] \/ ~Is(l, 0, op, c)
    PROVE  Has(l, op, c)'
<1>1. PICK i \in Place(l) : Is(l, i, op, c)
  BY DEF Has
<1>2. Len(funcs_[l]) \in Nat /\ Len(funcs_'[l]) \in Nat
  BY SMT DEF Typed
<1>3. i = 0 \/ i \in 1 .. Len(funcs_[l])
  BY <1>2, SMT DEF Place
<1>4. CASE i = 0
  <2>1. At(l, 0)' = At(l, 0)
    BY <1>1, <1>4 DEF At
  <2>2. 0 \in Place(l)'
    BY <1>2, SMT DEF Place
  <2> QED BY <1>1, <1>4, <2>1, <2>2 DEF Has, Is
<1>5. CASE i \in 1 .. Len(funcs_[l])
  <2>1. i \in Place(l)' /\ At(l, i)' = At(l, i)
    BY <1>5 DEF Grown
  <2> QED BY <1>1, <2>1 DEF Has, Is
<1> QED BY <1>3, <1>4, <1>5

\* What a functor holds is referenced.
LEMMA HasReferenced ==
    ASSUME Typed, NEW l \in Loop, NEW op, NEW c, Has(l, op, c)
    PROVE  Referenced(c)
<1>1. PICK i \in Place(l) : Is(l, i, op, c)
  BY DEF Has
<1>2. i = 0 \/ i \in 1 .. Len(funcs_[l])
  BY SMT DEF Place, Typed
<1>3. InFunctor(c, l)
  BY <1>1, <1>2 DEF Is, At, InFunctor
<1> QED BY <1>3 DEF Referenced

\* A functor that has an operation has a connection.
LEMMA FunctorTyped ==
    ASSUME Typed, NEW l \in Loop, NEW i \in Place(l), At(l, i).op # "none"
    PROVE  At(l, i).conn \in Conn /\ At(l, i).op \in Op
<1>1. i = 0 \/ i \in 1 .. Len(funcs_[l])
  BY SMT DEF Place, Typed
<1>2. CASE i = 0
  BY <1>2 DEF At, Typed
<1>3. CASE i \in 1 .. Len(funcs_[l])
  <2>1. funcs_[l][i] \in Functor
    BY <1>3, SeqElement DEF Typed
  <2>2. i # 0
    BY <1>3, SMT DEF Typed
  <2> QED BY <2>1, <2>2 DEF At, Functor
<1> QED BY <1>1, <1>2, <1>3

\* The functors stay in order.
LEMMA FunctorsGrown ==
    ASSUME Typed, Typed', FunctorsOK, NEW N, Grown(N),
           \A c \in Conn :
              /\ Created(c) => loop_'[c] = loop_[c]
              /\ state_[c] # "kConnecting" => state_'[c] # "kConnecting"
              /\ state_[c] = "kDisconnected" => state_'[c] = "kDisconnected"
              /\ c \in connections_ =>
                    \/ c \in connections_' \/ state_'[c] # "kConnecting"
                    \/ \E j \in Place(loop_[c])' : /\ j > Len(funcs_[loop_[c]])
                                                   /\ Is(loop_[c], j, "connectDestroyed", c)',
           \A k \in Loop : \A i \in Place(k)' :
              i > Len(funcs_[k]) /\ At(k, i)'.op # "none" => FunctorOK(k, i)'
    PROVE  FunctorsOK'
<1> SUFFICES ASSUME NEW k \in Loop, NEW i \in Place(k)' PROVE FunctorOK(k, i)'
  BY DEF FunctorsOK
<1>1. CASE At(k, i)'.op = "none"
  BY <1>1 DEF FunctorOK
<1>2. CASE i > Len(funcs_[k]) /\ At(k, i)'.op # "none"
  BY <1>2
<1>3. CASE i \in Place(k) /\ At(k, i)' = At(k, i) /\ At(k, i)'.op # "none"
  <2>1. FunctorOK(k, i) /\ At(k, i).op # "none"
    BY <1>3 DEF FunctorsOK
  <2>2. At(k, i).conn \in Conn /\ Len(funcs_[k]) \in Nat
    BY <1>3, <2>1, FunctorTyped, SMT DEF Typed
  <2>3. k # None
    BY NoneAssumption
  <2>4. PICK c \in Conn : c = At(k, i).conn
    BY <2>2
  <2>5. At(k, i)'.conn = c /\ At(k, i)'.op = At(k, i).op
    BY <1>3, <2>4
  <2>6. At(k, i).op \in {"connectEstablished", "connectDestroyed", "forceCloseInLoop"}
           => loop_'[c] = k
    BY <2>1, <2>3, <2>4 DEF FunctorOK, Created
  <2>7. At(k, i).op = "removeConnectionInLoop" => loop_'[c] # None /\ state_'[c] = "kDisconnected"
    BY <2>1, <2>4 DEF FunctorOK, Created
  <2>8. ASSUME At(k, i).op = "connectEstablished"
        PROVE  /\ k # Base
               /\ \/ c \in connections_'
                  \/ state_'[c] # "kConnecting"
                  \/ \E j \in Place(k)' : j > i /\ Is(k, j, "connectDestroyed", c)'
    <3>1. loop_[c] = k /\ k # Base
      BY <2>1, <2>4, <2>8 DEF FunctorOK
    <3>2. CASE c \in connections_
      <4>1. \A j \in Place(k)' : j > Len(funcs_[k]) => j > i
        BY <1>3, <2>2, SMT DEF Place, Typed
      <4>2. CASE \E j \in Place(loop_[c])' : /\ j > Len(funcs_[loop_[c]])
                                             /\ Is(loop_[c], j, "connectDestroyed", c)'
        <5>1. Place(loop_[c])' = Place(k)' /\ \A j \in Place(k)' :
                 Is(loop_[c], j, "connectDestroyed", c)' => Is(k, j, "connectDestroyed", c)'
          BY <2>6, <2>8, <3>1 DEF Place, Is, At
        <5> QED BY <3>1, <4>1, <4>2, <5>1
      <4> QED BY <3>1, <3>2, <4>2
    <3>3. CASE state_[c] # "kConnecting"
      BY <3>1, <3>3
    <3>4. ASSUME NEW j \in Place(k), j > i, Is(k, j, "connectDestroyed", c)
          PROVE  j \in Place(k)' /\ Is(k, j, "connectDestroyed", c)'
      <4>1. j \in 1 .. Len(funcs_[k])
        BY <1>3, <2>2, <3>4, SMT DEF Place
      <4>2. j \in Place(k)' /\ At(k, j)' = At(k, j)
        BY <4>1 DEF Grown
      <4> QED BY <3>4, <4>2 DEF Is
    <3> QED BY <2>1, <2>4, <2>8, <3>1, <3>2, <3>3, <3>4 DEF FunctorOK
  <2> QED BY <2>5, <2>6, <2>7, <2>8 DEF FunctorOK
<1> QED BY <1>1, <1>2, <1>3 DEF Grown

-----------------------------------------------------------------------------
(* What holds as long as no assert has failed.                              *)

\* The types of what a connection has.
LEMMA ConnTypes ==
    ASSUME Typed
    PROVE  /\ fd \in [Conn -> Fd \cup {None}]
           /\ loop_ \in [Conn -> Loop \cup {None}]
           /\ state_ \in [Conn -> {"kConnecting", "kConnected", "kDisconnecting", "kDisconnected"}]
           /\ events_ \in [Conn -> BOOLEAN]
           /\ index_ \in [Conn -> {"kNew", "kAdded", "kDeleted"}]
BY DEF Typed

\* The types of what a loop is busy with.
LEMMA LoopTypes ==
    ASSUME Typed
    PROVE  active \in [Loop -> SUBSET Conn] /\ closing \in [Loop -> Conn \cup {None}]
BY DEF Typed

\* What a loop has registered is a connection.
LEMMA ChannelTypes ==
    ASSUME Typed, NEW l \in Loop, NEW f \in Fd, channels_[l][f] # None
    PROVE  channels_[l][f] \in Conn
<1>1. channels_ \in [Loop -> [Fd -> Conn \cup {None}]]
  BY DEF Typed
<1> QED BY <1>1

\* A place beyond the old end of a queue is new.
LEMMA NewPlace ==
    ASSUME Typed, Typed', NEW k \in Loop, NEW i, i \in Place(k)', i > Len(funcs_[k])
    PROVE  ~(i \in Place(k)) /\ i # 0 /\ i \in 1 .. Len(funcs_'[k])
<1>1. funcs_ \in [Loop -> Seq(Functor)] /\ funcs_' \in [Loop -> Seq(Functor)]
  BY DEF Typed
<1>2. Len(funcs_[k]) \in Nat /\ Len(funcs_'[k]) \in Nat
  BY <1>1, SMT
<1>3. i \in 0 .. Len(funcs_'[k])
  BY DEF Place
<1>4. i \notin 0 .. Len(funcs_[k])
  BY <1>2, <1>3, SMT
<1> QED BY <1>2, <1>3, <1>4, SMT DEF Place

\* A queue that does not change has no new place.
LEMMA SamePlace ==
    ASSUME Typed, UNCHANGED funcs_
    PROVE  \A k \in Loop : \A i \in Place(k)' : ~(i > Len(funcs_[k]))
<1> SUFFICES ASSUME NEW k \in Loop, NEW i \in Place(k)' PROVE ~(i > Len(funcs_[k]))
  OBVIOUS
<1>1. funcs_ \in [Loop -> Seq(Functor)]
  BY DEF Typed
<1>2. Len(funcs_[k]) \in Nat
  BY <1>1, SMT
<1>3. i \in 0 .. Len(funcs_[k])
  BY DEF Place
<1> QED BY <1>2, <1>3, SMT

\* A loop that runs a functor or closes a connection is not elsewhere.
LEMMA Idle ==
    ASSUME Typed, General, NEW l \in Loop
    PROVE  /\ phase[l] \notin {"events", "functors"} => closing[l] = None
           /\ phase[l] # "functors" => func[l].op = "none"
           /\ phase[l] # "events" => active[l] = {}
           /\ func[l].op # "none" => closing[l] = None
<1>1. LoopOK(l)
  BY DEF General, LoopsOK
<1> QED BY <1>1 DEF LoopOK

\* A connection that is created has its fd and its loop.
LEMMA Placed ==
    ASSUME Typed, General, NEW c \in Conn, Created(c)
    PROVE  loop_[c] \in Loop /\ fd[c] \in Fd
<1>1. ConnOK(c)
  BY DEF General, ConnsOK
<1> QED BY <1>1, SMT DEF ConnOK, Created, Typed

\* A registered connection is referenced.
LEMMA RegisteredReferenced ==
    ASSUME Typed, General, NEW l \in Loop, NEW f \in Fd, channels_[l][f] # None
    PROVE  /\ Referenced(channels_[l][f]) /\ ~Freed(channels_[l][f])
           /\ channels_[l][f] \in Conn
<1> DEFINE c == channels_[l][f]
<1>1. ChannelOK(l, f)
  BY DEF General, ChannelsOK
<1>2. c \in connections_ \/ closing[l] = c \/ Has(l, "connectDestroyed", c)
  BY <1>1 DEF ChannelOK
<1>3. c \in Conn
  BY SMT DEF Typed
<1> HIDE DEF c
<1>4. Referenced(c)
  BY <1>2, HasReferenced DEF Referenced
<1> QED BY <1>3, <1>4 DEF Freed, c

\* A step that changes no connection and drops no connectDestroyed.
LEMMA Frame ==
    ASSUME Typed, Typed', General,
           UNCHANGED <<connections_, fd, loop_, state_, chan, closing>>,
           \A l \in Loop : phase'[l] # "stopped" => phase[l] # "stopped",
           \A l \in Loop, c \in Conn :
              Has(l, "connectDestroyed", c) => Has(l, "connectDestroyed", c)'
    PROVE  ConnsOK' /\ ChannelsOK'
<1>1. ASSUME NEW c \in Conn PROVE ConnOK(c)'
  <2>1. ConnOK(c)
    BY DEF General, ConnsOK
  <2>2. Created(c) => loop_[c] \in Loop
    BY SMT DEF Created, Typed
  <2> QED BY <2>1, <2>2 DEF ConnOK, Created, Up, chan
<1>2. ASSUME NEW l \in Loop, NEW f \in Fd PROVE ChannelOK(l, f)'
  <2>1. ChannelOK(l, f)
    BY DEF General, ChannelsOK
  <2>2. channels_[l][f] # None => channels_[l][f] \in Conn
    BY SMT DEF Typed
  <2> QED BY <2>1, <2>2 DEF ChannelOK, chan
<1> QED BY <1>1, <1>2 DEF ConnsOK, ChannelsOK

\* Only loop l moves, and it closes no connection.
LEMMA FrameLoops ==
    ASSUME Typed, Typed', General, NEW l \in Loop,
           UNCHANGED <<fd, loop_, state_, chan, closing>>,
           \A k \in Loop : k # l => phase'[k] = phase[k] /\ active'[k] = active[k]
                                    /\ func'[k] = func[k],
           closing[l] = None,
           phase'[l] # "events" => active'[l] = {},
           func'[l].op # "none" => phase'[l] = "functors"
    PROVE  LoopsOK'
<1> SUFFICES ASSUME NEW k \in Loop PROVE LoopOK(k)'
  BY DEF LoopsOK
<1>1. CASE k = l
  BY <1>1 DEF LoopOK
<1>2. CASE k # l
  <2>1. LoopOK(k)
    BY DEF General, LoopsOK
  <2>2. phase'[k] = phase[k] /\ active'[k] = active[k] /\ func'[k] = func[k] /\ closing'[k] = closing[k]
    BY <1>2
  <2> QED BY <2>1, <2>2 DEF LoopOK, chan
<1> QED BY <1>1, <1>2

\* Only loop l moves, and no functor is queued or taken.
LEMMA FrameQuiet ==
    ASSUME Typed, Typed', General, NEW l \in Loop,
           UNCHANGED <<connections_, fd, loop_, state_, chan, closing, funcs_, server>>,
           \A k \in Loop : k # l => phase'[k] = phase[k] /\ active'[k] = active[k]
                                    /\ func'[k] = func[k],
           phase[l] # "stopped", closing[l] = None,
           phase'[l] # "events" => active'[l] = {},
           func'[l].op = "none",
           func[l].op # "connectDestroyed",
           \A c \in active'[l] : c \in active[l] \/ ActiveOK(l, c)
    PROVE  General'
<1>1. LoopsOK'
  BY FrameLoops
<1>2. Ran
  BY DEF Ran
<1>3. Grown({})
  BY <1>2, GrownSame
<1>4. ConnsOK' /\ ChannelsOK'
  <2>1. \A k \in Loop : phase'[k] # "stopped" => phase[k] # "stopped"
    OBVIOUS
  <2>2. ASSUME NEW k \in Loop, NEW c \in Conn, Has(k, "connectDestroyed", c)
        PROVE  Has(k, "connectDestroyed", c)'
    <3>1. func'[k] = func[k] \/ ~Is(k, 0, "connectDestroyed", c)
      BY DEF Is, At
    <3> QED BY <2>2, <1>3, <3>1, HasGrown DEF Op
  <2> QED BY <2>1, <2>2, Frame
<1>5. FunctorsOK'
  <2>1. \A k \in Loop : \A i \in Place(k)' : ~(i > Len(funcs_[k]))
    BY SMT DEF Place, Typed
  <2> QED BY <1>3, <2>1, FunctorsGrown DEF General
<1>6. ActivesOK'
  <2> SUFFICES ASSUME NEW k \in Loop, NEW c \in active'[k] PROVE ActiveOK(k, c)'
    BY DEF ActivesOK
  <2>1. ActiveOK(k, c)
    BY DEF General, ActivesOK
  <2> QED BY <2>1 DEF ActiveOK, Up, chan
<1>7. server' # "alive" => phase'[Base] = "stopped"
  BY NextLoop DEF General
<1> QED BY <1>1, <1>4, <1>5, <1>6, <1>7 DEF General

\* The poller reports only connections that are registered.
LEMMA GeneralPoll ==
    ASSUME Typed, Typed', General, NEW l \in Loop, NEW A \in SUBSET Conn, poll(l, A)
    PROVE  General'
<1>1. /\ phase[l] = "poll" /\ phase' = [phase EXCEPT ![l] = "events"]
      /\ active' = [active EXCEPT ![l] = A]
      /\ \A c \in A : loop_[c] = l /\ events_[c] /\ index_[c] = "kAdded"
      /\ UNCHANGED <<connections_, fd, loop_, state_, chan, closing, funcs_, server, func>>
  BY DEF poll, serverVars
<1>2. closing[l] = None /\ func[l].op = "none"
  BY <1>1, Idle
<1>3. ASSUME NEW c \in A PROVE ActiveOK(l, c)
  <2>1. ConnOK(c) /\ loop_[c] = l /\ events_[c]
    BY <1>1 DEF General, ConnsOK
  <2> QED BY <1>1, <2>1 DEF ConnOK, ActiveOK
<1>4. /\ active'[l] = A /\ phase'[l] = "events"
      /\ \A k \in Loop : k # l => phase'[k] = phase[k] /\ active'[k] = active[k]
  BY <1>1, SMT DEF Typed
<1> QED BY <1>1, <1>2, <1>3, <1>4, FrameQuiet

\* The round of events ends.
LEMMA GeneralEventsDone ==
    ASSUME Typed, Typed', General, NEW l \in Loop, eventsDone(l)
    PROVE  General'
<1>1. /\ phase[l] = "events" /\ closing[l] = None /\ active[l] = {}
      /\ phase' = [phase EXCEPT ![l] = "functors"]
      /\ UNCHANGED <<connections_, fd, loop_, state_, chan, closing, funcs_, server, func, active>>
  BY DEF eventsDone, serverVars
<1>2. func[l].op = "none"
  BY <1>1, Idle
<1>3. \A k \in Loop : k # l => phase'[k] = phase[k]
  BY <1>1, SMT DEF Typed
<1> QED BY <1>1, <1>2, <1>3, FrameQuiet

\* A functor that has nothing to do ends.
LEMMA GeneralSkip ==
    ASSUME Typed, Typed', General, NEW l \in Loop, Runs(l, "forceCloseInLoop"),
           UNCHANGED <<serverVars, state_, chan, funcs_, closing, destroys, failed>>
    PROVE  General'
<1>1. /\ func[l].op = "forceCloseInLoop" /\ func' = [func EXCEPT ![l].op = "none"]
      /\ UNCHANGED <<connections_, fd, loop_, state_, chan, closing, funcs_, server, phase, active>>
  BY DEF Runs, serverVars
<1>2. phase[l] = "functors" /\ closing[l] = None /\ active[l] = {}
  BY <1>1, Idle
<1>3. func'[l].op = "none" /\ \A k \in Loop : k # l => func'[k] = func[k]
  BY <1>1, SMT DEF Typed
<1> QED BY <1>1, <1>2, <1>3, FrameQuiet

\* The queue moves up by one place, the first functor into the loop's hands.
LEMMA Taken ==
    ASSUME Typed, Typed', NEW l \in Loop, takeFunctor(l), funcs_[l] # <<>>
    PROVE  /\ Len(funcs_[l]) \in Nat \ {0} /\ Len(funcs_'[l]) = Len(funcs_[l]) - 1
           /\ \A i \in Place(l)' : i + 1 \in Place(l) /\ At(l, i)' = At(l, i + 1)
           /\ \A i \in Place(l) : i # 0 => i - 1 \in Place(l)' /\ At(l, i - 1)' = At(l, i)
           /\ At(l, 0).op = "none"
           /\ \A k \in Loop : k # l => funcs_'[k] = funcs_[k] /\ func'[k] = func[k]
<1> DEFINE q == funcs_[l]
<1>1. /\ func' = [func EXCEPT ![l] = Head(q)] /\ funcs_' = [funcs_ EXCEPT ![l] = Tail(q)]
      /\ func[l].op = "none"
  BY DEF takeFunctor
<1>2. q \in Seq(Functor) /\ q # <<>>
  BY DEF Typed
<1>3. func'[l] = Head(q) /\ funcs_'[l] = Tail(q)
  BY <1>1, SMT DEF Typed
<1> HIDE DEF q
<1>4. /\ Len(q) \in Nat \ {0} /\ Len(Tail(q)) = Len(q) - 1 /\ Head(q) = q[1]
      /\ \A i \in 1 .. Len(Tail(q)) : Tail(q)[i] = q[i + 1]
  BY <1>2, SeqTail, SMT
<1>5. Place(l) = 0 .. Len(q) /\ Place(l)' = 0 .. Len(q) - 1
  BY <1>3, <1>4 DEF Place, q
<1>6. ASSUME NEW i \in 0 .. Len(q) - 1 PROVE At(l, i)' = At(l, i + 1)
  <2>1. At(l, i + 1) = q[i + 1]
    BY <1>4, SMT DEF At, q
  <2>2. CASE i = 0
    BY <1>3, <1>4, <2>1, <2>2, SMT DEF At
  <2>3. CASE i # 0
    <3>1. i \in 1 .. Len(Tail(q))
      BY <1>4, <2>3, SMT
    <3> QED BY <1>3, <1>4, <2>1, <2>3, <3>1 DEF At
  <2> QED BY <2>2, <2>3
<1>7. \A i \in Place(l)' : i + 1 \in Place(l) /\ At(l, i)' = At(l, i + 1)
  BY <1>4, <1>5, <1>6, SMT
<1>8. ASSUME NEW i \in Place(l), i # 0
      PROVE  i - 1 \in Place(l)' /\ At(l, i - 1)' = At(l, i)
  <2>1. i - 1 \in 0 .. Len(q) - 1 /\ (i - 1) + 1 = i
    BY <1>4, <1>5, <1>8, SMT
  <2> DEFINE j == i - 1
  <2> HIDE DEF j
  <2>2. At(l, j)' = At(l, j + 1)
    BY <1>6, <2>1 DEF j
  <2> QED BY <1>5, <2>1, <2>2 DEF j
<1>9. At(l, 0).op = "none"
  BY <1>1 DEF At
<1>10. \A k \in Loop : k # l => funcs_'[k] = funcs_[k] /\ func'[k] = func[k]
  BY <1>1, SMT DEF Typed
<1> QED BY <1>3, <1>4, <1>7, <1>8, <1>9, <1>10 DEF q

\* Taking a functor leaves the others in order.
LEMMA GeneralTake ==
    ASSUME Typed, Typed', General, NEW l \in Loop, takeFunctor(l)
    PROVE  General'
<1>1. /\ phase[l] = "functors" /\ closing[l] = None /\ func[l].op = "none"
      /\ UNCHANGED <<connections_, fd, loop_, state_, chan, closing, server, active>>
  BY DEF takeFunctor, serverVars
<1>2. active[l] = {}
  BY <1>1, Idle
<1>3. CASE funcs_[l] = <<>>
  <2>1. /\ phase' = [phase EXCEPT ![l] = "test"] /\ func' = [func EXCEPT ![l] = NoFunc]
        /\ UNCHANGED funcs_
    BY <1>3 DEF takeFunctor
  <2>2. /\ phase'[l] = "test" /\ func'[l].op = "none"
        /\ \A k \in Loop : k # l => phase'[k] = phase[k] /\ func'[k] = func[k]
    BY <2>1, SMT DEF Typed, NoFunc
  <2> QED BY <1>1, <1>2, <2>1, <2>2, FrameQuiet
<1>4. CASE funcs_[l] # <<>>
  <2>1. UNCHANGED phase
    BY <1>4 DEF takeFunctor
  <2>2. /\ Len(funcs_[l]) \in Nat \ {0} /\ Len(funcs_'[l]) = Len(funcs_[l]) - 1
        /\ \A i \in Place(l)' : i + 1 \in Place(l) /\ At(l, i)' = At(l, i + 1)
        /\ \A i \in Place(l) : i # 0 => i - 1 \in Place(l)' /\ At(l, i - 1)' = At(l, i)
        /\ At(l, 0).op = "none"
        /\ \A k \in Loop : k # l => funcs_'[k] = funcs_[k] /\ func'[k] = func[k]
    BY <1>4, Taken
  <2>3. \A k \in Loop : k # l => Place(k)' = Place(k) /\ \A i \in Place(k) : At(k, i)' = At(k, i)
    BY <2>2 DEF Place, At
  <2>4. LoopsOK'
    BY <1>1, <1>2, <2>1, <2>2, FrameLoops
  <2>5. ASSUME NEW k \in Loop, NEW c \in Conn, Has(k, "connectDestroyed", c)
        PROVE  Has(k, "connectDestroyed", c)'
    <3>1. PICK i \in Place(k) : Is(k, i, "connectDestroyed", c)
      BY <2>5 DEF Has
    <3>2. CASE k # l
      BY <2>3, <3>1, <3>2 DEF Has, Is
    <3>3. CASE k = l
      <4>1. i # 0
        BY <2>2, <3>1, <3>3 DEF Is
      <4>2. i - 1 \in Place(l)' /\ At(l, i - 1)' = At(l, i)
        BY <2>2, <3>3, <4>1
      <4> DEFINE j == i - 1
      <4> HIDE DEF j
      <4>3. j \in Place(l)' /\ Is(l, j, "connectDestroyed", c)'
        BY <3>1, <3>3, <4>2 DEF Is, j
      <4> QED BY <3>3, <4>3 DEF Has
    <3> QED BY <3>2, <3>3
  <2>6. ConnsOK' /\ ChannelsOK'
    BY <1>1, <2>1, <2>5, Frame
  <2>7. ASSUME NEW k \in Loop, NEW i \in Place(k)' PROVE FunctorOK(k, i)'
    <3>1. CASE k # l
      <4>1. FunctorOK(k, i)
        BY <2>3, <3>1 DEF General, FunctorsOK
      <4>2. At(k, i)' = At(k, i) /\ Place(k)' = Place(k)
        BY <2>3, <3>1
      <4>3. \A j \in Place(k) : Is(k, j, "connectDestroyed", At(k, i).conn)
                                => Is(k, j, "connectDestroyed", At(k, i).conn)'
        BY <2>3, <3>1, <4>2 DEF Is
      <4> QED BY <1>1, <4>1, <4>2, <4>3 DEF FunctorOK
    <3>2. CASE k = l
      <4> DEFINE m == i + 1
      <4>1. m \in Place(l) /\ At(l, i)' = At(l, m)
        BY <2>2, <3>2
      <4>2. FunctorOK(l, m)
        BY <4>1 DEF General, FunctorsOK
      <4>3. ASSUME NEW j \in Place(l), j > m, Is(l, j, "connectDestroyed", At(l, m).conn)
            PROVE  \E n \in Place(l)' : n > i /\ Is(l, n, "connectDestroyed", At(l, i).conn)'
        <5> DEFINE n == j - 1
        <5>1. i \in Nat /\ j \in Nat
          BY <2>2, <3>2, SMT DEF Place
        <5>2. j # 0 /\ n > i
          BY <5>1, <4>3, SMT
        <5>3. n \in Place(l)' /\ At(l, n)' = At(l, j)
          BY <2>2, <5>2
        <5> HIDE DEF n, m
        <5>4. Is(l, n, "connectDestroyed", At(l, i).conn)'
          BY <4>1, <4>3, <5>3 DEF Is
        <5> QED BY <5>2, <5>3, <5>4
      <4> HIDE DEF m
      <4> QED BY <1>1, <3>2, <4>1, <4>2, <4>3 DEF FunctorOK
    <3> QED BY <3>1, <3>2
  <2>8. ActivesOK'
    BY <1>1, SMT DEF General, ActivesOK, ActiveOK, Up, chan
  <2> QED BY <1>1, <2>1, <2>4, <2>6, <2>7, <2>8 DEF General, FunctorsOK
<1> QED BY <1>3, <1>4

\* A loop that has ended loses its poller and its functors.
LEMMA GeneralDispose ==
    ASSUME Typed, Typed', General, NEW l \in Loop, Dispose(l),
           phase[l] \in {"test", "stopped"}, phase'[l] = "stopped",
           \A k \in Loop : k # l => phase'[k] = phase[k],
           UNCHANGED <<connections_, fd, loop_, state_, events_, index_, func, active, closing>>,
           server' # "alive" => phase'[Base] = "stopped"
    PROVE  General'
<1>1. closing[l] = None /\ func[l].op = "none" /\ active[l] = {}
  BY Idle
<1>2. /\ funcs_'[l] = <<>> /\ \A f \in Fd : channels_'[l][f] = None
      /\ \A k \in Loop : k # l => funcs_'[k] = funcs_[k] /\ channels_'[k] = channels_[k]
  BY SMT DEF Dispose, Typed
<1>3. ASSUME NEW k \in Loop PROVE LoopOK(k)'
  <2>1. LoopOK(k)
    BY DEF General, LoopsOK
  <2> QED BY <1>1, <1>2, <2>1 DEF LoopOK
<1>4. ASSUME NEW k \in Loop, NEW i \in Place(k)' PROVE FunctorOK(k, i)'
  <2>1. CASE k = l
    <3>1. i = 0
      BY <1>2, <2>1, SMT DEF Place
    <3> QED BY <1>1, <2>1, <3>1 DEF FunctorOK, At
  <2>2. CASE k # l
    <3>1. Place(k)' = Place(k) /\ \A j \in Place(k) : At(k, j)' = At(k, j)
      BY <1>2, <2>2 DEF Place, At
    <3>2. FunctorOK(k, i)
      BY <3>1 DEF General, FunctorsOK
    <3> QED BY <3>1, <3>2, SMT DEF FunctorOK, Is
  <2> QED BY <2>1, <2>2
<1>5. ASSUME NEW c \in Conn PROVE ConnOK(c)'
  <2>1. ConnOK(c) /\ (Created(c) => loop_[c] \in Loop)
    BY SMT DEF General, ConnsOK, Created, Typed
  <2> QED BY <1>2, <2>1 DEF ConnOK, Created, Up
<1>6. ASSUME NEW k \in Loop, NEW f \in Fd PROVE ChannelOK(k, f)'
  <2>1. CASE k = l
    BY <1>2, <2>1 DEF ChannelOK
  <2>2. CASE k # l
    <3>1. Place(k)' = Place(k) /\ \A j \in Place(k) : At(k, j)' = At(k, j)
      BY <1>2, <2>2 DEF Place, At
    <3>2. ChannelOK(k, f)
      BY DEF General, ChannelsOK
    <3> QED BY <1>2, <2>2, <3>1, <3>2, SMT DEF ChannelOK, Has, Is
  <2> QED BY <2>1, <2>2
<1>7. ASSUME NEW k \in Loop, NEW c \in active'[k] PROVE ActiveOK(k, c)'
  <2>1. ActiveOK(k, c) /\ k # l
    BY <1>1 DEF General, ActivesOK
  <2> QED BY <1>2, <2>1 DEF ActiveOK, Up
<1> QED BY <1>3, <1>4, <1>5, <1>6, <1>7 DEF General, LoopsOK, FunctorsOK, ConnsOK, ChannelsOK,
                                           ActivesOK

\* The test of quit_.
LEMMA GeneralTestQuit ==
    ASSUME Typed, Typed', General, NEW l \in Loop, testQuit(l)
    PROVE  General'
<1>1. /\ phase[l] = "test"
      /\ UNCHANGED <<connections_, fd, loop_, state_, events_, index_, closing, server, func, active>>
  BY DEF testQuit, serverVars
<1>2. closing[l] = None /\ func[l].op = "none" /\ active[l] = {}
  BY <1>1, Idle
<1>3. CASE UNCHANGED <<funcs_, channels_>>
  <2>1. \A k \in Loop : k # l => phase'[k] = phase[k]
    BY SMT DEF testQuit, Typed
  <2> QED BY <1>1, <1>2, <1>3, <2>1, FrameQuiet DEF chan
<1>4. CASE l # Base /\ phase' = [phase EXCEPT ![l] = "stopped"] /\ Dispose(l)
  <2>1. phase'[l] = "stopped" /\ \A k \in Loop : k # l => phase'[k] = phase[k]
    BY <1>4, SMT DEF Typed
  <2>2. server' # "alive" => phase'[Base] = "stopped"
    BY <1>1, <1>4, <2>1, NextLoop DEF General
  <2> QED BY <1>1, <1>4, <2>1, <2>2, GeneralDispose
<1> QED BY <1>3, <1>4 DEF testQuit

\* The steps of ~TcpServer besides the loop over connections_.
LEMMA GeneralServer ==
    ASSUME Typed, Typed', General, destroyServer \/ resetThreadPool \/ joined
    PROVE  General'
<1>1. CASE destroyServer \/ resetThreadPool
  <2>1. /\ UNCHANGED <<connections_, fd, loop_, state_, chan, funcs_, loops>>
        /\ phase[Base] = "stopped"
    BY <1>1 DEF destroyServer, resetThreadPool, General
  <2>2. LoopsOK' /\ FunctorsOK'
    <3>1. UNCHANGED <<phase, active, closing, func, funcs_, index_, events_, channels_>>
      BY <2>1 DEF chan, loops
    <3>2. LoopsOK'
      BY <2>1, <3>1, SMT DEF General, LoopsOK, LoopOK
    <3>3. FunctorsOK'
      BY <2>1, <3>1, SMT DEF General, FunctorsOK, FunctorOK, Place, At, Is
    <3> QED BY <3>2, <3>3
  <2>3. ConnsOK' /\ ChannelsOK'
    <3>1. \A l \in Loop, c \in Conn : Has(l, "connectDestroyed", c) => Has(l, "connectDestroyed", c)'
      BY <2>1 DEF Has, Is, At, Place, loops
    <3> QED BY <2>1, <3>1, Frame DEF loops
  <2>4. ActivesOK'
    BY <2>1, SMT DEF General, ActivesOK, ActiveOK, Up, chan, loops
  <2> QED BY <2>1, <2>2, <2>3, <2>4 DEF General, loops
<1>2. CASE joined
  <2>1. phase[Base] = "stopped" /\ Base \in Loop
    BY <1>2, NextLoop DEF joined
  <2> QED BY <1>2, <2>1, GeneralDispose DEF joined, loops
<1> QED BY <1>1, <1>2

-----------------------------------------------------------------------------
\* What connectEstablished does when its asserts hold.
Established(c, l, f) ==
    /\ state_[c] = "kConnecting" /\ channels_[l][f] = None
    /\ \A d \in Conn : /\ state_'[d] = IF d = c THEN "kConnected" ELSE state_[d]
                       /\ events_'[d] = IF d = c THEN TRUE ELSE events_[d]
                       /\ index_'[d] = IF d = c THEN "kAdded" ELSE index_[d]
    /\ \A k \in Loop, g \in Fd :
          channels_'[k][g] = IF k = l /\ g = f THEN c ELSE channels_[k][g]

\* connectEstablished, its asserts holding.
LEMMA EstablishedEffect ==
    ASSUME Typed, NEW c \in Conn, NEW l \in Loop, NEW f \in Fd, connectEstablished(c, l, f),
           failed' = None
    PROVE  Established(c, l, f)
<1>1. /\ state_[c] = "kConnecting" /\ state_' = [state_ EXCEPT ![c] = "kConnected"]
      /\ Register(c, l, f)
  BY NoneAssumption DEF connectEstablished
<1>2. /\ channels_[l][f] = None /\ channels_' = [channels_ EXCEPT ![l][f] = c]
      /\ index_' = [index_ EXCEPT ![c] = "kAdded"] /\ events_' = [events_ EXCEPT ![c] = TRUE]
  BY <1>1, NoneAssumption DEF Register
<1>3. \A k \in Loop, g \in Fd : channels_'[k][g] = IF k = l /\ g = f THEN c ELSE channels_[k][g]
  <2>1. \A k \in Loop : channels_'[k] = IF k = l THEN [channels_[l] EXCEPT ![f] = c] ELSE channels_[k]
    BY <1>2 DEF Typed
  <2>2. \A g \in Fd : [channels_[l] EXCEPT ![f] = c][g] = IF g = f THEN c ELSE channels_[l][g]
    BY SMT DEF Typed
  <2> QED BY <2>1, <2>2
<1>4. \A d \in Conn : /\ state_'[d] = IF d = c THEN "kConnected" ELSE state_[d]
                      /\ events_'[d] = IF d = c THEN TRUE ELSE events_[d]
                      /\ index_'[d] = IF d = c THEN "kAdded" ELSE index_[d]
  BY <1>1, <1>2 DEF Typed
<1> QED BY <1>1, <1>2, <1>3, <1>4 DEF Established

\* A connection is established.
LEMMA GeneralEstablished ==
    ASSUME Typed, Typed', General, NEW c \in Conn, NEW l \in Loop, NEW f \in Fd,
           Established(c, l, f), fd'[c] = f, loop_'[c] = l,
           \A d \in Conn : d # c => fd'[d] = fd[d] /\ loop_'[d] = loop_[d],
           connections_ \subseteq connections_', connections_' \subseteq connections_ \cup {c},
           c \in connections_' \/ Has(l, "connectDestroyed", c)',
           UNCHANGED <<phase, active, closing, server>>, Ran,
           \A k \in Loop, d \in Conn :
              Has(k, "connectDestroyed", d) => Has(k, "connectDestroyed", d)',
           FunctorsOK'
    PROVE  General'
<1> USE NoneAssumption
<1>1. ASSUME NEW k \in Loop PROVE LoopOK(k)'
  <2>1. LoopOK(k)
    BY DEF General, LoopsOK
  <2>2. func'[k].op # "none" => func'[k] = func[k]
    BY DEF Ran
  <2>3. CASE closing[k] = None
    BY <2>1, <2>2, <2>3 DEF LoopOK
  <2>4. CASE closing[k] # None
    <3> DEFINE d == closing[k]
    <3>1. d \in Conn /\ d # c
      BY <2>1, <2>4, SMT DEF LoopOK, Established, Typed
    <3>2. loop_[d] = k /\ channels_[k][fd[d]] = d
      BY <2>1, <2>4 DEF LoopOK
    <3>3. fd[d] \in Fd /\ fd'[d] = fd[d] /\ loop_'[d] = k
      BY <3>1, <3>2, Placed DEF Created
    <3>4. channels_'[k][fd[d]] = d
      BY <3>1, <3>2, <3>3, SMT DEF Established
    <3>5. state_'[d] = state_[d] /\ events_'[d] = events_[d] /\ index_'[d] = index_[d]
      BY <3>1 DEF Established
    <3> HIDE DEF d
    <3> QED BY <2>1, <2>2, <2>4, <3>2, <3>3, <3>4, <3>5 DEF LoopOK, d
  <2> QED BY <2>3, <2>4
<1>2. ASSUME NEW d \in Conn PROVE ConnOK(d)'
  <2>1. CASE d = c
    BY <2>1 DEF ConnOK, Created, Up, Established
  <2>2. CASE d # c
    <3>1. ConnOK(d)
      BY DEF General, ConnsOK
    <3>2. /\ fd'[d] = fd[d] /\ loop_'[d] = loop_[d] /\ state_'[d] = state_[d]
          /\ events_'[d] = events_[d] /\ index_'[d] = index_[d]
          /\ d \in connections_' <=> d \in connections_
      BY <2>2 DEF Established
    <3>3. ASSUME Created(d), channels_[loop_[d]][fd[d]] = d
          PROVE  channels_'[loop_[d]][fd[d]] = d
      <4>1. loop_[d] \in Loop /\ fd[d] \in Fd
        BY <3>3, Placed
      <4> QED BY <3>3, <4>1, SMT DEF Established
    <3> QED BY <3>1, <3>2, <3>3 DEF ConnOK, Created, Up
  <2> QED BY <2>1, <2>2
<1>3. ASSUME NEW k \in Loop, NEW g \in Fd PROVE ChannelOK(k, g)'
  <2>1. CASE k = l /\ g = f
    BY <2>1 DEF ChannelOK, Established
  <2>2. CASE ~(k = l /\ g = f)
    <3> DEFINE d == channels_[k][g]
    <3>1. ChannelOK(k, g) /\ channels_'[k][g] = d
      BY <2>2, SMT DEF General, ChannelsOK, Established
    <3>2. CASE d = None
      BY <3>1, <3>2 DEF ChannelOK
    <3>3. CASE d # None
      <4>1. d \in Conn /\ d # c
        <5>1. d \in Conn
          BY <3>3, ChannelTypes
        <5> QED BY <3>1, <3>3, <5>1 DEF ChannelOK, Established
      <4>2. fd'[d] = fd[d] /\ loop_'[d] = loop_[d] /\ state_'[d] = state_[d]
        BY <4>1 DEF Established
      <4> HIDE DEF d
      <4> QED BY <3>1, <3>3, <4>1, <4>2 DEF ChannelOK, d
    <3> QED BY <3>2, <3>3
  <2> QED BY <2>1, <2>2
<1>4. ASSUME NEW k \in Loop, NEW d \in active'[k] PROVE ActiveOK(k, d)'
  <2>1. ActiveOK(k, d) /\ d \in Conn
    BY DEF General, ActivesOK, Typed
  <2>2. d # c /\ loop_[d] = k /\ Created(d)
    BY <2>1 DEF ActiveOK, Up, Established, Created
  <2>3. fd[d] \in Fd
    BY <2>1, <2>2, Placed
  <2>4. channels_[k][fd[d]] = d /\ Up(d)
    BY <2>1 DEF ActiveOK
  <2>5. channels_'[k][fd[d]] = d
    BY <2>1, <2>3, <2>4, SMT DEF Established
  <2>6. state_'[d] = state_[d] /\ fd'[d] = fd[d] /\ loop_'[d] = k
    BY <2>1, <2>2 DEF Established
  <2> QED BY <2>4, <2>5, <2>6 DEF ActiveOK, Up
<1> QED BY <1>1, <1>2, <1>3, <1>4 DEF General, LoopsOK, ConnsOK, ChannelsOK, ActivesOK

\* What connectDestroyed does when its asserts hold.
Destroyed(c) ==
    /\ channels_[loop_[c]][fd[c]] = c
    /\ \A d \in Conn : /\ state_'[d] = IF d = c THEN "kDisconnected" ELSE state_[d]
                       /\ events_'[d] = IF d = c THEN FALSE ELSE events_[d]
                       /\ index_'[d] = IF d = c THEN "kNew" ELSE index_[d]
    /\ \A k \in Loop, g \in Fd :
          channels_'[k][g] = IF k = loop_[c] /\ g = fd[c] THEN None ELSE channels_[k][g]

\* connectDestroyed, its asserts holding.
LEMMA DestroyedEffect ==
    ASSUME Typed, General, NEW c \in Conn, Created(c), connectDestroyed(c), failed' = None
    PROVE  Destroyed(c)
<1> USE NoneAssumption
<1>1. loop_[c] \in Loop /\ fd[c] \in Fd
  BY Placed
<1>2. PICK interest, index : /\ RemoveChannel(c, interest, index)
                             /\ state_[c] # "kConnected" => interest = events_[c]
  BY DEF connectDestroyed
<1>3. /\ ~interest /\ channels_[loop_[c]][fd[c]] = c
      /\ channels_' = [channels_ EXCEPT ![loop_[c]][fd[c]] = None]
      /\ index_' = [index_ EXCEPT ![c] = "kNew"] /\ events_' = [events_ EXCEPT ![c] = FALSE]
  BY <1>2 DEF RemoveChannel
<1>4. \A k \in Loop, g \in Fd :
         channels_'[k][g] = IF k = loop_[c] /\ g = fd[c] THEN None ELSE channels_[k][g]
  <2> DEFINE l == loop_[c]
             f == fd[c]
  <2> HIDE DEF l, f
  <2>0. l \in Loop /\ f \in Fd /\ channels_' = [channels_ EXCEPT ![l][f] = None]
    BY <1>1, <1>3 DEF l, f
  <2>1. \A k \in Loop : channels_'[k] = IF k = l THEN [channels_[l] EXCEPT ![f] = None]
                                              ELSE channels_[k]
    BY <2>0 DEF Typed
  <2>2. \A g \in Fd : [channels_[l] EXCEPT ![f] = None][g] = IF g = f THEN None ELSE channels_[l][g]
    BY <2>0 DEF Typed
  <2>3. \A k \in Loop, g \in Fd : channels_'[k][g] = IF k = l /\ g = f THEN None ELSE channels_[k][g]
    BY <2>0, <2>1, <2>2, SMT
  <2> QED BY <2>3 DEF l, f
<1>5. \A d \in Conn : state_'[d] = IF d = c THEN "kDisconnected" ELSE state_[d]
  <2>1. CASE state_[c] = "kConnected"
    BY <2>1, SMT DEF connectDestroyed, Typed
  <2>2. CASE state_[c] # "kConnected"
    <3>1. UNCHANGED state_
      BY <2>2 DEF connectDestroyed
    <3>2. ~events_[c]
      BY <1>2, <1>3, <2>2
    <3>3. ConnOK(c) /\ ChannelOK(loop_[c], fd[c])
      BY <1>1 DEF General, ConnsOK, ChannelsOK
    <3>4. state_[c] # "kConnecting"
      BY <1>3, <3>3 DEF ChannelOK
    <3>5. state_[c] = "kDisconnected"
      BY <3>2, <3>3, <3>4 DEF ConnOK, Up, Typed
    <3> QED BY <3>1, <3>5
  <2> QED BY <2>1, <2>2
<1>6. \A d \in Conn : /\ events_'[d] = IF d = c THEN FALSE ELSE events_[d]
                      /\ index_'[d] = IF d = c THEN "kNew" ELSE index_[d]
  BY <1>3 DEF Typed
<1> QED BY <1>3, <1>4, <1>5, <1>6 DEF Destroyed

\* A connection is destroyed, by the loop that has it.
LEMMA GeneralDestroyed ==
    ASSUME Typed, Typed', General, NEW c \in Conn, Created(c), Destroyed(c),
           c \notin active[loop_[c]],
           closing[loop_[c]] \in {c, None}, closing'[loop_[c]] = None,
           \A k \in Loop : k # loop_[c] => closing'[k] = closing[k],
           UNCHANGED <<fd, loop_, phase, active, server>>, Ran,
           connections_' \subseteq connections_, connections_ \ {c} \subseteq connections_',
           \A k \in Loop, d \in Conn :
              d # c /\ Has(k, "connectDestroyed", d) => Has(k, "connectDestroyed", d)',
           FunctorsOK'
    PROVE  General'
<1> USE NoneAssumption
<1> DEFINE l == loop_[c]
<1>a. l \in Loop /\ fd[c] \in Fd
  BY Placed
<1>1. ASSUME NEW k \in Loop PROVE LoopOK(k)'
  <2>1. LoopOK(k)
    BY DEF General, LoopsOK
  <2>2. func'[k].op # "none" => func'[k] = func[k]
    BY DEF Ran
  <2>3. CASE closing'[k] = None
    BY <2>1, <2>2, <2>3 DEF LoopOK
  <2>4. CASE closing'[k] # None
    <3> DEFINE d == closing[k]
    <3>1. closing'[k] = d /\ k # l /\ d # None
      BY <2>4
    <3>2. loop_[d] = k /\ channels_[k][fd[d]] = d /\ d \in Conn
      BY <2>1, <3>1 DEF LoopOK, Typed
    <3>3. d # c /\ fd[d] \in Fd
      BY <3>1, <3>2, Placed DEF Created
    <3>4. channels_'[k][fd[d]] = d
      BY <3>1, <3>2, <3>3 DEF Destroyed
    <3>5. state_'[d] = state_[d] /\ events_'[d] = events_[d] /\ index_'[d] = index_[d]
      BY <3>2, <3>3 DEF Destroyed
    <3> HIDE DEF d
    <3> QED BY <2>1, <2>2, <3>1, <3>2, <3>4, <3>5 DEF LoopOK, d
  <2> QED BY <2>3, <2>4
<1>2. ASSUME NEW d \in Conn PROVE ConnOK(d)'
  <2>0. ConnOK(d)
    BY DEF General, ConnsOK
  <2>1. CASE d = c
    BY <2>0, <2>1 DEF ConnOK, Created, Up, Destroyed
  <2>2. CASE d # c
    <3>1. /\ state_'[d] = state_[d] /\ events_'[d] = events_[d] /\ index_'[d] = index_[d]
          /\ d \in connections_' => d \in connections_
      BY <2>2 DEF Destroyed
    <3>2. ASSUME Created(d), channels_[loop_[d]][fd[d]] = d
          PROVE  channels_'[loop_[d]][fd[d]] = d
      <4>1. loop_[d] \in Loop /\ fd[d] \in Fd
        BY <3>2, Placed
      <4> QED BY <2>2, <3>2, <4>1, SMT DEF Destroyed
    <3> QED BY <2>0, <3>1, <3>2 DEF ConnOK, Created, Up
  <2> QED BY <2>1, <2>2
<1>3. ASSUME NEW k \in Loop, NEW g \in Fd PROVE ChannelOK(k, g)'
  <2>1. CASE k = l /\ g = fd[c]
    BY <2>1 DEF ChannelOK, Destroyed
  <2>2. CASE ~(k = l /\ g = fd[c])
    <3> DEFINE d == channels_[k][g]
    <3>1. ChannelOK(k, g) /\ channels_'[k][g] = d
      BY <2>2, SMT DEF General, ChannelsOK, Destroyed
    <3>2. CASE d = None
      BY <3>1, <3>2 DEF ChannelOK
    <3>3. CASE d # None
      <4>1. d \in Conn /\ loop_[d] = k /\ fd[d] = g /\ d # c
        <5>1. d \in Conn
          BY <3>3, ChannelTypes
        <5>2. loop_[d] = k /\ fd[d] = g
          BY <3>1, <3>3 DEF ChannelOK
        <5> QED BY <2>2, <5>1, <5>2
      <4>2. state_'[d] = state_[d] /\ (closing[k] = d => closing'[k] = d)
        <5>1. state_'[d] = state_[d]
          BY <4>1 DEF Destroyed
        <5>2. k = l => closing[k] # d
          BY <3>3, <4>1
        <5> QED BY <5>1, <5>2
      <4> HIDE DEF d
      <4> QED BY <3>1, <3>3, <4>1, <4>2 DEF ChannelOK, d
    <3> QED BY <3>2, <3>3
  <2> QED BY <2>1, <2>2
<1>4. ASSUME NEW k \in Loop, NEW d \in active'[k] PROVE ActiveOK(k, d)'
  <2>1. ActiveOK(k, d) /\ d \in Conn
    BY DEF General, ActivesOK, Typed
  <2>2. d # c /\ loop_[d] = k /\ Created(d)
    BY <2>1 DEF ActiveOK, Created
  <2>3. fd[d] \in Fd
    BY <2>1, <2>2, Placed
  <2> QED BY <2>1, <2>2, <2>3 DEF ActiveOK, Up, Destroyed
<1> QED BY <1>1, <1>2, <1>3, <1>4 DEF General, LoopsOK, ConnsOK, ChannelsOK, ActivesOK

\* handleClose up to connectDestroyed.
LEMMA GeneralClose ==
    ASSUME Typed, Typed', General, NEW l \in Loop, NEW c \in Conn, handleClose(l, c), failed' = None,
           Up(c), loop_[c] = l, closing[l] = None, phase[l] \in {"events", "functors"},
           phase[l] # "events" => active[l] = {},
           UNCHANGED phase, Ran, func'[l].op = "none", func[l].op # "connectDestroyed",
           \A k \in Loop : k # l => active'[k] = active[k] /\ func'[k] = func[k],
           active'[l] \subseteq active[l] \ {c}
    PROVE  General'
<1> USE NoneAssumption
<1>a. Created(c) /\ fd[c] \in Fd
  BY Placed DEF Created
<1>b. channels_[l][fd[c]] = c /\ index_[c] # "kNew"
  <2>1. ConnOK(c)
    BY DEF General, ConnsOK
  <2> QED BY <2>1 DEF ConnOK
<1>c. UNCHANGED <<channels_, fd, loop_, server>>
  BY <1>b DEF handleClose, Registers
<1>i. /\ state_' = [state_ EXCEPT ![c] = "kDisconnected"]
      /\ events_' = [events_ EXCEPT ![c] = FALSE]
      /\ index_' = [index_ EXCEPT ![c] = Disabled(c)]
      /\ closing' = [closing EXCEPT ![l] = c]
      /\ IF l = Base THEN removeConnectionInLoop(c) /\ UNCHANGED funcs_
         ELSE queueInLoop(Base, "removeConnectionInLoop", c) /\ UNCHANGED connections_
  BY <1>b DEF handleClose, Registers
<1>d. \A d \in Conn : /\ state_'[d] = IF d = c THEN "kDisconnected" ELSE state_[d]
                      /\ events_'[d] = IF d = c THEN FALSE ELSE events_[d]
                      /\ d # c => index_'[d] = index_[d]
  BY <1>i, ConnTypes, SMT
<1>e. index_'[c] # "kNew"
  BY <1>i, ConnTypes DEF Disabled
<1>f. closing'[l] = c /\ \A k \in Loop : k # l => closing'[k] = closing[k]
  BY <1>i, SMT DEF Typed
<1>g. connections_' \subseteq connections_ /\ connections_ \ {c} \subseteq connections_'
  BY <1>i DEF removeConnectionInLoop
<1>h. /\ \A k \in Loop, d \in Conn :
            Has(k, "connectDestroyed", d) => Has(k, "connectDestroyed", d)'
      /\ FunctorsOK'
  <2>1. \A d \in Conn : /\ Created(d) => loop_'[d] = loop_[d]
                        /\ state_[d] # "kConnecting" => state_'[d] # "kConnecting"
                        /\ state_[d] = "kDisconnected" => state_'[d] = "kDisconnected"
                        /\ d \in connections_ => d \in connections_' \/ state_'[d] # "kConnecting"
    BY <1>c, <1>d, <1>g
  <2>2. ASSUME NEW N, Grown(N), NEW k \in Loop, NEW d \in Conn, Has(k, "connectDestroyed", d)
        PROVE  Has(k, "connectDestroyed", d)'
    <3>1. func'[k] = func[k] \/ ~Is(k, 0, "connectDestroyed", d)
      BY DEF Is, At
    <3> QED BY <2>2, <3>1, HasGrown DEF Op
  <2>3. CASE l = Base
    <3>1. UNCHANGED funcs_
      BY <1>i, <2>3
    <3>2. Grown({})
      BY <3>1, GrownSame
    <3>3. \A k \in Loop : \A i \in Place(k)' : ~(i > Len(funcs_[k]))
      BY <3>1, SamePlace
    <3>4. FunctorsOK'
      BY <2>1, <3>2, <3>3, FunctorsGrown DEF General
    <3> QED BY <2>2, <3>2, <3>4
  <2>4. CASE l # Base
    <3> DEFINE g == [op |-> "removeConnectionInLoop", conn |-> c]
    <3>1. queueInLoop(Base, "removeConnectionInLoop", c) /\ Base \in Loop
      BY <1>i, <2>4, NextLoop
    <3>2. Grown({<<Base, g>>})
      BY <3>1, GrownQueue DEF Op
    <3>3. ASSUME NEW k \in Loop, NEW i \in Place(k)', i > Len(funcs_[k]), At(k, i)'.op # "none"
          PROVE  FunctorOK(k, i)'
      <4>1. ~(i \in Place(k))
        BY <3>3, NewPlace
      <4>2. At(k, i)' = g
        BY <3>2, <3>3, <4>1 DEF Grown
      <4>3. At(k, i)'.op = "removeConnectionInLoop" /\ At(k, i)'.conn = c
        <5>1. g.op = "removeConnectionInLoop" /\ g.conn = c
          OBVIOUS
        <5> HIDE DEF g
        <5> QED BY <4>2, <5>1
      <4>4. loop_'[c] # None /\ state_'[c] = "kDisconnected"
        BY <1>c, <1>d
      <4> QED BY <4>3, <4>4 DEF FunctorOK
    <3>4. FunctorsOK'
      BY <2>1, <3>2, <3>3, FunctorsGrown DEF General
    <3> QED BY <2>2, <3>2, <3>4
  <2> QED BY <2>3, <2>4
<1>1. ASSUME NEW k \in Loop PROVE LoopOK(k)'
  <2>1. LoopOK(k)
    BY DEF General, LoopsOK
  <2>2. CASE k = l
    <3>1. closing'[l] = c /\ c \notin active'[l] /\ phase'[l] = phase[l]
      BY <1>f
    <3>2. phase'[l] # "events" => active'[l] = {}
      OBVIOUS
    <3>3. /\ loop_'[c] = l /\ state_'[c] = "kDisconnected" /\ channels_'[l][fd'[c]] = c
          /\ ~events_'[c] /\ index_'[c] # "kNew"
      BY <1>b, <1>c, <1>d, <1>e
    <3> QED BY <2>2, <3>1, <3>2, <3>3 DEF LoopOK
  <2>3. CASE k # l
    <3>1. /\ closing'[k] = closing[k] /\ phase'[k] = phase[k] /\ active'[k] = active[k]
          /\ func'[k] = func[k]
      BY <2>3, <1>f
    <3>2. CASE closing[k] = None
      BY <2>1, <3>1, <3>2 DEF LoopOK
    <3>3. CASE closing[k] # None
      <4>1. closing[k] \in Conn /\ closing[k] # c
        BY <2>1, <2>3, <3>3, SMT DEF LoopOK, Typed
      <4> QED BY <1>c, <1>d, <2>1, <3>1, <3>3, <4>1 DEF LoopOK
    <3> QED BY <3>2, <3>3
  <2> QED BY <2>2, <2>3
<1>2. ASSUME NEW d \in Conn PROVE ConnOK(d)'
  <2>1. ConnOK(d)
    BY DEF General, ConnsOK
  <2>2. CASE d = c
    BY <1>a, <1>b, <1>c, <1>d, <2>1, <2>2 DEF ConnOK, Up, Created
  <2>3. CASE d # c
    <3>1. /\ state_'[d] = state_[d] /\ events_'[d] = events_[d] /\ index_'[d] = index_[d]
          /\ d \in connections_' => d \in connections_
      BY <1>d, <1>g, <2>3
    <3> QED BY <1>c, <2>1, <3>1 DEF ConnOK, Up, Created
  <2> QED BY <2>2, <2>3
<1>3. ASSUME NEW k \in Loop, NEW g \in Fd PROVE ChannelOK(k, g)'
  <2> DEFINE d == channels_[k][g]
  <2>1. ChannelOK(k, g) /\ channels_'[k][g] = d
    BY <1>c DEF General, ChannelsOK
  <2>2. CASE d = None
    BY <2>1, <2>2 DEF ChannelOK
  <2>3. CASE d = c
    <3>1. loop_'[c] = k /\ fd'[c] = g /\ k = l
      BY <1>c, <2>1, <2>3 DEF ChannelOK
    <3>2. state_'[c] # "kConnecting" /\ closing'[k] = c
      BY <1>d, <1>f, <3>1
    <3> HIDE DEF d
    <3> QED BY <2>1, <2>3, <3>1, <3>2 DEF ChannelOK
  <2>4. CASE d # None /\ d # c
    <3>1. d \in Conn
      BY <2>4, ChannelTypes
    <3>2. /\ loop_'[d] = loop_[d] /\ fd'[d] = fd[d] /\ state_'[d] = state_[d]
          /\ d \in connections_ => d \in connections_'
      BY <1>c, <1>d, <1>g, <2>4, <3>1
    <3>3. closing[k] = d => closing'[k] = d
      BY <1>f, <2>4
    <3> HIDE DEF d
    <3> QED BY <1>h, <2>1, <2>4, <3>1, <3>2, <3>3 DEF ChannelOK, d
  <2> QED BY <2>2, <2>3, <2>4
<1>4. ASSUME NEW k \in Loop, NEW d \in active'[k] PROVE ActiveOK(k, d)'
  <2>1. d \in active[k] /\ (k = l => d # c)
    OBVIOUS
  <2>2. ActiveOK(k, d) /\ d \in Conn
    BY <2>1 DEF General, ActivesOK, Typed
  <2>3. d # c
    BY <2>1, <2>2 DEF ActiveOK
  <2> QED BY <1>c, <1>d, <2>2, <2>3 DEF ActiveOK, Up
<1>5. server' # "alive" => phase'[Base] = "stopped"
  BY <1>c DEF General
<1> QED BY <1>1, <1>2, <1>3, <1>4, <1>5, <1>h DEF General, LoopsOK, ConnsOK, ChannelsOK, ActivesOK

\* The peer has closed a connection, or the user has.
LEMMA GeneralEof ==
    ASSUME Typed, Typed', General, NEW l \in Loop, NEW c \in Conn, handleEof(l, c), failed' = None
    PROVE  General'
<1>1. /\ phase[l] = "events" /\ closing[l] = None /\ c \in active[l]
      /\ active' = [active EXCEPT ![l] = @ \ {c}] /\ UNCHANGED <<func, phase>>
  BY DEF handleEof, Handles
<1>2. Up(c) /\ loop_[c] = l
  BY <1>1 DEF General, ActivesOK, ActiveOK
<1>3. handleClose(l, c)
  BY <1>2 DEF handleEof
<1>4. func[l].op = "none"
  BY <1>1, Idle
<1>5. active'[l] = active[l] \ {c} /\ \A k \in Loop : k # l => active'[k] = active[k]
  BY <1>1, SMT DEF Typed
<1> QED BY <1>1, <1>2, <1>3, <1>4, <1>5, GeneralClose DEF Ran

\* forceCloseInLoop.
LEMMA GeneralForceClose ==
    ASSUME Typed, Typed', General, NEW l \in Loop, forceCloseInLoop(l), failed' = None
    PROVE  General'
<1>1. Runs(l, "forceCloseInLoop")
  BY DEF forceCloseInLoop
<1>2. /\ func[l].op = "forceCloseInLoop" /\ func' = [func EXCEPT ![l].op = "none"]
      /\ UNCHANGED <<phase, active>> /\ func[l].conn \in Conn
  BY <1>1 DEF Runs, Typed
<1>3. CASE ~Up(func[l].conn)
  BY <1>1, <1>3, GeneralSkip DEF forceCloseInLoop
<1>4. CASE Up(func[l].conn)
  <2>1. handleClose(l, func[l].conn)
    BY <1>4 DEF forceCloseInLoop
  <2>2. phase[l] = "functors" /\ closing[l] = None /\ active[l] = {}
    BY <1>2, Idle
  <2>3. func'[l].op = "none" /\ \A k \in Loop : k # l => func'[k] = func[k]
    BY <1>2, SMT DEF Typed
  <2>4. loop_[func[l].conn] = l
    <3>1. 0 \in Place(l) /\ At(l, 0) = func[l]
      BY SMT DEF Place, At, Typed
    <3>2. FunctorOK(l, 0)
      BY <3>1 DEF General, FunctorsOK
    <3> QED BY <1>2, <3>1, <3>2 DEF FunctorOK
  <2>5. PICK c \in Conn : handleClose(l, c) /\ Up(c) /\ loop_[c] = l
    BY <1>2, <1>4, <2>1, <2>4
  <2> QED BY <1>2, <2>2, <2>3, <2>5, GeneralClose DEF Ran
<1> QED BY <1>3, <1>4

\* The functor loop l runs is in order.
LEMMA Running ==
    ASSUME Typed, General, NEW l \in Loop
    PROVE  0 \in Place(l) /\ At(l, 0) = func[l] /\ FunctorOK(l, 0)
<1>1. 0 \in Place(l) /\ At(l, 0) = func[l]
  BY SMT DEF Place, At, Typed
<1> QED BY <1>1 DEF General, FunctorsOK

\* A functor is run, and nothing is queued.
LEMMA AfterRun ==
    ASSUME Typed, Typed', General, NEW l \in Loop, NEW op \in Op, Runs(l, op), UNCHANGED funcs_,
           \A c \in Conn :
              /\ Created(c) => loop_'[c] = loop_[c]
              /\ state_[c] # "kConnecting" => state_'[c] # "kConnecting"
              /\ state_[c] = "kDisconnected" => state_'[c] = "kDisconnected"
              /\ c \in connections_ => c \in connections_' \/ state_'[c] # "kConnecting"
    PROVE  /\ FunctorsOK' /\ Ran /\ Grown({})
           /\ UNCHANGED <<phase, active>> /\ func[l].op = op /\ func[l].conn \in Conn
           /\ func'[l].op = "none" /\ func'[l].conn = func[l].conn
           /\ \A k \in Loop : k # l => func'[k] = func[k]
           /\ phase[l] = "functors" /\ closing[l] = None /\ active[l] = {}
           /\ \A k \in Loop, d \in Conn :
                 Has(k, "connectDestroyed", d) /\ ~(op = "connectDestroyed" /\ d = func[l].conn)
                    => Has(k, "connectDestroyed", d)'
<1>1. /\ func[l].op = op /\ func' = [func EXCEPT ![l].op = "none"] /\ UNCHANGED <<phase, active>>
  BY DEF Runs
<1>2. /\ func'[l].op = "none" /\ func'[l].conn = func[l].conn
      /\ \A k \in Loop : k # l => func'[k] = func[k]
  BY <1>1, SMT DEF Typed
<1>3. op # "none" /\ func[l].conn \in Conn
  BY <1>1 DEF Typed, Op
<1>4. Ran
  BY <1>2 DEF Ran
<1>5. Grown({})
  BY <1>4, GrownSame
<1>6. \A k \in Loop : \A i \in Place(k)' : ~(i > Len(funcs_[k]))
  BY SMT DEF Place, Typed
<1>7. FunctorsOK'
  BY <1>5, <1>6, FunctorsGrown DEF General
<1>8. ASSUME NEW k \in Loop, NEW d \in Conn, Has(k, "connectDestroyed", d),
             ~(op = "connectDestroyed" /\ d = func[l].conn)
      PROVE  Has(k, "connectDestroyed", d)'
  <2>1. func'[k] = func[k] \/ ~Is(k, 0, "connectDestroyed", d)
    BY <1>1, <1>2, <1>8 DEF Is, At
  <2> QED BY <1>5, <1>8, <2>1, HasGrown DEF Op
<1>9. phase[l] = "functors" /\ closing[l] = None /\ active[l] = {}
  BY <1>1, <1>3, Idle
<1> QED BY <1>1, <1>2, <1>3, <1>4, <1>5, <1>7, <1>8, <1>9

\* connectEstablished, queued by newConnection.
LEMMA GeneralRunEstablished ==
    ASSUME Typed, Typed', General, NEW l \in Loop, runEstablished(l), failed' = None
    PROVE  General'
<1>0. Runs(l, "connectEstablished") /\ func[l].op = "connectEstablished"
  BY DEF runEstablished, Runs
<1>1. PICK c \in Conn : c = func[l].conn
  BY <1>0 DEF Typed
<1>2. loop_[c] = l /\ FunctorOK(l, 0) /\ At(l, 0) = func[l]
  BY <1>0, <1>1, Running DEF FunctorOK
<1>3. PICK f \in Fd : f = fd[c]
  BY <1>2, Placed, NoneAssumption DEF Created
<1>4. /\ connectEstablished(c, l, f)
      /\ UNCHANGED <<connections_, fd, loop_, server, funcs_, closing>>
  BY <1>1, <1>3 DEF runEstablished, serverVars
<1>5. Established(c, l, f)
  BY <1>4, EstablishedEffect
<1>6. \A d \in Conn : /\ Created(d) => loop_'[d] = loop_[d]
                      /\ state_[d] # "kConnecting" => state_'[d] # "kConnecting"
                      /\ state_[d] = "kDisconnected" => state_'[d] = "kDisconnected"
                      /\ d \in connections_ => d \in connections_' \/ state_'[d] # "kConnecting"
  BY <1>4, <1>5 DEF Established
<1>7. /\ FunctorsOK' /\ Ran /\ Grown({}) /\ UNCHANGED <<phase, active>>
      /\ \A k \in Loop, d \in Conn :
            Has(k, "connectDestroyed", d) => Has(k, "connectDestroyed", d)'
  <2>1. "connectEstablished" \in Op
    BY DEF Op
  <2> QED BY <1>0, <1>4, <1>6, <2>1, AfterRun
<1>8. c \in connections_' \/ Has(l, "connectDestroyed", c)'
  <2>1. state_[c] = "kConnecting"
    BY <1>5 DEF Established
  <2>2. c \in connections_ \/ \E j \in Place(l) : Is(l, j, "connectDestroyed", c)
    BY <1>0, <1>1, <1>2, <2>1 DEF FunctorOK
  <2> QED BY <1>4, <1>7, <2>2 DEF Has
<1>9. fd'[c] = f /\ loop_'[c] = l /\ \A d \in Conn : fd'[d] = fd[d] /\ loop_'[d] = loop_[d]
  BY <1>2, <1>3, <1>4
<1> QED BY <1>4, <1>5, <1>7, <1>8, <1>9, GeneralEstablished

\* connectDestroyed, queued by ~TcpServer.
LEMMA GeneralRunDestroyed ==
    ASSUME Typed, Typed', General, NEW l \in Loop, runDestroyed(l), failed' = None
    PROVE  General'
<1>0. Runs(l, "connectDestroyed") /\ func[l].op = "connectDestroyed"
  BY DEF runDestroyed, Runs
<1>2. PICK c \in Conn : c = func[l].conn
  BY <1>0 DEF Typed
<1>1. connectDestroyed(c) /\ UNCHANGED <<connections_, fd, loop_, server, funcs_, closing>>
  BY <1>2 DEF runDestroyed, serverVars
<1>3. loop_[c] = l /\ Created(c)
  BY <1>0, <1>2, Running, NoneAssumption, SMT DEF FunctorOK, Created
<1>5. Destroyed(c)
  BY <1>1, <1>3, DestroyedEffect
<1>6. \A d \in Conn : /\ Created(d) => loop_'[d] = loop_[d]
                      /\ state_[d] # "kConnecting" => state_'[d] # "kConnecting"
                      /\ state_[d] = "kDisconnected" => state_'[d] = "kDisconnected"
                      /\ d \in connections_ => d \in connections_' \/ state_'[d] # "kConnecting"
  BY <1>1, <1>5 DEF Destroyed
<1>7. /\ FunctorsOK' /\ Ran /\ Grown({}) /\ UNCHANGED <<phase, active>>
      /\ closing[l] = None /\ active[l] = {}
      /\ \A k \in Loop, d \in Conn :
            d # c /\ Has(k, "connectDestroyed", d) => Has(k, "connectDestroyed", d)'
  <2>1. "connectDestroyed" \in Op
    BY DEF Op
  <2> QED BY <1>0, <1>1, <1>2, <1>6, <2>1, AfterRun
<1> QED BY <1>1, <1>2, <1>3, <1>5, <1>7, GeneralDestroyed

\* The end of removeConnection.
LEMMA GeneralCloseDone ==
    ASSUME Typed, Typed', General, NEW l \in Loop, closeDone(l), failed' = None
    PROVE  General'
<1>0. PICK c \in Conn : c = closing[l]
  BY DEF closeDone, Typed
<1>1. /\ c # None /\ connectDestroyed(c) /\ closing' = [closing EXCEPT ![l] = None]
      /\ UNCHANGED <<connections_, fd, loop_, server, funcs_, func, phase, active>>
  BY <1>0 DEF closeDone, serverVars
<1>2. LoopOK(l)
  BY DEF General, LoopsOK
<1>3. loop_[c] = l /\ Created(c) /\ c \notin active[l]
  BY <1>0, <1>1, <1>2, NoneAssumption DEF LoopOK, Created
<1>4. closing'[l] = None /\ closing[l] = c /\ \A k \in Loop : k # l => closing'[k] = closing[k]
  BY <1>0, <1>1, SMT DEF Typed
<1>5. Destroyed(c)
  BY <1>1, <1>3, DestroyedEffect
<1>6. \A d \in Conn : /\ Created(d) => loop_'[d] = loop_[d]
                      /\ state_[d] # "kConnecting" => state_'[d] # "kConnecting"
                      /\ state_[d] = "kDisconnected" => state_'[d] = "kDisconnected"
                      /\ d \in connections_ => d \in connections_' \/ state_'[d] # "kConnecting"
  BY <1>1, <1>5 DEF Destroyed
<1>7. Ran /\ Grown({})
  BY <1>1, GrownSame DEF Ran
<1>8. FunctorsOK'
  <2>1. \A k \in Loop : \A i \in Place(k)' : ~(i > Len(funcs_[k]))
    BY <1>1, SMT DEF Place, Typed
  <2> QED BY <1>6, <1>7, <2>1, FunctorsGrown DEF General
<1>9. \A k \in Loop, d \in Conn : Has(k, "connectDestroyed", d) => Has(k, "connectDestroyed", d)'
  BY <1>1 DEF Has, Is, At, Place
<1> QED BY <1>1, <1>2, <1>3, <1>4, <1>5, <1>7, <1>8, <1>9, GeneralDestroyed

\* removeConnectionInLoop: the connection is closed.
LEMMA GeneralRunRemove ==
    ASSUME Typed, Typed', General, NEW l \in Loop, runRemove(l), failed' = None
    PROVE  General'
<1>2. PICK c \in Conn : c = func[l].conn /\ func[l].op = "removeConnectionInLoop"
  BY DEF runRemove, Runs, Typed
<1>1. /\ Runs(l, "removeConnectionInLoop") /\ connections_' = connections_ \ {c}
      /\ UNCHANGED <<fd, loop_, server, state_, chan, funcs_, closing>>
  BY <1>2, NoneAssumption DEF runRemove, removeConnectionInLoop
<1>3. state_[c] = "kDisconnected"
  BY <1>2, Running DEF FunctorOK
<1>4. \A d \in Conn : d \in connections_ => d \in connections_' \/ state_[d] = "kDisconnected"
  BY <1>1, <1>3
<1>5. /\ FunctorsOK' /\ Ran /\ UNCHANGED <<phase, active>> /\ closing[l] = None
      /\ active[l] = {} /\ func'[l].op = "none" /\ \A k \in Loop : k # l => func'[k] = func[k]
      /\ \A k \in Loop, d \in Conn :
            Has(k, "connectDestroyed", d) => Has(k, "connectDestroyed", d)'
  <2>1. "removeConnectionInLoop" \in Op
    BY DEF Op
  <2>2. \A d \in Conn : /\ Created(d) => loop_'[d] = loop_[d]
                        /\ state_[d] # "kConnecting" => state_'[d] # "kConnecting"
                        /\ state_[d] = "kDisconnected" => state_'[d] = "kDisconnected"
                        /\ d \in connections_ => d \in connections_' \/ state_'[d] # "kConnecting"
    BY <1>1, <1>4
  <2>3. /\ FunctorsOK' /\ Ran /\ UNCHANGED <<phase, active>> /\ closing[l] = None
        /\ active[l] = {} /\ func'[l].op = "none" /\ \A k \in Loop : k # l => func'[k] = func[k]
        /\ \A k \in Loop, d \in Conn :
              Has(k, "connectDestroyed", d)
                 /\ ~("removeConnectionInLoop" = "connectDestroyed" /\ d = func[l].conn)
              => Has(k, "connectDestroyed", d)'
    BY <1>1, <2>1, <2>2, AfterRun
  <2>4. "removeConnectionInLoop" # "connectDestroyed"
    OBVIOUS
  <2> QED BY <2>3, <2>4
<1>6. LoopsOK'
  BY <1>1, <1>5, FrameLoops
<1>7. ASSUME NEW d \in Conn PROVE ConnOK(d)'
  <2>1. ConnOK(d)
    BY DEF General, ConnsOK
  <2> QED BY <1>1, <1>5, <2>1 DEF ConnOK, Created, Up, chan
<1>8. ASSUME NEW k \in Loop, NEW g \in Fd PROVE ChannelOK(k, g)'
  <2>1. ChannelOK(k, g)
    BY DEF General, ChannelsOK
  <2>2. channels_[k][g] # None => channels_[k][g] \in Conn
    BY ChannelTypes
  <2> QED BY <1>1, <1>4, <1>5, <2>1, <2>2 DEF ChannelOK, chan
<1>9. ActivesOK'
  BY <1>1, <1>5, SMT DEF General, ActivesOK, ActiveOK, Up, chan
<1> QED BY <1>1, <1>5, <1>6, <1>7, <1>8, <1>9 DEF General, ConnsOK, ChannelsOK

\* A connection that is up stays so, and what is queued is in order.
LEMMA GeneralUp ==
    ASSUME Typed, Typed', General, NEW c \in Conn, Up(c),
           UNCHANGED <<connections_, fd, loop_, server, chan, func, phase, closing>>,
           \A d \in Conn : d # c => state_'[d] = state_[d],
           state_'[c] \in {"kConnected", "kDisconnecting"},
           \A k \in Loop : active'[k] \subseteq active[k],
           NEW N, Grown(N),
           \A k \in Loop : \A i \in Place(k)' :
              i > Len(funcs_[k]) /\ At(k, i)'.op # "none" => FunctorOK(k, i)'
    PROVE  General'
<1> USE NoneAssumption
<1>1. FunctorsOK'
  <2>1. \A d \in Conn : /\ Created(d) => loop_'[d] = loop_[d]
                        /\ state_[d] # "kConnecting" => state_'[d] # "kConnecting"
                        /\ state_[d] = "kDisconnected" => state_'[d] = "kDisconnected"
                        /\ d \in connections_ => d \in connections_'
    BY DEF Up
  <2> QED BY <2>1, FunctorsGrown DEF General
<1>2. \A k \in Loop, d \in Conn : Has(k, "connectDestroyed", d) => Has(k, "connectDestroyed", d)'
  <2>1. "connectDestroyed" \in Op
    BY DEF Op
  <2> QED BY <2>1, HasGrown
<1>3. ASSUME NEW k \in Loop PROVE LoopOK(k)'
  <2>1. LoopOK(k)
    BY DEF General, LoopsOK
  <2>2. closing[k] # None => closing[k] \in Conn /\ closing[k] # c
    BY <2>1 DEF LoopOK, Up, Typed
  <2>3. active'[k] \subseteq active[k]
    OBVIOUS
  <2> QED BY <2>1, <2>2, <2>3 DEF LoopOK, chan
<1>4. ASSUME NEW d \in Conn PROVE ConnOK(d)'
  <2>1. ConnOK(d)
    BY DEF General, ConnsOK
  <2>2. Up(d)' <=> Up(d)
    BY DEF Up
  <2>3. ~Created(d) => d # c
    BY <2>1 DEF ConnOK
  <2> QED BY <2>1, <2>2, <2>3 DEF ConnOK, Created, chan
<1>5. ASSUME NEW k \in Loop, NEW f \in Fd PROVE ChannelOK(k, f)'
  <2>1. ChannelOK(k, f)
    BY DEF General, ChannelsOK
  <2>2. channels_[k][f] # None => channels_[k][f] \in Conn
    BY ChannelTypes
  <2>3. \A d \in Conn : state_[d] # "kConnecting" /\ (state_[d] = "kDisconnected" => closing[k] = d)
            => state_'[d] # "kConnecting" /\ (state_'[d] = "kDisconnected" => closing[k] = d)
    OBVIOUS
  <2> QED BY <1>2, <2>1, <2>2, <2>3 DEF ChannelOK, chan
<1>6. ASSUME NEW k \in Loop, NEW d \in active'[k] PROVE ActiveOK(k, d)'
  <2>1. ActiveOK(k, d) /\ d \in Conn
    BY DEF General, ActivesOK, Typed
  <2> QED BY <2>1 DEF ActiveOK, Up, chan
<1>7. server' # "alive" => phase'[Base] = "stopped"
  BY DEF General
<1> QED BY <1>1, <1>3, <1>4, <1>5, <1>6, <1>7 DEF General, LoopsOK, ConnsOK, ChannelsOK, ActivesOK

\* messageCallback_: the connection stays up, and what is queued is on its loop.
LEMMA GeneralMessage ==
    ASSUME Typed, Typed', General, NEW l \in Loop, NEW c \in Conn, message(l, c)
    PROVE  General'
<1> USE NoneAssumption
<1>1. /\ phase[l] = "events" /\ closing[l] = None /\ c \in active[l]
      /\ active' = [active EXCEPT ![l] = @ \ {c}]
      /\ UNCHANGED <<connections_, fd, loop_, server, chan, func, phase, closing>>
  BY DEF message, Handles, serverVars
<1>2. Up(c) /\ loop_[c] = l
  BY <1>1 DEF General, ActivesOK, ActiveOK
<1>3. \A d \in Conn : d # c => state_'[d] = state_[d]
  BY ConnTypes DEF message
<1>4. state_'[c] \in {"kConnected", "kDisconnecting"}
  BY <1>2, ConnTypes DEF message, Up
<1>5. Ran
  BY <1>1 DEF Ran
<1>6. \E N : /\ Grown(N)
             /\ \A k \in Loop : \A i \in Place(k)' :
                   i > Len(funcs_[k]) /\ At(k, i)'.op # "none" => FunctorOK(k, i)'
  <2>1. CASE UNCHANGED funcs_
    <3>1. Grown({})
      BY <1>5, <2>1, GrownSame
    <3>2. \A k \in Loop : \A i \in Place(k)' : ~(i > Len(funcs_[k]))
      BY <2>1, SamePlace
    <3> QED BY <3>1, <3>2
  <2>2. ASSUME NEW n \in 1 .. MaxForceClose,
               funcs_' = [funcs_ EXCEPT ![l] =
                            @ \o [i \in 1 .. n |-> [op |-> "forceCloseInLoop", conn |-> c]]]
        PROVE  \E N : /\ Grown(N)
                      /\ \A k \in Loop : \A i \in Place(k)' :
                            i > Len(funcs_[k]) /\ At(k, i)'.op # "none" => FunctorOK(k, i)'
    <3> DEFINE g == [op |-> "forceCloseInLoop", conn |-> c]
               s == [i \in 1 .. n |-> g]
               N == {<<l, s[j]>> : j \in 1 .. Len(s)}
    <3>1. g \in Functor /\ n \in Nat /\ g.op = "forceCloseInLoop" /\ g.conn = c
      BY BoundAssumption, SMT DEF Functor, Op
    <3> HIDE DEF g
    <3>2. s \in Seq(Functor) /\ Len(s) = n /\ \A j \in 1 .. Len(s) : s[j] = g
      BY <3>1, SMT
    <3>3. funcs_' = [funcs_ EXCEPT ![l] = funcs_[l] \o s]
      BY <2>2 DEF g
    <3> HIDE DEF s
    <3>4. Grown(N)
      <4>1. \A j \in 1 .. Len(s) : <<l, s[j]>> \in N
        OBVIOUS
      <4> HIDE DEF N
      <4> QED BY <1>5, <3>2, <3>3, <4>1, GrownConcat
    <3>5. ASSUME NEW k \in Loop, NEW i \in Place(k)', i > Len(funcs_[k]), At(k, i)'.op # "none"
          PROVE  FunctorOK(k, i)'
      <4>1. ~(i \in Place(k))
        BY <3>5, NewPlace
      <4>2. <<k, At(k, i)'>> \in N
        BY <3>4, <3>5, <4>1 DEF Grown
      <4>3. k = l /\ At(k, i)' = g
        BY <3>2, <4>2
      <4> QED BY <1>1, <1>2, <3>1, <4>3 DEF FunctorOK
    <3> QED BY <3>4, <3>5
  <2> QED BY <2>1, <2>2 DEF message
<1>7. \A k \in Loop : active'[k] \subseteq active[k]
  BY <1>1, SMT DEF Typed
<1> QED BY <1>1, <1>2, <1>3, <1>4, <1>6, <1>7, GeneralUp

\* shutdown and forceClose of another thread, in their steps; none of them closes the
\* connection.
LEMMA GeneralCaller ==
    ASSUME Typed, Typed', CallersOK, General, NEW t \in Thread, CallerStep(t), failed' = None,
           overwritten' = {}
    PROVE  General'
<1> USE NoneAssumption
<1>1. UNCHANGED <<connections_, fd, loop_, server, chan, func, phase, active, closing>>
  BY DEF CallerStep, serverVars, loops
<1>2. Ran
  BY <1>1 DEF Ran
<1>3. ASSUME UNCHANGED funcs_
      PROVE  /\ Grown({})
             /\ \A k \in Loop : \A i \in Place(k)' : ~(i > Len(funcs_[k]))
  BY <1>2, <1>3, GrownSame, SamePlace
<1>4. CASE UNCHANGED <<state_, funcs_>>
  <2>1. FunctorsOK' /\ LoopsOK' /\ ConnsOK' /\ ChannelsOK'
    <3>1. FunctorsOK'
      BY <1>1, <1>3, <1>4, FunctorsGrown DEF General
    <3>2. \A k, op, d : Has(k, op, d) => Has(k, op, d)'
      BY <1>1, <1>4 DEF Has, Is, At, Place
    <3>3. ConnsOK' /\ ChannelsOK'
      BY <1>1, <1>4, <3>2, Frame
    <3>4. LoopsOK'
      BY <1>1, <1>4 DEF General, LoopsOK, LoopOK, chan
    <3> QED BY <3>1, <3>3, <3>4
  <2>2. ActivesOK'
    <3>1. ASSUME NEW k \in Loop, NEW d \in active'[k] PROVE ActiveOK(k, d)'
      <4>1. ActiveOK(k, d)
        BY <1>1 DEF General, ActivesOK
      <4> QED BY <1>1, <1>4, <4>1 DEF ActiveOK, Up, chan
    <3> QED BY <3>1 DEF ActivesOK
  <2> QED BY <1>1, <2>1, <2>2 DEF General
<1>5. CASE set(t)
  <2>1. PICK c \in Conn : c = caller[t].conn
    BY <1>5 DEF set, CallersOK
  <2>2. /\ state_' = [state_ EXCEPT ![c] = "kDisconnecting"] /\ UNCHANGED funcs_
        /\ state_[c] # "kDisconnected"
    BY <1>5, <2>1 DEF set
  <2>3. Up(c)
    <3>1. state_[c] # "kConnecting"
      BY <2>1 DEF CallersOK
    <3>2. state_[c] \in {"kConnecting", "kConnected", "kDisconnecting", "kDisconnected"}
      BY ConnTypes
    <3> QED BY <2>2, <3>1, <3>2 DEF Up
  <2>4. state_'[c] = "kDisconnecting" /\ \A d \in Conn : d # c => state_'[d] = state_[d]
    BY <2>2, ConnTypes
  <2> QED BY <1>1, <1>3, <2>2, <2>3, <2>4, GeneralUp
<1>6. CASE callLoop(t) /\ funcs_' # funcs_
  <2>1. PICK c \in Conn : c = caller[t].conn
    BY <1>6 DEF callLoop, CallersOK
  <2>2. queueInLoop(loop_[c], "forceCloseInLoop", c) /\ UNCHANGED state_
    BY <1>6, <2>1 DEF callLoop
  <2>3. ConnOK(c) /\ state_[c] # "kConnecting"
    BY <2>1 DEF General, ConnsOK, CallersOK
  <2>4. PICK l \in Loop : l = loop_[c]
    BY <2>3, Placed DEF ConnOK
  <2> DEFINE g == [op |-> "forceCloseInLoop", conn |-> c]
  <2>5. g.op = "forceCloseInLoop" /\ g.conn = c /\ "forceCloseInLoop" \in Op
        /\ "connectDestroyed" \in Op
    BY DEF Op
  <2>6. Grown({<<l, g>>})
    BY <1>2, <2>2, <2>4, <2>5, GrownQueue
  <2> HIDE DEF g
  <2>7. ASSUME NEW k \in Loop, NEW i \in Place(k)', i > Len(funcs_[k]), At(k, i)'.op # "none"
        PROVE  FunctorOK(k, i)'
    <3>1. ~(i \in Place(k))
      BY <2>7, NewPlace
    <3>2. k = l /\ At(k, i)' = g
      BY <2>6, <2>7, <3>1 DEF Grown
    <3> QED BY <1>1, <2>4, <2>5, <3>2 DEF FunctorOK
  <2> DEFINE N == {<<l, g>>}
  <2>8. Grown(N)
    BY <2>6
  <2> HIDE DEF N
  <2>9. FunctorsOK'
    BY <1>1, <2>2, <2>7, <2>8, FunctorsGrown DEF General
  <2>10. \A k \in Loop, d \in Conn : Has(k, "connectDestroyed", d) => Has(k, "connectDestroyed", d)'
    BY <1>1, <2>5, <2>8, HasGrown
  <2>11. ConnsOK' /\ ChannelsOK'
    BY <1>1, <2>2, <2>10, Frame
  <2>12. LoopsOK'
    BY <1>1, <2>2 DEF General, LoopsOK, LoopOK, chan
  <2>13. ActivesOK'
    <3>1. ASSUME NEW k \in Loop, NEW d \in active'[k] PROVE ActiveOK(k, d)'
      <4>1. ActiveOK(k, d)
        BY <1>1 DEF General, ActivesOK
      <4> QED BY <1>1, <2>2, <4>1 DEF ActiveOK, Up, chan
    <3> QED BY <3>1 DEF ActivesOK
  <2> QED BY <1>1, <2>9, <2>11, <2>12, <2>13 DEF General
<1> QED BY <1>4, <1>5, <1>6 DEF CallerStep, hold, test, Goes, callLoop, release

\* A new connection is nowhere before.
LEMMA NewIsNowhere ==
    ASSUME Typed, General, NEW c \in Conn, ~Created(c)
    PROVE  /\ c \notin connections_ /\ state_[c] = "kConnecting"
           /\ \A l \in Loop : closing[l] # c /\ c \notin active[l]
           /\ \A l \in Loop : \A i \in Place(l) : At(l, i).op # "none" => At(l, i).conn # c
           /\ \A l \in Loop, f \in Fd : channels_[l][f] # c
<1> USE NoneAssumption
<1>1. ConnOK(c) /\ loop_[c] = None
  BY DEF General, ConnsOK, Created
<1>2. ASSUME NEW l \in Loop PROVE closing[l] # c
  <2>1. LoopOK(l)
    BY DEF General, LoopsOK
  <2> QED BY <1>1, <2>1 DEF LoopOK
<1>3. ASSUME NEW l \in Loop PROVE c \notin active[l]
  BY <1>1 DEF General, ActivesOK, ActiveOK
<1>4. ASSUME NEW l \in Loop, NEW i \in Place(l), At(l, i).op # "none" PROVE At(l, i).conn # c
  <2>1. FunctorOK(l, i)
    BY DEF General, FunctorsOK
  <2>2. At(l, i).op \in Op
    BY <1>4, FunctorTyped
  <2> QED BY <1>1, <2>1, <2>2 DEF FunctorOK, Op
<1>5. ASSUME NEW l \in Loop, NEW f \in Fd PROVE channels_[l][f] # c
  <2>1. ChannelOK(l, f)
    BY DEF General, ChannelsOK
  <2> QED BY <1>1, <2>1 DEF ChannelOK
<1> QED BY <1>1, <1>2, <1>3, <1>4, <1>5 DEF ConnOK

\* newConnection, on the base loop or handed to a loop of the pool.
LEMMA GeneralNew ==
    ASSUME Typed, Typed', General, NEW c \in Conn, NEW f \in Fd, newConnection(c, f), failed' = None
    PROVE  General'
<1> USE NoneAssumption
<1>1. PICK l \in Loop : l = nextLoop
  BY NextLoop
<1>2. /\ ~Created(c) /\ fd' = [fd EXCEPT ![c] = f] /\ loop_' = [loop_ EXCEPT ![c] = l]
      /\ connections_' = connections_ \cup {c} /\ UNCHANGED <<server, func, phase, active, closing>>
  BY <1>1 DEF newConnection, accepts, loops
<1>3. /\ fd'[c] = f /\ loop_'[c] = l
      /\ \A d \in Conn : d # c => fd'[d] = fd[d] /\ loop_'[d] = loop_[d]
  BY <1>2, ConnTypes
<1>4. /\ c \notin connections_ /\ state_[c] = "kConnecting"
      /\ \A k \in Loop : closing[k] # c /\ c \notin active[k]
      /\ \A k \in Loop, g \in Fd : channels_[k][g] # c
  BY <1>2, NewIsNowhere
<1>5. Ran
  BY <1>2 DEF Ran
<1>6. CASE l = Base
  <2>1. connectEstablished(c, l, f) /\ UNCHANGED funcs_
    BY <1>1, <1>6 DEF newConnection
  <2>2. Established(c, l, f)
    BY <2>1, EstablishedEffect
  <2>3. Grown({})
    BY <1>5, <2>1, GrownSame
  <2>4. FunctorsOK'
    <3>1. \A d \in Conn : /\ Created(d) => loop_'[d] = loop_[d]
                          /\ state_[d] # "kConnecting" => state_'[d] # "kConnecting"
                          /\ state_[d] = "kDisconnected" => state_'[d] = "kDisconnected"
                          /\ d \in connections_ => d \in connections_'
      BY <1>2, <1>3, <2>2 DEF Established
    <3>2. \A k \in Loop : \A i \in Place(k)' : ~(i > Len(funcs_[k]))
      BY <2>1, SamePlace
    <3> QED BY <2>3, <3>1, <3>2, FunctorsGrown DEF General
  <2>5. \A k \in Loop, d \in Conn : Has(k, "connectDestroyed", d) => Has(k, "connectDestroyed", d)'
    BY <1>2, <2>1 DEF Has, Is, At, Place
  <2> QED BY <1>2, <1>3, <1>5, <2>2, <2>4, <2>5, GeneralEstablished
<1>7. CASE l # Base
  <2>1. queueInLoop(l, "connectEstablished", c) /\ UNCHANGED <<state_, chan>>
    BY <1>1, <1>7 DEF newConnection
  <2> DEFINE N == {<<l, [op |-> "connectEstablished", conn |-> c]>>}
  <2>2. "connectEstablished" \in Op /\ "connectDestroyed" \in Op
    BY DEF Op
  <2>3. Grown(N)
    BY <1>5, <2>1, <2>2, GrownQueue
  <2>4. FunctorsOK'
    <3>1. \A d \in Conn : /\ Created(d) => loop_'[d] = loop_[d]
                          /\ state_[d] # "kConnecting" => state_'[d] # "kConnecting"
                          /\ state_[d] = "kDisconnected" => state_'[d] = "kDisconnected"
                          /\ d \in connections_ => d \in connections_'
      BY <1>2, <1>3, <2>1
    <3>2. ASSUME NEW k \in Loop, NEW i \in Place(k)', i > Len(funcs_[k]), At(k, i)'.op # "none"
          PROVE  FunctorOK(k, i)'
      <4>1. ~(i \in Place(k))
        BY <3>2, NewPlace
      <4>2. k = l /\ At(k, i)' = [op |-> "connectEstablished", conn |-> c]
        BY <2>3, <3>2, <4>1 DEF Grown
      <4>3. At(k, i)'.op = "connectEstablished" /\ At(k, i)'.conn = c
        BY <4>2, SMT
      <4> QED BY <1>2, <1>3, <1>7, <4>2, <4>3 DEF FunctorOK
    <3> HIDE DEF N
    <3> QED BY <2>3, <3>1, <3>2, FunctorsGrown DEF General
  <2> HIDE DEF N
  <2>5. \A k \in Loop, d \in Conn : Has(k, "connectDestroyed", d) => Has(k, "connectDestroyed", d)'
    BY <1>2, <2>2, <2>3, HasGrown
  <2>6. ASSUME NEW k \in Loop PROVE LoopOK(k)'
    <3>1. LoopOK(k)
      BY DEF General, LoopsOK
    <3>2. closing[k] # None => closing[k] \in Conn /\ closing[k] # c
      BY <1>4 DEF Typed
    <3> QED BY <1>2, <1>3, <2>1, <3>1, <3>2 DEF LoopOK, chan
  <2>7. ASSUME NEW d \in Conn PROVE ConnOK(d)'
    <3>1. ConnOK(d)
      BY DEF General, ConnsOK
    <3>2. CASE d = c
      <4>1. ~Up(c) /\ ~events_[c] /\ index_[c] = "kNew"
        BY <1>2, <3>1, <3>2 DEF ConnOK
      <4> QED BY <1>3, <2>1, <3>2, <4>1 DEF ConnOK, Created, Up, chan
    <3>3. CASE d # c
      BY <1>2, <1>3, <2>1, <3>1, <3>3 DEF ConnOK, Created, Up, chan
    <3> QED BY <3>2, <3>3
  <2>8. ASSUME NEW k \in Loop, NEW g \in Fd PROVE ChannelOK(k, g)'
    <3>1. ChannelOK(k, g)
      BY DEF General, ChannelsOK
    <3>2. channels_[k][g] # None => channels_[k][g] \in Conn /\ channels_[k][g] # c
      BY <1>4, ChannelTypes
    <3> QED BY <1>2, <1>3, <2>1, <2>5, <3>1, <3>2 DEF ChannelOK, chan
  <2>9. ASSUME NEW k \in Loop, NEW d \in active'[k] PROVE ActiveOK(k, d)'
    <3>1. ActiveOK(k, d) /\ d \in Conn /\ d # c
      <4>1. d \in active[k]
        BY <1>2
      <4>2. ActiveOK(k, d)
        BY <4>1 DEF General, ActivesOK
      <4> QED BY <1>4, <4>1, <4>2, LoopTypes
    <3> QED BY <1>3, <2>1, <3>1 DEF ActiveOK, Up, chan
  <2> QED BY <1>2, <2>4, <2>6, <2>7, <2>8, <2>9 DEF General, LoopsOK, ConnsOK, ChannelsOK, ActivesOK
<1> QED BY <1>6, <1>7

\* A turn of the loop of ~TcpServer over connections_.
LEMMA GeneralDestroyConnection ==
    ASSUME Typed, Typed', General, NEW c \in Conn, destroyConnection(c), failed' = None
    PROVE  General'
<1> USE NoneAssumption
<1>1. /\ server = "destroying" /\ c \in connections_ /\ connections_' = connections_ \ {c}
      /\ UNCHANGED <<fd, loop_, server, func, phase, active, closing>>
  BY DEF destroyConnection, loops
<1>2. Base \in Loop /\ phase[Base] = "stopped"
  BY <1>1, NextLoop DEF General
<1>3. closing[Base] = None /\ func[Base].op = "none" /\ active[Base] = {}
  BY <1>2, Idle
<1>4. ConnOK(c) /\ Created(c)
  BY <1>1 DEF General, ConnsOK, ConnOK
<1>5. PICK l \in Loop : l = loop_[c]
  BY <1>4, Placed
<1>6. Ran
  BY <1>1 DEF Ran
<1>7. CASE l = Base
  <2>1. connectDestroyed(c) /\ UNCHANGED funcs_
    BY <1>5, <1>7 DEF destroyConnection
  <2>2. Destroyed(c)
    BY <1>4, <2>1, DestroyedEffect
  <2>3. Grown({})
    BY <1>6, <2>1, GrownSame
  <2>4. FunctorsOK'
    <3>1. \A d \in Conn : /\ Created(d) => loop_'[d] = loop_[d]
                          /\ state_[d] # "kConnecting" => state_'[d] # "kConnecting"
                          /\ state_[d] = "kDisconnected" => state_'[d] = "kDisconnected"
                          /\ d \in connections_ => d \in connections_' \/ state_'[d] # "kConnecting"
      BY <1>1, <2>2 DEF Destroyed
    <3>2. \A k \in Loop : \A i \in Place(k)' : ~(i > Len(funcs_[k]))
      BY <2>1, SamePlace
    <3> QED BY <2>3, <3>1, <3>2, FunctorsGrown DEF General
  <2>5. \A k \in Loop, d \in Conn : Has(k, "connectDestroyed", d) => Has(k, "connectDestroyed", d)'
    BY <1>1, <2>1 DEF Has, Is, At, Place
  <2>6. loop_[c] = Base /\ closing'[Base] = None
    BY <1>1, <1>3, <1>5, <1>7
  <2> QED BY <1>1, <1>3, <1>4, <1>6, <2>2, <2>4, <2>5, <2>6, GeneralDestroyed
<1>8. CASE l # Base
  <2>1. queueInLoop(l, "connectDestroyed", c) /\ UNCHANGED <<state_, chan>>
    BY <1>5, <1>8 DEF destroyConnection
  <2> DEFINE g == [op |-> "connectDestroyed", conn |-> c]
             N == {<<l, g>>}
  <2>2. "connectDestroyed" \in Op
    BY DEF Op
  <2>3. /\ Grown(N) /\ Len(funcs_[l]) \in Nat
        /\ \A i \in Nat : i = Len(funcs_[l]) + 1 => i \in Place(l)' /\ At(l, i)' = g
    BY <1>6, <2>1, <2>2, GrownQueue
  <2>4. g.op = "connectDestroyed" /\ g.conn = c
    OBVIOUS
  <2> HIDE DEF g
  <2>5. PICK n \in Nat : n = Len(funcs_[l]) + 1
    BY <2>3, SMT
  <2>6. n \in Place(l)' /\ n > Len(funcs_[l]) /\ Is(l, n, "connectDestroyed", c)'
    BY <2>3, <2>4, <2>5, SMT DEF Is
  <2>7. FunctorsOK'
    <3>1. \A d \in Conn : /\ Created(d) => loop_'[d] = loop_[d]
                          /\ state_[d] # "kConnecting" => state_'[d] # "kConnecting"
                          /\ state_[d] = "kDisconnected" => state_'[d] = "kDisconnected"
      BY <1>1, <2>1
    <3>2. ASSUME NEW d \in Conn, d \in connections_, d \notin connections_'
          PROVE  \E j \in Place(loop_[d])' : /\ j > Len(funcs_[loop_[d]])
                                             /\ Is(loop_[d], j, "connectDestroyed", d)'
      <4>1. d = c /\ loop_'[d] = l /\ loop_[d] = l
        BY <1>1, <1>5, <3>2
      <4>2. n \in Place(loop_[d])' /\ Is(loop_[d], n, "connectDestroyed", d)'
        BY <2>6, <4>1 DEF Place, Is, At
      <4> QED BY <2>6, <4>1, <4>2
    <3>3. ASSUME NEW k \in Loop, NEW i \in Place(k)', i > Len(funcs_[k]), At(k, i)'.op # "none"
          PROVE  FunctorOK(k, i)'
      <4>1. ~(i \in Place(k))
        BY <3>3, NewPlace
      <4>2. k = l /\ At(k, i)' = g
        BY <2>3, <3>3, <4>1 DEF Grown
      <4> QED BY <1>1, <1>5, <2>4, <4>2 DEF FunctorOK
    <3> HIDE DEF N
    <3> QED BY <2>3, <3>1, <3>2, <3>3, FunctorsGrown DEF General
  <2> HIDE DEF N
  <2>8. \A k \in Loop, d \in Conn : Has(k, "connectDestroyed", d) => Has(k, "connectDestroyed", d)'
    BY <1>1, <2>2, <2>3, HasGrown
  <2>9. LoopsOK'
    BY <1>1, <1>2, <1>3, <2>1, FrameLoops
  <2>10. ASSUME NEW d \in Conn PROVE ConnOK(d)'
    <3>1. ConnOK(d)
      BY DEF General, ConnsOK
    <3> QED BY <1>1, <2>1, <3>1 DEF ConnOK, Created, Up, chan
  <2>11. ASSUME NEW k \in Loop, NEW h \in Fd PROVE ChannelOK(k, h)'
    <3>1. ChannelOK(k, h)
      BY DEF General, ChannelsOK
    <3>2. channels_[k][h] # None => channels_[k][h] \in Conn
      BY ChannelTypes
    <3>3. CASE channels_[k][h] = c
      <4>1. k = l
        BY <1>5, <3>1, <3>3 DEF ChannelOK
      <4>2. Has(k, "connectDestroyed", c)'
        BY <2>6, <4>1 DEF Has
      <4> QED BY <1>1, <2>1, <3>1, <3>3, <4>2 DEF ChannelOK, chan
    <3>4. CASE channels_[k][h] # c
      BY <1>1, <2>1, <2>8, <3>1, <3>2, <3>4 DEF ChannelOK, chan
    <3> QED BY <3>3, <3>4
  <2>12. ActivesOK'
    BY <1>1, <2>1 DEF General, ActivesOK, ActiveOK, Up, chan
  <2> QED BY <1>1, <1>2, <2>7, <2>9, <2>10, <2>11, <2>12 DEF General, ConnsOK, ChannelsOK
<1> QED BY <1>7, <1>8

\* Every step that fails no assert.
LEMMA GeneralNext ==
    ASSUME Typed, Typed', CallersOK, General, Next, failed' = None, overwritten' = {}
    PROVE  General'
<1>1. ASSUME NEW l \in Loop, LoopStep(l) PROVE General'
  BY <1>1, GeneralPoll, GeneralMessage, GeneralEof, GeneralCloseDone, GeneralEventsDone,
     GeneralTake, GeneralRunEstablished, GeneralRunDestroyed, GeneralRunRemove,
     GeneralForceClose, GeneralTestQuit DEF LoopStep
<1>2. CASE DestroyStep \/ destroyServer
  BY <1>2, GeneralServer, GeneralDestroyConnection DEF DestroyStep
<1>3. CASE \E c \in Conn, f \in Fd : newConnection(c, f)
  BY <1>3, GeneralNew
<1>4. CASE \E t \in Thread : CallerStep(t)
  BY <1>4, GeneralCaller
<1> QED BY <1>1, <1>2, <1>3, <1>4 DEF Next

-----------------------------------------------------------------------------
(* While the server lives.                                                  *)

\* No thread gets hold of a connection that is freed.
Kept == \A c \in Conn : Freed(c) => \A t \in Thread : caller'[t].conn # c

\* A connection that is freed is in no functor, and no thread has it.
LEMMA FreedNowhere ==
    ASSUME Typed, NEW c \in Conn, Freed(c)
    PROVE  /\ Created(c) /\ c \notin connections_
           /\ \A k \in Loop : closing[k] # c
           /\ \A t \in Thread : caller[t].conn # c
           /\ \A k \in Loop : \A i \in Place(k) : At(k, i).conn # c
<1>1. Created(c) /\ ~Referenced(c)
  BY DEF Freed
<1>2. ASSUME NEW k \in Loop, NEW i \in Place(k) PROVE At(k, i).conn # c
  <2>1. i = 0 \/ i \in 1 .. Len(funcs_[k])
    BY SMT DEF Place, Typed
  <2> QED BY <1>1, <2>1 DEF At, Referenced, InFunctor
<1> QED BY <1>1, <1>2 DEF Referenced

\* A freed connection stays so, when no functor gets it.
LEMMA FreedStays ==
    ASSUME Typed, Typed', Kept, NEW c \in Conn, Freed(c), loop_'[c] = loop_[c],
           c \notin connections_', \A k \in Loop : closing'[k] # c,
           \A k \in Loop : \A i \in Place(k)' : At(k, i)'.conn # c
    PROVE  Freed(c)'
<1>1. Created(c)'
  BY DEF Freed, Created
<1>2. ASSUME NEW k \in Loop PROVE ~InFunctor(c, k)'
  <2>1. Len(funcs_'[k]) \in Nat
    BY SMT DEF Typed
  <2>2. 0 \in Place(k)' /\ At(k, 0)' = func'[k]
    BY <2>1, SMT DEF Place, At
  <2>3. ASSUME NEW i \in 1 .. Len(funcs_'[k]) PROVE funcs_'[k][i].conn # c
    <3>1. i \in Place(k)' /\ i # 0
      <4>1. i \in 0 .. Len(funcs_'[k]) /\ i # 0
        BY <2>1, SMT
      <4> QED BY <4>1 DEF Place
    <3>2. At(k, i)' = funcs_'[k][i]
      BY <3>1 DEF At
    <3> QED BY <3>1, <3>2
  <2> QED BY <2>2, <2>3 DEF InFunctor
<1> QED BY <1>1, <1>2 DEF Freed, Referenced, Kept

\* A freed connection stays so in a step that runs or queues functors of others.
LEMMA FreedGrown ==
    ASSUME Typed, Typed', Kept, NEW N, Grown(N), NEW c \in Conn, Freed(c), loop_'[c] = loop_[c],
           c \notin connections_', \A k \in Loop : closing'[k] # c,
           \A k \in Loop : func'[k].conn = func[k].conn,
           \A k \in Loop : \A i \in Place(k)' : i > Len(funcs_[k]) => At(k, i)'.conn # c
    PROVE  Freed(c)'
<1>1. \A k \in Loop : \A i \in Place(k) : At(k, i).conn # c
  BY FreedNowhere
<1>2. ASSUME NEW k \in Loop, NEW i \in Place(k)' PROVE At(k, i)'.conn # c
  <2>1. Len(funcs_[k]) \in Nat /\ Len(funcs_'[k]) \in Nat
    <3>1. funcs_ \in [Loop -> Seq(Functor)] /\ funcs_' \in [Loop -> Seq(Functor)]
      BY DEF Typed
    <3> QED BY <3>1, SMT
  <2>2. CASE i = 0
    <3>1. 0 \in Place(k) /\ At(k, 0).conn = func[k].conn /\ At(k, 0)'.conn = func'[k].conn
      <4>1. 0 \in Place(k)
        BY <2>1, SMT DEF Place
      <4>2. At(k, 0) = func[k] /\ At(k, 0)' = func'[k]
        BY DEF At
      <4> QED BY <4>1, <4>2
    <3> QED BY <1>1, <2>2, <3>1
  <2>3. CASE i \in 1 .. Len(funcs_[k])
    <3>1. At(k, i)' = At(k, i) /\ i \in Place(k)
      <4>1. i \in 0 .. Len(funcs_[k])
        BY <2>1, <2>3, SMT
      <4> QED BY <2>3, <4>1 DEF Grown, Place
    <3> QED BY <1>1, <3>1
  <2>4. CASE i > Len(funcs_[k])
    BY <2>4
  <2>5. i \in Nat
    BY <2>1, SMT DEF Place
  <2> QED BY <2>1, <2>2, <2>3, <2>4, <2>5, SMT
<1> QED BY <1>2, FreedStays

\* The functor that was queued last is the only one of its kind.
LEMMA OnceQueued ==
    ASSUME Typed, NEW l \in Loop, NEW op \in Op, NEW c \in Conn, Ran, queueInLoop(l, op, c),
           \A i \in Place(l) : ~Is(l, i, op, c)
    PROVE  Once(l, op, c)'
<1>1. Grown({<<l, [op |-> op, conn |-> c]>>}) /\ Len(funcs_[l]) \in Nat
  BY GrownQueue
<1>2. Place(l)' = 0 .. Len(funcs_[l]) + 1
  BY <1>1, SMT DEF queueInLoop, Place, Typed
<1>3. op # "none"
  BY DEF Op
<1>4. ASSUME NEW i \in Place(l)', Is(l, i, op, c)' PROVE i = Len(funcs_[l]) + 1
  <2>1. ~(i \in Place(l) /\ At(l, i)' = At(l, i))
    BY <1>4 DEF Is
  <2>2. i > Len(funcs_[l])
    BY <1>1, <1>3, <1>4, <2>1 DEF Grown, Is
  <2> QED BY <1>1, <1>2, <2>2, SMT
<1> QED BY <1>4 DEF Once

\* The functors of a living server stay in order.
LEMMA AliveFunctorsGrown ==
    ASSUME Typed, Typed', AliveFunctors, NEW N, Grown(N),
           \A k \in Loop : \A i \in Place(k) : \A c \in Conn :
              i \in Place(k)' /\ Is(k, i, "connectEstablished", c) /\ Is(k, i, "connectEstablished", c)'
                 => state_'[c] = "kConnecting",
           \A k \in Loop : \A i \in Place(k) : \A c \in Conn :
              i \in Place(k)' /\ Is(k, i, "removeConnectionInLoop", c)
                 /\ Is(k, i, "removeConnectionInLoop", c)' => c \in connections_',
           \A k \in Loop : \A i \in Place(k)' :
              i > Len(funcs_[k]) /\ At(k, i)'.op # "none" => AliveFunctorOK(k, i)'
    PROVE  AliveFunctors'
<1> SUFFICES ASSUME NEW k \in Loop, NEW i \in Place(k)' PROVE AliveFunctorOK(k, i)'
  BY DEF AliveFunctors
<1>1. CASE At(k, i)'.op = "none"
  BY <1>1 DEF AliveFunctorOK
<1>2. CASE i > Len(funcs_[k]) /\ At(k, i)'.op # "none"
  BY <1>2
<1>3. CASE i \in Place(k) /\ At(k, i)' = At(k, i) /\ At(k, i)'.op # "none"
  <2>1. AliveFunctorOK(k, i) /\ At(k, i).op # "none"
    BY <1>3 DEF AliveFunctors
  <2>2. PICK c \in Conn : c = At(k, i).conn
    BY <1>3, <2>1, FunctorTyped
  <2>3. At(k, i)'.conn = c /\ At(k, i)'.op = At(k, i).op
    BY <1>3, <2>2
  <2>4. ASSUME NEW op \in {"connectEstablished", "removeConnectionInLoop"}, At(k, i).op = op,
               Once(k, op, c)
        PROVE  Once(k, op, c)'
    <3>1. Is(k, i, op, c) /\ Is(k, i, op, c)'
      BY <2>2, <2>3, <2>4 DEF Is
    <3>2. ASSUME NEW j \in Place(k)', Is(k, j, op, c)', ~Once(k, op, c)' PROVE i = j
      <4>1. CASE j > Len(funcs_[k])
        <5>1. At(k, j)'.op = op /\ At(k, j)'.conn = c /\ At(k, j)'.op # "none"
          BY <3>2 DEF Is
        <5>2. AliveFunctorOK(k, j)'
          BY <4>1, <5>1
        <5> QED BY <3>2, <5>1, <5>2 DEF AliveFunctorOK
      <4>2. CASE j \in Place(k) /\ At(k, j)' = At(k, j)
        <5>1. Is(k, j, op, c)
          BY <3>2, <4>2 DEF Is
        <5> QED BY <1>3, <2>4, <3>1, <4>2, <5>1 DEF Once
      <4>3. At(k, j)'.op # "none"
        BY <3>2 DEF Is
      <4> QED BY <4>1, <4>2, <4>3 DEF Grown
    <3> QED BY <3>2 DEF Once
  <2>5. At(k, i).op = "connectEstablished" =>
           state_'[c] = "kConnecting" /\ Once(k, "connectEstablished", c)'
    BY <1>3, <2>1, <2>2, <2>3, <2>4 DEF AliveFunctorOK, Is
  <2>6. At(k, i).op = "removeConnectionInLoop" =>
           c \in connections_' /\ k = Base /\ Once(k, "removeConnectionInLoop", c)'
    BY <1>3, <2>1, <2>2, <2>3, <2>4 DEF AliveFunctorOK, Is
  <2>7. At(k, i).op # "connectDestroyed"
    BY <2>1 DEF AliveFunctorOK
  <2>8. \A op : Once(k, op, c)' => Once(k, op, At(k, i).conn)'
    BY <2>3 DEF Once, Is
  <2> QED BY <2>3, <2>5, <2>6, <2>7, <2>8 DEF AliveFunctorOK
<1> QED BY <1>1, <1>2, <1>3 DEF Grown

\* The poller has nothing under a free fd.
LEMMA FreeUnregistered ==
    ASSUME Typed, General, NEW f \in Fd, FreeFd(f), NEW l \in Loop
    PROVE  channels_[l][f] = None
<1> SUFFICES ASSUME channels_[l][f] # None PROVE FALSE
  OBVIOUS
<1>1. PICK d \in Conn : d = channels_[l][f]
  BY RegisteredReferenced
<1>2. ChannelOK(l, f) /\ ~Freed(d)
  BY <1>1, RegisteredReferenced DEF General, ChannelsOK
<1>3. fd[d] = f
  BY <1>1, <1>2 DEF ChannelOK
<1> QED BY <1>2, <1>3 DEF FreeFd

\* The functor a loop of a living server runs.
LEMMA AliveRunning ==
    ASSUME Typed, General, Alive, NEW l \in Loop, NEW op \in Op, Runs(l, op)
    PROVE  /\ func[l].op = op /\ func[l].conn \in Conn /\ ~Freed(func[l].conn)
           /\ 0 \in Place(l) /\ At(l, 0) = func[l] /\ FunctorOK(l, 0) /\ AliveFunctorOK(l, 0)
<1>1. 0 \in Place(l) /\ At(l, 0) = func[l] /\ FunctorOK(l, 0)
  BY Running
<1>2. AliveFunctorOK(l, 0)
  BY <1>1 DEF Alive, AliveFunctors
<1>3. func[l].op = op /\ func[l].conn \in Conn
  BY DEF Runs, Typed, Op
<1>4. ~Freed(func[l].conn)
  BY DEF Freed, Referenced, InFunctor
<1> QED BY <1>1, <1>2, <1>3, <1>4

\* A connection that is up is in the map of a living server.
LEMMA UpMapped ==
    ASSUME Typed, General, Alive, NEW c \in Conn, Up(c)
    PROVE  c \in connections_ /\ Created(c)
<1>1. ConnOK(c)
  BY DEF General, ConnsOK
<1>2. Created(c)
  BY <1>1 DEF ConnOK
<1> QED BY <1>2 DEF Alive, LeftClosed, Up

\* While the server lives no assert fails.
LEMMA AliveAsserts ==
    ASSUME Typed, General, Alive, failed = None, server = "alive", [Next]_vars
    PROVE  failed' = None
<1> USE NoneAssumption
<1>1. ASSUME NEW c \in Conn, NEW f \in Fd, newConnection(c, f) PROVE failed' = None
  <2>1. state_[c] = "kConnecting" /\ channels_[Base][f] = None
    BY <1>1, NewIsNowhere, FreeUnregistered, NextLoop DEF newConnection, accepts
  <2> QED BY <1>1, <2>1 DEF newConnection, connectEstablished, Register
<1>2. ASSUME NEW l \in Loop, runEstablished(l) PROVE failed' = None
  <2>1. "connectEstablished" \in Op /\ Runs(l, "connectEstablished")
    BY <1>2 DEF Op, runEstablished
  <2>2. PICK c \in Conn : c = func[l].conn
    BY <2>1, AliveRunning
  <2>3. /\ func[l].op = "connectEstablished" /\ ~Freed(c) /\ At(l, 0) = func[l]
        /\ FunctorOK(l, 0) /\ AliveFunctorOK(l, 0)
    BY <2>1, <2>2, AliveRunning
  <2>4. state_[c] = "kConnecting" /\ loop_[c] = l
    BY <2>2, <2>3 DEF FunctorOK, AliveFunctorOK
  <2>5. fd[c] \in Fd
    BY <2>4, Placed DEF Created
  <2>6. ASSUME channels_[l][fd[c]] # None PROVE FALSE
    <3>1. PICK d \in Conn : d = channels_[l][fd[c]]
      BY <2>5, <2>6, RegisteredReferenced
    <3>2. ChannelOK(l, fd[c]) /\ ~Freed(d)
      BY <2>5, <2>6, <3>1, RegisteredReferenced DEF General, ChannelsOK
    <3>3. fd[d] = fd[c] /\ d # c
      BY <2>4, <2>6, <3>1, <3>2 DEF ChannelOK
    <3> QED BY <2>3, <2>5, <3>2, <3>3 DEF Alive, FdsApart
  <2> QED BY <1>2, <2>2, <2>4, <2>6 DEF runEstablished, connectEstablished, Register
<1>3. ASSUME NEW l \in Loop, runDestroyed(l) PROVE FALSE
  <2>1. "connectDestroyed" \in Op /\ Runs(l, "connectDestroyed")
    BY <1>3 DEF Op, runDestroyed
  <2> QED BY <2>1, AliveRunning, SMT DEF AliveFunctorOK
<1>4. ASSUME NEW l \in Loop, runRemove(l) PROVE failed' = None
  <2>1. "removeConnectionInLoop" \in Op /\ Runs(l, "removeConnectionInLoop")
    BY <1>4 DEF Op, runRemove
  <2>2. func[l].conn \in connections_
    BY <2>1, AliveRunning, SMT DEF AliveFunctorOK
  <2> QED BY <1>4, <2>2 DEF runRemove, removeConnectionInLoop
<1>5. ASSUME NEW l \in Loop, NEW c \in Conn, handleClose(l, c), Up(c) PROVE failed' = None
  <2>1. c \in connections_ /\ ~Registers(c)
    BY <1>5, UpMapped DEF General, ConnsOK, ConnOK, Registers
  <2> QED BY <1>5, <2>1 DEF handleClose, removeConnectionInLoop
<1>6. ASSUME NEW l \in Loop, NEW c \in Conn, handleEof(l, c) PROVE failed' = None
  <2>1. Up(c)
    BY <1>6 DEF handleEof, Handles, General, ActivesOK, ActiveOK
  <2> QED BY <1>5, <1>6, <2>1 DEF handleEof
<1>7. ASSUME NEW l \in Loop, forceCloseInLoop(l) PROVE failed' = None
  <2>1. "forceCloseInLoop" \in Op /\ Runs(l, "forceCloseInLoop")
    BY <1>7 DEF Op, forceCloseInLoop
  <2>2. func[l].conn \in Conn
    BY <2>1, AliveRunning
  <2> QED BY <1>5, <1>7, <2>2 DEF forceCloseInLoop
<1>8. ASSUME NEW l \in Loop, closeDone(l) PROVE failed' = None
  <2>1. PICK c \in Conn : c = closing[l]
    BY <1>8 DEF closeDone, Typed
  <2>2. LoopOK(l)
    BY DEF General, LoopsOK
  <2>3. /\ loop_[c] = l /\ state_[c] = "kDisconnected" /\ channels_[l][fd[c]] = c
        /\ ~events_[c] /\ index_[c] # "kNew"
    BY <2>1, <2>2 DEF LoopOK
  <2>4. connectDestroyed(c)
    BY <1>8, <2>1 DEF closeDone
  <2> QED BY <2>3, <2>4 DEF connectDestroyed, RemoveChannel
<1>9. ASSUME NEW l \in Loop, LoopStep(l) PROVE failed' = None
  BY <1>2, <1>3, <1>4, <1>6, <1>7, <1>8, <1>9
     DEF LoopStep, poll, message, eventsDone, takeFunctor, testQuit
<1>10. CASE DestroyStep \/ destroyServer
  BY <1>10 DEF DestroyStep, destroyServer, resetThreadPool, joined, destroyConnection
<1>11. ASSUME NEW t \in Thread, CallerStep(t) PROVE failed' = None
  BY <1>11 DEF CallerStep, hold, test, Goes, set, callLoop, release, Ended
<1>12. CASE UNCHANGED vars
  BY <1>12 DEF vars
<1> QED BY <1>1, <1>9, <1>10, <1>11, <1>12 DEF Next

\* The two facts about connections, in a step that frees none of them again.
LEMMA AliveConns ==
    ASSUME Typed, Alive, UNCHANGED <<fd, loop_>>,
           \A c \in Conn : Freed(c) => Freed(c)',
           \A c \in Conn : state_[c] = "kDisconnected" => state_'[c] = "kDisconnected",
           \A c \in connections_ : c \in connections_' \/ state_'[c] = "kDisconnected"
    PROVE  LeftClosed' /\ FdsApart'
<1>1. LeftClosed'
  BY DEF Alive, LeftClosed, Created
<1>2. FdsApart'
  BY DEF Alive, FdsApart
<1> QED BY <1>1, <1>2

\* A step that changes no connection, no functor and no handler.
LEMMA AliveSame ==
    ASSUME Typed, Alive, Kept, UNCHANGED <<connections_, fd, loop_, state_, funcs_, func, closing>>
    PROVE  Alive'
<1>1. AliveFunctors'
  <2>1. AliveFunctors
    BY DEF Alive
  <2>2. \A k : Place(k)' = Place(k) /\ \A i : At(k, i)' = At(k, i)
    BY DEF Place, At
  <2>3. \A k, op, c : Once(k, op, c) => Once(k, op, c)'
    BY <2>2, SMT DEF Once, Is
  <2> SUFFICES ASSUME NEW k \in Loop, NEW i \in Place(k) PROVE AliveFunctorOK(k, i)'
    BY <2>2 DEF AliveFunctors
  <2>4. AliveFunctorOK(k, i) /\ At(k, i)' = At(k, i)
    BY <2>1, <2>2 DEF AliveFunctors
  <2> QED BY <2>3, <2>4 DEF AliveFunctorOK
<1>2. \A c \in Conn : Freed(c) => Freed(c)'
  BY DEF Freed, Created, Referenced, InFunctor, Kept
<1> QED BY <1>1, <1>2, AliveConns DEF Alive

\* A step that runs or queues functors, on connections that are there.
LEMMA AliveStep ==
    ASSUME Typed, Typed', Alive, Kept, UNCHANGED <<fd, loop_>>, NEW N, Grown(N),
           \A k \in Loop : func'[k].conn = func[k].conn,
           connections_' \subseteq connections_,
           \A c \in Conn : state_[c] = "kDisconnected" => state_'[c] = "kDisconnected",
           \A c \in connections_ : c \in connections_' \/ state_'[c] = "kDisconnected",
           \A c \in Conn, k \in Loop : Freed(c) => closing'[k] # c,
           \A k \in Loop : \A i \in Place(k) : \A c \in Conn :
              i \in Place(k)' /\ Is(k, i, "connectEstablished", c) /\ Is(k, i, "connectEstablished", c)'
                 => state_'[c] = "kConnecting",
           \A k \in Loop : \A i \in Place(k) : \A c \in Conn :
              i \in Place(k)' /\ Is(k, i, "removeConnectionInLoop", c)
                 /\ Is(k, i, "removeConnectionInLoop", c)' => c \in connections_',
           \A k \in Loop : \A i \in Place(k)' :
              i > Len(funcs_[k]) => /\ AliveFunctorOK(k, i)'
                                    /\ \A c \in Conn : Freed(c) => At(k, i)'.conn # c
    PROVE  Alive'
<1>1. AliveFunctors'
  BY AliveFunctorsGrown DEF Alive
<1>2. ASSUME NEW c \in Conn, Freed(c) PROVE Freed(c)'
  <2>1. c \notin connections_
    BY <1>2, FreedNowhere
  <2> QED BY <1>2, <2>1, FreedGrown, SMT
<1>3. LeftClosed' /\ FdsApart'
  BY <1>2, AliveConns
<1> QED BY <1>1, <1>3 DEF Alive

\* A step that queues nothing.
LEMMA AliveQuiet ==
    ASSUME Typed, Typed', Alive, Kept, UNCHANGED <<fd, loop_, funcs_>>, Ran,
           \A k \in Loop : func'[k].conn = func[k].conn,
           connections_' \subseteq connections_,
           \A c \in Conn : state_[c] = "kDisconnected" => state_'[c] = "kDisconnected",
           \A c \in connections_ : c \in connections_' \/ state_'[c] = "kDisconnected",
           \A c \in Conn, k \in Loop : Freed(c) => closing'[k] # c,
           \A k \in Loop : \A i \in Place(k) : \A c \in Conn :
              i \in Place(k)' /\ Is(k, i, "connectEstablished", c) /\ Is(k, i, "connectEstablished", c)'
                 => state_'[c] = "kConnecting",
           \A k \in Loop : \A i \in Place(k) : \A c \in Conn :
              i \in Place(k)' /\ Is(k, i, "removeConnectionInLoop", c)
                 /\ Is(k, i, "removeConnectionInLoop", c)' => c \in connections_'
    PROVE  Alive'
<1>1. Grown({})
  BY GrownSame
<1>2. \A k \in Loop : \A i \in Place(k)' : ~(i > Len(funcs_[k]))
  BY SamePlace
<1> QED BY <1>1, <1>2, AliveStep

\* The functors of a living server, one by one.
LEMMA AliveIs ==
    ASSUME Typed, General, Alive, NEW k \in Loop, NEW i \in Place(k), NEW c \in Conn
    PROVE  /\ Is(k, i, "connectEstablished", c) => /\ state_[c] = "kConnecting" /\ loop_[c] = k
                                                   /\ Once(k, "connectEstablished", c)
           /\ Is(k, i, "removeConnectionInLoop", c) =>
                 /\ state_[c] = "kDisconnected" /\ c \in connections_ /\ k = Base
                 /\ Once(k, "removeConnectionInLoop", c)
<1>1. FunctorOK(k, i) /\ AliveFunctorOK(k, i)
  BY DEF General, FunctorsOK, Alive, AliveFunctors
<1> QED BY <1>1 DEF FunctorOK, AliveFunctorOK, Is

\* handleClose up to connectDestroyed.
LEMMA AliveClose ==
    ASSUME Typed, Typed', General, Alive, Kept, NEW l \in Loop, NEW c \in Conn, handleClose(l, c), Up(c),
           failed' = None, Ran, \A k \in Loop : func'[k].conn = func[k].conn
    PROVE  Alive'
<1> USE NoneAssumption
<1>0. index_[c] # "kNew"
  BY DEF General, ConnsOK, ConnOK
<1>1. /\ state_' = [state_ EXCEPT ![c] = "kDisconnected"] /\ closing' = [closing EXCEPT ![l] = c]
      /\ UNCHANGED <<fd, loop_>>
  BY <1>0 DEF handleClose, Registers
<1>2. /\ state_'[c] = "kDisconnected" /\ closing'[l] = c
      /\ \A d \in Conn : d # c => state_'[d] = state_[d]
      /\ \A k \in Loop : k # l => closing'[k] = closing[k]
  BY <1>1, ConnTypes, LoopTypes
<1>3. c \in connections_ /\ ~Freed(c)
  BY UpMapped DEF Freed, Referenced
<1>4. \A d \in Conn, k \in Loop : Freed(d) => closing'[k] # d
  BY <1>2, <1>3, FreedNowhere
<1>5. \A k \in Loop : \A i \in Place(k) : \A d \in Conn :
         /\ Is(k, i, "connectEstablished", d) => state_'[d] = "kConnecting"
         /\ Is(k, i, "removeConnectionInLoop", d) => d \in connections_ /\ d # c
  <2> SUFFICES ASSUME NEW k \in Loop, NEW i \in Place(k), NEW d \in Conn
               PROVE  /\ Is(k, i, "connectEstablished", d) => state_'[d] = "kConnecting"
                      /\ Is(k, i, "removeConnectionInLoop", d) => d \in connections_ /\ d # c
    OBVIOUS
  <2>1. /\ Is(k, i, "connectEstablished", d) => state_[d] = "kConnecting"
        /\ Is(k, i, "removeConnectionInLoop", d) =>
              d \in connections_ /\ state_[d] = "kDisconnected"
    BY AliveIs
  <2>2. state_[c] # "kConnecting" /\ state_[c] # "kDisconnected"
    BY DEF Up
  <2> QED BY <1>2, <2>1, <2>2
<1>6. CASE l = Base
  <2>1. UNCHANGED funcs_ /\ connections_' = connections_ \ {c}
    BY <1>0, <1>3, <1>6 DEF handleClose, Registers, removeConnectionInLoop
  <2> QED BY <1>1, <1>2, <1>4, <1>5, <2>1, AliveQuiet, SMT
<1>7. CASE l # Base
  <2>1. queueInLoop(Base, "removeConnectionInLoop", c) /\ UNCHANGED connections_
    BY <1>0, <1>7 DEF handleClose, Registers
  <2> DEFINE g == [op |-> "removeConnectionInLoop", conn |-> c]
             N == {<<Base, g>>}
  <2>2. "removeConnectionInLoop" \in Op /\ Base \in Loop
    BY NextLoop DEF Op
  <2>3. Grown(N)
    BY <2>1, <2>2, GrownQueue
  <2>4. Once(Base, "removeConnectionInLoop", c)'
    BY <1>5, <2>1, <2>2, OnceQueued
  <2>5. g.op = "removeConnectionInLoop" /\ g.conn = c
    OBVIOUS
  <2> HIDE DEF g
  <2>6. ASSUME NEW k \in Loop, NEW i \in Place(k)', i > Len(funcs_[k])
        PROVE  AliveFunctorOK(k, i)' /\ \A d \in Conn : Freed(d) => At(k, i)'.conn # d
    <3>1. ~(i \in Place(k)) /\ i # 0 /\ i \in 1 .. Len(funcs_'[k])
      BY <2>6, NewPlace
    <3>2. At(k, i)'.op # "none"
      <4>1. At(k, i)' = funcs_'[k][i]
        BY <3>1 DEF At
      <4>2. funcs_'[k][i] \in Functor
        BY <3>1, SeqElement DEF Typed
      <4> QED BY <4>1, <4>2 DEF Functor, Op
    <3>3. k = Base /\ At(k, i)' = g
      BY <2>3, <2>6, <3>1, <3>2 DEF Grown
    <3>4. Once(k, "removeConnectionInLoop", At(k, i).conn)'
      BY <2>4, <2>5, <3>3 DEF Once, Is, At, Place
    <3> QED BY <1>3, <2>1, <2>5, <3>3, <3>4 DEF AliveFunctorOK
  <2> HIDE DEF N
  <2>7. /\ UNCHANGED <<fd, loop_>> /\ connections_' \subseteq connections_
        /\ \A d \in Conn : state_[d] = "kDisconnected" => state_'[d] = "kDisconnected"
        /\ \A d \in connections_ : d \in connections_' \/ state_'[d] = "kDisconnected"
    BY <1>1, <1>2, <2>1
  <2>8. /\ \A k \in Loop : \A i \in Place(k) : \A d \in Conn :
              i \in Place(k)' /\ Is(k, i, "connectEstablished", d) /\ Is(k, i, "connectEstablished", d)'
                 => state_'[d] = "kConnecting"
        /\ \A k \in Loop : \A i \in Place(k) : \A d \in Conn :
              i \in Place(k)' /\ Is(k, i, "removeConnectionInLoop", d)
                 /\ Is(k, i, "removeConnectionInLoop", d)' => d \in connections_'
    BY <1>5, <2>1
  <2> QED BY <1>4, <2>3, <2>6, <2>7, <2>8, AliveStep
<1> QED BY <1>6, <1>7

\* What a run leaves of the functors.
LEMMA RunsEffect ==
    ASSUME Typed, NEW l \in Loop, NEW op \in Op, Runs(l, op)
    PROVE  /\ Ran /\ \A k \in Loop : func'[k].conn = func[k].conn
           /\ At(l, 0)'.op = "none"
<1>1. func' = [func EXCEPT ![l].op = "none"]
  BY DEF Runs
<1>2. func'[l].op = "none" /\ func'[l].conn = func[l].conn
  BY <1>1, SMT DEF Typed
<1>3. \A k \in Loop : k # l => func'[k] = func[k]
  BY <1>1 DEF Typed
<1> QED BY <1>2, <1>3 DEF Ran, At

\* The peer has closed.
LEMMA AliveEof ==
    ASSUME Typed, Typed', General, Alive, Kept, NEW l \in Loop, NEW c \in Conn, handleEof(l, c), failed' = None
    PROVE  Alive'
<1>1. Up(c)
  BY DEF handleEof, Handles, General, ActivesOK, ActiveOK
<1> QED BY <1>1, AliveClose DEF handleEof, Ran

\* forceCloseInLoop.
LEMMA AliveForceClose ==
    ASSUME Typed, Typed', General, Alive, Kept, NEW l \in Loop, forceCloseInLoop(l), failed' = None
    PROVE  Alive'
<1>1. "forceCloseInLoop" \in Op /\ Runs(l, "forceCloseInLoop")
  BY DEF Op, forceCloseInLoop
<1>2. PICK c \in Conn : c = func[l].conn
  BY <1>1, AliveRunning
<1>3. Ran /\ \A k \in Loop : func'[k].conn = func[k].conn
  BY <1>1, RunsEffect
<1>4. CASE Up(c)
  BY <1>2, <1>3, <1>4, AliveClose DEF forceCloseInLoop
<1>5. CASE ~Up(c)
  <2>1. UNCHANGED <<connections_, fd, loop_, state_, funcs_, closing>>
    BY <1>2, <1>5 DEF forceCloseInLoop, serverVars
  <2>2. \A d \in Conn, k \in Loop : Freed(d) => closing'[k] # d
    BY <2>1, FreedNowhere
  <2>3. \A k \in Loop : \A i \in Place(k) : \A d \in Conn :
           /\ Is(k, i, "connectEstablished", d) => state_'[d] = "kConnecting"
           /\ Is(k, i, "removeConnectionInLoop", d) => d \in connections_'
    BY <2>1, AliveIs
  <2> QED BY <1>3, <2>1, <2>2, <2>3, AliveQuiet
<1> QED BY <1>4, <1>5

\* The end of removeConnection.
LEMMA AliveCloseDone ==
    ASSUME Typed, Typed', General, Alive, Kept, NEW l \in Loop, closeDone(l)
    PROVE  Alive'
<1> USE NoneAssumption
<1>1. PICK c \in Conn : c = closing[l]
  BY DEF closeDone, Typed
<1>2. LoopOK(l)
  BY DEF General, LoopsOK
<1>3. state_[c] = "kDisconnected"
  BY <1>1, <1>2 DEF LoopOK
<1>4. UNCHANGED <<connections_, fd, loop_, state_, funcs_, func>>
  BY <1>1, <1>3 DEF closeDone, connectDestroyed, serverVars
<1>5. \A k \in Loop : closing'[k] \in {closing[k], None}
  BY DEF closeDone, Typed
<1>6. \A d \in Conn, k \in Loop : Freed(d) => closing'[k] # d
  BY <1>5, FreedNowhere
<1>7. \A k \in Loop : \A i \in Place(k) : \A d \in Conn :
         /\ Is(k, i, "connectEstablished", d) => state_'[d] = "kConnecting"
         /\ Is(k, i, "removeConnectionInLoop", d) => d \in connections_'
  BY <1>4, AliveIs
<1>8. Ran
  BY <1>4 DEF Ran
<1> QED BY <1>4, <1>6, <1>7, <1>8, AliveQuiet

\* connectEstablished, queued by newConnection.
LEMMA AliveRunEstablished ==
    ASSUME Typed, Typed', General, Alive, Kept, NEW l \in Loop, runEstablished(l), failed' = None
    PROVE  Alive'
<1> USE NoneAssumption
<1>1. "connectEstablished" \in Op /\ Runs(l, "connectEstablished")
  BY DEF Op, runEstablished
<1>2. PICK c \in Conn : c = func[l].conn
  BY <1>1, AliveRunning
<1>3. /\ func[l].op = "connectEstablished" /\ ~Freed(c) /\ 0 \in Place(l) /\ At(l, 0) = func[l]
  BY <1>1, <1>2, AliveRunning
<1>4. Is(l, 0, "connectEstablished", c)
  BY <1>2, <1>3 DEF Is
<1>5. Ran /\ (\A k \in Loop : func'[k].conn = func[k].conn) /\ At(l, 0)'.op = "none"
  BY <1>1, RunsEffect
<1>6. UNCHANGED <<connections_, fd, loop_, funcs_, closing>>
  BY DEF runEstablished, serverVars
<1>7. state_[c] = "kConnecting" /\ loop_[c] = l /\ Once(l, "connectEstablished", c)
  BY <1>3, <1>4, AliveIs
<1>8. \A d \in Conn : d # c => state_'[d] = state_[d]
  BY <1>2, SMT DEF runEstablished, connectEstablished, Typed
<1>9. \A d \in Conn : state_[d] = "kDisconnected" => state_'[d] = "kDisconnected"
  BY <1>7, <1>8
<1>10. \A d \in Conn, k \in Loop : Freed(d) => closing'[k] # d
  BY <1>6, FreedNowhere
<1>11. \A k \in Loop : \A i \in Place(k) : \A d \in Conn :
          Is(k, i, "removeConnectionInLoop", d) => d \in connections_'
  BY <1>6, AliveIs
<1>12. ASSUME NEW k \in Loop, NEW i \in Place(k), NEW d \in Conn,
              Is(k, i, "connectEstablished", d), Is(k, i, "connectEstablished", d)'
       PROVE  state_'[d] = "kConnecting"
  <2>1. state_[d] = "kConnecting" /\ loop_[d] = k
    BY <1>12, AliveIs
  <2>2. ASSUME d = c PROVE FALSE
    <3>1. k = l
      BY <1>7, <2>1, <2>2
    <3>2. i = 0
      BY <1>3, <1>4, <1>7, <1>12, <2>2, <3>1 DEF Once
    <3> QED BY <1>5, <1>12, <3>1, <3>2 DEF Is
  <2> QED BY <1>8, <2>1, <2>2
<1> QED BY <1>5, <1>6, <1>9, <1>10, <1>11, <1>12, AliveQuiet

\* removeConnectionInLoop, queued by removeConnection.
LEMMA AliveRunRemove ==
    ASSUME Typed, Typed', General, Alive, Kept, NEW l \in Loop, runRemove(l), failed' = None
    PROVE  Alive'
<1> USE NoneAssumption
<1>1. "removeConnectionInLoop" \in Op /\ Runs(l, "removeConnectionInLoop")
  BY DEF Op, runRemove
<1>2. PICK c \in Conn : c = func[l].conn
  BY <1>1, AliveRunning
<1>3. func[l].op = "removeConnectionInLoop" /\ 0 \in Place(l) /\ At(l, 0) = func[l]
  BY <1>1, <1>2, AliveRunning
<1>4. Is(l, 0, "removeConnectionInLoop", c)
  BY <1>2, <1>3 DEF Is
<1>5. Ran /\ (\A k \in Loop : func'[k].conn = func[k].conn) /\ At(l, 0)'.op = "none"
  BY <1>1, RunsEffect
<1>6. UNCHANGED <<state_, fd, loop_, funcs_, closing>> /\ connections_' = connections_ \ {c}
  BY <1>2 DEF runRemove, removeConnectionInLoop
<1>7. state_[c] = "kDisconnected" /\ l = Base /\ Once(l, "removeConnectionInLoop", c)
  BY <1>3, <1>4, AliveIs
<1>8. \A d \in Conn, k \in Loop : Freed(d) => closing'[k] # d
  BY <1>6, FreedNowhere
<1>9. \A k \in Loop : \A i \in Place(k) : \A d \in Conn :
         Is(k, i, "connectEstablished", d) => state_'[d] = "kConnecting"
  BY <1>6, AliveIs
<1>10. ASSUME NEW k \in Loop, NEW i \in Place(k), NEW d \in Conn,
              Is(k, i, "removeConnectionInLoop", d), Is(k, i, "removeConnectionInLoop", d)'
       PROVE  d \in connections_'
  <2>1. d \in connections_ /\ k = l
    BY <1>7, <1>10, AliveIs
  <2>2. ASSUME d = c PROVE FALSE
    <3>1. i = 0
      BY <1>3, <1>4, <1>7, <1>10, <2>1, <2>2 DEF Once
    <3> QED BY <1>5, <1>10, <2>1, <3>1 DEF Is
  <2> QED BY <1>6, <2>1, <2>2
<1>11. \A d \in connections_ : d \in connections_' \/ state_'[d] = "kDisconnected"
  BY <1>6, <1>7
<1> QED BY <1>5, <1>6, <1>8, <1>9, <1>10, <1>11, AliveQuiet

\* doPendingFunctors takes the next functor.
LEMMA AliveTake ==
    ASSUME Typed, Typed', General, Alive, Kept, NEW l \in Loop, takeFunctor(l)
    PROVE  Alive'
<1> USE NoneAssumption
<1>1. UNCHANGED <<connections_, fd, loop_, state_, closing>>
  BY DEF takeFunctor, serverVars
<1>2. ASSUME \A c \in Conn : (\A k \in Loop : \A i \in Place(k) : At(k, i).conn # c)
                                => \A k \in Loop : \A i \in Place(k)' : At(k, i)'.conn # c,
             AliveFunctors'
      PROVE  Alive'
  <2>1. ASSUME NEW c \in Conn, Freed(c) PROVE Freed(c)'
    <3>1. /\ c \notin connections_ /\ \A k \in Loop : closing[k] # c
          /\ \A k \in Loop : \A i \in Place(k) : At(k, i).conn # c
      BY <2>1, FreedNowhere
    <3>2. \A k \in Loop : \A i \in Place(k)' : At(k, i)'.conn # c
      BY <1>2, <3>1
    <3> QED BY <1>1, <2>1, <3>1, <3>2, FreedStays
  <2> QED BY <1>1, <1>2, <2>1, AliveConns DEF Alive
<1>3. CASE funcs_[l] = <<>>
  <2>1. func' = [func EXCEPT ![l] = NoFunc] /\ UNCHANGED funcs_
    BY <1>3 DEF takeFunctor
  <2>2. func'[l] = NoFunc /\ \A k \in Loop : k # l => func'[k] = func[k]
    BY <2>1, SMT DEF Typed
  <2>3. \A k \in Loop : Place(k)' = Place(k)
    BY <2>1 DEF Place
  <2>4. \A k \in Loop : \A i \in Place(k) : At(k, i)' = At(k, i) \/ At(k, i)' = NoFunc
    BY <2>1, <2>2 DEF At
  <2>5. \A c \in Conn : NoFunc.conn # c /\ NoFunc.op = "none"
    BY DEF NoFunc
  <2>6. Ran
    BY <2>2, SMT DEF Ran, NoFunc
  <2>7. Grown({})
    BY <2>1, <2>6, GrownSame
  <2>8. \A k \in Loop : \A i \in Place(k)' : ~(i > Len(funcs_[k]))
    BY <2>1, SamePlace
  <2>9. \A k \in Loop : \A i \in Place(k) : \A d \in Conn :
           /\ Is(k, i, "connectEstablished", d) => state_'[d] = "kConnecting"
           /\ Is(k, i, "removeConnectionInLoop", d) => d \in connections_'
    BY <1>1, AliveIs
  <2>10. AliveFunctors'
    BY <2>7, <2>8, <2>9, AliveFunctorsGrown DEF Alive
  <2> QED BY <1>2, <2>3, <2>4, <2>5, <2>10
<1>4. CASE funcs_[l] # <<>>
  <2>1. /\ Len(funcs_[l]) \in Nat \ {0} /\ Len(funcs_'[l]) = Len(funcs_[l]) - 1
        /\ \A i \in Place(l)' : i + 1 \in Place(l) /\ At(l, i)' = At(l, i + 1)
        /\ \A k \in Loop : k # l => funcs_'[k] = funcs_[k] /\ func'[k] = func[k]
    BY <1>4, Taken
  <2>2. \A k \in Loop : k # l => Place(k)' = Place(k) /\ \A i \in Place(k) : At(k, i)' = At(k, i)
    BY <2>1 DEF Place, At
  <2>3. ASSUME NEW c \in Conn, \A k \in Loop : \A i \in Place(k) : At(k, i).conn # c,
               NEW k \in Loop, NEW i \in Place(k)'
        PROVE  At(k, i)'.conn # c
    <3>1. CASE k = l
      BY <2>1, <2>3, <3>1
    <3>2. CASE k # l
      BY <2>2, <2>3, <3>2
    <3> QED BY <3>1, <3>2
  <2>4. ASSUME NEW k \in Loop, NEW i \in Place(k)' PROVE AliveFunctorOK(k, i)'
    <3>1. CASE k # l
      <4>1. AliveFunctorOK(k, i) /\ At(k, i)' = At(k, i) /\ Place(k)' = Place(k)
        BY <2>2, <3>1 DEF Alive, AliveFunctors
      <4>2. ASSUME NEW op, NEW c, Once(k, op, c) PROVE Once(k, op, c)'
        BY <2>2, <3>1, <4>1, <4>2 DEF Once, Is
      <4>3. PICK d : d = At(k, i).conn
        OBVIOUS
      <4>4. \A op : Once(k, op, d)' => Once(k, op, At(k, i).conn)'
        BY <4>1, <4>3 DEF Once, Is
      <4> QED BY <1>1, <4>1, <4>2, <4>3, <4>4 DEF AliveFunctorOK
    <3>2. CASE k = l
      <4> DEFINE m == i + 1
      <4>1. m \in Place(l) /\ At(l, i)' = At(l, m)
        BY <2>1, <3>2
      <4> HIDE DEF m
      <4>2. AliveFunctorOK(l, m)
        BY <4>1 DEF Alive, AliveFunctors
      <4>3. ASSUME NEW op, NEW c, Once(l, op, c) PROVE Once(l, op, c)'
        <5> SUFFICES ASSUME NEW a \in Place(l)', NEW b \in Place(l)', Is(l, a, op, c)', Is(l, b, op, c)'
                     PROVE  a = b
          BY DEF Once
        <5>1. a \in Nat /\ b \in Nat
          BY <2>1, SMT DEF Place
        <5>2. /\ a + 1 \in Place(l) /\ b + 1 \in Place(l)
              /\ Is(l, a + 1, op, c) /\ Is(l, b + 1, op, c)
          BY <2>1 DEF Is
        <5>3. a + 1 = b + 1
          BY <4>3, <5>2 DEF Once
        <5> QED BY <5>1, <5>3, SMT
      <4>4. PICK d : d = At(l, m).conn
        OBVIOUS
      <4>5. \A op : Once(l, op, d)' => Once(l, op, At(l, i).conn)'
        BY <4>1, <4>4 DEF Once, Is
      <4> QED BY <1>1, <3>2, <4>1, <4>2, <4>3, <4>4, <4>5 DEF AliveFunctorOK
    <3> QED BY <3>1, <3>2
  <2> QED BY <1>2, <2>3, <2>4 DEF AliveFunctors
<1> QED BY <1>3, <1>4

\* messageCallback_.
LEMMA AliveMessage ==
    ASSUME Typed, Typed', General, Alive, Kept, NEW l \in Loop, NEW c \in Conn, message(l, c)
    PROVE  Alive'
<1> USE NoneAssumption
<1>1. c \in active[l] /\ UNCHANGED <<connections_, fd, loop_, func, closing>>
  BY DEF message, Handles, serverVars
<1>2. Up(c)
  BY <1>1 DEF General, ActivesOK, ActiveOK
<1>3. ~Freed(c)
  BY <1>2, UpMapped DEF Freed, Referenced
<1>4. \A d \in Conn : d # c => state_'[d] = state_[d]
  BY ConnTypes DEF message
<1>5. \A d \in Conn : state_[d] \in {"kConnecting", "kDisconnected"} => state_'[d] = state_[d]
  BY <1>2, <1>4 DEF Up
<1>6. Ran
  BY <1>1 DEF Ran
<1>7. \A d \in Conn, k \in Loop : Freed(d) => closing'[k] # d
  BY <1>1, FreedNowhere
<1>8. \A k \in Loop : \A i \in Place(k) : \A d \in Conn :
         /\ Is(k, i, "connectEstablished", d) => state_'[d] = "kConnecting"
         /\ Is(k, i, "removeConnectionInLoop", d) => d \in connections_'
  BY <1>1, <1>5, AliveIs
<1>9. CASE UNCHANGED funcs_
  BY <1>1, <1>5, <1>6, <1>7, <1>8, <1>9, AliveQuiet
<1>10. ASSUME NEW n \in 1 .. MaxForceClose,
              funcs_' = [funcs_ EXCEPT ![l] =
                           @ \o [i \in 1 .. n |-> [op |-> "forceCloseInLoop", conn |-> c]]]
       PROVE  Alive'
  <2> DEFINE g == [op |-> "forceCloseInLoop", conn |-> c]
             s == [i \in 1 .. n |-> g]
             N == {<<l, s[j]>> : j \in 1 .. Len(s)}
  <2>1. g \in Functor /\ n \in Nat /\ g.op = "forceCloseInLoop" /\ g.conn = c
    BY BoundAssumption, SMT DEF Functor, Op
  <2> HIDE DEF g
  <2>2. s \in Seq(Functor) /\ Len(s) = n /\ \A j \in 1 .. Len(s) : s[j] = g
    BY <2>1, SMT
  <2>3. funcs_' = [funcs_ EXCEPT ![l] = funcs_[l] \o s]
    BY <1>10 DEF g
  <2> HIDE DEF s
  <2>4. \A j \in 1 .. Len(s) : <<l, s[j]>> \in N
    OBVIOUS
  <2>5. \A k, h : <<k, h>> \in N => h = g
    BY <2>2
  <2> HIDE DEF N
  <2>6. Grown(N)
    BY <1>6, <2>2, <2>3, <2>4, GrownConcat
  <2>7. ASSUME NEW k \in Loop, NEW i \in Place(k)', i > Len(funcs_[k])
        PROVE  AliveFunctorOK(k, i)' /\ \A d \in Conn : Freed(d) => At(k, i)'.conn # d
    <3>1. ~(i \in Place(k)) /\ i # 0 /\ i \in 1 .. Len(funcs_'[k])
      BY <2>7, NewPlace
    <3>2. At(k, i)'.op # "none"
      <4>1. At(k, i)' = funcs_'[k][i]
        BY <3>1 DEF At
      <4>2. funcs_'[k][i] \in Functor
        BY <3>1, SeqElement DEF Typed
      <4> QED BY <4>1, <4>2 DEF Functor, Op
    <3>3. At(k, i)' = g
      BY <2>5, <2>6, <2>7, <3>1, <3>2 DEF Grown
    <3> QED BY <1>3, <2>1, <3>3 DEF AliveFunctorOK
  <2> QED BY <1>1, <1>5, <1>7, <1>8, <2>6, <2>7, AliveStep
<1> QED BY <1>9, <1>10 DEF message

\* newConnection, on the base loop or handed to a loop of the pool.
LEMMA AliveNew ==
    ASSUME Typed, Typed', General, Alive, Kept, NEW c \in Conn, NEW f \in Fd, newConnection(c, f),
           failed' = None
    PROVE  Alive'
<1> USE NoneAssumption
<1>1. PICK l \in Loop : l = nextLoop
  BY NextLoop
<1>2. /\ ~Created(c) /\ FreeFd(f)
      /\ fd' = [fd EXCEPT ![c] = f] /\ loop_' = [loop_ EXCEPT ![c] = l]
      /\ connections_' = connections_ \cup {c} /\ UNCHANGED <<func, closing>>
  BY <1>1 DEF newConnection, accepts, loops
<1>3. /\ fd'[c] = f /\ loop_'[c] = l
      /\ \A d \in Conn : d # c => fd'[d] = fd[d] /\ loop_'[d] = loop_[d]
  BY <1>2, ConnTypes
<1>4. /\ c \notin connections_ /\ state_[c] = "kConnecting"
      /\ \A k \in Loop : \A i \in Place(k) : At(k, i).op # "none" => At(k, i).conn # c
  BY <1>2, NewIsNowhere
<1>5. Ran
  BY <1>2 DEF Ran
<1>6. \A k \in Loop : \A i \in Place(k) : \A d \in Conn :
         /\ Is(k, i, "connectEstablished", d) => state_[d] = "kConnecting" /\ d # c
         /\ Is(k, i, "removeConnectionInLoop", d) => d \in connections_'
  BY <1>2, <1>4, AliveIs, SMT DEF Is
<1>7. ASSUME NEW N, Grown(N), \A d \in Conn : d # c => state_'[d] = state_[d],
             \A k \in Loop : \A i \in Place(k)' : i > Len(funcs_[k]) =>
                AliveFunctorOK(k, i)' /\ At(k, i)'.conn = c
      PROVE  Alive'
  <2>1. AliveFunctors'
    BY <1>6, <1>7, AliveFunctorsGrown DEF Alive
  <2>2. ASSUME NEW d \in Conn, Freed(d) PROVE Freed(d)'
    <3>1. Created(d) /\ d \notin connections_ /\ \A k \in Loop : closing[k] # d
      BY <2>2, FreedNowhere
    <3>2. d # c
      BY <1>2, <3>1
    <3> QED BY <1>2, <1>3, <1>7, <2>2, <3>1, <3>2, FreedGrown
  <2>3. LeftClosed'
    <3> SUFFICES ASSUME NEW d \in Conn, Created(d)', d \notin connections_'
                 PROVE  state_'[d] = "kDisconnected"
      BY DEF LeftClosed
    <3>1. d # c /\ d \notin connections_ /\ Created(d)
      BY <1>2, <1>3 DEF Created
    <3> QED BY <1>7, <3>1 DEF Alive, LeftClosed
  <2>4. \A d \in Conn : d # c /\ fd[d] = f => Freed(d)'
    BY <1>2, <2>2 DEF FreeFd
  <2>5. FdsApart'
    <3> SUFFICES ASSUME NEW a \in Conn, NEW b \in Conn, a # b, fd'[a] = fd'[b], fd'[a] # None
                 PROVE  Freed(a)' \/ Freed(b)'
      BY DEF FdsApart
    <3>1. CASE a = c
      BY <1>3, <2>4, <3>1
    <3>2. CASE b = c
      BY <1>3, <2>4, <3>2
    <3>3. CASE a # c /\ b # c
      BY <1>3, <2>2, <3>3 DEF Alive, FdsApart
    <3> QED BY <3>1, <3>2, <3>3
  <2> QED BY <2>1, <2>3, <2>5 DEF Alive
<1>8. CASE l = Base
  <2>1. connectEstablished(c, l, f) /\ UNCHANGED funcs_
    BY <1>1, <1>8 DEF newConnection
  <2>2. Grown({})
    BY <1>5, <2>1, GrownSame
  <2>3. \A k \in Loop : \A i \in Place(k)' : ~(i > Len(funcs_[k]))
    BY <2>1, SamePlace
  <2>4. \A d \in Conn : d # c => state_'[d] = state_[d]
    BY <2>1, ConnTypes DEF connectEstablished
  <2> QED BY <1>7, <2>2, <2>3, <2>4
<1>9. CASE l # Base
  <2>1. queueInLoop(l, "connectEstablished", c) /\ UNCHANGED state_
    BY <1>1, <1>9 DEF newConnection
  <2> DEFINE g == [op |-> "connectEstablished", conn |-> c]
             N == {<<l, g>>}
  <2>2. "connectEstablished" \in Op
    BY DEF Op
  <2>3. Grown(N)
    BY <1>5, <2>1, <2>2, GrownQueue
  <2>4. Once(l, "connectEstablished", c)'
    BY <1>5, <1>6, <2>1, <2>2, OnceQueued
  <2>5. g.op = "connectEstablished" /\ g.conn = c
    OBVIOUS
  <2> HIDE DEF g
  <2>6. ASSUME NEW k \in Loop, NEW i \in Place(k)', i > Len(funcs_[k])
        PROVE  AliveFunctorOK(k, i)' /\ At(k, i)'.conn = c
    <3>1. ~(i \in Place(k)) /\ i # 0 /\ i \in 1 .. Len(funcs_'[k])
      BY <2>6, NewPlace
    <3>2. At(k, i)'.op # "none"
      <4>1. At(k, i)' = funcs_'[k][i]
        BY <3>1 DEF At
      <4>2. funcs_'[k][i] \in Functor
        BY <3>1, SeqElement DEF Typed
      <4> QED BY <4>1, <4>2 DEF Functor, Op
    <3>3. k = l /\ At(k, i)' = g
      BY <2>3, <2>6, <3>1, <3>2 DEF Grown
    <3>4. Once(k, "connectEstablished", At(k, i).conn)'
      BY <2>4, <2>5, <3>3 DEF Once, Is, At, Place
    <3> QED BY <1>4, <2>1, <2>5, <3>3, <3>4 DEF AliveFunctorOK
  <2> HIDE DEF N
  <2> QED BY <1>7, <2>1, <2>3, <2>6
<1> QED BY <1>8, <1>9

\* shutdown and forceClose of another thread.
LEMMA AliveCaller ==
    ASSUME Typed, Typed', CallersOK, General, Alive, NEW t \in Thread, CallerStep(t), failed' = None,
           overwritten' = {}
    PROVE  Alive'
<1> USE NoneAssumption
<1>1. UNCHANGED <<connections_, fd, loop_, func, closing>>
  BY DEF CallerStep, serverVars, loops
<1>2. ASSUME \A u \in Thread : caller'[u].conn \in {caller[u].conn, None} \/ ~Freed(caller'[u].conn)
      PROVE  Kept
  BY <1>2, FreedNowhere DEF Kept
<1>3. ASSUME NEW op, Moves(t, op) PROVE Kept
  <2>1. \A u \in Thread : caller'[u].conn = caller[u].conn
    BY <1>3 DEF Moves, CallersOK
  <2> QED BY <1>2, <2>1
<1>4. ASSUME NEW c \in Conn, hold(t, c) PROVE Alive'
  <2>1. ~Freed(c)
    BY <1>4, FreedNowhere DEF hold
  <2>2. \A u \in Thread : caller'[u].conn = IF u = t THEN c ELSE caller[u].conn
    BY <1>4 DEF hold, CallersOK
  <2>3. Kept
    BY <1>2, <2>1, <2>2
  <2> QED BY <1>1, <1>4, <2>3, AliveSame DEF hold
<1>5. CASE release(t)
  <2>1. \A u \in Thread : caller'[u].conn = IF u = t THEN None ELSE caller[u].conn
    BY <1>5 DEF release, CallersOK, NoFunc
  <2>2. Kept
    BY <1>2, <2>1
  <2> QED BY <1>1, <1>5, <2>2, AliveSame DEF release
<1>6. ASSUME NEW op, test(t, op) PROVE Alive'
  BY <1>1, <1>3, <1>6, AliveSame DEF test
<1>7. Ran /\ \A k \in Loop : func'[k].conn = func[k].conn
  BY <1>1 DEF Ran
<1>8. \A d \in Conn, k \in Loop : Freed(d) => closing'[k] # d
  BY <1>1, FreedNowhere
<1>9. CASE set(t)
  <2>1. PICK c \in Conn : c = caller[t].conn
    BY <1>9 DEF set, CallersOK
  <2>2. /\ state_' = [state_ EXCEPT ![c] = "kDisconnecting"] /\ UNCHANGED funcs_
        /\ state_[c] # "kDisconnected" /\ state_[c] # "kConnecting"
    BY <1>9, <2>1 DEF set, CallersOK
  <2>3. \A d \in Conn : state_[d] \in {"kConnecting", "kDisconnected"} => state_'[d] = state_[d]
    BY <2>2, ConnTypes
  <2>4. \A k \in Loop : \A i \in Place(k) : \A d \in Conn :
           /\ Is(k, i, "connectEstablished", d) => state_'[d] = "kConnecting"
           /\ Is(k, i, "removeConnectionInLoop", d) => d \in connections_'
    BY <1>1, <2>3, AliveIs
  <2>5. Kept
    BY <1>3, <1>9 DEF set
  <2> QED BY <1>1, <1>7, <1>8, <2>2, <2>3, <2>4, <2>5, AliveQuiet
<1>10. CASE callLoop(t) /\ UNCHANGED funcs_
  BY <1>1, <1>3, <1>10, AliveSame DEF callLoop
<1>11. CASE callLoop(t) /\ funcs_' # funcs_
  <2>1. PICK c \in Conn : c = caller[t].conn
    BY <1>11 DEF callLoop, CallersOK
  <2>2. queueInLoop(loop_[c], "forceCloseInLoop", c) /\ UNCHANGED state_
    BY <1>11, <2>1 DEF callLoop
  <2>3. ConnOK(c) /\ state_[c] # "kConnecting" /\ ~Freed(c)
    BY <2>1, FreedNowhere DEF General, ConnsOK, CallersOK
  <2>4. PICK l \in Loop : l = loop_[c]
    BY <2>3, Placed DEF ConnOK
  <2> DEFINE g == [op |-> "forceCloseInLoop", conn |-> c]
             N == {<<l, g>>}
  <2>5. g.op = "forceCloseInLoop" /\ g.conn = c /\ "forceCloseInLoop" \in Op
    BY DEF Op
  <2>6. Grown(N)
    BY <1>7, <2>2, <2>4, <2>5, GrownQueue
  <2>7. \A k, h : <<k, h>> \in N => h = g
    OBVIOUS
  <2> HIDE DEF g, N
  <2>8. ASSUME NEW k \in Loop, NEW i \in Place(k)', i > Len(funcs_[k])
        PROVE  AliveFunctorOK(k, i)' /\ \A d \in Conn : Freed(d) => At(k, i)'.conn # d
    <3>1. ~(i \in Place(k)) /\ i # 0 /\ i \in 1 .. Len(funcs_'[k])
      BY <2>8, NewPlace
    <3>2. At(k, i)'.op # "none"
      <4>1. At(k, i)' = funcs_'[k][i]
        BY <3>1 DEF At
      <4>2. funcs_'[k][i] \in Functor
        BY <3>1, SeqElement DEF Typed
      <4> QED BY <4>1, <4>2 DEF Functor, Op
    <3>3. At(k, i)' = g
      BY <2>6, <2>7, <2>8, <3>1, <3>2 DEF Grown
    <3> QED BY <2>3, <2>5, <3>3 DEF AliveFunctorOK
  <2>9. \A k \in Loop : \A i \in Place(k) : \A d \in Conn :
           /\ Is(k, i, "connectEstablished", d) => state_'[d] = "kConnecting"
           /\ Is(k, i, "removeConnectionInLoop", d) => d \in connections_'
    BY <1>1, <2>2, AliveIs
  <2>10. Kept
    BY <1>3, <1>11 DEF callLoop
  <2> QED BY <1>1, <1>7, <1>8, <2>2, <2>6, <2>8, <2>9, <2>10, AliveStep
<1> QED BY <1>4, <1>5, <1>6, <1>9, <1>10, <1>11 DEF CallerStep, Goes

\* Every step of a server that lives.
LEMMA AliveNext ==
    ASSUME Typed, Typed', CallersOK, General, Alive, failed' = None, overwritten' = {},
           server = "alive", server' = "alive", Next
    PROVE  Alive'
<1>a. ASSUME UNCHANGED caller PROVE Kept
  BY <1>a, FreedNowhere DEF Kept
<1>1. ASSUME NEW l \in Loop, LoopStep(l), Kept PROVE Alive'
  <2>1. ASSUME NEW A \in SUBSET Conn, poll(l, A) PROVE Alive'
    BY <2>1, <1>1, AliveSame DEF poll, serverVars
  <2>2. CASE eventsDone(l)
    BY <2>2, <1>1, AliveSame DEF eventsDone, serverVars
  <2>3. CASE testQuit(l)
    BY <2>3, <1>1, AliveSame DEF testQuit, serverVars
  <2>4. CASE runDestroyed(l)
    <3>1. "connectDestroyed" \in Op /\ Runs(l, "connectDestroyed")
      BY <2>4 DEF Op, runDestroyed
    <3> QED BY <3>1, AliveRunning DEF AliveFunctorOK
  <2> QED BY <1>1, <2>1, <2>2, <2>3, <2>4, AliveMessage, AliveEof, AliveCloseDone, AliveTake,
             AliveRunEstablished, AliveRunRemove, AliveForceClose DEF LoopStep
<1>2. ~DestroyStep /\ ~destroyServer
  BY DEF DestroyStep, destroyServer, resetThreadPool, joined, destroyConnection
<1>3. ASSUME NEW c \in Conn, NEW f \in Fd, newConnection(c, f), Kept PROVE Alive'
  BY <1>3, AliveNew
<1>4. ASSUME NEW t \in Thread, CallerStep(t) PROVE Alive'
  BY <1>4, AliveCaller
<1> QED BY <1>a, <1>1, <1>2, <1>3, <1>4 DEF Next, callers

-----------------------------------------------------------------------------
(* The theorems.                                                            *)

\* The server starts in order.
LEMMA SafeInit == Init => ServerSafe
<1> SUFFICES ASSUME Init PROVE ServerSafe
  OBVIOUS
<1> USE NoneAssumption
<1>1. Typed
  BY TypedInit
<1>2. \A l \in Loop : Place(l) = {0} /\ At(l, 0) = NoFunc /\ closing[l] = None /\ active[l] = {}
  BY SMT DEF Init, Place, At
<1>3. NoFunc.op = "none" /\ NoFunc.conn = None
  BY DEF NoFunc
<1>4. LoopsOK
  BY <1>3 DEF Init, LoopsOK, LoopOK
<1>5. FunctorsOK /\ AliveFunctors
  BY <1>2, <1>3 DEF FunctorsOK, FunctorOK, AliveFunctors, AliveFunctorOK
<1>6. ConnsOK
  BY DEF Init, ConnsOK, ConnOK, Created, Up
<1>7. ChannelsOK /\ ActivesOK
  BY <1>2 DEF Init, ChannelsOK, ChannelOK, ActivesOK
<1>8. LeftClosed /\ FdsApart
  BY DEF Init, LeftClosed, FdsApart, Created
<1>9. failed = None /\ server = "alive"
  BY DEF Init
<1>10. CallersOK
  BY <1>3 DEF Init, CallersOK, NoFunc
<1> QED BY <1>1, <1>4, <1>5, <1>6, <1>7, <1>8, <1>9, <1>10 DEF ServerSafe, General, Alive

\* Every step keeps the invariant.
LEMMA SafeNext == ServerSafe /\ [Next]_vars => ServerSafe'
<1> SUFFICES ASSUME ServerSafe, [Next]_vars PROVE ServerSafe'
  OBVIOUS
<1>1. Typed /\ Typed' /\ CallersOK /\ CallersOK'
  BY TypedNext, CallersNext DEF ServerSafe
<1> SUFFICES ASSUME overwritten' = {}
             PROVE  /\ failed' = None => General'
                    /\ server' = "alive" => failed' = None /\ Alive'
  BY <1>1 DEF ServerSafe
<1>2. overwritten = {}
  BY OverwrittenStays
<1>3. CASE Next
  <2>1. failed = None /\ General
    BY <1>2, <1>3 DEF Next, ServerSafe
  <2>2. failed' = None => General'
    BY <1>1, <1>3, <2>1, GeneralNext
  <2>3. ASSUME server' = "alive" PROVE failed' = None /\ Alive'
    <3>1. server = "alive"
      <4>1. ASSUME NEW l \in Loop, LoopStep(l) PROVE server' = server
        BY <4>1 DEF LoopStep, poll, message, handleEof, handleClose, closeDone, eventsDone, takeFunctor,
           runEstablished, runDestroyed, runRemove, forceCloseInLoop, testQuit, serverVars
      <4>2. CASE DestroyStep \/ destroyServer
        BY <2>3, <4>2 DEF DestroyStep, destroyServer, resetThreadPool, joined, destroyConnection
      <4> QED BY <1>3, <2>3, <4>1, <4>2 DEF Next, newConnection, CallerStep, serverVars
    <3>2. Alive
      BY <1>2, <3>1 DEF ServerSafe
    <3>3. failed' = None
      BY <1>1, <2>1, <3>1, <3>2, AliveAsserts
    <3> QED BY <1>1, <1>3, <2>1, <2>3, <3>1, <3>2, <3>3, AliveNext
  <2> QED BY <2>2, <2>3
<1>4. CASE UNCHANGED vars
  <2>1. /\ UNCHANGED <<connections_, fd, loop_, state_, events_, index_, channels_, funcs_, func, phase,
                       active, closing, server, caller, failed>>
    BY <1>4 DEF vars, serverVars, chan, loops, callers
  <2>2. (LoopsOK => LoopsOK') /\ (ConnsOK => ConnsOK') /\ (ActivesOK => ActivesOK')
    BY <2>1 DEF LoopsOK, LoopOK, ConnsOK, ConnOK, Created, Up, ActivesOK, ActiveOK
  <2>3. FunctorsOK => FunctorsOK'
    <3>1. \A k : Place(k)' = Place(k) /\ \A i : At(k, i)' = At(k, i)
      BY <2>1 DEF Place, At
    <3>2. ASSUME NEW l \in Loop, NEW i \in Place(l), FunctorOK(l, i) PROVE FunctorOK(l, i)'
      BY <2>1, <3>1, <3>2 DEF FunctorOK, Is
    <3> QED BY <3>1, <3>2 DEF FunctorsOK
  <2>4. ChannelsOK => ChannelsOK'
    <3>1. \A k : Place(k)' = Place(k) /\ \A i : At(k, i)' = At(k, i)
      BY <2>1 DEF Place, At
    <3>2. \A k, op, d : Has(k, op, d)' <=> Has(k, op, d)
      BY <3>1 DEF Has, Is
    <3>3. ASSUME NEW l \in Loop, NEW f \in Fd, ChannelOK(l, f) PROVE ChannelOK(l, f)'
      BY <2>1, <3>2, <3>3 DEF ChannelOK
    <3> QED BY <3>3 DEF ChannelsOK
  <2>5. General => General'
    BY <2>1, <2>2, <2>3, <2>4 DEF General
  <2>6. Kept
    BY <1>1, <2>1, FreedNowhere DEF Kept
  <2>7. Alive => Alive'
    BY <1>1, <2>1, <2>6, AliveSame
  <2> QED BY <1>2, <2>1, <2>5, <2>7 DEF ServerSafe
<1> QED BY <1>3, <1>4

\* The server's invariant holds throughout, of newConnection, the closing of connections on
\* their loops, shutdown and forceClose on any thread, and ~TcpServer, for every number of
\* connections, fds, pool threads and calls.
THEOREM ServerInvariant == Spec => []ServerSafe
<1> QED BY SafeInit, SafeNext, PTL DEF Spec

\* No pointer that a poller or a round of events keeps dangles, as long as no shutdown or
\* forceClose has overwritten a kDisconnected.
THEOREM PointersTheorem == Spec => [](overwritten = {} => PointersAlive)
<1>1. ServerSafe => (overwritten = {} => PointersAlive)
  <2> SUFFICES ASSUME Typed, General, NEW l \in Loop
               PROVE  /\ \A c \in active[l] : ~Freed(c)
                      /\ \A f \in Fd : channels_[l][f] # None =>
                            /\ ~Freed(channels_[l][f])
                            /\ loop_[channels_[l][f]] = l /\ fd[channels_[l][f]] = f
    BY DEF ServerSafe, PointersAlive
  <2>1. ASSUME NEW f \in Fd, channels_[l][f] # None
        PROVE  /\ ~Freed(channels_[l][f])
               /\ loop_[channels_[l][f]] = l /\ fd[channels_[l][f]] = f
    <3>1. ChannelOK(l, f)
      BY DEF General, ChannelsOK
    <3> QED BY <2>1, <3>1, RegisteredReferenced DEF ChannelOK
  <2>2. ASSUME NEW c \in active[l] PROVE ~Freed(c)
    <3>1. ActiveOK(l, c) /\ c \in Conn
      BY <2>2 DEF General, ActivesOK, Typed
    <3>2. fd[c] \in Fd /\ c # None
      BY <3>1, Placed, NoneAssumption DEF ActiveOK, Created
    <3> QED BY <2>1, <3>1, <3>2 DEF ActiveOK
  <2> QED BY <2>1, <2>2
<1> QED BY <1>1, ServerInvariant, PTL

\* The assert of ~TcpConnection holds while the server lives, as long as no shutdown or
\* forceClose has overwritten a kDisconnected.
THEOREM FreedTheorem == Spec => [](overwritten = {} => FreedDisconnected)
<1>1. ServerSafe => (overwritten = {} => FreedDisconnected)
  <2> SUFFICES ASSUME Alive, NEW c \in Conn, Freed(c) PROVE state_[c] = "kDisconnected"
    BY DEF ServerSafe, FreedDisconnected
  <2> QED BY DEF Alive, LeftClosed, Freed, Referenced
<1> QED BY <1>1, ServerInvariant, PTL

\* No assert fails while the server lives, as long as no shutdown or forceClose has
\* overwritten a kDisconnected.
THEOREM AssertsTheorem == Spec => []AssertsHold
<1>1. ServerSafe => AssertsHold
  BY DEF ServerSafe, AssertsHold
<1> QED BY <1>1, ServerInvariant, PTL
=============================================================================
