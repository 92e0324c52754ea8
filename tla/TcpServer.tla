------------------------------ MODULE TcpServer ------------------------------
(***************************************************************************)
(* The life of a server's connections (TcpServer.cpp) across the base loop *)
(* and the loops of its thread pool: newConnection, connectEstablished,    *)
(* handleClose, removeConnection, removeConnectionInLoop, connectDestroyed *)
(* and ~TcpServer, with each loop's poller (channels_, keyed by fd) and    *)
(* its functor queue.                                                      *)
(*                                                                         *)
(* A connection is kept alive by the shared_ptrs to it: in connections_,   *)
(* bound in a functor, held by the handler that is running, or by another  *)
(* thread of the user's, which may call shutdown and forceClose on it.     *)
(* When the last one goes ~TcpConnection closes the fd, which a later      *)
(* connection may then get.  A failed assert ends the program.             *)
(***************************************************************************)
EXTENDS Naturals, Sequences, Functions

CONSTANTS Conn, Fd, Base,
          Pools,          \* the thread pools the server may be started with
          Thread,         \* the user's other threads
          MaxForceClose,  \* bound: calls of forceClose in one messageCallback_
          MaxCalls,       \* bound: calls of shutdown and forceClose by other threads
          None

ASSUME PoolsAssumption ==
    \A pool \in Pools : /\ pool \in Seq(Range(pool)) /\ IsInjective(pool)
                        /\ Base \notin Range(pool)

Loop == {Base} \cup UNION {Range(pool) : pool \in Pools}

ASSUME BoundAssumption == MaxForceClose \in Nat /\ MaxCalls \in Nat

ASSUME NoneAssumption ==
    /\ None \notin Loop /\ None \notin Conn /\ None \notin Fd
    /\ None \notin {"updateChannel", "isNoneEvent", "removeChannel", "connectEstablished", "erase",
                     "handleClose", "queueInLoop"}

VARIABLES
    connections_,   \* the server's map: the connections in it
    loopThreads_,   \* the thread pool's loops, a sequence
    next_,          \* the thread pool's round-robin index
    fd,             \* Conn -> its fd
    loop_,          \* Conn -> its loop, None before it is created
    state_,         \* Conn -> the connection's state
    events_,        \* Conn -> whether its channel is interested in anything
    index_,         \* Conn -> the channel's state in the poller
    channels_,      \* Loop -> Fd -> the connection registered in the loop's poller
    funcs_,         \* Loop -> pending functors [op, conn]
    func,           \* Loop -> the functor dequeued last, still holding its connection
    phase,          \* Loop -> poll, events, functors, test (of quit_), stopped
    active,         \* Loop -> connections whose events are still to be handled
    closing,        \* Loop -> the connection inside handleClose, before connectDestroyed
    server,         \* alive, destroying (in ~TcpServer), joining, gone
    caller,         \* Thread -> the connection it holds and the call it is in
    calls,          \* calls other threads may still make
    overwritten,    \* history: connections whose kDisconnected a call has overwritten
    destroys,       \* history: Conn -> calls of connectDestroyed
    failed          \* the assert that failed, or the use of an ended loop; else None

chan == <<events_, index_, channels_>>
serverVars == <<connections_, loopThreads_, next_, fd, loop_, server>>
loops == <<func, phase, active, closing>>
callers == <<caller, calls, overwritten>>
vars == <<serverVars, state_, chan, funcs_, loops, destroys, callers, failed>>

NoFunc == [op |-> "none", conn |-> None]

\* TcpServer::start has started the pool that setThreadNum asked for.
Init ==
    /\ loopThreads_ \in Pools
    /\ connections_ = {} /\ next_ = 0 /\ server = "alive"
    /\ fd = [c \in Conn |-> None] /\ loop_ = [c \in Conn |-> None]
    /\ state_ = [c \in Conn |-> "kConnecting"]
    /\ events_ = [c \in Conn |-> FALSE] /\ index_ = [c \in Conn |-> "kNew"]
    /\ channels_ = [l \in Loop |-> [f \in Fd |-> None]]
    /\ funcs_ = [l \in Loop |-> <<>>] /\ func = [l \in Loop |-> NoFunc]
    /\ phase = [l \in Loop |-> IF l \in {Base} \cup Range(loopThreads_) THEN "poll" ELSE "stopped"]
    /\ active = [l \in Loop |-> {}] /\ closing = [l \in Loop |-> None]
    /\ caller = [t \in Thread |-> NoFunc] /\ calls \in 0 .. MaxCalls /\ overwritten = {}
    /\ destroys = [c \in Conn |-> 0] /\ failed = None

----------------------------------------------------------------------------
(* References.  The weak tie_ of the channel and the raw pointers of the    *)
(* poller do not count.                                                     *)

\* A reference to c in a functor of loop l: queued, or the local of doPendingFunctors.
InFunctor(c, l) ==
    \/ \E i \in 1 .. Len(funcs_[l]) : funcs_[l][i].conn = c
    \/ func[l].conn = c

Referenced(c) ==
    \/ c \in connections_
    \/ \E l \in Loop : InFunctor(c, l) \/ closing[l] = c
    \/ \E t \in Thread : caller[t].conn = c

Created(c) == loop_[c] # None
Freed(c) == Created(c) /\ ~Referenced(c)

----------------------------------------------------------------------------
(* Poller and channel.                                                      *)

\* EPollPoller::updateChannel after enableReading: the channel is new, and its fd may
\* not be registered.
Register(c, l, f) ==
    IF channels_[l][f] # None
    THEN failed' = "updateChannel" /\ UNCHANGED chan
    ELSE /\ channels_' = [channels_ EXCEPT ![l][f] = c]
         /\ index_' = [index_ EXCEPT ![c] = "kAdded"]
         /\ events_' = [events_ EXCEPT ![c] = TRUE]
         /\ UNCHANGED failed

\* Channel::disableAll: the index a channel has after EPollPoller::updateChannel, which
\* registers one that is new.
Disabled(c) == IF index_[c] = "kAdded" THEN "kDeleted" ELSE "kAdded"
Registers(c) == index_[c] = "kNew"

\* Channel::remove and EPollPoller::removeChannel, of a channel with the given interest
\* and index.
RemoveChannel(c, interest, index) ==
    IF interest
    THEN failed' = "isNoneEvent" /\ UNCHANGED chan
    ELSE IF channels_[loop_[c]][fd[c]] # c \/ index = "kNew"
    THEN failed' = "removeChannel" /\ UNCHANGED chan
    ELSE /\ channels_' = [channels_ EXCEPT ![loop_[c]][fd[c]] = None]
         /\ index_' = [index_ EXCEPT ![c] = "kNew"]
         /\ events_' = [events_ EXCEPT ![c] = FALSE]
         /\ UNCHANGED failed

\* TcpConnection::connectEstablished on loop l, with fd f.
connectEstablished(c, l, f) ==
    IF state_[c] # "kConnecting"
    THEN failed' = "connectEstablished" /\ UNCHANGED <<state_, chan>>
    ELSE state_' = [state_ EXCEPT ![c] = "kConnected"] /\ Register(c, l, f)

\* TcpConnection::connectDestroyed.
connectDestroyed(c) ==
    /\ destroys' = [destroys EXCEPT ![c] = @ + 1]
    /\ IF state_[c] = "kConnected"
       THEN /\ state_' = [state_ EXCEPT ![c] = "kDisconnected"]
            /\ RemoveChannel(c, FALSE, Disabled(c))
       ELSE /\ RemoveChannel(c, events_[c], index_[c])
            /\ UNCHANGED state_

\* TcpServer::removeConnectionInLoop.
removeConnectionInLoop(c) ==
    IF c \in connections_
    THEN connections_' = connections_ \ {c} /\ UNCHANGED failed
    ELSE failed' = "erase" /\ UNCHANGED connections_

----------------------------------------------------------------------------
(* The server, on the base loop.                                            *)

\* EventLoopThreadPool::getNextLoop, or the base loop when there is no thread.
nextLoop == IF loopThreads_ = <<>> THEN Base ELSE loopThreads_[next_ + 1]
followingLoop == IF next_ + 1 >= Len(loopThreads_) THEN 0 ELSE next_ + 1

\* An fd the kernel can give: no open connection has it.
FreeFd(f) == \A c \in Conn : fd[c] = f => Freed(c)

queueInLoop(l, f, c) == funcs_' = [funcs_ EXCEPT ![l] = Append(@, [op |-> f, conn |-> c])]

\* An EventLoop is destroyed: with it its poller and the functors it has not run.
Dispose(l) ==
    /\ funcs_' = [funcs_ EXCEPT ![l] = <<>>]
    /\ channels_' = [channels_ EXCEPT ![l] = [f \in Fd |-> None]]

\* Acceptor::handleRead on the base loop, when accept gives a connection: a new one, on
\* an fd that is free.
accepts(c, f) ==
    /\ phase[Base] = "events" /\ closing[Base] = None
    /\ ~Created(c) /\ FreeFd(f)

\* Mutant of newConnection: the server does not keep the connection.
newUnmapped(c, f) ==
    /\ accepts(c, f)
    /\ fd' = [fd EXCEPT ![c] = f]
    /\ loop_' = [loop_ EXCEPT ![c] = nextLoop]
    /\ next_' = followingLoop
    /\ queueInLoop(nextLoop, "connectEstablished", c)
    /\ UNCHANGED <<connections_, loopThreads_, server, state_, chan, loops, destroys, failed>>

\* What the acceptor calls with a connection it has accepted.
newConnection(c, f) ==
    /\ accepts(c, f)
    /\ fd' = [fd EXCEPT ![c] = f]
    /\ loop_' = [loop_ EXCEPT ![c] = nextLoop]
    /\ next_' = followingLoop
    /\ connections_' = connections_ \cup {c}
    /\ IF nextLoop = Base
       THEN connectEstablished(c, Base, f) /\ UNCHANGED funcs_
       ELSE queueInLoop(nextLoop, "connectEstablished", c) /\ UNCHANGED <<state_, chan, failed>>
    /\ UNCHANGED <<loopThreads_, server, loops, destroys>>

\* ~TcpServer, once the base loop has returned.
destroyServer ==
    /\ server = "alive" /\ phase[Base] = "stopped"
    /\ server' = "destroying"
    /\ UNCHANGED <<connections_, loopThreads_, next_, fd, loop_, state_, chan, funcs_, loops, destroys,
                   failed>>

\* One turn of its loop over connections_: runInLoop(connectDestroyed).
destroyConnection(c) ==
    /\ server = "destroying" /\ c \in connections_
    /\ connections_' = connections_ \ {c}
    /\ IF loop_[c] = Base
       THEN connectDestroyed(c) /\ UNCHANGED funcs_
       ELSE queueInLoop(loop_[c], "connectDestroyed", c)
            /\ UNCHANGED <<state_, chan, destroys, failed>>
    /\ UNCHANGED <<loopThreads_, next_, fd, loop_, server, loops>>

\* threadPool_.reset(): every loop is told to quit and joined; then the base loop goes.
resetThreadPool ==
    /\ server = "destroying" /\ connections_ = {}
    /\ server' = "joining"
    /\ UNCHANGED <<connections_, loopThreads_, next_, fd, loop_, state_, chan, funcs_, loops, destroys,
                   failed>>

joined ==
    /\ server = "joining" /\ \A l \in Loop : phase[l] = "stopped"
    /\ server' = "gone"
    /\ Dispose(Base)
    /\ UNCHANGED <<connections_, loopThreads_, next_, fd, loop_, state_, events_, index_, loops,
                   destroys, failed>>

----------------------------------------------------------------------------
(* A loop: poll, the events of its connections, its functors, quit_.        *)

poll(l, A) ==
    /\ phase[l] = "poll"
    /\ \A c \in A : loop_[c] = l /\ events_[c] /\ index_[c] = "kAdded"
    /\ phase' = [phase EXCEPT ![l] = "events"]
    /\ active' = [active EXCEPT ![l] = A]
    /\ UNCHANGED <<serverVars, state_, chan, funcs_, func, closing, destroys, failed>>

Up(c) == state_[c] \in {"kConnected", "kDisconnecting"}

Handles(l, c) ==
    /\ phase[l] = "events" /\ closing[l] = None /\ c \in active[l]
    /\ active' = [active EXCEPT ![l] = @ \ {c}]

\* messageCallback_ may call shutdown or, up to MaxForceClose times, forceClose.
message(l, c) ==
    /\ Handles(l, c)
    /\ \/ UNCHANGED <<state_, funcs_>>
       \/ /\ state_[c] = "kConnected"
          /\ state_' = [state_ EXCEPT ![c] = "kDisconnecting"]
          /\ UNCHANGED funcs_
       \/ /\ Up(c)
          /\ state_' = [state_ EXCEPT ![c] = "kDisconnecting"]
          /\ \E n \in 1 .. MaxForceClose :
                funcs_' = [funcs_ EXCEPT ![l] =
                             @ \o [i \in 1 .. n |-> [op |-> "forceCloseInLoop", conn |-> c]]]
    /\ UNCHANGED <<serverVars, chan, func, phase, closing, destroys, failed>>

\* Mutant of handleClose: the channel is not disabled.
closeEnabled(l, c) ==
    /\ state_' = [state_ EXCEPT ![c] = "kDisconnected"]
    /\ closing' = [closing EXCEPT ![l] = c]
    /\ queueInLoop(Base, "removeConnectionInLoop", c)
    /\ UNCHANGED <<serverVars, chan, destroys, failed>>

\* handleClose up to connectDestroyed: disableAll, then removeConnection's runInLoop.
handleClose(l, c) ==
    IF Registers(c) /\ channels_[l][fd[c]] # None
    THEN /\ failed' = "updateChannel"
         /\ UNCHANGED <<serverVars, state_, chan, funcs_, closing, destroys>>
    ELSE /\ state_' = [state_ EXCEPT ![c] = "kDisconnected"]
         /\ events_' = [events_ EXCEPT ![c] = FALSE]
         /\ index_' = [index_ EXCEPT ![c] = Disabled(c)]
         /\ channels_' = IF Registers(c) THEN [channels_ EXCEPT ![l][fd[c]] = c] ELSE channels_
         /\ closing' = [closing EXCEPT ![l] = c]
         /\ IF l = Base
            THEN removeConnectionInLoop(c) /\ UNCHANGED funcs_
            ELSE queueInLoop(Base, "removeConnectionInLoop", c) /\ UNCHANGED <<connections_, failed>>
         /\ UNCHANGED <<loopThreads_, next_, fd, loop_, server, destroys>>

\* The peer has closed: handleRead reads 0 bytes, or POLLHUP.
handleEof(l, c) ==
    /\ Handles(l, c)
    /\ IF Up(c)
       THEN handleClose(l, c)
       ELSE /\ failed' = "handleClose"
            /\ UNCHANGED <<serverVars, state_, chan, funcs_, closing, destroys>>
    /\ UNCHANGED <<func, phase>>

\* Mutant of closeDone: connectDestroyed is not called.
closeForgets(l) ==
    /\ closing[l] # None
    /\ closing' = [closing EXCEPT ![l] = None]
    /\ UNCHANGED <<serverVars, state_, chan, funcs_, func, phase, active, destroys, failed>>

\* The rest of removeConnection; with it the handler that holds the connection ends.
closeDone(l) ==
    /\ closing[l] # None
    /\ connectDestroyed(closing[l])
    /\ closing' = [closing EXCEPT ![l] = None]
    /\ UNCHANGED <<serverVars, funcs_, func, phase, active>>

eventsDone(l) ==
    /\ phase[l] = "events" /\ closing[l] = None /\ active[l] = {}
    /\ phase' = [phase EXCEPT ![l] = "functors"]
    /\ UNCHANGED <<serverVars, state_, chan, funcs_, func, active, closing, destroys, failed>>

\* doPendingFunctors: the functor dequeued last is released when the next is dequeued.
takeFunctor(l) ==
    /\ phase[l] = "functors" /\ closing[l] = None /\ func[l].op = "none"
    /\ IF funcs_[l] = <<>>
       THEN /\ phase' = [phase EXCEPT ![l] = "test"]
            /\ func' = [func EXCEPT ![l] = NoFunc]
            /\ UNCHANGED funcs_
       ELSE /\ func' = [func EXCEPT ![l] = Head(funcs_[l])]
            /\ funcs_' = [funcs_ EXCEPT ![l] = Tail(@)]
            /\ UNCHANGED phase
    /\ UNCHANGED <<serverVars, state_, chan, active, closing, destroys, failed>>

Runs(l, op) ==
    /\ func[l].op = op
    /\ func' = [func EXCEPT ![l].op = "none"]
    /\ UNCHANGED <<phase, active>>

runEstablished(l) ==
    /\ Runs(l, "connectEstablished")
    /\ connectEstablished(func[l].conn, l, fd[func[l].conn])
    /\ UNCHANGED <<serverVars, funcs_, closing, destroys>>

runDestroyed(l) ==
    /\ Runs(l, "connectDestroyed")
    /\ connectDestroyed(func[l].conn)
    /\ UNCHANGED <<serverVars, funcs_, closing>>

\* Mutant of runRemove: the entry stays in the map.
removeNothing(l) ==
    /\ Runs(l, "removeConnectionInLoop")
    /\ UNCHANGED <<serverVars, state_, chan, funcs_, closing, destroys, failed>>

runRemove(l) ==
    /\ Runs(l, "removeConnectionInLoop")
    /\ removeConnectionInLoop(func[l].conn)
    /\ UNCHANGED <<loopThreads_, next_, fd, loop_, server, state_, chan, funcs_, closing, destroys>>

forceCloseInLoop(l) ==
    /\ Runs(l, "forceCloseInLoop")
    /\ IF Up(func[l].conn)
       THEN handleClose(l, func[l].conn)
       ELSE UNCHANGED <<serverVars, state_, chan, funcs_, closing, destroys, failed>>

\* Mutant of testQuit: quit_ is not seen by the pool's loops.
testNothing(l) ==
    /\ phase[l] = "test"
    /\ phase' = [phase EXCEPT ![l] = IF l = Base THEN "stopped" ELSE "poll"]
    /\ UNCHANGED <<serverVars, state_, chan, funcs_, func, active, closing, destroys, failed>>

\* The test of quit_; the base loop may be told to quit at any time, the others by
\* ~EventLoopThread.  A pool thread's EventLoop ends with its loop().
testQuit(l) ==
    /\ phase[l] = "test"
    /\ \/ /\ l = Base \/ server # "joining"
          /\ phase' = [phase EXCEPT ![l] = "poll"]
          /\ UNCHANGED <<funcs_, channels_>>
       \/ /\ l = Base
          /\ phase' = [phase EXCEPT ![l] = "stopped"]
          /\ UNCHANGED <<funcs_, channels_>>
       \/ /\ l # Base /\ server = "joining"
          /\ phase' = [phase EXCEPT ![l] = "stopped"]
          /\ Dispose(l)
    /\ UNCHANGED <<serverVars, state_, events_, index_, func, active, closing, destroys, failed>>

LoopStep(l) ==
    \/ \E A \in SUBSET Conn : poll(l, A)
    \/ \E c \in Conn : message(l, c) \/ handleEof(l, c)
    \/ closeDone(l) \/ eventsDone(l) \/ takeFunctor(l)
    \/ runEstablished(l) \/ runDestroyed(l) \/ runRemove(l) \/ forceCloseInLoop(l)
    \/ testQuit(l)

DestroyStep ==
    \/ resetThreadPool \/ joined
    \/ \E c \in Conn : destroyConnection(c)

----------------------------------------------------------------------------
(* Another thread of the user's.  shutdown and forceClose test state_ and    *)
(* set it in two steps, without a lock.                                     *)

Moves(t, op) == caller' = [caller EXCEPT ![t].op = op]

\* It keeps a pointer that a callback of the connection was given.
hold(t, c) ==
    /\ caller[t] = NoFunc /\ calls > 0
    /\ state_[c] # "kConnecting"
    /\ c \in connections_ \/ \E l \in Loop : closing[l] = c
    /\ caller' = [caller EXCEPT ![t].conn = c]
    /\ UNCHANGED <<calls, overwritten, state_, funcs_, failed>>

\* shutdown and forceClose, the test: nothing happens where it fails.
test(t, op) ==
    /\ caller[t].op = "none" /\ caller[t].conn # None
    /\ IF op = "shutdown" THEN state_[caller[t].conn] = "kConnected" ELSE Up(caller[t].conn)
    /\ calls > 0 /\ calls' = calls - 1
    /\ Moves(t, op)
    /\ UNCHANGED <<overwritten, state_, funcs_, failed>>

\* state_ = kDisconnecting, whatever state_ is by now.
set(t) ==
    LET c == caller[t].conn
    IN  /\ caller[t].op \in {"shutdown", "forceClose"}
        /\ state_' = [state_ EXCEPT ![c] = "kDisconnecting"]
        /\ overwritten' = IF state_[c] = "kDisconnected" THEN overwritten \cup {c} ELSE overwritten
        /\ Moves(t, IF caller[t].op = "shutdown" THEN "runInLoop" ELSE "queueInLoop")
        /\ UNCHANGED <<calls, funcs_, failed>>

\* The EventLoop has been destroyed.
Ended(l) ==
    \/ server = "gone"
    \/ server = "joining" /\ l # Base /\ phase[l] = "stopped"

\* The rest of the two: forceCloseInLoop is queued.  What shutdown queues neither changes
\* the connection's state nor keeps it alive.
callLoop(t) ==
    LET c == caller[t].conn
    IN  /\ caller[t].op \in {"runInLoop", "queueInLoop"}
        /\ IF Ended(loop_[c])
           THEN failed' = "queueInLoop" /\ UNCHANGED funcs_
           ELSE /\ IF caller[t].op = "queueInLoop"
                   THEN queueInLoop(loop_[c], "forceCloseInLoop", c)
                   ELSE UNCHANGED funcs_
                /\ UNCHANGED failed
        /\ Moves(t, "none")
        /\ UNCHANGED <<calls, overwritten, state_>>

release(t) ==
    /\ caller[t].op = "none" /\ caller[t].conn # None
    /\ caller' = [caller EXCEPT ![t] = NoFunc]
    /\ UNCHANGED <<calls, overwritten, state_, funcs_, failed>>

\* A call that is made is finished, and the pointer released in the end.
Goes(t) == set(t) \/ callLoop(t) \/ release(t)

CallerStep(t) ==
    /\ \/ \E c \in Conn : hold(t, c)
       \/ \E op \in {"shutdown", "forceClose"} : test(t, op)
       \/ Goes(t)
    /\ UNCHANGED <<serverVars, chan, loops, destroys>>

Next ==
    /\ failed = None
    /\ \/ /\ \/ \E c \in Conn, f \in Fd : newConnection(c, f)
             \/ \E l \in Loop : LoopStep(l)
             \/ destroyServer \/ DestroyStep
          /\ UNCHANGED callers
       \/ \E t \in Thread : CallerStep(t)

Spec == Init /\ [][Next]_vars

\* Every loop's thread runs, and so do the thread in ~TcpServer and the callers.
Fairness ==
    /\ \A l \in Loop : WF_vars(failed = None /\ LoopStep(l) /\ UNCHANGED callers)
    /\ WF_vars(failed = None /\ DestroyStep /\ UNCHANGED callers)
    /\ \A t \in Thread : WF_vars(/\ failed = None /\ Goes(t)
                                /\ UNCHANGED <<serverVars, chan, loops, destroys>>)

----------------------------------------------------------------------------
\* The pointers a poller keeps are to connections that exist, on their own loop and under
\* their own fd, and whatever a loop's round of events still has to handle
\* is alive, although the map, the functors and the handlers drop their references on
\* different threads; also in ~TcpServer, as long as no assert fails.
PointersAlive ==
    failed = None =>
       \A l \in Loop :
          /\ \A c \in active[l] : ~Freed(c)
          /\ \A f \in Fd : LET c == channels_[l][f]
                           IN  c # None => ~Freed(c) /\ loop_[c] = l /\ fd[c] = f

\* The assertion of ~TcpConnection, while the server lives: the last reference goes only
\* when the connection is disconnected, unless a shutdown or forceClose of another thread
\* has overwritten its kDisconnected.
FreedDisconnected ==
    server = "alive" /\ failed = None =>
        \A c \in Conn : Freed(c) => state_[c] = "kDisconnected" \/ c \in overwritten

\* While the server lives no assert of connectEstablished, handleClose,
\* removeConnectionInLoop, Channel::remove or EPollPoller fails: a reused fd is
\* unregistered before, and every removal finds its entry.  Only after the kDisconnected of
\* some connection has been overwritten can one fail.
AssertsHold == server = "alive" /\ overwritten = {} => failed = None

\* "should be called only once": connectDestroyed, of a connection however it is closed.
DestroyedOnce == \A c \in Conn : destroys[c] <= 1

\* A connection that is closed leaves the map and is freed, unless the base loop ends or
\* an assert ends the program.
ClosedIsFreed ==
    \A c \in Conn :
        state_[c] = "kDisconnected" ~> (Freed(c) \/ phase[Base] = "stopped" \/ failed # None)

\* ~TcpServer returns: quit() reaches every loop of the pool, each of them ends and is
\* joined (unless an assert ends the program before).
DestroyEnds == server = "destroying" ~> (server = "gone" \/ failed # None)
=============================================================================
