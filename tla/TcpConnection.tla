---------------------------- MODULE TcpConnection ----------------------------
(***************************************************************************)
(* One connection (TcpConnection.cpp) on the loop that owns it, with its   *)
(* Channel and the Channel's place in EPollPoller: send, shutdown and      *)
(* forceClose from the loop thread (in the user's callbacks) and from      *)
(* other threads, which reach the loop through its functor queue; the event *)
(* handlers; a kernel that accepts any part of a write, and a peer that    *)
(* sends, closes or resets.                                                *)
(*                                                                         *)
(* state_ is a plain variable that other threads test and set without a    *)
(* lock: every such access is a step.  The loop thread runs one handler or *)
(* functor at a time, and each of them is one step.                        *)
(***************************************************************************)
EXTENDS Integers, Sequences, SequencesExt

CONSTANTS Thread,         \* threads other than the loop's that use the connection
          Loop,           \* the loop's thread
          MsgSize,        \* bytes in a message
          highWaterMark_,
          MaxCall         \* bound: calls each thread makes on the connection

ASSUME ThreadAssumption == Loop \notin Thread
ASSUME BoundAssumption == MsgSize \in Nat \ {0} /\ highWaterMark_ \in Nat /\ MaxCall \in Nat

VARIABLES
    state_,
    events_,        \* what the channel is interested in: "read", "write"
    index_,         \* the channel in the poller: kNew, kAdded or kDeleted
    outputBuffer_,  \* bytes waiting to be written
    funcs_,         \* the loop's pending functors that concern the connection
    func,           \* the functor doPendingFunctors has dequeued and not finished
    phase,          \* the loop polls, handles events, is in messageCallback_, runs functors
    revents_,       \* events of the channel still to be handled: "hup", "in", "out"
    call,           \* Thread -> where the thread is in a call on the connection
    calls,          \* Thread and Loop -> calls made so far
    peer,           \* the peer: open, closed, reset
    fin,            \* socket_->shutdownWrite() was called
    wire,           \* history: the bytes the kernel accepted, in order
    sent,           \* history: the bytes sendInLoop handled, in order
    lost,           \* history: a write failed for good and its bytes were dropped
    closes          \* history: number of times closeCallback_ was called

chan == <<events_, index_>>
stream == <<outputBuffer_, wire, sent, lost>>
vars == <<state_, chan, stream, funcs_, func, phase, revents_, call, calls, peer, fin, closes>>

\* newConnection has created the connection and queued connectEstablished.
Init ==
    /\ state_ = "kConnecting" /\ events_ = {} /\ index_ = "kNew"
    /\ outputBuffer_ = <<>> /\ wire = <<>> /\ sent = <<>> /\ lost = FALSE
    /\ funcs_ = <<[op |-> "connectEstablished"]>> /\ func = [op |-> "none"]
    /\ phase = "poll" /\ revents_ = {}
    /\ call = [t \in Thread |-> "none"]
    /\ calls = [t \in Thread \cup {Loop} |-> 0]
    /\ peer = "open" /\ fin = FALSE /\ closes = 0

----------------------------------------------------------------------------
(* What the handlers and functors are made of.                              *)

\* EPollPoller::updateChannel for a channel now interested in ev.
updateChannel(ev) ==
    index_' = IF index_ \in {"kNew", "kDeleted"} \/ ev # {} THEN "kAdded" ELSE "kDeleted"

\* Channel::enableReading, enableWriting, disableWriting: all end in update().
enable(e) == events_' = events_ \cup {e} /\ updateChannel(events_ \cup {e})
disable(e) == events_' = events_ \ {e} /\ updateChannel(events_ \ {e})
isWriting == "write" \in events_

\* Mutant of queueInLoop: the newest functor first.
queueAtFront(fs) == funcs_' = fs \o funcs_

\* queueInLoop, and runInLoop from another thread.
queueInLoop(fs) == funcs_' = funcs_ \o fs

\* ::write of a number of bytes: how many are taken (0 is EWOULDBLOCK), or -1 for
\* EPIPE and ECONNRESET.
Written(len) == IF fin \/ peer = "reset" THEN {-1} ELSE 0 .. len

Bytes(t, k) == [i \in 1 .. MsgSize |-> <<t, k, i>>]

\* The part of sendInLoop that keeps what the kernel did not take.
Keep(rest) ==
    LET oldLen == Len(outputBuffer_)
        mark   == oldLen < highWaterMark_ /\ oldLen + Len(rest) >= highWaterMark_
    IN  /\ outputBuffer_' = outputBuffer_ \o rest
        /\ queueInLoop(IF mark THEN <<[op |-> "highWaterMark"]>> ELSE <<>>)
        /\ IF isWriting THEN UNCHANGED chan ELSE enable("write")

\* Mutant of sendInLoop: writes directly although bytes are waiting.
sendPastBuffer(t, k) ==
    LET data == Bytes(t, k)
    IN  IF state_ = "kDisconnected"
        THEN UNCHANGED <<chan, stream, funcs_>>
        ELSE \E n \in Written(MsgSize) \ {-1} :
               /\ sent' = sent \o data
               /\ wire' = wire \o SubSeq(data, 1, n)
               /\ IF n = MsgSize THEN UNCHANGED <<chan, outputBuffer_, funcs_>>
                  ELSE Keep(SubSeq(data, n + 1, MsgSize))
               /\ UNCHANGED lost

\* sendInLoop of the k-th call's message of thread t.
sendInLoop(t, k) ==
    LET data   == Bytes(t, k)
        direct == ~isWriting /\ outputBuffer_ = <<>>
    IN  IF state_ = "kDisconnected"
        THEN UNCHANGED <<chan, stream, funcs_>>
        ELSE \E n \in IF direct THEN Written(MsgSize) ELSE {0} :
               /\ sent' = sent \o data
               /\ wire' = wire \o SubSeq(data, 1, n)
               /\ lost' = (lost \/ n = -1)
               /\ \/ /\ n = -1
                     /\ UNCHANGED <<chan, outputBuffer_, funcs_>>
                  \/ /\ n = MsgSize
                     /\ queueInLoop(<<[op |-> "writeComplete"]>>)
                     /\ UNCHANGED <<chan, outputBuffer_>>
                  \/ /\ n \in 0 .. MsgSize - 1
                     /\ Keep(SubSeq(data, n + 1, MsgSize))

\* Mutant of shutdownInLoop: does not wait for the buffer.
shutdownAtOnce == fin' = TRUE

shutdownInLoop == fin' = (fin \/ ~isWriting)

\* handleClose: the channel is disabled; closeCallback_, TcpServer::removeConnection,
\* runs connectDestroyed, which removes the channel from the poller.
handleClose ==
    /\ state_' = "kDisconnected"
    /\ events_' = {}
    /\ index_' = "kNew"
    /\ closes' = closes + 1

----------------------------------------------------------------------------
(* Calls from other threads.                                                *)

CallStep(t, from, to) ==
    /\ call[t] = from
    /\ call' = [call EXCEPT ![t] = to]
    /\ UNCHANGED <<chan, stream, func, phase, revents_, peer, fin, closes>>

\* The first step of a call is the test of state_.
Call(t, op, states) ==
    /\ calls[t] < MaxCall
    /\ state_ \in states
    /\ CallStep(t, "none", op)
    /\ calls' = [calls EXCEPT ![t] = @ + 1]
    /\ UNCHANGED <<state_, funcs_>>

\* The assignment of shutdown and forceClose.
SetDisconnecting(t, from, to) ==
    /\ CallStep(t, from, to)
    /\ state_' = "kDisconnecting"
    /\ UNCHANGED <<funcs_, calls>>

\* The last step hands the rest of the call to the loop.
HandOver(t, from, f) ==
    /\ CallStep(t, from, "none")
    /\ queueInLoop(<<f>>)
    /\ UNCHANGED <<state_, calls>>

send(t) ==
    \/ Call(t, "send", {"kConnected"})
    \/ HandOver(t, "send", [op |-> "sendInLoop", from |-> t, seq |-> calls[t]])

\* "NOT thread safe, no simultaneous calling": one call of shutdown at a time.
shutdown(t) ==
    \/ /\ \A u \in Thread : call[u] \notin {"shutdown", "shutdownSet"}
       /\ Call(t, "shutdown", {"kConnected"})
    \/ SetDisconnecting(t, "shutdown", "shutdownSet")
    \/ HandOver(t, "shutdownSet", [op |-> "shutdownInLoop"])

forceClose(t) ==
    \/ Call(t, "forceClose", {"kConnected", "kDisconnecting"})
    \/ SetDisconnecting(t, "forceClose", "forceCloseSet")
    \/ HandOver(t, "forceCloseSet", [op |-> "forceCloseInLoop"])

----------------------------------------------------------------------------
(* The loop: poll, then the events of the channel in the order of           *)
(* handleEventWithGuard, then the functors until there are none.            *)

\* What epoll can report for the channel.
Ready ==
    (IF "read" \in events_ THEN {"in"} ELSE {})
    \cup (IF isWriting THEN {"out"} ELSE {})
    \cup (IF peer = "reset" \/ (peer = "closed" /\ fin) THEN {"hup"} ELSE {})

poll(R) ==
    /\ phase = "poll"
    /\ R \subseteq IF index_ = "kAdded" THEN Ready ELSE {}
    /\ phase' = "events"
    /\ revents_' = R
    /\ UNCHANGED <<state_, chan, stream, funcs_, func, call, calls, peer, fin, closes>>

\* POLLHUP without POLLIN calls closeCallback_, with POLLIN nothing.
handleHup ==
    /\ phase = "events" /\ "hup" \in revents_
    /\ revents_' = revents_ \ {"hup"}
    /\ IF "in" \in revents_ THEN UNCHANGED <<state_, chan, closes>> ELSE handleClose
    /\ UNCHANGED <<stream, funcs_, func, phase, call, calls, peer, fin>>

\* readFd returned bytes: messageCallback_ is called.
handleReadData ==
    /\ phase = "events" /\ "hup" \notin revents_ /\ "in" \in revents_
    /\ peer = "open"
    /\ phase' = "message"
    /\ UNCHANGED <<state_, chan, stream, funcs_, func, revents_, call, calls, peer, fin, closes>>

\* Mutant of handleReadEof: 0 is taken for an error.
ignoreEof ==
    /\ phase = "events" /\ "hup" \notin revents_ /\ "in" \in revents_
    /\ peer # "open"
    /\ revents_' = revents_ \ {"in"}
    /\ UNCHANGED <<state_, chan, stream, funcs_, func, phase, call, calls, peer, fin, closes>>

\* readFd returned 0.
handleReadEof ==
    /\ phase = "events" /\ "hup" \notin revents_ /\ "in" \in revents_
    /\ peer # "open"
    /\ revents_' = revents_ \ {"in"}
    /\ handleClose
    /\ UNCHANGED <<stream, funcs_, func, phase, call, calls, peer, fin>>

\* readFd failed: handleError only reads SO_ERROR.
handleReadError ==
    /\ phase = "events" /\ "hup" \notin revents_ /\ "in" \in revents_
    /\ peer = "reset"
    /\ revents_' = revents_ \ {"in"}
    /\ UNCHANGED <<state_, chan, stream, funcs_, func, phase, call, calls, peer, fin, closes>>

\* Mutant of Flushed: the channel keeps asking for POLLOUT.
FlushedWatching(n, rest) ==
    /\ outputBuffer_' = rest
    /\ wire' = wire \o SubSeq(outputBuffer_, 1, n)
    /\ UNCHANGED <<chan, funcs_, fin>>

\* Mutant of Flushed: a shutdown that waited for the buffer is forgotten.
FlushedOnly(n, rest) ==
    /\ outputBuffer_' = rest
    /\ wire' = wire \o SubSeq(outputBuffer_, 1, n)
    /\ IF rest # <<>> THEN UNCHANGED chan ELSE disable("write")
    /\ UNCHANGED <<funcs_, fin>>

\* The write of handleWrite took n > 0 bytes, the buffer is now rest.
Flushed(n, rest) ==
    /\ outputBuffer_' = rest
    /\ wire' = wire \o SubSeq(outputBuffer_, 1, n)
    /\ IF rest # <<>>
       THEN UNCHANGED <<chan, funcs_, fin>>
       ELSE /\ disable("write")
            /\ queueInLoop(<<[op |-> "writeComplete"]>>)
            /\ fin' = (fin \/ state_ = "kDisconnecting")

handleWrite ==
    /\ phase = "events" /\ revents_ = {"out"}
    /\ revents_' = {}
    /\ IF ~isWriting THEN UNCHANGED <<chan, stream, funcs_, fin>>
       ELSE \E n \in Written(Len(outputBuffer_)) :
              /\ UNCHANGED <<sent, lost>>
              /\ IF n <= 0 THEN UNCHANGED <<chan, outputBuffer_, wire, funcs_, fin>>
                 ELSE Flushed(n, SubSeq(outputBuffer_, n + 1, Len(outputBuffer_)))
    /\ UNCHANGED <<state_, func, phase, call, calls, peer, closes>>

eventsDone ==
    /\ phase = "events" /\ revents_ = {}
    /\ phase' = "functors"
    /\ UNCHANGED <<state_, chan, stream, funcs_, func, revents_, call, calls, peer, fin, closes>>

\* The loop is in a callback of the user's.  In the connectionCallback_ of handleClose
\* state_ is kDisconnected and the calls do nothing.
InCallback ==
    phase = "message" \/ func.op \in {"connectionCallback", "writeComplete", "highWaterMark"}

\* There the user calls send, shutdown and forceClose, in any order.
LoopCall ==
    /\ InCallback /\ calls[Loop] < MaxCall
    /\ calls' = [calls EXCEPT ![Loop] = @ + 1]
    /\ UNCHANGED <<func, phase, revents_, call, peer, closes>>

loopSend ==
    /\ LoopCall
    /\ state_ = "kConnected" /\ sendInLoop(Loop, calls[Loop] + 1)
    /\ UNCHANGED <<state_, fin>>

loopShutdown ==
    /\ LoopCall
    /\ state_ = "kConnected" /\ state_' = "kDisconnecting" /\ shutdownInLoop
    /\ UNCHANGED <<chan, stream, funcs_>>

loopForceClose ==
    /\ LoopCall
    /\ state_ \in {"kConnected", "kDisconnecting"} /\ state_' = "kDisconnecting"
    /\ queueInLoop(<<[op |-> "forceCloseInLoop"]>>)
    /\ UNCHANGED <<chan, stream, fin>>

messageDone ==
    /\ phase = "message"
    /\ phase' = "events"
    /\ revents_' = revents_ \ {"in"}
    /\ UNCHANGED <<state_, chan, stream, funcs_, func, call, calls, peer, fin, closes>>

\* doPendingFunctors: dequeue one, or stop.
takeFunctor ==
    /\ phase = "functors" /\ func.op = "none"
    /\ IF funcs_ = <<>>
       THEN phase' = "poll" /\ UNCHANGED <<funcs_, func>>
       ELSE func' = Head(funcs_) /\ funcs_' = Tail(funcs_) /\ UNCHANGED phase
    /\ UNCHANGED <<state_, chan, stream, revents_, call, calls, peer, fin, closes>>

\* A functor runs to its end.
Run(op) ==
    /\ func.op = op
    /\ func' = [op |-> "none"]
    /\ UNCHANGED <<phase, revents_, call, calls, peer>>

\* connectEstablished, which ends in connectionCallback_.
connectEstablished ==
    /\ func.op = "connectEstablished"
    /\ func' = [op |-> "connectionCallback"]
    /\ state_' = "kConnected"
    /\ enable("read")
    /\ UNCHANGED <<stream, funcs_, phase, revents_, call, calls, peer, fin, closes>>

runSendInLoop ==
    /\ Run("sendInLoop")
    /\ sendInLoop(func.from, func.seq)
    /\ UNCHANGED <<state_, fin, closes>>

runShutdownInLoop ==
    /\ Run("shutdownInLoop")
    /\ shutdownInLoop
    /\ UNCHANGED <<state_, chan, stream, funcs_, closes>>

forceCloseInLoop ==
    /\ Run("forceCloseInLoop")
    /\ IF state_ \in {"kConnected", "kDisconnecting"} THEN handleClose
       ELSE UNCHANGED <<state_, chan, closes>>
    /\ UNCHANGED <<stream, funcs_, fin>>

\* connectionCallback_, writeCompleteCallback_ or highWaterMarkCallback_ returns.
userCallback ==
    /\ \/ Run("connectionCallback")
       \/ Run("writeComplete")
       \/ Run("highWaterMark")
    /\ UNCHANGED <<state_, chan, stream, funcs_, fin, closes>>

----------------------------------------------------------------------------
peerGoes ==
    /\ \/ peer = "open" /\ peer' \in {"closed", "reset"}
       \/ peer = "closed" /\ peer' = "reset"
    /\ UNCHANGED <<state_, chan, stream, funcs_, func, phase, revents_, call, calls, fin, closes>>

Events == handleHup \/ handleReadData \/ handleReadEof \/ handleReadError \/ handleWrite
          \/ eventsDone
Functors == takeFunctor \/ connectEstablished \/ runSendInLoop \/ runShutdownInLoop
            \/ forceCloseInLoop \/ userCallback
Next ==
    \/ \E R \in SUBSET {"hup", "in", "out"} : poll(R)
    \/ Events
    \/ loopSend \/ loopShutdown \/ loopForceClose \/ messageDone
    \/ Functors
    \/ \E t \in Thread : send(t) \/ shutdown(t) \/ forceClose(t)
    \/ peerGoes

Spec == Init /\ [][Next]_vars

\* The loop's thread and the callers' threads run; the user's callbacks return; epoll is
\* level-triggered and the kernel takes bytes again and again while the peer is there.
Fairness ==
    /\ WF_vars((\E R \in SUBSET {"hup", "in", "out"} : poll(R)) \/ Events \/ Functors)
    /\ WF_vars(messageDone)
    /\ \A t \in Thread : WF_vars(call[t] # "none" /\ (send(t) \/ shutdown(t) \/ forceClose(t)))
    /\ SF_vars(poll(Ready) /\ Ready # {})
    /\ SF_vars(handleReadEof)
    /\ SF_vars(handleWrite /\ wire' # wire)

LiveSpec == Spec /\ Fairness

----------------------------------------------------------------------------
\* The bytes the kernel took, followed by the bytes in outputBuffer_, are what
\* sendInLoop was given, in that order and without a gap; only a write that failed
\* for good ends the stream, and then nothing follows.
StreamInOrder ==
    /\ IsPrefix(wire \o outputBuffer_, sent)
    /\ ~lost => wire \o outputBuffer_ = sent

\* A thread's messages are written whole and in the order of its calls, whatever the
\* other threads send in between.
SendOrder ==
    \A i, j \in 1 .. Len(sent) :
       i < j /\ sent[i][1] = sent[j][1] =>
          \/ sent[i][2] < sent[j][2]
          \/ sent[i][2] = sent[j][2] /\ sent[i][3] < sent[j][3]

\* Until the connection is closed the channel asks for POLLOUT exactly while there are
\* bytes to write: no busy loop on an empty buffer, no bytes nobody will write.
WritingWhileBuffered == closes = 0 => (isWriting <=> outputBuffer_ # <<>>)

\* The write side of an open connection is shut down only when every byte given to
\* sendInLoop before has been taken by the kernel.
FlushedBeforeFin == [][fin' /\ ~fin /\ closes = 0 => outputBuffer_' = <<>> /\ (wire' = sent' \/ lost)]_vars

\* "should be called only once" (connectDestroyed, called by every handleClose).
DestroyedOnce == closes <= 1

\* A shutdown ends: the write side is shut down or the connection is closed.
ShutdownCompletes == state_ = "kDisconnecting" ~> fin \/ closes > 0

\* A connection whose peer is gone is closed.
PeerGoneCloses == peer # "open" ~> closes > 0
=============================================================================
