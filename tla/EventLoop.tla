------------------------------ MODULE EventLoop ------------------------------
(***************************************************************************)
(* The reactor of EventLoop.cpp: loop(), queueInLoop() from any thread,    *)
(* quit() from any thread, the eventfd that wakes poll up, and the queue   *)
(* of pending functors (MpscQueue).                                        *)
(*                                                                         *)
(* User code on the loop thread (an event handler, a functor, whatever     *)
(* runs before loop()) may call queueInLoop and quit too.  runInLoop is    *)
(* queueInLoop on every other thread and a plain call on the loop thread.  *)
(***************************************************************************)
EXTENDS MpscQueue

CONSTANTS Loop,        \* the thread that owns the loop
          EventfdMax,  \* the eventfd counter's maximum (2^64 - 2)
          MaxCalls     \* bound: Thread -> the calls it makes on the loop

ASSUME LoopAssumption == Loop \in Thread
ASSUME EventfdAssumption == EventfdMax \in Nat \ {0}
ASSUME CallsAssumption == MaxCalls \in [Thread -> Nat]

Other == Thread \ {Loop}

VARIABLES pc,        \* where the loop thread is in loop()
          quit_,
          callingPendingFuncs_,
          wakeupFd,  \* the counter of the eventfd wakeupFd_
          active,    \* activeChannels_ still to be handled: the wakeup channel,
                     \* and "io" for all the others
          op,        \* Thread -> the call on the loop the thread is inside
          calls      \* Thread -> the calls it may still make

loopVars == <<pc, quit_, callingPendingFuncs_, wakeupFd, active, op, calls>>
vars == <<queueVars, loopVars>>

Init ==
  /\ QueueInit
  /\ pc = "out"
  /\ quit_ = FALSE
  /\ callingPendingFuncs_ = FALSE
  /\ wakeupFd = 0
  /\ active = {}
  /\ op = [t \in Thread |-> "idle"]
  /\ calls = MaxCalls

-----------------------------------------------------------------------------
(***************************************************************************)
(* Calls on the loop.                                                      *)
(***************************************************************************)
\* The loop thread makes calls only from user code.
MayCall(t) ==
  /\ op[t] = "idle"
  /\ calls[t] > 0
  /\ t = Loop => \/ pc \in {"out", "run"}
                 \/ pc = "events" /\ "io" \in active

\* write on the non-blocking eventfd: fails, unnoticed, when it would overflow
wakeup == wakeupFd' = IF wakeupFd < EventfdMax THEN wakeupFd + 1 ELSE wakeupFd

\* queueInLoop: enqueue's exchange, enqueue's store, then the wakeup.
queueInLoop(t, f) ==
  /\ MayCall(t)
  /\ Exchange(t, f)
  /\ op' = [op EXCEPT ![t] = "queue"]
  /\ calls' = [calls EXCEPT ![t] = @ - 1]
  /\ UNCHANGED <<pc, quit_, callingPendingFuncs_, wakeupFd, active>>

queueInLoopLink(t) ==
  /\ op[t] = "queue"
  /\ Link(t)
  /\ UNCHANGED loopVars

\* Mutant: the loop thread never wakes itself up.
WakeupByOthersOnly(t) ==
  /\ op[t] = "queue"
  /\ prevhead[t] = NULL
  /\ IF t # Loop THEN wakeup ELSE UNCHANGED wakeupFd
  /\ op' = [op EXCEPT ![t] = "idle"]
  /\ UNCHANGED <<queueVars, pc, quit_, callingPendingFuncs_, active, calls>>

queueInLoopWakeup(t) ==
  /\ op[t] = "queue"
  /\ prevhead[t] = NULL
  /\ IF t # Loop \/ ~callingPendingFuncs_ THEN wakeup ELSE UNCHANGED wakeupFd
  /\ op' = [op EXCEPT ![t] = "idle"]
  /\ UNCHANGED <<queueVars, pc, quit_, callingPendingFuncs_, active, calls>>

\* Mutant: quit only sets the flag.
QuitWithoutWakeup(t) ==
  /\ MayCall(t)
  /\ quit_' = TRUE
  /\ calls' = [calls EXCEPT ![t] = @ - 1]
  /\ UNCHANGED <<queueVars, pc, callingPendingFuncs_, wakeupFd, active, op>>

\* quit: the flag, then, on another thread, the wakeup.
quit(t) ==
  /\ MayCall(t)
  /\ quit_' = TRUE
  /\ op' = [op EXCEPT ![t] = IF t = Loop THEN "idle" ELSE "quit"]
  /\ calls' = [calls EXCEPT ![t] = @ - 1]
  /\ UNCHANGED <<queueVars, pc, callingPendingFuncs_, wakeupFd, active>>

quitWakeup(t) ==
  /\ op[t] = "quit"
  /\ wakeup
  /\ op' = [op EXCEPT ![t] = "idle"]
  /\ UNCHANGED <<queueVars, pc, quit_, callingPendingFuncs_, active, calls>>

-----------------------------------------------------------------------------
(***************************************************************************)
(* loop(), one step per access to what other threads see.                  *)
(***************************************************************************)
At(here) == pc = here /\ op[Loop] = "idle"

\* loop() is called (again): looping_ = true
loop ==
  /\ At("out")
  /\ pc' = "reset"
  /\ UNCHANGED <<queueVars, quit_, callingPendingFuncs_, wakeupFd, active, op, calls>>

\* quit_ = false
resetQuit ==
  /\ At("reset")
  /\ quit_' = FALSE
  /\ pc' = "test"
  /\ UNCHANGED <<queueVars, callingPendingFuncs_, wakeupFd, active, op, calls>>

\* while (!quit_), and looping_ = false behind it
testQuit ==
  /\ At("test")
  /\ pc' = IF quit_ THEN "out" ELSE "poll"
  /\ UNCHANGED <<queueVars, quit_, callingPendingFuncs_, wakeupFd, active, op, calls>>

\* poller_->poll returns, with the (level-triggered) wakeup channel when the
\* counter is not 0 and possibly with others
pollReturns(io) ==
  /\ At("poll")
  /\ active' = (IF wakeupFd > 0 THEN {"wakeup"} ELSE {}) \cup io
  /\ pc' = "events"
  /\ UNCHANGED <<queueVars, quit_, callingPendingFuncs_, wakeupFd, op, calls>>

pollWakes == wakeupFd > 0 /\ \E io \in SUBSET {"io"} : pollReturns(io)

\* other channels only, or none: the timeout
pollElse == wakeupFd = 0 /\ \E io \in SUBSET {"io"} : pollReturns(io)

\* handleRead: reading the eventfd sets it to 0
handleRead ==
  /\ At("events")
  /\ "wakeup" \in active
  /\ wakeupFd' = 0
  /\ active' = active \ {"wakeup"}
  /\ UNCHANGED <<queueVars, pc, quit_, callingPendingFuncs_, op, calls>>

\* the handlers of all other channels have returned
handleEvents ==
  /\ At("events")
  /\ "io" \in active
  /\ active' = active \ {"io"}
  /\ UNCHANGED <<queueVars, pc, quit_, callingPendingFuncs_, wakeupFd, op, calls>>

\* doPendingFunctors is entered
doPendingFunctors ==
  /\ At("events")
  /\ active = {}
  /\ callingPendingFuncs_' = TRUE
  /\ pc' = "outer"
  /\ UNCHANGED <<queueVars, quit_, wakeupFd, active, op, calls>>

\* while (!funcs_.empty()), and callingPendingFuncs_ = false behind it
outerWhile ==
  /\ At("outer")
  /\ IF Empty
     THEN pc' = "test" /\ callingPendingFuncs_' = FALSE
     ELSE pc' = "inner" /\ UNCHANGED callingPendingFuncs_
  /\ UNCHANGED <<queueVars, quit_, wakeupFd, active, op, calls>>

\* while (funcs_.dequeue(functor))
innerWhile ==
  /\ At("inner")
  /\ IF Empty
     THEN pc' = "outer" /\ UNCHANGED queueVars
     ELSE pc' = "run" /\ Dequeue
  /\ UNCHANGED <<quit_, callingPendingFuncs_, wakeupFd, active, op, calls>>

\* functor() has returned
functorReturns ==
  /\ At("run")
  /\ pc' = "inner"
  /\ UNCHANGED <<queueVars, quit_, callingPendingFuncs_, wakeupFd, active, op, calls>>

-----------------------------------------------------------------------------
LoopStep ==
  \/ resetQuit \/ testQuit \/ pollWakes \/ handleRead \/ handleEvents
  \/ doPendingFunctors \/ outerWhile \/ innerWhile \/ functorReturns

FinishCall(t) == queueInLoopLink(t) \/ queueInLoopWakeup(t) \/ quitWakeup(t)

Next ==
  \/ \E t \in Thread, f \in Item : queueInLoop(t, f)
  \/ \E t \in Thread : quit(t)
  \/ \E t \in Thread : FinishCall(t)
  \/ loop \/ pollElse
  \/ LoopStep

Spec == Init /\ [][Next]_vars

(***************************************************************************)
(* A call that was begun is finished, and the loop thread runs whenever it *)
(* is not blocked.  Nothing forces poll to return when no one wrote to the *)
(* eventfd: the ten-second timeout is not what makes functors run.         *)
(***************************************************************************)
Fairness ==
  /\ \A t \in Thread : WF_vars(FinishCall(t))
  /\ WF_vars(LoopStep)

FairSpec == Spec /\ Fairness

-----------------------------------------------------------------------------
Draining == {"outer", "inner", "run"}

TypeOK ==
  /\ pc \in {"out", "reset", "test", "poll", "events"} \cup Draining
  /\ quit_ \in BOOLEAN
  /\ callingPendingFuncs_ \in BOOLEAN
  /\ wakeupFd \in 0..EventfdMax
  /\ active \in SUBSET {"wakeup", "io"}
  /\ op \in [Thread -> {"idle", "queue", "quit"}]
  /\ calls \in [Thread -> Nat]

(***************************************************************************)
(* No lost wakeup: when the loop thread will next block in poll and a      *)
(* functor is queued, the eventfd is readable, or a caller that has not    *)
(* returned yet is still going to write it.  queueInLoop on the loop       *)
(* thread skips the write while functors run (EventLoop.cpp:155), and      *)
(* empty() may overlook a functor whose enqueue is half done.              *)
(***************************************************************************)
NoLostWakeup ==
  (pc \in {"out", "reset", "test", "poll"} /\ Pending # {}) =>
     wakeupFd > 0 \/ \E t \in Thread : op[t] = "queue"

(***************************************************************************)
(* No lost quit: the loop never sits in poll with quit_ set unless the     *)
(* eventfd is readable or the thread in quit() is about to write it        *)
(* (EventLoop.cpp:106-113), whatever handleRead consumed before.           *)
(***************************************************************************)
NoLostQuit ==
  (pc = "poll" /\ quit_) => wakeupFd > 0 \/ \E t \in Other : op[t] = "quit"

(***************************************************************************)
(* Inductive strengthening of both.                                        *)
(***************************************************************************)
LoopInv ==
  /\ TypeOK
  /\ NoLostWakeup
  /\ NoLostQuit
  /\ callingPendingFuncs_ <=> pc \in Draining
  /\ op[Loop] # "quit"
  /\ op[Loop] = "queue" => pc \in {"out", "events", "run"}
  /\ \A t \in Thread : prevhead[t] # NULL => op[t] = "queue"

\* The loop uses the queue as its class promises it may be used: only the
\* loop thread dequeues, and enqueues of one thread do not overlap.
UsesQueue == QueueSpec

(***************************************************************************)
(* Every functor that queueInLoop accepted is run, unless loop() returns   *)
(* first: the queue is drained without the help of poll's timeout.         *)
(***************************************************************************)
FunctorsRun == \A n \in Node : (n \in Pending) ~> (n = tail_ \/ pc = "out")

(***************************************************************************)
(* quit() on any thread, once loop() has reset the flag, ends loop().      *)
(***************************************************************************)
QuitEndsLoop == (quit_ /\ pc \notin {"out", "reset"}) ~> (pc = "out")
=============================================================================
