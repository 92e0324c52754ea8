---------------------------- MODULE EventLoopThread ----------------------------
(***************************************************************************)
(* A loop and the object that runs it (EventLoopThread.cpp): the owner      *)
(* waits for the thread's loop, lets it start with run() and takes it down  *)
(* in the destructor, through three promises, a functor, quit() and join.   *)
(* With owner = "none" the loop is one that the program runs on a thread of *)
(* its own, with EventLoop's actions alone.                                 *)
(***************************************************************************)
EXTENDS EventLoop

CONSTANTS Owner,     \* the thread that constructs and destroys the object
          Started    \* the functor that sets promiseForLoop_

ASSUME OwnerAssumption == Owner \in Other /\ Started \in Item

VARIABLES owner,            \* where the owner is in the object's life
          life,             \* where the thread is in threadFunc
          promiseForRun_, promiseForLoop_,
          othersQuit        \* history: the thread's loop was told to quit, not by the destructor

threadVars == <<owner, life, promiseForRun_, promiseForLoop_, othersQuit>>
allVars == <<vars, threadVars>>

ThreadInit ==
  /\ Init
  /\ owner \in {"ctor", "none"}
  /\ life = "start"
  /\ promiseForRun_ = FALSE /\ promiseForLoop_ = FALSE
  /\ othersQuit = FALSE

(***************************************************************************)
(* threadFunc, on the loop's thread.                                       *)
(***************************************************************************)
\* loop.queueInLoop of the functor that will report that the loop runs
queueStarted ==
  /\ owner # "none" /\ life = "start"
  /\ queueInLoop(Loop, Started)
  /\ life' = "queue"
  /\ UNCHANGED <<owner, promiseForRun_, promiseForLoop_, othersQuit>>

\* promiseForLoopPointer_.set_value, for which the constructor waits
setLoopPointer ==
  /\ life = "queue" /\ op[Loop] = "idle"
  /\ life' = "wait"
  /\ owner' = "idle"
  /\ UNCHANGED <<vars, promiseForRun_, promiseForLoop_, othersQuit>>

callLoop ==
  /\ life = "wait" /\ promiseForRun_
  /\ loop
  /\ life' = "loop"
  /\ UNCHANGED <<owner, promiseForRun_, promiseForLoop_, othersQuit>>

\* loop_ = NULL; the loop, a local variable, is gone
threadEnds ==
  /\ life = "loop" /\ At("out")
  /\ life' = "done"
  /\ UNCHANGED <<vars, owner, promiseForRun_, promiseForLoop_, othersQuit>>

\* Mutant: the functor forgets its promise.
startedSilently ==
  /\ functorReturns
  /\ UNCHANGED threadVars

\* functorReturns, and what the functor did when it is the one of threadFunc
functorDone ==
  /\ functorReturns
  /\ promiseForLoop_' = (promiseForLoop_ \/ output = Started)
  /\ UNCHANGED <<owner, life, promiseForRun_, othersQuit>>

(***************************************************************************)
(* The owner.                                                              *)
(***************************************************************************)
run ==
  /\ owner = "idle"
  /\ promiseForRun_' = TRUE
  /\ owner' = "run"
  /\ UNCHANGED <<vars, life, promiseForLoop_, othersQuit>>

runReturns ==
  /\ owner = "run" /\ promiseForLoop_
  /\ owner' = "ran"
  /\ UNCHANGED <<vars, life, promiseForRun_, promiseForLoop_, othersQuit>>

\* The destructor: without a loop_ it does not join, and the std::thread it leaves
\* joinable ends the program.
destroy ==
  /\ owner \in {"idle", "ran"} /\ op[Owner] = "idle"
  /\ \/ life # "done" /\ calls[Owner] > 0 /\ owner' = "destroy"
     \/ life = "done" /\ owner' = "terminated"
  /\ UNCHANGED <<vars, life, promiseForRun_, promiseForLoop_, othersQuit>>

\* loop_->quit(); "still a tiny chance to call destructed object, if threadFunc exits
\* just now".
destroyQuit ==
  /\ owner = "destroy"
  /\ IF life # "done"
     THEN quit(Owner) /\ owner' = "quit"
     ELSE owner' = "dangling" /\ UNCHANGED vars
  /\ UNCHANGED <<life, promiseForRun_, promiseForLoop_, othersQuit>>

join ==
  /\ owner = "quit" /\ op[Owner] = "idle" /\ life = "done"
  /\ owner' = "joined"
  /\ UNCHANGED <<vars, life, promiseForRun_, promiseForLoop_, othersQuit>>

-----------------------------------------------------------------------------
\* Who may call into the loop: everybody once the constructor has returned and until
\* the loop is gone; not the owner inside run() or the destructor.
MayReach(t) ==
  \/ owner = "none"
  \/ /\ owner # "ctor" /\ life \in {"wait", "loop"}
     /\ t = Owner => owner \in {"idle", "ran"}
     /\ t = Loop => life = "loop"

Call ==
  \E t \in Thread :
    /\ MayReach(t)
    /\ \/ (\E f \in Item \ {Started} : queueInLoop(t, f)) /\ UNCHANGED threadVars
       \/ quit(t) /\ othersQuit' = (owner # "none") /\ UNCHANGED <<owner, life, promiseForRun_, promiseForLoop_>>

Step(t) == FinishCall(t) /\ UNCHANGED threadVars

\* loop() and what it calls
Looping ==
  \/ functorDone
  \/ /\ \/ resetQuit \/ testQuit \/ pollWakes \/ handleRead \/ handleEvents
        \/ doPendingFunctors \/ outerWhile \/ innerWhile
     /\ UNCHANGED threadVars

threadFunc == queueStarted \/ setLoopPointer \/ callLoop \/ threadEnds

ThreadNext ==
  \/ Call
  \/ \E t \in Thread : Step(t)
  \/ Looping
  \/ owner = "none" /\ loop /\ UNCHANGED threadVars
  \/ pollElse /\ UNCHANGED threadVars
  \/ threadFunc
  \/ run \/ runReturns \/ destroy \/ destroyQuit \/ join

ThreadSpec == ThreadInit /\ [][ThreadNext]_allVars

(***************************************************************************)
(* EventLoop's fairness, and: the loop's thread and an owner whose promise *)
(* is kept go on.  When run() and the destructor are called is left open.  *)
(***************************************************************************)
ThreadFairness ==
  /\ \A t \in Thread : WF_allVars(Step(t))
  /\ WF_allVars(Looping)
  /\ WF_allVars(threadFunc)
  /\ WF_allVars(runReturns \/ destroyQuit \/ join)

-----------------------------------------------------------------------------
(***************************************************************************)
(* "Make sure the event loop loops before returning": when run() returns,  *)
(* the thread is inside loop(), or was and has been told to quit           *)
(* (EventLoopThread.cpp:42-50).                                            *)
(***************************************************************************)
LoopsWhenRun == owner = "ran" => life \in {"loop", "done"}

\* Inductive strengthening: loop() is entered through threadFunc alone, so a functor
\* can set promiseForLoop_ only then, and run() waits for that.
HandshakeInv ==
  /\ owner = "none" => life = "start"
  /\ owner = "none" \/ pc = "out" \/ life = "loop"
  /\ owner # "none" /\ promiseForLoop_ => life \in {"loop", "done"}
  /\ owner = "ran" => promiseForLoop_

(***************************************************************************)
(* As long as nobody but the destructor calls quit(), run() returns, and a *)
(* destructor called after it joins the thread.  The functor that run()    *)
(* waits for is queued before loop() is called, so it is the wakeup left   *)
(* in the eventfd that gets it run (EventLoopThread.cpp:32-37, 42-49).     *)
(***************************************************************************)
StartsAndStops ==
  []~othersQuit => /\ (owner = "run") ~> (owner = "ran")
                   /\ (owner = "destroy" /\ promiseForRun_) ~> (owner = "joined")
=============================================================================
