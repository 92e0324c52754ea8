----------------------------- MODULE ThreadPool ------------------------------
(***************************************************************************)
(* timer/thread_pool/ThreadPool: workers that take tasks from a queue      *)
(* under a mutex and a condition variable, and stop(), which clears        *)
(* m_isStarted and notifies without holding the mutex.                     *)
(*                                                                         *)
(* Every task is added by a thread of its own.  m_isStarted and            *)
(* m_tasks.empty() are read without the mutex in threadLoop: a read        *)
(* returns what the last write before it left.                             *)
(***************************************************************************)
EXTENDS Naturals, Sequences

CONSTANTS Worker, Task, NULL

ASSUME NullAssumption == NULL \notin Worker \cup Task

VARIABLES m_isStarted,
          m_tasks,     \* the queue
          m_mutex,     \* the thread that holds it (a worker or an adder), or NULL
          waiting,     \* the workers blocked in m_cond.wait
          wpc,         \* Worker -> where it is in threadLoop
          task,        \* Worker -> the task it took
          add,         \* Task -> the progress of addTask
          stopping,    \* the progress of stop()
          done         \* the tasks that have been executed

vars == <<m_isStarted, m_tasks, m_mutex, waiting, wpc, task, add, stopping, done>>

\* start(), from the constructor
Init ==
  /\ m_isStarted = TRUE
  /\ m_tasks = <<>>
  /\ m_mutex = NULL
  /\ waiting = {}
  /\ wpc = [w \in Worker |-> "started?"]
  /\ task = [w \in Worker |-> NULL]
  /\ add = [k \in Task |-> "new"]
  /\ stopping = "no"
  /\ done = {}

-----------------------------------------------------------------------------
\* addTask: lock the mutex and read m_isStarted ...
addTask(k) ==
  /\ add[k] = "new"
  /\ m_mutex = NULL
  /\ IF m_isStarted
     THEN add' = [add EXCEPT ![k] = "push"] /\ m_mutex' = k
     ELSE add' = [add EXCEPT ![k] = "refused"] /\ UNCHANGED m_mutex
  /\ UNCHANGED <<m_isStarted, m_tasks, waiting, wpc, task, stopping, done>>

\* ... then push, notify_one (which wakes any one waiter) and unlock
addTaskPush(k) ==
  /\ add[k] = "push"
  /\ m_tasks' = Append(m_tasks, k)
  /\ IF waiting = {}
     THEN UNCHANGED waiting
     ELSE \E w \in waiting : waiting' = waiting \ {w}
  /\ m_mutex' = NULL
  /\ add' = [add EXCEPT ![k] = "added"]
  /\ UNCHANGED <<m_isStarted, wpc, task, stopping, done>>

-----------------------------------------------------------------------------
Goto(w, from, to) == wpc[w] = from /\ wpc' = [wpc EXCEPT ![w] = to]

\* Mutant: a worker leaves a stopped pool without a look at the queue.
ExitAtOnce(w) ==
  /\ Goto(w, "started?", IF m_isStarted THEN "lock" ELSE "exited")
  /\ UNCHANGED <<m_isStarted, m_tasks, m_mutex, waiting, task, add, stopping, done>>

\* while (m_isStarted || ...
readStarted(w) ==
  /\ Goto(w, "started?", IF m_isStarted THEN "lock" ELSE "empty?")
  /\ UNCHANGED <<m_isStarted, m_tasks, m_mutex, waiting, task, add, stopping, done>>

\* ... || !m_tasks.empty())
readEmpty(w) ==
  /\ Goto(w, "empty?", IF m_tasks # <<>> THEN "lock" ELSE "exited")
  /\ UNCHANGED <<m_isStarted, m_tasks, m_mutex, waiting, task, add, stopping, done>>

\* take: lock the mutex, or have it back from wait
lockMutex(w) ==
  /\ w \notin waiting
  /\ m_mutex = NULL
  /\ m_mutex' = w
  /\ Goto(w, "lock", "while")
  /\ UNCHANGED <<m_isStarted, m_tasks, waiting, task, add, stopping, done>>

\* while (m_tasks.empty() && m_isStarted)
checkQueue(w) ==
  /\ Goto(w, "while", IF m_tasks = <<>> /\ m_isStarted THEN "wait" ELSE "pop")
  /\ UNCHANGED <<m_isStarted, m_tasks, m_mutex, waiting, task, add, stopping, done>>

\* m_cond.wait: release the mutex and block, in one step
wait(w) ==
  /\ Goto(w, "wait", "lock")
  /\ waiting' = waiting \cup {w}
  /\ m_mutex' = NULL
  /\ UNCHANGED <<m_isStarted, m_tasks, task, add, stopping, done>>

\* Mutant: the front is taken but not popped.
TakeWithoutPop(w) ==
  /\ IF m_tasks = <<>>
     THEN Goto(w, "pop", "started?") /\ UNCHANGED task
     ELSE Goto(w, "pop", "run") /\ task' = [task EXCEPT ![w] = Head(m_tasks)]
  /\ m_mutex' = NULL
  /\ UNCHANGED <<m_isStarted, m_tasks, waiting, add, stopping, done>>

\* the rest of take: pop the front, if there is one, and unlock
pop(w) ==
  /\ IF m_tasks = <<>>
     THEN Goto(w, "pop", "started?") /\ UNCHANGED <<m_tasks, task>>
     ELSE /\ Goto(w, "pop", "run")
          /\ task' = [task EXCEPT ![w] = Head(m_tasks)]
          /\ m_tasks' = Tail(m_tasks)
  /\ m_mutex' = NULL
  /\ UNCHANGED <<m_isStarted, waiting, add, stopping, done>>

\* task()
run(w) ==
  /\ Goto(w, "run", "started?")
  /\ done' = done \cup {task[w]}
  /\ task' = [task EXCEPT ![w] = NULL]
  /\ UNCHANGED <<m_isStarted, m_tasks, m_mutex, waiting, add, stopping>>

\* wait may return without a notification
spuriousWakeup(w) ==
  /\ w \in waiting
  /\ waiting' = waiting \ {w}
  /\ UNCHANGED <<m_isStarted, m_tasks, m_mutex, wpc, task, add, stopping, done>>

-----------------------------------------------------------------------------
\* stop (or the destructor, when the pool is started): m_isStarted = false
stop ==
  /\ stopping = "no"
  /\ m_isStarted' = FALSE
  /\ stopping' = "flag"
  /\ UNCHANGED <<m_tasks, m_mutex, waiting, wpc, task, add, done>>

stopNotify ==
  /\ stopping = "flag"
  /\ waiting' = {}
  /\ stopping' = "join"
  /\ UNCHANGED <<m_isStarted, m_tasks, m_mutex, wpc, task, add, done>>

\* every join has returned
stopJoin ==
  /\ stopping = "join"
  /\ \A w \in Worker : wpc[w] = "exited"
  /\ stopping' = "returned"
  /\ UNCHANGED <<m_isStarted, m_tasks, m_mutex, waiting, wpc, task, add, done>>

-----------------------------------------------------------------------------
WorkerStep(w) ==
  readStarted(w) \/ readEmpty(w) \/ lockMutex(w) \/ checkQueue(w) \/ wait(w) \/ pop(w) \/ run(w)

Next ==
  \/ \E k \in Task : addTask(k) \/ addTaskPush(k)
  \/ \E w \in Worker : WorkerStep(w) \/ spuriousWakeup(w)
  \/ stop \/ stopNotify \/ stopJoin

Spec == Init /\ [][Next]_vars

(***************************************************************************)
(* Threads that can run do; tasks terminate; nobody is obliged to call     *)
(* stop or addTask; no wakeup is ever spurious out of obligation.          *)
(***************************************************************************)
Fairness ==
  /\ \A w \in Worker : WF_vars(WorkerStep(w))
  /\ \A k \in Task : WF_vars(addTaskPush(k))
  /\ WF_vars(stopNotify) /\ WF_vars(stopJoin)

FairSpec == Spec /\ Fairness

-----------------------------------------------------------------------------
Queued == {m_tasks[i] : i \in 1..Len(m_tasks)}
Taken == {task[w] : w \in Worker} \ {NULL}

(***************************************************************************)
(* Each accepted task is in exactly one place: once in the queue, in the   *)
(* hands of one worker, or executed; a refused one is in none              *)
(* (ThreadPool.cc:58-84).                                                  *)
(***************************************************************************)
TaskConservation ==
  /\ \A i, j \in 1..Len(m_tasks) : m_tasks[i] = m_tasks[j] => i = j
  /\ \A v, w \in Worker : task[v] = task[w] /\ task[v] # NULL => v = w
  /\ Queued \cap Taken = {} /\ (Queued \cup Taken) \cap done = {}
  /\ {k \in Task : add[k] = "added"} = Queued \cup Taken \cup done

(***************************************************************************)
(* A task that was accepted while the pool was started is executed, even   *)
(* when stop() is called meanwhile: the workers look at the queue again    *)
(* before they exit (ThreadPool.cc:49).                                    *)
(***************************************************************************)
AcceptedTasksRun == \A k \in Task : (add[k] = "added" /\ m_isStarted) ~> (k \in done)

(***************************************************************************)
(* timer/README.md:21: the pool, after it is closed, completes the tasks   *)
(* that are left and then closes: stop() returns.                          *)
(***************************************************************************)
StopReturns == (stopping = "flag") ~> (stopping = "returned")
=============================================================================
