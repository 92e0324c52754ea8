-------------------------- MODULE ThreadPoolProofs ---------------------------
(***************************************************************************)
(* The pool's queue and mutex, for every number of workers and tasks.      *)
(***************************************************************************)
EXTENDS ThreadPool, SequenceTheorems, TLAPS

Typed ==
  /\ m_tasks \in Seq(Task)
  /\ waiting \subseteq Worker
  /\ wpc \in [Worker -> {"started?", "empty?", "lock", "while", "wait", "pop", "run", "exited"}]
  /\ task \in [Worker -> Task \cup {NULL}]
  /\ add \in [Task -> {"new", "push", "refused", "added"}]

\* A worker has a task exactly while it is about to run it.
HasTask == \A w \in Worker : task[w] # NULL <=> wpc[w] = "run"

\* TaskConservation, told of the elements: TaskConservation follows, and this form is
\* the one a step is checked against.
Places ==
  /\ \A i, j \in 1 .. Len(m_tasks) : m_tasks[i] = m_tasks[j] => i = j
  /\ \A v, w \in Worker : task[v] = task[w] /\ task[v] # NULL => v = w
  /\ \A i \in 1 .. Len(m_tasks) :
       /\ m_tasks[i] \notin done /\ add[m_tasks[i]] = "added"
       /\ \A w \in Worker : task[w] # m_tasks[i]
  /\ \A w \in Worker : task[w] # NULL => task[w] \notin done /\ add[task[w]] = "added"
  /\ \A k \in done : k \in Task /\ add[k] = "added"
  /\ \A k \in Task : add[k] = "added" =>
       \/ k \in done
       \/ \E w \in Worker : task[w] = k
       \/ \E i \in 1 .. Len(m_tasks) : m_tasks[i] = k

PoolInv == Typed /\ HasTask /\ Places

\* A new pool has no tasks.
LEMMA PoolInit == Init => PoolInv
<1> SUFFICES ASSUME Init PROVE PoolInv
  OBVIOUS
<1>1. m_tasks \in Seq(Task) /\ Len(m_tasks) = 0
  BY DEF Init
<1> QED BY <1>1 DEF Init, PoolInv, Typed, HasTask, Places

\* addTaskPush puts a task that was nowhere behind the others.
LEMMA PushKeeps ==
  ASSUME PoolInv, NEW k \in Task, addTaskPush(k)
  PROVE  PoolInv'
<1> USE DEF PoolInv
<1>1. /\ add[k] = "push" /\ add' = [add EXCEPT ![k] = "added"]
      /\ m_tasks' = Append(m_tasks, k) /\ UNCHANGED <<wpc, task, done>>
  BY DEF addTaskPush
<1>2. waiting' \subseteq Worker
  BY DEF addTaskPush, Typed
<1>3. Typed'
  BY <1>1, <1>2 DEF Typed
<1>4. /\ Len(m_tasks) \in Nat /\ Len(m_tasks') = Len(m_tasks) + 1
      /\ m_tasks'[Len(m_tasks) + 1] = k
      /\ \A i \in 1 .. Len(m_tasks) : m_tasks'[i] = m_tasks[i]
  BY <1>1, AppendProperties, LenProperties DEF Typed
<1>5. \A j \in Task : add'[j] = IF j = k THEN "added" ELSE add[j]
  BY <1>1 DEF Typed
<1>6. \A i \in 1 .. Len(m_tasks) : m_tasks[i] \in Task /\ m_tasks[i] # k
  BY <1>1, ElementOfSeq DEF Typed, Places
<1>7. k \notin done /\ \A w \in Worker : task[w] # k
  BY <1>1, NullAssumption DEF Places
<1>8. \A i \in 1 .. Len(m_tasks') : i \in 1 .. Len(m_tasks) \/ i = Len(m_tasks) + 1
  BY <1>4
<1>9. Places'
  <2>1. \A i, j \in 1 .. Len(m_tasks') : m_tasks'[i] = m_tasks'[j] => i = j
    BY <1>4, <1>6, <1>8 DEF Places
  <2>2. \A v, w \in Worker : task'[v] = task'[w] /\ task'[v] # NULL => v = w
    BY <1>1 DEF Places
  <2>3. ASSUME NEW i \in 1 .. Len(m_tasks')
        PROVE  /\ m_tasks'[i] \notin done' /\ add'[m_tasks'[i]] = "added"
               /\ \A w \in Worker : task'[w] # m_tasks'[i]
    <3>1. CASE i \in 1 .. Len(m_tasks)
      BY <1>1, <1>4, <1>5, <1>6, <3>1 DEF Places
    <3>2. CASE i = Len(m_tasks) + 1
      BY <1>1, <1>4, <1>5, <1>7, <3>2
    <3> QED BY <1>8, <3>1, <3>2
  <2>4. ASSUME NEW w \in Worker, task'[w] # NULL
        PROVE  task'[w] \notin done' /\ add'[task'[w]] = "added"
    <3>1. task[w] \in Task /\ task'[w] = task[w]
      BY <1>1, <2>4 DEF Typed
    <3> QED BY <1>1, <1>5, <2>4, <3>1 DEF Places
  <2>5. \A j \in done' : j \in Task /\ add'[j] = "added"
    BY <1>1, <1>5 DEF Places
  <2>6. ASSUME NEW j \in Task, add'[j] = "added"
        PROVE  \/ j \in done'
               \/ \E w \in Worker : task'[w] = j
               \/ \E i \in 1 .. Len(m_tasks') : m_tasks'[i] = j
    <3>1. CASE j = k
      BY <1>4, <3>1
    <3>2. CASE j # k
      <4>1. \A i \in 1 .. Len(m_tasks) : i \in 1 .. Len(m_tasks') /\ m_tasks'[i] = m_tasks[i]
        BY <1>4
      <4> QED BY <1>1, <1>5, <2>6, <3>2, <4>1 DEF Places
    <3> QED BY <3>1, <3>2
  <2> QED BY <2>1, <2>2, <2>3, <2>4, <2>5, <2>6 DEF Places
<1> QED BY <1>1, <1>3, <1>9 DEF HasTask

\* pop moves the front of the queue, if there is one, into the worker's hands.
LEMMA PopKeeps ==
  ASSUME PoolInv, NEW w \in Worker, pop(w)
  PROVE  PoolInv'
<1> USE DEF PoolInv
<1>1. wpc[w] = "pop" /\ task[w] = NULL /\ UNCHANGED <<waiting, add, done>>
  BY DEF pop, Goto, HasTask
<1>2. CASE m_tasks = <<>>
  BY <1>1, <1>2 DEF pop, Goto, Typed, HasTask, Places
<1>3. CASE m_tasks # <<>>
  <2>1. /\ wpc' = [wpc EXCEPT ![w] = "run"] /\ task' = [task EXCEPT ![w] = Head(m_tasks)]
        /\ m_tasks' = Tail(m_tasks)
    BY <1>3 DEF pop, Goto
  <2>2. Head(m_tasks) \in Task /\ m_tasks' \in Seq(Task) /\ Len(m_tasks') = Len(m_tasks) - 1
        /\ \A i \in 1 .. Len(m_tasks') : m_tasks'[i] = m_tasks[i + 1]
    BY <1>3, <2>1, HeadTailProperties DEF Typed
  <2>3. Len(m_tasks) \in Nat \ {0} /\ Head(m_tasks) = m_tasks[1]
    BY <1>3, EmptySeq DEF Typed
  <2>4. Typed'
    BY <1>1, <2>1, <2>2 DEF Typed
  <2>5. \A v \in Worker : /\ task'[v] = IF v = w THEN m_tasks[1] ELSE task[v]
                          /\ wpc'[v] = IF v = w THEN "run" ELSE wpc[v]
    BY <2>1, <2>3 DEF Typed
  <2>6. HasTask'
    BY <2>2, <2>3, <2>5, NullAssumption DEF HasTask
  <2>7. /\ \A i \in 1 .. Len(m_tasks') : i + 1 \in 1 .. Len(m_tasks) /\ i + 1 # 1
        /\ 1 \in 1 .. Len(m_tasks)
        /\ \A i \in 1 .. Len(m_tasks) : i = 1 \/ \E j \in 1 .. Len(m_tasks') : i = j + 1
    <3>1. \A i \in 1 .. Len(m_tasks) : i # 1 => i - 1 \in 1 .. Len(m_tasks') /\ i = (i - 1) + 1
      BY <2>2, <2>3
    <3> QED BY <2>2, <2>3, <3>1
  <2>8. Places'
    <3>1. \A i, j \in 1 .. Len(m_tasks') : m_tasks'[i] = m_tasks'[j] => i = j
      <4> TAKE i, j \in 1 .. Len(m_tasks')
      <4>1. i + 1 \in 1 .. Len(m_tasks) /\ j + 1 \in 1 .. Len(m_tasks)
        BY <2>7
      <4>2. m_tasks[i + 1] = m_tasks[j + 1] => i + 1 = j + 1
        BY <4>1 DEF Places
      <4> QED BY <2>2, <2>3, <4>2
    <3>2. \A u, v \in Worker : task'[u] = task'[v] /\ task'[u] # NULL => u = v
      BY <2>5, <2>7 DEF Places
    <3>3. \A i \in 1 .. Len(m_tasks') :
            /\ m_tasks'[i] \notin done' /\ add'[m_tasks'[i]] = "added"
            /\ \A v \in Worker : task'[v] # m_tasks'[i]
      <4> TAKE i \in 1 .. Len(m_tasks')
      <4>1. i + 1 \in 1 .. Len(m_tasks) /\ 1 \in 1 .. Len(m_tasks) /\ i + 1 # 1
            /\ m_tasks'[i] = m_tasks[i + 1]
        BY <2>2, <2>7
      <4> QED BY <1>1, <2>5, <4>1 DEF Places
    <3>4. \A v \in Worker : task'[v] # NULL => task'[v] \notin done' /\ add'[task'[v]] = "added"
      BY <1>1, <2>5, <2>7 DEF Places
    <3>5. ASSUME NEW k \in Task, add'[k] = "added"
          PROVE  \/ k \in done'
                 \/ \E v \in Worker : task'[v] = k
                 \/ \E i \in 1 .. Len(m_tasks') : m_tasks'[i] = k
      <4>1. CASE k \in done
        BY <1>1, <4>1
      <4>2. CASE \E v \in Worker : task[v] = k
        BY <1>1, <2>5, <4>2, NullAssumption
      <4>3. CASE \E i \in 1 .. Len(m_tasks) : m_tasks[i] = k
        <5>1. PICK i \in 1 .. Len(m_tasks) : m_tasks[i] = k
          BY <4>3
        <5>2. CASE i = 1
          BY <2>5, <5>1, <5>2
        <5>3. CASE i # 1
          <6>1. PICK j \in 1 .. Len(m_tasks') : i = j + 1
            BY <2>7, <5>3
          <6>2. m_tasks'[j] = k
            BY <2>2, <5>1, <6>1
          <6> QED BY <6>2
        <5> QED BY <5>2, <5>3
      <4> QED BY <1>1, <3>5, <4>1, <4>2, <4>3 DEF Places
    <3> QED BY <1>1, <3>1, <3>2, <3>3, <3>4, <3>5 DEF Places
  <2> QED BY <2>4, <2>6, <2>8
<1> QED BY <1>2, <1>3

\* run finishes the task and lets go of it.
LEMMA RunKeeps ==
  ASSUME PoolInv, NEW w \in Worker, run(w)
  PROVE  PoolInv'
<1> USE DEF PoolInv
<1>1. /\ wpc[w] = "run" /\ wpc' = [wpc EXCEPT ![w] = "started?"]
      /\ done' = done \cup {task[w]} /\ task' = [task EXCEPT ![w] = NULL]
      /\ UNCHANGED <<m_tasks, waiting, add>>
  BY DEF run, Goto
<1>2. task[w] # NULL /\ task[w] \in Task
  BY <1>1 DEF HasTask, Typed
<1>3. \A v \in Worker : /\ task'[v] = IF v = w THEN NULL ELSE task[v]
                        /\ wpc'[v] = IF v = w THEN "started?" ELSE wpc[v]
  BY <1>1 DEF Typed
<1>4. Typed'
  BY <1>1 DEF Typed
<1>5. HasTask'
  BY <1>3 DEF HasTask
<1>6. \A i \in 1 .. Len(m_tasks) : m_tasks[i] \in Task
  BY ElementOfSeq DEF Typed
<1>7. Places'
  BY <1>1, <1>2, <1>3, <1>6, NullAssumption DEF Places
<1> QED BY <1>4, <1>5, <1>7

\* Every step of a worker, an adder and stop() keeps the invariant.
LEMMA PoolNext == PoolInv /\ [Next]_vars => PoolInv'
<1> SUFFICES ASSUME PoolInv, [Next]_vars
             PROVE  PoolInv'
  OBVIOUS
<1> USE DEF PoolInv
<1>1. ASSUME NEW k \in Task, addTask(k) PROVE PoolInv'
  <2>1. /\ add[k] = "new" /\ UNCHANGED <<m_tasks, waiting, wpc, task, done>>
        /\ \E to \in {"push", "refused"} : add' = [add EXCEPT ![k] = to]
    BY <1>1 DEF addTask
  <2>2. Typed' /\ \A j \in Task : add'[j] = "added" <=> add[j] = "added"
    BY <2>1 DEF Typed
  <2>3. \A i \in 1 .. Len(m_tasks) : m_tasks[i] \in Task
    BY ElementOfSeq DEF Typed
  <2>4. \A w \in Worker : task[w] # NULL => task[w] \in Task
    BY DEF Typed
  <2>5. Places'
    BY <2>1, <2>2, <2>3, <2>4 DEF Places
  <2> QED BY <2>1, <2>2, <2>5 DEF HasTask
<1>2. ASSUME NEW k \in Task, addTaskPush(k) PROVE PoolInv'
  BY <1>2, PushKeeps
<1>3. ASSUME UNCHANGED <<m_tasks, task, add, done>>, waiting' \subseteq Worker,
             NEW w \in Worker, NEW from \in {"started?", "empty?", "lock", "while", "wait"},
             NEW to \in {"started?", "empty?", "lock", "while", "wait", "pop", "exited"},
             Goto(w, from, to)
      PROVE  PoolInv'
  BY <1>3 DEF Goto, Typed, HasTask, Places
<1>4. ASSUME NEW w \in Worker, readStarted(w) \/ readEmpty(w) \/ lockMutex(w) \/ checkQueue(w)
                               \/ wait(w)
      PROVE  PoolInv'
  BY <1>3, <1>4 DEF readStarted, readEmpty, lockMutex, checkQueue, wait, Typed
<1>5. ASSUME NEW w \in Worker, pop(w) PROVE PoolInv'
  BY <1>5, PopKeeps
<1>6. ASSUME NEW w \in Worker, run(w) PROVE PoolInv'
  BY <1>6, RunKeeps
<1>7. CASE stop \/ stopNotify \/ stopJoin \/ (\E w \in Worker : spuriousWakeup(w))
           \/ UNCHANGED vars
  <2>1. UNCHANGED <<m_tasks, wpc, task, add, done>> /\ waiting' \subseteq Worker
    BY <1>7 DEF stop, stopNotify, stopJoin, spuriousWakeup, vars, Typed
  <2> QED BY <2>1 DEF Typed, HasTask, Places
<1> QED BY <1>1, <1>2, <1>4, <1>5, <1>6, <1>7 DEF Next, WorkerStep

(***************************************************************************)
(* Every accepted task is in exactly one place, whatever number of workers *)
(* take from the queue while it is filled and the pool is stopped          *)
(* (ThreadPool.cc:58-84).                                                  *)
(***************************************************************************)
THEOREM TasksConserved == Spec => []TaskConservation
<1>1. PoolInv => TaskConservation
  <2> SUFFICES ASSUME PoolInv PROVE TaskConservation
    OBVIOUS
  <2>1. \A i \in 1 .. Len(m_tasks) : m_tasks[i] \in Task
    BY ElementOfSeq DEF PoolInv, Typed
  <2>2. \A w \in Worker : task[w] \in Task \cup {NULL}
    BY DEF PoolInv, Typed
  <2>3. Queued \cap Taken = {} /\ (Queued \cup Taken) \cap done = {}
    BY DEF PoolInv, Places, Queued, Taken
  <2>4. {k \in Task : add[k] = "added"} = Queued \cup Taken \cup done
    BY <2>1, <2>2, NullAssumption DEF PoolInv, Places, Queued, Taken
  <2> QED BY <2>3, <2>4 DEF PoolInv, Places, TaskConservation
<1> QED BY <1>1, PoolInit, PoolNext, PTL DEF Spec
=============================================================================
