--------------------------------- MODULE Timer ---------------------------------
(***************************************************************************)
(* The hierarchical timing wheel (timer/): threads add tasks under a shared *)
(* lock, a tick thread of the pool polls the delay queue and flushes due    *)
(* buckets under the exclusive lock.                                        *)
(*                                                                         *)
(* TimingWheel's constructor fills m_buckets with copies of one             *)
(* TimerTaskList, and copies share root, m_mtx and m_setFlag: a wheel has   *)
(* one list and one flag for all its buckets, and only m_expiration and the *)
(* identity an entry keeps in `list' are a bucket's own.                    *)
(***************************************************************************)
EXTENDS Integers, FiniteSetsExt, SequencesExt

CONSTANTS
    Task,        \* tasks, each added once, by a thread of its own
    Delay,       \* delayTime
    m_tickMs, m_wheelSize,
    Levels,      \* wheels that may come to exist (a bound)
    threadNum,   \* threads of the pool
    StartMs, MaxTime   \* first and last instant of the clock (a bound)

ASSUME TimerAssumption ==
    /\ m_tickMs \in Nat \ {0} /\ m_wheelSize \in Nat \ {0} /\ threadNum \in Nat \ {0}
    /\ Levels \in Nat \ {0} /\ StartMs \in Nat /\ MaxTime \in Nat
    /\ Delay \subseteq 0 .. m_tickMs * m_wheelSize ^ Levels - 1

Level == 0 .. Levels - 1
Bucket == Level \X (0 .. m_wheelSize - 1)
NoBucket == <<-1, -1>>

VARIABLES
    now,            \* gettimeofday
    wheels,         \* number of wheels created
    m_currentTime,  \* wheel -> its clock
    root,           \* wheel -> the entries linked in its shared list
    list,           \* task -> bucket its entry says it is in
    m_expiration,   \* bucket -> its expiration, -1 when unset
    m_setFlag,      \* wheel -> the task whose adder holds the flag, or 0
    m_q,            \* the delay queue: <<expiration, bucket>>, in these bounds never offered twice
    expiration,     \* task -> its expiration
    pc,             \* task -> where its adder, or later the task, is
    tick,           \* the tick thread: "while", "poll", "lock", "flush" or "end"
    bucket,         \* the bucket the tick thread polled
    isRunning,
    m_isStarted,    \* the pool takes tasks
    missed,         \* history: setExpiration once found the flag taken
    dangling        \* an entry was deleted while it was linked

vars == <<now, wheels, m_currentTime, root, list, m_expiration, m_setFlag, m_q,
          expiration, pc, tick, bucket, isRunning, m_isStarted, missed, dangling>>

Init ==
    /\ now = StartMs
    /\ wheels = 1
    /\ m_currentTime = [l \in Level |-> StartMs - (StartMs % m_tickMs)]
    /\ root = [l \in Level |-> <<>>]
    /\ list = [t \in Task |-> NoBucket]
    /\ m_expiration = [b \in Bucket |-> -1]
    /\ m_setFlag = [l \in Level |-> 0]
    /\ m_q = {}
    /\ expiration = [t \in Task |-> 0]
    /\ pc = [t \in Task |-> "new"]
    /\ tick = "while"
    /\ bucket = NoBucket
    /\ isRunning = TRUE
    /\ m_isStarted = TRUE
    /\ missed = FALSE
    /\ dangling = FALSE

----------------------------------------------------------------------------
(* TimingWheel.                                                             *)

tickOf(l) == m_tickMs * m_wheelSize ^ l
interval(l) == tickOf(l) * m_wheelSize

\* The clock of wheel l; a wheel not created yet would start at the clock below it.
clock[l \in Level] ==
    IF l < wheels THEN m_currentTime[l]
    ELSE clock[l - 1] - (clock[l - 1] % tickOf(l))

\* The wheel add() stops at: the first whose span the expiration is in.
wheelFor(e) == Min({l \in Level : e < clock[l] + interval(l)})

\* Mutant: add treats what expires within the next tick but one as due.
ExpiredSoon(e) == e < m_currentTime[0] + 2 * m_tickMs

\* add() returns false: at the first wheel, since what passes it is beyond its span and
\* so beyond the current tick of every wheel above.
Expired(e) == e < m_currentTime[0] + m_tickMs

virtualId(e) == e \div tickOf(wheelFor(e))
bucketFor(e) == <<wheelFor(e), virtualId(e) % m_wheelSize>>

\* The wheels and clocks once add() created the ones it passed through.
Created(e) ==
    /\ wheels' = Max({wheels, wheelFor(e) + 1})
    /\ m_currentTime' = [l \in Level |-> IF l <= wheelFor(e) THEN clock[l] ELSE m_currentTime[l]]

\* TimerTaskList::add: the entry leaves the list it is in and is linked at the end.
Link(t, b) ==
    /\ root' = [l \in Level |->
           LET rest == Remove(root[l], t) IN IF l = b[1] THEN Append(rest, t) ELSE rest]
    /\ list' = [list EXCEPT ![t] = b]

\* advanceClock: a wheel moves by whole ticks, to where the one below it moved.
advanceClock(timeMs) ==
    LET moved[l \in Level] ==
            LET to == IF l = 0 THEN timeMs ELSE moved[l - 1]
            IN  IF l < wheels /\ to >= m_currentTime[l] + tickOf(l)
                THEN to - (to % tickOf(l))
                ELSE m_currentTime[l]
    IN  m_currentTime' = moved

\* Mutant: the old expiration is read after the new one is stored.
setAndOfferNever(e, b) ==
    /\ m_expiration' = [m_expiration EXCEPT ![b] = virtualId(e) * tickOf(wheelFor(e))]
    /\ UNCHANGED m_q

\* setExpiration when the flag is free, and the offer of a bucket it changed, with the
\* expiration of the task.
setAndOffer(e, b) ==
    /\ m_expiration' = [m_expiration EXCEPT ![b] = virtualId(e) * tickOf(wheelFor(e))]
    /\ m_q' = IF m_expiration'[b] # m_expiration[b] THEN m_q \cup {<<e, b>>} ELSE m_q

----------------------------------------------------------------------------
(* The threads that add tasks.  They hold the shared lock in "set" and "clear". *)

\* addByDelay reads the clock before it waits for the lock.
addByDelay(t, d) ==
    /\ pc[t] = "new"
    /\ now + d <= MaxTime
    /\ expiration' = [expiration EXCEPT ![t] = now + d]
    /\ pc' = [pc EXCEPT ![t] = "lock"]
    /\ UNCHANGED <<now, wheels, m_currentTime, root, list, m_expiration, m_setFlag, m_q,
                   tick, bucket, isRunning, m_isStarted, missed, dangling>>

\* Where ThreadPool::addTask leaves a task: a pool that is stopped takes none.
addTask == IF m_isStarted THEN "handed" ELSE "refused"

\* addTimerTaskEntry of a task that is due: to the pool.
addDue(t) ==
    /\ pc[t] = "lock" /\ tick # "flush"
    /\ Expired(expiration[t])
    /\ pc' = [pc EXCEPT ![t] = addTask]
    /\ UNCHANGED <<now, wheels, m_currentTime, root, list, m_expiration, m_setFlag, m_q, expiration,
                   tick, bucket, isRunning, m_isStarted, missed, dangling>>

addToBucket(t) ==
    /\ pc[t] = "lock" /\ tick # "flush"
    /\ ~Expired(expiration[t])
    /\ Created(expiration[t])
    /\ Link(t, bucketFor(expiration[t]))
    /\ pc' = [pc EXCEPT ![t] = "set"]
    /\ UNCHANGED <<now, m_expiration, m_setFlag, m_q, expiration,
                   tick, bucket, isRunning, m_isStarted, missed, dangling>>

\* setExpiration takes the flag, or gives up at once and answers false.
testAndSet(t) ==
    LET l == list[t][1]
    IN  /\ pc[t] = "set"
        /\ IF m_setFlag[l] = 0
           THEN /\ m_setFlag' = [m_setFlag EXCEPT ![l] = t]
                /\ pc' = [pc EXCEPT ![t] = "clear"]
                /\ UNCHANGED missed
           ELSE /\ pc' = [pc EXCEPT ![t] = "in"]
                /\ missed' = TRUE
                /\ UNCHANGED m_setFlag
        /\ UNCHANGED <<now, wheels, m_currentTime, root, list, m_expiration, m_q,
                       expiration, tick, bucket, isRunning, m_isStarted, dangling>>

setExpiration(t) ==
    /\ pc[t] = "clear"
    /\ setAndOffer(expiration[t], list[t])
    /\ m_setFlag' = [m_setFlag EXCEPT ![list[t][1]] = 0]
    /\ pc' = [pc EXCEPT ![t] = "in"]
    /\ UNCHANGED <<now, wheels, m_currentTime, root, list, expiration,
                   tick, bucket, isRunning, m_isStarted, missed, dangling>>

\* A worker of the pool runs a task; the tick thread occupies one worker.
runTask(t) ==
    /\ pc[t] = "handed"
    /\ threadNum > 1 \/ tick = "end"
    /\ pc' = [pc EXCEPT ![t] = "ran"]
    /\ UNCHANGED <<now, wheels, m_currentTime, root, list, m_expiration, m_setFlag, m_q,
                   expiration, tick, bucket, isRunning, m_isStarted, missed, dangling>>

----------------------------------------------------------------------------
(* The tick thread.  It holds the exclusive lock in "flush".                *)

\* The entries DelayQueue::poll may return: the earliest, once it is due.
Due == {e \in m_q : e[1] <= now /\ \A f \in m_q : e[1] <= f[1]}

\* The loop's test of isRunning; shutdown may come before the poll that follows it.
whileRunning ==
    /\ tick = "while"
    /\ tick' = IF isRunning THEN "poll" ELSE "end"
    /\ UNCHANGED <<now, wheels, m_currentTime, root, list, m_expiration, m_setFlag, m_q,
                   expiration, pc, bucket, isRunning, m_isStarted, missed, dangling>>

\* After select: the first poll, which finds a due bucket or leaves it at that.
poll ==
    /\ tick = "poll"
    /\ IF Due = {}
       THEN tick' = "while" /\ UNCHANGED <<m_q, bucket>>
       ELSE /\ \E e \in Due : m_q' = m_q \ {e} /\ bucket' = e[2]
            /\ tick' = "lock"
    /\ UNCHANGED <<now, wheels, m_currentTime, root, list, m_expiration, m_setFlag,
                   expiration, pc, isRunning, m_isStarted, missed, dangling>>

\* The lock is free of readers: advanceClock, then flush begins.
lockAndAdvance ==
    /\ tick = "lock"
    /\ \A t \in Task : pc[t] \notin {"set", "clear"}
    /\ advanceClock(m_expiration[bucket])
    /\ tick' = "flush"
    /\ UNCHANGED <<now, wheels, root, list, m_expiration, m_setFlag, m_q, expiration, pc,
                   bucket, isRunning, m_isStarted, missed, dangling>>

\* One iteration of flush on an entry that is due.  remove() unlinks it only if it is
\* of this bucket; addTimerTaskEntry hands its task to the pool and deletes it.
flushDue ==
    /\ tick = "flush" /\ root[bucket[1]] # <<>> /\ ~dangling
    /\ LET t == Head(root[bucket[1]])
       IN  /\ Expired(expiration[t])
           /\ pc' = [pc EXCEPT ![t] = addTask]
           /\ IF list[t] = bucket
              THEN /\ root' = [root EXCEPT ![bucket[1]] = Tail(@)]
                   /\ list' = [list EXCEPT ![t] = NoBucket]
                   /\ UNCHANGED dangling
              ELSE dangling' = TRUE /\ UNCHANGED <<root, list>>
    /\ UNCHANGED <<now, wheels, m_currentTime, m_expiration, m_setFlag, m_q, expiration, tick,
                   bucket, isRunning, m_isStarted, missed>>

\* Mutant: flush forgets the entries that are not due.
flushDrops ==
    /\ tick = "flush" /\ root[bucket[1]] # <<>> /\ ~dangling
    /\ LET t == Head(root[bucket[1]])
       IN  /\ ~Expired(expiration[t])
           /\ root' = [root EXCEPT ![bucket[1]] = Tail(@)]
           /\ list' = [list EXCEPT ![t] = NoBucket]
    /\ UNCHANGED <<now, wheels, m_currentTime, m_expiration, m_setFlag, m_q, expiration, pc,
                   tick, bucket, isRunning, m_isStarted, missed, dangling>>

\* One iteration of flush on an entry that is not due: it is added again, to the bucket
\* its expiration asks for.
flushAgain ==
    /\ tick = "flush" /\ root[bucket[1]] # <<>> /\ ~dangling
    /\ LET t == Head(root[bucket[1]])
           b == bucketFor(expiration[t])
       IN  /\ ~Expired(expiration[t])
           /\ Created(expiration[t])
           /\ Link(t, b)
           /\ setAndOffer(expiration[t], b)
    /\ UNCHANGED <<now, m_setFlag, expiration, pc, tick, bucket, isRunning, m_isStarted, missed, dangling>>

\* The list is empty: m_expiration = -1, and the next poll; without a due bucket the
\* lock is released.
flushEnds ==
    /\ tick = "flush" /\ root[bucket[1]] = <<>>
    /\ m_expiration' = [m_expiration EXCEPT ![bucket] = -1]
    /\ IF Due = {}
       THEN /\ tick' = "while" /\ bucket' = NoBucket
            /\ UNCHANGED <<m_q, m_currentTime>>
       ELSE /\ \E e \in Due : m_q' = m_q \ {e} /\ bucket' = e[2]
            /\ advanceClock(m_expiration'[bucket'])
            /\ UNCHANGED tick
    /\ UNCHANGED <<now, wheels, root, list, m_setFlag, expiration, pc, isRunning, m_isStarted,
                   missed, dangling>>

\* shutdown: startTick's loop is told to end ...
shutdown ==
    /\ isRunning
    /\ isRunning' = FALSE
    /\ UNCHANGED <<now, wheels, m_currentTime, root, list, m_expiration, m_setFlag, m_q,
                   expiration, pc, tick, bucket, m_isStarted, missed, dangling>>

\* ... and then the pool to stop: it runs what it has (module ThreadPool) and takes no more.
stop ==
    /\ ~isRunning /\ m_isStarted
    /\ m_isStarted' = FALSE
    /\ UNCHANGED <<now, wheels, m_currentTime, root, list, m_expiration, m_setFlag, m_q,
                   expiration, pc, tick, bucket, isRunning, missed, dangling>>

timePasses ==
    /\ now < MaxTime
    /\ now' = now + 1
    /\ UNCHANGED <<wheels, m_currentTime, root, list, m_expiration, m_setFlag, m_q,
                   expiration, pc, tick, bucket, isRunning, m_isStarted, missed, dangling>>

----------------------------------------------------------------------------
Adder(t) == addDue(t) \/ addToBucket(t) \/ testAndSet(t) \/ setExpiration(t)
startTick == whileRunning \/ poll \/ lockAndAdvance \/ flushDue \/ flushAgain \/ flushEnds

Next ==
    \/ \E t \in Task : (\E d \in Delay : addByDelay(t, d)) \/ Adder(t) \/ runTask(t)
    \/ startTick
    \/ shutdown \/ stop
    \/ timePasses

Spec == Init /\ [][Next]_vars

\* Time goes on, threads that are not blocked run, and readers do not keep the tick
\* thread from the lock forever.
Fairness ==
    /\ WF_vars(timePasses)
    /\ WF_vars(startTick)
    /\ \A t \in Task : WF_vars(Adder(t)) /\ WF_vars(runTask(t))

FairSpec == Spec /\ Fairness

----------------------------------------------------------------------------
Linked(t) == \E l \in Level : t \in ToSet(root[l])

\* A task is handed to the pool at most one tick before its expiration, although add
\* and flush judge by the wheel's clock and a bucket is polled by the expiration of the
\* first task in it: m_currentTime never runs ahead of the time.
NotEarly ==
    [][\A t \in Task : pc'[t] = "handed" /\ pc[t] # "handed"
                          => expiration[t] < now + m_tickMs]_vars

\* Unless setExpiration once met a taken flag, every bucket with an entry is in the
\* delay queue, or polled, or about to be offered by an adder that holds the lock, and
\* an entry is linked until its task is handed over and never deleted before that.
BucketsQueued ==
    ~missed /\ ~dangling =>
        /\ \A t \in Task : pc[t] \in {"set", "clear", "in"} <=> Linked(t)
        /\ \A t \in Task : Linked(t) =>
              \/ \E e \in m_q : e[2] = list[t]
              \/ bucket = list[t]
              \/ \E u \in Task : pc[u] \in {"set", "clear"} /\ list[u] = list[t]

\* Two buckets of one wheel hold entries at the same time.
Mixed == \E t, u \in Task : /\ Linked(t) /\ Linked(u)
                            /\ list[t][1] = list[u][1] /\ list[t] # list[u]

\* Tasks added to a timer that is not shut down run, through the cascade from the
\* overflow wheel, as long as no two buckets of a wheel are in use at once and no two
\* adders meet in setExpiration.
TasksRun ==
    [](isRunning /\ ~Mixed /\ ~missed) =>
        \A t \in Task : (pc[t] = "in") ~> (pc[t] = "ran")

\* "用于向定时器加入延时任务，如果延时时间到，则执行该任务" (timer/Timer.h): a task added to a
\* timer that is not shut down is run.  With a second bucket in use, flush of the first
\* links the other's entry again and again and never ends.
AddedTasksRun ==
    []isRunning => \A t \in Task : (pc[t] = "in") ~> (pc[t] = "ran")
================================================================================
