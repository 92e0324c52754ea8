# mutty: TLA+ models and proofs

mutty is a reactor-style network library for Linux in C++: one event loop per
thread over epoll, a lock-free functor queue per loop, TCP connections and
servers on top, a pooled allocator for buffers, a timing-wheel timer on a
thread pool, a striped counter, and an HTTP server. This directory holds TLA+
modules of those parts, configurations that check them with TLC, and proofs
that TLAPS checks. `PROJECT.json` maps every definition to the lines it models.

## The system and its parts

| part | sources | module | state |
|---|---|---|---|
| lock-free queue | `MpscQueue.h` | `MpscQueue`, `FifoQueue` | modelled, proved |
| event loop | `EventLoop.cpp` | `EventLoop` | modelled but for `runAfter`, proved |
| loop thread | `EventLoopThread.cpp` | `EventLoopThread` | modelled, proved |
| pool of loop threads | `EventLoopThreadPool.cpp` | in `TcpServer` | partly |
| channel, poller | `Channel.cpp`, `base/EPollPoller.cpp` | in `TcpConnection`, `TcpServer` | modelled |
| connection | `TcpConnection.cpp` | `TcpConnection` (data path, proved), `TcpServer` (life) | modelled |
| server | `TcpServer.cpp` | `TcpServer` | modelled, proved |
| acceptor | `Acceptor.cpp` | in `TcpServer` | partly |
| connector | `Connector.cpp` | - | left out |
| size classes | `buffer/SizeClasses.cpp` | `SizeClasses`, `SizeRequests` | modelled |
| chunk | `buffer/PoolChunk.cpp` | `PoolChunk` | runs modelled, proved |
| heap of runs | `buffer/LongPriorityQueue.h` | `LongPriorityQueue`, `PoolChunkQueues` | modelled |
| subpage | `buffer/PoolSubpage.cpp` | `PoolSubpage` | modelled, proved in `PoolArena` |
| chunk lists, arena | `buffer/PoolChunkList.cpp`, `buffer/PoolArena.cpp` | `PoolChunkList`, `PoolArena` | modelled but for huge sizes, proved |
| thread cache | `buffer/PoolThreadCache.cpp` | in `PoolArena` | modelled but for its own end, proved |
| byte buffer | `buffer/PooledByteBuf.cpp`, `buffer/Buffer.cpp` | `PooledByteBuf` | partly |
| thread pool | `timer/thread_pool/ThreadPool.cc` | `ThreadPool` | modelled, proved |
| timer | `timer/*.cc`, `timer/delay_queue/*` | `Timer` | modelled but for cancelling |
| HTTP server | `http/*` | `HttpServer` | parser and connection policy; responses proved |
| striped counter | `buffer/LongAdder/*` | - | left out |
| socket and address wrappers, `any`, `noncopyable` | `Socket.cpp`, ... | - | left out: no state of their own |

How they interact. Other threads reach a loop only through
`EventLoop::queueInLoop`: an enqueue on the loop's `MpscQueue` and a write to
its eventfd. A `TcpServer` accepts on its base loop and gives each connection
to a loop of its pool; the connection's handlers run there, while its entry in
the server's map belongs to the base loop, so establishing and removing a
connection are messages between two loops. A connection's buffers are
`PooledByteBuf`s, whose memory comes from a thread's cache, from a subpage in
an arena's ring, or from a chunk in one of its usage lists. The HTTP server
parses a connection's input buffer after every read and answers through
`send` and `shutdown`. The timer runs its tick and its tasks on a `ThreadPool`.

## Modules

**`FifoQueue`** is the abstract queue: `Put` and `Get`.

**`MpscQueue`** models `enqueue` as its two steps, the atomic exchange of the
head and the store that makes the node reachable, and `dequeue`/`empty` of the
single consumer. Nodes are addresses that are allocated and freed, so that a
use of a freed node is visible. `ImplementsFifo` says it implements
`FifoQueue`, with the chain of nodes as the queue.

**`EventLoop`** extends `MpscQueue`: `loop`, `poll`, the eventfd counter (with
its limit), `handleRead`, `doPendingFunctors`, `queueInLoop` and `quit` of any
thread, each split at the accesses other threads can see. User code on the
loop's thread calls in from handlers and functors.

**`EventLoopThread`** extends `EventLoop` with the object that owns a loop's
thread: `threadFunc` queues the functor that will report the start, hands out
the loop's address and waits for `run()`; the owner waits for the functor, and
the destructor tests `loop_`, quits and joins. Between the test and the `quit()`
the loop may end ("still a tiny chance to call destructed object"): the owner is
then `dangling`, and the behaviour says no more of it. The destruction of a loop
is the end of its thread (`life = "done"`), after which nobody calls in
(`MayReach`). With `owner = "none"` it is a loop a program
runs by itself, so one run covers both.

**`TcpConnection`** is one connection on its loop. `state_` is a plain variable
that other threads test and set in separate steps. The loop goes through poll,
the events of the channel in the order of `handleEventWithGuard`, and its
functors; in its callbacks the user sends, shuts down and force-closes. Bytes are `<<thread, call, position>>`; `::write` takes any part of
what it is given; the peer may close or reset at any time. `wire`, `sent`,
`lost` and `closes` are history.

**`TcpServer`** is the life cycle of connections over a base loop and pool
loops, each with its own `channels_` (keyed by fd) and functor queue. A
connection is alive while something refers to it: the map, a functor, a running
handler. A freed connection's fd may be given to a new one. A failing `assert`
is recorded in `failed` and ends the behaviour. `handleClose` is split where the
removal functor is handed to the base loop, because that loop may run it before
the handler has removed the channel. Threads of the user's keep a connection
and call `shutdown` and `forceClose` on it, which test `state_` and set it in two
steps, without a lock, and then call into its loop. `overwritten` is history: the
connections whose `kDisconnected` such a call has overwritten.

**`ThreadPool`** has the workers' loop split at each unlocked read of
`m_isStarted` and `m_tasks`, the mutex, the condition variable as a set of
waiters, `addTask` and `stop`.

**`Timer`** is the hierarchical wheel. A thread that adds a task reads the time,
takes the shared lock, links the entry and sets the bucket's expiration through
the test-and-set flag; the tick thread polls the delay queue, takes the
exclusive lock, advances the clocks and flushes, entry by entry. As in the code
all buckets of a wheel share one list, one mutex and one flag, because
`TimingWheel`'s constructor copies one `TimerTaskList` into all of them.
`shutdown` clears `isRunning`, which the tick thread may have tested just before,
and then stops the pool, which from there on refuses tasks.

**`SizeClasses`** is the table of size classes in closed form with the lookups
and the direct computations of the source, and **`SizeRequests`** the requests put
to it with the reference definitions. **`PoolChunk`** is the page-run
allocator of a chunk: `allocateRun` with best fit and split, `free` with
`collapsePast` and `collapseNext`, the sets of free runs by page class and the
map of run ends. The class functions are constants, so that the proofs hold for
any of them that satisfy `ClassAssumption`; `MCPoolChunk` takes the tables for
16 pages from `PageTables` and also asks `SizeClasses`, which shows among other
things that `PageTables` is what it computes. **`LongPriorityQueue`** is the binary heap of the source
and **`PoolChunkQueues`** runs one heap per page class next to `PoolChunk`'s
sets, making the calls `PoolChunk.cpp` makes.

**`PoolSubpage`** is the bitmap, searched word by word, with the hint of the
next free element. **`PoolChunkList`** has the thresholds of the six usage lists
with the rounding of the source and the lists `add` and `move` end at.
**`PoolArena`** composes the two with chunks, rings of subpages, buffers and
the threads' caches: `buffer`, `reallocate` and `deallocate` of several threads,
each split where a lock is released. Where a run lies in its chunk is left to
`PoolChunk`: here a chunk that has room may or may not find a run, and one that
is untouched does. A chunk that is wholly free again may be in more than one run
(`pool_chunk_abort`); then `allocateRun` fails its assert on the last queue
(PoolChunk.cpp:153), which is the action `allocateAborts` and ends the behaviour.

**`PooledByteBuf`** has the reader and writer index over memory that grows, with
`readFd`'s spill into a second buffer. **`HttpServer`** extends it: reads cut
a stream of lines anywhere, and `parseRequest`, `onMessage` and `onRequest` work
on what the buffer holds, also while the connection is shutting down. A failing
`assert(method_ == kInvalid)` is recorded in `asserted` and ends the behaviour. It relies on two things `TcpConnection` shows: the
stream arrives in order, and a shutdown lets what was sent out first.

Definitions whose comment begins with "Mutant" are variants with a plausible
mistake in them; each is used to see that a property notices it.

## What the runs check

| run | configuration | shows |
|---|---|---|
| `event_loop` | `MCEventLoopThread.cfg` | the queue touches no freed node, is empty only in flight and refines a FIFO; no lost wakeup, no lost quit; queued functors run, `quit` ends the loop, `run()` and the destructor of an `EventLoopThread` return |
| `tcp_connection` | `TcpConnection.cfg` | byte stream in order, each thread's messages in its order, POLLOUT interest exact, half-close after the last byte; shutdowns complete, a gone peer is noticed |
| `tcp_server` | `MCTcpServer.cfg` | pollers and rounds of events hold no freed connection, also in `~TcpServer`; before it, and until another thread's call overwrites a `kDisconnected`, connections are freed only when disconnected and no assert fails; a closed connection is freed and `~TcpServer` returns unless an assert fails |
| `thread_pool` | `MCThreadPool.cfg` | every task is in one place, accepted tasks run while the pool is open |
| `timer` | `Timer.cfg` | a bucket with entries is on its way to the tick thread, no task is handed over more than a tick early, tasks run through the cascade of wheels |
| `pool_chunk` | `MCPoolChunk.cfg` | runs tile the chunk, indexes agree, free bytes exact, allocation fails only without a fit; each heap holds exactly the free runs of its class, the first in front; each size gets the least class that holds it, tables and computations agree, subpage runs are exact |
| `pool_arena` | `MCPoolArena.cfg` | memory has one holder and none is lost; a chunk deleted outside the lock has no reference left; rings and usage lists exact; no assertion fails but that of PoolChunk.cpp:153 (`pool_chunk_abort`) |
| `http_server` | `MCHttpServer.cfg` | however reads cut the stream, the requests handled are those the lines make, no byte is lost by growth, responses match requests one for one and nothing is sent after one that closes |

Runs that show a disagreement between the code and what the repository says of
it (each is a finding in `PROJECT.json`, with the quoted line):

| run | what happens |
|---|---|
| `thread_pool_stop` | `stop` notifies while a worker is between its test and its wait; the join never returns |
| `pool_chunk_abort` | `collapseNext` uses the length of the next run as its offset and does not merge it; after everything is freed the shortcut for an empty chunk meets an empty queue and its assert |
| `timer_stuck` | buckets of a wheel share one list; the flush of one bucket links the entry of another again and again and never ends |
| `http_method_assert` | a malformed request line that begins with a method is answered 400 but stays in the buffer with the method set; the next bytes parse it again against the assert of `setMethod` |

Three more configurations are kept beside the runs, each ending in a
counterexample that explains a condition in a property above:
`MCPoolChunkCoalesced.cfg` (adjacent free runs stay apart), `TcpConnectionOnce.cfg`
(`forceClose` overwrites `kDisconnected`, the connection is closed and destroyed
twice) and `MCTcpServerOnce.cfg` (`~TcpServer` destroys again a connection whose
erase was still queued on the base loop).

Conditions of the properties, and what lies outside them:

* `tcp_server`: the properties that begin with `server = "alive"` stop at
  `~TcpServer` because of three things the model does there: the second
  `connectDestroyed`; a connection in `kDisconnecting`, whose enabled channel
  `connectDestroyed` removes against `assert(isNoneEvent())`; and a pool loop
  that tests `quit_` before it runs the queued `connectDestroyed`, which drops it
  and frees a connection that is still up.
* `FreedDisconnected` and `AssertsHold` also stop where a `shutdown` or `forceClose`
  of another thread has tested `state_`, the loop has closed the connection, and
  the call then sets `kDisconnecting` (`overwritten`). The code marks both places
  "FIXME: use compare and swap". Without that condition TLC finds both violated:
  the forced close that is queued runs `handleClose` a second time, and the second
  erase finds nothing; or the connection is freed in `kDisconnecting`. `PointersAlive`,
  `ClosedIsFreed` and `DestroyEnds` do not need the condition in the run.
* `AcceptedTasksRun` speaks of tasks queued before `stop` clears the flag: one
  whose `addTask` has tested the flag and queues it later may stay in the queue.
* `StartsAndStops` speaks of a thread that was run and that only its destructor
  quits. The model also has a destructor without `run()`, which waits for ever,
  a `quit()` by others that keeps `run()` waiting, and a thread that has ended by
  itself and is not joined.
* `BucketsQueued` ends where two adders met in `setExpiration` (`missed`: the
  second gives up and its bucket may not be offered), or where a flush deleted
  an entry of another bucket without unlinking it (`dangling`). `TasksRun`
  speaks of behaviours with one bucket of a wheel in use at a time; `timer_stuck`
  shows what happens with two.
* `RequestsHandled` asks for completeness after reads that handled nothing:
  `onMessage` handles one request per read, and a second one that came with it
  waits in the buffer for the next read. It says nothing from a line on that stands
  among the headers and is neither a header nor empty: `HttpContext.cc` takes any
  line without a colon for the empty line that ends them.

### Bounds

* `event_loop`: three threads, the loop's and the owner's with two calls and
  one more with one; three node addresses, so that an enqueue is overtaken while
  half done and addresses are reused, and a first dummy that is one of them by
  symmetry; an eventfd that holds 1, so that it saturates.
* `tcp_connection`: the loop and one other thread, two calls each, messages of
  two bytes, so that a write can take part of one; the high-water mark of 3 lies
  inside the second message.
* `tcp_server`: two connections on two fds and none, one or two pool loops: an
  fd is reused, the round robin wraps, two loops close at once; one thread with one
  call of `shutdown` or `forceClose`, except beside two pool loops, where the
  state space would not fit: a call meets one connection, and that has one loop
  besides the base loop.
* `thread_pool`: two workers and three tasks.
* `timer`: two tasks, delays of 1, 3, 4 and 6 with a tick of 2 and wheels of 3
  slots on two levels: due at once, same and other bucket of the first wheel, and
  the overflow wheel; two workers, of which the tick occupies one; time to 9.
* `pool_chunk`: 16 pages and requests of 2, 5 and 8 pages: fragmentation, exact
  fits, a full chunk, and heaps of several runs with removals from the middle; size
  classes for the real page and chunk size, with requests up to `MaxSize` and then
  over the class boundaries.
* `pool_arena`: two threads, two chunks of 8 pages, three buffers, two subpage
  sizes (one with a single element) and a run of six pages, six calls, caches of
  size 2 trimmed every second allocation, bitmap words of 2 bits, so that a
  bitmap has a boundary. Threads and buffers are symmetric; the run has only
  invariants.
* `http_server`: streams of up to four lines of seven kinds (two request lines, a
  malformed one, three headers of which two end in a stray CR or LF, the empty line), a
  buffer that starts at 3 bytes and grows to 16, a spill buffer of 4.

`MaxCall`, `MaxCalls`, `MaxForceClose`, `MaxSize`, `MaxTime`, `Levels` and
`MaxLines` are the named bounds.

### Fairness

Weak fairness of each thread's own steps: the operating system runs every
thread. In `EventLoopThread` that is the rest of a call once it has begun, the
loop's steps, `threadFunc`, and the return of a wait whose promise is kept; in
`ThreadPool` the workers, `addTask` once it has the mutex, and `stop`. In
`TcpConnection` there is in addition strong fairness of what the kernel does
again and again: epoll is level-triggered and reports what is ready, a read from
a peer that is gone returns 0 at some point, and while the peer is there the
send buffer gets room. In `TcpServer` every loop's thread runs, and so does the
thread that is inside `~TcpServer` or inside `shutdown` or `forceClose`; whether the base loop ends and the server is
destroyed is left open. In `Timer` time passes, adders, workers and the tick
thread run, and readers do not keep the tick thread from the lock for ever. No
fairness is assumed of calls the user may make.

## What is proved

TLAPS checks the proofs for every value of the constants that satisfies the
named assumptions.

* `EventLoopProofs`, on the queue: `QueueInvariance`, `MemorySafety`, `EmptyExplained`,
  `Refinement`. The inductive invariant `QueueInv` says that the nodes form a
  chain from the consumer's node to the head, linked everywhere except where an
  enqueue is half done, and that whatever a producer still has to write to is in
  that chain. The two properties follow from it; the refinement needs that an
  exchange appends to the chain and a dequeue takes its first element.
* `EventLoopProofs`, on the loop: `LoopUsesQueue` (every step of the loop is a step of the
  queue or leaves it alone, so the queue's theorems hold in it),
  `LoopInvariance`, `WakeupNeverLost`, `QuitNeverLost`. `LoopInv` says who will
  still write the eventfd for a functor or a quit the loop has not seen; the
  case of a functor overlooked by `empty()` is covered because its producer is
  still inside `queueInLoop` and the wakeup comes after the link.
* `EventLoopProofs`, on the thread: `ThreadRunsLoop` (owner and thread together only make
  the loop take steps of `EventLoop`, so everything above holds inside an
  `EventLoopThread`), `ThreadNeverSleepsOver` and `RunMeansLooping`.
  `HandshakeInv` says that `loop()` is entered through `threadFunc` alone, so the
  functor can set its promise only then.
* `TcpConnectionProofs`: `ConnectionInvariance`, `BytesInOrder`,
  `WritesWhatWaits`, `ShutdownBehindData`, `MessagesInOrder`. `ConnectionInv`
  strengthens the stream property: until a write fails for good, wire and output
  buffer make up what was sent; afterwards the buffer is empty, nobody writes, and
  the socket is shut down or reset, so that nothing can follow. For the order of
  a thread's messages `OrderInv` adds that what is sent precedes what is queued,
  and what is queued precedes the call the thread is in.
* `ThreadPoolProofs`: `TasksConserved`. `PoolInv` adds to the property where a
  worker may be while it holds a task.
* `PoolChunkProofs`: `ChunkInvariance`, `AllocationsDisjoint`, `FitFound`,
  `FreePagesCounted`, `PastCollapsed`. `ChunkInv` says that used and free runs together tile the
  pages, that a free run is in the set of its class, and that the map knows its
  first and last page and nothing else. Splitting and merging are lemmas on
  tilings; filing and removing a run are lemmas on the two indexes. The count
  of free bytes is compared with the number of pages no used run covers, so that
  a split or a merge is a fact about the cardinality of disjoint sets.
* `TcpServerProofs`: `ServerInvariant`, `PointersTheorem`,
  `FreedTheorem`, `AssertsTheorem`, with any number of other threads and calls, as
  long as none has overwritten a `kDisconnected`. `ServerSafe` says where a caller
  may be (`CallersOK`: it holds a connection that was established) and has, under
  that condition, two layers. `General` holds
  until an assert fails, also inside `~TcpServer`: a channel is enabled exactly
  while its connection is up; a connection the poller has seen stays registered
  on its loop until it is removed; a registered connection is referred to by the
  map, by the handler that is closing it, or by the functor `~TcpServer` queued;
  and a connection that has left the map before it was established has its
  `connectDestroyed` queued behind its `connectEstablished`. `Alive` holds while
  the server lives: a connection is established once and removed once, only
  closed connections leave the map, and of two connections with the same fd one
  is freed, so that a reused fd finds no registration. That no assert fails is
  proved action by action from both layers. Assumed: the loops of a pool are distinct and are
  not the base loop, and `None` is neither a connection nor an fd nor a loop.
* `PoolArenaInvariant`, `PoolArenaProofs`: `ArenaInvariant`, `ArenaAssertsTheorem`, `MemoryTheorem`,
  `DestroyedTheorem`, `RingTheorem`, `ListsTheorem`. `ArenaInv` is in two
  halves. `HoldersOK` speaks of buffers, caches and calls and says that no handle
  is in two places; `ChunksOK` speaks of the chunks, given the set of handles
  held and the set of chunks about to be deleted, and says that those handles are
  exactly what the runs and bitmaps have handed out, that the free bytes are what
  the runs leave, that rings and usage lists hold what they should, and that a
  chunk about to be deleted is empty. An action changes the one half through the
  handle it takes or puts back, so each half has its own lemmas; `CallOK` says
  what a call that has released the mutex still relies on. The search of a
  bitmap and the walk over the usage lists are least or greatest elements of sets
  of numbers; that they exist is a lemma from the well-founded order of `Nat`.
  The first module has the invariant and the lemmas on holders, rings, pages and
  subpages; the second the usage lists, the calls, the steps and the theorems.
* `HttpServerProofs`: `ResponsesMatch`. While the connection is open the responses
  answer the requests handled one for one; a response that closes leaves it
  disconnecting, and then `send` drops what it is given.

Only model-checked: liveness (it needs fairness and `ENABLED`); `SizeClasses`
(concrete tables), `LongPriorityQueue` and `QueuesExact` (heaps, whose `lift` and
`sink` are recursive), `Timer` (recursive clocks over wheels of powers of the
wheel size); `RequestsHandled`, `BytesKept` and `PooledByteBuf` (folds over
sequences); that `~TcpServer` ends.

## Not modelled

Inside the modelled parts: payloads, names, addresses and logging; callbacks
that only look; the growth of epoll's event array. `send` and `shutdown` bind a
raw `this` into the functor they queue, which the code marks FIXME; references
are modelled in `TcpServer`, which keeps of the functors that other threads queue
only `forceCloseInLoop`, with a reference of its own, so this is listed as a
hazard without a property. So is the raw `TcpServer` in the close
callback: the model destroys the server only after the base loop has ended.

* `Striped64`, `LongAdder`: an expanded table has slots that are never
  initialised and are then compared with `nullptr`, and one expression assigns
  and reads the same variable unsequenced. After either any outcome is possible,
  so no property of the sum could be stated faithfully. They feed statistics only.
* `Connector`: nothing uses it, its destructor is declared and not defined, and
  its retry runs `startInLoop` on a timer thread, where `assertInLoopThread` ends
  the program.
* The acceptor's idle fd: what its EMFILE path does depends on the fds of the
  whole process.
* Allocations above the chunk size (an unpooled chunk of their own), the choice
  of a thread's arena, the recycler (a thread-local stack of objects),
  `PoolThreadCache::free(bool)` and the shrinking branch of `capacity()`, which
  nothing calls.
* A thread cache that two threads use: a connection's buffers are allocated on the
  base loop's thread and may be released on another. `PoolArena` gives each
  cache to its thread, as the cache's code assumes; the hazard is listed.
* The deletion of the timer singleton, and `cancelled()`, for which no caller
  sets the task.
* HTTP bodies, and the formatting of responses.
* Socket and address wrappers, `any`, `noncopyable`: no state of their own.
* The repository's tests and benchmarks.
