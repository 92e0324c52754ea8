--------------------------- MODULE EventLoopProofs ---------------------------
(***************************************************************************)
(* The lock-free queue is memory safe and implements FifoQueue, for any    *)
(* number of producers, addresses and payloads.  The event loop on top of  *)
(* it loses neither a wakeup nor a quit, for any number of threads,        *)
(* functors, calls, and any capacity of the eventfd.  An EventLoopThread   *)
(* does with its loop only what EventLoop allows, so the theorems about    *)
(* the loop hold inside it, and its start handshake is sound.              *)
(***************************************************************************)
EXTENDS EventLoopThread, TLAPS

-----------------------------------------------------------------------------
(* The queue.                                                              *)

\* The constructed queue satisfies the invariant.
LEMMA QueueInitInv == QueueInit => QueueInv
  BY NullAssumption DEF QueueInit, QueueInv, QueueTypeOK, NoLeak

\* The exchange puts a fresh node behind head_ and the producer in its debt.
LEMMA ExchangeInv ==
  ASSUME QueueInv, NEW t \in Thread, NEW x \in Item, Exchange(t, x)
  PROVE  QueueInv'
<1> USE NullAssumption DEF QueueInv, QueueTypeOK, NoLeak
<1>1. PICK n \in Node \ live :
        /\ live' = live \cup {n}
        /\ next_' = [next_ EXCEPT ![n] = NULL]
        /\ dataPtr_' = [dataPtr_ EXCEPT ![n] = x]
        /\ head_' = n
        /\ node' = [node EXCEPT ![t] = n]
        /\ chain' = Append(chain, n)
  BY Zenon DEF Exchange
<1>2. /\ prevhead[t] = NULL
      /\ prevhead' = [prevhead EXCEPT ![t] = head_]
      /\ tail_' = tail_ /\ output' = output
  BY DEF Exchange
<1>3. /\ Len(chain') = Len(chain) + 1
      /\ \A i \in 1..Len(chain) : chain'[i] = chain[i] /\ chain[i] # n
      /\ chain'[Len(chain) + 1] = n
  BY <1>1
<1>4. QueueTypeOK'
  BY <1>1, <1>2
<1>5. /\ Len(chain') >= 1
      /\ chain'[1] = tail_'
      /\ chain'[Len(chain')] = head_'
  BY <1>1, <1>2, <1>3
<1>6. \A i, j \in 1..Len(chain') : chain'[i] = chain'[j] => i = j
  BY <1>3
<1>7. NoLeak'
  BY <1>1, <1>3
<1>8. /\ next_'[head_'] = NULL
      /\ \A i \in 2..Len(chain') : dataPtr_'[chain'[i]] # NULL
  BY <1>1, <1>3
<1>9. ASSUME NEW i \in 1..(Len(chain') - 1)
      PROVE  \/ next_'[chain'[i]] = chain'[i+1]
             \/ next_'[chain'[i]] = NULL /\ \E u \in Thread : Owes(u, i)'
  <2>1. CASE i < Len(chain)
    <3>1. CASE next_[chain[i]] = chain[i+1]
      BY <1>1, <1>3, <2>1, <3>1
    <3>2. CASE next_[chain[i]] = NULL /\ \E u \in Thread : Owes(u, i)
      <4>1. PICK u \in Thread : Owes(u, i)
        BY <3>2
      <4>2. u # t
        BY <4>1, <1>2, <2>1 DEF Owes
      <4>3. Owes(u, i)'
        BY <4>1, <4>2, <1>1, <1>2, <1>3, <2>1 DEF Owes
      <4>4. next_'[chain'[i]] = NULL
        BY <3>2, <1>1, <1>3, <2>1
      <4> QED BY <4>3, <4>4
    <3> QED BY <2>1, <3>1, <3>2
  <2>2. CASE i = Len(chain)
    <3>1. Owes(t, i)'
      BY <1>1, <1>2, <1>3, <2>2 DEF Owes
    <3>2. next_'[chain'[i]] = NULL
      BY <1>1, <1>3, <2>2
    <3> QED BY <3>1, <3>2
  <2> QED BY <2>1, <2>2, <1>3
<1>10. ASSUME NEW u \in Thread, prevhead'[u] # NULL
       PROVE  \E i \in 1..(Len(chain') - 1) : Owes(u, i)' /\ next_'[chain'[i]] = NULL
  <2>1. CASE u = t
    <3>1. PICK i \in Nat : i = Len(chain)
      OBVIOUS
    <3>2. Owes(u, i)' /\ next_'[chain'[i]] = NULL /\ i \in 1..(Len(chain') - 1)
      BY <1>1, <1>2, <1>3, <2>1, <3>1 DEF Owes
    <3> QED BY <3>2
  <2>2. CASE u # t
    <3>1. PICK i \in 1..(Len(chain) - 1) : Owes(u, i) /\ next_[chain[i]] = NULL
      BY <2>2, <1>2, <1>10
    <3>2. Owes(u, i)' /\ next_'[chain'[i]] = NULL /\ i \in 1..(Len(chain') - 1)
      BY <3>1, <2>2, <1>1, <1>2, <1>3 DEF Owes
    <3> QED BY <3>2
  <2> QED BY <2>1, <2>2
<1>11. ASSUME NEW u \in Thread, NEW v \in Thread,
              prevhead'[u] # NULL, prevhead'[u] = prevhead'[v]
       PROVE  u = v
  <2>1. \A w \in Thread : prevhead[w] # head_
    BY DEF Owes
  <2> QED BY <2>1, <1>2, <1>11
<1> QED
  BY <1>4, <1>5, <1>6, <1>7, <1>8, <1>9, <1>10, <1>11

\* The store pays the debt of exactly one neighbouring pair of the chain.
LEMMA LinkInv ==
  ASSUME QueueInv, NEW t \in Thread, Link(t)
  PROVE  QueueInv'
<1> USE NullAssumption DEF QueueInv, QueueTypeOK, NoLeak
<1>1. /\ prevhead[t] # NULL
      /\ next_' = [next_ EXCEPT ![prevhead[t]] = node[t]]
      /\ prevhead' = [prevhead EXCEPT ![t] = NULL]
      /\ node' = [node EXCEPT ![t] = NULL]
      /\ UNCHANGED <<head_, tail_, dataPtr_, live, output, chain>>
  BY DEF Link
<1>2. PICK k \in 1..(Len(chain) - 1) : Owes(t, k) /\ next_[chain[k]] = NULL
  BY <1>1
<1>3. next_' = [next_ EXCEPT ![chain[k]] = chain[k+1]]
  BY <1>1, <1>2 DEF Owes
<1>4. QueueTypeOK'
  BY <1>1, <1>3
<1>5. next_'[head_'] = NULL
  BY <1>1, <1>2, <1>3
<1>6. ASSUME NEW i \in 1..(Len(chain) - 1)
      PROVE  \/ next_'[chain[i]] = chain[i+1]
             \/ next_'[chain[i]] = NULL /\ \E u \in Thread : Owes(u, i)'
  <2>1. CASE i = k
    BY <2>1, <1>3
  <2>2. CASE i # k
    <3>1. next_'[chain[i]] = next_[chain[i]]
      <4>1. chain[i] # chain[k] /\ chain[i] \in Node /\ chain[k] \in Node
        BY <2>2
      <4> QED BY <4>1, <1>3
    <3>2. ASSUME NEW u \in Thread, Owes(u, i)
          PROVE  Owes(u, i)'
      <4>1. u # t
        BY <2>2, <3>2, <1>2 DEF Owes
      <4> QED BY <4>1, <3>2, <1>1 DEF Owes
    <3> QED BY <3>1, <3>2
  <2> QED BY <2>1, <2>2
<1>7. ASSUME NEW u \in Thread, prevhead'[u] # NULL
      PROVE  \E i \in 1..(Len(chain) - 1) : Owes(u, i)' /\ next_'[chain[i]] = NULL
  <2>1. u # t /\ prevhead[u] = prevhead'[u] /\ node'[u] = node[u]
    BY <1>1, <1>7
  <2>2. PICK i \in 1..(Len(chain) - 1) : Owes(u, i) /\ next_[chain[i]] = NULL
    BY <2>1, <1>7
  <2>3. i # k
    BY <2>1, <2>2, <1>1, <1>2 DEF Owes
  <2>4. Owes(u, i)' /\ next_'[chain[i]] = NULL
    BY <2>1, <2>2, <2>3, <1>1, <1>3 DEF Owes
  <2> QED BY <2>4
<1>8. \A u, v \in Thread : prevhead'[u] # NULL /\ prevhead'[u] = prevhead'[v] => u = v
  BY <1>1
<1> QED
  BY <1>1, <1>4, <1>5, <1>6, <1>7, <1>8

\* A dequeue moves the dummy forward; no producer owes the deleted node a store.
LEMMA DequeueInv ==
  ASSUME QueueInv, Dequeue
  PROVE  QueueInv'
<1> USE NullAssumption DEF QueueInv, QueueTypeOK, NoLeak
<1>1. /\ next_[tail_] # NULL
      /\ output' = dataPtr_[next_[tail_]]
      /\ dataPtr_' = [dataPtr_ EXCEPT ![next_[tail_]] = NULL]
      /\ tail_' = next_[tail_]
      /\ live' = live \ {tail_}
      /\ chain' = Tail(chain)
      /\ UNCHANGED <<head_, next_, node, prevhead>>
  BY DEF Dequeue, Empty
<1>2. Len(chain) >= 2 /\ next_[tail_] = chain[2]
  BY <1>1
<1>3. /\ Len(chain') = Len(chain) - 1
      /\ \A i \in 1..Len(chain') : chain'[i] = chain[i+1]
  BY <1>1, <1>2
<1>4. QueueTypeOK'
  BY <1>1, <1>2
<1>5. /\ Len(chain') >= 1
      /\ chain'[1] = tail_'
      /\ chain'[Len(chain')] = head_'
      /\ next_'[head_'] = NULL
  BY <1>1, <1>2, <1>3
<1>6. \A i, j \in 1..Len(chain') : chain'[i] = chain'[j] => i = j
  BY <1>3
<1>7. NoLeak'
  <2>1. ASSUME NEW m \in live'
        PROVE  m \in {chain'[i] : i \in 1..Len(chain')}
    <3>1. PICK i \in 1..Len(chain) : m = chain[i] /\ i # 1
      BY <1>1
    <3>2. i - 1 \in 1..Len(chain') /\ chain'[i - 1] = m
      BY <3>1, <1>3
    <3> QED BY <3>2, Zenon
  <2>2. ASSUME NEW i \in 1..Len(chain')
        PROVE  chain'[i] \in live'
    <3>1. i + 1 \in 2..Len(chain) /\ chain'[i] = chain[i+1]
      BY <1>3
    <3> QED BY <3>1, <1>1
  <2>3. \A m : m \in live' <=> m \in {chain'[i] : i \in 1..Len(chain')}
    BY <2>1, <2>2
  <2>4. live' = {chain'[i] : i \in 1..Len(chain')}
    BY <2>3
  <2> QED BY <2>4 DEF NoLeak
<1>8. \A i \in 2..Len(chain') : dataPtr_'[chain'[i]] # NULL
  BY <1>1, <1>2, <1>3
<1>9. ASSUME NEW i \in 1..(Len(chain') - 1)
      PROVE  \/ next_'[chain'[i]] = chain'[i+1]
             \/ next_'[chain'[i]] = NULL /\ \E u \in Thread : Owes(u, i)'
  <2>1. \A u \in Thread : Owes(u, i)' <=> Owes(u, i+1)
    BY <1>1, <1>3 DEF Owes
  <2>2. i + 1 \in 1..(Len(chain) - 1) /\ chain'[i] = chain[i+1] /\ chain'[i+1] = chain[(i+1)+1]
    BY <1>3
  <2> QED BY <2>1, <2>2, <1>1
<1>10. ASSUME NEW u \in Thread, prevhead'[u] # NULL
       PROVE  \E i \in 1..(Len(chain') - 1) : Owes(u, i)' /\ next_'[chain'[i]] = NULL
  <2>1. PICK i \in 1..(Len(chain) - 1) : Owes(u, i) /\ next_[chain[i]] = NULL
    BY <1>1, <1>10
  <2>2. i # 1
    BY <2>1, <1>1
  <2>3. PICK j \in Nat : j = i - 1
    BY <2>2
  <2>4. /\ j \in 1..(Len(chain') - 1)
        /\ Owes(u, j)'
        /\ next_'[chain'[j]] = NULL
    BY <2>1, <2>2, <2>3, <1>1, <1>3 DEF Owes
  <2> QED BY <2>4
<1>11. \A u, v \in Thread : prevhead'[u] # NULL /\ prevhead'[u] = prevhead'[v] => u = v
  BY <1>1
<1> QED
  BY <1>4, <1>5, <1>6, <1>7, <1>8, <1>9, <1>10, <1>11

\* Every step of the queue, and every step that leaves it alone, keeps QueueInv.
LEMMA QueueNextInv == QueueInv /\ [QueueNext]_queueVars => QueueInv'
<1> SUFFICES ASSUME QueueInv, [QueueNext]_queueVars
             PROVE  QueueInv'
  OBVIOUS
<1>1. CASE UNCHANGED queueVars
  BY <1>1 DEF queueVars, QueueInv, QueueTypeOK, NoLeak, Owes
<1>2. CASE QueueNext
  BY <1>2, ExchangeInv, LinkInv, DequeueInv DEF QueueNext
<1> QED BY <1>1, <1>2

\* QueueInv holds in every reachable state of the queue.
THEOREM QueueInvariance == QueueSpec => []QueueInv
  BY QueueInitInv, QueueNextInv, PTL DEF QueueSpec

\* The invariant gives the three facts a user of the queue relies on.
LEMMA QueueInvImplies == QueueInv => NoDanglingAccess /\ EmptyOnlyInFlight
<1> SUFFICES ASSUME QueueInv
             PROVE  NoDanglingAccess /\ EmptyOnlyInFlight
  OBVIOUS
<1> USE NullAssumption DEF QueueInv, QueueTypeOK, NoLeak
<1>1. \A i \in 1..Len(chain) : chain[i] \in live
  OBVIOUS
<1>2. {head_, tail_} \subseteq live
  BY <1>1
<1>3. \A t \in Thread : prevhead[t] # NULL => {prevhead[t], node[t]} \subseteq live
  BY <1>1 DEF Owes
<1>4. ~Empty => next_[tail_] \in live /\ dataPtr_[next_[tail_]] # NULL
  BY <1>1 DEF Empty
<1>5. EmptyOnlyInFlight
  BY DEF EmptyOnlyInFlight, Empty, Owes
<1> QED BY <1>2, <1>3, <1>4, <1>5 DEF NoDanglingAccess

(***************************************************************************)
(* For any number of threads, no producer and no dequeue ever touches a    *)
(* node that dequeue has deleted.                                          *)
(***************************************************************************)
THEOREM MemorySafety == QueueSpec => []NoDanglingAccess
  BY QueueInvariance, QueueInvImplies, PTL

(***************************************************************************)
(* For any number of threads, a dequeue that finds nothing behind a        *)
(* non-empty queue is explained by an enqueue caught between its exchange  *)
(* and its store.                                                          *)
(***************************************************************************)
THEOREM EmptyExplained == QueueSpec => []EmptyOnlyInFlight
  BY QueueInvariance, QueueInvImplies, PTL

\* What the refinement needs of the queue's content.
ContentOK ==
  /\ Content \in Seq(Item)
  /\ Len(Content) = Len(chain) - 1
  /\ \A i \in 1..(Len(chain) - 1) : Content[i] = dataPtr_[chain[i+1]]

\* The invariant gives it.
LEMMA ContentType == QueueInv => ContentOK
<1> SUFFICES ASSUME QueueInv
             PROVE  ContentOK
  OBVIOUS
<1> USE NullAssumption DEF QueueInv, QueueTypeOK
<1>1. Len(chain) - 1 \in Nat
  OBVIOUS
<1>2. \A i \in 1..(Len(chain) - 1) : dataPtr_[chain[i+1]] \in Item
  OBVIOUS
<1> QED BY <1>1, <1>2 DEF Content, ContentOK

\* An exchange is the FIFO's Put.
LEMMA ExchangePuts ==
  ASSUME QueueInv, NEW t \in Thread, NEW x \in Item, Exchange(t, x)
  PROVE  Fifo!Put
<1>1. QueueInv'
  BY ExchangeInv
<1>2. PICK n \in Node \ live :
        /\ dataPtr_' = [dataPtr_ EXCEPT ![n] = x]
        /\ chain' = Append(chain, n)
        /\ output' = output
  BY Zenon DEF Exchange
<1>3. /\ Content' \in Seq(Item)
      /\ Len(Content') = Len(Content) + 1
      /\ Content'[Len(Content) + 1] = x
      /\ \A i \in 1..Len(Content) : Content'[i] = Content[i]
  <2>1. ContentOK
    BY ContentType
  <2>2. ContentOK'
    BY <1>1, ContentType, PTL
  <2>3. Len(chain') = Len(chain) + 1 /\ \A i \in 1..Len(chain) : chain'[i] = chain[i] /\ chain[i] # n
    BY <1>2 DEF QueueInv, QueueTypeOK, NoLeak
  <2>4. chain'[Len(chain) + 1] = n /\ Len(chain) \in Nat /\ Len(chain) >= 1
    BY <1>2 DEF QueueInv, QueueTypeOK
  <2>5. \A i \in 1..Len(chain) : chain[i] \in Node
    BY DEF QueueInv, QueueTypeOK
  <2> QED BY <1>2, <2>1, <2>2, <2>3, <2>4, <2>5 DEF QueueInv, QueueTypeOK, ContentOK
<1>4. Content' = Append(Content, x)
  BY <1>3, ContentType DEF ContentOK
<1> QED BY <1>2, <1>4 DEF Fifo!Put

\* When one sequence is another without its first element.
LEMMA TailEqual ==
  ASSUME NEW S, NEW s \in Seq(S), s # <<>>, NEW u \in Seq(S),
         Len(u) = Len(s) - 1, \A i \in 1..(Len(s) - 1) : u[i] = s[i+1]
  PROVE  u = Tail(s)
<1>1. Tail(s) \in Seq(S) /\ Len(Tail(s)) = Len(s) - 1
  OBVIOUS
<1>2. \A i \in 1..(Len(s) - 1) : Tail(s)[i] = s[i+1]
  OBVIOUS
<1> QED BY <1>1, <1>2

\* A dequeue is the FIFO's Get.
LEMMA DequeueGets ==
  ASSUME QueueInv, Dequeue
  PROVE  Fifo!Get
<1>1. QueueInv'
  BY DequeueInv
<1>2. /\ output' = dataPtr_[next_[tail_]]
      /\ dataPtr_' = [dataPtr_ EXCEPT ![next_[tail_]] = NULL]
      /\ chain' = Tail(chain)
      /\ next_[tail_] # NULL
  BY DEF Dequeue, Empty
<1>3. Len(chain) >= 2 /\ next_[tail_] = chain[2]
  BY <1>2 DEF QueueInv, QueueTypeOK
<1>4. ContentOK
  BY ContentType
<1>5. ContentOK'
  BY <1>1, ContentType, PTL
<1>6. Len(chain') = Len(chain) - 1 /\ \A i \in 1..(Len(chain) - 1) : chain'[i] = chain[i+1]
  BY <1>2, <1>3 DEF QueueInv, QueueTypeOK
<1>7. /\ Len(Content') = Len(Content) - 1
      /\ \A i \in 1..(Len(Content) - 1) : Content'[i] = Content[i+1]
  <2>1. Len(Content') = Len(Content) - 1
    BY <1>3, <1>4, <1>5, <1>6 DEF QueueInv, QueueTypeOK, ContentOK
  <2>2. ASSUME NEW i \in 1..(Len(Content) - 1)
        PROVE  Content'[i] = Content[i+1]
    <3>1. i \in 1..(Len(chain') - 1) /\ i + 1 \in 1..(Len(chain) - 1) /\ i + 2 \in 1..Len(chain)
      BY <1>3, <1>4, <1>6 DEF QueueInv, QueueTypeOK, ContentOK
    <3>2. Content'[i] = dataPtr_'[chain[i+2]]
      <4>1. Content'[i] = dataPtr_'[chain'[i+1]]
        BY <3>1, <1>5, Zenon DEF ContentOK
      <4>2. chain'[i+1] = chain[(i+1)+1] /\ (i+1)+1 = i+2
        BY <3>1, <1>6, SMT
      <4> QED BY <4>1, <4>2, Zenon
    <3>3. chain[i+2] # chain[2] /\ chain[i+2] \in Node
      BY <3>1, <1>3 DEF QueueInv, QueueTypeOK
    <3>4. Content[i+1] = dataPtr_[chain[i+2]]
      BY <3>1, <1>4 DEF ContentOK
    <3> QED BY <3>2, <3>3, <3>4, <1>2, <1>3 DEF QueueInv, QueueTypeOK
  <2> QED BY <2>1, <2>2
<1>8. Content # <<>> /\ Head(Content) = output'
  BY <1>2, <1>3, <1>4 DEF QueueInv, QueueTypeOK, ContentOK
<1>9. Content' = Tail(Content)
  BY <1>4, <1>5, <1>7, <1>8, TailEqual, Zenon DEF ContentOK
<1> QED BY <1>8, <1>9 DEF Fifo!Get

(***************************************************************************)
(* The two-step lock-free queue implements the FIFO, whose Put is the      *)
(* exchange: concurrent enqueues are ordered by their exchanges, and every *)
(* item is delivered once and in that order.                               *)
(***************************************************************************)
THEOREM Refinement == QueueSpec => ImplementsFifo
<1>1. QueueInit => Fifo!FifoInit
  BY DEF QueueInit, Fifo!FifoInit, Content
<1>2. QueueInv /\ [QueueNext]_queueVars => [Fifo!Put \/ Fifo!Get]_<<Content, output>>
  <2> SUFFICES ASSUME QueueInv, [QueueNext]_queueVars
               PROVE  [Fifo!Put \/ Fifo!Get]_<<Content, output>>
    OBVIOUS
  <2>1. ASSUME NEW t \in Thread, Link(t)
        PROVE  UNCHANGED <<Content, output>>
    BY <2>1 DEF Link, Content
  <2>2. CASE UNCHANGED queueVars
    BY <2>2 DEF queueVars, Content
  <2> QED BY <2>1, <2>2, ExchangePuts, DequeueGets DEF QueueNext
<1> QED
  BY <1>1, <1>2, QueueInvariance, PTL DEF QueueSpec, ImplementsFifo, Fifo!FifoSpec

-----------------------------------------------------------------------------
(* The event loop.                                                         *)

\* Every step of the system is a step of the queue or leaves it alone.
LEMMA StepUsesQueue == [Next]_vars => [QueueNext]_queueVars
<1> SUFFICES ASSUME [Next]_vars
             PROVE  [QueueNext]_queueVars
  OBVIOUS
<1>1. ASSUME NEW t \in Thread, NEW f \in Item, queueInLoop(t, f)
      PROVE  QueueNext
  BY <1>1 DEF queueInLoop, QueueNext
<1>2. ASSUME NEW t \in Thread, FinishCall(t)
      PROVE  [QueueNext]_queueVars
  BY <1>2 DEF FinishCall, queueInLoopLink, queueInLoopWakeup, quitWakeup, QueueNext
<1>3. ASSUME NEW t \in Thread, quit(t)
      PROVE  UNCHANGED queueVars
  BY <1>3 DEF quit
<1>4. ASSUME loop \/ pollElse
      PROVE  UNCHANGED queueVars
  BY <1>4 DEF loop, pollElse, pollReturns
<1>5. ASSUME LoopStep
      PROVE  [QueueNext]_queueVars
  BY <1>5 DEF LoopStep, resetQuit, testQuit, pollWakes, pollReturns, handleRead,
              handleEvents, doPendingFunctors, outerWhile, innerWhile,
              functorReturns, QueueNext
<1>6. CASE UNCHANGED vars
  BY <1>6 DEF vars
<1> QED BY <1>1, <1>2, <1>3, <1>4, <1>5, <1>6 DEF Next

(***************************************************************************)
(* The event loop implements the queue's specification: what is proved of  *)
(* MpscQueue holds inside it.                                              *)
(***************************************************************************)
THEOREM LoopUsesQueue == Spec => UsesQueue
<1>1. Init => QueueInit
  BY DEF Init
<1> QED BY <1>1, StepUsesQueue, PTL DEF Spec, UsesQueue, QueueSpec

\* The loop as constructed satisfies the invariant.
LEMMA LoopInitInv == Init => LoopInv
<1> SUFFICES ASSUME Init
             PROVE  LoopInv
  OBVIOUS
<1> USE LoopAssumption, EventfdAssumption, CallsAssumption, NullAssumption DEF Init
<1>1. Pending = {}
  <2>1. Len(chain) = 1
    BY DEF QueueInit
  <2> QED BY <2>1 DEF Pending
<1>2. TypeOK
  <2>1. pc \in {"out", "reset", "test", "poll", "events"} /\ active \in SUBSET {"wakeup", "io"}
    OBVIOUS
  <2>2. wakeupFd \in 0..EventfdMax
    OBVIOUS
  <2>3. calls \in [Thread -> Nat]
    OBVIOUS
  <2>4. op \in [Thread -> {"idle", "queue", "quit"}]
    OBVIOUS
  <2>5. quit_ \in BOOLEAN /\ callingPendingFuncs_ \in BOOLEAN
    BY Zenon
  <2> QED BY <2>1, <2>2, <2>3, <2>4, <2>5 DEF TypeOK
<1>3. \A t \in Thread : prevhead[t] = NULL /\ op[t] = "idle"
  BY Zenon DEF QueueInit
<1>4. NoLostWakeup /\ NoLostQuit
  BY <1>1 DEF NoLostWakeup, NoLostQuit
<1> QED BY <1>2, <1>3, <1>4 DEF LoopInv, Draining

\* A functor overlooked by empty() belongs to a caller inside queueInLoop.
LEMMA OverlookedInCall ==
  ASSUME QueueInv, LoopInv, Empty, Pending # {}
  PROVE  \E t \in Thread : op[t] = "queue"
<1>1. head_ # tail_
  BY DEF QueueInv, QueueTypeOK, Pending
<1>2. PICK t \in Thread : prevhead[t] = tail_
  BY <1>1, QueueInvImplies DEF EmptyOnlyInFlight
<1>3. prevhead[t] # NULL
  BY <1>2, NullAssumption DEF QueueInv, QueueTypeOK
<1> QED BY <1>3 DEF LoopInv

\* The queue's actions change prevhead of the caller only, and Pending only
\* through an exchange or a dequeue.
LEMMA PendingUnchanged ==
  ASSUME UNCHANGED chain
  PROVE  Pending' = Pending
  BY DEF Pending

\* Every step keeps LoopInv.
LEMMA LoopNextInv == QueueInv /\ LoopInv /\ [Next]_vars => LoopInv'
<1> SUFFICES ASSUME QueueInv, LoopInv, [Next]_vars
             PROVE  LoopInv'
  OBVIOUS
<1> USE LoopAssumption, EventfdAssumption, CallsAssumption, NullAssumption
    DEF LoopInv, TypeOK, Draining, NoLostWakeup, NoLostQuit, Other, At
<1>1. ASSUME NEW t \in Thread, NEW f \in Item, queueInLoop(t, f)
      PROVE  LoopInv'
  <2>1. op' = [op EXCEPT ![t] = "queue"] /\ calls' = [calls EXCEPT ![t] = @ - 1]
    BY <1>1 DEF queueInLoop
  <2>2. prevhead' = [prevhead EXCEPT ![t] = head_]
    BY <1>1 DEF queueInLoop, Exchange
  <2>3. TypeOK'
    BY <1>1, <2>1 DEF queueInLoop, MayCall
  <2>4. \A u \in Thread : prevhead'[u] # NULL => op'[u] = "queue"
    BY <2>1, <2>2 DEF QueueInv, QueueTypeOK
  <2> QED BY <1>1, <2>1, <2>3, <2>4 DEF queueInLoop, MayCall
<1>2. ASSUME NEW t \in Thread, queueInLoopLink(t)
      PROVE  LoopInv'
  <2>1. Pending' = Pending
    BY <1>2, PendingUnchanged DEF queueInLoopLink, Link
  <2>2. prevhead' = [prevhead EXCEPT ![t] = NULL]
    BY <1>2 DEF queueInLoopLink, Link
  <2>3. \A u \in Thread : prevhead'[u] # NULL => op'[u] = "queue"
    BY <1>2, <2>2 DEF queueInLoopLink, loopVars, QueueInv, QueueTypeOK
  <2> QED BY <1>2, <2>1, <2>3 DEF queueInLoopLink, loopVars
<1>3. ASSUME NEW t \in Thread, queueInLoopWakeup(t)
      PROVE  LoopInv'
  <2>1. Pending' = Pending
    BY <1>3, PendingUnchanged DEF queueInLoopWakeup, queueVars
  <2> QED BY <1>3, <2>1 DEF queueInLoopWakeup, queueVars, wakeup
<1>4. ASSUME NEW t \in Thread, quit(t)
      PROVE  LoopInv'
  <2>1. Pending' = Pending
    BY <1>4, PendingUnchanged DEF quit, queueVars
  <2> QED BY <1>4, <2>1 DEF quit, queueVars, MayCall
<1>5. ASSUME NEW t \in Thread, quitWakeup(t)
      PROVE  LoopInv'
  <2>1. Pending' = Pending
    BY <1>5, PendingUnchanged DEF quitWakeup, queueVars
  <2> QED BY <1>5, <2>1 DEF quitWakeup, queueVars, wakeup
<1>6. CASE loop
  <2>1. Pending' = Pending
    BY <1>6, PendingUnchanged DEF loop, queueVars
  <2> QED BY <1>6, <2>1 DEF loop, queueVars
<1>14. CASE resetQuit
  <2>1. Pending' = Pending
    BY <1>14, PendingUnchanged DEF resetQuit, queueVars
  <2>2. quit_' = FALSE /\ pc' = "test" /\ pc = "reset"
    BY <1>14 DEF resetQuit
  <2>3. UNCHANGED <<callingPendingFuncs_, wakeupFd, active, op, calls, prevhead>>
    BY <1>14 DEF resetQuit, queueVars
  <2>4. TypeOK'
    BY <2>2, <2>3, Zenon
  <2>5. NoLostWakeup' /\ NoLostQuit'
    BY <2>1, <2>2, <2>3
  <2> QED BY <2>2, <2>3, <2>4, <2>5
<1>7. CASE testQuit
  <2>1. Pending' = Pending
    BY <1>7, PendingUnchanged DEF testQuit, queueVars
  <2>2. CASE quit_
    BY <1>7, <2>1, <2>2 DEF testQuit, queueVars
  <2>3. CASE ~quit_
    BY <1>7, <2>1, <2>3 DEF testQuit, queueVars
  <2> QED BY <2>2, <2>3
<1>8. CASE pollWakes \/ pollElse \/ handleRead \/ handleEvents
  <2>1. /\ active' \in SUBSET {"wakeup", "io"}
        /\ wakeupFd' \in 0..EventfdMax
        /\ pc' = "events"
    <3>1. CASE pollWakes \/ pollElse
      <4>1. PICK io \in SUBSET {"io"} : pollReturns(io)
        BY <3>1 DEF pollWakes, pollElse
      <4> QED BY <4>1 DEF pollReturns
    <3>2. CASE handleRead
      BY <3>2 DEF handleRead
    <3>3. CASE handleEvents
      BY <3>3 DEF handleEvents
    <3> QED BY <1>8, <3>1, <3>2, <3>3
  <2>2. /\ UNCHANGED <<queueVars, quit_, callingPendingFuncs_, op, calls>>
        /\ pc \in {"poll", "events"}
    BY <1>8 DEF pollWakes, pollElse, pollReturns, handleRead, handleEvents
  <2> QED BY <2>1, <2>2 DEF queueVars
<1>13. CASE doPendingFunctors
  BY <1>13 DEF doPendingFunctors, queueVars
<1>9. CASE outerWhile
  <2>1. Pending' = Pending
    BY <1>9, PendingUnchanged DEF outerWhile, queueVars
  <2>2. Empty /\ Pending # {} => \E t \in Thread : op[t] = "queue"
    BY OverlookedInCall
  <2> QED BY <1>9, <2>1, <2>2, Zenon DEF outerWhile, queueVars
<1>10. CASE innerWhile
  BY <1>10 DEF innerWhile, queueVars, Dequeue
<1>11. CASE functorReturns
  BY <1>11 DEF functorReturns, queueVars
<1>12. CASE UNCHANGED vars
  <2>1. Pending' = Pending
    BY <1>12, PendingUnchanged DEF vars, queueVars
  <2> QED BY <1>12, <2>1 DEF vars, queueVars, loopVars
<1> QED
  BY <1>1, <1>2, <1>3, <1>4, <1>5, <1>6, <1>7, <1>8, <1>9, <1>10, <1>11, <1>12,
     <1>13, <1>14, Zenon
  DEF Next, LoopStep, FinishCall

\* Type correctness and the inductive invariant, from the queue's invariant.
THEOREM LoopInvariance == Spec => []LoopInv
<1>1. Spec => []QueueInv
  BY LoopUsesQueue, QueueInvariance, PTL DEF UsesQueue
<1> QED BY <1>1, LoopInitInv, LoopNextInv, PTL DEF Spec

(***************************************************************************)
(* Whatever the interleaving of any number of callers, the loop never goes *)
(* to sleep over a queued functor that nobody is going to wake it for.     *)
(***************************************************************************)
THEOREM WakeupNeverLost == Spec => []NoLostWakeup
<1>1. LoopInv => NoLostWakeup
  BY DEF LoopInv
<1> QED BY <1>1, LoopInvariance, PTL

(***************************************************************************)
(* The loop never goes to sleep over a quit() that has set the flag after  *)
(* loop() cleared it and that is not going to wake it.                     *)
(***************************************************************************)
THEOREM QuitNeverLost == Spec => []NoLostQuit
<1>1. LoopInv => NoLostQuit
  BY DEF LoopInv
<1> QED BY <1>1, LoopInvariance, PTL

-----------------------------------------------------------------------------
(* EventLoopThread.                                                          *)

\* Every step of the loop's thread, of the owner and of the callers is a step of
\* EventLoop or leaves the loop alone.
LEMMA StepOfLoop == [ThreadNext]_allVars => [Next]_vars
<1> SUFFICES ASSUME [ThreadNext]_allVars
             PROVE  [Next]_vars
  OBVIOUS
<1> USE OwnerAssumption, LoopAssumption
<1>1. CASE Call
  BY <1>1 DEF Call, Next
<1>2. CASE \E t \in Thread : Step(t)
  BY <1>2 DEF Step, Next
<1>3. CASE Looping
  BY <1>3 DEF Looping, functorDone, Next, LoopStep
<1>4. CASE owner = "none" /\ loop /\ UNCHANGED threadVars
  BY <1>4 DEF Next
<1>5. CASE pollElse /\ UNCHANGED threadVars
  BY <1>5 DEF Next
<1>6. CASE threadFunc
  BY <1>6 DEF threadFunc, queueStarted, setLoopPointer, callLoop, threadEnds, Next
<1>7. CASE destroyQuit
  <2>1. Owner \in Thread
    BY DEF Other
  <2> QED BY <1>7, <2>1 DEF destroyQuit, Next
<1>8. CASE run \/ runReturns \/ destroy \/ join
  BY <1>8 DEF run, runReturns, destroy, join
<1>9. CASE UNCHANGED allVars
  BY <1>9 DEF allVars
<1> QED BY <1>1, <1>2, <1>3, <1>4, <1>5, <1>6, <1>7, <1>8, <1>9 DEF ThreadNext

(***************************************************************************)
(* The composition implements its part: what an EventLoopThread and its    *)
(* callers do to the loop is a behaviour of EventLoop                      *)
(* (EventLoopThread.cpp:19-50).                                            *)
(***************************************************************************)
THEOREM ThreadRunsLoop == ThreadSpec => Spec
<1>1. ThreadInit => Init
  BY DEF ThreadInit
<1> QED BY <1>1, StepOfLoop, PTL DEF ThreadSpec, Spec

(***************************************************************************)
(* Inside an EventLoopThread, too, the loop never sleeps over a functor or *)
(* a quit() that nobody is going to announce.                              *)
(***************************************************************************)
THEOREM ThreadNeverSleepsOver == ThreadSpec => [](NoLostWakeup /\ NoLostQuit)
  BY ThreadRunsLoop, WakeupNeverLost, QuitNeverLost, PTL

-----------------------------------------------------------------------------
\* The handshake's invariant holds at first: nothing has been promised yet.
LEMMA HandshakeInit == ThreadInit => HandshakeInv
  BY DEF ThreadInit, Init, HandshakeInv

\* A step keeps it: threadFunc goes through its states in order and only the loop it
\* has called runs functors.
LEMMA HandshakeNext == HandshakeInv /\ [ThreadNext]_allVars => HandshakeInv'
<1> SUFFICES ASSUME HandshakeInv, [ThreadNext]_allVars
             PROVE  HandshakeInv'
  OBVIOUS
<1> USE DEF HandshakeInv
<1>1. CASE Call
  BY <1>1 DEF Call, queueInLoop, quit, threadVars
<1>2. CASE \E t \in Thread : Step(t)
  BY <1>2 DEF Step, FinishCall, queueInLoopLink, queueInLoopWakeup, quitWakeup,
              loopVars, threadVars
<1>3. CASE Looping
  <2>1. pc # "out"
    BY <1>3 DEF Looping, functorDone, functorReturns, resetQuit, testQuit, pollWakes,
                pollReturns, handleRead, handleEvents, doPendingFunctors, outerWhile,
                innerWhile, At
  <2>2. UNCHANGED <<owner, life>>
    BY <1>3 DEF Looping, functorDone, threadVars
  <2>3. promiseForLoop_ => promiseForLoop_'
    BY <1>3, Zenon DEF Looping, functorDone, threadVars
  <2> QED BY <2>1, <2>2, <2>3
<1>4. CASE owner = "none" /\ loop /\ UNCHANGED threadVars
  BY <1>4 DEF threadVars
<1>5. CASE pollElse /\ UNCHANGED threadVars
  BY <1>5 DEF pollElse, pollReturns, At, threadVars
<1>6. CASE threadFunc
  BY <1>6 DEF threadFunc, queueStarted, queueInLoop, setLoopPointer, callLoop,
              threadEnds, At, vars, loopVars
<1>7. CASE destroyQuit
  BY <1>7 DEF destroyQuit, quit, vars, loopVars
<1>8. CASE run \/ runReturns \/ destroy \/ join
  BY <1>8 DEF run, runReturns, destroy, join, vars, loopVars
<1>9. CASE UNCHANGED allVars
  BY <1>9 DEF allVars, vars, loopVars, threadVars
<1> QED BY <1>1, <1>2, <1>3, <1>4, <1>5, <1>6, <1>7, <1>8, <1>9 DEF ThreadNext

(***************************************************************************)
(* run() returns only when the thread has entered loop(), whoever calls    *)
(* into the loop meanwhile (EventLoopThread.cpp:42-50).                    *)
(***************************************************************************)
THEOREM RunMeansLooping == ThreadSpec => []LoopsWhenRun
<1>1. HandshakeInv => LoopsWhenRun
  BY DEF HandshakeInv, LoopsWhenRun
<1> QED BY <1>1, HandshakeInit, HandshakeNext, PTL DEF ThreadSpec
=============================================================================
