------------------------------ MODULE MpscQueue ------------------------------
(***************************************************************************)
(* The lock-free multiple-producer single-consumer queue of MpscQueue.h.   *)
(*                                                                         *)
(* The heap is explicit: a node is allocated, linked, freed, and its       *)
(* address is used again by a later allocation.  An enqueue takes two      *)
(* steps, the exchange of head_ and the store into the predecessor's       *)
(* next_, and any other thread may run between them.                       *)
(***************************************************************************)
EXTENDS Naturals, Sequences

CONSTANTS Thread,   \* the threads that call enqueue
          Item,     \* the payloads
          Node,     \* the addresses operator new can return (a memory bound)
          NULL      \* nullptr

ASSUME NullAssumption == NULL \notin Node /\ NULL \notin Item

VARIABLES head_,     \* the node enqueued last
          tail_,     \* the node dequeued last: the dummy in front of the queue
          next_,     \* Node -> the next_ field
          dataPtr_,  \* Node -> the payload, NULL once it is deleted
          live,      \* the nodes that are allocated and not yet deleted
          node,      \* Thread -> local variable node of a running enqueue
          prevhead,  \* Thread -> local variable prevhead, NULL outside enqueue
          output,    \* the item the last successful dequeue delivered
          chain      \* history: the nodes from tail_ to head_, in the order of
                     \* the exchanges

queueVars == <<head_, tail_, next_, dataPtr_, live, node, prevhead, output, chain>>

QueueInit ==
  \E dummy \in Node :
    /\ head_ = dummy
    /\ tail_ = dummy
    /\ next_ = [n \in Node |-> NULL]
    /\ dataPtr_ = [n \in Node |-> NULL]
    /\ live = {dummy}
    /\ node = [t \in Thread |-> NULL]
    /\ prevhead = [t \in Thread |-> NULL]
    /\ output = NULL
    /\ chain = <<dummy>>

(***************************************************************************)
(* enqueue, first step: the new node, private until now, becomes head_.    *)
(***************************************************************************)
Exchange(t, x) ==
  /\ prevhead[t] = NULL
  /\ \E n \in Node \ live :
       /\ live' = live \cup {n}
       /\ next_' = [next_ EXCEPT ![n] = NULL]
       /\ dataPtr_' = [dataPtr_ EXCEPT ![n] = x]
       /\ head_' = n
       /\ node' = [node EXCEPT ![t] = n]
       /\ chain' = Append(chain, n)
  /\ prevhead' = [prevhead EXCEPT ![t] = head_]
  /\ UNCHANGED <<tail_, output>>

\* Mutant: enqueue forgets the store.
LinkForgotten(t) ==
  /\ prevhead[t] # NULL
  /\ prevhead' = [prevhead EXCEPT ![t] = NULL]
  /\ node' = [node EXCEPT ![t] = NULL]
  /\ UNCHANGED <<head_, tail_, next_, dataPtr_, live, output, chain>>

(***************************************************************************)
(* enqueue, second step: the store into the predecessor.                   *)
(***************************************************************************)
Link(t) ==
  /\ prevhead[t] # NULL
  /\ next_' = [next_ EXCEPT ![prevhead[t]] = node[t]]
  /\ prevhead' = [prevhead EXCEPT ![t] = NULL]
  /\ node' = [node EXCEPT ![t] = NULL]
  /\ UNCHANGED <<head_, tail_, dataPtr_, live, output, chain>>

\* Mutant: emptiness is judged by the two ends.
EmptyByEnds == head_ = tail_

\* empty(), and the case in which dequeue returns false
Empty == next_[tail_] = NULL

\* Mutant: the payload is taken from the old dummy.
DequeueOfTail ==
  LET next == next_[tail_] IN
    /\ ~Empty
    /\ output' = dataPtr_[tail_]
    /\ tail_' = next
    /\ live' = live \ {tail_}
    /\ chain' = Tail(chain)
    /\ UNCHANGED <<head_, next_, dataPtr_, node, prevhead>>

(***************************************************************************)
(* A dequeue that returns true.  The consumer is the only thread that      *)
(* moves tail_ or deletes nodes, so reading next_ is its one step that     *)
(* another thread can influence.                                           *)
(***************************************************************************)
Dequeue ==
  LET next == next_[tail_] IN
    /\ ~Empty
    /\ output' = dataPtr_[next]
    /\ dataPtr_' = [dataPtr_ EXCEPT ![next] = NULL]
    /\ tail_' = next
    /\ live' = live \ {tail_}
    /\ chain' = Tail(chain)
    /\ UNCHANGED <<head_, next_, node, prevhead>>

QueueNext ==
  \/ \E t \in Thread, x \in Item : Exchange(t, x)
  \/ \E t \in Thread : Link(t)
  \/ Dequeue

QueueSpec == QueueInit /\ [][QueueNext]_queueVars

-----------------------------------------------------------------------------
QueueTypeOK ==
  /\ head_ \in Node
  /\ tail_ \in Node
  /\ next_ \in [Node -> Node \cup {NULL}]
  /\ dataPtr_ \in [Node -> Item \cup {NULL}]
  /\ live \in SUBSET Node
  /\ node \in [Thread -> Node \cup {NULL}]
  /\ prevhead \in [Thread -> Node \cup {NULL}]
  /\ output \in Item \cup {NULL}
  /\ chain \in Seq(Node)

\* The nodes a dequeue has not yet reached, linked or not.
Pending == {chain[i] : i \in 2..Len(chain)}

(***************************************************************************)
(* No thread ever touches freed memory: the predecessor a producer is      *)
(* about to write to, the two ends of the queue, and the node and payload  *)
(* the next dequeue reads are all allocated, although dequeue deletes the  *)
(* old tail_ without asking any producer (MpscQueue.h:57-71).              *)
(***************************************************************************)
NoDanglingAccess ==
  /\ {head_, tail_} \subseteq live
  /\ \A t \in Thread : prevhead[t] # NULL => {prevhead[t], node[t]} \subseteq live
  /\ ~Empty => next_[tail_] \in live /\ dataPtr_[next_[tail_]] # NULL

(***************************************************************************)
(* dequeue and empty report an empty queue although something was          *)
(* enqueued only while the enqueue of the very next item is between its    *)
(* exchange and its store; items that other threads enqueued completely    *)
(* may be waiting behind it.                                               *)
(***************************************************************************)
EmptyOnlyInFlight ==
  (Empty /\ head_ # tail_) => \E t \in Thread : prevhead[t] = tail_

\* Every allocated node is in the queue: enqueue and dequeue leak nothing.
NoLeak == live = {chain[i] : i \in 1..Len(chain)}

(***************************************************************************)
(* Inductive strengthening of the three: the chain of exchanges runs from  *)
(* tail_ to head_ without repetition; between neighbours either next_ is   *)
(* stored or exactly the thread that exchanged the right one owes it.      *)
(***************************************************************************)
Owes(t, i) == prevhead[t] = chain[i] /\ node[t] = chain[i+1]

QueueInv ==
  /\ QueueTypeOK
  /\ Len(chain) >= 1
  /\ chain[1] = tail_
  /\ chain[Len(chain)] = head_
  /\ \A i, j \in 1..Len(chain) : chain[i] = chain[j] => i = j
  /\ NoLeak
  /\ next_[head_] = NULL
  /\ \A i \in 2..Len(chain) : dataPtr_[chain[i]] # NULL
  /\ \A i \in 1..(Len(chain) - 1) :
       \/ next_[chain[i]] = chain[i+1]
       \/ next_[chain[i]] = NULL /\ \E t \in Thread : Owes(t, i)
  /\ \A t \in Thread : prevhead[t] # NULL =>
       \E i \in 1..(Len(chain) - 1) : Owes(t, i) /\ next_[chain[i]] = NULL
  /\ \A t, u \in Thread : prevhead[t] # NULL /\ prevhead[t] = prevhead[u] => t = u

(***************************************************************************)
(* What the queue promises: a FIFO whose enqueue takes effect at the       *)
(* exchange.  The queue's content is the payloads behind the dummy.        *)
(***************************************************************************)
Content == [i \in 1..(Len(chain) - 1) |-> dataPtr_[chain[i+1]]]

Fifo == INSTANCE FifoQueue WITH queue <- Content, out <- output

\* Every step of the two-step lock-free queue is a step of the FIFO, or none.
ImplementsFifo == Fifo!FifoSpec
=============================================================================
