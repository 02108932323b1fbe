-------------------------- MODULE ThreadsafeQueue --------------------------
(***************************************************************************)
(* LLU::Async::ThreadsafeQueue (include/LLU/Async/Queue.h): a linked list  *)
(* with a dummy last node, one mutex for each end and a condition variable *)
(* on which waitPop sleeps.  One action per step another thread can see:   *)
(* each lock acquisition, each write to a shared node made under a lock,   *)
(* the getTail that looks through the other lock, the notification.        *)
(*                                                                         *)
(* `chain' is a history variable: the nodes from head to tail in list      *)
(* order.  It is written where head or tail is, and read by no guard.      *)
(***************************************************************************)
EXTENDS Integers, Sequences, FiniteSets

CONSTANTS Threads, Values, MayCall,  \* as in FifoQueue
          Nodes,     \* the heap: a push that finds no free node does not start
          NoThread, NoNode, NoValue

WaitOps == {"waitPop", "waitPopInto"}  \* shared_ptr result, out-parameter
TryOps  == {"tryPop", "tryPopInto"}
IntoOps == {"waitPopInto", "tryPopInto"}
PopOps  == WaitOps \cup TryOps
Ops     == PopOps \cup {"push", "empty"}
Answers == {"true", "false"}
Results == Values \cup {NoValue} \cup Answers

ASSUME QueueAssumption ==
    /\ IsFiniteSet(Threads) /\ NoThread \notin Threads
    /\ NoNode \notin Nodes
    /\ Nodes # {}
    /\ NoValue \notin Values
    /\ MayCall \in [Threads -> SUBSET Ops]

VARIABLES
    headMutex, tailMutex,   \* the owner of each mutex, or NoThread
    head, tail,             \* the ends of the list; tail is the dummy node
    data, next,             \* the fields of every node of the heap
    free,                   \* the nodes that are not allocated
    waiting,                \* the threads asleep on data_cond
    pc, op, val,            \* each thread's step, call, and argument or result
    node,                   \* push: the new node; pop: the old head
    chain                   \* history: the nodes from head to tail

ends == <<head, tail, chain>>
heap == <<data, next, free>>
vars == <<headMutex, tailMutex, ends, heap, waiting, pc, op, val, node>>

PushSteps == {"lockTail", "setData", "setNext", "setTail", "notify"}
PopSteps  == {"lockHead", "compare", "block", "waiting", "popHead", "return"}

TypeOK ==
    /\ headMutex \in Threads \cup {NoThread}
    /\ tailMutex \in Threads \cup {NoThread}
    /\ head \in Nodes /\ tail \in Nodes
    /\ data \in [Nodes -> Values \cup {NoValue}]
    /\ next \in [Nodes -> Nodes \cup {NoNode}]
    /\ free \in SUBSET Nodes
    /\ waiting \in SUBSET Threads
    /\ pc \in [Threads -> {"idle"} \cup PushSteps \cup PopSteps]
    /\ op \in [Threads -> Ops \cup {"none"}]
    /\ val \in [Threads -> Results]
    /\ node \in [Threads -> Nodes \cup {NoNode}]
    /\ chain \in Seq(Nodes)

Init ==
    /\ headMutex = NoThread /\ tailMutex = NoThread
    /\ head \in Nodes /\ tail = head /\ chain = <<head>>
    /\ data = [n \in Nodes |-> NoValue]
    /\ next = [n \in Nodes |-> NoNode]
    /\ free = Nodes \ {head}
    /\ waiting = {}
    /\ pc = [t \in Threads |-> "idle"]
    /\ op = [t \in Threads |-> "none"]
    /\ val = [t \in Threads |-> NoValue]
    /\ node = [t \in Threads |-> NoNode]

Goto(t, l) == pc' = [pc EXCEPT ![t] = l]

-----------------------------------------------------------------------------
(* push: the new node is made before any lock is taken; three writes under *)
(* tail_mutex link it; the notification takes head_mutex in a second,      *)
(* separate critical section.                                              *)

CallPush(t) ==
    /\ pc[t] = "idle" /\ "push" \in MayCall[t]
    /\ \E v \in Values, n \in free :
         /\ val' = [val EXCEPT ![t] = v]
         /\ node' = [node EXCEPT ![t] = n]
         /\ free' = free \ {n}
    /\ op' = [op EXCEPT ![t] = "push"]
    /\ Goto(t, "lockTail")
    /\ UNCHANGED <<headMutex, tailMutex, ends, data, next, waiting>>

\* Deviation: push links its node without waiting for tail_mutex.
LockTailUnguarded(t) ==
    /\ pc[t] = "lockTail"
    /\ tailMutex' = t
    /\ Goto(t, "setData")
    /\ UNCHANGED <<headMutex, ends, heap, waiting, op, val, node>>

LockTail(t) ==
    /\ pc[t] = "lockTail" /\ tailMutex = NoThread
    /\ tailMutex' = t
    /\ Goto(t, "setData")
    /\ UNCHANGED <<headMutex, ends, heap, waiting, op, val, node>>

SetData(t) ==
    /\ pc[t] = "setData"
    /\ data' = [data EXCEPT ![tail] = val[t]]
    /\ Goto(t, "setNext")
    /\ UNCHANGED <<headMutex, tailMutex, ends, next, free, waiting, op, val, node>>

SetNext(t) ==
    /\ pc[t] = "setNext"
    /\ next' = [next EXCEPT ![tail] = node[t]]
    /\ Goto(t, "setTail")
    /\ UNCHANGED <<headMutex, tailMutex, ends, data, free, waiting, op, val, node>>

\* Deviation: push notifies only when the queue was empty before.
SetTailNotifyIfEmpty(t) ==
    /\ pc[t] = "setTail"
    /\ tail' = node[t]
    /\ chain' = Append(chain, node[t])
    /\ node' = [node EXCEPT ![t] = NoNode]
    /\ tailMutex' = NoThread
    /\ Goto(t, IF Len(chain) = 1 THEN "notify" ELSE "return")
    /\ UNCHANGED <<headMutex, head, heap, waiting, op, val>>

\* The new node becomes the dummy and tail_mutex is released.
SetTail(t) ==
    /\ pc[t] = "setTail"
    /\ tail' = node[t]
    /\ chain' = Append(chain, node[t])
    /\ node' = [node EXCEPT ![t] = NoNode]
    /\ tailMutex' = NoThread
    /\ Goto(t, "notify")
    /\ UNCHANGED <<headMutex, head, heap, waiting, op, val>>

GoIdle(t) ==
    /\ op' = [op EXCEPT ![t] = "none"]
    /\ val' = [val EXCEPT ![t] = NoValue]

\* Deviation: notify_one is called without head_mutex.
NotifyUnlocked(t) ==
    /\ pc[t] = "notify"
    /\ \/ waiting = {} /\ Goto(t, "idle") /\ UNCHANGED waiting
       \/ \E w \in waiting :
          /\ waiting' = waiting \ {w}
          /\ pc' = [pc EXCEPT ![t] = "idle", ![w] = "lockHead"]
    /\ GoIdle(t)
    /\ UNCHANGED <<headMutex, tailMutex, ends, heap, node>>

\* lock head_mutex, notify_one, unlock: nothing is written in between, so
\* one step, taken when the mutex is free.
NotifyOne(t) ==
    /\ pc[t] = "notify" /\ headMutex = NoThread
    /\ \/ /\ waiting = {}
          /\ Goto(t, "idle")
          /\ UNCHANGED waiting
       \/ \E w \in waiting :
          /\ waiting' = waiting \ {w}
          /\ pc' = [pc EXCEPT ![t] = "idle", ![w] = "lockHead"]
    /\ GoIdle(t)
    /\ UNCHANGED <<headMutex, tailMutex, ends, heap, node>>

-----------------------------------------------------------------------------
(* waitPop, tryPop and empty: lock head_mutex, look at the tail through    *)
(* tail_mutex, then unlink, sleep or give up.                              *)

CallPop(t) ==
    /\ pc[t] = "idle"
    /\ \E o \in MayCall[t] \ {"push"} : op' = [op EXCEPT ![t] = o]
    /\ Goto(t, "lockHead")
    /\ UNCHANGED <<headMutex, tailMutex, ends, heap, waiting, val, node>>

LockHead(t) ==
    /\ pc[t] = "lockHead" /\ headMutex = NoThread
    /\ headMutex' = t
    /\ Goto(t, "compare")
    /\ UNCHANGED <<tailMutex, ends, heap, waiting, op, val, node>>

\* The call returns r without touching the list; head_mutex is released.
GiveUp(t, r) ==
    /\ val' = [val EXCEPT ![t] = r]
    /\ headMutex' = NoThread
    /\ Goto(t, "return")

\* getTail() under tail_mutex, compared with head (stable: head_mutex is held).
CompareEmpty(t) ==
    /\ pc[t] = "compare" /\ tailMutex = NoThread
    /\ head = tail
    /\ \/ op[t] \in WaitOps /\ Goto(t, "block") /\ UNCHANGED <<headMutex, val>>
       \/ op[t] \in TryOps /\ GiveUp(t, NoValue)
       \/ op[t] = "empty" /\ GiveUp(t, "true")
    /\ UNCHANGED <<tailMutex, ends, heap, waiting, op, node>>

CompareData(t) ==
    /\ pc[t] = "compare" /\ tailMutex = NoThread
    /\ head # tail
    /\ \/ op[t] \in PopOps /\ Goto(t, "popHead") /\ UNCHANGED <<headMutex, val>>
       \/ op[t] = "empty" /\ GiveUp(t, "false")
    /\ UNCHANGED <<tailMutex, ends, heap, waiting, op, node>>

\* condition_variable::wait, predicate false: release and sleep atomically.
Block(t) ==
    /\ pc[t] = "block"
    /\ headMutex' = NoThread
    /\ waiting' = waiting \cup {t}
    /\ Goto(t, "waiting")
    /\ UNCHANGED <<tailMutex, ends, heap, op, val, node>>

\* The standard lets wait() wake without a notification.
SpuriousWake(t) ==
    /\ t \in waiting
    /\ waiting' = waiting \ {t}
    /\ Goto(t, "lockHead")
    /\ UNCHANGED <<headMutex, tailMutex, ends, heap, op, val, node>>

\* popHead, after moving the value out for the overloads with an
\* out-parameter; head_mutex is released, the old head is now local.
PopHead(t) ==
    /\ pc[t] = "popHead"
    /\ node' = [node EXCEPT ![t] = head]
    /\ head' = next[head]
    /\ next' = [next EXCEPT ![head] = NoNode]
    /\ chain' = Tail(chain)
    /\ IF op[t] \in IntoOps
       THEN /\ val' = [val EXCEPT ![t] = data[head]]
            /\ data' = [data EXCEPT ![head] = NoValue]
       ELSE UNCHANGED <<val, data>>
    /\ headMutex' = NoThread
    /\ Goto(t, "return")
    /\ UNCHANGED <<tailMutex, tail, free, waiting, op>>

\* Deviation: the result is read from the head the list has by then.
ReturnCurrentHead(t) ==
    IF op[t] \in PopOps \ IntoOps /\ node[t] # NoNode
    THEN data[head] ELSE val[t]

\* What the call returns: the overloads that return a shared_ptr read it
\* from the old head after the mutex is released.
ReturnValue(t) ==
    IF op[t] \in PopOps \ IntoOps /\ node[t] # NoNode
    THEN data[node[t]] ELSE val[t]

\* The old head dies with the call, its fields with it.
Return(t) ==
    /\ pc[t] = "return"
    /\ IF node[t] = NoNode
       THEN UNCHANGED <<data, free>>
       ELSE /\ data' = [data EXCEPT ![node[t]] = NoValue]
            /\ free' = free \cup {node[t]}
    /\ node' = [node EXCEPT ![t] = NoNode]
    /\ Goto(t, "idle")
    /\ GoIdle(t)
    /\ UNCHANGED <<headMutex, tailMutex, ends, next, waiting>>

-----------------------------------------------------------------------------
Call(t) == CallPush(t) \/ CallPop(t)

Step(t) ==
    \/ LockTail(t) \/ SetData(t) \/ SetNext(t) \/ SetTail(t) \/ NotifyOne(t)
    \/ LockHead(t) \/ CompareEmpty(t) \/ CompareData(t) \/ Block(t)
    \/ PopHead(t) \/ Return(t)

Next == \E t \in Threads : Call(t) \/ Step(t) \/ SpuriousWake(t)

Spec == Init /\ [][Next]_vars

\* A thread inside a call keeps running and gets a mutex that is free again
\* and again; nobody has to call, and nobody has to be woken by anything but a
\* notification.
FairSpec ==
    /\ Spec
    /\ \A t \in Threads :
         WF_vars(Step(t)) /\ SF_vars(LockTail(t) \/ NotifyOne(t) \/ LockHead(t))

-----------------------------------------------------------------------------
(* Properties *)

\* The nodes whose fields a thread reads, writes or destroys in its next step.
Touches(t) ==
    CASE pc[t] \in {"setData", "setNext"} -> {tail}
      [] pc[t] = "popHead" -> {head}
      [] pc[t] = "return" /\ node[t] # NoNode -> {node[t]}
      [] OTHER -> {}

\* Two threads never touch the same node at once and nobody touches a freed
\* one, though push writes nodes under tail_mutex and the pops read, unlink
\* and destroy them under head_mutex or under none (Queue.h:89-93, 133-139,
\* 147-150).
NodeRaceFree ==
    /\ \A t \in Threads : Touches(t) \cap free = {}
    /\ \A t, u \in Threads : t # u => Touches(t) \cap Touches(u) = {}

Sleepers  == {t \in Threads : pc[t] \in {"block", "waiting"}}
Notifiers == {t \in Threads : pc[t] = "notify"}
Poppers   == {t \in Threads : /\ op[t] \in WaitOps
                              /\ pc[t] \in {"lockHead", "compare", "popHead"}}

\* No wakeup is lost: while a waitPop sleeps, or has decided to, each queued
\* value has a push that has yet to notify or an awake waitPop that will come
\* for it (Queue.h:95-99 against 141-144).
WakeupsCover ==
    Sleepers # {} => Len(chain) - 1 <= Cardinality(Notifiers) + Cardinality(Poppers)

\* A value does not stay in the queue next to a sleeping waitPop for ever.
NoStuckSleeper ==
    (waiting # {} /\ head # tail) ~> (waiting = {} \/ head = tail)

-----------------------------------------------------------------------------
(* Refinement: push takes effect when tail moves, a pop when head does,    *)
(* a tryPop or empty that finds nothing when it looks at the tail.         *)

Items == [i \in 1 .. Len(chain) - 1 |-> data[chain[i]]]

CallOf(t) ==
    CASE pc[t] = "idle" -> [phase |-> "idle", op |-> "none", val |-> NoValue]
      [] pc[t] \in {"notify", "return"} ->
           [phase |-> "applied", op |-> op[t], val |-> ReturnValue(t)]
      [] OTHER -> [phase |-> "called", op |-> op[t], val |-> val[t]]

CurrentCalls == [t \in Threads |-> CallOf(t)]

Fifo == INSTANCE FifoQueue WITH items <- Items, call <- CurrentCalls

\* Every execution of the two-lock list is one of the FIFO queue: values come
\* out once, in the order they went in, and an empty answer was true at some
\* moment of the call (Queue.h:33-66).
ImplementsFifo == Fifo!Spec
=============================================================================
