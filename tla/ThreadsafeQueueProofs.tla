----------------------- MODULE ThreadsafeQueueProofs -----------------------
(***************************************************************************)
(* Proofs about ThreadsafeQueue for any number of threads, nodes and       *)
(* values: the inductive invariant IInv, and from it type correctness,     *)
(* freedom from races on nodes, the refinement of FifoQueue, and, with     *)
(* WakeupsCover itself as the second half of an inductive pair, that no    *)
(* wakeup is lost.                                                         *)
(***************************************************************************)
EXTENDS ThreadsafeQueue, SequenceTheorems, FiniteSetTheorems, TLAPS

HeadHeld == {"compare", "block", "popHead"}
TailHeld == {"setData", "setNext", "setTail"}
Making   == {"lockTail"} \cup TailHeld

\* The mutexes are held exactly in their critical sections.
LockInv ==
    \A t \in Threads : /\ headMutex = t <=> pc[t] \in HeadHeld
                       /\ tailMutex = t <=> pc[t] \in TailHeld

\* A thread's step, its call and its membership of the wait set agree.
CallInv ==
    \A t \in Threads :
       /\ t \in waiting <=> pc[t] = "waiting"
       /\ pc[t] = "idle" => op[t] = "none" /\ val[t] = NoValue
       /\ pc[t] \in PushSteps => op[t] = "push" /\ val[t] \in Values
       /\ pc[t] \in PopSteps => op[t] \in PopOps \cup {"empty"}
       /\ pc[t] \in PopSteps \ {"return"} => val[t] = NoValue
       /\ pc[t] \in {"block", "waiting"} => op[t] \in WaitOps
       /\ pc[t] = "popHead" => op[t] \in PopOps

\* The list between head and tail is the history variable chain.
ChainInv ==
    /\ Len(chain) >= 1
    /\ head = chain[1]
    /\ tail = chain[Len(chain)]
    /\ \A i, j \in 1 .. Len(chain) : chain[i] = chain[j] => i = j
    /\ \A i \in 1 .. Len(chain) : chain[i] \notin free
    /\ \A i \in 1 .. Len(chain) - 1 : /\ next[chain[i]] = chain[i + 1]
                                      /\ data[chain[i]] \in Values

\* The nodes that threads own are off the list, allocated and distinct.
OwnInv ==
    \A t \in Threads :
       /\ pc[t] \in Making => node[t] # NoNode
       /\ pc[t] \notin Making \cup {"return"} => node[t] = NoNode
       /\ node[t] # NoNode =>
            /\ node[t] \notin free
            /\ \A i \in 1 .. Len(chain) : chain[i] # node[t]
            /\ \A u \in Threads \ {t} : node[u] # node[t]

\* How far a push has linked its node; what a pop about to unlink knows.
LinkInv ==
    \A t \in Threads :
       /\ pc[t] \in {"setNext", "setTail"} => data[tail] = val[t]
       /\ pc[t] = "setTail" => next[tail] = node[t]
       /\ pc[t] = "popHead" => head # tail
       /\ pc[t] = "return" /\ node[t] # NoNode /\ op[t] \notin IntoOps
            => data[node[t]] \in Values

IInv == TypeOK /\ LockInv /\ CallInv /\ ChainInv /\ OwnInv /\ LinkInv

-----------------------------------------------------------------------------
(* The invariant holds initially, and every action preserves it.           *)

LEMMA InitInv == Init => IInv
  BY QueueAssumption DEF IInv, TypeOK, LockInv, CallInv, ChainInv, OwnInv,
      LinkInv, Init, Results, PushSteps, PopSteps, HeadHeld, TailHeld, Making

\* An action that leaves the list and the heap alone leaves ChainInv alone.
LEMMA ChainFrame ==
    ASSUME ChainInv, UNCHANGED <<ends, heap>>
    PROVE  ChainInv'
  BY DEF ChainInv, ends, heap

LEMMA CallPushInv ==
    ASSUME IInv, NEW t \in Threads, CallPush(t)
    PROVE  IInv'
<1>1. TypeOK'
  BY QueueAssumption DEF IInv, TypeOK, Goto, ends, Ops, Results, PushSteps,
      CallPush
<1>2. LockInv'
  BY QueueAssumption DEF IInv, LockInv, Goto, HeadHeld, TailHeld, CallPush
<1>3. CallInv'
  BY DEF IInv, TypeOK, CallInv, Goto, PopSteps, CallPush
<1>4. ChainInv'
  BY DEF IInv, ChainInv, ends, CallPush
<1>5. OwnInv'
  <2>1. PICK n \in free : node' = [node EXCEPT ![t] = n] /\ free' = free \ {n}
    BY DEF CallPush
  <2>2. /\ n \in Nodes /\ n # NoNode
        /\ \A u \in Threads : node[u] # n
        /\ \A i \in 1 .. Len(chain) : chain[i] # n
    BY <2>1, QueueAssumption DEF IInv, TypeOK, ChainInv, OwnInv
  <2>3. /\ OwnInv
        /\ node \in [Threads -> Nodes \cup {NoNode}]
        /\ pc \in [Threads -> {"idle"} \cup PushSteps \cup PopSteps]
        /\ chain' = chain /\ pc' = [pc EXCEPT ![t] = "lockTail"]
    BY DEF IInv, TypeOK, CallPush, Goto, ends
  <2> QED
    BY <2>1, <2>2, <2>3 DEF OwnInv, Making, TailHeld
<1>6. LinkInv'
  BY DEF IInv, LinkInv, Goto, ends, CallPush
<1>7. QED
  BY <1>1, <1>2, <1>3, <1>4, <1>5, <1>6 DEF IInv

LEMMA LockTailInv ==
    ASSUME IInv, NEW t \in Threads, LockTail(t)
    PROVE  IInv'
<1>1. TypeOK'
  BY QueueAssumption DEF IInv, TypeOK, Goto, ends, heap, PushSteps, LockTail
<1>2. LockInv'
  BY QueueAssumption DEF IInv, TypeOK, LockInv, Goto, HeadHeld, TailHeld,
      LockTail
<1>3. CallInv'
  BY DEF IInv, CallInv, Goto, PushSteps, PopSteps, LockTail
<1>4. ChainInv'
  BY ChainFrame DEF IInv, LockTail
<1>5. OwnInv'
  BY DEF IInv, OwnInv, Goto, ends, heap, TailHeld, Making, LockTail
<1>6. LinkInv'
  BY DEF IInv, LinkInv, Goto, ends, heap, LockTail
<1>7. QED
  BY <1>1, <1>2, <1>3, <1>4, <1>5, <1>6 DEF IInv

LEMMA SetDataInv ==
    ASSUME IInv, NEW t \in Threads, SetData(t)
    PROVE  IInv'
<1>1. TypeOK'
  BY QueueAssumption DEF IInv, TypeOK, CallInv, Goto, ends, PushSteps, SetData
<1>2. LockInv'
  BY QueueAssumption DEF IInv, LockInv, Goto, HeadHeld, TailHeld, SetData
<1>3. CallInv'
  BY DEF IInv, CallInv, Goto, PushSteps, PopSteps, SetData
<1>4. ChainInv'
  BY DEF IInv, ChainInv, ends, SetData
<1>5. OwnInv'
  BY DEF IInv, OwnInv, Goto, ends, TailHeld, Making, SetData
<1>6. LinkInv'
  BY DEF IInv, TypeOK, LockInv, ChainInv, OwnInv, LinkInv, Goto, ends,
      TailHeld, SetData
<1>7. QED
  BY <1>1, <1>2, <1>3, <1>4, <1>5, <1>6 DEF IInv

LEMMA SetNextInv ==
    ASSUME IInv, NEW t \in Threads, SetNext(t)
    PROVE  IInv'
<1>1. TypeOK'
  BY QueueAssumption DEF IInv, TypeOK, Goto, ends, PushSteps, SetNext
<1>2. LockInv'
  BY QueueAssumption DEF IInv, LockInv, Goto, HeadHeld, TailHeld, SetNext
<1>3. CallInv'
  BY DEF IInv, CallInv, Goto, PushSteps, PopSteps, SetNext
<1>4. ChainInv'
  BY DEF IInv, ChainInv, ends, SetNext
<1>5. OwnInv'
  BY DEF IInv, OwnInv, Goto, ends, TailHeld, Making, SetNext
<1>6. LinkInv'
  BY DEF IInv, TypeOK, LockInv, LinkInv, Goto, ends, TailHeld, SetNext
<1>7. QED
  BY <1>1, <1>2, <1>3, <1>4, <1>5, <1>6 DEF IInv

LEMMA SetTailInv ==
    ASSUME IInv, NEW t \in Threads, SetTail(t)
    PROVE  IInv'
<1>1. TypeOK'
  BY QueueAssumption DEF IInv, TypeOK, OwnInv, Goto, heap, PushSteps,
      TailHeld, Making, SetTail
<1>2. LockInv'
  BY QueueAssumption DEF IInv, TypeOK, LockInv, Goto, HeadHeld, TailHeld,
      SetTail
<1>3. CallInv'
  BY DEF IInv, CallInv, Goto, PushSteps, PopSteps, SetTail
<1>4. ChainInv'
  BY DEF IInv, CallInv, ChainInv, OwnInv, LinkInv, heap, PushSteps, TailHeld,
      Making, SetTail
<1>5. OwnInv'
  BY DEF IInv, TypeOK, OwnInv, Goto, heap, TailHeld, Making, SetTail
<1>6. LinkInv'
  BY DEF IInv, TypeOK, LockInv, ChainInv, OwnInv, LinkInv, Goto, heap,
      TailHeld, Making, SetTail
<1>7. QED
  BY <1>1, <1>2, <1>3, <1>4, <1>5, <1>6 DEF IInv

LEMMA NotifyOneInv ==
    ASSUME IInv, NEW t \in Threads, NotifyOne(t)
    PROVE  IInv'
<1>1. TypeOK'
  BY QueueAssumption DEF IInv, TypeOK, LockInv, Goto, GoIdle, ends, heap,
      Results, PopSteps, NotifyOne
<1>2. LockInv'
  BY QueueAssumption DEF IInv, TypeOK, LockInv, CallInv, Goto, GoIdle,
      HeadHeld, TailHeld, NotifyOne
<1>3. CallInv'
  BY DEF IInv, TypeOK, CallInv, Goto, GoIdle, PushSteps, PopSteps, NotifyOne
<1>4. ChainInv'
  BY ChainFrame DEF IInv, NotifyOne
<1>5. OwnInv'
  BY DEF IInv, TypeOK, CallInv, OwnInv, Goto, ends, heap, TailHeld, Making,
      NotifyOne
<1>6. LinkInv'
  BY DEF IInv, TypeOK, LinkInv, Goto, GoIdle, ends, heap, NotifyOne
<1>7. QED
  BY <1>1, <1>2, <1>3, <1>4, <1>5, <1>6 DEF IInv

LEMMA CallPopInv ==
    ASSUME IInv, NEW t \in Threads, CallPop(t)
    PROVE  IInv'
<1>a. PICK o \in PopOps \cup {"empty"} : op' = [op EXCEPT ![t] = o]
  BY QueueAssumption DEF CallPop, Ops
<1>1. TypeOK'
  BY <1>a, QueueAssumption DEF IInv, TypeOK, Goto, ends, heap, Ops, PopSteps,
      CallPop
<1>2. LockInv'
  BY <1>a, QueueAssumption DEF IInv, LockInv, Goto, HeadHeld, TailHeld, CallPop
<1>3. CallInv'
  BY <1>a DEF IInv, TypeOK, CallInv, Goto, PushSteps, CallPop
<1>4. ChainInv'
  BY ChainFrame DEF IInv, CallPop
<1>5. OwnInv'
  BY <1>a DEF IInv, OwnInv, Goto, ends, heap, TailHeld, Making, CallPop
<1>6. LinkInv'
  BY <1>a DEF IInv, LinkInv, Goto, ends, heap, CallPop
<1>7. QED
  BY <1>1, <1>2, <1>3, <1>4, <1>5, <1>6 DEF IInv

LEMMA LockHeadInv ==
    ASSUME IInv, NEW t \in Threads, LockHead(t)
    PROVE  IInv'
<1>1. TypeOK'
  BY QueueAssumption DEF IInv, TypeOK, Goto, ends, heap, PopSteps, LockHead
<1>2. LockInv'
  BY QueueAssumption DEF IInv, TypeOK, LockInv, Goto, HeadHeld, TailHeld,
      LockHead
<1>3. CallInv'
  BY DEF IInv, CallInv, Goto, PushSteps, PopSteps, LockHead
<1>4. ChainInv'
  BY ChainFrame DEF IInv, LockHead
<1>5. OwnInv'
  BY DEF IInv, OwnInv, Goto, ends, heap, TailHeld, Making, LockHead
<1>6. LinkInv'
  BY DEF IInv, LinkInv, Goto, ends, heap, LockHead
<1>7. QED
  BY <1>1, <1>2, <1>3, <1>4, <1>5, <1>6 DEF IInv

LEMMA CompareEmptyInv ==
    ASSUME IInv, NEW t \in Threads, CompareEmpty(t)
    PROVE  IInv'
<1>a. \/ op[t] \in WaitOps /\ Goto(t, "block") /\ UNCHANGED <<headMutex, val>>
      \/ op[t] \in TryOps /\ GiveUp(t, NoValue)
      \/ op[t] = "empty" /\ GiveUp(t, "true")
  BY DEF IInv, CompareEmpty
<1>1. TypeOK'
  <2>1. val' \in [Threads -> Results] /\ headMutex' \in Threads \cup {NoThread}
    BY <1>a DEF IInv, TypeOK, GiveUp, Answers, Results, CompareEmpty
  <2>2. pc' \in [Threads -> {"idle"} \cup PushSteps \cup PopSteps]
    BY <1>a DEF IInv, TypeOK, Goto, GiveUp, PopSteps, CompareEmpty
  <2> QED BY <2>1, <2>2 DEF IInv, TypeOK, ends, heap, CompareEmpty
<1>2. LockInv'
  BY <1>a, QueueAssumption DEF IInv, TypeOK, LockInv, Goto, GiveUp, HeadHeld,
      TailHeld, CompareEmpty
<1>3. CallInv'
  <2>1. CASE op[t] \in WaitOps /\ Goto(t, "block") /\ UNCHANGED <<headMutex, val>>
    BY <2>1 DEF IInv, CallInv, Goto, PushSteps, PopSteps, CompareEmpty
  <2>2. CASE op[t] \in TryOps /\ GiveUp(t, NoValue)
    BY <2>2 DEF IInv, CallInv, Goto, GiveUp, PushSteps, PopSteps, CompareEmpty
  <2>3. CASE op[t] = "empty" /\ GiveUp(t, "true")
    BY <2>3 DEF IInv, TypeOK, CallInv, Goto, GiveUp, PushSteps, CompareEmpty
  <2> QED BY <1>a, <2>1, <2>2, <2>3
<1>4. ChainInv'
  BY ChainFrame DEF IInv, CompareEmpty
<1>5. OwnInv'
  BY <1>a DEF IInv, TypeOK, OwnInv, Goto, GiveUp, ends, heap, TailHeld,
      Making, CompareEmpty
<1>6. LinkInv'
  BY <1>a DEF IInv, TypeOK, OwnInv, LinkInv, Goto, GiveUp, ends, heap,
      WaitOps, TryOps, TailHeld, Making, CompareEmpty
<1>7. QED
  BY <1>1, <1>2, <1>3, <1>4, <1>5, <1>6 DEF IInv

LEMMA CompareDataInv ==
    ASSUME IInv, NEW t \in Threads, CompareData(t)
    PROVE  IInv'
<1>1. TypeOK'
  BY QueueAssumption DEF IInv, TypeOK, LockInv, Goto, GiveUp, ends, heap,
      Answers, Results, PopSteps, CompareData
<1>2. LockInv'
  BY QueueAssumption DEF IInv, TypeOK, LockInv, Goto, GiveUp, HeadHeld,
      TailHeld, CompareData
<1>3. CallInv'
  BY DEF IInv, TypeOK, CallInv, Goto, GiveUp, PushSteps, CompareData
<1>4. ChainInv'
  BY ChainFrame DEF IInv, CompareData
<1>5. OwnInv'
  BY DEF IInv, TypeOK, OwnInv, Goto, GiveUp, ends, heap, TailHeld, Making,
      CompareData
<1>6. LinkInv'
  BY DEF IInv, TypeOK, OwnInv, LinkInv, Goto, GiveUp, ends, heap, TailHeld,
      Making, CompareData
<1>7. QED
  BY <1>1, <1>2, <1>3, <1>4, <1>5, <1>6 DEF IInv

LEMMA BlockInv ==
    ASSUME IInv, NEW t \in Threads, Block(t)
    PROVE  IInv'
<1>1. TypeOK'
  BY QueueAssumption DEF IInv, TypeOK, Goto, ends, heap, PopSteps, Block
<1>2. LockInv'
  BY QueueAssumption DEF IInv, TypeOK, LockInv, Goto, HeadHeld, TailHeld, Block
<1>3. CallInv'
  BY DEF IInv, TypeOK, CallInv, Goto, PushSteps, Block
<1>4. ChainInv'
  BY ChainFrame DEF IInv, Block
<1>5. OwnInv'
  BY DEF IInv, OwnInv, Goto, ends, heap, TailHeld, Making, Block
<1>6. LinkInv'
  BY DEF IInv, LinkInv, Goto, ends, heap, Block
<1>7. QED
  BY <1>1, <1>2, <1>3, <1>4, <1>5, <1>6 DEF IInv

LEMMA SpuriousWakeInv ==
    ASSUME IInv, NEW t \in Threads, SpuriousWake(t)
    PROVE  IInv'
<1>1. TypeOK'
  BY QueueAssumption DEF IInv, TypeOK, Goto, ends, heap, PopSteps, SpuriousWake
<1>2. LockInv'
  BY QueueAssumption DEF IInv, LockInv, CallInv, Goto, HeadHeld, TailHeld,
      SpuriousWake
<1>3. CallInv'
  BY DEF IInv, TypeOK, CallInv, Goto, PushSteps, SpuriousWake
<1>4. ChainInv'
  BY ChainFrame DEF IInv, SpuriousWake
<1>5. OwnInv'
  BY DEF IInv, CallInv, OwnInv, Goto, ends, heap, TailHeld, Making,
      SpuriousWake
<1>6. LinkInv'
  BY DEF IInv, LinkInv, Goto, ends, heap, SpuriousWake
<1>7. QED
  BY <1>1, <1>2, <1>3, <1>4, <1>5, <1>6 DEF IInv

LEMMA PopHeadInv ==
    ASSUME IInv, NEW t \in Threads, PopHead(t)
    PROVE  IInv'
<1>a. Len(chain) >= 2 /\ chain \in Seq(Nodes) /\ chain # <<>>
  BY DEF IInv, TypeOK, ChainInv, LinkInv, PopHead
<1>b. /\ chain' = Tail(chain)
      /\ Len(chain') = Len(chain) - 1
      /\ \A i \in 1 .. Len(chain) - 1 : chain'[i] = chain[i + 1]
  BY <1>a, HeadTailProperties DEF PopHead
<1>c. next[head] \in Nodes /\ Tail(chain) \in Seq(Nodes)
  BY <1>a, HeadTailProperties DEF IInv, ChainInv, PopHead
<1>1. TypeOK'
  <2>1. val' \in [Threads -> Results] /\ data' \in [Nodes -> Values \cup {NoValue}]
    BY DEF IInv, TypeOK, PopHead, Results
  <2>2. pc' \in [Threads -> {"idle"} \cup PushSteps \cup PopSteps]
    BY DEF IInv, TypeOK, PopHead, Goto, PopSteps
  <2>3. /\ next' \in [Nodes -> Nodes \cup {NoNode}]
        /\ node' \in [Threads -> Nodes \cup {NoNode}]
        /\ head' \in Nodes /\ chain' \in Seq(Nodes)
    BY <1>c DEF IInv, TypeOK, PopHead
  <2> QED BY <2>1, <2>2, <2>3 DEF IInv, TypeOK, PopHead
<1>2. LockInv'
  BY <1>a, QueueAssumption DEF IInv, TypeOK, LockInv, Goto, HeadHeld,
      TailHeld, PopHead
<1>3. CallInv'
  BY <1>a DEF IInv, TypeOK, CallInv, Goto, PushSteps, PopHead
<1>4. ChainInv'
  <2>1. head' = chain'[1] /\ tail' = chain'[Len(chain')]
    BY <1>a, <1>b DEF IInv, ChainInv, PopHead
  <2>2. \A i \in 1 .. Len(chain') : i + 1 \in 1 .. Len(chain)
    BY <1>a, <1>b
  <2>3. ASSUME NEW i \in 1 .. Len(chain'), NEW j \in 1 .. Len(chain'),
               chain'[i] = chain'[j]
        PROVE  i = j
    BY <1>a, <1>b, <2>2, <2>3 DEF IInv, ChainInv, PopHead
  <2>4. \A i \in 1 .. Len(chain') : chain'[i] \notin free' /\ chain'[i] # head
    BY <1>a, <1>b, <2>2 DEF IInv, ChainInv, PopHead
  <2>5. ASSUME NEW i \in 1 .. Len(chain') - 1
        PROVE  next'[chain'[i]] = chain'[i + 1] /\ data'[chain'[i]] \in Values
    <3>1. i + 1 \in 1 .. Len(chain) - 1 /\ chain'[i] = chain[i + 1]
            /\ chain'[i + 1] = chain[i + 2]
      BY <1>a, <1>b
    <3>2. next[chain[i + 1]] = chain[i + 2] /\ data[chain[i + 1]] \in Values
      BY <1>a, <3>1 DEF IInv, TypeOK, LockInv, ChainInv, PopHead
    <3>3. chain[i + 1] # head /\ chain[i + 1] \in Nodes
      BY <1>a, <2>4, <3>1 DEF IInv, LinkInv, PopHead
    <3> QED BY <3>1, <3>2, <3>3 DEF IInv, TypeOK, PopHead
  <2> QED BY <1>a, <1>b, <2>1, <2>3, <2>4, <2>5 DEF IInv, ChainInv, PopHead
<1>5. OwnInv'
  BY <1>a DEF IInv, TypeOK, ChainInv, OwnInv, Goto, TailHeld, Making, PopHead
<1>6. LinkInv'
  BY <1>a DEF IInv, TypeOK, LockInv, ChainInv, OwnInv, LinkInv, Goto,
      HeadHeld, PopHead
<1>7. QED
  BY <1>1, <1>2, <1>3, <1>4, <1>5, <1>6 DEF IInv

LEMMA ReturnInv ==
    ASSUME IInv, NEW t \in Threads, Return(t)
    PROVE  IInv'
<1>1. TypeOK'
  BY QueueAssumption DEF IInv, TypeOK, Goto, GoIdle, ends, Results, Return
<1>2. LockInv'
  BY QueueAssumption DEF IInv, LockInv, Goto, HeadHeld, TailHeld, Return
<1>3. CallInv'
  BY DEF IInv, TypeOK, CallInv, Goto, GoIdle, PushSteps, PopSteps, Return
<1>4. ChainInv'
  <2>1. CASE node[t] = NoNode
    BY <2>1 DEF IInv, ChainInv, ends, Return
  <2>2. CASE node[t] # NoNode
    <3>1. \A i \in 1 .. Len(chain) : chain[i] # node[t] /\ chain[i] \in Nodes
      BY <2>2 DEF IInv, TypeOK, OwnInv, Return
    <3>2. \A i \in 1 .. Len(chain) :
             data'[chain[i]] = data[chain[i]] /\ chain[i] \notin free'
      BY <2>2, <3>1 DEF IInv, TypeOK, ChainInv, Return
    <3> QED BY <3>2 DEF IInv, ChainInv, Return, ends
  <2> QED BY <2>1, <2>2
<1>5. OwnInv'
  BY DEF IInv, TypeOK, OwnInv, Goto, ends, TailHeld, Making, Return
<1>6. LinkInv'
  BY DEF IInv, TypeOK, ChainInv, OwnInv, LinkInv, Goto, GoIdle, ends, Return
<1>7. QED
  BY <1>1, <1>2, <1>3, <1>4, <1>5, <1>6 DEF IInv

LEMMA NextInv == IInv /\ [Next]_vars => IInv'
<1> SUFFICES ASSUME IInv, [Next]_vars PROVE IInv'
  OBVIOUS
<1>1. CASE UNCHANGED vars
  BY <1>1 DEF IInv, TypeOK, LockInv, CallInv, ChainInv, OwnInv, LinkInv, ends,
      heap, vars
<1>2. CASE Next
  <2> PICK t \in Threads : Call(t) \/ Step(t) \/ SpuriousWake(t)
    BY <1>2 DEF Next
  <2> QED
    BY CallPushInv, CallPopInv, LockTailInv, SetDataInv, SetNextInv,
       SetTailInv, NotifyOneInv, LockHeadInv, CompareEmptyInv, CompareDataInv,
       BlockInv, SpuriousWakeInv, PopHeadInv, ReturnInv DEF Call, Step
<1> QED BY <1>1, <1>2

LEMMA InvHolds == Spec => []IInv
  BY InitInv, NextInv, PTL DEF Spec

-----------------------------------------------------------------------------
(* What the invariant gives.                                               *)

\* Type correctness (Queue.h:71-82).
THEOREM TypeCorrect == Spec => []TypeOK
<1>1. IInv => TypeOK
  BY DEF IInv
<1> QED BY <1>1, InvHolds, PTL

LEMMA InvNodeRaceFree == IInv => NodeRaceFree
<1> SUFFICES ASSUME IInv PROVE NodeRaceFree
  OBVIOUS
<1>1. /\ head \in Nodes \ free /\ tail \in Nodes \ free
      /\ \A t \in Threads : node[t] # NoNode =>
            node[t] \notin free /\ node[t] # head /\ node[t] # tail
  BY DEF IInv, TypeOK, ChainInv, OwnInv
<1>2. \A t \in Threads : Touches(t) \cap free = {}
  BY <1>1 DEF Touches
<1>3. ASSUME NEW t \in Threads, NEW u \in Threads, t # u
      PROVE  Touches(t) \cap Touches(u) = {}
  <2>1. /\ ~(pc[t] \in {"setData", "setNext"} /\ pc[u] \in {"setData", "setNext"})
        /\ ~(pc[t] = "popHead" /\ pc[u] = "popHead")
    BY <1>3, QueueAssumption DEF IInv, LockInv, HeadHeld, TailHeld
  <2>2. pc[t] = "popHead" \/ pc[u] = "popHead" => head # tail
    BY DEF IInv, LinkInv
  <2>3. node[t] # NoNode => node[u] # node[t]
    BY <1>3 DEF IInv, OwnInv
  <2> QED BY <1>1, <2>1, <2>2, <2>3 DEF Touches
<1> QED BY <1>2, <1>3 DEF NodeRaceFree

\* No two threads ever touch the same node, and none touches a freed one.
THEOREM NodeSafety == Spec => []NodeRaceFree
  BY InvHolds, InvNodeRaceFree, PTL

-----------------------------------------------------------------------------
(* The refinement: each step is a step of FifoQueue or a stutter.          *)

LEMMA ItemsAre ==
    ASSUME IInv
    PROVE  /\ Items \in Seq(Values)
           /\ Len(Items) = Len(chain) - 1
           /\ Items = <<>> <=> head = tail
<1>a. /\ Len(chain) \in Nat /\ Len(chain) >= 1
      /\ 1 \in 1 .. Len(chain) /\ Len(chain) \in 1 .. Len(chain)
  BY DEF IInv, TypeOK, ChainInv
<1>1. head = tail <=> Len(chain) = 1
  BY <1>a DEF IInv, ChainInv
<1>2. Items \in Seq(Values) /\ Len(Items) = Len(chain) - 1
  BY <1>a DEF IInv, ChainInv, Items
<1> QED BY <1>a, <1>1, <1>2, EmptySeq

LEMMA OneCall ==
    ASSUME NEW t \in Threads, \A u \in Threads \ {t} : CallOf(u)' = CallOf(u)
    PROVE  CurrentCalls' = [CurrentCalls EXCEPT ![t] = CallOf(t)']
  BY DEF CurrentCalls

\* The calls of the threads that do not move look the same.
LEMMA OthersSame ==
    ASSUME IInv, NEW t \in Threads,
           \A u \in Threads \ {t} :
              /\ \/ pc'[u] = pc[u]
                 \/ pc[u] = "waiting" /\ pc'[u] = "lockHead"
              /\ op'[u] = op[u] /\ val'[u] = val[u] /\ node'[u] = node[u]
              /\ node[u] # NoNode => data'[node[u]] = data[node[u]]
    PROVE  \A u \in Threads \ {t} : CallOf(u)' = CallOf(u)
  BY DEF CallOf, ReturnValue

\* The steps that FifoQueue does not see.
LEMMA SilentStep ==
    ASSUME IInv, NEW t \in Threads,
           \/ LockTail(t) \/ SetData(t) \/ SetNext(t) \/ LockHead(t)
           \/ Block(t) \/ SpuriousWake(t)
           \/ CompareEmpty(t) /\ op[t] \in WaitOps
           \/ CompareData(t) /\ op[t] \in PopOps
    PROVE  UNCHANGED Fifo!vars
<1>1. /\ UNCHANGED <<chain, op, node, val>>
      /\ \A n \in Nodes : n # tail => data'[n] = data[n]
      /\ \A u \in Threads \ {t} : pc'[u] = pc[u]
  BY DEF IInv, TypeOK, LockTail, SetData, SetNext, LockHead, Block,
     SpuriousWake, CompareEmpty, CompareData, Goto, GiveUp, ends, heap, WaitOps,
     TryOps, PopOps
<1>2. \A i \in 1 .. Len(chain) - 1 : chain[i] \in Nodes /\ chain[i] # tail
  BY DEF IInv, TypeOK, ChainInv
<1>3. Items' = Items
  BY <1>1, <1>2 DEF Items
<1>4. \A u \in Threads : node[u] # NoNode => node[u] \in Nodes /\ node[u] # tail
  BY DEF IInv, TypeOK, OwnInv, ChainInv
<1>5. \A u \in Threads \ {t} : CallOf(u)' = CallOf(u)
  BY <1>1, <1>4, OthersSame
<1>6. /\ pc[t] \notin {"idle", "notify", "return"}
      /\ pc'[t] \notin {"idle", "notify", "return"}
  BY DEF IInv, TypeOK, LockTail, SetData, SetNext, LockHead, Block, CallInv,
     SpuriousWake, CompareEmpty, CompareData, Goto, GiveUp, WaitOps, TryOps, PopOps
<1>7. CallOf(t)' = CallOf(t)
  BY <1>1, <1>6 DEF CallOf
<1> QED BY <1>3, <1>5, <1>7 DEF Fifo!vars, CurrentCalls

LEMMA CallPushRef ==
    ASSUME IInv, NEW t \in Threads, CallPush(t)
    PROVE  Fifo!Invoke(t)
<1>1. PICK v \in Values : val' = [val EXCEPT ![t] = v]
  BY DEF CallPush
<1>2. CallOf(t)' = Fifo!Called("push", v)
  BY <1>1 DEF IInv, TypeOK, CallPush, Goto, CallOf, Fifo!Called
<1>3. CurrentCalls[t] = Fifo!Idle
  BY DEF CallPush, CurrentCalls, CallOf, Fifo!Idle
<1>4. \A u \in Threads \ {t} : CallOf(u)' = CallOf(u)
  <2>1. \A u \in Threads \ {t} : /\ pc'[u] = pc[u] /\ op'[u] = op[u]
                                 /\ val'[u] = val[u] /\ node'[u] = node[u]
    BY DEF IInv, TypeOK, CallPush, Goto
  <2> QED BY <2>1, OthersSame DEF CallPush
<1>5. Items' = Items
  BY DEF CallPush, ends, Items
<1> QED BY <1>2, <1>3, <1>4, <1>5, OneCall DEF CallPush, Fifo!Invoke

LEMMA CallPopRef ==
    ASSUME IInv, NEW t \in Threads, CallPop(t)
    PROVE  Fifo!Invoke(t)
<1>1. PICK o \in MayCall[t] \ {"push"} : op' = [op EXCEPT ![t] = o]
  BY DEF CallPop
<1>2. CallOf(t)' = Fifo!Called(o, NoValue)
  BY <1>1 DEF IInv, TypeOK, CallInv, CallPop, Goto, CallOf, Fifo!Called
<1>3. CurrentCalls[t] = Fifo!Idle
  BY DEF CallPop, CurrentCalls, CallOf, Fifo!Idle
<1>4. \A u \in Threads \ {t} : CallOf(u)' = CallOf(u)
  <2>1. \A u \in Threads \ {t} : pc'[u] = pc[u] /\ op'[u] = op[u]
    BY DEF IInv, TypeOK, CallPop, Goto
  <2> QED BY <2>1, OthersSame DEF CallPop, heap
<1>5. Items' = Items
  BY DEF CallPop, ends, heap, Items
<1> QED BY <1>1, <1>2, <1>3, <1>4, <1>5, OneCall DEF Fifo!Invoke

LEMMA SetTailRef ==
    ASSUME IInv, NEW t \in Threads, SetTail(t)
    PROVE  Fifo!Push(t)
<1>1. /\ CallOf(t) = Fifo!Called("push", val[t])
      /\ CallOf(t)' = Fifo!Applied("push", val[t])
  BY DEF IInv, TypeOK, CallInv, PushSteps, SetTail, Goto, CallOf, ReturnValue,
     Fifo!Called, Fifo!Applied, PopOps, WaitOps, TryOps
<1>2. \A u \in Threads \ {t} : CallOf(u)' = CallOf(u)
  <2>1. \A u \in Threads \ {t} : pc'[u] = pc[u] /\ node'[u] = node[u]
    BY DEF IInv, TypeOK, SetTail, Goto
  <2> QED BY <2>1, OthersSame DEF SetTail, heap
<1>3. Items' = Append(Items, val[t])
  <2>1. /\ Len(chain) \in Nat \ {0} /\ chain' = Append(chain, node[t])
        /\ data' = data /\ data[chain[Len(chain)]] = val[t]
    BY DEF IInv, TypeOK, ChainInv, LinkInv, SetTail, heap
  <2>2. /\ Len(chain') = Len(chain) + 1
        /\ \A i \in 1 .. Len(chain) : chain'[i] = chain[i]
    BY <2>1 DEF IInv, TypeOK
  <2>3. Items' = [i \in 1 .. Len(chain) |-> data[chain[i]]]
    BY <2>1, <2>2 DEF Items
  <2>4. /\ Items \in Seq(Values) /\ Len(Items) = Len(chain) - 1
        /\ \A i \in 1 .. Len(chain) - 1 : Items[i] = data[chain[i]]
    BY ItemsAre DEF Items
  <2>5. val[t] \in Values
    BY DEF IInv, CallInv, PushSteps, SetTail
  <2>6. /\ Append(Items, val[t]) \in Seq(Values)
        /\ Len(Append(Items, val[t])) = Len(chain)
        /\ \A i \in 1 .. Len(chain) :
              Append(Items, val[t])[i] = IF i < Len(chain) THEN Items[i] ELSE val[t]
    BY <2>1, <2>4, <2>5
  <2>7. Append(Items, val[t]) = [i \in 1 .. Len(chain) |-> Append(Items, val[t])[i]]
    BY <2>1, <2>6
  <2>8. \A i \in 1 .. Len(chain) : Append(Items, val[t])[i] = data[chain[i]]
    BY <2>1, <2>4, <2>6
  <2> QED BY <2>3, <2>7, <2>8
<1> QED BY <1>1, <1>2, <1>3, OneCall
     DEF Fifo!Push, CurrentCalls, Fifo!Called

LEMMA NotifyOneRef ==
    ASSUME IInv, NEW t \in Threads, NotifyOne(t)
    PROVE  Fifo!Return(t)
<1>1. CallOf(t).phase = "applied" /\ CallOf(t)' = Fifo!Idle
  <2>1. pc[t] = "notify" /\ pc'[t] = "idle"
    BY DEF IInv, TypeOK, CallInv, NotifyOne, Goto
  <2> QED BY <2>1 DEF CallOf, Fifo!Idle
<1>2. \A u \in Threads \ {t} : CallOf(u)' = CallOf(u)
  <2>1. \A u \in Threads \ {t} :
           /\ \/ pc'[u] = pc[u]
              \/ pc[u] = "waiting" /\ pc'[u] = "lockHead"
           /\ op'[u] = op[u] /\ val'[u] = val[u]
    BY DEF IInv, TypeOK, CallInv, NotifyOne, Goto, GoIdle
  <2> QED BY <2>1, OthersSame DEF NotifyOne, heap
<1>3. Items' = Items
  BY DEF NotifyOne, ends, heap, Items
<1> QED BY <1>1, <1>2, <1>3, OneCall DEF Fifo!Return, CurrentCalls

\* A call that returns r without touching the list.
LEMMA GiveUpRef ==
    ASSUME IInv, NEW t \in Threads, NEW r, GiveUp(t, r), pc[t] = "compare",
           UNCHANGED <<ends, heap, op, node>>
    PROVE  /\ CurrentCalls[t] = Fifo!Called(op[t], NoValue)
           /\ CurrentCalls' = [CurrentCalls EXCEPT ![t] = Fifo!Applied(op[t], r)]
           /\ Items' = Items
<1>1. CallOf(t) = Fifo!Called(op[t], NoValue)
  BY DEF IInv, CallInv, PopSteps, CallOf, Fifo!Called
<1>2. CallOf(t)' = Fifo!Applied(op[t], r)
  BY DEF IInv, TypeOK, OwnInv, Making, TailHeld, GiveUp, Goto, CallOf,
     ReturnValue, Fifo!Applied
<1>3. \A u \in Threads \ {t} : CallOf(u)' = CallOf(u)
  <2>1. \A u \in Threads \ {t} : pc'[u] = pc[u] /\ val'[u] = val[u]
    BY DEF IInv, TypeOK, GiveUp, Goto
  <2> QED BY <2>1, OthersSame DEF heap
<1>4. Items' = Items
  BY DEF ends, heap, Items
<1> QED BY <1>1, <1>2, <1>3, <1>4, OneCall DEF CurrentCalls

LEMMA CompareEmptyRef ==
    ASSUME IInv, NEW t \in Threads, CompareEmpty(t), op[t] \notin WaitOps
    PROVE  Fifo!PopNothing(t) \/ Fifo!TestEmpty(t)
<1>1. Items = <<>> /\ pc[t] = "compare" /\ UNCHANGED <<ends, heap, op, node>>
  BY ItemsAre DEF CompareEmpty
<1>2. CASE op[t] \in TryOps /\ GiveUp(t, NoValue)
  <2>1. /\ CurrentCalls[t] = Fifo!Called(op[t], NoValue)
        /\ CurrentCalls' = [CurrentCalls EXCEPT ![t] = Fifo!Applied(op[t], NoValue)]
        /\ Items' = Items
    BY <1>1, <1>2, GiveUpRef
  <2>2. CurrentCalls[t].phase = "called" /\ CurrentCalls[t].op = op[t]
    BY <2>1 DEF Fifo!Called
  <2> QED BY <1>1, <1>2, <2>1, <2>2 DEF Fifo!PopNothing, Fifo!TryOps, TryOps
<1>3. CASE op[t] = "empty" /\ GiveUp(t, "true")
  <2>1. /\ CurrentCalls[t] = Fifo!Called("empty", NoValue)
        /\ CurrentCalls' = [CurrentCalls EXCEPT ![t] = Fifo!Applied("empty", "true")]
        /\ Items' = Items
    BY <1>1, <1>3, GiveUpRef
  <2>2. CurrentCalls[t].phase = "called" /\ CurrentCalls[t].op = "empty"
    BY <2>1 DEF Fifo!Called
  <2> QED BY <1>1, <2>1, <2>2 DEF Fifo!TestEmpty
<1> QED BY <1>2, <1>3 DEF CompareEmpty

LEMMA CompareDataRef ==
    ASSUME IInv, NEW t \in Threads, CompareData(t), op[t] \notin PopOps
    PROVE  Fifo!TestEmpty(t)
<1>1. Items # <<>> /\ pc[t] = "compare" /\ UNCHANGED <<ends, heap, op, node>>
  BY ItemsAre DEF CompareData
<1>2. op[t] = "empty" /\ GiveUp(t, "false")
  BY DEF CompareData
<1>3. /\ CurrentCalls[t] = Fifo!Called("empty", NoValue)
      /\ CurrentCalls' = [CurrentCalls EXCEPT ![t] = Fifo!Applied("empty", "false")]
      /\ Items' = Items
  BY <1>1, <1>2, GiveUpRef
<1>4. CurrentCalls[t].phase = "called" /\ CurrentCalls[t].op = "empty"
  BY <1>3 DEF Fifo!Called
<1> QED BY <1>1, <1>3, <1>4 DEF Fifo!TestEmpty

LEMMA PopHeadRef ==
    ASSUME IInv, NEW t \in Threads, PopHead(t)
    PROVE  Fifo!Pop(t)
<1>1. /\ pc[t] = "popHead" /\ op[t] \in PopOps /\ head # tail
      /\ node[t] = NoNode /\ val[t] = NoValue
      /\ head \in Nodes /\ head # NoNode
  BY QueueAssumption
     DEF IInv, TypeOK, CallInv, LinkInv, OwnInv, Making, TailHeld, PopSteps, PopHead
<1>2. Len(chain) \in Nat /\ Len(chain) >= 2 /\ head = chain[1]
  <2>1. Items # <<>> /\ Len(Items) = Len(chain) - 1 /\ Items \in Seq(Values)
    BY <1>1, ItemsAre
  <2> QED BY <2>1, EmptySeq DEF IInv, ChainInv, TypeOK
<1>3. /\ Items \in Seq(Values) /\ Items # <<>> /\ Head(Items) = data[head]
      /\ Len(Items) = Len(chain) - 1
  <2>1. Items \in Seq(Values) /\ Items # <<>> /\ Len(Items) = Len(chain) - 1
    BY <1>1, ItemsAre
  <2> QED BY <1>2, <2>1 DEF Items
<1>4. CallOf(t) = Fifo!Called(op[t], NoValue)
  BY <1>1 DEF CallOf, Fifo!Called
<1>5. CallOf(t)' = Fifo!Applied(op[t], data[head])
  <2>1. /\ pc'[t] = "return" /\ op' = op /\ node'[t] = head
        /\ op[t] \in IntoOps => val'[t] = data[head]
        /\ op[t] \notin IntoOps => data' = data
    BY DEF IInv, TypeOK, PopHead, Goto
  <2> QED BY <1>1, <2>1 DEF CallOf, ReturnValue, Fifo!Applied
<1>6. \A u \in Threads \ {t} : CallOf(u)' = CallOf(u)
  <2>1. \A u \in Threads \ {t} :
           /\ pc'[u] = pc[u] /\ val'[u] = val[u] /\ node'[u] = node[u]
           /\ op'[u] = op[u]
    BY DEF IInv, TypeOK, PopHead, Goto
  <2>2. \A u \in Threads : node[u] # NoNode =>
           node[u] \in Nodes /\ node[u] # head
    BY <1>2 DEF IInv, TypeOK, OwnInv
  <2>3. \A n \in Nodes : n # head => data'[n] = data[n]
    BY DEF IInv, TypeOK, PopHead
  <2> QED BY <2>1, <2>2, <2>3, OthersSame
<1>7. Items' = Tail(Items)
  <2>1. chain' = Tail(chain) /\ chain \in Seq(Nodes)
    BY DEF PopHead, IInv, TypeOK
  <2>2. /\ Len(chain') = Len(chain) - 1
        /\ \A i \in 1 .. Len(chain) - 1 : chain'[i] = chain[i + 1]
    BY <1>2, <2>1
  <2>3. ASSUME NEW i \in 1 .. Len(chain) - 2
        PROVE  data'[chain'[i]] = Items[i + 1]
    <3>1. /\ i + 1 \in 1 .. Len(chain) - 1 /\ 1 \in 1 .. Len(chain)
          /\ i + 1 \in 1 .. Len(chain) /\ i \in 1 .. Len(chain) - 1
      BY <1>2
    <3>2. chain[i + 1] # head /\ chain[i + 1] \in Nodes
      BY <1>2, <2>1, <3>1 DEF IInv, ChainInv
    <3>3. data'[chain[i + 1]] = data[chain[i + 1]]
      BY <3>2 DEF IInv, TypeOK, PopHead
    <3> QED BY <2>2, <3>1, <3>3 DEF Items
  <2>4. Items' = [i \in 1 .. Len(chain) - 2 |-> Items[i + 1]]
    BY <1>2, <2>2, <2>3 DEF Items
  <2>5. /\ Tail(Items) \in Seq(Values)
        /\ Len(Tail(Items)) = Len(chain) - 2
        /\ \A i \in 1 .. Len(chain) - 2 : Tail(Items)[i] = Items[i + 1]
    BY <1>2, <1>3, HeadTailProperties
  <2>6. \A s \in Seq(Values) : s = [i \in 1 .. Len(s) |-> s[i]]
    OBVIOUS
  <2> QED BY <2>4, <2>5, <2>6
<1> QED BY <1>1, <1>3, <1>4, <1>5, <1>6, <1>7, OneCall
     DEF Fifo!Pop, Fifo!Called, CurrentCalls, Fifo!PopOps, Fifo!WaitOps,
         Fifo!TryOps, PopOps, WaitOps, TryOps

LEMMA ReturnRef ==
    ASSUME IInv, NEW t \in Threads, Return(t)
    PROVE  Fifo!Return(t)
<1>1. CallOf(t).phase = "applied" /\ CallOf(t)' = Fifo!Idle
  <2>1. pc[t] = "return" /\ pc'[t] = "idle"
    BY DEF IInv, TypeOK, Return, Goto
  <2> QED BY <2>1 DEF CallOf, Fifo!Idle
<1>2. \A n \in Nodes : n # node[t] => data'[n] = data[n]
  BY DEF IInv, TypeOK, Return
<1>3. \A u \in Threads \ {t} : CallOf(u)' = CallOf(u)
  <2>1. \A u \in Threads \ {t} :
           /\ pc'[u] = pc[u] /\ op'[u] = op[u]
           /\ val'[u] = val[u] /\ node'[u] = node[u]
    BY DEF IInv, TypeOK, Return, Goto, GoIdle
  <2>2. \A u \in Threads \ {t} :
           node[u] # NoNode => node[u] \in Nodes /\ node[u] # node[t]
    BY DEF IInv, TypeOK, OwnInv
  <2> QED BY <1>2, <2>1, <2>2, OthersSame
<1>4. Items' = Items
  <2>1. \A i \in 1 .. Len(chain) : chain[i] \in Nodes /\ chain[i] # node[t]
    BY QueueAssumption DEF IInv, TypeOK, OwnInv
  <2>2. chain' = chain /\ Len(chain) \in Nat
    BY DEF Return, ends, IInv, TypeOK
  <2> QED BY <1>2, <2>1, <2>2 DEF Items
<1> QED BY <1>1, <1>3, <1>4, OneCall DEF Fifo!Return, CurrentCalls

LEMMA InitRef == Init => Fifo!Init
<1> SUFFICES ASSUME Init PROVE Fifo!Init
  OBVIOUS
<1>1. Items = <<>>
  <2>1. IInv /\ head = tail
    BY InitInv DEF Init
  <2> QED BY <2>1, ItemsAre
<1>2. \A t \in Threads : CallOf(t) = Fifo!Idle
  BY DEF Init, CallOf, Fifo!Idle
<1> QED BY <1>1, <1>2 DEF Fifo!Init, CurrentCalls

LEMMA NextRef == IInv /\ [Next]_vars => [Fifo!Next]_Fifo!vars
<1> SUFFICES ASSUME IInv, [Next]_vars PROVE Fifo!Next \/ UNCHANGED Fifo!vars
  OBVIOUS
<1>1. CASE UNCHANGED vars
  BY <1>1 DEF vars, ends, heap, Fifo!vars, Items, CurrentCalls, CallOf, ReturnValue
<1>2. CASE Next
  <2> PICK t \in Threads : Call(t) \/ Step(t) \/ SpuriousWake(t)
    BY <1>2 DEF Next
  <2>1. CASE CallPush(t) \/ CallPop(t)
    BY <2>1, CallPushRef, CallPopRef DEF Fifo!Next
  <2>2. CASE SetTail(t) \/ NotifyOne(t) \/ PopHead(t) \/ Return(t)
    BY <2>2, SetTailRef, NotifyOneRef, PopHeadRef, ReturnRef DEF Fifo!Next
  <2>3. CASE CompareEmpty(t) /\ op[t] \notin WaitOps
    BY <2>3, CompareEmptyRef DEF Fifo!Next
  <2>4. CASE CompareData(t) /\ op[t] \notin PopOps
    BY <2>4, CompareDataRef DEF Fifo!Next
  <2> QED BY <2>1, <2>2, <2>3, <2>4, SilentStep DEF Call, Step
<1> QED BY <1>1, <1>2

\* The two-lock list implements the FIFO queue (Queue.h:33-66): whatever the
\* number of threads, nodes and values, every execution is one of FifoQueue.
THEOREM Refinement == Spec => ImplementsFifo
  BY InitRef, NextRef, InvHolds, PTL DEF Spec, ImplementsFifo, Fifo!Spec

-----------------------------------------------------------------------------
(* No wakeup is lost: the pushes that will notify and the awake waiters    *)
(* outnumber the queued values while somebody sleeps.                      *)

LEMMA Counts ==
    /\ IsFiniteSet(Notifiers) /\ Cardinality(Notifiers) \in Nat
    /\ IsFiniteSet(Poppers) /\ Cardinality(Poppers) \in Nat
  BY QueueAssumption, FS_Subset, FS_CardinalityType DEF Notifiers, Poppers

\* One thread joins or leaves a finite set.
LEMMA CountAdd ==
    ASSUME NEW S, NEW x, IsFiniteSet(S), x \notin S
    PROVE  Cardinality(S \cup {x}) = Cardinality(S) + 1
  BY FS_AddElement

LEMMA CountRemove ==
    ASSUME NEW S, NEW x \in S, IsFiniteSet(S)
    PROVE  Cardinality(S \ {x}) = Cardinality(S) - 1
  BY FS_RemoveElement

\* The counts stay and no thread decides to sleep.
LEMMA SameCounts ==
    ASSUME WakeupsCover, Notifiers' = Notifiers, Poppers' = Poppers,
           Len(chain') = Len(chain), Sleepers' \subseteq Sleepers
    PROVE  WakeupsCover'
  BY DEF WakeupsCover

LEMMA QuietWakeups ==
    ASSUME IInv, WakeupsCover, NEW t \in Threads,
           \/ CallPush(t) \/ LockTail(t) \/ SetData(t) \/ SetNext(t)
           \/ LockHead(t) \/ Block(t) \/ Return(t)
           \/ CompareEmpty(t) /\ op[t] \notin WaitOps
           \/ CompareData(t)
    PROVE  WakeupsCover'
<1>1. chain' = chain
  BY DEF CallPush, LockTail, SetData, SetNext, LockHead, Block, Return,
     CompareEmpty, CompareData, ends
<1>2. \A u \in Threads \ {t} : pc'[u] = pc[u] /\ op'[u] = op[u]
  BY DEF IInv, TypeOK, CallPush, LockTail, SetData, SetNext, LockHead, Block,
     Return, CompareEmpty, CompareData, Goto, GoIdle, GiveUp
<1>3. /\ pc[t] = "notify" <=> pc'[t] = "notify"
      /\ pc[t] \in {"block", "waiting"} <=> pc'[t] \in {"block", "waiting"}
      /\ (op[t] \in WaitOps /\ pc[t] \in {"lockHead", "compare", "popHead"})
           <=> (op'[t] \in WaitOps /\ pc'[t] \in {"lockHead", "compare", "popHead"})
  BY DEF IInv, TypeOK, CallInv, CallPush, LockTail, SetData, SetNext, LockHead,
     Block, Return, CompareEmpty, CompareData, Goto, GoIdle, GiveUp, WaitOps,
     TryOps, PopOps
<1>4. Notifiers' = Notifiers /\ Poppers' = Poppers /\ Sleepers' = Sleepers
  BY <1>2, <1>3 DEF Notifiers, Poppers, Sleepers
<1> QED BY <1>1, <1>4, SameCounts

LEMMA CallPopWakeups ==
    ASSUME IInv, WakeupsCover, NEW t \in Threads, CallPop(t)
    PROVE  WakeupsCover'
<1>1. /\ chain' = chain
      /\ \A u \in Threads \ {t} : pc'[u] = pc[u] /\ op'[u] = op[u]
      /\ pc[t] = "idle" /\ pc'[t] = "lockHead"
  BY DEF IInv, TypeOK, CallPop, Goto, ends
<1>2. Notifiers' = Notifiers /\ Sleepers' = Sleepers
  BY <1>1 DEF Notifiers, Sleepers
<1>3. CASE op'[t] \in WaitOps
  <2>1. Poppers' = Poppers \cup {t} /\ t \notin Poppers
    BY <1>1, <1>3 DEF Poppers
  <2> QED BY <1>1, <1>2, <2>1, Counts, CountAdd DEF WakeupsCover, IInv, TypeOK
<1>4. CASE op'[t] \notin WaitOps
  <2>1. Poppers' = Poppers
    BY <1>1, <1>4 DEF Poppers
  <2> QED BY <1>1, <1>2, <2>1, SameCounts
<1> QED BY <1>3, <1>4

LEMMA SetTailWakeups ==
    ASSUME IInv, WakeupsCover, NEW t \in Threads, SetTail(t)
    PROVE  WakeupsCover'
<1>1. /\ pc[t] = "setTail" /\ pc' = [pc EXCEPT ![t] = "notify"] /\ op' = op
      /\ Len(chain') = Len(chain) + 1 /\ Len(chain) \in Nat
  BY DEF IInv, TypeOK, SetTail, Goto
<1>2. /\ Notifiers' = Notifiers \cup {t} /\ t \notin Notifiers
      /\ Poppers' = Poppers /\ Sleepers' = Sleepers
  BY <1>1 DEF Notifiers, Poppers, Sleepers, IInv, TypeOK
<1> QED BY <1>1, <1>2, Counts, CountAdd DEF WakeupsCover

\* A thread in "block" holds head_mutex: whoever notifies with the mutex wakes
\* a sleeper, or there is none.
LEMMA NotifyOneWakeups ==
    ASSUME IInv, WakeupsCover, NEW t \in Threads, NotifyOne(t)
    PROVE  WakeupsCover'
<1>1. /\ pc[t] = "notify" /\ op[t] = "push" /\ chain' = chain
      /\ \A u \in Threads \ {t} : op'[u] = op[u]
      /\ Len(chain) \in Nat
  BY DEF IInv, TypeOK, CallInv, PushSteps, NotifyOne, GoIdle, ends
<1>2. Sleepers = waiting
  BY QueueAssumption DEF Sleepers, IInv, TypeOK, LockInv, CallInv, HeadHeld, NotifyOne
<1>3. CASE waiting = {} /\ Goto(t, "idle")
  <2>1. \A u \in Threads : pc'[u] \in {"block", "waiting"} => pc[u] = pc'[u]
    BY <1>3 DEF IInv, TypeOK, Goto
  <2>2. Sleepers' = {}
    BY <1>2, <1>3, <2>1 DEF Sleepers
  <2> QED BY <2>2 DEF WakeupsCover
<1>4. ASSUME NEW w \in waiting,
             pc' = [pc EXCEPT ![t] = "idle", ![w] = "lockHead"]
      PROVE  WakeupsCover'
  <2>1. w \in Threads /\ w # t /\ pc[w] = "waiting" /\ op[w] \in WaitOps
    BY <1>1 DEF IInv, TypeOK, CallInv
  <2>2. /\ pc'[t] = "idle" /\ pc'[w] = "lockHead"
        /\ \A u \in Threads \ {t, w} : pc'[u] = pc[u]
    BY <1>4, <2>1 DEF IInv, TypeOK
  <2>3. /\ Notifiers' = Notifiers \ {t} /\ t \in Notifiers
        /\ Poppers' = Poppers \cup {w} /\ w \notin Poppers
    BY <1>1, <2>1, <2>2 DEF Notifiers, Poppers, WaitOps
  <2>4. Sleepers # {}
    BY <2>1 DEF Sleepers
  <2> QED BY <1>1, <2>3, <2>4, Counts, CountAdd, CountRemove DEF WakeupsCover
<1> QED BY <1>3, <1>4 DEF NotifyOne

\* A waitPop decides to sleep only when nothing is queued.
LEMMA BlockWakeups ==
    ASSUME IInv, NEW t \in Threads, CompareEmpty(t)
    PROVE  WakeupsCover'
<1>1. Len(chain) = 1 /\ chain' = chain
  <2>1. /\ Len(chain) \in Nat /\ 1 \in 1 .. Len(chain)
        /\ Len(chain) \in 1 .. Len(chain) /\ head = tail
    BY DEF IInv, TypeOK, ChainInv, CompareEmpty
  <2> QED BY <2>1 DEF IInv, ChainInv, CompareEmpty, ends
<1>2. IsFiniteSet(Notifiers') /\ IsFiniteSet(Poppers')
  BY QueueAssumption, FS_Subset DEF Notifiers, Poppers
<1>3. Cardinality(Notifiers') \in Nat /\ Cardinality(Poppers') \in Nat
  BY <1>2, FS_CardinalityType
<1>4. Len(chain') = 1
  BY <1>1
<1>5. \A m, n \in Nat : 1 - 1 <= m + n
  OBVIOUS
<1> QED BY <1>3, <1>4, <1>5 DEF WakeupsCover

LEMMA SpuriousWakeups ==
    ASSUME IInv, WakeupsCover, NEW t \in Threads, SpuriousWake(t)
    PROVE  WakeupsCover'
<1>1. /\ chain' = chain /\ op' = op /\ pc[t] = "waiting" /\ pc'[t] = "lockHead"
      /\ op[t] \in WaitOps
      /\ \A u \in Threads \ {t} : pc'[u] = pc[u]
      /\ Len(chain) \in Nat
  BY DEF IInv, TypeOK, CallInv, SpuriousWake, Goto, ends
<1>2. /\ Notifiers' = Notifiers /\ Sleepers # {}
      /\ Poppers' = Poppers \cup {t} /\ t \notin Poppers
  BY <1>1 DEF Notifiers, Poppers, Sleepers
<1> QED BY <1>1, <1>2, Counts, CountAdd DEF WakeupsCover

LEMMA PopHeadWakeups ==
    ASSUME IInv, WakeupsCover, NEW t \in Threads, PopHead(t)
    PROVE  WakeupsCover'
<1>1. /\ op' = op /\ pc[t] = "popHead" /\ pc'[t] = "return"
      /\ \A u \in Threads \ {t} : pc'[u] = pc[u]
  BY DEF IInv, TypeOK, PopHead, Goto
<1>2. Len(chain) \in Nat /\ Len(chain') = Len(chain) - 1
  <2>1. chain \in Seq(Nodes) /\ Len(chain) >= 1 /\ chain' = Tail(chain)
    BY DEF IInv, TypeOK, ChainInv, PopHead
  <2> QED BY <2>1, HeadTailProperties
<1>3. Notifiers' = Notifiers /\ Sleepers' = Sleepers
  BY <1>1 DEF Notifiers, Sleepers
<1>4. CASE op[t] \in WaitOps
  <2>1. Poppers' = Poppers \ {t} /\ t \in Poppers
    BY <1>1, <1>4 DEF Poppers
  <2> QED BY <1>2, <1>3, <2>1, Counts, CountRemove DEF WakeupsCover
<1>5. CASE op[t] \notin WaitOps
  <2>1. Poppers' = Poppers
    BY <1>1, <1>5 DEF Poppers
  <2> QED BY <1>2, <1>3, <2>1, Counts DEF WakeupsCover
<1> QED BY <1>4, <1>5

LEMMA NextWakeups == IInv /\ WakeupsCover /\ [Next]_vars => WakeupsCover'
<1> SUFFICES ASSUME IInv, WakeupsCover, [Next]_vars PROVE WakeupsCover'
  OBVIOUS
<1>1. CASE UNCHANGED vars
  BY <1>1 DEF vars, ends, WakeupsCover, Sleepers, Notifiers, Poppers
<1>2. CASE Next
  <2> PICK t \in Threads : Call(t) \/ Step(t) \/ SpuriousWake(t)
    BY <1>2 DEF Next
  <2> QED BY QuietWakeups, CallPopWakeups, SetTailWakeups, NotifyOneWakeups,
          BlockWakeups, SpuriousWakeups, PopHeadWakeups DEF Call, Step
<1> QED BY <1>1, <1>2

\* No wakeup is lost, whatever the number of threads (Queue.h:95-99, 141-144).
THEOREM WakeupsHold == Spec => []WakeupsCover
<1>1. Init => WakeupsCover
  BY DEF Init, WakeupsCover, Sleepers
<1> QED BY <1>1, NextWakeups, InvHolds, PTL DEF Spec
=============================================================================
