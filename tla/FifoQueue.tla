----------------------------- MODULE FifoQueue -----------------------------
(***************************************************************************)
(* What LLU::Async::ThreadsafeQueue promises to its callers: a first-in    *)
(* first-out queue whose operations take effect one at a time, somewhere   *)
(* between their call and their return (linearizability).  The comments of *)
(* include/LLU/Async/Queue.h state the result of each operation; nothing   *)
(* here knows of nodes, mutexes or the condition variable.                 *)
(***************************************************************************)
EXTENDS Sequences

CONSTANTS Threads,  \* the threads that use the queue
          Values,   \* what is stored in it
          NoValue,  \* the null result of tryPop, and the value of an idle call
          MayCall   \* [Threads -> SUBSET Ops], the operations each thread calls

WaitOps == {"waitPop", "waitPopInto"}
TryOps  == {"tryPop", "tryPopInto"}
PopOps  == WaitOps \cup TryOps
Ops     == PopOps \cup {"push", "empty"}
Answers == {"true", "false"}     \* what empty() returns
Results == Values \cup {NoValue} \cup Answers

VARIABLES items,  \* the queued values, oldest first
          call    \* the call each thread is in

vars == <<items, call>>

Idle == [phase |-> "idle", op |-> "none", val |-> NoValue]
Called(o, v)  == [phase |-> "called", op |-> o, val |-> v]
Applied(o, r) == [phase |-> "applied", op |-> o, val |-> r]

TypeOK ==
    /\ items \in Seq(Values)
    /\ call \in [Threads -> [phase : {"idle", "called", "applied"},
                             op    : Ops \cup {"none"},
                             val   : Results]]

Init ==
    /\ items = <<>>
    /\ call = [t \in Threads |-> Idle]

Invoke(t) ==
    /\ call[t] = Idle
    /\ \E o \in MayCall[t] :
         \E v \in IF o = "push" THEN Values ELSE {NoValue} :
            call' = [call EXCEPT ![t] = Called(o, v)]
    /\ UNCHANGED items

Push(t) ==
    /\ call[t].phase = "called" /\ call[t].op = "push"
    /\ items' = Append(items, call[t].val)
    /\ call' = [call EXCEPT ![t] = Applied("push", call[t].val)]

\* The only operation that may have to wait is a waitPop on an empty queue.
Pop(t) ==
    /\ call[t].phase = "called" /\ call[t].op \in PopOps
    /\ items # <<>>
    /\ items' = Tail(items)
    /\ call' = [call EXCEPT ![t] = Applied(call[t].op, Head(items))]

PopNothing(t) ==
    /\ call[t].phase = "called" /\ call[t].op \in TryOps
    /\ items = <<>>
    /\ call' = [call EXCEPT ![t] = Applied(call[t].op, NoValue)]
    /\ UNCHANGED items

TestEmpty(t) ==
    /\ call[t].phase = "called" /\ call[t].op = "empty"
    /\ call' = [call EXCEPT ![t] =
                  Applied("empty", IF items = <<>> THEN "true" ELSE "false")]
    /\ UNCHANGED items

Return(t) ==
    /\ call[t].phase = "applied"
    /\ call' = [call EXCEPT ![t] = Idle]
    /\ UNCHANGED items

Next == \E t \in Threads :
    Invoke(t) \/ Push(t) \/ Pop(t) \/ PopNothing(t) \/ TestEmpty(t) \/ Return(t)

Spec == Init /\ [][Next]_vars
=============================================================================
