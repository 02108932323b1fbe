-------------------------- MODULE BasicThreadPool --------------------------
(***************************************************************************)
(* LLU::Async::BasicThreadPool (include/LLU/Async/ThreadPool.h:28-105) and *)
(* the ThreadJoiner that ends it: workers that loop over one blocking      *)
(* queue, a constructor that may fail to start a thread, a destructor that *)
(* queues one empty task per thread.  The queue is the FIFO queue that     *)
(* ThreadsafeQueue implements, each operation one step.                    *)
(***************************************************************************)
EXTENDS TaskPrograms

VARIABLES
    done,        \* the atomic flag the workers read
    workQueue,   \* the queued tasks, oldest first
    started,     \* threads.size()
    pushed,      \* empty tasks the destructor has queued
    life,        \* where the owner is in the pool's constructor or destructor
    pc           \* each thread's step

vars == <<taskVars, done, workQueue, started, pushed, life, pc>>

Lives == {"ctor", "unwind", "threw", "alive", "stop", "join", "dead"}

TypeOK ==
    /\ TasksTypeOK
    /\ done \in BOOLEAN
    /\ workQueue \in Seq(Tasks \cup {EmptyTask})
    /\ started \in 0 .. NumThreads /\ pushed \in 0 .. NumThreads
    /\ life \in Lives
    /\ pc \in [Threads -> {"none", "loop", "pop", "run", "ended"}]

Init ==
    /\ TasksInit
    /\ done = FALSE /\ workQueue = <<>>
    /\ started = 0 /\ pushed = 0
    /\ life = "ctor"
    /\ pc = [t \in Threads |-> IF t \in Clients THEN "run" ELSE "none"]

Goto(t, l) == pc' = [pc EXCEPT ![t] = l]

-----------------------------------------------------------------------------
(* The constructor, on the owner's thread *)

StartThread ==
    /\ life = "ctor" /\ started < NumThreads
    /\ started' = started + 1
    /\ pc' = [pc EXCEPT ![started] = "loop"]
    /\ UNCHANGED <<taskVars, done, workQueue, pushed, life>>

\* emplace_back throws: done is set and the exception leaves the constructor,
\* so ~BasicThreadPool does not run but the members' destructors do.
StartFails ==
    /\ life = "ctor" /\ started < NumThreads
    /\ done' = TRUE
    /\ life' = "unwind"
    /\ UNCHANGED <<taskVars, workQueue, started, pushed, pc>>

Constructed ==
    /\ life = "ctor" /\ started = NumThreads
    /\ life' = "alive"
    /\ UNCHANGED <<taskVars, done, workQueue, started, pushed, pc>>

-----------------------------------------------------------------------------
(* The destructor: the pool's clients have returned from their last call.  *)

\* Deviation: the destructor queues the empty tasks but does not set done.
DoneNotSet ==
    /\ life = "alive" /\ \A c \in Clients : pc[c] = "ended"
    /\ life' = "stop"
    /\ UNCHANGED <<taskVars, done, workQueue, started, pushed, pc>>

SetDone ==
    /\ life = "alive"
    /\ \A c \in Clients : pc[c] = "ended"
    /\ done' = TRUE
    /\ life' = "stop"
    /\ UNCHANGED <<taskVars, workQueue, started, pushed, pc>>

PushEmptyTask ==
    /\ life = "stop" /\ pushed < started
    /\ workQueue' = Append(workQueue, EmptyTask)
    /\ pushed' = pushed + 1
    /\ UNCHANGED <<taskVars, done, started, life, pc>>

\* Deviation: one empty task too few.
AllButOnePushed ==
    /\ life = "stop" /\ pushed + 1 >= started
    /\ life' = "join"
    /\ UNCHANGED <<taskVars, done, workQueue, started, pushed, pc>>

AllPushed ==
    /\ life = "stop" /\ pushed = started
    /\ life' = "join"
    /\ UNCHANGED <<taskVars, done, workQueue, started, pushed, pc>>

\* Deviation: the joiner leaves the last thread alone.
JoinedButLast == \A w \in Workers : w + 1 < started => pc[w] = "ended"

\* ~ThreadJoiner has joined every started thread.
Joined == \A w \in Workers : w < started => pc[w] = "ended"

\* Then workQueue is destroyed with the tasks still in it.
Join ==
    /\ life \in {"join", "unwind"} /\ Joined
    /\ Break(workQueue)
    /\ workQueue' = <<>>
    /\ life' = IF life = "join" THEN "dead" ELSE "threw"
    /\ UNCHANGED <<program, stack, done, started, pushed, pc>>

-----------------------------------------------------------------------------
(* The workers' loop, and runPendingTask wherever it is called *)

\* Deviation: a worker leaves its loop when there is nothing to do.
EndWhenIdle(w) ==
    /\ w \in Workers /\ pc[w] = "loop"
    /\ Goto(w, IF done \/ workQueue = <<>> THEN "ended" ELSE "pop")
    /\ UNCHANGED <<taskVars, done, workQueue, started, pushed, life>>

CheckDone(w) ==
    /\ w \in Workers /\ pc[w] = "loop"
    /\ Goto(w, IF done THEN "ended" ELSE "pop")
    /\ UNCHANGED <<taskVars, done, workQueue, started, pushed, life>>

\* Deviation: the task is read from the queue but stays in it.
RunWithoutPop(t) ==
    /\ pc[t] = "pop" /\ workQueue # <<>>
    /\ Start(t, Head(workQueue))
    /\ Goto(t, "run")
    /\ UNCHANGED <<program, future, done, workQueue, started, pushed, life>>

\* waitPop blocks while the queue is empty; then task() starts.
RunPendingTask(t) ==
    /\ pc[t] = "pop" /\ workQueue # <<>>
    /\ workQueue' = Tail(workQueue)
    /\ Start(t, Head(workQueue))
    /\ Goto(t, "run")
    /\ UNCHANGED <<program, future, done, started, pushed, life>>

\* task() returns: to the caller of runPendingTask, or to the loop.
EndTask(t) ==
    /\ pc[t] = "run" /\ Finish(t)
    /\ Goto(t, IF Len(stack[t]) > 1 THEN "run"
               ELSE IF t \in Workers THEN "loop" ELSE "ended")
    /\ UNCHANGED <<program, done, workQueue, started, pushed, life>>

-----------------------------------------------------------------------------
(* What clients and tasks call.  Clients hold the pool once it is built.   *)

MayRun(t) == pc[t] = "run" /\ (t \in Clients => life = "alive")

Submit(t) ==
    /\ MayRun(t) /\ Calls(t, "submit")
    /\ workQueue' = Append(workQueue, NextCall(t).task)
    /\ future' = [future EXCEPT ![NextCall(t).task] = "pending"]
    /\ Advance(t)
    /\ UNCHANGED <<program, done, started, pushed, life, pc>>

\* future.get() blocks until the future is ready or its promise broken.
Get(t) ==
    /\ MayRun(t) /\ Calls(t, "get") /\ Settled(NextCall(t).task)
    /\ Advance(t)
    /\ UNCHANGED <<program, future, done, workQueue, started, pushed, life, pc>>

\* while (future not ready) pool.runPendingTask();
Help(t) ==
    /\ MayRun(t) /\ Calls(t, "help")
    /\ IF Settled(NextCall(t).task)
       THEN Advance(t) /\ UNCHANGED pc
       ELSE Goto(t, "pop") /\ UNCHANGED stack
    /\ UNCHANGED <<program, future, done, workQueue, started, pushed, life>>

-----------------------------------------------------------------------------
OwnerStep == StartThread \/ StartFails \/ Constructed \/ SetDone
               \/ PushEmptyTask \/ AllPushed \/ Join

ThreadStep(t) == CheckDone(t) \/ RunPendingTask(t) \/ EndTask(t)
                   \/ Submit(t) \/ Get(t) \/ Help(t)

\* The pool is gone, or its constructor threw, and nobody has a step left.
Finished == life \in {"dead", "threw"} /\ UNCHANGED vars

Next == OwnerStep \/ (\E t \in Threads : ThreadStep(t)) \/ Finished

\* Every thread runs: the scheduler's promise, and waitPop's (ThreadsafeQueue).
Spec == Init /\ [][Next]_vars /\ WF_vars(OwnerStep)
          /\ \A t \in Threads : WF_vars(ThreadStep(t))

-----------------------------------------------------------------------------
(* Properties *)

\* The destructor queues enough empty tasks: once it joins, every worker that
\* is in waitPop has a task to pop, so no thread stays blocked there
\* (ThreadPool.h:59-68).
EmptyTasksCover ==
    life = "join" => Cardinality({w \in Workers : pc[w] = "pop"}) <= Len(workQueue)

\* A pending task is in the queue or running, once; nothing else is.  No task
\* is lost, duplicated or run twice on its way from submit to task()
\* (ThreadPool.h:80-92).
TaskConserved ==
    \A u \in Tasks : InQueue(u, workQueue) + Running(u)
                       = IF future[u] = "pending" THEN 1 ELSE 0

Promised ==
    INSTANCE TaskPool WITH state <- TaskState, away <- {}, open <- life \notin {"dead", "threw"}

\* The pool keeps the promises of TaskPool: a submitted task begins once and
\* ends, or its promise is broken when the destructor is through with joining
\* the threads; none is broken before, or begins after (ThreadPool.h:59-92).
ImplementsTaskPool == Promised!Spec

\* The destructor returns (ThreadPool.h:59-62).
DestructorReturns == life = "stop" ~> life = "dead"

\* Nobody waits for ever on a future: the task is run, or its promise broken
\* when the pool is destroyed.
FutureSettles == \A u \in Tasks : future[u] = "pending" ~> Settled(u)

\* ThreadJoiner "loops over the vector of threads and joins each one"
\* (Utilities.h:106), also when the constructor failed to start them all.
JoinerReturns == life = "unwind" ~> life = "threw"
=============================================================================
