------------------------- MODULE GenericThreadPool -------------------------
(***************************************************************************)
(* LLU::Async::GenericThreadPool (include/LLU/Async/ThreadPool.h:112-218), *)
(* with its WorkStealingQueues (WorkStealingQueue.h) and the Pausable it   *)
(* is.  A worker looks for a task in its own queue, in the pool's, then in *)
(* the other workers' queues; each look is a step of its own, because each *)
(* queue has its own lock.                                                 *)
(*                                                                         *)
(* localWorkQueue and myIndex are static thread_local members, one per     *)
(* thread for all pools of the type: a client thread that is a worker of   *)
(* another pool (Foreign) has a local queue too, which no worker of this   *)
(* pool looks at.                                                          *)
(***************************************************************************)
EXTENDS TaskPrograms

CONSTANTS Foreign,       \* the clients that are workers of another pool
          ForeignIndex,  \* the index each of them has in its own pool
          NoThread

ASSUME PoolAssumption ==
    /\ Foreign \subseteq Clients
    /\ ForeignIndex \in [Foreign -> Nat]

VARIABLES
    done,            \* the atomic flag the workers read
    poolWorkQueue,   \* oldest first
    local,           \* the local queue of each thread that has one, front first
    started,         \* threads.size()
    life,            \* where the owner is in the constructor or destructor
    pc,              \* each thread's step
    scan,            \* i of popTaskFromOtherThreadQueue
    pausedQ, workersMutex, pausePc,   \* of Pausable
    ranPaused        \* history: tasks a worker's loop has begun in this pause

poolVars == <<done, poolWorkQueue, local, started, life>>
pauseVars == <<pausedQ, workersMutex, pausePc, ranPaused>>
vars == <<taskVars, poolVars, pc, scan, pauseVars>>

P == INSTANCE Pausable

HasLocal == Workers \cup Foreign
Lives == {"ctor", "spawn", "unwind", "threw", "alive", "stop", "notify", "join", "dead"}
Steps == {"none", "loop", "local", "pool", "steal", "run", "pause", "ended"}

TypeOK ==
    /\ TasksTypeOK /\ P!PauseTypeOK
    /\ done \in BOOLEAN
    /\ poolWorkQueue \in Seq(Tasks)
    /\ local \in [HasLocal -> Seq(Tasks)]
    /\ started \in 0 .. NumThreads
    /\ life \in Lives
    /\ pc \in [Threads -> Steps]
    /\ scan \in [Threads -> 0 .. NumThreads]
    /\ ranPaused \in [Workers -> Nat]

Init ==
    /\ TasksInit /\ P!PauseInit
    /\ done = FALSE /\ poolWorkQueue = <<>>
    /\ local = [t \in HasLocal |-> <<>>]
    /\ started = 0
    /\ life = "ctor"
    /\ pc = [t \in Threads |-> IF t \in Clients THEN "run" ELSE "none"]
    /\ scan = [t \in Threads |-> 0]
    /\ ranPaused = [w \in Workers |-> 0]

Goto(t, l) == pc' = [pc EXCEPT ![t] = l]

-----------------------------------------------------------------------------
(* The constructor: all queues, then all threads; either may throw. *)

BuildQueues ==
    /\ life = "ctor" /\ life' = "spawn"
    /\ UNCHANGED <<taskVars, done, poolWorkQueue, local, started, pc, scan, pauseVars>>

StartThread ==
    /\ life = "spawn" /\ started < NumThreads
    /\ started' = started + 1
    /\ Goto(started, "loop")
    /\ UNCHANGED <<taskVars, done, poolWorkQueue, local, life, scan, pauseVars>>

ConstructorFails ==
    /\ life \in {"ctor", "spawn"} /\ started < NumThreads
    /\ done' = TRUE
    /\ life' = "unwind"
    /\ UNCHANGED <<taskVars, poolWorkQueue, local, started, pc, scan, pauseVars>>

Constructed ==
    /\ life = "spawn" /\ started = NumThreads
    /\ life' = "alive"
    /\ UNCHANGED <<taskVars, done, poolWorkQueue, local, started, pc, scan, pauseVars>>

-----------------------------------------------------------------------------
(* The destructor: done = true; resume(); then the members, joiner first.  *)

SetDone ==
    /\ life = "alive" /\ \A c \in Clients : pc[c] = "ended"
    /\ done' = TRUE
    /\ life' = "stop"
    /\ UNCHANGED <<taskVars, poolWorkQueue, local, started, pc, scan, pauseVars>>

DtorResume ==
    /\ life = "stop" /\ life' = "notify"
    /\ P!Resume(Owner)
    /\ UNCHANGED <<taskVars, done, poolWorkQueue, local, started, pc, scan, ranPaused>>

\* Deviation: the destructor clears pausedQ and notifies nobody.
DtorNoNotify ==
    /\ life = "notify" /\ life' = "join"
    /\ UNCHANGED <<taskVars, done, poolWorkQueue, local, started, pc, scan, pauseVars>>

DtorNotify ==
    /\ life = "notify" /\ life' = "join"
    /\ P!NotifyAll(Owner)
    /\ UNCHANGED <<taskVars, done, poolWorkQueue, local, started, pc, scan, ranPaused>>

\* Deviation: the joiner leaves the last thread alone.
JoinedButLast == \A w \in Workers : w + 1 < started => pc[w] = "ended"

\* ~ThreadJoiner has joined every started thread.
Joined == \A w \in Workers : w < started => pc[w] = "ended"

\* The queues are destroyed with the tasks still in them.
Join ==
    /\ life \in {"join", "unwind"} /\ Joined
    /\ future' = [u \in Tasks |->
          IF InQueue(u, poolWorkQueue) > 0 \/ \E w \in Workers : InQueue(u, local[w]) > 0
          THEN "broken" ELSE future[u]]
    /\ poolWorkQueue' = <<>>
    /\ local' = [t \in HasLocal |-> IF t \in Workers THEN <<>> ELSE local[t]]
    /\ life' = IF life = "join" THEN "dead" ELSE "threw"
    /\ UNCHANGED <<program, stack, done, started, pc, scan, pauseVars>>

-----------------------------------------------------------------------------
(* runPendingTask, from a worker's loop or from whoever calls it *)

\* Deviation: the loop does not call checkPause.
ReturnUnpaused(t, depth) ==
    IF depth > 0 THEN "run" ELSE IF t \in Workers THEN "loop" ELSE "ended"

\* Back to the calling program, or to the worker's loop, which calls checkPause.
ReturnTo(t, depth) ==
    IF depth > 0 THEN "run" ELSE IF t \in Workers THEN "pause" ELSE "ended"

Begin(t, u) ==
    /\ Start(t, u)
    /\ Goto(t, "run")
    /\ ranPaused' = IF pausedQ /\ t \in Workers /\ stack[t] = <<>>
                    THEN [ranPaused EXCEPT ![t] = @ + 1] ELSE ranPaused

PopLocal(t) ==
    /\ pc[t] = "local"
    /\ IF t \in HasLocal /\ local[t] # <<>>
       THEN /\ Begin(t, Head(local[t]))
            /\ local' = [local EXCEPT ![t] = Tail(@)]
       ELSE /\ Goto(t, "pool")
            /\ UNCHANGED <<stack, local, ranPaused>>
    /\ UNCHANGED <<program, future, done, poolWorkQueue, started, life, scan,
                   pausedQ, workersMutex, pausePc>>

PopPool(t) ==
    /\ pc[t] = "pool"
    /\ IF poolWorkQueue # <<>>
       THEN /\ Begin(t, Head(poolWorkQueue))
            /\ poolWorkQueue' = Tail(poolWorkQueue)
            /\ UNCHANGED scan
       ELSE /\ Goto(t, "steal")
            /\ scan' = [scan EXCEPT ![t] = 0]
            /\ UNCHANGED <<stack, poolWorkQueue, ranPaused>>
    /\ UNCHANGED <<program, future, done, local, started, life,
                   pausedQ, workersMutex, pausePc>>

\* WorkStealingQueue: its owner pushes and pops at the front, thieves take the
\* back.
PushFront(q, u) == <<u>> \o q

\* Deviation: the thief reads the back and removes the front.
PopWrongEnd(q) == Tail(q)

PopBack(q) == SubSeq(q, 1, Len(q) - 1)

myIndex(t) == IF t \in Workers THEN t
              ELSE IF t \in Foreign THEN ForeignIndex[t] ELSE 0
Victim(t) == (myIndex(t) + scan[t] + 1) % NumThreads

\* trySteal takes the last task of one queue, the oldest its owner pushed.
Steal(t) ==
    /\ pc[t] = "steal" /\ scan[t] < NumThreads
    /\ LET q == local[Victim(t)] IN
       IF q # <<>>
       THEN /\ Begin(t, q[Len(q)])
            /\ local' = [local EXCEPT ![Victim(t)] = PopBack(@)]
            /\ UNCHANGED scan
       ELSE /\ scan' = [scan EXCEPT ![t] = @ + 1]
            /\ UNCHANGED <<stack, pc, local, ranPaused>>
    /\ UNCHANGED <<program, future, done, poolWorkQueue, started, life,
                   pausedQ, workersMutex, pausePc>>

\* Nothing found: yield and return.
Yield(t) ==
    /\ pc[t] = "steal" /\ scan[t] = NumThreads
    /\ Goto(t, ReturnTo(t, Len(stack[t])))
    /\ UNCHANGED <<taskVars, poolVars, scan, pauseVars>>

EndTask(t) ==
    /\ pc[t] = "run" /\ Finish(t)
    /\ Goto(t, ReturnTo(t, Len(stack[t]) - 1))
    /\ UNCHANGED <<program, poolVars, scan, pauseVars>>

-----------------------------------------------------------------------------
(* The workers' loop *)

\* Deviation: a worker leaves its loop when there is nothing to do.
EndWhenIdle(w) ==
    /\ w \in Workers /\ pc[w] = "loop"
    /\ Goto(w, IF done \/ poolWorkQueue = <<>> THEN "ended" ELSE "local")
    /\ UNCHANGED <<taskVars, poolVars, scan, pauseVars>>

CheckDone(w) ==
    /\ w \in Workers /\ pc[w] = "loop"
    /\ Goto(w, IF done THEN "ended" ELSE "local")
    /\ UNCHANGED <<taskVars, poolVars, scan, pauseVars>>

CheckPause(w) ==
    /\ w \in Workers /\ pc[w] = "pause"
    /\ \/ (P!NotPaused(w) \/ P!LeavePause(w)) /\ Goto(w, "loop")
       \/ (P!EnterPause(w) \/ P!LockWorkers(w) \/ P!StillPaused(w) \/ P!Sleep(w))
            /\ UNCHANGED pc
    /\ UNCHANGED <<taskVars, poolVars, scan, ranPaused>>

SpuriousWake(w) ==
    /\ P!SpuriousWake(w)
    /\ UNCHANGED <<taskVars, poolVars, pc, scan, ranPaused>>

-----------------------------------------------------------------------------
(* What clients and tasks call.  Clients hold the pool once it is built.   *)

MayRun(t) == pc[t] = "run" /\ (t \in Clients => life = "alive")

Submit(t) ==
    /\ MayRun(t) /\ Calls(t, "submit")
    /\ LET u == NextCall(t).task IN
       /\ IF t \in HasLocal
          THEN /\ local' = [local EXCEPT ![t] = PushFront(@, u)]
               /\ UNCHANGED poolWorkQueue
          ELSE /\ poolWorkQueue' = Append(poolWorkQueue, u)
               /\ UNCHANGED local
       /\ future' = [future EXCEPT ![u] = "pending"]
    /\ Advance(t)
    /\ UNCHANGED <<program, done, started, life, pc, scan, pauseVars>>

\* future.get() blocks until the future is ready or its promise broken.
Get(t) ==
    /\ MayRun(t) /\ Calls(t, "get") /\ Settled(NextCall(t).task)
    /\ Advance(t)
    /\ UNCHANGED <<program, future, poolVars, pc, scan, pauseVars>>

\* while (future not ready) pool.runPendingTask();
Help(t) ==
    /\ MayRun(t) /\ Calls(t, "help")
    /\ IF Settled(NextCall(t).task)
       THEN Advance(t) /\ UNCHANGED pc
       ELSE Goto(t, "local") /\ UNCHANGED stack
    /\ UNCHANGED <<program, future, poolVars, scan, pauseVars>>

CallPause(t) ==
    /\ MayRun(t) /\ Calls(t, "pause")
    /\ P!Pause(t)
    /\ ranPaused' = IF pausedQ THEN ranPaused ELSE [w \in Workers |-> 0]
    /\ Advance(t)
    /\ UNCHANGED <<program, future, poolVars, pc, scan>>

CallResume(t) ==
    /\ MayRun(t) /\ Calls(t, "resume")
    /\ \/ P!Resume(t) /\ UNCHANGED stack
       \/ P!NotifyAll(t) /\ Advance(t)
    /\ UNCHANGED <<program, future, poolVars, pc, scan, ranPaused>>

\* A foreign thread that is through with its program goes back to the loop of
\* its own pool and runs what its local queue holds.
ForeignLoop(t) ==
    /\ t \in Foreign /\ pc[t] = "ended" /\ local[t] # <<>>
    /\ Start(t, Head(local[t]))
    /\ Goto(t, "run")
    /\ local' = [local EXCEPT ![t] = Tail(@)]
    /\ UNCHANGED <<program, future, done, poolWorkQueue, started, life, scan, pauseVars>>

-----------------------------------------------------------------------------
OwnerStep == BuildQueues \/ StartThread \/ ConstructorFails \/ Constructed
               \/ SetDone \/ DtorResume \/ DtorNotify \/ Join

ThreadStep(t) ==
    \/ PopLocal(t) \/ PopPool(t) \/ Steal(t) \/ Yield(t) \/ EndTask(t)
    \/ CheckDone(t) \/ CheckPause(t)
    \/ Submit(t) \/ Get(t) \/ Help(t) \/ CallPause(t) \/ CallResume(t)
    \/ ForeignLoop(t)

\* The pool is gone, or its constructor threw.
Finished == life \in {"dead", "threw"} /\ UNCHANGED vars

Next ==
    \/ OwnerStep
    \/ \E t \in Threads : ThreadStep(t) \/ SpuriousWake(t)
    \/ Finished

\* Every thread runs; nobody has to be woken but by a notification.
Spec == Init /\ [][Next]_vars /\ WF_vars(OwnerStep)
          /\ \A t \in Threads : WF_vars(ThreadStep(t))

-----------------------------------------------------------------------------
(* Properties *)

\* How often a task sits in the local queues.
InLocals(u) ==
    Cardinality({f \in UNION {{t} \X DOMAIN local[t] : t \in HasLocal} :
                    local[f[1]][f[2]] = u})

\* A pending task is in one queue or running, once; nothing else is, whatever
\* owner and thieves do to both ends of the queues (ThreadPool.h:177-217).
TaskConserved ==
    \A u \in Tasks :
       InQueue(u, poolWorkQueue) + InLocals(u) + Running(u)
         = IF future[u] = "pending" THEN 1 ELSE 0

\* The pending tasks that a thread of another pool runs or has in its queue.
Away ==
    {u \in Tasks : future[u] = "pending"
                     /\ \E t \in Foreign : Runs(t, u) \/ \E k \in DOMAIN local[t] : local[t][k] = u}

Promised ==
    INSTANCE TaskPool WITH state <- TaskState, away <- Away, open <- life \notin {"dead", "threw"}

\* The pool keeps the promises of TaskPool, for tasks in any of its queues and
\* whoever takes them; what is with other pools' threads outlives it
\* (ThreadPool.h:147-217).
ImplementsTaskPool == Promised!Spec

\* pause() lets each worker's loop begin at most the one task it was about to
\* look for; then the worker waits (ThreadPool.h:198-201, Utilities.h:142-149).
PauseHolds == pausedQ => \A w \in Workers : ranPaused[w] <= 1

Pauses == \E x \in Callables : \E i \in DOMAIN program[x] : program[x][i].call = "pause"

\* In a program that never pauses, every submitted task is run, or its promise
\* is broken with the pool; a client or task that waits for it, or helps until
\* it is ready, goes on.
FutureSettles ==
    \A u \in Tasks : (future[u] = "pending" /\ ~Pauses) ~> Settled(u)

\* The destructor wakes every worker that is asleep when it notifies, and
\* returns, unless a worker is then between its test of pausedQ and its sleep;
\* a constructor that throws joins the workers it started.
DestructorReturns ==
    /\ (life = "notify" /\ \A w \in Workers : pausePc[w] # "sleep") ~> life = "dead"
    /\ life = "unwind" ~> life = "threw"

\* ~GenericThreadPool "notifies all paused threads" and "worker threads are
\* joined" (ThreadPool.h:147-148): the destructor returns, paused or not.
WorkersJoined == life = "stop" ~> life = "dead"
=============================================================================
