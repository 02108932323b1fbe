---------------------------- MODULE TaskPrograms ----------------------------
(***************************************************************************)
(* What the two thread pools have in common: client threads and tasks that *)
(* run small programs of pool calls, the std::future of each task, and the *)
(* C++ call stack of each thread, where a task that calls runPendingTask   *)
(* has the task it runs above it.                                          *)
(*                                                                         *)
(* A task is a packaged_task in a FunctionWrapper (Async/Utilities.h): the *)
(* call makes its future ready, whether it returns or throws, and one that *)
(* is destroyed before it was called breaks its promise.                   *)
(***************************************************************************)
EXTENDS Integers, Sequences, FiniteSets

CONSTANTS
    NumThreads,  \* threadCount; the workers are 0 .. NumThreads - 1
    Clients,     \* the threads that use the pool and are not its workers
    Owner,       \* the client that constructs and destroys it
    Tasks,       \* the user's tasks; each is submitted at most once
    EmptyTask,   \* the special task [] {} of ~BasicThreadPool
    Programs     \* the programs to choose from: what each client and task calls

Workers == 0 .. NumThreads - 1
Threads == Workers \cup Clients
Callables == Tasks \cup Clients \cup {EmptyTask}
PoolCalls == {"submit", "get", "help", "pause", "resume"}
Instructions == [call : PoolCalls, task : Tasks \cup {EmptyTask}]

ASSUME TaskAssumption ==
    /\ NumThreads \in Nat
    /\ Owner \in Clients
    /\ Workers \cap Clients = {}
    /\ Tasks \cap (Clients \cup {EmptyTask}) = {} /\ EmptyTask \notin Clients

\* A program submits a task at one place at most, which is passed once: the
\* callable of a std::packaged_task belongs to one submit.
ASSUME ProgramAssumption ==
    \A p \in Programs :
       /\ p \in [Callables -> Seq(Instructions)] /\ p[EmptyTask] = <<>>
       /\ \A c \in Callables : \A i \in DOMAIN p[c] :
             p[c][i].call \in {"submit", "get", "help"} => p[c][i].task \in Tasks
       /\ \A c, d \in Callables : \A i \in DOMAIN p[c], j \in DOMAIN p[d] :
             p[c][i].call = "submit" /\ p[d][j].call = "submit"
               /\ p[c][i].task = p[d][j].task => c = d /\ i = j

VARIABLES
    program,   \* the program this behaviour runs
    stack,     \* [Threads -> Seq of frames], the running one last
    future     \* [Tasks -> the state of its future]

taskVars == <<program, stack, future>>

Frames == [task : Callables, ip : Nat \ {0}]

TasksTypeOK ==
    /\ program \in Programs
    /\ stack \in [Threads -> Seq(Frames)]
    /\ future \in [Tasks -> {"none", "pending", "ready", "broken"}]

TasksInit ==
    /\ program \in Programs
    /\ stack = [t \in Threads |->
                  IF t \in Clients THEN <<[task |-> t, ip |-> 1]>> ELSE <<>>]
    /\ future = [u \in Tasks |-> "none"]

Top(t) == stack[t][Len(stack[t])]
AtEnd(t) == Top(t).ip > Len(program[Top(t).task])
NextCall(t) == program[Top(t).task][Top(t).ip]
Calls(t, c) == stack[t] # <<>> /\ ~AtEnd(t) /\ NextCall(t).call = c

Settled(u) == future[u] \in {"ready", "broken"}

\* The running program goes on to its next call.
Advance(t) == stack' = [stack EXCEPT ![t][Len(stack[t])].ip = @ + 1]

\* task(): the callable starts on top of what the thread was doing.
Start(t, u) == stack' = [stack EXCEPT ![t] = Append(@, [task |-> u, ip |-> 1])]

\* The callable returns; a user task's future becomes ready.
Finish(t) ==
    /\ stack[t] # <<>> /\ AtEnd(t)
    /\ stack' = [stack EXCEPT ![t] = SubSeq(@, 1, Len(@) - 1)]
    /\ future' = IF Top(t).task \in Tasks
                 THEN [future EXCEPT ![Top(t).task] = "ready"] ELSE future

\* The tasks of a sequence are destroyed without being called.
Break(us) ==
    future' = [u \in Tasks |-> IF \E i \in DOMAIN us : us[i] = u
                               THEN "broken" ELSE future[u]]

\* How often a task sits in a queue, or on the stacks of the threads.
InQueue(u, q) == Cardinality({i \in DOMAIN q : q[i] = u})
Running(u) ==
    Cardinality({f \in UNION {{t} \X DOMAIN stack[t] : t \in Threads} :
                    stack[f[1]][f[2]].task = u})

\* What has become of each task (TaskPool): a pending one that is on no stack
\* waits somewhere.
Runs(t, u) == \E k \in DOMAIN stack[t] : stack[t][k].task = u
TaskState ==
    [u \in Tasks |->
       IF future[u] # "pending" THEN future[u]
       ELSE IF \E t \in Threads : Runs(t, u) THEN "running" ELSE "waiting"]
=============================================================================
