----------------------- MODULE BasicThreadPoolProofs -----------------------
(***************************************************************************)
(* Proofs about BasicThreadPool for any number of workers, any clients,    *)
(* tasks and programs: no task is lost, duplicated or run twice, and, if   *)
(* tasks do not run other tasks while they wait, the empty tasks of the    *)
(* destructor suffice for the workers that are blocked; and the pool keeps *)
(* the promises of TaskPool.                                               *)
(***************************************************************************)
EXTENDS BasicThreadPool, FiniteSetTheorems, TLAPS

-----------------------------------------------------------------------------
(* The invariant: what TaskConserved says, without cardinalities.          *)

Queued(u) == \E i \in DOMAIN workQueue : workQueue[i] = u
Holds(t, k, u) == k \in DOMAIN stack[t] /\ stack[t][k].task = u
OnStack(u) == \E t \in Threads, k \in Nat : Holds(t, k, u)

QueuedOnce ==
    \A u \in Tasks : \A i, j \in DOMAIN workQueue :
       workQueue[i] = u /\ workQueue[j] = u => i = j

RunsOnce ==
    \A u \in Tasks : \A s, t \in Threads : \A j, k \in Nat :
       Holds(s, j, u) /\ Holds(t, k, u) => s = t /\ j = k

PendingPlaced ==
    \A u \in Tasks : /\ ~(Queued(u) /\ OnStack(u))
                     /\ future[u] = "pending" <=> Queued(u) \/ OnStack(u)

\* A client's program is at the bottom of its own stack and nowhere else.
ClientsAtBottom ==
    \A t \in Threads : \A k \in DOMAIN stack[t] :
       stack[t][k].task \in Clients => stack[t][k].task = t /\ k = 1

\* What has still to be submitted has not been: the submission of u at place i
\* of c's program lies ahead while c has not started, or not come to i.
Submits(c, i, u) ==
    i \in DOMAIN program[c] /\ program[c][i].call = "submit" /\ program[c][i].task = u
Ahead(c, i) ==
    \/ c \in Tasks /\ (future[c] = "none" \/ Queued(c))
    \/ \E t \in Threads, k \in Nat : Holds(t, k, c) /\ stack[t][k].ip <= i
NotYetSubmitted ==
    \A u \in Tasks, c \in Callables, i \in Nat :
       Submits(c, i, u) /\ Ahead(c, i) => future[u] = "none"

IInv == TypeOK /\ QueuedOnce /\ RunsOnce /\ PendingPlaced /\ ClientsAtBottom /\ NotYetSubmitted

-----------------------------------------------------------------------------
(* The stacks of calls.                                                    *)

LEMMA StackFacts ==
    ASSUME TypeOK, NEW t \in Threads
    PROVE  /\ stack[t] \in Seq(Frames) /\ Len(stack[t]) \in Nat
           /\ DOMAIN stack[t] = 1 .. Len(stack[t])
           /\ \A k \in DOMAIN stack[t] : /\ stack[t][k] \in Frames
                                         /\ stack[t][k].task \in Callables
                                         /\ stack[t][k].ip \in Nat \ {0}
           /\ stack[t] # <<>> => Len(stack[t]) \in DOMAIN stack[t]
<1>1. stack[t] \in Seq(Frames)
  BY DEF TypeOK, TasksTypeOK
<1>2. Len(stack[t]) \in Nat /\ DOMAIN stack[t] = 1 .. Len(stack[t])
  BY <1>1
<1>3. \A k \in DOMAIN stack[t] : stack[t][k] \in Frames
  BY <1>1
<1>4. \A k \in DOMAIN stack[t] : stack[t][k].task \in Callables /\ stack[t][k].ip \in Nat \ {0}
  BY <1>3 DEF Frames
<1>5. stack[t] # <<>> => Len(stack[t]) \in DOMAIN stack[t]
  BY <1>1
<1> QED BY <1>1, <1>2, <1>3, <1>4, <1>5

LEMMA ProgramFacts ==
    ASSUME TypeOK, NEW c \in Callables
    PROVE  /\ program[c] \in Seq(Instructions) /\ DOMAIN program[c] = 1 .. Len(program[c])
           /\ Len(program[c]) \in Nat
           /\ program[EmptyTask] = <<>>
           /\ \A i \in DOMAIN program[c] :
                program[c][i].call = "submit" => program[c][i].task \in Tasks
           /\ \A d \in Callables, i, j \in Nat, u \in Tasks :
                Submits(c, i, u) /\ Submits(d, j, u) => c = d /\ i = j
<1>1. program \in Programs
  BY DEF TypeOK, TasksTypeOK
<1>2. program \in [Callables -> Seq(Instructions)] /\ program[EmptyTask] = <<>>
  BY <1>1, ProgramAssumption
<1>3. program[c] \in Seq(Instructions)
  BY <1>2
<1>4. DOMAIN program[c] = 1 .. Len(program[c]) /\ Len(program[c]) \in Nat
  BY <1>3
<1>5. \A i \in DOMAIN program[c] : program[c][i].call = "submit" => program[c][i].task \in Tasks
  BY <1>1, ProgramAssumption
<1>6. ASSUME NEW d \in Callables, NEW i \in Nat, NEW j \in Nat, NEW u \in Tasks,
             Submits(c, i, u), Submits(d, j, u)
      PROVE  c = d /\ i = j
  BY <1>1, <1>6, ProgramAssumption DEF Submits
<1> QED BY <1>2, <1>3, <1>4, <1>5, <1>6

\* Start puts one frame on top of one stack.
LEMMA StartFacts ==
    ASSUME TypeOK, NEW t \in Threads, NEW u \in Callables, Start(t, u)
    PROVE  /\ stack' \in [Threads -> Seq(Frames)]
           /\ \A s \in Threads, k \in Nat :
                k \in DOMAIN stack'[s] <=> k \in DOMAIN stack[s] \/ (s = t /\ k = Len(stack[t]) + 1)
           /\ \A s \in Threads : \A k \in DOMAIN stack[s] : stack'[s][k] = stack[s][k]
           /\ Len(stack[t]) + 1 \notin DOMAIN stack[t] /\ Len(stack[t]) + 1 \in Nat
           /\ stack'[t][Len(stack[t]) + 1] = [task |-> u, ip |-> 1]
<1> DEFINE f == [task |-> u, ip |-> 1]
<1>0. f \in Frames
  BY DEF Frames
<1>1. /\ stack \in [Threads -> Seq(Frames)]
      /\ stack' = [stack EXCEPT ![t] = Append(@, f)]
  BY DEF TypeOK, TasksTypeOK, Start
<1>2. stack[t] \in Seq(Frames) /\ DOMAIN stack[t] = 1 .. Len(stack[t]) /\ Len(stack[t]) \in Nat
  BY StackFacts
<1> HIDE DEF f
<1>3. /\ Append(stack[t], f) \in Seq(Frames)
      /\ DOMAIN Append(stack[t], f) = 1 .. Len(stack[t]) + 1
      /\ \A k \in 1 .. Len(stack[t]) : Append(stack[t], f)[k] = stack[t][k]
      /\ Append(stack[t], f)[Len(stack[t]) + 1] = f
  BY <1>0, <1>2
<1>4. stack'[t] = Append(stack[t], f) /\ \A s \in Threads : s # t => stack'[s] = stack[s]
  BY <1>1
<1>5. stack' \in [Threads -> Seq(Frames)]
  BY <1>1, <1>3
<1>6. ASSUME NEW s \in Threads, NEW k \in Nat
      PROVE  k \in DOMAIN stack'[s] <=> k \in DOMAIN stack[s] \/ (s = t /\ k = Len(stack[t]) + 1)
  <2>1. CASE s = t BY <2>1, <1>2, <1>3, <1>4
  <2>2. CASE s # t BY <2>2, <1>4
  <2> QED BY <2>1, <2>2
<1>7. ASSUME NEW s \in Threads, NEW k \in DOMAIN stack[s]
      PROVE  stack'[s][k] = stack[s][k]
  <2>1. CASE s = t BY <2>1, <1>2, <1>3, <1>4
  <2>2. CASE s # t BY <2>2, <1>4
  <2> QED BY <2>1, <2>2
<1>8. stack'[t][Len(stack[t]) + 1] = f
  BY <1>3, <1>4
<1> QED BY <1>2, <1>5, <1>6, <1>7, <1>8 DEF f

\* Finish takes the top frame off one stack.
LEMMA FinishFacts ==
    ASSUME TypeOK, NEW t \in Threads, Finish(t)
    PROVE  /\ stack' \in [Threads -> Seq(Frames)]
           /\ Len(stack[t]) \in DOMAIN stack[t]
           /\ \A s \in Threads, k \in Nat :
                k \in DOMAIN stack'[s] <=> k \in DOMAIN stack[s] /\ ~(s = t /\ k = Len(stack[t]))
           /\ \A s \in Threads : \A k \in DOMAIN stack'[s] : stack'[s][k] = stack[s][k]
<1>1. /\ stack \in [Threads -> Seq(Frames)] /\ stack[t] # <<>>
      /\ stack' = [stack EXCEPT ![t] = SubSeq(@, 1, Len(@) - 1)]
  BY DEF TypeOK, TasksTypeOK, Finish
<1>2. /\ stack[t] \in Seq(Frames) /\ DOMAIN stack[t] = 1 .. Len(stack[t]) /\ Len(stack[t]) \in Nat
      /\ Len(stack[t]) \in DOMAIN stack[t]
  BY <1>1, StackFacts
<1>3. /\ SubSeq(stack[t], 1, Len(stack[t]) - 1) \in Seq(Frames)
      /\ DOMAIN SubSeq(stack[t], 1, Len(stack[t]) - 1) = 1 .. Len(stack[t]) - 1
      /\ \A k \in 1 .. Len(stack[t]) - 1 : SubSeq(stack[t], 1, Len(stack[t]) - 1)[k] = stack[t][k]
  BY <1>2
<1>4. /\ stack'[t] = SubSeq(stack[t], 1, Len(stack[t]) - 1)
      /\ \A s \in Threads : s # t => stack'[s] = stack[s]
  BY <1>1
<1>5. stack' \in [Threads -> Seq(Frames)]
  BY <1>1, <1>3
<1>6. ASSUME NEW s \in Threads, NEW k \in Nat
      PROVE  k \in DOMAIN stack'[s] <=> k \in DOMAIN stack[s] /\ ~(s = t /\ k = Len(stack[t]))
  <2>1. CASE s = t BY <2>1, <1>2, <1>3, <1>4
  <2>2. CASE s # t BY <2>2, <1>4
  <2> QED BY <2>1, <2>2
<1>7. ASSUME NEW s \in Threads, NEW k \in DOMAIN stack'[s]
      PROVE  stack'[s][k] = stack[s][k]
  <2>1. CASE s = t BY <2>1, <1>2, <1>3, <1>4
  <2>2. CASE s # t BY <2>2, <1>4
  <2> QED BY <2>1, <2>2
<1> QED BY <1>2, <1>5, <1>6, <1>7

\* Advance moves the top frame of one stack to its next instruction.
LEMMA AdvanceFacts ==
    ASSUME TypeOK, NEW t \in Threads, stack[t] # <<>>, Advance(t)
    PROVE  /\ stack' \in [Threads -> Seq(Frames)]
           /\ \A s \in Threads : DOMAIN stack'[s] = DOMAIN stack[s]
           /\ \A s \in Threads : \A k \in DOMAIN stack[s] :
                /\ stack'[s][k].task = stack[s][k].task
                /\ stack'[s][k].ip >= stack[s][k].ip
           /\ stack'[t][Len(stack[t])].ip = Top(t).ip + 1
<1>1. stack \in [Threads -> Seq(Frames)]
  BY DEF TypeOK, TasksTypeOK
<1>2. /\ stack[t] \in Seq(Frames) /\ DOMAIN stack[t] = 1 .. Len(stack[t]) /\ Len(stack[t]) \in Nat
      /\ Len(stack[t]) \in DOMAIN stack[t]
      /\ \A k \in DOMAIN stack[t] : stack[t][k] \in Frames
  BY StackFacts
<1> DEFINE n == Len(stack[t])
           f == [Top(t) EXCEPT !.ip = @ + 1]
<1>3. stack[t][n] \in Frames /\ Top(t) = stack[t][n]
  BY <1>2 DEF Top
<1>4. f \in Frames /\ f.task = Top(t).task /\ f.ip = Top(t).ip + 1 /\ Top(t).ip \in Nat
  BY <1>3 DEF Frames
<1>5. stack' = [stack EXCEPT ![t] = [stack[t] EXCEPT ![n] = f]]
  BY DEF Advance, Top
<1> HIDE DEF f
<1>6. /\ [stack[t] EXCEPT ![n] = f] \in Seq(Frames)
      /\ DOMAIN [stack[t] EXCEPT ![n] = f] = DOMAIN stack[t]
      /\ \A k \in DOMAIN stack[t] : [stack[t] EXCEPT ![n] = f][k] = IF k = n THEN f ELSE stack[t][k]
  BY <1>2, <1>4
<1>7. stack' \in [Threads -> Seq(Frames)]
  BY <1>1, <1>5, <1>6
<1>8. /\ stack'[t] = [stack[t] EXCEPT ![n] = f]
      /\ \A s \in Threads : s # t => stack'[s] = stack[s]
  BY <1>1, <1>5
<1>9. \A s \in Threads : DOMAIN stack'[s] = DOMAIN stack[s]
  BY <1>6, <1>8
<1>10. ASSUME NEW s \in Threads, NEW k \in DOMAIN stack[s]
       PROVE  stack'[s][k].task = stack[s][k].task /\ stack'[s][k].ip >= stack[s][k].ip
  <2>1. stack[s][k].ip \in Nat
    BY StackFacts
  <2>2. CASE s = t /\ k = n
    <3>1. stack'[s][k] = f BY <2>2, <1>2, <1>6, <1>8
    <3>2. stack[s][k] = Top(t) BY <2>2, <1>3
    <3> QED BY <3>1, <3>2, <1>4
  <2>3. CASE ~(s = t /\ k = n)
    <3>1. stack'[s][k] = stack[s][k] BY <2>3, <1>6, <1>8
    <3> QED BY <3>1, <2>1
  <2> QED BY <2>2, <2>3
<1>11. stack'[t][n] = f
  BY <1>2, <1>6, <1>8
<1> QED BY <1>4, <1>7, <1>9, <1>10, <1>11

\* A thread at a call of its program.
LEMMA CallFacts ==
    ASSUME TypeOK, NEW t \in Threads, NEW l, Calls(t, l)
    PROVE  /\ stack[t] # <<>> /\ Len(stack[t]) \in Nat /\ Holds(t, Len(stack[t]), Top(t).task)
           /\ stack[t][Len(stack[t])] = Top(t)
           /\ Top(t).task \in Callables /\ Top(t).task # EmptyTask
           /\ Top(t).ip \in DOMAIN program[Top(t).task] /\ Top(t).ip \in Nat
           /\ NextCall(t) = program[Top(t).task][Top(t).ip] /\ NextCall(t).call = l
           /\ l = "submit" => NextCall(t).task \in Tasks
<1>1. stack[t] # <<>> /\ ~(Top(t).ip > Len(program[Top(t).task])) /\ NextCall(t).call = l
  BY DEF Calls, AtEnd
<1>2. /\ Len(stack[t]) \in DOMAIN stack[t] /\ Len(stack[t]) \in Nat /\ stack[t][Len(stack[t])] = Top(t)
      /\ Top(t).task \in Callables /\ Top(t).ip \in Nat \ {0}
  BY <1>1, StackFacts DEF Top
<1>3. Top(t).ip \in DOMAIN program[Top(t).task]
  BY <1>1, <1>2, ProgramFacts
<1>4. Top(t).task # EmptyTask
  BY <1>2, <1>3, ProgramFacts
<1>5. l = "submit" => NextCall(t).task \in Tasks
  BY <1>1, <1>2, <1>3, ProgramFacts DEF NextCall
<1> QED BY <1>1, <1>2, <1>3, <1>4, <1>5 DEF NextCall, Holds

-----------------------------------------------------------------------------
(* The queue.                                                              *)

LEMMA AppendFacts ==
    ASSUME TypeOK, NEW u \in Tasks \cup {EmptyTask}, workQueue' = Append(workQueue, u)
    PROVE  /\ workQueue' \in Seq(Tasks \cup {EmptyTask})
           /\ Len(workQueue) \in Nat /\ DOMAIN workQueue = 1 .. Len(workQueue)
           /\ DOMAIN workQueue' = 1 .. Len(workQueue) + 1
           /\ Len(workQueue') = Len(workQueue) + 1
           /\ \A i \in DOMAIN workQueue : workQueue'[i] = workQueue[i]
           /\ workQueue'[Len(workQueue) + 1] = u
           /\ \A v : Queued(v)' <=> Queued(v) \/ v = u
<1>1. workQueue \in Seq(Tasks \cup {EmptyTask})
  BY DEF TypeOK
<1>2. /\ workQueue' \in Seq(Tasks \cup {EmptyTask})
      /\ Len(workQueue) \in Nat /\ DOMAIN workQueue = 1 .. Len(workQueue)
      /\ DOMAIN workQueue' = 1 .. Len(workQueue) + 1
      /\ Len(workQueue') = Len(workQueue) + 1
      /\ \A i \in DOMAIN workQueue : workQueue'[i] = workQueue[i]
      /\ workQueue'[Len(workQueue) + 1] = u
  BY <1>1
<1>3. ASSUME NEW v, Queued(v)' PROVE Queued(v) \/ v = u
  BY <1>2, <1>3 DEF Queued
<1>4. ASSUME NEW v, Queued(v) \/ v = u PROVE Queued(v)'
  <2>1. CASE Queued(v) BY <2>1, <1>2 DEF Queued
  <2>2. CASE v = u BY <2>2, <1>2 DEF Queued
  <2> QED BY <1>4, <2>1, <2>2
<1> QED BY <1>2, <1>3, <1>4

LEMMA TailFacts ==
    ASSUME TypeOK, workQueue # <<>>, workQueue' = Tail(workQueue)
    PROVE  /\ workQueue' \in Seq(Tasks \cup {EmptyTask})
           /\ Head(workQueue) \in Tasks \cup {EmptyTask}
           /\ Len(workQueue) \in Nat /\ Len(workQueue') = Len(workQueue) - 1
           /\ 1 \in DOMAIN workQueue /\ workQueue[1] = Head(workQueue)
           /\ \A i \in DOMAIN workQueue' : /\ i \in Nat \ {0} /\ i + 1 \in DOMAIN workQueue
                                           /\ workQueue'[i] = workQueue[i + 1]
           /\ \A i \in DOMAIN workQueue : i # 1 =>
                 i - 1 \in DOMAIN workQueue' /\ workQueue'[i - 1] = workQueue[i]
<1>1. workQueue \in Seq(Tasks \cup {EmptyTask})
  BY DEF TypeOK
<1>2. /\ workQueue' \in Seq(Tasks \cup {EmptyTask})
      /\ Len(workQueue) \in Nat \ {0} /\ DOMAIN workQueue = 1 .. Len(workQueue)
      /\ Len(workQueue') = Len(workQueue) - 1 /\ DOMAIN workQueue' = 1 .. Len(workQueue) - 1
      /\ \A i \in 1 .. Len(workQueue) - 1 : workQueue'[i] = workQueue[i + 1]
      /\ Head(workQueue) = workQueue[1]
  BY <1>1
<1>3. Head(workQueue) \in Tasks \cup {EmptyTask}
  BY <1>1, <1>2
<1>4. ASSUME NEW i \in DOMAIN workQueue'
      PROVE  i \in Nat \ {0} /\ i + 1 \in DOMAIN workQueue /\ workQueue'[i] = workQueue[i + 1]
  BY <1>2
<1>5. ASSUME NEW i \in DOMAIN workQueue, i # 1
      PROVE  i - 1 \in DOMAIN workQueue' /\ workQueue'[i - 1] = workQueue[i]
  <2>1. i - 1 \in 1 .. Len(workQueue) - 1 /\ (i - 1) + 1 = i
    BY <1>2, <1>5
  <2> QED BY <2>1, <1>2
<1> QED BY <1>2, <1>3, <1>4, <1>5

LEMMA TailQueued ==
    ASSUME TypeOK, workQueue # <<>>, workQueue' = Tail(workQueue)
    PROVE  /\ \A v : Queued(v)' => Queued(v)
           /\ \A v : Queued(v) /\ v # Head(workQueue) => Queued(v)'
           /\ QueuedOnce => QueuedOnce' /\ \A v \in Tasks : v = Head(workQueue) => ~Queued(v)'
           /\ Queued(Head(workQueue))
<1>1. ASSUME NEW v, Queued(v)' PROVE Queued(v)
  BY <1>1, TailFacts DEF Queued
<1>2. ASSUME NEW v, Queued(v), v # Head(workQueue) PROVE Queued(v)'
  <2>1. PICK i \in DOMAIN workQueue : workQueue[i] = v
    BY <1>2 DEF Queued
  <2>2. i # 1
    BY <1>2, <2>1, TailFacts
  <2> QED BY <2>1, <2>2, TailFacts DEF Queued
<1>3. ASSUME QueuedOnce, NEW u \in Tasks, NEW i \in DOMAIN workQueue', NEW j \in DOMAIN workQueue',
             workQueue'[i] = u, workQueue'[j] = u
      PROVE  i = j
  <2>1. /\ i \in Nat /\ j \in Nat /\ i + 1 \in DOMAIN workQueue /\ j + 1 \in DOMAIN workQueue
        /\ workQueue[i + 1] = u /\ workQueue[j + 1] = u
    BY <1>3, TailFacts
  <2>2. i + 1 = j + 1
    BY <1>3, <2>1 DEF QueuedOnce
  <2> QED BY <2>1, <2>2
<1>4. ASSUME QueuedOnce, NEW v \in Tasks, v = Head(workQueue), Queued(v)' PROVE FALSE
  <2>1. PICK i \in DOMAIN workQueue' : workQueue'[i] = v
    BY <1>4 DEF Queued
  <2>2. i \in Nat \ {0} /\ i + 1 \in DOMAIN workQueue /\ workQueue[i + 1] = v
    BY <2>1, TailFacts
  <2>3. 1 \in DOMAIN workQueue /\ workQueue[1] = v
    BY <1>4, TailFacts
  <2>4. i + 1 = 1
    BY <1>4, <2>2, <2>3 DEF QueuedOnce
  <2> QED BY <2>2, <2>4
<1> QED BY <1>1, <1>2, <1>3, <1>4, TailFacts DEF QueuedOnce, Queued

-----------------------------------------------------------------------------
(* The steps of the tasks.                                                 *)

LEMMA RunPendingTaskStep ==
    ASSUME IInv, NEW t \in Threads, RunPendingTask(t)
    PROVE  IInv' /\ (\A v : OnStack(v)' <=> OnStack(v) \/ v = Head(workQueue))
<1> DEFINE u == Head(workQueue)
           n == Len(stack[t])
<1>1. /\ TypeOK /\ QueuedOnce /\ RunsOnce /\ PendingPlaced /\ ClientsAtBottom /\ NotYetSubmitted
      /\ workQueue # <<>> /\ workQueue' = Tail(workQueue) /\ Start(t, u)
      /\ pc[t] = "pop" /\ pc' = [pc EXCEPT ![t] = "run"]
      /\ UNCHANGED <<program, future, done, started, pushed, life>>
  BY DEF IInv, RunPendingTask, Goto
<1>2. u \in Tasks \cup {EmptyTask} /\ u \in Callables /\ u \notin Clients
  BY <1>1, TailFacts, TaskAssumption DEF Callables
<1>3. /\ stack' \in [Threads -> Seq(Frames)]
      /\ \A s \in Threads, k \in Nat :
           k \in DOMAIN stack'[s] <=> k \in DOMAIN stack[s] \/ (s = t /\ k = n + 1)
      /\ \A s \in Threads : \A k \in DOMAIN stack[s] : stack'[s][k] = stack[s][k]
      /\ n + 1 \notin DOMAIN stack[t] /\ n + 1 \in Nat
      /\ stack'[t][n + 1] = [task |-> u, ip |-> 1]
  BY <1>1, <1>2, StartFacts
<1>4. /\ \A v : Queued(v)' => Queued(v)
      /\ \A v : Queued(v) /\ v # u => Queued(v)'
      /\ QueuedOnce' /\ \A v \in Tasks : v = u => ~Queued(v)'
      /\ Queued(u)
  BY <1>1, TailQueued
<1> HIDE DEF u, n
<1>5. \A s \in Threads, k \in Nat : \A v :
         Holds(s, k, v)' <=> Holds(s, k, v) \/ (s = t /\ k = n + 1 /\ v = u)
  BY <1>3 DEF Holds
<1>6. TypeOK'
  <2>1. workQueue' \in Seq(Tasks \cup {EmptyTask})
    BY <1>1, TailFacts
  <2> QED BY <1>1, <1>3, <2>1 DEF TypeOK, TasksTypeOK
<1>7. \A v : OnStack(v)' <=> OnStack(v) \/ v = u
  BY <1>3, <1>5 DEF OnStack
<1>8. u \in Tasks => ~OnStack(u)
  BY <1>1, <1>4 DEF PendingPlaced
<1>9. RunsOnce'
  <2> SUFFICES ASSUME NEW v \in Tasks, NEW s \in Threads, NEW r \in Threads, NEW j \in Nat, NEW k \in Nat,
                      Holds(s, j, v)', Holds(r, k, v)'
               PROVE  s = r /\ j = k
    BY DEF RunsOnce
  <2>1. CASE v = u
    BY <2>1, <1>5, <1>8 DEF OnStack
  <2>2. CASE v # u
    BY <2>2, <1>1, <1>5 DEF RunsOnce
  <2> QED BY <2>1, <2>2
<1>10. PendingPlaced'
  <2> SUFFICES ASSUME NEW v \in Tasks
               PROVE  /\ ~(Queued(v)' /\ OnStack(v)')
                      /\ (future[v] = "pending" <=> Queued(v)' \/ OnStack(v)')
    BY <1>1 DEF PendingPlaced
  <2>1. /\ ~(Queued(v) /\ OnStack(v))
        /\ (future[v] = "pending" <=> Queued(v) \/ OnStack(v))
    BY <1>1 DEF PendingPlaced
  <2> QED BY <2>1, <1>4, <1>7
<1>11. ClientsAtBottom'
  <2> SUFFICES ASSUME NEW s \in Threads, NEW k \in DOMAIN stack'[s], stack'[s][k].task \in Clients
               PROVE  stack'[s][k].task = s /\ k = 1
    BY DEF ClientsAtBottom
  <2>1. k \in Nat
    BY <1>3
  <2>2. k \in DOMAIN stack[s]
    BY <2>1, <1>2, <1>3
  <2> QED BY <2>2, <1>1, <1>3 DEF ClientsAtBottom
<1>12. NotYetSubmitted'
  <2> SUFFICES ASSUME NEW v \in Tasks, NEW c \in Callables, NEW i \in Nat,
                      Submits(c, i, v)', Ahead(c, i)'
               PROVE  future[v] = "none"
    BY <1>1 DEF NotYetSubmitted
  <2>1. Submits(c, i, v)
    BY <1>1 DEF Submits
  <2>2. CASE c \in Tasks /\ (future[c] = "none" \/ Queued(c)')
    BY <2>1, <2>2, <1>1, <1>4 DEF NotYetSubmitted, Ahead
  <2>3. ASSUME NEW s \in Threads, NEW k \in Nat, Holds(s, k, c)', stack'[s][k].ip <= i
        PROVE  future[v] = "none"
    <3>1. CASE Holds(s, k, c)
      <4>1. stack[s][k].ip <= i
        BY <3>1, <2>3, <1>3 DEF Holds
      <4> QED BY <3>1, <4>1, <2>1, <1>1 DEF NotYetSubmitted, Ahead
    <3>2. CASE c = u
      <4>1. CASE u = EmptyTask
        BY <3>2, <4>1, <2>1, <1>1, ProgramFacts DEF Submits
      <4>2. CASE u \in Tasks
        BY <3>2, <4>2, <2>1, <1>1, <1>4 DEF NotYetSubmitted, Ahead
      <4> QED BY <1>2, <4>1, <4>2
    <3> QED BY <2>3, <3>1, <3>2, <1>5
  <2> QED BY <2>2, <2>3, <1>1 DEF Ahead
<1> QED BY <1>4, <1>6, <1>7, <1>9, <1>10, <1>11, <1>12 DEF IInv, u

LEMMA SubmitStep ==
    ASSUME IInv, NEW t \in Threads, Submit(t)
    PROVE  /\ IInv' /\ \A v : OnStack(v)' <=> OnStack(v)
           /\ NextCall(t).task \in Tasks /\ future[NextCall(t).task] = "none"
<1> DEFINE u == NextCall(t).task
           n == Len(stack[t])
           c == Top(t).task
           i == Top(t).ip
<1>1. /\ TypeOK /\ QueuedOnce /\ RunsOnce /\ PendingPlaced /\ ClientsAtBottom /\ NotYetSubmitted
      /\ Calls(t, "submit") /\ Advance(t)
      /\ workQueue' = Append(workQueue, u) /\ future' = [future EXCEPT ![u] = "pending"]
      /\ UNCHANGED <<program, done, started, pushed, life, pc>>
  BY DEF IInv, Submit
<1>2. /\ stack[t] # <<>> /\ n \in Nat /\ Holds(t, n, c) /\ c \in Callables /\ c # EmptyTask
      /\ i \in DOMAIN program[c] /\ i \in Nat /\ stack[t][n].ip = i
      /\ NextCall(t) = program[c][i] /\ NextCall(t).call = "submit" /\ u \in Tasks
  BY <1>1, CallFacts
<1>3. Submits(c, i, u)
  BY <1>2 DEF Submits
<1>4. /\ stack' \in [Threads -> Seq(Frames)]
      /\ \A s \in Threads : DOMAIN stack'[s] = DOMAIN stack[s]
      /\ \A s \in Threads : \A k \in DOMAIN stack[s] :
           stack'[s][k].task = stack[s][k].task /\ stack'[s][k].ip >= stack[s][k].ip
      /\ stack'[t][n].ip = i + 1
  BY <1>1, <1>2, AdvanceFacts
<1>5. /\ workQueue' \in Seq(Tasks \cup {EmptyTask})
      /\ Len(workQueue) \in Nat /\ DOMAIN workQueue = 1 .. Len(workQueue)
      /\ DOMAIN workQueue' = 1 .. Len(workQueue) + 1
      /\ \A j \in DOMAIN workQueue : workQueue'[j] = workQueue[j]
      /\ workQueue'[Len(workQueue) + 1] = u
      /\ \A v : Queued(v)' <=> Queued(v) \/ v = u
  BY <1>1, <1>2, AppendFacts
<1> HIDE DEF u, n, c, i
<1>6. \A s \in Threads, k \in Nat : \A v : Holds(s, k, v)' <=> Holds(s, k, v)
  BY <1>4 DEF Holds
<1>7. \A v : OnStack(v)' <=> OnStack(v)
  BY <1>6 DEF OnStack
<1>8. future \in [Tasks -> {"none", "pending", "ready", "broken"}]
  BY <1>1 DEF TypeOK, TasksTypeOK
<1>9. future[u] = "none"
  <2>1. Ahead(c, i)
    BY <1>2 DEF Ahead
  <2> QED BY <2>1, <1>1, <1>2, <1>3 DEF NotYetSubmitted
<1>10. ~Queued(u) /\ ~OnStack(u)
  BY <1>1, <1>2, <1>9 DEF PendingPlaced
<1>11. TypeOK'
  BY <1>1, <1>2, <1>4, <1>5, <1>8 DEF TypeOK, TasksTypeOK
<1>12. QueuedOnce'
  <2> SUFFICES ASSUME NEW v \in Tasks, NEW j \in DOMAIN workQueue', NEW k \in DOMAIN workQueue',
                      workQueue'[j] = v, workQueue'[k] = v
               PROVE  j = k
    BY DEF QueuedOnce
  <2>1. CASE v = u
    <3>1. \A m \in DOMAIN workQueue : workQueue[m] # u
      BY <1>10 DEF Queued
    <3> QED BY <2>1, <3>1, <1>5
  <2>2. CASE v # u
    BY <2>2, <1>1, <1>5 DEF QueuedOnce
  <2> QED BY <2>1, <2>2
<1>13. RunsOnce'
  BY <1>1, <1>6 DEF RunsOnce
<1>14. PendingPlaced'
  <2> SUFFICES ASSUME NEW v \in Tasks
               PROVE  /\ ~(Queued(v)' /\ OnStack(v)')
                      /\ (future'[v] = "pending" <=> Queued(v)' \/ OnStack(v)')
    BY DEF PendingPlaced
  <2>1. /\ ~(Queued(v) /\ OnStack(v))
        /\ (future[v] = "pending" <=> Queued(v) \/ OnStack(v))
    BY <1>1 DEF PendingPlaced
  <2>2. CASE v = u
    BY <2>2, <1>1, <1>2, <1>5, <1>7, <1>8, <1>10
  <2>3. CASE v # u
    <3>1. future'[v] = future[v]
      BY <2>3, <1>1, <1>8
    <3> QED BY <2>1, <2>3, <3>1, <1>5, <1>7
  <2> QED BY <2>2, <2>3
<1>15. ClientsAtBottom'
  <2> SUFFICES ASSUME NEW s \in Threads, NEW k \in DOMAIN stack'[s], stack'[s][k].task \in Clients
               PROVE  stack'[s][k].task = s /\ k = 1
    BY DEF ClientsAtBottom
  <2>1. k \in DOMAIN stack[s] /\ stack'[s][k].task = stack[s][k].task
    BY <1>4
  <2> QED BY <2>1, <1>1 DEF ClientsAtBottom
<1>16. NotYetSubmitted'
  <2> SUFFICES ASSUME NEW v \in Tasks, NEW d \in Callables, NEW j \in Nat,
                      Submits(d, j, v)', Ahead(d, j)'
               PROVE  future'[v] = "none"
    BY DEF NotYetSubmitted
  <2>1. Submits(d, j, v)
    BY <1>1 DEF Submits
  <2>2. CASE v = u
    <3>1. d = c /\ j = i
      BY <2>1, <2>2, <1>1, <1>2, <1>3, ProgramFacts
    <3>2. ASSUME d \in Tasks, future'[d] = "none" \/ Queued(d)' PROVE FALSE
      <4>1. OnStack(d)
        BY <3>1, <1>2 DEF OnStack
      <4>2. future[d] = "pending" /\ ~Queued(d) /\ d # u
        BY <3>2, <4>1, <1>1, <1>10 DEF PendingPlaced
      <4> QED BY <3>2, <4>2, <1>1, <1>5, <1>8
    <3>3. ASSUME NEW s \in Threads, NEW k \in Nat, Holds(s, k, d)', stack'[s][k].ip <= j PROVE FALSE
      <4>1. Holds(s, k, c)
        BY <3>1, <3>3, <1>6
      <4>2. CASE c \in Tasks
        <5>1. s = t /\ k = n
          BY <4>1, <4>2, <1>1, <1>2 DEF RunsOnce
        <5> QED BY <3>1, <5>1, <3>3, <1>2, <1>4
      <4>3. CASE c \in Clients
        <5>1. s = t /\ k = n
          BY <4>1, <4>3, <1>1, <1>2 DEF ClientsAtBottom, Holds
        <5> QED BY <3>1, <5>1, <3>3, <1>2, <1>4
      <4> QED BY <4>2, <4>3, <1>2 DEF Callables
    <3> QED BY <2>2, <3>1, <3>2, <3>3 DEF Ahead
  <2>3. CASE v # u
    <3>1. future'[v] = future[v]
      BY <2>3, <1>1, <1>8
    <3>2. CASE d \in Tasks /\ (future'[d] = "none" \/ Queued(d)')
      <4>1. future[d] = "none" \/ Queued(d)
        BY <3>2, <1>1, <1>2, <1>5, <1>8, <1>9
      <4>2. Ahead(d, j)
        BY <3>2, <4>1 DEF Ahead
      <4> QED BY <3>1, <4>2, <2>1, <1>1 DEF NotYetSubmitted
    <3>3. ASSUME NEW s \in Threads, NEW k \in Nat, Holds(s, k, d)', stack'[s][k].ip <= j
          PROVE  future'[v] = "none"
      <4>1. Holds(s, k, d)
        BY <3>3, <1>6
      <4>2. stack[s][k].ip <= j
        <5>1. k \in DOMAIN stack[s]
          BY <4>1 DEF Holds
        <5>2. stack[s][k].ip \in Nat
          BY <5>1, <1>1, StackFacts
        <5>3. stack'[s][k].ip \in Nat
          <6>1. stack'[s] \in Seq(Frames) /\ k \in DOMAIN stack'[s]
            BY <5>1, <1>4
          <6>2. stack'[s][k] \in Frames
            BY <6>1
          <6> QED BY <6>2 DEF Frames
        <5> QED BY <5>1, <5>2, <5>3, <3>3, <1>4
      <4> QED BY <3>1, <4>1, <4>2, <2>1, <1>1 DEF NotYetSubmitted, Ahead
    <3> QED BY <3>2, <3>3, <2>3 DEF Ahead
  <2> QED BY <2>2, <2>3
<1> QED BY <1>2, <1>7, <1>9, <1>11, <1>12, <1>13, <1>14, <1>15, <1>16 DEF IInv, u

LEMMA EndTaskStep ==
    ASSUME IInv, NEW t \in Threads, EndTask(t)
    PROVE  /\ IInv' /\ \A v \in Tasks : OnStack(v)' <=> OnStack(v) /\ v # Top(t).task
           /\ Top(t).task \in Tasks => future[Top(t).task] = "pending" /\ OnStack(Top(t).task)
<1> DEFINE n == Len(stack[t])
           u == Top(t).task
<1>1. /\ TypeOK /\ QueuedOnce /\ RunsOnce /\ PendingPlaced /\ ClientsAtBottom /\ NotYetSubmitted
      /\ Finish(t)
      /\ pc' = [pc EXCEPT ![t] = IF Len(stack[t]) > 1 THEN "run"
                                 ELSE IF t \in Workers THEN "loop" ELSE "ended"]
      /\ UNCHANGED <<program, done, workQueue, started, pushed, life>>
  BY DEF IInv, EndTask, Goto
<1>2. /\ stack' \in [Threads -> Seq(Frames)]
      /\ n \in DOMAIN stack[t] /\ n \in Nat
      /\ \A s \in Threads, k \in Nat :
           k \in DOMAIN stack'[s] <=> k \in DOMAIN stack[s] /\ ~(s = t /\ k = n)
      /\ \A s \in Threads : \A k \in DOMAIN stack'[s] : stack'[s][k] = stack[s][k]
  BY <1>1, FinishFacts, StackFacts
<1>3. Holds(t, n, u) /\ u \in Callables
  BY <1>1, <1>2, StackFacts DEF Holds, Top
<1>4. /\ future \in [Tasks -> {"none", "pending", "ready", "broken"}]
      /\ future' = IF u \in Tasks THEN [future EXCEPT ![u] = "ready"] ELSE future
  BY <1>1 DEF TypeOK, TasksTypeOK, Finish
<1> HIDE DEF n, u
<1>5. \A s \in Threads, k \in Nat : \A v : Holds(s, k, v)' <=> Holds(s, k, v) /\ ~(s = t /\ k = n)
  BY <1>2 DEF Holds
<1>6. \A v : OnStack(v)' => OnStack(v)
  BY <1>5 DEF OnStack
<1>7. \A v \in Tasks : OnStack(v)' <=> OnStack(v) /\ v # u
  <2> SUFFICES ASSUME NEW v \in Tasks PROVE OnStack(v)' <=> OnStack(v) /\ v # u
    OBVIOUS
  <2>1. CASE v = u
    BY <2>1, <1>1, <1>2, <1>3, <1>5 DEF OnStack, RunsOnce
  <2>2. CASE v # u
    <3>1. \A s \in Threads, k \in Nat : Holds(s, k, v) => ~(s = t /\ k = n)
      BY <2>2, <1>3 DEF Holds
    <3> QED BY <2>2, <3>1, <1>5 DEF OnStack
  <2> QED BY <2>1, <2>2
<1>8. u \in Tasks => future[u] = "pending" /\ ~Queued(u)
  BY <1>1, <1>2, <1>3 DEF PendingPlaced, OnStack
<1>9. \A v \in Tasks : (future'[v] = "none" <=> future[v] = "none")
  BY <1>4, <1>8
<1>10. \A v : Queued(v)' <=> Queued(v)
  BY <1>1 DEF Queued
<1>11. TypeOK'
  BY <1>1, <1>2, <1>4 DEF TypeOK, TasksTypeOK
<1>12. QueuedOnce'
  BY <1>1 DEF QueuedOnce
<1>13. RunsOnce'
  BY <1>1, <1>5 DEF RunsOnce
<1>14. PendingPlaced'
  <2> SUFFICES ASSUME NEW v \in Tasks
               PROVE  /\ ~(Queued(v)' /\ OnStack(v)')
                      /\ (future'[v] = "pending" <=> Queued(v)' \/ OnStack(v)')
    BY DEF PendingPlaced
  <2>1. /\ ~(Queued(v) /\ OnStack(v))
        /\ (future[v] = "pending" <=> Queued(v) \/ OnStack(v))
    BY <1>1 DEF PendingPlaced
  <2>2. CASE v = u
    <3>1. future'[v] = "ready" /\ ~Queued(v)
      BY <2>2, <1>4, <1>8
    <3> QED BY <2>2, <3>1, <1>7, <1>10
  <2>3. CASE v # u
    <3>1. future'[v] = future[v]
      BY <2>3, <1>4
    <3> QED BY <2>1, <2>3, <3>1, <1>7, <1>10
  <2> QED BY <2>2, <2>3
<1>15. ClientsAtBottom'
  <2> SUFFICES ASSUME NEW s \in Threads, NEW k \in DOMAIN stack'[s], stack'[s][k].task \in Clients
               PROVE  stack'[s][k].task = s /\ k = 1
    BY DEF ClientsAtBottom
  <2>1. k \in Nat
    BY <1>2
  <2> QED BY <2>1, <1>1, <1>2 DEF ClientsAtBottom
<1>16. NotYetSubmitted'
  <2> SUFFICES ASSUME NEW v \in Tasks, NEW c \in Callables, NEW i \in Nat,
                      Submits(c, i, v)', Ahead(c, i)'
               PROVE  future[v] = "none"
    BY <1>9 DEF NotYetSubmitted
  <2>1. Submits(c, i, v)
    BY <1>1 DEF Submits
  <2>2. CASE c \in Tasks /\ (future'[c] = "none" \/ Queued(c)')
    BY <2>1, <2>2, <1>1, <1>9, <1>10 DEF NotYetSubmitted, Ahead
  <2>3. ASSUME NEW s \in Threads, NEW k \in Nat, Holds(s, k, c)', stack'[s][k].ip <= i
        PROVE  future[v] = "none"
    <3>1. Holds(s, k, c) /\ stack[s][k].ip <= i
      BY <2>3, <1>2, <1>5 DEF Holds
    <3> QED BY <3>1, <2>1, <1>1 DEF NotYetSubmitted, Ahead
  <2> QED BY <2>2, <2>3 DEF Ahead
<1>17. OnStack(u)
  BY <1>2, <1>3 DEF OnStack
<1> QED BY <1>7, <1>8, <1>11, <1>12, <1>13, <1>14, <1>15, <1>16, <1>17 DEF IInv, u

\* A call that only goes on, and one that changes neither stacks, queue nor
\* futures.
LEMMA AdvanceStep ==
    ASSUME IInv, NEW t \in Threads, stack[t] # <<>>, Advance(t),
           UNCHANGED <<program, future, done, workQueue, started, pushed, life, pc>>
    PROVE  IInv' /\ \A v : OnStack(v)' <=> OnStack(v)
<1>1. TypeOK /\ QueuedOnce /\ RunsOnce /\ PendingPlaced /\ ClientsAtBottom /\ NotYetSubmitted
  BY DEF IInv
<1>2. /\ stack' \in [Threads -> Seq(Frames)]
      /\ \A s \in Threads : DOMAIN stack'[s] = DOMAIN stack[s]
      /\ \A s \in Threads : \A k \in DOMAIN stack[s] :
           stack'[s][k].task = stack[s][k].task /\ stack'[s][k].ip >= stack[s][k].ip
  BY <1>1, AdvanceFacts
<1>3. \A s \in Threads, k \in Nat : \A v : Holds(s, k, v)' <=> Holds(s, k, v)
  BY <1>2 DEF Holds
<1>4. /\ \A v : OnStack(v)' <=> OnStack(v)
      /\ \A v : Queued(v)' <=> Queued(v)
  BY <1>3 DEF OnStack, Queued
<1>5. TypeOK'
  BY <1>1, <1>2 DEF TypeOK, TasksTypeOK
<1>6. QueuedOnce' /\ RunsOnce' /\ PendingPlaced'
  BY <1>1, <1>3, <1>4 DEF QueuedOnce, RunsOnce, PendingPlaced
<1>7. ClientsAtBottom'
  <2> SUFFICES ASSUME NEW s \in Threads, NEW k \in DOMAIN stack'[s], stack'[s][k].task \in Clients
               PROVE  stack'[s][k].task = s /\ k = 1
    BY DEF ClientsAtBottom
  <2>1. k \in DOMAIN stack[s] /\ stack'[s][k].task = stack[s][k].task
    BY <1>2
  <2> QED BY <2>1, <1>1 DEF ClientsAtBottom
<1>8. NotYetSubmitted'
  <2> SUFFICES ASSUME NEW v \in Tasks, NEW c \in Callables, NEW i \in Nat,
                      Submits(c, i, v)', Ahead(c, i)'
               PROVE  future[v] = "none"
    BY DEF NotYetSubmitted
  <2>1. Submits(c, i, v)
    BY DEF Submits
  <2>2. CASE c \in Tasks /\ (future'[c] = "none" \/ Queued(c)')
    BY <2>1, <2>2, <1>1, <1>4 DEF NotYetSubmitted, Ahead
  <2>3. ASSUME NEW s \in Threads, NEW k \in Nat, Holds(s, k, c)', stack'[s][k].ip <= i
        PROVE  future[v] = "none"
    <3>1. Holds(s, k, c) /\ k \in DOMAIN stack[s]
      BY <2>3, <1>3 DEF Holds
    <3>2. stack[s][k].ip \in Nat
      BY <3>1, <1>1, StackFacts
    <3>3. stack'[s] \in Seq(Frames) /\ k \in DOMAIN stack'[s]
      BY <3>1, <1>2
    <3>4. stack'[s][k] \in Frames
      BY <3>3
    <3>5. stack'[s][k].ip \in Nat
      BY <3>4 DEF Frames
    <3>6. stack[s][k].ip <= i
      BY <2>3, <3>1, <3>2, <3>5, <1>2
    <3> QED BY <3>1, <3>6, <2>1, <1>1 DEF NotYetSubmitted, Ahead
  <2> QED BY <2>2, <2>3 DEF Ahead
<1> QED BY <1>4, <1>5, <1>6, <1>7, <1>8 DEF IInv

LEMMA TasksUntouched ==
    ASSUME IInv, UNCHANGED <<taskVars, workQueue>>, TypeOK'
    PROVE  IInv'
<1>1. QueuedOnce /\ RunsOnce /\ PendingPlaced /\ ClientsAtBottom /\ NotYetSubmitted
  BY DEF IInv
<1>2. UNCHANGED <<program, stack, future, workQueue>>
  BY DEF taskVars
<1>3. QueuedOnce' /\ RunsOnce' /\ PendingPlaced' /\ ClientsAtBottom'
  BY <1>1, <1>2 DEF QueuedOnce, RunsOnce, PendingPlaced, ClientsAtBottom, Queued, OnStack, Holds
<1>4. NotYetSubmitted'
  BY <1>1, <1>2 DEF NotYetSubmitted, Submits, Ahead, Queued, Holds
<1> QED BY <1>3, <1>4 DEF IInv

LEMMA CallStep ==
    ASSUME IInv, NEW t \in Threads, Get(t) \/ Help(t)
    PROVE  IInv' /\ \A v : OnStack(v)' <=> OnStack(v)
<1>1. CASE Get(t)
  <2>1. stack[t] # <<>>
    BY <1>1 DEF Get, Calls
  <2> QED BY <1>1, <2>1, AdvanceStep DEF Get
<1>2. CASE Help(t) /\ Settled(NextCall(t).task)
  <2>1. stack[t] # <<>>
    BY <1>2 DEF Help, Calls
  <2> QED BY <1>2, <2>1, AdvanceStep DEF Help
<1>3. CASE Help(t) /\ ~Settled(NextCall(t).task)
  <2>1. UNCHANGED <<taskVars, done, workQueue, started, pushed, life>> /\ pc' = [pc EXCEPT ![t] = "pop"]
    BY <1>3 DEF Help, Goto, taskVars
  <2>2. TypeOK'
    BY <2>1 DEF IInv, TypeOK, TasksTypeOK, taskVars
  <2>3. \A v : OnStack(v)' <=> OnStack(v)
    BY <2>1 DEF OnStack, Holds, taskVars
  <2> QED BY <2>1, <2>2, <2>3, TasksUntouched
<1> QED BY <1>1, <1>2, <1>3

-----------------------------------------------------------------------------
(* The steps of the constructor, the destructor and the workers' loop.     *)

LEMMA LoopStep ==
    ASSUME IInv, (\E w \in Threads : CheckDone(w)) \/ StartThread \/ StartFails \/ Constructed
                   \/ SetDone \/ AllPushed \/ Finished \/ UNCHANGED vars
    PROVE  IInv'
<1>0. TypeOK /\ NumThreads \in Nat
  BY TaskAssumption DEF IInv
<1>1. UNCHANGED <<taskVars, workQueue>>
  BY DEF CheckDone, StartThread, StartFails, Constructed, SetDone, AllPushed, Finished, vars
<1>2. TasksTypeOK' /\ workQueue' \in Seq(Tasks \cup {EmptyTask})
  BY <1>0, <1>1 DEF TypeOK, TasksTypeOK, taskVars
<1>3. CASE \E w \in Threads : CheckDone(w)
  BY <1>0, <1>1, <1>2, <1>3, TasksUntouched DEF TypeOK, CheckDone, Goto
<1>4. CASE StartThread
  <2>1. /\ started \in 0 .. NumThreads /\ started < NumThreads /\ started' = started + 1
        /\ pc' = [pc EXCEPT ![started] = "loop"]
    BY <1>0, <1>4 DEF StartThread, TypeOK
  <2>2. started' \in 0 .. NumThreads
    BY <1>0, <2>1
  <2> QED BY <1>0, <1>1, <1>2, <1>4, <2>1, <2>2, TasksUntouched DEF TypeOK, StartThread
<1>5. CASE StartFails \/ Constructed \/ SetDone \/ AllPushed
  <2>1. /\ done' \in BOOLEAN /\ life' \in Lives /\ UNCHANGED <<started, pushed, pc>>
    BY <1>0, <1>5 DEF StartFails, Constructed, SetDone, AllPushed, TypeOK, Lives
  <2> QED BY <1>0, <1>1, <1>2, <2>1, TasksUntouched DEF TypeOK
<1>6. CASE Finished \/ UNCHANGED vars
  <2>1. UNCHANGED <<done, started, pushed, life, pc>>
    BY <1>6 DEF Finished, vars
  <2> QED BY <1>0, <1>1, <1>2, <2>1, TasksUntouched DEF TypeOK
<1> QED BY <1>3, <1>4, <1>5, <1>6

LEMMA PushEmptyTaskStep ==
    ASSUME IInv, PushEmptyTask
    PROVE  IInv'
<1>1. /\ TypeOK /\ QueuedOnce /\ RunsOnce /\ PendingPlaced /\ ClientsAtBottom /\ NotYetSubmitted
      /\ workQueue' = Append(workQueue, EmptyTask)
      /\ UNCHANGED <<program, stack, future, done, started, life, pc>>
      /\ pushed < started /\ pushed' = pushed + 1
  BY DEF IInv, PushEmptyTask, taskVars
<1>2. EmptyTask \notin Tasks /\ NumThreads \in Nat
  BY TaskAssumption
<1>3. /\ workQueue' \in Seq(Tasks \cup {EmptyTask})
      /\ Len(workQueue) \in Nat /\ DOMAIN workQueue = 1 .. Len(workQueue)
      /\ DOMAIN workQueue' = 1 .. Len(workQueue) + 1
      /\ \A j \in DOMAIN workQueue : workQueue'[j] = workQueue[j]
      /\ workQueue'[Len(workQueue) + 1] = EmptyTask
      /\ \A v : Queued(v)' <=> Queued(v) \/ v = EmptyTask
  BY <1>1, AppendFacts
<1>4. TypeOK'
  <2>1. pushed' \in 0 .. NumThreads
    BY <1>1, <1>2 DEF TypeOK
  <2> QED BY <1>1, <1>3, <2>1 DEF TypeOK, TasksTypeOK
<1>5. QueuedOnce'
  <2> SUFFICES ASSUME NEW v \in Tasks, NEW j \in DOMAIN workQueue', NEW k \in DOMAIN workQueue',
                      workQueue'[j] = v, workQueue'[k] = v
               PROVE  j = k
    BY DEF QueuedOnce
  <2>1. j \in DOMAIN workQueue /\ k \in DOMAIN workQueue
    BY <1>2, <1>3
  <2> QED BY <2>1, <1>1, <1>3 DEF QueuedOnce
<1>6. \A v : OnStack(v)' <=> OnStack(v)
  BY <1>1 DEF OnStack, Holds
<1>7. RunsOnce' /\ ClientsAtBottom'
  BY <1>1 DEF RunsOnce, ClientsAtBottom, Holds
<1>8. PendingPlaced'
  BY <1>1, <1>2, <1>3, <1>6 DEF PendingPlaced
<1>9. NotYetSubmitted'
  BY <1>1, <1>2, <1>3 DEF NotYetSubmitted, Submits, Ahead, Holds
<1> QED BY <1>4, <1>5, <1>7, <1>8, <1>9 DEF IInv

\* What is still queued is destroyed: broken, and in no place.
LEMMA JoinStep ==
    ASSUME IInv, Join
    PROVE  IInv'
<1>1. /\ TypeOK /\ QueuedOnce /\ RunsOnce /\ PendingPlaced /\ ClientsAtBottom /\ NotYetSubmitted
      /\ workQueue' = <<>> /\ Break(workQueue)
      /\ life' \in Lives
      /\ UNCHANGED <<program, stack, done, started, pushed, pc>>
  BY DEF IInv, Join, Lives
<1>2. \A v \in Tasks : future'[v] = IF Queued(v) THEN "broken" ELSE future[v]
  BY <1>1 DEF Break, Queued
<1>3. future' \in [Tasks -> {"none", "pending", "ready", "broken"}]
  BY <1>1 DEF Break, TypeOK, TasksTypeOK
<1>4. workQueue' \in Seq(Tasks \cup {EmptyTask}) /\ DOMAIN workQueue' = {}
  BY <1>1
<1>5. \A v : ~Queued(v)'
  BY <1>4 DEF Queued
<1>6. \A v : OnStack(v)' <=> OnStack(v)
  BY <1>1 DEF OnStack, Holds
<1>7. TypeOK'
  BY <1>1, <1>3, <1>4 DEF TypeOK, TasksTypeOK
<1>8. QueuedOnce'
  BY <1>4 DEF QueuedOnce
<1>9. RunsOnce' /\ ClientsAtBottom'
  BY <1>1 DEF RunsOnce, ClientsAtBottom, Holds
<1>10. PendingPlaced'
  BY <1>1, <1>2, <1>5, <1>6 DEF PendingPlaced
<1>11. \A v \in Tasks : future'[v] = "none" <=> future[v] = "none"
  BY <1>1, <1>2 DEF PendingPlaced
<1>12. NotYetSubmitted'
  BY <1>1, <1>5, <1>11 DEF NotYetSubmitted, Submits, Ahead, Holds
<1> QED BY <1>7, <1>8, <1>9, <1>10, <1>12 DEF IInv

-----------------------------------------------------------------------------
(* The theorems.                                                           *)

LEMMA Starts == Init => IInv
<1> SUFFICES ASSUME Init PROVE IInv
  OBVIOUS
<1>1. /\ program \in Programs
      /\ stack = [t \in Threads |-> IF t \in Clients THEN <<[task |-> t, ip |-> 1]>> ELSE <<>>]
      /\ future = [u \in Tasks |-> "none"]
      /\ workQueue = <<>> /\ done = FALSE /\ started = 0 /\ pushed = 0 /\ life = "ctor"
      /\ pc = [t \in Threads |-> IF t \in Clients THEN "run" ELSE "none"]
  BY DEF Init, TasksInit
<1>2. ASSUME NEW t \in Threads
      PROVE  /\ stack[t] \in Seq(Frames)
             /\ \A k \in DOMAIN stack[t] : t \in Clients /\ k = 1 /\ stack[t][k].task = t
  <2>1. CASE t \in Clients
    <3>1. [task |-> t, ip |-> 1] \in Frames
      BY <2>1 DEF Frames, Callables
    <3>2. stack[t] = <<[task |-> t, ip |-> 1]>>
      BY <2>1, <1>1
    <3> QED BY <2>1, <3>1, <3>2
  <2>2. CASE t \notin Clients
    BY <2>2, <1>1
  <2> QED BY <2>1, <2>2
<1>3. TypeOK
  <2>1. stack \in [Threads -> Seq(Frames)]
    BY <1>1, <1>2
  <2>2. workQueue \in Seq(Tasks \cup {EmptyTask})
    BY <1>1
  <2>3. future \in [Tasks -> {"none", "pending", "ready", "broken"}]
    BY <1>1
  <2>4. pc \in [Threads -> {"none", "loop", "pop", "run", "ended"}]
    BY <1>1
  <2>5. started \in 0 .. NumThreads /\ pushed \in 0 .. NumThreads
    BY <1>1, TaskAssumption
  <2> QED BY <1>1, <2>1, <2>2, <2>3, <2>4, <2>5 DEF TypeOK, TasksTypeOK, Lives
<1>4. ASSUME NEW u \in Tasks PROVE ~Queued(u) /\ ~OnStack(u)
  <2>1. u \notin Clients
    BY TaskAssumption
  <2>2. ~Queued(u)
    BY <1>1 DEF Queued
  <2>3. ~OnStack(u)
    BY <1>2, <2>1 DEF OnStack, Holds
  <2> QED BY <2>2, <2>3
<1>5. QueuedOnce /\ RunsOnce /\ PendingPlaced
  BY <1>1, <1>4 DEF QueuedOnce, RunsOnce, PendingPlaced, Queued, OnStack
<1>6. ClientsAtBottom
  BY <1>2 DEF ClientsAtBottom
<1>7. NotYetSubmitted
  BY <1>1 DEF NotYetSubmitted
<1> QED BY <1>3, <1>5, <1>6, <1>7 DEF IInv

LEMMA Keeps == IInv /\ [Next]_vars => IInv'
<1> SUFFICES ASSUME IInv, [Next]_vars PROVE IInv'
  OBVIOUS
<1>1. CASE StartThread \/ StartFails \/ Constructed \/ SetDone \/ AllPushed \/ Finished \/ UNCHANGED vars
  BY <1>1, LoopStep
<1>2. CASE PushEmptyTask
  BY <1>2, PushEmptyTaskStep
<1>3. CASE Join
  BY <1>3, JoinStep
<1>4. ASSUME NEW t \in Threads, ThreadStep(t) PROVE IInv'
  <2>1. CASE CheckDone(t) BY <2>1, LoopStep
  <2>2. CASE RunPendingTask(t) BY <2>2, RunPendingTaskStep
  <2>3. CASE EndTask(t) BY <2>3, EndTaskStep
  <2>4. CASE Submit(t) BY <2>4, SubmitStep
  <2>5. CASE Get(t) \/ Help(t) BY <2>5, CallStep
  <2> QED BY <1>4, <2>1, <2>2, <2>3, <2>4, <2>5 DEF ThreadStep
<1> QED BY <1>1, <1>2, <1>3, <1>4 DEF Next, OwnerStep

\* The pool's state keeps its types, whatever the programs (ThreadPool.h:28-105).
THEOREM PoolTypes == Spec => []TypeOK
<1>1. IInv => TypeOK
  BY DEF IInv
<1> QED BY <1>1, Starts, Keeps, PTL DEF Spec

\* A set of at most one element has one or none.
LEMMA CardinalityOfOne ==
    ASSUME NEW S, \A x, y \in S : x = y
    PROVE  Cardinality(S) = IF S = {} THEN 0 ELSE 1
<1>1. CASE S = {} BY <1>1, FS_EmptySet
<1>2. CASE S # {}
  <2>1. PICK x \in S : S = {x} BY <1>2
  <2> QED BY <1>2, <2>1, FS_Singleton
<1> QED BY <1>1, <1>2

LEMMA Counting == IInv => TaskConserved
<1> SUFFICES ASSUME IInv, NEW u \in Tasks
             PROVE  InQueue(u, workQueue) + Running(u) = IF future[u] = "pending" THEN 1 ELSE 0
  BY DEF TaskConserved
<1> DEFINE Q == {i \in DOMAIN workQueue : workQueue[i] = u}
           R == {f \in UNION {{t} \X DOMAIN stack[t] : t \in Threads} : stack[f[1]][f[2]].task = u}
<1>1. QueuedOnce /\ RunsOnce /\ PendingPlaced /\ TypeOK
  BY DEF IInv
<1>2. \A i, j \in Q : i = j
  BY <1>1 DEF QueuedOnce
<1>3. Q = {} <=> ~Queued(u)
  BY DEF Queued
<1>4. \A f : f \in R <=> \E t \in Threads, k \in Nat : f = <<t, k>> /\ Holds(t, k, u)
  <2> SUFFICES ASSUME NEW f
               PROVE  f \in R <=> \E t \in Threads, k \in Nat : f = <<t, k>> /\ Holds(t, k, u)
    OBVIOUS
  <2>1. ASSUME f \in R
        PROVE  \E t \in Threads, k \in Nat : f = <<t, k>> /\ Holds(t, k, u)
    <3>1. PICK t \in Threads : f \in {t} \X DOMAIN stack[t]
      BY <2>1
    <3>2. PICK k \in DOMAIN stack[t] : f = <<t, k>>
      BY <3>1
    <3>3. k \in Nat
      BY <1>1, StackFacts
    <3>4. stack[t][k].task = u
      BY <2>1, <3>2
    <3> QED BY <3>2, <3>3, <3>4 DEF Holds
  <2>2. ASSUME NEW t \in Threads, NEW k \in Nat, f = <<t, k>>, Holds(t, k, u)
        PROVE  f \in R
    <3>1. f \in {t} \X DOMAIN stack[t] /\ stack[f[1]][f[2]].task = u
      BY <2>2 DEF Holds
    <3> QED BY <3>1
  <2> QED BY <2>1, <2>2
<1> HIDE DEF R, Q
<1>5. \A f, g \in R : f = g
  BY <1>1, <1>4 DEF RunsOnce
<1>6. R = {} <=> ~OnStack(u)
  BY <1>4 DEF OnStack
<1>7. /\ Cardinality(Q) = IF Queued(u) THEN 1 ELSE 0
      /\ Cardinality(R) = IF OnStack(u) THEN 1 ELSE 0
  BY <1>2, <1>3, <1>5, <1>6, CardinalityOfOne
<1>8. /\ ~(Queued(u) /\ OnStack(u))
      /\ (future[u] = "pending" <=> Queued(u) \/ OnStack(u))
  BY <1>1 DEF PendingPlaced
<1>9. Cardinality(Q) + Cardinality(R) = IF future[u] = "pending" THEN 1 ELSE 0
  <2>1. CASE Queued(u) BY <2>1, <1>7, <1>8
  <2>2. CASE ~Queued(u) /\ OnStack(u) BY <2>2, <1>7, <1>8
  <2>3. CASE ~Queued(u) /\ ~OnStack(u) BY <2>3, <1>7, <1>8
  <2> QED BY <2>1, <2>2, <2>3
<1> QED BY <1>9 DEF InQueue, Running, Q, R

\* No task is lost, duplicated or run twice, for any number of workers and any
\* programs of clients and tasks, which may also help (ThreadPool.h:80-92).
THEOREM TasksConserved == Spec => []TaskConserved
BY Starts, Keeps, Counting, PTL DEF Spec

-----------------------------------------------------------------------------
(* The empty tasks.  A task that helps may take one that a worker needs,   *)
(* so this holds of programs in which only clients do.                     *)

TasksDoNotHelp ==
    \A p \in Programs : \A u \in Tasks : \A i \in DOMAIN p[u] : p[u][i].call # "help"

Blocked == {w \in Workers : pc[w] = "pop"}

\* From SetDone on, the blocked workers are as many as the tasks in the queue and
\* the empty tasks still to come at most.
CoverInv ==
    /\ life = "alive" => started = NumThreads /\ pushed = 0
    /\ life = "ctor" => pushed = 0
    /\ life \in {"stop", "join"} =>
          /\ done
          /\ \A c \in Clients : pc[c] = "ended"
          /\ Cardinality(Blocked) + pushed <= Len(workQueue) + started
    /\ life = "join" => pushed = started

LEMMA BlockedFinite ==
    IsFiniteSet(Blocked) /\ Cardinality(Blocked) \in Nat /\ Cardinality(Blocked) <= NumThreads
<1>1. NumThreads \in Nat
  BY TaskAssumption
<1>2. IsFiniteSet(Workers) /\ Cardinality(Workers) = NumThreads
  <2>1. IsFiniteSet(0 .. NumThreads - 1)
        /\ Cardinality(0 .. NumThreads - 1) = IF 0 > NumThreads - 1 THEN 0 ELSE NumThreads - 1 - 0 + 1
    BY <1>1, FS_Interval
  <2> QED BY <1>1, <2>1 DEF Workers
<1>3. Blocked \subseteq Workers
  BY DEF Blocked
<1> QED BY <1>2, <1>3, FS_Subset, FS_CardinalityType

\* A worker's programs are tasks.
LEMMA WorkersRunTasks ==
    ASSUME IInv, TasksDoNotHelp, NEW w \in Workers
    PROVE  ~Calls(w, "help")
<1> SUFFICES ASSUME Calls(w, "help") PROVE FALSE
  OBVIOUS
<1>1. TypeOK /\ ClientsAtBottom /\ w \in Threads /\ w \notin Clients
  BY TaskAssumption DEF IInv, Threads
<1>2. /\ Holds(w, Len(stack[w]), Top(w).task) /\ Top(w).task \in Callables /\ Top(w).task # EmptyTask
      /\ Top(w).ip \in DOMAIN program[Top(w).task]
      /\ program[Top(w).task][Top(w).ip].call = "help"
  BY <1>1, CallFacts
<1>3. Top(w).task \notin Clients
  BY <1>1, <1>2 DEF ClientsAtBottom, Holds
<1>4. Top(w).task \in Tasks /\ program \in Programs
  BY <1>1, <1>2, <1>3 DEF Callables, TypeOK, TasksTypeOK
<1> QED BY <1>2, <1>4 DEF TasksDoNotHelp

LEMMA CoverKept ==
    ASSUME TasksDoNotHelp, IInv, CoverInv, [Next]_vars
    PROVE  CoverInv'
<1>0. /\ TypeOK /\ NumThreads \in Nat /\ started \in Nat /\ pushed \in Nat /\ Len(workQueue) \in Nat
      /\ pc \in [Threads -> {"none", "loop", "pop", "run", "ended"}]
      /\ Workers \subseteq Threads /\ Clients \subseteq Threads
      /\ \A w \in Workers : w \notin Clients
  BY TaskAssumption DEF IInv, TypeOK, Threads
<1>1. Cardinality(Blocked) \in Nat /\ Cardinality(Blocked) <= NumThreads /\ IsFiniteSet(Blocked)
  BY BlockedFinite
<1>2. CASE StartThread \/ StartFails
  BY <1>2 DEF CoverInv, StartThread, StartFails
<1>3. CASE Constructed
  BY <1>3 DEF CoverInv, Constructed
<1>4. CASE SetDone
  <2>1. Blocked' = Blocked
    BY <1>4 DEF SetDone, Blocked
  <2> QED BY <1>0, <1>1, <1>4, <2>1 DEF CoverInv, SetDone
<1>5. CASE PushEmptyTask
  <2>1. Blocked' = Blocked
    BY <1>5 DEF PushEmptyTask, Blocked
  <2>2. Len(workQueue') = Len(workQueue) + 1
    BY <1>0, <1>5, AppendFacts DEF PushEmptyTask
  <2> QED BY <1>0, <1>1, <1>5, <2>1, <2>2 DEF CoverInv, PushEmptyTask
<1>6. CASE AllPushed
  <2>1. Blocked' = Blocked
    BY <1>6 DEF AllPushed, Blocked
  <2> QED BY <1>6, <2>1 DEF CoverInv, AllPushed
<1>7. CASE Join
  BY <1>7 DEF CoverInv, Join
<1>8. CASE Finished \/ UNCHANGED vars
  BY <1>8 DEF CoverInv, Finished, vars, Blocked
<1>9. ASSUME NEW t \in Threads, ThreadStep(t) PROVE CoverInv'
  <2>1. UNCHANGED <<done, started, pushed, life>>
    BY <1>9 DEF ThreadStep, CheckDone, RunPendingTask, EndTask, Submit, Get, Help
  <2>2. CASE life \notin {"stop", "join"}
    BY <2>1, <2>2 DEF CoverInv
  <2>3. CASE life \in {"stop", "join"}
    <3>1. /\ done /\ \A c \in Clients : pc[c] = "ended"
          /\ Cardinality(Blocked) + pushed <= Len(workQueue) + started
      BY <2>3 DEF CoverInv
    <3>2. t \in Workers
      BY <1>0, <1>9, <2>3, <3>1 DEF ThreadStep, CheckDone, RunPendingTask, EndTask, Submit, Get, Help, MayRun, Threads
    <3>3. SUFFICES /\ \A c \in Clients : pc'[c] = "ended"
                   /\ Cardinality(Blocked') + pushed <= Len(workQueue') + started
      BY <2>1, <3>1 DEF CoverInv
    <3>4. CASE CheckDone(t) \/ EndTask(t)
      <4>1. /\ workQueue' = workQueue
            /\ pc[t] # "pop" /\ \E l \in {"run", "loop", "ended"} : pc' = [pc EXCEPT ![t] = l]
        BY <3>1, <3>2, <3>4 DEF CheckDone, EndTask, Goto
      <4>2. Blocked' = Blocked
        BY <1>0, <3>2, <4>1 DEF Blocked
      <4> QED BY <1>0, <3>1, <3>2, <4>1, <4>2
    <3>5. CASE RunPendingTask(t)
      <4>1. /\ pc[t] = "pop" /\ pc' = [pc EXCEPT ![t] = "run"]
            /\ workQueue # <<>> /\ workQueue' = Tail(workQueue)
        BY <3>5 DEF RunPendingTask, Goto
      <4>2. Blocked' = Blocked \ {t} /\ t \in Blocked
        BY <1>0, <3>2, <4>1 DEF Blocked
      <4>3. Cardinality(Blocked') = Cardinality(Blocked) - 1
        BY <1>1, <4>2, FS_RemoveElement
      <4>4. Len(workQueue') = Len(workQueue) - 1
        BY <1>0, <4>1, TailFacts
      <4> QED BY <1>0, <1>1, <3>1, <3>2, <4>1, <4>3, <4>4
    <3>6. CASE Submit(t)
      <4>1. pc' = pc /\ workQueue' = Append(workQueue, NextCall(t).task)
        BY <3>6 DEF Submit
      <4>2. NextCall(t).task \in Tasks
        BY <1>0, <3>6, CallFacts DEF Submit
      <4>3. Len(workQueue') = Len(workQueue) + 1
        BY <1>0, <4>1, <4>2, AppendFacts
      <4>4. Blocked' = Blocked
        BY <4>1 DEF Blocked
      <4> QED BY <1>0, <1>1, <3>1, <4>1, <4>3, <4>4
    <3>7. CASE Get(t)
      BY <3>1, <3>7 DEF Get, Blocked
    <3>8. CASE Help(t)
      BY <3>2, <3>8, WorkersRunTasks DEF Help
    <3> QED BY <1>9, <3>4, <3>5, <3>6, <3>7, <3>8 DEF ThreadStep
  <2> QED BY <2>2, <2>3
<1> QED BY <1>2, <1>3, <1>4, <1>5, <1>6, <1>7, <1>8, <1>9 DEF Next, OwnerStep

\* If only clients help, the destructor queues enough empty tasks, for any
\* number of workers: while it joins, every blocked worker has a task to pop
\* (ThreadPool.h:59-68).
THEOREM EmptyTasksSuffice == ASSUME TasksDoNotHelp PROVE Spec => []EmptyTasksCover
<1>1. Init => CoverInv
  BY DEF Init, CoverInv
<1>2. IInv /\ CoverInv /\ [Next]_vars => CoverInv'
  BY CoverKept
<1>3. IInv /\ CoverInv => EmptyTasksCover
  <2> SUFFICES ASSUME IInv, CoverInv, life = "join"
               PROVE  Cardinality(Blocked) <= Len(workQueue)
    BY DEF EmptyTasksCover, Blocked
  <2>1. Cardinality(Blocked) + pushed <= Len(workQueue) + started /\ pushed = started
    BY DEF CoverInv
  <2>2. started \in Nat /\ Len(workQueue) \in Nat
    BY TaskAssumption DEF IInv, TypeOK
  <2> QED BY <2>1, <2>2, BlockedFinite
<1> QED BY <1>1, <1>2, <1>3, Starts, Keeps, PTL DEF Spec

-----------------------------------------------------------------------------
(* The promises of TaskPool.                                               *)

\* Who has ended, or not begun, runs nothing; nothing is submitted before the
\* pool is built, and clients are through with it before it is destroyed.
PoolInv ==
    /\ \A t \in Threads : pc[t] \in {"none", "loop", "ended"} => stack[t] = <<>>
    /\ \A w \in Workers : w >= started => pc[w] = "none"
    /\ life \in {"ctor", "unwind", "threw"} => \A u \in Tasks : future[u] = "none"
    /\ life \in {"stop", "join", "dead"} => \A c \in Clients : pc[c] = "ended"
    /\ life \in {"dead", "threw"} => Joined

LEMMA PoolStarts == Init => PoolInv
<1> SUFFICES ASSUME Init PROVE PoolInv
  OBVIOUS
<1>1. /\ stack = [t \in Threads |-> IF t \in Clients THEN <<[task |-> t, ip |-> 1]>> ELSE <<>>]
      /\ future = [u \in Tasks |-> "none"]
      /\ started = 0 /\ life = "ctor"
      /\ pc = [t \in Threads |-> IF t \in Clients THEN "run" ELSE "none"]
  BY DEF Init, TasksInit
<1>2. \A t \in Threads : pc[t] \in {"none", "loop", "ended"} => stack[t] = <<>>
  BY <1>1
<1>3. \A w \in Workers : pc[w] = "none"
  BY <1>1, TaskAssumption DEF Threads
<1> QED BY <1>1, <1>2, <1>3 DEF PoolInv

LEMMA Placed ==
    ASSUME IInv, NEW u \in Tasks
    PROVE  future[u] = "pending" <=> Queued(u) \/ OnStack(u)
BY DEF IInv, PendingPlaced

\* What is on a stack keeps its thread from having an empty one.
LEMMA Loaded ==
    ASSUME NEW t \in Threads, NEW k, NEW u, Holds(t, k, u)
    PROVE  stack[t] # <<>>
BY DEF Holds

\* Once the threads are joined, no task is on a stack.
LEMMA JoinedIdle ==
    ASSUME IInv, PoolInv, life \in {"join", "unwind"}, Joined
    PROVE  \A u \in Tasks : ~OnStack(u)
<1> SUFFICES ASSUME NEW u \in Tasks, NEW t \in Threads, NEW k \in Nat, Holds(t, k, u)
             PROVE  FALSE
  BY DEF OnStack
<1>1. TypeOK /\ NumThreads \in Nat
  BY TaskAssumption DEF IInv
<1>2. pc[t] \notin {"none", "ended"}
  BY Loaded DEF PoolInv
<1>3. t \notin Workers
  <2> SUFFICES ASSUME t \in Workers PROVE FALSE
    OBVIOUS
  <2>1. t \in Nat /\ started \in Nat
    BY <1>1 DEF Workers, TypeOK
  <2>2. CASE t < started
    BY <2>2, <1>2 DEF Joined
  <2>3. CASE t >= started
    BY <2>3, <1>2 DEF PoolInv
  <2> QED BY <2>1, <2>2, <2>3
<1>4. life = "unwind"
  BY <1>2, <1>3 DEF PoolInv, Threads
<1>5. future[u] = "none"
  BY <1>4 DEF PoolInv
<1> QED BY <1>5, Placed DEF OnStack

\* A worker that runs a program, or a client that may, finds the pool open.
LEMMA RunsOpen ==
    ASSUME IInv, PoolInv, NEW t \in Threads, MayRun(t)
    PROVE  life \notin {"dead", "threw"}
<1>1. CASE t \in Clients
  BY <1>1 DEF MayRun
<1>2. CASE t \in Workers
  <2>1. t \in Nat /\ started \in Nat /\ pc[t] = "run"
    BY <1>2, TaskAssumption DEF MayRun, Workers, IInv, TypeOK
  <2>2. CASE t < started
    BY <1>2, <2>1, <2>2 DEF PoolInv, Joined
  <2>3. CASE t >= started
    BY <1>2, <2>1, <2>3 DEF PoolInv
  <2> QED BY <2>1, <2>2, <2>3
<1> QED BY <1>1, <1>2 DEF Threads

\* Before the pool is built no thread is at a call.
LEMMA NobodyCalls ==
    ASSUME IInv, PoolInv, NEW t \in Threads, MayRun(t), NEW l, Calls(t, l)
    PROVE  life \notin {"ctor", "unwind", "threw"}
<1> SUFFICES ASSUME life \in {"ctor", "unwind", "threw"} PROVE FALSE
  OBVIOUS
<1>1. TypeOK /\ ClientsAtBottom
  BY DEF IInv
<1>2. t \notin Clients
  BY DEF MayRun
<1>3. /\ Len(stack[t]) \in Nat /\ Holds(t, Len(stack[t]), Top(t).task)
      /\ Top(t).task \in Callables /\ Top(t).task # EmptyTask
  BY <1>1, CallFacts
<1>4. Top(t).task \notin Clients
  BY <1>1, <1>2, <1>3 DEF ClientsAtBottom, Holds
<1>5. Top(t).task \in Tasks /\ OnStack(Top(t).task)
  BY <1>3, <1>4 DEF Callables, OnStack
<1>6. future[Top(t).task] = "none"
  BY <1>5 DEF PoolInv
<1> QED BY <1>5, <1>6, Placed

LEMMA PoolKept ==
    ASSUME IInv, PoolInv, [Next]_vars
    PROVE  PoolInv'
<1>0. /\ TypeOK /\ NumThreads \in Nat /\ started \in Nat
      /\ pc \in [Threads -> {"none", "loop", "pop", "run", "ended"}]
      /\ stack \in [Threads -> Seq(Frames)]
      /\ future \in [Tasks -> {"none", "pending", "ready", "broken"}]
      /\ Workers \subseteq Threads /\ Clients \subseteq Threads
  BY TaskAssumption DEF IInv, TypeOK, TasksTypeOK, Threads
<1>10. \A w \in Workers : w \notin Clients /\ w \in Nat
  BY TaskAssumption DEF Workers
<1>1. CASE StartThread
  <2>1. /\ life = "ctor" /\ life' = "ctor" /\ started < NumThreads /\ started' = started + 1
        /\ pc' = [pc EXCEPT ![started] = "loop"] /\ stack' = stack /\ future' = future
    BY <1>1 DEF StartThread, taskVars
  <2>2. started \in Workers /\ started \in Threads
    BY <1>0, <2>1 DEF Workers
  <2>3. stack[started] = <<>>
    BY <1>0, <2>2 DEF PoolInv
  <2>4. \A w \in Workers : w >= started + 1 => pc'[w] = "none"
    BY <1>0, <1>10, <2>1, <2>2 DEF PoolInv
  <2>5. \A t \in Threads : pc'[t] \in {"none", "loop", "ended"} => stack[t] = <<>>
    BY <1>0, <2>1, <2>3 DEF PoolInv
  <2> QED BY <2>1, <2>4, <2>5 DEF PoolInv
<1>2. CASE StartFails \/ Constructed \/ SetDone \/ PushEmptyTask \/ AllPushed
  <2>1. UNCHANGED <<stack, future, started, pc>>
    BY <1>2 DEF StartFails, Constructed, SetDone, PushEmptyTask, AllPushed, taskVars
  <2>2. /\ life' \in {"unwind", "alive", "stop", "join"}
        /\ life' = "unwind" => life = "ctor"
        /\ life' = "join" => life = "stop"
        /\ life' = "stop" => life = "stop" \/ \A c \in Clients : pc[c] = "ended"
    BY <1>2 DEF StartFails, Constructed, SetDone, PushEmptyTask, AllPushed
  <2> QED BY <2>1, <2>2 DEF PoolInv
<1>3. CASE Join
  <2>1. /\ UNCHANGED <<stack, started, pc>> /\ Joined /\ Break(workQueue)
        /\ (life = "join" /\ life' = "dead") \/ (life = "unwind" /\ life' = "threw")
    BY <1>3 DEF Join
  <2>2. ASSUME life = "unwind", NEW u \in Tasks
        PROVE  future'[u] = "none"
    <3>1. future[u] = "none" /\ ~Queued(u)
      BY <2>2, Placed DEF PoolInv
    <3> QED BY <2>1, <3>1 DEF Break, Queued
  <2>3. Joined'
    BY <2>1 DEF Joined
  <2> QED BY <2>1, <2>2, <2>3 DEF PoolInv
<1>4. CASE Finished \/ UNCHANGED vars
  BY <1>4 DEF Finished, vars, taskVars, PoolInv, Joined
<1>5. ASSUME NEW t \in Threads, ThreadStep(t)
      PROVE  PoolInv'
  <2>1. UNCHANGED <<started, life>>
    BY <1>5 DEF ThreadStep, CheckDone, RunPendingTask, EndTask, Submit, Get, Help
  <2>2. \E l \in {"loop", "pop", "run", "ended"} : pc' = [pc EXCEPT ![t] = l]
    <3>1. pc' = [pc EXCEPT ![t] = pc[t]] \/ \E l \in {"loop", "pop", "run", "ended"} : pc' = [pc EXCEPT ![t] = l]
      BY <1>0, <1>5 DEF ThreadStep, CheckDone, RunPendingTask, EndTask, Submit, Get, Help, Goto
    <3>2. pc[t] \in {"loop", "pop", "run"}
      BY <1>5 DEF ThreadStep, CheckDone, RunPendingTask, EndTask, Submit, Get, Help, MayRun
    <3> QED BY <3>1, <3>2
  <2>3. pc[t] \in {"loop", "pop", "run"}
    BY <1>5 DEF ThreadStep, CheckDone, RunPendingTask, EndTask, Submit, Get, Help, MayRun
  <2>4. \A s \in Threads : s # t => pc'[s] = pc[s] /\ stack'[s] = stack[s]
    <3>1. \A s \in Threads : s # t => stack'[s] = stack[s]
      BY <1>0, <1>5 DEF ThreadStep, CheckDone, RunPendingTask, EndTask, Submit, Get, Help,
                        Start, Finish, Advance, taskVars
    <3> QED BY <1>0, <2>2, <3>1
  <2>5. pc'[t] \in {"none", "loop", "ended"} => stack'[t] = <<>>
    <3>1. CASE CheckDone(t)
      <4>1. pc[t] = "loop" /\ stack' = stack
        BY <3>1 DEF CheckDone, taskVars
      <4> QED BY <4>1 DEF PoolInv
    <3>2. CASE RunPendingTask(t)
      <4>1. pc'[t] = "run"
        BY <1>0, <3>2 DEF RunPendingTask, Goto
      <4> QED BY <4>1
    <3>3. CASE EndTask(t)
      <4>1. /\ stack[t] # <<>> /\ stack'[t] = SubSeq(stack[t], 1, Len(stack[t]) - 1)
            /\ Len(stack[t]) > 1 => pc'[t] = "run"
        BY <1>0, <3>3 DEF EndTask, Finish, Goto
      <4>2. stack[t] \in Seq(Frames) /\ Len(stack[t]) \in Nat \ {0}
        BY <1>0, <4>1
      <4>3. Len(stack[t]) = 1 => stack'[t] = <<>>
        BY <4>1, <4>2
      <4> QED BY <4>1, <4>2, <4>3
    <3>4. CASE Submit(t) \/ Get(t)
      <4>1. pc'[t] = "run"
        BY <3>4 DEF Submit, Get, MayRun
      <4> QED BY <4>1
    <3>5. CASE Help(t)
      <4>1. pc'[t] \in {"run", "pop"}
        BY <1>0, <3>5 DEF Help, MayRun, Goto
      <4> QED BY <4>1
    <3> QED BY <1>5, <3>1, <3>2, <3>3, <3>4, <3>5 DEF ThreadStep
  <2>6. \A w \in Workers : w >= started => pc'[w] = "none"
    BY <1>0, <1>10, <2>3, <2>4 DEF PoolInv
  <2>7. ASSUME life \in {"ctor", "unwind", "threw"}, NEW u \in Tasks
        PROVE  future'[u] = "none"
    <3>1. future[u] = "none"
      BY <2>7 DEF PoolInv
    <3>2. CASE EndTask(t)
      <4>1. Top(t).task \in Tasks => future[Top(t).task] = "pending"
        BY <3>2, EndTaskStep
      <4>2. Top(t).task \notin Tasks
        BY <4>1, <2>7 DEF PoolInv
      <4> QED BY <3>1, <3>2, <4>2 DEF EndTask, Finish
    <3>3. ~Submit(t)
      BY <2>7, NobodyCalls DEF Submit
    <3>4. CASE CheckDone(t) \/ RunPendingTask(t) \/ Get(t) \/ Help(t)
      BY <3>1, <3>4 DEF CheckDone, RunPendingTask, Get, Help, taskVars
    <3> QED BY <1>5, <3>2, <3>3, <3>4 DEF ThreadStep
  <2>8. life \in {"stop", "join", "dead"} => \A c \in Clients : pc'[c] = "ended"
    BY <1>0, <1>10, <2>3, <2>4 DEF PoolInv
  <2>9. life \in {"dead", "threw"} => Joined'
    BY <1>0, <1>10, <2>1, <2>3, <2>4 DEF PoolInv, Joined
  <2> QED BY <2>1, <2>4, <2>5, <2>6, <2>7, <2>8, <2>9 DEF PoolInv
<1> QED BY <1>1, <1>2, <1>3, <1>4, <1>5 DEF Next, OwnerStep

\* What has become of the tasks, by the places where they are.
StateSays ==
    /\ DOMAIN TaskState = Tasks
    /\ \A u \in Tasks : TaskState[u] = IF future[u] # "pending" THEN future[u]
                                       ELSE IF OnStack(u) THEN "running" ELSE "waiting"

LEMMA StateNow == ASSUME TypeOK PROVE StateSays
<1>1. \A t \in Threads : \A k \in DOMAIN stack[t] : k \in Nat
  BY StackFacts
<1>2. \A u : OnStack(u) <=> \E t \in Threads : Runs(t, u)
  BY <1>1 DEF OnStack, Holds, Runs
<1> QED BY <1>2 DEF StateSays, TaskState

LEMMA StateNext == TypeOK' => StateSays'
<1>1. TypeOK => StateSays
  BY StateNow
<1> QED BY <1>1, PTL

\* A step that changes one task.
LEMMA OneMoves ==
    ASSUME TypeOK, TypeOK', NEW u \in Tasks, NEW s, TaskState'[u] = s,
           \A v \in Tasks : v # u => future'[v] = future[v] /\ (OnStack(v)' <=> OnStack(v))
    PROVE  TaskState' = [TaskState EXCEPT ![u] = s]
<1>1. StateSays /\ StateSays'
  BY StateNow, StateNext
<1>2. \A v \in Tasks : v # u => TaskState'[v] = TaskState[v]
  BY <1>1 DEF StateSays
<1>3. TaskState = [v \in Tasks |-> TaskState[v]] /\ TaskState' = [v \in Tasks |-> TaskState'[v]]
  BY DEF TaskState
<1> QED BY <1>1, <1>2, <1>3 DEF StateSays

\* A step that changes none.
LEMMA NoneMoves ==
    ASSUME TypeOK, TypeOK',
           \A v \in Tasks : future'[v] = future[v] /\ (OnStack(v)' <=> OnStack(v))
    PROVE  TaskState' = TaskState
<1>1. StateSays /\ StateSays'
  BY StateNow, StateNext
<1>2. \A v \in Tasks : TaskState'[v] = TaskState[v]
  BY <1>1 DEF StateSays
<1>3. TaskState = [v \in Tasks |-> TaskState[v]] /\ TaskState' = [v \in Tasks |-> TaskState'[v]]
  BY DEF TaskState
<1> QED BY <1>2, <1>3

\* The steps of the pool are steps of TaskPool, or none.
LEMMA PromisesKept ==
    ASSUME IInv, PoolInv, IInv', [Next]_vars
    PROVE  [Promised!Next]_(Promised!vars)
<1> DEFINE isOpen == life \notin {"dead", "threw"}
<1>0. TypeOK /\ TypeOK' /\ StateSays /\ StateSays'
  BY StateNow, StateNext DEF IInv
<1>1. CASE StartThread \/ StartFails \/ Constructed \/ SetDone \/ PushEmptyTask \/ AllPushed
  <2>1. UNCHANGED <<stack, future>> /\ isOpen /\ isOpen'
    BY <1>1 DEF StartThread, StartFails, Constructed, SetDone, PushEmptyTask, AllPushed, taskVars
  <2>2. TaskState' = TaskState
    BY <2>1 DEF TaskState, Runs
  <2> QED BY <2>1, <2>2 DEF Promised!vars
<1>2. CASE Join
  <2>1. /\ life \in {"join", "unwind"} /\ Joined /\ Break(workQueue) /\ stack' = stack
        /\ isOpen /\ ~isOpen'
    BY <1>2 DEF Join
  <2>2. \A u \in Tasks : ~OnStack(u) /\ ~OnStack(u)'
    BY <2>1, JoinedIdle DEF OnStack, Holds
  <2>3. \A u \in Tasks : future'[u] = IF Queued(u) THEN "broken" ELSE future[u]
    BY <2>1 DEF Break, Queued
  <2>4. ASSUME NEW u \in Tasks
        PROVE  /\ TaskState[u] # "running"
               /\ TaskState'[u] = IF TaskState[u] = "waiting" THEN "broken" ELSE TaskState[u]
    <3>1. future[u] = "pending" <=> Queued(u)
      BY <2>2, Placed
    <3>2. TaskState[u] = IF future[u] # "pending" THEN future[u] ELSE "waiting"
      BY <1>0, <2>2 DEF StateSays
    <3>3. TaskState'[u] = IF future'[u] # "pending" THEN future'[u] ELSE "waiting"
      BY <1>0, <2>2 DEF StateSays
    <3>4. future[u] \in {"none", "pending", "ready", "broken"}
      BY <1>0 DEF TypeOK, TasksTypeOK
    <3> QED BY <2>3, <3>1, <3>2, <3>3, <3>4
  <2>5. TaskState' = [u \in Tasks |-> IF TaskState[u] = "waiting" THEN "broken" ELSE TaskState[u]]
    BY <2>4 DEF TaskState
  <2>6. Promised!Close
    BY <2>1, <2>4, <2>5 DEF Promised!Close, Promised!Waiting, Promised!Running
  <2> QED BY <2>6 DEF Promised!Next
<1>3. CASE Finished \/ UNCHANGED vars
  <2>1. UNCHANGED <<stack, future, life>>
    BY <1>3 DEF Finished, vars, taskVars
  <2>2. TaskState' = TaskState
    BY <2>1 DEF TaskState, Runs
  <2> QED BY <2>1, <2>2 DEF Promised!vars
<1>4. ASSUME NEW t \in Threads, ThreadStep(t)
      PROVE  [Promised!Next]_(Promised!vars)
  <2>1. isOpen' = isOpen
    BY <1>4 DEF ThreadStep, CheckDone, RunPendingTask, EndTask, Submit, Get, Help
  <2>2. CASE CheckDone(t) \/ Get(t) \/ Help(t)
    <3>1. \A v \in Tasks : future'[v] = future[v] /\ (OnStack(v)' <=> OnStack(v))
      BY <2>2, CallStep DEF CheckDone, Get, Help, taskVars, OnStack, Holds
    <3>2. TaskState' = TaskState
      BY <1>0, <3>1, NoneMoves
    <3> QED BY <2>1, <3>2 DEF Promised!vars
  <2>3. CASE RunPendingTask(t)
    <3> DEFINE u == Head(workQueue)
    <3>1. /\ \A v : OnStack(v)' <=> OnStack(v) \/ v = u
          /\ future' = future
      BY <2>3, RunPendingTaskStep DEF RunPendingTask
    <3>2. CASE u \in Tasks
      <4>1. Queued(u)
        BY <1>0, <2>3, TailQueued DEF RunPendingTask
      <4>2. future[u] = "pending" /\ ~OnStack(u)
        BY <3>2, <4>1 DEF IInv, PendingPlaced
      <4>3. TaskState[u] = "waiting" /\ TaskState'[u] = "running"
        BY <1>0, <3>1, <3>2, <4>2 DEF StateSays
      <4>4. TaskState' = [TaskState EXCEPT ![u] = "running"]
        BY <1>0, <3>1, <3>2, <4>3, OneMoves
      <4>5. Promised!Begin(u)
        BY <2>1, <4>3, <4>4 DEF Promised!Begin, Promised!Become
      <4> QED BY <3>2, <4>5 DEF Promised!Next
    <3>3. CASE u \notin Tasks
      <4>1. TaskState' = TaskState
        BY <1>0, <3>1, <3>3, NoneMoves
      <4> QED BY <2>1, <4>1 DEF Promised!vars
    <3> QED BY <3>2, <3>3
  <2>4. CASE EndTask(t)
    <3> DEFINE u == Top(t).task
    <3>1. /\ \A v \in Tasks : OnStack(v)' <=> OnStack(v) /\ v # u
          /\ u \in Tasks => future[u] = "pending" /\ OnStack(u)
          /\ future' = IF u \in Tasks THEN [future EXCEPT ![u] = "ready"] ELSE future
      BY <2>4, EndTaskStep DEF EndTask, Finish
    <3> HIDE DEF u
    <3>2. CASE u \in Tasks
      <4>1. future'[u] = "ready" /\ \A v \in Tasks : v # u => future'[v] = future[v]
        BY <1>0, <3>1, <3>2 DEF TypeOK, TasksTypeOK
      <4>2. TaskState[u] = "running" /\ TaskState'[u] = "ready"
        BY <1>0, <3>1, <3>2, <4>1 DEF StateSays
      <4>3. TaskState' = [TaskState EXCEPT ![u] = "ready"]
        BY <1>0, <3>1, <3>2, <4>1, <4>2, OneMoves
      <4>4. Promised!End(u)
        BY <2>1, <4>2, <4>3 DEF Promised!End, Promised!Become
      <4> QED BY <3>2, <4>4 DEF Promised!Next
    <3>3. CASE u \notin Tasks
      <4>1. TaskState' = TaskState
        BY <1>0, <3>1, <3>3, NoneMoves
      <4> QED BY <2>1, <4>1 DEF Promised!vars
    <3> QED BY <3>2, <3>3
  <2>5. CASE Submit(t)
    <3> DEFINE u == NextCall(t).task
    <3>1. /\ \A v : OnStack(v)' <=> OnStack(v)
          /\ u \in Tasks /\ future[u] = "none"
          /\ future' = [future EXCEPT ![u] = "pending"]
      BY <2>5, SubmitStep DEF Submit
    <3>2. isOpen
      BY <2>5, RunsOpen DEF Submit
    <3> HIDE DEF u
    <3>3. future'[u] = "pending" /\ \A v \in Tasks : v # u => future'[v] = future[v]
      BY <1>0, <3>1 DEF TypeOK, TasksTypeOK
    <3>4. ~OnStack(u)
      BY <3>1, Placed
    <3>5. TaskState[u] = "none" /\ TaskState'[u] = "waiting"
      BY <1>0, <3>1, <3>3, <3>4 DEF StateSays
    <3>6. TaskState' = [TaskState EXCEPT ![u] = "waiting"]
      BY <1>0, <3>1, <3>3, <3>5, OneMoves
    <3>7. Promised!Submit(u)
      BY <2>1, <3>2, <3>5, <3>6 DEF Promised!Submit, Promised!Become
    <3> QED BY <3>1, <3>7 DEF Promised!Next
  <2> QED BY <1>4, <2>2, <2>3, <2>4, <2>5 DEF ThreadStep
<1> QED BY <1>1, <1>2, <1>3, <1>4 DEF Next, OwnerStep

\* The pool keeps its promises for any number of workers and any programs of
\* clients and tasks: each submitted task begins once and ends, or is destroyed
\* when every thread has been joined, none runs after that, and what the pool
\* no longer runs it does not leave to wait (ThreadPool.h:59-92).
THEOREM PromisesHold == Spec => ImplementsTaskPool
<1>1. Init => Promised!Init
  <2> SUFFICES ASSUME Init PROVE Promised!Init
    OBVIOUS
  <2>1. future = [u \in Tasks |-> "none"] /\ life = "ctor"
    BY DEF Init, TasksInit
  <2>2. TaskState = [u \in Tasks |-> "none"]
    BY <2>1 DEF TaskState
  <2> QED BY <2>1, <2>2 DEF Promised!Init
<1>2. IInv /\ PoolInv /\ [Next]_vars => PoolInv'
  BY PoolKept
<1>3. IInv /\ PoolInv /\ IInv' /\ [Next]_vars => [Promised!Next]_(Promised!vars)
  BY PromisesKept
<1> QED BY <1>1, <1>2, <1>3, Starts, Keeps, PoolStarts, PTL DEF Spec, ImplementsTaskPool, Promised!Spec, Promised!vars
=============================================================================
